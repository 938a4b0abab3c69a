---------------------------- MODULE NetworkProofs ----------------------------
(***************************************************************************)
(* Proofs about Swarm, Marketplace, NodeScheduler, InferenceStream and     *)
(* Reputation, which share no state.                                       *)
(***************************************************************************)
EXTENDS Swarm, Marketplace, NodeScheduler, Reputation, InferenceStream,
        SumTheorems, SequenceTheorems, FiniteSetTheorems, TLAPS


-----------------------------------------------------------------------------
(* Types.                                                                  *)

LEMMA SchedulerTypesInit == SchedulerInit => SchedulerTypeOK
  BY SchedulerAssumption DEF SchedulerInit, SchedulerTypeOK

LEMMA WaitingTail ==
    ASSUME NEW S, NEW s \in Seq(S), s # <<>>
    PROVE  /\ Head(s) \in S /\ Head(s) = s[1] /\ Tail(s) \in Seq(S)
           /\ Len(s) \in Nat \ {0} /\ Len(Tail(s)) = Len(s) - 1
           /\ \A i \in 1..Len(Tail(s)) : Tail(s)[i] = s[i + 1]
  BY HeadTailProperties, EmptySeq

\* A permit that is given back goes to the head of those that wait.
LEMMA GiveBackTypes ==
    ASSUME SchedulerTypeOK, NEW j \in Jobs, NEW end \in {"done", "panicked"}, GiveBack(j, end)
    PROVE  /\ task' \in [Jobs -> {"none", "spawned", "waiting", "done", "panicked"} \union Holding]
           /\ waiting' \in Seq(Jobs) /\ free' \in Nat
<1>1. CASE waiting = <<>>
  BY <1>1 DEF GiveBack, SchedulerTypeOK
<1>2. CASE waiting # <<>>
  <2>1. Head(waiting) \in Jobs /\ Tail(waiting) \in Seq(Jobs)
    BY <1>2, WaitingTail DEF SchedulerTypeOK
  <2>2. /\ task' = [task EXCEPT ![j] = end, ![Head(waiting)] = "permit"]
        /\ waiting' = Tail(waiting) /\ UNCHANGED free
    BY <1>2 DEF GiveBack
  <2>. QED  BY <2>1, <2>2 DEF SchedulerTypeOK, Holding
<1>. QED  BY <1>1, <1>2

LEMMA SchedulerTypesStep ==
    ASSUME SchedulerTypeOK, [SchedulerNext]_schedulerVars
    PROVE  SchedulerTypeOK'
<1>. USE SchedulerAssumption DEF SchedulerTypeOK, Holding
<1>1. CASE UNCHANGED schedulerVars
  BY <1>1 DEF schedulerVars
<1>2. ASSUME NEW c \in Callers, Push(c) \/ GiveUp(c) \/ \E j \in Jobs : ReadDepth(c, j)
      PROVE  SchedulerTypeOK'
  <2>1. CASE Push(c)
    BY <2>1 DEF Push
  <2>2. CASE GiveUp(c)
    BY <2>2 DEF GiveUp
  <2>3. ASSUME NEW j \in Jobs, ReadDepth(c, j)
        PROVE  SchedulerTypeOK'
    BY <2>3 DEF ReadDepth, Refused
  <2>. QED  BY <1>2, <2>1, <2>2, <2>3
<1>3. ASSUME NEW j \in Jobs, Task(j) \/ Panic(j) \/ StreamDropped(j)
      PROVE  SchedulerTypeOK'
  <2>1. CASE Acquire(j) /\ free > 0
    BY <2>1 DEF Acquire, Step
  <2>2. CASE Acquire(j) /\ ~(free > 0)
    <3>1. Append(waiting, j) \in Seq(Jobs)
      BY AppendProperties
    <3>. QED  BY <2>2, <3>1 DEF Acquire, Step
  <2>3. CASE LeaveQueue(j)
    BY <2>3 DEF LeaveQueue, Step
  <2>4. CASE Activate(j)
    BY <2>4 DEF Activate, Step
  <2>5. CASE Answer(j)
    BY <2>5 DEF Answer, Step
  <2>6. CASE Deactivate(j)
    BY <2>6 DEF Deactivate, Step
  <2>7. CASE Release(j)
    BY <2>7, GiveBackTypes DEF Release
  <2>8. CASE Panic(j)
    BY <2>8, GiveBackTypes DEF Panic
  <2>9. CASE StreamDropped(j)
    BY <2>9 DEF StreamDropped
  <2>. QED  BY <1>3, <2>1, <2>2, <2>3, <2>4, <2>5, <2>6, <2>7, <2>8, <2>9 DEF Task
<1>. QED  BY <1>1, <1>2, <1>3 DEF SchedulerNext

-----------------------------------------------------------------------------
(* The invariant.                                                          *)

Told == {c \in Callers : caller[c] # NoJob}

\* The semaphore queues tasks that wait, each once.
WaitersWait ==
    /\ \A i \in 1..Len(waiting) : task[waiting[i]] = "waiting"
    /\ \A i, j \in 1..Len(waiting) : waiting[i] = waiting[j] => i = j

\* A job that is about to be pushed is pushed by one caller, for the first time.
ToldOnce ==
    /\ \A c \in Told : caller[c] \in Jobs /\ task[caller[c]] = "none"
    /\ \A c, d \in Told : caller[c] = caller[d] => c = d

\* What was pushed, and what is about to be.
DepthIsBounded ==
    Cardinality(queue) + Cardinality(Told) <= MaxQueue + Cardinality(Callers) - 1

SchedulerInv ==
    /\ SchedulerTypeOK
    /\ SlotsAreUsed
    /\ WaitersWait
    /\ ActiveIsOpening
    /\ QueueIsAccurate
    /\ ToldOnce
    /\ DepthIsBounded

LEMMA FiniteParts ==
    ASSUME SchedulerTypeOK
    PROVE  /\ IsFiniteSet(Held) /\ Cardinality(Held) \in Nat
           /\ IsFiniteSet(queue) /\ Cardinality(queue) \in Nat
           /\ IsFiniteSet(Told) /\ Cardinality(Told) \in Nat /\ Cardinality(Told) <= Cardinality(Callers)
           /\ Cardinality(Callers) \in Nat \ {0}
<1>1. IsFiniteSet(Callers) /\ IsFiniteSet(Jobs) /\ Callers # {}
  BY SchedulerAssumption
<1>2. Held \subseteq Jobs /\ queue \subseteq Jobs /\ Told \subseteq Callers
  BY DEF Held, Told, SchedulerTypeOK
<1>3. IsFiniteSet(Held) /\ IsFiniteSet(queue) /\ IsFiniteSet(Told) /\ Cardinality(Told) <= Cardinality(Callers)
  BY <1>1, <1>2, FS_Subset
<1>. QED  BY <1>1, <1>3, FS_CardinalityType, FS_EmptySet

LEMMA OneMore ==
    ASSUME NEW S, IsFiniteSet(S), NEW x, x \notin S
    PROVE  IsFiniteSet(S \union {x}) /\ Cardinality(S \union {x}) = Cardinality(S) + 1
  BY FS_AddElement

LEMMA OneLess ==
    ASSUME NEW S, IsFiniteSet(S), NEW x \in S
    PROVE  IsFiniteSet(S \ {x}) /\ Cardinality(S \ {x}) = Cardinality(S) - 1
  BY FS_RemoveElement

-----------------------------------------------------------------------------
(* The steps of a caller.                                                  *)

\* What concerns the tasks is left alone.
LEMMA TasksKept ==
    ASSUME SchedulerInv, UNCHANGED <<task, active, waiting, free>>
    PROVE  SlotsAreUsed' /\ WaitersWait' /\ ActiveIsOpening'
<1>1. Held' = Held /\ (Opening \union Panicked)' = Opening \union Panicked
  BY DEF Held, Opening, Panicked
<1>. QED  BY <1>1 DEF SchedulerInv, SlotsAreUsed, WaitersWait, ActiveIsOpening

\* A caller is told that there is room, by a depth that may be out of date when
\* it pushes: the others may have been told the same.
LEMMA ReadDepthCounts ==
    ASSUME SchedulerInv, NEW c \in Callers, NEW j \in Jobs, ReadDepth(c, j), HasRoom(queue)
    PROVE  QueueIsAccurate' /\ ToldOnce' /\ DepthIsBounded'
<1>1. /\ caller' = [caller EXCEPT ![c] = j] /\ UNCHANGED <<task, queue>>
      /\ caller[c] = NoJob /\ task[j] = "none" /\ \A d \in Callers : caller[d] # j
  BY DEF ReadDepth
<1>2. caller \in [Callers -> Jobs \union {NoJob}] /\ j # NoJob
  BY SchedulerAssumption DEF SchedulerInv, SchedulerTypeOK
<1>3. Told' = Told \union {c} /\ c \notin Told
  BY <1>1, <1>2 DEF Told
<1>4. ToldOnce'
  BY <1>1, <1>2, <1>3 DEF SchedulerInv, ToldOnce, Told
<1>5. DepthIsBounded'
  <2>1. Cardinality(Told') = Cardinality(Told) + 1
    BY <1>3, FiniteParts, OneMore DEF SchedulerInv
  <2>2. Cardinality(Told') <= Cardinality(Callers)
    <3>1. Told' \subseteq Callers
      BY <1>3 DEF Told
    <3>. QED  BY <3>1, FS_Subset, SchedulerAssumption
  <2>3. /\ Cardinality(queue) \in Nat /\ Cardinality(Told) \in Nat /\ Cardinality(Callers) \in Nat
        /\ MaxQueue \in Nat /\ Cardinality(queue) < MaxQueue
    BY FiniteParts, SchedulerAssumption DEF SchedulerInv, HasRoom
  <2>. DEFINE told == Cardinality(Told')
  <2>. HIDE DEF told
  <2>4. Cardinality(queue) + told <= MaxQueue + Cardinality(Callers) - 1
    BY <2>1, <2>2, <2>3 DEF told
  <2>. QED  BY <1>1, <2>4 DEF DepthIsBounded, told
<1>. QED  BY <1>1, <1>4, <1>5 DEF SchedulerInv, QueueIsAccurate

\* The job it was told there is room for is in the queue from now on.
LEMMA PushCounts ==
    ASSUME SchedulerInv, NEW c \in Callers, Push(c)
    PROVE  SchedulerInv'
<1>. DEFINE j == caller[c]
<1>1. /\ caller[c] # NoJob /\ queue' = queue \union {j} /\ task' = [task EXCEPT ![j] = "spawned"]
      /\ caller' = [caller EXCEPT ![c] = NoJob] /\ UNCHANGED <<active, waiting, free>>
  BY DEF Push
<1>2. c \in Told /\ j \in Jobs /\ task[j] = "none" /\ \A d \in Told : caller[d] = j => d = c
  BY <1>1 DEF Told, SchedulerInv, ToldOnce
<1>3. /\ task \in [Jobs -> {"none", "spawned", "waiting", "done", "panicked"} \union Holding]
      /\ caller \in [Callers -> Jobs \union {NoJob}]
  BY DEF SchedulerInv, SchedulerTypeOK
<1>4. Held' = Held /\ Opening' = Opening /\ Panicked' = Panicked
  BY <1>1, <1>2, <1>3 DEF Held, Opening, Panicked, Holding
<1>5. Told' = Told \ {c}
  BY <1>1, <1>3 DEF Told
<1>6. WaitersWait'
  BY <1>1, <1>2, <1>3 DEF SchedulerInv, SchedulerTypeOK, WaitersWait
<1>7. QueueIsAccurate' /\ j \notin queue
  BY <1>1, <1>2, <1>3 DEF SchedulerInv, QueueIsAccurate
<1>8. ToldOnce'
  BY <1>1, <1>2, <1>3, <1>5 DEF SchedulerInv, ToldOnce, Told
<1>9. DepthIsBounded'
  <2>1. Cardinality(queue') = Cardinality(queue) + 1 /\ Cardinality(Told') = Cardinality(Told) - 1
    BY <1>1, <1>2, <1>5, <1>7, FiniteParts, OneMore, OneLess DEF SchedulerInv
  <2>2. Cardinality(queue) \in Nat /\ Cardinality(Told) \in Nat
    BY FiniteParts DEF SchedulerInv
  <2>3. Cardinality(queue') + Cardinality(Told') = Cardinality(queue) + Cardinality(Told)
    BY <2>1, <2>2
  <2>. QED  BY <2>3 DEF SchedulerInv, DepthIsBounded
<1>10. SchedulerTypeOK'
  BY SchedulerTypesStep DEF SchedulerInv, SchedulerNext
<1>. QED  BY <1>1, <1>4, <1>6, <1>7, <1>8, <1>9, <1>10 DEF SchedulerInv, SlotsAreUsed, ActiveIsOpening

LEMMA GiveUpCounts ==
    ASSUME SchedulerInv, NEW c \in Callers, GiveUp(c)
    PROVE  QueueIsAccurate' /\ ToldOnce' /\ DepthIsBounded'
<1>1. caller[c] # NoJob /\ caller' = [caller EXCEPT ![c] = NoJob] /\ UNCHANGED <<task, queue>>
  BY DEF GiveUp
<1>2. caller \in [Callers -> Jobs \union {NoJob}]
  BY DEF SchedulerInv, SchedulerTypeOK
<1>3. Told' = Told \ {c} /\ c \in Told
  BY <1>1, <1>2 DEF Told
<1>4. ToldOnce'
  BY <1>1, <1>2, <1>3 DEF SchedulerInv, ToldOnce, Told
<1>5. DepthIsBounded'
  <2>1. Cardinality(Told') = Cardinality(Told) - 1
    BY <1>3, FiniteParts, OneLess DEF SchedulerInv
  <2>2. /\ Cardinality(queue) \in Nat /\ Cardinality(Told) \in Nat /\ Cardinality(Callers) \in Nat
        /\ MaxQueue \in Nat /\ Cardinality(queue) + Cardinality(Told) <= MaxQueue + Cardinality(Callers) - 1
    BY FiniteParts, SchedulerAssumption DEF SchedulerInv, DepthIsBounded
  <2>. DEFINE told == Cardinality(Told')
  <2>. HIDE DEF told
  <2>3. Cardinality(queue) + told <= MaxQueue + Cardinality(Callers) - 1
    BY <2>1, <2>2 DEF told
  <2>. QED  BY <1>1, <2>3 DEF DepthIsBounded, told
<1>. QED  BY <1>1, <1>4, <1>5 DEF SchedulerInv, QueueIsAccurate

LEMMA CallerSteps ==
    ASSUME SchedulerInv, NEW c \in Callers, Push(c) \/ GiveUp(c) \/ \E j \in Jobs : ReadDepth(c, j)
    PROVE  SchedulerInv'
<1>1. SchedulerTypeOK'
  BY SchedulerTypesStep DEF SchedulerInv, SchedulerNext
<1>2. CASE GiveUp(c)
  BY <1>1, <1>2, TasksKept, GiveUpCounts DEF GiveUp, SchedulerInv
<1>3. ASSUME NEW j \in Jobs, ReadDepth(c, j), HasRoom(queue)
      PROVE  SchedulerInv'
  BY <1>1, <1>3, TasksKept, ReadDepthCounts DEF ReadDepth, SchedulerInv
<1>4. ASSUME NEW j \in Jobs, ReadDepth(c, j), ~HasRoom(queue)
      PROVE  SchedulerInv'
  <2>1. UNCHANGED <<caller, task, queue, active, waiting, free>>
    BY <1>4 DEF ReadDepth
  <2>. QED  BY <1>1, <2>1, TasksKept DEF SchedulerInv, QueueIsAccurate, ToldOnce, DepthIsBounded, Told
<1>. QED  BY <1>2, <1>3, <1>4, PushCounts

-----------------------------------------------------------------------------
(* The steps of a task.                                                    *)

LEMMA DepthKept ==
    ASSUME SchedulerInv, UNCHANGED caller, queue' \subseteq queue,
           \A k \in Jobs : task[k] = "none" => task'[k] = "none"
    PROVE  ToldOnce' /\ DepthIsBounded'
<1>1. Told' = Told
  BY DEF Told
<1>2. ToldOnce'
  BY <1>1 DEF SchedulerInv, ToldOnce
<1>3. Cardinality(queue') <= Cardinality(queue) /\ Cardinality(queue') \in Nat
  BY FiniteParts, FS_Subset, FS_CardinalityType DEF SchedulerInv
<1>4. /\ Cardinality(queue) \in Nat /\ Cardinality(Told) \in Nat /\ Cardinality(Callers) \in Nat
      /\ MaxQueue \in Nat /\ Cardinality(queue) + Cardinality(Told) <= MaxQueue + Cardinality(Callers) - 1
  BY FiniteParts, SchedulerAssumption DEF SchedulerInv, DepthIsBounded
<1>5. Cardinality(queue') + Cardinality(Told) <= MaxQueue + Cardinality(Callers) - 1
  BY <1>3, <1>4
<1>. QED  BY <1>1, <1>2, <1>5 DEF DepthIsBounded

LEMMA WaitersKept ==
    ASSUME SchedulerInv, UNCHANGED waiting, \A k \in Jobs : task[k] = "waiting" => task'[k] = "waiting"
    PROVE  WaitersWait'
<1>1. waiting \in Seq(Jobs)
  BY DEF SchedulerInv, SchedulerTypeOK
<1>2. \A i \in 1..Len(waiting) : waiting[i] \in Jobs
  BY <1>1, ElementOfSeq
<1>. QED  BY <1>2 DEF SchedulerInv, WaitersWait

\* A step that goes on from one place to another and holds a permit in both.
LEMMA GoesOn ==
    ASSUME SchedulerInv, NEW j \in Jobs, NEW from \in Holding, NEW to \in Holding, Step(j, from, to),
           UNCHANGED <<caller, waiting, free>>, queue' \subseteq queue
    PROVE  SlotsAreUsed' /\ WaitersWait' /\ ToldOnce' /\ DepthIsBounded'
<1>1. /\ task[j] = from /\ task' = [task EXCEPT ![j] = to] /\ from # "none" /\ from # "waiting"
      /\ task \in [Jobs -> {"none", "spawned", "waiting", "done", "panicked"} \union Holding]
  BY DEF Step, Holding, SchedulerInv, SchedulerTypeOK
<1>2. Held' = Held
  BY <1>1 DEF Held
<1>3. \A k \in Jobs : /\ task[k] = "none" => task'[k] = "none"
                      /\ task[k] = "waiting" => task'[k] = "waiting"
  BY <1>1
<1>. QED  BY <1>2, <1>3, DepthKept, WaitersKept DEF SchedulerInv, SlotsAreUsed

LEMMA AcquireCounts ==
    ASSUME SchedulerInv, NEW j \in Jobs, Acquire(j)
    PROVE  SchedulerInv'
<1>. USE DEF SchedulerInv, ActiveIsOpening
<1>1. SchedulerTypeOK'
  BY SchedulerTypesStep DEF SchedulerNext, Task
<1>2. PICK to \in {"permit", "waiting"} :
        /\ task[j] = "spawned" /\ task' = [task EXCEPT ![j] = to]
        /\ to = "permit" => free > 0 /\ free' = free - 1 /\ UNCHANGED waiting
        /\ to = "waiting" => ~(free > 0) /\ waiting' = Append(waiting, j) /\ UNCHANGED free
  BY DEF Acquire, Step
<1>3. UNCHANGED <<caller, queue, active>>
  BY DEF Acquire
<1>4. /\ task \in [Jobs -> {"none", "spawned", "waiting", "done", "panicked"} \union Holding]
      /\ waiting \in Seq(Jobs) /\ free \in Nat
  BY DEF SchedulerTypeOK
<1>5. (Opening \union Panicked)' = Opening \union Panicked
  BY <1>2, <1>4 DEF Opening, Panicked
<1>6. QueueIsAccurate'
  BY <1>2, <1>3, <1>4 DEF QueueIsAccurate
<1>7. ToldOnce' /\ DepthIsBounded'
  BY <1>2, <1>3, <1>4, DepthKept
<1>8. SlotsAreUsed' /\ WaitersWait'
  <2>1. CASE to = "permit"
    <3>1. Held' = Held \union {j} /\ j \notin Held
      BY <1>2, <1>4, <2>1 DEF Held, Holding
    <3>2. Cardinality(Held') = Cardinality(Held) + 1 /\ Cardinality(Held) \in Nat
      BY <3>1, FiniteParts, OneMore
    <3>3. SlotsAreUsed'
      BY <1>2, <1>4, <2>1, <3>2 DEF SlotsAreUsed
    <3>4. \A k \in Jobs : task[k] = "waiting" => task'[k] = "waiting"
      BY <1>2, <1>4
    <3>. QED  BY <1>2, <2>1, <3>3, <3>4, WaitersKept
  <2>2. CASE to = "waiting"
    <3>1. Held' = Held
      BY <1>2, <1>4, <2>2 DEF Held, Holding
    <3>2. SlotsAreUsed'
      BY <1>2, <1>4, <2>2, <3>1 DEF SlotsAreUsed
    <3>3. /\ Len(waiting) \in Nat /\ Len(waiting') = Len(waiting) + 1 /\ waiting'[Len(waiting) + 1] = j
          /\ \A i \in 1..Len(waiting) : waiting'[i] = waiting[i] /\ waiting[i] \in Jobs
      <4>1. waiting' = Append(waiting, j) /\ waiting \in Seq(Jobs)
        BY <1>2, <1>4, <2>2
      <4>. QED  BY <4>1, AppendProperties, LenProperties, ElementOfSeq
    <3>4. \A i \in 1..Len(waiting') : i \in 1..Len(waiting) \/ i = Len(waiting) + 1
      <4>. DEFINE l == Len(waiting)
                  m == Len(waiting')
      <4>1. l \in Nat /\ m = l + 1
        BY <3>3
      <4>. HIDE DEF l, m
      <4>2. \A i \in 1..m : i \in 1..l \/ i = l + 1
        BY <4>1
      <4>. QED  BY <4>2 DEF l, m
    <3>5. task'[j] = "waiting" /\ \A i \in 1..Len(waiting) : waiting[i] # j /\ task'[waiting[i]] = "waiting"
      BY <1>2, <1>4, <2>2, <3>3 DEF WaitersWait
    <3>6. \A i \in 1..Len(waiting') : task'[waiting'[i]] = "waiting"
      BY <3>3, <3>4, <3>5
    <3>7. ASSUME NEW a \in 1..Len(waiting'), NEW b \in 1..Len(waiting'), waiting'[a] = waiting'[b]
          PROVE  a = b
      BY <3>3, <3>4, <3>5, <3>7 DEF WaitersWait
    <3>. QED  BY <3>2, <3>6, <3>7 DEF WaitersWait
  <2>. QED  BY <1>2, <2>1, <2>2
<1>. QED  BY <1>1, <1>3, <1>5, <1>6, <1>7, <1>8

\* A permit is given back by a task that held it, and goes to one that waits.
LEMMA GiveBackCounts ==
    ASSUME SchedulerInv, NEW j \in Jobs, NEW end \in {"done", "panicked"}, task[j] \in Holding \ {"permit"},
           GiveBack(j, end), UNCHANGED <<caller, queue>>
    PROVE  /\ SlotsAreUsed' /\ WaitersWait' /\ ToldOnce' /\ DepthIsBounded' /\ QueueIsAccurate'
           /\ Opening' = Opening \ {j}
           /\ Panicked' = IF end = "panicked" THEN Panicked \union {j} ELSE Panicked
<1>. USE DEF SchedulerInv
<1>1. /\ task \in [Jobs -> {"none", "spawned", "waiting", "done", "panicked"} \union Holding]
      /\ waiting \in Seq(Jobs) /\ free \in Nat /\ j \in Held
  BY DEF SchedulerTypeOK, Held
<1>2. Cardinality(Held \ {j}) = Cardinality(Held) - 1 /\ IsFiniteSet(Held \ {j}) /\ Cardinality(Held) \in Nat
  BY <1>1, FiniteParts, OneLess
<1>3. CASE waiting = <<>>
  <2>1. task' = [task EXCEPT ![j] = end] /\ free' = free + 1 /\ UNCHANGED waiting
    BY <1>3 DEF GiveBack
  <2>2. Held' = Held \ {j} /\ Opening' = Opening \ {j}
    BY <1>1, <2>1 DEF Held, Opening, Holding
  <2>3. Panicked' = IF end = "panicked" THEN Panicked \union {j} ELSE Panicked
    BY <1>1, <2>1 DEF Panicked, Holding
  <2>4. SlotsAreUsed'
    BY <1>1, <1>2, <1>3, <2>1, <2>2 DEF SlotsAreUsed
  <2>5. QueueIsAccurate'
    BY <1>1, <2>1 DEF QueueIsAccurate, Holding
  <2>6. \A k \in Jobs : /\ task[k] = "none" => task'[k] = "none"
                        /\ task[k] = "waiting" => task'[k] = "waiting"
    BY <1>1, <2>1 DEF Holding
  <2>. QED  BY <2>1, <2>2, <2>3, <2>4, <2>5, <2>6, DepthKept, WaitersKept
<1>4. CASE waiting # <<>>
  <2>. DEFINE h == Head(waiting)
  <2>1. /\ h \in Jobs /\ h = waiting[1] /\ Tail(waiting) \in Seq(Jobs)
        /\ Len(waiting) \in Nat \ {0} /\ Len(Tail(waiting)) = Len(waiting) - 1
        /\ \A i \in 1..Len(Tail(waiting)) : Tail(waiting)[i] = waiting[i + 1]
    BY <1>1, <1>4, WaitingTail
  <2>2. task[h] = "waiting" /\ h # j
    <3>1. 1 \in 1..Len(waiting)
      BY <2>1
    <3>2. task[waiting[1]] = "waiting"
      BY <3>1 DEF WaitersWait
    <3>. QED  BY <2>1, <3>2 DEF Holding
  <2>3. /\ task' = [task EXCEPT ![j] = end, ![h] = "permit"]
        /\ waiting' = Tail(waiting) /\ UNCHANGED free
    BY <1>4 DEF GiveBack
  <2>. HIDE DEF h
  <2>4. Held' = (Held \ {j}) \union {h} /\ h \notin Held
    BY <1>1, <2>1, <2>2, <2>3 DEF Held, Holding
  <2>5. Opening' = Opening \ {j}
    BY <1>1, <2>1, <2>2, <2>3 DEF Opening
  <2>6. Panicked' = IF end = "panicked" THEN Panicked \union {j} ELSE Panicked
    BY <1>1, <2>1, <2>2, <2>3 DEF Panicked, Holding
  <2>7. SlotsAreUsed'
    <3>1. h \notin Held \ {j}
      BY <2>4
    <3>2. Cardinality(Held') = Cardinality(Held \ {j}) + 1
      BY <1>2, <2>4, <3>1, OneMore
    <3>3. Cardinality(Held') = Cardinality(Held)
      BY <1>2, <3>2
    <3>. QED  BY <2>3, <3>3 DEF SlotsAreUsed
  <2>8. QueueIsAccurate'
    BY <1>1, <2>1, <2>2, <2>3 DEF QueueIsAccurate, Holding
  <2>9. ToldOnce' /\ DepthIsBounded'
    <3>1. \A k \in Jobs : task[k] = "none" => task'[k] = "none"
      BY <1>1, <2>1, <2>2, <2>3 DEF Holding
    <3>. QED  BY <3>1, DepthKept
  <2>10. WaitersWait'
    <3>. DEFINE rest == Tail(waiting)
    <3>1. \A i \in 1..Len(rest) : i \in Nat /\ i + 1 \in 1..Len(waiting) /\ i + 1 # 1 /\ rest[i] = waiting[i + 1]
      BY <2>1
    <3>2. \A i \in 1..Len(waiting) : waiting[i] \in Jobs
      BY <1>1, ElementOfSeq
    <3>3. 1 \in 1..Len(waiting)
      BY <2>1
    <3>4. waiting' = rest
      BY <2>3
    <3>. HIDE DEF rest
    <3>5. ASSUME NEW i \in 1..Len(rest)
          PROVE  task'[rest[i]] = "waiting"
      <4>1. rest[i] \in Jobs /\ task[rest[i]] = "waiting" /\ rest[i] # h
        BY <2>1, <3>1, <3>2, <3>3 DEF WaitersWait
      <4>2. rest[i] # j
        BY <4>1 DEF Holding
      <4>. QED  BY <1>1, <2>1, <2>3, <4>1, <4>2
    <3>6. ASSUME NEW a \in 1..Len(rest), NEW b \in 1..Len(rest), rest[a] = rest[b]
          PROVE  a = b
      <4>1. a + 1 = b + 1
        BY <3>1, <3>6 DEF WaitersWait
      <4>. QED  BY <3>1, <4>1
    <3>. QED  BY <3>4, <3>5, <3>6 DEF WaitersWait
  <2>. QED  BY <2>5, <2>6, <2>7, <2>8, <2>9, <2>10
<1>. QED  BY <1>3, <1>4

LEMMA TaskSteps ==
    ASSUME SchedulerInv, NEW j \in Jobs, Task(j) \/ Panic(j)
    PROVE  SchedulerInv'
<1>. USE DEF SchedulerInv, ActiveIsOpening
<1>1. SchedulerTypeOK'
  BY SchedulerTypesStep DEF SchedulerNext
<1>2. task \in [Jobs -> {"none", "spawned", "waiting", "done", "panicked"} \union Holding]
  BY DEF SchedulerTypeOK
<1>3. CASE LeaveQueue(j)
  <2>1. Step(j, "permit", "dequeued") /\ queue' = queue \ {j} /\ UNCHANGED <<caller, active, waiting, free>>
    BY <1>3 DEF LeaveQueue
  <2>2. "permit" \in Holding /\ "dequeued" \in Holding
    BY DEF Holding
  <2>3. SlotsAreUsed' /\ WaitersWait' /\ ToldOnce' /\ DepthIsBounded'
    BY <2>1, <2>2, GoesOn
  <2>4. (Opening \union Panicked)' = Opening \union Panicked /\ QueueIsAccurate'
    BY <1>2, <2>1 DEF Step, Opening, Panicked, QueueIsAccurate
  <2>. QED  BY <1>1, <2>1, <2>3, <2>4
<1>4. CASE Activate(j)
  <2>1. Step(j, "dequeued", "working") /\ active' = active \union {j} /\ UNCHANGED <<caller, queue, waiting, free>>
    BY <1>4 DEF Activate
  <2>2. "dequeued" \in Holding /\ "working" \in Holding
    BY DEF Holding
  <2>3. SlotsAreUsed' /\ WaitersWait' /\ ToldOnce' /\ DepthIsBounded'
    BY <2>1, <2>2, GoesOn
  <2>4. (Opening \union Panicked)' = Opening \union Panicked \union {j} /\ QueueIsAccurate'
    BY <1>2, <2>1 DEF Step, Opening, Panicked, QueueIsAccurate
  <2>. QED  BY <1>1, <2>1, <2>3, <2>4
<1>5. CASE Answer(j)
  <2>1. Step(j, "working", "answered") /\ UNCHANGED <<caller, queue, active, waiting, free>>
    BY <1>5 DEF Answer
  <2>2. "working" \in Holding /\ "answered" \in Holding
    BY DEF Holding
  <2>3. SlotsAreUsed' /\ WaitersWait' /\ ToldOnce' /\ DepthIsBounded'
    BY <2>1, <2>2, GoesOn
  <2>4. (Opening \union Panicked)' = Opening \union Panicked /\ QueueIsAccurate'
    BY <1>2, <2>1 DEF Step, Opening, Panicked, QueueIsAccurate
  <2>. QED  BY <1>1, <2>1, <2>3, <2>4
<1>6. CASE Deactivate(j)
  <2>1. Step(j, "answered", "inactive") /\ active' = active \ {j} /\ UNCHANGED <<caller, queue, waiting, free>>
    BY <1>6 DEF Deactivate
  <2>2. "answered" \in Holding /\ "inactive" \in Holding
    BY DEF Holding
  <2>3. SlotsAreUsed' /\ WaitersWait' /\ ToldOnce' /\ DepthIsBounded'
    BY <2>1, <2>2, GoesOn
  <2>4. (Opening \union Panicked)' = (Opening \union Panicked) \ {j} /\ QueueIsAccurate'
    BY <1>2, <2>1 DEF Step, Opening, Panicked, QueueIsAccurate
  <2>. QED  BY <1>1, <2>1, <2>3, <2>4
<1>7. CASE Release(j)
  <2>1. task[j] = "inactive" /\ GiveBack(j, "done") /\ UNCHANGED <<caller, queue, active>>
    BY <1>7 DEF Release
  <2>2. task[j] \in Holding \ {"permit"} /\ j \notin Opening
    BY <2>1 DEF Holding, Opening
  <2>3. /\ SlotsAreUsed' /\ WaitersWait' /\ ToldOnce' /\ DepthIsBounded' /\ QueueIsAccurate'
        /\ Opening' = Opening \ {j} /\ Panicked' = Panicked
    BY <2>1, <2>2, GiveBackCounts
  <2>. QED  BY <1>1, <2>1, <2>2, <2>3
<1>8. CASE Panic(j)
  <2>1. task[j] = "working" /\ GiveBack(j, "panicked") /\ UNCHANGED <<caller, queue, active>>
    BY <1>8 DEF Panic
  <2>2. task[j] \in Holding \ {"permit"} /\ j \in Opening
    BY <2>1 DEF Holding, Opening
  <2>3. /\ SlotsAreUsed' /\ WaitersWait' /\ ToldOnce' /\ DepthIsBounded' /\ QueueIsAccurate'
        /\ Opening' = Opening \ {j} /\ Panicked' = Panicked \union {j}
    BY <2>1, <2>2, GiveBackCounts
  <2>. QED  BY <1>1, <2>1, <2>2, <2>3
<1>. QED  BY <1>3, <1>4, <1>5, <1>6, <1>7, <1>8, AcquireCounts DEF Task

-----------------------------------------------------------------------------
LEMMA SchedulerInvInit == SchedulerInit => SchedulerInv
<1>. SUFFICES ASSUME SchedulerInit PROVE SchedulerInv
  OBVIOUS
<1>1. SchedulerTypeOK
  BY SchedulerTypesInit
<1>2. Held = {} /\ Told = {} /\ Opening = {} /\ Panicked = {} /\ queue = {}
  BY DEF SchedulerInit, Held, Told, Opening, Panicked, Holding
<1>3. QueueIsAccurate
  BY DEF SchedulerInit, QueueIsAccurate
<1>4. SlotsAreUsed /\ DepthIsBounded
  <2>1. Cardinality(Held) = 0 /\ Cardinality(Told) = 0 /\ Cardinality(queue) = 0
    BY <1>2, FS_EmptySet
  <2>2. /\ MaxQueue \in Nat /\ Cardinality(Callers) \in Nat \ {0}
        /\ MaxConcurrent \in Nat /\ free = MaxConcurrent /\ waiting = <<>>
    BY <1>1, FiniteParts, SchedulerAssumption DEF SchedulerInit
  <2>. QED  BY <2>1, <2>2 DEF SlotsAreUsed, DepthIsBounded
<1>5. WaitersWait /\ ToldOnce
  BY <1>2 DEF SchedulerInit, WaitersWait, ToldOnce
<1>. QED  BY <1>1, <1>2, <1>3, <1>4, <1>5 DEF SchedulerInit, SchedulerInv, ActiveIsOpening

\* What becomes of a stream concerns no count.
LEMMA StreamDroppedStep ==
    ASSUME SchedulerInv, NEW j \in Jobs, StreamDropped(j)
    PROVE  SchedulerInv'
<1>1. UNCHANGED <<caller, task, queue, active, waiting, free, receipt>>
  BY DEF StreamDropped
<1>2. SchedulerTypeOK' /\ Told' = Told
  BY <1>1, SchedulerTypesStep DEF SchedulerInv, SchedulerNext, Told
<1>. QED  BY <1>1, <1>2, TasksKept DEF SchedulerInv, QueueIsAccurate, ToldOnce, DepthIsBounded

LEMMA SchedulerInvStep ==
    ASSUME SchedulerInv, [SchedulerNext]_schedulerVars
    PROVE  SchedulerInv'
<1>1. CASE UNCHANGED schedulerVars
  <2>1. SchedulerTypeOK' /\ Told' = Told
    BY <1>1, SchedulerTypesStep DEF SchedulerInv, Told, schedulerVars
  <2>. QED  BY <1>1, <2>1, TasksKept
            DEF schedulerVars, SchedulerInv, QueueIsAccurate, ToldOnce, DepthIsBounded
<1>. QED  BY <1>1, CallerSteps, TaskSteps, StreamDroppedStep DEF SchedulerNext

\* A stream is handed over when the work is done, and no task goes back to it.
LEMMA StreamsStep ==
    ASSUME SchedulerInv, StreamsOutliveSlots, [SchedulerNext]_schedulerVars
    PROVE  StreamsOutliveSlots'
<1>. USE DEF StreamsOutliveSlots
<1>1. SchedulerTypeOK /\ WaitersWait
  BY DEF SchedulerInv
<1>2. task \in [Jobs -> {"none", "spawned", "waiting", "done", "panicked"} \union Holding] /\ streams \subseteq Jobs
  BY <1>1 DEF SchedulerTypeOK
<1>3. ASSUME NEW j \in Jobs, NEW end, GiveBack(j, end), streams' = streams, j \in streams => end = "done"
      PROVE  StreamsOutliveSlots'
  <2>1. CASE waiting = <<>>
    BY <1>2, <1>3, <2>1 DEF GiveBack
  <2>2. CASE waiting # <<>>
    <3>1. task[Head(waiting)] = "waiting" /\ Head(waiting) \in Jobs
      <4>1. waiting \in Seq(Jobs)
        BY <1>1 DEF SchedulerTypeOK
      <4>2. Head(waiting) \in Jobs /\ Head(waiting) = waiting[1] /\ 1 \in 1..Len(waiting)
        BY <2>2, <4>1, WaitingTail
      <4>. QED  BY <1>1, <4>2 DEF WaitersWait
    <3>2. task' = [task EXCEPT ![j] = end, ![Head(waiting)] = "permit"]
      BY <1>3, <2>2 DEF GiveBack
    <3>. QED  BY <1>2, <1>3, <3>1, <3>2
  <2>. QED  BY <2>1, <2>2
<1>4. CASE UNCHANGED schedulerVars
  BY <1>4 DEF schedulerVars
<1>5. ASSUME NEW c \in Callers, Push(c) \/ GiveUp(c) \/ \E j \in Jobs : ReadDepth(c, j)
      PROVE  StreamsOutliveSlots'
  <2>1. CASE Push(c)
    <3>1. task[caller[c]] = "none"
      BY <2>1 DEF Push, SchedulerInv, ToldOnce, Told
    <3>. QED  BY <1>2, <2>1, <3>1 DEF Push
  <2>2. CASE GiveUp(c)
    BY <2>2 DEF GiveUp
  <2>3. ASSUME NEW j \in Jobs, ReadDepth(c, j)
        PROVE  StreamsOutliveSlots'
    BY <2>3 DEF ReadDepth
  <2>. QED  BY <1>5, <2>1, <2>2, <2>3
<1>6. ASSUME NEW j \in Jobs, Task(j) \/ Panic(j) \/ StreamDropped(j)
      PROVE  StreamsOutliveSlots'
  <2>1. CASE Acquire(j)
    BY <1>2, <2>1 DEF Acquire, Step
  <2>2. CASE LeaveQueue(j)
    BY <1>2, <2>2 DEF LeaveQueue, Step
  <2>3. CASE Activate(j)
    BY <1>2, <2>3 DEF Activate, Step
  <2>4. CASE Answer(j)
    BY <1>2, <2>4 DEF Answer, Step
  <2>5. CASE Deactivate(j)
    BY <1>2, <2>5 DEF Deactivate, Step
  <2>6. CASE Release(j)
    BY <1>3, <2>6 DEF Release
  <2>7. CASE Panic(j)
    BY <1>3, <2>7 DEF Panic
  <2>8. CASE StreamDropped(j)
    BY <2>8 DEF StreamDropped
  <2>. QED  BY <1>6, <2>1, <2>2, <2>3, <2>4, <2>5, <2>6, <2>7, <2>8 DEF Task
<1>. QED  BY <1>4, <1>5, <1>6 DEF SchedulerNext

LEMMA InvCounts == SchedulerInv /\ StreamsOutliveSlots => SchedulerCounts
<1>. SUFFICES ASSUME SchedulerInv, StreamsOutliveSlots PROVE SchedulerCounts
  OBVIOUS
<1>1. QueueOvershoot
  <2>1. /\ Cardinality(queue) \in Nat /\ Cardinality(Told) \in Nat /\ Cardinality(Callers) \in Nat
        /\ MaxQueue \in Nat /\ Cardinality(queue) + Cardinality(Told) <= MaxQueue + Cardinality(Callers) - 1
    BY FiniteParts, SchedulerAssumption DEF SchedulerInv, DepthIsBounded
  <2>. QED  BY <2>1 DEF QueueOvershoot
<1>. QED  BY <1>1 DEF SchedulerCounts, SchedulerInv

\* The types of NodeScheduler; none of its counts falls below zero.
THEOREM SchedulerTypes == SchedulerSpec => []SchedulerTypeOK
<1>. QED  BY SchedulerTypesInit, SchedulerTypesStep, PTL DEF SchedulerSpec

\* "If a GPU slot is free it starts immediately", "so queue_depth() is accurate": every
\* permit is free or held by one task, and none is free while a task waits for one; the
\* queue is the jobs pushed whose tasks have not taken them out, and since submit reads
\* its depth and pushes under two locks it is too long by one job for every other caller
\* at most; active are the jobs that open their stream and those that panicked doing so;
\* the streams that are being read are of jobs past that, whatever holds the slots.
THEOREM CountsAreRight == SchedulerSpec => []SchedulerCounts
<1>1. /\ SchedulerInv /\ [SchedulerNext]_schedulerVars => SchedulerInv'
      /\ SchedulerInv /\ StreamsOutliveSlots /\ [SchedulerNext]_schedulerVars => StreamsOutliveSlots'
  BY SchedulerInvStep, StreamsStep
<1>2. SchedulerInit => StreamsOutliveSlots
  BY DEF SchedulerInit, StreamsOutliveSlots
<1>. QED  BY <1>1, <1>2, InvCounts, SchedulerInvInit, PTL DEF SchedulerSpec

-----------------------------------------------------------------------------
(* Marketplace: sequences of bids.                                         *)

NodesIn(s) == {s[i].node : i \in 1..Len(s)}
Distinct(s) == \A i, j \in 1..Len(s) : s[i].node = s[j].node => i = j

LEMMA BidAppended ==
    ASSUME NEW S, NEW s \in Seq(S), NEW x \in S
    PROVE  LET t == Append(s, x) IN
           /\ t \in Seq(S) /\ Len(t) = Len(s) + 1
           /\ Elements(t) = Elements(s) \union {x}
           /\ NodesIn(t) = NodesIn(s) \union {x.node}
           /\ Distinct(s) /\ x.node \notin NodesIn(s) => Distinct(t)
<1>. DEFINE t == Append(s, x)
<1>1. /\ t \in Seq(S) /\ Len(t) = Len(s) + 1 /\ Len(s) \in Nat
      /\ t[Len(s) + 1] = x /\ \A i \in 1..Len(s) : t[i] = s[i]
  BY AppendProperties, LenProperties
<1>. HIDE DEF t
<1>2. 1..Len(t) = 1..Len(s) \union {Len(s) + 1}
  BY <1>1
<1>3. Elements(t) = Elements(s) \union {x} /\ NodesIn(t) = NodesIn(s) \union {x.node}
  BY <1>1, <1>2 DEF Elements, NodesIn
<1>4. ASSUME Distinct(s), x.node \notin NodesIn(s), NEW i \in 1..Len(t), NEW j \in 1..Len(t),
             t[i].node = t[j].node
      PROVE  i = j
  <2>1. \A k \in 1..Len(s) : t[k].node # x.node
    BY <1>1, <1>4 DEF NodesIn
  <2>2. CASE i \in 1..Len(s) /\ j \in 1..Len(s)
    BY <1>1, <1>4, <2>2 DEF Distinct
  <2>3. CASE i = Len(s) + 1 \/ j = Len(s) + 1
    BY <1>1, <1>2, <1>4, <2>1, <2>3
  <2>. QED  BY <1>2, <2>2, <2>3
<1>5. Distinct(s) /\ x.node \notin NodesIn(s) => Distinct(t)
  BY <1>4 DEF Distinct
<1>. QED  BY <1>1, <1>3, <1>5 DEF t

LEMMA BidTaken ==
    ASSUME NEW S, NEW s \in Seq(S), s # <<>>
    PROVE  LET t == Tail(s) IN
           /\ Head(s) \in S /\ t \in Seq(S) /\ Len(t) = Len(s) - 1 /\ Len(s) \in Nat \ {0}
           /\ Elements(s) = Elements(t) \union {Head(s)}
           /\ NodesIn(s) = NodesIn(t) \union {Head(s).node}
           /\ Distinct(s) => Distinct(t) /\ Head(s).node \notin NodesIn(t)
<1>. DEFINE t == Tail(s)
<1>1. /\ Head(s) \in S /\ Head(s) = s[1] /\ t \in Seq(S) /\ Len(s) \in Nat \ {0}
      /\ Len(t) = Len(s) - 1 /\ \A i \in 1..Len(t) : t[i] = s[i + 1]
  BY HeadTailProperties, EmptySeq
<1>. HIDE DEF t
<1>2. /\ \A i \in 1..Len(t) : i + 1 \in 1..Len(s) /\ i + 1 # 1 /\ i \in Nat
      /\ \A k \in 1..Len(s) : k = 1 \/ (k - 1 \in 1..Len(t) /\ k = (k - 1) + 1)
      /\ 1 \in 1..Len(s)
  BY <1>1
<1>3. Elements(s) = Elements(t) \union {s[1]}
  <2>1. \A k \in 1..Len(s) : s[k] = s[1] \/ s[k] = t[k - 1]
    BY <1>1, <1>2
  <2>. QED  BY <1>1, <1>2, <2>1 DEF Elements
<1>4. NodesIn(s) = NodesIn(t) \union {s[1].node}
  <2>1. \A k \in 1..Len(s) : s[k] = s[1] \/ s[k] = t[k - 1]
    BY <1>1, <1>2
  <2>. QED  BY <1>1, <1>2, <2>1 DEF NodesIn
<1>5. ASSUME Distinct(s)
      PROVE  Distinct(t) /\ s[1].node \notin NodesIn(t)
  <2>1. ASSUME NEW i \in 1..Len(t), NEW j \in 1..Len(t), t[i].node = t[j].node
        PROVE  i = j
    <3>1. i + 1 = j + 1
      BY <1>1, <1>2, <1>5, <2>1 DEF Distinct
    <3>. QED  BY <1>2, <3>1
  <2>2. ASSUME NEW i \in 1..Len(t), t[i].node = s[1].node
        PROVE  FALSE
    BY <1>1, <1>2, <1>5, <2>2 DEF Distinct
  <2>. QED  BY <2>1, <2>2 DEF Distinct, NodesIn
<1>. QED  BY <1>1, <1>3, <1>4, <1>5 DEF t

\* sort_by puts every bid in one place, the best first.
LEMMA BidsSorted ==
    ASSUME NEW S, NEW bs \in Seq(S), \A b \in S : b.latency \in Nat
    PROVE  LET sorted == BestFirst(bs) IN
           /\ sorted \in Seq(S) /\ Len(sorted) = Len(bs)
           /\ Elements(sorted) = Elements(bs)
           /\ Distinct(bs) => Distinct(sorted)
           /\ \A k, l \in 1..Len(bs) : k < l => sorted[k].latency <= sorted[l].latency
<1>. DEFINE N == 1..Len(bs)
            Below(i) == {j \in N : Precedes(bs, j, i)}
            place(i) == Cardinality(Below(i)) + 1
            at(k) == CHOOSE i \in N : place(i) = k
            sorted == [k \in N |-> bs[at(k)]]
<1>1. Len(bs) \in Nat /\ (\A i \in N : bs[i] \in S) /\ IsFiniteSet(N) /\ Cardinality(N) = Len(bs)
  <2>1. Len(bs) \in Nat /\ \A i \in N : bs[i] \in S
    BY LenProperties, ElementOfSeq
  <2>2. IsFiniteSet(1..Len(bs)) /\ Cardinality(1..Len(bs)) = Len(bs)
    BY <2>1, FS_Interval
  <2>. QED  BY <2>1, <2>2
<1>2. \A i \in N : i \in Nat /\ bs[i].latency \in Nat
  BY <1>1
<1>3. ASSUME NEW i \in N
      PROVE  /\ IsFiniteSet(Below(i)) /\ Cardinality(Below(i)) \in Nat /\ place(i) \in N
  <2>1. Below(i) \subseteq N \ {i}
    BY <1>2 DEF Precedes
  <2>2. IsFiniteSet(N \ {i}) /\ Cardinality(N \ {i}) = Len(bs) - 1
    BY <1>1, FS_RemoveElement
  <2>3. IsFiniteSet(Below(i)) /\ Cardinality(Below(i)) \in Nat /\ Cardinality(Below(i)) <= Len(bs) - 1
    BY <2>1, <2>2, FS_Subset, FS_CardinalityType
  <2>. QED  BY <1>1, <2>3
<1>4. ASSUME NEW i \in N, NEW j \in N, Precedes(bs, i, j)
      PROVE  place(i) < place(j)
  <2>1. Below(i) \subseteq Below(j) /\ i \in Below(j) /\ i \notin Below(i)
    BY <1>2, <1>4 DEF Precedes
  <2>. HIDE DEF Below
  <2>2. Below(i) \union {i} \subseteq Below(j)
    BY <2>1
  <2>3. /\ IsFiniteSet(Below(i)) /\ Cardinality(Below(i)) \in Nat
        /\ IsFiniteSet(Below(j)) /\ Cardinality(Below(j)) \in Nat
    BY <1>3
  <2>4. Cardinality(Below(i) \union {i}) = Cardinality(Below(i)) + 1
    BY <2>1, <2>3, FS_AddElement
  <2>5. Cardinality(Below(i) \union {i}) <= Cardinality(Below(j))
    BY <2>2, <2>3, FS_Subset
  <2>. QED  BY <2>3, <2>4, <2>5
<1>5. \A i, j \in N : i # j => Precedes(bs, i, j) \/ Precedes(bs, j, i)
  BY <1>2 DEF Precedes
<1>. HIDE DEF Below
<1>6. \A i, j \in N : place(i) = place(j) => i = j
  <2>1. \A i \in N : place(i) \in Nat
    BY <1>1, <1>3
  <2>. HIDE DEF place
  <2>. QED  BY <1>4, <1>5, <2>1
<1>. DEFINE f == [i \in N |-> place(i)]
<1>7. f \in Surjection(N, N)
  <2>1. f \in Injection(N, N)
    <3>1. f \in [N -> N]
      BY <1>3
    <3>. HIDE DEF place
    <3>. QED  BY <3>1, <1>6 DEF Injection, IsInjective
  <2>. HIDE DEF f
  <2>. QED  BY <2>1, <1>1, FS_Injection
<1>8. ASSUME NEW k \in N
      PROVE  at(k) \in N /\ place(at(k)) = k
  <2>1. \E i \in N : place(i) = k
    BY <1>7 DEF Surjection
  <2>. HIDE DEF place
  <2>. QED  BY <2>1
<1>. HIDE DEF at
<1>9. BestFirst(bs) = sorted
  BY DEF BestFirst, at, place, Below
<1>10. sorted \in Seq(S) /\ Len(sorted) = Len(bs) /\ \A k \in N : sorted[k] = bs[at(k)]
  <2>1. \A k \in N : bs[at(k)] \in S
    BY <1>1, <1>8
  <2>. QED  BY <1>1, <2>1, SeqDef
<1>. HIDE DEF sorted, place
<1>11. Elements(sorted) = Elements(bs)
  <2>1. Elements(sorted) \subseteq Elements(bs)
    BY <1>8, <1>10 DEF Elements
  <2>2. ASSUME NEW i \in N
        PROVE  place(i) \in N /\ sorted[place(i)] = bs[i]
    <3>1. place(i) \in N
      BY <1>3 DEF place
    <3>2. at(place(i)) = i
      BY <1>6, <1>8, <3>1
    <3>. QED  BY <1>10, <3>1, <3>2
  <2>. QED  BY <1>10, <2>1, <2>2 DEF Elements
<1>12. Distinct(bs) => Distinct(sorted)
  <2>. SUFFICES ASSUME Distinct(bs), NEW k \in N, NEW l \in N, sorted[k].node = sorted[l].node
                PROVE  k = l
    BY <1>10 DEF Distinct
  <2>1. at(k) = at(l)
    BY <1>8, <1>10 DEF Distinct
  <2>. QED  BY <2>1, <1>8
<1>13. ASSUME NEW k \in N, NEW l \in N, k < l
       PROVE  sorted[k].latency <= sorted[l].latency
  <2>1. at(k) \in N /\ at(l) \in N /\ place(at(k)) = k /\ place(at(l)) = l /\ k \in Nat /\ l \in Nat
    BY <1>1, <1>8
  <2>2. ~Precedes(bs, at(l), at(k))
    BY <1>4, <1>13, <2>1
  <2>3. bs[at(k)].latency \in Nat /\ bs[at(l)].latency \in Nat
    BY <1>2, <2>1
  <2>4. bs[at(k)].latency <= bs[at(l)].latency
    BY <2>2, <2>3 DEF Precedes
  <2>. QED  BY <2>4, <1>10
<1>. QED  BY <1>9, <1>10, <1>11, <1>12, <1>13

-----------------------------------------------------------------------------
(* Marketplace: a request.                                                 *)

EngineAt(r, n) == bidding[<<r, "any", n>>]
BidsInAir(r) == {b \in air : b.kind = "bid" /\ b.req = r}
CanServe(r, n) == engine[n].serves /\ (r \in Private => engine[n].tee)
BiddersOf(r) == NodesIn(collected[r]) \union NodesIn(bids[r])

\* A collector is there while bids are waited for, and what was heard is in it.
CollectInv(r) ==
    /\ handler[r] \in {"broadcast", "collect", "cleanup"} => r \in bidCollectors
    /\ r \in bidCollectors => handler[r] \in {"broadcast", "collect", "cleanup", "dropped"}
    /\ handler[r] # "dropped" =>
          heard[r] \subseteq Elements(collected[r]) \union Elements(bids[r]) \union turnedAway[r]

\* A node bids once: the request reaches its engine on one topic, once.
SingleInv(r) ==
    /\ \A n \in Bidders :
          /\ bidding[<<r, "model", n>>] = "none"
          /\ handler[r] \in {"idle", "broadcast"} => EngineAt(r, n) = "none" /\ Ask(r, "any", n) \notin air
          /\ Ask(r, "any", n) \in air => EngineAt(r, n) = "none"
          /\ EngineAt(r, n) \in {"bid", "sent"} => CanServe(r, n)
    /\ \A b \in BidsInAir(r) :
          /\ EngineAt(r, b.node) = "sent" /\ b.node \notin BiddersOf(r)
          /\ \A c \in BidsInAir(r) : c.node = b.node => c = b
    /\ \A n \in BiddersOf(r) : EngineAt(r, n) = "sent"
    /\ NodesIn(collected[r]) \intersect NodesIn(bids[r]) = {}
    /\ Distinct(collected[r]) /\ Distinct(bids[r])

OfferInv(r) ==
    /\ Distinct(offers[r])
    /\ \A i \in 1..Len(offers[r]) : CanServe(r, offers[r][i].node)
    /\ \A i, j \in 1..Len(offers[r]) : i < j => offers[r][i].latency <= offers[r][j].latency
    /\ handler[r] = "done" => \A bid \in Elements(collected[r]) : Offered(r, bid)

MarketInv == MarketTypeOK /\ \A r \in Asks : CollectInv(r) /\ SingleInv(r) /\ OfferInv(r)

\* The rest of the requests.
RestOf(r) ==
    \A q \in Asks \ {r} :
        /\ UNCHANGED <<handler[q], bids[q], collected[q], offers[q], heard[q], turnedAway[q]>>
        /\ q \in bidCollectors' <=> q \in bidCollectors
        /\ \A topic \in MarketTopics, n \in Bidders :
              /\ bidding'[<<q, topic, n>>] = bidding[<<q, topic, n>>]
              /\ Ask(q, topic, n) \in air' <=> Ask(q, topic, n) \in air
        /\ BidsInAir(q)' = BidsInAir(q)

LEMMA BidFields ==
    ASSUME NEW s \in Seq(MarketBids)
    PROVE  \A i \in 1..Len(s) : s[i] \in MarketBids /\ s[i].node \in Bidders /\ s[i].latency \in Nat
<1>1. \A i \in 1..Len(s) : s[i] \in MarketBids
  BY ElementOfSeq
<1>2. \A b \in MarketBids : b.node \in Bidders /\ b.latency \in Nat
  BY MarketAssumption DEF MarketBids, Latencies
<1>. QED  BY <1>1, <1>2

LEMMA OthersAsBefore ==
    ASSUME MarketInv, UNCHANGED <<engine, known>>, NEW r \in Asks, RestOf(r), MarketTypeOK',
           CollectInv(r)', SingleInv(r)', OfferInv(r)'
    PROVE  MarketInv'
<1>. SUFFICES ASSUME NEW q \in Asks, q # r
              PROVE  CollectInv(q)' /\ SingleInv(q)' /\ OfferInv(q)'
  BY DEF MarketInv
<1>1. /\ bids'[q] = bids[q] /\ collected'[q] = collected[q] /\ handler'[q] = handler[q]
      /\ offers'[q] = offers[q] /\ heard'[q] = heard[q] /\ turnedAway'[q] = turnedAway[q]
      /\ q \in bidCollectors' <=> q \in bidCollectors
      /\ \A topic \in MarketTopics, n \in Bidders :
            /\ bidding'[<<q, topic, n>>] = bidding[<<q, topic, n>>]
            /\ Ask(q, topic, n) \in air' <=> Ask(q, topic, n) \in air
      /\ BidsInAir(q)' = BidsInAir(q)
  BY DEF RestOf
<1>2. CollectInv(q) /\ SingleInv(q) /\ OfferInv(q)
  BY DEF MarketInv
<1>3. CollectInv(q)'
  BY <1>1, <1>2 DEF CollectInv
<1>4. "any" \in MarketTopics /\ "model" \in MarketTopics
  BY DEF MarketTopics
<1>5. BiddersOf(q)' = BiddersOf(q) /\ BiddersOf(q) \subseteq Bidders
  <2>1. bids[q] \in Seq(MarketBids) /\ collected[q] \in Seq(MarketBids)
    BY DEF MarketInv, MarketTypeOK
  <2>2. \A i \in 1..Len(bids[q]) : bids[q][i].node \in Bidders
    BY <2>1, BidFields
  <2>3. \A i \in 1..Len(collected[q]) : collected[q][i].node \in Bidders
    BY <2>1, BidFields
  <2>. QED  BY <1>1, <2>2, <2>3 DEF BiddersOf, NodesIn
<1>6. \A n \in Bidders : EngineAt(q, n)' = EngineAt(q, n) /\ CanServe(q, n)' = CanServe(q, n)
  BY <1>1, <1>4 DEF EngineAt, CanServe
<1>7. \A b \in BidsInAir(q) : b.node \in Bidders
  BY DEF BidsInAir, MarketInv, MarketTypeOK, MarketBids
<1>8. SingleInv(q)'
  <2>1. \A n \in Bidders :
          /\ bidding'[<<q, "model", n>>] = "none"
          /\ handler'[q] \in {"idle", "broadcast"} => EngineAt(q, n)' = "none" /\ Ask(q, "any", n) \notin air'
          /\ Ask(q, "any", n) \in air' => EngineAt(q, n)' = "none"
          /\ EngineAt(q, n)' \in {"bid", "sent"} => CanServe(q, n)'
    BY <1>1, <1>2, <1>4, <1>6 DEF SingleInv
  <2>2. \A b \in BidsInAir(q)' :
          /\ EngineAt(q, b.node)' = "sent" /\ b.node \notin BiddersOf(q)'
          /\ \A c \in BidsInAir(q)' : c.node = b.node => c = b
    BY <1>1, <1>2, <1>5, <1>6, <1>7 DEF SingleInv
  <2>3. \A n \in BiddersOf(q)' : EngineAt(q, n)' = "sent"
    BY <1>2, <1>5, <1>6 DEF SingleInv
  <2>4. NodesIn(collected'[q]) \intersect NodesIn(bids'[q]) = {} /\ Distinct(collected'[q]) /\ Distinct(bids'[q])
    BY <1>1, <1>2 DEF SingleInv
  <2>. QED  BY <2>1, <2>2, <2>3, <2>4 DEF SingleInv, Ask
<1>9. OfferInv(q)'
  BY <1>1, <1>2 DEF OfferInv, CanServe, Offered
<1>. QED  BY <1>3, <1>8, <1>9

-----------------------------------------------------------------------------
(* Marketplace: the steps.                                                 *)

LEMMA CollectorSeqs ==
    ASSUME MarketInv, NEW r \in Asks
    PROVE  /\ MarketTypeOK /\ CollectInv(r) /\ SingleInv(r) /\ OfferInv(r)
           /\ bids[r] \in Seq(MarketBids) /\ collected[r] \in Seq(MarketBids)
           /\ BiddersOf(r) \subseteq Bidders
           /\ \A b \in BidsInAir(r) : b \in MarketBids /\ b.node \in Bidders
<1>1. /\ MarketTypeOK /\ CollectInv(r) /\ SingleInv(r) /\ OfferInv(r)
      /\ bids[r] \in Seq(MarketBids) /\ collected[r] \in Seq(MarketBids)
  BY DEF MarketInv, MarketTypeOK
<1>2. BiddersOf(r) \subseteq Bidders
  <2>1. NodesIn(bids[r]) \subseteq Bidders
    BY <1>1, BidFields DEF NodesIn
  <2>2. NodesIn(collected[r]) \subseteq Bidders
    BY <1>1, BidFields DEF NodesIn
  <2>. QED  BY <2>1, <2>2 DEF BiddersOf
<1>3. \A b \in BidsInAir(r) : b \in MarketBids /\ b.node \in Bidders
  BY <1>1 DEF BidsInAir, MarketTypeOK, MarketBids
<1>. QED  BY <1>1, <1>2, <1>3

\* A step of the handler that leaves the bids alone.
Moves(from, to) ==
    \/ from = "collect" /\ to = "cleanup"
    \/ from = "cleanup" /\ to = "answer"
    \/ from \in Soliciting /\ to = "dropped"

LEMMA HandlerMoves ==
    ASSUME MarketInv, NEW r \in Asks, NEW from, NEW to, Moves(from, to), HandlerGoes(r, from, to),
           bidCollectors' = IF to = "answer" THEN bidCollectors \ {r} ELSE bidCollectors,
           hangups' \in 0..MaxHangups,
           UNCHANGED <<engine, known, bids, collected, offers, heard, turnedAway, air, bidding, losses>>
    PROVE  MarketInv'
<1>1. MarketTypeOK /\ CollectInv(r) /\ SingleInv(r) /\ OfferInv(r)
  BY CollectorSeqs
<1>2. MarketTypeOK'
  BY <1>1 DEF MarketTypeOK, HandlerGoes, Soliciting, Moves
<1>3. RestOf(r)
  BY <1>1 DEF RestOf, HandlerGoes, BidsInAir, MarketTypeOK
<1>4. handler[r] = from /\ handler'[r] = to
  BY <1>1 DEF HandlerGoes, MarketTypeOK
<1>5. CollectInv(r)'
  <2>1. /\ heard'[r] = heard[r] /\ turnedAway'[r] = turnedAway[r]
        /\ bids'[r] = bids[r] /\ collected'[r] = collected[r]
    OBVIOUS
  <2>2. CASE from = "collect" /\ to = "cleanup"
    BY <1>1, <1>4, <2>1, <2>2 DEF CollectInv
  <2>3. CASE from = "cleanup" /\ to = "answer"
    BY <1>1, <1>4, <2>1, <2>3 DEF CollectInv
  <2>4. CASE from \in Soliciting /\ to = "dropped"
    BY <1>1, <1>4, <2>1, <2>4 DEF CollectInv
  <2>. QED  BY <2>2, <2>3, <2>4 DEF Moves
<1>6. SingleInv(r)'
  <2>1. handler'[r] \notin {"idle", "broadcast"}
    BY <1>4 DEF Moves
  <2>. QED  BY <1>1, <2>1 DEF SingleInv, EngineAt, CanServe, BiddersOf, BidsInAir, Ask
<1>7. OfferInv(r)'
  <2>1. handler'[r] # "done"
    BY <1>4 DEF Moves
  <2>. QED  BY <1>1, <2>1 DEF OfferInv, CanServe
<1>. QED  BY <1>2, <1>3, <1>5, <1>6, <1>7, OthersAsBefore

LEMMA SolicitSteps ==
    ASSUME MarketInv, NEW r \in Asks, Solicit(r)
    PROVE  MarketInv'
<1>1. MarketTypeOK /\ CollectInv(r) /\ SingleInv(r) /\ OfferInv(r)
  BY CollectorSeqs
<1>2. MarketTypeOK'
  BY <1>1 DEF MarketTypeOK, Solicit, HandlerGoes, Soliciting
<1>3. RestOf(r)
  BY <1>1 DEF RestOf, Solicit, HandlerGoes, BidsInAir, MarketTypeOK
<1>4. /\ handler[r] = "idle" /\ handler'[r] = "broadcast" /\ r \in bidCollectors'
      /\ UNCHANGED <<engine, known, bids, collected, offers, heard, turnedAway, air, bidding>>
  BY <1>1 DEF Solicit, HandlerGoes, MarketTypeOK
<1>5. CollectInv(r)'
  BY <1>1, <1>4 DEF CollectInv
<1>6. SingleInv(r)'
  BY <1>1, <1>4 DEF SingleInv, EngineAt, CanServe, BiddersOf, BidsInAir, Ask
<1>7. OfferInv(r)'
  BY <1>1, <1>4 DEF OfferInv, CanServe, Offered
<1>. QED  BY <1>2, <1>3, <1>4, <1>5, <1>6, <1>7, OthersAsBefore

LEMMA BroadcastAskSteps ==
    ASSUME MarketInv, NEW r \in Asks, BroadcastAsk(r)
    PROVE  MarketInv'
<1>1. MarketTypeOK /\ CollectInv(r) /\ SingleInv(r) /\ OfferInv(r)
  BY CollectorSeqs
<1>2. /\ handler[r] = "broadcast" /\ handler' = [handler EXCEPT ![r] = "collect"]
      /\ UNCHANGED <<engine, known, bidCollectors, bids, collected, offers, heard, turnedAway, hangups, bidding>>
      /\ \/ /\ air' = air \union {Ask(r, topic, n) : topic \in MarketTopics, n \in Bidders}
            /\ UNCHANGED losses
         \/ Loss /\ UNCHANGED air
  BY DEF BroadcastAsk, HandlerGoes
<1>3. losses' \in 0..MaxLosses
  BY <1>1, <1>2, MarketAssumption DEF Loss, MarketTypeOK
<1>4. /\ air \subseteq air' /\ \A m \in air' : m \in air \/ \E topic \in MarketTopics, n \in Bidders : m = Ask(r, topic, n)
      /\ handler'[r] = "collect"
  BY <1>1, <1>2 DEF MarketTypeOK
<1>5. MarketTypeOK'
  <2>1. \A topic \in MarketTopics, n \in Bidders :
           Ask(r, topic, n) \in [kind : {"ask"}, req : Asks, topic : MarketTopics, node : Bidders]
    BY DEF Ask
  <2>2. air' \subseteq MarketBids \union [kind : {"ask"}, req : Asks, topic : MarketTopics, node : Bidders]
    BY <1>1, <1>4, <2>1 DEF MarketTypeOK
  <2>. QED  BY <1>1, <1>2, <1>3, <2>2 DEF MarketTypeOK, Soliciting
<1>6. \A topic \in MarketTopics, n \in Bidders : Ask(r, topic, n).kind = "ask" /\ Ask(r, topic, n).req = r
  BY DEF Ask
<1>7. \A q \in Asks : BidsInAir(q)' = BidsInAir(q)
  BY <1>4, <1>6 DEF BidsInAir
<1>8. RestOf(r)
  <2>1. \A q \in Asks \ {r}, topic \in MarketTopics, n \in Bidders :
           Ask(q, topic, n) \in air' <=> Ask(q, topic, n) \in air
    <3>1. \A q \in Asks \ {r}, topic \in MarketTopics, n \in Bidders : Ask(q, topic, n).req = q
      BY DEF Ask
    <3>2. \A m \in air' : m \in air \/ m.req = r
      BY <1>4, <1>6
    <3>. QED  BY <1>4, <3>1, <3>2
  <2>2. \A q \in Asks \ {r} : handler'[q] = handler[q]
    BY <1>1, <1>2 DEF MarketTypeOK
  <2>. QED  BY <1>2, <1>7, <2>1, <2>2 DEF RestOf
<1>9. CollectInv(r)'
  BY <1>1, <1>2, <1>4 DEF CollectInv
<1>10. SingleInv(r)'
  <2>1. \A n \in Bidders : EngineAt(r, n) = "none"
    BY <1>1, <1>2 DEF SingleInv
  <2>. QED  BY <1>1, <1>2, <1>4, <1>7, <2>1 DEF SingleInv, EngineAt, CanServe, BiddersOf, Ask
<1>11. OfferInv(r)'
  BY <1>1, <1>2 DEF OfferInv, CanServe, Offered
<1>. QED  BY <1>2, <1>5, <1>8, <1>9, <1>10, <1>11, OthersAsBefore

LEMMA CollectSteps ==
    ASSUME MarketInv, NEW r \in Asks, Collect(r)
    PROVE  MarketInv'
<1>. DEFINE x == Head(bids[r])  rest == Tail(bids[r])  more == Append(collected[r], x)
<1>1. /\ MarketTypeOK /\ CollectInv(r) /\ SingleInv(r) /\ OfferInv(r)
      /\ bids[r] \in Seq(MarketBids) /\ collected[r] \in Seq(MarketBids)
  BY CollectorSeqs
<1>2. /\ handler[r] = "collect" /\ bids[r] # <<>>
      /\ collected' = [collected EXCEPT ![r] = more] /\ bids' = [bids EXCEPT ![r] = rest]
      /\ UNCHANGED <<engine, known, handler, bidCollectors, offers, heard, turnedAway, hangups, air, bidding, losses>>
  BY DEF Collect
<1>3. /\ x \in MarketBids /\ rest \in Seq(MarketBids) /\ Len(rest) = Len(bids[r]) - 1 /\ Len(bids[r]) \in Nat \ {0}
      /\ Elements(bids[r]) = Elements(rest) \union {x}
      /\ NodesIn(bids[r]) = NodesIn(rest) \union {x.node}
      /\ Distinct(rest) /\ x.node \notin NodesIn(rest)
  <2>1. Distinct(bids[r])
    BY <1>1 DEF SingleInv
  <2>. QED  BY <1>1, <1>2, <2>1, BidTaken
<1>. HIDE DEF x, rest
<1>4. /\ more \in Seq(MarketBids) /\ Elements(more) = Elements(collected[r]) \union {x}
      /\ NodesIn(more) = NodesIn(collected[r]) \union {x.node} /\ Distinct(more)
  <2>1. Distinct(collected[r]) /\ x.node \notin NodesIn(collected[r])
    BY <1>1, <1>3 DEF SingleInv
  <2>. QED  BY <1>1, <1>3, <2>1, BidAppended
<1>. HIDE DEF more
<1>5. collected'[r] = more /\ bids'[r] = rest
  BY <1>1, <1>2 DEF MarketTypeOK
<1>6. MarketTypeOK'
  <2>1. Len(rest) <= CollectorCap
    BY <1>1, <1>3, MarketAssumption DEF MarketTypeOK
  <2>2. bids' \in [Asks -> Seq(MarketBids)] /\ \A q \in Asks : Len(bids'[q]) <= CollectorCap
    BY <1>1, <1>2, <1>3, <2>1 DEF MarketTypeOK
  <2>. QED  BY <1>1, <1>2, <1>4, <2>2 DEF MarketTypeOK
<1>7. RestOf(r)
  BY <1>1, <1>2 DEF RestOf, BidsInAir, MarketTypeOK
<1>8. CollectInv(r)'
  BY <1>1, <1>2, <1>3, <1>4, <1>5 DEF CollectInv
<1>9. SingleInv(r)'
  <2>1. BiddersOf(r)' = BiddersOf(r)
    BY <1>3, <1>4, <1>5 DEF BiddersOf
  <2>2. NodesIn(collected'[r]) \intersect NodesIn(bids'[r]) = {}
    BY <1>1, <1>3, <1>4, <1>5 DEF SingleInv
  <2>3. BidsInAir(r)' = BidsInAir(r)
    BY <1>2 DEF BidsInAir
  <2>. QED  BY <1>1, <1>2, <1>3, <1>4, <1>5, <2>1, <2>2, <2>3 DEF SingleInv, EngineAt, CanServe, Ask
<1>10. OfferInv(r)'
  BY <1>1, <1>2 DEF OfferInv, CanServe, Offered
<1>. QED  BY <1>2, <1>6, <1>7, <1>8, <1>9, <1>10, OthersAsBefore

LEMMA AnswerOffersSteps ==
    ASSUME MarketInv, NEW r \in Asks, AnswerOffers(r)
    PROVE  MarketInv'
<1>. DEFINE sorted == BestFirst(collected[r])
            list == [i \in 1..Len(sorted) |-> Offer(sorted[i])]
<1>1. /\ MarketTypeOK /\ CollectInv(r) /\ SingleInv(r) /\ OfferInv(r)
      /\ collected[r] \in Seq(MarketBids) /\ BiddersOf(r) \subseteq Bidders
  BY CollectorSeqs
<1>2. /\ handler[r] = "answer" /\ handler' = [handler EXCEPT ![r] = "done"]
      /\ offers' = [offers EXCEPT ![r] = list]
      /\ UNCHANGED <<engine, known, bidCollectors, bids, collected, heard, turnedAway, hangups, air, bidding, losses>>
  BY DEF AnswerOffers, HandlerGoes
<1>3. /\ sorted \in Seq(MarketBids) /\ Len(sorted) = Len(collected[r])
      /\ Elements(sorted) = Elements(collected[r])
      /\ Distinct(collected[r]) => Distinct(sorted)
      /\ \A k, l \in 1..Len(collected[r]) : k < l => sorted[k].latency <= sorted[l].latency
  <2>1. \A b \in MarketBids : b.latency \in Nat
    BY MarketAssumption DEF MarketBids, Latencies
  <2>. QED  BY <1>1, <2>1, BidsSorted
<1>4. Distinct(sorted) /\ Len(sorted) \in Nat
  BY <1>1, <1>3, LenProperties DEF SingleInv
<1>. HIDE DEF sorted
<1>5. /\ Len(list) = Len(sorted)
      /\ \A i \in 1..Len(sorted) : list[i].node = sorted[i].node /\ list[i].latency = sorted[i].latency
  BY <1>4 DEF Offer
<1>6. \A i \in 1..Len(sorted) : CanServe(r, sorted[i].node)
  <2>. SUFFICES ASSUME NEW i \in 1..Len(sorted) PROVE CanServe(r, sorted[i].node)
    OBVIOUS
  <2>1. sorted[i] \in Elements(collected[r])
    BY <1>3 DEF Elements
  <2>2. sorted[i].node \in BiddersOf(r)
    BY <2>1 DEF BiddersOf, NodesIn, Elements
  <2>3. EngineAt(r, sorted[i].node) = "sent" /\ sorted[i].node \in Bidders
    BY <1>1, <2>2 DEF SingleInv
  <2>. QED  BY <1>1, <2>3 DEF SingleInv
<1>. HIDE DEF list
<1>7. /\ handler'[r] = "done"
      /\ \A q \in Asks : q # r => handler'[q] = handler[q] /\ offers'[q] = offers[q]
  BY <1>1, <1>2 DEF MarketTypeOK
<1>8. MarketTypeOK'
  <2>1. \A i \in 1..Len(sorted) : Offer(sorted[i]) \in [node : Bidders, latency : Latencies, url : BOOLEAN]
    <3>1. \A i \in 1..Len(sorted) : sorted[i] \in MarketBids
      BY <1>3, ElementOfSeq
    <3>2. \A b \in MarketBids : Offer(b) \in [node : Bidders, latency : Latencies, url : BOOLEAN]
      BY DEF Offer, MarketBids
    <3>. QED  BY <3>1, <3>2
  <2>2. list \in Seq([node : Bidders, latency : Latencies, url : BOOLEAN])
    <3>. HIDE DEF Offer
    <3>. QED  BY <1>4, <2>1, SeqDef DEF list
  <2>. QED  BY <1>1, <1>2, <2>2 DEF MarketTypeOK, Soliciting
<1>9. RestOf(r)
  BY <1>2, <1>7 DEF RestOf, BidsInAir
<1>10. CollectInv(r)'
  BY <1>1, <1>2, <1>7 DEF CollectInv
<1>11. SingleInv(r)'
  BY <1>1, <1>2, <1>7 DEF SingleInv, EngineAt, CanServe, BiddersOf, BidsInAir, Ask
<1>12. OfferInv(r)'
  <2>1. offers'[r] = list /\ Len(collected[r]) = Len(list)
    BY <1>1, <1>2, <1>3, <1>5 DEF MarketTypeOK
  <2>2. Distinct(list)
    BY <1>4, <1>5 DEF Distinct
  <2>3. \A i \in 1..Len(offers'[r]) :
           LET o == offers'[r][i] IN engine'[o.node].serves /\ (r \in Private => engine'[o.node].tee)
    BY <1>2, <1>5, <1>6, <2>1 DEF CanServe
  <2>4. \A i, j \in 1..Len(list) : i < j => list[i].latency <= list[j].latency
    BY <1>3, <1>5
  <2>5. \A bid \in Elements(collected[r]) : \E i \in 1..Len(list) : list[i].node = bid.node /\ list[i].latency = bid.latency
    BY <1>3, <1>5 DEF Elements
  <2>6. \A bid \in Elements(collected'[r]) : Offered(r, bid)'
    BY <1>2, <2>1, <2>5 DEF Offered, Elements
  <2>. QED  BY <2>1, <2>2, <2>3, <2>4, <2>6 DEF OfferInv, CanServe
<1>. QED  BY <1>2, <1>8, <1>9, <1>10, <1>11, <1>12, OthersAsBefore

-----------------------------------------------------------------------------
(* Marketplace: the event loops and the bid engine.                        *)

\* A step in which no collector and no handler takes part.
OnTheAir(r) ==
    /\ UNCHANGED <<engine, known, handler, bidCollectors, bids, collected, offers, heard, turnedAway, hangups>>
    /\ MarketTypeOK'
    /\ \A q \in Asks \ {r} :
          /\ \A topic \in MarketTopics, n \in Bidders :
                /\ bidding'[<<q, topic, n>>] = bidding[<<q, topic, n>>]
                /\ Ask(q, topic, n) \in air' <=> Ask(q, topic, n) \in air
          /\ BidsInAir(q)' = BidsInAir(q)

LEMMA OnTheAirSteps ==
    ASSUME MarketInv, NEW r \in Asks, OnTheAir(r), SingleInv(r)'
    PROVE  MarketInv'
<1>1. CollectInv(r) /\ OfferInv(r)
  BY CollectorSeqs
<1>2. CollectInv(r)'
  BY <1>1 DEF CollectInv, OnTheAir
<1>3. OfferInv(r)'
  BY <1>1 DEF OfferInv, CanServe, OnTheAir, Offered
<1>4. RestOf(r) /\ MarketTypeOK' /\ UNCHANGED <<engine, known>>
  BY DEF RestOf, OnTheAir
<1>. QED  BY <1>2, <1>3, <1>4, OthersAsBefore

LEMMA AskFields ==
    ASSUME MarketTypeOK, NEW m \in air
    PROVE  /\ m.req \in Asks /\ m.node \in Bidders
           /\ m.kind = "ask" => m.topic \in MarketTopics /\ m = Ask(m.req, m.topic, m.node)
           /\ m.kind = "bid" => m \in MarketBids /\ m \in BidsInAir(m.req)
<1>1. m \in MarketBids \/ m \in [kind : {"ask"}, req : Asks, topic : MarketTopics, node : Bidders]
  BY DEF MarketTypeOK
<1>2. CASE m \in MarketBids
  BY <1>2 DEF MarketBids, BidsInAir
<1>3. CASE m \in [kind : {"ask"}, req : Asks, topic : MarketTopics, node : Bidders]
  <2>1. m = Ask(m.req, m.topic, m.node)
    BY <1>3 DEF Ask
  <2>. QED  BY <1>3, <2>1
<1>. QED  BY <1>1, <1>2, <1>3

\* A message goes from the air without being heard.
LEMMA LoseMessageSteps ==
    ASSUME MarketInv, NEW r \in Asks, NEW m \in air, m.req = r, LoseMessage(m)
    PROVE  MarketInv'
<1>1. MarketTypeOK
  BY DEF MarketInv
<1>2. /\ air' = air \ {m} /\ losses' = losses + 1 /\ losses < MaxLosses
      /\ UNCHANGED <<engine, known, handler, bidCollectors, bids, collected, offers, heard, turnedAway, hangups, bidding>>
  BY DEF LoseMessage, Loss, askVars
<1>3. MarketTypeOK'
  <2>1. losses' \in 0..MaxLosses
    BY <1>1, <1>2, MarketAssumption DEF MarketTypeOK
  <2>. QED  BY <1>1, <1>2, <2>1 DEF MarketTypeOK
<1>4. OnTheAir(r)
  <2>1. \A q \in Asks \ {r}, topic \in MarketTopics, n \in Bidders : Ask(q, topic, n).req = q
    BY DEF Ask
  <2>. QED  BY <1>2, <1>3, <2>1 DEF OnTheAir, BidsInAir
<1>5. SingleInv(r)
  BY <1>1, CollectorSeqs
<1>6. SingleInv(r)'
  <2>1. BidsInAir(r)' \subseteq BidsInAir(r) /\ BiddersOf(r)' = BiddersOf(r)
    BY <1>2 DEF BidsInAir, BiddersOf
  <2>2. \A n \in Bidders : EngineAt(r, n)' = EngineAt(r, n) /\ CanServe(r, n)' = CanServe(r, n)
    BY <1>2 DEF EngineAt, CanServe
  <2>3. (\A b \in BidsInAir(r) : b.node \in Bidders) /\ BiddersOf(r) \subseteq Bidders
    BY <1>1, CollectorSeqs
  <2>4. \A n \in Bidders :
          /\ bidding'[<<r, "model", n>>] = "none"
          /\ handler'[r] \in {"idle", "broadcast"} => EngineAt(r, n)' = "none" /\ Ask(r, "any", n) \notin air'
          /\ Ask(r, "any", n) \in air' => EngineAt(r, n)' = "none"
          /\ EngineAt(r, n)' \in {"bid", "sent"} => CanServe(r, n)'
    BY <1>2, <1>5, <2>2 DEF SingleInv
  <2>5. \A b \in BidsInAir(r)' :
          /\ EngineAt(r, b.node)' = "sent" /\ b.node \notin BiddersOf(r)'
          /\ \A c \in BidsInAir(r)' : c.node = b.node => c = b
    BY <1>5, <2>1, <2>2, <2>3 DEF SingleInv
  <2>6. \A n \in BiddersOf(r)' : EngineAt(r, n)' = "sent"
    BY <1>5, <2>1, <2>2, <2>3 DEF SingleInv
  <2>. QED  BY <1>2, <1>5, <2>4, <2>5, <2>6 DEF SingleInv, Ask
<1>. QED  BY <1>1, <1>4, <1>6, OnTheAirSteps

\* What an engine does for a request, with the bids as they were.
LEMMA EngineSteps ==
    ASSUME MarketInv, NEW r \in Asks, NEW n \in Bidders, NEW to,
           bidding' = [bidding EXCEPT ![<<r, "any", n>>] = to],
           BidsInAir(r)' = BidsInAir(r), EngineAt(r, n) # "sent",
           \A k \in Bidders : Ask(r, "any", k) \in air' => Ask(r, "any", k) \in air /\ k # n,
           handler[r] \notin {"idle", "broadcast"},
           to = "bid" => CanServe(r, n), to # "sent",
           OnTheAir(r)
    PROVE  MarketInv'
<1>1. MarketTypeOK /\ SingleInv(r) /\ BiddersOf(r) \subseteq Bidders /\ \A b \in BidsInAir(r) : b.node \in Bidders
  BY CollectorSeqs
<1>2. "any" \in MarketTopics /\ "model" \in MarketTopics
  BY DEF MarketTopics
<1>3. /\ \A k \in Bidders : bidding'[<<r, "model", k>>] = bidding[<<r, "model", k>>]
      /\ \A k \in Bidders : k # n => EngineAt(r, k)' = EngineAt(r, k)
      /\ EngineAt(r, n)' = to
  BY <1>1, <1>2 DEF MarketTypeOK, EngineAt
<1>4. /\ BiddersOf(r)' = BiddersOf(r) /\ \A k \in Bidders : CanServe(r, k)' = CanServe(r, k)
      /\ UNCHANGED <<handler, collected, bids>>
  BY DEF OnTheAir, BiddersOf, CanServe
<1>5. \A k \in Bidders :
          /\ bidding'[<<r, "model", k>>] = "none"
          /\ Ask(r, "any", k) \in air' => EngineAt(r, k)' = "none"
          /\ EngineAt(r, k)' \in {"bid", "sent"} => CanServe(r, k)'
  BY <1>1, <1>3, <1>4 DEF SingleInv
<1>6. \A b \in BidsInAir(r)' :
          /\ EngineAt(r, b.node)' = "sent" /\ b.node \notin BiddersOf(r)'
          /\ \A c \in BidsInAir(r)' : c.node = b.node => c = b
  BY <1>1, <1>3, <1>4 DEF SingleInv
<1>7. \A k \in BiddersOf(r)' : EngineAt(r, k)' = "sent"
  BY <1>1, <1>3, <1>4 DEF SingleInv
<1>8. SingleInv(r)'
  BY <1>1, <1>4, <1>5, <1>6, <1>7 DEF SingleInv, Ask
<1>. QED  BY <1>8, OnTheAirSteps

LEMMA DecideSteps ==
    ASSUME MarketInv, NEW r \in Asks, NEW topic \in MarketTopics, NEW n \in Bidders, Decide(r, topic, n)
    PROVE  MarketInv'
<1>1. MarketTypeOK /\ SingleInv(r)
  BY CollectorSeqs
<1>2. topic = "any" /\ EngineAt(r, n) = "heard"
  BY <1>1 DEF Decide, SingleInv, EngineAt, MarketTopics
<1>3. PICK load \in Loads :
         bidding' = [bidding EXCEPT ![<<r, "any", n>>] = IF ShouldBid(n, r, load) THEN "bid" ELSE "declined"]
  BY <1>2 DEF Decide
<1>4. PICK to \in {"bid", "declined"} :
         bidding' = [bidding EXCEPT ![<<r, "any", n>>] = to] /\ (to = "bid" => CanServe(r, n))
  <2>1. ShouldBid(n, r, load) => CanServe(r, n)
    BY DEF ShouldBid, CanServe
  <2>. QED  BY <1>3, <2>1
<1>5. UNCHANGED <<engine, known, handler, bidCollectors, bids, collected, offers, heard, turnedAway, hangups, air, losses>>
  BY DEF Decide, askVars
<1>6. MarketTypeOK'
  BY <1>1, <1>4, <1>5 DEF MarketTypeOK
<1>7. OnTheAir(r)
  BY <1>1, <1>4, <1>5, <1>6 DEF OnTheAir, BidsInAir, MarketTypeOK
<1>8. /\ handler[r] \notin {"idle", "broadcast"}
      /\ \A k \in Bidders : Ask(r, "any", k) \in air' => Ask(r, "any", k) \in air /\ k # n
  BY <1>1, <1>2, <1>5 DEF SingleInv, Ask
<1>9. BidsInAir(r)' = BidsInAir(r)
  BY <1>5 DEF BidsInAir
<1>. QED  BY <1>2, <1>4, <1>7, <1>8, <1>9, EngineSteps

LEMMA HearAskSteps ==
    ASSUME MarketInv, NEW r \in Asks, NEW m \in air, m.req = r, HearAsk(m)
    PROVE  MarketInv'
<1>1. MarketTypeOK /\ SingleInv(r) /\ BiddersOf(r) \subseteq Bidders /\ \A b \in BidsInAir(r) : b.node \in Bidders
  BY CollectorSeqs
<1>2. /\ m.kind = "ask" /\ air' = air \ {m}
      /\ bidding' = IF m.topic = "any" THEN [bidding EXCEPT ![<<r, m.topic, m.node>>] = "heard"] ELSE bidding
      /\ UNCHANGED <<engine, known, handler, bidCollectors, bids, collected, offers, heard, turnedAway, hangups, losses>>
  BY DEF HearAsk, askVars, KnownTopic
<1>3. m.node \in Bidders /\ m.topic \in MarketTopics /\ m = Ask(r, m.topic, m.node)
  BY <1>1, <1>2, AskFields
<1>4. MarketTypeOK'
  <2>1. "any" \in MarketTopics
    BY DEF MarketTopics
  <2>. QED  BY <1>1, <1>2, <1>3 DEF MarketTypeOK
<1>5. \A q \in Asks : BidsInAir(q)' = BidsInAir(q)
  BY <1>2 DEF BidsInAir
<1>6. OnTheAir(r)
  <2>1. \A q \in Asks \ {r}, topic \in MarketTopics, n \in Bidders :
           Ask(q, topic, n) \in air' <=> Ask(q, topic, n) \in air
    <3>1. \A q \in Asks \ {r}, topic \in MarketTopics, n \in Bidders : Ask(q, topic, n).req = q
      BY DEF Ask
    <3>. QED  BY <1>2, <3>1
  <2>2. \A q \in Asks \ {r}, topic \in MarketTopics, n \in Bidders :
           bidding'[<<q, topic, n>>] = bidding[<<q, topic, n>>]
    BY <1>1, <1>2 DEF MarketTypeOK
  <2>. QED  BY <1>2, <1>4, <1>5, <2>1, <2>2 DEF OnTheAir
<1>7. CASE m.topic = "any"
  <2>. Ask(r, "any", m.node) \in air
    BY <1>3, <1>7
  <2>1. /\ EngineAt(r, m.node) = "none" /\ handler[r] \notin {"idle", "broadcast"}
    BY <1>1, <1>3 DEF SingleInv
  <2>2. \A k \in Bidders : Ask(r, "any", k) \in air' => Ask(r, "any", k) \in air /\ k # m.node
    BY <1>2, <1>3, <1>7
  <2>3. bidding' = [bidding EXCEPT ![<<r, "any", m.node>>] = "heard"]
    BY <1>2, <1>7
  <2>4. BidsInAir(r)' = BidsInAir(r) /\ EngineAt(r, m.node) # "sent"
    BY <1>5, <2>1
  <2>5. \A to : to = "heard" => to # "sent" /\ (to = "bid" => CanServe(r, m.node))
    OBVIOUS
  <2>. QED  BY <1>3, <1>6, <2>1, <2>2, <2>3, <2>4, <2>5, EngineSteps
<1>8. CASE m.topic # "any"
  <2>1. bidding' = bidding /\ \A k \in Bidders : Ask(r, "any", k) \in air' => Ask(r, "any", k) \in air
    BY <1>2, <1>8
  <2>2. \A k \in Bidders : EngineAt(r, k)' = EngineAt(r, k) /\ CanServe(r, k)' = CanServe(r, k)
    BY <1>2, <2>1 DEF EngineAt, CanServe
  <2>3. BiddersOf(r)' = BiddersOf(r)
    BY <1>2 DEF BiddersOf
  <2>4. SingleInv(r)'
    BY <1>1, <1>2, <1>5, <2>1, <2>2, <2>3 DEF SingleInv, Ask
  <2>. QED  BY <1>6, <2>4, OnTheAirSteps
<1>. QED  BY <1>7, <1>8

LEMMA SendBidSteps ==
    ASSUME MarketInv, NEW r \in Asks, NEW topic \in MarketTopics, NEW n \in Bidders, SendBid(r, topic, n)
    PROVE  MarketInv'
<1>1. MarketTypeOK /\ SingleInv(r) /\ BiddersOf(r) \subseteq Bidders /\ \A b \in BidsInAir(r) : b.node \in Bidders
  BY CollectorSeqs
<1>2. topic = "any" /\ EngineAt(r, n) = "bid"
  BY <1>1 DEF SendBid, SingleInv, EngineAt, MarketTopics
<1>3. /\ bidding' = [bidding EXCEPT ![<<r, "any", n>>] = "sent"]
      /\ UNCHANGED <<engine, known, handler, bidCollectors, bids, collected, offers, heard, turnedAway, hangups>>
      /\ \/ (\E load \in Loads : air' = air \union {Bid(r, n, load)}) /\ losses' = losses
         \/ losses < MaxLosses /\ losses' = losses + 1 /\ air' = air
  BY <1>2 DEF SendBid, Loss, askVars
<1>4. PICK new \in SUBSET MarketBids :
         /\ air' = air \union new
         /\ \A b \in new : b.kind = "bid" /\ b.req = r /\ b.node = n
         /\ \A b, c \in new : b = c
  <2>1. CASE air' = air
    <3>1. {} \in SUBSET MarketBids /\ air' = air \union {}
      BY <2>1
    <3>. QED  BY <3>1
  <2>2. CASE \E load \in Loads : air' = air \union {Bid(r, n, load)}
    <3>1. PICK load \in Loads : air' = air \union {Bid(r, n, load)}
      BY <2>2
    <3>2. /\ Bid(r, n, load) \in MarketBids /\ Bid(r, n, load).kind = "bid"
          /\ Bid(r, n, load).req = r /\ Bid(r, n, load).node = n
      BY DEF Bid, MarketBids, Latencies
    <3>3. {Bid(r, n, load)} \in SUBSET MarketBids
      BY <3>2
    <3>. QED  BY <3>1, <3>2, <3>3
  <2>. QED  BY <1>3, <2>1, <2>2
<1>5. MarketTypeOK'
  <2>1. losses' \in 0..MaxLosses
    BY <1>1, <1>3, MarketAssumption DEF MarketTypeOK
  <2>. QED  BY <1>1, <1>3, <1>4, <2>1 DEF MarketTypeOK
<1>6. \A q \in Asks, t \in MarketTopics, k \in Bidders : Ask(q, t, k) \in air' <=> Ask(q, t, k) \in air
  <2>1. \A q \in Asks, t \in MarketTopics, k \in Bidders : Ask(q, t, k).kind = "ask"
    BY DEF Ask
  <2>. QED  BY <1>4, <2>1
<1>7. OnTheAir(r)
  <2>1. \A q \in Asks \ {r} : BidsInAir(q)' = BidsInAir(q)
    BY <1>4 DEF BidsInAir
  <2>2. \A q \in Asks \ {r}, t \in MarketTopics, k \in Bidders : bidding'[<<q, t, k>>] = bidding[<<q, t, k>>]
    BY <1>1, <1>3 DEF MarketTypeOK
  <2>. QED  BY <1>3, <1>5, <1>6, <2>1, <2>2 DEF OnTheAir
<1>8. BidsInAir(r)' = BidsInAir(r) \union new
  BY <1>4 DEF BidsInAir
<1>9. "any" \in MarketTopics /\ "model" \in MarketTopics
  BY DEF MarketTopics
<1>10. /\ \A k \in Bidders : bidding'[<<r, "model", k>>] = bidding[<<r, "model", k>>]
       /\ \A k \in Bidders : k # n => EngineAt(r, k)' = EngineAt(r, k)
       /\ EngineAt(r, n)' = "sent"
  BY <1>1, <1>3, <1>9 DEF MarketTypeOK, EngineAt
<1>11. BiddersOf(r)' = BiddersOf(r) /\ \A k \in Bidders : CanServe(r, k)' = CanServe(r, k)
  BY <1>3 DEF BiddersOf, CanServe
<1>12. n \notin BiddersOf(r) /\ \A b \in BidsInAir(r) : b.node # n
  BY <1>1, <1>2 DEF SingleInv
<1>13. SingleInv(r)'
  <2>1. \A k \in Bidders :
          /\ bidding'[<<r, "model", k>>] = "none"
          /\ handler'[r] \in {"idle", "broadcast"} => EngineAt(r, k)' = "none" /\ Ask(r, "any", k) \notin air'
          /\ Ask(r, "any", k) \in air' => EngineAt(r, k)' = "none"
          /\ EngineAt(r, k)' \in {"bid", "sent"} => CanServe(r, k)'
    BY <1>1, <1>2, <1>3, <1>6, <1>9, <1>10, <1>11 DEF SingleInv
  <2>2. \A b \in BidsInAir(r)' :
          /\ EngineAt(r, b.node)' = "sent" /\ b.node \notin BiddersOf(r)'
          /\ \A c \in BidsInAir(r)' : c.node = b.node => c = b
    BY <1>1, <1>4, <1>8, <1>10, <1>11, <1>12 DEF SingleInv
  <2>3. \A k \in BiddersOf(r)' : EngineAt(r, k)' = "sent"
    BY <1>1, <1>10, <1>11 DEF SingleInv
  <2>. QED  BY <1>1, <1>3, <2>1, <2>2, <2>3 DEF SingleInv, Ask
<1>. QED  BY <1>7, <1>13, OnTheAirSteps

LEMMA HearBidSteps ==
    ASSUME MarketInv, NEW r \in Asks, NEW m \in air, m.req = r, HearBid(m)
    PROVE  MarketInv'
<1>1. /\ MarketTypeOK /\ CollectInv(r) /\ SingleInv(r) /\ OfferInv(r) /\ BiddersOf(r) \subseteq Bidders
      /\ bids[r] \in Seq(MarketBids) /\ \A b \in BidsInAir(r) : b.node \in Bidders
  BY CollectorSeqs
<1>2. /\ m.kind = "bid" /\ air' = air \ {m}
      /\ UNCHANGED <<engine, known, handler, bidCollectors, collected, offers, hangups, bidding, losses>>
      /\ heard' = IF Awaiting(r) THEN [heard EXCEPT ![r] = @ \union {m}] ELSE heard
      /\ \/ /\ r \in bidCollectors /\ handler[r] \in Soliciting /\ Len(bids[r]) < CollectorCap
            /\ bids' = [bids EXCEPT ![r] = Append(@, m)] /\ turnedAway' = turnedAway
         \/ /\ r \in bidCollectors /\ handler[r] \in Soliciting
            /\ turnedAway' = [turnedAway EXCEPT ![r] = @ \union {m}] /\ bids' = bids
         \/ ~(r \in bidCollectors /\ handler[r] \in Soliciting) /\ bids' = bids /\ turnedAway' = turnedAway
  BY DEF HearBid
<1>3. m \in MarketBids /\ m \in BidsInAir(r)
  BY <1>1, <1>2, AskFields
<1>4. m.node \notin BiddersOf(r) /\ EngineAt(r, m.node) = "sent" /\ m.node \in Bidders
  BY <1>1, <1>3 DEF SingleInv
<1>5. LET t == Append(bids[r], m) IN
      /\ t \in Seq(MarketBids) /\ Len(t) = Len(bids[r]) + 1
      /\ Elements(t) = Elements(bids[r]) \union {m}
      /\ NodesIn(t) = NodesIn(bids[r]) \union {m.node}
      /\ Distinct(t)
  BY <1>1, <1>3, <1>4, BidAppended DEF SingleInv, BiddersOf
<1>. DEFINE t == Append(bids[r], m)
<1>6. t \in Seq(MarketBids) /\ Len(t) = Len(bids[r]) + 1 /\ Elements(t) = Elements(bids[r]) \union {m}
      /\ NodesIn(t) = NodesIn(bids[r]) \union {m.node} /\ Distinct(t)
  BY <1>5
<1>. HIDE DEF t
<1>7. /\ heard'[r] \subseteq heard[r] \union {m} /\ turnedAway[r] \subseteq turnedAway'[r]
      /\ \/ bids'[r] = t \/ bids'[r] = bids[r]
      /\ Awaiting(r) => bids'[r] = t \/ m \in turnedAway'[r]
      /\ ~Awaiting(r) => heard'[r] = heard[r]
  BY <1>1, <1>2 DEF MarketTypeOK, CollectInv, Awaiting, Soliciting, t
<1>8. MarketTypeOK'
  <2>1. heard' \in [Asks -> SUBSET MarketBids] /\ turnedAway' \in [Asks -> SUBSET MarketBids]
    <3>1. /\ heard \in [Asks -> SUBSET MarketBids] /\ turnedAway \in [Asks -> SUBSET MarketBids]
          /\ heard[r] \union {m} \in SUBSET MarketBids /\ turnedAway[r] \union {m} \in SUBSET MarketBids
      BY <1>1, <1>3 DEF MarketTypeOK
    <3>2. heard' = heard \/ heard' = [heard EXCEPT ![r] = heard[r] \union {m}]
      BY <1>2
    <3>3. turnedAway' = turnedAway \/ turnedAway' = [turnedAway EXCEPT ![r] = turnedAway[r] \union {m}]
      BY <1>2
    <3>. QED  BY <3>1, <3>2, <3>3
  <2>2. bids' \in [Asks -> Seq(MarketBids)] /\ \A q \in Asks : Len(bids'[q]) <= CollectorCap
    <3>1. CASE bids' = bids
      BY <1>1, <3>1 DEF MarketTypeOK
    <3>2. CASE Len(bids[r]) < CollectorCap /\ bids' = [bids EXCEPT ![r] = t]
      <4>1. Len(t) <= CollectorCap
        BY <1>1, <1>6, <3>2, LenProperties, MarketAssumption
      <4>. QED  BY <1>1, <1>6, <3>2, <4>1 DEF MarketTypeOK
    <3>. QED  BY <1>2, <3>1, <3>2 DEF t
  <2>. QED  BY <1>1, <1>2, <2>1, <2>2 DEF MarketTypeOK
<1>9. /\ BidsInAir(r)' = BidsInAir(r) \ {m}
      /\ \A q \in Asks \ {r} : BidsInAir(q)' = BidsInAir(q)
      /\ \A q \in Asks, topic \in MarketTopics, n \in Bidders : Ask(q, topic, n) \in air' <=> Ask(q, topic, n) \in air
  BY <1>2, <1>3 DEF BidsInAir, Ask
<1>10. RestOf(r)
  <2>1. \A q \in Asks \ {r} : bids'[q] = bids[q] /\ heard'[q] = heard[q] /\ turnedAway'[q] = turnedAway[q]
    BY <1>1, <1>2 DEF MarketTypeOK
  <2>. QED  BY <1>2, <1>9, <2>1 DEF RestOf
<1>11. CollectInv(r)'
  <2>1. Elements(bids[r]) \subseteq Elements(bids'[r])
    BY <1>6, <1>7
  <2>2. Awaiting(r) => m \in Elements(bids'[r]) \union turnedAway'[r]
    BY <1>6, <1>7
  <2>3. handler[r] # "dropped" => heard'[r] \subseteq Elements(collected[r]) \union Elements(bids'[r]) \union turnedAway'[r]
    BY <1>1, <1>7, <2>1, <2>2 DEF CollectInv
  <2>. QED  BY <1>1, <1>2, <2>3 DEF CollectInv
<1>12. SingleInv(r)'
  <2>1. \A n \in Bidders : EngineAt(r, n)' = EngineAt(r, n) /\ CanServe(r, n)' = CanServe(r, n)
    BY <1>2 DEF EngineAt, CanServe
  <2>2. BiddersOf(r)' \subseteq BiddersOf(r) \union {m.node}
    BY <1>2, <1>6, <1>7 DEF BiddersOf
  <2>3. \A b \in BidsInAir(r)' :
          /\ EngineAt(r, b.node)' = "sent" /\ b.node \notin BiddersOf(r)'
          /\ \A c \in BidsInAir(r)' : c.node = b.node => c = b
    BY <1>1, <1>3, <1>9, <2>1, <2>2 DEF SingleInv
  <2>4. \A n \in BiddersOf(r)' : EngineAt(r, n)' = "sent"
    BY <1>1, <1>4, <2>1, <2>2 DEF SingleInv
  <2>5. \A n \in Bidders :
          /\ bidding'[<<r, "model", n>>] = "none"
          /\ handler'[r] \in {"idle", "broadcast"} => EngineAt(r, n)' = "none" /\ Ask(r, "any", n) \notin air'
          /\ Ask(r, "any", n) \in air' => EngineAt(r, n)' = "none"
          /\ EngineAt(r, n)' \in {"bid", "sent"} => CanServe(r, n)'
    BY <1>1, <1>2, <2>1 DEF SingleInv
  <2>6. NodesIn(collected'[r]) \intersect NodesIn(bids'[r]) = {} /\ Distinct(collected'[r]) /\ Distinct(bids'[r])
    BY <1>1, <1>2, <1>4, <1>6, <1>7 DEF SingleInv, BiddersOf
  <2>. QED  BY <2>3, <2>4, <2>5, <2>6 DEF SingleInv, Ask
<1>13. OfferInv(r)'
  BY <1>1, <1>2 DEF OfferInv, CanServe, Offered
<1>. QED  BY <1>2, <1>8, <1>10, <1>11, <1>12, <1>13, OthersAsBefore

LEMMA HandlerSteps ==
    ASSUME MarketInv, NEW r \in Asks, Deadline(r) \/ Unregister(r) \/ HangUp(r)
    PROVE  MarketInv'
<1>1. hangups \in 0..MaxHangups
  BY DEF MarketInv, MarketTypeOK
<1>2. CASE Deadline(r)
  <2>1. Moves("collect", "cleanup")
    BY DEF Moves
  <2>2. bidCollectors' = bidCollectors /\ hangups' \in 0..MaxHangups
    BY <1>1, <1>2 DEF Deadline
  <2>. QED  BY <1>2, <2>1, <2>2, HandlerMoves DEF Deadline
<1>3. CASE Unregister(r)
  <2>1. Moves("cleanup", "answer")
    BY DEF Moves
  <2>2. bidCollectors' = bidCollectors \ {r} /\ hangups' \in 0..MaxHangups
    BY <1>1, <1>3 DEF Unregister
  <2>. QED  BY <1>3, <2>1, <2>2, HandlerMoves DEF Unregister
<1>4. CASE HangUp(r)
  <2>1. Moves(handler[r], "dropped") /\ HandlerGoes(r, handler[r], "dropped")
    BY <1>4 DEF Moves, HangUp, HandlerGoes
  <2>2. bidCollectors' = bidCollectors /\ hangups' \in 0..MaxHangups
    BY <1>1, <1>4, MarketAssumption DEF HangUp
  <2>. QED  BY <1>4, <2>1, <2>2, HandlerMoves DEF HangUp
<1>. QED  BY <1>2, <1>3, <1>4

LEMMA MarketInitOK ==
    ASSUME MarketInit
    PROVE  MarketInv
<1>1. <<>> \in Seq(MarketBids) /\ <<>> \in Seq([node : Bidders, latency : Latencies, url : BOOLEAN])
  BY EmptySeq
<1>2. MarketTypeOK
  BY <1>1, MarketAssumption DEF MarketInit, MarketTypeOK
<1>3. ASSUME NEW r \in Asks
      PROVE  CollectInv(r) /\ SingleInv(r) /\ OfferInv(r)
  <2>1. /\ handler[r] = "idle" /\ bids[r] = <<>> /\ collected[r] = <<>> /\ offers[r] = <<>>
        /\ heard[r] = {} /\ bidCollectors = {} /\ air = {}
        /\ \A topic \in MarketTopics, n \in Bidders : bidding[<<r, topic, n>>] = "none"
    BY DEF MarketInit
  <2>2. "any" \in MarketTopics /\ "model" \in MarketTopics
    BY DEF MarketTopics
  <2>3. NodesIn(<<>>) = {} /\ Distinct(<<>>) /\ BidsInAir(r) = {} /\ BiddersOf(r) = {}
    BY <2>1 DEF NodesIn, Distinct, BidsInAir, BiddersOf
  <2>. QED  BY <2>1, <2>2, <2>3 DEF CollectInv, SingleInv, OfferInv, EngineAt
<1>. QED  BY <1>2, <1>3 DEF MarketInv

LEMMA MarketStepsOK ==
    ASSUME MarketInv, [MarketNext]_marketVars
    PROVE  MarketInv'
<1>1. ASSUME NEW r \in Asks, NEW topic \in MarketTopics, NEW n \in Bidders, Decide(r, topic, n) \/ SendBid(r, topic, n)
      PROVE  MarketInv'
  BY <1>1, DecideSteps, SendBidSteps
<1>2. ASSUME NEW r \in Asks,
             \/ Solicit(r) \/ BroadcastAsk(r) \/ Collect(r) \/ Deadline(r) \/ Unregister(r)
             \/ AnswerOffers(r) \/ HangUp(r)
      PROVE  MarketInv'
  BY <1>2, SolicitSteps, BroadcastAskSteps, CollectSteps, HandlerSteps, AnswerOffersSteps
<1>3. ASSUME NEW m \in air, HearAsk(m) \/ HearBid(m) \/ LoseMessage(m)
      PROVE  MarketInv'
  <2>1. m.req \in Asks
    BY AskFields DEF MarketInv
  <2>. QED  BY <1>3, <2>1, HearAskSteps, HearBidSteps, LoseMessageSteps
<1>4. CASE UNCHANGED marketVars
  <2>. UNCHANGED <<engine, known, handler, bidCollectors, bids, collected, offers, heard, turnedAway, hangups,
                   air, bidding, losses>>
    BY <1>4 DEF marketVars, askVars
  <2>1. MarketTypeOK'
    BY DEF MarketInv, MarketTypeOK
  <2>2. ASSUME NEW r \in Asks
        PROVE  CollectInv(r)' /\ SingleInv(r)' /\ OfferInv(r)'
    <3>1. CollectInv(r) /\ SingleInv(r) /\ OfferInv(r)
      BY CollectorSeqs
    <3>2. CollectInv(r)' /\ OfferInv(r)'
      BY <3>1 DEF CollectInv, OfferInv, CanServe, Offered
    <3>3. SingleInv(r)'
      BY <3>1 DEF SingleInv, EngineAt, BidsInAir, CanServe, BiddersOf, Ask
    <3>. QED  BY <3>2, <3>3
  <2>. QED  BY <2>1, <2>2 DEF MarketInv
<1>. QED  BY <1>1, <1>2, <1>3, <1>4 DEF MarketNext

\* A client that asks the market for offers is given every bid the event loop heard
\* while the handler listened (but for those a full collector turned away and those the
\* deadline came before), each node once and only nodes that serve the model and the
\* privacy asked for, the lowest latency first; and a collector stays registered
\* only when the client hung up (marketplace_request_handler, daemon.rs's BidReceived,
\* BidEngine::should_bid).
THEOREM MarketAnswersRight == MarketSpec => []MarketAnswers
<1>1. MarketInv => MarketAnswers
  <2>. SUFFICES ASSUME MarketInv
                PROVE  MarketAnswers
    OBVIOUS
  <2>1. \A r \in Asks : CollectInv(r) /\ OfferInv(r)
    BY CollectorSeqs
  <2>2. OneOfferPerNode /\ BestOfferFirst
    BY <2>1 DEF OneOfferPerNode, BestOfferFirst, OfferInv, Distinct, CanServe, Elements
  <2>3. EveryBidCounted /\ NoStrayCollectors
    BY <2>1 DEF EveryBidCounted, NoStrayCollectors, CollectInv, OfferInv, MarketInv, MarketTypeOK
  <2>. QED  BY <2>2, <2>3 DEF MarketAnswers, OffersAreRight, BidsAreCollected
<1>2. MarketInit => MarketInv
  BY MarketInitOK
<1>3. MarketInv /\ [MarketNext]_marketVars => MarketInv'
  BY MarketStepsOK
<1>. QED  BY <1>1, <1>2, <1>3, PTL DEF MarketSpec

-----------------------------------------------------------------------------
(* Swarm.  Within an interval a calm listener is sent an announcement it   *)
(* has not seen, and hears it before the interval ends (HeardInv); what    *)
(* it has seen of an earlier life of the node is as old as this one        *)
(* (SeenInv), and forgotten when it has lasted longer than gossip          *)
(* remembers.                                                              *)

\* An announcement of the node as it is.
OfThisLife(m) == Up /\ m.caps = caps /\ m.seq <= seq

DownInv == ~Up => links = {} /\ ~delayed /\ ~announced
SentInv == Up => \A e \in sent : e.msg.seq <= seq
WireInv == \A m \in wire : life = 0 \/ OfThisLife(m.msg)
SeenInv == \A p \in Listeners : \A e \in seen[p] : e.age >= life \/ OfThisLife(e.msg)
CalmInv == \A p \in Listeners : calm[p] >= 1 => p \in mesh

\* A message the listener will take.
Unseen(p) == \E m \in Announcements : [to |-> p, msg |-> m] \in wire /\ ~Remembered(seen[p], m)
Known(p, age) == registry[p].caps = caps /\ registry[p].age <= age

HeardInv ==
    \A p \in Listeners :
        /\ calm[p] >= 1 /\ announced /\ life > CacheTTL => Known(p, 0) \/ Unseen(p)
        /\ calm[p] >= 2 /\ life > CacheTTL + 1 => Known(p, 1)

\* What is told of a node that does not run is as old as its silence.
SilentInv == ~Up => \A p \in Listeners : registry[p] # Unknown => registry[p].age >= life

SwarmInv ==
    /\ SwarmTypeOK /\ life <= clock
    /\ DownInv /\ SentInv /\ WireInv /\ SeenInv /\ CalmInv /\ HeardInv /\ SilentInv

LEMMA SwarmInitInv == SwarmInit => SwarmInv
<1>. SUFFICES ASSUME SwarmInit  PROVE SwarmInv
  OBVIOUS
<1>1. SwarmTypeOK
  <2>1. /\ seen \in [Listeners -> SUBSET [msg : Announcements, age : 0..CacheTTL]]
        /\ calm \in [Listeners -> Nat]
        /\ registry \in [Listeners -> Entry \union {Unknown}]
    BY DEF SwarmInit
  <2>2. 0 \in 0..MaxTime /\ 0 \in 0..MaxFaults
    BY SwarmAssumption
  <2>. QED  BY <2>1, <2>2 DEF SwarmInit, SwarmTypeOK
<1>2. \A p \in Listeners : calm[p] = 0 /\ seen[p] = {} /\ registry[p] = Unknown
  BY DEF SwarmInit
<1>3. CalmInv /\ HeardInv /\ SeenInv /\ SilentInv
  BY <1>2 DEF CalmInv, HeardInv, SeenInv, SilentInv
<1>4. life <= clock /\ DownInv /\ SentInv /\ WireInv
  BY DEF SwarmInit, DownInv, SentInv, WireInv, Up
<1>. QED  BY <1>1, <1>3, <1>4 DEF SwarmInv

LEMMA SwarmFields ==
    ASSUME SwarmTypeOK
    PROVE  /\ \A m \in wire : m.to \in Listeners /\ m.msg \in Announcements /\ m = [to |-> m.to, msg |-> m.msg]
           /\ \A p \in Listeners : \A e \in seen[p] : e.msg \in Announcements /\ e.age \in 0..CacheTTL
           /\ \A e \in sent : e.msg \in Announcements /\ e.age \in 0..CacheTTL
           /\ \A m \in Announcements : m.caps \in Offers /\ m.seq \in Nat
           /\ \A p \in Listeners : registry[p].age \in Nat /\ registry[p].caps \in Offers \union {Down}
BY DEF SwarmTypeOK, Announcements, Entry, Unknown

\* The message of publish_announce is new to the node's own gossip.
LEMMA Published ==
    ASSUME SwarmInv, Up, NEW to, to \subseteq Listeners, PublishAnnounce(to)
    PROVE  /\ seq' = seq + 1 /\ Envelope \in Announcements
           /\ Envelope.caps = caps /\ Envelope.seq = seq + 1
           /\ wire' = wire \union {[to |-> p, msg |-> Envelope] : p \in to}
           /\ sent \subseteq sent' /\ sent' \subseteq sent \union {[msg |-> Envelope, age |-> 0]}
           /\ wire' \subseteq [to : Listeners, msg : Announcements]
           /\ sent' \subseteq [msg : Announcements, age : 0..CacheTTL]
<1>1. SwarmTypeOK /\ SentInv
  BY DEF SwarmInv
<1>2. /\ Envelope \in Announcements /\ Envelope.caps = caps /\ Envelope.seq = seq + 1
  BY <1>1 DEF Envelope, Announcements, SwarmTypeOK, Up
<1>3. ~Remembered(sent, Envelope)
  <2>1. \A e \in sent : e.msg.seq <= seq /\ e.msg.seq \in Nat /\ seq \in Nat
    BY <1>1, SwarmFields DEF SentInv, SwarmTypeOK
  <2>. QED  BY <1>2, <2>1 DEF Remembered
<1>. HIDE DEF Envelope
<1>4. /\ seq' = seq + 1
      /\ wire' = wire \union {[to |-> p, msg |-> Envelope] : p \in to}
      /\ \/ sent' = sent
         \/ sent' = sent \union {[msg |-> Envelope, age |-> 0]}
  BY <1>3 DEF PublishAnnounce, Remember
<1>5. 0 \in 0..CacheTTL
  BY SwarmAssumption
<1>. QED  BY <1>1, <1>2, <1>4, <1>5 DEF SwarmTypeOK

\* A publication to those that know they are subscribed.
LEMMA PublishSteps ==
    ASSUME SwarmInv, Up, NEW to, to \subseteq Listeners, PublishAnnounce(to),
           UNCHANGED <<caps, links, calm, seen, registry, life, clock, faults>>,
           mesh \subseteq mesh', mesh' \subseteq links,
           announced' \in BOOLEAN, delayed' \in BOOLEAN,
           announced' => announced \/ to = mesh
    PROVE  SwarmInv'
<1>. DEFINE m == Envelope
<1>1. /\ seq' = seq + 1 /\ m \in Announcements /\ m.caps = caps /\ m.seq = seq + 1
      /\ wire' = wire \union {[to |-> p, msg |-> m] : p \in to}
      /\ sent' \subseteq sent \union {[msg |-> m, age |-> 0]}
      /\ wire' \subseteq [to : Listeners, msg : Announcements]
      /\ sent' \subseteq [msg : Announcements, age : 0..CacheTTL]
  BY Published
<1>. HIDE DEF m
<1>2. SwarmTypeOK /\ seq \in Nat
  BY DEF SwarmInv, SwarmTypeOK
<1>3. SwarmTypeOK'
  BY <1>1, <1>2 DEF SwarmTypeOK
<1>4. Up' /\ \A n \in Announcements : OfThisLife(n) => OfThisLife(n)'
  <2>1. \A n \in Announcements : n.seq \in Nat
    BY <1>2, SwarmFields
  <2>. QED  BY <1>1, <1>2, <2>1 DEF OfThisLife, Up
<1>5. DownInv' /\ SilentInv'
  BY <1>4 DEF DownInv, SilentInv
<1>6. SentInv'
  <2>1. \A e \in sent : e.msg.seq <= seq /\ e.msg.seq \in Nat
    BY <1>2, SwarmFields DEF SwarmInv, SentInv
  <2>. QED  BY <1>1, <1>2, <2>1 DEF SentInv
<1>7. WireInv'
  <2>1. \A x \in wire' : life' = 0 \/ (Up' /\ x.msg.caps = caps' /\ x.msg.seq <= seq')
    <3>. SUFFICES ASSUME NEW x \in wire', life' # 0
                  PROVE  Up' /\ x.msg.caps = caps' /\ x.msg.seq <= seq'
      OBVIOUS
    <3>1. CASE x \in wire
      <4>1. OfThisLife(x.msg) /\ x.msg.seq \in Nat
        BY <1>2, <3>1, SwarmFields DEF SwarmInv, WireInv
      <4>. QED  BY <1>1, <1>2, <1>4, <4>1 DEF OfThisLife
    <3>2. CASE x \notin wire
      <4>1. PICK p \in to : x = [to |-> p, msg |-> m]
        BY <1>1, <3>2
      <4>. QED  BY <1>1, <1>2, <1>4, <4>1
    <3>. QED  BY <3>1, <3>2
  <2>. QED  BY <2>1 DEF WireInv, OfThisLife
<1>8. SeenInv'
  BY <1>2, <1>4, SwarmFields DEF SwarmInv, SeenInv
<1>9. CalmInv'
  BY DEF SwarmInv, CalmInv
<1>10. HeardInv'
  <2>. SUFFICES ASSUME NEW p \in Listeners
                PROVE  /\ calm[p] >= 1 /\ announced' /\ life > CacheTTL => Known(p, 0) \/ Unseen(p)'
                       /\ calm[p] >= 2 /\ life > CacheTTL + 1 => Known(p, 1)
    BY DEF HeardInv, Known
  <2>1. calm[p] >= 2 /\ life > CacheTTL + 1 => Known(p, 1)
    BY DEF SwarmInv, HeardInv
  <2>2. ASSUME calm[p] >= 1, announced', life > CacheTTL
        PROVE  Known(p, 0) \/ Unseen(p)'
    <3>1. CASE announced
      <4>1. Known(p, 0) \/ Unseen(p)
        BY <2>2, <3>1 DEF SwarmInv, HeardInv
      <4>2. Unseen(p) => Unseen(p)'
        BY <1>1 DEF Unseen
      <4>. QED  BY <4>1, <4>2
    <3>2. CASE ~announced
      <4>1. p \in to
        BY <2>2, <3>2 DEF SwarmInv, CalmInv
      <4>2. ~Remembered(seen[p], m)
        <5>1. \A e \in seen[p] : e.age \in Nat /\ e.age <= CacheTTL /\ e.msg.seq \in Nat /\ life \in Nat
          BY <1>2, SwarmFields, SwarmAssumption DEF SwarmTypeOK
        <5>2. \A e \in seen[p] : e.age >= life \/ e.msg.seq <= seq
          BY DEF SwarmInv, SeenInv, OfThisLife
        <5>3. CacheTTL \in Nat
          BY SwarmAssumption
        <5>4. \A e \in seen[p] : e.msg.seq <= seq
          BY <2>2, <5>1, <5>2, <5>3
        <5>. QED  BY <1>1, <1>2, <5>1, <5>4 DEF Remembered
      <4>. QED  BY <1>1, <4>1, <4>2 DEF Unseen
    <3>. QED  BY <3>1, <3>2
  <2>. QED  BY <2>1, <2>2
<1>11. life' <= clock'
  BY DEF SwarmInv
<1>. QED  BY <1>3, <1>5, <1>6, <1>7, <1>8, <1>9, <1>10, <1>11 DEF SwarmInv

LEMMA AnnounceTickInv == SwarmInv /\ AnnounceTick => SwarmInv'
<1>. SUFFICES ASSUME SwarmInv, AnnounceTick  PROVE SwarmInv'
  OBVIOUS
<1>1. mesh \subseteq links /\ mesh \subseteq Listeners /\ announced \in BOOLEAN /\ delayed \in BOOLEAN
  BY DEF SwarmInv, SwarmTypeOK
<1>2. /\ Up /\ PublishAnnounce(mesh) /\ announced' \in BOOLEAN
      /\ UNCHANGED <<caps, delayed, links, mesh, calm, seen, registry, life, clock, faults>>
  BY DEF AnnounceTick, linkVars, boundVars
<1>. QED  BY <1>1, <1>2, PublishSteps

LEMMA DelayedAnnounceInv == SwarmInv /\ DelayedAnnounce => SwarmInv'
<1>. SUFFICES ASSUME SwarmInv, DelayedAnnounce  PROVE SwarmInv'
  OBVIOUS
<1>1. mesh \subseteq links /\ mesh \subseteq Listeners /\ announced \in BOOLEAN /\ delayed \in BOOLEAN
  BY DEF SwarmInv, SwarmTypeOK
<1>2. /\ Up /\ PublishAnnounce(mesh) /\ delayed' \in BOOLEAN
      /\ UNCHANGED <<caps, announced, links, mesh, calm, seen, registry, life, clock, faults>>
  BY DEF DelayedAnnounce, linkVars, boundVars, SwarmInv, DownInv
<1>. QED  BY <1>1, <1>2, PublishSteps

LEMMA SubscribedInv ==
    ASSUME NEW p \in Listeners, SwarmInv, Subscribed(p)
    PROVE  SwarmInv'
<1>1. mesh \subseteq links /\ links \subseteq Listeners /\ announced \in BOOLEAN /\ delayed \in BOOLEAN
  BY DEF SwarmInv, SwarmTypeOK
<1>2. /\ Up /\ mesh' = mesh \union {p} /\ p \in links
      /\ UNCHANGED <<caps, announced, delayed, links, calm, seen, registry, life, clock, faults>>
  BY DEF Subscribed, boundVars, SwarmInv, DownInv
<1>. DEFINE to == mesh \union {p}
<1>3. PublishAnnounce(to)
  BY <1>2 DEF Subscribed
<1>4. to \subseteq Listeners /\ mesh \subseteq mesh' /\ mesh' \subseteq links
  BY <1>1, <1>2
<1>. HIDE DEF to
<1>. QED  BY <1>1, <1>2, <1>3, <1>4, PublishSteps

\* A message taken, or dropped as one that has been seen.
LEMMA HearInv ==
    ASSUME NEW x \in wire, SwarmInv, Hear(x.to, x.msg)
    PROVE  SwarmInv'
<1>. DEFINE p == x.to  m == x.msg
<1>1. /\ SwarmTypeOK /\ p \in Listeners /\ m \in Announcements /\ x = [to |-> p, msg |-> m]
      /\ m.caps \in Offers /\ m.seq \in Nat
  BY SwarmFields DEF SwarmInv
<1>2. life = 0 \/ (Up /\ m.caps = caps /\ m.seq <= seq)
  BY DEF SwarmInv, WireInv, OfThisLife
<1>3. Hear(p, m)
  OBVIOUS
<1>. HIDE DEF p, m
<1>4. UNCHANGED <<caps, seq, announced, delayed, links, mesh, calm, sent, life, clock, faults>>
  BY <1>3 DEF Hear, linkVars, boundVars
<1>5. life \in Nat /\ life <= clock /\ CacheTTL \in Nat
  BY SwarmAssumption DEF SwarmInv, SwarmTypeOK
<1>6. /\ Up' <=> Up
      /\ \A n : OfThisLife(n)' <=> OfThisLife(n)
  BY <1>4 DEF OfThisLife, Up
<1>7. CASE Remembered(seen[p], m)
  <2>1. wire' = wire \ {x} /\ seen' = seen /\ registry' = registry
    BY <1>1, <1>3, <1>7 DEF Hear
  <2>2. SwarmTypeOK'
    BY <1>1, <1>4, <2>1 DEF SwarmTypeOK
  <2>3. HeardInv'
    <3>1. ASSUME NEW q \in Listeners, Unseen(q)  PROVE Unseen(q)'
      <4>1. PICK n \in Announcements : [to |-> q, msg |-> n] \in wire /\ ~Remembered(seen[q], n)
        BY <3>1 DEF Unseen
      <4>2. [to |-> q, msg |-> n] # x
        <5>1. SUFFICES ASSUME [to |-> q, msg |-> n] = [to |-> p, msg |-> m]  PROVE FALSE
          BY <1>1
        <5>2. q = p /\ n = m
          BY <5>1
        <5>. QED  BY <1>7, <4>1, <5>2
      <4>. QED  BY <2>1, <4>1, <4>2 DEF Unseen, Remembered
    <3>. QED  BY <1>4, <2>1, <3>1 DEF SwarmInv, HeardInv, Known
  <2>4. WireInv' /\ SeenInv'
    BY <1>4, <1>6, <2>1 DEF SwarmInv, WireInv, SeenInv
  <2>5. DownInv' /\ SentInv' /\ CalmInv' /\ SilentInv'
    BY <1>4, <1>6, <2>1 DEF SwarmInv, DownInv, SentInv, CalmInv, SilentInv
  <2>. QED  BY <1>4, <1>5, <2>2, <2>3, <2>4, <2>5 DEF SwarmInv
<1>8. CASE ~Remembered(seen[p], m)
  <2>. DEFINE new == [msg |-> m, age |-> 0]
              entry == [caps |-> m.caps, age |-> 0]
  <2>1. /\ seen' = [seen EXCEPT ![p] = seen[p] \union {new}]
        /\ registry' = [registry EXCEPT ![p] = entry]
    BY <1>3, <1>8 DEF Hear, Remember, Upsert
  <2>2. PICK others \in SUBSET (Listeners \ {p}) :
            wire' = (wire \ {x}) \union {[to |-> q, msg |-> m] : q \in others}
    BY <1>1, <1>3, <1>8 DEF Hear
  <2>3. new \in [msg : Announcements, age : 0..CacheTTL] /\ entry \in Entry /\ entry \in Entry \union {Unknown}
    BY <1>1, <1>5 DEF Entry
  <2>4. new.msg = m /\ new.age = 0 /\ entry.caps = m.caps /\ entry.age = 0
    OBVIOUS
  <2>. HIDE DEF new, entry
  <2>5. seen \in [Listeners -> SUBSET [msg : Announcements, age : 0..CacheTTL]] /\ registry \in [Listeners -> Entry \union {Unknown}]
    BY <1>1 DEF SwarmTypeOK
  <2>6. /\ seen'[p] = seen[p] \union {new} /\ \A q \in Listeners \ {p} : seen'[q] = seen[q]
        /\ registry'[p] = entry /\ \A q \in Listeners \ {p} : registry'[q] = registry[q]
    BY <1>1, <2>1, <2>5
  <2>7. SwarmTypeOK'
    <3>1. seen' \in [Listeners -> SUBSET [msg : Announcements, age : 0..CacheTTL]]
      BY <1>1, <2>1, <2>3, <2>5
    <3>2. registry' \in [Listeners -> Entry \union {Unknown}]
      BY <1>1, <2>1, <2>3, <2>5
    <3>3. wire' \subseteq [to : Listeners, msg : Announcements]
      BY <1>1, <2>2 DEF SwarmTypeOK
    <3>. QED  BY <1>1, <1>4, <3>1, <3>2, <3>3 DEF SwarmTypeOK
  <2>8. WireInv'
    <3>1. \A y \in wire' : y \in wire \/ y.msg = m
      BY <2>2
    <3>2. \A y \in wire : life = 0 \/ OfThisLife(y.msg)
      BY DEF SwarmInv, WireInv
    <3>3. \A y \in wire' : life' = 0 \/ (Up' /\ y.msg.caps = caps' /\ y.msg.seq <= seq')
      BY <1>2, <1>4, <3>1, <3>2 DEF OfThisLife, Up
    <3>. QED  BY <3>3 DEF WireInv, OfThisLife
  <2>9. SeenInv'
    <3>1. \A q \in Listeners : \A e \in seen[q] : e.age >= life \/ OfThisLife(e.msg)
      BY DEF SwarmInv, SeenInv
    <3>2. new.age >= life \/ OfThisLife(new.msg)
      BY <1>2, <1>5, <2>4 DEF OfThisLife
    <3>3. \A q \in Listeners : \A e \in seen'[q] : e.age >= life \/ OfThisLife(e.msg)
      BY <2>6, <3>1, <3>2
    <3>4. \A q \in Listeners : \A e \in seen'[q] : e.age >= life' \/ (Up' /\ e.msg.caps = caps' /\ e.msg.seq <= seq')
      BY <1>4, <3>3 DEF OfThisLife, Up
    <3>. QED  BY <3>4 DEF SeenInv, OfThisLife
  <2>10. HeardInv'
    <3>. SUFFICES ASSUME NEW q \in Listeners
                  PROVE  /\ calm[q] >= 1 /\ announced /\ life > CacheTTL => Known(q, 0)' \/ Unseen(q)'
                         /\ calm[q] >= 2 /\ life > CacheTTL + 1 => Known(q, 1)'
      BY <1>4 DEF HeardInv, Known
    <3>1. CASE q = p
      <4>1. life > CacheTTL => Known(q, 0)'
        BY <1>2, <1>4, <1>5, <2>4, <2>6, <3>1 DEF Known
      <4>2. life > CacheTTL + 1 => Known(q, 1)'
        BY <1>2, <1>4, <1>5, <2>4, <2>6, <3>1 DEF Known
      <4>. QED  BY <1>5, <4>1, <4>2
    <3>2. CASE q # p
      <4>1. seen'[q] = seen[q] /\ registry'[q] = registry[q]
        BY <2>6, <3>2
      <4>2. Unseen(q) => Unseen(q)'
        <5>. SUFFICES ASSUME NEW n \in Announcements, [to |-> q, msg |-> n] \in wire, ~Remembered(seen[q], n)
                      PROVE  Unseen(q)'
          BY DEF Unseen
        <5>1. [to |-> q, msg |-> n] # x
          <6>1. SUFFICES ASSUME [to |-> q, msg |-> n] = [to |-> p, msg |-> m]  PROVE FALSE
            BY <1>1
          <6>. QED  BY <3>2, <6>1
        <5>. QED  BY <2>2, <4>1, <5>1 DEF Unseen, Remembered
      <4>. QED  BY <1>4, <4>1, <4>2 DEF SwarmInv, HeardInv, Known
    <3>. QED  BY <3>1, <3>2
  <2>11. SilentInv'
    <3>1. ~Up => life = 0
      BY <1>2
    <3>2. \A q \in Listeners : registry'[q].age >= 0
      BY <2>7, <1>5 DEF SwarmTypeOK, Entry, Unknown
    <3>. QED  BY <1>4, <1>6, <3>1, <3>2 DEF SilentInv
  <2>12. DownInv' /\ SentInv' /\ CalmInv'
    BY <1>4, <1>6 DEF SwarmInv, DownInv, SentInv, CalmInv
  <2>. QED  BY <1>4, <1>5, <2>7, <2>8, <2>9, <2>10, <2>11, <2>12 DEF SwarmInv
<1>. QED  BY <1>7, <1>8

\* Steps that bring, lose or take no message: connections and restarts.
LEMMA QuietSteps ==
    ASSUME SwarmInv, SwarmTypeOK', DownInv', SentInv', CalmInv', SilentInv',
           UNCHANGED <<caps, clock>>, seq <= seq', life' = life, announced' = announced,
           wire' \subseteq wire,
           \A p \in Listeners : seen'[p] \subseteq seen[p],
           \A p \in Listeners : calm'[p] = 0 \/ (/\ calm'[p] = calm[p]
                                                 /\ registry'[p] = registry[p] /\ seen'[p] = seen[p]
                                                 /\ \A m \in wire : m.to = p => m \in wire')
    PROVE  SwarmInv'
<1>1. SwarmTypeOK /\ seq \in Nat /\ seq' \in Nat /\ life \in Nat
  BY DEF SwarmInv, SwarmTypeOK
<1>2. \A n \in Announcements : n.seq \in Nat
  BY <1>1, SwarmFields
<1>3. \A n \in Announcements : OfThisLife(n) => (Up' /\ n.caps = caps' /\ n.seq <= seq')
  BY <1>1, <1>2 DEF OfThisLife, Up
<1>4. WireInv'
  <2>1. \A x \in wire : life = 0 \/ (Up' /\ x.msg.caps = caps' /\ x.msg.seq <= seq')
    BY <1>1, <1>3, SwarmFields DEF SwarmInv, WireInv
  <2>. QED  BY <2>1 DEF WireInv, OfThisLife
<1>5. SeenInv'
  <2>1. \A p \in Listeners : \A e \in seen[p] : e.age >= life \/ (Up' /\ e.msg.caps = caps' /\ e.msg.seq <= seq')
    BY <1>1, <1>3, SwarmFields DEF SwarmInv, SeenInv
  <2>2. \A p \in Listeners : \A e \in seen'[p] : e.age >= life' \/ (Up' /\ e.msg.caps = caps' /\ e.msg.seq <= seq')
    BY <2>1
  <2>. QED  BY <2>2 DEF SeenInv, OfThisLife
<1>6. HeardInv'
  <2>. SUFFICES ASSUME NEW p \in Listeners
                PROVE  /\ calm'[p] >= 1 /\ announced /\ life > CacheTTL => Known(p, 0)' \/ Unseen(p)'
                       /\ calm'[p] >= 2 /\ life > CacheTTL + 1 => Known(p, 1)'
    BY DEF HeardInv, Known
  <2>1. CASE calm'[p] = 0
    BY <2>1
  <2>2. CASE /\ calm'[p] = calm[p] /\ registry'[p] = registry[p] /\ seen'[p] = seen[p]
             /\ \A m \in wire : m.to = p => m \in wire'
    <3>1. Unseen(p) => Unseen(p)'
      BY <2>2 DEF Unseen, Remembered
    <3>. QED  BY <2>2, <3>1 DEF SwarmInv, HeardInv, Known
  <2>. QED  BY <2>1, <2>2
<1>. QED  BY <1>4, <1>5, <1>6 DEF SwarmInv

LEMMA ConnectInv ==
    ASSUME NEW p \in Listeners, SwarmInv, Connect(p)
    PROVE  SwarmInv'
<1>1. /\ SwarmTypeOK /\ seq \in Nat /\ Up /\ links' = links \union {p}
      /\ (seq' = seq \/ seq' = seq + 1) /\ delayed' = TRUE
      /\ UNCHANGED <<caps, announced, mesh, sent, seen, wire, registry, life, clock, faults>>
      /\ p \notin mesh
      /\ calm' = [q \in Listeners |-> IF q \in {p} THEN 0 ELSE calm[q]]
  BY DEF Connect, SwarmInv, SwarmTypeOK, boundVars, Disturbed
<1>2. SwarmTypeOK'
  <2>1. calm' \in [Listeners -> Nat]
    BY <1>1 DEF SwarmTypeOK
  <2>. QED  BY <1>1, <2>1 DEF SwarmTypeOK
<1>3. DownInv' /\ SilentInv'
  BY <1>1 DEF DownInv, SilentInv, Up
<1>4. SentInv'
  <2>1. \A e \in sent : e.msg.seq \in Nat /\ e.msg.seq <= seq
    BY <1>1, SwarmFields DEF SwarmInv, SentInv
  <2>. QED  BY <1>1, <2>1 DEF SentInv
<1>5. CalmInv'
  BY <1>1 DEF CalmInv, SwarmInv
<1>6. \A q \in Listeners : calm'[q] = 0 \/ calm'[q] = calm[q]
  BY <1>1
<1>7. seq <= seq'
  BY <1>1
<1>. QED  BY <1>1, <1>2, <1>3, <1>4, <1>5, <1>6, <1>7, QuietSteps

LEMMA DisconnectInv ==
    ASSUME NEW p \in Listeners, SwarmInv, Disconnect(p)
    PROVE  SwarmInv'
<1>1. /\ SwarmTypeOK /\ seq \in Nat /\ links' = links \ {p} /\ mesh' = mesh \ {p} /\ p \in links
      /\ UNCHANGED <<caps, seq, announced, delayed, sent, seen, wire, registry, life, clock>>
      /\ faults' = faults + 1 /\ faults < MaxFaults
      /\ calm' = [q \in Listeners |-> IF q \in {p} THEN 0 ELSE calm[q]]
  BY DEF Disconnect, Fault, SwarmInv, SwarmTypeOK, boundVars, Disturbed
<1>2. SwarmTypeOK'
  <2>1. calm' \in [Listeners -> Nat] /\ faults' \in 0..MaxFaults
    BY <1>1, SwarmAssumption DEF SwarmTypeOK
  <2>. QED  BY <1>1, <2>1 DEF SwarmTypeOK
<1>3. DownInv' /\ SilentInv' /\ SentInv'
  BY <1>1 DEF SwarmInv, DownInv, SilentInv, SentInv, Up
<1>5. CalmInv'
  BY <1>1 DEF CalmInv, SwarmInv
<1>6. \A q \in Listeners : calm'[q] = 0 \/ calm'[q] = calm[q]
  BY <1>1
<1>7. seq <= seq'
  BY <1>1
<1>. QED  BY <1>1, <1>2, <1>3, <1>5, <1>6, <1>7, QuietSteps

LEMMA LoseInv ==
    ASSUME NEW m \in wire, SwarmInv, Lose(m)
    PROVE  SwarmInv'
<1>1. /\ SwarmTypeOK /\ seq \in Nat /\ wire' = wire \ {m}
      /\ UNCHANGED <<caps, seq, announced, delayed, links, mesh, sent, seen, registry, life, clock>>
      /\ faults' = faults + 1 /\ faults < MaxFaults
      /\ calm' = [q \in Listeners |-> IF q \in Listeners THEN 0 ELSE calm[q]]
  BY DEF Lose, Fault, SwarmInv, SwarmTypeOK, boundVars, Disturbed
<1>2. SwarmTypeOK'
  <2>1. calm' \in [Listeners -> Nat] /\ faults' \in 0..MaxFaults
    BY <1>1, SwarmAssumption DEF SwarmTypeOK
  <2>. QED  BY <1>1, <2>1 DEF SwarmTypeOK
<1>3. DownInv' /\ SilentInv' /\ SentInv'
  BY <1>1 DEF SwarmInv, DownInv, SilentInv, SentInv, Up
<1>5. CalmInv'
  BY <1>1 DEF CalmInv, SwarmInv
<1>6. \A q \in Listeners : calm'[q] = 0
  BY <1>1
<1>7. seq <= seq'
  BY <1>1
<1>. QED  BY <1>1, <1>2, <1>3, <1>5, <1>6, <1>7, QuietSteps

LEMMA ListenerRestartsInv ==
    ASSUME NEW p \in Listeners, SwarmInv, ListenerRestarts(p)
    PROVE  SwarmInv'
<1>1. /\ SwarmTypeOK /\ seq \in Nat /\ links' = links \ {p} /\ mesh' = mesh \ {p}
      /\ UNCHANGED <<caps, seq, announced, delayed, sent, life, clock>>
      /\ seen' = [seen EXCEPT ![p] = {}] /\ registry' = [registry EXCEPT ![p] = Unknown]
      /\ wire' = {m \in wire : m.to # p}
      /\ faults' = faults + 1 /\ faults < MaxFaults
      /\ calm' = [q \in Listeners |-> IF q \in {p} THEN 0 ELSE calm[q]]
  BY DEF ListenerRestarts, Fault, SwarmInv, SwarmTypeOK, boundVars, Disturbed
<1>2. SwarmTypeOK'
  <2>1. calm' \in [Listeners -> Nat] /\ faults' \in 0..MaxFaults
    BY <1>1, SwarmAssumption DEF SwarmTypeOK
  <2>2. seen' \in [Listeners -> SUBSET [msg : Announcements, age : 0..CacheTTL]]
    BY <1>1 DEF SwarmTypeOK
  <2>3. registry' \in [Listeners -> Entry \union {Unknown}]
    BY <1>1 DEF SwarmTypeOK
  <2>4. wire' \subseteq [to : Listeners, msg : Announcements]
    BY <1>1 DEF SwarmTypeOK
  <2>. QED  BY <1>1, <2>1, <2>2, <2>3, <2>4 DEF SwarmTypeOK
<1>3. /\ seen'[p] = {} /\ registry'[p] = Unknown
      /\ \A q \in Listeners \ {p} : seen'[q] = seen[q] /\ registry'[q] = registry[q]
  BY <1>1 DEF SwarmTypeOK
<1>4. DownInv' /\ SentInv'
  BY <1>1 DEF SwarmInv, DownInv, SentInv, Up
<1>5. SilentInv'
  BY <1>1, <1>3 DEF SwarmInv, SilentInv, Up, Unknown
<1>6. CalmInv'
  BY <1>1 DEF CalmInv, SwarmInv
<1>7. \A q \in Listeners : calm'[q] = 0 \/ (/\ calm'[q] = calm[q]
                                             /\ registry'[q] = registry[q] /\ seen'[q] = seen[q]
                                             /\ \A m \in wire : m.to = q => m \in wire')
  BY <1>1, <1>3
<1>8. \A q \in Listeners : seen'[q] \subseteq seen[q]
  BY <1>3
<1>9. seq <= seq' /\ wire' \subseteq wire
  BY <1>1
<1>. QED  BY <1>1, <1>2, <1>4, <1>5, <1>6, <1>7, <1>8, <1>9, QuietSteps

\* A node that starts is as old as its memory of nothing.
LEMMA StartInv == SwarmInv /\ Start => SwarmInv'
<1>. SUFFICES ASSUME SwarmInv, Start  PROVE SwarmInv'
  OBVIOUS
<1>1. /\ SwarmTypeOK /\ ~Up /\ caps' \in Offers /\ seq' = 0 /\ sent' = {} /\ life' = 0
      /\ UNCHANGED <<announced, delayed, links, mesh, calm, seen, wire, registry, clock, faults>>
  BY DEF Start, linkVars, SwarmInv
<1>2. Up' /\ links = {} /\ mesh = {}
  BY <1>1, SwarmAssumption DEF Up, SwarmInv, DownInv, SwarmTypeOK
<1>3. /\ MaxTime \in Nat /\ clock \in Nat /\ CacheTTL \in Nat
      /\ \A p \in Listeners : \A e \in seen[p] : e.age \in Nat
      /\ calm \in [Listeners -> Nat]
  BY <1>1, SwarmAssumption, SwarmFields DEF SwarmTypeOK
<1>4. SwarmTypeOK'
  BY <1>1, <1>3 DEF SwarmTypeOK
<1>5. WireInv' /\ SeenInv'
  BY <1>1, <1>3 DEF WireInv, SeenInv
<1>6. CalmInv' /\ DownInv' /\ SilentInv' /\ SentInv'
  BY <1>1, <1>2 DEF SwarmInv, CalmInv, DownInv, SilentInv, SentInv
<1>7. HeardInv'
  <2>1. ~(life' > CacheTTL) /\ ~(life' > CacheTTL + 1)
    BY <1>1, <1>3
  <2>. QED  BY <2>1 DEF HeardInv
<1>8. life' <= clock'
  BY <1>1, <1>3
<1>. QED  BY <1>4, <1>5, <1>6, <1>7, <1>8 DEF SwarmInv

LEMMA StopInv == SwarmInv /\ Stop => SwarmInv'
<1>. SUFFICES ASSUME SwarmInv, Stop  PROVE SwarmInv'
  OBVIOUS
<1>1. /\ SwarmTypeOK /\ caps' = Down /\ links' = {} /\ mesh' = {} /\ announced' = FALSE /\ delayed' = FALSE
      /\ life' = 0 /\ faults' = faults + 1 /\ faults < MaxFaults
      /\ calm' = [q \in Listeners |-> IF q \in Listeners THEN 0 ELSE calm[q]]
      /\ UNCHANGED <<seq, sent, seen, wire, registry, clock>>
  BY DEF Stop, Fault, SwarmInv, Disturbed
<1>2. ~Up'
  BY <1>1 DEF Up
<1>3. /\ MaxTime \in Nat /\ clock \in Nat /\ CacheTTL \in Nat
      /\ \A p \in Listeners : \A e \in seen[p] : e.age \in Nat
      /\ \A p \in Listeners : registry[p].age \in Nat
  BY <1>1, SwarmAssumption, SwarmFields DEF SwarmTypeOK
<1>4. calm' \in [Listeners -> Nat] /\ \A q \in Listeners : calm'[q] = 0
  BY <1>1
<1>5. SwarmTypeOK'
  <2>1. faults' \in 0..MaxFaults /\ life' \in 0..MaxTime
    BY <1>1, SwarmAssumption DEF SwarmTypeOK
  <2>. QED  BY <1>1, <1>4, <2>1 DEF SwarmTypeOK
<1>6. WireInv' /\ SeenInv' /\ SilentInv'
  BY <1>1, <1>3 DEF WireInv, SeenInv, SilentInv
<1>7. CalmInv' /\ DownInv' /\ SentInv' /\ HeardInv'
  BY <1>1, <1>2, <1>4 DEF CalmInv, DownInv, SentInv, HeardInv
<1>8. life' <= clock'
  BY <1>1, <1>3
<1>. QED  BY <1>5, <1>6, <1>7, <1>8 DEF SwarmInv

\* What gossip remembers grows older by the interval.
LEMMA AgedFields ==
    ASSUME NEW cache, cache \subseteq [msg : Announcements, age : 0..CacheTTL]
    PROVE  /\ Aged(cache) \subseteq [msg : Announcements, age : 0..CacheTTL]
           /\ \A e \in Aged(cache) : \E f \in cache : e.msg = f.msg /\ e.age = f.age + 1
<1>1. CacheTTL \in Nat
  BY SwarmAssumption
<1>2. ASSUME NEW e \in Aged(cache)
      PROVE  /\ e \in [msg : Announcements, age : 0..CacheTTL]
             /\ \E f \in cache : e.msg = f.msg /\ e.age = f.age + 1
  <2>1. PICK f \in cache : f.age < CacheTTL /\ e = [f EXCEPT !.age = f.age + 1]
    BY DEF Aged
  <2>2. f \in [msg : Announcements, age : 0..CacheTTL]
    BY <2>1
  <2>3. e = [msg |-> f.msg, age |-> f.age + 1]
    BY <2>1, <2>2
  <2>. QED  BY <1>1, <2>1, <2>2, <2>3
<1>. QED  BY <1>2

\* An interval passes: everything sent in it has been heard.
LEMMA IntervalInv == SwarmInv /\ Interval => SwarmInv'
<1>. SUFFICES ASSUME SwarmInv, Interval  PROVE SwarmInv'
  OBVIOUS
<1>1. /\ SwarmTypeOK /\ clock < MaxTime /\ (Up => announced) /\ ~delayed /\ links = mesh /\ wire = {}
      /\ announced' = FALSE /\ life' = life + 1 /\ clock' = clock + 1
      /\ UNCHANGED <<caps, seq, delayed, links, mesh, wire, faults>>
  BY DEF Interval, SwarmInv
<1>2. /\ sent' = Aged(sent) /\ seen' = [p \in Listeners |-> Aged(seen[p])]
      /\ calm' = [p \in Listeners |-> IF p \in links THEN calm[p] + 1 ELSE 0]
  BY DEF Interval
<1>3. \A p \in Listeners : registry'[p] = IF IsLive(registry[p]) THEN [registry[p] EXCEPT !.age = registry[p].age + 1] ELSE Unknown
  BY DEF Interval
<1>4. /\ CacheTTL \in Nat /\ PeerTTL \in Nat /\ 1 < PeerTTL /\ MaxTime \in Nat
      /\ life \in Nat /\ clock \in Nat /\ life <= clock
  BY <1>1, SwarmAssumption DEF SwarmInv, SwarmTypeOK
<1>5. \A p \in Listeners : seen[p] \subseteq [msg : Announcements, age : 0..CacheTTL]
  BY <1>1 DEF SwarmTypeOK
<1>6. \A p \in Listeners :
          \/ registry'[p] = Unknown /\ ~IsLive(registry[p])
          \/ /\ IsLive(registry[p]) /\ registry[p].age \in Nat
             /\ registry'[p] \in Entry /\ registry'[p].caps = registry[p].caps /\ registry'[p].age = registry[p].age + 1
  <2>. SUFFICES ASSUME NEW p \in Listeners, IsLive(registry[p])
                PROVE  /\ registry[p].age \in Nat /\ registry'[p] \in Entry
                       /\ registry'[p].caps = registry[p].caps /\ registry'[p].age = registry[p].age + 1
    BY <1>3
  <2>1. registry[p] \in Entry
    BY <1>1 DEF IsLive, SwarmTypeOK
  <2>2. registry'[p] = [registry[p] EXCEPT !.age = registry[p].age + 1]
    BY <1>3
  <2>. QED  BY <2>1, <2>2 DEF Entry
<1>7. SwarmTypeOK'
  <2>1. sent' \subseteq [msg : Announcements, age : 0..CacheTTL]
    BY <1>1, <1>2, AgedFields DEF SwarmTypeOK
  <2>2. seen' \in [Listeners -> SUBSET [msg : Announcements, age : 0..CacheTTL]]
    <3>1. \A p \in Listeners : Aged(seen[p]) \in SUBSET [msg : Announcements, age : 0..CacheTTL]
      BY <1>5, AgedFields
    <3>. QED  BY <1>2, <3>1
  <2>3. registry' \in [Listeners -> Entry \union {Unknown}]
    <3>1. \A p \in Listeners : registry'[p] \in Entry \union {Unknown}
      BY <1>6
    <3>. QED  BY <3>1 DEF Interval
  <2>4. calm' \in [Listeners -> Nat]
    BY <1>1, <1>2 DEF SwarmTypeOK
  <2>5. life' \in 0..MaxTime /\ clock' \in 0..MaxTime
    BY <1>1, <1>4
  <2>. QED  BY <1>1, <2>1, <2>2, <2>3, <2>4, <2>5 DEF SwarmTypeOK
<1>8. DownInv' /\ WireInv'
  BY <1>1 DEF SwarmInv, DownInv, WireInv, Up
<1>9. SentInv'
  <2>1. Up => \A e \in sent : e.msg.seq <= seq
    BY DEF SwarmInv, SentInv
  <2>2. \A e \in Aged(sent) : \E f \in sent : e.msg = f.msg
    BY <1>1, AgedFields DEF SwarmTypeOK
  <2>. QED  BY <1>1, <1>2, <2>1, <2>2 DEF SentInv, Up
<1>10. SeenInv'
  <2>1. SUFFICES ASSUME NEW p \in Listeners, NEW e \in seen'[p]
                 PROVE  e.age >= life' \/ (Up' /\ e.msg.caps = caps' /\ e.msg.seq <= seq')
    BY DEF SeenInv, OfThisLife
  <2>2. PICK f \in seen[p] : e.msg = f.msg /\ e.age = f.age + 1
    BY <1>2, <1>5, AgedFields
  <2>3. f.age \in Nat
    BY <1>1, <1>4, SwarmFields
  <2>4. f.age >= life \/ OfThisLife(f.msg)
    BY DEF SwarmInv, SeenInv
  <2>. QED  BY <1>1, <1>4, <2>2, <2>3, <2>4 DEF OfThisLife, Up
<1>11. CalmInv'
  BY <1>1, <1>2 DEF CalmInv
<1>12. HeardInv'
  <2>. SUFFICES ASSUME NEW p \in Listeners, calm'[p] >= 2, life' > CacheTTL + 1
                PROVE  Known(p, 1)'
    BY <1>1 DEF HeardInv
  <2>1. p \in links /\ calm[p] >= 1 /\ life > CacheTTL
    BY <1>1, <1>2, <1>4 DEF SwarmTypeOK
  <2>2. Up
    BY <2>1 DEF SwarmInv, DownInv
  <2>3. registry[p].caps = caps /\ registry[p].age <= 0
    BY <1>1, <2>1, <2>2 DEF SwarmInv, HeardInv, Known, Unseen
  <2>4. registry[p].age \in Nat
    BY <1>1, SwarmFields
  <2>5. IsLive(registry[p])
    BY <1>4, <2>2, <2>3, <2>4 DEF IsLive, Up, Unknown
  <2>. QED  BY <1>1, <1>6, <2>3, <2>4, <2>5 DEF Known
<1>13. SilentInv'
  <2>1. \A p \in Listeners : registry'[p] # Unknown => registry[p] # Unknown /\ registry[p].age \in Nat /\ registry'[p].age = registry[p].age + 1
    BY <1>6 DEF IsLive
  <2>2. ~Up => \A p \in Listeners : registry[p] # Unknown => registry[p].age >= life
    BY DEF SwarmInv, SilentInv
  <2>3. ~Up => \A p \in Listeners : registry'[p] # Unknown => registry'[p].age >= life'
    BY <1>1, <1>4, <2>1, <2>2
  <2>. QED  BY <1>1, <2>3 DEF SilentInv, Up
<1>14. life' <= clock'
  BY <1>1, <1>4
<1>. QED  BY <1>7, <1>8, <1>9, <1>10, <1>11, <1>12, <1>13, <1>14 DEF SwarmInv

LEMMA SwarmStep == SwarmInv /\ [SwarmNext]_swarmVars => SwarmInv'
<1>. SUFFICES ASSUME SwarmInv, [SwarmNext]_swarmVars  PROVE SwarmInv'
  OBVIOUS
<1>1. CASE AnnounceTick \/ DelayedAnnounce \/ Start \/ Stop \/ Interval
  BY <1>1, AnnounceTickInv, DelayedAnnounceInv, StartInv, StopInv, IntervalInv
<1>2. CASE \E p \in Listeners : Subscribed(p) \/ Connect(p) \/ Disconnect(p) \/ ListenerRestarts(p)
  BY <1>2, SubscribedInv, ConnectInv, DisconnectInv, ListenerRestartsInv
<1>3. CASE \E m \in wire : Hear(m.to, m.msg) \/ Lose(m)
  BY <1>3, HearInv, LoseInv
<1>4. CASE UNCHANGED swarmVars
  BY <1>4 DEF swarmVars, linkVars, boundVars, SwarmInv, SwarmTypeOK, DownInv, SentInv, WireInv, SeenInv, CalmInv,
              HeardInv, SilentInv, Up, OfThisLife, Known, Unseen
<1>. QED  BY <1>1, <1>2, <1>3, <1>4 DEF SwarmNext

LEMMA SwarmInvImplies == SwarmInv => SwarmTypeOK /\ RegistryIsFresh
<1>. SUFFICES ASSUME SwarmInv  PROVE RegistryIsFresh
  BY DEF SwarmInv
<1>1. /\ PeerTTL \in Nat /\ CacheTTL \in Nat /\ 1 < PeerTTL /\ life \in Nat
      /\ \A p \in Listeners : registry[p].age \in Nat
  BY SwarmAssumption, SwarmFields DEF SwarmInv, SwarmTypeOK
<1>2. ConnectedIsKnown
  <2>. SUFFICES ASSUME NEW p \in Listeners, calm[p] >= 2, life > CacheTTL + 1
                PROVE  IsLive(registry[p]) /\ registry[p].caps = caps
    BY DEF ConnectedIsKnown
  <2>1. registry[p].caps = caps /\ registry[p].age <= 1
    BY DEF SwarmInv, HeardInv, Known
  <2>2. Up
    <3>1. calm[p] >= 1
      BY DEF SwarmInv, SwarmTypeOK
    <3>. QED  BY <3>1 DEF SwarmInv, CalmInv, DownInv, SwarmTypeOK
  <2>. QED  BY <1>1, <2>1, <2>2 DEF IsLive, Up, Unknown
<1>3. SilentIsForgotten
  BY <1>1 DEF SilentIsForgotten, SwarmInv, SilentInv, IsLive
<1>. QED  BY <1>2, <1>3 DEF RegistryIsFresh

\* Every variable of the swarm has its type (p2p/src/service.rs, common/src/peer_store.rs).
THEOREM SwarmTypes == SwarmSpec => []SwarmTypeOK
<1>1. SwarmSpec => []SwarmInv
  BY SwarmInitInv, SwarmStep, PTL DEF SwarmSpec
<1>. QED  BY <1>1, SwarmInvImplies, PTL

\* A listener that has been connected to the node for two intervals, with nothing lost, knows what
\* the node offers now, however often both have been started before; and a registry forgets a node
\* that has been silent for as long as an entry lives (announce_interval, publish_announce,
\* on_connection_established, InMemoryPeerStore::is_live).
THEOREM RegistryStaysFresh == SwarmSpec => []RegistryIsFresh
<1>1. SwarmSpec => []SwarmInv
  BY SwarmInitInv, SwarmStep, PTL DEF SwarmSpec
<1>. QED  BY <1>1, SwarmInvImplies, PTL

-----------------------------------------------------------------------------
(* Reputation.  The recursive functions of the Merkle tree exist, each     *)
(* round looking at the one before only; what their rounds come to follows *)
(* by induction.                                                           *)

ClimbRound(first, i, round, k) ==
    IF k = 0 THEN [level |-> first, at |-> i]
    ELSE LET below == round[k - 1]
         IN IF Len(below.level) > 1
            THEN [level |-> HashPairs(below.level), at |-> below.at \div 2] ELSE below

LEMMA ClimbExists ==
    ASSUME NEW first, NEW i, NEW n \in Nat
    PROVE  \E round : round = [k \in 0..n |-> ClimbRound(first, i, round, k)]
<1>. DEFINE Climbed(m) == \E round : round = [k \in 0..m |-> ClimbRound(first, i, round, k)]
            T == {m \in Nat : Climbed(m)}
<1>1. 0 \in T
  <2>. DEFINE round == [k \in 0..0 |-> [level |-> first, at |-> i]]
  <2>1. \A k \in 0..0 : ClimbRound(first, i, round, k) = [level |-> first, at |-> i]
    BY DEF ClimbRound
  <2>2. round = [k \in 0..0 |-> ClimbRound(first, i, round, k)]
    BY <2>1
  <2>. QED  BY <2>2
<1>2. ASSUME NEW m \in Nat, m \in T
      PROVE  m + 1 \in T
  <2>1. PICK old : old = [k \in 0..m |-> ClimbRound(first, i, old, k)]
    BY <1>2
  <2>. DEFINE round == [k \in 0..(m + 1) |-> IF k = m + 1 THEN ClimbRound(first, i, old, k) ELSE old[k]]
  <2>2. \A k \in 0..m : round[k] = old[k] /\ old[k] = ClimbRound(first, i, old, k)
    BY <2>1
  <2>3. \A k \in 0..(m + 1) : k = 0 \/ k - 1 \in 0..m
    OBVIOUS
  <2>4. \A k \in 0..(m + 1) : round[k] = ClimbRound(first, i, old, k)
    <3>1. \A k \in 0..(m + 1) : k = m + 1 \/ k \in 0..m
      OBVIOUS
    <3>. QED  BY <2>2, <3>1
  <2>5. round = [k \in 0..(m + 1) |-> round[k]]
    OBVIOUS
  <2>. HIDE DEF round
  <2>6. \A k \in 0..(m + 1) : ClimbRound(first, i, round, k) = ClimbRound(first, i, old, k)
    BY <2>2, <2>3 DEF ClimbRound
  <2>7. round = [k \in 0..(m + 1) |-> ClimbRound(first, i, round, k)]
    BY <2>4, <2>5, <2>6
  <2>. QED  BY <2>7
<1>. HIDE DEF T
<1>3. n \in T
  BY <1>1, <1>2, SetInduction
<1>. QED  BY <1>3 DEF T

LEMMA ClimbRounds ==
    ASSUME NEW S, NEW first \in Seq(S), NEW i
    PROVE  /\ DOMAIN Climb(first, i) = 0..Len(first)
           /\ Climb(first, i)[0] = [level |-> first, at |-> i]
           /\ \A k \in 0..(Len(first) - 1) :
                  /\ Len(Climb(first, i)[k].level) > 1 =>
                        Climb(first, i)[k + 1] =
                            [level |-> HashPairs(Climb(first, i)[k].level), at |-> Climb(first, i)[k].at \div 2]
                  /\ ~(Len(Climb(first, i)[k].level) > 1) => Climb(first, i)[k + 1] = Climb(first, i)[k]
<1>. DEFINE F == CHOOSE round : round = [k \in 0..Len(first) |-> ClimbRound(first, i, round, k)]
<1>1. Len(first) \in Nat
  OBVIOUS
<1>2. F = [k \in 0..Len(first) |-> ClimbRound(first, i, F, k)]
  BY <1>1, ClimbExists
<1>3. Climb(first, i) = F
  BY DEF Climb, ClimbRound
<1>. HIDE DEF F
<1>4. \A k \in 0..Len(first) : F[k] = ClimbRound(first, i, F, k)
  BY <1>2
<1>5. F[0] = [level |-> first, at |-> i]
  <2>1. F[0] = ClimbRound(first, i, F, 0)
    BY <1>1, <1>4
  <2>. QED  BY <2>1 DEF ClimbRound
<1>6. ASSUME NEW k \in 0..(Len(first) - 1)
      PROVE  /\ Len(F[k].level) > 1 => F[k + 1] = [level |-> HashPairs(F[k].level), at |-> F[k].at \div 2]
             /\ ~(Len(F[k].level) > 1) => F[k + 1] = F[k]
  <2>1. k + 1 \in 0..Len(first) /\ k + 1 # 0 /\ (k + 1) - 1 = k
    BY <1>1
  <2>2. F[k + 1] = ClimbRound(first, i, F, k + 1)
    BY <1>4, <2>1
  <2>. QED  BY <2>1, <2>2 DEF ClimbRound
<1>. QED  BY <1>1, <1>2, <1>3, <1>5, <1>6

HashRound(leaf, path, hash, k) ==
    IF k = 0 THEN leaf
    ELSE IF path[k].isLeft THEN <<hash[k - 1], path[k].sibling>>
                           ELSE <<path[k].sibling, hash[k - 1]>>

LEMMA HashesExist ==
    ASSUME NEW leaf, NEW path, NEW n \in Nat
    PROVE  \E hash : hash = [k \in 0..n |-> HashRound(leaf, path, hash, k)]
<1>. DEFINE Hashed(m) == \E hash : hash = [k \in 0..m |-> HashRound(leaf, path, hash, k)]
            T == {m \in Nat : Hashed(m)}
<1>1. 0 \in T
  <2>. DEFINE hash == [k \in 0..0 |-> leaf]
  <2>1. \A k \in 0..0 : HashRound(leaf, path, hash, k) = leaf
    BY DEF HashRound
  <2>2. hash = [k \in 0..0 |-> HashRound(leaf, path, hash, k)]
    BY <2>1
  <2>. QED  BY <2>2
<1>2. ASSUME NEW m \in Nat, m \in T
      PROVE  m + 1 \in T
  <2>1. PICK old : old = [k \in 0..m |-> HashRound(leaf, path, old, k)]
    BY <1>2
  <2>. DEFINE hash == [k \in 0..(m + 1) |-> IF k = m + 1 THEN HashRound(leaf, path, old, k) ELSE old[k]]
  <2>2. \A k \in 0..m : hash[k] = old[k] /\ old[k] = HashRound(leaf, path, old, k)
    BY <2>1
  <2>3. \A k \in 0..(m + 1) : k = 0 \/ k - 1 \in 0..m
    OBVIOUS
  <2>4. \A k \in 0..(m + 1) : hash[k] = HashRound(leaf, path, old, k)
    <3>1. \A k \in 0..(m + 1) : k = m + 1 \/ k \in 0..m
      OBVIOUS
    <3>. QED  BY <2>2, <3>1
  <2>5. hash = [k \in 0..(m + 1) |-> hash[k]]
    OBVIOUS
  <2>. HIDE DEF hash
  <2>6. \A k \in 0..(m + 1) : HashRound(leaf, path, hash, k) = HashRound(leaf, path, old, k)
    BY <2>2, <2>3 DEF HashRound
  <2>7. hash = [k \in 0..(m + 1) |-> HashRound(leaf, path, hash, k)]
    BY <2>4, <2>5, <2>6
  <2>. QED  BY <2>7
<1>. HIDE DEF T
<1>3. n \in T
  BY <1>1, <1>2, SetInduction
<1>. QED  BY <1>3 DEF T

LEMMA HashRounds ==
    ASSUME NEW leaf, NEW path, Len(path) \in Nat
    PROVE  /\ Hashes(leaf, path)[0] = leaf
           /\ \A k \in 0..(Len(path) - 1) :
                  Hashes(leaf, path)[k + 1] =
                      IF path[k + 1].isLeft THEN <<Hashes(leaf, path)[k], path[k + 1].sibling>>
                                            ELSE <<path[k + 1].sibling, Hashes(leaf, path)[k]>>
<1>. DEFINE F == CHOOSE hash : hash = [k \in 0..Len(path) |-> HashRound(leaf, path, hash, k)]
<1>2. F = [k \in 0..Len(path) |-> HashRound(leaf, path, F, k)]
  BY HashesExist
<1>3. Hashes(leaf, path) = F
  BY DEF Hashes, HashRound
<1>. HIDE DEF F
<1>4. \A k \in 0..Len(path) : F[k] = HashRound(leaf, path, F, k)
  BY <1>2
<1>5. F[0] = leaf
  <2>1. F[0] = HashRound(leaf, path, F, 0)
    BY <1>4
  <2>. QED  BY <2>1 DEF HashRound
<1>6. ASSUME NEW k \in 0..(Len(path) - 1)
      PROVE  F[k + 1] = IF path[k + 1].isLeft THEN <<F[k], path[k + 1].sibling>>
                                              ELSE <<path[k + 1].sibling, F[k]>>
  <2>1. k + 1 \in 0..Len(path) /\ k + 1 # 0 /\ (k + 1) - 1 = k
    OBVIOUS
  <2>2. F[k + 1] = HashRound(leaf, path, F, k + 1)
    BY <1>4, <2>1
  <2>. QED  BY <2>1, <2>2 DEF HashRound
<1>. QED  BY <1>3, <1>5, <1>6

DoubleRound(double, k) == IF k = 0 THEN 1 ELSE 2 * double[k - 1]

LEMMA DoubledExists ==
    ASSUME NEW n \in Nat
    PROVE  \E double : double = [k \in 0..n |-> DoubleRound(double, k)]
<1>. DEFINE Exists(m) == \E double : double = [k \in 0..m |-> DoubleRound(double, k)]
            T == {m \in Nat : Exists(m)}
<1>1. 0 \in T
  <2>. DEFINE double == [k \in 0..0 |-> 1]
  <2>1. \A k \in 0..0 : DoubleRound(double, k) = 1
    BY DEF DoubleRound
  <2>2. double = [k \in 0..0 |-> DoubleRound(double, k)]
    BY <2>1
  <2>. QED  BY <2>2
<1>2. ASSUME NEW m \in Nat, m \in T
      PROVE  m + 1 \in T
  <2>1. PICK old : old = [k \in 0..m |-> DoubleRound(old, k)]
    BY <1>2
  <2>. DEFINE double == [k \in 0..(m + 1) |-> IF k = m + 1 THEN DoubleRound(old, k) ELSE old[k]]
  <2>2. \A k \in 0..m : double[k] = old[k] /\ old[k] = DoubleRound(old, k)
    BY <2>1
  <2>3. \A k \in 0..(m + 1) : k = 0 \/ k - 1 \in 0..m
    OBVIOUS
  <2>4. \A k \in 0..(m + 1) : double[k] = DoubleRound(old, k)
    <3>1. \A k \in 0..(m + 1) : k = m + 1 \/ k \in 0..m
      OBVIOUS
    <3>. QED  BY <2>2, <3>1
  <2>5. double = [k \in 0..(m + 1) |-> double[k]]
    OBVIOUS
  <2>. HIDE DEF double
  <2>6. \A k \in 0..(m + 1) : DoubleRound(double, k) = DoubleRound(old, k)
    BY <2>2, <2>3 DEF DoubleRound
  <2>7. double = [k \in 0..(m + 1) |-> DoubleRound(double, k)]
    BY <2>4, <2>5, <2>6
  <2>. QED  BY <2>7
<1>. HIDE DEF T
<1>3. n \in T
  BY <1>1, <1>2, SetInduction
<1>. QED  BY <1>3 DEF T

LEMMA DoubledRounds ==
    ASSUME NEW n \in Nat
    PROVE  /\ \A k \in 0..n : Doubled(n)[k] \in Nat \ {0}
           /\ Doubled(n)[0] = 1
           /\ \A k \in 0..(n - 1) : Doubled(n)[k + 1] = 2 * Doubled(n)[k]
<1>. DEFINE F == CHOOSE double : double = [k \in 0..n |-> DoubleRound(double, k)]
<1>1. F = [k \in 0..n |-> DoubleRound(F, k)]
  BY DoubledExists
<1>2. Doubled(n) = F
  BY DEF Doubled, DoubleRound
<1>. HIDE DEF F
<1>3. F[0] = 1
  BY <1>1 DEF DoubleRound
<1>4. ASSUME NEW k \in 0..(n - 1)
      PROVE  F[k + 1] = 2 * F[k]
  <2>1. k + 1 \in 0..n /\ k + 1 # 0 /\ (k + 1) - 1 = k
    OBVIOUS
  <2>2. F[k + 1] = DoubleRound(F, k + 1)
    BY <1>1, <2>1
  <2>. QED  BY <2>1, <2>2 DEF DoubleRound
<1>5. \A k \in 0..n : F[k] \in Nat \ {0}
  <2>. DEFINE T == {k \in Nat : k > n \/ F[k] \in Nat \ {0}}
  <2>1. 0 \in T
    BY <1>3
  <2>2. ASSUME NEW k \in Nat, k \in T
        PROVE  k + 1 \in T
    <3>. SUFFICES ASSUME ~(k + 1 > n) PROVE F[k + 1] \in Nat \ {0}
      OBVIOUS
    <3>1. k \in 0..(n - 1) /\ F[k] \in Nat \ {0}
      BY <2>2
    <3>. QED  BY <1>4, <3>1
  <2>. HIDE DEF T
  <2>3. Nat \subseteq T
    BY <2>1, <2>2, SetInduction
  <2>. QED  BY <2>3 DEF T
<1>. QED  BY <1>2, <1>3, <1>4, <1>5

IsLevel(l) == \E S : l \in Seq(S)

LEMMA LevelFields ==
    ASSUME NEW l, IsLevel(l)
    PROVE  Len(l) \in Nat /\ DOMAIN l = 1..Len(l)
BY DEF IsLevel

LEMMA PadFields ==
    ASSUME NEW l, IsLevel(l), Len(l) >= 1
    PROVE  /\ IsLevel(PadToEven(l)) /\ Len(PadToEven(l)) % 2 = 0
           /\ Len(PadToEven(l)) = IF Len(l) % 2 = 1 THEN Len(l) + 1 ELSE Len(l)
           /\ \A j \in 1..Len(l) : PadToEven(l)[j] = l[j]
           /\ Len(l) % 2 = 0 => PadToEven(l) = l
<1>1. PICK S : l \in Seq(S)
  BY DEF IsLevel
<1>2. Len(l) \in Nat /\ DOMAIN l = 1..Len(l) /\ Last(l) = l[Len(l)] /\ l[Len(l)] \in S
  BY <1>1 DEF Last
<1>3. CASE Len(l) % 2 = 1
  <2>1. PadToEven(l) = Append(l, Last(l)) /\ Append(l, Last(l)) \in Seq(S)
    BY <1>1, <1>2, <1>3 DEF PadToEven
  <2>2. Len(PadToEven(l)) = Len(l) + 1 /\ \A j \in 1..Len(l) : PadToEven(l)[j] = l[j]
    BY <1>1, <1>2, <2>1
  <2>3. (Len(l) + 1) % 2 = 0
    BY <1>2, <1>3
  <2>4. IsLevel(PadToEven(l)) /\ Len(PadToEven(l)) % 2 = 0
    BY <2>1, <2>2, <2>3 DEF IsLevel
  <2>. QED  BY <1>2, <1>3, <2>2, <2>4
<1>4. CASE Len(l) % 2 # 1
  <2>1. PadToEven(l) = l /\ Len(l) % 2 = 0
    BY <1>2, <1>4 DEF PadToEven
  <2>. QED  BY <1>1, <1>4, <2>1 DEF IsLevel
<1>. QED  BY <1>3, <1>4

LEMMA HashPairsFields ==
    ASSUME NEW l, IsLevel(l), Len(l) > 1
    PROVE  /\ IsLevel(HashPairs(l)) /\ Len(HashPairs(l)) = (Len(l) + 1) \div 2
           /\ Len(HashPairs(l)) \in Nat /\ Len(HashPairs(l)) >= 1 /\ Len(HashPairs(l)) < Len(l)
           /\ \A j \in 1..Len(HashPairs(l)) :
                  HashPairs(l)[j] = <<PadToEven(l)[2 * j - 1], PadToEven(l)[2 * j]>>
<1>. DEFINE n == Len(PadToEven(l)) \div 2
            pair(j) == <<PadToEven(l)[2 * j - 1], PadToEven(l)[2 * j]>>
            s == [j \in 1..n |-> pair(j)]
<1>1. Len(l) \in Nat /\ Len(l) >= 1
  BY LevelFields
<1>2. Len(PadToEven(l)) = IF Len(l) % 2 = 1 THEN Len(l) + 1 ELSE Len(l)
  BY <1>1, PadFields
<1>3. n = (Len(l) + 1) \div 2 /\ n \in Nat /\ n >= 1 /\ n < Len(l)
  <2>1. \A m \in Nat : m > 1 /\ m % 2 = 1 => /\ (m + 1) \div 2 \in Nat /\ (m + 1) \div 2 >= 1
                                          /\ (m + 1) \div 2 < m
    OBVIOUS
  <2>2. \A m \in Nat : m > 1 /\ m % 2 # 1 => /\ m \div 2 = (m + 1) \div 2 /\ m \div 2 \in Nat
                                          /\ m \div 2 >= 1 /\ m \div 2 < m
    OBVIOUS
  <2>3. CASE Len(l) % 2 = 1
    BY <1>1, <1>2, <2>1, <2>3
  <2>4. CASE Len(l) % 2 # 1
    BY <1>1, <1>2, <2>2, <2>4
  <2>. QED  BY <2>3, <2>4
<1>4. HashPairs(l) = s
  BY DEF HashPairs
<1>. HIDE DEF pair, n
<1>5. s \in Seq({pair(j) : j \in 1..n}) /\ Len(s) = n
  <2>1. s \in [1..n -> {pair(j) : j \in 1..n}]
    OBVIOUS
  <2>. QED  BY <1>3, <2>1
<1>6. \A j \in 1..n : s[j] = pair(j)
  OBVIOUS
<1>. HIDE DEF s
<1>7. IsLevel(s)
  BY <1>5 DEF IsLevel
<1>. QED  BY <1>3, <1>4, <1>5, <1>6, <1>7 DEF pair

\* A hash and its sibling make the one above them.
LEMMA HashPlace ==
    ASSUME NEW l, IsLevel(l), Len(l) > 1, NEW at \in Nat, at < Len(l), Sibling(at) < Len(l)
    PROVE  /\ at \div 2 \in Nat /\ at \div 2 < Len(HashPairs(l))
           /\ HashPairs(l)[(at \div 2) + 1] =
                  IF at % 2 = 0 THEN <<l[at + 1], l[Sibling(at) + 1]>>
                                ELSE <<l[Sibling(at) + 1], l[at + 1]>>
<1>1. Len(l) \in Nat /\ Len(l) >= 1
  BY LevelFields
<1>2. \A j \in 1..Len(l) : PadToEven(l)[j] = l[j]
  BY <1>1, PadFields
<1>3. /\ Len(HashPairs(l)) = (Len(l) + 1) \div 2
      /\ \A j \in 1..Len(HashPairs(l)) :
             HashPairs(l)[j] = <<PadToEven(l)[2 * j - 1], PadToEven(l)[2 * j]>>
  BY HashPairsFields
<1>4. at \div 2 \in Nat /\ at \div 2 < (Len(l) + 1) \div 2
  BY <1>1
<1>5. (at \div 2) + 1 \in 1..Len(HashPairs(l))
  BY <1>1, <1>3, <1>4
<1>6. HashPairs(l)[(at \div 2) + 1] =
          <<PadToEven(l)[2 * ((at \div 2) + 1) - 1], PadToEven(l)[2 * ((at \div 2) + 1)]>>
  BY <1>3, <1>5
<1>7. CASE at % 2 = 0
  <2>1. 2 * ((at \div 2) + 1) - 1 = at + 1 /\ 2 * ((at \div 2) + 1) = at + 2 /\ Sibling(at) = at + 1
    BY <1>7 DEF Sibling
  <2>2. at + 1 \in 1..Len(l) /\ at + 2 \in 1..Len(l) /\ Sibling(at) + 1 = at + 2
    BY <1>1, <2>1
  <2>3. HashPairs(l)[(at \div 2) + 1] = <<PadToEven(l)[at + 1], PadToEven(l)[at + 2]>>
    BY <1>6, <2>1
  <2>4. PadToEven(l)[at + 1] = l[at + 1] /\ PadToEven(l)[at + 2] = l[at + 2]
    BY <1>2, <2>2
  <2>. QED  BY <1>3, <1>4, <1>7, <2>2, <2>3, <2>4
<1>8. CASE at % 2 # 0
  <2>1. 2 * ((at \div 2) + 1) - 1 = at /\ 2 * ((at \div 2) + 1) = at + 1 /\ Sibling(at) = at - 1 /\ at >= 1
    BY <1>8 DEF Sibling
  <2>2. at + 1 \in 1..Len(l) /\ at \in 1..Len(l) /\ Sibling(at) + 1 = at
    BY <1>1, <2>1
  <2>3. HashPairs(l)[(at \div 2) + 1] = <<PadToEven(l)[at], PadToEven(l)[at + 1]>>
    BY <1>6, <2>1
  <2>4. PadToEven(l)[at + 1] = l[at + 1] /\ PadToEven(l)[at] = l[at]
    BY <1>2, <2>2
  <2>. QED  BY <1>3, <1>4, <1>8, <2>2, <2>3, <2>4
<1>. QED  BY <1>7, <1>8

LEMMA ClimbSteps ==
    ASSUME NEW first, IsLevel(first), NEW i, NEW round, round = Climb(first, i)
    PROVE  /\ DOMAIN round = 0..Len(first)
           /\ round[0] = [level |-> first, at |-> i]
           /\ \A k \in 0..(Len(first) - 1) :
                  /\ Len(round[k].level) > 1 =>
                        round[k + 1] = [level |-> HashPairs(round[k].level), at |-> round[k].at \div 2]
                  /\ ~(Len(round[k].level) > 1) => round[k + 1] = round[k]
<1>1. PICK S : first \in Seq(S)
  BY DEF IsLevel
<1>. QED  BY <1>1, ClimbRounds

LevelsOf(round, n) ==
    \A k \in 0..n :
        /\ IsLevel(round[k].level) /\ Len(round[k].level) \in Nat /\ Len(round[k].level) >= 1
        /\ round[k].at \in Nat
        /\ Len(round[k].level) <= 1 \/ Len(round[k].level) <= n - k

LEMMA ClimbLevels ==
    ASSUME NEW first, IsLevel(first), Len(first) >= 1, NEW i \in Nat
    PROVE  LevelsOf(Climb(first, i), Len(first))
<1>. DEFINE n == Len(first)
            round == Climb(first, i)
            Fine(k) == /\ IsLevel(round[k].level) /\ Len(round[k].level) \in Nat /\ Len(round[k].level) >= 1
                       /\ round[k].at \in Nat
                       /\ Len(round[k].level) <= 1 \/ Len(round[k].level) <= n - k
            T == {k \in Nat : k > n \/ Fine(k)}
<1>1. n \in Nat
  BY LevelFields
<1>2. /\ round[0] = [level |-> first, at |-> i]
      /\ \A k \in 0..(n - 1) :
             /\ Len(round[k].level) > 1 =>
                   round[k + 1] = [level |-> HashPairs(round[k].level), at |-> round[k].at \div 2]
             /\ ~(Len(round[k].level) > 1) => round[k + 1] = round[k]
  BY ClimbSteps
<1>. HIDE DEF round
<1>3. 0 \in T
  BY <1>1, <1>2
<1>4. ASSUME NEW k \in Nat, k \in T
      PROVE  k + 1 \in T
  <2>. SUFFICES ASSUME ~(k + 1 > n) PROVE Fine(k + 1)
    OBVIOUS
  <2>1. k \in 0..(n - 1) /\ Fine(k)
    BY <1>1, <1>4
  <2>2. CASE Len(round[k].level) > 1
    <3>0. round[k + 1] = [level |-> HashPairs(round[k].level), at |-> round[k].at \div 2]
      BY <1>2, <2>1, <2>2
    <3>1. round[k + 1].level = HashPairs(round[k].level) /\ round[k + 1].at = round[k].at \div 2
      BY <3>0
    <3>2. /\ IsLevel(HashPairs(round[k].level)) /\ Len(HashPairs(round[k].level)) \in Nat
          /\ Len(HashPairs(round[k].level)) >= 1 /\ Len(HashPairs(round[k].level)) < Len(round[k].level)
      BY <2>1, <2>2, HashPairsFields
    <3>3. round[k].at \div 2 \in Nat
      BY <2>1
    <3>4. Len(round[k].level) <= n - k
      BY <1>1, <2>1, <2>2
    <3>5. Len(HashPairs(round[k].level)) <= n - (k + 1)
      BY <1>1, <2>1, <3>2, <3>4
    <3>. QED  BY <3>1, <3>2, <3>3, <3>5
  <2>3. CASE ~(Len(round[k].level) > 1)
    <3>1. round[k + 1] = round[k]
      BY <1>2, <2>1, <2>3
    <3>. QED  BY <2>1, <2>3, <3>1
  <2>. QED  BY <2>2, <2>3
<1>. HIDE DEF T
<1>5. Nat \subseteq T
  BY <1>3, <1>4, SetInduction
<1>6. \A k \in 0..n : Fine(k)
  BY <1>1, <1>5 DEF T
<1>. QED  BY <1>6 DEF LevelsOf, round

\* The first round that leaves one hash, which the ones after it repeat.
LEMMA HeightFields ==
    ASSUME NEW first, IsLevel(first), Len(first) >= 1, NEW i \in Nat
    PROVE  LET round == Climb(first, i)
               h == Height(round)
           IN /\ h \in 0..Len(first) /\ Len(round[h].level) = 1
              /\ \A k \in 0..(h - 1) : Len(round[k].level) > 1
              /\ \A k \in h..Len(first) : round[k] = round[h]
<1>. DEFINE n == Len(first)
            round == Climb(first, i)
            h == Height(round)
            Done == {k \in 0..n : Len(round[k].level) <= 1}
<1>1. n \in Nat
  BY LevelFields
<1>2. LevelsOf(round, n)
  BY ClimbLevels
<1>3. /\ DOMAIN round = 0..n
      /\ round[0] = [level |-> first, at |-> i]
      /\ \A k \in 0..(n - 1) :
             /\ Len(round[k].level) > 1 =>
                   round[k + 1] = [level |-> HashPairs(round[k].level), at |-> round[k].at \div 2]
             /\ ~(Len(round[k].level) > 1) => round[k + 1] = round[k]
  BY ClimbSteps
<1>. HIDE DEF round
<1>4. \A k \in 0..n : Len(round[k].level) \in Nat /\ Len(round[k].level) >= 1
  BY <1>2 DEF LevelsOf
<1>5. n \in Done
  BY <1>1, <1>2 DEF LevelsOf
<1>6. PICK k \in Done : \A m \in Done : k <= m
  <2>1. Done \subseteq Nat /\ Done # {}
    BY <1>1, <1>5
  <2>. HIDE DEF Done
  <2>. QED  BY <2>1, LeastNatural
<1>7. \A m \in 0..(k - 1) : Len(round[m].level) > 1
  BY <1>4, <1>6
<1>8. h \in 0..n /\ Len(round[h].level) <= 1 /\ \A m \in 0..(h - 1) : Len(round[m].level) > 1
  BY <1>3, <1>6, <1>7 DEF Height
<1>. HIDE DEF h
<1>9. Len(round[h].level) = 1
  <2>1. Len(round[h].level) \in Nat /\ Len(round[h].level) >= 1
    BY <1>4, <1>8
  <2>2. Len(round[h].level) <= 1
    BY <1>8
  <2>3. \A x \in Nat : x >= 1 /\ x <= 1 => x = 1
    OBVIOUS
  <2>. QED  BY <2>1, <2>2, <2>3
<1>. DEFINE T == {m \in Nat : h + m > n \/ round[h + m] = round[h]}
<1>10. 0 \in T
  BY <1>8
<1>11. ASSUME NEW m \in Nat, m \in T
       PROVE  m + 1 \in T
  <2>. SUFFICES ASSUME ~(h + (m + 1) > n) PROVE round[h + (m + 1)] = round[h]
    OBVIOUS
  <2>1. h + m \in 0..(n - 1) /\ h + (m + 1) = (h + m) + 1 /\ round[h + m] = round[h]
    BY <1>1, <1>8, <1>11
  <2>2. ~(Len(round[h + m].level) > 1)
    <3>1. Len(round[h + m].level) = 1
      BY <1>9, <2>1
    <3>. QED  BY <3>1
  <2>3. round[(h + m) + 1] = round[h + m]
    BY <1>3, <2>1, <2>2
  <2>. QED  BY <2>1, <2>3
<1>. HIDE DEF T
<1>12. Nat \subseteq T
  BY <1>10, <1>11, SetInduction
<1>13. ASSUME NEW m \in h..n  PROVE round[m] = round[h]
  <2>1. m - h \in T /\ h + (m - h) = m /\ ~(m > n)
    BY <1>1, <1>8, <1>12
  <2>. QED  BY <2>1 DEF T
<1>. QED  BY <1>8, <1>9, <1>13 DEF round, h

\* Two leaves are not hashed to one root by one path.
LEMMA HashesTell ==
    ASSUME NEW path, Len(path) \in Nat, NEW a, NEW b,
           Hashes(a, path)[Len(path)] = Hashes(b, path)[Len(path)]
    PROVE  a = b
<1>. DEFINE n == Len(path)
            f == Hashes(a, path)
            g == Hashes(b, path)
            T == {m \in Nat : m > n \/ f[n - m] = g[n - m]}
<1>1. f[0] = a /\ g[0] = b
  BY HashRounds
<1>2. \A k \in 0..(n - 1) : f[k + 1] = IF path[k + 1].isLeft THEN <<f[k], path[k + 1].sibling>>
                                                             ELSE <<path[k + 1].sibling, f[k]>>
  BY HashRounds
<1>3. \A k \in 0..(n - 1) : g[k + 1] = IF path[k + 1].isLeft THEN <<g[k], path[k + 1].sibling>>
                                                             ELSE <<path[k + 1].sibling, g[k]>>
  BY HashRounds
<1>4. f[n] = g[n]
  OBVIOUS
<1>. HIDE DEF f, g
<1>5. 0 \in T
  BY <1>4
<1>6. ASSUME NEW m \in Nat, m \in T
      PROVE  m + 1 \in T
  <2>. SUFFICES ASSUME ~(m + 1 > n) PROVE f[n - (m + 1)] = g[n - (m + 1)]
    OBVIOUS
  <2>. DEFINE k == n - (m + 1)
  <2>1. k \in 0..(n - 1) /\ n - m = k + 1
    OBVIOUS
  <2>2. f[k + 1] = g[k + 1]
    BY <1>6, <2>1
  <2>. HIDE DEF k
  <2>3. CASE path[k + 1].isLeft
    <3>1. <<f[k], path[k + 1].sibling>> = <<g[k], path[k + 1].sibling>>
      BY <1>2, <1>3, <2>1, <2>2, <2>3
    <3>2. f[k] = g[k]
      BY <3>1
    <3>. QED  BY <3>2 DEF k
  <2>4. CASE ~path[k + 1].isLeft
    <3>1. <<path[k + 1].sibling, f[k]>> = <<path[k + 1].sibling, g[k]>>
      BY <1>2, <1>3, <2>1, <2>2, <2>4
    <3>2. f[k] = g[k]
      BY <3>1
    <3>. QED  BY <3>2 DEF k
  <2>. QED  BY <2>3, <2>4
<1>. HIDE DEF T
<1>7. n \in T
  BY <1>5, <1>6, SetInduction
<1>8. n - n = 0 /\ ~(n > n)
  OBVIOUS
<1>9. f[n - n] = g[n - n]
  BY <1>7, <1>8 DEF T
<1>. QED  BY <1>1, <1>8, <1>9

\* The rounds of proof() end in the root, whether or not the leaves were padded first.
LEMMA RootIsTop ==
    ASSUME NEW leaves, IsLevel(leaves), Len(leaves) > 1, NEW i \in Nat, NEW round, round = Rounds(leaves, i)
    PROVE  round[Height(round)].level[1] = Root(leaves)
<1>. DEFINE L == PadToEven(leaves)
            n == Len(leaves)
            bare == Climb(leaves, 0)
            h == Height(round)
<1>1. n \in Nat /\ n > 1
  BY LevelFields
<1>2. IsLevel(L) /\ Len(L) \in Nat /\ Len(L) >= n /\ PadToEven(L) = L
  <2>1. IsLevel(L) /\ Len(L) % 2 = 0 /\ Len(L) = IF n % 2 = 1 THEN n + 1 ELSE n
    BY <1>1, PadFields
  <2>2. Len(L) \in Nat /\ Len(L) >= n
    BY <1>1, <2>1
  <2>3. Len(L) >= 1
    BY <1>1, <2>2
  <2>. HIDE DEF L
  <2>4. PadToEven(L) = L
    BY <2>1, <2>3, PadFields
  <2>. QED  BY <2>1, <2>2, <2>4
<1>3. HashPairs(L) = HashPairs(leaves)
  BY <1>2 DEF HashPairs
<1>4. /\ DOMAIN bare = 0..n
      /\ bare[0] = [level |-> leaves, at |-> 0]
      /\ \A k \in 0..(n - 1) :
             /\ Len(bare[k].level) > 1 =>
                   bare[k + 1] = [level |-> HashPairs(bare[k].level), at |-> bare[k].at \div 2]
             /\ ~(Len(bare[k].level) > 1) => bare[k + 1] = bare[k]
  BY ClimbSteps
<1>5. round = Climb(L, i)
  BY DEF Rounds
<1>. HIDE DEF L, bare
<1>6. /\ DOMAIN round = 0..Len(L)
      /\ round[0] = [level |-> L, at |-> i]
      /\ \A k \in 0..(Len(L) - 1) :
             /\ Len(round[k].level) > 1 =>
                   round[k + 1] = [level |-> HashPairs(round[k].level), at |-> round[k].at \div 2]
             /\ ~(Len(round[k].level) > 1) => round[k + 1] = round[k]
  BY <1>2, <1>5, ClimbSteps
<1>. DEFINE T == {m \in Nat : m + 1 > n \/ bare[m + 1].level = round[m + 1].level}
<1>7. 0 \in T
  <2>1. 0 \in 0..(n - 1) /\ 0 \in 0..(Len(L) - 1)
    BY <1>1, <1>2
  <2>2. bare[0].level = leaves /\ round[0].level = L /\ Len(leaves) > 1 /\ Len(L) > 1
    BY <1>1, <1>2, <1>4, <1>6
  <2>3. bare[0 + 1].level = HashPairs(leaves)
    <3>1. bare[0 + 1] = [level |-> HashPairs(bare[0].level), at |-> bare[0].at \div 2]
      BY <1>4, <2>1, <2>2
    <3>. QED  BY <2>2, <3>1
  <2>4. round[0 + 1].level = HashPairs(L)
    <3>1. round[0 + 1] = [level |-> HashPairs(round[0].level), at |-> round[0].at \div 2]
      BY <1>6, <2>1, <2>2
    <3>. QED  BY <2>2, <3>1
  <2>. QED  BY <1>3, <2>3, <2>4
<1>8. ASSUME NEW m \in Nat, m \in T
      PROVE  m + 1 \in T
  <2>. SUFFICES ASSUME ~((m + 1) + 1 > n) PROVE bare[(m + 1) + 1].level = round[(m + 1) + 1].level
    OBVIOUS
  <2>. DEFINE k == m + 1
  <2>1. k \in 0..(n - 1) /\ k \in 0..(Len(L) - 1) /\ bare[k].level = round[k].level
    BY <1>1, <1>2, <1>8
  <2>. HIDE DEF k
  <2>2. CASE Len(round[k].level) > 1
    <3>1. bare[k + 1] = [level |-> HashPairs(bare[k].level), at |-> bare[k].at \div 2]
      BY <1>4, <2>1, <2>2
    <3>2. round[k + 1] = [level |-> HashPairs(round[k].level), at |-> round[k].at \div 2]
      BY <1>6, <2>1, <2>2
    <3>3. bare[k + 1].level = round[k + 1].level
      BY <2>1, <3>1, <3>2
    <3>. QED  BY <3>3 DEF k
  <2>3. CASE ~(Len(round[k].level) > 1)
    <3>1. bare[k + 1] = bare[k]
      BY <1>4, <2>1, <2>3
    <3>2. round[k + 1] = round[k]
      BY <1>6, <2>1, <2>3
    <3>. QED  BY <2>1, <3>1, <3>2 DEF k
  <2>. QED  BY <2>2, <2>3
<1>. HIDE DEF T
<1>9. n - 1 \in T /\ (n - 1) + 1 = n /\ ~(n > n)
  <2>1. Nat \subseteq T
    BY <1>7, <1>8, SetInduction
  <2>2. n - 1 \in Nat /\ (n - 1) + 1 = n /\ ~(n > n)
    BY <1>1
  <2>. QED  BY <2>1, <2>2
<1>10. bare[n].level = round[n].level
  <2>1. n - 1 + 1 > n \/ bare[n - 1 + 1].level = round[n - 1 + 1].level
    BY <1>9 DEF T
  <2>. QED  BY <1>9, <2>1
<1>11. Len(bare[n].level) <= 1
  <2>1. LevelsOf(bare, n)
    BY <1>1, ClimbLevels DEF bare
  <2>2. n \in 0..n /\ n - n = 0
    BY <1>1
  <2>3. Len(bare[n].level) <= 1 \/ Len(bare[n].level) <= n - n
    BY <2>1, <2>2 DEF LevelsOf
  <2>4. Len(bare[n].level) \in Nat
    BY <2>1, <2>2 DEF LevelsOf
  <2>. QED  BY <2>2, <2>3, <2>4
<1>12. /\ h \in 0..Len(L)
       /\ \A k \in 0..(h - 1) : Len(round[k].level) > 1
       /\ \A k \in h..Len(L) : round[k] = round[h]
  <2>1. Len(L) >= 1
    BY <1>1, <1>2
  <2>. HIDE DEF h
  <2>2. h = Height(Climb(L, i))
    BY <1>5 DEF h
  <2>. QED  BY <1>2, <1>5, <2>1, <2>2, HeightFields
<1>. HIDE DEF h
<1>13. ~(n < h)
  <2>1. n < h => n \in 0..(h - 1)
    BY <1>1, <1>2, <1>12
  <2>2. LevelsOf(bare, n) /\ n \in 0..n
    BY <1>1, ClimbLevels DEF bare
  <2>3. Len(bare[n].level) \in Nat
    BY <2>2 DEF LevelsOf
  <2>. QED  BY <1>10, <1>11, <1>12, <2>1, <2>3
<1>14. n \in h..Len(L)
  BY <1>1, <1>2, <1>12, <1>13
<1>15. round[n] = round[h]
  BY <1>12, <1>14
<1>16. Root(leaves) = bare[n].level[1]
  <2>1. leaves # <<>>
    BY <1>1
  <2>. QED  BY <2>1 DEF Root, bare
<1>. QED  BY <1>10, <1>15, <1>16 DEF h

\* A path that there is leads from its leaf to the root.
LEMMA PathLeadsUp ==
    ASSUME NEW leaves, IsLevel(leaves), Len(leaves) > 1, NEW i \in Nat, i < Len(leaves), HasPath(leaves, i)
    PROVE  /\ Len(Path(leaves, i)) \in Nat
           /\ Hashes(leaves[i + 1], Path(leaves, i))[Len(Path(leaves, i))] = Root(leaves)
<1>. DEFINE L == PadToEven(leaves)
            round == Rounds(leaves, i)
            h == Height(round)
            path == Path(leaves, i)
            hash == Hashes(leaves[i + 1], path)
<1>1. /\ IsLevel(L) /\ Len(L) \in Nat /\ Len(L) >= Len(leaves) /\ Len(leaves) \in Nat /\ Len(L) >= 1
      /\ \A j \in 1..Len(leaves) : L[j] = leaves[j]
  <2>1. Len(leaves) \in Nat /\ Len(leaves) >= 1
    BY LevelFields
  <2>2. /\ IsLevel(L) /\ Len(L) = IF Len(leaves) % 2 = 1 THEN Len(leaves) + 1 ELSE Len(leaves)
        /\ \A j \in 1..Len(leaves) : L[j] = leaves[j]
    BY <2>1, PadFields
  <2>3. Len(L) \in Nat /\ Len(L) >= Len(leaves) /\ Len(L) >= 1
    BY <2>1, <2>2
  <2>. QED  BY <2>1, <2>2, <2>3
<1>2. round = Climb(L, i)
  BY DEF Rounds
<1>3. \A k \in 0..(h - 1) : Sibling(round[k].at) < Len(round[k].level)
  BY DEF HasPath
<1>4. path = [k \in 1..h |-> [sibling |-> round[k - 1].level[Sibling(round[k - 1].at) + 1],
                               isLeft |-> round[k - 1].at % 2 = 0]]
  BY DEF Path
<1>5. round[h].level[1] = Root(leaves)
  BY RootIsTop
<1>. HIDE DEF L, round, path
<1>6. /\ DOMAIN round = 0..Len(L)
      /\ round[0] = [level |-> L, at |-> i]
      /\ \A k \in 0..(Len(L) - 1) :
             /\ Len(round[k].level) > 1 =>
                   round[k + 1] = [level |-> HashPairs(round[k].level), at |-> round[k].at \div 2]
             /\ ~(Len(round[k].level) > 1) => round[k + 1] = round[k]
  BY <1>1, <1>2, ClimbSteps
<1>7. LevelsOf(round, Len(L))
  BY <1>1, <1>2, ClimbLevels
<1>8. /\ h \in 0..Len(L) /\ Len(round[h].level) = 1
      /\ \A k \in 0..(h - 1) : Len(round[k].level) > 1
  <2>. HIDE DEF h
  <2>1. h = Height(Climb(L, i))
    BY <1>2 DEF h
  <2>. QED  BY <1>1, <1>2, <2>1, HeightFields
<1>. HIDE DEF h
<1>9. Len(path) = h /\ h \in Nat
  <2>. DEFINE step(k) == [sibling |-> round[k - 1].level[Sibling(round[k - 1].at) + 1],
                          isLeft |-> round[k - 1].at % 2 = 0]
  <2>1. path = [k \in 1..h |-> step(k)]
    BY <1>4
  <2>2. h \in Nat
    BY <1>1, <1>8
  <2>. HIDE DEF step
  <2>3. path \in [1..h -> {step(k) : k \in 1..h}]
    BY <2>1
  <2>. DEFINE S == {step(k) : k \in 1..h}
  <2>. HIDE DEF S
  <2>4. path \in [1..h -> S]
    BY <2>3 DEF S
  <2>5. path \in Seq(S) /\ DOMAIN path = 1..h
    BY <2>2, <2>4
  <2>. QED  BY <2>2, <2>5
<1>10. \A k \in 0..(h - 1) :
           /\ path[k + 1].sibling = round[k].level[Sibling(round[k].at) + 1]
           /\ path[k + 1].isLeft = (round[k].at % 2 = 0)
  <2>. SUFFICES ASSUME NEW k \in 0..(h - 1)
                PROVE  /\ path[k + 1].sibling = round[k].level[Sibling(round[k].at) + 1]
                       /\ path[k + 1].isLeft = (round[k].at % 2 = 0)
    OBVIOUS
  <2>1. k + 1 \in 1..h /\ (k + 1) - 1 = k
    BY <1>9
  <2>2. path[k + 1] = [sibling |-> round[k].level[Sibling(round[k].at) + 1],
                       isLeft |-> round[k].at % 2 = 0]
    BY <1>4, <2>1
  <2>. QED  BY <2>2
<1>11. /\ hash[0] = leaves[i + 1]
       /\ \A k \in 0..(h - 1) :
              hash[k + 1] = IF path[k + 1].isLeft THEN <<hash[k], path[k + 1].sibling>>
                                                  ELSE <<path[k + 1].sibling, hash[k]>>
  BY <1>9, HashRounds
<1>. HIDE DEF hash
<1>. DEFINE Reached(k) == round[k].at < Len(round[k].level) /\ hash[k] = round[k].level[round[k].at + 1]
            T == {k \in Nat : k > h \/ Reached(k)}
<1>12. 0 \in T
  <2>1. i < Len(L) /\ i + 1 \in 1..Len(leaves)
    BY <1>1
  <2>2. L[i + 1] = leaves[i + 1]
    BY <1>1, <2>1
  <2>. QED  BY <1>6, <1>11, <2>1, <2>2
<1>13. ASSUME NEW k \in Nat, k \in T
       PROVE  k + 1 \in T
  <2>. SUFFICES ASSUME ~(k + 1 > h) PROVE Reached(k + 1)
    OBVIOUS
  <2>1. k \in 0..(h - 1) /\ k \in 0..(Len(L) - 1) /\ k \in 0..Len(L) /\ Reached(k)
    BY <1>1, <1>8, <1>9, <1>13
  <2>. DEFINE l == round[k].level
              at == round[k].at
  <2>2. IsLevel(l) /\ at \in Nat /\ Len(l) > 1 /\ at < Len(l) /\ Sibling(at) < Len(l)
    BY <1>3, <1>7, <1>8, <2>1 DEF LevelsOf
  <2>3. round[k + 1].level = HashPairs(l) /\ round[k + 1].at = at \div 2
    <3>1. round[k + 1] = [level |-> HashPairs(l), at |-> at \div 2]
      BY <1>6, <2>1, <2>2
    <3>. QED  BY <3>1
  <2>4. path[k + 1].sibling = l[Sibling(at) + 1] /\ path[k + 1].isLeft = (at % 2 = 0)
    BY <1>10, <2>1
  <2>5. hash[k] = l[at + 1]
    BY <2>1
  <2>. HIDE DEF l, at
  <2>6. /\ at \div 2 < Len(HashPairs(l))
        /\ HashPairs(l)[(at \div 2) + 1] =
               IF at % 2 = 0 THEN <<l[at + 1], l[Sibling(at) + 1]>>
                             ELSE <<l[Sibling(at) + 1], l[at + 1]>>
    BY <2>2, HashPlace
  <2>7. hash[k + 1] = HashPairs(l)[(at \div 2) + 1]
    BY <1>11, <2>1, <2>4, <2>5, <2>6
  <2>. QED  BY <2>3, <2>6, <2>7
<1>. HIDE DEF T
<1>14. h \in T
  BY <1>9, <1>12, <1>13, SetInduction
<1>15. Reached(h)
  BY <1>9, <1>14 DEF T
<1>16. round[h].at = 0
  <2>1. round[h].at \in Nat
    BY <1>7, <1>8 DEF LevelsOf
  <2>2. round[h].at < 1
    BY <1>8, <1>15
  <2>. QED  BY <2>1, <2>2
<1>17. hash[h] = round[h].level[1]
  BY <1>15, <1>16
<1>. QED  BY <1>5, <1>9, <1>17 DEF hash, path

\* In the first full subtree no level is too short for a sibling: place and level are halved
\* together.
LEMMA FullTreeHasPath ==
    ASSUME NEW leaves, IsLevel(leaves), Len(leaves) > 1, NEW i \in Nat, i < Len(leaves),
           NEW j \in 1..Len(leaves), i < Doubled(Len(leaves))[j], Doubled(Len(leaves))[j] <= Len(leaves)
    PROVE  HasPath(leaves, i)
<1>. DEFINE L == PadToEven(leaves)
            round == Rounds(leaves, i)
            h == Height(round)
            D == Doubled(Len(leaves))
<1>1. /\ IsLevel(L) /\ Len(L) \in Nat /\ Len(L) >= Len(leaves) /\ Len(leaves) \in Nat /\ Len(L) >= 1
  <2>1. Len(leaves) \in Nat /\ Len(leaves) >= 1
    BY LevelFields
  <2>2. IsLevel(L) /\ Len(L) = IF Len(leaves) % 2 = 1 THEN Len(leaves) + 1 ELSE Len(leaves)
    BY <2>1, PadFields
  <2>3. Len(L) \in Nat /\ Len(L) >= Len(leaves) /\ Len(L) >= 1
    BY <2>1, <2>2
  <2>. QED  BY <2>1, <2>2, <2>3
<1>2. round = Climb(L, i)
  BY DEF Rounds
<1>3. /\ \A k \in 0..Len(leaves) : D[k] \in Nat \ {0}
      /\ D[0] = 1
      /\ \A k \in 0..(Len(leaves) - 1) : D[k + 1] = 2 * D[k]
  BY <1>1, DoubledRounds
<1>4. j \in Nat /\ i < D[j] /\ D[j] <= Len(leaves)
  BY <1>1
<1>. HIDE DEF L, round, D
<1>6. /\ DOMAIN round = 0..Len(L)
      /\ round[0] = [level |-> L, at |-> i]
      /\ \A k \in 0..(Len(L) - 1) :
             /\ Len(round[k].level) > 1 =>
                   round[k + 1] = [level |-> HashPairs(round[k].level), at |-> round[k].at \div 2]
             /\ ~(Len(round[k].level) > 1) => round[k + 1] = round[k]
  BY <1>1, <1>2, ClimbSteps
<1>7. LevelsOf(round, Len(L))
  BY <1>1, <1>2, ClimbLevels
<1>8. /\ h \in 0..Len(L)
      /\ \A k \in 0..(h - 1) : Len(round[k].level) > 1
  <2>. HIDE DEF h
  <2>1. h = Height(Climb(L, i))
    BY <1>2 DEF h
  <2>. QED  BY <1>1, <1>2, <2>1, HeightFields
<1>. HIDE DEF h
<1>9. h \in Nat
  BY <1>1, <1>8
<1>. DEFINE Within(k) == /\ k <= j => round[k].at < D[j - k] /\ D[j - k] <= Len(round[k].level)
                         /\ k >= j => round[k].at = 0
            T == {k \in Nat : k > h \/ Within(k)}
<1>10. 0 \in T
  <2>1. round[0].at = i /\ round[0].level = L
    BY <1>6
  <2>2. j - 0 = j /\ D[j] <= Len(L) /\ ~(0 >= j)
    <3>1. j \in 0..Len(leaves)
      BY <1>1
    <3>2. D[j] \in Nat
      BY <1>3, <3>1
    <3>. QED  BY <1>1, <1>4, <3>2
  <2>. QED  BY <1>4, <2>1, <2>2
<1>11. ASSUME NEW k \in Nat, k \in T
       PROVE  k + 1 \in T
  <2>. SUFFICES ASSUME ~(k + 1 > h) PROVE Within(k + 1)
    OBVIOUS
  <2>1. k \in 0..(h - 1) /\ k \in 0..(Len(L) - 1) /\ k \in 0..Len(L) /\ Within(k)
    BY <1>1, <1>8, <1>9, <1>11
  <2>. DEFINE l == round[k].level
              at == round[k].at
  <2>2. IsLevel(l) /\ at \in Nat /\ Len(l) \in Nat /\ Len(l) > 1
    BY <1>7, <1>8, <2>1 DEF LevelsOf
  <2>3. round[k + 1].level = HashPairs(l) /\ round[k + 1].at = at \div 2
    <3>1. round[k + 1] = [level |-> HashPairs(l), at |-> at \div 2]
      BY <1>6, <2>1, <2>2
    <3>. QED  BY <3>1
  <2>4. /\ k <= j => at < D[j - k] /\ D[j - k] <= Len(l)
        /\ k >= j => at = 0
    BY <2>1
  <2>. HIDE DEF l, at
  <2>5. Len(HashPairs(l)) = (Len(l) + 1) \div 2
    BY <2>2, HashPairsFields
  <2>6. CASE k + 1 <= j
    <3>1. j - (k + 1) \in 0..(Len(leaves) - 1) /\ (j - (k + 1)) + 1 = j - k /\ k <= j /\ j - (k + 1) \in 0..Len(leaves)
      BY <1>1, <1>4, <2>6
    <3>2. D[j - k] = 2 * D[j - (k + 1)] /\ D[j - (k + 1)] \in Nat
      BY <1>3, <3>1
    <3>. DEFINE d == D[j - (k + 1)]
    <3>3. at < 2 * d /\ 2 * d <= Len(l) /\ d \in Nat
      BY <2>4, <3>1, <3>2
    <3>. HIDE DEF d
    <3>4. at \div 2 < d /\ d <= (Len(l) + 1) \div 2 /\ at \div 2 \in Nat
      BY <2>2, <3>3
    <3>5. k + 1 >= j => at \div 2 = 0
      <4>1. k + 1 >= j => j - (k + 1) = 0
        BY <1>4, <2>6
      <4>2. k + 1 >= j => d = 1
        BY <1>3, <4>1 DEF d
      <4>. QED  BY <3>4, <4>2
    <3>. QED  BY <2>3, <2>5, <3>4, <3>5 DEF d
  <2>7. CASE ~(k + 1 <= j)
    <3>1. at = 0 /\ at \div 2 = 0
      BY <1>4, <2>4, <2>7
    <3>. QED  BY <2>3, <2>7, <3>1
  <2>. QED  BY <2>6, <2>7
<1>. HIDE DEF T
<1>12. Nat \subseteq T
  BY <1>10, <1>11, SetInduction
<1>13. ASSUME NEW k \in 0..(h - 1)
       PROVE  Sibling(round[k].at) < Len(round[k].level)
  <2>1. Within(k)
    BY <1>9, <1>12 DEF T
  <2>2. round[k].at \in Nat /\ Len(round[k].level) \in Nat /\ Len(round[k].level) > 1
    BY <1>1, <1>7, <1>8 DEF LevelsOf
  <2>3. CASE k >= j
    <3>1. round[k].at = 0
      BY <2>1, <2>3
    <3>2. Sibling(0) = 1
      BY DEF Sibling
    <3>. QED  BY <2>2, <3>1, <3>2
  <2>4. CASE ~(k >= j)
    <3>1. j - (k + 1) \in 0..(Len(leaves) - 1) /\ (j - (k + 1)) + 1 = j - k /\ j - (k + 1) \in 0..Len(leaves) /\ k <= j
      BY <1>1, <1>4, <1>9, <2>4
    <3>2. D[j - k] = 2 * D[j - (k + 1)] /\ D[j - (k + 1)] \in Nat
      BY <1>3, <3>1
    <3>. DEFINE d == D[j - (k + 1)]
                at == round[k].at
    <3>3. at < 2 * d /\ 2 * d <= Len(round[k].level) /\ d \in Nat /\ at \in Nat
      BY <2>1, <2>2, <3>1, <3>2
    <3>. HIDE DEF d, at
    <3>4. Sibling(at) < 2 * d /\ Sibling(at) \in Int
      BY <3>3 DEF Sibling
    <3>5. Sibling(at) < Len(round[k].level)
      BY <2>2, <3>3, <3>4
    <3>. QED  BY <3>5 DEF at
  <2>. QED  BY <2>3, <2>4
<1>. QED  BY <1>13 DEF HasPath, round, h

-----------------------------------------------------------------------------

NoDoubles(ps) == \A i, j \in 1..Len(ps) : ps[i] = ps[j] => i = j
Scored(ps, sc) == NoDoubles(ps) /\ sc = ComputeScore(ps, Root(ps))
Indexed(ix, ps) ==
    /\ DOMAIN ix = ToSet(ps)
    /\ \A id \in DOMAIN ix : ix[id] \in 0..(Len(ps) - 1) /\ ps[ix[id] + 1] = id

ReputationTypes ==
    /\ proofs \in [Nodes -> Seq(Ids)] /\ DOMAIN score = Nodes /\ DOMAIN index = Nodes
    /\ file = [proofs |-> file.proofs, score |-> file.score, parses |-> file.parses]
    /\ file.proofs \in [Nodes -> Seq(Ids)] /\ DOMAIN file.score = Nodes
    /\ file.parses \in BOOLEAN /\ onFile \in BOOLEAN /\ acked \subseteq Ids

\* The next start that reads the file finds the proof.
OnDisk(n, id) == file.parses /\ id \in ToSet(file.proofs[n])

\* What the store holds or ever returned for is on the file, or known not to be.
FileKeeps ==
    /\ \A n \in Nodes : \A id \in DOMAIN index[n] : id \in unwritten \/ OnDisk(n, id)
    /\ \A id \in acked \ lost : id \in unwritten \/ OnDisk(NodeOf[id], id)

ReputationInv ==
    /\ ReputationTypes
    /\ tree = proofs
    /\ \A n \in Nodes : Scored(proofs[n], score[n]) /\ Indexed(index[n], proofs[n])
    /\ \A n \in Nodes : Scored(file.proofs[n], file.score[n])
    /\ FileKeeps
    /\ RecordedSurvives

LEMMA EmptyStore ==
    /\ <<>> \in Seq(Ids) /\ Scored(<<>>, NoScore)
    /\ Indexed(IndexOf(<<>>), <<>>)
<1>1. Scored(<<>>, NoScore)
  BY DEF Scored, NoDoubles, ComputeScore
<1>2. ToSet(<<>>) = {}
  BY DEF ToSet
<1>3. Indexed(IndexOf(<<>>), <<>>)
  BY <1>2 DEF Indexed, IndexOf
<1>. QED  BY <1>1, <1>3

LEMMA ReputationInitInv == ReputationInit => ReputationInv
<1>. SUFFICES ASSUME ReputationInit PROVE ReputationInv
  OBVIOUS
<1>1. ReputationTypes
  BY EmptyStore DEF ReputationInit, ReputationTypes
<1>2. \A n \in Nodes : Scored(proofs[n], score[n]) /\ Indexed(index[n], proofs[n])
  BY EmptyStore DEF ReputationInit
<1>3. file.proofs = proofs /\ file.score = score
  BY DEF ReputationInit
<1>4. FileKeeps
  <2>1. DOMAIN IndexOf(<<>>) = {}
    BY EmptyStore DEF Indexed, ToSet
  <2>2. \A n \in Nodes : DOMAIN index[n] = {}
    BY <2>1 DEF ReputationInit
  <2>. QED  BY <2>2 DEF FileKeeps, ReputationInit
<1>. QED  BY <1>1, <1>2, <1>3, <1>4 DEF ReputationInit, ReputationInv, RecordedSurvives

\* A proof that is not there yet is put last.
LEMMA IndexGrows ==
    ASSUME NEW ps \in Seq(Ids), NoDoubles(ps), NEW ix, Indexed(ix, ps), NEW id \in Ids, id \notin DOMAIN ix,
           NEW jx, jx = [i \in DOMAIN ix \cup {id} |-> IF i = id THEN Len(ps) ELSE ix[i]]
    PROVE  NoDoubles(Append(ps, id)) /\ Indexed(jx, Append(ps, id)) /\ id \in DOMAIN jx /\ DOMAIN ix \subseteq DOMAIN jx
<1>. DEFINE qs == Append(ps, id)
<1>1. /\ Len(ps) \in Nat /\ DOMAIN ps = 1..Len(ps) /\ Len(qs) = Len(ps) + 1 /\ DOMAIN qs = 1..Len(qs)
      /\ qs[Len(ps) + 1] = id /\ \A i \in 1..Len(ps) : qs[i] = ps[i]
  OBVIOUS
<1>2. \A i \in 1..Len(ps) : ps[i] # id
  BY <1>1 DEF Indexed, ToSet
<1>. HIDE DEF qs
<1>3. NoDoubles(qs)
  <2>. SUFFICES ASSUME NEW i \in 1..Len(qs), NEW j \in 1..Len(qs), qs[i] = qs[j] PROVE i = j
    BY DEF NoDoubles
  <2>1. i = Len(ps) + 1 \/ i \in 1..Len(ps)
    BY <1>1
  <2>2. j = Len(ps) + 1 \/ j \in 1..Len(ps)
    BY <1>1
  <2>. QED  BY <1>1, <1>2, <2>1, <2>2 DEF NoDoubles
<1>4. ToSet(qs) = ToSet(ps) \cup {id}
  <2>1. \A i \in 1..Len(qs) : i = Len(ps) + 1 \/ i \in 1..Len(ps)
    BY <1>1
  <2>2. \A i \in 1..Len(ps) : i \in 1..Len(qs)
    BY <1>1
  <2>3. Len(ps) + 1 \in 1..Len(qs)
    BY <1>1
  <2>. QED  BY <1>1, <2>1, <2>2, <2>3 DEF ToSet
<1>5. Indexed(jx, qs)
  <2>1. DOMAIN jx = ToSet(qs)
    BY <1>4 DEF Indexed
  <2>2. ASSUME NEW x \in DOMAIN jx
        PROVE  jx[x] \in 0..(Len(qs) - 1) /\ qs[jx[x] + 1] = x
    <3>1. CASE x = id
      <4>1. jx[x] = Len(ps)
        BY <3>1
      <4>. QED  BY <1>1, <3>1, <4>1
    <3>2. CASE x # id
      <4>1. x \in DOMAIN ix /\ jx[x] = ix[x]
        BY <3>2
      <4>2. ix[x] \in 0..(Len(ps) - 1) /\ ps[ix[x] + 1] = x
        BY <4>1 DEF Indexed
      <4>3. ix[x] + 1 \in 1..Len(ps)
        BY <1>1, <4>2
      <4>. QED  BY <1>1, <4>1, <4>2, <4>3
    <3>. QED  BY <3>1, <3>2
  <2>. QED  BY <2>1, <2>2 DEF Indexed
<1>. QED  BY <1>3, <1>5 DEF qs

\* The index that is rebuilt from the file.
LEMMA IndexRebuilt ==
    ASSUME NEW ps \in Seq(Ids)
    PROVE  Indexed(IndexOf(ps), ps)
<1>1. DOMAIN IndexOf(ps) = ToSet(ps)
  BY DEF IndexOf
<1>2. ASSUME NEW id \in ToSet(ps)
      PROVE  IndexOf(ps)[id] \in 0..(Len(ps) - 1) /\ ps[IndexOf(ps)[id] + 1] = id
  <2>1. PICK j \in 1..Len(ps) : ps[j] = id
    BY DEF ToSet
  <2>2. j - 1 \in 0..(Len(ps) - 1) /\ ps[(j - 1) + 1] = id
    BY <2>1
  <2>3. IndexOf(ps)[id] = CHOOSE i \in 0..(Len(ps) - 1) : ps[i + 1] = id
    BY DEF IndexOf
  <2>. QED  BY <2>2, <2>3
<1>. QED  BY <1>1, <1>2 DEF Indexed

LEMMA RecordInv ==
    ASSUME ReputationInv, NEW c \in Recorders, NEW id \in Ids, NEW ok \in BOOLEAN, Record(c, id, ok)
    PROVE  ReputationInv'
<1>. DEFINE n == NodeOf[id]
<1>1. n \in Nodes
  BY ReputationAssumption
<1>2. /\ proofs \in [Nodes -> Seq(Ids)] /\ DOMAIN score = Nodes /\ DOMAIN index = Nodes /\ tree = proofs
      /\ acked \subseteq Ids /\ acked' = acked \cup {id} /\ lost' = lost \ {id} /\ onFile' = onFile
      /\ onFile \in BOOLEAN
  BY DEF ReputationInv, ReputationTypes, Record
<1>3. CASE id \in DOMAIN index[n]
  <2>1. UNCHANGED <<proofs, score, tree, index, file, unwritten>>
    BY <1>3 DEF Record
  <2>2. RecordedSurvives'
    BY <1>2, <1>3, <2>1 DEF ReputationInv, RecordedSurvives
  <2>3. FileKeeps'
    BY <1>1, <1>2, <1>3, <2>1 DEF ReputationInv, FileKeeps, OnDisk
  <2>. QED  BY <1>2, <2>1, <2>2, <2>3 DEF ReputationInv, ReputationTypes
<1>4. CASE id \notin DOMAIN index[n]
  <2>. DEFINE qs == Append(proofs[n], id)
              jx == [i \in DOMAIN index[n] \cup {id} |-> IF i = id THEN Len(proofs[n]) ELSE index[n][i]]
  <2>1. Insert(n, id) /\ Flush(id, ok)
    BY <1>4 DEF Record
  <2>2. /\ tree' = [proofs EXCEPT ![n] = qs] /\ proofs' = [proofs EXCEPT ![n] = qs]
        /\ index' = [index EXCEPT ![n] = jx]
        /\ score' = [score EXCEPT ![n] = ComputeScore(proofs'[n], Root(tree'[n]))]
    BY <1>2, <2>1 DEF Insert
  <2>3. proofs[n] \in Seq(Ids) /\ qs \in Seq(Ids)
    BY <1>1, <1>2
  <2>4. /\ NoDoubles(proofs[n]) /\ Indexed(index[n], proofs[n]) /\ id \notin DOMAIN index[n]
        /\ jx = [i \in DOMAIN index[n] \cup {id} |-> IF i = id THEN Len(proofs[n]) ELSE index[n][i]]
        /\ qs = Append(proofs[n], id)
    BY <1>1, <1>4 DEF ReputationInv, Scored
  <2>. HIDE DEF qs, jx, n
  <2>10. NoDoubles(Append(proofs[n], id)) /\ Indexed(jx, Append(proofs[n], id)) /\ id \in DOMAIN jx /\ DOMAIN index[n] \subseteq DOMAIN jx
    BY <2>3, <2>4, IndexGrows
  <2>11. NoDoubles(qs) /\ Indexed(jx, qs) /\ id \in DOMAIN jx /\ DOMAIN index[n] \subseteq DOMAIN jx
    BY <2>4, <2>10
  <2>5. /\ proofs'[n] = qs /\ tree' = proofs' /\ index'[n] = jx /\ score'[n] = ComputeScore(qs, Root(qs))
        /\ \A m \in Nodes \ {n} : proofs'[m] = proofs[m] /\ index'[m] = index[m] /\ score'[m] = score[m]
        /\ proofs' \in [Nodes -> Seq(Ids)] /\ DOMAIN score' = Nodes /\ DOMAIN index' = Nodes
    BY <1>1, <1>2, <2>2, <2>3
  <2>6. \A m \in Nodes : Scored(proofs'[m], score'[m]) /\ Indexed(index'[m], proofs'[m])
    BY <2>11, <2>5 DEF ReputationInv, Scored
  <2>7. \/ file' = file /\ unwritten' = unwritten \union {id}
        \/ file' = [proofs |-> proofs', score |-> score', parses |-> TRUE] /\ unwritten' = {} /\ onFile
    BY <2>1 DEF Flush
  <2>8. /\ file' = [proofs |-> file'.proofs, score |-> file'.score, parses |-> file'.parses]
        /\ file'.proofs \in [Nodes -> Seq(Ids)] /\ DOMAIN file'.score = Nodes /\ file'.parses \in BOOLEAN
        /\ \A m \in Nodes : Scored(file'.proofs[m], file'.score[m])
    <3>1. CASE file' = file
      BY <3>1 DEF ReputationInv, ReputationTypes
    <3>2. CASE file' = [proofs |-> proofs', score |-> score', parses |-> TRUE]
      <4>1. file'.proofs = proofs' /\ file'.score = score' /\ file'.parses = TRUE
        BY <3>2
      <4>. QED  BY <2>5, <2>6, <3>2, <4>1
    <3>. QED  BY <2>7, <3>1, <3>2
  <2>12. \A m \in Nodes : DOMAIN index[m] \subseteq DOMAIN index'[m]
    BY <2>11, <2>5
  <2>13. \A m \in Nodes : \A x \in DOMAIN index'[m] : x \in DOMAIN index[m] \/ x = id
    <3>1. DOMAIN jx = DOMAIN index[n] \cup {id}
      BY DEF jx
    <3>. QED  BY <2>5, <3>1
  <2>14. \A x \in acked' : NodeOf[x] \in Nodes
    BY <1>2, ReputationAssumption
  <2>15. id \in DOMAIN index'[NodeOf[id]]
    BY <2>11, <2>5 DEF n
  <2>9. RecordedSurvives'
    <3>. SUFFICES ASSUME NEW x \in acked' \ lost', x # id
                  PROVE  \/ x \in DOMAIN index'[NodeOf[x]]
                         \/ ~onFile' /\ x \in ToSet(file'.proofs[NodeOf[x]])
      BY <2>15 DEF RecordedSurvives
    <3>1. x \in acked \ lost /\ NodeOf[x] \in Nodes
      BY <1>2, <2>14
    <3>2. \/ x \in DOMAIN index[NodeOf[x]]
          \/ ~onFile /\ x \in ToSet(file.proofs[NodeOf[x]])
      BY <3>1 DEF ReputationInv, RecordedSurvives
    <3>. QED  BY <1>2, <2>7, <2>12, <3>1, <3>2
  <2>16. FileKeeps'
    <3>1. CASE file' = file /\ unwritten' = unwritten \union {id}
      <4>1. \A m \in Nodes : \A x \in DOMAIN index'[m] : x \in unwritten' \/ OnDisk(m, x)'
        BY <2>13, <3>1 DEF ReputationInv, FileKeeps, OnDisk
      <4>2. \A x \in acked' \ lost' : x \in unwritten' \/ OnDisk(NodeOf[x], x)'
        BY <1>2, <3>1 DEF ReputationInv, FileKeeps, OnDisk
      <4>. QED  BY <4>1, <4>2 DEF FileKeeps
    <3>2. CASE file' = [proofs |-> proofs', score |-> score', parses |-> TRUE] /\ unwritten' = {} /\ onFile
      <4>1. file'.proofs = proofs' /\ file'.parses
        BY <3>2
      <4>2. \A m \in Nodes : DOMAIN index'[m] = ToSet(proofs'[m])
        BY <2>6 DEF Indexed
      <4>3. \A x \in acked' \ lost' : x \in DOMAIN index'[NodeOf[x]]
        BY <1>2, <2>9, <3>2 DEF RecordedSurvives
      <4>. QED  BY <2>14, <4>1, <4>2, <4>3 DEF FileKeeps, OnDisk
    <3>. QED  BY <2>7, <3>1, <3>2
  <2>. QED  BY <1>2, <2>5, <2>6, <2>8, <2>9, <2>16 DEF ReputationInv, ReputationTypes
<1>. QED  BY <1>3, <1>4

\* A new process finds what the file holds, if it parses and can be read.
LEMMA RestartInv ==
    ASSUME ReputationInv, NEW damaged \in BOOLEAN, NEW readable \in BOOLEAN, Restart(damaged, readable)
    PROVE  ReputationInv'
<1>. DEFINE stored == [file EXCEPT !.parses = @ /\ ~damaged]
            data == IF readable THEN FromFile(stored) ELSE Nothing
<1>1. /\ file' = stored /\ onFile' = readable /\ proofs' = data.proofs /\ score' = data.score /\ tree' = proofs'
      /\ index' = [n \in Nodes |-> IndexOf(proofs'[n])]
      /\ lost' = lost \union (IF damaged THEN acked ELSE unwritten) /\ unwritten' = {} /\ acked' = acked
  BY DEF Restart, Load
<1>2. /\ stored = [proofs |-> file.proofs, score |-> file.score, parses |-> file.parses /\ ~damaged]
      /\ stored.proofs = file.proofs /\ stored.score = file.score /\ stored.parses = (file.parses /\ ~damaged)
      /\ file.proofs \in [Nodes -> Seq(Ids)] /\ DOMAIN file.score = Nodes /\ file.parses \in BOOLEAN
  BY DEF ReputationInv, ReputationTypes
<1>3. \/ data.proofs = file.proofs /\ data.score = file.score /\ readable /\ stored.parses
      \/ /\ data.proofs = [n \in Nodes |-> <<>>] /\ data.score = [n \in Nodes |-> NoScore]
         /\ ~(readable /\ stored.parses)
  BY <1>2 DEF FromFile, Nothing
<1>. HIDE DEF stored, data
<1>4. /\ proofs' \in [Nodes -> Seq(Ids)] /\ DOMAIN score' = Nodes /\ DOMAIN index' = Nodes
      /\ \A n \in Nodes : Scored(proofs'[n], score'[n])
  <2>1. CASE data.proofs = file.proofs /\ data.score = file.score
    BY <1>1, <1>2, <2>1 DEF ReputationInv
  <2>2. CASE data.proofs = [n \in Nodes |-> <<>>] /\ data.score = [n \in Nodes |-> NoScore]
    BY <1>1, <2>2, EmptyStore
  <2>. QED  BY <1>3, <2>1, <2>2
<1>5. \A n \in Nodes : Indexed(index'[n], proofs'[n])
  BY <1>1, <1>4, IndexRebuilt
<1>6. \A n \in Nodes : DOMAIN index'[n] = ToSet(proofs'[n])
  BY <1>5 DEF Indexed
<1>7. ASSUME NEW x \in acked' \ lost'
      PROVE  NodeOf[x] \in Nodes /\ OnDisk(NodeOf[x], x)'
  <2>1. ~damaged /\ x \in acked \ lost /\ x \notin unwritten /\ NodeOf[x] \in Nodes
    BY <1>1, <1>7, ReputationAssumption DEF ReputationInv, ReputationTypes
  <2>2. OnDisk(NodeOf[x], x)
    BY <2>1 DEF ReputationInv, FileKeeps
  <2>. QED  BY <1>1, <1>2, <2>1, <2>2 DEF OnDisk
<1>8. FileKeeps'
  <2>1. ASSUME NEW n \in Nodes, NEW x \in DOMAIN index'[n]
        PROVE  OnDisk(n, x)'
    <3>1. x \in ToSet(proofs'[n])
      BY <1>6, <2>1
    <3>2. CASE data.proofs = file.proofs /\ stored.parses
      BY <1>1, <1>2, <3>1, <3>2 DEF OnDisk
    <3>3. CASE data.proofs = [m \in Nodes |-> <<>>]
      <4>1. proofs'[n] = <<>>
        BY <1>1, <3>3
      <4>. QED  BY <3>1, <4>1 DEF ToSet
    <3>. QED  BY <1>3, <3>2, <3>3
  <2>. QED  BY <1>7, <2>1 DEF FileKeeps
<1>9. RecordedSurvives'
  <2>. SUFFICES ASSUME NEW x \in acked' \ lost'
                PROVE  \/ x \in DOMAIN index'[NodeOf[x]]
                       \/ ~onFile' /\ x \in ToSet(file'.proofs[NodeOf[x]])
    BY DEF RecordedSurvives
  <2>1. file'.parses /\ x \in ToSet(file'.proofs[NodeOf[x]]) /\ NodeOf[x] \in Nodes
    BY <1>7 DEF OnDisk
  <2>. QED  BY <1>1, <1>2, <1>3, <1>6, <2>1
<1>10. /\ \A n \in Nodes : Scored(file'.proofs[n], file'.score[n])
       /\ file' = [proofs |-> file'.proofs, score |-> file'.score, parses |-> file'.parses]
       /\ file'.proofs \in [Nodes -> Seq(Ids)] /\ DOMAIN file'.score = Nodes /\ file'.parses \in BOOLEAN
  BY <1>1, <1>2 DEF ReputationInv
<1>11. acked' \subseteq Ids
  BY <1>1 DEF ReputationInv, ReputationTypes
<1>. QED  BY <1>1, <1>4, <1>5, <1>8, <1>9, <1>10, <1>11 DEF ReputationInv, ReputationTypes

LEMMA ReputationStep == ReputationInv /\ [ReputationNext]_reputationVars => ReputationInv'
<1>. SUFFICES ASSUME ReputationInv, [ReputationNext]_reputationVars PROVE ReputationInv'
  OBVIOUS
<1>1. ASSUME NEW c \in Recorders, NEW id \in Ids, NEW ok \in BOOLEAN, Record(c, id, ok)
      PROVE  ReputationInv'
  BY <1>1, RecordInv
<1>2. ASSUME NEW damaged \in BOOLEAN, NEW readable \in BOOLEAN, Restart(damaged, readable)
      PROVE  ReputationInv'
  BY <1>2, RestartInv
<1>3. CASE (\E c \in Recorders : ReadRoot(c) \/ OfferRoot(c)) \/ Forward \/ UNCHANGED reputationVars
  <2>1. UNCHANGED <<proofs, score, tree, index, file, onFile, acked, unwritten, lost>>
    BY <1>3 DEF ReadRoot, OfferRoot, Forward, reputationVars
  <2>. QED  BY <2>1 DEF ReputationInv, ReputationTypes, RecordedSurvives, FileKeeps, OnDisk
<1>. QED  BY <1>1, <1>2, <1>3 DEF ReputationNext

LEMMA ScoreCounts ==
    ASSUME ReputationInv
    PROVE  ScoreIsOfTheTree
<1>. SUFFICES ASSUME NEW n \in Nodes
              PROVE  /\ score[n].jobs = Cardinality(DOMAIN index[n]) /\ score[n].root = Root(tree[n])
                     /\ score[n].verified = Cardinality({id \in Signed : id \in DOMAIN index[n]})
  BY DEF ScoreIsOfTheTree
<1>. DEFINE ps == proofs[n]
<1>1. /\ ps \in Seq(Ids) /\ tree[n] = ps /\ NoDoubles(ps) /\ score[n] = ComputeScore(ps, Root(ps))
      /\ DOMAIN index[n] = ToSet(ps)
  BY DEF ReputationInv, ReputationTypes, Scored, Indexed
<1>. HIDE DEF ps
<1>2. Cardinality(ToSet(ps)) = Len(ps)
  <2>1. Len(ps) \in Nat /\ DOMAIN ps = 1..Len(ps)
    BY <1>1
  <2>2. ps \in Bijection(1..Len(ps), ToSet(ps))
    <3>1. ps \in [1..Len(ps) -> ToSet(ps)]
      BY <1>1, <2>1 DEF ToSet
    <3>2. \A a, b \in 1..Len(ps) : ps[a] = ps[b] => a = b
      BY <1>1 DEF NoDoubles
    <3>3. \A t \in ToSet(ps) : \E s \in 1..Len(ps) : ps[s] = t
      BY <2>1 DEF ToSet
    <3>. QED  BY <3>1, <3>2, <3>3 DEF Bijection, Injection, IsInjective, Surjection
  <2>3. ExistsBijection(1..Len(ps), ToSet(ps))
    BY <2>2 DEF ExistsBijection
  <2>. QED  BY <2>1, <2>3, FS_CountingElements
<1>3. ToSet(ps) \intersect Signed = {id \in Signed : id \in DOMAIN index[n]}
  BY <1>1
<1>4. CASE ps = <<>>
  <2>1. ToSet(ps) = {}
    BY <1>4 DEF ToSet
  <2>2. Cardinality({}) = 0
    BY FS_EmptySet
  <2>3. {id \in Signed : id \in DOMAIN index[n]} = {}
    BY <1>1, <2>1
  <2>4. score[n] = NoScore /\ Root(ps) = ZeroRoot
    BY <1>1, <1>4 DEF ComputeScore, Root
  <2>5. score[n].jobs = 0 /\ score[n].verified = 0 /\ score[n].root = ZeroRoot
    BY <2>4 DEF NoScore
  <2>6. DOMAIN index[n] = {} /\ Root(tree[n]) = ZeroRoot
    BY <1>1, <2>1, <2>4
  <2>. QED  BY <2>2, <2>3, <2>5, <2>6
<1>5. CASE ps # <<>>
  <2>1. score[n] = [jobs |-> Len(ps), verified |-> Cardinality(ToSet(ps) \intersect Signed), root |-> Root(ps)]
    BY <1>1, <1>5 DEF ComputeScore
  <2>2. score[n].jobs = Len(ps) /\ score[n].verified = Cardinality(ToSet(ps) \intersect Signed) /\ score[n].root = Root(ps)
    BY <2>1
  <2>3. Cardinality(DOMAIN index[n]) = Len(ps) /\ Root(tree[n]) = Root(ps)
    BY <1>1, <1>2
  <2>. QED  BY <1>3, <2>2, <2>3
<1>. QED  BY <1>4, <1>5

LEMMA PathsLeadUp ==
    ASSUME ReputationInv
    PROVE  PathsVerify
<1>. DEFINE ps == tree[Self]
<1>1. ps \in Seq(Ids) /\ Indexed(index[Self], ps)
  BY ReputationAssumption DEF ReputationInv, ReputationTypes
<1>. HIDE DEF ps
<1>. SUFFICES ASSUME NEW id \in DOMAIN index[Self], Len(ps) > 1
              PROVE  /\ (\E k \in 1..Len(ps) : /\ index[Self][id] < Doubled(Len(ps))[k]
                                               /\ Doubled(Len(ps))[k] <= Len(ps)) => HasProof(id)
                     /\ HasProof(id) =>
                           \A other \in Ids : VerifyProof(other, MerkleProof(id), Root(ps)) <=> other = id
  BY DEF PathsVerify, ps
<1>. DEFINE i == index[Self][id]
<1>2. i \in Nat /\ i < Len(ps) /\ ps[i + 1] = id /\ IsLevel(ps)
  BY <1>1 DEF Indexed, IsLevel
<1>3. HasProof(id) <=> HasPath(ps, i)
  BY DEF HasProof, ps
<1>4. MerkleProof(id) = Path(ps, i)
  BY DEF MerkleProof, ps
<1>. HIDE DEF i
<1>5. ASSUME NEW k \in 1..Len(ps), i < Doubled(Len(ps))[k], Doubled(Len(ps))[k] <= Len(ps)
      PROVE  HasProof(id)
  BY <1>2, <1>3, <1>5, FullTreeHasPath
<1>6. ASSUME HasProof(id), NEW other \in Ids
      PROVE  VerifyProof(other, MerkleProof(id), Root(ps)) <=> other = id
  <2>1. /\ Len(Path(ps, i)) \in Nat
        /\ Hashes(id, Path(ps, i))[Len(Path(ps, i))] = Root(ps)
    BY <1>2, <1>3, <1>6, PathLeadsUp
  <2>2. Hashes(other, Path(ps, i))[Len(Path(ps, i))] = Root(ps) => other = id
    BY <2>1, HashesTell
  <2>. QED  BY <1>4, <2>1, <2>2 DEF VerifyProof
<1>. QED  BY <1>5, <1>6 DEF i

\* What its callers have recorded, the store can prove, for any tasks, proofs, failing flushes,
\* damaged or unreadable files and restarts.  In a tree of two leaves or more each leaf of the
\* first full subtree has a path, and a path that there is verifies its own proof and no other
\* against the root.  A proof whose recording returned is missing only if a restart came before
\* a flush had written it or the file was damaged, or, as long as the store runs without the
\* file it could not read, if it is there for the next start.  And the score is of the tree
\* (merkle.rs:61-109, local.rs:101-254, daemon.rs:163-173).
THEOREM RecordedProofsAreKept == ReputationSpec => []ProofsAreKept
<1>1. ReputationSpec => []ReputationInv
  BY ReputationInitInv, ReputationStep, PTL DEF ReputationSpec
<1>2. ReputationInv => ProofsAreKept
  BY ScoreCounts, PathsLeadUp DEF ReputationInv, ProofsAreKept
<1>. QED  BY <1>1, <1>2, PTL

-----------------------------------------------------------------------------
(* InferenceStream: what the model is asked                                *)

KeptRound(ms, places, kept, i) ==
    IF i = 0 THEN <<>>
    ELSE IF i \in places THEN Append(kept[i - 1], ms[i]) ELSE kept[i - 1]

LEMMA KeptExists ==
    ASSUME NEW ms, NEW places, NEW n \in Nat
    PROVE  \E kept : kept = [i \in 0..n |-> KeptRound(ms, places, kept, i)]
<1>. DEFINE Built(m) == \E kept : kept = [i \in 0..m |-> KeptRound(ms, places, kept, i)]
            T == {m \in Nat : Built(m)}
<1>1. 0 \in T
  <2>. DEFINE kept == [i \in 0..0 |-> <<>>]
  <2>1. \A i \in 0..0 : KeptRound(ms, places, kept, i) = <<>>
    BY DEF KeptRound
  <2>2. kept = [i \in 0..0 |-> KeptRound(ms, places, kept, i)]
    BY <2>1
  <2>. QED  BY <2>2
<1>2. ASSUME NEW m \in Nat, m \in T
      PROVE  m + 1 \in T
  <2>1. PICK old : old = [i \in 0..m |-> KeptRound(ms, places, old, i)]
    BY <1>2
  <2>. DEFINE kept == [i \in 0..(m + 1) |-> IF i = m + 1 THEN KeptRound(ms, places, old, i) ELSE old[i]]
  <2>2. \A i \in 0..m : kept[i] = old[i] /\ old[i] = KeptRound(ms, places, old, i)
    BY <2>1
  <2>3. \A i \in 0..(m + 1) : i = 0 \/ i - 1 \in 0..m
    OBVIOUS
  <2>4. \A i \in 0..(m + 1) : kept[i] = KeptRound(ms, places, old, i)
    <3>1. \A i \in 0..(m + 1) : i = m + 1 \/ i \in 0..m
      OBVIOUS
    <3>. QED  BY <2>2, <3>1
  <2>5. kept = [i \in 0..(m + 1) |-> kept[i]]
    OBVIOUS
  <2>. HIDE DEF kept
  <2>6. \A i \in 0..(m + 1) : KeptRound(ms, places, kept, i) = KeptRound(ms, places, old, i)
    BY <2>2, <2>3 DEF KeptRound
  <2>7. kept = [i \in 0..(m + 1) |-> KeptRound(ms, places, kept, i)]
    BY <2>4, <2>5, <2>6
  <2>. QED  BY <2>7
<1>. HIDE DEF T
<1>3. n \in T
  BY <1>1, <1>2, SetInduction
<1>. QED  BY <1>3 DEF T

\* Where the messages that are kept come from: place is increasing and reaches every place given.
Enumerates(place, places, ms, kept) ==
    /\ kept = [k \in 1..Len(kept) |-> ms[place[k]]]
    /\ \A k \in 1..Len(kept) : place[k] \in places
    /\ \A k, l \in 1..Len(kept) : k < l => place[k] < place[l]
    /\ \A i \in places : \E k \in 1..Len(kept) : place[k] = i

LEMMA KeptFields ==
    ASSUME NEW S, NEW ms \in Seq(S), NEW places, places \subseteq 1..Len(ms)
    PROVE  Kept(ms, places) \in Seq(S) /\ \E place : Enumerates(place, places, ms, Kept(ms, places))
<1>. DEFINE F == CHOOSE kept : kept = [i \in 0..Len(ms) |-> KeptRound(ms, places, kept, i)]
<1>1. Len(ms) \in Nat
  OBVIOUS
<1>2. F = [i \in 0..Len(ms) |-> KeptRound(ms, places, F, i)]
  BY <1>1, KeptExists
<1>3. Kept(ms, places) = F[Len(ms)]
  BY DEF Kept, KeptRound
<1>. HIDE DEF F
<1>4. \A i \in 0..Len(ms) : F[i] = KeptRound(ms, places, F, i)
  BY <1>2
<1>. DEFINE Upto(i) == {p \in places : p <= i}
            Good(i) == F[i] \in Seq(S) /\ \E place : Enumerates(place, Upto(i), ms, F[i])
            T == {i \in Nat : i <= Len(ms) => Good(i)}
<1>10. \A p \in places : p \in Nat /\ 1 <= p /\ p <= Len(ms)
  BY <1>1
<1>5. 0 \in T
  <2>1. F[0] = <<>>
    BY <1>1, <1>4 DEF KeptRound
  <2>5. \A p \in places : ~(p <= 0)
    BY <1>10
  <2>2. Upto(0) = {}
    BY <2>5
  <2>3. Enumerates(<<>>, {}, ms, <<>>)
    BY DEF Enumerates
  <2>6. F[0] \in Seq(S)
    BY <2>1
  <2>7. Enumerates(<<>>, Upto(0), ms, F[0])
    BY <2>1, <2>2, <2>3
  <2>. HIDE DEF Upto
  <2>4. Good(0)
    BY <2>6, <2>7
  <2>. HIDE DEF Good
  <2>. QED  BY <2>4
<1>6. ASSUME NEW i \in Nat, i \in T
      PROVE  i + 1 \in T
  <2>. HIDE DEF Good
  <2>. SUFFICES ASSUME i + 1 <= Len(ms) PROVE Good(i + 1)
    OBVIOUS
  <2>1. Good(i)
    BY <1>1, <1>6
  <2>. USE DEF Good
  <2>2. PICK place : Enumerates(place, Upto(i), ms, F[i])
    BY <2>1
  <2>3. F[i] \in Seq(S) /\ Len(F[i]) \in Nat
    BY <2>1
  <2>4. F[i + 1] = IF i + 1 \in places THEN Append(F[i], ms[i + 1]) ELSE F[i]
    <3>1. i + 1 \in 0..Len(ms) /\ i + 1 # 0 /\ (i + 1) - 1 = i
      BY <1>1
    <3>. QED  BY <1>4, <3>1 DEF KeptRound
  <2>5. CASE i + 1 \notin places
    <3>1. \A p \in places : p <= i + 1 <=> p <= i
      BY <1>10, <2>5
    <3>2. Upto(i + 1) = Upto(i)
      BY <3>1
    <3>. QED  BY <2>1, <2>4, <2>5, <3>2
  <2>6. CASE i + 1 \in places
    <3>. DEFINE old == F[i]
                new == Append(old, ms[i + 1])
                there == [k \in 1..(Len(old) + 1) |-> IF k = Len(old) + 1 THEN i + 1 ELSE place[k]]
    <3>1. F[i + 1] = new /\ old \in Seq(S) /\ Len(old) \in Nat /\ ms[i + 1] \in S
      BY <1>1, <2>3, <2>4, <2>6
    <3>2. Enumerates(place, Upto(i), ms, old)
      BY <2>2
    <3>. HIDE DEF old
    <3>3. new \in Seq(S) /\ Len(new) = Len(old) + 1 /\ \A k \in 1..(Len(old) + 1) : k # Len(old) + 1 => new[k] = old[k]
      BY <3>1
    <3>4. new[Len(old) + 1] = ms[i + 1] /\ new = [k \in 1..(Len(old) + 1) |-> new[k]]
      BY <3>1
    <3>5. \A k \in 1..(Len(old) + 1) : k # Len(old) + 1 => k \in 1..Len(old) /\ there[k] = place[k]
      BY <3>1
    <3>6. there[Len(old) + 1] = i + 1 /\ Len(old) + 1 \in 1..(Len(old) + 1)
      BY <3>1
    <3>. HIDE DEF new, there
    <3>7. \A k \in 1..Len(old) : place[k] \in Upto(i) /\ old[k] = ms[place[k]]
      BY <3>2 DEF Enumerates
    <3>8. \A k \in 1..(Len(old) + 1) : there[k] \in Upto(i + 1) /\ new[k] = ms[there[k]]
      BY <2>6, <3>3, <3>4, <3>5, <3>6, <3>7
    <3>9. new = [k \in 1..Len(new) |-> ms[there[k]]]
      BY <3>3, <3>4, <3>8
    <3>10. ASSUME NEW k \in 1..Len(new), NEW l \in 1..Len(new), k < l
           PROVE  there[k] < there[l]
      <4>1. k # Len(old) + 1 /\ k \in 1..Len(old) /\ place[k] \in Upto(i) /\ there[k] = place[k]
        BY <3>1, <3>3, <3>5, <3>7, <3>10
      <4>2. place[k] \in Nat /\ place[k] <= i
        BY <1>10, <4>1
      <4>3. CASE l = Len(old) + 1
        BY <3>6, <4>1, <4>2, <4>3
      <4>4. CASE l # Len(old) + 1
        BY <3>2, <3>3, <3>5, <3>10, <4>1, <4>4 DEF Enumerates
      <4>. QED  BY <4>3, <4>4
    <3>11. ASSUME NEW p \in Upto(i + 1)
           PROVE  \E k \in 1..Len(new) : there[k] = p
      <4>1. CASE p = i + 1
        BY <3>3, <3>6, <4>1
      <4>2. CASE p # i + 1
        <5>1. p \in Upto(i)
          BY <4>2
        <5>2. PICK k \in 1..Len(old) : place[k] = p
          BY <3>2, <5>1 DEF Enumerates
        <5>3. k \in 1..(Len(old) + 1) /\ k # Len(old) + 1
          BY <3>1
        <5>. QED  BY <3>3, <3>5, <5>2, <5>3
      <4>. QED  BY <4>1, <4>2
    <3>12. \A k \in 1..Len(new) : there[k] \in Upto(i + 1)
      BY <3>3, <3>8
    <3>. HIDE DEF Upto
    <3>13. Enumerates(there, Upto(i + 1), ms, new)
      BY <3>9, <3>10, <3>11, <3>12 DEF Enumerates
    <3>. QED  BY <3>1, <3>3, <3>13
  <2>. QED  BY <2>5, <2>6
<1>. HIDE DEF T
<1>7. Len(ms) \in T
  BY <1>1, <1>5, <1>6, SetInduction
<1>8. Upto(Len(ms)) = places
  BY <1>1, <1>10
<1>. HIDE DEF Good
<1>9. Good(Len(ms))
  BY <1>1, <1>7 DEF T
<1>. USE DEF Good
<1>. QED  BY <1>3, <1>8, <1>9

\* Texts of one piece each, one after another.
LEMMA FlattenPieces ==
    ASSUME NEW n \in Nat, NEW piece
    PROVE  FlattenSeq([i \in 1..n |-> <<piece[i]>>]) = [i \in 1..n |-> piece[i]]
<1>. DEFINE seqs == [i \in 1..n |-> <<piece[i]>>]
            TheRound(f, i) == IF i = 1 THEN seqs[i] ELSE f[i - 1] \o seqs[i]
            F == CHOOSE f : f = [i \in 1..n |-> TheRound(f, i)]
            Head1(i) == [k \in 1..i |-> piece[k]]
<1>1. Len(seqs) = n
  OBVIOUS
<1>2. CASE n = 0
  <2>1. seqs = <<>> /\ [i \in 1..n |-> piece[i]] = <<>>
    BY <1>2
  <2>. QED  BY <1>1, <1>2, <2>1 DEF FlattenSeq
<1>3. CASE n # 0
  <2>. DEFINE g == [i \in 1..n |-> Head1(i)]
  <2>1. ASSUME NEW i \in 1..n
        PROVE  g[i] = TheRound(g, i)
    <3>1. CASE i = 1
      BY <3>1
    <3>2. CASE i # 1
      <4>1. i - 1 \in 1..n /\ i - 1 \in Nat
        BY <3>2
      <4>2. g[i - 1] = Head1(i - 1) /\ g[i] = Head1(i)
        BY <4>1
      <4>3. Head1(i) = Head1(i - 1) \o <<piece[i]>>
        BY <4>1
      <4>. QED  BY <3>2, <4>2, <4>3
    <3>. QED  BY <3>1, <3>2
  <2>2. g = [i \in 1..n |-> TheRound(g, i)]
    BY <2>1
  <2>3. \E f : f = [i \in 1..n |-> TheRound(f, i)]
    BY <2>2
  <2>4. F = [i \in 1..n |-> TheRound(F, i)]
    BY <2>3
  <2>5. FlattenSeq(seqs) = F[n]
    BY <1>1, <1>3 DEF FlattenSeq
  <2>. HIDE DEF F
  <2>. DEFINE T == {i \in Nat : i + 1 <= n => F[i + 1] = Head1(i + 1)}
  <2>6. 0 \in T
    <3>1. 1 \in 1..n
      BY <1>3
    <3>2. F[1] = TheRound(F, 1)
      BY <2>4, <3>1
    <3>. QED  BY <3>1, <3>2
  <2>7. ASSUME NEW i \in Nat, i \in T
        PROVE  i + 1 \in T
    <3>. SUFFICES ASSUME (i + 1) + 1 <= n PROVE F[(i + 1) + 1] = Head1((i + 1) + 1)
      OBVIOUS
    <3>. DEFINE j == (i + 1) + 1
    <3>1. j \in 1..n /\ j # 1 /\ j - 1 = i + 1 /\ j - 1 \in 1..n /\ j \in Nat
      OBVIOUS
    <3>2. F[j - 1] = Head1(j - 1)
      BY <2>7, <3>1
    <3>. HIDE DEF j
    <3>3. F[j] = F[j - 1] \o <<piece[j]>>
      BY <2>4, <3>1
    <3>4. Head1(j) = Head1(j - 1) \o <<piece[j]>>
      BY <3>1
    <3>5. F[j] = Head1(j)
      BY <3>2, <3>3, <3>4
    <3>. QED  BY <3>5 DEF j
  <2>. HIDE DEF T
  <2>8. n - 1 \in T
    BY <1>3, <2>6, <2>7, SetInduction
  <2>9. F[n] = Head1(n)
    BY <1>3, <2>8 DEF T
  <2>. QED  BY <2>5, <2>9
<1>. QED  BY <1>2, <1>3

Msg == [role : Roles, text : Seq(Nat), bytes : Nat]
Talk == [role : Roles, text : Seq(Nat)]

LEMMA Listed ==
    ASSUME NEW S, NEW n \in Nat, NEW q, \A k \in 1..n : q[k] \in S, NEW l, l = [i \in 1..n |-> q[i]]
    PROVE  l \in Seq(S) /\ Len(l) = n /\ DOMAIN l = 1..n /\ \A k \in 1..n : l[k] = q[k]
OBVIOUS

\* Fits, for any messages.
FitsIn(ms, i) ==
    \/ MaxContextTokens = 0
    \/ SystemTokens(ms) + SumOver(Shares(ms), {j \in i..Len(ms) - 1 : NotSystem(ms[j])}) <= MaxContextTokens

\* A prompt P of s system messages, what is left of m turns when d do not fit, and the prompt.
PromptOf(P, ms, place, m, d, s) ==
    /\ m \in Nat /\ d \in 0..m /\ s \in {0, 1}
    /\ \A k \in 1..m : k > d <=> FitsIn(ms, place[k])
    /\ DOMAIN P = 1..(s + (m - d) + 1)
    /\ \A k \in 1..m : place[k] \in {i \in 1..Len(ms) - 1 : NotSystem(ms[i])}
    /\ \A k, l \in 1..m : k < l => place[k] < place[l]
    /\ \A i \in {i \in 1..Len(ms) - 1 : NotSystem(ms[i])} : \E k \in 1..m : place[k] = i
    /\ P[s + (m - d) + 1].text = <<Len(ms)>> /\ P[s + (m - d) + 1].role = "user"
    /\ \A k \in (d + 1)..m :
          P[s + (k - d)].text = <<place[k]>> /\ P[s + (k - d)].role = Spoken(ms[place[k]]).role
    /\ s = 1 => ToSet(P[1].text) = {i \in DOMAIN ms : IsSystem(ms[i])} /\ P[1].role = "system"
    /\ {i \in DOMAIN ms : IsSystem(ms[i])} # {} => s = 1

LEMMA SpokenFields ==
    ASSUME NEW m \in Msg
    PROVE  Spoken(m) \in Talk /\ Spoken(m).text = m.text
<1>. DEFINE r == IF m.role \in {"assistant", "system"} THEN m.role ELSE "user"
<1>1. m.role \in Roles /\ m.text \in Seq(Nat)
  BY DEF Msg
<1>2. r \in Roles
  BY <1>1 DEF Roles
<1>3. Spoken(m) = [role |-> r, text |-> m.text]
  BY DEF Spoken, Say
<1>. HIDE DEF r
<1>. QED  BY <1>1, <1>2, <1>3 DEF Talk

LEMMA SaidFields ==
    ASSUME NEW role \in Roles, NEW text \in Seq(Nat)
    PROVE  Say(role, text) \in Talk /\ Say(role, text).text = text /\ Say(role, text).role = role
BY DEF Talk, Say

LEMMA LaterOnes ==
    ASSUME NEW S, NEW ms \in Seq(S), NEW d \in 0..Len(ms)
    PROVE  /\ SubSeq(ms, d + 1, Len(ms)) \in Seq(S)
           /\ Len(SubSeq(ms, d + 1, Len(ms))) = Len(ms) - d
           /\ \A j \in 1..(Len(ms) - d) : SubSeq(ms, d + 1, Len(ms))[j] = ms[d + j]
<1>1. Len(ms) \in Nat /\ d \in Nat /\ d + 1 \in Int /\ d <= Len(ms)
  OBVIOUS
<1>2. \A i \in (d + 1)..Len(ms) : ms[i] \in S
  BY <1>1
<1>3. /\ SubSeq(ms, d + 1, Len(ms)) \in Seq(S)
      /\ Len(SubSeq(ms, d + 1, Len(ms))) = IF d + 1 <= Len(ms) THEN Len(ms) - (d + 1) + 1 ELSE 0
      /\ \A i \in 1..(Len(ms) - (d + 1) + 1) : SubSeq(ms, d + 1, Len(ms))[i] = ms[(d + 1) + i - 1]
  BY <1>1, <1>2, SubSeqProperties
<1>4. (IF d + 1 <= Len(ms) THEN Len(ms) - (d + 1) + 1 ELSE 0) = Len(ms) - d
  BY <1>1
<1>5. ASSUME NEW j \in 1..(Len(ms) - d)
      PROVE  SubSeq(ms, d + 1, Len(ms))[j] = ms[d + j]
  <2>1. j \in 1..(Len(ms) - (d + 1) + 1) /\ (d + 1) + j - 1 = d + j
    BY <1>1
  <2>. QED  BY <1>3, <2>1
<1>. QED  BY <1>3, <1>4, <1>5

LEMMA SystemTokensType ==
    ASSUME NEW ms \in Seq(Msg)
    PROVE  SystemTokens(ms) \in Nat
<1>. DEFINE at == SystemPlaces(ms)
            f == [i \in DOMAIN ms |-> ms[i].bytes]
<1>1. DOMAIN ms = 1..Len(ms) /\ Len(ms) \in Nat /\ at \subseteq DOMAIN ms
  BY DEF SystemPlaces
<1>2. IsFiniteSet(at)
  <2>1. IsFiniteSet(1..Len(ms))
    BY <1>1, FS_Interval
  <2>. QED  BY <1>1, <2>1, FS_Subset
<1>3. \A i \in DOMAIN ms : f[i] \in Nat
  <2>1. \A i \in DOMAIN ms : ms[i] \in Msg
    BY <1>1
  <2>2. \A x \in Msg : x.bytes \in Nat
    BY DEF Msg
  <2>. QED  BY <2>1, <2>2
<1>. HIDE DEF f, at
<1>4. SumOver(f, at) \in Nat
  BY <1>1, <1>2, <1>3, SumType DEF Amounting
<1>5. Cardinality(at) \in Nat /\ (at # {} => Cardinality(at) # 0)
  BY <1>2, FS_CardinalityType, FS_EmptySet
<1>6. SystemTokens(ms) = IF at = {} THEN 0 ELSE EstimateTokens(SumOver(f, at) + Cardinality(at) - 1)
  BY DEF SystemTokens, at, f
<1>7. CASE at = {}
  BY <1>6, <1>7
<1>8. CASE at # {}
  <2>1. SumOver(f, at) + Cardinality(at) - 1 \in Nat
    BY <1>4, <1>5, <1>8
  <2>2. \A b \in Nat : EstimateTokens(b) \in Nat
    BY DEF EstimateTokens
  <2>. QED  BY <1>6, <1>8, <2>1, <2>2
<1>. QED  BY <1>7, <1>8

\* The messages from the k-th kept on fit the room that is left when they fit with the system prompt.
LEMMA KeptFit ==
    ASSUME NEW ms \in Seq(Msg), MaxContextTokens \in Nat,
           NEW earlier \in Seq(Msg), NEW place,
           Enumerates(place, {i \in 1..Len(ms) - 1 : NotSystem(ms[i])}, ms, earlier)
    PROVE  /\ KeepFrom(earlier, Room(ms)) \in 1..(Len(earlier) + 1)
           /\ \A k \in 1..Len(earlier) : k >= KeepFrom(earlier, Room(ms)) <=> FitsIn(ms, place[k])
<1>. DEFINE turns == {i \in 1..Len(ms) - 1 : NotSystem(ms[i])}
            m == Len(earlier)
            costs == Shares(earlier)
            f == Shares(ms)
            after(i) == {j \in i..Len(ms) - 1 : NotSystem(ms[j])}
            room == Room(ms)
<1>1. Len(ms) \in Nat /\ DOMAIN ms = 1..Len(ms) /\ m \in Nat /\ DOMAIN earlier = 1..m
  OBVIOUS
<1>2. /\ \A k \in 1..m : place[k] \in turns /\ earlier[k] = ms[place[k]]
      /\ \A k, l \in 1..m : k < l => place[k] < place[l]
      /\ \A i \in turns : \E k \in 1..m : place[k] = i
  BY DEF Enumerates
<1>3. \A i \in turns : i \in 1..Len(ms) - 1 /\ i \in Nat /\ i \in DOMAIN ms
  BY <1>1
<1>4. \A x \in Msg : EstimateTokens(x.bytes) + 4 \in Nat /\ EstimateTokens(x.bytes) + 4 > 0
  BY DEF Msg, EstimateTokens
<1>5. /\ costs \in Seq(Nat) /\ Len(costs) = m
      /\ \A k \in 1..m : costs[k] = EstimateTokens(earlier[k].bytes) + 4 /\ costs[k] > 0
  <2>1. costs = [k \in 1..m |-> EstimateTokens(earlier[k].bytes) + 4]
    BY <1>1 DEF Shares
  <2>. HIDE DEF costs, m
  <2>2. \A k \in 1..m : earlier[k] \in Msg
    BY <1>1
  <2>3. \A k \in 1..m : EstimateTokens(earlier[k].bytes) + 4 \in Nat
    BY <1>4, <2>2
  <2>4. costs \in Seq(Nat) /\ Len(costs) = m
    BY <1>1, <2>1, <2>3
  <2>. QED  BY <1>4, <2>1, <2>2, <2>4
<1>6. \A k \in 1..m : f[place[k]] = costs[k]
  BY <1>2, <1>3, <1>5 DEF Shares
<1>7. room \in Nat /\ SystemTokens(ms) \in Nat
      /\ \A n \in Nat : n > 0 => (n <= room <=> SystemTokens(ms) + n <= MaxContextTokens)
  BY SystemTokensType DEF Room
<1>8. \A k, l \in 1..m : k < l => place[k] # place[l]
  <2>. SUFFICES ASSUME NEW k \in 1..m, NEW l \in 1..m, k < l PROVE place[k] # place[l]
    OBVIOUS
  <2>1. place[k] \in Nat /\ place[l] \in Nat /\ place[k] < place[l]
    BY <1>2, <1>3
  <2>. QED  BY <2>1
<1>. HIDE DEF turns, costs, f, m, room
<1>10. /\ LongestEnd(costs, room).first \in 1..(m + 1)
       /\ \A i \in 1..(m + 1) : SumOver(costs, i..m) \in Nat
       /\ \A i \in 1..(m + 1) : SumOver(costs, i..m) <= room <=> i >= LongestEnd(costs, room).first
  BY <1>5, <1>7, LongestEndFits
<1>11. ASSUME NEW k \in 1..m
       PROVE  /\ SumOver(costs, k..m) > 0
              /\ SumOver(f, after(place[k])) = SumOver(costs, k..m)
  <2>1. SumOver(costs, k..m) = SumOver(costs, (k + 1)..m) + costs[k] /\ SumOver(costs, (k + 1)..m) \in Nat
    <3>1. k \in 1..Len(costs) /\ k + 1 \in 1..(m + 1)
      BY <1>1, <1>5 DEF m
    <3>2. SumOver(costs, k..Len(costs)) = SumOver(costs, (k + 1)..Len(costs)) + costs[k]
      BY <1>5, <3>1, EndCostStep
    <3>. QED  BY <1>5, <1>10, <3>1, <3>2
  <2>2. SumOver(costs, k..m) > 0
    BY <1>5, <2>1
  <2>3. place[k] \in turns /\ place[k] \in Nat /\ place[k] >= 1
    BY <1>2, <1>3
  <2>4. \A l \in k..m : l \in 1..m /\ k <= l
    BY <1>1 DEF m
  <2>5. ASSUME NEW l \in k..m PROVE place[l] \in after(place[k])
    <3>1. place[l] \in turns /\ place[l] \in Nat
      BY <1>2, <1>3, <2>4
    <3>2. k < l => place[k] < place[l]
      BY <1>2, <2>4
    <3>3. k < l \/ l = k
      BY <2>4
    <3>4. place[k] <= place[l]
      BY <2>3, <3>1, <3>2, <3>3
    <3>. QED  BY <1>1, <2>3, <3>1, <3>4 DEF turns
  <2>6. ASSUME NEW x \in after(place[k]) PROVE \E l \in k..m : place[l] = x
    <3>1. x \in turns /\ x >= place[k]
      BY <1>1, <2>3 DEF turns
    <3>2. PICK l \in 1..m : place[l] = x
      BY <1>2, <3>1
    <3>3. ~(l < k)
      <4>. SUFFICES ASSUME l < k PROVE FALSE
        OBVIOUS
      <4>1. place[l] < place[k]
        BY <1>2
      <4>. QED  BY <1>3, <2>3, <3>1, <3>2, <4>1
    <3>4. l \in k..m
      BY <1>1, <3>3 DEF m
    <3>. QED  BY <3>2, <3>4
  <2>. HIDE DEF after
  <2>7. SumOver(f, after(place[k])) = SumOver(costs, k..m)
    <3>1. \A l \in 1..Len(costs) : f[place[l]] = costs[l]
      BY <1>5, <1>6
    <3>2. \A l, n \in 1..Len(costs) : l < n => place[l] # place[n]
      BY <1>5, <1>8
    <3>3. k \in 1..(Len(costs) + 1)
      BY <1>1, <1>5 DEF m
    <3>4. after(place[k]) = PlacesOf(place, k, Len(costs))
      BY <1>5, <2>5, <2>6 DEF PlacesOf
    <3>. HIDE DEF after
    <3>5. Alongside(costs, f, place)
      BY <3>1, <3>2 DEF Alongside
    <3>6. SumOver(f, PlacesOf(place, k, Len(costs))) = SumOver(costs, k..Len(costs))
      BY <1>5, <3>3, <3>5, SumAlong
    <3>. QED  BY <1>5, <3>4, <3>6
  <2>. QED  BY <2>2, <2>7
<1>12. ASSUME NEW k \in 1..m
       PROVE  FitsIn(ms, place[k]) <=> MaxContextTokens = 0 \/ SumOver(costs, k..m) <= room
  <2>1. k \in 1..(m + 1)
    BY <1>1 DEF m
  <2>2. SumOver(f, after(place[k])) = SumOver(costs, k..m) /\ SumOver(costs, k..m) \in Nat
    BY <1>10, <1>11, <2>1
  <2>3. FitsIn(ms, place[k]) <=> MaxContextTokens = 0 \/ SystemTokens(ms) + SumOver(f, after(place[k])) <= MaxContextTokens
    BY DEF FitsIn, f
  <2>. QED  BY <1>7, <1>11, <2>2, <2>3
<1>13. KeepFrom(earlier, room) = IF MaxContextTokens = 0 THEN 1 ELSE LongestEnd(costs, room).first
  BY DEF KeepFrom, costs
<1>14. KeepFrom(earlier, room) \in 1..(m + 1)
  BY <1>1, <1>10, <1>13 DEF m
<1>15. \A k \in 1..m : k >= KeepFrom(earlier, room) <=> FitsIn(ms, place[k])
  <2>. SUFFICES ASSUME NEW k \in 1..m PROVE k >= KeepFrom(earlier, room) <=> FitsIn(ms, place[k])
    OBVIOUS
  <2>1. k \in 1..(m + 1) /\ k >= 1
    BY <1>1 DEF m
  <2>2. SumOver(costs, k..m) <= room <=> k >= LongestEnd(costs, room).first
    BY <1>10, <2>1
  <2>. QED  BY <1>12, <1>13, <2>1, <2>2
<1>. QED  BY <1>14, <1>15 DEF m, room

SystemTexts(ms) == LET system == Kept(ms, SystemPlaces(ms)) IN [i \in DOMAIN system |-> system[i].text]

LEMMA SystemText ==
    ASSUME NEW ms \in Seq(Msg), \A i \in DOMAIN ms : ms[i].text = <<i>>
    PROVE  /\ FlattenSeq(SystemTexts(ms)) \in Seq(Nat) /\ ToSet(FlattenSeq(SystemTexts(ms))) = SystemPlaces(ms)
           /\ SystemPlaces(ms) # {} => FlattenSeq(SystemTexts(ms)) # <<>>
<1>. DEFINE at == SystemPlaces(ms)
            system == Kept(ms, at)
            text == FlattenSeq(SystemTexts(ms))
            N == Nat
<1>1. DOMAIN ms = 1..Len(ms) /\ at \subseteq 1..Len(ms)
  BY DEF SystemPlaces
<1>. HIDE DEF at
<1>2. system \in Seq(Msg) /\ \E q : Enumerates(q, at, ms, system)
  BY <1>1, KeptFields
<1>3. PICK q : Enumerates(q, at, ms, system)
  BY <1>2
<1>4. Len(system) \in Nat /\ DOMAIN system = 1..Len(system)
  BY <1>2
<1>5. \A k \in 1..Len(system) : q[k] \in at /\ system[k] = ms[q[k]]
  BY <1>3 DEF Enumerates
<1>6. \A k \in 1..Len(system) : system[k].text = <<q[k]>>
  BY <1>1, <1>5
<1>7. SystemTexts(ms) = [i \in 1..Len(system) |-> <<q[i]>>]
  BY <1>4, <1>6 DEF SystemTexts, at
<1>8. \A k \in 1..Len(system) : q[k] \in N
  <2>1. \A i \in 1..Len(ms) : i \in Nat
    OBVIOUS
  <2>. QED  BY <1>1, <1>5, <2>1
<1>9. \A i \in at : \E k \in 1..Len(system) : q[k] = i
  BY <1>3 DEF Enumerates
<1>10. text = [i \in 1..Len(system) |-> q[i]]
  <2>1. FlattenSeq([i \in 1..Len(system) |-> <<q[i]>>]) = [i \in 1..Len(system) |-> q[i]]
    BY <1>4, FlattenPieces
  <2>. QED  BY <1>7, <2>1
<1>11. \A k \in 1..Len(system) : q[k] \in at
  BY <1>5
<1>. DEFINE n == Len(system)
<1>13. /\ n \in Nat /\ (\A k \in 1..n : q[k] \in N) /\ text = [i \in 1..n |-> q[i]]
       /\ (\A k \in 1..n : q[k] \in at) /\ \A i \in at : \E k \in 1..n : q[k] = i
  BY <1>4, <1>8, <1>9, <1>10, <1>11
<1>. HIDE DEF N, n, text, system
<1>12. text \in Seq(N) /\ ToSet(text) = at /\ (at # {} => text # <<>>)
  <2>1. text \in Seq(N)
    BY <1>13
  <2>2. DOMAIN text = 1..n /\ \A k \in 1..n : text[k] = q[k]
    BY <1>13
  <2>3. ToSet(text) = at
    BY <1>13, <2>2 DEF ToSet
  <2>4. ASSUME at # {} PROVE text # <<>>
    <3>1. PICK i \in at : TRUE
      BY <2>4
    <3>2. PICK k \in 1..n : q[k] = i
      BY <1>13, <3>1
    <3>3. k \in DOMAIN text
      BY <2>2, <3>2
    <3>. QED  BY <3>3
  <2>. QED  BY <2>1, <2>3, <2>4
<1>. QED  BY <1>12 DEF N, text, at

LEMMA ChatPrompt ==
    ASSUME NEW ms \in Seq(Msg), ms # <<>>, \A i \in DOMAIN ms : ms[i].text = <<i>>, MaxContextTokens \in Nat,
           NEW P, P = BuildMessages(MessagesToContext(ms))
    PROVE  \E place, m, d, s : PromptOf(P, ms, place, m, d, s)
<1>. DEFINE at == SystemPlaces(ms)
            turns == {i \in 1..Len(ms) - 1 : NotSystem(ms[i])}
            text == FlattenSeq(SystemTexts(ms))
            earlier == Kept(ms, turns)
            said == [i \in DOMAIN earlier |-> Spoken(earlier[i])]
            m == Len(earlier)
            d == KeepFrom(earlier, Room(ms)) - 1
            recent == SubSeq(said, d + 1, Len(earlier))
            first == IF text = <<>> THEN <<>> ELSE <<Say("system", text)>>
            s == Len(first)
            last == Say("user", <<Len(ms)>>)
<1>1. Len(ms) \in Nat \ {0} /\ DOMAIN ms = 1..Len(ms)
  BY EmptySeq
<1>2. text \in Seq(Nat) /\ ToSet(text) = at /\ (at # {} => text # <<>>)
  BY SystemText
<1>3. earlier \in Seq(Msg) /\ \E place : Enumerates(place, turns, ms, earlier)
  <2>1. turns \subseteq 1..Len(ms)
    BY <1>1
  <2>. HIDE DEF turns
  <2>. QED  BY <2>1, KeptFields
<1>4. PICK place : Enumerates(place, turns, ms, earlier)
  BY <1>3
<1>20. KeepFrom(earlier, Room(ms)) \in Int /\ d \in 0..m /\ \A k \in 1..m : k > d <=> FitsIn(ms, place[k])
  <2>. HIDE DEF earlier
  <2>1. m \in Nat
    BY <1>3
  <2>2. /\ KeepFrom(earlier, Room(ms)) \in 1..(m + 1)
        /\ \A k \in 1..m : k >= KeepFrom(earlier, Room(ms)) <=> FitsIn(ms, place[k])
    BY <1>3, <1>4, KeptFit
  <2>. QED  BY <2>1, <2>2
<1>5. P = first \o recent \o <<last>>
  <2>1. Last(ms).text = <<Len(ms)>>
    BY <1>1 DEF Last
  <2>2. MessagesToContext(ms) = [system |-> text, recent |-> recent, prompt |-> <<Len(ms)>>]
    <3>1. KeepFrom(earlier, Room(ms)) = d + 1
      BY <1>20
    <3>2. MessagesToContext(ms) =
              [system |-> text, recent |-> SubSeq(said, KeepFrom(earlier, Room(ms)), Len(earlier)),
               prompt |-> Last(ms).text]
      BY DEF MessagesToContext, SystemTexts
    <3>. HIDE DEF text, said, earlier, d
    <3>. QED  BY <2>1, <3>1, <3>2
  <2>. HIDE DEF text, recent
  <2>. QED  BY <2>2 DEF BuildMessages
<1>. HIDE DEF earlier
<1>6. m \in Nat /\ DOMAIN earlier = 1..m
  BY <1>3
<1>7. said \in Seq(Talk) /\ Len(said) = m
  <2>1. \A i \in 1..m : Spoken(earlier[i]) \in Talk
    BY <1>3, <1>6, SpokenFields
  <2>2. said = [i \in 1..m |-> Spoken(earlier[i])]
    BY <1>6
  <2>. HIDE DEF said, m
  <2>. QED  BY <1>6, <2>1, <2>2
<1>8. \A k \in 1..m : place[k] \in turns /\ earlier[k] = ms[place[k]]
  BY <1>4 DEF Enumerates
<1>9. \A k \in 1..m : said[k].text = <<place[k]>> /\ said[k].role = Spoken(ms[place[k]]).role
  <2>1. \A k \in 1..m : said[k] = Spoken(earlier[k]) /\ said[k].text = earlier[k].text
    BY <1>3, <1>6, SpokenFields
  <2>2. \A k \in 1..m : place[k] \in DOMAIN ms
    BY <1>1, <1>8
  <2>. QED  BY <1>8, <2>1, <2>2
<1>10. /\ recent \in Seq(Talk) /\ d \in 0..m /\ Len(recent) = m - d
       /\ \A j \in 1..(m - d) : recent[j] = said[d + j]
  <2>. HIDE DEF said
  <2>1. d \in 0..Len(said) /\ recent = SubSeq(said, d + 1, Len(said))
    BY <1>7, <1>20
  <2>. HIDE DEF d, recent
  <2>2. recent \in Seq(Talk) /\ Len(recent) = Len(said) - d /\ \A j \in 1..(Len(said) - d) : recent[j] = said[d + j]
    BY <1>7, <2>1, LaterOnes
  <2>. QED  BY <1>7, <2>1, <2>2
<1>11. /\ first \in Seq(Talk) /\ s \in {0, 1} /\ Len(first) = s /\ (at # {} => s = 1)
       /\ s = 1 => ToSet(first[1].text) = at /\ first[1].role = "system"
  <2>. HIDE DEF text
  <2>1. Say("system", text) \in Talk /\ Say("system", text).text = text /\ Say("system", text).role = "system"
    <3>1. "system" \in Roles
      BY DEF Roles
    <3>. QED  BY <1>2, <3>1, SaidFields
  <2>2. CASE text = <<>>
    <3>1. first = <<>> /\ s = 0
      BY <2>2
    <3>. QED  BY <1>2, <2>2, <3>1
  <2>3. CASE text # <<>>
    <3>1. first = <<Say("system", text)>>
      BY <2>3
    <3>2. first \in Seq(Talk) /\ Len(first) = 1 /\ first[1] = Say("system", text)
      BY <2>1, <3>1
    <3>. QED  BY <1>2, <2>1, <3>2
  <2>. QED  BY <2>2, <2>3
<1>12. last \in Talk /\ last.text = <<Len(ms)>> /\ last.role = "user"
  <2>1. <<Len(ms)>> \in Seq(Nat)
    BY <1>1
  <2>2. "user" \in Roles
    BY DEF Roles
  <2>. QED  BY <2>1, <2>2, SaidFields
<1>. HIDE DEF first, recent, last, said, s, d, m
<1>13. /\ DOMAIN P = 1..(s + (m - d) + 1) /\ P[s + (m - d) + 1] = last
       /\ \A j \in 1..(m - d) : P[s + j] = recent[j]
       /\ \A j \in 1..s : P[j] = first[j]
  <2>. DEFINE fr == first \o recent
  <2>1. fr \in Seq(Talk) /\ Len(fr) = s + (m - d) /\ Len(fr) \in Nat
    BY <1>6, <1>10, <1>11
  <2>2. ASSUME NEW j \in 1..(m - d) PROVE fr[s + j] = recent[j]
    <3>1. s + j \in 1..(Len(first) + Len(recent)) /\ ~(s + j <= Len(first)) /\ (s + j) - Len(first) = j
      BY <1>6, <1>10, <1>11
    <3>2. fr[s + j] = IF s + j <= Len(first) THEN first[s + j] ELSE recent[(s + j) - Len(first)]
      BY <1>10, <1>11, <3>1, ConcatProperties
    <3>. QED  BY <3>1, <3>2
  <2>3. \A j \in 1..s : fr[j] = first[j]
    BY <1>6, <1>10, <1>11
  <2>4. P = fr \o <<last>>
    BY <1>5
  <2>. HIDE DEF fr
  <2>5. DOMAIN P = 1..(Len(fr) + 1) /\ P[Len(fr) + 1] = last /\ \A j \in 1..Len(fr) : P[j] = fr[j]
    BY <1>12, <2>1, <2>4
  <2>6. \A j \in 1..(m - d) : s + j \in 1..Len(fr)
    <3>1. s \in Nat /\ m - d \in Int /\ Len(fr) = s + (m - d)
      BY <1>6, <1>10, <1>11, <2>1
    <3>2. \A t \in Int : \A j \in 1..t : s + j \in 1..(s + t)
      BY <3>1
    <3>. QED  BY <3>1, <3>2
  <2>7. \A j \in 1..s : j \in 1..Len(fr)
    BY <1>6, <1>10, <1>11, <2>1
  <2>. QED  BY <2>1, <2>2, <2>3, <2>5, <2>6, <2>7
<1>14. \A k \in (d + 1)..m : P[s + (k - d)].text = <<place[k]>> /\ P[s + (k - d)].role = Spoken(ms[place[k]]).role
  <2>. SUFFICES ASSUME NEW k \in (d + 1)..m PROVE P[s + (k - d)].text = <<place[k]>> /\ P[s + (k - d)].role = Spoken(ms[place[k]]).role
    OBVIOUS
  <2>1. k - d \in 1..(m - d) /\ d + (k - d) = k /\ k \in 1..m
    BY <1>6, <1>10
  <2>2. P[s + (k - d)] = recent[k - d] /\ recent[k - d] = said[d + (k - d)]
    BY <1>10, <1>13, <2>1
  <2>. QED  BY <1>9, <2>1, <2>2
<1>15. s = 1 => ToSet(P[1].text) = at /\ P[1].role = "system"
  BY <1>11, <1>13
<1>16. \A k, l \in 1..m : k < l => place[k] < place[l]
  BY <1>4 DEF Enumerates, m
<1>17. \A i \in turns : \E k \in 1..m : place[k] = i
  BY <1>4 DEF Enumerates, m
<1>18. \A k \in 1..m : k > d <=> FitsIn(ms, place[k])
  BY <1>20
<1>. HIDE DEF text
<1>19. PromptOf(P, ms, place, m, d, s)
  BY <1>6, <1>8, <1>10, <1>11, <1>12, <1>13, <1>14, <1>15, <1>16, <1>17, <1>18 DEF PromptOf, SystemPlaces
<1>. QED  BY <1>19

\* Where the messages of a chat are in its prompt.
LEMMA PlacesInPrompt ==
    ASSUME NEW ms \in Seq(Msg), ms # <<>>, NEW P, NEW place, NEW m, NEW d, NEW s,
           PromptOf(P, ms, place, m, d, s), NEW i \in 1..Len(ms)
    PROVE  {j \in DOMAIN P : i \in ToSet(P[j].text)} =
               (IF IsSystem(ms[i]) THEN {1} ELSE {})
                   \union {s + (k - d) : k \in {k \in (d + 1)..m : place[k] = i}}
                   \union (IF i = Len(ms) THEN {s + (m - d) + 1} ELSE {})
<1>. DEFINE at == {x \in DOMAIN ms : IsSystem(ms[x])}
            turns == {x \in 1..Len(ms) - 1 : NotSystem(ms[x])}
            there == {k \in (d + 1)..m : place[k] = i}
            early == {s + (k - d) : k \in there}
            L == (IF IsSystem(ms[i]) THEN {1} ELSE {}) \union early
                     \union (IF i = Len(ms) THEN {s + (m - d) + 1} ELSE {})
            E == {j \in DOMAIN P : i \in ToSet(P[j].text)}
<1>1. Len(ms) \in Nat \ {0} /\ DOMAIN ms = 1..Len(ms)
  BY EmptySeq
<1>7. m \in Nat /\ d \in 0..m
  BY DEF PromptOf
<1>8. d \in Nat /\ d <= m /\ m \in Nat /\ d \in 0..m
  BY <1>7
<1>2. /\ s \in {0, 1} /\ DOMAIN P = 1..(s + (m - d) + 1)
      /\ P[s + (m - d) + 1].text = <<Len(ms)>>
      /\ \A k \in (d + 1)..m : P[s + (k - d)].text = <<place[k]>>
      /\ s = 1 => ToSet(P[1].text) = at
      /\ at # {} => s = 1
  BY DEF PromptOf
<1>9. s \in Nat /\ s <= 1
  BY <1>2
<1>3. \A x : ToSet(<<x>>) = {x}
  BY DEF ToSet
<1>4. i \in at <=> IsSystem(ms[i])
  BY <1>1
<1>. HIDE DEF at
<1>5. ASSUME NEW j \in E PROVE j \in L
  <2>1. j \in 1..(s + (m - d) + 1) /\ i \in ToSet(P[j].text)
    BY <1>2, <1>8, <1>9
  <2>2. CASE j = s + (m - d) + 1
    <3>1. i \in ToSet(<<Len(ms)>>)
      BY <1>2, <1>8, <1>9, <2>1, <2>2
    <3>2. i = Len(ms)
      BY <1>3, <3>1
    <3>. QED  BY <2>2, <3>2
  <2>3. CASE j <= s
    <3>1. j = 1 /\ s = 1
      BY <1>2, <1>8, <1>9, <2>1, <2>3
    <3>2. i \in at
      BY <1>2, <1>8, <1>9, <2>1, <3>1
    <3>. QED  BY <1>4, <3>1, <3>2
  <2>4. CASE j > s /\ j # s + (m - d) + 1
    <3>1. (j - s) + d \in (d + 1)..m /\ s + (((j - s) + d) - d) = j
      BY <1>8, <1>9, <2>1, <2>4
    <3>2. P[j].text = <<place[(j - s) + d]>>
      BY <1>2, <1>8, <1>9, <3>1
    <3>3. i = place[(j - s) + d]
      BY <1>3, <2>1, <3>2
    <3>4. (j - s) + d \in there
      BY <3>1, <3>3
    <3>5. j \in early
      BY <3>1, <3>4
    <3>. QED  BY <3>5
  <2>. QED  BY <1>2, <1>8, <1>9, <2>1, <2>2, <2>3, <2>4
<1>6. ASSUME NEW j \in L PROVE j \in E
  <2>1. CASE IsSystem(ms[i]) /\ j = 1
    <3>1. s = 1 /\ i \in ToSet(P[1].text)
      BY <1>2, <1>8, <1>9, <1>4, <2>1
    <3>2. 1 \in DOMAIN P
      BY <1>2, <1>8, <1>9, <3>1
    <3>. QED  BY <2>1, <3>1, <3>2
  <2>2. CASE j \in early
    <3>1. PICK k \in there : j = s + (k - d)
      BY <2>2
    <3>2. P[j].text = <<i>>
      BY <1>2, <1>8, <1>9, <3>1
    <3>3. j \in DOMAIN P
      BY <1>2, <1>8, <1>9, <3>1
    <3>. QED  BY <1>3, <3>2, <3>3
  <2>3. CASE i = Len(ms) /\ j = s + (m - d) + 1
    <3>1. j \in DOMAIN P /\ P[j].text = <<i>>
      BY <1>2, <1>8, <1>9, <2>3
    <3>. QED  BY <1>3, <3>1
  <2>. QED  BY <2>1, <2>2, <2>3
<1>. QED  BY <1>5, <1>6

LEMMA SaidTwice ==
    ASSUME NEW x, NEW P, P = <<>> \o <<x>> \o <<x>>
    PROVE  DOMAIN P = {1, 2} /\ Len(P) = 2 /\ P[1] = x /\ P[2] = x
<1>. DEFINE S == {x}
            one == <<x>>
<1>1. one \in Seq(S) /\ Len(one) = 1 /\ one[1] = x /\ <<>> \in Seq(S) /\ P = <<>> \o one \o one
  OBVIOUS
<1>. HIDE DEF S, one
<1>2. P = one \o one
  BY <1>1
<1>3. one \o one \in Seq(S) /\ Len(one \o one) = Len(one) + Len(one)
  BY <1>1
<1>4. P \in Seq(S) /\ Len(P) = 2
  BY <1>1, <1>2, <1>3
<1>5. \A i \in 1..(Len(one) + Len(one)) :
          (one \o one)[i] = IF i <= Len(one) THEN one[i] ELSE one[i - Len(one)]
  BY <1>1, ConcatProperties
<1>6. \A i \in 1..2 : P[i] = IF i <= 1 THEN one[i] ELSE one[i - 1]
  BY <1>1, <1>2, <1>5
<1>7. P[1] = x /\ P[2] = x
  BY <1>1, <1>6
<1>8. DOMAIN P = 1..2
  BY <1>4
<1>. QED  BY <1>4, <1>7, <1>8

LEMMA AskedRight ==
    ASSUME prompted # <<>> => prompted = BuildMessages(Window(asked)), asked \in Conversations
    PROVE  AskedAsSaid
<1>. SUFFICES ASSUME prompted # <<>>, Messages # <<>>
              PROVE  LET last == Len(Messages) IN
                     /\ Places(last) =
                           {Len(prompted)} \union (IF IsSystem(Messages[last]) \/ ToPeer THEN {1} ELSE {})
                     /\ prompted[Len(prompted)].role = "user"
                     /\ \A i \in 1..last - 1 :
                           Cardinality(Places(i)) = IF IsSystem(Messages[i]) \/ Fits(i) THEN 1 ELSE 0
                     /\ \A i \in 1..last - 1 : \A m \in Places(i) : prompted[m].role = Spoken(Messages[i]).role
                     /\ \A i, j \in 1..last - 1 : i < j /\ NotSystem(Messages[i]) =>
                           \A m \in Places(i), n \in Places(j) : NotSystem(Messages[j]) => m < n
  BY DEF AskedAsSaid
<1>. DEFINE ms == Messages
<1>1. /\ ms \in Seq(Msg) /\ ms # <<>> /\ (\A i \in DOMAIN ms : ms[i].text = <<i>>) /\ MaxContextTokens \in Nat
      /\ asked.by \in {"chat", "encrypted", "peer"} /\ (asked.by # "chat" => Len(ms) = 1)
      /\ prompted = BuildMessages(Window(asked))
  BY StreamAssumption DEF Messages, Msg
<1>2. Len(ms) \in Nat \ {0} /\ DOMAIN ms = 1..Len(ms)
  BY <1>1, EmptySeq
<1>3. CASE asked.by = "encrypted"
  <2>1. Window(asked) = [system |-> <<>>, recent |-> <<>>, prompt |-> <<1>>] /\ Len(ms) = 1
    BY <1>1, <1>2, <1>3 DEF Window, Messages, Last
  <2>2. prompted = <<Say("user", <<1>>)>>
    BY <1>1, <2>1 DEF BuildMessages
  <2>3. DOMAIN prompted = {1} /\ Len(prompted) = 1 /\ prompted[1].text = <<1>> /\ prompted[1].role = "user"
    BY <2>2 DEF Say
  <2>4. ToSet(<<1>>) = {1}
    BY DEF ToSet
  <2>5. Places(1) = {1}
    BY <2>3, <2>4 DEF Places
  <2>6. 1..Len(ms) - 1 = {}
    BY <2>1
  <2>. QED  BY <1>3, <2>1, <2>3, <2>5, <2>6 DEF ToPeer
<1>5. CASE asked.by = "peer"
  <2>1. Window(asked) = [system |-> <<>>, recent |-> <<Say("user", <<1>>)>>, prompt |-> <<1>>] /\ Len(ms) = 1
    BY <1>1, <1>2, <1>5 DEF Window, Messages, Last
  <2>. DEFINE said == Say("user", <<1>>)
  <2>2. DOMAIN prompted = {1, 2} /\ Len(prompted) = 2 /\ prompted[1] = said /\ prompted[2] = said
    <3>1. prompted = <<>> \o <<said>> \o <<said>>
      BY <1>1, <2>1 DEF BuildMessages
    <3>. HIDE DEF said
    <3>. QED  BY <3>1, SaidTwice
  <2>3. said.text = <<1>> /\ said.role = "user"
    BY DEF Say
  <2>. HIDE DEF said
  <2>5. ToSet(<<1>>) = {1}
    BY DEF ToSet
  <2>6. Places(1) = {1, 2}
    BY <2>2, <2>3, <2>5 DEF Places
  <2>7. 1..Len(ms) - 1 = {}
    BY <2>1
  <2>. QED  BY <1>5, <2>1, <2>2, <2>3, <2>6, <2>7 DEF ToPeer
<1>4. CASE asked.by = "chat"
  <2>1. prompted = BuildMessages(MessagesToContext(ms))
    BY <1>1, <1>4 DEF Window, Messages
  <2>2. PICK place, m, d, s : PromptOf(prompted, ms, place, m, d, s)
    BY <1>1, <2>1, ChatPrompt
  <2>. DEFINE turns == {x \in 1..Len(ms) - 1 : NotSystem(ms[x])}
              there(i) == {s + (k - d) : k \in {k \in (d + 1)..m : place[k] = i}}
              sys(i) == IF IsSystem(ms[i]) THEN {1} ELSE {}
  <2>3. /\ m \in Nat /\ d \in 0..m /\ s \in {0, 1} /\ \A k \in 1..m : k > d <=> FitsIn(ms, place[k])
        /\ DOMAIN prompted = 1..(s + (m - d) + 1)
        /\ \A k \in 1..m : place[k] \in turns
        /\ \A k, l \in 1..m : k < l => place[k] < place[l]
        /\ \A i \in turns : \E k \in 1..m : place[k] = i
    BY <2>2 DEF PromptOf
  <2>4. d \in 0..m /\ Len(prompted) = s + (m - d) + 1
    <3>. DEFINE n == s + (m - d) + 1
    <3>1. n \in Nat /\ d \in 0..m /\ DOMAIN prompted = 1..n
      BY <2>3
    <3>. HIDE DEF n
    <3>2. Len(prompted) = n
      BY <3>1
    <3>. QED  BY <3>1, <3>2 DEF n
  <2>5. ASSUME NEW i \in 1..Len(ms)
        PROVE  Places(i) = sys(i) \union there(i) \union (IF i = Len(ms) THEN {s + (m - d) + 1} ELSE {})
    BY <1>1, <2>2, PlacesInPrompt DEF Places
  <2>6. there(Len(ms)) = {}
    <3>1. \A k \in (d + 1)..m : k \in 1..m
      BY <2>3, <2>4
    <3>2. \A k \in (d + 1)..m : place[k] # Len(ms)
      BY <1>2, <2>3, <3>1
    <3>. QED  BY <3>2
  <2>20. ~ToPeer
    BY <1>4 DEF ToPeer
  <2>21. prompted[Len(prompted)].role = "user"
    BY <2>2, <2>4 DEF PromptOf
  <2>7. Places(Len(ms)) = {Len(prompted)} \union (IF IsSystem(ms[Len(ms)]) THEN {1} ELSE {})
    <3>1. Len(ms) \in 1..Len(ms)
      BY <1>2
    <3>2. Places(Len(ms)) = sys(Len(ms)) \union there(Len(ms)) \union {s + (m - d) + 1}
      <4>. HIDE DEF sys, there, ms
      <4>. QED  BY <2>5, <3>1
    <3>. QED  BY <2>4, <2>6, <3>2
  <2>8. ASSUME NEW i \in 1..Len(ms) - 1
        PROVE  Places(i) = sys(i) \union there(i)
    <3>. HIDE DEF sys, there, ms
    <3>2. i \in 1..(Len(ms) - 1) /\ Len(ms) \in Nat
      BY <1>2
    <3>1. i \in 1..Len(ms) /\ i # Len(ms)
      BY <3>2
    <3>. QED  BY <2>5, <3>1
  <2>. HIDE DEF there, sys
  <2>9. ASSUME NEW i \in 1..Len(ms) - 1, IsSystem(ms[i])
        PROVE  Places(i) = {1}
    <3>1. i \notin turns
      BY <2>9 DEF NotSystem
    <3>2. \A k \in (d + 1)..m : place[k] # i
      BY <2>3, <2>4, <3>1
    <3>3. there(i) = {}
      BY <3>2 DEF there
    <3>. QED  BY <2>8, <2>9, <3>3 DEF sys
  <2>10. ASSUME NEW i \in turns
         PROVE  \E k \in 1..m : place[k] = i /\ Places(i) = IF k > d THEN {s + (k - d)} ELSE {}
    <3>1. PICK k \in 1..m : place[k] = i
      BY <2>3
    <3>2. ~IsSystem(ms[i]) /\ i \in 1..Len(ms) - 1
      BY DEF NotSystem
    <3>3. \A l \in 1..m : place[l] = i => l = k
      <4>. SUFFICES ASSUME NEW l \in 1..m, place[l] = i, l # k PROVE FALSE
        OBVIOUS
      <4>1. l < k \/ k < l
        BY <2>3
      <4>2. place[l] < place[k] \/ place[k] < place[l]
        BY <2>3, <4>1
      <4>3. i \in Nat
        BY <1>2
      <4>. QED  BY <3>1, <4>2, <4>3
    <3>4. \A l \in (d + 1)..m : l \in 1..m /\ l > d
      BY <2>3, <2>4
    <3>5. k > d => k \in (d + 1)..m
      BY <2>3, <2>4
    <3>6. {l \in (d + 1)..m : place[l] = i} = IF k > d THEN {k} ELSE {}
      BY <3>1, <3>3, <3>4, <3>5
    <3>7. there(i) = IF k > d THEN {s + (k - d)} ELSE {}
      <4>1. CASE k > d
        <5>1. {l \in (d + 1)..m : place[l] = i} = {k}
          BY <3>6, <4>1
        <5>. QED  BY <4>1, <5>1 DEF there
      <4>2. CASE ~(k > d)
        <5>1. {l \in (d + 1)..m : place[l] = i} = {}
          BY <3>6, <4>2
        <5>. QED  BY <4>2, <5>1 DEF there
      <4>. QED  BY <4>1, <4>2
    <3>. QED  BY <2>8, <3>1, <3>2, <3>7 DEF sys
  <2>11. ASSUME NEW i \in 1..Len(ms) - 1
         PROVE  Cardinality(Places(i)) = IF IsSystem(ms[i]) \/ Fits(i) THEN 1 ELSE 0
    <3>1. CASE IsSystem(ms[i])
      <4>1. Cardinality({1}) = 1
        BY FS_Singleton
      <4>. QED  BY <2>9, <3>1, <4>1
    <3>2. CASE ~IsSystem(ms[i])
      <4>1. i \in turns
        BY <3>2 DEF NotSystem
      <4>2. PICK k \in 1..m : place[k] = i /\ Places(i) = IF k > d THEN {s + (k - d)} ELSE {}
        BY <2>10, <4>1
      <4>4. Fits(i) <=> FitsIn(ms, i)
        BY DEF Fits, FitsIn
      <4>5. Fits(i) <=> k > d
        <5>. HIDE DEF ms
        <5>. QED  BY <2>3, <4>2, <4>4
      <4>6. Cardinality({s + (k - d)}) = 1 /\ Cardinality({}) = 0
        BY FS_Singleton, FS_EmptySet
      <4>7. CASE k > d
        BY <3>2, <4>2, <4>5, <4>6, <4>7
      <4>8. CASE ~(k > d)
        BY <3>2, <4>2, <4>5, <4>6, <4>8
      <4>. QED  BY <4>7, <4>8
    <3>. QED  BY <3>1, <3>2
  <2>12. ASSUME NEW i \in 1..Len(ms) - 1, NEW j \in 1..Len(ms) - 1, i < j, NotSystem(ms[i]), NotSystem(ms[j]),
                NEW a \in Places(i), NEW b \in Places(j)
         PROVE  a < b
    <3>1. i \in turns /\ j \in turns
      BY <2>12
    <3>2. PICK k \in 1..m : place[k] = i /\ Places(i) = IF k > d THEN {s + (k - d)} ELSE {}
      BY <2>10, <3>1
    <3>3. PICK l \in 1..m : place[l] = j /\ Places(j) = IF l > d THEN {s + (l - d)} ELSE {}
      BY <2>10, <3>1
    <3>4. k > d /\ l > d /\ a = s + (k - d) /\ b = s + (l - d)
      BY <3>2, <3>3
    <3>5. ~(l < k) /\ l # k
      <4>1. l < k => place[l] < place[k]
        BY <2>3
      <4>2. i \in Nat /\ j \in Nat
        BY <1>2
      <4>. QED  BY <2>12, <3>2, <3>3, <4>1, <4>2
    <3>6. k \in Nat /\ l \in Nat /\ d \in Nat /\ s \in Nat
      BY <2>3, <2>4
    <3>7. k < l
      BY <3>5, <3>6
    <3>. QED  BY <3>4, <3>6, <3>7
  <2>13. ASSUME NEW i \in 1..Len(ms) - 1, NEW a \in Places(i)
         PROVE  prompted[a].role = Spoken(ms[i]).role
    <3>1. CASE IsSystem(ms[i])
      <4>1. a = 1
        BY <2>9, <3>1
      <4>2. Spoken(ms[i]).role = "system"
        BY <3>1 DEF Spoken, Say, IsSystem
      <4>3. i \in DOMAIN ms
        BY <1>2
      <4>4. prompted[1].role = "system"
        BY <2>2, <3>1, <4>3 DEF PromptOf
      <4>. QED  BY <4>1, <4>2, <4>4
    <3>2. CASE ~IsSystem(ms[i])
      <4>1. i \in turns
        BY <3>2 DEF NotSystem
      <4>2. PICK k \in 1..m : place[k] = i /\ Places(i) = IF k > d THEN {s + (k - d)} ELSE {}
        BY <2>10, <4>1
      <4>3. k \in (d + 1)..m /\ a = s + (k - d)
        BY <2>3, <4>2
      <4>. QED  BY <2>2, <4>2, <4>3 DEF PromptOf
    <3>. QED  BY <3>1, <3>2
  <2>. QED  BY <2>7, <2>11, <2>12, <2>13, <2>20, <2>21
<1>. QED  BY <1>1, <1>3, <1>4, <1>5

-----------------------------------------------------------------------------
(* InferenceStream: what is collected.  The lines of the answer, of the    *)
(* channel, of the reader and of the response rise, one after another.     *)

Line(chunk) == IF chunk.is_final THEN DoneLine ELSE chunk.token
ChunkType == [chunk_index : Nat, token : 0..AnswerLength, is_final : BOOLEAN, tokens_generated : Nat]
AtWork == reader \in {"reading", "sending"}

StreamTypes ==
    /\ emitted \in 0..DoneLine /\ lines \in Seq(0..DoneLine) /\ chan \in Seq(1..ReadError)
    /\ held \in 0..ReadError /\ answer \in Seq(ChunkType) /\ mishaps \in Nat
    /\ reader \in {"none", "reading", "sending", "ended"} /\ body \in {"none", "open", "eof", "broken"}
    /\ collector \in {"asking", "collecting", "publishing", "telling", "answered", "failed", "gone"}

PromptInv == asked \in Conversations /\ (prompted # <<>> => prompted = BuildMessages(Window(asked)))

AnswerInv ==
    /\ \A i \in 1..Len(answer) : Line(answer[i]) \in 1..emitted
    /\ \A i \in 1..Len(answer) : ~answer[i].is_final => answer[i].tokens_generated = i
    /\ \A i, j \in 1..Len(answer) : i < j => Line(answer[i]) < Line(answer[j])

ChanInv ==
    /\ \A k \in 1..Len(chan) : (chan[k] <= emitted \/ chan[k] = ReadError) /\ (chan[k] >= DoneLine => reader = "ended")
    /\ \A k \in 1..Len(chan) : chan[k] = ReadError => body = "broken"
    /\ \A k, l \in 1..Len(chan) : k < l => chan[k] < chan[l]
    /\ \A i \in 1..Len(answer), k \in 1..Len(chan) : Line(answer[i]) < chan[k]

HeldInv == reader = "sending" =>
    /\ held >= 1 /\ (held <= emitted \/ held = ReadError)
    /\ held = ReadError => body = "broken" /\ lines = <<>>
    /\ \A i \in 1..Len(answer) : Line(answer[i]) < held
    /\ \A k \in 1..Len(chan) : chan[k] < held

LinesInv == AtWork =>
    /\ \A a \in 1..Len(lines) : lines[a] <= emitted
    /\ \A a, b \in 1..Len(lines) : a < b /\ lines[a] # 0 /\ lines[b] # 0 => lines[a] < lines[b]
    /\ \A a \in 1..Len(lines), i \in 1..Len(answer) : lines[a] # 0 => Line(answer[i]) < lines[a]
    /\ \A a \in 1..Len(lines), k \in 1..Len(chan) : lines[a] # 0 => chan[k] < lines[a]
    /\ \A a \in 1..Len(lines) : lines[a] # 0 /\ reader = "sending" => held < lines[a]

BodyInv ==
    /\ body = "open" => emitted < DoneLine /\ reader # "none"
    /\ collector = "asking" \/ reader = "none" =>
          body = "none" /\ emitted = 0 /\ lines = <<>> /\ chan = <<>> /\ answer = <<>> /\ reader = "none"
    /\ collector = "publishing" => answer # <<>>

Calm == mishaps = 0 /\ body # "broken"

CountInv == Calm /\ collector \in {"asking", "collecting", "publishing", "telling"} =>
    /\ Len(answer) + Len(chan) + (IF reader = "sending" THEN 1 ELSE 0) + Len(lines) = emitted
    /\ \A a \in 1..Len(lines) : lines[a] # 0
    /\ body = "eof" => emitted = DoneLine
    /\ reader = "ended" => lines = <<>> /\ emitted = DoneLine

DoneInv == Calm /\ collector = "answered" => Len(answer) = DoneLine

StreamInv ==
    /\ StreamTypes /\ PromptInv /\ AnswerInv /\ ChanInv /\ HeldInv /\ LinesInv /\ BodyInv /\ CountInv /\ DoneInv

LEMMA LineNumbers ==
    DoneLine \in Nat \ {0} /\ AnswerLength \in Nat /\ DoneLine = AnswerLength + 1 /\ ReadError = DoneLine + 1 /\ Garbled = 0
BY StreamAssumption DEF DoneLine, ReadError, Garbled

LEMMA StreamInitInv == StreamInit => StreamInv
<1>. SUFFICES ASSUME StreamInit PROVE StreamInv
  OBVIOUS
<1>. USE LineNumbers DEF StreamInit
<1>1. StreamTypes
  BY DEF StreamTypes
<1>2. PromptInv
  BY DEF PromptInv
<1>3. AnswerInv /\ ChanInv /\ HeldInv /\ LinesInv /\ BodyInv
  BY DEF AnswerInv, ChanInv, HeldInv, LinesInv, BodyInv, AtWork
<1>4. CountInv /\ DoneInv
  BY DEF CountInv, DoneInv, Calm
<1>. QED  BY <1>1, <1>2, <1>3, <1>4 DEF StreamInv

\* Before the answer: the request is made, or fails.
LEMMA StreamAsked ==
    ASSUME StreamInv, Accepted \/ Rejected
    PROVE  StreamInv'
<1>. USE LineNumbers
<1>1. /\ body = "none" /\ emitted = 0 /\ lines = <<>> /\ chan = <<>> /\ answer = <<>> /\ reader = "none"
      /\ UNCHANGED <<asked, emitted, lines, held, chan, answer>> /\ mishaps' \in Nat
      /\ prompted' = BuildMessages(Window(asked))
      /\ \/ body' = "open" /\ reader' = "reading" /\ collector' = "collecting" /\ mishaps' = mishaps
         \/ body' = body /\ reader' = reader /\ collector' \in {"failed", "telling"}
  BY DEF StreamInv, StreamTypes, BodyInv, Accepted, Rejected, Mishap
<1>2. StreamTypes'
  BY <1>1 DEF StreamInv, StreamTypes
<1>3. PromptInv'
  BY <1>1 DEF StreamInv, PromptInv
<1>4. AnswerInv' /\ ChanInv' /\ HeldInv' /\ LinesInv'
  BY <1>1 DEF AnswerInv, ChanInv, HeldInv, LinesInv
<1>5. BodyInv' /\ CountInv' /\ DoneInv'
  BY <1>1 DEF BodyInv, CountInv, DoneInv, Calm
<1>. QED  BY <1>2, <1>3, <1>4, <1>5 DEF StreamInv

\* Ollama writes a line.
LEMMA StreamEmits ==
    ASSUME StreamInv, Emit
    PROVE  StreamInv'
<1>. USE LineNumbers
<1>. PICK line \in {Garbled, emitted + 1} :
         lines' = Append(lines, line) /\ mishaps' = (IF line = Garbled THEN mishaps + 1 ELSE mishaps)
  BY DEF Emit, Mishap, StreamInv, StreamTypes
<1>1. /\ body = "open" /\ reader # "ended" /\ emitted' = emitted + 1 /\ emitted < DoneLine /\ reader # "none"
      /\ body' = (IF emitted' = DoneLine THEN "eof" ELSE "open")
      /\ UNCHANGED <<asked, prompted, reader, held, chan, collector, answer>>
      /\ collector # "asking"
  BY DEF Emit, Connected, StreamInv, BodyInv
<1>2. /\ emitted \in Nat /\ lines \in Seq(0..DoneLine) /\ chan \in Seq(1..ReadError) /\ mishaps \in Nat
      /\ AtWork /\ emitted' \in 0..DoneLine /\ line \in 0..DoneLine
  BY <1>1 DEF StreamInv, StreamTypes, AtWork
<1>3. /\ Len(lines) \in Nat /\ Len(lines') = Len(lines) + 1 /\ lines'[Len(lines) + 1] = line
      /\ \A a \in 1..(Len(lines) + 1) : a = Len(lines) + 1 \/ (a \in 1..Len(lines) /\ lines'[a] = lines[a])
  BY <1>2
<1>4. StreamTypes'
  BY <1>1, <1>2 DEF StreamInv, StreamTypes
<1>5. PromptInv' /\ AnswerInv'
  BY <1>1, <1>2 DEF StreamInv, PromptInv, AnswerInv, Line
<1>6. \A k \in 1..Len(chan) : chan[k] <= emitted
  BY <1>1, <1>2 DEF StreamInv, ChanInv
<1>7. reader = "sending" => held <= emitted /\ held \in Nat
  BY <1>1 DEF StreamInv, HeldInv, StreamTypes
<1>8. \A i \in 1..Len(answer) : Line(answer[i]) <= emitted /\ Line(answer[i]) \in Nat
  BY <1>2 DEF StreamInv, AnswerInv
<1>. HIDE DEF Line
<1>9. ChanInv'
  BY <1>1, <1>2, <1>6 DEF StreamInv, ChanInv
<1>10. HeldInv'
  BY <1>1, <1>2, <1>7 DEF StreamInv, HeldInv
<1>11. LinesInv'
  <2>1. \A a \in 1..Len(lines) : lines[a] <= emitted /\ lines[a] \in Nat
    BY <1>2 DEF StreamInv, LinesInv
  <2>2. line = 0 \/ line = emitted + 1
    OBVIOUS
  <2>3. \A a \in 1..Len(lines') : lines'[a] <= emitted'
    BY <1>1, <1>2, <1>3, <2>1, <2>2
  <2>4. ASSUME NEW a \in 1..Len(lines'), NEW b \in 1..Len(lines'), a < b, lines'[a] # 0, lines'[b] # 0
        PROVE  lines'[a] < lines'[b]
    <3>1. a \in 1..Len(lines) /\ lines'[a] = lines[a]
      BY <1>3, <2>4
    <3>2. CASE b = Len(lines) + 1
      <4>1. line = emitted + 1 /\ lines[a] <= emitted /\ lines[a] \in Nat /\ lines'[b] = line
        BY <1>3, <2>1, <2>2, <2>4, <3>1, <3>2
      <4>2. lines[a] < line
        BY <1>2, <4>1
      <4>. QED  BY <3>1, <4>1, <4>2
    <3>3. CASE b \in 1..Len(lines) /\ lines'[b] = lines[b]
      BY <1>2, <2>4, <3>1, <3>3 DEF StreamInv, LinesInv
    <3>. QED  BY <1>3, <3>2, <3>3
  <2>5. \A a \in 1..Len(lines'), i \in 1..Len(answer) : lines'[a] # 0 => Line(answer[i]) < lines'[a]
    BY <1>2, <1>3, <1>8, <2>2 DEF StreamInv, LinesInv
  <2>6. \A a \in 1..Len(lines'), k \in 1..Len(chan) : lines'[a] # 0 => chan[k] < lines'[a]
    BY <1>2, <1>3, <1>6, <2>2 DEF StreamInv, LinesInv
  <2>7. \A a \in 1..Len(lines') : lines'[a] # 0 /\ reader = "sending" => held < lines'[a]
    BY <1>2, <1>3, <1>7, <2>2 DEF StreamInv, LinesInv
  <2>. QED  BY <1>1, <2>3, <2>4, <2>5, <2>6, <2>7 DEF LinesInv
<1>12. BodyInv'
  BY <1>1, <1>2 DEF StreamInv, BodyInv
<1>13. CountInv'
  <2>. SUFFICES ASSUME Calm', collector \in {"asking", "collecting", "publishing", "telling"}
                PROVE  /\ Len(answer) + Len(chan) + (IF reader = "sending" THEN 1 ELSE 0) + Len(lines') = emitted'
                       /\ \A a \in 1..Len(lines') : lines'[a] # 0
                       /\ body' = "eof" => emitted' = DoneLine
                       /\ reader = "ended" => lines' = <<>> /\ emitted' = DoneLine
    BY <1>1 DEF CountInv
  <2>1. line # Garbled /\ mishaps = 0 /\ Calm
    BY <1>1, <1>2 DEF Calm
  <2>2. /\ Len(answer) + Len(chan) + (IF reader = "sending" THEN 1 ELSE 0) + Len(lines) = emitted
        /\ \A a \in 1..Len(lines) : lines[a] # 0
    BY <2>1 DEF StreamInv, CountInv
  <2>3. Len(answer) \in Nat /\ Len(chan) \in Nat
    BY DEF StreamInv, StreamTypes
  <2>4. Len(answer) + Len(chan) + (IF reader = "sending" THEN 1 ELSE 0) + Len(lines') = emitted'
    BY <1>1, <1>3, <2>2, <2>3
  <2>5. \A a \in 1..Len(lines') : lines'[a] # 0
    BY <1>2, <1>3, <2>1, <2>2
  <2>. QED  BY <1>1, <2>4, <2>5
<1>14. DoneInv'
  <2>1. Calm' /\ collector = "answered" => Calm
    BY <1>1, <1>2 DEF Calm
  <2>. QED  BY <1>1, <2>1 DEF StreamInv, DoneInv
<1>. QED  BY <1>4, <1>5, <1>9, <1>10, <1>11, <1>12, <1>13, <1>14 DEF StreamInv

\* It stops, or its connection breaks.
LEMMA StreamStops ==
    ASSUME StreamInv, StopShort \/ Break
    PROVE  StreamInv'
<1>. USE LineNumbers
<1>1. /\ body = "open" /\ reader # "ended" /\ reader # "none" /\ collector # "asking"
      /\ UNCHANGED <<asked, prompted, emitted, reader, held, chan, collector, answer>>
      /\ mishaps' \in Nat /\ ~Calm' /\ body' \in {"eof", "broken"} /\ (lines = <<>> => lines' = <<>>)
      /\ lines' \in Seq(0..DoneLine) /\ Len(lines') <= Len(lines) /\ \A a \in 1..Len(lines') : lines'[a] = lines[a]
  <2>1. lines \in Seq(0..DoneLine) /\ mishaps \in Nat
    BY DEF StreamInv, StreamTypes
  <2>2. /\ body = "open" /\ reader # "ended" /\ reader # "none" /\ collector # "asking"
        /\ UNCHANGED <<asked, prompted, emitted, reader, held, chan, collector, answer>>
    BY DEF StopShort, Break, Connected, StreamInv, BodyInv
  <2>3. CASE StopShort
    BY <2>1, <2>2, <2>3 DEF StopShort, Mishap, Calm
  <2>4. CASE Break
    <3>1. PICK k \in 0..Len(lines) : lines' = SubSeq(lines, 1, k)
      BY <2>4 DEF Break
    <3>2. \A a \in 1..k : lines[a] \in 0..DoneLine
      BY <2>1, <3>1
    <3>3. lines' \in Seq(0..DoneLine) /\ Len(lines') = k /\ \A a \in 1..k : lines'[a] = lines[a]
      <4>. DEFINE S == 0..DoneLine
      <4>1. lines \in Seq(S) /\ k \in 0..Len(lines) /\ \A a \in 1..k : lines[a] \in S
        BY <2>1, <3>1, <3>2
      <4>. HIDE DEF S
      <4>2. SubSeq(lines, 1, k) \in Seq(S) /\ Len(SubSeq(lines, 1, k)) = k /\ \A a \in 1..k : SubSeq(lines, 1, k)[a] = lines[a]
        BY <4>1
      <4>. QED  BY <3>1, <4>2 DEF S
    <3>4. lines = <<>> => lines' = <<>>
      BY <2>1, <3>3
    <3>. QED  BY <2>1, <2>2, <2>4, <3>1, <3>3, <3>4 DEF Break, Calm
  <2>. QED  BY <2>3, <2>4
<1>2. Len(lines) \in Nat /\ Len(lines') \in Nat /\ AtWork
  BY <1>1 DEF StreamInv, StreamTypes, AtWork
<1>3. StreamTypes' /\ PromptInv' /\ AnswerInv'
  BY <1>1 DEF StreamInv, StreamTypes, PromptInv, AnswerInv, Line
<1>. HIDE DEF Line
<1>4. ChanInv'
  BY <1>1 DEF StreamInv, ChanInv
<1>5. HeldInv'
  BY <1>1 DEF StreamInv, HeldInv
<1>6. LinesInv'
  <2>1. \A a \in 1..Len(lines') : a \in 1..Len(lines) /\ lines'[a] = lines[a]
    BY <1>1, <1>2
  <2>. QED  BY <1>1, <1>2, <2>1 DEF StreamInv, LinesInv, AtWork
<1>7. BodyInv' /\ CountInv' /\ DoneInv'
  BY <1>1 DEF StreamInv, BodyInv, CountInv, DoneInv
<1>. QED  BY <1>3, <1>4, <1>5, <1>6, <1>7 DEF StreamInv

\* What is left of the channel after a chunk is taken from it, or after it is dropped.
LEMMA ChannelLeft ==
    ASSUME NEW S, NEW q \in Seq(S), q # <<>>, NEW r, r = <<>> \/ r = Tail(q)
    PROVE  r \in Seq(S) /\ \A k \in 1..Len(r) : k + 1 \in 1..Len(q) /\ r[k] = q[k + 1]
<1>1. CASE r = <<>>
  <2>1. <<>> \in Seq(S) /\ Len(<<>>) = 0
    BY EmptySeq
  <2>2. \A k \in 1..0 : FALSE
    OBVIOUS
  <2>. QED  BY <1>1, <2>1, <2>2
<1>2. CASE r = Tail(q)
  BY <1>2, WaitingTail
<1>. QED  BY <1>1, <1>2


\* The reader takes a line.
LEMMA StreamReads ==
    ASSUME StreamInv, Read
    PROVE  StreamInv'
<1>. USE LineNumbers
<1>1. /\ reader = "reading" /\ lines # <<>> /\ lines' = Tail(lines)
      /\ \/ Head(lines) = 0 /\ reader' = "reading" /\ held' = held
         \/ Head(lines) # 0 /\ reader' = "sending" /\ held' = Head(lines)
      /\ UNCHANGED <<asked, prompted, body, emitted, chan, collector, answer, mishaps>>
  BY DEF Read
<1>2. collector # "asking" /\ AtWork /\ AtWork'
  BY <1>1 DEF StreamInv, BodyInv, AtWork
<1>3. lines \in Seq(0..DoneLine) /\ emitted \in 0..DoneLine /\ chan \in Seq(1..ReadError)
  BY DEF StreamInv, StreamTypes
<1>4. /\ Head(lines) \in 0..DoneLine /\ Head(lines) = lines[1] /\ Tail(lines) \in Seq(0..DoneLine)
      /\ Len(lines) \in Nat \ {0} /\ Len(Tail(lines)) = Len(lines) - 1
      /\ \A i \in 1..Len(Tail(lines)) : Tail(lines)[i] = lines[i + 1]
  <2>. DEFINE S == 0..DoneLine
  <2>1. lines \in Seq(S)
    BY <1>3
  <2>. HIDE DEF S
  <2>2. /\ Head(lines) \in S /\ Head(lines) = lines[1] /\ Tail(lines) \in Seq(S)
        /\ Len(lines) \in Nat \ {0} /\ Len(Tail(lines)) = Len(lines) - 1
        /\ \A i \in 1..Len(Tail(lines)) : Tail(lines)[i] = lines[i + 1]
    BY <1>1, <2>1, WaitingTail
  <2>. QED  BY <2>2 DEF S
<1>5. \A a \in 1..Len(lines') : a + 1 \in 1..Len(lines) /\ lines'[a] = lines[a + 1]
  BY <1>1, <1>4
<1>6. 1 \in 1..Len(lines) /\ Len(lines') \in Nat /\ Len(lines') + 1 = Len(lines)
  BY <1>1, <1>4
<1>7. StreamTypes'
  BY <1>1, <1>4 DEF StreamInv, StreamTypes
<1>8. PromptInv' /\ AnswerInv'
  BY <1>1 DEF StreamInv, PromptInv, AnswerInv, Line
<1>. HIDE DEF Line
<1>9. ChanInv'
  BY <1>1 DEF StreamInv, ChanInv
<1>10. HeldInv'
  <2>. SUFFICES ASSUME reader' = "sending" PROVE HeldInv'
    BY DEF HeldInv
  <2>1. held' = lines[1] /\ lines[1] # 0 /\ lines[1] \in 0..DoneLine /\ lines[1] <= emitted
    BY <1>1, <1>2, <1>4, <1>6 DEF StreamInv, LinesInv
  <2>2. \A i \in 1..Len(answer) : Line(answer[i]) < lines[1]
    BY <1>2, <1>6, <2>1 DEF StreamInv, LinesInv
  <2>3. \A k \in 1..Len(chan) : chan[k] < lines[1]
    BY <1>2, <1>6, <2>1 DEF StreamInv, LinesInv
  <2>4. held' >= 1 /\ held' <= emitted' /\ held' # ReadError
    BY <1>1, <2>1
  <2>. QED  BY <1>1, <2>1, <2>2, <2>3, <2>4 DEF HeldInv
<1>11. LinesInv'
  <2>1. \A a \in 1..Len(lines') : lines'[a] <= emitted'
    BY <1>1, <1>2, <1>5 DEF StreamInv, LinesInv
  <2>2. \A a, b \in 1..Len(lines') : a < b /\ lines'[a] # 0 /\ lines'[b] # 0 => lines'[a] < lines'[b]
    BY <1>2, <1>5 DEF StreamInv, LinesInv
  <2>3. \A a \in 1..Len(lines'), i \in 1..Len(answer') : lines'[a] # 0 => Line(answer'[i]) < lines'[a]
    BY <1>1, <1>2, <1>5 DEF StreamInv, LinesInv
  <2>4. \A a \in 1..Len(lines'), k \in 1..Len(chan') : lines'[a] # 0 => chan'[k] < lines'[a]
    BY <1>1, <1>2, <1>5 DEF StreamInv, LinesInv
  <2>5. ASSUME NEW a \in 1..Len(lines'), lines'[a] # 0, reader' = "sending" PROVE held' < lines'[a]
    <3>1. held' = lines[1] /\ lines[1] # 0
      BY <1>1, <1>4, <2>5
    <3>2. a + 1 \in 1..Len(lines) /\ lines'[a] = lines[a + 1] /\ 1 < a + 1
      BY <1>5, <1>6
    <3>. QED  BY <1>2, <1>6, <2>5, <3>1, <3>2 DEF StreamInv, LinesInv
  <2>. QED  BY <2>1, <2>2, <2>3, <2>4, <2>5 DEF LinesInv
<1>12. BodyInv'
  BY <1>1, <1>2 DEF StreamInv, BodyInv
<1>13. CountInv'
  <2>. SUFFICES ASSUME Calm, collector \in {"asking", "collecting", "publishing", "telling"}
                PROVE  /\ Len(answer) + Len(chan) + (IF reader' = "sending" THEN 1 ELSE 0) + Len(lines') = emitted
                       /\ \A a \in 1..Len(lines') : lines'[a] # 0
                       /\ body = "eof" => emitted = DoneLine
                       /\ reader' = "ended" => lines' = <<>> /\ emitted = DoneLine
    BY <1>1 DEF CountInv, Calm
  <2>1. /\ Len(answer) + Len(chan) + (IF reader = "sending" THEN 1 ELSE 0) + Len(lines) = emitted
        /\ (\A a \in 1..Len(lines) : lines[a] # 0) /\ (body = "eof" => emitted = DoneLine)
    BY DEF StreamInv, CountInv
  <2>2. reader' = "sending"
    BY <1>1, <1>4, <1>6, <2>1
  <2>3. Len(answer) \in Nat /\ Len(chan) \in Nat
    BY DEF StreamInv, StreamTypes
  <2>4. Len(answer) + Len(chan) + 0 + Len(lines) = emitted
    BY <1>1, <2>1
  <2>5. Len(answer) + Len(chan) + 1 + Len(lines') = emitted
    BY <1>6, <2>3, <2>4
  <2>6. \A a \in 1..Len(lines') : lines'[a] # 0
    BY <1>5, <2>1
  <2>. QED  BY <2>1, <2>2, <2>5, <2>6
<1>14. DoneInv'
  BY <1>1 DEF StreamInv, DoneInv, Calm
<1>. QED  BY <1>7, <1>8, <1>9, <1>10, <1>11, <1>12, <1>13, <1>14 DEF StreamInv

\* The reader comes to the end of the response.
LEMMA StreamReadEnds ==
    ASSUME StreamInv, ReadEnd
    PROVE  StreamInv'
<1>. USE LineNumbers
<1>1. /\ reader = "reading" /\ lines = <<>> /\ lines' = lines
      /\ \/ body = "eof" /\ reader' = "ended" /\ held' = held
         \/ body = "broken" /\ reader' = "sending" /\ held' = ReadError
      /\ UNCHANGED <<asked, prompted, body, emitted, chan, collector, answer, mishaps>>
  BY DEF ReadEnd
<1>2. collector # "asking" /\ AtWork
  BY <1>1 DEF StreamInv, BodyInv, AtWork
<1>3. StreamTypes' /\ PromptInv' /\ AnswerInv'
  <2>1. held' \in 0..ReadError
    BY <1>1 DEF StreamInv, StreamTypes
  <2>. QED  BY <1>1, <2>1 DEF StreamInv, StreamTypes, PromptInv, AnswerInv, Line
<1>4. \A i \in 1..Len(answer) : Line(answer[i]) < ReadError
  <2>1. emitted \in 0..DoneLine
    BY DEF StreamInv, StreamTypes
  <2>2. \A i \in 1..Len(answer) : Line(answer[i]) \in 1..emitted
    BY DEF StreamInv, AnswerInv
  <2>. HIDE DEF Line
  <2>. QED  BY <2>1, <2>2
<1>. HIDE DEF Line
<1>5. ChanInv'
  BY <1>1 DEF StreamInv, ChanInv
<1>6. \A k \in 1..Len(chan) : chan[k] < ReadError
  <2>1. \A k \in 1..Len(chan) : chan[k] \in 1..ReadError /\ ~(chan[k] >= DoneLine)
    BY <1>1 DEF StreamInv, StreamTypes, ChanInv
  <2>. QED  BY <2>1
<1>7. HeldInv'
  BY <1>1, <1>4, <1>6 DEF HeldInv
<1>8. LinesInv'
  BY <1>1 DEF LinesInv
<1>9. BodyInv'
  BY <1>1, <1>2 DEF StreamInv, BodyInv
<1>10. CountInv'
  BY <1>1 DEF StreamInv, CountInv, Calm
<1>11. DoneInv'
  BY <1>1 DEF StreamInv, DoneInv, Calm
<1>. QED  BY <1>3, <1>5, <1>7, <1>8, <1>9, <1>10, <1>11 DEF StreamInv

\* A chunk goes into the channel.
LEMMA StreamSends ==
    ASSUME StreamInv, Send
    PROVE  StreamInv'
<1>. USE LineNumbers
<1>1. /\ reader = "sending" /\ chan' = Append(chan, held)
      /\ collector \in {"collecting", "publishing", "telling"}
      /\ reader' = (IF held >= DoneLine THEN "ended" ELSE "reading")
      /\ UNCHANGED <<asked, prompted, body, emitted, lines, held, collector, answer, mishaps>>
  BY DEF Send, Receiving
<1>2. /\ held \in 1..ReadError /\ emitted \in 0..DoneLine /\ chan \in Seq(1..ReadError)
      /\ lines \in Seq(0..DoneLine) /\ (held <= emitted \/ held = ReadError) /\ AtWork
      /\ (held = ReadError => body = "broken" /\ lines = <<>>)
  BY <1>1 DEF StreamInv, StreamTypes, HeldInv, AtWork
<1>3. /\ Len(chan) \in Nat /\ Len(chan') = Len(chan) + 1 /\ chan'[Len(chan) + 1] = held
      /\ \A k \in 1..(Len(chan) + 1) : k = Len(chan) + 1 \/ (k \in 1..Len(chan) /\ chan'[k] = chan[k])
  BY <1>1, <1>2
<1>4. StreamTypes'
  <2>1. chan' \in Seq(1..ReadError)
    BY <1>1, <1>2
  <2>. QED  BY <1>1, <2>1 DEF StreamInv, StreamTypes
<1>5. PromptInv' /\ AnswerInv'
  BY <1>1 DEF StreamInv, PromptInv, AnswerInv, Line
<1>. HIDE DEF Line
<1>6. \A k \in 1..Len(chan) : chan[k] < held /\ ~(chan[k] >= DoneLine) /\ chan[k] <= emitted /\ chan[k] # ReadError
  <2>1. \A k \in 1..Len(chan) : chan[k] < held /\ ~(chan[k] >= DoneLine)
    BY <1>1 DEF StreamInv, HeldInv, ChanInv
  <2>2. \A k \in 1..Len(chan) : chan[k] # ReadError
    BY <2>1
  <2>. QED  BY <2>1, <2>2 DEF StreamInv, ChanInv
<1>7. ChanInv'
  <2>1. \A k \in 1..Len(chan') : (chan'[k] <= emitted \/ chan'[k] = ReadError) /\ (chan'[k] >= DoneLine => reader' = "ended")
    BY <1>1, <1>2, <1>3, <1>6
  <2>2. \A k \in 1..Len(chan') : chan'[k] = ReadError => body = "broken"
    BY <1>2, <1>3, <1>6
  <2>3. ASSUME NEW k \in 1..Len(chan'), NEW l \in 1..Len(chan'), k < l PROVE chan'[k] < chan'[l]
    <3>1. k \in 1..Len(chan) /\ chan'[k] = chan[k]
      BY <1>3, <2>3
    <3>2. CASE l = Len(chan) + 1
      BY <1>3, <1>6, <3>1, <3>2
    <3>3. CASE l \in 1..Len(chan) /\ chan'[l] = chan[l]
      BY <2>3, <3>1, <3>3 DEF StreamInv, ChanInv
    <3>. QED  BY <1>3, <3>2, <3>3
  <2>4. \A i \in 1..Len(answer), k \in 1..Len(chan') : Line(answer[i]) < chan'[k]
    BY <1>1, <1>3 DEF StreamInv, HeldInv, ChanInv
  <2>. QED  BY <1>1, <2>1, <2>2, <2>3, <2>4 DEF ChanInv
<1>8. HeldInv'
  BY <1>1 DEF HeldInv
<1>9. LinesInv'
  <2>. SUFFICES ASSUME AtWork' PROVE LinesInv'
    BY DEF LinesInv
  <2>1. \A a \in 1..Len(lines), k \in 1..Len(chan') : lines[a] # 0 => chan'[k] < lines[a]
    BY <1>1, <1>2, <1>3 DEF StreamInv, LinesInv
  <2>2. reader' # "sending"
    BY <1>1
  <2>. QED  BY <1>1, <1>2, <2>1, <2>2 DEF StreamInv, LinesInv
<1>10. BodyInv'
  BY <1>1 DEF StreamInv, BodyInv
<1>11. CountInv'
  <2>. SUFFICES ASSUME Calm
                PROVE  /\ Len(answer) + Len(chan') + (IF reader' = "sending" THEN 1 ELSE 0) + Len(lines) = emitted
                       /\ \A a \in 1..Len(lines) : lines[a] # 0
                       /\ body = "eof" => emitted = DoneLine
                       /\ reader' = "ended" => lines = <<>> /\ emitted = DoneLine
    BY <1>1 DEF CountInv, Calm
  <2>1. /\ Len(answer) + Len(chan) + 1 + Len(lines) = emitted
        /\ (\A a \in 1..Len(lines) : lines[a] # 0) /\ (body = "eof" => emitted = DoneLine)
    BY <1>1 DEF StreamInv, CountInv
  <2>2. Len(answer) \in Nat /\ Len(lines) \in Nat /\ reader' # "sending"
    BY <1>1 DEF StreamInv, StreamTypes
  <2>3. Len(answer) + Len(chan') + 0 + Len(lines) = emitted
    BY <1>3, <2>1, <2>2
  <2>4. ASSUME reader' = "ended" PROVE lines = <<>> /\ emitted = DoneLine
    <3>1. held >= DoneLine /\ held # ReadError
      BY <1>1, <1>2, <2>4 DEF Calm
    <3>2. emitted = DoneLine /\ held = DoneLine
      BY <1>2, <3>1
    <3>3. \A a \in 1..Len(lines) : lines[a] <= emitted /\ held < lines[a]
      BY <1>1, <1>2, <2>1 DEF StreamInv, LinesInv
    <3>4. \A a \in 1..Len(lines) : lines[a] \in 0..DoneLine
      BY <1>2
    <3>5. ~(1 \in 1..Len(lines))
      BY <3>2, <3>3, <3>4
    <3>6. Len(lines) = 0
      BY <2>2, <3>5
    <3>. QED  BY <1>2, <3>2, <3>6
  <2>. QED  BY <2>1, <2>2, <2>3, <2>4
<1>12. DoneInv'
  BY <1>1 DEF DoneInv
<1>. QED  BY <1>4, <1>5, <1>7, <1>8, <1>9, <1>10, <1>11, <1>12 DEF StreamInv

\* The handler takes a chunk, or an error.
LEMMA StreamTakes ==
    ASSUME StreamInv, TakeChunk
    PROVE  StreamInv'
<1>. USE LineNumbers
<1>. DEFINE line == Head(chan)
            chunk == Chunk(line)
            n == Len(answer)
<1>1. /\ collector = "collecting" /\ chan # <<>> /\ line # ReadError /\ answer' = Append(answer, chunk)
      /\ collector' \in {"collecting", "publishing"} /\ chan' = Tail(chan)
      /\ UNCHANGED <<asked, prompted, body, emitted, lines, reader, held, mishaps>>
  BY DEF TakeChunk
<1>2. chan \in Seq(1..ReadError) /\ answer \in Seq(ChunkType) /\ n \in Nat /\ emitted \in 0..DoneLine /\ Len(lines) \in Nat
  BY DEF StreamInv, StreamTypes
<1>3. /\ line \in 1..ReadError /\ line = chan[1] /\ Tail(chan) \in Seq(1..ReadError)
      /\ Len(chan) \in Nat \ {0} /\ Len(Tail(chan)) = Len(chan) - 1
      /\ \A k \in 1..Len(Tail(chan)) : Tail(chan)[k] = chan[k + 1]
  <2>. DEFINE S == 1..ReadError
  <2>1. chan \in Seq(S)
    BY <1>2
  <2>. HIDE DEF S
  <2>2. /\ Head(chan) \in S /\ Head(chan) = chan[1] /\ Tail(chan) \in Seq(S)
        /\ Len(chan) \in Nat \ {0} /\ Len(Tail(chan)) = Len(chan) - 1
        /\ \A i \in 1..Len(Tail(chan)) : Tail(chan)[i] = chan[i + 1]
    BY <1>1, <2>1, WaitingTail
  <2>. QED  BY <2>2 DEF S
<1>4. 1 \in 1..Len(chan) /\ line <= emitted /\ line \in 1..DoneLine
  <2>1. 1 \in 1..Len(chan)
    BY <1>3
  <2>2. line <= emitted
    BY <1>1, <1>3, <2>1 DEF StreamInv, ChanInv
  <2>. QED  BY <1>1, <1>2, <1>3, <2>1, <2>2
<1>5. chunk \in ChunkType /\ Line(chunk) = line /\ (~chunk.is_final => chunk.tokens_generated = n + 1)
  <2>1. CASE line = DoneLine
    <3>1. chunk = [chunk_index |-> n, token |-> 0, is_final |-> TRUE, tokens_generated |-> AnswerLength]
      BY <2>1 DEF Chunk
    <3>. HIDE DEF chunk, n
    <3>. QED  BY <1>2, <2>1, <3>1 DEF ChunkType, Line
  <2>2. CASE line # DoneLine
    <3>1. chunk = [chunk_index |-> n, token |-> line, is_final |-> FALSE, tokens_generated |-> n + 1]
      BY <2>2 DEF Chunk
    <3>2. line \in 0..AnswerLength
      BY <1>4, <2>2
    <3>. HIDE DEF chunk, n, line
    <3>. QED  BY <1>2, <3>1, <3>2 DEF ChunkType, Line
  <2>. QED  BY <2>1, <2>2
<1>6. chan' \in Seq(1..ReadError) /\ \A k \in 1..Len(chan') : k + 1 \in 1..Len(chan) /\ chan'[k] = chan[k + 1]
  <2>1. chan' = <<>> \/ chan' = Tail(chan)
    BY <1>1
  <2>. QED  BY <1>1, <1>2, <2>1, ChannelLeft
<1>7. /\ answer' \in Seq(ChunkType) /\ Len(answer') = n + 1 /\ answer'[n + 1] = chunk
      /\ \A i \in 1..(n + 1) : i = n + 1 \/ (i \in 1..n /\ answer'[i] = answer[i])
  <2>. HIDE DEF chunk
  <2>. QED  BY <1>1, <1>2, <1>5
<1>8. \A i \in 1..n : Line(answer[i]) \in 1..emitted /\ Line(answer[i]) < line
  BY <1>3, <1>4 DEF StreamInv, AnswerInv, ChanInv
<1>. HIDE DEF chunk, line, n
<1>9. StreamTypes' /\ PromptInv'
  BY <1>1, <1>6, <1>7 DEF StreamInv, StreamTypes, PromptInv
<1>. HIDE DEF Line
<1>20. \A i \in 1..Len(answer') : (i = n + 1 /\ Line(answer'[i]) = line) \/ (i \in 1..n /\ answer'[i] = answer[i])
  BY <1>5, <1>7
<1>10. AnswerInv'
  <2>1. \A i \in 1..Len(answer') : Line(answer'[i]) \in 1..emitted
    <3>. SUFFICES ASSUME NEW i \in 1..Len(answer') PROVE Line(answer'[i]) \in 1..emitted
      OBVIOUS
    <3>1. CASE i = n + 1 /\ Line(answer'[i]) = line
      <4>1. line \in 1..emitted
        BY <1>2, <1>4
      <4>. QED  BY <3>1, <4>1
    <3>2. CASE i \in 1..n /\ answer'[i] = answer[i]
      BY <1>8, <3>2
    <3>. QED  BY <1>20, <3>1, <3>2
  <2>2. \A i \in 1..Len(answer') : ~answer'[i].is_final => answer'[i].tokens_generated = i
    BY <1>5, <1>7 DEF StreamInv, AnswerInv, n
  <2>3. ASSUME NEW i \in 1..Len(answer'), NEW j \in 1..Len(answer'), i < j PROVE Line(answer'[i]) < Line(answer'[j])
    <3>1. i \in 1..n /\ answer'[i] = answer[i]
      <4>1. i # n + 1 /\ i \in 1..(n + 1)
        BY <1>2, <1>7, <2>3
      <4>. QED  BY <1>7, <4>1
    <3>2. CASE j = n + 1 /\ Line(answer'[j]) = line
      BY <1>8, <3>1, <3>2
    <3>3. CASE j \in 1..n /\ answer'[j] = answer[j]
      BY <2>3, <3>1, <3>3 DEF StreamInv, AnswerInv, n
    <3>. QED  BY <1>20, <3>2, <3>3
  <2>. QED  BY <1>1, <2>1, <2>2, <2>3 DEF AnswerInv
<1>11. ChanInv'
  <2>1. \A k \in 1..Len(chan') : (chan'[k] <= emitted \/ chan'[k] = ReadError) /\ (chan'[k] >= DoneLine => reader = "ended")
    BY <1>6 DEF StreamInv, ChanInv
  <2>2. \A k \in 1..Len(chan') : chan'[k] = ReadError => body = "broken"
    BY <1>6 DEF StreamInv, ChanInv
  <2>3. \A k, l \in 1..Len(chan') : k < l => chan'[k] < chan'[l]
    BY <1>6 DEF StreamInv, ChanInv
  <2>4. \A k \in 1..Len(chan') : line < chan'[k]
    <3>1. \A k \in 1..Len(chan') : 1 < k + 1
      OBVIOUS
    <3>. QED  BY <1>3, <1>4, <1>6, <3>1 DEF StreamInv, ChanInv
  <2>5. \A i \in 1..n, k \in 1..Len(chan') : Line(answer[i]) < chan'[k]
    BY <1>6 DEF StreamInv, ChanInv, n
  <2>6. \A i \in 1..Len(answer'), k \in 1..Len(chan') : Line(answer'[i]) < chan'[k]
    BY <1>20, <2>4, <2>5
  <2>. QED  BY <1>1, <2>1, <2>2, <2>3, <2>6 DEF ChanInv
<1>12. HeldInv'
  <2>. SUFFICES ASSUME reader = "sending" PROVE HeldInv'
    BY <1>1 DEF HeldInv
  <2>1. \A i \in 1..Len(answer') : Line(answer'[i]) < held
    BY <1>3, <1>4, <1>20 DEF StreamInv, HeldInv, n
  <2>2. \A k \in 1..Len(chan') : chan'[k] < held
    BY <1>6 DEF StreamInv, HeldInv
  <2>. QED  BY <1>1, <2>1, <2>2 DEF StreamInv, HeldInv
<1>13. LinesInv'
  <2>. SUFFICES ASSUME AtWork PROVE LinesInv'
    BY <1>1 DEF LinesInv, AtWork
  <2>1. \A a \in 1..Len(lines), i \in 1..Len(answer') : lines[a] # 0 => Line(answer'[i]) < lines[a]
    BY <1>3, <1>4, <1>20 DEF StreamInv, LinesInv, n
  <2>2. \A a \in 1..Len(lines), k \in 1..Len(chan') : lines[a] # 0 => chan'[k] < lines[a]
    BY <1>6 DEF StreamInv, LinesInv
  <2>. QED  BY <1>1, <2>1, <2>2 DEF StreamInv, LinesInv
<1>14. BodyInv'
  <2>1. reader # "none" /\ collector' # "asking"
    BY <1>1 DEF StreamInv, BodyInv
  <2>2. answer' # <<>>
    BY <1>2, <1>7
  <2>. QED  BY <1>1, <2>1, <2>2 DEF StreamInv, BodyInv
<1>15. CountInv'
  <2>. SUFFICES ASSUME Calm PROVE CountInv'
    BY <1>1 DEF CountInv, Calm
  <2>1. Len(answer') + Len(chan') = n + Len(chan) /\ Len(chan') \in Nat /\ Len(answer') \in Nat
    <3>1. Len(answer') = n + 1
      BY <1>7
    <3>2. Len(chan') = Len(chan) - 1 /\ Len(chan) \in Nat \ {0}
      BY <1>1, <1>3
    <3>. QED  BY <1>2, <3>1, <3>2
  <2>2. n + Len(chan) + (IF reader = "sending" THEN 1 ELSE 0) + Len(lines) = emitted
    BY <1>1 DEF StreamInv, CountInv, n
  <2>3. Len(answer') + Len(chan') + (IF reader = "sending" THEN 1 ELSE 0) + Len(lines) = emitted
    BY <1>2, <1>3, <2>1, <2>2
  <2>. QED  BY <1>1, <2>3 DEF StreamInv, CountInv, Calm
<1>16. DoneInv'
  BY <1>1 DEF DoneInv
<1>. QED  BY <1>9, <1>10, <1>11, <1>12, <1>13, <1>14, <1>15, <1>16 DEF StreamInv

LEMMA StreamTakesError ==
    ASSUME StreamInv, TakeError
    PROVE  StreamInv'
<1>. USE LineNumbers
<1>1. /\ collector = "collecting" /\ chan # <<>> /\ Head(chan) = ReadError
      /\ chan' = Tail(chan) /\ collector' \in {"telling", "collecting"}
      /\ UNCHANGED <<asked, prompted, body, emitted, lines, reader, held, answer, mishaps>>
  BY DEF TakeError
<1>2. chan \in Seq(1..ReadError)
  BY DEF StreamInv, StreamTypes
<1>3. /\ Head(chan) = chan[1] /\ Tail(chan) \in Seq(1..ReadError)
      /\ Len(chan) \in Nat \ {0} /\ Len(Tail(chan)) = Len(chan) - 1
      /\ \A k \in 1..Len(Tail(chan)) : Tail(chan)[k] = chan[k + 1]
  <2>. DEFINE S == 1..ReadError
  <2>1. chan \in Seq(S)
    BY <1>2
  <2>. HIDE DEF S
  <2>2. /\ Head(chan) \in S /\ Head(chan) = chan[1] /\ Tail(chan) \in Seq(S)
        /\ Len(chan) \in Nat \ {0} /\ Len(Tail(chan)) = Len(chan) - 1
        /\ \A i \in 1..Len(Tail(chan)) : Tail(chan)[i] = chan[i + 1]
    BY <1>1, <2>1, WaitingTail
  <2>. QED  BY <2>2 DEF S
<1>4. chan' \in Seq(1..ReadError) /\ \A k \in 1..Len(chan') : k + 1 \in 1..Len(chan) /\ chan'[k] = chan[k + 1]
  <2>1. chan' = <<>> \/ chan' = Tail(chan)
    BY <1>1
  <2>. QED  BY <1>1, <1>2, <2>1, ChannelLeft
<1>5. body = "broken" /\ reader # "none"
  <2>1. 1 \in 1..Len(chan) /\ chan[1] = ReadError
    BY <1>1, <1>3
  <2>. QED  BY <1>1, <2>1 DEF StreamInv, ChanInv, BodyInv
<1>6. StreamTypes' /\ PromptInv' /\ AnswerInv'
  BY <1>1, <1>4 DEF StreamInv, StreamTypes, PromptInv, AnswerInv, Line
<1>. HIDE DEF Line
<1>7. ChanInv' /\ HeldInv' /\ LinesInv'
  <2>1. ChanInv'
    BY <1>1, <1>4 DEF StreamInv, ChanInv
  <2>2. HeldInv'
    BY <1>1, <1>4 DEF StreamInv, HeldInv
  <2>3. LinesInv'
    BY <1>1, <1>4 DEF StreamInv, LinesInv, AtWork
  <2>. QED  BY <2>1, <2>2, <2>3
<1>8. BodyInv' /\ CountInv' /\ DoneInv'
  BY <1>1, <1>5 DEF StreamInv, BodyInv, CountInv, DoneInv, Calm
<1>. QED  BY <1>6, <1>7, <1>8 DEF StreamInv

\* The handler is done, or dropped, or the reader finds it gone.
LEMMA StreamLeaves ==
    ASSUME StreamInv, Answered \/ HandlerDropped \/ SendFails
    PROVE  StreamInv'
<1>. USE LineNumbers
<1>1. /\ UNCHANGED <<asked, prompted, body, emitted, lines, held, answer, mishaps>>
      /\ chan' = chan \/ (chan' = <<>> /\ collector' = "gone" /\ reader' = reader)
      /\ \/ reader' = reader
         \/ /\ reader' = "ended" /\ reader = "sending" /\ collector' = collector
            /\ collector \notin {"collecting", "publishing", "telling"}
      /\ \/ collector' = collector \/ collector' = "gone"
         \/ collector' = "answered" /\ collector = "collecting" /\ chan = <<>> /\ reader = "ended"
      /\ collector' = "asking" => collector = "asking"
  BY DEF Answered, HandlerDropped, SendFails, Receiving
<1>2. StreamTypes' /\ PromptInv' /\ AnswerInv'
  <2>1. chan' \in Seq(1..ReadError)
    <3>1. chan \in Seq(1..ReadError)
      BY DEF StreamInv, StreamTypes
    <3>2. chan' = chan \/ chan' = <<>>
      BY <1>1
    <3>. QED  BY <3>1, <3>2, EmptySeq
  <2>. QED  BY <1>1, <2>1 DEF StreamInv, StreamTypes, PromptInv, AnswerInv, Line
<1>. HIDE DEF Line
<1>3. ChanInv'
  BY <1>1 DEF StreamInv, ChanInv
<1>4. HeldInv'
  BY <1>1 DEF StreamInv, HeldInv
<1>5. LinesInv'
  BY <1>1 DEF StreamInv, LinesInv, AtWork
<1>6. BodyInv'
  BY <1>1 DEF StreamInv, BodyInv
<1>7. CountInv'
  <2>. SUFFICES ASSUME collector' \in {"asking", "collecting", "publishing", "telling"} PROVE CountInv'
    BY DEF CountInv
  <2>1. reader' = reader /\ chan' = chan /\ collector' = collector
    <3>1. collector = "asking" => reader = "none"
      BY DEF StreamInv, BodyInv
    <3>. QED  BY <1>1, <3>1
  <2>. QED  BY <1>1, <2>1 DEF StreamInv, CountInv, Calm
<1>8. DoneInv'
  <2>. SUFFICES ASSUME Calm, collector' = "answered" PROVE Len(answer) = DoneLine
    BY <1>1 DEF DoneInv, Calm
  <2>1. CASE collector = "answered"
    BY <2>1 DEF StreamInv, DoneInv
  <2>2. CASE collector = "collecting" /\ chan = <<>> /\ reader = "ended"
    <3>1. Len(answer) + 0 + 0 + 0 = emitted /\ emitted = DoneLine /\ Len(answer) \in Nat
      BY <2>2 DEF StreamInv, CountInv, StreamTypes
    <3>. QED  BY <3>1
  <2>. QED  BY <1>1, <2>1, <2>2
<1>. QED  BY <1>2, <1>3, <1>4, <1>5, <1>6, <1>7, <1>8 DEF StreamInv

\* A chunk, or the error, has been published.
LEMMA StreamPublishes ==
    ASSUME StreamInv, SwarmAnswers
    PROVE  StreamInv'
<1>. USE LineNumbers
<1>1. /\ UNCHANGED <<asked, prompted, body, emitted, lines, reader, held, answer, mishaps>>
      /\ \/ collector = "publishing" /\ collector' = "collecting" /\ chan' = chan
         \/ collector = "publishing" /\ Last(answer).is_final /\ collector' = "answered" /\ chan' = <<>>
         \/ collector = "telling" /\ collector' = "failed" /\ chan' = <<>>
  BY DEF SwarmAnswers
<1>2. StreamTypes' /\ PromptInv' /\ AnswerInv'
  <2>1. chan' \in Seq(1..ReadError)
    <3>1. chan \in Seq(1..ReadError)
      BY DEF StreamInv, StreamTypes
    <3>2. chan' = chan \/ chan' = <<>>
      BY <1>1
    <3>. QED  BY <3>1, <3>2, EmptySeq
  <2>. QED  BY <1>1, <2>1 DEF StreamInv, StreamTypes, PromptInv, AnswerInv, Line
<1>3. DoneInv'
  <2>. SUFFICES ASSUME Calm, collector = "publishing", Last(answer).is_final PROVE Len(answer) = DoneLine
    BY <1>1 DEF DoneInv, Calm
  <2>. DEFINE n == Len(answer)
  <2>1. /\ emitted \in 0..DoneLine /\ lines \in Seq(0..DoneLine) /\ chan \in Seq(1..ReadError)
        /\ held \in 0..ReadError /\ answer \in Seq(ChunkType)
    BY DEF StreamInv, StreamTypes
  <2>2. answer # <<>> /\ reader # "none"
    BY DEF StreamInv, BodyInv
  <2>3. n \in 1..n /\ n \in Nat /\ Line(answer[n]) = DoneLine
    BY <2>1, <2>2, EmptySeq DEF Last, Line
  <2>4. DoneLine <= emitted
    BY <2>1, <2>3 DEF StreamInv, AnswerInv
  <2>. HIDE DEF Line
  <2>10. /\ body # "broken"
         /\ \A k \in 1..Len(chan) : Line(answer[n]) < chan[k] /\ chan[k] # ReadError
         /\ reader = "sending" => Line(answer[n]) < held /\ held # ReadError
    BY <2>3 DEF StreamInv, ChanInv, HeldInv, Calm
  <2>. HIDE DEF n
  <2>5. chan = <<>>
    <3>3. \A k \in 1..Len(chan) : chan[k] \in 1..ReadError
      BY <2>1
    <3>4. \A k \in 1..Len(chan) : DoneLine < chan[k] /\ chan[k] # ReadError
      BY <2>3, <2>10
    <3>1. \A k \in 1..Len(chan) : chan[k] \in 1..ReadError /\ DoneLine < chan[k] /\ chan[k] # ReadError
      BY <3>3, <3>4
    <3>5. Len(chan) \in Nat
      BY <2>1
    <3>2. ~(1 \in 1..Len(chan))
      <4>. SUFFICES ASSUME 1 \in 1..Len(chan) PROVE FALSE
        OBVIOUS
      <4>1. chan[1] \in 1..ReadError /\ DoneLine < chan[1] /\ chan[1] # ReadError
        BY <3>1
      <4>. QED  BY <4>1
    <3>. QED  BY <2>1, <3>2, <3>5, EmptySeq
  <2>6. reader # "sending"
    BY <2>1, <2>3, <2>10
  <2>7. /\ n + Len(chan) + 0 + Len(lines) = emitted
        /\ \A a \in 1..Len(lines) : lines[a] # 0
        /\ reader = "ended" => lines = <<>>
    BY <2>6 DEF StreamInv, CountInv, n
  <2>8. Len(lines) = 0
    <3>1. CASE reader = "ended"
      BY <2>7, <3>1
    <3>2. CASE reader = "reading"
      <4>1. \A a \in 1..Len(lines) : lines[a] \in 0..DoneLine /\ DoneLine < lines[a]
        BY <2>1, <2>3, <2>7, <3>2 DEF StreamInv, LinesInv, AtWork, n
      <4>2. ~(1 \in 1..Len(lines)) /\ Len(lines) \in Nat
        BY <2>1, <4>1
      <4>. QED  BY <4>2
    <3>. QED  BY <2>2, <2>6, <3>1, <3>2 DEF StreamInv, StreamTypes
  <2>9. n = DoneLine
    BY <2>1, <2>3, <2>4, <2>5, <2>7, <2>8
  <2>. QED  BY <2>9 DEF n
<1>. HIDE DEF Line
<1>4. ChanInv'
  BY <1>1 DEF StreamInv, ChanInv
<1>5. HeldInv'
  BY <1>1 DEF StreamInv, HeldInv
<1>6. LinesInv'
  BY <1>1 DEF StreamInv, LinesInv, AtWork
<1>7. BodyInv'
  BY <1>1 DEF StreamInv, BodyInv
<1>8. CountInv'
  BY <1>1 DEF StreamInv, CountInv, Calm
<1>. QED  BY <1>2, <1>3, <1>4, <1>5, <1>6, <1>7, <1>8 DEF StreamInv

LEMMA StreamStep == StreamInv /\ [StreamNext]_streamVars => StreamInv'
<1>. SUFFICES ASSUME StreamInv, [StreamNext]_streamVars PROVE StreamInv'
  OBVIOUS
<1>1. CASE UNCHANGED streamVars \/ SwarmSticks
  <2>1. UNCHANGED <<asked, prompted, body, emitted, lines, reader, held, chan, collector, answer, mishaps>>
    BY <1>1 DEF SwarmSticks, streamVars
  <2>. QED  BY <2>1 DEF StreamInv, StreamTypes, PromptInv, AnswerInv, ChanInv, HeldInv, LinesInv, BodyInv,
                        CountInv, DoneInv, Calm, AtWork, Line
<1>2. CASE StreamNext
  BY <1>2, StreamAsked, StreamEmits, StreamStops, StreamReads, StreamReadEnds, StreamSends, StreamTakes,
     StreamTakesError, StreamPublishes, StreamLeaves, <1>1 DEF StreamNext, StreamTasks
<1>. QED  BY <1>1, <1>2

\* What the model is asked and what a client is given, for any messages, token budget, length of
\* answer, channel and interleaving of Ollama, the reader, the handler and the swarm task.  The last
\* message is asked as the user's, once more in front when it is a system message or a peer's; every
\* other is asked once, in order and in its role, when it fits the budget with those after it, and not
\* at all when it does not; every token is collected once and in order, all of them unless something
\* broke (node/src/api/mod.rs:319-367, support.rs:37-67, inference/src/lib.rs:48-174,
\* ollama.rs:219-277).
THEOREM StreamsAnswerRight == StreamSpec => []AnswersAreRight
<1>1. StreamSpec => []StreamInv
  BY StreamInitInv, StreamStep, PTL DEF StreamSpec
<1>2. StreamInv => AnswersAreRight
  <2>. SUFFICES ASSUME StreamInv PROVE AskedAsSaid /\ CollectedInOrder
    BY DEF AnswersAreRight
  <2>1. AskedAsSaid
    BY AskedRight DEF StreamInv, PromptInv
  <2>2. answer \in Seq(ChunkType) /\ DOMAIN answer = 1..Len(answer)
    BY DEF StreamInv, StreamTypes
  <2>3. ASSUME NEW i \in 1..Len(answer), NEW j \in 1..Len(answer), i < j
        PROVE  /\ ~answer[i].is_final
               /\ answer[j].is_final \/ answer[i].token < answer[j].token
               /\ answer[i].tokens_generated < answer[j].tokens_generated \/ answer[j].is_final
    <3>1. Line(answer[i]) < Line(answer[j])
      BY <2>3 DEF StreamInv, AnswerInv
    <3>2. Line(answer[j]) \in 1..DoneLine
      <4>1. Line(answer[j]) \in 1..emitted
        BY DEF StreamInv, AnswerInv
      <4>2. emitted \in 0..DoneLine
        BY DEF StreamInv, StreamTypes
      <4>. HIDE DEF Line
      <4>. QED  BY <4>1, <4>2, LineNumbers
    <3>3. ~answer[i].is_final
      BY <3>1, <3>2, LineNumbers DEF Line
    <3>4. answer[j].is_final \/ answer[i].token < answer[j].token
      BY <3>1, <3>3 DEF Line
    <3>5. answer[i].tokens_generated = i /\ (answer[j].is_final \/ answer[j].tokens_generated = j)
      BY <3>3 DEF StreamInv, AnswerInv
    <3>. QED  BY <2>3, <3>3, <3>4, <3>5
  <2>4. collector = "answered" /\ mishaps = 0 /\ body # "broken" => Len(answer) = DoneLine
    BY DEF StreamInv, DoneInv, Calm
  <2>5. CollectedInOrder
    BY <2>2, <2>3, <2>4 DEF CollectedInOrder
  <2>. QED  BY <2>1, <2>5
<1>. QED  BY <1>1, <1>2, PTL
==============================================================================
