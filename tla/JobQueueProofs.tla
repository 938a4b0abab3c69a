--------------------------- MODULE JobQueueProofs ---------------------------
(***************************************************************************)
(* Proofs about JobQueue, for any number of replicas, requests and         *)
(* permits, either store, and any bounds.                                  *)
(***************************************************************************)
EXTENDS JobQueue, FiniteSetTheorems, TLAPS

\* Any set of requests is finite and has a size.
LEMMA RequestSets ==
    ASSUME NEW S \in SUBSET Requests
    PROVE  IsFiniteSet(S) /\ Cardinality(S) \in Nat
  BY ConstantsAssumption, FS_Subset, FS_CardinalityType

LEMMA InsideFacts ==
    ASSUME NEW n \in Nodes
    PROVE  /\ Inside(n) \in SUBSET Requests
           /\ IsFiniteSet(Inside(n)) /\ Cardinality(Inside(n)) \in Nat
<1>1. Inside(n) \in SUBSET Requests
  BY DEF Inside
<1>. QED  BY <1>1, RequestSets

-----------------------------------------------------------------------------
(* How the handlers inside a gate change when one program counter moves.   *)

\* A handler that stays inside, or stays outside, leaves the gates alone.
LEMMA InsideKept ==
    ASSUME pc \in [Requests -> {"idle"} \union Holding \union Ended],
           NEW r \in Requests, NEW to,
           pc' = [pc EXCEPT ![r] = to],
           pc[r] \in Holding <=> to \in Holding
    PROVE  \A n \in Nodes : Inside(n)' = Inside(n)
  BY DEF Inside

\* A handler that enters is added to the gate of its replica.
LEMMA InsideEntered ==
    ASSUME pc \in [Requests -> {"idle"} \union Holding \union Ended],
           NEW r \in Requests, NEW to \in Holding,
           pc' = [pc EXCEPT ![r] = to],
           pc[r] \notin Holding
    PROVE  /\ Home[r] \in Nodes
           /\ r \notin Inside(Home[r])
           /\ Inside(Home[r])' = Inside(Home[r]) \union {r}
           /\ \A n \in Nodes \ {Home[r]} : Inside(n)' = Inside(n)
  BY ConstantsAssumption DEF Inside

\* A handler that leaves is removed from it.
LEMMA InsideLeft ==
    ASSUME pc \in [Requests -> {"idle"} \union Holding \union Ended],
           NEW r \in Requests, NEW to,
           pc' = [pc EXCEPT ![r] = to],
           pc[r] \in Holding, to \notin Holding
    PROVE  /\ Home[r] \in Nodes
           /\ r \in Inside(Home[r])
           /\ Inside(Home[r])' = Inside(Home[r]) \ {r}
           /\ \A n \in Nodes \ {Home[r]} : Inside(n)' = Inside(n)
  BY ConstantsAssumption DEF Inside

\* A crash empties the gate of its replica.
LEMMA InsideCrashed ==
    ASSUME pc \in [Requests -> {"idle"} \union Holding \union Ended],
           NEW m \in Nodes, Crash(m)
    PROVE  /\ Inside(m)' = {}
           /\ \A n \in Nodes \ {m} : Inside(n)' = Inside(n)
<1>1. \A r \in Requests : pc'[r] = IF r \in Inside(m) THEN "crashed" ELSE pc[r]
  BY DEF Crash
<1>2. "crashed" \notin Holding
  BY DEF Holding, Running
<1>. QED  BY <1>1, <1>2 DEF Inside

-----------------------------------------------------------------------------
(* Permits.  The conservation law is inductive with the types, and the     *)
(* bound on sem in the types needs the law: they are proved together.      *)

PermitInv == TypeOK /\ PermitsConserved

LEMMA PermitInit == Init => PermitInv
<1>. SUFFICES ASSUME Init PROVE PermitInv
  OBVIOUS
<1>1. TypeOK
  BY ConstantsAssumption DEF Init, TypeOK, Statuses, Outcomes
<1>2. ASSUME NEW n \in Nodes PROVE Inside(n) = {}
  BY DEF Init, Inside, Holding, Running
<1>3. ASSUME NEW n \in Nodes PROVE sem[n] + Cardinality(Inside(n)) = Permits
  <2>1. Cardinality(Inside(n)) = 0
    BY <1>2, FS_EmptySet
  <2>2. sem[n] = Permits /\ Permits \in Nat
    BY ConstantsAssumption DEF Init
  <2>. QED  BY <2>1, <2>2
<1>. QED  BY <1>1, <1>3 DEF PermitInv, PermitsConserved

\* A step that keeps the permits and who is inside keeps the law.
LEMMA PermitsKept ==
    ASSUME PermitsConserved, sem' = sem,
           \A n \in Nodes : Inside(n)' = Inside(n)
    PROVE  PermitsConserved'
  BY DEF PermitsConserved

\* Giving a permit back on the way out keeps the law and the bound on sem.
LEMMA PermitReturned ==
    ASSUME PermitInv, NEW r \in Requests, NEW to \in Ended,
           pc' = [pc EXCEPT ![r] = to],
           pc[r] \in Holding, DropPermit(r)
    PROVE  PermitsConserved' /\ sem' \in [Nodes -> 0..Permits]
<1>0. to \notin Holding
  BY DEF Ended, Holding, Running
<1>. DEFINE h == Home[r]
<1>1. /\ h \in Nodes /\ r \in Inside(h)
      /\ Inside(h)' = Inside(h) \ {r}
      /\ \A n \in Nodes \ {h} : Inside(n)' = Inside(n)
  BY <1>0, InsideLeft DEF PermitInv, TypeOK
<1>2. /\ Cardinality(Inside(h)') = Cardinality(Inside(h)) - 1
      /\ Cardinality(Inside(h)) \in Nat /\ Cardinality(Inside(h)') \in Nat
  <2>1. Inside(h) \ {r} \in SUBSET Requests
    BY DEF Inside
  <2>. QED  BY <1>1, <2>1, InsideFacts, RequestSets, FS_RemoveElement
<1>3. sem' = [sem EXCEPT ![h] = @ + 1] /\ sem \in [Nodes -> 0..Permits]
  BY DEF DropPermit, PermitInv, TypeOK
<1>4. sem[h] + Cardinality(Inside(h)) = Permits
  BY <1>1 DEF PermitInv, PermitsConserved
<1>5. sem'[h] + Cardinality(Inside(h)') = Permits /\ sem'[h] \in 0..Permits
  BY <1>1, <1>2, <1>3, <1>4, ConstantsAssumption
<1>6. \A n \in Nodes \ {h} : sem'[n] = sem[n] /\ Inside(n)' = Inside(n)
  BY <1>1, <1>3
<1>7. PermitsConserved'
  BY <1>5, <1>6 DEF PermitInv, PermitsConserved
<1>8. sem' \in [Nodes -> 0..Permits]
  BY <1>3, <1>5
<1>. QED  BY <1>7, <1>8

\* Taking one keeps the law.
LEMMA PermitTaken ==
    ASSUME PermitInv, NEW r \in Requests, Admit(r)
    PROVE  PermitsConserved' /\ sem' \in [Nodes -> 0..Permits]
<1>0. pc' = [pc EXCEPT ![r] = "push"] /\ "push" \in Holding /\ pc[r] \notin Holding
  BY DEF Admit, Goto, Holding, Running
<1>. DEFINE h == Home[r]
<1>1. /\ h \in Nodes /\ r \notin Inside(h)
      /\ Inside(h)' = Inside(h) \union {r}
      /\ \A n \in Nodes \ {h} : Inside(n)' = Inside(n)
  BY <1>0, InsideEntered DEF PermitInv, TypeOK
<1>2. Cardinality(Inside(h)') = Cardinality(Inside(h)) + 1
  <2>1. IsFiniteSet(Inside(h))
    BY <1>1, InsideFacts
  <2>. HIDE DEF h
  <2>2. Cardinality(Inside(h) \union {r}) = Cardinality(Inside(h)) + 1
    BY <2>1, <1>1, FS_AddElement, Zenon
  <2>. QED  BY <2>2, <1>1
<1>3. /\ sem' = [sem EXCEPT ![h] = @ - 1] /\ sem[h] > 0
      /\ sem \in [Nodes -> 0..Permits]
  BY DEF Admit, PermitInv, TypeOK
<1>4. sem[h] + Cardinality(Inside(h)) = Permits /\ Cardinality(Inside(h)) \in Nat
  BY <1>1, InsideFacts DEF PermitInv, PermitsConserved
<1>5. sem'[h] + Cardinality(Inside(h)') = Permits /\ sem'[h] \in 0..Permits
  BY <1>1, <1>2, <1>3, <1>4, ConstantsAssumption
<1>6. PermitsConserved'
  BY <1>1, <1>3, <1>5 DEF PermitInv, PermitsConserved
<1>7. sem' \in [Nodes -> 0..Permits]
  BY <1>3, <1>5
<1>. QED  BY <1>6, <1>7

\* The counters and the store keep their types whatever the outcome counted.
LEMMA CountType ==
    ASSUME TypeOK, NEW n \in Nodes, NEW o \in Outcomes, Count(n, o)
    PROVE  jobsTotal' \in [Nodes -> [Outcomes -> Nat]]
<1>1. jobsTotal' = [jobsTotal EXCEPT ![n] = [jobsTotal[n] EXCEPT ![o] = @ + 1]]
  BY DEF Count
<1>2. jobsTotal[n] \in [Outcomes -> Nat]
  BY DEF TypeOK
<1>3. [jobsTotal[n] EXCEPT ![o] = @ + 1] \in [Outcomes -> Nat]
  BY <1>2
<1>. QED  BY <1>1, <1>3 DEF TypeOK

LEMMA MarkType ==
    ASSUME TypeOK, NEW r \in Requests, NEW s \in Statuses, mark(r, s)
    PROVE  status' \in [Requests -> Statuses]
  BY DEF TypeOK, mark

LEMMA FaultType ==
    ASSUME TypeOK, Fault \/ faults' = faults
    PROVE  faults' \in 0..MaxFaults
  BY ConstantsAssumption DEF TypeOK, Fault

LEMMA PermitStep == PermitInv /\ [Next]_vars => PermitInv'
<1>. SUFFICES ASSUME PermitInv, [Next]_vars PROVE PermitInv'
  OBVIOUS
<1>. USE DEF PermitInv
<1>pc. pc \in [Requests -> {"idle"} \union Holding \union Ended]
  BY DEF TypeOK
<1>home. \A r \in Requests : Home[r] \in Nodes
  BY ConstantsAssumption
<1>push. ASSUME NEW r \in Requests, Push(r) PROVE PermitInv'
  <2>1. \A n \in Nodes : Inside(n)' = Inside(n)
    BY <1>push, <1>pc, InsideKept DEF Push, Goto, Holding, Running
  <2>2. PermitsConserved'
    BY <1>push, <2>1, PermitsKept DEF Push
  <2>3. TypeOK'
    <3>1. faults' \in 0..MaxFaults
      BY <1>push, FaultType DEF Push, StoreFault
    <3>. QED  BY <1>push, <3>1 DEF TypeOK, Push, Goto, push, watcher,
                                   Statuses, Holding, Running
  <2>. QED  BY <2>2, <2>3
<1>admit. ASSUME NEW r \in Requests, Admit(r) PROVE PermitInv'
  <2>1. PermitsConserved' /\ sem' \in [Nodes -> 0..Permits]
    BY <1>admit, PermitTaken
  <2>2. now + JobTimeout \in 0..MaxTime
    BY <1>admit, ConstantsAssumption DEF Admit, TypeOK
  <2>3. TypeOK'
    BY <1>admit, <1>home, <2>1, <2>2
       DEF TypeOK, Admit, Goto, watcher, outside, Holding, Running
  <2>. QED  BY <2>1, <2>3
<1>refuse. ASSUME NEW r \in Requests, Refuse(r) PROVE PermitInv'
  <2>1. \A n \in Nodes : Inside(n)' = Inside(n)
    BY <1>refuse, <1>pc, InsideKept DEF Refuse, Goto, Holding, Running
  <2>2. PermitsConserved'
    BY <1>refuse, <2>1, PermitsKept DEF Refuse
  <2>3. TypeOK'
    BY <1>refuse DEF TypeOK, Refuse, Goto, store, watcher, outside, Ended
  <2>. QED  BY <2>2, <2>3
<1>inferok. ASSUME NEW r \in Requests, InferOk(r) PROVE PermitInv'
  <2>1. \A n \in Nodes : Inside(n)' = Inside(n)
    BY <1>inferok, <1>pc, InsideKept DEF InferOk, Goto, Holding, Running
  <2>2. PermitsConserved'
    BY <1>inferok, <2>1, PermitsKept DEF InferOk
  <2>3. TypeOK'
    <3>1. faults' \in 0..MaxFaults
      BY <1>inferok, FaultType DEF InferOk
    <3>. QED  BY <1>inferok, <1>home, <3>1 DEF TypeOK, InferOk, Goto, store, watcher, Holding
  <2>. QED  BY <2>2, <2>3
<1>infererr. ASSUME NEW r \in Requests, InferErr(r) PROVE PermitInv'
  <2>1. \A n \in Nodes : Inside(n)' = Inside(n)
    BY <1>infererr, <1>pc, InsideKept DEF InferErr, Goto, Holding, Running
  <2>2. PermitsConserved'
    BY <1>infererr, <2>1, PermitsKept DEF InferErr
  <2>3. TypeOK'
    BY <1>infererr, <1>home DEF TypeOK, InferErr, Goto, store, watcher, outside, Holding
  <2>. QED  BY <2>2, <2>3
<1>complete. ASSUME NEW r \in Requests, Complete(r) PROVE PermitInv'
  <2>1. \A n \in Nodes : Inside(n)' = Inside(n)
    BY <1>complete, <1>pc, InsideKept DEF Complete, Goto, Holding, Running
  <2>2. PermitsConserved'
    BY <1>complete, <2>1, PermitsKept DEF Complete
  <2>3. jobsTotal' \in [Nodes -> [Outcomes -> Nat]]
    BY <1>complete, <1>home, CountType DEF Complete, Outcomes
  <2>4. status' \in [Requests -> Statuses]
    BY <1>complete, MarkType DEF Complete, Statuses, TypeOK
  <2>5. TypeOK'
    <3>1. faults' \in 0..MaxFaults
      BY <1>complete, FaultType DEF Complete, StoreFault
    <3>. QED  BY <1>complete, <2>3, <2>4, <3>1
                 DEF TypeOK, Complete, Goto, watcher, Holding
  <2>. QED  BY <2>2, <2>5
<1>failed. ASSUME NEW r \in Requests, FailHandler(r) PROVE PermitInv'
  <2>1. PermitsConserved' /\ sem' \in [Nodes -> 0..Permits]
    BY <1>failed, PermitReturned DEF FailHandler, Goto, Holding, Ended
  <2>2. jobsTotal' \in [Nodes -> [Outcomes -> Nat]]
    BY <1>failed, <1>home, CountType DEF FailHandler, Outcomes
  <2>3. status' \in [Requests -> Statuses]
    BY <1>failed, MarkType DEF FailHandler, Statuses, TypeOK
  <2>4. TypeOK'
    <3>1. faults' \in 0..MaxFaults
      BY <1>failed, FaultType DEF FailHandler, StoreFault
    <3>. QED  BY <1>failed, <2>1, <2>2, <2>3, <3>1
                 DEF TypeOK, FailHandler, Goto, watcher, Ended
  <2>. QED  BY <2>1, <2>4
<1>respond. ASSUME NEW r \in Requests, Respond(r) PROVE PermitInv'
  <2>1. PermitsConserved' /\ sem' \in [Nodes -> 0..Permits]
    BY <1>respond, PermitReturned DEF Respond, Goto, Holding, Ended
  <2>2. TypeOK'
    BY <1>respond, <2>1 DEF TypeOK, Respond, Goto, store, watcher, outside, Ended
  <2>. QED  BY <2>1, <2>2
<1>hangup. ASSUME NEW r \in Requests, Disconnect(r) PROVE PermitInv'
  <2>1. PermitsConserved' /\ sem' \in [Nodes -> 0..Permits]
    BY <1>hangup, PermitReturned DEF Disconnect, Ended
  <2>2. TypeOK'
    BY <1>hangup, <2>1 DEF TypeOK, Disconnect, store, watcher, outside, Ended
  <2>. QED  BY <2>1, <2>2
<1>watch. ASSUME NEW n \in Nodes, Watcher(n) PROVE PermitInv'
  <2>1. pc' = pc /\ sem' = sem /\ gauge' = gauge /\ journal' = journal
        /\ deadline' = deadline /\ now' = now /\ crashes' = crashes
    BY <1>watch DEF Watcher, Sweep, TimeOut, Fail, store, handlers, outside
  <2>2. PermitsConserved'
    BY <2>1 DEF PermitsConserved, Inside
  <2>3. /\ status' \in [Requests -> Statuses]
        /\ jobsTotal' \in [Nodes -> [Outcomes -> Nat]]
        /\ faults' \in 0..MaxFaults
        /\ batch' \in [Nodes -> SUBSET Requests]
        /\ cur' \in [Nodes -> Requests \union {None}]
    <3>1. CASE Sweep(n)
      BY <3>1 DEF Sweep, due, TypeOK, store, outside
    <3>2. CASE AbortSweep(n)
      BY <3>2, ConstantsAssumption DEF AbortSweep, StoreFault, Fault, TypeOK
    <3>3. CASE TimeOut(n) /\ ~AbortSweep(n)
      <4>1. PICK r \in batch[n] : /\ mark(r, "TimedOut") /\ Count(n, "timed_out")
                                  /\ cur' = [cur EXCEPT ![n] = r]
                                  /\ batch' = [batch EXCEPT ![n] = @ \ {r}]
                                  /\ faults' = faults
        BY <3>3 DEF TimeOut
      <4>2. r \in Requests
        BY DEF TypeOK
      <4>3. "timed_out" \in Outcomes /\ "TimedOut" \in Statuses
        BY DEF Outcomes, Statuses
      <4>4. status' \in [Requests -> Statuses] /\ jobsTotal' \in [Nodes -> [Outcomes -> Nat]]
        BY <4>1, <4>2, <4>3, MarkType, CountType
      <4>. QED  BY <4>1, <4>2, <4>4 DEF TypeOK
    <3>4. CASE Fail(n) /\ ~AbortSweep(n)
      <4>1. /\ mark(cur[n], "Failed") /\ Count(n, "failed") /\ cur[n] # None
            /\ cur' = [cur EXCEPT ![n] = None] /\ batch' = batch /\ faults' = faults
        BY <3>4 DEF Fail
      <4>2. cur[n] \in Requests
        BY <4>1 DEF TypeOK
      <4>3. "failed" \in Outcomes /\ "Failed" \in Statuses
        BY DEF Outcomes, Statuses
      <4>4. status' \in [Requests -> Statuses] /\ jobsTotal' \in [Nodes -> [Outcomes -> Nat]]
        BY <4>1, <4>2, <4>3, MarkType, CountType
      <4>. QED  BY <4>1, <4>4 DEF TypeOK
    <3>. QED  BY <1>watch, <3>1, <3>2, <3>3, <3>4 DEF Watcher
  <2>4. TypeOK'
    BY <2>1, <2>3 DEF TypeOK
  <2>. QED  BY <2>2, <2>4
<1>crash. ASSUME NEW m \in Nodes, Crash(m) PROVE PermitInv'
  <2>1. Inside(m)' = {} /\ \A n \in Nodes \ {m} : Inside(n)' = Inside(n)
    BY <1>crash, <1>pc, InsideCrashed
  <2>2. sem' = [sem EXCEPT ![m] = Permits] /\ sem \in [Nodes -> 0..Permits]
    BY <1>crash DEF Crash, TypeOK
  <2>3. sem'[m] + Cardinality(Inside(m)') = Permits
    BY <2>1, <2>2, FS_EmptySet, ConstantsAssumption
  <2>4. PermitsConserved'
    BY <2>1, <2>2, <2>3 DEF PermitsConserved
  <2>5. sem' \in [Nodes -> 0..Permits]
    BY <2>2, ConstantsAssumption
  <2>6. crashes' \in 0..MaxCrashes
    BY <1>crash, ConstantsAssumption DEF Crash, TypeOK
  <2>7. /\ pc' \in [Requests -> {"idle"} \union Holding \union Ended]
        /\ status' \in [Requests -> Statuses]
    BY <1>crash DEF Crash, TypeOK, Ended, Statuses
  <2>8. TypeOK'
    BY <1>crash, <2>5, <2>6, <2>7 DEF Crash, TypeOK, Outcomes
  <2>. QED  BY <2>4, <2>8
<1>tick. CASE Tick
  <2>1. now' \in 0..MaxTime
    BY <1>tick, ConstantsAssumption DEF Tick, TypeOK
  <2>. QED  BY <1>tick, <2>1 DEF Tick, TypeOK, PermitsConserved, Inside,
                                 store, handlers, watcher
<1>still. CASE UNCHANGED vars
  BY <1>still DEF vars, TypeOK, PermitsConserved, Inside
<1>. QED  BY <1>push, <1>admit, <1>refuse, <1>inferok, <1>infererr, <1>complete, <1>failed,
             <1>respond, <1>hangup, <1>watch, <1>crash, <1>tick, <1>still
          DEF Next, Handler

\* Types and the conservation of permits hold in every execution.
THEOREM PermitSafety == Spec => []PermitInv
  BY PermitInit, PermitStep, PTL DEF Spec

\* Every variable stays in its range.
THEOREM TypeCorrect == Spec => []TypeOK
  BY PermitSafety, PTL DEF PermitInv

\* On every path out of a handler its permit goes back exactly once.
THEOREM PermitsAreConserved == Spec => []PermitsConserved
  BY PermitSafety, PTL DEF PermitInv

-----------------------------------------------------------------------------
(* The gates implement the abstract semaphore.                             *)

Insides == [n \in Nodes |-> Inside(n)]

LEMMA GateInit == Init => Gate!Init
  BY DEF Init, Gate!Init, Inside, Holding, Running

\* A step that changes who is inside no gate is a stuttering step.
LEMMA GateKept ==
    ASSUME \A n \in Nodes : Inside(n)' = Inside(n)
    PROVE  Insides' = Insides
  BY DEF Insides

\* One handler leaving is a group of one leaving.
LEMMA GateLeft ==
    ASSUME TypeOK, NEW r \in Requests, NEW to \in Ended,
           pc' = [pc EXCEPT ![r] = to], pc[r] \in Holding
    PROVE  Gate!Next
<1>1. to \notin Holding
  BY DEF Ended, Holding, Running
<1>2. /\ Home[r] \in Nodes
      /\ Inside(Home[r])' = Inside(Home[r]) \ {r}
      /\ \A n \in Nodes \ {Home[r]} : Inside(n)' = Inside(n)
  BY <1>1, InsideLeft DEF TypeOK
<1>3. Insides' = [Insides EXCEPT ![Home[r]] = @ \ {r}]
  BY <1>2 DEF Insides
<1>4. {r} \in SUBSET Requests
  OBVIOUS
<1>. QED  BY <1>2, <1>3, <1>4 DEF Gate!Next, Gate!Leave, Insides

LEMMA GateStep == PermitInv /\ [Next]_vars => [Gate!Next]_Insides
<1>. SUFFICES ASSUME PermitInv, [Next]_vars PROVE [Gate!Next]_Insides
  OBVIOUS
<1>pc. /\ TypeOK
       /\ pc \in [Requests -> {"idle"} \union Holding \union Ended]
  BY DEF PermitInv, TypeOK
<1>admit. ASSUME NEW r \in Requests, Admit(r) PROVE Gate!Next
  <2>. DEFINE h == Home[r]
  <2>1. /\ h \in Nodes /\ r \notin Inside(h)
        /\ Inside(h)' = Inside(h) \union {r}
        /\ \A n \in Nodes \ {h} : Inside(n)' = Inside(n)
    BY <1>admit, <1>pc, InsideEntered DEF Admit, Goto, Holding, Running
  <2>2. Insides' = [Insides EXCEPT ![h] = @ \union {r}]
    BY <2>1 DEF Insides
  <2>3. Cardinality(Inside(h)) < Permits
    <3>1. sem[h] > 0 /\ sem[h] \in Nat
      BY <1>admit, <2>1, <1>pc DEF Admit, TypeOK
    <3>2. sem[h] + Cardinality(Inside(h)) = Permits
      BY <2>1 DEF PermitInv, PermitsConserved
    <3>. QED  BY <3>1, <3>2, <2>1, InsideFacts, ConstantsAssumption
  <2>4. Gate!Enter(h, r)
    BY <2>1, <2>2, <2>3 DEF Gate!Enter, Insides
  <2>. QED  BY <2>1, <2>4 DEF Gate!Next
<1>keep. ASSUME NEW r \in Requests,
                Refuse(r) \/ Push(r) \/ InferOk(r) \/ InferErr(r) \/ Complete(r)
         PROVE  Insides' = Insides
  <2>1. CASE Refuse(r)
    BY <2>1, <1>pc, InsideKept, GateKept DEF Refuse, Goto, Holding, Running
  <2>2. CASE Push(r)
    BY <2>2, <1>pc, InsideKept, GateKept DEF Push, Goto, Holding, Running
  <2>3. CASE InferOk(r)
    BY <2>3, <1>pc, InsideKept, GateKept DEF InferOk, Goto, Holding, Running
  <2>4. CASE InferErr(r)
    BY <2>4, <1>pc, InsideKept, GateKept DEF InferErr, Goto, Holding, Running
  <2>5. CASE Complete(r)
    BY <2>5, <1>pc, InsideKept, GateKept DEF Complete, Goto, Holding, Running
  <2>. QED  BY <1>keep, <2>1, <2>2, <2>3, <2>4, <2>5
<1>leave. ASSUME NEW r \in Requests, FailHandler(r) \/ Respond(r) \/ Disconnect(r)
          PROVE  Gate!Next
  <2>1. CASE FailHandler(r)
    BY <2>1, <1>pc, GateLeft DEF FailHandler, Goto, Holding, Ended
  <2>2. CASE Respond(r)
    BY <2>2, <1>pc, GateLeft DEF Respond, Goto, Holding, Ended
  <2>3. CASE Disconnect(r)
    BY <2>3, <1>pc, GateLeft DEF Disconnect, Ended
  <2>. QED  BY <1>leave, <2>1, <2>2, <2>3
<1>same. ASSUME pc' = pc PROVE Insides' = Insides
  BY <1>same DEF Insides, Inside
<1>quiet. ASSUME (\E n \in Nodes : Watcher(n)) \/ Tick \/ UNCHANGED vars
          PROVE  pc' = pc
  BY <1>quiet DEF Watcher, Sweep, TimeOut, Fail, Tick, handlers, vars
<1>crash. ASSUME NEW m \in Nodes, Crash(m) PROVE Gate!Next
  <2>1. Inside(m)' = {} /\ \A n \in Nodes \ {m} : Inside(n)' = Inside(n)
    BY <1>crash, <1>pc, InsideCrashed
  <2>2. Inside(m) \in SUBSET Requests
    BY DEF Inside
  <2>3. Insides' = [Insides EXCEPT ![m] = @ \ Inside(m)]
    BY <2>1 DEF Insides
  <2>. QED  BY <2>2, <2>3 DEF Gate!Next, Gate!Leave, Insides
<1>. QED  BY <1>admit, <1>keep, <1>leave, <1>same, <1>quiet, <1>crash DEF Next, Handler

\* The handlers' try_acquire and the drops of their permits implement the
\* abstract semaphore, one gate per replica.
THEOREM GateRefinement == Spec => GateSpec
<1>1. Init => Gate!Init
  BY GateInit
<1>2. PermitInv /\ [Next]_vars => [Gate!Next]_Insides
  BY GateStep
<1>. QED  BY <1>1, <1>2, PermitSafety, PTL DEF Spec, GateSpec, Gate!Spec, Insides

-----------------------------------------------------------------------------
(* The watcher.  What it holds or has timed out has a record, so its       *)
(* request has arrived, and the deadline of that record can only recede    *)
(* into the past; a Completed record was completed by its own handler,     *)
(* which is past every other write it makes.                               *)

Arrived == /\ \A r \in Requests : status[r] # "absent" => pc[r] # "idle"
           /\ \A n \in Nodes : \A r \in batch[n] : pc[r] # "idle"

CompletedByHandler ==
    \A r \in Requests :
        status[r] = "Completed" => pc[r] \in {"settle", "ok", "dropped", "crashed"}

WatchInv == Arrived /\ CompensatedOnlyOverdue /\ CompletedByHandler

LEMMA WatchInit == Init => WatchInv
  BY DEF Init, WatchInv, Arrived, CompensatedOnlyOverdue, CompletedByHandler

\* What a sweep does to the store and to its own lists, call by call.
LEMMA WatcherStep ==
    ASSUME TypeOK, NEW n \in Nodes, Watcher(n)
    PROVE  /\ pc' = pc /\ deadline' = deadline /\ now' = now
           /\ \/ /\ status' = status /\ cur' = cur
                 /\ batch' = [batch EXCEPT ![n] = due(n)]
              \/ /\ Durable /\ status' = status
                 /\ batch' = [batch EXCEPT ![n] = {}]
                 /\ cur' = [cur EXCEPT ![n] = None]
              \/ \E r \in batch[n] :
                    /\ cur[n] = None /\ mark(r, "TimedOut")
                    /\ batch' = [batch EXCEPT ![n] = @ \ {r}]
                    /\ cur' = [cur EXCEPT ![n] = r]
              \/ /\ cur[n] # None /\ cur[n] \in Requests
                 /\ mark(cur[n], "Failed")
                 /\ batch' = batch
                 /\ cur' = [cur EXCEPT ![n] = None]
<1>1. CASE Sweep(n)
  BY <1>1 DEF Sweep, store, handlers, outside
<1>2. CASE TimeOut(n)
  BY <1>2 DEF TimeOut, AbortSweep, StoreFault, handlers
<1>3. CASE Fail(n)
  <2>1. cur[n] # None /\ cur[n] \in Requests
    BY <1>3 DEF Fail, TypeOK
  <2>. QED  BY <1>3, <2>1 DEF Fail, AbortSweep, StoreFault, handlers
<1>. QED  BY <1>1, <1>2, <1>3 DEF Watcher

LEMMA WatchStep == TypeOK /\ WatchInv /\ [Next]_vars => WatchInv'
<1>. SUFFICES ASSUME TypeOK, WatchInv, [Next]_vars PROVE WatchInv'
  OBVIOUS
<1>. USE DEF WatchInv, Arrived, CompensatedOnlyOverdue, CompletedByHandler
<1>types. /\ pc \in [Requests -> {"idle"} \union Holding \union Ended]
          /\ status \in [Requests -> Statuses]
          /\ deadline \in [Requests -> 0..MaxTime]
          /\ batch \in [Nodes -> SUBSET Requests]
          /\ cur \in [Nodes -> Requests \union {None}]
          /\ now \in 0..MaxTime
  BY DEF TypeOK
<1>admit. ASSUME NEW r \in Requests, Admit(r) PROVE WatchInv'
  BY <1>admit, <1>types DEF Admit, Goto, watcher, outside
<1>refuse. ASSUME NEW r \in Requests, Refuse(r) PROVE WatchInv'
  BY <1>refuse, <1>types DEF Refuse, Goto, store, watcher, outside
<1>push. ASSUME NEW r \in Requests, Push(r) PROVE WatchInv'
  BY <1>push, <1>types DEF Push, Goto, push, watcher
<1>inferok. ASSUME NEW r \in Requests, InferOk(r) PROVE WatchInv'
  BY <1>inferok, <1>types DEF InferOk, Goto, store, watcher
<1>infererr. ASSUME NEW r \in Requests, InferErr(r) PROVE WatchInv'
  BY <1>infererr, <1>types DEF InferErr, Goto, store, watcher, outside
<1>complete. ASSUME NEW r \in Requests, Complete(r) PROVE WatchInv'
  BY <1>complete, <1>types DEF Complete, Goto, mark, watcher
<1>failed. ASSUME NEW r \in Requests, FailHandler(r) PROVE WatchInv'
  BY <1>failed, <1>types DEF FailHandler, Goto, mark, watcher
<1>respond. ASSUME NEW r \in Requests, Respond(r) PROVE WatchInv'
  BY <1>respond, <1>types DEF Respond, Goto, store, watcher, outside
<1>hangup. ASSUME NEW r \in Requests, Disconnect(r) PROVE WatchInv'
  BY <1>hangup, <1>types DEF Disconnect, Holding, Running, store, watcher, outside
<1>watch. ASSUME NEW n \in Nodes, Watcher(n) PROVE WatchInv'
  <2>1. pc' = pc /\ deadline' = deadline /\ now' = now
    BY <1>watch, WatcherStep
  <2>2. CASE status' = status /\ batch' = [batch EXCEPT ![n] = due(n)]
    BY <2>1, <2>2, <1>types DEF due
  <2>3. CASE status' = status /\ batch' = [batch EXCEPT ![n] = {}]
    BY <2>1, <2>3, <1>types
  <2>4. ASSUME NEW r \in batch[n], mark(r, "TimedOut"),
               batch' = [batch EXCEPT ![n] = @ \ {r}]
        PROVE  WatchInv'
    BY <2>1, <2>4, <1>types DEF mark
  <2>5. CASE cur[n] \in Requests /\ mark(cur[n], "Failed") /\ batch' = batch
    BY <2>1, <2>5, <1>types DEF mark
  <2>. QED  BY <1>watch, WatcherStep, <2>2, <2>3, <2>4, <2>5
<1>crash. ASSUME NEW m \in Nodes, Crash(m) PROVE WatchInv'
  BY <1>crash, <1>types DEF Crash, Inside, Holding, Running
<1>tick. CASE Tick
  BY <1>tick, <1>types DEF Tick, store, handlers, watcher
<1>still. CASE UNCHANGED vars
  BY <1>still DEF vars
<1>. QED  BY <1>admit, <1>refuse, <1>push, <1>inferok, <1>infererr, <1>complete, <1>failed,
             <1>respond, <1>hangup, <1>watch, <1>crash, <1>tick, <1>still DEF Next, Handler

THEOREM WatchSafety == Spec => []WatchInv
  BY WatchInit, WatchStep, TypeCorrect, PTL DEF Spec

\* The watcher holds and times out only jobs past their deadline.
THEOREM OnlyOverdueCompensated == Spec => []CompensatedOnlyOverdue
  BY WatchSafety, PTL DEF WatchInv

-----------------------------------------------------------------------------
(* A job completed before a sweep starts.                                  *)

CompletedKept(r) ==
    /\ status[r] = "Completed"
    /\ \A n \in Nodes : r \notin batch[n] /\ cur[n] # r
    => /\ status'[r] \in {"Completed"} \union (IF Durable THEN {} ELSE {"absent"})
       /\ \A n \in Nodes : r \notin batch'[n]

LEMMA CompletedKeptStep ==
    ASSUME TypeOK, WatchInv, [Next]_vars, NEW r \in Requests
    PROVE  CompletedKept(r)
<1>. SUFFICES ASSUME status[r] = "Completed",
                     \A n \in Nodes : r \notin batch[n] /\ cur[n] # r
              PROVE  /\ status'[r] \in {"Completed"} \union (IF Durable THEN {} ELSE {"absent"})
                     /\ \A n \in Nodes : r \notin batch'[n]
  BY DEF CompletedKept
<1>types. /\ pc \in [Requests -> {"idle"} \union Holding \union Ended]
          /\ status \in [Requests -> Statuses]
          /\ batch \in [Nodes -> SUBSET Requests]
          /\ cur \in [Nodes -> Requests \union {None}]
  BY DEF TypeOK
<1>late. pc[r] \in {"settle", "ok", "dropped", "crashed"}
  BY DEF WatchInv, CompletedByHandler
<1>handler. ASSUME NEW q \in Requests, Handler(q)
            PROVE  status'[r] = "Completed" /\ batch' = batch
  <2>1. CASE Admit(q) \/ Refuse(q) \/ InferOk(q) \/ InferErr(q) \/ Respond(q) \/ Disconnect(q)
    BY <2>1 DEF Admit, Refuse, InferOk, InferErr, Respond, Disconnect, store, watcher
  <2>2. CASE Push(q)
    BY <2>2, <1>late, <1>types DEF Push, Goto, push, watcher
  <2>3. CASE Complete(q)
    BY <2>3, <1>types DEF Complete, mark, watcher
  <2>4. CASE FailHandler(q)
    BY <2>4, <1>late, <1>types DEF FailHandler, Goto, mark, watcher
  <2>. QED  BY <1>handler, <2>1, <2>2, <2>3, <2>4 DEF Handler
<1>watch. ASSUME NEW n \in Nodes, Watcher(n)
          PROVE  status'[r] = "Completed" /\ \A m \in Nodes : r \notin batch'[m]
  <2>1. CASE status' = status /\ batch' = [batch EXCEPT ![n] = due(n)]
    BY <2>1, <1>types DEF due
  <2>2. CASE status' = status /\ batch' = [batch EXCEPT ![n] = {}]
    BY <2>2, <1>types
  <2>3. ASSUME NEW q \in batch[n], mark(q, "TimedOut"),
               batch' = [batch EXCEPT ![n] = @ \ {q}]
        PROVE  status'[r] = "Completed" /\ \A m \in Nodes : r \notin batch'[m]
    BY <2>3, <1>types DEF mark
  <2>4. CASE cur[n] \in Requests /\ mark(cur[n], "Failed") /\ batch' = batch
    BY <2>4, <1>types DEF mark
  <2>. QED  BY <1>watch, WatcherStep, <2>1, <2>2, <2>3, <2>4
<1>crash. ASSUME NEW m \in Nodes, Crash(m)
          PROVE  /\ status'[r] \in {"Completed"} \union (IF Durable THEN {} ELSE {"absent"})
                 /\ \A n \in Nodes : r \notin batch'[n]
  BY <1>crash, <1>types DEF Crash
<1>rest. CASE Tick \/ UNCHANGED vars
  BY <1>rest DEF Tick, vars, store, watcher
<1>. QED  BY <1>handler, <1>watch, <1>crash, <1>rest DEF Next

\* A job completed before a sweep takes its snapshot is not touched by it.
THEOREM CompletedBeforeSweep == Spec => CompletedBeforeSweepIsSafe
<1>1. TypeOK /\ WatchInv /\ [Next]_vars => [\A r \in Requests : CompletedKept(r)]_vars
  BY CompletedKeptStep
<1>. QED  BY <1>1, TypeCorrect, WatchSafety, PTL
          DEF Spec, CompletedBeforeSweepIsSafe, CompletedKept

-----------------------------------------------------------------------------
(* The in-memory store: a TimedOut job is in its watcher's hands.          *)

PendingInv ==
    /\ \A n \in Nodes : \A r \in batch[n] : Home[r] = n
    /\ \A r \in Requests : status[r] = "TimedOut" => cur[Home[r]] = r

LEMMA PendingStep ==
    ASSUME ~Durable, TypeOK, PendingInv, [Next]_vars
    PROVE  PendingInv'
<1>. USE DEF PendingInv
<1>types. /\ pc \in [Requests -> {"idle"} \union Holding \union Ended]
          /\ status \in [Requests -> Statuses]
          /\ batch \in [Nodes -> SUBSET Requests]
          /\ cur \in [Nodes -> Requests \union {None}]
          /\ \A r \in Requests : Home[r] \in Nodes
          /\ None \notin Requests
  BY ConstantsAssumption DEF TypeOK
<1>handler. ASSUME NEW q \in Requests, Handler(q)
            PROVE  /\ batch' = batch /\ cur' = cur
                   /\ \A r \in Requests : status'[r] = "TimedOut" => status[r] = "TimedOut"
  <2>1. CASE Admit(q) \/ Refuse(q) \/ InferOk(q) \/ InferErr(q) \/ Respond(q) \/ Disconnect(q)
    BY <2>1 DEF Admit, Refuse, InferOk, InferErr, Respond, Disconnect, store, watcher
  <2>2. CASE Push(q)
    BY <2>2, <1>types DEF Push, push, watcher
  <2>3. CASE Complete(q)
    BY <2>3, <1>types DEF Complete, mark, watcher
  <2>4. CASE FailHandler(q)
    BY <2>4, <1>types DEF FailHandler, mark, watcher
  <2>. QED  BY <1>handler, <2>1, <2>2, <2>3, <2>4 DEF Handler
<1>watch. ASSUME NEW n \in Nodes, Watcher(n) PROVE PendingInv'
  <2>1. CASE status' = status /\ cur' = cur /\ batch' = [batch EXCEPT ![n] = due(n)]
    BY <2>1, <1>types DEF due
  <2>2. ASSUME NEW r \in batch[n], cur[n] = None, mark(r, "TimedOut"),
               batch' = [batch EXCEPT ![n] = @ \ {r}],
               cur' = [cur EXCEPT ![n] = r]
        PROVE  PendingInv'
    BY <2>2, <1>types DEF mark
  <2>3. CASE /\ cur[n] # None /\ cur[n] \in Requests
             /\ mark(cur[n], "Failed") /\ batch' = batch
             /\ cur' = [cur EXCEPT ![n] = None]
    BY <2>3, <1>types DEF mark
  <2>. QED  BY <1>watch, WatcherStep, <2>1, <2>2, <2>3
<1>crash. ASSUME NEW m \in Nodes, Crash(m) PROVE PendingInv'
  BY <1>crash, <1>types DEF Crash
<1>rest. CASE Tick \/ UNCHANGED vars
  BY <1>rest DEF Tick, vars, store, watcher
<1>. QED  BY <1>handler, <1>watch, <1>crash, <1>rest, <1>types DEF Next

\* "Pending a compensating action": without Postgres, crashes included, no job
\* is ever TimedOut with nobody about to fail it.
THEOREM InMemoryTimedOutIsPending ==
    ASSUME ~Durable
    PROVE  Spec => []TimedOutIsPending
<1>1. Init => PendingInv
  BY DEF Init, PendingInv
<1>2. TypeOK /\ PendingInv /\ [Next]_vars => PendingInv'
  BY PendingStep
<1>3. TypeOK /\ PendingInv => TimedOutIsPending
  BY ConstantsAssumption DEF PendingInv, TimedOutIsPending
<1>. QED  BY <1>1, <1>2, <1>3, TypeCorrect, PTL DEF Spec

-----------------------------------------------------------------------------
(* The gauge of running requests.                                          *)

\* A set of requests that grows by one element at most, that loses one, ...
LEMMA RequestCounts ==
    ASSUME NEW S \in SUBSET Requests, NEW T \in SUBSET Requests, NEW x
    PROVE  /\ Cardinality(S) \in Nat /\ Cardinality(T) \in Nat
           /\ T \subseteq S => Cardinality(T) <= Cardinality(S)
           /\ T \subseteq S \union {x} => Cardinality(T) <= Cardinality(S) + 1
           /\ x \in S /\ T = S \ {x} => Cardinality(T) = Cardinality(S) - 1
<1>1. IsFiniteSet(S) /\ Cardinality(S) \in Nat /\ Cardinality(T) \in Nat
  BY RequestSets
<1>2. ASSUME T \subseteq S PROVE Cardinality(T) <= Cardinality(S)
  BY <1>1, <1>2, FS_Subset
<1>3. ASSUME T \subseteq S \union {x} PROVE Cardinality(T) <= Cardinality(S) + 1
  <2>1. /\ IsFiniteSet(S \union {x})
        /\ Cardinality(S \union {x}) = IF x \in S THEN Cardinality(S) ELSE Cardinality(S) + 1
    BY <1>1, FS_AddElement
  <2>2. Cardinality(T) <= Cardinality(S \union {x})
    BY <1>3, <2>1, FS_Subset
  <2>. QED  BY <1>1, <2>1, <2>2
<1>4. ASSUME x \in S, T = S \ {x} PROVE Cardinality(T) = Cardinality(S) - 1
  BY <1>1, <1>4, FS_RemoveElement
<1>. QED  BY <1>1, <1>2, <1>3, <1>4

LEMMA GaugeStep == TypeOK /\ GaugeNeverUndercounts /\ [Next]_vars => GaugeNeverUndercounts'
<1>. SUFFICES ASSUME TypeOK, GaugeNeverUndercounts, [Next]_vars, NEW n \in Nodes
              PROVE  gauge'[n] >= Cardinality(InFlight(n)')
  BY DEF GaugeNeverUndercounts
<1>types. /\ pc \in [Requests -> {"idle"} \union Holding \union Ended]
          /\ gauge \in [Nodes -> Int] /\ gauge[n] \in Int
          /\ \A r \in Requests : Home[r] \in Nodes
  BY ConstantsAssumption DEF TypeOK
<1>sets. InFlight(n) \in SUBSET Requests /\ InFlight(n)' \in SUBSET Requests
  BY DEF InFlight
<1>before. gauge[n] >= Cardinality(InFlight(n)) /\ Cardinality(InFlight(n)) \in Nat
  BY <1>sets, RequestCounts DEF GaugeNeverUndercounts
<1>after. Cardinality(InFlight(n)') \in Nat
  BY <1>sets, RequestCounts
<1>fewer. InFlight(n)' \subseteq InFlight(n) => Cardinality(InFlight(n)') <= Cardinality(InFlight(n))
  BY <1>sets, RequestCounts
<1>admit. ASSUME NEW r \in Requests, Admit(r) PROVE gauge'[n] >= Cardinality(InFlight(n)')
  <2>1. pc' = [pc EXCEPT ![r] = "push"] /\ gauge' = [gauge EXCEPT ![Home[r]] = @ + 1]
    BY <1>admit DEF Admit, Goto
  <2>2. CASE Home[r] = n
    <3>1. InFlight(n)' \subseteq InFlight(n) \union {r}
      BY <2>1, <1>types DEF InFlight
    <3>2. Cardinality(InFlight(n)') <= Cardinality(InFlight(n)) + 1
      BY <3>1, <1>sets, RequestCounts
    <3>3. gauge'[n] = gauge[n] + 1
      BY <2>1, <2>2, <1>types
    <3>. QED  BY <3>2, <3>3, <1>before, <1>after, <1>types
  <2>3. CASE Home[r] # n
    <3>1. InFlight(n)' \subseteq InFlight(n) /\ gauge'[n] = gauge[n]
      BY <2>1, <2>3, <1>types DEF InFlight
    <3>. QED  BY <3>1, <1>before, <1>after, <1>fewer, <1>types
  <2>. QED  BY <2>2, <2>3
<1>answered. ASSUME NEW r \in Requests, InferOk(r) \/ InferErr(r)
             PROVE  gauge'[n] >= Cardinality(InFlight(n)')
  <2>1. /\ pc[r] = "infer" /\ gauge' = [gauge EXCEPT ![Home[r]] = @ - 1]
        /\ \/ pc' = [pc EXCEPT ![r] = "complete"]
           \/ pc' = [pc EXCEPT ![r] = "fail"]
    BY <1>answered DEF InferOk, InferErr, Goto
  <2>2. CASE Home[r] = n
    <3>1. r \in InFlight(n) /\ InFlight(n)' = InFlight(n) \ {r}
      BY <2>1, <2>2, <1>types DEF InFlight, Running
    <3>2. Cardinality(InFlight(n)') = Cardinality(InFlight(n)) - 1
      BY <3>1, <1>sets, RequestCounts
    <3>3. gauge'[n] = gauge[n] - 1
      BY <2>1, <2>2, <1>types
    <3>. QED  BY <3>2, <3>3, <1>before, <1>after, <1>types
  <2>3. CASE Home[r] # n
    <3>1. InFlight(n)' \subseteq InFlight(n) /\ gauge'[n] = gauge[n]
      BY <2>1, <2>3, <1>types DEF InFlight, Running
    <3>. QED  BY <3>1, <1>before, <1>after, <1>fewer, <1>types
  <2>. QED  BY <2>2, <2>3
<1>others. ASSUME NEW r \in Requests,
                  \/ Refuse(r) \/ Push(r) \/ Complete(r)
                  \/ FailHandler(r) \/ Respond(r) \/ Disconnect(r)
           PROVE  gauge' = gauge /\ InFlight(n)' \subseteq InFlight(n)
  BY <1>others, <1>types DEF Refuse, Push, Complete, FailHandler, Respond, Disconnect, Goto,
                             InFlight, Running
<1>watch. ASSUME NEW m \in Nodes, Watcher(m)
          PROVE  gauge' = gauge /\ InFlight(n)' \subseteq InFlight(n)
  BY <1>watch DEF Watcher, Sweep, TimeOut, Fail, handlers, InFlight
<1>crash. ASSUME NEW m \in Nodes, Crash(m) PROVE gauge'[n] >= Cardinality(InFlight(n)')
  <2>1. \A r \in Requests : pc'[r] = IF r \in Inside(m) THEN "crashed" ELSE pc[r]
    BY <1>crash DEF Crash
  <2>2. InFlight(n)' \subseteq InFlight(n)
    BY <2>1 DEF InFlight, Running
  <2>3. CASE m = n
    <3>1. InFlight(n)' = {}
      BY <2>1, <2>3 DEF InFlight, Inside, Holding, Running
    <3>2. gauge'[n] = 0
      BY <1>crash, <2>3, <1>types DEF Crash
    <3>. QED  BY <3>1, <3>2, FS_EmptySet
  <2>4. CASE m # n
    <3>1. gauge'[n] = gauge[n]
      BY <1>crash, <2>4, <1>types DEF Crash
    <3>. QED  BY <2>2, <3>1, <1>before, <1>after, <1>fewer, <1>types
  <2>. QED  BY <2>3, <2>4
<1>rest. CASE Tick \/ UNCHANGED vars
  <2>1. gauge' = gauge /\ InFlight(n)' \subseteq InFlight(n)
    BY <1>rest DEF Tick, vars, handlers, InFlight
  <2>. QED  BY <2>1, <1>before, <1>after, <1>fewer, <1>types
<1>. QED  BY <1>admit, <1>answered, <1>others, <1>watch, <1>crash, <1>rest, <1>before, <1>after, <1>fewer, <1>types
          DEF Next, Handler

\* CONCURRENT_REQUESTS never shows fewer requests than the engine has, whatever
\* hangs up, fails or crashes (the increments and decrements of the handlers).
THEOREM GaugeIsSafe == Spec => []GaugeNeverUndercounts
<1>1. Init => GaugeNeverUndercounts
  <2>. SUFFICES ASSUME Init, NEW n \in Nodes PROVE gauge[n] >= Cardinality(InFlight(n))
    BY DEF GaugeNeverUndercounts
  <2>1. InFlight(n) = {} /\ gauge[n] = 0
    BY DEF Init, InFlight, Running
  <2>. QED  BY <2>1, FS_EmptySet
<1>. QED  BY <1>1, GaugeStep, TypeCorrect, PTL DEF Spec

-----------------------------------------------------------------------------
(* Jobs left TimedOut.                                                     *)

LEMMA OrphansStep == TypeOK /\ OrphansNeedInterruptions /\ [Next]_vars => OrphansNeedInterruptions'
<1>. SUFFICES ASSUME TypeOK, OrphansNeedInterruptions, [Next]_vars
              PROVE  Cardinality(Orphans') <= faults' + crashes'
  BY DEF OrphansNeedInterruptions
<1>types. /\ status \in [Requests -> Statuses]
          /\ batch \in [Nodes -> SUBSET Requests]
          /\ cur \in [Nodes -> Requests \union {None}]
          /\ faults \in Nat /\ crashes \in Nat
          /\ None \notin Requests
  BY ConstantsAssumption DEF TypeOK
<1>sets. Orphans \in SUBSET Requests /\ Orphans' \in SUBSET Requests
  BY DEF Orphans
<1>before. Cardinality(Orphans) <= faults + crashes /\ Cardinality(Orphans) \in Nat
  BY <1>sets, RequestCounts DEF OrphansNeedInterruptions
<1>after. /\ Cardinality(Orphans') \in Nat
          /\ Orphans' \subseteq Orphans => Cardinality(Orphans') <= Cardinality(Orphans)
          /\ \A x : Orphans' \subseteq Orphans \union {x} => Cardinality(Orphans') <= Cardinality(Orphans) + 1
  BY <1>sets, RequestCounts
<1>failures. /\ faults' \in Nat /\ crashes' \in Nat
             /\ faults' >= faults /\ crashes' >= crashes
  <2>1. faults' = faults \/ Fault
    BY DEF Next, Handler, Admit, Refuse, Push, InferOk, InferErr, Complete, FailHandler, Respond,
           Disconnect, Watcher, Sweep, TimeOut, Fail, AbortSweep, StoreFault, Crash, Tick, outside, vars
  <2>2. crashes' = crashes \/ crashes' = crashes + 1
    BY DEF Next, Handler, Admit, Refuse, Push, InferOk, InferErr, Complete, FailHandler, Respond,
           Disconnect, Watcher, Sweep, TimeOut, Fail, Crash, Tick, outside, vars
  <2>. QED  BY <2>1, <2>2, <1>types DEF Fault
<1>handler. ASSUME NEW q \in Requests, Handler(q) PROVE Orphans' \subseteq Orphans
  <2>1. /\ cur' = cur
        /\ \A r \in Requests : status'[r] = "TimedOut" => status[r] = "TimedOut"
    <3>1. CASE Admit(q) \/ Refuse(q) \/ InferOk(q) \/ InferErr(q) \/ Respond(q) \/ Disconnect(q)
      BY <3>1 DEF Admit, Refuse, InferOk, InferErr, Respond, Disconnect, store, watcher
    <3>2. CASE Push(q)
      BY <3>2, <1>types DEF Push, push, watcher
    <3>3. CASE Complete(q)
      BY <3>3, <1>types DEF Complete, mark, watcher
    <3>4. CASE FailHandler(q)
      BY <3>4, <1>types DEF FailHandler, mark, watcher
    <3>. QED  BY <1>handler, <3>1, <3>2, <3>3, <3>4 DEF Handler
  <2>. QED  BY <2>1 DEF Orphans

\* A failed call leaves the job of its sweep behind.
<1>abort. ASSUME NEW n \in Nodes, AbortSweep(n)
          PROVE  Orphans' \subseteq Orphans \union {cur[n]} /\ faults' = faults + 1
  BY <1>abort, <1>types DEF AbortSweep, StoreFault, Fault, Orphans
<1>watch. ASSUME NEW n \in Nodes, Watcher(n), ~AbortSweep(n) PROVE Orphans' \subseteq Orphans
  <2>1. CASE Sweep(n)
    BY <2>1 DEF Sweep, store, Orphans
  <2>2. CASE TimeOut(n)
    <3>1. PICK r \in batch[n] : mark(r, "TimedOut") /\ cur' = [cur EXCEPT ![n] = r] /\ cur[n] = None
      BY <1>watch, <2>2 DEF TimeOut
    <3>2. \A q \in Requests \ {r} : status'[q] = status[q]
      BY <3>1, <1>types DEF mark
    <3>3. cur'[n] = r /\ \A m \in Nodes \ {n} : cur'[m] = cur[m]
      BY <3>1, <1>types
    <3>. QED  BY <3>1, <3>2, <3>3, <1>types DEF Orphans
  <2>3. CASE Fail(n)
    <3>1. cur[n] # None /\ mark(cur[n], "Failed") /\ cur' = [cur EXCEPT ![n] = None]
      BY <1>watch, <2>3 DEF Fail
    <3>2. /\ status'[cur[n]] # "TimedOut"
          /\ \A q \in Requests \ {cur[n]} : status'[q] = status[q]
      BY <3>1, <1>types DEF mark
    <3>3. \A m \in Nodes \ {n} : cur'[m] = cur[m]
      BY <3>1, <1>types
    <3>. QED  BY <3>1, <3>2, <3>3, <1>types DEF Orphans
  <2>. QED  BY <1>watch, <2>1, <2>2, <2>3 DEF Watcher
<1>crash. ASSUME NEW n \in Nodes, Crash(n)
          PROVE  Orphans' \subseteq Orphans \union {cur[n]} /\ crashes' = crashes + 1
  <2>1. /\ \A m \in Nodes \ {n} : cur'[m] = cur[m]
        /\ \A r \in Requests : status'[r] = "TimedOut" => status[r] = "TimedOut"
    BY <1>crash, <1>types DEF Crash
  <2>. QED  BY <1>crash, <2>1 DEF Crash, Orphans
<1>rest. ASSUME Tick \/ UNCHANGED vars PROVE Orphans' \subseteq Orphans
  BY <1>rest DEF Tick, vars, store, watcher, Orphans
<1>. QED  BY <1>handler, <1>abort, <1>watch, <1>crash, <1>rest, <1>before, <1>after, <1>failures, <1>types
          DEF Next

\* Postgres or not: a job left TimedOut by every watcher was left by a failed call
\* or by a crash, and no failure leaves two (check_timeouts, run_timeout_watcher).
THEOREM OrphansAreInterrupted == Spec => []OrphansNeedInterruptions
<1>1. Init => OrphansNeedInterruptions
  <2>. SUFFICES ASSUME Init PROVE OrphansNeedInterruptions
    OBVIOUS
  <2>1. Orphans = {} /\ faults = 0 /\ crashes = 0
    BY DEF Init, Orphans
  <2>. QED  BY <2>1, FS_EmptySet DEF OrphansNeedInterruptions
<1>. QED  BY <1>1, OrphansStep, TypeCorrect, PTL DEF Spec

-----------------------------------------------------------------------------
(* One watcher per store: no job is timed out twice.                       *)

\* The in-memory store has the watcher of its own replica; Postgres has one when
\* there is one replica.
OneWatcher == ~Durable \/ \A m, n \in Nodes : m = n

\* The jobs of the store of n that are past Dispatched, and that no sweep of n still
\* has to time out.
PastDue(n) == {r \in Requests : /\ Home[r] = n /\ pc[r] # "idle" /\ deadline[r] <= now
                                /\ status[r] \notin {"absent", "Dispatched"} /\ r \notin batch[n]}

\* What was counted is among them for good; a replica that crashed has counted nothing.
CountedInv ==
    \A n \in Nodes :
        /\ \A r \in batch[n] : Home[r] = n /\ status[r] # "absent"
        /\ jobsTotal[n]["timed_out"] <= Cardinality(PastDue(n))

LEMMA PastDueCounts ==
    ASSUME NEW n \in Nodes
    PROVE  /\ PastDue(n) \in SUBSET Requests /\ PastDue(n)' \in SUBSET Requests
           /\ Cardinality(PastDue(n)) \in Nat /\ Cardinality(PastDue(n)') \in Nat
           /\ PastDue(n) \subseteq PastDue(n)' => Cardinality(PastDue(n)) <= Cardinality(PastDue(n)')
           /\ \A r : r \notin PastDue(n) /\ PastDue(n) \union {r} \subseteq PastDue(n)'
                     => Cardinality(PastDue(n)) + 1 <= Cardinality(PastDue(n)')
<1>1. PastDue(n) \in SUBSET Requests /\ PastDue(n)' \in SUBSET Requests
  BY DEF PastDue
<1>2. /\ IsFiniteSet(PastDue(n)) /\ IsFiniteSet(PastDue(n)')
      /\ Cardinality(PastDue(n)) \in Nat /\ Cardinality(PastDue(n)') \in Nat
  BY <1>1, RequestSets
<1>3. PastDue(n) \subseteq PastDue(n)' => Cardinality(PastDue(n)) <= Cardinality(PastDue(n)')
  BY <1>2, FS_Subset
<1>4. ASSUME NEW r, r \notin PastDue(n), PastDue(n) \union {r} \subseteq PastDue(n)'
      PROVE  Cardinality(PastDue(n)) + 1 <= Cardinality(PastDue(n)')
  <2>1. Cardinality(PastDue(n) \union {r}) = Cardinality(PastDue(n)) + 1
    BY <1>2, <1>4, FS_AddElement
  <2>2. Cardinality(PastDue(n) \union {r}) <= Cardinality(PastDue(n)')
    BY <1>2, <1>4, FS_Subset
  <2>. QED  BY <2>1, <2>2
<1>. QED  BY <1>1, <1>2, <1>3, <1>4

LEMMA CountedStep ==
    ASSUME OneWatcher, TypeOK, WatchInv, CountedInv, [Next]_vars
    PROVE  CountedInv'
<1>types. /\ pc \in [Requests -> {"idle"} \union Holding \union Ended]
          /\ status \in [Requests -> Statuses]
          /\ deadline \in [Requests -> 0..MaxTime] /\ now \in 0..MaxTime
          /\ batch \in [Nodes -> SUBSET Requests]
          /\ jobsTotal \in [Nodes -> [Outcomes -> Nat]]
          /\ \A n \in Nodes : jobsTotal[n] \in [Outcomes -> Nat] /\ jobsTotal[n]["timed_out"] \in Nat
          /\ \A r \in Requests : Home[r] \in Nodes /\ deadline[r] \in Nat
  BY ConstantsAssumption DEF TypeOK, Outcomes
<1>batches. \A n \in Nodes : \A r \in batch[n] : Home[r] = n /\ status[r] # "absent"
  BY DEF CountedInv
<1>counts. \A n \in Nodes : jobsTotal[n]["timed_out"] <= Cardinality(PastDue(n))
  BY DEF CountedInv

\* A step that counts nothing on n, and takes nothing back, is harmless there.
<1>kept. ASSUME NEW n \in Nodes, PastDue(n) \subseteq PastDue(n)',
                jobsTotal'[n]["timed_out"] = jobsTotal[n]["timed_out"]
         PROVE  jobsTotal'[n]["timed_out"] <= Cardinality(PastDue(n)')
  BY <1>kept, <1>counts, <1>types, PastDueCounts
<1>handler. ASSUME NEW q \in Requests, Handler(q) PROVE CountedInv'
  <2>1. /\ batch' = batch /\ now' = now
        /\ \A r \in Requests : pc[r] # "idle" => pc'[r] # "idle" /\ deadline'[r] = deadline[r]
    BY <1>handler, <1>types
       DEF Handler, Admit, Refuse, Push, InferOk, InferErr, Complete, FailHandler, Respond,
           Disconnect, Goto, watcher, outside, store
  <2>2. \A r \in Requests : /\ status[r] # "absent" => status'[r] # "absent"
                            /\ status[r] \notin {"absent", "Dispatched"}
                                  => status'[r] \notin {"absent", "Dispatched"}
    <3>1. CASE Admit(q) \/ Refuse(q) \/ InferOk(q) \/ InferErr(q) \/ Respond(q) \/ Disconnect(q)
      BY <3>1 DEF Admit, Refuse, InferOk, InferErr, Respond, Disconnect, store
    <3>2. CASE Push(q)
      BY <3>2, <1>types DEF Push, push
    <3>3. CASE Complete(q) \/ FailHandler(q)
      BY <3>3, <1>types DEF Complete, FailHandler, mark
    <3>. QED  BY <1>handler, <3>1, <3>2, <3>3 DEF Handler
  <2>3. \A n \in Nodes : jobsTotal'[n]["timed_out"] = jobsTotal[n]["timed_out"]
    <3>1. CASE jobsTotal' = jobsTotal
      BY <3>1
    <3>2. ASSUME NEW o \in {"completed", "failed"}, Count(Home[q], o)
          PROVE  \A n \in Nodes : jobsTotal'[n]["timed_out"] = jobsTotal[n]["timed_out"]
      BY <3>2, <1>types DEF Count, Outcomes
    <3>. QED  BY <1>handler, <3>1, <3>2
              DEF Handler, Admit, Refuse, Push, InferOk, InferErr, Complete, FailHandler, Respond, Disconnect
  <2>4. \A n \in Nodes : PastDue(n) \subseteq PastDue(n)'
    BY <2>1, <2>2 DEF PastDue
  <2>. QED  BY <2>1, <2>2, <2>3, <2>4, <1>types, <1>batches, <1>kept DEF CountedInv
<1>watch. ASSUME NEW m \in Nodes, Watcher(m) PROVE CountedInv'
  <2>1. pc' = pc /\ deadline' = deadline /\ now' = now
    BY <1>watch, WatcherStep
  <2>2. CASE Sweep(m)
    <3>1. /\ status' = status /\ jobsTotal' = jobsTotal /\ batch' = [batch EXCEPT ![m] = due(m)]
          /\ batch[m] = {}
      BY <2>2 DEF Sweep, store
    <3>2. \A r \in due(m) : r \in Requests /\ Home[r] = m /\ status[r] = "Dispatched"
      BY <1>types DEF due, OneWatcher
    <3>3. \A n \in Nodes : PastDue(n) \subseteq PastDue(n)'
      BY <2>1, <3>1, <3>2, <1>types DEF PastDue
    <3>. QED  BY <3>1, <3>2, <3>3, <1>types, <1>batches, <1>kept DEF CountedInv
  <2>3. CASE AbortSweep(m)
    <3>1. status' = status /\ jobsTotal' = jobsTotal /\ batch' = [batch EXCEPT ![m] = {}]
      BY <2>3 DEF AbortSweep
    <3>2. \A n \in Nodes : PastDue(n) \subseteq PastDue(n)'
      BY <2>1, <3>1, <1>types DEF PastDue
    <3>. QED  BY <3>1, <3>2, <1>types, <1>batches, <1>kept DEF CountedInv
  <2>4. CASE TimeOut(m) /\ ~AbortSweep(m)
    <3>1. PICK r \in batch[m] : /\ mark(r, "TimedOut") /\ Count(m, "timed_out")
                                /\ batch' = [batch EXCEPT ![m] = @ \ {r}]
      BY <2>4 DEF TimeOut
    <3>2. /\ r \in Requests /\ Home[r] = m /\ status[r] # "absent"
          /\ pc[r] # "idle" /\ deadline[r] <= now
      BY <1>types, <1>batches DEF WatchInv, Arrived, CompensatedOnlyOverdue
    <3>3. /\ status' = [status EXCEPT ![r] = "TimedOut"]
          /\ \A q \in Requests : status[q] # "absent" => status'[q] # "absent"
      BY <3>1, <3>2, <1>types DEF mark
    <3>4. /\ jobsTotal'[m]["timed_out"] = jobsTotal[m]["timed_out"] + 1
          /\ \A n \in Nodes \ {m} : jobsTotal'[n] = jobsTotal[n]
      BY <3>1, <1>types DEF Count, Outcomes
    <3>5. r \notin PastDue(m) /\ PastDue(m) \union {r} \subseteq PastDue(m)'
      BY <2>1, <3>1, <3>2, <3>3, <1>types DEF PastDue
    <3>6. \A n \in Nodes \ {m} : PastDue(n) \subseteq PastDue(n)'
      BY <2>1, <3>1, <3>2, <3>3, <1>types DEF PastDue
    <3>7. jobsTotal'[m]["timed_out"] <= Cardinality(PastDue(m)')
      BY <3>4, <3>5, <1>counts, <1>types, PastDueCounts
    <3>8. \A n \in Nodes \ {m} : jobsTotal'[n]["timed_out"] <= Cardinality(PastDue(n)')
      BY <3>4, <3>6, <1>kept
    <3>9. \A n \in Nodes : \A q \in batch'[n] : q \in batch[n]
      BY <3>1, <1>types
    <3>10. \A n \in Nodes : \A q \in batch'[n] : Home[q] = n /\ status'[q] # "absent"
      BY <3>3, <3>9, <1>types, <1>batches
    <3>. QED  BY <3>7, <3>8, <3>10 DEF CountedInv
  <2>5. CASE Fail(m) /\ ~AbortSweep(m)
    <3>1. /\ mark(cur[m], "Failed") /\ Count(m, "failed") /\ batch' = batch /\ cur[m] \in Requests
      BY <2>5 DEF Fail, TypeOK
    <3>2. \A q \in Requests : /\ status[q] # "absent" => status'[q] # "absent"
                              /\ status[q] \notin {"absent", "Dispatched"}
                                    => status'[q] \notin {"absent", "Dispatched"}
      BY <3>1, <1>types DEF mark
    <3>3. \A n \in Nodes : jobsTotal'[n]["timed_out"] = jobsTotal[n]["timed_out"]
      BY <3>1, <1>types DEF Count, Outcomes
    <3>4. \A n \in Nodes : PastDue(n) \subseteq PastDue(n)'
      BY <2>1, <3>1, <3>2 DEF PastDue
    <3>. QED  BY <3>1, <3>2, <3>3, <3>4, <1>types, <1>batches, <1>kept DEF CountedInv
  <2>. QED  BY <1>watch, <2>2, <2>3, <2>4, <2>5 DEF Watcher
<1>crash. ASSUME NEW m \in Nodes, Crash(m) PROVE CountedInv'
  <2>1. /\ batch' = [batch EXCEPT ![m] = {}] /\ deadline' = deadline /\ now' = now
        /\ jobsTotal' = [jobsTotal EXCEPT ![m] = [o \in Outcomes |-> 0]]
        /\ \A r \in Requests : pc[r] # "idle" => pc'[r] # "idle"
        /\ \A r \in Requests : Home[r] # m => status'[r] = status[r]
    BY <1>crash DEF Crash
  <2>2. jobsTotal'[m]["timed_out"] = 0 /\ \A n \in Nodes \ {m} : jobsTotal'[n] = jobsTotal[n]
    BY <2>1, <1>types DEF Outcomes
  <2>3. jobsTotal'[m]["timed_out"] <= Cardinality(PastDue(m)')
    BY <2>2, PastDueCounts
  <2>4. \A n \in Nodes \ {m} : PastDue(n) \subseteq PastDue(n)'
    BY <2>1, <1>types DEF PastDue
  <2>5. \A n \in Nodes : \A q \in batch'[n] : Home[q] = n /\ status'[q] # "absent"
    BY <2>1, <1>types, <1>batches
  <2>. QED  BY <2>2, <2>3, <2>4, <2>5, <1>kept DEF CountedInv
<1>tick. CASE Tick
  <2>1. /\ now' = now + 1 /\ UNCHANGED <<status, deadline, pc, jobsTotal, batch>>
    BY <1>tick DEF Tick, store, handlers, watcher
  <2>2. \A n \in Nodes : PastDue(n) \subseteq PastDue(n)'
    BY <2>1, <1>types DEF PastDue
  <2>. QED  BY <2>1, <2>2, <1>batches, <1>kept DEF CountedInv
<1>still. CASE UNCHANGED vars
  <2>1. UNCHANGED <<status, deadline, pc, jobsTotal, batch, now>>
    BY <1>still DEF vars
  <2>2. \A n \in Nodes : PastDue(n) \subseteq PastDue(n)'
    BY <2>1 DEF PastDue
  <2>. QED  BY <2>1, <2>2, <1>batches, <1>kept DEF CountedInv
<1>. QED  BY <1>handler, <1>watch, <1>crash, <1>tick, <1>still DEF Next

\* With one watcher per store no job is counted timed_out twice, though its handler
\* completes it, or a failing call drops the sweep, in between (check_timeouts).
THEOREM TimedOutOnce ==
    ASSUME OneWatcher
    PROVE  Spec => []CompensatedAtMostOnce
<1>1. Init => CountedInv
  <2>. SUFFICES ASSUME Init, NEW n \in Nodes
                PROVE  batch[n] = {} /\ jobsTotal[n]["timed_out"] <= Cardinality(PastDue(n))
    BY DEF CountedInv
  <2>1. batch[n] = {} /\ jobsTotal[n]["timed_out"] = 0
    BY DEF Init, Outcomes
  <2>. QED  BY <2>1, PastDueCounts
<1>2. TypeOK /\ WatchInv /\ CountedInv /\ [Next]_vars => CountedInv'
  BY CountedStep
<1>3. TypeOK /\ CountedInv => CompensatedAtMostOnce
  <2>. SUFFICES ASSUME TypeOK, CountedInv, NEW n \in Nodes
                PROVE  jobsTotal[n]["timed_out"] <=
                          Cardinality({r \in Requests : Home[r] = n /\ pc[r] # "idle" /\ deadline[r] <= now})
    BY DEF CompensatedAtMostOnce
  <2>. DEFINE Overdue == {r \in Requests : Home[r] = n /\ pc[r] # "idle" /\ deadline[r] <= now}
  <2>1. PastDue(n) \subseteq Overdue /\ Overdue \subseteq Requests
    BY DEF PastDue
  <2>2. jobsTotal[n]["timed_out"] \in Nat /\ jobsTotal[n]["timed_out"] <= Cardinality(PastDue(n))
    BY DEF CountedInv, TypeOK, Outcomes
  <2>. HIDE DEF Overdue
  <2>3. /\ Cardinality(PastDue(n)) \in Nat /\ Cardinality(Overdue) \in Nat
        /\ Cardinality(PastDue(n)) <= Cardinality(Overdue)
    BY <2>1, RequestSets, FS_Subset
  <2>4. jobsTotal[n]["timed_out"] <= Cardinality(Overdue)
    BY <2>2, <2>3
  <2>. QED  BY <2>4 DEF Overdue
<1>. QED  BY <1>1, <1>2, <1>3, TypeCorrect, WatchSafety, PTL DEF Spec

=============================================================================
