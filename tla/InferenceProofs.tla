--------------------------- MODULE InferenceProofs ---------------------------
(***************************************************************************)
(* What Inference guarantees for any finite set of jobs, any backends, any *)
(* max_concurrent and any number of attempts.                              *)
(***************************************************************************)
EXTENDS Inference, FiniteSetTheorems, TLAPS

USE JobsAssumption, BackendsAssumption, SuitsAssumption, BoundsAssumption
    DEF JobsAssumption, BackendsAssumption, SuitsAssumption, BoundsAssumption

-----------------------------------------------------------------------------
(* Type correctness.                                                       *)

\* on_job_completed/on_job_failed of any job on any backend keep the types of
\* what they write, whatever follows them.
LEMMA ReleaseTypes ==
    ASSUME TypeOK, NEW j \in Jobs, NEW b \in Backends \cup {NoBackend},
           NEW next \in {"lookup", "failing", "recordOk", "recordFail"},
           Release(j, b, next)
    PROVE  /\ pc' \in [Jobs -> Labels]
           /\ resume' \in [Jobs -> {"idle", "lookup", "failing", "recordOk", "recordFail"}]
           /\ queued' \subseteq Jobs
           /\ depth' \in [Backends -> 0 .. MaxConcurrent]
           /\ slot' \in [Jobs -> Backends \cup {NoBackend}]
<1>1. depth' \in [Backends -> 0 .. MaxConcurrent]
  <2>1. \A n \in 0 .. MaxConcurrent : Dec(n) \in 0 .. MaxConcurrent
    BY DEF Dec
  <2> QED BY <2>1 DEF TypeOK, Release
<1>2. slot' \in [Jobs -> Backends \cup {NoBackend}]
  BY DEF TypeOK, Release
<1>3. queued' \subseteq Jobs
  BY DEF TypeOK, Release
<1>4. pc' \in [Jobs -> Labels]
  BY DEF TypeOK, Release, Goto, Labels
<1>5. resume' \in [Jobs -> {"idle", "lookup", "failing", "recordOk", "recordFail"}]
  BY DEF TypeOK, Release
<1> QED BY <1>1, <1>2, <1>3, <1>4, <1>5

\* Every step keeps every variable in its type; in particular route_job never
\* takes a counter beyond max_concurrent.
LEMMA TypeStep == TypeOK /\ [Next]_vars => TypeOK'
<1> SUFFICES ASSUME TypeOK, [Next]_vars
             PROVE  TypeOK'
  OBVIOUS
<1> USE DEF TypeOK, retryVars, bookVars, worldVars
<1>1. ASSUME NEW j \in Jobs, Arrive(j) PROVE TypeOK'
  BY <1>1 DEF Arrive, Goto, Labels
<1>2. ASSUME NEW j \in Jobs, Lookup(j) PROVE TypeOK'
  <2>1. cand' \in [Jobs -> SUBSET Backends]
    BY <1>2 DEF Lookup, Lookups, Routable
  <2>2. expired' \in [Jobs -> BOOLEAN]
    <3>1. (attempt[j] > 0) \in BOOLEAN
      OBVIOUS
    <3> QED BY <1>2, <3>1, Zenon DEF Lookup
  <2> QED BY <1>2, <2>1, <2>2 DEF Lookup, Goto, Labels
<1>3. ASSUME NEW j \in Jobs, LookupEmpty(j) \/ RouteRefused(j) \/ WakeEmpty(j)
      PROVE  TypeOK'
  <2>1. /\ RouteFailed(j)
        /\ UNCHANGED <<resume, attempt, recapped, assigned, depth, slot, worldVars>>
    BY <1>3, Zenon DEF LookupEmpty, RouteRefused, WakeEmpty
  <2> QED BY <2>1 DEF RouteFailed, LeaveRouting, Goto, Labels
<1>4. ASSUME NEW j \in Jobs, Submit(j) PROVE TypeOK'
  BY <1>4 DEF Submit, Goto, Labels
<1>5. ASSUME NEW j \in Jobs, NEW b \in Backends, RouteOk(j, b) PROVE TypeOK'
  <2>1. depth' \in [Backends -> 0 .. MaxConcurrent]
    <3>1. depth[b] + 1 \in 0 .. MaxConcurrent
      BY <1>5 DEF RouteOk, Eligible
    <3> QED BY <1>5, <3>1 DEF RouteOk
  <2> QED BY <1>5, <2>1 DEF RouteOk, LeaveRouting, Goto, Labels
<1>6. ASSUME NEW j \in Jobs, RouteWait(j) \/ Expire(j) \/ WakeYield(j) PROVE TypeOK'
  <2>1. /\ pc' = pc \/ Goto(j, "waiting") \/ Goto(j, "route")
        /\ waiters' \in {waiters, waiters \cup {j}}
        /\ expired' = expired \/ expired' = [expired EXCEPT ![j] = TRUE]
        /\ UNCHANGED <<resume, attempt, tried, recapped, cand, assigned, queued,
                       depth, slot, worldVars>>
    BY <1>6, Zenon DEF RouteWait, Expire, WakeYield
  <2>2. expired' \in [Jobs -> BOOLEAN]
    BY <2>1, Zenon
  <2> QED BY <2>1, <2>2 DEF Goto, Labels
<1>7. ASSUME NEW j \in Jobs, WakeRefresh(j) PROVE TypeOK'
  BY <1>7 DEF WakeRefresh, Goto, Labels, Lookups, Fallback, Routable
<1>8. ASSUME NEW j \in Jobs,
             ProxyOk(j) \/ FirstChunk(j) \/ StreamEmpty(j) \/ ProxyRaises(j)
             \/ StreamEnd(j) \/ CancelRouting(j) \/ CancelCompletion(j)
      PROVE  TypeOK'
  BY <1>8 DEF ProxyOk, FirstChunk, StreamEmpty, ProxyRaises, StreamEnd,
              CancelRouting, CancelCompletion, Move, Goto, Labels
<1>9. ASSUME NEW j \in Jobs, RetryableFailure(j) \/ ClientError(j) \/ ContextRecap(j)
      PROVE  TypeOK'
  <2>1. PICK next \in {"lookup", "failing"} : Release(j, assigned[j], next)
    BY <1>9 DEF RetryableFailure, ClientError, ContextRecap
  <2>2. /\ attempt' \in [Jobs -> 0 .. MaxAttempts - 1]
        /\ tried' \in [Jobs -> SUBSET Backends]
        /\ recapped' \in [Jobs -> BOOLEAN]
        /\ UNCHANGED <<cand, expired, assigned, waiters, status, draining, age, db>>
    <3>1. attempt' \in [Jobs -> 0 .. MaxAttempts - 1]
      <4>1. CASE attempt[j] + 1 < MaxAttempts /\ attempt' = [attempt EXCEPT ![j] = @ + 1]
        <5>1. attempt[j] + 1 \in 0 .. MaxAttempts - 1
          BY <4>1
        <5> QED BY <4>1, <5>1
      <4>2. CASE attempt' = attempt
        BY <4>2
      <4> QED BY <1>9, <4>1, <4>2 DEF RetryableFailure, ClientError, ContextRecap
    <3>2. /\ recapped' = recapped \/ recapped' = [recapped EXCEPT ![j] = TRUE]
          /\ tried' = tried \/ tried' = [tried EXCEPT ![j] = @ \ {assigned[j]}]
          /\ UNCHANGED <<cand, expired, assigned, waiters, status, draining, age, db>>
      BY <1>9, Zenon DEF RetryableFailure, ClientError, ContextRecap
    <3>3. recapped' \in [Jobs -> BOOLEAN]
      BY <3>2, Zenon
    <3>4. tried' \in [Jobs -> SUBSET Backends]
      BY <3>2
    <3> QED BY <3>1, <3>2, <3>3, <3>4
  <2> QED BY <2>1, <2>2, ReleaseTypes
<1>10. ASSUME NEW j \in Jobs, CompleteRequest(j) \/ FailRequest(j) PROVE TypeOK'
  <2>1. /\ pc' \in [Jobs -> Labels]
        /\ resume' \in [Jobs -> {"idle", "lookup", "failing", "recordOk", "recordFail"}]
        /\ queued' \subseteq Jobs
        /\ depth' \in [Backends -> 0 .. MaxConcurrent]
        /\ slot' \in [Jobs -> Backends \cup {NoBackend}]
    <3>1. CASE \E next \in {"recordOk", "recordFail"} : Release(j, assigned[j], next)
      BY <3>1, ReleaseTypes
    <3>2. CASE queued' = queued \ {j} /\ Goto(j, "recordFail") /\ UNCHANGED <<resume, depth, slot>>
      BY <3>2 DEF Goto, Labels
    <3> QED BY <1>10, <3>1, <3>2 DEF CompleteRequest, FailRequest
  <2>2. /\ LeaveRetryLoop(j)
        /\ UNCHANGED <<assigned, waiters, status, draining, age, db>>
    BY <1>10 DEF CompleteRequest, FailRequest
  <2> QED BY <2>1, <2>2 DEF LeaveRetryLoop, LeaveRouting
<1>11. ASSUME NEW j \in Jobs, DrainCheck(j) \/ CancelDrain(j) PROVE TypeOK'
  BY <1>11 DEF DrainCheck, CancelDrain, Goto, Labels
<1>12. ASSUME NEW j \in Jobs, RecordOk(j) \/ RecordFail(j) PROVE TypeOK'
  BY <1>12 DEF RecordOk, RecordFail, Goto, Labels
<1>13. ASSUME NEW j \in Jobs, Recycle(j) PROVE TypeOK'
  BY <1>13 DEF Recycle, LeaveRetryLoop, LeaveRouting, Goto, Labels
<1>14. ASSUME NEW j \in Jobs, GrowOld(j) \/ GrowStale(j) PROVE TypeOK'
  BY <1>14 DEF GrowOld, GrowStale
<1>15. ASSUME NEW b \in Managed, Registry(b) PROVE TypeOK'
  BY <1>15 DEF Registry, Drain, DrainImmediate, BackendDown, BackendUp
<1>16. CASE GcStaleJobs
  <2>1. ASSUME NEW b \in Backends PROVE Undo(b) \in Nat
    BY FS_Subset, FS_CardinalityType DEF Undo, Evicted
  <2> QED BY <1>16, <2>1 DEF GcStaleJobs
<1>17. CASE CleanupDbOrphans
  BY <1>17 DEF CleanupDbOrphans
<1>18. CASE UNCHANGED vars
  BY <1>18 DEF vars
<1> QED
  BY <1>1, <1>2, <1>3, <1>4, <1>5, <1>6, <1>7, <1>8, <1>9, <1>10, <1>11, <1>12,
     <1>13, <1>14, <1>15, <1>16, <1>17, <1>18
     DEF Next, Progress, Cancel, Time

\* Spec keeps the types, and with them depth <= max_concurrent for every
\* backend's counter.
THEOREM TypeCorrect == Spec => []TypeOK
<1>1. Init => TypeOK
  BY DEF Init, TypeOK, Labels
<1> QED BY <1>1, TypeStep, PTL DEF Spec
-----------------------------------------------------------------------------
(* The discipline of slots.                                                *)

\* A step that leaves a job's own state alone, and does not enqueue it, keeps
\* its discipline.
LEMMA DisciplineFrame ==
    ASSUME NEW k \in Jobs, Discipline(k),
           pc'[k] = pc[k], resume'[k] = resume[k], assigned'[k] = assigned[k],
           slot'[k] = slot[k], age'[k] = age[k], k \in queued' => k \in queued
    PROVE  Discipline(k)'
  BY DEF Discipline

\* A release by the handler of job j, on the backend the job was assigned to,
\* leaves j without a slot and off the queue.
LEMMA ReleaseFrees ==
    ASSUME TypeOK, NEW j \in Jobs, Discipline(j), NEW next,
           Release(j, assigned[j], next)
    PROVE  /\ slot'[j] = NoBackend
           /\ j \notin queued'
           /\ \/ pc'[j] = "drain" /\ resume'[j] = next
              \/ pc'[j] = next /\ resume'[j] = resume[j]
           /\ \A k \in Jobs \ {j} :
                 /\ pc'[k] = pc[k] /\ resume'[k] = resume[k] /\ slot'[k] = slot[k]
                 /\ k \in queued' => k \in queued
<1>1. slot'[j] = NoBackend /\ j \notin queued'
  BY DEF TypeOK, Release, Discipline
<1>2. \/ pc'[j] = "drain" /\ resume'[j] = next
      \/ pc'[j] = next /\ resume'[j] = resume[j]
  BY DEF TypeOK, Release, Goto
<1>3. \A k \in Jobs \ {j} :
         /\ pc'[k] = pc[k] /\ resume'[k] = resume[k] /\ slot'[k] = slot[k]
         /\ k \in queued' => k \in queued
  BY DEF TypeOK, Release, Goto
<1> QED BY <1>1, <1>2, <1>3

\* Every step keeps the discipline of every job.
LEMMA DisciplineStep == TypeOK /\ SlotDiscipline /\ [Next]_vars => SlotDiscipline'
<1> SUFFICES ASSUME TypeOK, SlotDiscipline, [Next]_vars, NEW k \in Jobs
             PROVE  Discipline(k)'
  BY DEF SlotDiscipline
<1>0. Discipline(k)
  BY DEF SlotDiscipline
<1> USE DEF retryVars, bookVars, worldVars, Holding, Tracked, Late, Ended
<1> DEFINE Same(j) == \A i \in Jobs \ {j} :
             /\ pc'[i] = pc[i] /\ resume'[i] = resume[i] /\ assigned'[i] = assigned[i]
             /\ slot'[i] = slot[i] /\ age'[i] = age[i]
             /\ i \in queued' => i \in queued
<1>a. ASSUME NEW j \in Jobs, Same(j), Discipline(j)' PROVE Discipline(k)'
  BY <1>0, <1>a, DisciplineFrame
<1>b. ASSUME NEW j \in Jobs PROVE Discipline(j)
  BY DEF SlotDiscipline
<1>1. ASSUME NEW j \in Jobs, Arrive(j) PROVE Discipline(k)'
  <2>1. Same(j) /\ Discipline(j)'
    BY <1>1, <1>b DEF Arrive, Goto, TypeOK, Discipline
  <2> QED BY <2>1, <1>a
<1>2. ASSUME NEW j \in Jobs, Lookup(j) PROVE Discipline(k)'
  <2>1. pc[j] = "lookup" /\ Goto(j, "submit")
        /\ UNCHANGED <<resume, assigned, queued, slot, age>>
    BY <1>2, Zenon DEF Lookup
  <2>2. Same(j) /\ Discipline(j)'
    BY <2>1, <1>b DEF Goto, TypeOK, Discipline
  <2> QED BY <2>2, <1>a
<1>3. ASSUME NEW j \in Jobs, LookupEmpty(j) \/ RouteRefused(j) \/ WakeEmpty(j)
      PROVE  Discipline(k)'
  <2>1. /\ pc[j] \in {"lookup", "route", "waiting"} /\ RouteFailed(j)
        /\ UNCHANGED <<resume, assigned, slot, age>>
    BY <1>3, Zenon DEF LookupEmpty, RouteRefused, WakeEmpty
  <2>2. Same(j) /\ Discipline(j)'
    BY <2>1, <1>b DEF RouteFailed, Goto, TypeOK, Discipline
  <2> QED BY <2>2, <1>a
<1>4. ASSUME NEW j \in Jobs, Submit(j) PROVE Discipline(k)'
  <2>1. Same(j) /\ Discipline(j)'
    BY <1>4, <1>b DEF Submit, Goto, TypeOK, Discipline
  <2> QED BY <2>1, <1>a
<1>5. ASSUME NEW j \in Jobs, NEW b \in Backends, RouteOk(j, b) PROVE Discipline(k)'
  <2>1. Same(j) /\ Discipline(j)'
    BY <1>5, <1>b DEF RouteOk, Goto, TypeOK, Discipline
  <2> QED BY <2>1, <1>a
<1>6. ASSUME NEW j \in Jobs, RouteWait(j) \/ WakeYield(j) \/ WakeRefresh(j)
      PROVE  Discipline(k)'
  <2>1. /\ pc[j] \in {"route", "waiting"}
        /\ Goto(j, "waiting") \/ Goto(j, "route")
        /\ UNCHANGED <<resume, assigned, queued, slot, age>>
    BY <1>6, Zenon DEF RouteWait, WakeYield, WakeRefresh
  <2>2. Same(j) /\ Discipline(j)'
    BY <2>1, <1>b DEF Goto, TypeOK, Discipline
  <2> QED BY <2>2, <1>a
<1>7. ASSUME NEW j \in Jobs,
             ProxyOk(j) \/ FirstChunk(j) \/ StreamEmpty(j) \/ ProxyRaises(j)
             \/ StreamEnd(j) \/ CancelRouting(j) \/ CancelCompletion(j)
      PROVE  Discipline(k)'
  <2>1. Same(j)
    BY <1>7 DEF ProxyOk, FirstChunk, StreamEmpty, ProxyRaises, StreamEnd,
                CancelRouting, CancelCompletion, Move, Goto, TypeOK
  <2>2. Discipline(j)'
    BY <1>7, <1>b DEF ProxyOk, FirstChunk, StreamEmpty, ProxyRaises, StreamEnd,
                CancelRouting, CancelCompletion, Move, Goto, TypeOK, Discipline
  <2> QED BY <2>1, <2>2, <1>a
<1>8. ASSUME NEW j \in Jobs, RetryableFailure(j) \/ ClientError(j) \/ ContextRecap(j)
      PROVE  Discipline(k)'
  <2>1. PICK next \in {"lookup", "failing"} : Release(j, assigned[j], next)
    BY <1>8 DEF RetryableFailure, ClientError, ContextRecap
  <2>2. pc[j] = "proxying" /\ UNCHANGED <<assigned, age>>
    BY <1>8, Zenon DEF RetryableFailure, ClientError, ContextRecap
  <2>3. Same(j)
    BY <2>1, <2>2, <1>b, ReleaseFrees
  <2>4. Discipline(j)'
    BY <2>1, <2>2, <1>b, ReleaseFrees DEF Discipline, TypeOK
  <2> QED BY <2>3, <2>4, <1>a
<1>9. ASSUME NEW j \in Jobs, CompleteRequest(j) \/ FailRequest(j) PROVE Discipline(k)'
  <2>1. pc[j] \in {"completing", "failing"} /\ UNCHANGED <<assigned, age>>
    BY <1>9, Zenon DEF CompleteRequest, FailRequest
  <2>2. CASE \E next \in {"recordOk", "recordFail"} :
                assigned[j] # NoBackend /\ Release(j, assigned[j], next)
    <3>1. PICK next \in {"recordOk", "recordFail"} :
             assigned[j] # NoBackend /\ Release(j, assigned[j], next)
      BY <2>2
    <3>2. Same(j)
      BY <2>1, <3>1, <1>b, ReleaseFrees
    <3>3. Discipline(j)'
      BY <2>1, <3>1, <1>b, ReleaseFrees DEF Discipline, TypeOK
    <3> QED BY <3>2, <3>3, <1>a
  <2>3. CASE /\ pc[j] = "failing" /\ assigned[j] = NoBackend
             /\ queued' = queued \ {j} /\ Goto(j, "recordFail")
             /\ UNCHANGED <<resume, depth, slot>>
    <3>1. Same(j) /\ Discipline(j)'
      BY <2>1, <2>3, <1>b DEF Goto, Discipline, TypeOK
    <3> QED BY <3>1, <1>a
  <2>4. CompleteRequest(j) => assigned[j] # NoBackend
    BY <1>b DEF CompleteRequest, Discipline
  <2> QED BY <1>9, <2>2, <2>3, <2>4 DEF CompleteRequest, FailRequest
<1>10. ASSUME NEW j \in Jobs, DrainCheck(j) PROVE Discipline(k)'
  <2>1. Same(j) /\ Discipline(j)'
    BY <1>10, <1>b DEF DrainCheck, Goto, TypeOK, Discipline
  <2> QED BY <2>1, <1>a
<1>11. ASSUME NEW j \in Jobs, CancelDrain(j) PROVE Discipline(k)'
  <2>1. Same(j) /\ Discipline(j)'
    BY <1>11, <1>b DEF CancelDrain, Goto, TypeOK, Discipline
  <2> QED BY <2>1, <1>a
<1>12. ASSUME NEW j \in Jobs, RecordOk(j) \/ RecordFail(j) PROVE Discipline(k)'
  <2>1. Same(j) /\ Discipline(j)'
    BY <1>12, <1>b DEF RecordOk, RecordFail, Goto, TypeOK, Discipline
  <2> QED BY <2>1, <1>a
<1>13. ASSUME NEW j \in Jobs, Recycle(j) PROVE Discipline(k)'
  <2>1. Same(j) /\ Discipline(j)'
    BY <1>13, <1>b DEF Recycle, Goto, TypeOK, Discipline
  <2> QED BY <2>1, <1>a
<1>14. ASSUME NEW j \in Jobs, GrowOld(j) \/ GrowStale(j) PROVE Discipline(k)'
  <2>1. Same(j) /\ Discipline(j)'
    BY <1>14, <1>b DEF GrowOld, GrowStale, TypeOK, Discipline
  <2> QED BY <2>1, <1>a
<1>15. CASE GcStaleJobs
  BY <1>0, <1>15 DEF GcStaleJobs, Evicted, TypeOK, Discipline
<1>16. ASSUME UNCHANGED <<pc, resume, assigned, slot, age, queued>> PROVE Discipline(k)'
  BY <1>0, <1>16, DisciplineFrame
<1>17. ASSUME NEW j \in Jobs, Expire(j) PROVE Discipline(k)'
  BY <1>16, <1>17, Zenon DEF Expire
<1>18. ASSUME NEW b \in Managed, Registry(b) PROVE Discipline(k)'
  BY <1>16, <1>18 DEF Registry, Drain, DrainImmediate, BackendDown, BackendUp
<1>19. CASE CleanupDbOrphans \/ UNCHANGED vars
  BY <1>16, <1>19 DEF CleanupDbOrphans, vars
<1> QED
  BY <1>1, <1>2, <1>3, <1>4, <1>5, <1>6, <1>7, <1>8, <1>9, <1>10, <1>11, <1>12,
     <1>13, <1>14, <1>15, <1>17, <1>18, <1>19
     DEF Next, Progress, Cancel, Time

\* A slot is held only where a handler or the collector comes to release it,
\* in every reachable state.
THEOREM SlotsDisciplined == Spec => []SlotDiscipline
<1>1. Init => SlotDiscipline
  BY DEF Init, SlotDiscipline, Discipline
<1> QED BY <1>1, TypeCorrect, DisciplineStep, PTL DEF Spec

\* A request ended by its handlers holds no slot and is not queued.
THEOREM EndedRequestsHoldNothing == Spec => []EndedHoldsNothing
<1>1. SlotDiscipline => EndedHoldsNothing
  BY DEF SlotDiscipline, Discipline, EndedHoldsNothing, Holding, Tracked
<1> QED BY <1>1, SlotsDisciplined, PTL

\* A job is never submitted to the queue while it is in it.
THEOREM NeverEnqueuedTwice == Spec => []EnqueuedOnce
<1>1. SlotDiscipline => EnqueuedOnce
  BY DEF SlotDiscipline, Discipline, EnqueuedOnce, Holding, Tracked
<1> QED BY <1>1, SlotsDisciplined, PTL

-----------------------------------------------------------------------------
(* The register of waiters.                                                *)

\* A step of job j leaves the others alone, and registers at most j.
LEMMA WaitingFrame ==
    ASSUME NEW j \in Jobs, WaitersWait, Waiting(j)',
           waiters' \subseteq waiters \cup {j},
           \A i \in Jobs \ {j} :
              pc'[i] = pc[i] /\ resume'[i] = resume[i] /\ slot'[i] = slot[i]
    PROVE  WaitersWait'
  BY DEF WaitersWait, Waiting

\* Every way out of the wait loop unregisters the job, except a cancellation,
\* after which the job only ever fails.
LEMMA WaitingStep == TypeOK /\ SlotDiscipline /\ WaitersWait /\ [Next]_vars => WaitersWait'
<1> SUFFICES ASSUME TypeOK, SlotDiscipline, WaitersWait, [Next]_vars
             PROVE  WaitersWait'
  OBVIOUS
<1> USE DEF retryVars, bookVars, worldVars
<1> DEFINE Same(j) == \A i \in Jobs \ {j} :
             pc'[i] = pc[i] /\ resume'[i] = resume[i] /\ slot'[i] = slot[i]
<1>b. ASSUME NEW j \in Jobs PROVE Waiting(j) /\ Discipline(j)
  BY DEF WaitersWait, SlotDiscipline
<1>1. ASSUME NEW j \in Jobs, Arrive(j) \/ Submit(j) PROVE WaitersWait'
  <2>1. Same(j) /\ waiters' = waiters /\ Waiting(j)'
    BY <1>1, <1>b DEF Arrive, Submit, Goto, TypeOK, Waiting
  <2> QED BY <2>1, WaitingFrame
<1>2. ASSUME NEW j \in Jobs, Lookup(j) PROVE WaitersWait'
  <2>1. pc[j] = "lookup" /\ Goto(j, "submit") /\ UNCHANGED <<resume, waiters, slot>>
    BY <1>2, Zenon DEF Lookup
  <2>2. Same(j) /\ Waiting(j)'
    BY <2>1, <1>b DEF Goto, TypeOK, Waiting
  <2> QED BY <2>1, <2>2, WaitingFrame
<1>3. ASSUME NEW j \in Jobs, LookupEmpty(j) \/ RouteRefused(j) \/ WakeEmpty(j)
      PROVE  WaitersWait'
  <2>1. RouteFailed(j) /\ UNCHANGED <<resume, slot>>
    BY <1>3, Zenon DEF LookupEmpty, RouteRefused, WakeEmpty
  <2>2. Same(j) /\ waiters' = waiters \ {j} /\ Waiting(j)'
    BY <2>1 DEF RouteFailed, Goto, TypeOK, Waiting
  <2> QED BY <2>2, WaitingFrame
<1>4. ASSUME NEW j \in Jobs, NEW b \in Backends, RouteOk(j, b) PROVE WaitersWait'
  <2>1. Same(j) /\ waiters' = waiters \ {j} /\ Waiting(j)'
    BY <1>4 DEF RouteOk, Goto, TypeOK, Waiting
  <2> QED BY <2>1, WaitingFrame
<1>5. ASSUME NEW j \in Jobs, RouteWait(j) \/ WakeYield(j) \/ WakeRefresh(j)
      PROVE  WaitersWait'
  <2>1. /\ pc[j] \in {"route", "waiting"}
        /\ Goto(j, "waiting") \/ Goto(j, "route")
        /\ waiters' \in {waiters, waiters \cup {j}}
        /\ UNCHANGED <<resume, slot>>
    BY <1>5, Zenon DEF RouteWait, WakeYield, WakeRefresh
  <2>2. slot[j] = NoBackend
    BY <2>1, <1>b DEF Discipline, Holding, TypeOK
  <2>3. Same(j) /\ waiters' \subseteq waiters \cup {j} /\ Waiting(j)'
    BY <2>1, <2>2 DEF Goto, TypeOK, Waiting
  <2> QED BY <2>3, WaitingFrame
<1>6. ASSUME NEW j \in Jobs,
             ProxyOk(j) \/ FirstChunk(j) \/ StreamEmpty(j) \/ ProxyRaises(j)
             \/ StreamEnd(j) \/ CancelRouting(j) \/ CancelCompletion(j)
      PROVE  WaitersWait'
  <2>1. Same(j) /\ waiters' = waiters /\ Waiting(j)'
    BY <1>6, <1>b DEF ProxyOk, FirstChunk, StreamEmpty, ProxyRaises, StreamEnd,
                CancelRouting, CancelCompletion, Move, Goto, TypeOK, Waiting
  <2> QED BY <2>1, WaitingFrame
<1>7. ASSUME NEW j \in Jobs,
             RetryableFailure(j) \/ ClientError(j) \/ ContextRecap(j) \/ CompleteRequest(j)
      PROVE  WaitersWait'
  <2>1. PICK next : Release(j, assigned[j], next)
    BY <1>7 DEF RetryableFailure, ClientError, ContextRecap, CompleteRequest
  <2>2. pc[j] \in {"proxying", "completing"} /\ waiters' = waiters
    BY <1>7, Zenon DEF RetryableFailure, ClientError, ContextRecap, CompleteRequest
  <2>3. Same(j) /\ j \notin waiters
    BY <2>1, <2>2, <1>b, ReleaseFrees DEF Waiting
  <2> QED BY <2>2, <2>3, WaitingFrame DEF Waiting
<1>8. ASSUME NEW j \in Jobs, FailRequest(j) PROVE WaitersWait'
  <2>1. waiters' = waiters
    BY <1>8, Zenon DEF FailRequest
  <2>2. CASE Release(j, assigned[j], "recordFail")
    <3>1. Same(j) /\ Waiting(j)'
      BY <2>2, <1>b, ReleaseFrees DEF Waiting
    <3> QED BY <2>1, <3>1, WaitingFrame
  <2>3. CASE Goto(j, "recordFail") /\ UNCHANGED <<resume, slot>>
    <3>1. Same(j) /\ Waiting(j)'
      BY <2>1, <2>3, <1>b DEF Waiting, Goto, TypeOK
    <3> QED BY <2>1, <3>1, WaitingFrame
  <2> QED BY <1>8, <2>2, <2>3 DEF FailRequest
<1>9. ASSUME NEW j \in Jobs, DrainCheck(j) \/ CancelDrain(j) PROVE WaitersWait'
  <2>1. Same(j) /\ waiters' = waiters /\ Waiting(j)'
    BY <1>9, <1>b DEF DrainCheck, CancelDrain, Goto, TypeOK, Waiting
  <2> QED BY <2>1, WaitingFrame
<1>10. ASSUME NEW j \in Jobs, RecordOk(j) \/ RecordFail(j) \/ Recycle(j)
       PROVE  WaitersWait'
  <2>1. Same(j) /\ waiters' = waiters /\ Waiting(j)'
    BY <1>10, <1>b DEF RecordOk, RecordFail, Recycle, Goto, TypeOK, Waiting
  <2> QED BY <2>1, WaitingFrame
<1>11. CASE GcStaleJobs
  BY <1>11 DEF GcStaleJobs, TypeOK, WaitersWait, Waiting
<1>12. ASSUME UNCHANGED <<pc, resume, slot, waiters>> PROVE WaitersWait'
  BY <1>12 DEF WaitersWait, Waiting
<1>13. ASSUME NEW j \in Jobs, Time(j) PROVE WaitersWait'
  BY <1>12, <1>13, Zenon DEF Time, Expire, GrowOld, GrowStale
<1>14. ASSUME NEW b \in Managed, Registry(b) PROVE WaitersWait'
  BY <1>12, <1>14 DEF Registry, Drain, DrainImmediate, BackendDown, BackendUp
<1>15. CASE CleanupDbOrphans \/ UNCHANGED vars
  BY <1>12, <1>15 DEF CleanupDbOrphans, vars
<1> QED
  BY <1>1, <1>2, <1>3, <1>4, <1>5, <1>6, <1>7, <1>8, <1>9, <1>10, <1>11, <1>13,
     <1>14, <1>15 DEF Next, Progress, Cancel

\* The register of waiters holds only requests that wait for capacity or were
\* cancelled while they did.
THEOREM OnlyWaitersAreWaiters == Spec => []WaitersWait
<1>1. Init => WaitersWait
  BY DEF Init, WaitersWait, Waiting
<1> QED BY <1>1, TypeCorrect, SlotsDisciplined, WaitingStep, PTL DEF Spec

-----------------------------------------------------------------------------
(* The counters and the slots they count.                                  *)

\* The set of jobs that map to b is finite, so it has a size.
LEMMA FiberFinite ==
    ASSUME NEW s, NEW b
    PROVE  /\ IsFiniteSet({j \in Jobs : s[j] = b})
           /\ Cardinality({j \in Jobs : s[j] = b}) \in Nat
  BY FS_Subset, FS_CardinalityType

\* So is the set of jobs that hold a slot of b, before and after a step.
LEMMA HoldersFinite ==
    ASSUME NEW b
    PROVE  /\ IsFiniteSet(Holders(b)) /\ Cardinality(Holders(b)) \in Nat
           /\ IsFiniteSet(Holders(b)') /\ Cardinality(Holders(b)') \in Nat
<1>1. \A S \in SUBSET Jobs : IsFiniteSet(S) /\ Cardinality(S) \in Nat
  BY FS_Subset, FS_CardinalityType
<1>2. Holders(b) \in SUBSET Jobs /\ Holders(b)' \in SUBSET Jobs
  BY DEF Holders
<1> QED BY <1>1, <1>2

\* Taking an element out of a finite set, or putting a new one in.
LEMMA SizeChanges ==
    ASSUME NEW S, NEW e, IsFiniteSet(S)
    PROVE  /\ e \in S => Cardinality(S \ {e}) = Cardinality(S) - 1
           /\ e \notin S => Cardinality(S \ {e}) = Cardinality(S)
           /\ e \notin S => Cardinality(S \cup {e}) = Cardinality(S) + 1
<1>1. e \in S => Cardinality(S \ {e}) = Cardinality(S) - 1
  BY FS_RemoveElement
<1>2. ASSUME e \notin S PROVE S \ {e} = S
  BY <1>2
<1>3. e \notin S => Cardinality(S \cup {e}) = Cardinality(S) + 1
  BY FS_AddElement
<1> QED BY <1>1, <1>2, <1>3

\* Steps that touch neither counters nor slots keep the count.
LEMMA CountFrame ==
    ASSUME UNCHANGED <<depth, slot>>
    PROVE  /\ NoPhantomSlots => NoPhantomSlots'
           /\ Exact => Exact'
  BY DEF NoPhantomSlots, Exact, Holders

\* A release takes one off the counter; it is exact when the job still held
\* the slot, and one too many when the slot had been released before.
LEMMA ReleaseCounts ==
    ASSUME TypeOK, NEW j \in Jobs, Discipline(j), NEW b \in Backends, NEW next,
           assigned[j] = b, Release(j, b, next)
    PROVE  /\ NoPhantomSlots => NoPhantomSlots'
           /\ Exact /\ slot[j] # NoBackend => Exact'
<1>1. Holders(b)' = Holders(b) \ {j}
  BY DEF Release, Holders, TypeOK, Discipline
<1>2. \A c \in Backends \ {b} : Holders(c)' = Holders(c) /\ depth'[c] = depth[c]
  BY DEF Release, Holders, TypeOK, Discipline
<1>3. depth'[b] = Dec(depth[b]) /\ depth[b] \in Nat
  BY DEF Release, TypeOK
<1>4. Cardinality(Holders(b)') = IF j \in Holders(b) THEN Cardinality(Holders(b)) - 1
                                                   ELSE Cardinality(Holders(b))
  <2>1. IsFiniteSet(Holders(b))
    BY HoldersFinite
  <2>2. /\ j \in Holders(b) => Cardinality(Holders(b) \ {j}) = Cardinality(Holders(b)) - 1
        /\ j \notin Holders(b) => Cardinality(Holders(b) \ {j}) = Cardinality(Holders(b))
    BY <2>1, SizeChanges
  <2> QED BY <1>1, <2>2
<1>5. slot[j] # NoBackend => j \in Holders(b)
  BY DEF Discipline, Holders
<1>6. Cardinality(Holders(b)) \in Nat /\ Cardinality(Holders(b)') \in Nat
  BY HoldersFinite
<1>7. NoPhantomSlots => NoPhantomSlots'
  BY <1>2, <1>3, <1>4, <1>6 DEF NoPhantomSlots, Dec
<1>8. Exact /\ slot[j] # NoBackend => Exact'
  BY <1>2, <1>3, <1>4, <1>5, <1>6 DEF Exact, Dec
<1> QED BY <1>7, <1>8

\* route_job adds one to the counter and one job to the holders.
LEMMA RouteCounts ==
    ASSUME TypeOK, NEW j \in Jobs, Discipline(j), NEW b \in Backends, RouteOk(j, b)
    PROVE  /\ NoPhantomSlots => NoPhantomSlots'
           /\ Exact => Exact'
<1>1. slot[j] = NoBackend
  BY DEF RouteOk, Discipline, Holding
<1>2. Holders(b)' = Holders(b) \cup {j} /\ j \notin Holders(b)
  BY <1>1 DEF RouteOk, Holders, TypeOK
<1>3. \A c \in Backends \ {b} : Holders(c)' = Holders(c) /\ depth'[c] = depth[c]
  BY <1>1 DEF RouteOk, Holders, TypeOK
<1>4. depth'[b] = depth[b] + 1 /\ depth[b] \in Nat
  BY DEF RouteOk, TypeOK
<1>5. Cardinality(Holders(b)') = Cardinality(Holders(b)) + 1
  <2>1. IsFiniteSet(Holders(b))
    BY HoldersFinite
  <2>2. j \notin Holders(b) => Cardinality(Holders(b) \cup {j}) = Cardinality(Holders(b)) + 1
    BY <2>1, SizeChanges
  <2> QED BY <1>2, <2>2
<1>6. Cardinality(Holders(b)) \in Nat
  BY HoldersFinite
<1> QED BY <1>3, <1>4, <1>5, <1>6 DEF NoPhantomSlots, Exact

\* The collector takes at least as much off a counter as it takes slots from
\* leaked jobs, and exactly as much when only leaked jobs hold slots.
LEMMA GcCounts ==
    ASSUME TypeOK, SlotDiscipline, GcStaleJobs
    PROVE  /\ NoPhantomSlots => NoPhantomSlots'
           /\ Exact /\ (\A b \in Backends : Serving(b) = {}) => Exact'
<1> SUFFICES ASSUME NEW b \in Backends
             PROVE  /\ depth[b] <= Cardinality(Holders(b))
                          => depth'[b] <= Cardinality(Holders(b)')
                    /\ depth[b] = Cardinality(Holders(b)) /\ Serving(b) = {}
                          => depth'[b] = Cardinality(Holders(b)')
  BY DEF NoPhantomSlots, Exact
<1> DEFINE H == Holders(b)
           U == {j \in Evicted : assigned[j] = b}
           C == {j \in Jobs : pc[j] = "orphan" /\ (j \in Evicted \/ queued' = {})}
<1>1. IsFiniteSet(U) /\ Undo(b) = Cardinality(U) /\ Cardinality(U) \in Nat
  BY FS_Subset, FS_CardinalityType DEF Undo, Evicted, TypeOK
<1>2. Holders(b)' = H \ C
  BY DEF GcStaleJobs, Holders, TypeOK
<1>3. /\ Cardinality(Holders(b)') = Cardinality(H) - Cardinality(H \cap C)
      /\ Cardinality(H) \in Nat
      /\ Cardinality(Holders(b)') \in Nat
  BY <1>2, HoldersFinite, FS_Difference
<1>4. depth[b] \in Nat
      /\ depth'[b] = IF queued' = {} \/ depth[b] < Undo(b) THEN 0 ELSE depth[b] - Undo(b)
  BY DEF GcStaleJobs, TypeOK
<1>5. CASE queued' = {}
  <2>1. depth'[b] = 0
    BY <1>4, <1>5
  <2>2. Serving(b) = {} => H \ C = {}
    BY <1>5 DEF Serving, Holders
  <2>3. Serving(b) = {} => Cardinality(Holders(b)') = 0
    BY <1>2, <2>2, FS_EmptySet
  <2> QED BY <1>3, <2>1, <2>3
<1>6. CASE queued' # {}
  <2>1. H \cap C \subseteq U
    BY <1>6 DEF SlotDiscipline, Discipline, Holders
  <2>2. Cardinality(H \cap C) <= Cardinality(U) /\ Cardinality(H \cap C) \in Nat
    BY <2>1, <1>1, FS_Subset, FS_CardinalityType
  <2>3. Serving(b) = {} => H \cap C = U
    <3>1. U \subseteq H
      BY DEF SlotDiscipline, Discipline, Holders, Evicted, TypeOK
    <3> QED BY <2>1, <3>1 DEF Serving, Evicted, TypeOK
  <2>4. Serving(b) = {} => Cardinality(H \cap C) = Cardinality(U)
    BY <2>3
  <2> HIDE DEF H, U, C
  <2> QED BY <1>1, <1>3, <1>4, <1>6, <2>2, <2>4 DEF H
<1> QED BY <1>5, <1>6
\* Every step keeps the counters at or below the slots held; and from exact
\* counters it either stays exact or is one of the three listed miscounts.
LEMMA CountStep ==
    ASSUME TypeOK, SlotDiscipline, [Next]_vars
    PROVE  /\ NoPhantomSlots => NoPhantomSlots'
           /\ Exact => Exact' \/ Miscount
<1> DEFINE Kept == (NoPhantomSlots => NoPhantomSlots') /\ (Exact => Exact' \/ Miscount)
<1> SUFFICES Kept
  OBVIOUS
<1> USE DEF retryVars, bookVars, worldVars
<1>a. ASSUME NEW j \in Jobs PROVE Discipline(j)
  BY DEF SlotDiscipline
<1>1. ASSUME NEW j \in Jobs, NEW b \in Backends, RouteOk(j, b) PROVE Kept
  BY <1>1, <1>a, RouteCounts
<1>2. ASSUME NEW j \in Jobs, NEW next, pc[j] \in {"proxying", "completing"},
             Release(j, assigned[j], next)
      PROVE  Kept
  <2>1. slot[j] # NoBackend
    BY <1>2, <1>a DEF Discipline
  <2>2. PICK b \in Backends : assigned[j] = b
    BY <2>1, <1>a DEF Discipline, TypeOK
  <2> QED BY <1>2, <1>a, <2>1, <2>2, ReleaseCounts
<1>3. ASSUME NEW j \in Jobs, FailRequest(j) PROVE Kept
  <2>1. CASE assigned[j] # NoBackend
    <3>1. PICK b \in Backends : assigned[j] = b
      BY <2>1 DEF TypeOK
    <3>2. Release(j, b, "recordFail")
      BY <1>3, <2>1, <3>1 DEF FailRequest
    <3>3. /\ NoPhantomSlots => NoPhantomSlots'
          /\ Exact /\ slot[j] # NoBackend => Exact'
      BY <1>a, <3>1, <3>2, ReleaseCounts
    <3> QED BY <1>3, <3>3 DEF Miscount
  <2>2. CASE assigned[j] = NoBackend
    <3>1. UNCHANGED <<depth, slot>>
      BY <1>3, <2>2 DEF FailRequest
    <3> QED BY <3>1, CountFrame
  <2> QED BY <2>1, <2>2
<1>4. CASE GcStaleJobs
  BY <1>4, GcCounts DEF Miscount
<1>5. ASSUME UNCHANGED <<depth, slot>> PROVE Kept
  BY <1>5, CountFrame
<1>6. ASSUME NEW j \in Jobs,
             RetryableFailure(j) \/ ClientError(j) \/ ContextRecap(j) \/ CompleteRequest(j)
      PROVE  Kept
  <2>1. /\ pc[j] \in {"proxying", "completing"}
        /\ \E next \in {"lookup", "failing", "recordOk"} : Release(j, assigned[j], next)
    BY <1>6 DEF RetryableFailure, ClientError, ContextRecap, CompleteRequest
  <2> QED BY <2>1, <1>2
<1>7. ASSUME NEW j \in Jobs,
             \/ Arrive(j) \/ Lookup(j) \/ LookupEmpty(j) \/ Submit(j)
             \/ RouteWait(j) \/ RouteRefused(j) \/ Expire(j)
             \/ WakeYield(j) \/ WakeRefresh(j) \/ WakeEmpty(j)
      PROVE  Kept
  <2>1. UNCHANGED <<depth, slot>>
    BY <1>7, Zenon DEF Arrive, Lookup, LookupEmpty, Submit, RouteWait, RouteRefused,
                Expire, WakeYield, WakeRefresh, WakeEmpty
  <2> QED BY <2>1, <1>5
<1>8. ASSUME NEW j \in Jobs,
             \/ ProxyOk(j) \/ FirstChunk(j) \/ StreamEmpty(j) \/ ProxyRaises(j)
             \/ StreamEnd(j) \/ CancelRouting(j) \/ CancelCompletion(j)
             \/ DrainCheck(j) \/ CancelDrain(j) \/ RecordOk(j) \/ RecordFail(j)
             \/ Recycle(j) \/ GrowOld(j) \/ GrowStale(j)
      PROVE  Kept
  <2>1. UNCHANGED <<depth, slot>>
    BY <1>8, Zenon DEF ProxyOk, FirstChunk, StreamEmpty, ProxyRaises, StreamEnd,
                CancelRouting, CancelCompletion, Move, DrainCheck, CancelDrain,
                RecordOk, RecordFail, Recycle, GrowOld, GrowStale
  <2> QED BY <2>1, <1>5
<1>9. ASSUME NEW b \in Managed, Registry(b) PROVE Kept
  <2>1. UNCHANGED <<depth, slot>>
    BY <1>9, Zenon DEF Registry, Drain, DrainImmediate, BackendDown, BackendUp
  <2> QED BY <2>1, <1>5
<1>10. CASE CleanupDbOrphans \/ UNCHANGED vars
  <2>1. UNCHANGED <<depth, slot>>
    BY <1>10, Zenon DEF CleanupDbOrphans, vars
  <2> QED BY <2>1, <1>5
<1> HIDE DEF Kept
<1> QED
  BY <1>1, <1>3, <1>4, <1>6, <1>7, <1>8, <1>9, <1>10
     DEF Next, Progress, Cancel, Time

\* No counter ever exceeds the slots that requests took and did not return, so
\* no sequence of retries, cancellations, evictions and resets withholds
\* capacity for a slot nobody took.
THEOREM CountersNeverOvercount == Spec => []NoPhantomSlots
<1>1. Init => NoPhantomSlots
  <2>1. ASSUME Init, NEW b \in Backends PROVE depth[b] = 0
    BY <2>1 DEF Init
  <2> QED BY <2>1, HoldersFinite DEF NoPhantomSlots
<1>2. TypeOK /\ SlotDiscipline /\ NoPhantomSlots /\ [Next]_vars => NoPhantomSlots'
  BY CountStep
<1> QED BY <1>1, <1>2, TypeCorrect, SlotsDisciplined, PTL DEF Spec

\* Exact counters become inexact only by a second release in the failure
\* handler or by the collector while a request runs.
THEOREM MiscountsHaveThreeCauses == Spec => MiscountsExplained
<1>1. TypeOK /\ SlotDiscipline /\ [Next]_vars =>
        [Exact => Exact' \/ Miscount]_vars
  BY CountStep
<1> QED BY <1>1, TypeCorrect, SlotsDisciplined, PTL DEF Spec, MiscountsExplained
=============================================================================
