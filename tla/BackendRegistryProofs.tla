------------------------ MODULE BackendRegistryProofs ------------------------
(***************************************************************************)
(* What BackendRegistry guarantees for any number of workers, any          *)
(* thresholds and any traffic: circuits reopen, types hold, an             *)
(* administrator's status is replaced only for a listed reason.            *)
(***************************************************************************)
EXTENDS BackendRegistry, TLAPS

USE ThresholdsAssumption DEF ThresholdsAssumption

Breaker == [count : 0 .. BreakerThreshold, circuit : Circuits]

\* The part of TypeOK that concerns circuit breakers.
BreakerTypes ==
    /\ saved \in Breaker
    /\ breaker \in [Workers -> Breaker]

\* A breaker that is not closed has reached the threshold.
Ripe(cb) == cb.circuit # "closed" => cb.count >= BreakerThreshold

BreakerInv ==
    /\ BreakerTypes
    /\ Ripe(saved)
    /\ \A w \in Workers : Ripe(breaker[w])

\* A step that replaces the breaker of one worker by a ripe one, or the
\* persisted copy by a ripe one, keeps the invariant.
LEMMA BreakerChange ==
    ASSUME BreakerInv, NEW w \in Workers, NEW cb \in Breaker, Ripe(cb),
           breaker' = breaker \/ breaker' = [breaker EXCEPT ![w] = cb],
           saved' = saved \/ (saved' \in Breaker /\ Ripe(saved'))
    PROVE  BreakerInv'
  BY DEF BreakerInv, BreakerTypes, Ripe

\* CircuitBreakerState() and every reset of it is a breaker that owes no failures.
LEMMA ClosedRipe == Closed \in Breaker /\ Ripe(Closed)
  BY DEF Closed, Breaker, Circuits, Ripe

\* Every step keeps the breakers ripe: opening happens at the threshold, the
\* recovery time leaves the count alone, closing clears both fields, and a
\* restart loads what an open or closed breaker stored.
LEMMA BreakerStep == BreakerInv /\ [Next]_vars => BreakerInv'
<1> SUFFICES ASSUME BreakerInv, [Next]_vars PROVE BreakerInv'
  OBVIOUS
<1>1. ASSUME UNCHANGED <<breaker, saved>> PROVE BreakerInv'
  BY <1>1 DEF BreakerInv, BreakerTypes, Ripe
<1>2. ASSUME NEW w \in Workers, LiveFailure(w) PROVE BreakerInv'
  <2> DEFINE count == Least(breaker[w].count + 1, BreakerThreshold)
             opens == count >= BreakerThreshold /\ breaker[w].circuit # "open"
             cb == [count |-> count,
                    circuit |-> IF opens THEN "open" ELSE breaker[w].circuit]
  <2>1. breaker[w] \in Breaker /\ Ripe(breaker[w])
    BY DEF BreakerInv, BreakerTypes
  <2>2. count \in 0 .. BreakerThreshold /\ (breaker[w].count = BreakerThreshold => count = BreakerThreshold)
    BY <2>1 DEF Breaker, Least
  <2>3. cb \in Breaker /\ Ripe(cb)
    BY <2>1, <2>2 DEF Breaker, Ripe, Circuits
  <2>4. breaker' = [breaker EXCEPT ![w] = cb] /\ saved' = saved
    BY <1>2 DEF LiveFailure, rowVars
  <2> QED BY <2>3, <2>4, BreakerChange
<1>3. ASSUME NEW w \in Workers, LiveSuccess(w) PROVE BreakerInv'
  BY <1>3, BreakerChange, ClosedRipe DEF LiveSuccess, rowVars
<1>4. ASSUME NEW w \in Workers, TripWrite(w) PROVE BreakerInv'
  <2>1. breaker[w] \in Breaker /\ Ripe(breaker[w])
    BY DEF BreakerInv, BreakerTypes
  <2> QED BY <1>4, <2>1, BreakerChange DEF TripWrite
<1>5. ASSUME NEW w \in Workers, HealWrite(w) PROVE BreakerInv'
  BY <1>5, BreakerChange, ClosedRipe DEF HealWrite
<1>6. ASSUME NEW w \in Workers, RecoveryElapsed(w) PROVE BreakerInv'
  <2> DEFINE cb == [breaker[w] EXCEPT !.circuit = "half_open"]
  <2>1. cb \in Breaker /\ Ripe(cb)
    BY <1>6 DEF RecoveryElapsed, BreakerInv, BreakerTypes, Breaker, Circuits, Ripe
  <2>2. breaker' = [breaker EXCEPT ![w] = cb] /\ saved' = saved
    BY <1>6 DEF RecoveryElapsed, rowVars
  <2> QED BY <2>1, <2>2, BreakerChange
<1>7. ASSUME NEW w \in Workers, PollWriteHealthy(w) PROVE BreakerInv'
  <2>1. \/ UNCHANGED <<breaker, saved>>
        \/ breaker' = [breaker EXCEPT ![w] = Closed] /\ saved' = Closed
    BY <1>7 DEF PollWriteHealthy
  <2> QED BY <2>1, <1>1, BreakerChange, ClosedRipe
<1>8. ASSUME NEW w \in Workers, Restart(w) PROVE BreakerInv'
  <2>1. PICK c \in (IF saved.circuit = "closed" THEN {"closed"} ELSE {"open", "half_open"}) :
           breaker' = [breaker EXCEPT ![w] = [count |-> saved.count, circuit |-> c]]
    BY <1>8 DEF Restart
  <2> DEFINE cb == [count |-> saved.count, circuit |-> c]
  <2>2. cb \in Breaker /\ Ripe(cb)
    BY DEF BreakerInv, BreakerTypes, Breaker, Circuits, Ripe
  <2>3. saved' = saved
    BY <1>8 DEF Restart
  <2> QED BY <2>1, <2>2, <2>3, BreakerChange
<1>9. ASSUME NEW w \in Workers,
             \/ Route(w) \/ LiveOther(w) \/ WriteLost(w) \/ PollRead(w)
             \/ PollWriteUnhealthy(w) \/ EnableBackend(w)
             \/ ForceOffline(w) \/ ForceOnline(w)
      PROVE  BreakerInv'
  <2>1. UNCHANGED <<breaker, saved>>
    BY <1>9, Zenon DEF Route, LiveOther, WriteLost, PollRead, PollWriteUnhealthy,
       EnableBackend, ForceOffline, ForceOnline, rowVars
  <2> QED BY <2>1, <1>1
<1>10. CASE DisableBackend \/ DrainBackend \/ CompleteDrain \/ Flip \/ UNCHANGED vars
  <2>1. UNCHANGED <<breaker, saved>>
    BY <1>10, Zenon DEF DisableBackend, DrainBackend, CompleteDrain, Flip, rowVars, vars
  <2> QED BY <2>1, <1>1
<1> QED
  BY <1>2, <1>3, <1>4, <1>5, <1>6, <1>7, <1>8, <1>9, <1>10 DEF Next, Poll

\* In every reachable state, with any number of workers that restart and load
\* each other's persisted breakers, one more failure of a circuit that is not
\* closed opens it again.
THEOREM CircuitsRetrip == Spec => []TrippedCircuitsRetrip
<1>1. Init => BreakerInv
  BY ClosedRipe DEF Init, BreakerInv, BreakerTypes
<1>2. BreakerInv => TrippedCircuitsRetrip
  BY DEF BreakerInv, Ripe, TrippedCircuitsRetrip
<1> QED BY <1>1, <1>2, BreakerStep, PTL DEF Spec

-----------------------------------------------------------------------------
(* Types.                                                                  *)

Checks == [result : {"none", "ok", "bad"}, polled : BOOLEAN,
           status : Statuses, failures : 0 .. UnhealthyThreshold]

\* The rest of TypeOK.
RowTypes ==
    /\ status \in Statuses
    /\ failures \in 0 .. UnhealthyThreshold
    /\ up \in BOOLEAN

WorkerTypes ==
    /\ writes \in [Workers -> SUBSET {"trip", "heal"}]
    /\ check \in [Workers -> Checks]
    /\ inflight \in [Workers -> 0 .. MaxInflight]
    /\ forced \in [Workers -> BOOLEAN]

\* One more failure saturates at the threshold; every status that is written is
\* a BackendStatus.
LEMMA CountsSaturate ==
    ASSUME NEW n \in 0 .. UnhealthyThreshold
    PROVE  OneMoreFailure(n) \in 0 .. UnhealthyThreshold
  BY DEF OneMoreFailure, Least

\* A written status is a status.
LEMMA StatusWritten ==
    ASSUME RowTypes, NEW s \in Statuses, UpdateStatus(s)
    PROVE  status' \in Statuses /\ failures' \in 0 .. UnhealthyThreshold
<1>1. OneMoreFailure(failures) \in 0 .. UnhealthyThreshold
  BY CountsSaturate DEF RowTypes
<1> QED BY <1>1 DEF UpdateStatus

\* What a check knows is of a Check's type, and no check is one, too.
LEMMA SampleType ==
    ASSUME NEW polled \in BOOLEAN, NEW s \in Statuses, NEW f \in 0 .. UnhealthyThreshold
    PROVE  Sample(polled, s, f) \in Checks
  BY DEF Sample, Checks

\* No check in flight is a value of its type.
LEMMA NoCheckType == NoCheck \in Checks
  BY DEF NoCheck, Checks, Statuses

\* Every step keeps the row's types.
LEMMA RowTypesStep == RowTypes /\ WorkerTypes /\ [Next]_vars => RowTypes'
<1> SUFFICES ASSUME RowTypes, WorkerTypes, [Next]_vars PROVE RowTypes'
  OBVIOUS
<1> USE DEF rowVars
<1>1. {"healthy", "unhealthy", "unknown", "disabled", "draining"} \subseteq Statuses
  BY DEF Statuses, AdminSet
<1>2. ASSUME UNCHANGED <<status, failures>>, up' \in BOOLEAN PROVE RowTypes'
  BY <1>2 DEF RowTypes
<1>3. ASSUME NEW s \in Statuses, UpdateStatus(s), up' = up PROVE RowTypes'
  BY <1>3, StatusWritten DEF RowTypes
<1>4. ASSUME NEW w \in Workers, PollWriteHealthy(w) PROVE RowTypes'
  BY <1>1, <1>4 DEF PollWriteHealthy, RowTypes
<1>5. ASSUME NEW w \in Workers, PollWriteUnhealthy(w) PROVE RowTypes'
  <2>1. check[w].failures \in 0 .. UnhealthyThreshold
    BY DEF WorkerTypes, Checks
  <2>2. OneMoreFailure(check[w].failures) \in 0 .. UnhealthyThreshold
    BY <2>1, CountsSaturate
  <2> QED BY <1>1, <1>5, <2>2 DEF PollWriteUnhealthy, RowTypes
<1>6. ASSUME NEW w \in Workers, Restart(w) PROVE RowTypes'
  BY <1>1, <1>6 DEF Restart, RowTypes
<1>7. ASSUME NEW w \in Workers, TripWrite(w) \/ HealWrite(w) \/ EnableBackend(w) \/ ForceOffline(w)
      PROVE  RowTypes'
  BY <1>1, <1>3, <1>7 DEF TripWrite, HealWrite, EnableBackend, ForceOffline
<1>8. CASE DisableBackend \/ DrainBackend \/ CompleteDrain
  BY <1>1, <1>3, <1>8 DEF DisableBackend, DrainBackend, CompleteDrain
<1>9. ASSUME NEW w \in Workers,
             \/ Route(w) \/ LiveFailure(w) \/ LiveSuccess(w) \/ LiveOther(w) \/ WriteLost(w)
             \/ RecoveryElapsed(w) \/ PollRead(w) \/ ForceOnline(w)
      PROVE  RowTypes'
  <2>1. UNCHANGED <<status, failures, up>>
    BY <1>9, Zenon DEF Route, LiveFailure, LiveSuccess, LiveOther, WriteLost, RecoveryElapsed,
       PollRead, ForceOnline
  <2> QED BY <1>2, <2>1 DEF RowTypes
<1>10. CASE Flip \/ UNCHANGED vars
  BY <1>2, <1>10 DEF Flip, vars, RowTypes
<1> QED
  BY <1>4, <1>5, <1>6, <1>7, <1>8, <1>9, <1>10 DEF Next, Poll

\* Every step keeps the types of what each worker remembers.
LEMMA WorkerTypesStep == RowTypes /\ WorkerTypes /\ [Next]_vars => WorkerTypes'
<1> SUFFICES ASSUME RowTypes, RowTypes', WorkerTypes, [Next]_vars PROVE WorkerTypes'
  BY RowTypesStep
<1>1. ASSUME NEW w \in Workers, Route(w) PROVE WorkerTypes'
  BY <1>1 DEF Route, WorkerTypes
<1>2. ASSUME NEW w \in Workers, LiveFailure(w) \/ LiveSuccess(w) \/ LiveOther(w)
      PROVE  WorkerTypes'
  <2>1. inflight' = [inflight EXCEPT ![w] = inflight[w] - 1] /\ inflight[w] > 0
    BY <1>2 DEF LiveFailure, LiveSuccess, LiveOther
  <2>2. inflight' \in [Workers -> 0 .. MaxInflight]
    BY <2>1 DEF WorkerTypes
  <2>3. \/ writes' = writes
        \/ writes' = [writes EXCEPT ![w] = writes[w] \cup {"trip"}]
        \/ writes' = [writes EXCEPT ![w] = writes[w] \cup {"heal"}]
    BY <1>2 DEF LiveFailure, LiveSuccess, LiveOther, WorkerTypes
  <2>4. writes' \in [Workers -> SUBSET {"trip", "heal"}]
    BY <2>3 DEF WorkerTypes
  <2>5. UNCHANGED <<check, forced>>
    BY <1>2 DEF LiveFailure, LiveSuccess, LiveOther
  <2> QED BY <2>2, <2>4, <2>5 DEF WorkerTypes
<1>3. ASSUME NEW w \in Workers, TripWrite(w) \/ HealWrite(w) \/ WriteLost(w) PROVE WorkerTypes'
  BY <1>3 DEF TripWrite, HealWrite, WriteLost, WorkerTypes
<1>4. ASSUME NEW w \in Workers, NEW c \in Checks, check' = [check EXCEPT ![w] = c],
             UNCHANGED <<writes, inflight>>, forced' \in [Workers -> BOOLEAN]
      PROVE  WorkerTypes'
  BY <1>4 DEF WorkerTypes
<1>5. ASSUME NEW w \in Workers, PollRead(w) \/ EnableBackend(w) PROVE WorkerTypes'
  <2>1. Sample(TRUE, status, failures) \in Checks /\ Sample(FALSE, status', failures') \in Checks
    BY SampleType DEF RowTypes
  <2> QED BY <1>4, <1>5, <2>1 DEF PollRead, EnableBackend, WorkerTypes
<1>6. ASSUME NEW w \in Workers, PollWriteHealthy(w) \/ PollWriteUnhealthy(w) PROVE WorkerTypes'
  <2>1. check' = [check EXCEPT ![w] = NoCheck] /\ UNCHANGED <<writes, inflight, forced>>
    BY <1>6 DEF PollWriteHealthy, PollWriteUnhealthy
  <2> QED BY <1>4, <2>1, NoCheckType DEF WorkerTypes
<1>7. ASSUME NEW w \in Workers, ForceOffline(w) PROVE WorkerTypes'
  <2> DEFINE c == IF check[w].polled THEN NoCheck ELSE check[w]
  <2>1. check' = [check EXCEPT ![w] = c] /\ forced' = [forced EXCEPT ![w] = TRUE]
    BY <1>7 DEF ForceOffline
  <2>2. c \in Checks
    BY NoCheckType DEF WorkerTypes
  <2> HIDE DEF c
  <2> QED BY <1>4, <1>7, <2>1, <2>2 DEF ForceOffline, WorkerTypes
<1>8. ASSUME NEW w \in Workers, ForceOnline(w) \/ RecoveryElapsed(w) PROVE WorkerTypes'
  BY <1>8 DEF ForceOnline, RecoveryElapsed, WorkerTypes
<1>9. ASSUME NEW w \in Workers, Restart(w) PROVE WorkerTypes'
  <2>1. /\ check' = [check EXCEPT ![w] = NoCheck] /\ writes' = [writes EXCEPT ![w] = {}]
        /\ inflight' = [inflight EXCEPT ![w] = 0] /\ forced' = [forced EXCEPT ![w] = FALSE]
    BY <1>9 DEF Restart
  <2> QED BY <2>1, NoCheckType DEF WorkerTypes
<1>10. CASE DisableBackend \/ DrainBackend \/ CompleteDrain \/ Flip \/ UNCHANGED vars
  BY <1>10 DEF DisableBackend, DrainBackend, CompleteDrain, Flip, vars, WorkerTypes
<1> QED
  BY <1>1, <1>2, <1>3, <1>5, <1>6, <1>7, <1>8, <1>9, <1>10 DEF Next, Poll

\* The types of the row, of the breakers and of the workers, for any number of
\* workers: the failure counts saturate at their thresholds.
THEOREM RegistryTypes == Spec => []TypeOK
<1>1. Init => BreakerInv /\ RowTypes /\ WorkerTypes
  BY ClosedRipe, NoCheckType DEF Init, BreakerInv, BreakerTypes, RowTypes, WorkerTypes, Statuses
<1>2. BreakerInv /\ RowTypes /\ WorkerTypes => TypeOK
  BY DEF BreakerInv, BreakerTypes, Breaker, RowTypes, WorkerTypes, Checks, TypeOK
<1> QED BY <1>1, <1>2, BreakerStep, RowTypesStep, WorkerTypesStep, PTL DEF Spec

-----------------------------------------------------------------------------
(* The administrator's status.                                             *)

\* The reasons for which a row that an administrator set may leave that state.
Excused ==
    \E w \in Workers :
       \/ EnableBackend(w) \/ ForceOffline(w)
       \/ TripWrite(w) \/ HealWrite(w)
       \/ check[w] # NoCheck /\ check[w].status \notin AdminSet
       \/ check[w].result = "bad" /\ status' = "unhealthy"
            /\ OneMoreFailure(check[w].failures) = UnhealthyThreshold

\* No other step takes a row out of an administrator's status.
LEMMA AdminStatusStep ==
    ASSUME WorkerTypes, [Next]_vars, status \in AdminSet, status' \notin AdminSet
    PROVE  Excused
<1> USE DEF rowVars
<1>1. ASSUME NEW w \in Workers, EnableBackend(w) \/ ForceOffline(w) \/ TripWrite(w) \/ HealWrite(w)
      PROVE  Excused
  BY <1>1, Zenon DEF Excused
<1>2. ASSUME NEW w \in Workers, PollWriteHealthy(w) PROVE Excused
  <2>1. check[w].result = "ok" /\ check[w].status \notin AdminSet
    BY <1>2 DEF PollWriteHealthy
  <2>2. check[w] # NoCheck
    BY <2>1 DEF NoCheck
  <2> QED BY <2>1, <2>2 DEF Excused
<1>3. ASSUME NEW w \in Workers, PollWriteUnhealthy(w) PROVE Excused
  <2> DEFINE count == OneMoreFailure(check[w].failures)
  <2>1. check[w].result = "bad" /\ status' = "unhealthy" /\ count >= UnhealthyThreshold
    BY <1>3 DEF PollWriteUnhealthy
  <2>2. check[w].failures \in 0 .. UnhealthyThreshold
    BY DEF WorkerTypes, Checks
  <2>3. count \in 0 .. UnhealthyThreshold
    BY <2>2, CountsSaturate
  <2>4. count = UnhealthyThreshold
    BY <2>1, <2>3
  <2> QED BY <2>1, <2>4 DEF Excused
<1>4. ASSUME NEW w \in Workers,
             \/ Route(w) \/ LiveFailure(w) \/ LiveSuccess(w) \/ LiveOther(w) \/ WriteLost(w)
             \/ RecoveryElapsed(w) \/ PollRead(w) \/ ForceOnline(w) \/ Restart(w)
      PROVE  FALSE
  <2>1. status' = status
    BY <1>4 DEF Route, LiveFailure, LiveSuccess, LiveOther, WriteLost, RecoveryElapsed,
       PollRead, ForceOnline, Restart
  <2> QED BY <2>1
<1>5. CASE DisableBackend \/ DrainBackend \/ CompleteDrain \/ Flip \/ UNCHANGED vars
  <2>1. status' \in {status, "disabled", "draining"}
    BY <1>5 DEF DisableBackend, DrainBackend, CompleteDrain, UpdateStatus, Flip, vars
  <2> QED BY <2>1 DEF AdminSet
<1> QED BY <1>1, <1>2, <1>3, <1>4, <1>5 DEF Next, Poll

\* AdminStatusExplained for any number of workers and any thresholds: what runs
\* by itself takes a row out of DISABLED or DRAINING only for one of the listed
\* reasons.
THEOREM AdminStatusHeld == Spec => AdminStatusExplained
<1>1. Spec => []WorkerTypes
  <2>1. Init => RowTypes /\ WorkerTypes
    BY NoCheckType DEF Init, RowTypes, WorkerTypes, Statuses
  <2> QED BY <2>1, RowTypesStep, WorkerTypesStep, PTL DEF Spec
<1>2. WorkerTypes /\ [Next]_vars
        => [(status \in AdminSet /\ status' \notin AdminSet) => Excused]_vars
  BY AdminStatusStep
<1> QED BY <1>1, <1>2, PTL DEF Spec, AdminStatusExplained, Excused
=============================================================================
