--------------------------- MODULE BackendRegistry ---------------------------
(***************************************************************************)
(* One backend as the BackendRegistry of every gateway worker sees it      *)
(* (core/telemetry/registry.py): the row in the shared database (status,   *)
(* consecutive_failures, persisted breaker), and in each worker a circuit  *)
(* breaker fed by live requests and a health check that polls the backend. *)
(* Backends do not influence each other, so one is enough.                 *)
(*                                                                         *)
(* A health check reads the row, then writes it in a later step; like the  *)
(* ORM it writes only the columns it changed with respect to what it read. *)
(* A breaker changes in memory at once and in the row in a later step,     *)
(* which an error of the database or the cancellation of the request that  *)
(* carries it out can lose.  The transactions of administrators are short  *)
(* and taken as atomic.                                                    *)
(***************************************************************************)
EXTENDS Integers, FiniteSets

CONSTANTS
    Workers,             \* gateway worker processes, each with its own registry
    BreakerThreshold,    \* settings.backend_circuit_breaker_threshold
    UnhealthyThreshold,  \* settings.backend_unhealthy_threshold
    Crashing,            \* the workers that may restart
    MaxInflight          \* bound: live requests of one worker at a time

ASSUME ThresholdsAssumption ==
    /\ BreakerThreshold \in Nat \ {0}
    /\ UnhealthyThreshold \in Nat \ {0}
    /\ MaxInflight \in Nat
    /\ Crashing \subseteq Workers

VARIABLES
    status,     \* Backend.status in the database
    failures,   \* Backend.consecutive_failures, saturated at UnhealthyThreshold
    saved,      \* the persisted breaker: live_failure_count, circuit_open_until
    breaker,    \* CircuitBreakerState of each worker
    writes,     \* each worker's row updates of the breaker that are under way
    check,      \* each worker's health check between its read and its write
    inflight,   \* live requests of each worker on this backend
    forced,     \* _force_offline of each worker
    up          \* whether the backend answers its health endpoint

rowVars == <<status, failures, saved>>
vars == <<rowVars, breaker, writes, check, inflight, forced, up>>

AdminSet == {"disabled", "draining"}
Statuses == {"unknown", "healthy", "unhealthy"} \cup AdminSet
Circuits == {"closed", "open", "half_open"}
Closed == [count |-> 0, circuit |-> "closed"]
NoCheck == [result |-> "none", polled |-> FALSE, status |-> "unknown", failures |-> 0]

Least(m, n) == IF m < n THEN m ELSE n
OneMoreFailure(n) == Least(n + 1, UnhealthyThreshold)

Init ==
    /\ status = "unknown"
    /\ failures = 0
    /\ saved = Closed
    /\ breaker = [w \in Workers |-> Closed]
    /\ writes = [w \in Workers |-> {}]
    /\ check = [w \in Workers |-> NoCheck]
    /\ inflight = [w \in Workers |-> 0]
    /\ forced = [w \in Workers |-> FALSE]
    /\ up = TRUE

\* crud.update_backend_status.
UpdateStatus(s) ==
    /\ status' = s
    /\ failures' = IF s = "healthy" THEN 0 ELSE OneMoreFailure(failures)

-----------------------------------------------------------------------------
(* Live traffic.                                                           *)

\* is_backend_available: only an open circuit refuses.
Available(w) == breaker[w].circuit # "open"

\* _route_request_inner sends a request of worker w to the backend.
Route(w) ==
    /\ status = "healthy" /\ Available(w)
    /\ inflight[w] < MaxInflight
    /\ inflight' = [inflight EXCEPT ![w] = @ + 1]
    /\ UNCHANGED <<writes, rowVars, breaker, check, forced, up>>

\* report_live_failure: at the threshold a circuit that is not open opens; the
\* row is to follow.
LiveFailure(w) ==
    LET count == Least(breaker[w].count + 1, BreakerThreshold)
        opens == count >= BreakerThreshold /\ breaker[w].circuit # "open"
    IN  /\ inflight[w] > 0
        /\ inflight' = [inflight EXCEPT ![w] = @ - 1]
        /\ breaker' = [breaker EXCEPT ![w] =
                         [count |-> count, circuit |-> IF opens THEN "open" ELSE @.circuit]]
        /\ writes' = [writes EXCEPT ![w] = IF opens THEN @ \cup {"trip"} ELSE @]
        /\ UNCHANGED <<rowVars, check, forced, up>>

\* report_live_success: the breaker closes; the row follows if the circuit was
\* half-open.
LiveSuccess(w) ==
    /\ inflight[w] > 0
    /\ inflight' = [inflight EXCEPT ![w] = @ - 1]
    /\ breaker' = [breaker EXCEPT ![w] = Closed]
    /\ writes' = [writes EXCEPT ![w] =
                    IF breaker[w].circuit = "half_open" THEN @ \cup {"heal"} ELSE @]
    /\ UNCHANGED <<rowVars, check, forced, up>>

\* The row of an opened circuit: UNHEALTHY whatever it was; the breaker is
\* persisted as it is by now.
TripWrite(w) ==
    /\ "trip" \in writes[w]
    /\ writes' = [writes EXCEPT ![w] = @ \ {"trip"}]
    /\ UpdateStatus("unhealthy")
    /\ saved' = breaker[w]
    /\ UNCHANGED <<breaker, check, inflight, forced, up>>

\* The row of a recovered circuit: HEALTHY whatever it was.
HealWrite(w) ==
    /\ "heal" \in writes[w]
    /\ writes' = [writes EXCEPT ![w] = @ \ {"heal"}]
    /\ UpdateStatus("healthy")
    /\ saved' = Closed
    /\ UNCHANGED <<breaker, check, inflight, forced, up>>

\* The write raises (logged and swallowed) or its request is cancelled.
WriteLost(w) ==
    /\ \E kind \in writes[w] : writes' = [writes EXCEPT ![w] = @ \ {kind}]
    /\ UNCHANGED <<rowVars, breaker, check, inflight, forced, up>>

\* A request ends without a verdict: a 4xx, a cancellation, another exception.
LiveOther(w) ==
    /\ inflight[w] > 0
    /\ inflight' = [inflight EXCEPT ![w] = @ - 1]
    /\ UNCHANGED <<writes, rowVars, breaker, check, forced, up>>

\* Mutant: the half-open circuit starts counting from zero.
RecoveryForgets(w) ==
    /\ breaker[w].circuit = "open"
    /\ breaker' = [breaker EXCEPT ![w] = [count |-> 0, circuit |-> "half_open"]]
    /\ UNCHANGED <<writes, rowVars, check, inflight, forced, up>>

\* circuit_open_until passes.
RecoveryElapsed(w) ==
    /\ breaker[w].circuit = "open"
    /\ breaker' = [breaker EXCEPT ![w].circuit = "half_open"]
    /\ UNCHANGED <<writes, rowVars, check, inflight, forced, up>>

-----------------------------------------------------------------------------
(* Health checks.                                                          *)

\* What a check knows when it comes to write: whether the backend answered,
\* whether the poll loop started it, and the row it read.
Sample(polled, s, f) ==
    [result |-> IF up THEN "ok" ELSE "bad", polled |-> polled,
     status |-> s, failures |-> f]

\* _check_backend_health asks the backend and reads the row; up changes freely,
\* so an answer older than the read adds no behaviour.
PollRead(w) ==
    /\ ~forced[w] /\ check[w] = NoCheck
    /\ check' = [check EXCEPT ![w] = Sample(TRUE, status, failures)]
    /\ UNCHANGED <<writes, rowVars, breaker, inflight, forced, up>>

\* Mutant: a passing check leaves the circuit to the half-open probe.
PollLeavesCircuit(w) ==
    LET seen == check[w]
    IN  /\ seen.result = "ok"
        /\ status' = IF seen.status \in AdminSet \cup {"healthy"} THEN status ELSE "healthy"
        /\ failures' = IF seen.failures = 0 \/ seen.status \in AdminSet THEN failures ELSE 0
        /\ check' = [check EXCEPT ![w] = NoCheck]
        /\ UNCHANGED <<writes, breaker, saved, inflight, forced, up>>

\* Mutant: a passing check heals only a row that is UNHEALTHY.
PollIgnoresUnknown(w) ==
    LET seen == check[w]
    IN  /\ seen.result = "ok"
        /\ status' = IF seen.status = "unhealthy" THEN "healthy" ELSE status
        /\ failures' = IF seen.failures = 0 THEN failures ELSE 0
        /\ breaker' = [breaker EXCEPT ![w] = Closed]
        /\ saved' = Closed
        /\ check' = [check EXCEPT ![w] = NoCheck]
        /\ UNCHANGED <<writes, inflight, forced, up>>

\* Mutant: a passing check does not look at the administrator's status.
PollIgnoresAdmin(w) ==
    LET seen == check[w]
    IN  /\ seen.result = "ok"
        /\ status' = IF seen.status = "healthy" THEN status ELSE "healthy"
        /\ failures' = IF seen.failures = 0 THEN failures ELSE 0
        /\ breaker' = [breaker EXCEPT ![w] = Closed]
        /\ saved' = Closed
        /\ check' = [check EXCEPT ![w] = NoCheck]
        /\ UNCHANGED <<writes, inflight, forced, up>>

\* The check passed: HEALTHY unless the row it read was set by an
\* administrator; an open or half-open circuit of this worker closes.
PollWriteHealthy(w) ==
    LET seen == check[w]
    IN  /\ seen.result = "ok"
        /\ IF seen.status \in AdminSet
             THEN UNCHANGED <<status, failures>>
             ELSE /\ status' = IF seen.status = "healthy" THEN status ELSE "healthy"
                  /\ failures' = IF seen.failures = 0 THEN failures ELSE 0
        /\ IF breaker[w].circuit = "closed"
             THEN UNCHANGED <<breaker, saved>>
             ELSE /\ breaker' = [breaker EXCEPT ![w] = Closed]
                  /\ saved' = Closed
        /\ check' = [check EXCEPT ![w] = NoCheck]
        /\ UNCHANGED <<writes, inflight, forced, up>>

\* The check failed: one more failure, UNHEALTHY at the threshold, whatever
\* the status was.
PollWriteUnhealthy(w) ==
    LET seen == check[w]
        count == OneMoreFailure(seen.failures)
    IN  /\ seen.result = "bad"
        /\ status' = IF count >= UnhealthyThreshold /\ seen.status # "unhealthy"
                       THEN "unhealthy" ELSE status
        /\ failures' = count
        /\ check' = [check EXCEPT ![w] = NoCheck]
        /\ UNCHANGED <<writes, saved, breaker, inflight, forced, up>>

-----------------------------------------------------------------------------
(* Administrators, processes and the backend itself.                       *)

DisableBackend ==
    /\ UpdateStatus("disabled")
    /\ UNCHANGED <<writes, saved, breaker, check, inflight, forced, up>>

DrainBackend ==
    /\ UpdateStatus("draining")
    /\ UNCHANGED <<writes, saved, breaker, check, inflight, forced, up>>

\* complete_drain, called by the scheduler when its queue depth is 0.
CompleteDrain ==
    /\ status = "draining"
    /\ UpdateStatus("disabled")
    /\ UNCHANGED <<writes, saved, breaker, check, inflight, forced, up>>

\* enable_backend on worker w: UNKNOWN, then a health check at once, also on
\* a worker whose polling is stopped.
EnableBackend(w) ==
    /\ check[w] = NoCheck
    /\ UpdateStatus("unknown")
    /\ check' = [check EXCEPT ![w] = Sample(FALSE, status', failures')]
    /\ UNCHANGED <<writes, saved, breaker, inflight, forced, up>>

\* force_offline: this worker's poll loop is cancelled, the row UNHEALTHY.
ForceOffline(w) ==
    /\ ~forced[w]
    /\ forced' = [forced EXCEPT ![w] = TRUE]
    /\ check' = [check EXCEPT ![w] = IF @.polled THEN NoCheck ELSE @]
    /\ UpdateStatus("unhealthy")
    /\ UNCHANGED <<writes, saved, breaker, inflight, up>>

\* force_online: polling starts again.
ForceOnline(w) ==
    /\ forced[w]
    /\ forced' = [forced EXCEPT ![w] = FALSE]
    /\ UNCHANGED <<writes, rowVars, breaker, check, inflight, up>>

\* A worker process restarts (start): its memory is lost, a row with failures
\* that no administrator set starts afresh, the persisted breaker is loaded.
Restart(w) ==
    /\ w \in Crashing
    /\ IF failures > 0 /\ status \notin AdminSet
         THEN failures' = 0 /\ status' = "unknown"
         ELSE UNCHANGED <<failures, status>>
    /\ \E c \in (IF saved.circuit = "closed" THEN {"closed"} ELSE {"open", "half_open"}) :
           breaker' = [breaker EXCEPT ![w] = [count |-> saved.count, circuit |-> c]]
    /\ check' = [check EXCEPT ![w] = NoCheck]
    /\ writes' = [writes EXCEPT ![w] = {}]
    /\ inflight' = [inflight EXCEPT ![w] = 0]
    /\ forced' = [forced EXCEPT ![w] = FALSE]
    /\ UNCHANGED <<saved, up>>

\* The backend stops or starts answering.
Flip ==
    /\ up' = ~up
    /\ UNCHANGED <<writes, rowVars, breaker, check, inflight, forced>>

-----------------------------------------------------------------------------
Poll(w) == PollRead(w) \/ PollWriteHealthy(w) \/ PollWriteUnhealthy(w)

Next ==
    \/ \E w \in Workers :
        \/ Route(w) \/ LiveFailure(w) \/ LiveSuccess(w) \/ LiveOther(w)
        \/ TripWrite(w) \/ HealWrite(w) \/ WriteLost(w)
        \/ RecoveryElapsed(w) \/ Poll(w)
        \/ EnableBackend(w) \/ ForceOffline(w) \/ ForceOnline(w) \/ Restart(w)
    \/ DisableBackend \/ DrainBackend \/ CompleteDrain
    \/ Flip

Spec == Init /\ [][Next]_vars

\* The poll loop of a worker that is not forced offline never stops, and no
\* worker restarts for ever.
Fairness ==
    /\ \A w \in Workers : WF_vars(Poll(w)) /\ WF_vars(RecoveryElapsed(w))
    /\ <>[][\A w \in Workers : ~Restart(w)]_vars

FairSpec == Spec /\ Fairness

-----------------------------------------------------------------------------
(* Properties.                                                             *)

\* Types; the status is a BackendStatus and the counters saturate.
TypeOK ==
    /\ status \in Statuses
    /\ failures \in 0 .. UnhealthyThreshold
    /\ saved \in [count : 0 .. BreakerThreshold, circuit : Circuits]
    /\ breaker \in [Workers -> [count : 0 .. BreakerThreshold, circuit : Circuits]]
    /\ writes \in [Workers -> SUBSET {"trip", "heal"}]
    /\ check \in [Workers -> [result : {"none", "ok", "bad"}, polled : BOOLEAN,
                              status : Statuses, failures : 0 .. UnhealthyThreshold]]
    /\ inflight \in [Workers -> 0 .. MaxInflight]
    /\ forced \in [Workers -> BOOLEAN]
    /\ up \in BOOLEAN

\* A circuit that is not closed has seen BreakerThreshold failures without a
\* success, in memory and in the persisted copy a restart loads: so the first
\* failure of a half-open circuit opens it again.
TrippedCircuitsRetrip ==
    \A cb \in {saved} \cup {breaker[w] : w \in Workers} :
        cb.circuit # "closed" => cb.count >= BreakerThreshold

\* An administrator's status is held against everything that runs by itself, although
\* all of it writes the same column: a DISABLED or DRAINING row leaves that state by an
\* administrator, by the late row of a circuit, by a check that read the row before
\* the administrator wrote it, or by failing checks that reach the threshold.
AdminStatusExplained ==
    [][(status \in AdminSet /\ status' \notin AdminSet) =>
          \E w \in Workers :
             \/ EnableBackend(w) \/ ForceOffline(w)
             \/ TripWrite(w) \/ HealWrite(w)
             \/ check[w] # NoCheck /\ check[w].status \notin AdminSet
             \/ check[w].result = "bad" /\ status' = "unhealthy"
                  /\ OneMoreFailure(check[w].failures) = UnhealthyThreshold]_vars

\* A worker whose polling runs does not keep a circuit that is not closed beside
\* a HEALTHY row: lost or reordered breaker writes, late answers and restarts
\* are repaired by its health checks.
CircuitSettles ==
    \A w \in Workers :
        ~<>[](breaker[w].circuit # "closed" /\ status = "healthy" /\ ~forced[w])

\* A backend that answers, that no administrator has taken out and that every
\* worker polls, is HEALTHY again and again, whatever live requests report.
RecoversWhenUp ==
    <>[](up /\ status \notin AdminSet /\ \A w \in Workers : ~forced[w])
        => []<>(status = "healthy")

=============================================================================
