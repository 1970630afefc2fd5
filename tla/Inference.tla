------------------------------ MODULE Inference ------------------------------
(***************************************************************************)
(* The life of an inference request in one gateway worker: the retry loop  *)
(* of InferenceService (services/inference.py), the slot accounting of     *)
(* BackendRouter (core/scheduler/routing.py) that enforces max_concurrent, *)
(* the worker's queue of tracked jobs, graceful draining of a backend and  *)
(* the garbage collector that repairs the books.                           *)
(*                                                                         *)
(* The worker is one asyncio event loop, Redis is off (the fail-open mode, *)
(* in which the local counters decide): an action is the code between two  *)
(* suspension points.  route_job, on_job_completed, on_job_failed and the  *)
(* collector do not suspend, except where complete_drain goes to the       *)
(* database ("drain" below).                                               *)
(***************************************************************************)
EXTENDS Integers, FiniteSets

CONSTANTS
    Jobs,           \* request identities in flight at one time
    Streams,        \* the jobs that are streaming requests
    Backends,
    Suits,          \* Suits[j]: backends that meet j's static hard constraints
    MaxConcurrent,  \* Backend.max_concurrent, the same for every backend
    MaxAttempts,    \* settings.backend_retry_max_attempts
    Managed,        \* backends whose status the registry changes
    Reuse,          \* TRUE: an ended job's identity serves a later request
    NoBackend       \* Python's None for a backend id

ASSUME JobsAssumption == IsFiniteSet(Jobs) /\ Streams \subseteq Jobs
ASSUME BackendsAssumption == NoBackend \notin Backends /\ Managed \subseteq Backends
ASSUME SuitsAssumption == Suits \in [Jobs -> SUBSET Backends]
ASSUME BoundsAssumption ==
    /\ MaxConcurrent \in Nat \ {0}
    /\ MaxAttempts \in Nat \ {0}
    /\ Reuse \in BOOLEAN

VARIABLES
    pc,        \* where the coroutine of the request is suspended
    resume,    \* what follows the drain check of on_job_completed/_failed
    attempt,   \* loop counter of _proxy_with_retry
    tried,     \* tried_backends
    recapped,  \* context_recap_done
    cand,      \* the `backends` list read from the database, never re-read by route_job
    expired,   \* the routing deadline has passed (from the start when max_wait = 0)
    assigned,  \* job.assigned_backend_id
    queued,    \* RequestQueue._job_map
    waiters,   \* _waiting_jobs
    depth,     \* _backend_queue_depths
    status,    \* Backend.status; "down" stands for UNHEALTHY and UNKNOWN
    draining,  \* drain_backend calls between the status write and the depth check
    age,       \* "old": over 5 minutes, "stale": over the collector's max_lifetime_s
    db,        \* Request.status
    slot       \* history: the backend whose slot the request really occupies

retryVars == <<attempt, tried, recapped, cand, expired, assigned>>
bookVars == <<queued, waiters, depth, slot>>
worldVars == <<status, draining, age, db>>
vars == <<pc, resume, retryVars, bookVars, worldVars>>

Labels == {"idle", "lookup", "submit", "route", "waiting", "proxying",
           "streaming", "completing", "failing", "drain", "recordOk",
           "recordFail", "done", "failed", "orphan"}

Ended == {"done", "failed", "orphan"}

Init ==
    /\ pc = [j \in Jobs |-> "idle"]
    /\ resume = [j \in Jobs |-> "idle"]
    /\ attempt = [j \in Jobs |-> 0]
    /\ tried = [j \in Jobs |-> {}]
    /\ recapped = [j \in Jobs |-> FALSE]
    /\ cand = [j \in Jobs |-> {}]
    /\ expired = [j \in Jobs |-> FALSE]
    /\ assigned = [j \in Jobs |-> NoBackend]
    /\ queued = {}
    /\ waiters = {}
    /\ depth = [b \in Backends |-> 0]
    /\ status = [b \in Backends |-> "healthy"]
    /\ draining = {}
    /\ age = [j \in Jobs |-> "fresh"]
    /\ db = [j \in Jobs |-> "none"]
    /\ slot = [j \in Jobs |-> NoBackend]

-----------------------------------------------------------------------------
(* What the code computes.                                                 *)

Goto(j, label) == pc' = [pc EXCEPT ![j] = label]

\* The coroutine moves on and changes nothing.
Move(j, from, to) ==
    /\ pc[j] \in from
    /\ Goto(j, to)
    /\ UNCHANGED <<resume, retryVars, bookVars, worldVars>>

\* crud.get_backends_with_model: the HEALTHY backends that serve the model.
Routable(j) == {b \in Suits[j] : status[b] = "healthy"}

\* Any non-empty part of Routable: is_backend_available drops the backends
\* whose circuit is open, unless that would leave none.
Lookups(j) == SUBSET Routable(j) \ {{}}

\* registry.get_healthy_backends, asked when no backend serves the model any
\* more: it finds backends of other models, none of which suits j.
Fallback(j) == IF Routable(j) = {} THEN {{}} ELSE {}

\* rank_backends over the candidates not excluded; the status it tests is the
\* one in the snapshot, so only capacity can still rule a candidate out.
Offered(j) == cand[j] \ tried[j]

\* Mutant: the capacity test is off by one.
EligibleWhenFull(j) == {b \in Offered(j) : depth[b] <= MaxConcurrent}

\* ... of which only those below max_concurrent pass.
Eligible(j) == {b \in Offered(j) : depth[b] < MaxConcurrent}

Dec(n) == IF n > 0 THEN n - 1 ELSE 0

\* Mutant: the counter of a backend that is not healthy is left alone.
ReleaseOnlyHealthy(j, b, next) ==
    /\ queued' = queued \ {j}
    /\ depth' = [depth EXCEPT ![b] = IF status[b] = "healthy" THEN Dec(@) ELSE @]
    /\ slot' = [slot EXCEPT ![j] = IF @ = b THEN NoBackend ELSE @]
    /\ Goto(j, next)
    /\ UNCHANGED resume

\* on_job_completed and on_job_failed of job j on backend b, followed by what
\* the caller does next; the drain check of a backend at depth 0 suspends.
Release(j, b, next) ==
    /\ queued' = queued \ {j}
    /\ depth' = [depth EXCEPT ![b] = Dec(@)]
    /\ slot' = [slot EXCEPT ![j] = IF @ = b THEN NoBackend ELSE @]
    /\ IF depth'[b] = 0
         THEN /\ Goto(j, "drain")
              /\ resume' = [resume EXCEPT ![j] = next]
         ELSE /\ Goto(j, next)
              /\ UNCHANGED resume

\* The locals of _route_request_inner go out of scope.
LeaveRouting(j) ==
    /\ cand' = [cand EXCEPT ![j] = {}]
    /\ expired' = [expired EXCEPT ![j] = FALSE]

\* The retry loop has returned or raised: its locals go out of scope too.
LeaveRetryLoop(j) ==
    /\ LeaveRouting(j)
    /\ attempt' = [attempt EXCEPT ![j] = 0]
    /\ tried' = [tried EXCEPT ![j] = {}]
    /\ recapped' = [recapped EXCEPT ![j] = FALSE]

\* Mutant: the exclusion set survives the second routing.
RouteFailedKeepsTried(j) ==
    /\ waiters' = waiters \ {j}
    /\ queued' = queued \ {j}
    /\ Goto(j, IF tried[j] = {} THEN "failing" ELSE "lookup")
    /\ LeaveRouting(j)
    /\ UNCHANGED tried

\* _route_request raises HTTPException: the retry loop clears a non-empty
\* exclusion set and routes once more, otherwise the request has failed.
RouteFailed(j) ==
    /\ waiters' = waiters \ {j}
    /\ queued' = queued \ {j}
    /\ tried' = [tried EXCEPT ![j] = {}]
    /\ Goto(j, IF tried[j] = {} THEN "failing" ELSE "lookup")
    /\ LeaveRouting(j)

-----------------------------------------------------------------------------
(* One request.                                                            *)

\* chat_completion up to the retry loop: the audit row is committed, the job
\* created.
Arrive(j) ==
    /\ pc[j] = "idle"
    /\ db' = [db EXCEPT ![j] = "queued"]
    /\ Goto(j, "lookup")
    /\ UNCHANGED <<resume, retryVars, bookVars, status, draining, age>>

\* _route_request_inner reads the candidate backends.
Lookup(j) ==
    /\ pc[j] = "lookup"
    /\ \E c \in Lookups(j) : cand' = [cand EXCEPT ![j] = c]
    /\ expired' = [expired EXCEPT ![j] = attempt[j] > 0]
    /\ Goto(j, "submit")
    /\ UNCHANGED <<resume, attempt, tried, recapped, assigned, bookVars,
                   worldVars>>

\* ... and finds none: 404.
LookupEmpty(j) ==
    /\ pc[j] = "lookup"
    /\ Routable(j) = {}
    /\ RouteFailed(j)
    /\ UNCHANGED <<resume, attempt, recapped, assigned, depth, slot,
                   worldVars>>

\* submit_job, only when no backend is excluded.
Submit(j) ==
    /\ pc[j] = "submit"
    /\ queued' = IF tried[j] = {} THEN queued \cup {j} ELSE queued
    /\ Goto(j, "route")
    /\ UNCHANGED <<resume, retryVars, waiters, depth, slot, worldVars>>

\* Mutant: a retry does not update job.assigned_backend_id.
RouteOkFirstBackend(j, b) ==
    /\ pc[j] = "route"
    /\ b \in Eligible(j)
    /\ assigned' = [assigned EXCEPT ![j] = IF @ = NoBackend THEN b ELSE @]
    /\ depth' = [depth EXCEPT ![b] = @ + 1]
    /\ slot' = [slot EXCEPT ![j] = b]
    /\ waiters' = waiters \ {j}
    /\ tried' = [tried EXCEPT ![j] = @ \cup {b}]
    /\ Goto(j, "proxying")
    /\ LeaveRouting(j)
    /\ UNCHANGED <<resume, attempt, recapped, queued, worldVars>>

\* Mutant: the job stays registered as a waiter.
RouteOkStaysWaiter(j, b) ==
    /\ pc[j] = "route"
    /\ b \in Eligible(j)
    /\ assigned' = [assigned EXCEPT ![j] = b]
    /\ depth' = [depth EXCEPT ![b] = @ + 1]
    /\ slot' = [slot EXCEPT ![j] = b]
    /\ tried' = [tried EXCEPT ![j] = @ \cup {b}]
    /\ Goto(j, "proxying")
    /\ LeaveRouting(j)
    /\ UNCHANGED <<resume, attempt, recapped, queued, waiters, worldVars>>

\* route_job claims a slot of b.
RouteOk(j, b) ==
    /\ pc[j] = "route"
    /\ b \in Eligible(j)
    /\ assigned' = [assigned EXCEPT ![j] = b]
    /\ depth' = [depth EXCEPT ![b] = @ + 1]
    /\ slot' = [slot EXCEPT ![j] = b]
    /\ waiters' = waiters \ {j}
    /\ tried' = [tried EXCEPT ![j] = @ \cup {b}]
    /\ Goto(j, "proxying")
    /\ LeaveRouting(j)
    /\ UNCHANGED <<resume, attempt, recapped, queued, worldVars>>

\* Every candidate failed on no_capacity alone and the deadline is ahead.
RouteWait(j) ==
    /\ pc[j] = "route"
    /\ Offered(j) # {} /\ Eligible(j) = {}
    /\ ~expired[j]
    /\ waiters' = waiters \cup {j}
    /\ Goto(j, "waiting")
    /\ UNCHANGED <<resume, retryVars, queued, depth, slot, worldVars>>

\* No candidate at all (permanent), or no capacity after the deadline.
RouteRefused(j) ==
    /\ pc[j] = "route"
    /\ Eligible(j) = {}
    /\ Offered(j) = {} \/ expired[j]
    /\ RouteFailed(j)
    /\ UNCHANGED <<resume, attempt, recapped, assigned, depth, slot,
                   worldVars>>

\* The deadline of a first attempt passes.
Expire(j) ==
    /\ pc[j] \in {"route", "waiting"}
    /\ ~expired[j]
    /\ expired' = [expired EXCEPT ![j] = TRUE]
    /\ UNCHANGED <<pc, resume, attempt, tried, recapped, cand, assigned,
                   bookVars, worldVars>>

\* wait_for_capacity returns (signalled or timed out) and another waiter has a
\* higher priority: sleep 0.1 s, then back to route_job with the OLD candidates.
WakeYield(j) ==
    /\ pc[j] = "waiting"
    /\ waiters # {j}
    /\ Goto(j, "route")
    /\ UNCHANGED <<resume, retryVars, bookVars, worldVars>>

\* ... and this job is the highest-priority waiter: refresh the candidates.
WakeRefresh(j) ==
    /\ pc[j] = "waiting"
    /\ \E c \in Lookups(j) \cup Fallback(j) : cand' = [cand EXCEPT ![j] = c]
    /\ Goto(j, "route")
    /\ UNCHANGED <<resume, attempt, tried, recapped, expired, assigned,
                   bookVars, worldVars>>

\* ... and no backend at all is healthy.
WakeEmpty(j) ==
    /\ pc[j] = "waiting"
    /\ Routable(j) = {}
    /\ RouteFailed(j)
    /\ UNCHANGED <<resume, attempt, recapped, assigned, depth, slot,
                   worldVars>>

-----------------------------------------------------------------------------
(* The backend answers.                                                    *)

\* A non-streaming response: completion_started is set.
ProxyOk(j) ==
    /\ j \notin Streams
    /\ Move(j, {"proxying"}, "completing")

\* The first chunk of a stream is yielded to the client.
FirstChunk(j) ==
    /\ j \in Streams
    /\ Move(j, {"proxying"}, "streaming")

\* A stream that ends without a chunk: routed_backend is still None, so
\* neither the completion nor the failure path runs.
StreamEmpty(j) ==
    /\ j \in Streams
    /\ Move(j, {"proxying"}, "orphan")

\* Timeout, connection error or 5xx before any data: release, then try again
\* or give up with 502.
RetryableFailure(j) ==
    /\ pc[j] = "proxying"
    /\ IF attempt[j] + 1 < MaxAttempts
         THEN /\ attempt' = [attempt EXCEPT ![j] = @ + 1]
              /\ Release(j, assigned[j], "lookup")
         ELSE /\ Release(j, assigned[j], "failing")
              /\ UNCHANGED attempt
    /\ UNCHANGED <<tried, recapped, cand, expired, assigned, waiters,
                   worldVars>>

\* A 4xx: release, then raise to the caller.
ClientError(j) ==
    /\ pc[j] = "proxying"
    /\ Release(j, assigned[j], "failing")
    /\ UNCHANGED <<retryVars, waiters, worldVars>>

\* A vLLM 400 about the context length: recount and use the next attempt with
\* the same backend allowed, once per request.
ContextRecap(j) ==
    /\ pc[j] = "proxying"
    /\ ~recapped[j] /\ attempt[j] + 1 < MaxAttempts
    /\ recapped' = [recapped EXCEPT ![j] = TRUE]
    /\ tried' = [tried EXCEPT ![j] = @ \ {assigned[j]}]
    /\ attempt' = [attempt EXCEPT ![j] = @ + 1]
    /\ Release(j, assigned[j], "lookup")
    /\ UNCHANGED <<cand, expired, assigned, waiters, worldVars>>

\* Any other exception of the proxy call, a failure after the first chunk, or
\* cancellation while the backend works: the caller's handler releases.
ProxyRaises(j) == Move(j, {"proxying", "streaming"}, "failing")

StreamEnd(j) == Move(j, {"streaming"}, "completing")

-----------------------------------------------------------------------------
(* Completion, failure and cancellation.                                   *)

\* _complete_request and _complete_streaming_request: release first.
CompleteRequest(j) ==
    /\ pc[j] = "completing"
    /\ Release(j, assigned[j], "recordOk")
    /\ LeaveRetryLoop(j)
    /\ UNCHANGED <<assigned, waiters, worldVars>>

\* _fail_request(db_request, None, ...): the backend is job.assigned_backend_id,
\* which nothing resets.
FailRequest(j) ==
    /\ pc[j] = "failing"
    /\ IF assigned[j] # NoBackend
         THEN Release(j, assigned[j], "recordFail")
         ELSE /\ queued' = queued \ {j}
              /\ Goto(j, "recordFail")
              /\ UNCHANGED <<resume, depth, slot>>
    /\ LeaveRetryLoop(j)
    /\ UNCHANGED <<assigned, waiters, worldVars>>

\* complete_drain re-reads the status and disables a draining backend.
DrainCheck(j) ==
    /\ pc[j] = "drain"
    /\ status' = [status EXCEPT ![assigned[j]] =
                    IF @ = "draining" THEN "disabled" ELSE @]
    /\ Goto(j, resume[j])
    /\ resume' = [resume EXCEPT ![j] = "idle"]
    /\ UNCHANGED <<retryVars, bookVars, draining, age, db>>

\* _do_complete_db / _do_complete_streaming_db: the write happens, is lost to
\* an exhausted retry, or records a response the inline DLP gate blocked.
RecordOk(j) ==
    /\ pc[j] = "recordOk"
    /\ \E row \in {"completed", db[j]} \cup (IF j \in Streams THEN {} ELSE {"failed"}) :
           db' = [db EXCEPT ![j] = row]
    /\ Goto(j, "done")
    /\ UNCHANGED <<resume, retryVars, bookVars, status, draining, age>>

\* _do_fail_db: an error of the database is logged and swallowed.
RecordFail(j) ==
    /\ pc[j] = "recordFail"
    /\ \E row \in {"failed", db[j]} : db' = [db EXCEPT ![j] = row]
    /\ Goto(j, "failed")
    /\ UNCHANGED <<resume, retryVars, bookVars, status, draining, age>>

\* CancelledError while routing: only `except BaseException` of the caller
\* handles it, so a registered waiter stays registered.
CancelRouting(j) == Move(j, {"lookup", "submit", "route", "waiting"}, "failing")

\* CancelledError inside complete_drain, after the release: a retry ends in
\* the failure handler; the unshielded handlers of a non-streaming request end
\* without their database write.
CancelDrain(j) ==
    /\ pc[j] = "drain"
    /\ \/ resume[j] \in {"lookup", "failing"} /\ Goto(j, "failing")
       \/ resume[j] = "recordOk" /\ j \notin Streams /\ Goto(j, "done")
       \/ resume[j] = "recordFail" /\ j \notin Streams /\ Goto(j, "failed")
    /\ resume' = [resume EXCEPT ![j] = "idle"]
    /\ UNCHANGED <<retryVars, bookVars, worldVars>>

\* CancelledError in the response DLP gate of a non-streaming completion:
\* completion_started keeps the failure handler from running.
CancelCompletion(j) ==
    /\ j \notin Streams
    /\ Move(j, {"completing"}, "orphan")

\* A later request takes the identity of an ended one that left no trace.
Recycle(j) ==
    /\ Reuse
    /\ pc[j] \in Ended
    /\ slot[j] = NoBackend /\ j \notin queued /\ j \notin waiters
    /\ Goto(j, "idle")
    /\ LeaveRetryLoop(j)
    /\ assigned' = [assigned EXCEPT ![j] = NoBackend]
    /\ age' = [age EXCEPT ![j] = "fresh"]
    /\ db' = [db EXCEPT ![j] = "none"]
    /\ UNCHANGED <<resume, bookVars, status, draining>>

-----------------------------------------------------------------------------
(* The registry, time and the maintenance loop.                            *)

\* drain_backend: the status is written first ...
Drain(b) ==
    /\ b \notin draining
    /\ status' = [status EXCEPT ![b] = "draining"]
    /\ draining' = draining \cup {b}
    /\ UNCHANGED <<pc, resume, retryVars, bookVars, age, db>>

\* ... then a backend at depth 0 is disabled at once.
DrainImmediate(b) ==
    /\ b \in draining
    /\ draining' = draining \ {b}
    /\ status' = [status EXCEPT ![b] =
                    IF @ = "draining" /\ depth[b] = 0 THEN "disabled" ELSE @]
    /\ UNCHANGED <<pc, resume, retryVars, bookVars, age, db>>

\* enable_backend, a failing health check or an opening circuit breaker: the
\* backend is UNKNOWN or UNHEALTHY, whatever it was before.
BackendDown(b) ==
    /\ status' = [status EXCEPT ![b] = "down"]
    /\ UNCHANGED <<pc, resume, retryVars, bookVars, draining, age, db>>

\* A passing health check leaves DISABLED and DRAINING alone.
BackendUp(b) ==
    /\ status[b] = "down"
    /\ status' = [status EXCEPT ![b] = "healthy"]
    /\ UNCHANGED <<pc, resume, retryVars, bookVars, draining, age, db>>

\* Five minutes pass for a request that is past its first wait for capacity,
\* or whose row was never written.
GrowOld(j) ==
    /\ age[j] = "fresh" /\ db[j] = "queued"
    /\ attempt[j] > 0 \/ pc[j] \in {"proxying", "streaming"} \cup Ended
    /\ age' = [age EXCEPT ![j] = "old"]
    /\ UNCHANGED <<pc, resume, retryVars, bookVars, status, draining, db>>

\* Only a stream (no per-attempt timeout after the first chunk) or a leaked
\* job outlives max_lifetime_s.
GrowStale(j) ==
    /\ age[j] = "old"
    /\ pc[j] \in {"streaming", "orphan"}
    /\ age' = [age EXCEPT ![j] = "stale"]
    /\ UNCHANGED <<pc, resume, retryVars, bookVars, status, draining, db>>

\* _gc_stale_jobs: the queued jobs past the maximum lifetime, and how often
\* undoing their assignments decrements the counter of b.
Evicted == {j \in queued : age[j] = "stale"}
Undo(b) == Cardinality({j \in Evicted : assigned[j] = b})

\* Mutant: an eviction does not undo the slot.
GcNoUndo ==
    /\ queued' = queued \ Evicted
    /\ depth' = [b \in Backends |-> IF queued' = {} THEN 0 ELSE depth[b]]
    /\ slot' = [j \in Jobs |->
                  IF pc[j] = "orphan" /\ (j \in Evicted \/ queued' = {})
                    THEN NoBackend ELSE slot[j]]
    /\ UNCHANGED <<pc, resume, retryVars, waiters, worldVars>>

\* Mutant: only the reset of an empty queue, no eviction.
GcNoEviction ==
    /\ queued = {}
    /\ depth' = [b \in Backends |-> 0]
    /\ slot' = [j \in Jobs |-> IF pc[j] = "orphan" THEN NoBackend ELSE slot[j]]
    /\ UNCHANGED <<pc, resume, retryVars, queued, waiters, worldVars>>

\* _gc_stale_jobs: evict the stale jobs, undo the slot of each one that was
\* ever assigned, then clear every counter when no job is left.
GcStaleJobs ==
    /\ queued' = queued \ Evicted
    /\ depth' = [b \in Backends |->
                   IF queued' = {} \/ depth[b] < Undo(b) THEN 0
                                                        ELSE depth[b] - Undo(b)]
    /\ slot' = [j \in Jobs |->
                  IF pc[j] = "orphan" /\ (j \in Evicted \/ queued' = {})
                    THEN NoBackend ELSE slot[j]]
    /\ UNCHANGED <<pc, resume, retryVars, waiters, worldVars>>

\* Mutant: the cleanup waits for the collector's lifetime instead of 5 minutes.
CleanupOnlyStale ==
    /\ db' = [j \in Jobs |->
                IF db[j] = "queued" /\ age[j] = "stale" /\ j \notin queued
                  THEN "failed" ELSE db[j]]
    /\ UNCHANGED <<pc, resume, retryVars, bookVars, status, draining, age>>

\* _cleanup_db_orphans: rows queued for over 5 minutes whose job this
\* worker's queue does not know are failed.
CleanupDbOrphans ==
    /\ db' = [j \in Jobs |->
                IF db[j] = "queued" /\ age[j] # "fresh" /\ j \notin queued
                  THEN "failed" ELSE db[j]]
    /\ UNCHANGED <<pc, resume, retryVars, bookVars, status, draining, age>>

-----------------------------------------------------------------------------
\* What the event loop runs by itself, given time.
Progress(j) ==
    \/ Lookup(j) \/ LookupEmpty(j) \/ Submit(j)
    \/ RouteWait(j) \/ RouteRefused(j)
    \/ \E b \in Backends : RouteOk(j, b)
    \/ WakeYield(j) \/ WakeRefresh(j) \/ WakeEmpty(j)
    \/ ProxyOk(j) \/ FirstChunk(j) \/ StreamEmpty(j)
    \/ RetryableFailure(j) \/ ClientError(j) \/ ContextRecap(j)
    \/ ProxyRaises(j) \/ StreamEnd(j)
    \/ CompleteRequest(j) \/ FailRequest(j) \/ DrainCheck(j)
    \/ RecordOk(j) \/ RecordFail(j)

Cancel(j) == CancelRouting(j) \/ CancelDrain(j) \/ CancelCompletion(j)

Time(j) == Expire(j) \/ GrowOld(j) \/ GrowStale(j)

Registry(b) == Drain(b) \/ DrainImmediate(b) \/ BackendDown(b) \/ BackendUp(b)

Next ==
    \/ \E j \in Jobs : Arrive(j) \/ Progress(j) \/ Cancel(j) \/ Time(j) \/ Recycle(j)
    \/ \E b \in Managed : Registry(b)
    \/ GcStaleJobs
    \/ CleanupDbOrphans

Spec == Init /\ [][Next]_vars

\* The event loop keeps running every coroutine, time passes, the maintenance
\* loop comes round.  Nothing is assumed of clients, administrators or health.
Fairness ==
    /\ \A j \in Jobs : WF_vars(Progress(j)) /\ WF_vars(Time(j))
    /\ WF_vars(GcStaleJobs) /\ WF_vars(CleanupDbOrphans)
    /\ \A b \in Backends : WF_vars(DrainImmediate(b))

FairSpec == Spec /\ Fairness

-----------------------------------------------------------------------------
(* Properties.                                                             *)

Holders(b) == {j \in Jobs : slot[j] = b}

\* The requests that really use a slot of b; the other holders leaked it.
Serving(b) == {j \in Holders(b) : pc[j] # "orphan"}

Exact == \A b \in Backends : depth[b] = Cardinality(Holders(b))

\* Types; the depth of a backend never exceeds max_concurrent.
TypeOK ==
    /\ pc \in [Jobs -> Labels]
    /\ resume \in [Jobs -> {"idle", "lookup", "failing", "recordOk", "recordFail"}]
    /\ attempt \in [Jobs -> 0 .. MaxAttempts - 1]
    /\ tried \in [Jobs -> SUBSET Backends]
    /\ recapped \in [Jobs -> BOOLEAN]
    /\ cand \in [Jobs -> SUBSET Backends]
    /\ expired \in [Jobs -> BOOLEAN]
    /\ assigned \in [Jobs -> Backends \cup {NoBackend}]
    /\ queued \subseteq Jobs
    /\ waiters \subseteq Jobs
    /\ depth \in [Backends -> 0 .. MaxConcurrent]
    /\ status \in [Backends -> {"healthy", "down", "draining", "disabled"}]
    /\ draining \subseteq Backends
    /\ age \in [Jobs -> {"fresh", "old", "stale"}]
    /\ db \in [Jobs -> {"none", "queued", "completed", "failed"}]
    /\ slot \in [Jobs -> Backends \cup {NoBackend}]

\* The depth counter of a backend never counts a slot that no request took or
\* leaked: retries, double releases, cancellations and the collector may lose
\* count downwards, never upwards, so capacity is not silently withheld.
NoPhantomSlots == \A b \in Backends : depth[b] <= Cardinality(Holders(b))

\* A request that ended through the completion or the failure handler has
\* given its slot back and left the queue, whichever of the handlers, the
\* retry loop and the collector got there first.
EndedHoldsNothing ==
    \A j \in Jobs : pc[j] \in {"done", "failed"} =>
        slot[j] = NoBackend /\ j \notin queued

\* submit_job never meets its own job in the queue, although a request is
\* submitted again whenever its exclusion set is empty on a later attempt.
EnqueuedOnce ==
    \A j \in Jobs : pc[j] \in {"lookup", "submit"} /\ tried[j] = {} => j \notin queued

Holding == {"proxying", "streaming", "completing", "failing", "orphan"}
Tracked == {"route", "waiting"} \cup Holding
Late == {"streaming", "completing", "failing", "drain", "recordOk", "recordFail"} \cup Ended

Discipline(j) ==
    /\ slot[j] # NoBackend => slot[j] = assigned[j] /\ pc[j] \in Holding
    /\ pc[j] \in {"proxying", "streaming", "completing"} => slot[j] # NoBackend
    /\ pc[j] = "orphan" /\ j \in queued => slot[j] # NoBackend
    /\ pc[j] = "drain" => assigned[j] \in Backends /\ resume[j] # "idle"
    /\ j \in queued => pc[j] \in Tracked
    /\ age[j] = "stale" =>
          /\ pc[j] \in Late
          /\ pc[j] = "drain" => resume[j] \in {"recordOk", "recordFail"}
          /\ j \in queued => slot[j] # NoBackend

\* What ties the coroutine of a request to the books: a slot is held only where
\* a handler (or the collector) still comes to give it back, and always on the
\* backend job.assigned_backend_id names; a job is in the queue only while such
\* a handler is ahead; a job the collector evicts holds exactly one slot.
SlotDiscipline == \A j \in Jobs : Discipline(j)

Waiting(j) ==
    j \in waiters =>
        /\ slot[j] = NoBackend
        /\ \/ pc[j] \in {"route", "waiting", "failing", "recordFail", "failed"}
           \/ pc[j] = "drain" /\ resume[j] = "recordFail"

\* A registered waiter waits for capacity, or was cancelled while it waited, and
\* holds no slot: however a request leaves the wait, the priority gate never
\* makes another one yield to a request that is served or has been.
WaitersWait == \A j \in Jobs : Waiting(j)

\* A second release of a slot the retry loop already released, or a run of the
\* collector while a request is being served.
Miscount ==
    \/ \E j \in Jobs : FailRequest(j) /\ slot[j] = NoBackend
    \/ GcStaleJobs /\ \E b \in Backends : Serving(b) # {}

\* The counters leave the true count of occupied slots only in three ways:
\* the failure handler releases a slot the retry loop already released, the
\* collector evicts a job that still runs, or it clears the counters while
\* a request off the queue still runs.
MiscountsExplained == [][Exact => Exact' \/ Miscount]_vars

\* Every admitted request ends: the wait for capacity, the attempts and the
\* nested second routing are all bounded.
RequestsEnd == \A j \in Jobs : pc[j] = "lookup" ~> pc[j] \in Ended

\* When traffic pauses, the collector gives back every slot that a request
\* leaked by ending without completion or failure handler.
LeaksReclaimed == \A j \in Jobs : pc[j] = "orphan" ~> slot[j] = NoBackend

\* The audit row of an ended request does not stay QUEUED, although its own
\* database write may be cancelled or lost.
RowsSettle == \A j \in Jobs : pc[j] \in Ended ~> db[j] # "queued"

-----------------------------------------------------------------------------
(* What comments and documentation say and the code does not do.           *)

\* _fail_request "always releases the scheduler slot properly", so the number
\* of requests a backend serves stays within max_concurrent.
CapacityRespected ==
    \A b \in Backends : Cardinality(Serving(b)) <= MaxConcurrent

=============================================================================
