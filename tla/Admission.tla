------------------------------ MODULE Admission ------------------------------
(***************************************************************************)
(* Fleet-wide admission to one backend: BackendRouter of several workers   *)
(* (core/scheduler/routing.py) sharing the counters of redis_client.py.    *)
(* Each worker owns one Redis subkey; route_job sums the subkeys (or a     *)
(* short-lived cached sum), compares with max_concurrent, claims the slot  *)
(* in its local counter and then mirrors the claim into its subkey.  A     *)
(* maintenance loop pins the subkey to the local counter, a TTL removes    *)
(* the subkeys of a dead worker, a cooldown breaker falls back to local    *)
(* counters.                                                               *)
(*                                                                         *)
(* Every call of Redis is a suspension point, so an action is the code     *)
(* between two of them.  How one request may release twice is the subject  *)
(* of Inference; here a request claims and releases once.                  *)
(***************************************************************************)
EXTENDS Integers, FiniteSets

CONSTANTS
    Workers,        \* worker identities: WORKER_ID, new for every process
    Requests,       \* requests in flight at one time
    Owner,          \* Owner[r]: the worker that handles r
    MaxConcurrent,  \* Backend.max_concurrent
    MaxFaults       \* bound: failed calls of Redis and stopped workers

ASSUME AdmissionAssumption ==
    /\ IsFiniteSet(Requests) /\ IsFiniteSet(Workers)
    /\ Owner \in [Requests -> Workers]
    /\ MaxConcurrent \in Nat \ {0}
    /\ MaxFaults \in Nat

VARIABLES
    pc,        \* where each request is suspended
    seen,      \* the local depth and the fleet-wide sum route_job holds
    local,     \* _backend_queue_depths of each worker
    subkey,    \* mr:adm:{backend}:{worker}; 0 also when the key does not exist
    cache,     \* _adm_snapshot of each worker; None when older than 0.25 s
    cooling,   \* workers inside _ADM_COOLDOWN_S
    pinned,    \* the count a worker's reconcile is about to SET, or None
    alive,     \* running workers
    faults,    \* how many faults have happened
    status     \* Backend.status: "healthy", "draining" or "disabled"

requestVars == <<pc, seen>>
redisVars == <<subkey, cache, cooling>>
vars == <<requestVars, local, redisVars, pinned, alive, faults, status>>

None == -1
Nothing == [own |-> 0, fleet |-> 0]

\* Mutant: the decrement does not stop at zero.
DecUnclamped(n) == n - 1

Dec(n) == IF n > 0 THEN n - 1 ELSE 0

Init ==
    /\ pc = [r \in Requests |-> "idle"]
    /\ seen = [r \in Requests |-> Nothing]
    /\ local = [w \in Workers |-> 0]
    /\ subkey = [w \in Workers |-> 0]
    /\ cache = [w \in Workers |-> None]
    /\ cooling = {}
    /\ pinned = [w \in Workers |-> None]
    /\ alive = Workers
    /\ faults = 0
    /\ status = "healthy"

-----------------------------------------------------------------------------
(* Routing.                                                                *)

\* _adm_ready: Redis answers and the worker is not cooling down.
Ready(w) == w \notin cooling

\* The slots the subkeys claim, one by one.
Claims(w) == {w} \X (1 .. subkey[w])

\* get_backend_inflight_snapshot: the sum of the live subkeys of all workers.
FleetSum == Cardinality(UNION {Claims(w) : w \in Workers})

Fault ==
    /\ faults < MaxFaults
    /\ faults' = faults + 1

\* A failed call trips the cooldown breaker of the worker.
Trip(w) == Fault /\ cooling' = cooling \cup {w}

\* The cached sum follows the worker's own claims and releases.
CacheFollows(w, n) ==
    cache' = [cache EXCEPT ![w] = IF @ = None THEN None ELSE n]

\* Mutant: the local claim is left to Redis when Redis answers.
DecideInRedis(r, depth) ==
    LET w == Owner[r]
    IN  IF depth < MaxConcurrent
          THEN /\ local' = [local EXCEPT ![w] = IF Ready(w) THEN @ ELSE @ + 1]
               /\ pc' = [pc EXCEPT ![r] = "incr"]
          ELSE /\ pc' = [pc EXCEPT ![r] = "idle"]
               /\ UNCHANGED local

\* The rest of route_job once the depth is known: no suspension between the
\* capacity test and the local claim.
Decide(r, depth) ==
    LET w == Owner[r]
    IN  IF depth < MaxConcurrent
          THEN /\ local' = [local EXCEPT ![w] = @ + 1]
               /\ pc' = [pc EXCEPT ![r] = "incr"]
          ELSE /\ pc' = [pc EXCEPT ![r] = "idle"]
               /\ UNCHANGED local

\* route_job finds a fresh cached sum, or Redis unavailable: it goes on with
\* the cached sum, or with the local counter, without suspending.
RouteAtOnce(r) ==
    LET w == Owner[r]
    IN  /\ pc[r] = "idle" /\ w \in alive /\ status = "healthy"
        /\ ~Ready(w) \/ cache[w] # None
        /\ Decide(r, IF Ready(w) THEN cache[w] ELSE local[w])
        /\ UNCHANGED <<seen, redisVars, pinned, alive, faults, status>>

\* route_job fetches the sum: SCAN and MGET are served ...
Fetch(r) ==
    LET w == Owner[r]
    IN  /\ pc[r] = "idle" /\ w \in alive /\ status = "healthy"
        /\ Ready(w) /\ cache[w] = None
        /\ seen' = [seen EXCEPT ![r] = [own |-> local[w], fleet |-> FleetSum]]
        /\ pc' = [pc EXCEPT ![r] = "fetched"]
        /\ UNCHANGED <<local, redisVars, pinned, alive, faults, status>>

\* ... and the reply reaches the worker, which caches it and decides.
RouteFetched(r) ==
    /\ pc[r] = "fetched"
    /\ cache' = [cache EXCEPT ![Owner[r]] = seen[r].fleet]
    /\ Decide(r, seen[r].fleet)
    /\ seen' = [seen EXCEPT ![r] = Nothing]
    /\ UNCHANGED <<subkey, cooling, pinned, alive, faults, status>>

\* The fetch fails: cooldown, and the local depth read at the start of
\* route_job decides.
FetchFails(r) ==
    /\ pc[r] = "fetched"
    /\ Trip(Owner[r])
    /\ Decide(r, seen[r].own)
    /\ seen' = [seen EXCEPT ![r] = Nothing]
    /\ UNCHANGED <<subkey, cache, pinned, alive, status>>

\* incr_backend_inflight after the local claim.
Incr(r) ==
    LET w == Owner[r]
    IN  /\ pc[r] = "incr"
        /\ pc' = [pc EXCEPT ![r] = "serving"]
        /\ \/ /\ Ready(w)
              /\ subkey' = [subkey EXCEPT ![w] = @ + 1]
              /\ CacheFollows(w, cache[w] + 1)
              /\ UNCHANGED <<cooling, faults>>
           \/ /\ ~Ready(w)
              /\ UNCHANGED <<redisVars, faults>>
           \/ /\ Ready(w) /\ Trip(w)
              /\ UNCHANGED <<subkey, cache>>
        /\ UNCHANGED <<seen, local, pinned, alive, status>>

\* on_job_completed or on_job_failed: the local counter first.
Release(r) ==
    LET w == Owner[r]
    IN  /\ pc[r] = "serving"
        /\ local' = [local EXCEPT ![w] = Dec(@)]
        /\ pc' = [pc EXCEPT ![r] = IF local'[w] = 0 THEN "decrLast" ELSE "decr"]
        /\ UNCHANGED <<seen, redisVars, pinned, alive, faults, status>>

\* decr_backend_inflight, then complete_drain if the local depth was 0.
Decr(r) ==
    LET w == Owner[r]
    IN  /\ pc[r] \in {"decr", "decrLast"}
        /\ pc' = [pc EXCEPT ![r] = "idle"]
        /\ \/ /\ Ready(w)
              /\ subkey' = [subkey EXCEPT ![w] = Dec(@)]
              /\ CacheFollows(w, Dec(cache[w]))
              /\ UNCHANGED <<cooling, faults>>
           \/ /\ ~Ready(w)
              /\ UNCHANGED <<redisVars, faults>>
           \/ /\ Ready(w) /\ Trip(w)
              /\ UNCHANGED <<subkey, cache>>
        /\ status' = IF pc[r] = "decrLast" /\ status = "draining" THEN "disabled" ELSE status
        /\ UNCHANGED <<seen, local, pinned, alive>>

-----------------------------------------------------------------------------
(* Maintenance, time, administrators and processes.                        *)

\* The maintenance loop copies the local counter ...
ReconcileRead(w) ==
    /\ w \in alive /\ pinned[w] = None
    /\ pinned' = [pinned EXCEPT ![w] = local[w]]
    /\ UNCHANGED <<requestVars, local, redisVars, alive, faults, status>>

\* Mutant: a backend without local requests is skipped.
ReconcileSkipsZero(w) ==
    /\ pinned[w] # None
    /\ pinned' = [pinned EXCEPT ![w] = None]
    /\ subkey' = [subkey EXCEPT ![w] = IF pinned[w] > 0 /\ Ready(w) THEN pinned[w] ELSE @]
    /\ UNCHANGED <<requestVars, local, cache, cooling, alive, faults, status>>

\* ... and set_backend_inflight pins the subkey to the copy.
ReconcileWrite(w) ==
    /\ pinned[w] # None
    /\ pinned' = [pinned EXCEPT ![w] = None]
    /\ \/ /\ Ready(w)
          /\ subkey' = [subkey EXCEPT ![w] = pinned[w]]
          /\ UNCHANGED <<cooling, faults>>
       \/ /\ ~Ready(w)
          /\ UNCHANGED <<subkey, cooling, faults>>
       \/ /\ Ready(w) /\ Trip(w)
          /\ UNCHANGED subkey
    /\ UNCHANGED <<requestVars, local, cache, alive, status>>

\* The cached sum reaches _ADM_SNAPSHOT_TTL.
CacheExpires(w) ==
    /\ cache[w] # None
    /\ cache' = [cache EXCEPT ![w] = None]
    /\ UNCHANGED <<requestVars, local, subkey, cooling, pinned, alive, faults,
                   status>>

\* _ADM_COOLDOWN_S has passed.
CooldownEnds(w) ==
    /\ w \in cooling
    /\ cooling' = cooling \ {w}
    /\ UNCHANGED <<requestVars, local, subkey, cache, pinned, alive, faults,
                   status>>

\* Mutant: the subkeys have no TTL of their own.
SubkeyExpiresCooling(w) ==
    /\ w \in cooling
    /\ subkey[w] > 0
    /\ subkey' = [subkey EXCEPT ![w] = 0]
    /\ UNCHANGED <<requestVars, local, cache, cooling, pinned, alive, faults,
                   status>>

\* A subkey nobody refreshes lives _ADM_TTL_SECONDS: its worker is dead, or
\* cannot reach Redis.
SubkeyExpires(w) ==
    /\ w \notin alive \/ w \in cooling
    /\ subkey[w] > 0
    /\ subkey' = [subkey EXCEPT ![w] = 0]
    /\ UNCHANGED <<requestVars, local, cache, cooling, pinned, alive, faults,
                   status>>

\* drain_backend served by worker w: the immediate completion looks at the
\* depth of this worker.
Drain(w) ==
    /\ w \in alive /\ status = "healthy"
    /\ status' = IF local[w] = 0 THEN "disabled" ELSE "draining"
    /\ UNCHANGED <<requestVars, local, redisVars, pinned, alive, faults>>

\* enable_backend and a passing health check.
Enable ==
    /\ status = "disabled"
    /\ status' = "healthy"
    /\ UNCHANGED <<requestVars, local, redisVars, pinned, alive, faults>>

\* Worker w stops and its requests with it: killed (its subkey stays until
\* the TTL) or after clear_backend_inflight.
Stop(w, graceful) ==
    /\ Fault
    /\ w \in alive
    /\ alive' = alive \ {w}
    /\ pc' = [r \in Requests |-> IF Owner[r] = w THEN "idle" ELSE pc[r]]
    /\ seen' = [r \in Requests |-> IF Owner[r] = w THEN Nothing ELSE seen[r]]
    /\ local' = [local EXCEPT ![w] = 0]
    /\ subkey' = [subkey EXCEPT ![w] = IF graceful THEN 0 ELSE @]
    /\ cache' = [cache EXCEPT ![w] = None]
    /\ cooling' = cooling \ {w}
    /\ pinned' = [pinned EXCEPT ![w] = None]
    /\ UNCHANGED status

\* A replacement process; it takes the place of a dead one that left no subkey.
Start(w) ==
    /\ w \notin alive /\ subkey[w] = 0
    /\ alive' = alive \cup {w}
    /\ UNCHANGED <<requestVars, local, redisVars, pinned, faults, status>>

-----------------------------------------------------------------------------
Serve(r) ==
    \/ RouteAtOnce(r) \/ Fetch(r) \/ RouteFetched(r) \/ FetchFails(r)
    \/ Incr(r) \/ Release(r) \/ Decr(r)

Maintain(w) ==
    \/ ReconcileRead(w) \/ ReconcileWrite(w)

Lapse(w) == CacheExpires(w) \/ CooldownEnds(w) \/ SubkeyExpires(w)

Next ==
    \/ \E r \in Requests : Serve(r)
    \/ \E w \in Workers : Maintain(w) \/ Lapse(w) \/ Drain(w) \/ Start(w)
    \/ \E w \in Workers, graceful \in BOOLEAN : Stop(w, graceful)
    \/ Enable

Spec == Init /\ [][Next]_vars

\* Calls of Redis return, the maintenance loop and the clocks go on.
Fairness ==
    /\ \A r \in Requests : WF_vars(RouteFetched(r)) /\ WF_vars(Incr(r)) /\ WF_vars(Decr(r))
    /\ \A w \in Workers : /\ WF_vars(Maintain(w))
                          /\ WF_vars(CooldownEnds(w)) /\ WF_vars(SubkeyExpires(w))

FairSpec == Spec /\ Fairness

-----------------------------------------------------------------------------
(* Properties.                                                             *)

Occupying(w) == {r \in Requests : Owner[r] = w /\ pc[r] \in {"incr", "serving"}}

\* Types; neither the local counter nor a subkey ever goes below zero.
TypeOK ==
    /\ pc \in [Requests -> {"idle", "fetched", "incr", "serving", "decr", "decrLast"}]
    /\ seen \in [Requests -> [own : Nat, fleet : Nat]]
    /\ local \in [Workers -> Nat]
    /\ subkey \in [Workers -> Nat]
    /\ cache \in [Workers -> Nat \cup {None}]
    /\ cooling \subseteq Workers
    /\ pinned \in [Workers -> Nat \cup {None}]
    /\ alive \subseteq Workers
    /\ faults \in 0 .. MaxFaults
    /\ status \in {"healthy", "draining", "disabled"}

\* The local counter, on which the fail-open mode and the reconciliation both
\* rest, is the number of slots the worker's requests occupy, whatever Redis
\* does in between.
LocalExact == \A w \in Workers : local[w] = Cardinality(Occupying(w))

\* Drift does not last: once no request of the fleet moves and Redis stays
\* reachable, every live worker's subkey becomes its local counter, although
\* reconciliation, claims and releases overlap.
DriftRepaired ==
    <>[](cooling = {} /\ \A r \in Requests : pc[r] \in {"idle", "serving"})
        => <>[](\A w \in alive : subkey[w] = local[w])

\* The slots of a worker that died are given back: its subkey does not count
\* forever against max_concurrent.
DeadWorkersForgotten == \A w \in Workers : w \notin alive ~> subkey[w] = 0

=============================================================================
