--------------------------- MODULE AdmissionProofs ---------------------------
(***************************************************************************)
(* What fleet-wide admission of Admission guarantees for any number of     *)
(* workers and requests, any capacity and any number of faults.            *)
(***************************************************************************)
EXTENDS Admission, FiniteSetTheorems, TLAPS

USE AdmissionAssumption DEF AdmissionAssumption

PCs == {"idle", "fetched", "incr", "serving", "decr", "decrLast"}

\* The types of the counters and of what a suspended request holds.
Counts == Nat \cup {None}

-----------------------------------------------------------------------------
(* Counting.                                                               *)

\* The fleet-wide sum is a number.
LEMMA FleetSumType ==
    ASSUME subkey \in [Workers -> Nat]
    PROVE  FleetSum \in Nat
<1> DEFINE claims == [w \in Workers |-> Claims(w)]
           all == {Claims(w) : w \in Workers}
<1>1. claims \in Surjection(Workers, all)
  BY DEF Surjection
<1>2. IsFiniteSet(all)
  BY <1>1, FS_Surjection
<1>3. ASSUME NEW w \in Workers
      PROVE  IsFiniteSet(Claims(w))
  <2>1. IsFiniteSet(1 .. subkey[w])
    BY FS_Interval
  <2>2. IsFiniteSet({w})
    BY FS_Singleton
  <2> QED BY <2>1, <2>2, FS_Product DEF Claims
<1>4. IsFiniteSet(UNION all)
  BY <1>2, <1>3, FS_UNION
<1> QED BY <1>4, FS_CardinalityType DEF FleetSum

\* Putting an element into a finite set, or taking it out, changes its size
\* by one or not at all.
LEMMA SizeChanges ==
    ASSUME NEW S, NEW e, IsFiniteSet(S)
    PROVE  /\ e \in S => Cardinality(S \ {e}) = Cardinality(S) - 1
           /\ e \notin S => Cardinality(S \cup {e}) = Cardinality(S) + 1
           /\ Cardinality(S) \in Nat
           /\ e \in S => Cardinality(S) > 0
<1>1. e \in S => Cardinality(S \ {e}) = Cardinality(S) - 1
  BY FS_RemoveElement
<1>2. e \notin S => Cardinality(S \cup {e}) = Cardinality(S) + 1
  BY FS_AddElement
<1>3. Cardinality(S) \in Nat
  BY FS_CardinalityType
<1>4. Cardinality(S) = 0 => S = {}
  BY FS_EmptySet
<1> QED BY <1>1, <1>2, <1>3, <1>4

\* The requests of a worker that occupy a slot are finitely many.
LEMMA OccupyingFinite == \A w \in Workers : IsFiniteSet(Occupying(w))
<1>1. \A w \in Workers : Occupying(w) \in SUBSET Requests
  BY DEF Occupying
<1> HIDE DEF Occupying
<1> QED BY <1>1, FS_Subset

\* A step of one request moves only that request in and out of the set.
LEMMA OccupyingMoves ==
    ASSUME TypeOK, NEW r \in Requests, NEW l, pc' = [pc EXCEPT ![r] = l]
    PROVE  /\ \A w \in Workers \ {Owner[r]} : Occupying(w)' = Occupying(w)
           /\ Occupying(Owner[r])' = IF l \in {"incr", "serving"}
                                       THEN Occupying(Owner[r]) \cup {r}
                                       ELSE Occupying(Owner[r]) \ {r}
<1>1. \A q \in Requests : pc'[q] = IF q = r THEN l ELSE pc[q]
  BY DEF TypeOK
<1> QED BY <1>1 DEF Occupying

\* A request that enters or leaves the set, or stays on its side, keeps
\* LocalExact if its worker's counter goes up, down, or stays.
LEMMA CounterFollows ==
    ASSUME TypeOK, LocalExact, NEW r \in Requests, NEW l, pc' = [pc EXCEPT ![r] = l],
           NEW n, local' = [local EXCEPT ![Owner[r]] = n],
           n = local[Owner[r]]
                 + (IF l \in {"incr", "serving"} THEN 1 ELSE 0)
                 - (IF pc[r] \in {"incr", "serving"} THEN 1 ELSE 0)
    PROVE  LocalExact'
<1> DEFINE o == Owner[r]
<1>1. o \in Workers /\ IsFiniteSet(Occupying(o))
  BY OccupyingFinite
<1>2. r \in Occupying(o) <=> pc[r] \in {"incr", "serving"}
  BY DEF Occupying
<1>3. Cardinality(Occupying(o)') = n
  <2>1. Cardinality(Occupying(o)) = local[o] /\ local[o] \in Nat
    BY <1>1 DEF LocalExact, TypeOK
  <2>2. CASE l \in {"incr", "serving"} /\ r \in Occupying(o)
    <3>1. Occupying(o)' = Occupying(o) \cup {r}
      BY <2>2, OccupyingMoves
    <3>2. Occupying(o) \cup {r} = Occupying(o)
      BY <2>2
    <3> QED BY <1>2, <2>1, <2>2, <3>1, <3>2
  <2>3. CASE l \in {"incr", "serving"} /\ r \notin Occupying(o)
    <3>1. Occupying(o)' = Occupying(o) \cup {r}
      BY <2>3, OccupyingMoves
    <3>2. Cardinality(Occupying(o) \cup {r}) = Cardinality(Occupying(o)) + 1
      BY <1>1, <2>3, SizeChanges
    <3> QED BY <1>2, <2>1, <2>3, <3>1, <3>2
  <2>4. CASE l \notin {"incr", "serving"} /\ r \in Occupying(o)
    <3>1. Occupying(o)' = Occupying(o) \ {r}
      BY <2>4, OccupyingMoves
    <3>2. Cardinality(Occupying(o) \ {r}) = Cardinality(Occupying(o)) - 1
      BY <1>1, <2>4, SizeChanges
    <3> QED BY <1>2, <2>1, <2>4, <3>1, <3>2
  <2>5. CASE l \notin {"incr", "serving"} /\ r \notin Occupying(o)
    <3>1. Occupying(o)' = Occupying(o) \ {r}
      BY <2>5, OccupyingMoves
    <3>2. Occupying(o) \ {r} = Occupying(o)
      BY <2>5
    <3> QED BY <1>2, <2>1, <2>5, <3>1, <3>2
  <2> QED BY <2>2, <2>3, <2>4, <2>5
<1>4. local'[o] = n
  BY <1>1 DEF TypeOK
<1>5. \A w \in Workers \ {o} : local'[w] = Cardinality(Occupying(w)')
  BY OccupyingMoves DEF LocalExact, TypeOK
<1> QED BY <1>3, <1>4, <1>5 DEF LocalExact

-----------------------------------------------------------------------------
(* Routing and release.                                                    *)

\* The capacity test and the local claim are one step: a claimed slot is
\* counted, a refused request leaves no trace.
LEMMA DecideStep ==
    ASSUME TypeOK, LocalExact, NEW r \in Requests, NEW depth,
           pc[r] \in {"idle", "fetched"}, Decide(r, depth)
    PROVE  /\ LocalExact'
           /\ local' \in [Workers -> Nat]
           /\ pc' \in [Requests -> PCs]
<1> DEFINE o == Owner[r]
<1>1. o \in Workers /\ local[o] \in Nat
  BY DEF TypeOK
<1>2. CASE depth < MaxConcurrent
  <2>1. pc' = [pc EXCEPT ![r] = "incr"] /\ local' = [local EXCEPT ![o] = local[o] + 1]
    BY <1>2 DEF Decide
  <2>2. local[o] + 1 = local[o] + (IF "incr" \in {"incr", "serving"} THEN 1 ELSE 0)
                          - (IF pc[r] \in {"incr", "serving"} THEN 1 ELSE 0)
    BY <1>1
  <2>3. LocalExact'
    BY <2>1, <2>2, CounterFollows
  <2> QED BY <1>1, <2>1, <2>3 DEF TypeOK, PCs
<1>3. CASE ~(depth < MaxConcurrent)
  <2>1. pc' = [pc EXCEPT ![r] = "idle"] /\ local' = [local EXCEPT ![o] = local[o]]
    BY <1>1, <1>3 DEF Decide, TypeOK
  <2>2. local[o] = local[o] + (IF "idle" \in {"incr", "serving"} THEN 1 ELSE 0)
                      - (IF pc[r] \in {"incr", "serving"} THEN 1 ELSE 0)
    BY <1>1
  <2>3. LocalExact'
    BY <2>1, <2>2, CounterFollows
  <2> QED BY <1>1, <2>1, <2>3 DEF TypeOK, PCs
<1> QED BY <1>2, <1>3

\* The breaker's cooldown keeps the types.
LEMMA TripTypes ==
    ASSUME TypeOK, NEW w \in Workers, Trip(w)
    PROVE  cooling' \subseteq Workers /\ faults' \in 0 .. MaxFaults
BY DEF TypeOK, Trip, Fault

\* The cached sum stays a count, or stays absent.
LEMMA CacheTypes ==
    ASSUME TypeOK, NEW w \in Workers,
           CacheFollows(w, cache[w] + 1) \/ CacheFollows(w, Dec(cache[w]))
    PROVE  cache' \in [Workers -> Counts]
BY DEF TypeOK, CacheFollows, Dec, Counts, None

\* Every step of a request keeps the types and the exact count.
LEMMA ServeStep ==
    ASSUME TypeOK, LocalExact, NEW r \in Requests, Serve(r)
    PROVE  TypeOK' /\ LocalExact'
<1> DEFINE o == Owner[r]
<1>1. o \in Workers /\ local[o] \in Nat /\ subkey[o] \in Nat /\ cache[o] \in Counts
  BY DEF TypeOK, Counts
<1>2. CASE RouteAtOnce(r)
  <2>1. PICK depth : Decide(r, depth) /\ pc[r] = "idle"
    BY <1>2 DEF RouteAtOnce
  <2> QED BY <1>2, <2>1, DecideStep DEF RouteAtOnce, TypeOK, PCs, redisVars
<1>3. CASE Fetch(r)
  <2>1. pc' = [pc EXCEPT ![r] = "fetched"] /\ local' = [local EXCEPT ![o] = local[o]]
    BY <1>1, <1>3 DEF Fetch, TypeOK
  <2>2. LocalExact'
    <3>1. local[o] = local[o] + (IF "fetched" \in {"incr", "serving"} THEN 1 ELSE 0)
                        - (IF pc[r] \in {"incr", "serving"} THEN 1 ELSE 0)
      BY <1>1, <1>3 DEF Fetch
    <3> QED BY <2>1, <3>1, CounterFollows
  <2>3. FleetSum \in Nat
    BY FleetSumType DEF TypeOK
  <2>4. seen' \in [Requests -> [own : Nat, fleet : Nat]]
    BY <1>1, <1>3, <2>3 DEF Fetch, TypeOK
  <2> QED BY <1>3, <2>1, <2>2, <2>4 DEF Fetch, TypeOK, redisVars
<1>4. CASE RouteFetched(r)
  <2>1. LocalExact' /\ local' \in [Workers -> Nat] /\ pc' \in [Requests -> PCs]
    BY <1>4, DecideStep DEF RouteFetched
  <2>2. seen[r].fleet \in Nat
    BY DEF TypeOK
  <2>3. cache' \in [Workers -> Counts]
    BY <1>4, <2>2 DEF RouteFetched, TypeOK, Counts
  <2>4. seen' \in [Requests -> [own : Nat, fleet : Nat]]
    BY <1>4 DEF RouteFetched, TypeOK, Nothing
  <2> QED BY <1>4, <2>1, <2>3, <2>4 DEF RouteFetched, TypeOK, PCs, Counts
<1>5. CASE FetchFails(r)
  <2>1. LocalExact' /\ local' \in [Workers -> Nat] /\ pc' \in [Requests -> PCs]
    BY <1>5, DecideStep DEF FetchFails
  <2>2. cooling' \subseteq Workers /\ faults' \in 0 .. MaxFaults
    BY <1>1, <1>5, TripTypes DEF FetchFails
  <2>3. seen' \in [Requests -> [own : Nat, fleet : Nat]]
    BY <1>5 DEF FetchFails, TypeOK, Nothing
  <2> QED BY <1>5, <2>1, <2>2, <2>3 DEF FetchFails, TypeOK, PCs
<1>6. CASE Incr(r)
  <2>1. pc' = [pc EXCEPT ![r] = "serving"] /\ local' = [local EXCEPT ![o] = local[o]]
    BY <1>1, <1>6 DEF Incr, TypeOK
  <2>2. LocalExact'
    <3>1. local[o] = local[o] + (IF "serving" \in {"incr", "serving"} THEN 1 ELSE 0)
                        - (IF pc[r] \in {"incr", "serving"} THEN 1 ELSE 0)
      BY <1>1, <1>6 DEF Incr
    <3> QED BY <2>1, <3>1, CounterFollows
  <2>3. /\ subkey' \in [Workers -> Nat] /\ cache' \in [Workers -> Counts]
        /\ cooling' \subseteq Workers /\ faults' \in 0 .. MaxFaults
    BY <1>1, <1>6, TripTypes, CacheTypes DEF Incr, TypeOK, Counts, redisVars
  <2> QED BY <1>6, <2>1, <2>2, <2>3 DEF Incr, TypeOK, Counts
<1>7. CASE Release(r)
  <2> DEFINE l == IF local'[o] = 0 THEN "decrLast" ELSE "decr"
  <2>1. pc' = [pc EXCEPT ![r] = l] /\ local' = [local EXCEPT ![o] = Dec(local[o])]
    BY <1>7 DEF Release
  <2>2. Dec(local[o]) = local[o] - 1
    <3>1. r \in Occupying(o) /\ IsFiniteSet(Occupying(o))
      BY <1>1, <1>7, OccupyingFinite DEF Release, Occupying
    <3>2. Cardinality(Occupying(o)) > 0
      BY <3>1, SizeChanges
    <3> QED BY <1>1, <3>2 DEF Dec, LocalExact
  <2>3. LocalExact'
    <3>1. l \notin {"incr", "serving"} /\ pc[r] \in {"incr", "serving"}
      BY <1>7 DEF Release
    <3>2. Dec(local[o]) = local[o] + (IF l \in {"incr", "serving"} THEN 1 ELSE 0)
                        - (IF pc[r] \in {"incr", "serving"} THEN 1 ELSE 0)
      BY <1>1, <2>2, <3>1
    <3> QED BY <2>1, <3>2, CounterFollows
  <2>4. l \in PCs /\ Dec(local[o]) \in Nat
    BY <1>1 DEF Dec, PCs
  <2>5. pc' \in [Requests -> PCs] /\ local' \in [Workers -> Nat]
    BY <2>1, <2>4 DEF TypeOK, PCs
  <2> QED BY <1>7, <2>3, <2>5 DEF Release, TypeOK, PCs, redisVars
<1>8. CASE Decr(r)
  <2>1. pc' = [pc EXCEPT ![r] = "idle"] /\ local' = [local EXCEPT ![o] = local[o]]
    BY <1>1, <1>8 DEF Decr, TypeOK
  <2>2. LocalExact'
    <3>1. local[o] = local[o] + (IF "idle" \in {"incr", "serving"} THEN 1 ELSE 0)
                        - (IF pc[r] \in {"incr", "serving"} THEN 1 ELSE 0)
      BY <1>1, <1>8 DEF Decr
    <3> QED BY <2>1, <3>1, CounterFollows
  <2>3. /\ subkey' \in [Workers -> Nat] /\ cache' \in [Workers -> Counts]
        /\ cooling' \subseteq Workers /\ faults' \in 0 .. MaxFaults
    BY <1>1, <1>8, TripTypes, CacheTypes DEF Decr, Dec, TypeOK, Counts, redisVars
  <2> QED BY <1>8, <2>1, <2>2, <2>3 DEF Decr, TypeOK, Counts
<1> QED BY <1>2, <1>3, <1>4, <1>5, <1>6, <1>7, <1>8 DEF Serve

-----------------------------------------------------------------------------
(* Maintenance, time, administrators and processes.                        *)

\* What leaves the requests and the local counters alone keeps the exact count.
LEMMA CountsUntouched ==
    ASSUME LocalExact, UNCHANGED <<pc, local>>
    PROVE  LocalExact'
BY DEF LocalExact, Occupying

\* Maintenance, lapses and administrators.
LEMMA WorkerStep ==
    ASSUME TypeOK, LocalExact, NEW w \in Workers, Maintain(w) \/ Lapse(w) \/ Drain(w) \/ Start(w)
    PROVE  TypeOK' /\ LocalExact'
<1>1. UNCHANGED <<pc, seen, local>>
  BY DEF Maintain, ReconcileRead, ReconcileWrite, Lapse, CacheExpires, CooldownEnds,
         SubkeyExpires, Drain, Start, requestVars
<1>2. LocalExact'
  BY <1>1, CountsUntouched
<1>3. CASE ReconcileRead(w)
  BY <1>1, <1>2, <1>3 DEF ReconcileRead, TypeOK, redisVars
<1>4. CASE ReconcileWrite(w)
  <2>1. pinned[w] \in Nat
    BY <1>4 DEF ReconcileWrite, TypeOK
  <2>2. /\ subkey' \in [Workers -> Nat] /\ cooling' \subseteq Workers
        /\ faults' \in 0 .. MaxFaults
    BY <1>4, <2>1, TripTypes DEF ReconcileWrite, TypeOK
  <2> QED BY <1>1, <1>2, <1>4, <2>2 DEF ReconcileWrite, TypeOK
<1>5. CASE Lapse(w)
  BY <1>1, <1>2, <1>5 DEF Lapse, CacheExpires, CooldownEnds, SubkeyExpires, TypeOK
<1>6. CASE Drain(w)
  BY <1>1, <1>2, <1>6 DEF Drain, TypeOK, redisVars
<1>7. CASE Start(w)
  BY <1>1, <1>2, <1>7 DEF Start, TypeOK, redisVars
<1> QED BY <1>3, <1>4, <1>5, <1>6, <1>7 DEF Maintain

\* A worker that stops takes its requests and its counter with it.
LEMMA StopStep ==
    ASSUME TypeOK, LocalExact, NEW w \in Workers, NEW graceful \in BOOLEAN, Stop(w, graceful)
    PROVE  TypeOK' /\ LocalExact'
<1>1. \A r \in Requests : pc'[r] = IF Owner[r] = w THEN "idle" ELSE pc[r]
  BY DEF Stop
<1>2. Occupying(w)' = {}
  BY <1>1 DEF Occupying
<1>3. \A v \in Workers \ {w} : Occupying(v)' = Occupying(v)
  BY <1>1 DEF Occupying
<1>4. local' = [local EXCEPT ![w] = 0]
  BY DEF Stop
<1>5. LocalExact'
  <2>1. local'[w] = Cardinality(Occupying(w)')
    BY <1>2, <1>4, FS_EmptySet DEF TypeOK
  <2>2. \A v \in Workers \ {w} : local'[v] = Cardinality(Occupying(v)')
    BY <1>3, <1>4 DEF TypeOK, LocalExact
  <2> QED BY <2>1, <2>2 DEF LocalExact
<1>6. pc' \in [Requests -> PCs] /\ seen' \in [Requests -> [own : Nat, fleet : Nat]]
  BY DEF Stop, TypeOK, PCs, Nothing
<1>7. local' \in [Workers -> Nat] /\ subkey' \in [Workers -> Nat]
  BY DEF Stop, TypeOK
<1>8. cache' \in [Workers -> Counts] /\ pinned' \in [Workers -> Counts]
  BY DEF Stop, TypeOK, Counts
<1>9. cooling' \subseteq Workers /\ alive' \subseteq Workers /\ faults' \in 0 .. MaxFaults
  BY DEF Stop, TypeOK, Fault
<1> QED BY <1>5, <1>6, <1>7, <1>8, <1>9 DEF Stop, TypeOK, PCs, Counts

-----------------------------------------------------------------------------
\* Every step keeps the types and the exact count.
LEMMA AdmissionStep == TypeOK /\ LocalExact /\ [Next]_vars => TypeOK' /\ LocalExact'
<1> SUFFICES ASSUME TypeOK, LocalExact, [Next]_vars PROVE TypeOK' /\ LocalExact'
  OBVIOUS
<1>1. ASSUME NEW r \in Requests, Serve(r) PROVE TypeOK' /\ LocalExact'
  BY <1>1, ServeStep
<1>2. ASSUME NEW w \in Workers, Maintain(w) \/ Lapse(w) \/ Drain(w) \/ Start(w)
      PROVE  TypeOK' /\ LocalExact'
  BY <1>2, WorkerStep
<1>3. ASSUME NEW w \in Workers, NEW graceful \in BOOLEAN, Stop(w, graceful)
      PROVE  TypeOK' /\ LocalExact'
  BY <1>3, StopStep
<1>4. CASE Enable
  BY <1>4, CountsUntouched DEF Enable, requestVars, redisVars, TypeOK
<1>5. CASE UNCHANGED vars
  BY <1>5, CountsUntouched DEF vars, requestVars, redisVars, TypeOK
<1> QED BY <1>1, <1>2, <1>3, <1>4, <1>5 DEF Next

\* At the start nothing is in flight.
LEMMA AdmissionInit == Init => TypeOK /\ LocalExact
<1> SUFFICES ASSUME Init PROVE TypeOK /\ LocalExact
  OBVIOUS
<1>1. TypeOK
  BY DEF Init, TypeOK, Nothing
<1>2. \A w \in Workers : Occupying(w) = {}
  BY DEF Init, Occupying
<1>3. LocalExact
  BY <1>2, FS_EmptySet DEF Init, LocalExact
<1> QED BY <1>1, <1>3

\* TypeOK for every fleet: no counter of a worker or in Redis goes below zero,
\* whatever fails, expires or dies between a claim and its release.
THEOREM CountersNeverNegative == Spec => []TypeOK
<1> QED BY AdmissionInit, AdmissionStep, PTL DEF Spec

\* LocalExact for every fleet: the counter that decides when Redis is away, and
\* that reconciliation copies, is the number of slots the worker's requests
\* occupy, although routing suspends between the sum and the claim and releases
\* clamp at zero.
THEOREM LocalCountExact == Spec => []LocalExact
<1> QED BY AdmissionInit, AdmissionStep, PTL DEF Spec
=============================================================================
