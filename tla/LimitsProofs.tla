--------------------------- MODULE LimitsProofs ---------------------------
(***************************************************************************)
(* What the two limits of a client guarantee: the requests per minute of   *)
(* RateLimit, for any number of users and concurrent calls and any limit,  *)
(* and the tokens per period of Quota, for any number of requests,         *)
(* processes and periods and any budget.  Both keep their count in Redis.  *)
(***************************************************************************)
EXTENDS Quota, RateLimit, FiniteSetTheorems, TLAPS

USE RateAssumption DEF RateAssumption

\* The states of a Redis key.
Keys == [live : BOOLEAN, n : Int, ttl : BOOLEAN]

\* The part of RateTypeOK that concerns Redis, and the types of the calls.
RedisTypes ==
    /\ key \in [Users -> Keys]
    /\ call \in [Calls -> {"idle", "expire", "decr"}]
    /\ over \in [Calls -> BOOLEAN]
    /\ late \in [Calls -> BOOLEAN]
    /\ passed \in [Users -> Nat]
    /\ debt \in [Users -> Nat]

\* The calls of u whose INCR the present key counts and which are still on.
Pending(u) == {s \in Slots : call[<<u, s>>] # "idle" /\ ~late[<<u, s>>]}

\* ... of which those that will be admitted.
Granted(u) ==
    {s \in Slots : call[<<u, s>>] = "expire" /\ ~over[<<u, s>>] /\ ~late[<<u, s>>]}

\* Every admitted or pending call was counted; only a late DECR takes away a
\* count of another call.
Counted(u) == passed[u] + Cardinality(Pending(u)) - debt[u] <= key[u].n

\* Those admitted and those that will be are within the limit.
Room(u) == passed[u] + Cardinality(Granted(u)) <= Limit + debt[u]

WindowInv ==
    /\ RedisTypes
    /\ \A c \in Calls : call[c] = "idle" => ~late[c]
    /\ \A u \in Users : Counted(u) /\ Room(u)

-----------------------------------------------------------------------------
\* The sets of calls have a size; granted calls are pending.
LEMMA CallSets ==
    ASSUME NEW u
    PROVE  /\ IsFiniteSet(Pending(u)) /\ Cardinality(Pending(u)) \in Nat
           /\ IsFiniteSet(Granted(u)) /\ Cardinality(Granted(u)) \in Nat
           /\ Cardinality(Granted(u)) <= Cardinality(Pending(u))
<1>1. Granted(u) \subseteq Pending(u) /\ Pending(u) \subseteq Slots
  BY DEF Granted, Pending
<1>2. IsFiniteSet(Pending(u))
  BY <1>1, FS_Subset
<1> HIDE DEF Granted, Pending
<1>3. IsFiniteSet(Granted(u)) /\ Cardinality(Granted(u)) <= Cardinality(Pending(u))
  BY <1>1, <1>2, FS_Subset
<1> QED BY <1>2, <1>3, FS_CardinalityType

\* Putting an element into a finite set, or taking it out, changes its size
\* by one or not at all.
LEMMA SizeChanges ==
    ASSUME NEW S, NEW e, IsFiniteSet(S)
    PROVE  /\ e \in S => Cardinality(S \ {e}) = Cardinality(S) - 1
           /\ e \notin S => Cardinality(S \cup {e}) = Cardinality(S) + 1
           /\ e \in S => S \cup {e} = S
           /\ e \notin S => S \ {e} = S
           /\ Cardinality(S \ {e}) \in Nat /\ Cardinality(S \ {e}) <= Cardinality(S)
<1>1. e \in S => Cardinality(S \ {e}) = Cardinality(S) - 1
  BY FS_RemoveElement
<1>2. e \notin S => Cardinality(S \cup {e}) = Cardinality(S) + 1
  BY FS_AddElement
<1>3. S \ {e} \in SUBSET S
  OBVIOUS
<1>4. IsFiniteSet(S \ {e}) /\ Cardinality(S \ {e}) <= Cardinality(S)
  BY <1>3, FS_Subset
<1>5. Cardinality(S \ {e}) \in Nat
  BY <1>4, FS_CardinalityType
<1> QED BY <1>1, <1>2, <1>4, <1>5

\* A step of one call moves only that call in and out of the sets.
LEMMA CallMoves ==
    ASSUME RedisTypes, NEW u \in Users, NEW s \in Slots, NEW p, NEW o, NEW l,
           call' = [call EXCEPT ![<<u, s>>] = p],
           over' = [over EXCEPT ![<<u, s>>] = o],
           late' = [late EXCEPT ![<<u, s>>] = l]
    PROVE  /\ \A v \in Users \ {u} : Pending(v)' = Pending(v) /\ Granted(v)' = Granted(v)
           /\ Pending(u)' = IF p # "idle" /\ ~l THEN Pending(u) \cup {s} ELSE Pending(u) \ {s}
           /\ Granted(u)' = IF p = "expire" /\ ~o /\ ~l THEN Granted(u) \cup {s}
                                                       ELSE Granted(u) \ {s}
<1>1. \A v \in Users, t \in Slots : <<v, t>> \in Calls
  BY DEF Calls
<1>2. ASSUME NEW v \in Users, NEW t \in Slots
      PROVE  /\ call'[<<v, t>>] = IF v = u /\ t = s THEN p ELSE call[<<v, t>>]
             /\ over'[<<v, t>>] = IF v = u /\ t = s THEN o ELSE over[<<v, t>>]
             /\ late'[<<v, t>>] = IF v = u /\ t = s THEN l ELSE late[<<v, t>>]
  BY <1>1 DEF RedisTypes
<1> QED BY <1>2 DEF Pending, Granted

\* The step of call <<u, s>> keeps the invariant if it keeps the types and the
\* two inequalities of its own user.
LEMMA OneUser ==
    ASSUME WindowInv, RedisTypes', NEW u \in Users, NEW s \in Slots, NEW p, NEW o, NEW l,
           call' = [call EXCEPT ![<<u, s>>] = p],
           over' = [over EXCEPT ![<<u, s>>] = o],
           late' = [late EXCEPT ![<<u, s>>] = l],
           p = "idle" => ~l,
           \A v \in Users \ {u} : key'[v] = key[v] /\ passed'[v] = passed[v] /\ debt'[v] = debt[v],
           Counted(u)', Room(u)'
    PROVE  WindowInv'
<1>1. \A v \in Users \ {u} : Pending(v)' = Pending(v) /\ Granted(v)' = Granted(v)
  BY CallMoves DEF WindowInv
<1>2. \A v \in Users \ {u} : Counted(v)' /\ Room(v)'
  BY <1>1 DEF WindowInv, Counted, Room
<1>3. \A c \in Calls : call'[c] = "idle" => ~late'[c]
  BY DEF WindowInv, RedisTypes
<1> QED BY <1>2, <1>3 DEF WindowInv

\* A key whose count or expiry changes is a key.
LEMMA KeyChanges ==
    ASSUME NEW k \in Keys
    PROVE  /\ k.live \in BOOLEAN /\ k.n \in Int /\ k.ttl \in BOOLEAN
           /\ \A n \in Int : LET r == [k EXCEPT !.live = TRUE, !.n = n] IN r \in Keys /\ r.n = n
           /\ \A t \in BOOLEAN : LET r == [k EXCEPT !.ttl = t] IN r \in Keys /\ r.n = k.n
<1>1. k.live \in BOOLEAN /\ k.n \in Int /\ k.ttl \in BOOLEAN
  BY DEF Keys
<1>2. ASSUME NEW n \in Int
      PROVE  LET r == [k EXCEPT !.live = TRUE, !.n = n] IN r \in Keys /\ r.n = n
  BY DEF Keys
<1>3. ASSUME NEW t \in BOOLEAN
      PROVE  LET r == [k EXCEPT !.ttl = t] IN r \in Keys /\ r.n = k.n
  BY DEF Keys
<1> QED BY <1>1, <1>2, <1>3

\* INCR: a call that is admitted at once or later was counted and found room.
LEMMA IncrStep ==
    ASSUME WindowInv, NEW c \in Calls, IncrKey(c)
    PROVE  WindowInv'
<1>1. PICK u \in Users, s \in Slots : c = <<u, s>>
  BY DEF Calls
<1> DEFINE n == key[u].n + 1
           granted == n <= Limit
           p == IF ~key[u].ttl THEN "expire" ELSE IF granted THEN "idle" ELSE "decr"
           o == IF key[u].ttl /\ granted THEN FALSE ELSE ~granted
<1>2. RedisTypes /\ call[c] = "idle" /\ late[c] = FALSE /\ Counted(u) /\ Room(u) /\ User(c) = u
  BY <1>1 DEF WindowInv, IncrKey, RedisTypes, User
<1>3. key[u] \in Keys
  BY <1>2 DEF RedisTypes
<1>4. key[u].n \in Int /\ n \in Int
  BY <1>3 DEF Keys
<1>5. n > Limit <=> ~granted
  BY <1>4
<1>6. /\ call' = [call EXCEPT ![c] = p]
      /\ over' = [over EXCEPT ![c] = o]
      /\ late' = [late EXCEPT ![c] = FALSE]
      /\ passed' = [passed EXCEPT ![u] = IF p = "idle" THEN @ + 1 ELSE @]
  <2>1. CASE ~key[u].ttl
    BY <1>2, <1>5, <2>1 DEF IncrKey, Go, RedisTypes
  <2>2. CASE key[u].ttl /\ granted
    BY <1>2, <1>5, <2>2 DEF IncrKey, Decide, Return, Go, RedisTypes
  <2>3. CASE key[u].ttl /\ ~granted
    BY <1>2, <1>5, <2>3 DEF IncrKey, Decide, Return, Go, RedisTypes
  <2> QED BY <2>1, <2>2, <2>3
<1>7. key' = [key EXCEPT ![u] = [key[u] EXCEPT !.live = TRUE, !.n = n]] /\ debt' = debt
  BY <1>2 DEF IncrKey, RedisTypes
<1>8. LET r == [key[u] EXCEPT !.live = TRUE, !.n = n] IN r \in Keys /\ r.n = n
  BY <1>3, <1>4, KeyChanges
<1>9. RedisTypes' /\ key'[u].n = n
  <2>1. key' \in [Users -> Keys] /\ key'[u].n = n
    BY <1>2, <1>7, <1>8 DEF RedisTypes
  <2>2. p \in {"idle", "expire", "decr"} /\ o \in BOOLEAN
    OBVIOUS
  <2>3. call' \in [Calls -> {"idle", "expire", "decr"}] /\ over' \in [Calls -> BOOLEAN]
    BY <2>2, <1>2, <1>6 DEF RedisTypes
  <2>4. late' \in [Calls -> BOOLEAN] /\ passed' \in [Users -> Nat]
    BY <1>2, <1>6 DEF RedisTypes
  <2> QED BY <2>1, <2>3, <2>4, <1>2, <1>7 DEF RedisTypes
<1>10. s \notin Pending(u) /\ s \notin Granted(u)
  BY <1>1, <1>2 DEF Pending, Granted
<1>11. /\ Pending(u)' = IF p = "idle" THEN Pending(u) ELSE Pending(u) \cup {s}
      /\ Granted(u)' = IF p = "expire" /\ granted THEN Granted(u) \cup {s} ELSE Granted(u)
  <2>1. /\ Pending(u)' = IF p # "idle" /\ ~FALSE THEN Pending(u) \cup {s} ELSE Pending(u) \ {s}
        /\ Granted(u)' = IF p = "expire" /\ ~o /\ ~FALSE THEN Granted(u) \cup {s}
                                                      ELSE Granted(u) \ {s}
    BY <1>1, <1>2, <1>6, CallMoves
  <2>2. Pending(u) \ {s} = Pending(u) /\ Granted(u) \ {s} = Granted(u)
    BY <1>10
  <2>3. p = "expire" => (o <=> ~granted)
    OBVIOUS
  <2> QED BY <2>1, <2>2, <2>3
<1>12. /\ Cardinality(Pending(u)') = Cardinality(Pending(u)) + (IF p = "idle" THEN 0 ELSE 1)
      /\ Cardinality(Granted(u)')
            = Cardinality(Granted(u)) + (IF p = "expire" /\ granted THEN 1 ELSE 0)
  <2>1. /\ IsFiniteSet(Pending(u)) /\ Cardinality(Pending(u)) \in Nat
        /\ IsFiniteSet(Granted(u)) /\ Cardinality(Granted(u)) \in Nat
    BY CallSets
  <2>2. /\ Cardinality(Pending(u) \cup {s}) = Cardinality(Pending(u)) + 1
        /\ Cardinality(Granted(u) \cup {s}) = Cardinality(Granted(u)) + 1
    BY <1>10, <2>1, SizeChanges
  <2> QED BY <1>11, <2>1, <2>2
<1>13. /\ passed[u] \in Nat /\ passed'[u] = passed[u] + (IF p = "idle" THEN 1 ELSE 0)
      /\ debt[u] \in Nat /\ debt'[u] = debt[u] /\ key[u].n \in Int /\ key'[u].n = n
  BY <1>2, <1>6, <1>7, <1>9, <1>4 DEF RedisTypes
<1>14. Counted(u)'
  BY <1>2, <1>12, <1>13, CallSets DEF Counted
<1>15. Room(u)'
  BY <1>2, <1>12, <1>13, CallSets DEF Counted, Room
<1> QED
  BY <1>1, <1>2, <1>6, <1>7, <1>9, <1>14, <1>15, OneUser DEF RedisTypes

\* EXPIRE: the admitted call moves from the granted to the passed ones.
LEMMA ExpireStep ==
    ASSUME WindowInv, NEW c \in Calls, ExpireKey(c)
    PROVE  WindowInv'
<1>1. PICK u \in Users, s \in Slots : c = <<u, s>>
  BY DEF Calls
<1> DEFINE p == IF over[c] THEN "decr" ELSE "idle"
           l == over[c] /\ late[c]
           leaves == ~over[c] /\ ~late[c]
<1>2. RedisTypes /\ call[c] = "expire" /\ Counted(u) /\ Room(u) /\ over[c] \in BOOLEAN
        /\ late[c] \in BOOLEAN /\ User(c) = u
  BY <1>1 DEF WindowInv, ExpireKey, RedisTypes, User
<1>3. /\ call' = [call EXCEPT ![c] = p]
      /\ over' = [over EXCEPT ![c] = over[c]]
      /\ late' = [late EXCEPT ![c] = l]
      /\ passed' = [passed EXCEPT ![u] = IF leaves THEN @ + 1 ELSE @]
  <2>1. CASE over[c]
    BY <1>2, <2>1 DEF ExpireKey, Decide, Go, RedisTypes
  <2>2. CASE ~over[c]
    BY <1>2, <2>2 DEF ExpireKey, Decide, Return, Go, RedisTypes
  <2> QED BY <2>1, <2>2
<1>4. key' = [key EXCEPT ![u] = [key[u] EXCEPT !.ttl = key[u].live]] /\ debt' = debt
  BY <1>2 DEF ExpireKey, RedisTypes
<1>5. key[u] \in Keys
  BY <1>2 DEF RedisTypes
<1>6. key[u].n \in Int /\ key[u].live \in BOOLEAN
  BY <1>5, KeyChanges
<1>7. LET r == [key[u] EXCEPT !.ttl = key[u].live] IN r \in Keys /\ r.n = key[u].n
  BY <1>5, <1>6, KeyChanges
<1>8. RedisTypes' /\ key'[u].n = key[u].n
  <2>1. key' \in [Users -> Keys] /\ key'[u].n = key[u].n
    BY <1>2, <1>4, <1>7 DEF RedisTypes
  <2> QED BY <2>1, <1>2, <1>3, <1>4 DEF RedisTypes
<1>9. /\ s \in Pending(u) <=> ~late[c]
      /\ s \in Granted(u) <=> leaves
  BY <1>1, <1>2 DEF Pending, Granted
<1>10. /\ Pending(u)' = IF leaves THEN Pending(u) \ {s} ELSE Pending(u)
      /\ Granted(u)' = IF leaves THEN Granted(u) \ {s} ELSE Granted(u)
  <2>1. \A S, e : (e \notin S => S \ {e} = S) /\ (e \in S => S \cup {e} = S)
    OBVIOUS
  <2>2. /\ Pending(u)' = IF p # "idle" /\ ~l THEN Pending(u) \cup {s} ELSE Pending(u) \ {s}
        /\ Granted(u)' = Granted(u) \ {s}
    BY <1>1, <1>2, <1>3, CallMoves
  <2>3. CASE over[c]
    BY <1>9, <2>1, <2>2, <2>3
  <2>4. CASE ~over[c]
    BY <1>9, <2>1, <2>2, <2>4
  <2> QED BY <2>3, <2>4
<1>11. /\ Cardinality(Pending(u)') = Cardinality(Pending(u)) - (IF leaves THEN 1 ELSE 0)
      /\ Cardinality(Granted(u)') = Cardinality(Granted(u)) - (IF leaves THEN 1 ELSE 0)
  <2>1. /\ IsFiniteSet(Pending(u)) /\ Cardinality(Pending(u)) \in Nat
        /\ IsFiniteSet(Granted(u)) /\ Cardinality(Granted(u)) \in Nat
    BY CallSets
  <2>2. CASE leaves
    <3>1. s \in Pending(u) /\ s \in Granted(u)
      BY <1>9, <2>2
    <3>2. /\ Cardinality(Pending(u) \ {s}) = Cardinality(Pending(u)) - 1
          /\ Cardinality(Granted(u) \ {s}) = Cardinality(Granted(u)) - 1
      BY <2>1, <3>1, SizeChanges
    <3> QED BY <1>10, <2>2, <3>2
  <2>3. CASE ~leaves
    BY <1>10, <2>1, <2>3
  <2> QED BY <2>2, <2>3
<1>12. /\ passed[u] \in Nat /\ passed'[u] = passed[u] + (IF leaves THEN 1 ELSE 0)
      /\ debt[u] \in Nat /\ debt'[u] = debt[u] /\ key[u].n \in Int /\ key'[u].n = key[u].n
  BY <1>2, <1>3, <1>4, <1>8, <1>6 DEF RedisTypes
<1>13. Counted(u)' /\ Room(u)'
  BY <1>2, <1>11, <1>12, CallSets DEF Counted, Room
<1> QED
  BY <1>1, <1>2, <1>3, <1>4, <1>8, <1>13, OneUser DEF RedisTypes

\* DECR: it takes back its own count, or counts as a debt.
LEMMA DecrStep ==
    ASSUME WindowInv, NEW c \in Calls, DecrKey(c)
    PROVE  WindowInv'
<1>1. PICK u \in Users, s \in Slots : c = <<u, s>>
  BY DEF Calls
<1>2. RedisTypes /\ call[c] = "decr" /\ Counted(u) /\ Room(u) /\ late[c] \in BOOLEAN
        /\ User(c) = u
  BY <1>1 DEF WindowInv, DecrKey, RedisTypes, User
<1>3. key[u] \in Keys
  BY <1>2 DEF RedisTypes
<1>4. key[u].n \in Int /\ key[u].n - 1 \in Int
  BY <1>3 DEF Keys
<1>5. LET r == [key[u] EXCEPT !.live = TRUE, !.n = key[u].n - 1]
      IN  r \in Keys /\ r.n = key[u].n - 1
  BY <1>3, <1>4, KeyChanges
<1>6. /\ call' = [call EXCEPT ![c] = "idle"]
      /\ over' = [over EXCEPT ![c] = FALSE]
      /\ late' = [late EXCEPT ![c] = FALSE]
      /\ key' = [key EXCEPT ![u] = [key[u] EXCEPT !.live = TRUE, !.n = key[u].n - 1]]
      /\ debt' = [debt EXCEPT ![u] = IF late[c] THEN @ + 1 ELSE @]
      /\ passed' = passed
  <2>1. key' = [key EXCEPT ![u] = [key[u] EXCEPT !.live = TRUE, !.n = key[u].n - 1]]
    BY <1>2 DEF DecrKey
  <2> QED BY <1>2, <2>1 DEF DecrKey, Return, Go, RedisTypes
<1>7. RedisTypes' /\ key'[u].n = key[u].n - 1
  <2>1. key' \in [Users -> Keys] /\ key'[u].n = key[u].n - 1
    BY <1>2, <1>6, <1>5 DEF RedisTypes
  <2>2. debt' \in [Users -> Nat]
    BY <1>2, <1>6 DEF RedisTypes
  <2> QED BY <2>1, <2>2, <1>2, <1>6 DEF RedisTypes
<1>8. (s \in Pending(u) <=> ~late[c]) /\ s \notin Granted(u)
  BY <1>1, <1>2 DEF Pending, Granted
<1>9. /\ Pending(u)' = Pending(u) \ {s}
      /\ Granted(u)' = Granted(u) \ {s}
  BY <1>1, <1>2, <1>6, CallMoves
<1>10. /\ Cardinality(Pending(u)') = Cardinality(Pending(u)) - (IF late[c] THEN 0 ELSE 1)
      /\ Cardinality(Granted(u)') = Cardinality(Granted(u))
  <2>1. CASE late[c]
    <3>1. Pending(u)' = Pending(u) /\ Granted(u)' = Granted(u)
      BY <1>8, <1>9, <2>1
    <3> QED BY <2>1, <3>1, CallSets
  <2>2. CASE ~late[c]
    <3>1. Granted(u)' = Granted(u) /\ s \in Pending(u)
      BY <1>8, <1>9, <2>2
    <3>2. IsFiniteSet(Pending(u))
      BY CallSets
    <3>3. Cardinality(Pending(u) \ {s}) = Cardinality(Pending(u)) - 1
      BY <3>1, <3>2, SizeChanges
    <3>4. Cardinality(Pending(u)') = Cardinality(Pending(u)) - 1
      BY <1>9, <3>3
    <3> QED BY <2>2, <3>1, <3>4
  <2> QED BY <1>2, <2>1, <2>2
<1>11. /\ passed[u] \in Nat /\ passed'[u] = passed[u] /\ debt[u] \in Nat
      /\ debt'[u] = debt[u] + (IF late[c] THEN 1 ELSE 0)
      /\ key[u].n \in Int /\ key'[u].n = key[u].n - 1
  BY <1>2, <1>6, <1>7, <1>4 DEF RedisTypes
<1>12. Counted(u)' /\ Room(u)'
  BY <1>2, <1>10, <1>11, CallSets DEF Counted, Room
<1> QED
  BY <1>1, <1>2, <1>6, <1>7, <1>12, OneUser DEF RedisTypes

\* A failed command ends the call; what it counted stays.
LEMMA FallbackStep ==
    ASSUME WindowInv, NEW c \in Calls, Fallback(c)
    PROVE  WindowInv'
<1>1. PICK u \in Users, s \in Slots : c = <<u, s>>
  BY DEF Calls
<1>2. RedisTypes /\ Counted(u) /\ Room(u)
  BY DEF WindowInv
<1>3. /\ call' = [call EXCEPT ![c] = "idle"]
      /\ over' = [over EXCEPT ![c] = FALSE]
      /\ late' = [late EXCEPT ![c] = FALSE]
      /\ UNCHANGED <<key, passed, debt>>
  BY DEF Fallback, Return, Go, redisVars
<1>4. RedisTypes'
  BY <1>2, <1>3 DEF RedisTypes
<1>5. Pending(u)' = Pending(u) \ {s} /\ Granted(u)' = Granted(u) \ {s}
  BY <1>1, <1>2, <1>3, CallMoves
<1>6. /\ Cardinality(Pending(u)') <= Cardinality(Pending(u)) /\ Cardinality(Pending(u)') \in Nat
      /\ Cardinality(Granted(u)') <= Cardinality(Granted(u)) /\ Cardinality(Granted(u)') \in Nat
  BY <1>5, CallSets, SizeChanges
<1>7. passed[u] \in Nat /\ debt[u] \in Nat /\ key[u].n \in Int
  <2>1. key[u] \in Keys
    BY <1>2 DEF RedisTypes
  <2> QED BY <1>2, <2>1, KeyChanges DEF RedisTypes
<1>8. Counted(u)' /\ Room(u)'
  BY <1>2, <1>3, <1>6, <1>7, CallSets DEF Counted, Room
<1> QED
  BY <1>1, <1>2, <1>3, <1>4, <1>8, OneUser DEF RedisTypes

\* The window ends: no call that is on counts for the next one.
LEMMA ExpiryStep ==
    ASSUME WindowInv, NEW u \in Users, KeyExpires(u)
    PROVE  WindowInv'
<1>1. RedisTypes'
  <2>1. key' \in [Users -> Keys]
    BY DEF WindowInv, RedisTypes, KeyExpires, Absent, Keys
  <2>2. late' \in [Calls -> BOOLEAN]
    BY DEF WindowInv, RedisTypes, KeyExpires
  <2> QED BY <2>1, <2>2 DEF WindowInv, RedisTypes, KeyExpires
<1>2. \A v \in Users, s \in Slots : <<v, s>> \in Calls /\ User(<<v, s>>) = v
  BY DEF Calls, User
<1>3. Pending(u)' = {} /\ Granted(u)' = {}
  BY <1>2 DEF KeyExpires, Pending, Granted
<1>4. Cardinality(Pending(u)') = 0 /\ Cardinality(Granted(u)') = 0
  BY <1>3, FS_EmptySet
<1>5. passed'[u] = 0 /\ debt'[u] = 0 /\ key'[u].n = 0
  BY DEF WindowInv, RedisTypes, KeyExpires, Absent
<1>6. Counted(u)' /\ Room(u)'
  BY <1>4, <1>5 DEF Counted, Room
<1>7. \A v \in Users \ {u} : Counted(v)' /\ Room(v)'
  <2> SUFFICES ASSUME NEW v \in Users \ {u} PROVE Counted(v)' /\ Room(v)'
    OBVIOUS
  <2>1. Pending(v)' = Pending(v) /\ Granted(v)' = Granted(v)
    <3>1. \A s \in Slots : late'[<<v, s>>] = late[<<v, s>>] /\ call' = call /\ over' = over
      BY <1>2 DEF KeyExpires, WindowInv, RedisTypes
    <3> QED BY <3>1 DEF Pending, Granted
  <2>2. passed'[v] = passed[v] /\ debt'[v] = debt[v] /\ key'[v] = key[v]
    BY DEF KeyExpires, WindowInv, RedisTypes
  <2> QED BY <2>1, <2>2 DEF WindowInv, Counted, Room
<1>8. \A c \in Calls : call'[c] = "idle" => ~late'[c]
  BY DEF KeyExpires, WindowInv
<1> QED BY <1>1, <1>6, <1>7, <1>8 DEF WindowInv

\* Every step keeps the two inequalities.
LEMMA WindowStep == WindowInv /\ [RateNext]_rateVars => WindowInv'
<1> SUFFICES ASSUME WindowInv, [RateNext]_rateVars PROVE WindowInv'
  OBVIOUS
<1>1. ASSUME NEW c \in Calls, Command(c) \/ Fallback(c) PROVE WindowInv'
  BY <1>1, IncrStep, ExpireStep, DecrStep, FallbackStep DEF Command
<1>2. ASSUME NEW u \in Users, KeyExpires(u) PROVE WindowInv'
  BY <1>2, ExpiryStep
<1>3. ASSUME UNCHANGED <<redisVars, callVars>> PROVE WindowInv'
  BY <1>3 DEF redisVars, callVars, WindowInv, RedisTypes, Counted, Room, Pending, Granted
<1>4. ASSUME NEW u \in Users, BucketElapses(u) PROVE WindowInv'
  BY <1>3, <1>4 DEF BucketElapses
<1>5. CASE UNCHANGED rateVars
  BY <1>3, <1>5 DEF rateVars, redisVars, callVars
<1> QED BY <1>1, <1>2, <1>4, <1>5 DEF RateNext

\* At the start no call is on and nothing is counted.
LEMMA WindowInit == RateInit => WindowInv
<1> SUFFICES ASSUME RateInit PROVE WindowInv
  OBVIOUS
<1>1. RedisTypes
  BY DEF RateInit, RedisTypes, Absent, Keys
<1>2. \A v \in Users, s \in Slots : <<v, s>> \in Calls
  BY DEF Calls
<1>3. \A u \in Users : Pending(u) = {} /\ Granted(u) = {}
  BY <1>2 DEF RateInit, Pending, Granted
<1>4. \A u \in Users : Cardinality(Pending(u)) = 0 /\ Cardinality(Granted(u)) = 0
  BY <1>3, FS_EmptySet
<1>5. \A u \in Users : passed[u] = 0 /\ debt[u] = 0 /\ key[u].n = 0
  BY DEF RateInit, Absent
<1>6. \A u \in Users : Counted(u) /\ Room(u)
  BY <1>4, <1>5 DEF Counted, Room
<1> QED BY <1>1, <1>6 DEF RateInit, WindowInv

\* WindowWithinLimit for every number of calls: check_rpm never admits more
\* calls in one life of its key than the limit and the late DECRs allow,
\* although the key expires between commands and commands are lost.
THEOREM WindowsWithinLimit == RateSpec => []WindowWithinLimit
<1>1. WindowInv => WindowWithinLimit
  BY CallSets DEF WindowInv, RedisTypes, Room, WindowWithinLimit
<1> QED BY <1>1, WindowInit, WindowStep, PTL DEF RateSpec

-----------------------------------------------------------------------------
(* The buckets of the in-process limiter.                                  *)

Buckets(k) == [n : 0 .. Limit, old : BOOLEAN, place : 0 .. k]

\* No two buckets of b have the same place, and the last place is k.
Ranked(b, k) ==
    /\ b \in [Users -> Buckets(k)]
    /\ \A u, v \in Users : b[u].place = b[v].place /\ b[u].place > 0 => u = v

\* Ranked buckets are no more than their places.
LEMMA RankedFew ==
    ASSUME NEW b, NEW k \in Nat, Ranked(b, k), NEW S, S \subseteq {u \in Users : b[u].place > 0}
    PROVE  IsFiniteSet(S) /\ Cardinality(S) <= k
<1> DEFINE f == [u \in S |-> b[u].place]
<1>1. f \in Injection(S, 1 .. k)
  <2>1. \A u \in S : b[u].place \in 1 .. k
    BY DEF Ranked, Buckets
  <2> QED BY <2>1 DEF Ranked, Injection, IsInjective
<1>2. IsFiniteSet(1 .. k) /\ Cardinality(1 .. k) = k
  BY FS_Interval
<1> HIDE DEF f
<1> QED BY <1>1, <1>2, FS_Injection

\* A bucket that is used moves to the front: no bucket is moved further back
\* than by the place that it needs.
LEMMA TouchRanked ==
    ASSUME Ranked(buckets, MaxKeys), NEW u \in Users, NEW n \in 0 .. Limit
    PROVE  /\ Ranked(Touch(u, n), MaxKeys + 1)
           /\ buckets[u].place > 0 => Ranked(Touch(u, n), MaxKeys)
<1> DEFINE p(v) == buckets[v].place
           shifted(v) == p(v) > 0 /\ (p(u) = 0 \/ p(v) < p(u))
           q(v) == IF v = u THEN 1 ELSE IF shifted(v) THEN p(v) + 1 ELSE p(v)
           t == Touch(u, n)
           last == IF p(u) > 0 THEN MaxKeys ELSE MaxKeys + 1
<1>1. \A v \in Users : buckets[v] \in Buckets(MaxKeys) /\ p(v) \in 0 .. MaxKeys
  BY DEF Ranked, Buckets
<1>2. \A v \in Users : q(v) \in 0 .. last
  BY <1>1
<1>3. ASSUME NEW v \in Users
      PROVE  t[v] \in Buckets(last) /\ t[v].place = q(v)
  <2>1. t[v] = IF v = u THEN [n |-> n, old |-> FALSE, place |-> 1]
               ELSE IF shifted(v) THEN [buckets[v] EXCEPT !.place = @ + 1] ELSE buckets[v]
    BY DEF Touch, Held
  <2>2. buckets[v] \in Buckets(MaxKeys) /\ q(v) \in 0 .. last
    BY <1>1, <1>2
  <2>3. CASE v = u
    BY <2>1, <2>2, <2>3 DEF Buckets
  <2>4. CASE v # u /\ shifted(v)
    <3>1. t[v] = [buckets[v] EXCEPT !.place = p(v) + 1]
      BY <2>1, <2>4
    <3> QED BY <2>2, <2>4, <3>1 DEF Buckets
  <2>5. CASE v # u /\ ~shifted(v)
    BY <2>1, <2>2, <2>5 DEF Buckets
  <2> QED BY <2>3, <2>4, <2>5
<1>4. ASSUME NEW v \in Users, NEW w \in Users, q(v) = q(w), q(v) > 0
      PROVE  v = w
  <2>1. p(v) = p(w) /\ p(v) > 0 => v = w
    BY DEF Ranked
  <2>2. p(v) = p(u) /\ p(v) > 0 => v = u
    BY DEF Ranked
  <2>3. p(w) = p(u) /\ p(w) > 0 => w = u
    BY DEF Ranked
  <2>4. p(u) \in 0 .. MaxKeys /\ p(v) \in 0 .. MaxKeys /\ p(w) \in 0 .. MaxKeys
    BY <1>1
  <2> HIDE DEF p
  <2> QED BY <1>4, <2>1, <2>2, <2>3, <2>4
<1>5. t = [v \in Users |-> t[v]]
  BY DEF Touch
<1> HIDE DEF t, q
<1>6. t \in [Users -> Buckets(last)]
  BY <1>3, <1>5
<1>7. Ranked(t, last)
  BY <1>3, <1>4, <1>6 DEF Ranked
<1>8. Ranked(t, MaxKeys + 1)
  <2>1. 0 .. MaxKeys \subseteq 0 .. (MaxKeys + 1)
    OBVIOUS
  <2>2. Buckets(MaxKeys) \subseteq Buckets(MaxKeys + 1)
    BY <2>1 DEF Buckets
  <2> QED BY <1>7, <2>2 DEF Ranked
<1> QED BY <1>7, <1>8 DEF t

\* Pruning leaves the buckets ranked and none beyond the limit.
LEMMA PruneRanked ==
    ASSUME NEW b, NEW k \in Nat, Ranked(b, k)
    PROVE  Ranked(Prune(b), MaxKeys)
<1> DEFINE fresh == {u \in Users : b[u].place > 0 /\ ~b[u].old}
           upTo(u) == {v \in fresh : b[v].place <= b[u].place}
           Place(u) == Cardinality(upTo(u))
           r == Prune(b)
<1>1. ASSUME NEW u \in fresh
      PROVE  IsFiniteSet(upTo(u)) /\ Place(u) \in Nat /\ Place(u) > 0
  <2>1. upTo(u) \subseteq {v \in Users : b[v].place > 0} /\ u \in upTo(u)
    BY DEF Ranked, Buckets
  <2> HIDE DEF upTo
  <2>2. IsFiniteSet(upTo(u))
    BY <2>1, RankedFew
  <2>3. Place(u) \in Nat /\ (Place(u) = 0 => upTo(u) = {})
    BY <2>2, FS_CardinalityType, FS_EmptySet
  <2> QED BY <2>1, <2>2, <2>3
<1>2. ASSUME NEW u \in fresh, NEW v \in fresh, b[u].place < b[v].place
      PROVE  Place(u) < Place(v)
  <2>1. v \in upTo(v) /\ upTo(u) \in SUBSET (upTo(v) \ {v})
    BY <1>2 DEF Ranked, Buckets
  <2>2. IsFiniteSet(upTo(v)) /\ Place(v) \in Nat
    BY <1>1
  <2>3. Place(u) \in Nat
    BY <1>1
  <2> HIDE DEF upTo
  <2>4. IsFiniteSet(upTo(v) \ {v}) /\ Cardinality(upTo(v) \ {v}) = Place(v) - 1
    BY <2>1, <2>2, FS_RemoveElement
  <2>5. Place(u) <= Place(v) - 1
    BY <2>1, <2>4, FS_Subset
  <2> QED BY <2>2, <2>3, <2>5
<1>3. ASSUME NEW u \in Users
      PROVE  /\ r[u] \in Buckets(MaxKeys)
             /\ r[u].place > 0 => u \in fresh /\ r[u].place = Place(u)
  <2>1. r[u] = IF u \in fresh /\ Place(u) <= MaxKeys
                 THEN [b[u] EXCEPT !.place = Place(u)] ELSE NoBucket
    BY DEF Prune
  <2>2. b[u] \in Buckets(k)
    BY DEF Ranked
  <2>3. CASE u \in fresh /\ Place(u) <= MaxKeys
    <3>1. Place(u) \in 0 .. MaxKeys
      BY <1>1, <2>3
    <3> HIDE DEF Place
    <3> QED BY <2>1, <2>2, <2>3, <3>1 DEF Buckets
  <2>4. CASE ~(u \in fresh /\ Place(u) <= MaxKeys)
    BY <2>1, <2>4 DEF NoBucket, Buckets
  <2> QED BY <2>3, <2>4
<1>4. ASSUME NEW u \in Users, NEW v \in Users, r[u].place = r[v].place, r[u].place > 0
      PROVE  u = v
  <2>1. u \in fresh /\ v \in fresh /\ Place(u) = Place(v) /\ Place(u) \in Nat
    BY <1>1, <1>3, <1>4
  <2>2. b[u].place \in Nat /\ b[v].place \in Nat /\ b[u].place > 0
    BY <2>1 DEF Ranked, Buckets
  <2>3. ~(b[u].place < b[v].place) /\ ~(b[v].place < b[u].place)
    <3> HIDE DEF Place, fresh
    <3> QED BY <1>2, <2>1
  <2> QED BY <2>2, <2>3 DEF Ranked
<1>5. r = [u \in Users |-> r[u]]
  BY DEF Prune
<1> HIDE DEF r
<1> QED BY <1>3, <1>4, <1>5 DEF Ranked, r

\* Whatever it answers, the limiter stays within its size limit.
LEMMA CheckRanked ==
    ASSUME Ranked(buckets, MaxKeys), NEW u \in Users
    PROVE  Ranked(Check(u), MaxKeys)
<1> DEFINE e == buckets[u]
<1>1. e \in Buckets(MaxKeys)
  BY DEF Ranked
<1>2. e.n \in 0 .. Limit /\ e.place \in 0 .. MaxKeys /\ e.old \in BOOLEAN
  BY <1>1 DEF Buckets
<1>3. CASE e.place = 0 \/ e.old
  <2>1. Ranked(Touch(u, 1), MaxKeys + 1)
    BY TouchRanked
  <2>2. Ranked(Prune(Touch(u, 1)), MaxKeys)
    BY <2>1, PruneRanked
  <2> QED BY <1>2, <1>3, <2>2 DEF Check
<1>4. CASE e.place > 0 /\ ~e.old /\ e.n >= Limit
  BY <1>2, <1>4, TouchRanked DEF Check
<1>5. CASE e.place > 0 /\ ~e.old /\ e.n < Limit
  <2>1. e.n + 1 \in 0 .. Limit
    BY <1>2, <1>5
  <2>2. Ranked(Touch(u, e.n + 1), MaxKeys)
    BY <1>5, <2>1, TouchRanked
  <2> QED BY <1>2, <1>5, <2>2 DEF Check
<1> QED BY <1>2, <1>3, <1>4, <1>5

\* Every step keeps the buckets ranked.
LEMMA BucketsStep == Ranked(buckets, MaxKeys) /\ [RateNext]_rateVars => Ranked(buckets, MaxKeys)'
<1> SUFFICES ASSUME Ranked(buckets, MaxKeys), [RateNext]_rateVars PROVE Ranked(buckets', MaxKeys)
  BY DEF Ranked, Buckets
<1>1. ASSUME NEW c \in Calls, Fallback(c) PROVE Ranked(buckets', MaxKeys)
  <2>1. User(c) \in Users
    BY DEF Calls, User
  <2> QED BY <1>1, <2>1, CheckRanked DEF Fallback
<1>2. ASSUME NEW u \in Users, BucketElapses(u) PROVE Ranked(buckets', MaxKeys)
  <2>1. buckets[u] \in Buckets(MaxKeys)
    BY DEF Ranked
  <2> DEFINE e == [buckets[u] EXCEPT !.old = TRUE]
  <2>2. e \in Buckets(MaxKeys) /\ e.place = buckets[u].place
    BY <2>1 DEF Buckets
  <2>3. buckets' = [buckets EXCEPT ![u] = e]
    BY <1>2 DEF BucketElapses, Ranked
  <2> HIDE DEF e
  <2>4. \A v \in Users : buckets'[v].place = buckets[v].place
    BY <2>2, <2>3 DEF Ranked
  <2>5. buckets' \in [Users -> Buckets(MaxKeys)]
    BY <2>2, <2>3 DEF Ranked
  <2> QED BY <2>4, <2>5 DEF Ranked
<1>3. ASSUME buckets' = buckets PROVE Ranked(buckets', MaxKeys)
  BY <1>3
<1>4. ASSUME NEW c \in Calls, Command(c) PROVE buckets' = buckets
  BY <1>4 DEF Command, IncrKey, ExpireKey, DecrKey
<1>5. ASSUME NEW u \in Users, KeyExpires(u) PROVE buckets' = buckets
  BY <1>5 DEF KeyExpires
<1>6. CASE UNCHANGED rateVars
  BY <1>3, <1>6 DEF rateVars
<1> QED BY <1>1, <1>2, <1>3, <1>4, <1>5, <1>6 DEF RateNext

\* RateTypeOK for any number of users, calls and failing commands: the in-process
\* limiter, which answers for Redis, never tracks more than _max_keys users,
\* although only a call that opens a window prunes.
THEOREM RateTypes == RateSpec => []RateTypeOK
<1>1. RateInit => Ranked(buckets, MaxKeys)
  <2>1. NoBucket \in Buckets(MaxKeys) /\ NoBucket.place = 0
    BY DEF NoBucket, Buckets
  <2> QED BY <2>1 DEF RateInit, Ranked
<1>2. WindowInv /\ Ranked(buckets, MaxKeys) => RateTypeOK
  <2> SUFFICES ASSUME WindowInv, Ranked(buckets, MaxKeys) PROVE RateTypeOK
    OBVIOUS
  <2>1. IsFiniteSet(Held) /\ Cardinality(Held) <= MaxKeys
    BY RankedFew DEF Held
  <2> QED BY <2>1 DEF RateTypeOK, WindowInv, RedisTypes, Keys, Ranked, Buckets
<1> QED BY <1>1, <1>2, WindowInit, WindowStep, BucketsStep, PTL DEF RateSpec

-----------------------------------------------------------------------------
(* The token ledger.                                                       *)

USE QuotaAssumption DEF QuotaAssumption, Requests

Rows(n) == [period : 1 .. n, used : Int, life : Nat]
Loaded == [used : Int, life : Nat]
Labels == Busy \cup {"new", "refused", "done"}
Tokens == Int \cup {NoKey}
Snaps(n) == {Idle} \cup [used : Int, was : Tokens, period : 0 .. n, seeding : BOOLEAN]

\* TypeOK with the types of what requests and loops remember; what is being
\* copied is of a period that has begun.
LedgerTypes ==
    /\ now \in Nat
    /\ row \in Rows(now)
    /\ tok \in Tokens
    /\ pc \in [Requests -> Labels]
    /\ lock \in Requests \cup {NoOne}
    /\ seen \in [Requests -> Loaded]
    /\ snap \in [Processes -> Snaps(now)]
    /\ paid \in [Requests -> 0 .. now]
    /\ back \subseteq Requests
    /\ clean \in BOOLEAN
    /\ lost \in Nat

\* The row is held by the request that resets it.
Holding ==
    /\ lock # NoOne => pc[lock] \in {"key", "test"}
    /\ \A r \in Requests : pc[r] = "key" => lock = r

\* A request is charged once, and a video job gives back only what it reserved.
ChargedOnce ==
    \A r \in Requests :
       /\ pc[r] \in {"new", "reset", "key", "test", "run", "refused"} => paid[r] = 0
       /\ pc[r] \in {"incr", "rendering", "refund"} => paid[r] > 0 /\ r \notin back
       /\ pc[r] \in {"rendering", "refund"} => r \in Videos
       /\ r \in back => paid[r] > 0

\* The requests of the row's period that the Redis counter should have counted.
Booked == {r \in Requests : paid[r] = row.period /\ r \notin back /\ pc[r] # "incr"}

\* While nothing happened that clean rules out: nobody seeds, nothing is charged
\* to a later period than the row's, what is still to be counted is of the row's
\* period, and a reset finds nobody with something to count or to give back.
InPeriod ==
    /\ \A w \in Processes : ~snap[w].seeding
    /\ \A r \in Requests : paid[r] <= row.period
    /\ \A r \in Requests : pc[r] = "incr" => paid[r] = row.period
    /\ lock # NoOne =>
          /\ row.period < now
          /\ \A r \in Requests \ {lock} : pc[r] \notin {"key", "incr", "rendering", "refund"}

\* The key is gone while the reset it belongs to is not committed; else it holds
\* what was booked.
Counter ==
    IF lock # NoOne /\ pc[lock] = "test"
      THEN tok = NoKey
      ELSE (IF tok = NoKey THEN 0 ELSE tok) = Cardinality(Booked)

LedgerInv ==
    /\ LedgerTypes /\ Holding /\ ChargedOnce
    /\ clean => InPeriod /\ Counter

-----------------------------------------------------------------------------
\* What a command of Redis leaves in the counter.
LEMMA CommandTypes ==
    ASSUME LedgerTypes, NEW r \in Requests, NEW v \in Tokens, Redis(r, v)
    PROVE  tok' \in Tokens /\ lost' \in Nat
  BY DEF LedgerTypes, Redis

\* A counter that is added to is a number.
LEMMA PlusType ==
    ASSUME tok \in Tokens, NEW n \in Int
    PROVE  Plus(n) \in Int
  BY DEF Plus, Tokens

\* A row whose two counters are written.
LEMMA RowEdit ==
    ASSUME NEW P, NEW q \in [period : P, used : Int, life : Nat], NEW l \in Nat, NEW n \in Int
    PROVE  /\ [q EXCEPT !.life = l, !.used = n] \in [period : P, used : Int, life : Nat]
           /\ [q EXCEPT !.life = l, !.used = n].period = q.period
           /\ [q EXCEPT !.life = l, !.used = n].life = l
  OBVIOUS

\* The row after a commit, after a charge and after a refund is a row.
LEMMA RowChanges ==
    ASSUME LedgerTypes, NEW r \in Requests
    PROVE  /\ Committed(r) \in Rows(now)
           /\ Committed(r).period = IF lock = r THEN now ELSE row.period
           /\ Committed(r).life = row.life
           /\ \A q \in Rows(now) : /\ Charged(r, q) \in Rows(now)
                                   /\ Charged(r, q).period = q.period
                                   /\ Charged(r, q).life = q.life + 1
<1>1. row \in Rows(now) /\ now \in Nat
  BY DEF LedgerTypes
<1>2. row.period \in 1 .. now /\ row.used \in Int /\ row.life \in Nat
  BY <1>1 DEF Rows
<1> DEFINE used == IF seen[r].used = 0 THEN row.used ELSE 0
<1>3. used \in Int /\ now \in 1 .. now
  BY <1>1, <1>2
<1>4. Committed(r) = IF lock = r THEN [row EXCEPT !.period = now, !.used = used] ELSE row
  BY DEF Committed
<1> HIDE DEF used
<1>5. /\ Committed(r) \in Rows(now) /\ Committed(r).life = row.life
      /\ Committed(r).period = IF lock = r THEN now ELSE row.period
  BY <1>1, <1>3, <1>4 DEF Rows
<1>6. ASSUME NEW q \in Rows(now)
      PROVE  /\ Charged(r, q) \in Rows(now) /\ Charged(r, q).period = q.period
             /\ Charged(r, q).life = q.life + 1
  <2> DEFINE l == q.life + 1
             n == IF r \in Offline THEN q.used + 1 ELSE q.used
  <2>1. q.period \in 1 .. now /\ l \in Nat /\ n \in Int
    BY DEF Rows
  <2>2. Charged(r, q) = [q EXCEPT !.life = l, !.used = n]
    BY DEF Charged, Rows
  <2> HIDE DEF l, n
  <2>3. q \in [period : 1 .. now, used : Int, life : Nat]
    BY DEF Rows
  <2> QED BY <2>1, <2>2, <2>3, RowEdit DEF Rows, l
<1> QED BY <1>5, <1>6

\* Nothing else is touched by r's step to another label.
LEMMA LabelTypes ==
    ASSUME LedgerTypes, NEW r \in Requests, NEW l \in Labels, Goto(r, l)
    PROVE  /\ pc' \in [Requests -> Labels]
           /\ \A q \in Requests : pc'[q] = IF q = r THEN l ELSE pc[q]
  BY DEF LedgerTypes, Goto

\* A request that loads the row, or forgets what it loaded.
LEMMA SeenTypes ==
    ASSUME LedgerTypes, NEW r \in Requests, NEW v \in Loaded, seen' = [seen EXCEPT ![r] = v]
    PROVE  seen' \in [Requests -> Loaded]
  BY DEF LedgerTypes

\* The steps of a request keep the types.
LEMMA StepTypes ==
    ASSUME LedgerTypes, NEW r \in Requests, Step(r)
    PROVE  LedgerTypes'
<1> USE DEF histVars
<1>1. row \in Rows(now) /\ row.used \in Int /\ row.life \in Nat /\ row.period \in 1 .. now
  BY DEF LedgerTypes, Rows
<1>2. /\ Nothing \in Loaded
      /\ [Nothing EXCEPT !.used = row.used] \in Loaded
      /\ [used |-> row.used, life |-> row.life] \in Loaded
  BY <1>1 DEF Nothing, Loaded
<1>3. NoKey \in Tokens /\ Plus(1) \in Tokens /\ Plus(-1) \in Tokens
  BY PlusType DEF LedgerTypes, Tokens
<1>4. Busy \cup {"new", "refused", "done"} \subseteq Labels
  BY DEF Labels
<1>5. CASE Load(r)
  <2>1. seen' \in [Requests -> Loaded]
    BY <1>2, <1>5, SeenTypes DEF Load
  <2>2. pc' \in [Requests -> Labels]
    BY <1>4, <1>5, LabelTypes DEF Load, Busy
  <2> QED BY <1>5, <2>1, <2>2 DEF Load, LedgerTypes
<1>6. CASE Reset(r)
  <2>1. pc' \in [Requests -> Labels]
    BY <1>4, <1>6, LabelTypes DEF Reset, Busy
  <2>2. clean' \in BOOLEAN
    BY <1>6 DEF Reset
  <2> QED BY <1>6, <2>1, <2>2 DEF Reset, LedgerTypes
<1>7. CASE ResetTokens(r)
  <2>1. pc' \in [Requests -> Labels]
    BY <1>4, <1>7, LabelTypes DEF ResetTokens, Busy
  <2>2. tok' \in Tokens /\ lost' \in Nat
    BY <1>3, <1>7, CommandTypes DEF ResetTokens
  <2>3. clean' \in BOOLEAN
    BY <1>7 DEF ResetTokens
  <2> QED BY <1>7, <2>1, <2>2, <2>3 DEF ResetTokens, LedgerTypes
<1>8. lock' = (IF lock = r THEN NoOne ELSE lock) => lock' \in Requests \cup {NoOne}
  BY DEF LedgerTypes
<1>9. CASE Refuse(r)
  <2>1. pc' \in [Requests -> Labels]
    BY <1>4, <1>9, LabelTypes DEF Refuse, Busy
  <2>2. seen' \in [Requests -> Loaded]
    BY <1>2, <1>9, SeenTypes DEF Refuse, Drop
  <2>3. clean' \in BOOLEAN /\ lock' \in Requests \cup {NoOne}
    BY <1>8, <1>9 DEF Refuse, Unlock
  <2> QED BY <1>9, <2>1, <2>2, <2>3 DEF Refuse, LedgerTypes
<1>10. CASE Accept(r)
  <2>1. pc' \in [Requests -> Labels]
    BY <1>4, <1>10, LabelTypes DEF Accept, Busy
  <2>2. seen' \in [Requests -> Loaded]
    BY <1>2, <1>10, SeenTypes DEF Accept, Drop
  <2>3. lock' \in Requests \cup {NoOne}
    BY <1>8, <1>10 DEF Accept, Unlock
  <2>4. row' \in Rows(now)
    BY <1>10, RowChanges DEF Accept
  <2> QED BY <1>10, <2>1, <2>2, <2>3, <2>4 DEF Accept, LedgerTypes
<1>11. CASE Reserve(r)
  <2>1. pc' \in [Requests -> Labels]
    BY <1>4, <1>11, LabelTypes DEF Reserve, Busy
  <2>2. seen' \in [Requests -> Loaded]
    BY <1>2, <1>11, SeenTypes DEF Reserve, Drop
  <2>3. lock' \in Requests \cup {NoOne}
    BY <1>8, <1>11 DEF Reserve, Unlock
  <2>4. row' \in Rows(now)
    BY <1>11, RowChanges DEF Reserve
  <2>5. row'.period \in 0 .. now
    BY <2>4 DEF Rows
  <2>6. paid' \in [Requests -> 0 .. now]
    BY <1>11, <2>5 DEF Reserve, LedgerTypes
  <2> QED BY <1>11, <2>1, <2>2, <2>3, <2>4, <2>6 DEF Reserve, LedgerTypes
<1>12. CASE Complete(r)
  <2>1. pc' \in [Requests -> Labels]
    BY <1>4, <1>12, LabelTypes DEF Complete, Busy
  <2>2. row' \in Rows(now)
    BY <1>1, <1>12, RowChanges DEF Complete
  <2>3. paid' \in [Requests -> 0 .. now]
    BY <1>1, <1>12 DEF Complete, LedgerTypes
  <2> QED BY <1>12, <2>1, <2>2, <2>3 DEF Complete, LedgerTypes
<1>13. CASE Fail(r)
  <2>1. pc' \in [Requests -> Labels]
    BY <1>4, <1>13, LabelTypes DEF Fail, Busy
  <2> QED BY <1>13, <2>1 DEF Fail, LedgerTypes
<1>14. CASE Incr(r)
  <2>1. pc' \in [Requests -> Labels]
    BY <1>4, <1>14, LabelTypes DEF Incr, Busy
  <2>2. tok' \in Tokens /\ lost' \in Nat
    BY <1>3, <1>14, CommandTypes DEF Incr
  <2>3. clean' \in BOOLEAN
    BY <1>14 DEF Incr
  <2> QED BY <1>14, <2>1, <2>2, <2>3 DEF Incr, LedgerTypes
<1>15. CASE RenderEnds(r)
  <2>1. pc' \in [Requests -> Labels]
    BY <1>4, <1>15, LabelTypes DEF RenderEnds, Busy
  <2>2. seen' \in [Requests -> Loaded]
    BY <1>2, <1>15, SeenTypes DEF RenderEnds, LedgerTypes
  <2> QED BY <1>15, <2>1, <2>2 DEF RenderEnds, LedgerTypes
<1>16. CASE Refund(r)
  <2> DEFINE u == Less(seen[r].used, row.used)
             f == Less(seen[r].life, row.life)
  <2>1. pc' \in [Requests -> Labels]
    BY <1>4, <1>16, LabelTypes DEF Refund, Busy
  <2>2. seen' \in [Requests -> Loaded]
    BY <1>2, <1>16, SeenTypes DEF Refund, Drop
  <2>3. tok' \in Tokens /\ lost' \in Nat
    BY <1>3, <1>16, CommandTypes DEF Refund
  <2>4. seen[r].used \in Int /\ seen[r].life \in Nat
    BY DEF LedgerTypes, Loaded
  <2>5. u \in Int /\ f \in Nat
    BY <1>1, <2>4 DEF Less
  <2>6. row' = [row EXCEPT !.used = u, !.life = f]
    BY <1>16 DEF Refund
  <2>7. row' \in Rows(now)
    <3> HIDE DEF u, f
    <3> QED BY <1>1, <2>5, <2>6 DEF Rows
  <2>8. clean' \in BOOLEAN /\ back' \subseteq Requests
    BY <1>16 DEF Refund, LedgerTypes
  <2> QED BY <1>16, <2>1, <2>2, <2>3, <2>7, <2>8 DEF Refund, LedgerTypes
<1> QED
  BY <1>5, <1>6, <1>7, <1>9, <1>10, <1>11, <1>12, <1>13, <1>14, <1>15, <1>16 DEF Step

\* The background keeps the types.
LEMMA BackgroundTypes ==
    ASSUME LedgerTypes,
           (\E w \in Processes : Sync(w) \/ SeedRead(w)) \/ EndPeriod \/ UNCHANGED vars
    PROVE  LedgerTypes'
<1> USE DEF histVars
<1>1. row \in Rows(now) /\ row.used \in Int /\ row.period \in 1 .. now /\ now \in Nat
  BY DEF LedgerTypes, Rows
<1>2. Idle \in Snaps(now)
  BY DEF Snaps
<1>3. ASSUME NEW w \in Processes, NEW s \in Snaps(now), snap' = [snap EXCEPT ![w] = s]
      PROVE  snap' \in [Processes -> Snaps(now)]
  BY <1>3 DEF LedgerTypes
<1>4. ASSUME NEW w \in Processes, SyncRead(w) PROVE LedgerTypes'
  <2> DEFINE s == [used |-> tok, was |-> NoKey, period |-> 0, seeding |-> FALSE]
  <2>1. tok \in Int
    BY <1>4 DEF SyncRead, LedgerTypes, Tokens
  <2>2. s \in Snaps(now)
    BY <1>1, <2>1 DEF Snaps, Tokens
  <2>3. snap' = [snap EXCEPT ![w] = s]
    BY <1>4 DEF SyncRead
  <2> HIDE DEF s
  <2>4. snap' \in [Processes -> Snaps(now)]
    BY <1>3, <2>2, <2>3
  <2> QED BY <1>4, <2>4 DEF SyncRead, LedgerTypes
<1>5. ASSUME NEW w \in Processes, SyncWrite(w) PROVE LedgerTypes'
  <2>1. snap[w].used \in Int
    BY <1>5 DEF SyncWrite, LedgerTypes, Snaps
  <2>2. row' \in Rows(now)
    BY <1>1, <1>5, <2>1 DEF SyncWrite, Rows
  <2>3. snap' \in [Processes -> Snaps(now)]
    BY <1>2, <1>3, <1>5 DEF SyncWrite
  <2> QED BY <1>5, <2>2, <2>3 DEF SyncWrite, LedgerTypes
<1>6. ASSUME NEW w \in Processes, SeedRead(w) PROVE LedgerTypes'
  <2>1. {r \in Chats : paid[r] = row.period} \in SUBSET Requests
    OBVIOUS
  <2>2. Recorded \in Nat
    BY <2>1, FS_Subset, FS_CardinalityType DEF Recorded
  <2>3. tok' \in Int
    BY <1>6, <2>2 DEF SeedRead
  <2> DEFINE p == IF row.period < now THEN now ELSE 0
             s == [used |-> tok', was |-> row.used, seeding |-> TRUE, period |-> p]
  <2>4. p \in 0 .. now
    BY <1>1
  <2> HIDE DEF p
  <2>5. s \in Snaps(now)
    BY <1>1, <2>3, <2>4 DEF Snaps, Tokens
  <2>6. snap' = [snap EXCEPT ![w] = s]
    BY <1>6 DEF SeedRead, p
  <2> HIDE DEF s
  <2>7. snap' \in [Processes -> Snaps(now)]
    BY <1>3, <2>5, <2>6
  <2> QED BY <1>6, <2>3, <2>7 DEF SeedRead, LedgerTypes, Tokens
<1>7. ASSUME NEW w \in Processes, SeedWrite(w) PROVE LedgerTypes'
  <2>1. snap[w].used \in Int /\ snap[w].period \in 0 .. now
    BY <1>7 DEF SeedWrite, LedgerTypes, Snaps
  <2> DEFINE p == IF snap[w].period = 0 THEN row.period ELSE snap[w].period
             u == IF snap[w].used = snap[w].was THEN row.used ELSE snap[w].used
  <2>2. p \in 1 .. now /\ u \in Int
    BY <1>1, <2>1
  <2>3. row' = [row EXCEPT !.period = p, !.used = u]
    BY <1>7 DEF SeedWrite
  <2> HIDE DEF p, u
  <2>4. row' \in Rows(now)
    BY <1>1, <2>2, <2>3 DEF Rows
  <2>5. snap' \in [Processes -> Snaps(now)]
    BY <1>2, <1>3, <1>7 DEF SeedWrite
  <2> QED BY <1>7, <2>4, <2>5 DEF SeedWrite, LedgerTypes
<1>8. CASE EndPeriod
  <2>1. now' \in Nat /\ 1 .. now \subseteq 1 .. now' /\ 0 .. now \subseteq 0 .. now'
    BY <1>1, <1>8 DEF EndPeriod
  <2>2. Rows(now) \subseteq Rows(now') /\ Snaps(now) \subseteq Snaps(now')
    BY <2>1 DEF Rows, Snaps
  <2>3. row' \in Rows(now') /\ snap' \in [Processes -> Snaps(now')] /\ paid' \in [Requests -> 0 .. now']
    BY <1>8, <2>1, <2>2 DEF EndPeriod, LedgerTypes
  <2> QED BY <1>8, <2>1, <2>3 DEF EndPeriod, LedgerTypes
<1>9. CASE UNCHANGED vars
  BY <1>9 DEF vars, LedgerTypes
<1> QED BY <1>4, <1>5, <1>6, <1>7, <1>8, <1>9 DEF Sync

\* The row is held by its resetter: a step of another request leaves the lock
\* alone or finds it free.
LEMMA HoldingStep == LedgerTypes /\ Holding /\ [Next]_vars => Holding'
<1> SUFFICES ASSUME LedgerTypes, Holding, [Next]_vars PROVE Holding'
  OBVIOUS
<1>1. ASSUME UNCHANGED <<pc, lock>> PROVE Holding'
  BY <1>1 DEF Holding
<1>2. ASSUME NEW r \in Requests, NEW l \in Labels \ {"key"}, Goto(r, l),
             \/ lock' = lock /\ (lock = r => l = "test")
             \/ lock' = IF lock = r THEN NoOne ELSE lock
      PROVE  Holding'
  <2>1. \A q \in Requests : pc'[q] = IF q = r THEN l ELSE pc[q]
    BY <1>2, LabelTypes
  <2>2. lock' \in Requests \cup {NoOne} /\ NoOne \notin Requests
    BY <1>2 DEF LedgerTypes
  <2> QED BY <1>2, <2>1, <2>2 DEF Holding, LedgerTypes
<1>3. {"reset", "key", "test", "run", "incr", "rendering", "refund", "refused", "done"} \subseteq Labels
  BY DEF Labels, Busy
<1>4. ASSUME NEW r \in Requests, pc[r] \notin {"key", "test"} PROVE lock # r
  BY <1>4 DEF Holding
<1>5. ASSUME NEW r \in Requests, Reset(r) PROVE Holding'
  <2>1. \A q \in Requests : pc'[q] = IF q = r THEN "key" ELSE pc[q]
    BY <1>3, <1>5, LabelTypes DEF Reset
  <2>2. lock' = r /\ lock = NoOne
    BY <1>5 DEF Reset
  <2> QED BY <2>1, <2>2 DEF Holding
<1>6. ASSUME NEW r \in Requests, Refuse(r) \/ Accept(r) \/ Reserve(r) PROVE Holding'
  BY <1>2, <1>3, <1>6 DEF Refuse, Accept, Reserve, Unlock
<1>7. ASSUME NEW r \in Requests, ResetTokens(r) PROVE Holding'
  BY <1>2, <1>3, <1>7 DEF ResetTokens
<1>8. ASSUME NEW r \in Requests,
             Load(r) \/ Complete(r) \/ Fail(r) \/ Incr(r) \/ RenderEnds(r) \/ Refund(r)
      PROVE  Holding'
  <2>1. /\ lock # r /\ lock' = lock
        /\ \E l \in {"reset", "test", "incr", "done", "rendering", "refund"} : Goto(r, l)
    BY <1>4, <1>8 DEF Load, Complete, Fail, Incr, RenderEnds, Refund
  <2> QED BY <1>2, <1>3, <2>1
<1>9. ASSUME NEW w \in Processes, Sync(w) \/ SeedRead(w) PROVE UNCHANGED <<pc, lock>>
  BY <1>9 DEF Sync, SyncRead, SyncWrite, SeedWrite, SeedRead
<1>10. CASE EndPeriod \/ UNCHANGED vars
  BY <1>1, <1>10 DEF EndPeriod, vars
<1> QED BY <1>1, <1>5, <1>6, <1>7, <1>8, <1>9, <1>10 DEF Next, Step

\* A request is charged by its reservation or its completion, and the refund of
\* its job comes after it was charged.
LEMMA ChargedStep == LedgerTypes /\ ChargedOnce /\ [Next]_vars => ChargedOnce'
<1> SUFFICES ASSUME LedgerTypes, ChargedOnce, [Next]_vars PROVE ChargedOnce'
  OBVIOUS
<1> USE DEF histVars
<1>1. ASSUME UNCHANGED <<pc, paid, back>> PROVE ChargedOnce'
  BY <1>1 DEF ChargedOnce
<1>2. {"new", "reset", "key", "test", "run", "incr", "rendering", "refund", "refused", "done"} \subseteq Labels
  BY DEF Labels, Busy
<1>3. ASSUME NEW r \in Requests, NEW l \in Labels, Goto(r, l), UNCHANGED <<paid, back>>,
             \/ /\ pc[r] \in {"new", "reset", "key", "test"}
                /\ l \in {"reset", "key", "test", "run", "refused"}
             \/ l = "done"
             \/ pc[r] \in {"incr", "rendering"} /\ r \in Videos /\ l \in {"rendering", "refund"}
      PROVE  ChargedOnce'
  <2>1. \A q \in Requests : pc'[q] = IF q = r THEN l ELSE pc[q]
    BY <1>3, LabelTypes
  <2> QED BY <1>3, <2>1 DEF ChargedOnce
<1>4. ASSUME NEW r \in Requests,
             Load(r) \/ Reset(r) \/ ResetTokens(r) \/ Refuse(r) \/ Accept(r) \/ Fail(r)
      PROVE  ChargedOnce'
  BY <1>2, <1>3, <1>4 DEF Load, Reset, ResetTokens, Refuse, Accept, Fail
<1>5. ASSUME NEW r \in Requests, Incr(r) PROVE ChargedOnce'
  BY <1>2, <1>3, <1>5 DEF Incr
<1>6. ASSUME NEW r \in Requests, RenderEnds(r) PROVE ChargedOnce'
  <2>1. r \in Videos
    BY <1>6 DEF RenderEnds, ChargedOnce
  <2> QED BY <1>2, <1>3, <1>6, <2>1 DEF RenderEnds
<1>7. ASSUME NEW r \in Requests, NEW p \in Nat \ {0}, paid' = [paid EXCEPT ![r] = p],
             back' = back, Goto(r, "incr"), pc[r] \in {"test", "run"}
      PROVE  ChargedOnce'
  <2>1. \A q \in Requests : pc'[q] = IF q = r THEN "incr" ELSE pc[q]
    BY <1>2, <1>7, LabelTypes
  <2>2. \A q \in Requests : paid'[q] = IF q = r THEN p ELSE paid[q]
    BY <1>7 DEF LedgerTypes
  <2>3. r \notin back
    BY <1>7 DEF ChargedOnce
  <2> QED BY <1>7, <2>1, <2>2, <2>3 DEF ChargedOnce
<1>8. row.period \in Nat \ {0} /\ now \in Nat \ {0} /\ row \in Rows(now)
  BY DEF LedgerTypes, Rows
<1>9. ASSUME NEW r \in Requests, Reserve(r) PROVE ChargedOnce'
  <2>1. row'.period \in Nat \ {0}
    BY <1>8, <1>9, RowChanges DEF Reserve
  <2> QED BY <1>7, <1>9, <2>1 DEF Reserve
<1>10. ASSUME NEW r \in Requests, Complete(r) PROVE ChargedOnce'
  BY <1>7, <1>8, <1>10 DEF Complete
<1>11. ASSUME NEW r \in Requests, Refund(r) PROVE ChargedOnce'
  <2>1. \A q \in Requests : pc'[q] = IF q = r THEN "done" ELSE pc[q]
    BY <1>2, <1>11, LabelTypes DEF Refund
  <2>2. paid' = paid /\ back' = back \cup {r} /\ paid[r] > 0
    BY <1>11 DEF Refund, ChargedOnce
  <2> QED BY <2>1, <2>2 DEF ChargedOnce
<1>12. ASSUME NEW w \in Processes, Sync(w) \/ SeedRead(w) PROVE UNCHANGED <<pc, paid, back>>
  BY <1>12 DEF Sync, SyncRead, SyncWrite, SeedWrite, SeedRead
<1>13. CASE EndPeriod \/ UNCHANGED vars
  BY <1>1, <1>13 DEF EndPeriod, vars
<1> QED
  BY <1>1, <1>4, <1>5, <1>6, <1>9, <1>10, <1>11, <1>12, <1>13 DEF Next, Step

\* What the Redis counter stands for.
Count == IF tok = NoKey THEN 0 ELSE tok

\* Adding to the counter adds to what it stands for.
LEMMA PlusCounts ==
    ASSUME tok \in Tokens, NEW n \in Int, tok' = Plus(n)
    PROVE  Count' = Count + n
  BY DEF Count, Plus, Tokens

\* A set of requests with one of them more, or one less.
LEMMA BookedChanges ==
    /\ IsFiniteSet(Booked) /\ Cardinality(Booked) \in Nat
    /\ \A r \in Requests \ Booked : Cardinality(Booked \cup {r}) = Cardinality(Booked) + 1
    /\ \A r \in Booked : Cardinality(Booked \ {r}) = Cardinality(Booked) - 1
<1>1. Booked \in SUBSET Requests
  BY DEF Booked
<1>2. IsFiniteSet(Booked)
  BY <1>1, FS_Subset
<1> QED BY <1>2, FS_CardinalityType, FS_AddElement, FS_RemoveElement

\* A step that leaves the counter, the charges and the row's period alone, and
\* brings nobody to or from the addition to the counter.
LEMMA BooksKept ==
    ASSUME LedgerTypes, Holding, InPeriod, Counter,
           NEW r \in Requests, NEW l \in Labels \ {"key", "incr"}, Goto(r, l), pc[r] # "incr",
           l \in {"rendering", "refund"} => pc[r] = "rendering",
           lock # r, UNCHANGED <<tok, paid, back, lock, snap, now>>, row'.period = row.period
    PROVE  InPeriod' /\ Counter'
<1>1. \A q \in Requests : pc'[q] = IF q = r THEN l ELSE pc[q]
  BY LabelTypes
<1>2. lock \in Requests \cup {NoOne}
  BY DEF LedgerTypes
<1>3. Booked' = Booked
  BY <1>1 DEF Booked
<1>4. Counter'
  BY <1>1, <1>2, <1>3 DEF Counter
<1>5. ASSUME lock # NoOne PROVE l \notin {"rendering", "refund"}
  BY <1>5 DEF InPeriod
<1>6. InPeriod'
  BY <1>1, <1>2, <1>5 DEF InPeriod
<1> QED BY <1>4, <1>6

\* The reset is committed: whoever holds the row moves it to a period to which
\* nobody was charged, and has deleted the key.
LEMMA BooksOpened ==
    ASSUME LedgerTypes, LedgerTypes', Holding, InPeriod, Counter,
           NEW r \in Requests, lock = r, pc[r] = "test", lock' = NoOne,
           UNCHANGED <<tok, back, snap, now>>, row'.period = now,
           \/ Goto(r, "run") /\ paid' = paid
           \/ Goto(r, "incr") /\ paid' = [paid EXCEPT ![r] = now]
    PROVE  InPeriod' /\ Counter'
<1>1. /\ NoOne \notin Requests /\ row.period < now /\ tok = NoKey
      /\ \A q \in Requests \ {r} : pc[q] # "incr"
      /\ row \in Rows(now) /\ now \in Nat /\ paid \in [Requests -> 0 .. now]
  BY DEF InPeriod, Counter, LedgerTypes
<1>2. /\ row.period \in Nat
      /\ \A q \in Requests : paid[q] <= row.period /\ paid[q] \in Nat
  BY <1>1 DEF InPeriod, Rows
<1>3. \A q \in Requests : paid[q] < now
  BY <1>1, <1>2
<1>4. {"run", "incr"} \subseteq Labels
  BY DEF Labels, Busy
<1>5. \A q \in Requests \ {r} : pc'[q] = pc[q] /\ paid'[q] = paid[q]
  BY <1>1, <1>4, LabelTypes
<1>6. (pc'[r] = "run" /\ paid'[r] < now) \/ (pc'[r] = "incr" /\ paid'[r] = now)
  BY <1>1, <1>3, <1>4, LabelTypes
<1>7. Booked' = {}
  BY <1>1, <1>3, <1>5, <1>6 DEF Booked
<1>8. Counter'
  BY <1>1, <1>7, FS_EmptySet DEF Counter
<1>9. InPeriod'
  BY <1>1, <1>3, <1>5, <1>6 DEF InPeriod
<1> QED BY <1>8, <1>9

\* A charge that is still to be added to the counter.
LEMMA BooksCharged ==
    ASSUME LedgerTypes, Holding, ChargedOnce, InPeriod, Counter,
           NEW r \in Requests, pc[r] \in {"test", "run"}, lock = NoOne,
           Goto(r, "incr"), paid' = [paid EXCEPT ![r] = row.period],
           UNCHANGED <<tok, back, snap, lock, now>>, row'.period = row.period
    PROVE  InPeriod' /\ Counter'
<1>1. "incr" \in Labels
  BY DEF Labels, Busy
<1>2. \A q \in Requests : pc'[q] = IF q = r THEN "incr" ELSE pc[q]
  BY <1>1, LabelTypes
<1>3. \A q \in Requests : paid'[q] = IF q = r THEN row.period ELSE paid[q]
  BY DEF LedgerTypes
<1>4. paid[r] = 0 /\ row.period \in Nat \ {0}
  BY DEF ChargedOnce, LedgerTypes, Rows
<1>5. Booked' = Booked
  BY <1>2, <1>3, <1>4 DEF Booked
<1>6. Counter'
  BY <1>5 DEF Counter
<1>7. InPeriod'
  BY <1>2, <1>3, <1>4 DEF InPeriod
<1> QED BY <1>6, <1>7

\* While nothing happened that clean rules out, every step keeps the counter in
\* step with what was booked.
LEMMA CounterStep ==
    ASSUME LedgerTypes, LedgerTypes', Holding, ChargedOnce,
           clean => InPeriod /\ Counter, [Next]_vars, clean'
    PROVE  InPeriod' /\ Counter'
<1> USE DEF histVars
<1>1. clean
  BY DEF Next, Step, Sync, vars, Load, Reset, ResetTokens, Refuse, Accept, Reserve, Complete, Fail,
         Incr, RenderEnds, Refund, SyncRead, SyncWrite, SeedRead, SeedWrite, EndPeriod
<1>2. InPeriod /\ Counter
  BY <1>1
<1>3. Busy \cup {"refused", "done"} \subseteq Labels
  BY DEF Labels
<1>4. /\ row \in Rows(now) /\ now \in Nat /\ lost \in Nat /\ tok \in Tokens
      /\ row.period \in Nat \ {0} /\ lock \in Requests \cup {NoOne} /\ NoOne \notin Requests
  BY DEF LedgerTypes, Rows
<1>5. ASSUME NEW r \in Requests, pc[r] \notin {"key", "test"} PROVE lock # r
  BY <1>5 DEF Holding
<1>6. ASSUME NEW r \in Requests, NEW v, Redis(r, v), lost' = lost, r \notin Offline PROVE tok' = v
  BY <1>4, <1>6 DEF Redis
<1>7. ASSUME NEW r \in Requests, Load(r) \/ Fail(r) \/ RenderEnds(r) PROVE InPeriod' /\ Counter'
  <2>1. lock # r /\ UNCHANGED <<row, tok, paid, back, lock, snap, now>>
    BY <1>5, <1>7 DEF Load, Fail, RenderEnds
  <2>2. \E l \in {"reset", "test", "done", "refund"} :
           Goto(r, l) /\ (l = "refund" => pc[r] = "rendering") /\ pc[r] # "incr"
    BY <1>7 DEF Load, Fail, RenderEnds
  <2> QED BY <1>2, <1>3, <2>1, <2>2, BooksKept DEF Busy
<1>8. ASSUME NEW r \in Requests, Reset(r) PROVE InPeriod' /\ Counter'
  <2>1. \A q \in Requests : pc'[q] = IF q = r THEN "key" ELSE pc[q]
    BY <1>3, <1>8, LabelTypes DEF Reset, Busy
  <2>2. /\ lock = NoOne /\ lock' = r /\ row.period < now /\ pc[r] = "reset"
        /\ UNCHANGED <<row, tok, now, snap, paid, back>>
        /\ \A q \in Requests \ {r} : pc[q] \notin {"key", "incr", "rendering", "refund"}
    BY <1>8 DEF Reset, Alone, Busy
  <2>3. Booked' = Booked
    BY <2>1, <2>2 DEF Booked
  <2>4. Counter'
    BY <1>2, <2>1, <2>2, <2>3 DEF Counter
  <2>5. InPeriod'
    BY <1>2, <2>1, <2>2 DEF InPeriod
  <2> QED BY <2>4, <2>5
<1>9. ASSUME NEW r \in Requests, ResetTokens(r) PROVE InPeriod' /\ Counter'
  <2>1. \A q \in Requests : pc'[q] = IF q = r THEN "test" ELSE pc[q]
    BY <1>3, <1>9, LabelTypes DEF ResetTokens, Busy
  <2>2. lock = r /\ UNCHANGED <<row, lock, now, snap, paid, back>>
    BY <1>9 DEF ResetTokens, Holding
  <2>3. tok' = NoKey
    BY <1>6, <1>9 DEF ResetTokens
  <2>4. Counter'
    BY <1>4, <2>1, <2>2, <2>3 DEF Counter
  <2>5. InPeriod'
    BY <1>2, <2>1, <2>2 DEF InPeriod
  <2> QED BY <2>4, <2>5
<1>10. ASSUME NEW r \in Requests, Refuse(r) PROVE InPeriod' /\ Counter'
  <2>1. /\ lock # r /\ lock' = lock /\ pc[r] = "test" /\ Goto(r, "refused")
        /\ UNCHANGED <<row, tok, paid, back, snap, now>>
    BY <1>10 DEF Refuse, Unlock
  <2> QED BY <1>2, <1>3, <2>1, BooksKept
<1>11. ASSUME NEW r \in Requests, Accept(r) PROVE InPeriod' /\ Counter'
  <2>1. /\ pc[r] = "test" /\ Goto(r, "run") /\ UNCHANGED <<tok, paid, back, snap, now>>
        /\ row' = Committed(r) /\ lock' = IF lock = r THEN NoOne ELSE lock
    BY <1>11 DEF Accept, Unlock
  <2>2. CASE lock = r
    BY <1>2, <2>1, <2>2, BooksOpened, RowChanges
  <2>3. CASE lock # r
    BY <1>2, <1>3, <2>1, <2>3, BooksKept, RowChanges DEF Busy
  <2> QED BY <2>2, <2>3
<1>12. ASSUME NEW r \in Requests, Reserve(r) PROVE InPeriod' /\ Counter'
  <2>1. /\ pc[r] = "test" /\ Goto(r, "incr") /\ UNCHANGED <<tok, back, snap, now>>
        /\ row' = Charged(r, Committed(r)) /\ paid' = [paid EXCEPT ![r] = row'.period]
        /\ lock' = IF lock = r THEN NoOne ELSE lock
        /\ lock \in {r, NoOne}
    BY <1>12 DEF Reserve, Unlock
  <2>2. row'.period = IF lock = r THEN now ELSE row.period
    BY <2>1, RowChanges
  <2>3. CASE lock = r
    BY <1>2, <2>1, <2>2, <2>3, BooksOpened
  <2>4. CASE lock # r
    BY <1>2, <1>4, <2>1, <2>2, <2>4, BooksCharged
  <2> QED BY <2>3, <2>4
<1>13. ASSUME NEW r \in Requests, Complete(r) PROVE InPeriod' /\ Counter'
  <2>1. row'.period = row.period
    BY <1>4, <1>13, RowChanges DEF Complete
  <2> QED BY <1>2, <1>13, <2>1, BooksCharged DEF Complete
<1>14. ASSUME NEW r \in Requests, Incr(r) PROVE InPeriod' /\ Counter'
  <2>1. lock # r /\ lock = NoOne
    BY <1>2, <1>4, <1>5, <1>14 DEF InPeriod, Incr
  <2>2. PICK l \in {"done", "rendering"} : \A q \in Requests : pc'[q] = IF q = r THEN l ELSE pc[q]
    BY <1>3, <1>14, LabelTypes DEF Incr, Busy
  <2>3. tok' = Plus(1) /\ UNCHANGED <<row, lock, now, snap, paid, back>> /\ pc[r] = "incr"
    BY <1>6, <1>14 DEF Incr
  <2>4. paid[r] = row.period /\ r \notin back
    BY <1>2, <2>3 DEF InPeriod, ChargedOnce
  <2>5. Booked' = Booked \cup {r} /\ r \notin Booked
    BY <2>2, <2>3, <2>4 DEF Booked
  <2>6. Count' = Cardinality(Booked')
    BY <1>2, <1>4, <2>1, <2>3, <2>5, PlusCounts, BookedChanges DEF Counter, Count
  <2>7. Counter'
    BY <2>1, <2>3, <2>6 DEF Counter, Count
  <2>8. InPeriod'
    BY <1>2, <2>1, <2>2, <2>3 DEF InPeriod
  <2> QED BY <2>7, <2>8
<1>15. ASSUME NEW r \in Requests, Refund(r) PROVE InPeriod' /\ Counter'
  <2>1. lock = NoOne /\ pc[r] = "refund"
    BY <1>15 DEF Refund
  <2>2. \A q \in Requests : pc'[q] = IF q = r THEN "done" ELSE pc[q]
    BY <1>3, <1>15, LabelTypes DEF Refund
  <2>3. /\ tok' = Plus(-1) /\ UNCHANGED <<lock, now, snap, paid>> /\ back' = back \cup {r}
        /\ paid[r] = row.period
    BY <1>6, <1>15 DEF Refund
  <2>4. row'.period = row.period
    BY <1>4, <1>15 DEF Refund, Rows
  <2>5. r \in Booked /\ Booked' = Booked \ {r}
    BY <2>1, <2>2, <2>3, <2>4 DEF Booked, ChargedOnce
  <2>6. Count' = Cardinality(Booked')
    BY <1>2, <1>4, <2>1, <2>3, <2>5, PlusCounts, BookedChanges DEF Counter, Count
  <2>7. Counter'
    BY <2>1, <2>3, <2>6 DEF Counter, Count
  <2>8. InPeriod'
    BY <1>2, <2>1, <2>2, <2>3, <2>4 DEF InPeriod
  <2> QED BY <2>7, <2>8
<1>16. ASSUME row'.period = row.period, UNCHANGED <<lock, tok, pc, paid, back>>,
              now' \in Nat, now <= now', \A w \in Processes : ~snap'[w].seeding
       PROVE  InPeriod' /\ Counter'
  <2>1. Booked' = Booked
    BY <1>16 DEF Booked
  <2> QED BY <1>2, <1>4, <1>16, <2>1 DEF InPeriod, Counter
<1>17. ASSUME NEW w \in Processes, Sync(w) \/ SeedRead(w) PROVE InPeriod' /\ Counter'
  <2>1. ~SeedRead(w) /\ ~SeedWrite(w)
    BY <1>2 DEF SeedRead, SeedWrite, InPeriod
  <2>2. /\ row'.period = row.period
        /\ UNCHANGED <<lock, tok, pc, paid, back, now>>
    BY <1>4, <1>17, <2>1 DEF Sync, SyncRead, SyncWrite, Rows
  <2> DEFINE read == [used |-> tok, was |-> NoKey, period |-> 0, seeding |-> FALSE]
  <2>3. snap' = [snap EXCEPT ![w] = read] \/ snap' = [snap EXCEPT ![w] = Idle]
    BY <1>17, <2>1 DEF Sync, SyncRead, SyncWrite
  <2>4. ~read.seeding /\ ~Idle.seeding
    BY DEF Idle
  <2> HIDE DEF read
  <2>5. \A p \in Processes : ~snap'[p].seeding
    BY <1>2, <2>3, <2>4 DEF InPeriod, LedgerTypes
  <2> QED BY <1>4, <1>16, <2>2, <2>5
<1>18. CASE EndPeriod
  BY <1>2, <1>4, <1>16, <1>18 DEF EndPeriod, InPeriod
<1>19. CASE UNCHANGED vars
  BY <1>2, <1>4, <1>16, <1>19 DEF vars, InPeriod
<1> QED
  BY <1>7, <1>8, <1>9, <1>10, <1>11, <1>12, <1>13, <1>14, <1>15, <1>17, <1>18, <1>19 DEF Next, Step

-----------------------------------------------------------------------------
(* The invariant of the ledger, and what it says.                          *)

LEMMA LedgerInit == Init => LedgerInv
<1> SUFFICES ASSUME Init PROVE LedgerInv
  OBVIOUS
<1>1. row = [period |-> 1, used |-> 0, life |-> 0] /\ now = 1 /\ tok = 0 /\ lock = NoOne
  BY DEF Init
<1>2. LedgerTypes
  <2>1. row \in Rows(now)
    BY <1>1 DEF Rows
  <2>2. "new" \in Labels /\ Nothing \in Loaded /\ Idle \in Snaps(now) /\ tok \in Tokens
    BY <1>1 DEF Labels, Nothing, Loaded, Snaps, Tokens
  <2> QED BY <1>1, <2>1, <2>2 DEF Init, LedgerTypes
<1>3. Holding /\ ChargedOnce
  BY DEF Init, Holding, ChargedOnce
<1>4. InPeriod
  BY <1>1 DEF Init, InPeriod, Idle
<1>5. Booked = {}
  BY <1>1 DEF Init, Booked
<1>6. Counter
  BY <1>1, <1>5, FS_EmptySet DEF Counter
<1> QED BY <1>2, <1>3, <1>4, <1>6 DEF LedgerInv

LEMMA LedgerStep == LedgerInv /\ [Next]_vars => LedgerInv'
<1> SUFFICES ASSUME LedgerInv, [Next]_vars PROVE LedgerInv'
  OBVIOUS
<1>1. LedgerTypes /\ Holding /\ ChargedOnce /\ (clean => InPeriod /\ Counter)
  BY DEF LedgerInv
<1>2. LedgerTypes'
  BY <1>1, StepTypes, BackgroundTypes DEF Next
<1>3. Holding' /\ ChargedOnce'
  BY <1>1, HoldingStep, ChargedStep
<1>4. ASSUME clean' PROVE InPeriod' /\ Counter'
  BY <1>1, <1>2, <1>4, CounterStep
<1> QED BY <1>2, <1>3, <1>4 DEF LedgerInv

LEMMA LedgerInvariant == Spec => []LedgerInv
  BY LedgerInit, LedgerStep, PTL DEF Spec

\* The ledger keeps its types, and the row is held only by a request between the
\* flush of its reset and the end of its transaction.
THEOREM LedgerTyped == Spec => []TypeOK
<1>1. LedgerInv => TypeOK
  BY DEF LedgerInv, LedgerTypes, Holding, TypeOK, Rows, Labels, Tokens
<1> QED BY <1>1, LedgerInvariant, PTL

\* When no request is under way and nothing is being copied, the Redis counter is
\* what the user spent in this period, unless one of the things happened that
\* clean rules out.
THEOREM QuietLedgerExact == Spec => []QuietIsExact
<1>1. LedgerInv => QuietIsExact
  <2> SUFFICES ASSUME LedgerInv, clean, \A r \in Requests : pc[r] \notin Busy
               PROVE  (IF tok = NoKey THEN 0 ELSE tok) = Spent
    BY DEF QuietIsExact
  <2>1. Counter /\ Holding
    BY DEF LedgerInv
  <2>2. lock = NoOne
    BY <2>1 DEF LedgerInv, LedgerTypes, Holding, Busy
  <2>3. Booked = {r \in Requests : paid[r] = row.period /\ r \notin back}
    BY DEF Booked, Busy
  <2> QED BY <2>1, <2>2, <2>3 DEF Counter, Spent
<1> QED BY <1>1, LedgerInvariant, PTL

\* The requests that were charged.
Payers == {r \in Requests : paid[r] # 0}

\* Requests are charged and given back one by one; what is given back was charged.
LEMMA PayersChange ==
    ASSUME LedgerInv
    PROVE  /\ IsFiniteSet(Payers) /\ Cardinality(Payers) \in Nat
           /\ IsFiniteSet(back) /\ Cardinality(back) \in Nat
           /\ \A r \in Requests \ Payers : Cardinality(Payers \cup {r}) = Cardinality(Payers) + 1
           /\ \A r \in Payers \ back : /\ Cardinality(back \cup {r}) = Cardinality(back) + 1
                                     /\ Cardinality(back) < Cardinality(Payers)
<1>1. /\ Payers \in SUBSET Requests /\ back \in SUBSET Requests
      /\ \A r \in Requests : paid[r] \in Nat
  BY DEF Payers, LedgerInv, LedgerTypes
<1>2. IsFiniteSet(Payers) /\ IsFiniteSet(back)
  BY <1>1, FS_Subset
<1>3. back \subseteq Payers
  BY <1>1 DEF LedgerInv, ChargedOnce, Payers
<1>4. ASSUME NEW r \in Payers \ back
      PROVE  Cardinality(back) + 1 = Cardinality(back \cup {r}) /\ Cardinality(back \cup {r}) <= Cardinality(Payers)
  <2>1. back \cup {r} \in SUBSET Payers
    BY <1>3
  <2> QED BY <1>2, <2>1, FS_Subset, FS_AddElement
<1>5. /\ Cardinality(Payers) \in Nat /\ Cardinality(back) \in Nat
      /\ \A r \in Requests \ Payers : Cardinality(Payers \cup {r}) = Cardinality(Payers) + 1
  BY <1>2, FS_AddElement, FS_CardinalityType
<1> QED BY <1>2, <1>4, <1>5

\* The lifetime counter departs from what was charged and not given back only
\* through a refund that writes over a charge committed after its read, or that
\* finds at zero the counter such a refund left too low.
THEOREM LifetimeCounter == Spec => LifetimeExplained
<1> DEFINE Explained ==
       \E r \in Videos : Refund(r) /\ (seen[r].life # row.life \/ (row.life = 0 /\ Drift < 0))
<1>1. LedgerInv /\ LedgerInv' /\ [Next]_vars => [Drift' # Drift => Explained]_vars
  <2> SUFFICES ASSUME LedgerInv, LedgerInv', Next, Drift' # Drift PROVE Explained
    OBVIOUS
  <2> USE DEF histVars
  <2>1. /\ row \in Rows(now) /\ row.life \in Nat /\ LedgerTypes /\ ChargedOnce
        /\ paid \in [Requests -> 0 .. now] /\ seen \in [Requests -> Loaded]
    BY DEF LedgerInv, LedgerTypes, Rows
  <2>2. Drift = row.life - (Cardinality(Payers) - Cardinality(back))
    BY DEF Drift, Payers
  <2>3. Drift' = row'.life - (Cardinality(Payers') - Cardinality(back'))
    BY DEF Drift, Payers
  <2>4. ~(row'.life = row.life /\ paid' = paid /\ back' = back)
    BY DEF Drift
  <2>5. ASSUME NEW r \in Requests, NEW p \in Nat \ {0}, paid' = [paid EXCEPT ![r] = p],
               back' = back, row'.life = row.life + 1, paid[r] = 0
        PROVE  FALSE
    <3>1. Payers' = Payers \cup {r} /\ r \notin Payers
      BY <2>1, <2>5 DEF Payers
    <3> QED BY <2>1, <2>2, <2>3, <2>5, <3>1, PayersChange
  <2>6. ASSUME NEW r \in Requests, Reserve(r) PROVE FALSE
    <3>1. Committed(r) \in Rows(now) /\ Committed(r).life = row.life
      BY <2>1, RowChanges
    <3>2. row' \in Rows(now) /\ row'.life = row.life + 1
      BY <2>1, <2>6, <3>1, RowChanges DEF Reserve
    <3>3. row'.period \in Nat \ {0} /\ paid[r] = 0
      BY <2>1, <2>6, <3>2 DEF Rows, ChargedOnce, Reserve
    <3> QED BY <2>5, <2>6, <3>2, <3>3 DEF Reserve
  <2>7. ASSUME NEW r \in Requests, Complete(r) PROVE FALSE
    <3>1. row.period \in Nat \ {0} /\ paid[r] = 0
      BY <2>1, <2>7 DEF Rows, ChargedOnce, Complete
    <3>2. row'.life = row.life + 1
      BY <2>1, <2>7, RowChanges DEF Complete
    <3> QED BY <2>5, <2>7, <3>1, <3>2 DEF Complete
  <2>8. ASSUME NEW r \in Requests, Refund(r) PROVE Explained
    <3>1. r \in Videos /\ r \notin back /\ paid[r] > 0
      BY <2>1, <2>8 DEF Refund, ChargedOnce
    <3>2. r \in Payers \ back
      BY <2>1, <3>1 DEF Payers
    <3>3. paid' = paid /\ back' = back \cup {r} /\ row'.life = Less(seen[r].life, row.life)
      BY <2>1, <2>8 DEF Refund, Rows
    <3>4. Payers' = Payers
      BY <3>3 DEF Payers
    <3>5. CASE seen[r].life = row.life /\ row.life > 0
      <4>1. row'.life = row.life - 1
        BY <2>1, <3>3, <3>5 DEF Less
      <4> QED BY <2>1, <2>2, <2>3, <3>2, <3>3, <3>4, <4>1, PayersChange
    <3>6. CASE row.life = 0
      <4>1. /\ Cardinality(Payers) \in Nat /\ Cardinality(back) \in Nat
            /\ Cardinality(back) < Cardinality(Payers)
        BY <3>2, PayersChange
      <4>2. Drift < 0
        BY <2>2, <3>6, <4>1
      <4> QED BY <2>8, <3>1, <3>6, <4>2
    <3>7. CASE seen[r].life # row.life
      BY <2>8, <3>1, <3>7
    <3> QED BY <2>1, <3>5, <3>6, <3>7
  <2>9. ASSUME NEW r \in Requests, Accept(r) PROVE FALSE
    BY <2>1, <2>4, <2>9, RowChanges DEF Accept
  <2>10. ASSUME NEW r \in Requests,
                \/ Load(r) \/ Reset(r) \/ ResetTokens(r) \/ Refuse(r)
                \/ Fail(r) \/ Incr(r) \/ RenderEnds(r)
         PROVE  FALSE
    BY <2>4, <2>10 DEF Load, Reset, ResetTokens, Refuse, Fail, Incr, RenderEnds
  <2>11. ASSUME NEW w \in Processes, Sync(w) \/ SeedRead(w) PROVE FALSE
    <3>1. paid' = paid /\ back' = back
      BY <2>11 DEF Sync, SyncRead, SyncWrite, SeedWrite, SeedRead
    <3>2. row'.life = row.life
      BY <2>1, <2>11 DEF Sync, SyncRead, SyncWrite, SeedWrite, SeedRead, Rows
    <3> QED BY <2>4, <3>1, <3>2
  <2>12. ~EndPeriod
    BY <2>4 DEF EndPeriod
  <2> QED BY <2>6, <2>7, <2>8, <2>9, <2>10, <2>11, <2>12 DEF Next, Step
<1>2. Spec => [][Next]_vars
  BY DEF Spec
<1> QED BY <1>1, <1>2, LedgerInvariant, PTL DEF LifetimeExplained

=============================================================================
