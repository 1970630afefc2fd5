--------------------------- MODULE FairShareProofs ---------------------------
(***************************************************************************)
(* What the fair-share manager guarantees for any set of jobs, any finite  *)
(* set of users and any weights, costs and limits: its books are right,    *)
(* debts follow usage, and heavy users do not overtake light ones while    *)
(* balances are not negative.                                              *)
(***************************************************************************)
EXTENDS FairShare, FiniteSetTheorems, WellFoundedInduction, TLAPS

USE FairShareAssumption DEF FairShareAssumption

-----------------------------------------------------------------------------
(* The inductive invariants.                                               *)

\* Types of the amounts, and of what is only recorded for the proof.
FairTypes ==
    /\ known \in SUBSET Users
    /\ deficit \in [Users -> Int]
    /\ recent \in [Users -> Nat] /\ fresh \in [Users -> Nat] /\ stale \in [Users -> Nat]
    /\ global \in Nat
    /\ jobs \in [Jobs -> {"new", "queued", "running", "retrying", "rerunning", "done"}]
    /\ used \in [Users -> Nat] /\ forgiven \in [Users -> Nat]
    /\ lifted \in Nat /\ joined \in [Users -> Nat]

\* Users are registered with their first job; nothing is charged before that.
Registered ==
    /\ \A j \in Jobs : jobs[j] # "new" => Owner[j] \in known
    /\ \A u \in Users \ known :
          deficit[u] = 0 /\ used[u] = 0 /\ forgiven[u] = 0 /\ fresh[u] = 0 /\ stale[u] = 0

\* A user's deficit is what it was lifted by since it was registered, less what
\* it used and was not forgiven.
Balanced ==
    \A u \in known : deficit[u] = lifted - joined[u] - used[u] + forgiven[u]

FairInv == FairTypes /\ Registered /\ Balanced

\* The books of TypeOK, conjunct by conjunct.
Floors == \A u \in Users : deficit[u] >= -Weight[u] * DebtPerWeight

Windows ==
    /\ \A u \in Users : recent[u] = fresh[u] + stale[u]
    /\ global = Total(recent, Users)

Running ==
    /\ starts \in 0 .. MaxStarts
    /\ active \in [Users -> Nat]
    /\ \A u \in Users : active[u] <= starts
    /\ credits \in [Users -> 0 .. CreditCap]
    /\ round \in {"cleanup", "rebalance", "credits"}

-----------------------------------------------------------------------------
(* The operators.                                                          *)

\* The larger of two numbers,
LEMMA MaxOfTwo ==
    ASSUME NEW a \in Int, NEW b \in Int
    PROVE  Max({a, b}) = IF a >= b THEN a ELSE b
BY DEF Max

\* ... and the smaller.
LEMMA MinOfTwo ==
    ASSUME NEW a \in Int, NEW b \in Int
    PROVE  Min({a, b}) = IF a <= b THEN a ELSE b
BY DEF Min

\* The well-founded relation of the library is "less than".
LEMMA LessIsRelated == \A x, y \in Nat : x < y => <<x, y>> \in OpToRel(<, Nat)
<1> SUFFICES ASSUME NEW x \in Nat, NEW y \in Nat, x < y PROVE <<x, y>> \in OpToRel(<, Nat)
  OBVIOUS
<1>1. <<x, y>> \in Nat \X Nat /\ <<x, y>>[1] < <<x, y>>[2]
  OBVIOUS
<1>2. <<x, y>> \in {ss \in Nat \X Nat : ss[1] < ss[2]}
  BY <1>1
<1> QED BY <1>2, Zenon DEF OpToRel

\* The lowest of the deficits of some users is one of them, and not above any:
\* it is the deficit of a user that the fewest others are below.
LEMMA LowestIsReached ==
    ASSUME NEW d \in [Users -> Int], NEW S \in SUBSET Users, S # {}
    PROVE  /\ Min({d[u] : u \in S}) \in Int
           /\ \A u \in S : Min({d[v] : v \in S}) <= d[u]
<1> DEFINE Below(u) == {v \in S : d[v] < d[u]}
           Counts == {Cardinality(Below(u)) : u \in S}
<1>1. \A u \in S : IsFiniteSet(Below(u)) /\ Cardinality(Below(u)) \in Nat
  BY FS_Subset, FS_CardinalityType
<1> HIDE DEF Below
<1>2. Counts \subseteq Nat /\ Counts # {}
  BY <1>1
<1> HIDE DEF Counts
<1>3. PICK c \in Counts : \A e \in Counts : ~(<<e, c>> \in OpToRel(<, Nat))
  BY <1>2, NatLessThanWellFounded, WFMin
<1>4. \A e \in Counts : ~(e < c)
  BY <1>2, <1>3, LessIsRelated, Zenon
<1>5. PICK u \in S : c = Cardinality(Below(u))
  BY <1>3 DEF Counts
<1>6. ASSUME NEW v \in S, d[v] < d[u] PROVE FALSE
  <2>1. Below(v) \subseteq Below(u) /\ v \in Below(u) /\ v \notin Below(v)
    BY <1>6 DEF Below
  <2>2. Cardinality(Below(v)) <= Cardinality(Below(u))
        /\ (Cardinality(Below(u)) = Cardinality(Below(v)) => Below(u) = Below(v))
    BY <1>1, <2>1, FS_Subset
  <2>3. Cardinality(Below(v)) < Cardinality(Below(u))
    BY <1>1, <2>1, <2>2
  <2>4. Cardinality(Below(v)) \in Counts
    BY DEF Counts
  <2> QED BY <1>4, <1>5, <2>3, <2>4
<1>7. \A v \in S : d[u] <= d[v]
  BY <1>6
<1>8. d[u] \in {d[v] : v \in S} /\ \A x \in {d[v] : v \in S} : d[u] <= x /\ x \in Int
  BY <1>7
<1>9. /\ Min({d[v] : v \in S}) \in {d[v] : v \in S}
      /\ \A x \in {d[v] : v \in S} : Min({d[v] : v \in S}) <= x
  BY <1>8 DEF Min
<1> QED BY <1>8, <1>9


\* A deficit that is charged stays an integer above the floor, and what is
\* forgiven is not negative.
LEMMA ChargeBounds ==
    ASSUME FairTypes, NEW u \in Users, NEW cost \in Costs
    PROVE  /\ Charge(u, cost) \in Int
           /\ Charge(u, cost) >= deficit[u] - cost
           /\ Charge(u, cost) >= -Weight[u] * DebtPerWeight
<1>1. deficit[u] - cost \in Int /\ -Weight[u] * DebtPerWeight \in Int
  BY DEF FairTypes
<1> DEFINE a == deficit[u] - cost
           b == -Weight[u] * DebtPerWeight
<1>2. a \in Int /\ b \in Int /\ Charge(u, cost) = Max({a, b})
  BY <1>1 DEF Charge
<1>3. Charge(u, cost) = IF a >= b THEN a ELSE b
  <2> HIDE DEF a, b
  <2> QED BY <1>2, MaxOfTwo
<1> QED
  <2> HIDE DEF a, b
  <2>1. Charge(u, cost) \in Int /\ Charge(u, cost) >= a /\ Charge(u, cost) >= b
    BY <1>2, <1>3
  <2> QED BY <2>1 DEF a, b

\* A rebalancing lifts by a positive amount, to the target.
LEMMA ShiftIsPositive ==
    ASSUME FairTypes, known # {}, Min({deficit[u] : u \in known}) < -RebalanceBelow
    PROVE  /\ -Min({deficit[u] : u \in known}) - RebalanceTo \in Nat \ {0}
           /\ \A u \in known : deficit[u] - Min({deficit[v] : v \in known}) >= 0
<1> DEFINE lowest == Min({deficit[u] : u \in known})
<1>1. lowest \in Int /\ \A u \in known : lowest <= deficit[u]
  BY LowestIsReached DEF FairTypes
<1>2. lowest < -RebalanceBelow
  OBVIOUS
<1> HIDE DEF lowest
<1>3. -lowest - RebalanceTo \in Nat \ {0}
  BY <1>1, <1>2
<1>4. \A u \in known : deficit[u] \in Int
  BY DEF FairTypes
<1>5. \A u \in known : deficit[u] - lowest >= 0
  BY <1>1, <1>4
<1> QED BY <1>3, <1>5 DEF lowest

\* Entries of the history are finite; more tokens of one user add to the total.
LEMMA EntriesAreFinite ==
    ASSUME NEW t \in [Users -> Nat], NEW S \in SUBSET Users
    PROVE  IsFiniteSet(UNION {Entries(t, u) : u \in S}) /\ Total(t, S) \in Nat
<1> DEFINE e == [u \in S |-> Entries(t, u)]
           all == {Entries(t, u) : u \in S}
<1>1. e \in Surjection(S, all)
  BY DEF Surjection
<1>2. IsFiniteSet(S)
  BY FS_Subset
<1>3. IsFiniteSet(all)
  BY <1>1, <1>2, FS_Surjection
<1>4. ASSUME NEW u \in S PROVE IsFiniteSet(Entries(t, u))
  <2>1. IsFiniteSet(1 .. t[u])
    BY FS_Interval
  <2>2. IsFiniteSet({u})
    BY FS_Singleton
  <2> QED BY <2>1, <2>2, FS_Product DEF Entries
<1>5. IsFiniteSet(UNION all)
  BY <1>3, <1>4, FS_UNION
<1> QED BY <1>5, FS_CardinalityType DEF Total

\* A user's share added to the total is added to the sum.
LEMMA TotalGrows ==
    ASSUME NEW t \in [Users -> Nat], NEW u \in Users, NEW cost \in Nat
    PROVE  Total([t EXCEPT ![u] = t[u] + cost], Users) = Total(t, Users) + cost
<1> DEFINE more == [t EXCEPT ![u] = t[u] + cost]
           old == UNION {Entries(t, v) : v \in Users}
           new == {u} \X (t[u] + 1 .. t[u] + cost)
<1>1. \A v \in Users \ {u} : Entries(more, v) = Entries(t, v)
  BY DEF Entries
<1>2. Entries(more, u) = Entries(t, u) \cup new
  <2>1. 1 .. t[u] + cost = (1 .. t[u]) \cup (t[u] + 1 .. t[u] + cost)
    OBVIOUS
  <2>2. more[u] = t[u] + cost
    OBVIOUS
  <2> QED BY <2>1, <2>2 DEF Entries
<1>3. UNION {Entries(more, v) : v \in Users} = old \cup new
  <2> HIDE DEF more, new
  <2> QED BY <1>1, <1>2
<1>4. old \cap new = {}
  BY DEF Entries
<1>5. IsFiniteSet(new) /\ Cardinality(new) = cost
  <2> DEFINE first == t[u] + 1
             last == t[u] + cost
             span == first .. last
  <2>1. IsFiniteSet(span) /\ Cardinality(span) = cost
    <3>1. first \in Int /\ last \in Int /\ last - first + 1 = cost /\ cost \in Nat
      OBVIOUS
    <3> HIDE DEF first, last
    <3>2. IsFiniteSet(span) /\ Cardinality(span) = IF first > last THEN 0 ELSE last - first + 1
      BY <3>1, FS_Interval
    <3> QED BY <3>1, <3>2
  <2>2. IsFiniteSet({u}) /\ Cardinality({u}) = 1
    BY FS_Singleton
  <2> HIDE DEF span
  <2>3. IsFiniteSet({u} \X span) /\ Cardinality({u} \X span) = 1 * cost
    BY <2>1, <2>2, FS_Product
  <2> QED BY <2>3 DEF span
<1>6. IsFiniteSet(old) /\ Cardinality(old) \in Nat
  BY EntriesAreFinite DEF Total
<1> HIDE DEF old, new, more
<1>7. Cardinality(old \cup new) = Cardinality(old) + cost
  <2>1. Cardinality(old \cup new) =
          Cardinality(old) + Cardinality(new) - Cardinality(old \cap new)
    BY <1>5, <1>6, FS_Union
  <2>2. Cardinality(old \cap new) = 0
    BY <1>4, FS_EmptySet
  <2> QED BY <1>5, <1>6, <2>1, <2>2
<1> QED BY <1>3, <1>7 DEF Total, old, more

\* Users without tokens do not count.
LEMMA TotalOfSome ==
    ASSUME NEW t \in [Users -> Nat], NEW S \in SUBSET Users, \A u \in Users \ S : t[u] = 0
    PROVE  Total(t, S) = Total(t, Users)
<1>1. \A u \in Users \ S : Entries(t, u) = {}
  BY DEF Entries
<1>2. UNION {Entries(t, u) : u \in S} = UNION {Entries(t, u) : u \in Users}
  BY <1>1
<1> QED BY <1>2 DEF Total

-----------------------------------------------------------------------------
(* Debts.                                                                  *)

\* Every step but the completions, the registrations and the rebalancing leaves
\* the books alone.
Idle ==
    \/ \E j \in Jobs : Start(j) \/ Failed(j) \/ Leave(j)
    \/ Credits
    \/ UNCHANGED vars

\* The invariant is inductive, one case per action.
LEMMA FairInvStep == FairInv /\ [Next]_vars => FairInv'
<1> SUFFICES ASSUME FairInv, [Next]_vars PROVE FairInv'
  OBVIOUS
<1> USE DEF userVars, history
<1>1. FairTypes /\ Registered /\ Balanced
  BY DEF FairInv
<1>2. CASE Idle
  <2>1. UNCHANGED <<known, deficit, recent, fresh, stale, global, used, lifted, joined, forgiven>>
    BY <1>2 DEF Idle, Start, Failed, Leave, Credits, vars
  <2>2. /\ jobs' \in [Jobs -> {"new", "queued", "running", "retrying", "rerunning", "done"}]
        /\ \A j \in Jobs : jobs'[j] # "new" => jobs[j] # "new"
    BY <1>1, <1>2 DEF Idle, Start, Failed, Leave, Credits, vars, FairTypes
  <2> QED BY <1>1, <2>1, <2>2 DEF FairInv, FairTypes, Registered, Balanced
<1>3. ASSUME NEW j \in Jobs, Submit(j) PROVE FairInv'
  <2> DEFINE u == Owner[j]
  <2>1. u \in Users
    OBVIOUS
  <2>2. /\ jobs' = [jobs EXCEPT ![j] = "queued"]
        /\ known' = known \cup {u}
        /\ joined' = [joined EXCEPT ![u] = IF u \in known THEN joined[u] ELSE lifted]
        /\ UNCHANGED <<deficit, recent, fresh, stale, global, used, lifted, forgiven>>
    BY <1>3 DEF Submit
  <2> HIDE DEF u
  <2>3. FairTypes'
    BY <1>1, <2>1, <2>2 DEF FairTypes
  <2>4. Registered'
    BY <1>1, <2>1, <2>2 DEF FairTypes, Registered, u
  <2>5. ASSUME NEW v \in known' PROVE deficit'[v] = lifted' - joined'[v] - used'[v] + forgiven'[v]
    <3>1. CASE v \in known
      <4>1. joined'[v] = joined[v]
        BY <1>1, <2>1, <2>2, <3>1 DEF FairTypes
      <4> QED BY <1>1, <2>2, <3>1, <4>1 DEF Balanced
    <3>2. CASE v \notin known
      <4>1. v = u /\ joined'[v] = lifted
        BY <1>1, <2>1, <2>2, <2>5, <3>2 DEF FairTypes
      <4>2. deficit[v] = 0 /\ used[v] = 0 /\ forgiven[v] = 0
        BY <1>1, <2>1, <3>2, <4>1 DEF Registered
      <4> QED BY <1>1, <2>2, <4>1, <4>2 DEF FairTypes
    <3> QED BY <3>1, <3>2
  <2> QED BY <2>3, <2>4, <2>5 DEF FairInv, Balanced
<1>4. ASSUME NEW j \in Jobs, Complete(j) PROVE FairInv'
  <2> DEFINE u == Owner[j]
  <2>1. u \in Users /\ u \in known
    BY <1>1, <1>4 DEF Complete, Registered
  <2>2. PICK cost \in Costs :
          /\ deficit' = [deficit EXCEPT ![u] = Charge(u, cost)]
          /\ recent' = [recent EXCEPT ![u] = recent[u] + cost]
          /\ global' = global + cost
          /\ fresh' = [fresh EXCEPT ![u] = fresh[u] + cost]
          /\ used' = [used EXCEPT ![u] = used[u] + cost]
          /\ forgiven' = [forgiven EXCEPT ![u] =
                            forgiven[u] + Charge(u, cost) - (deficit[u] - cost)]
    BY <1>4 DEF Complete
  <2>3. /\ jobs' = [jobs EXCEPT ![j] = "done"] /\ jobs[j] # "new"
        /\ UNCHANGED <<known, stale, lifted, joined>>
    BY <1>4 DEF Complete
  <2>4. cost \in Nat /\ Charge(u, cost) \in Int /\ Charge(u, cost) >= deficit[u] - cost
    BY <1>1, <2>1, ChargeBounds
  <2> DEFINE c == Charge(u, cost)
             more == forgiven[u] + c - (deficit[u] - cost)
  <2>5. c \in Int /\ c >= deficit[u] - cost /\ more \in Nat
    <3>1. forgiven[u] \in Nat /\ deficit[u] \in Int
      BY <1>1, <2>1 DEF FairTypes
    <3> QED BY <2>4, <3>1
  <2>6. deficit' = [deficit EXCEPT ![u] = c] /\ forgiven' = [forgiven EXCEPT ![u] = more]
    BY <2>2
  <2> HIDE DEF u, c
  <2>7. FairTypes'
    <3>1. deficit' \in [Users -> Int]
      BY <1>1, <2>5, <2>6 DEF FairTypes
    <3>2. forgiven' \in [Users -> Nat]
      <4> HIDE DEF more
      <4> QED BY <1>1, <2>5, <2>6 DEF FairTypes
    <3>3. recent' \in [Users -> Nat] /\ fresh' \in [Users -> Nat] /\ used' \in [Users -> Nat]
      <4>1. recent[u] + cost \in Nat /\ fresh[u] + cost \in Nat /\ used[u] + cost \in Nat
        BY <1>1, <2>1, <2>4 DEF FairTypes
      <4>2. recent' \in [Users -> Nat]
        BY <1>1, <2>2, <4>1 DEF FairTypes
      <4>3. fresh' \in [Users -> Nat]
        BY <1>1, <2>2, <4>1 DEF FairTypes
      <4>4. used' \in [Users -> Nat]
        BY <1>1, <2>2, <4>1 DEF FairTypes
      <4> QED BY <4>2, <4>3, <4>4
    <3>4. global' \in Nat
      BY <1>1, <2>2, <2>4 DEF FairTypes
    <3>5. jobs' \in [Jobs -> {"new", "queued", "running", "retrying", "rerunning", "done"}]
      BY <1>1, <2>3 DEF FairTypes
    <3> QED BY <1>1, <2>3, <3>1, <3>2, <3>3, <3>4, <3>5 DEF FairTypes
  <2>8. Registered'
    <3>1. \A v \in Users \ known : v # u
      BY <2>1
    <3>2. \A k \in Jobs : jobs'[k] # "new" => jobs[k] # "new"
      BY <1>1, <2>3 DEF FairTypes
    <3>3. \A v \in Users \ known :
             UNCHANGED <<deficit[v], used[v], forgiven[v], fresh[v], stale[v]>>
      <4> HIDE DEF more
      <4> QED BY <1>1, <2>2, <2>3, <2>6, <3>1 DEF FairTypes
    <3> QED BY <1>1, <2>3, <3>2, <3>3 DEF Registered
  <2>9. ASSUME NEW v \in known PROVE deficit'[v] = lifted - joined[v] - used'[v] + forgiven'[v]
    <3>1. CASE v # u
      BY <1>1, <2>2, <2>6, <3>1 DEF FairTypes, Balanced
    <3>2. CASE v = u
      <4>1. deficit'[u] = c /\ used'[u] = used[u] + cost /\ forgiven'[u] = more
        BY <1>1, <2>1, <2>2, <2>6 DEF FairTypes
      <4>2. /\ deficit[u] = lifted - joined[u] - used[u] + forgiven[u]
            /\ deficit[u] \in Int /\ lifted \in Nat /\ joined[u] \in Nat /\ used[u] \in Nat
            /\ forgiven[u] \in Nat
        BY <1>1, <2>1 DEF FairTypes, Balanced
      <4>3. c = lifted - joined[u] - (used[u] + cost) + more
        BY <2>4, <2>5, <4>2
      <4> QED BY <3>2, <4>1, <4>3
    <3> QED BY <3>1, <3>2
  <2> QED BY <2>3, <2>7, <2>8, <2>9 DEF FairInv, Balanced
<1>5. CASE Cleanup
  <2>1. /\ stale' = Zero /\ recent' = fresh /\ global' = Total(fresh, known)
        /\ UNCHANGED <<known, deficit, fresh, jobs, used, lifted, joined, forgiven>>
    BY <1>5 DEF Cleanup
  <2>2. global' \in Nat
    BY <1>1, <2>1, EntriesAreFinite DEF FairTypes
  <2>3. stale' \in [Users -> Nat] /\ \A u \in Users : stale'[u] = 0
    BY <2>1 DEF Zero
  <2> QED BY <1>1, <2>1, <2>2, <2>3 DEF FairInv, FairTypes, Registered, Balanced
<1>6. CASE Rebalance
  <2> DEFINE lowest == Min({deficit[u] : u \in known})
             shift == -lowest - RebalanceTo
  <2>1. UNCHANGED <<known, recent, fresh, stale, global, jobs, used, joined, forgiven>>
    BY <1>6 DEF Rebalance
  <2>2. CASE known # {} /\ lowest < -RebalanceBelow
    <3>1. deficit' = Shifted(shift) /\ lifted' = lifted + shift
      BY <1>6, <2>2 DEF Rebalance
    <3>2. shift \in Nat
      BY <1>1, <2>2, ShiftIsPositive
    <3> HIDE DEF shift
    <3>3. \A u \in Users : deficit'[u] = IF u \in known THEN deficit[u] + shift ELSE deficit[u]
      BY <3>1 DEF Shifted
    <3>4. deficit' \in [Users -> Int] /\ lifted' \in Nat
      BY <1>1, <3>1, <3>2 DEF Shifted, FairTypes
    <3>5. FairTypes'
      BY <1>1, <2>1, <3>4 DEF FairTypes
    <3>6. Registered'
      BY <1>1, <2>1, <3>3 DEF Registered
    <3>7. ASSUME NEW u \in known PROVE deficit'[u] = lifted' - joined[u] - used[u] + forgiven[u]
      <4>1. /\ deficit[u] = lifted - joined[u] - used[u] + forgiven[u]
            /\ lifted \in Nat /\ joined[u] \in Nat /\ used[u] \in Nat /\ forgiven[u] \in Nat
            /\ u \in Users
        BY <1>1 DEF FairTypes, Balanced
      <4> QED BY <3>1, <3>2, <3>3, <4>1
    <3> QED BY <2>1, <3>5, <3>6, <3>7 DEF FairInv, Balanced
  <2>3. CASE ~(known # {} /\ lowest < -RebalanceBelow)
    <3>1. UNCHANGED <<deficit, lifted>>
      BY <1>6, <2>3 DEF Rebalance
    <3> QED BY <1>1, <2>1, <3>1 DEF FairInv, FairTypes, Registered, Balanced
  <2> QED BY <2>2, <2>3
<1>7. ASSUME NEW u \in Users, Age(u) PROVE FairInv'
  <2>1. /\ stale' = [stale EXCEPT ![u] = stale[u] + fresh[u]] /\ fresh' = [fresh EXCEPT ![u] = 0]
        /\ fresh[u] > 0
        /\ UNCHANGED <<known, deficit, recent, global, jobs, used, lifted, joined, forgiven>>
    BY <1>7 DEF Age
  <2>2. stale' \in [Users -> Nat] /\ fresh' \in [Users -> Nat]
    BY <1>1, <2>1 DEF FairTypes
  <2>3. \A v \in Users \ known : fresh'[v] = 0 /\ stale'[v] = 0
    BY <1>1, <2>1 DEF FairTypes, Registered
  <2> QED BY <1>1, <2>1, <2>2, <2>3 DEF FairInv, FairTypes, Registered, Balanced
<1> QED BY <1>2, <1>3, <1>4, <1>5, <1>6, <1>7 DEF Next, Idle

\* It holds at the start.
LEMMA FairInvInit == Init => FairInv
<1> SUFFICES ASSUME Init PROVE FairInv
  OBVIOUS
<1>1. Zero \in [Users -> Nat] /\ Zero \in [Users -> Int] /\ \A u \in Users : Zero[u] = 0
  BY DEF Zero
<1> QED BY <1>1 DEF Init, FairInv, FairTypes, Registered, Balanced

\* DebtsFollowUsage for any users, jobs, costs and limits: a charge and a
\* rebalancing in any order leave two users registered between the same two
\* rebalancings, and never forgiven, apart by exactly what they used.
THEOREM DebtsAreFair == Spec => []DebtsFollowUsage
<1>1. FairInv => DebtsFollowUsage
  <2> SUFFICES ASSUME FairInv, NEW u \in known, NEW v \in known, joined[u] = joined[v],
                      forgiven[u] = 0, forgiven[v] = 0
               PROVE  deficit[u] - deficit[v] = used[v] - used[u]
    BY DEF DebtsFollowUsage
  <2>1. /\ deficit[u] = lifted - joined[u] - used[u] + 0
        /\ deficit[v] = lifted - joined[u] - used[v] + 0
    BY DEF FairInv, Balanced
  <2>2. lifted \in Nat /\ joined[u] \in Nat /\ used[u] \in Nat /\ used[v] \in Nat
    BY DEF FairInv, FairTypes
  <2> QED BY <2>1, <2>2
<1> QED BY <1>1, FairInvInit, FairInvStep, PTL DEF Spec

-----------------------------------------------------------------------------
(* The books.                                                              *)

\* A floor is not above zero.
LEMMA FloorIsNotPositive ==
    ASSUME NEW u \in Users
    PROVE  -Weight[u] * DebtPerWeight \in Int /\ -Weight[u] * DebtPerWeight <= 0
<1>1. Weight[u] \in Nat /\ DebtPerWeight \in Nat
  OBVIOUS
<1>2. \A w, d \in Nat : -w * d \in Int /\ -w * d <= 0
  OBVIOUS
<1> QED BY <1>1, <1>2

\* No step takes a deficit below the floor.
LEMMA FloorsStep == FairInv /\ Floors /\ [Next]_vars => Floors'
<1> SUFFICES ASSUME FairInv, Floors, [Next]_vars, NEW u \in Users
             PROVE  deficit'[u] >= -Weight[u] * DebtPerWeight
  BY DEF Floors
<1> USE DEF userVars, history
<1>1. /\ deficit[u] >= -Weight[u] * DebtPerWeight
      /\ deficit[u] \in Int /\ -Weight[u] * DebtPerWeight \in Int
      /\ FairTypes
  BY FloorIsNotPositive DEF Floors, FairInv, FairTypes
<1>2. CASE Rebalance
  <2> DEFINE lowest == Min({deficit[v] : v \in known})
             shift == -lowest - RebalanceTo
  <2>1. CASE known # {} /\ lowest < -RebalanceBelow
    <3>1. deficit' = Shifted(shift)
      BY <1>2, <2>1 DEF Rebalance
    <3>2. shift \in Nat
      BY <1>1, <2>1, ShiftIsPositive
    <3> HIDE DEF shift
    <3>3. deficit'[u] = deficit[u] \/ deficit'[u] = deficit[u] + shift
      BY <3>1 DEF Shifted
    <3> DEFINE floor == -Weight[u] * DebtPerWeight
    <3>4. deficit[u] >= floor /\ floor \in Int /\ deficit[u] \in Int
      BY <1>1
    <3> HIDE DEF floor
    <3>5. deficit'[u] >= floor
      BY <3>2, <3>3, <3>4
    <3> QED BY <3>5 DEF floor
  <2>2. CASE ~(known # {} /\ lowest < -RebalanceBelow)
    BY <1>1, <1>2, <2>2 DEF Rebalance
  <2> QED BY <2>1, <2>2
<1>3. ASSUME NEW j \in Jobs, Complete(j) PROVE deficit'[u] >= -Weight[u] * DebtPerWeight
  <2>1. PICK cost \in Costs : deficit' = [deficit EXCEPT ![Owner[j]] = Charge(Owner[j], cost)]
    BY <1>3 DEF Complete
  <2>2. CASE u = Owner[j]
    <3>1. deficit'[u] = Charge(u, cost)
      BY <1>1, <2>1, <2>2 DEF FairTypes
    <3> QED BY <1>1, <3>1, ChargeBounds
  <2>3. CASE u # Owner[j]
    BY <1>1, <2>1, <2>3 DEF FairTypes
  <2> QED BY <2>2, <2>3
<1>4. CASE Idle \/ Cleanup \/ (\E j \in Jobs : Submit(j)) \/ (\E v \in Users : Age(v))
  <2>1. deficit' = deficit
    BY <1>4 DEF Idle, Start, Failed, Leave, Credits, Cleanup, Submit, Age, vars
  <2> QED BY <1>1, <2>1
<1> QED BY <1>2, <1>3, <1>4 DEF Next, Idle

\* No step lets the recent usage of a user or the cluster drift from the history.
LEMMA WindowsStep == FairInv /\ Windows /\ [Next]_vars => Windows'
<1> SUFFICES ASSUME FairInv, Windows, [Next]_vars PROVE Windows'
  OBVIOUS
<1> USE DEF userVars, history
<1>1. FairTypes /\ Registered
  BY DEF FairInv
<1>2. CASE Idle \/ Rebalance \/ \E j \in Jobs : Submit(j)
  <2>1. UNCHANGED <<recent, fresh, stale, global>>
    BY <1>2 DEF Idle, Start, Failed, Leave, Credits, Rebalance, Submit, vars
  <2> QED BY <2>1 DEF Windows
<1>3. ASSUME NEW j \in Jobs, Complete(j) PROVE Windows'
  <2> DEFINE u == Owner[j]
  <2>1. PICK cost \in Costs : /\ recent' = [recent EXCEPT ![u] = recent[u] + cost]
                              /\ global' = global + cost
                              /\ fresh' = [fresh EXCEPT ![u] = fresh[u] + cost]
    BY <1>3 DEF Complete
  <2>2. stale' = stale /\ u \in Users /\ cost \in Nat
    BY <1>3 DEF Complete
  <2> HIDE DEF u
  <2>3. \A v \in Users : recent'[v] = fresh'[v] + stale'[v]
    BY <1>1, <2>1, <2>2 DEF Windows, FairTypes
  <2>4. Total(recent', Users) = Total(recent, Users) + cost
    BY <1>1, <2>1, <2>2, TotalGrows DEF FairTypes
  <2> QED BY <2>1, <2>3, <2>4 DEF Windows, Total, Entries
<1>4. CASE Cleanup
  <2>1. stale' = Zero /\ recent' = fresh /\ global' = Total(fresh, known) /\ fresh' = fresh
    BY <1>4 DEF Cleanup
  <2>2. \A v \in Users : recent'[v] = fresh'[v] + stale'[v]
    BY <1>1, <2>1 DEF FairTypes, Zero
  <2>3. Total(fresh, known) = Total(fresh, Users)
    BY <1>1, TotalOfSome DEF FairTypes, Registered
  <2> QED BY <2>1, <2>2, <2>3 DEF Windows, Total, Entries
<1>5. ASSUME NEW u \in Users, Age(u) PROVE Windows'
  <2>1. /\ stale' = [stale EXCEPT ![u] = stale[u] + fresh[u]] /\ fresh' = [fresh EXCEPT ![u] = 0]
        /\ UNCHANGED <<recent, global>>
    BY <1>5 DEF Age
  <2>2. \A v \in Users : recent'[v] = fresh'[v] + stale'[v]
    BY <1>1, <2>1 DEF Windows, FairTypes
  <2> QED BY <2>1, <2>2 DEF Windows, Total, Entries
<1> QED BY <1>2, <1>3, <1>4, <1>5 DEF Next, Idle

\* No step counts more active requests than attempts, or leaves the credits' range.
LEMMA RunningStep == FairInv /\ Running /\ [Next]_vars => Running'
<1> SUFFICES ASSUME FairInv, Running, [Next]_vars PROVE Running'
  OBVIOUS
<1> USE DEF userVars, history
<1>1. \A u \in Users : active[u] \in Nat /\ active[u] <= starts
  BY DEF Running
<1>2. starts \in Nat
  BY DEF Running
<1>3. ASSUME NEW j \in Jobs, Start(j) PROVE Running'
  <2>1. /\ starts < MaxStarts /\ starts' = starts + 1
        /\ active' = [active EXCEPT ![Owner[j]] = active[Owner[j]] + 1]
        /\ UNCHANGED <<credits, round>>
    BY <1>3 DEF Start
  <2>2. active' \in [Users -> Nat]
    BY <1>1, <2>1 DEF Running
  <2>3. \A u \in Users : active'[u] <= starts'
    BY <1>1, <1>2, <2>1 DEF Running
  <2>4. starts' \in 0 .. MaxStarts
    BY <1>2, <2>1
  <2> QED BY <2>1, <2>2, <2>3, <2>4 DEF Running
<1>4. ASSUME NEW j \in Jobs, Complete(j) PROVE Running'
  <2> DEFINE u == Owner[j]
             less == Max({0, active[u] - 1})
  <2>1. active' = [active EXCEPT ![u] = less] /\ UNCHANGED <<credits, starts, round>>
    BY <1>4 DEF Complete
  <2>2. active[u] - 1 \in Int /\ active[u] \in Nat
    BY <1>1
  <2>3. less = IF 0 >= active[u] - 1 THEN 0 ELSE active[u] - 1
    BY <2>2, MaxOfTwo
  <2> HIDE DEF less
  <2>4. less \in Nat /\ less <= active[u]
    BY <2>2, <2>3
  <2>5. active' \in [Users -> Nat]
    BY <2>1, <2>4 DEF Running
  <2>6. \A v \in Users : active'[v] <= starts
    BY <1>1, <1>2, <2>1, <2>4 DEF Running
  <2> QED BY <2>1, <2>5, <2>6 DEF Running
<1>5. CASE Credits
  <2>1. ASSUME NEW u \in Users PROVE credits'[u] \in 0 .. CreditCap
    <3> DEFINE earned == credits[u] + CreditRate * Weight[u]
    <3>1. credits[u] \in 0 .. CreditCap /\ credits[u] \div 2 \in 0 .. CreditCap
      <4>1. credits[u] \in Nat /\ credits[u] <= CreditCap
        BY DEF Running
      <4>2. credits[u] \div 2 \in Nat /\ credits[u] \div 2 <= credits[u]
        BY <4>1
      <4> QED BY <4>1, <4>2
    <3>2. earned \in Nat
      <4>1. Weight[u] \in Nat /\ CreditRate \in Nat
        OBVIOUS
      <4>2. \A r, w \in Nat : r * w \in Nat
        OBVIOUS
      <4> QED BY <3>1, <4>1, <4>2
    <3>3. credits'[u] \in {credits[u], credits[u] \div 2, Min({earned, CreditCap})}
      BY <1>5 DEF Credits
    <3> HIDE DEF earned
    <3>4. Min({earned, CreditCap}) \in 0 .. CreditCap
      BY <3>2, MinOfTwo
    <3> QED BY <3>1, <3>3, <3>4
  <2>2. credits' \in [Users -> 0 .. CreditCap]
    BY <1>5, <2>1 DEF Credits
  <2>3. UNCHANGED <<active, starts>> /\ round' = "cleanup"
    BY <1>5 DEF Credits
  <2> QED BY <2>2, <2>3 DEF Running
<1>6. CASE Cleanup \/ Rebalance
  <2>1. UNCHANGED <<active, starts, credits>> /\ round' \in {"rebalance", "credits"}
    BY <1>6 DEF Cleanup, Rebalance
  <2> QED BY <2>1 DEF Running
<1>7. CASE \/ \E j \in Jobs : Submit(j) \/ Failed(j) \/ Leave(j)
           \/ (\E u \in Users : Age(u)) \/ UNCHANGED vars
  <2>1. UNCHANGED <<active, starts, credits, round>>
    BY <1>7 DEF Submit, Failed, Leave, Age, vars
  <2> QED BY <2>1 DEF Running
<1> QED BY <1>3, <1>4, <1>5, <1>6, <1>7 DEF Next

\* The books are right at the start.
LEMMA BooksInit == Init => Floors /\ Windows /\ Running
<1> SUFFICES ASSUME Init PROVE Floors /\ Windows /\ Running
  OBVIOUS
<1>1. Zero \in [Users -> Nat] /\ Zero \in [Users -> 0 .. CreditCap]
      /\ \A u \in Users : Zero[u] = 0
  BY DEF Zero
<1>2. Floors
  BY <1>1, FloorIsNotPositive DEF Init, Floors
<1>3. Total(Zero, Users) = 0
  <2>1. UNION {Entries(Zero, u) : u \in Users} = {}
    BY <1>1 DEF Entries
  <2> QED BY <2>1, FS_EmptySet DEF Total
<1>4. Windows
  BY <1>1, <1>3 DEF Init, Windows
<1>5. Running
  BY <1>1 DEF Init, Running
<1> QED BY <1>2, <1>4, <1>5

\* TypeOK for any users, jobs, costs and limits: debts are bounded by the weight,
\* credits by the cap, and the usage that penalises is what the history holds.
THEOREM BooksRight == Spec => []TypeOK
<1>1. FairInv /\ Floors /\ Windows /\ Running => TypeOK
  <2> SUFFICES ASSUME FairTypes, Floors, Windows, Running PROVE TypeOK
    BY DEF FairInv
  <2>1. recent = [u \in Users |-> fresh[u] + stale[u]]
    BY DEF FairTypes, Windows
  <2>2. active \in [Users -> 0 .. MaxStarts]
    BY DEF Running
  <2> QED BY <2>1, <2>2 DEF FairTypes, Floors, Windows, Running, TypeOK
<1> QED BY <1>1, FairInvInit, FairInvStep, BooksInit, FloorsStep, WindowsStep, RunningStep, PTL
        DEF Spec

-----------------------------------------------------------------------------
(* Priorities.                                                             *)

\* A heavy user's factor is a positive fraction, at most one.
LEMMA FactorIsPenalty ==
    ASSUME FairTypes, NEW u \in Users, Heavy(u)
    PROVE  /\ FactorNum(u) \in Nat \ {0} /\ FactorDen(u) \in Nat
           /\ FactorNum(u) <= FactorDen(u)
<1>1. global \in Nat \ {0} /\ recent[u] \in Nat /\ 2 * recent[u] > global
  BY DEF FairTypes, Heavy
<1>2. FactorNum(u) = Max({global, 20 * (global - recent[u])}) /\ FactorDen(u) = 10 * global
  BY DEF FactorNum, FactorDen
<1> DEFINE rest == 20 * (global - recent[u])
<1>3. rest \in Int /\ rest < 10 * global
  BY <1>1
<1> HIDE DEF rest
<1>4. Max({global, rest}) = IF global >= rest THEN global ELSE rest
  BY <1>1, <1>3, MaxOfTwo
<1>5. Max({global, rest}) \in Nat \ {0} /\ Max({global, rest}) <= 10 * global
  BY <1>1, <1>3, <1>4
<1> QED BY <1>1, <1>2, <1>5 DEF rest

\* A fraction below one takes a balance that is not negative no further up.
LEMMA FractionsYield ==
    ASSUME NEW x \in Int, NEW y \in Int, x <= y, x >= 0 \/ y >= 0,
           NEW n \in Nat, NEW d \in Nat, n <= d
    PROVE  x * n <= y * d
<1>1. CASE x >= 0
  <2>1. x * n <= x * d
    BY <1>1
  <2>2. x * d <= y * d
    BY <1>1
  <2> QED BY <2>1, <2>2
<1>2. CASE x < 0
  <2>1. x * n <= 0
    BY <1>2
  <2>2. y * d >= 0
    BY <1>2
  <2> QED BY <2>1, <2>2
<1> QED BY <1>1, <1>2

\* HeavyUsersYield for any weights, usage and credits.
THEOREM HeavyUsersDoNotOvertake == Spec => []HeavyUsersYield
<1>1. FairInv /\ Running => HeavyUsersYield
  <2> SUFFICES ASSUME FairInv, Running PROVE HeavyUsersYield
    OBVIOUS
  <2>1. ASSUME NEW w \in known PROVE w \in Users /\ Balance(w) \in Int
    <3>1. w \in Users
      BY DEF FairInv, FairTypes
    <3>2. deficit[w] \in Int /\ credits[w] \in 0 .. CreditCap
      BY <3>1 DEF FairInv, FairTypes, Running
    <3> QED BY <3>1, <3>2 DEF Balance
  <2> SUFFICES ASSUME NEW u \in known, NEW v \in known, Heavy(u), ~Heavy(v),
                      Balance(u) * Weight[v] <= Balance(v) * Weight[u],
                      Balance(u) >= 0 \/ Balance(v) >= 0
               PROVE  AtLeast(v, u)
    BY <2>1 DEF HeavyUsersYield
  <2> DEFINE bu == Balance(u)
             bv == Balance(v)
             wu == Weight[u]
             wv == Weight[v]
             n == FactorNum(u)
             d == FactorDen(u)
  <2>2. FairTypes /\ u \in Users /\ v \in Users
    BY <2>1 DEF FairInv
  <2>3. bu \in Int /\ bv \in Int /\ wu \in Nat /\ wv \in Nat
    BY <2>1, <2>2
  <2>4. n \in Nat /\ d \in Nat /\ n <= d
    BY <2>2, FactorIsPenalty
  <2>5. FactorNum(v) = 1 /\ FactorDen(v) = 1
    BY DEF FactorNum, FactorDen
  <2>6. bu * wv <= bv * wu /\ (bu >= 0 \/ bv >= 0)
    OBVIOUS
  <2>7. AtLeast(v, u) <=> bv * 1 * wu * d >= bu * n * wv * 1
    BY <2>5 DEF AtLeast
  <2> HIDE DEF bu, bv, wu, wv, n, d
  <2>8. bu * wv \in Int /\ bv * wu \in Int /\ (bu * wv >= 0 \/ bv * wu >= 0)
    <3>1. \A b \in Int, w \in Nat : b * w \in Int /\ (b >= 0 => b * w >= 0)
      OBVIOUS
    <3> QED BY <2>3, <2>6, <3>1
  <2>9. (bu * wv) * n <= (bv * wu) * d
    <3> DEFINE x == bu * wv
               y == bv * wu
    <3>1. x \in Int /\ y \in Int /\ x <= y /\ (x >= 0 \/ y >= 0)
      BY <2>6, <2>8
    <3> HIDE DEF x, y
    <3>2. x * n <= y * d
      BY <2>4, <3>1, FractionsYield
    <3> QED BY <3>2 DEF x, y
  <2>10. bv * 1 * wu * d = (bv * wu) * d /\ bu * n * wv * 1 = (bu * wv) * n
    BY <2>3, <2>4
  <2>11. (bv * wu) * d \in Int /\ (bu * wv) * n \in Int
    BY <2>3, <2>4
  <2> QED BY <2>7, <2>9, <2>10, <2>11
<1>2. Spec => []Running
  BY FairInvInit, FairInvStep, BooksInit, RunningStep, PTL DEF Spec
<1>3. Spec => []FairInv
  BY FairInvInit, FairInvStep, PTL DEF Spec
<1> QED BY <1>1, <1>2, <1>3, PTL

=============================================================================
