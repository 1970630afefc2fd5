------------------------------ MODULE FairShare ------------------------------
(***************************************************************************)
(* Fair sharing among users (core/scheduler/fairshare.py) driven by the    *)
(* router (core/scheduler/routing.py) and its queue (queue.py).            *)
(*                                                                         *)
(* Every user has a deficit, which completed work lowers and a periodic    *)
(* rebalancing lifts for all, burst credits, which an idle cluster hands   *)
(* out, and the tokens used in the fairness window.  A job's priority is   *)
(* computed from them when it is submitted, when maintenance runs and when *)
(* the job waits for capacity.  Each method of the manager holds its lock  *)
(* and does not suspend; the maintenance loop suspends between two of      *)
(* them.                                                                   *)
(*                                                                         *)
(* Time is the age of usage: an entry of the history is in the window or   *)
(* has left it.  Amounts are scaled by the constants, halved credits are   *)
(* rounded down; priorities are fractions and are compared by              *)
(* cross-multiplication.  recent_requests is never read and is left out.   *)
(***************************************************************************)
EXTENDS Integers, FiniteSets, FiniteSetsExt

CONSTANTS
    Users,
    Jobs,           \* each is submitted once
    Owner,          \* the user of each job
    Weight,         \* scheduler weight of each user's group
    Costs,          \* tokens a job may use
    DebtPerWeight,  \* 10000: the deficit stays above -weight times this
    RebalanceBelow, \* 1000: a deficit lower than minus this starts a rebalancing
    RebalanceTo,    \* 500: ... which lifts the lowest to minus this
    CreditCap,      \* max_burst_credits
    CreditRate,     \* credits of an idle period for a weight of 1
    MaxStarts       \* bound on the attempts that are started

ASSUME FairShareAssumption ==
    /\ IsFiniteSet(Users)
    /\ Owner \in [Jobs -> Users]
    /\ Weight \in [Users -> Nat \ {0}]
    /\ Costs \subseteq Nat \ {0}
    /\ DebtPerWeight \in Nat /\ RebalanceBelow \in Nat /\ RebalanceTo \in Nat
    /\ RebalanceTo <= RebalanceBelow
    /\ CreditCap \in Nat /\ CreditRate \in Nat
    /\ MaxStarts \in Nat

VARIABLES
    known,      \* keys of _user_states
    deficit,
    credits,    \* burst_credits
    recent,     \* recent_tokens
    active,     \* active_requests
    fresh,      \* tokens of the usage history that are inside the window
    stale,      \* tokens of the usage history that have left the window
    global,     \* _global_recent_tokens
    jobs,       \* where each job is
    starts,     \* attempts started so far
    round,      \* next step of the maintenance loop
    used,       \* history: tokens each user was charged
    lifted,     \* history: sum of all shifts
    joined,     \* history: lifted when the user was registered
    forgiven    \* history: debt each user was not charged because of the floor

userVars == <<known, deficit, credits, recent, active, fresh, stale, global>>

history == <<used, lifted, joined, forgiven>>

vars == <<userVars, jobs, starts, round, history>>

Zero == [u \in Users |-> 0]

Init ==
    /\ known = {}
    /\ deficit = Zero
    /\ credits = Zero
    /\ recent = Zero
    /\ active = Zero
    /\ fresh = Zero
    /\ stale = Zero
    /\ global = 0
    /\ jobs = [j \in Jobs |-> "new"]
    /\ starts = 0
    /\ round = "cleanup"
    /\ used = Zero
    /\ lifted = 0
    /\ joined = Zero
    /\ forgiven = Zero

-----------------------------------------------------------------------------
(* Priority: the fraction Balance * FactorNum / (Weight * FactorDen).      *)

\* The user is above scheduler_deprioritize_threshold, one half.
Heavy(u) == global > 0 /\ 2 * recent[u] > global

\* _compute_deprioritization: max(0.1, 1 - 2 * excess), as a fraction.
FactorDen(u) == IF Heavy(u) THEN 10 * global ELSE 1

\* Mutant: the excess is added instead of subtracted.
FactorNumBoost(u) == IF Heavy(u) THEN 20 * recent[u] ELSE 1

FactorNum(u) ==
    IF Heavy(u) THEN Max({global, 20 * (global - recent[u])}) ELSE 1

Balance(u) == deficit[u] + credits[u]

\* compute_priority without the wait bonus: u is ahead of v or level with it.
AtLeast(u, v) ==
    Balance(u) * FactorNum(u) * Weight[v] * FactorDen(v)
       >= Balance(v) * FactorNum(v) * Weight[u] * FactorDen(u)

-----------------------------------------------------------------------------
(* Jobs.                                                                   *)

\* submit_job: register_user, compute_priority, on_job_queued, enqueue.
Submit(j) ==
    /\ jobs[j] = "new"
    /\ jobs' = [jobs EXCEPT ![j] = "queued"]
    /\ known' = known \cup {Owner[j]}
    /\ joined' = [joined EXCEPT ![Owner[j]] = IF Owner[j] \in known THEN @ ELSE lifted]
    /\ UNCHANGED <<deficit, credits, recent, active, fresh, stale, global, starts,
                   round, used, lifted, forgiven>>

\* on_job_started: once per attempt.
Start(j) ==
    /\ starts < MaxStarts
    /\ jobs[j] \in {"queued", "retrying"}
    /\ starts' = starts + 1
    /\ jobs' = [jobs EXCEPT ![j] = IF @ = "queued" THEN "running" ELSE "rerunning"]
    /\ active' = [active EXCEPT ![Owner[j]] = @ + 1]
    /\ UNCHANGED <<known, deficit, credits, recent, fresh, stale, global, round>>
    /\ UNCHANGED history

\* Mutant: the debt is not bounded below.
ChargeNoFloor(u, cost) == deficit[u] - cost

\* The deficit after a charge.
Charge(u, cost) == Max({deficit[u] - cost, -Weight[u] * DebtPerWeight})

\* on_job_completed: the user is charged and the usage recorded; the job leaves the
\* queue.
Complete(j) ==
    LET u == Owner[j] IN
    /\ jobs[j] \in {"running", "rerunning"}
    /\ \E cost \in Costs :
          /\ deficit' = [deficit EXCEPT ![u] = Charge(u, cost)]
          /\ recent' = [recent EXCEPT ![u] = @ + cost]
          /\ global' = global + cost
          /\ fresh' = [fresh EXCEPT ![u] = @ + cost]
          /\ used' = [used EXCEPT ![u] = @ + cost]
          /\ forgiven' = [forgiven EXCEPT ![u] = @ + Charge(u, cost) - (deficit[u] - cost)]
    /\ active' = [active EXCEPT ![u] = Max({0, @ - 1})]
    /\ jobs' = [jobs EXCEPT ![j] = "done"]
    /\ UNCHANGED <<known, credits, stale, starts, round, lifted, joined>>

\* on_job_failed of the router: the job leaves the queue; the manager is not told.
\* It is routed again or fails.
Failed(j) ==
    /\ jobs[j] \in {"running", "rerunning"}
    /\ \E next \in {"retrying", "done"} : jobs' = [jobs EXCEPT ![j] = next]
    /\ UNCHANGED <<starts, round>>
    /\ UNCHANGED userVars
    /\ UNCHANGED history

\* The client goes away before an attempt starts.
Leave(j) ==
    /\ jobs[j] \in {"queued", "retrying"}
    /\ jobs' = [jobs EXCEPT ![j] = "done"]
    /\ UNCHANGED <<starts, round>>
    /\ UNCHANGED userVars
    /\ UNCHANGED history

-----------------------------------------------------------------------------
(* Maintenance: every 30 seconds, in this order.                           *)

\* The usage history of a user, token by token, and how many tokens those of the
\* users have together.
Entries(tokens, u) == {u} \X (1 .. tokens[u])
Total(tokens, users) == Cardinality(UNION {Entries(tokens, u) : u \in users})

\* cleanup_old_history.
Cleanup ==
    /\ round = "cleanup"
    /\ round' = "rebalance"
    /\ stale' = Zero
    /\ recent' = fresh
    /\ global' = Total(fresh, known)
    /\ UNCHANGED <<known, deficit, credits, active, fresh, jobs, starts>>
    /\ UNCHANGED history

\* Mutant: only the users in deep debt are lifted.
ShiftedDebtors(shift) ==
    [u \in Users |-> IF u \in known /\ deficit[u] < -RebalanceBelow
                     THEN deficit[u] + shift ELSE deficit[u]]

\* Every known user's deficit moved up by shift.
Shifted(shift) ==
    [u \in Users |-> IF u \in known THEN deficit[u] + shift ELSE deficit[u]]

\* rebalance_deficits.
Rebalance ==
    LET lowest == Min({deficit[u] : u \in known})
        shift == -lowest - RebalanceTo
    IN
    /\ round = "rebalance"
    /\ round' = "credits"
    /\ IF known # {} /\ lowest < -RebalanceBelow
       THEN /\ deficit' = Shifted(shift)
            /\ lifted' = lifted + shift
       ELSE UNCHANGED <<deficit, lifted>>
    /\ UNCHANGED <<known, credits, recent, active, fresh, stale, global, jobs, starts,
                   used, joined, forgiven>>

\* recompute_priorities changes job.priority only; accumulate_burst_credits when the
\* queue is empty, reset_burst_credits otherwise.
Credits ==
    /\ round = "credits"
    /\ round' = "cleanup"
    /\ credits' = [u \in Users |->
                     IF u \notin known THEN credits[u]
                     ELSE IF \E j \in Jobs : jobs[j] \in {"queued", "running"}
                          THEN credits[u] \div 2
                          ELSE Min({credits[u] + CreditRate * Weight[u], CreditCap})]
    /\ UNCHANGED <<known, deficit, recent, active, fresh, stale, global, jobs, starts>>
    /\ UNCHANGED history

\* The usage of a user leaves the window.
Age(u) ==
    /\ fresh[u] > 0
    /\ stale' = [stale EXCEPT ![u] = @ + fresh[u]]
    /\ fresh' = [fresh EXCEPT ![u] = 0]
    /\ UNCHANGED <<known, deficit, credits, recent, active, global, jobs, starts, round>>
    /\ UNCHANGED history

-----------------------------------------------------------------------------
Next ==
    \/ \E j \in Jobs : Submit(j) \/ Start(j) \/ Complete(j) \/ Failed(j) \/ Leave(j)
    \/ Cleanup \/ Rebalance \/ Credits
    \/ \E u \in Users : Age(u)

Spec == Init /\ [][Next]_vars

-----------------------------------------------------------------------------
(* Properties.                                                             *)

\* Types, and: the debt is bounded by the weight; the usage that penalises a user is
\* what its history holds, and the cluster's is the sum over the users.
TypeOK ==
    /\ known \subseteq Users
    /\ deficit \in [Users -> Int]
    /\ \A u \in Users : deficit[u] >= -Weight[u] * DebtPerWeight
    /\ credits \in [Users -> 0 .. CreditCap]
    /\ active \in [Users -> 0 .. MaxStarts]
    /\ fresh \in [Users -> Nat] /\ stale \in [Users -> Nat]
    /\ recent = [u \in Users |-> fresh[u] + stale[u]]
    /\ global = Total(recent, Users)
    /\ jobs \in [Jobs -> {"new", "queued", "running", "retrying", "rerunning", "done"}]
    /\ starts \in 0 .. MaxStarts
    /\ round \in {"cleanup", "rebalance", "credits"}

\* Service is accounted fairly: whatever the interleaving of completions and
\* rebalancings, two users registered between the same two rebalancings and never
\* forgiven a debt differ in deficit by exactly what they used (a rebalancing lifts
\* all alike, so nobody buys an advantage by the moment its work completes).
DebtsFollowUsage ==
    \A u, v \in known :
       (joined[u] = joined[v] /\ forgiven[u] = 0 /\ forgiven[v] = 0)
          => deficit[u] - deficit[v] = used[v] - used[u]

\* "Big users are deprioritized": a user over the threshold does not overtake one
\* under it whose balance per weight is at least as good.  The exception is that both
\* balances are negative, the usual sign after any use: there the factor, which is
\* below one, raises the priority of the heavy user.
HeavyUsersYield ==
    \A u, v \in known :
       (Heavy(u) /\ ~Heavy(v) /\ Balance(u) * Weight[v] <= Balance(v) * Weight[u])
          => AtLeast(v, u) \/ (Balance(u) < 0 /\ Balance(v) < 0)

=============================================================================
