------------------------------- MODULE Quota -------------------------------
(***************************************************************************)
(* Token accounting of one user: the quotas row in the database, the       *)
(* period counter in Redis that every process increments, the budget test  *)
(* of a request, the reservation and refund of a video job, the reset at   *)
(* the end of a budget period, the loops that copy the Redis counter into  *)
(* the row, and the seeding of both when a process starts.                 *)
(*                                                                         *)
(* Every request costs one token.  A step is one database transaction or   *)
(* one Redis command; a transaction that has flushed its change of the row *)
(* holds the row until it commits or rolls back.                           *)
(***************************************************************************)
EXTENDS Integers, FiniteSets

CONSTANTS
    Chats,       \* requests that are charged when they complete
    Videos,      \* requests that reserve their tokens when they are accepted
    Offline,     \* the requests served by processes without Redis
    Processes,   \* processes with Redis, each with a sync loop
    Budget,      \* Group.token_budget
    MaxPeriods,  \* bound: budget periods that pass
    MaxLost,     \* bound: Redis commands that fail
    MaxSeeds,    \* bound: processes that are started again
    NoOne,       \* nobody holds the row
    NoKey        \* the key does not exist

Requests == Chats \cup Videos

ASSUME QuotaAssumption ==
    /\ IsFiniteSet(Requests) /\ Chats \cap Videos = {}
    /\ Offline \subseteq Requests /\ NoOne \notin Requests
    /\ Budget \in Nat \ {0} /\ MaxPeriods \in Nat /\ MaxLost \in Nat /\ MaxSeeds \in Nat
    /\ NoKey \notin Int

VARIABLES
    row,    \* Quota: budget_period_start, tokens_used, lifetime_tokens_used
    lock,   \* the request whose uncommitted reset holds the row
    tok,    \* Redis quota:tokens:<user>
    now,    \* the period the clock is in
    pc,     \* where each request is
    seen,   \* the counters as each request has loaded them, while it needs them
    snap,   \* what each sync loop or seeding is about to write
    paid,   \* history: the period whose counters each request was charged to, 0 if none
    back,   \* history: reservations given back
    clean,  \* history: no command failed, no reset met work in progress, no seeding
    lost, seeds

vars == <<row, lock, tok, now, pc, seen, snap, paid, back, clean, lost, seeds>>
histVars == <<paid, back>>

Busy == {"reset", "key", "test", "run", "incr", "rendering", "refund"}
Idle == [used |-> NoKey, was |-> NoKey, period |-> 0, seeding |-> FALSE]
Nothing == [used |-> 0, life |-> 0]

Init ==
    /\ row = [period |-> 1, used |-> 0, life |-> 0]
    /\ lock = NoOne /\ tok = 0 /\ now = 1
    /\ pc = [r \in Requests |-> "new"]
    /\ seen = [r \in Requests |-> Nothing]
    /\ snap = [w \in Processes |-> Idle]
    /\ paid = [r \in Requests |-> 0]
    /\ back = {} /\ clean = TRUE /\ lost = 0 /\ seeds = 0

Goto(r, label) == pc' = [pc EXCEPT ![r] = label]
Drop(r) == seen' = [seen EXCEPT ![r] = Nothing]

\* Nobody but r is between two steps that touch the counters.
Alone(r) ==
    /\ \A q \in Requests \ {r} : pc[q] \notin Busy \ {"run", "test"}
    /\ \A w \in Processes : snap[w] = Idle

Plus(n) == IF tok = NoKey THEN n ELSE tok + n

\* A Redis command of r's process: carried out, or it fails and is logged.
Redis(r, value) ==
    \/ r \notin Offline /\ tok' = value /\ UNCHANGED lost
    \/ r \notin Offline /\ lost < MaxLost /\ lost' = lost + 1 /\ UNCHANGED tok
    \/ r \in Offline /\ UNCHANGED <<tok, lost>>

-----------------------------------------------------------------------------
(* Requests.                                                               *)

\* reset_quota_if_needed loads the row.
Load(r) ==
    /\ pc[r] = "new"
    /\ seen' = [seen EXCEPT ![r] = [Nothing EXCEPT !.used = row.used]]
    /\ Goto(r, IF row.period < now THEN "reset" ELSE "test")
    /\ UNCHANGED <<row, lock, tok, now, snap, histVars, clean, lost, seeds>>

\* Its period is over: the new period is flushed ...
Reset(r) ==
    /\ pc[r] = "reset" /\ lock = NoOne
    /\ lock' = r
    /\ Goto(r, "key")
    /\ clean' = (clean /\ Alone(r) /\ row.period < now)
    /\ UNCHANGED <<row, tok, now, seen, snap, histVars, lost, seeds>>

\* ... and the Redis counter is deleted before the commit.
ResetTokens(r) ==
    /\ pc[r] = "key"
    /\ Redis(r, NoKey)
    /\ Goto(r, "test")
    /\ clean' = (clean /\ Alone(r) /\ lost' = lost /\ r \notin Offline)
    /\ UNCHANGED <<row, lock, now, seen, snap, histVars, seeds>>

\* What r sees as used, its own uncommitted reset included.
Used(r) == IF lock = r THEN 0 ELSE seen[r].used

\* The row once r's transaction is committed; the session writes the columns
\* that differ from what it loaded.
Committed(r) ==
    IF lock = r
      THEN [row EXCEPT !.period = now, !.used = IF seen[r].used = 0 THEN @ ELSE 0]
      ELSE row

Unlock(r) == lock' = IF lock = r THEN NoOne ELSE lock

\* Mutant: the refused request's transaction is left open.
RefuseOpen(r) ==
    /\ pc[r] = "test"
    /\ r \in Videos => Used(r) + 1 > Budget
    /\ Drop(r)
    /\ Goto(r, "refused")
    /\ clean' = (clean /\ lock # r)
    /\ UNCHANGED <<row, lock, tok, now, snap, histVars, lost, seeds>>

\* 429, over the budget or over the rate limit: the transaction is rolled back.
Refuse(r) ==
    /\ pc[r] = "test"
    /\ r \in Videos => Used(r) + 1 > Budget
    /\ Unlock(r)
    /\ Drop(r)
    /\ Goto(r, "refused")
    /\ clean' = (clean /\ lock # r)
    /\ UNCHANGED <<row, tok, now, snap, histVars, lost, seeds>>

\* _check_quota passes; _create_request_record commits.
Accept(r) ==
    /\ pc[r] = "test" /\ r \in Chats
    /\ Used(r) < Budget
    /\ row' = Committed(r)
    /\ Unlock(r)
    /\ Drop(r)
    /\ Goto(r, "run")
    /\ UNCHANGED <<tok, now, snap, histVars, clean, lost, seeds>>

\* update_quota_usage: the lifetime counter, and without Redis the period's too.
Charged(r, q) ==
    [q EXCEPT !.life = @ + 1, !.used = IF r \in Offline THEN @ + 1 ELSE @]

\* reserve_video_tokens and the commit of the job.
Reserve(r) ==
    /\ pc[r] = "test" /\ r \in Videos
    /\ Used(r) + 1 <= Budget
    /\ lock \in {r, NoOne}
    /\ row' = Charged(r, Committed(r))
    /\ paid' = [paid EXCEPT ![r] = row'.period]
    /\ Unlock(r)
    /\ Drop(r)
    /\ Goto(r, "incr")
    /\ UNCHANGED <<tok, now, snap, back, clean, lost, seeds>>

\* The completion's transaction is committed.
Complete(r) ==
    /\ pc[r] = "run" /\ lock = NoOne
    /\ row' = Charged(r, row)
    /\ paid' = [paid EXCEPT ![r] = row.period]
    /\ Goto(r, "incr")
    /\ UNCHANGED <<lock, tok, now, seen, snap, back, clean, lost, seeds>>

\* The request fails, or its completion is not written: nothing is charged.
Fail(r) ==
    /\ pc[r] = "run"
    /\ Goto(r, "done")
    /\ UNCHANGED <<row, lock, tok, now, seen, snap, histVars, clean, lost, seeds>>

\* Mutant: the reservation is not added to the Redis counter.
IncrChatsOnly(r) ==
    /\ pc[r] = "incr"
    /\ Redis(r, IF r \in Chats THEN Plus(1) ELSE tok)
    /\ Goto(r, IF r \in Chats THEN "done" ELSE "rendering")
    /\ clean' = (clean /\ lost' = lost /\ r \notin Offline)
    /\ UNCHANGED <<row, lock, now, seen, snap, histVars, seeds>>

\* incr_quota_redis after the commit.
Incr(r) ==
    /\ pc[r] = "incr"
    /\ Redis(r, Plus(1))
    /\ Goto(r, IF r \in Chats THEN "done" ELSE "rendering")
    /\ clean' = (clean /\ lost' = lost /\ r \notin Offline)
    /\ UNCHANGED <<row, lock, now, seen, snap, histVars, seeds>>

\* The render succeeds, or refund_video_tokens loads the row ...
RenderEnds(r) ==
    /\ pc[r] = "rendering"
    /\ \/ Goto(r, "done") /\ UNCHANGED seen
       \/ Goto(r, "refund") /\ seen' = [seen EXCEPT ![r] = [used |-> row.used, life |-> row.life]]
    /\ UNCHANGED <<row, lock, tok, now, snap, histVars, clean, lost, seeds>>

\* One less than was loaded but not below zero, written if it differs from that.
Less(loaded, current) ==
    CASE loaded > 0 -> loaded - 1 [] loaded = 0 -> current [] loaded < 0 -> 0

\* Mutant: the refund sets the lifetime counter back to zero.
RefundAll(r) ==
    /\ pc[r] = "refund" /\ lock = NoOne
    /\ row' = [row EXCEPT !.used = Less(seen[r].used, @), !.life = 0]
    /\ Redis(r, Plus(-1))
    /\ back' = back \cup {r}
    /\ Drop(r)
    /\ Goto(r, "done")
    /\ clean' = (clean /\ lost' = lost /\ r \notin Offline /\ paid[r] = row.period)
    /\ UNCHANGED <<lock, now, snap, paid, seeds>>

\* ... and writes both counters as computed from what it loaded.
Refund(r) ==
    /\ pc[r] = "refund" /\ lock = NoOne
    /\ row' = [row EXCEPT !.used = Less(seen[r].used, @), !.life = Less(seen[r].life, @)]
    /\ Redis(r, Plus(-1))
    /\ back' = back \cup {r}
    /\ Drop(r)
    /\ Goto(r, "done")
    /\ clean' = (clean /\ lost' = lost /\ r \notin Offline /\ paid[r] = row.period)
    /\ UNCHANGED <<lock, now, snap, paid, seeds>>

-----------------------------------------------------------------------------
(* Background: sync loops, restarts, the clock.                            *)

\* _redis_sync_loop reads the counters, and the flush at shutdown does ...
SyncRead(w) ==
    /\ snap[w] = Idle /\ tok # NoKey
    /\ snap' = [snap EXCEPT ![w] = [used |-> tok, was |-> NoKey, period |-> 0, seeding |-> FALSE]]
    /\ UNCHANGED <<row, lock, tok, now, pc, seen, histVars, clean, lost, seeds>>

\* Mutant: the sync never lowers the stored counter.
SyncWriteMax(w) ==
    /\ snap[w] # Idle /\ ~snap[w].seeding /\ lock = NoOne
    /\ row' = [row EXCEPT !.used = IF snap[w].used > @ THEN snap[w].used ELSE @]
    /\ snap' = [snap EXCEPT ![w] = Idle]
    /\ UNCHANGED <<lock, tok, now, pc, seen, histVars, clean, lost, seeds>>

\* ... and stores them, whatever happened since.
SyncWrite(w) ==
    /\ snap[w] # Idle /\ ~snap[w].seeding /\ lock = NoOne
    /\ row' = [row EXCEPT !.used = snap[w].used]
    /\ snap' = [snap EXCEPT ![w] = Idle]
    /\ UNCHANGED <<lock, tok, now, pc, seen, histVars, clean, lost, seeds>>

\* What the requests table knows of the row's period: chats, not video jobs.
Recorded == Cardinality({r \in Chats : paid[r] = row.period})

\* _seed_redis_from_db of a process that starts: the counter is set from the
\* requests table, or to zero when the period is over ...
SeedRead(w) ==
    /\ snap[w] = Idle /\ seeds < MaxSeeds
    /\ seeds' = seeds + 1
    /\ tok' = IF row.period < now THEN 0 ELSE Recorded
    /\ snap' = [snap EXCEPT ![w] = [used |-> tok', was |-> row.used, seeding |-> TRUE,
                                    period |-> IF row.period < now THEN now ELSE 0]]
    /\ clean' = FALSE
    /\ UNCHANGED <<row, lock, now, pc, seen, histVars, lost>>

\* ... and what differs from the row it loaded is committed.
SeedWrite(w) ==
    /\ snap[w] # Idle /\ snap[w].seeding /\ lock = NoOne
    /\ row' = [row EXCEPT !.period = IF snap[w].period = 0 THEN @ ELSE snap[w].period,
                          !.used = IF snap[w].used = snap[w].was THEN @ ELSE snap[w].used]
    /\ snap' = [snap EXCEPT ![w] = Idle]
    /\ UNCHANGED <<lock, tok, now, pc, seen, histVars, clean, lost, seeds>>

EndPeriod ==
    /\ now < MaxPeriods
    /\ now' = now + 1
    /\ UNCHANGED <<row, lock, tok, pc, seen, snap, histVars, clean, lost, seeds>>

-----------------------------------------------------------------------------
Step(r) ==
    \/ Load(r) \/ Reset(r) \/ ResetTokens(r) \/ Refuse(r) \/ Accept(r) \/ Reserve(r)
    \/ Complete(r) \/ Fail(r) \/ Incr(r) \/ RenderEnds(r) \/ Refund(r)

Sync(w) == SyncRead(w) \/ SyncWrite(w) \/ SeedWrite(w)

Next ==
    \/ \E r \in Requests : Step(r)
    \/ \E w \in Processes : Sync(w) \/ SeedRead(w)
    \/ EndPeriod

Spec == Init /\ [][Next]_vars

\* Requests that arrived go on, and the sync loops run.
FairSpec ==
    /\ Spec
    /\ \A r \in Requests : WF_vars(pc[r] # "new" /\ Step(r))
    /\ \A w \in Processes : WF_vars(SyncRead(w)) /\ WF_vars(SyncWrite(w)) /\ WF_vars(SeedWrite(w))

-----------------------------------------------------------------------------
(* Properties.                                                             *)

\* Types; the row is held by a request that is resetting it.
TypeOK ==
    /\ row \in [period : 1 .. now, used : Int, life : Nat]
    /\ tok \in Int \cup {NoKey}
    /\ pc \in [Requests -> Busy \cup {"new", "refused", "done"}]
    /\ lock # NoOne => pc[lock] \in {"key", "test"}

\* Tokens charged to the counters of the row's period and not given back.
Spent == Cardinality({r \in Requests : paid[r] = row.period /\ r \notin back})

\* When no request is under way and nothing is being copied, the Redis counter
\* is exactly what the user spent in this period, unless a command failed, a
\* process without Redis or a starting one took part, or a reset, which deletes
\* the key outside its transaction, overlapped other work.
QuietIsExact ==
    /\ clean
    /\ \A r \in Requests : pc[r] \notin Busy
    /\ \A w \in Processes : snap[w] = Idle
    => (IF tok = NoKey THEN 0 ELSE tok) = Spent

Drift == row.life - (Cardinality({r \in Requests : paid[r] # 0}) - Cardinality(back))

\* The lifetime counter departs from the tokens charged and not given back only
\* through a refund that writes over a charge committed after its read, or that
\* finds at zero the counter such a refund has left too low.
LifetimeExplained ==
    [][Drift' # Drift =>
          \E r \in Videos :
             Refund(r) /\ (seen[r].life # row.life \/ (row.life = 0 /\ Drift < 0))]_vars

\* The row, which is what requests are tested against, catches up with the
\* counter.
RowCatchesUp == <>[](tok = NoKey \/ row.used = tok)

\* Concurrent submissions cannot each spend the same balance: the reservations
\* of a period stay within the budget.
ReservationsFit == Cardinality({r \in Videos : paid[r] = row.period /\ r \notin back}) <= Budget
=============================================================================
