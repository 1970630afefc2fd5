---------------------------- MODULE VideoRunner ----------------------------
(***************************************************************************)
(* Video jobs: the API that creates, cancels and deletes them, and the     *)
(* runner (services/video_runner.py) that one gateway process at a time,   *)
(* elected by a Redis lease, drives: it claims queued jobs, submits them   *)
(* to the GPU worker, polls, stores the output, and reconciles jobs whose  *)
(* runner disappeared.  A job reserves tokens when it is created; ending   *)
(* without output gives them back.                                         *)
(*                                                                         *)
(* Every method of the repository is a transaction of its own and every    *)
(* call of the worker a suspension, so an action is one of them.  None of  *)
(* the transactions that end a job looks at the status it overwrites.      *)
(***************************************************************************)
EXTENDS Integers, FiniteSets, FiniteSetsExt

CONSTANTS
    Runners,     \* gateway processes
    Jobs,        \* VideoJob.id, in order of creation
    MaxRetries,  \* max_retries_per_shot
    MaxFaults,   \* bound: leases lost by running processes, processes restarted,
                 \* and work begun without the lease
    MaxRefunds,  \* bound: refunds of a job after which nobody cancels it again
    NoOne        \* no lease holder, no job

ASSUME VideoAssumption ==
    /\ Jobs \subseteq Nat /\ NoOne \notin Runners \cup Jobs
    /\ MaxRetries \in Nat /\ MaxFaults \in Nat /\ MaxRefunds \in Nat

VARIABLES
    status,     \* VideoJob.status, "none" before and "deleted" after the row exists
    flag,       \* VideoJob.cancel_requested
    beat,       \* VideoJob.heartbeat_at: "fresh" or "stale"
    overdue,    \* VideoJob.started_at is more than max_wall_seconds ago
    attempts,   \* VideoShot.attempts
    known,      \* VideoShot.backend_job_id is set
    refunds,    \* history: how often the reservation was given back
    asking,     \* the status DELETE /videos/{id} has read, or "no"
    render,     \* the GPU worker's last render of the job
    up,         \* the video backend is registered and answers
    lease,      \* holder of video:runner:leader
    pc,         \* where each process is
    mode,       \* the loop a runner is in: "startup" and "periodic" reconcile, "tick"
    todo,       \* snapshots reconcile still has to go through
    cur,        \* snapshot of the job in hand
    faults,     \* history: leases lost by a running process, work begun without it
    crashes     \* history: processes restarted

jobVars == <<status, flag, beat, overdue, attempts, known, refunds>>
runnerVars == <<pc, mode, todo, cur>>
envVars == <<up, faults, crashes>>
vars == <<jobVars, asking, render, lease, runnerVars, envVars>>

Terminal == {"completed", "failed", "cancelled"}

\* Labels of a process that is running the runner.
Driving == {"claimed", "submit", "mark", "submitFailed", "lost", "readopt", "poll",
            "finalize", "complete", "requeue", "fail", "cancel"}
Leading == {"scan", "reconcile", "idle"} \cup Driving

NoJob == [job |-> NoOne, attempts |-> 0, known |-> FALSE, said |-> "none"]

Init ==
    /\ status = [j \in Jobs |-> "none"]
    /\ flag = [j \in Jobs |-> FALSE]
    /\ beat = [j \in Jobs |-> "fresh"]
    /\ overdue = [j \in Jobs |-> FALSE]
    /\ attempts = [j \in Jobs |-> 0]
    /\ known = [j \in Jobs |-> FALSE]
    /\ refunds = [j \in Jobs |-> 0]
    /\ asking = [j \in Jobs |-> "no"]
    /\ render = [j \in Jobs |-> "none"]
    /\ up = TRUE
    /\ lease = NoOne
    /\ pc = [g \in Runners |-> "standby"]
    /\ mode = [g \in Runners |-> "tick"]
    /\ todo = [g \in Runners |-> {}]
    /\ cur = [g \in Runners |-> NoJob]
    /\ faults = 0 /\ crashes = 0

-----------------------------------------------------------------------------
(* The API.                                                                *)

Exists(j) == status[j] \notin {"none", "deleted"}

\* A column of job j is written, if the row still exists.
Put(column, j, v) == [column EXCEPT ![j] = IF Exists(j) THEN v ELSE @]

\* POST /videos: the job is queued and its tokens are reserved.
Create(j) ==
    /\ status[j] = "none"
    /\ status' = [status EXCEPT ![j] = "queued"]
    /\ UNCHANGED <<flag, beat, overdue, attempts, known, refunds, asking, render,
                   lease, runnerVars, envVars>>

\* Heartbeat and start are read while the job is rendering, and a claim sets both.
Forget(j) ==
    /\ beat' = [beat EXCEPT ![j] = "fresh"]
    /\ overdue' = [overdue EXCEPT ![j] = FALSE]

\* DELETE /videos/{id} loads the row (bound: not again until the job has ended) ...
CancelRead(j) ==
    /\ Exists(j) /\ asking[j] = "no" /\ refunds[j] < MaxRefunds
    /\ flag[j] => status[j] \in Terminal
    /\ asking' = [asking EXCEPT ![j] = status[j]]
    /\ UNCHANGED <<jobVars, render, lease, runnerVars, envVars>>

\* ... and, by the status it read, deletes the rows of an ended job, cancels a
\* queued one with its refund, or leaves a flag to the runner.
CancelWrite(j) ==
    /\ asking[j] # "no"
    /\ asking' = [asking EXCEPT ![j] = "no"]
    /\ \/ /\ asking[j] \in Terminal
          /\ status' = [status EXCEPT ![j] = "deleted"]
          /\ flag' = [flag EXCEPT ![j] = FALSE]
          /\ attempts' = [attempts EXCEPT ![j] = 0]
          /\ known' = [known EXCEPT ![j] = FALSE]
          /\ Forget(j)
          /\ UNCHANGED refunds
       \/ /\ asking[j] = "queued"
          /\ flag' = [flag EXCEPT ![j] = TRUE]
          /\ status' = [status EXCEPT ![j] = "cancelled"]
          /\ refunds' = [refunds EXCEPT ![j] = @ + 1]
          /\ Forget(j)
          /\ UNCHANGED <<attempts, known>>
       \/ /\ asking[j] = "rendering"
          /\ flag' = [flag EXCEPT ![j] = TRUE]
          /\ UNCHANGED <<status, refunds, beat, overdue, attempts, known>>
    /\ UNCHANGED <<render, lease, runnerVars, envVars>>

-----------------------------------------------------------------------------
(* The loop of the runner.                                                 *)

Hand(g) == cur[g].job
Goto(g, label) == pc' = [pc EXCEPT ![g] = label]

\* One step of g on the job in hand that writes no row.
Step(g, from, to) ==
    /\ pc[g] = from
    /\ Goto(g, to)
    /\ UNCHANGED <<mode, todo, cur>>

\* process_job or reconcile_job returns: on with the loop it was called from.
Return(g) ==
    /\ Goto(g, IF mode[g] = "tick" THEN "idle" ELSE "reconcile")
    /\ cur' = [cur EXCEPT ![g] = NoJob]
    /\ UNCHANGED <<mode, todo>>

\* acquire_lease, SET NX: a new runner, which reconciles before it loops.
Acquire(g) ==
    /\ pc[g] = "standby" /\ lease = NoOne
    /\ lease' = g
    /\ Goto(g, "scan")
    /\ mode' = [mode EXCEPT ![g] = "startup"]
    /\ UNCHANGED <<jobVars, asking, render, todo, cur, envVars>>

\* Bound: a process that lost the lease finishes what it has in hand; new work
\* it begins before it notices counts as another fault.
Overtime(g) ==
    IF lease = g THEN UNCHANGED faults
    ELSE faults + crashes < MaxFaults /\ faults' = faults + 1

\* run_forever when reconcile_interval has passed.
ReconcileDue(g) ==
    /\ pc[g] = "idle"
    /\ \E j \in Jobs : status[j] = "rendering"
    /\ Goto(g, "scan")
    /\ mode' = [mode EXCEPT ![g] = "periodic"]
    /\ Overtime(g)
    /\ UNCHANGED <<jobVars, asking, render, lease, todo, cur, up, crashes>>

Stale(j) == status[j] = "rendering" /\ beat[j] = "stale"

Snapshot(j) == [job |-> j, attempts |-> attempts[j], known |-> known[j], said |-> "none"]

\* Mutant: jobs that were not submitted yet are left alone.
ScanSubmitted(g) ==
    /\ pc[g] = "scan"
    /\ Goto(g, "reconcile")
    /\ todo' = [todo EXCEPT ![g] = {Snapshot(j) : j \in {k \in Jobs : Stale(k) /\ known[k]}}]
    /\ UNCHANGED <<jobVars, asking, render, lease, mode, cur, envVars>>

\* list_stale_rendering_video_jobs.
Scan(g) ==
    /\ pc[g] = "scan"
    /\ Goto(g, "reconcile")
    /\ todo' = [todo EXCEPT ![g] = {Snapshot(j) : j \in {k \in Jobs : Stale(k)}}]
    /\ UNCHANGED <<jobVars, asking, render, lease, mode, cur, envVars>>

\* reconcile is through with its list: run_forever goes on to tick.
ReconcileEnds(g) ==
    /\ pc[g] = "reconcile" /\ todo[g] = {}
    /\ Goto(g, "idle")
    /\ mode' = [mode EXCEPT ![g] = "tick"]
    /\ UNCHANGED <<jobVars, asking, render, lease, todo, cur, envVars>>

\* reconcile_job up to the worker's answer: the wall-clock limit, a job that was
\* never submitted, a backend that is gone, then what the worker says of it.
ReconcileJob(g) ==
    /\ pc[g] = "reconcile"
    /\ \E s \in todo[g] :
          /\ \A t \in todo[g] : s.job <= t.job
          /\ todo' = [todo EXCEPT ![g] = @ \ {s}]
          /\ cur' = [cur EXCEPT ![g] = [s EXCEPT !.said = render[s.job], !.known = FALSE]]
          /\ \E label \in CASE overdue[s.job] -> {"fail"}
                            [] ~overdue[s.job] /\ ~s.known -> {"requeue"}
                            [] ~overdue[s.job] /\ s.known /\ ~up -> {"requeue", "lost"}
                            [] ~overdue[s.job] /\ s.known /\ up ->
                                  {IF render[s.job] = "none" THEN "lost" ELSE "readopt"} :
                Goto(g, label)
    /\ UNCHANGED <<jobVars, asking, render, lease, mode, envVars>>

\* _reconcile_lost: render again while the retries last.
ReconcileLost(g) ==
    /\ pc[g] = "lost"
    /\ LET retry == cur[g].attempts < MaxRetries
       IN  /\ Step(g, "lost", IF retry THEN "requeue" ELSE "fail")
           /\ attempts' = IF retry THEN Put(attempts, Hand(g), cur[g].attempts + 1) ELSE attempts
           /\ known' = IF retry THEN Put(known, Hand(g), FALSE) ELSE known
    /\ UNCHANGED <<status, flag, beat, overdue, refunds, asking, render, lease, envVars>>

\* readopt_video_job wins only if the job is still stale; then the answer decides.
Readopt(g) ==
    /\ pc[g] = "readopt"
    /\ IF Stale(Hand(g))
         THEN /\ beat' = [beat EXCEPT ![Hand(g)] = "fresh"]
              /\ Goto(g, CASE cur[g].said = "bad" -> "fail"
                           [] cur[g].said = "ok" -> "finalize"
                           [] OTHER -> "poll")
              /\ cur' = [cur EXCEPT ![g].said = "none"]
              /\ UNCHANGED <<mode, todo>>
         ELSE Return(g) /\ UNCHANGED beat
    /\ UNCHANGED <<status, flag, overdue, attempts, known, refunds, asking, render, lease,
                   envVars>>

\* Mutant: a job that failed is claimed again.
ClaimFailed(g) ==
    /\ pc[g] = "idle"
    /\ LET open == {k \in Jobs : status[k] \in {"queued", "failed"}}
       IN  /\ open # {}
           /\ LET j == Min(open)
              IN  /\ status' = [status EXCEPT ![j] = "rendering"]
                  /\ beat' = [beat EXCEPT ![j] = "fresh"]
                  /\ overdue' = [overdue EXCEPT ![j] = FALSE]
                  /\ cur' = [cur EXCEPT ![g] = Snapshot(j)]
    /\ Goto(g, "claimed")
    /\ Overtime(g)
    /\ UNCHANGED <<flag, attempts, known, refunds, asking, render, lease, mode, todo, up,
                   crashes>>

\* tick: claim_next_video_job takes the first queued job under a row lock.
Claim(g) ==
    /\ pc[g] = "idle"
    /\ LET open == {k \in Jobs : status[k] = "queued"}
       IN  /\ open # {}
           /\ LET j == Min(open)
              IN  /\ status' = [status EXCEPT ![j] = "rendering"]
                  /\ beat' = [beat EXCEPT ![j] = "fresh"]
                  /\ overdue' = [overdue EXCEPT ![j] = FALSE]
                  /\ cur' = [cur EXCEPT ![g] = Snapshot(j)]
    /\ Goto(g, "claimed")
    /\ Overtime(g)
    /\ UNCHANGED <<flag, attempts, known, refunds, asking, render, lease, mode, todo, up,
                   crashes>>

-----------------------------------------------------------------------------
(* process_job, _poll_to_completion and _finalize.                         *)

\* Mutant: process_job tries the job again.
RaiseRequeues(g) ==
    IF mode[g] = "tick" THEN Goto(g, "requeue") /\ UNCHANGED <<mode, todo, cur>>
    ELSE Return(g)

\* An exception of the worker client: process_job fails the job, reconcile
\* logs it and goes on, the job stays as it is.
Raise(g) ==
    IF mode[g] = "tick" THEN Goto(g, "fail") /\ UNCHANGED <<mode, todo, cur>>
    ELSE Return(g)

\* is_cancelled before the submission.
CheckCancelled(g) ==
    /\ pc[g] = "claimed"
    /\ Step(g, "claimed", IF flag[Hand(g)] /\ Exists(Hand(g)) THEN "cancel" ELSE "submit")
    /\ UNCHANGED <<jobVars, asking, render, lease, envVars>>

\* select_backend and worker.submit.
Submit(g) ==
    /\ \/ /\ ~up
          /\ Step(g, "submit", "requeue")
          /\ UNCHANGED render
       \/ /\ up
          /\ Step(g, "submit", "mark")
          /\ render' = [render EXCEPT ![Hand(g)] = "running"]
       \/ /\ Step(g, "submit", "submitFailed")
          /\ UNCHANGED render
    /\ UNCHANGED <<jobVars, asking, lease, envVars>>

\* mark_shot after the submission: the render can be found again from here on.
MarkShot(g) ==
    /\ Step(g, "mark", "poll")
    /\ known' = Put(known, Hand(g), TRUE)
    /\ UNCHANGED <<status, flag, beat, overdue, attempts, refunds, asking, render, lease,
                   envVars>>

\* Mutant: a retryable failure is retried without a limit.
SubmitRetried(g) ==
    /\ \E retryable \in BOOLEAN :
          Step(g, "submitFailed", IF retryable THEN "requeue" ELSE "fail")
    /\ attempts' = Put(attempts, Hand(g), cur[g].attempts + 1)
    /\ UNCHANGED <<status, flag, beat, overdue, known, refunds, asking, render, lease, envVars>>

\* _handle_submit_failure of a refused or, while retries last, a retryable
\* submission.
SubmitFailed(g) ==
    /\ \E retryable \in BOOLEAN :
          Step(g, "submitFailed",
               IF retryable /\ cur[g].attempts < MaxRetries THEN "requeue" ELSE "fail")
    /\ attempts' = Put(attempts, Hand(g), cur[g].attempts + 1)
    /\ UNCHANGED <<status, flag, beat, overdue, known, refunds, asking, render, lease, envVars>>

\* _poll_to_completion sees the cancellation and stops the render.
PollCancelled(g) ==
    /\ Step(g, "poll", "cancel")
    /\ flag[Hand(g)] /\ Exists(Hand(g))
    /\ render' = [render EXCEPT ![Hand(g)] = "none"]
    /\ UNCHANGED <<jobVars, asking, lease, envVars>>

\* ... or asks the worker and records the progress with a heartbeat.
Poll(g) ==
    /\ pc[g] = "poll"
    /\ ~(flag[Hand(g)] /\ Exists(Hand(g)))
    /\ IF ~up \/ render[Hand(g)] = "none"
         THEN Raise(g) /\ UNCHANGED beat
         ELSE /\ beat' = [beat EXCEPT ![Hand(g)] = "fresh"]
              /\ Step(g, "poll", CASE render[Hand(g)] = "ok" -> "finalize"
                                   [] render[Hand(g)] = "bad" -> "fail"
                                   [] OTHER -> "poll")
    /\ UNCHANGED <<status, flag, overdue, attempts, known, refunds, asking, render, lease,
                   envVars>>

\* _finalize: the artifact is fetched and stored, or the fetch raises.
Finalize(g) ==
    /\ pc[g] = "finalize"
    /\ \/ up /\ render[Hand(g)] = "ok" /\ Step(g, "finalize", "complete")
       \/ ~(up /\ render[Hand(g)] = "ok") /\ Raise(g)
    /\ UNCHANGED <<jobVars, asking, render, lease, envVars>>

\* The runner writes the row by its id, whatever its status, if it still exists.
Write(g, label, s) ==
    /\ pc[g] = label
    /\ status' = Put(status, Hand(g), s)
    /\ Forget(Hand(g))
    /\ Return(g)
    /\ UNCHANGED <<flag, attempts, known, asking, render, lease, envVars>>

Refund(g) == refunds' = Put(refunds, Hand(g), refunds[Hand(g)] + 1)

CompleteJob(g) == Write(g, "complete", "completed") /\ UNCHANGED refunds
Requeue(g) == Write(g, "requeue", "queued") /\ UNCHANGED refunds

\* Mutant: only a submission that was refused is refunded.
FailJobNoRefund(g) ==
    /\ Write(g, "fail", "failed")
    /\ IF known[Hand(g)] THEN UNCHANGED refunds ELSE Refund(g)

\* fail_video_job, mark_cancelled: with the refund of the reservation.
FailJob(g) == Write(g, "fail", "failed") /\ Refund(g)
MarkCancelled(g) == Write(g, "cancel", "cancelled") /\ Refund(g)

-----------------------------------------------------------------------------
(* Leadership, processes, the worker and time.                             *)

\* The process leaves its runner; what it had in hand stays as it is.
Leave(g, label) ==
    /\ Goto(g, label)
    /\ mode' = [mode EXCEPT ![g] = "tick"]
    /\ todo' = [todo EXCEPT ![g] = {}]
    /\ cur' = [cur EXCEPT ![g] = NoJob]

\* The lease runs out: its holder died, or did not renew it in time.
LeaseExpires ==
    /\ lease # NoOne
    /\ lease' = NoOne
    /\ IF pc[lease] \in Leading
         THEN faults + crashes < MaxFaults /\ faults' = faults + 1
         ELSE UNCHANGED faults
    /\ UNCHANGED <<jobVars, asking, render, runnerVars, up, crashes>>

\* renew_lease returns False: the loop task is cancelled.  run_forever turns
\* the cancellation into a return, except during the reconcile before its
\* loop: there it escapes, is taken for the application's shutdown, and the
\* process contends no more.
StepDown(g) ==
    /\ pc[g] \in Leading /\ lease # g
    /\ Leave(g, IF mode[g] = "startup" THEN "ended" ELSE "standby")
    /\ UNCHANGED <<jobVars, asking, render, lease, envVars>>

\* The process stops, with release_lease or without, and is started again.
Restart(g) ==
    /\ faults + crashes < MaxFaults
    /\ crashes' = crashes + 1
    /\ Leave(g, "standby")
    /\ lease' \in {lease} \cup (IF lease = g THEN {NoOne} ELSE {})
    /\ UNCHANGED <<jobVars, asking, render, up, faults>>

\* The GPU worker ends a render, or restarts and forgets the renders it ran.
RenderEnds(j) ==
    /\ render[j] = "running"
    /\ \E end \in {"ok", "bad"} : render' = [render EXCEPT ![j] = end]
    /\ UNCHANGED <<jobVars, asking, lease, runnerVars, envVars>>

SiteChanges ==
    /\ up' = ~up
    /\ render' \in IF up THEN {render, [j \in Jobs |-> "none"]} ELSE {render}
    /\ UNCHANGED <<jobVars, asking, lease, runnerVars, faults, crashes>>

\* A heartbeat is refreshed while its runner polls; elsewhere it may get old.
GoesStale(j) ==
    /\ status[j] = "rendering" /\ beat[j] = "fresh"
    /\ \A g \in Runners : Hand(g) = j => pc[g] # "poll" \/ lease # g
    /\ beat' = [beat EXCEPT ![j] = "stale"]
    /\ UNCHANGED <<status, flag, overdue, attempts, known, refunds, asking, render, lease,
                   runnerVars, envVars>>

\* Only reconcile asks for the time, and only of jobs that are stale.
TimeRunsOut(j) ==
    /\ Stale(j) /\ ~overdue[j]
    /\ overdue' = [overdue EXCEPT ![j] = TRUE]
    /\ UNCHANGED <<status, flag, beat, attempts, known, refunds, asking, render, lease,
                   runnerVars, envVars>>

-----------------------------------------------------------------------------
\* What a runner does by itself.
Run(g) ==
    \/ Scan(g) \/ ReconcileEnds(g) \/ ReconcileJob(g) \/ ReconcileLost(g) \/ Readopt(g)
    \/ Claim(g) \/ CheckCancelled(g) \/ Submit(g) \/ MarkShot(g) \/ SubmitFailed(g)
    \/ PollCancelled(g) \/ Poll(g) \/ Finalize(g) \/ CompleteJob(g) \/ Requeue(g)
    \/ FailJob(g) \/ MarkCancelled(g)

Next ==
    \/ \E j \in Jobs : Create(j) \/ CancelRead(j) \/ CancelWrite(j)
    \/ \E g \in Runners : Run(g) \/ Acquire(g) \/ ReconcileDue(g) \/ StepDown(g)
                             \/ Restart(g)
    \/ \E j \in Jobs : RenderEnds(j) \/ GoesStale(j) \/ TimeRunsOut(j)
    \/ LeaseExpires \/ SiteChanges

Spec == Init /\ [][Next]_vars

\* Every process runs, contends and notices a lost lease; the lease of a process
\* that died and unattended heartbeats get old; renders end and the video backend
\* is up for good at some time.
Fairness ==
    /\ \A g \in Runners : /\ WF_vars(Run(g)) /\ WF_vars(StepDown(g))
                          /\ SF_vars(Acquire(g)) /\ SF_vars(ReconcileDue(g))
    /\ \A j \in Jobs : WF_vars(RenderEnds(j)) /\ WF_vars(GoesStale(j))
    /\ WF_vars(LeaseExpires /\ pc[lease] \notin Leading)
    /\ <>[]up

FairSpec == Spec /\ Fairness

-----------------------------------------------------------------------------
(* Properties.                                                             *)

\* Types; a shot is attempted at most once more than its retries allow, and once
\* more for each process that left its job in hand.
TypeOK ==
    /\ status \in [Jobs -> {"none", "queued", "rendering", "deleted"} \cup Terminal]
    /\ up \in BOOLEAN /\ flag \in [Jobs -> BOOLEAN] /\ overdue \in [Jobs -> BOOLEAN]
    /\ known \in [Jobs -> BOOLEAN] /\ beat \in [Jobs -> {"fresh", "stale"}]
    /\ attempts \in [Jobs -> 0 .. MaxRetries + 1 + faults + crashes]
    /\ refunds \in [Jobs -> Nat]
    /\ asking \in [Jobs -> {"no", "queued", "rendering"} \cup Terminal]
    /\ render \in [Jobs -> {"none", "running", "ok", "bad"}]
    /\ lease \in Runners \cup {NoOne}
    /\ pc \in [Runners -> Leading \cup {"standby", "ended"}]
    /\ mode \in [Runners -> {"startup", "periodic", "tick"}]
    /\ \A g \in Runners : /\ Hand(g) \in IF pc[g] \in Driving THEN Jobs ELSE {NoOne}
                          /\ cur[g].attempts \in 0 .. MaxRetries + 1 + faults + crashes

\* A job that ended without output has given its reserved tokens back, however
\* cancellations, runners and crashes overlap.
UnservedIsRefunded == \A j \in Jobs : status[j] \in {"failed", "cancelled"} => refunds[j] > 0

\* Jobs whose owner cancelled or deleted them, and all jobs once a process has lost
\* the lease while it was running.
Contested == {j \in Jobs : flag[j] \/ status[j] = "deleted" \/ faults > 0}

Promise == INSTANCE VideoJob WITH contested <- Contested

\* The runners keep the promise of the videos API (module VideoJob): an uncontested
\* job moves through its states in order, ends once, and its reservation is given back
\* exactly once if it ended without output, although no write of the runner looks at
\* the status it overwrites; a contested job keeps its refund and stays deleted.
KeepsPromise == Promise!Spec

\* The GPU renders a job once at a time: a job is submitted while its last render
\* still runs only after a process left it in hand or lost the lease.
RendersDoNotOverlap ==
    [][\A g \in Runners :
          pc[g] = "submit" /\ pc'[g] = "mark" /\ render[Hand(g)] = "running"
              => faults + crashes > 0]_vars

\* No permanently stuck jobs: a job that was accepted ends.
NoStuckJobs == \A j \in Jobs : status[j] = "queued" ~> status[j] \in Terminal \cup {"deleted"}

=============================================================================
