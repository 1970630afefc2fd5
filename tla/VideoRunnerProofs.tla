-------------------------- MODULE VideoRunnerProofs --------------------------
(***************************************************************************)
(* What VideoRunner guarantees for any number of gateway processes and     *)
(* jobs, any number of retries, crashes and lost leases: reservations are  *)
(* given back, the promise of VideoJob is kept, renders do not overlap.    *)
(***************************************************************************)
EXTENDS VideoRunner, FiniteSetTheorems, WellFoundedInduction, TLAPS

USE VideoAssumption DEF VideoAssumption

-----------------------------------------------------------------------------
(* The inductive invariants.                                               *)

Statuses == {"none", "queued", "rendering", "deleted"} \cup Terminal
Saids == {"none", "running", "ok", "bad"}
Snapshots == [job : Jobs, attempts : Nat, known : BOOLEAN, said : Saids]
Hands == [job : Jobs \cup {NoOne}, attempts : Nat, known : BOOLEAN, said : Saids]

\* Types of the rows, the questions of the API and the worker's renders.
RowTypes ==
    /\ status \in [Jobs -> Statuses]
    /\ flag \in [Jobs -> BOOLEAN]
    /\ beat \in [Jobs -> {"fresh", "stale"}]
    /\ overdue \in [Jobs -> BOOLEAN]
    /\ attempts \in [Jobs -> Nat]
    /\ known \in [Jobs -> BOOLEAN]
    /\ refunds \in [Jobs -> Nat]
    /\ asking \in [Jobs -> {"no", "queued", "rendering"} \cup Terminal]
    /\ render \in [Jobs -> Saids]
    /\ up \in BOOLEAN

\* Types of the processes; a process has a job in hand while it drives it.
RunnerTypes ==
    /\ lease \in Runners \cup {NoOne}
    /\ pc \in [Runners -> Leading \cup {"standby", "ended"}]
    /\ mode \in [Runners -> {"startup", "periodic", "tick"}]
    /\ todo \in [Runners -> SUBSET Snapshots]
    /\ cur \in [Runners -> Hands]
    /\ faults \in Nat /\ crashes \in Nat
    /\ \A g \in Runners : Hand(g) \in IF pc[g] \in Driving THEN Jobs ELSE {NoOne}

\* Snapshots exist only while reconcile is at work, one for each job; a loop
\* that ticks has none.
ListsInPlace ==
    \A g \in Runners :
        /\ (mode[g] = "tick" \/ pc[g] \notin Leading) => todo[g] = {}
        /\ pc[g] = "idle" => mode[g] = "tick"
        /\ pc[g] = "scan" => mode[g] # "tick"
        /\ \A s, t \in todo[g] : s.job = t.job => s = t

\* A row somebody is about to cancel exists; only contested jobs are about to
\* be marked cancelled.
CancelsInPlace ==
    /\ \A j \in Jobs : asking[j] # "no" => Exists(j)
    /\ \A g \in Runners : pc[g] = "cancel" => Hand(g) \in Contested

\* While no process worked without the lease, the one that leads is its holder,
\* and uncontested jobs it has in hand or in its list are rendering.
SoleDriver ==
    faults = 0 =>
        \A g \in Runners :
            /\ pc[g] \in Leading => lease = g
            /\ Hand(g) \in Jobs \ Contested => status[Hand(g)] = "rendering"
            /\ \A s \in todo[g] : s.job \notin Contested =>
                  status[s.job] = "rendering" /\ Hand(g) # s.job

RunnerInv == RowTypes /\ RunnerTypes /\ ListsInPlace /\ CancelsInPlace /\ SoleDriver

\* Reconcile finds nothing, and a job that a process may submit (again) has no
\* running render.
DriveInPlace(g) ==
    /\ todo[g] = {}
    /\ pc[g] \notin {"lost", "readopt"}
    /\ pc[g] \in Driving => mode[g] = "tick" /\ status[Hand(g)] \notin {"none", "queued"}
    /\ pc[g] \in {"claimed", "submit", "submitFailed", "requeue"} => render[Hand(g)] # "running"

\* A rendering job is in some hand, and a queued one has no running render.
RowInPlace(j) ==
    /\ status[j] = "rendering" => \E g \in Runners : Hand(g) = j
    /\ status[j] \in {"none", "queued"} => render[j] # "running"

\* Every process and job is in place while no process crashed or worked without
\* the lease.
RendersInPlace ==
    faults + crashes = 0 => /\ \A g \in Runners : DriveInPlace(g)
                            /\ \A j \in Jobs : RowInPlace(j)

-----------------------------------------------------------------------------
(* Types.                                                                  *)

\* The well-founded relation of the library is "less than".
LEMMA LessIsRelated == \A x, y \in Nat : x < y => <<x, y>> \in OpToRel(<, Nat)
<1> SUFFICES ASSUME NEW x \in Nat, NEW y \in Nat, x < y PROVE <<x, y>> \in OpToRel(<, Nat)
  OBVIOUS
<1>1. <<x, y>> \in Nat \X Nat /\ <<x, y>>[1] < <<x, y>>[2]
  OBVIOUS
<1>2. <<x, y>> \in {ss \in Nat \X Nat : ss[1] < ss[2]}
  BY <1>1
<1> QED BY <1>2, Zenon DEF OpToRel

\* The job claimed next is one of the queued ones.
LEMMA MinIsIn ==
    ASSUME NEW S \in SUBSET Jobs, S # {}
    PROVE  Min(S) \in S
<1>1. S \subseteq Nat
  OBVIOUS
<1>2. PICK x \in S : \A y \in S : ~(<<y, x>> \in OpToRel(<, Nat))
  BY <1>1, NatLessThanWellFounded, WFMin
<1>3. \A y \in S : ~(y < x)
  BY <1>1, <1>2, LessIsRelated, Zenon
<1>4. \A y \in S : x <= y
  BY <1>1, <1>3
<1> QED BY <1>4 DEF Min

\* A column keeps its type when one row of it is written.
LEMMA PutTypes ==
    ASSUME NEW V, NEW column \in [Jobs -> V], NEW j \in Jobs, NEW v \in V
    PROVE  Put(column, j, v) \in [Jobs -> V]
BY DEF Put

\* The process goes on with the job in hand.
LEMMA MovedTypes ==
    ASSUME RunnerTypes, NEW g \in Runners, NEW to \in Driving, pc[g] \in Driving,
           Goto(g, to), UNCHANGED <<mode, todo, cur, lease, faults, crashes>>
    PROVE  RunnerTypes'
BY DEF RunnerTypes, Goto, Hand, Leading, Driving

\* The process drops the job and goes on with its loop.
LEMMA ReturnedTypes ==
    ASSUME RunnerTypes, NEW g \in Runners, Return(g), UNCHANGED <<lease, faults, crashes>>
    PROVE  RunnerTypes'
<1>1. NoJob \in Hands /\ NoJob.job = NoOne
  BY DEF NoJob, Hands, Saids
<1>2. cur' \in [Runners -> Hands] /\ \A h \in Runners : cur'[h] = IF h = g THEN NoJob ELSE cur[h]
  BY <1>1 DEF RunnerTypes, Return
<1>3. pc' \in [Runners -> Leading \cup {"standby", "ended"}]
  BY DEF RunnerTypes, Return, Goto, Leading
<1>4. \A h \in Runners : Hand(h)' \in IF pc'[h] \in Driving THEN Jobs ELSE {NoOne}
  BY <1>1, <1>2 DEF RunnerTypes, Return, Goto, Hand, Driving
<1> QED BY <1>2, <1>3, <1>4 DEF RunnerTypes, Return

\* The process leaves its runner.
LEMMA LeftTypes ==
    ASSUME RunnerTypes, NEW g \in Runners, NEW label \in {"standby", "ended"}, Leave(g, label),
           lease' \in Runners \cup {NoOne}, faults' \in Nat, crashes' \in Nat
    PROVE  RunnerTypes'
<1>1. NoJob \in Hands /\ NoJob.job = NoOne
  BY DEF NoJob, Hands, Saids
<1>2. cur' \in [Runners -> Hands] /\ \A h \in Runners : cur'[h] = IF h = g THEN NoJob ELSE cur[h]
  BY <1>1 DEF RunnerTypes, Leave
<1>3. pc' \in [Runners -> Leading \cup {"standby", "ended"}]
  BY DEF RunnerTypes, Leave, Goto, Leading
<1>4. \A h \in Runners : Hand(h)' \in IF pc'[h] \in Driving THEN Jobs ELSE {NoOne}
  BY <1>1, <1>2 DEF RunnerTypes, Leave, Goto, Hand, Driving
<1>5. mode' \in [Runners -> {"startup", "periodic", "tick"}] /\ todo' \in [Runners -> SUBSET Snapshots]
  BY DEF RunnerTypes, Leave
<1> QED BY <1>2, <1>3, <1>4, <1>5 DEF RunnerTypes

\* The process takes a job in hand.
LEMMA TakenTypes ==
    ASSUME RunnerTypes, NEW g \in Runners, NEW to \in Driving, NEW c \in Hands, c.job \in Jobs,
           Goto(g, to), cur' = [cur EXCEPT ![g] = c], todo' \in [Runners -> SUBSET Snapshots],
           faults' \in Nat, UNCHANGED <<mode, lease, crashes>>
    PROVE  RunnerTypes'
<1>1. cur' \in [Runners -> Hands] /\ \A h \in Runners : cur'[h] = IF h = g THEN c ELSE cur[h]
  BY DEF RunnerTypes
<1>2. pc' \in [Runners -> Leading \cup {"standby", "ended"}]
  BY DEF RunnerTypes, Goto, Leading
<1>3. \A h \in Runners : Hand(h)' \in IF pc'[h] \in Driving THEN Jobs ELSE {NoOne}
  BY <1>1 DEF RunnerTypes, Goto, Hand
<1> QED BY <1>1, <1>2, <1>3 DEF RunnerTypes

\* The process is outside the runner or in its loop, with no job in hand.
LEMMA LoopTypes ==
    ASSUME RunnerTypes, NEW g \in Runners, pc[g] \notin Driving, NEW to \in Leading \ Driving,
           Goto(g, to), UNCHANGED <<cur, crashes>>, lease' \in Runners \cup {NoOne},
           mode' \in [Runners -> {"startup", "periodic", "tick"}],
           todo' \in [Runners -> SUBSET Snapshots], faults' \in Nat
    PROVE  RunnerTypes'
BY DEF RunnerTypes, Goto, Hand

\* Every step keeps the types of the rows.
LEMMA RowTypesStep == RowTypes /\ RunnerTypes /\ [Next]_vars => RowTypes'
<1> SUFFICES ASSUME RowTypes, RunnerTypes, [Next]_vars PROVE RowTypes'
  OBVIOUS
<1> USE DEF RowTypes, jobVars, envVars, Saids, Statuses, Terminal
<1>1. ASSUME NEW j \in Jobs, Create(j) \/ CancelRead(j) PROVE RowTypes'
  BY <1>1 DEF Create, CancelRead, Exists
<1>2. ASSUME NEW j \in Jobs, CancelWrite(j) PROVE RowTypes'
  <2>1. refunds[j] \in Nat
    OBVIOUS
  <2>2. refunds' \in [Jobs -> Nat]
    BY <1>2, <2>1 DEF CancelWrite
  <2>3. status' \in [Jobs -> Statuses] /\ flag' \in [Jobs -> BOOLEAN]
    BY <1>2 DEF CancelWrite
  <2>4. beat' \in [Jobs -> {"fresh", "stale"}] /\ overdue' \in [Jobs -> BOOLEAN]
    BY <1>2 DEF CancelWrite, Forget
  <2>5. attempts' = [attempts EXCEPT ![j] = 0] \/ attempts' = attempts
    BY <1>2 DEF CancelWrite
  <2>6. attempts \in [Jobs -> Nat] /\ 0 \in Nat
    OBVIOUS
  <2>7. attempts' \in [Jobs -> Nat]
    BY <2>5, <2>6
  <2>8. known' \in [Jobs -> BOOLEAN]
    BY <1>2 DEF CancelWrite
  <2>9. asking' \in [Jobs -> {"no", "queued", "rendering"} \cup Terminal]
    BY <1>2 DEF CancelWrite
  <2>10. UNCHANGED <<render, up>>
    BY <1>2 DEF CancelWrite
  <2> QED BY <2>2, <2>3, <2>4, <2>7, <2>8, <2>9, <2>10
<1>3. ASSUME NEW j \in Jobs, RenderEnds(j) \/ GoesStale(j) \/ TimeRunsOut(j) PROVE RowTypes'
  <2>1. CASE RenderEnds(j)
    BY <2>1 DEF RenderEnds
  <2>2. CASE GoesStale(j)
    BY <2>2 DEF GoesStale
  <2>3. CASE TimeRunsOut(j)
    BY <2>3 DEF TimeRunsOut
  <2> QED BY <1>3, <2>1, <2>2, <2>3
<1>4. CASE LeaseExpires \/ SiteChanges
  BY <1>4 DEF LeaseExpires, SiteChanges
<1>5. ASSUME NEW g \in Runners, Acquire(g) \/ ReconcileDue(g) \/ StepDown(g) \/ Restart(g)
      PROVE  RowTypes'
  BY <1>5 DEF Acquire, ReconcileDue, StepDown, Restart
<1>6. ASSUME NEW g \in Runners, Run(g) PROVE RowTypes'
  <2>1. CASE Scan(g) \/ ReconcileEnds(g) \/ ReconcileJob(g) \/ CheckCancelled(g) \/ Finalize(g)
    BY <2>1 DEF Scan, ReconcileEnds, ReconcileJob, CheckCancelled, Finalize
  <2>2. pc[g] \in Driving => Hand(g) \in Jobs
    BY DEF RunnerTypes
  <2>3. cur[g].attempts + 1 \in Nat
    BY DEF RunnerTypes, Hands
  <2>4. CASE ReconcileLost(g)
    <3>1. Hand(g) \in Jobs
      BY <2>2, <2>4 DEF ReconcileLost, Driving
    <3>2. /\ Put(attempts, Hand(g), cur[g].attempts + 1) \in [Jobs -> Nat]
          /\ Put(known, Hand(g), FALSE) \in [Jobs -> BOOLEAN]
      BY <2>3, <3>1, PutTypes
    <3>3. attempts' \in [Jobs -> Nat] /\ known' \in [Jobs -> BOOLEAN]
      BY <2>4, <3>2 DEF ReconcileLost
    <3> QED BY <2>4, <3>3 DEF ReconcileLost
  <2>5. CASE Readopt(g) \/ Poll(g)
    BY <2>5 DEF Readopt, Poll
  <2>6. CASE Claim(g)
    BY <2>6 DEF Claim
  <2>7. CASE Submit(g) \/ PollCancelled(g)
    BY <2>7 DEF Submit, PollCancelled
  <2>8. CASE MarkShot(g)
    <3>1. Hand(g) \in Jobs
      BY <2>2, <2>8 DEF MarkShot, Step, Driving
    <3>2. known' \in [Jobs -> BOOLEAN]
      BY <2>8, <3>1, PutTypes DEF MarkShot
    <3> QED BY <2>8, <3>2 DEF MarkShot
  <2>9. CASE SubmitFailed(g)
    <3>1. Hand(g) \in Jobs
      BY <2>2, <2>9 DEF SubmitFailed, Step, Driving
    <3>2. Put(attempts, Hand(g), cur[g].attempts + 1) \in [Jobs -> Nat]
      BY <2>3, <3>1, PutTypes
    <3> QED BY <2>9, <3>2 DEF SubmitFailed
  <2>10. CASE CompleteJob(g) \/ Requeue(g) \/ FailJob(g) \/ MarkCancelled(g)
    <3>1. PICK label \in {"complete", "requeue", "fail", "cancel"},
               s \in {"completed", "queued", "failed", "cancelled"} : Write(g, label, s)
      BY <2>10 DEF CompleteJob, Requeue, FailJob, MarkCancelled
    <3>2. Hand(g) \in Jobs
      BY <2>2, <3>1 DEF Write, Driving
    <3>3. status' \in [Jobs -> Statuses]
      BY <3>1, <3>2, PutTypes DEF Write
    <3>4. Put(refunds, Hand(g), refunds[Hand(g)] + 1) \in [Jobs -> Nat]
      <4>1. refunds[Hand(g)] \in Nat
        BY <3>2
      <4>2. refunds[Hand(g)] + 1 \in Nat
        BY <4>1
      <4> QED BY <3>2, <4>2, PutTypes
    <3>5. refunds' \in [Jobs -> Nat]
      BY <2>10, <3>4 DEF CompleteJob, Requeue, FailJob, MarkCancelled, Refund
    <3> QED BY <3>1, <3>3, <3>5 DEF Write, Forget
  <2> QED
    BY <1>6, <2>1, <2>4, <2>5, <2>6, <2>7, <2>8, <2>9, <2>10 DEF Run
<1>7. CASE UNCHANGED vars
  BY <1>7 DEF vars
<1> QED BY <1>1, <1>2, <1>3, <1>4, <1>5, <1>6, <1>7 DEF Next

\* The snapshot of a row is a job in hand.
LEMMA SnapshotType ==
    ASSUME RowTypes, NEW j \in Jobs
    PROVE  /\ Snapshot(j) \in Snapshots /\ Snapshot(j) \in Hands
           /\ Snapshot(j).job = j
BY DEF RowTypes, Snapshot, Snapshots, Hands, Saids

\* A process that fails a call goes on with the job in hand, or drops it.
LEMMA RaiseTypes ==
    ASSUME RunnerTypes, NEW g \in Runners, pc[g] \in Driving, Raise(g),
           UNCHANGED <<lease, faults, crashes>>
    PROVE  RunnerTypes'
<1>1. CASE mode[g] = "tick"
  <2>1. "fail" \in Driving
    BY DEF Driving
  <2> QED BY <1>1, <2>1, MovedTypes DEF Raise
<1>2. CASE mode[g] # "tick"
  BY <1>2, ReturnedTypes DEF Raise
<1> QED BY <1>1, <1>2

\* Every step of a runner on the job in hand keeps the types.
LEMMA DrivingTypes ==
    ASSUME RowTypes, RunnerTypes, NEW g \in Runners,
           \/ ReconcileLost(g) \/ Readopt(g) \/ CheckCancelled(g) \/ Submit(g) \/ MarkShot(g)
           \/ SubmitFailed(g) \/ PollCancelled(g) \/ Poll(g) \/ Finalize(g)
    PROVE  RunnerTypes' /\ UNCHANGED <<lease, faults, crashes>>
<1> USE DEF envVars
<1>1. CASE ReconcileLost(g)
  <2>1. PICK to \in {"requeue", "fail"} : Step(g, "lost", to)
    BY <1>1 DEF ReconcileLost
  <2> QED BY <1>1, <2>1, MovedTypes DEF ReconcileLost, Step, Driving
<1>2. CASE Readopt(g)
  <2>1. pc[g] \in Driving /\ UNCHANGED <<lease, faults, crashes>>
    BY <1>2 DEF Readopt, Driving
  <2>2. CASE Stale(Hand(g))
    <3>1. PICK to \in {"fail", "finalize", "poll"} : Goto(g, to)
      BY <1>2, <2>2 DEF Readopt
    <3>2. cur' = [cur EXCEPT ![g] = [cur[g] EXCEPT !.said = "none"]] /\ UNCHANGED <<mode, todo>>
      BY <1>2, <2>2 DEF Readopt
    <3>3. /\ [cur[g] EXCEPT !.said = "none"] \in Hands
          /\ [cur[g] EXCEPT !.said = "none"].job = Hand(g)
          /\ Hand(g) \in Jobs
      BY <2>1 DEF RunnerTypes, Hands, Saids, Hand
    <3>4. todo' \in [Runners -> SUBSET Snapshots] /\ faults' \in Nat /\ to \in Driving
      BY <2>1, <3>2 DEF RunnerTypes, Driving
    <3> QED BY <2>1, <3>1, <3>2, <3>3, <3>4, TakenTypes
  <2>3. CASE ~Stale(Hand(g))
    BY <1>2, <2>1, <2>3, ReturnedTypes DEF Readopt
  <2> QED BY <2>1, <2>2, <2>3
<1>3. CASE CheckCancelled(g)
  <2>1. PICK to \in {"cancel", "submit"} : Step(g, "claimed", to)
    BY <1>3 DEF CheckCancelled
  <2> QED BY <1>3, <2>1, MovedTypes DEF CheckCancelled, Step, Driving
<1>4. CASE Submit(g)
  <2>1. PICK to \in {"requeue", "mark", "submitFailed"} : Step(g, "submit", to)
    BY <1>4 DEF Submit
  <2> QED BY <1>4, <2>1, MovedTypes DEF Submit, Step, Driving
<1>5. CASE MarkShot(g)
  BY <1>5, MovedTypes DEF MarkShot, Step, Driving
<1>6. CASE SubmitFailed(g)
  <2>1. PICK to \in {"requeue", "fail"} : Step(g, "submitFailed", to)
    BY <1>6 DEF SubmitFailed
  <2> QED BY <1>6, <2>1, MovedTypes DEF SubmitFailed, Step, Driving
<1>7. CASE PollCancelled(g)
  BY <1>7, MovedTypes DEF PollCancelled, Step, Driving
<1>8. CASE Poll(g)
  <2>1. pc[g] \in Driving /\ UNCHANGED <<lease, faults, crashes>>
    BY <1>8 DEF Poll, Driving
  <2>2. CASE ~up \/ render[Hand(g)] = "none"
    BY <1>8, <2>1, <2>2, RaiseTypes DEF Poll
  <2>3. CASE ~(~up \/ render[Hand(g)] = "none")
    <3>1. PICK to \in {"finalize", "fail", "poll"} : Step(g, "poll", to)
      BY <1>8, <2>3 DEF Poll
    <3> QED BY <2>1, <3>1, MovedTypes DEF Step, Driving
  <2> QED BY <2>1, <2>2, <2>3
<1>9. CASE Finalize(g)
  <2>1. pc[g] \in Driving /\ UNCHANGED <<lease, faults, crashes>>
    BY <1>9 DEF Finalize, Driving
  <2>2. CASE Step(g, "finalize", "complete")
    BY <2>1, <2>2, MovedTypes DEF Step, Driving
  <2>3. CASE Raise(g)
    BY <2>1, <2>3, RaiseTypes
  <2> QED BY <1>9, <2>1, <2>2, <2>3 DEF Finalize
<1> QED BY <1>1, <1>2, <1>3, <1>4, <1>5, <1>6, <1>7, <1>8, <1>9

\* Every step keeps the types of the processes.
LEMMA RunnerTypesStep == RowTypes /\ RunnerTypes /\ [Next]_vars => RunnerTypes'
<1> SUFFICES ASSUME RowTypes, RunnerTypes, [Next]_vars PROVE RunnerTypes'
  OBVIOUS
<1> USE DEF runnerVars, envVars
<1>1. ASSUME UNCHANGED <<lease, runnerVars>>, faults' \in Nat, crashes' \in Nat
      PROVE  RunnerTypes'
  BY <1>1 DEF RunnerTypes, Hand
<1>2. faults \in Nat /\ crashes \in Nat /\ faults + 1 \in Nat /\ crashes + 1 \in Nat
  BY DEF RunnerTypes
<1>3. ASSUME NEW j \in Jobs, Create(j) \/ CancelRead(j) \/ CancelWrite(j) PROVE RunnerTypes'
  BY <1>1, <1>2, <1>3 DEF Create, CancelRead, CancelWrite
<1>4. ASSUME NEW j \in Jobs, RenderEnds(j) \/ GoesStale(j) \/ TimeRunsOut(j) PROVE RunnerTypes'
  BY <1>1, <1>2, <1>4 DEF RenderEnds, GoesStale, TimeRunsOut
<1>5. CASE SiteChanges
  BY <1>1, <1>2, <1>5 DEF SiteChanges
<1>6. CASE LeaseExpires
  BY <1>2, <1>6 DEF LeaseExpires, RunnerTypes, Hand
<1>7. ASSUME NEW g \in Runners, Acquire(g) PROVE RunnerTypes'
  <2>1. /\ lease' \in Runners \cup {NoOne} /\ faults' \in Nat /\ "scan" \in Leading \ Driving
        /\ mode' \in [Runners -> {"startup", "periodic", "tick"}]
        /\ todo' \in [Runners -> SUBSET Snapshots] /\ pc[g] \notin Driving
    BY <1>2, <1>7 DEF Acquire, RunnerTypes, Leading, Driving
  <2> QED BY <1>7, <2>1, LoopTypes DEF Acquire
<1>8. ASSUME NEW g \in Runners, Overtime(g) PROVE faults' \in Nat
  BY <1>2, <1>8 DEF Overtime
<1>9. ASSUME NEW g \in Runners, ReconcileDue(g) PROVE RunnerTypes'
  <2>1. /\ lease' \in Runners \cup {NoOne} /\ faults' \in Nat /\ "scan" \in Leading \ Driving
        /\ mode' \in [Runners -> {"startup", "periodic", "tick"}]
        /\ todo' \in [Runners -> SUBSET Snapshots] /\ pc[g] \notin Driving
    BY <1>8, <1>9 DEF ReconcileDue, RunnerTypes, Leading, Driving
  <2> QED BY <1>9, <2>1, LoopTypes DEF ReconcileDue
<1>10. ASSUME NEW g \in Runners, StepDown(g) PROVE RunnerTypes'
  <2>1. PICK label \in {"standby", "ended"} : Leave(g, label)
    BY <1>10 DEF StepDown
  <2>2. lease' \in Runners \cup {NoOne} /\ faults' \in Nat /\ crashes' \in Nat
    BY <1>2, <1>10 DEF StepDown, RunnerTypes
  <2> QED BY <2>1, <2>2, LeftTypes
<1>11. ASSUME NEW g \in Runners, Restart(g) PROVE RunnerTypes'
  <2>1. lease' \in Runners \cup {NoOne} /\ faults' \in Nat /\ crashes' \in Nat
    BY <1>2, <1>11 DEF Restart, RunnerTypes
  <2> QED BY <1>11, <2>1, LeftTypes DEF Restart
<1>12. ASSUME NEW g \in Runners, Run(g) PROVE RunnerTypes'
  <2>1. CASE Scan(g)
    <3>1. {Snapshot(j) : j \in {k \in Jobs : Stale(k)}} \in SUBSET Snapshots
      BY SnapshotType
    <3>2. todo' \in [Runners -> SUBSET Snapshots]
      BY <2>1, <3>1 DEF Scan, RunnerTypes
    <3>3. /\ lease' \in Runners \cup {NoOne} /\ faults' \in Nat /\ "reconcile" \in Leading \ Driving
          /\ mode' \in [Runners -> {"startup", "periodic", "tick"}] /\ pc[g] \notin Driving
      BY <2>1 DEF Scan, RunnerTypes, Leading, Driving
    <3> QED BY <2>1, <3>2, <3>3, LoopTypes DEF Scan
  <2>2. CASE ReconcileEnds(g)
    <3>1. /\ lease' \in Runners \cup {NoOne} /\ faults' \in Nat /\ "idle" \in Leading \ Driving
          /\ mode' \in [Runners -> {"startup", "periodic", "tick"}]
          /\ todo' \in [Runners -> SUBSET Snapshots] /\ pc[g] \notin Driving
      BY <2>2 DEF ReconcileEnds, RunnerTypes, Leading, Driving
    <3> QED BY <2>2, <3>1, LoopTypes DEF ReconcileEnds
  <2>3. CASE ReconcileJob(g)
    <3>1. PICK s \in todo[g] :
            /\ todo' = [todo EXCEPT ![g] = @ \ {s}]
            /\ cur' = [cur EXCEPT ![g] = [s EXCEPT !.said = render[s.job], !.known = FALSE]]
            /\ \E label \in {"fail", "requeue", "lost", "readopt"} : Goto(g, label)
      BY <2>3 DEF ReconcileJob
    <3> DEFINE c == [s EXCEPT !.said = render[s.job], !.known = FALSE]
    <3>2. s \in Snapshots
      BY DEF RunnerTypes
    <3>3. s.job \in Jobs /\ render[s.job] \in Saids
      BY <3>2 DEF Snapshots, RowTypes
    <3>4. c \in Hands /\ c.job \in Jobs
      BY <3>2, <3>3 DEF Snapshots, Hands
    <3>5. PICK label \in Driving : Goto(g, label)
      BY <3>1 DEF Driving
    <3>6. todo' \in [Runners -> SUBSET Snapshots]
      BY <3>1 DEF RunnerTypes
    <3>7. faults' \in Nat /\ UNCHANGED <<mode, lease, crashes>>
      BY <1>2, <2>3 DEF ReconcileJob
    <3> QED BY <3>1, <3>4, <3>5, <3>6, <3>7, TakenTypes
  <2>4. CASE Claim(g)
    <3> DEFINE open == {k \in Jobs : status[k] = "queued"}
    <3>1. open # {} /\ cur' = [cur EXCEPT ![g] = Snapshot(Min(open))]
      BY <2>4 DEF Claim
    <3>2. Min(open) \in Jobs
      BY <3>1, MinIsIn
    <3>3. Snapshot(Min(open)) \in Hands /\ Snapshot(Min(open)).job \in Jobs
      BY <3>2, SnapshotType
    <3>4. /\ faults' \in Nat /\ todo' \in [Runners -> SUBSET Snapshots]
          /\ "claimed" \in Driving /\ Goto(g, "claimed") /\ UNCHANGED <<mode, lease, crashes>>
      BY <1>8, <2>4 DEF Claim, RunnerTypes, Driving
    <3> HIDE DEF open
    <3> QED BY <3>1, <3>3, <3>4, TakenTypes
  <2>5. CASE CompleteJob(g) \/ Requeue(g) \/ FailJob(g) \/ MarkCancelled(g)
    <3>1. Return(g) /\ UNCHANGED <<lease, faults, crashes>>
      BY <2>5 DEF CompleteJob, Requeue, FailJob, MarkCancelled, Write
    <3> QED BY <3>1, ReturnedTypes
  <2> QED BY <1>12, <2>1, <2>2, <2>3, <2>4, <2>5, DrivingTypes DEF Run
<1>13. CASE UNCHANGED vars
  BY <1>1, <1>2, <1>13 DEF vars
<1> QED BY <1>3, <1>4, <1>5, <1>6, <1>7, <1>9, <1>10, <1>11, <1>12, <1>13 DEF Next

-----------------------------------------------------------------------------
(* Refunds.                                                                *)

\* The steps of a process that write the status of no row.
Quietly(g) ==
    \/ Scan(g) \/ ReconcileEnds(g) \/ ReconcileJob(g) \/ ReconcileLost(g) \/ Readopt(g)
    \/ CheckCancelled(g) \/ Submit(g) \/ MarkShot(g) \/ SubmitFailed(g)
    \/ PollCancelled(g) \/ Poll(g) \/ Finalize(g)
    \/ Acquire(g) \/ ReconcileDue(g) \/ StepDown(g) \/ Restart(g)

\* The steps of nobody in particular, none of which writes a status.
Outside ==
    \/ \E j \in Jobs : RenderEnds(j) \/ GoesStale(j) \/ TimeRunsOut(j)
    \/ LeaseExpires \/ SiteChanges
    \/ UNCHANGED vars

\* The steps that neither end a job nor touch a reservation.
LEMMA QuietSteps ==
    ASSUME Outside \/ \E g \in Runners : Quietly(g)
    PROVE  UNCHANGED <<status, refunds, flag, asking>>
<1> USE DEF jobVars, envVars
<1>1. CASE Outside
  BY <1>1 DEF Outside, RenderEnds, GoesStale, TimeRunsOut, LeaseExpires, SiteChanges, vars
<1>2. ASSUME NEW g \in Runners, Quietly(g) PROVE UNCHANGED <<status, refunds, flag, asking>>
  <2>1. CASE Scan(g) \/ ReconcileEnds(g) \/ ReconcileJob(g) \/ ReconcileLost(g) \/ Readopt(g)
    BY <2>1 DEF Scan, ReconcileEnds, ReconcileJob, ReconcileLost, Readopt
  <2>2. CASE CheckCancelled(g) \/ Submit(g) \/ MarkShot(g) \/ SubmitFailed(g)
    BY <2>2 DEF CheckCancelled, Submit, MarkShot, SubmitFailed
  <2>3. CASE PollCancelled(g) \/ Poll(g) \/ Finalize(g)
    BY <2>3 DEF PollCancelled, Poll, Finalize
  <2>4. CASE Acquire(g) \/ ReconcileDue(g) \/ StepDown(g) \/ Restart(g)
    BY <2>4 DEF Acquire, ReconcileDue, StepDown, Restart
  <2> QED BY <1>2, <2>1, <2>2, <2>3, <2>4 DEF Quietly
<1> QED BY <1>1, <1>2

\* Every other step is one of the API, a claim, or the end of a drive.
LEMMA StepKinds ==
    ASSUME [Next]_vars
    PROVE  \/ Outside \/ \E g \in Runners : Quietly(g)
           \/ \E j \in Jobs : Create(j) \/ CancelRead(j) \/ CancelWrite(j)
           \/ \E g \in Runners : Claim(g) \/ CompleteJob(g) \/ Requeue(g) \/ FailJob(g)
                                   \/ MarkCancelled(g)
BY DEF Next, Run, Outside, Quietly

\* A row that exists is written; a row that does not exist stays as it is.
LEMMA Written ==
    ASSUME RowTypes, NEW j \in Jobs, NEW s \in Statuses, status' = Put(status, j, s)
    PROVE  /\ \A k \in Jobs \ {j} : status'[k] = status[k]
           /\ status'[j] = IF Exists(j) THEN s ELSE status[j]
BY DEF RowTypes, Put

\* A refund is counted if the row exists.
LEMMA Refunded ==
    ASSUME RowTypes, NEW g \in Runners, Hand(g) \in Jobs, Refund(g)
    PROVE  /\ \A k \in Jobs \ {Hand(g)} : refunds'[k] = refunds[k]
           /\ refunds'[Hand(g)] = IF Exists(Hand(g)) THEN refunds[Hand(g)] + 1
                                                    ELSE refunds[Hand(g)]
BY DEF RowTypes, Refund, Put

\* Every step keeps the reservations of unserved jobs given back.
LEMMA UnservedStep ==
    RowTypes /\ RunnerTypes /\ UnservedIsRefunded /\ [Next]_vars => UnservedIsRefunded'
<1> SUFFICES ASSUME RowTypes, RunnerTypes, UnservedIsRefunded, [Next]_vars
             PROVE  UnservedIsRefunded'
  OBVIOUS
<1>1. \A j \in Jobs : refunds[j] \in Nat
  BY DEF RowTypes
<1>2. ASSUME UNCHANGED <<status, refunds>> PROVE UnservedIsRefunded'
  BY <1>2 DEF UnservedIsRefunded
<1>3. ASSUME NEW j \in Jobs, Create(j) PROVE UnservedIsRefunded'
  BY <1>3 DEF Create, UnservedIsRefunded, RowTypes, jobVars
<1>4. ASSUME NEW j \in Jobs, CancelRead(j) PROVE UnservedIsRefunded'
  BY <1>2, <1>4 DEF CancelRead, jobVars
<1>5. ASSUME NEW j \in Jobs, CancelWrite(j) PROVE UnservedIsRefunded'
  <2>1. CASE asking[j] = "queued"
    <3>1. /\ status' = [status EXCEPT ![j] = "cancelled"]
          /\ refunds' = [refunds EXCEPT ![j] = refunds[j] + 1]
      BY <1>5, <2>1 DEF CancelWrite, Terminal
    <3> QED BY <1>1, <3>1 DEF UnservedIsRefunded, RowTypes
  <2>2. CASE asking[j] # "queued"
    <3>1. refunds' = refunds
      BY <1>5, <2>2 DEF CancelWrite
    <3>2. status' = status \/ status' = [status EXCEPT ![j] = "deleted"]
      BY <1>5, <2>2 DEF CancelWrite
    <3> QED BY <3>1, <3>2 DEF UnservedIsRefunded, RowTypes
  <2> QED BY <2>1, <2>2
<1>6. ASSUME NEW g \in Runners, Claim(g) PROVE UnservedIsRefunded'
  <2>1. PICK j : status' = [status EXCEPT ![j] = "rendering"]
    BY <1>6 DEF Claim
  <2>2. refunds' = refunds
    BY <1>6 DEF Claim
  <2> QED BY <2>1, <2>2 DEF UnservedIsRefunded, RowTypes
<1>7. ASSUME NEW g \in Runners, CompleteJob(g) \/ Requeue(g) PROVE UnservedIsRefunded'
  <2>1. PICK s \in {"completed", "queued"} : status' = Put(status, Hand(g), s)
    BY <1>7 DEF CompleteJob, Requeue, Write
  <2>2. refunds' = refunds /\ Hand(g) \in Jobs
    BY <1>7 DEF CompleteJob, Requeue, Write, RunnerTypes, Driving
  <2>3. s \in Statuses
    BY DEF Statuses, Terminal
  <2> QED BY <2>1, <2>2, <2>3, Written DEF UnservedIsRefunded
<1>8. ASSUME NEW g \in Runners, FailJob(g) \/ MarkCancelled(g) PROVE UnservedIsRefunded'
  <2>1. PICK s \in {"failed", "cancelled"} : status' = Put(status, Hand(g), s)
    BY <1>8 DEF FailJob, MarkCancelled, Write
  <2>2. Refund(g) /\ Hand(g) \in Jobs
    BY <1>8 DEF FailJob, MarkCancelled, Write, RunnerTypes, Driving
  <2>3. s \in Statuses
    BY DEF Statuses, Terminal
  <2>4. \A k \in Jobs : k = Hand(g) /\ Exists(k) => refunds'[k] > 0
    BY <1>1, <2>2, Refunded
  <2>5. \A k \in Jobs : ~(k = Hand(g) /\ Exists(k)) =>
            status'[k] = status[k] /\ refunds'[k] = refunds[k]
    BY <2>1, <2>2, <2>3, Written, Refunded
  <2> QED BY <2>4, <2>5 DEF UnservedIsRefunded
<1> QED BY <1>2, <1>3, <1>4, <1>5, <1>6, <1>7, <1>8, StepKinds, QuietSteps

\* At the start there are no jobs, and nobody runs.
LEMMA TypesInit == Init => RowTypes /\ RunnerTypes
<1> SUFFICES ASSUME Init PROVE RowTypes /\ RunnerTypes
  OBVIOUS
<1>1. RowTypes
  BY DEF Init, RowTypes, Statuses, Saids
<1>2. NoJob \in Hands /\ NoJob.job = NoOne
  BY DEF NoJob, Hands, Saids
<1>3. RunnerTypes
  BY <1>2 DEF Init, RunnerTypes, Hand, Driving
<1> QED BY <1>1, <1>3

\* UnservedIsRefunded for any number of processes and jobs: no overlap of
\* cancellations, runners, lost leases and crashes ends a job without output
\* and without its refund.
THEOREM UnservedRefunded == Spec => []UnservedIsRefunded
<1>1. Init => UnservedIsRefunded
  BY DEF Init, UnservedIsRefunded
<1> QED BY <1>1, TypesInit, RowTypesStep, RunnerTypesStep, UnservedStep, PTL DEF Spec

-----------------------------------------------------------------------------
(* One driver at a time.                                                   *)

\* On the job in hand a process goes on, or, called from reconcile, drops it;
\* it goes on to mark the job cancelled only if the job is flagged.
LEMMA Drives ==
    ASSUME RowTypes, RunnerTypes, NEW g \in Runners,
           \/ ReconcileLost(g) \/ Readopt(g) \/ CheckCancelled(g) \/ Submit(g) \/ MarkShot(g)
           \/ SubmitFailed(g) \/ PollCancelled(g) \/ Poll(g) \/ Finalize(g)
    PROVE  /\ UNCHANGED <<mode, todo, lease, faults, crashes, status, flag, refunds, asking>>
           /\ pc[g] \in Driving
           /\ \/ \E to \in Driving : /\ Goto(g, to)
                                     /\ \A h \in Runners : Hand(h)' = Hand(h)
                                     /\ to = "cancel" => flag[Hand(g)]
              \/ Return(g) /\ (mode[g] = "tick" => pc[g] = "readopt")
<1> DEFINE GoesOn == \E to \in Driving : /\ Goto(g, to)
                                         /\ \A h \in Runners : Hand(h)' = Hand(h)
                                         /\ to = "cancel" => flag[Hand(g)]
           Same == UNCHANGED <<mode, todo, lease, faults, crashes, status, flag, refunds, asking>>
<1> USE DEF envVars, jobVars
<1>1. CASE ReconcileLost(g) \/ CheckCancelled(g) \/ Submit(g)
  BY <1>1 DEF ReconcileLost, CheckCancelled, Submit, Step, Driving, Hand
<1>2. CASE MarkShot(g) \/ SubmitFailed(g) \/ PollCancelled(g)
  BY <1>2 DEF MarkShot, SubmitFailed, PollCancelled, Step, Driving, Hand
<1>3. CASE Readopt(g)
  <2>1. Same /\ pc[g] \in Driving
    BY <1>3 DEF Readopt, Return, Driving
  <2>2. CASE Stale(Hand(g))
    <3>1. \A h \in Runners : Hand(h)' = Hand(h)
      BY <1>3, <2>2 DEF Readopt, RunnerTypes, Hand, Hands
    <3> QED BY <1>3, <2>1, <2>2, <3>1 DEF Readopt, Driving
  <2>3. CASE ~Stale(Hand(g))
    BY <1>3, <2>1, <2>3 DEF Readopt
  <2> QED BY <2>1, <2>2, <2>3
<1>4. CASE Poll(g)
  <2>1. CASE Raise(g)
    BY <1>4, <2>1 DEF Poll, Raise, Return, Driving, Hand
  <2>2. CASE ~Raise(g)
    BY <1>4, <2>2 DEF Poll, Step, Driving, Hand
  <2> QED BY <2>1, <2>2
<1>5. CASE Finalize(g)
  <2>1. CASE Raise(g)
    BY <1>5, <2>1 DEF Finalize, Raise, Return, Driving, Hand
  <2>2. CASE ~Raise(g)
    BY <1>5, <2>2 DEF Finalize, Step, Driving, Hand
  <2> QED BY <2>1, <2>2
<1> QED BY <1>1, <1>2, <1>3, <1>4, <1>5

\* The list of a process that leaves, or begins a loop, is in place.
LEMMA ListsStep ==
    RowTypes /\ RunnerTypes /\ ListsInPlace /\ [Next]_vars => ListsInPlace'
<1> SUFFICES ASSUME RowTypes, RunnerTypes, ListsInPlace, [Next]_vars PROVE ListsInPlace'
  OBVIOUS
<1> DEFINE InPlace(h) == /\ (mode[h] = "tick" \/ pc[h] \notin Leading) => todo[h] = {}
                         /\ pc[h] = "idle" => mode[h] = "tick"
                         /\ pc[h] = "scan" => mode[h] # "tick"
                         /\ \A s, t \in todo[h] : s.job = t.job => s = t
<1>1. \A h \in Runners : InPlace(h)
  BY DEF ListsInPlace
<1>2. ASSUME UNCHANGED <<pc, mode, todo>> PROVE ListsInPlace'
  BY <1>2 DEF ListsInPlace
<1>3. ASSUME NEW g \in Runners, \A h \in Runners \ {g} : UNCHANGED <<pc[h], mode[h], todo[h]>>,
             InPlace(g)'
      PROVE  ListsInPlace'
  BY <1>1, <1>3 DEF ListsInPlace
<1>4. CASE Outside
  BY <1>2, <1>4 DEF Outside, RenderEnds, GoesStale, TimeRunsOut, LeaseExpires, SiteChanges, vars,
                    runnerVars
<1>5. ASSUME NEW j \in Jobs, Create(j) \/ CancelRead(j) \/ CancelWrite(j) PROVE ListsInPlace'
  BY <1>2, <1>5 DEF Create, CancelRead, CancelWrite, runnerVars
<1>6. ASSUME NEW g \in Runners, NEW to \in Driving, pc[g] \in Leading, Goto(g, to),
             UNCHANGED <<mode, todo>>
      PROVE  ListsInPlace'
  BY <1>1, <1>3, <1>6 DEF Goto, RunnerTypes, Leading, Driving
<1>7. ASSUME NEW g \in Runners, pc[g] \in Leading, Return(g) PROVE ListsInPlace'
  BY <1>1, <1>3, <1>7 DEF Return, Goto, RunnerTypes, Leading
<1>8. ASSUME NEW g \in Runners, NEW label \in {"standby", "ended"}, Leave(g, label)
      PROVE  ListsInPlace'
  BY <1>3, <1>8 DEF Leave, Goto, RunnerTypes
<1>9. ASSUME NEW g \in Runners, Quietly(g) PROVE ListsInPlace'
  <2>1. CASE Scan(g)
    <3>1. /\ pc' = [pc EXCEPT ![g] = "reconcile"] /\ pc[g] = "scan" /\ mode' = mode
          /\ todo' = [todo EXCEPT ![g] = {Snapshot(j) : j \in {k \in Jobs : Stale(k)}}]
      BY <2>1 DEF Scan, Goto
    <3>2. \A s, t \in {Snapshot(j) : j \in {k \in Jobs : Stale(k)}} : s.job = t.job => s = t
      BY SnapshotType
    <3> QED BY <1>1, <1>3, <3>1, <3>2 DEF RunnerTypes, Leading
  <2>2. CASE ReconcileEnds(g)
    BY <1>1, <1>3, <2>2 DEF ReconcileEnds, Goto, RunnerTypes
  <2>3. CASE ReconcileJob(g)
    <3>1. PICK s \in todo[g] :
            /\ todo' = [todo EXCEPT ![g] = todo[g] \ {s}]
            /\ \E label \in {"fail", "requeue", "lost", "readopt"} : Goto(g, label)
      BY <2>3 DEF ReconcileJob
    <3>2. PICK label \in {"fail", "requeue", "lost", "readopt"} : Goto(g, label)
      BY <3>1
    <3>3. /\ pc[g] \in Leading /\ label \in Leading /\ label \notin {"idle", "scan"}
          /\ mode' = mode
      BY <2>3 DEF ReconcileJob, Leading, Driving
    <3> QED BY <1>1, <1>3, <3>1, <3>2, <3>3 DEF RunnerTypes, Goto
  <2>4. CASE \/ ReconcileLost(g) \/ Readopt(g) \/ CheckCancelled(g) \/ Submit(g) \/ MarkShot(g)
             \/ SubmitFailed(g) \/ PollCancelled(g) \/ Poll(g) \/ Finalize(g)
    <3>1. pc[g] \in Leading /\ UNCHANGED <<mode, todo>>
      BY <2>4, Drives DEF Leading
    <3>2. (\E to \in Driving : Goto(g, to)) \/ Return(g)
      BY <2>4, Drives
    <3> QED BY <1>6, <1>7, <3>1, <3>2
  <2>5. CASE Acquire(g)
    BY <1>1, <1>3, <2>5 DEF Acquire, Goto, RunnerTypes, Leading, Driving
  <2>6. CASE ReconcileDue(g)
    BY <1>1, <1>3, <2>6 DEF ReconcileDue, Goto, RunnerTypes, Leading
  <2>7. CASE StepDown(g) \/ Restart(g)
    BY <1>8, <2>7 DEF StepDown, Restart
  <2> QED BY <1>9, <2>1, <2>2, <2>3, <2>4, <2>5, <2>6, <2>7 DEF Quietly
<1>10. ASSUME NEW g \in Runners, Claim(g) PROVE ListsInPlace'
  BY <1>6, <1>10 DEF Claim, Leading, Driving
<1>11. ASSUME NEW g \in Runners, CompleteJob(g) \/ Requeue(g) \/ FailJob(g) \/ MarkCancelled(g)
       PROVE  ListsInPlace'
  BY <1>7, <1>11 DEF CompleteJob, Requeue, FailJob, MarkCancelled, Write, Leading, Driving
<1> QED BY <1>4, <1>5, <1>9, <1>10, <1>11, StepKinds

\* No fault is forgotten.
LEMMA FaultsGrow ==
    ASSUME RunnerTypes, [Next]_vars
    PROVE  /\ faults' = faults \/ faults' = faults + 1
           /\ crashes' = crashes \/ crashes' = crashes + 1
           /\ faults' = 0 => faults = 0
           /\ faults' + crashes' = 0 => faults + crashes = 0
<1> USE DEF envVars
<1> DEFINE Grow == /\ faults' = faults \/ faults' = faults + 1
                   /\ crashes' = crashes \/ crashes' = crashes + 1
<1>1. ASSUME Outside PROVE Grow
  BY <1>1 DEF Outside, RenderEnds, GoesStale, TimeRunsOut, LeaseExpires, SiteChanges, vars
<1>2. ASSUME NEW j \in Jobs, Create(j) \/ CancelRead(j) \/ CancelWrite(j) PROVE Grow
  BY <1>2 DEF Create, CancelRead, CancelWrite
<1>3. ASSUME NEW g \in Runners, Quietly(g) PROVE Grow
  <2>1. CASE Scan(g) \/ ReconcileEnds(g) \/ ReconcileJob(g) \/ ReconcileLost(g) \/ Readopt(g)
    BY <2>1 DEF Scan, ReconcileEnds, ReconcileJob, ReconcileLost, Readopt
  <2>2. CASE CheckCancelled(g) \/ Submit(g) \/ MarkShot(g) \/ SubmitFailed(g)
    BY <2>2 DEF CheckCancelled, Submit, MarkShot, SubmitFailed
  <2>3. CASE PollCancelled(g) \/ Poll(g) \/ Finalize(g)
    BY <2>3 DEF PollCancelled, Poll, Finalize
  <2>4. CASE Acquire(g) \/ ReconcileDue(g) \/ StepDown(g) \/ Restart(g)
    BY <2>4 DEF Acquire, ReconcileDue, StepDown, Restart, Overtime
  <2> QED BY <1>3, <2>1, <2>2, <2>3, <2>4 DEF Quietly
<1>4. ASSUME NEW g \in Runners, \/ Claim(g) \/ CompleteJob(g) \/ Requeue(g) \/ FailJob(g)
                                \/ MarkCancelled(g)
      PROVE  Grow
  BY <1>4 DEF Claim, Overtime, CompleteJob, Requeue, FailJob, MarkCancelled, Write
<1>5. Grow
  BY <1>1, <1>2, <1>3, <1>4, StepKinds
<1>6. faults \in Nat /\ crashes \in Nat
  BY DEF RunnerTypes
<1> QED BY <1>5, <1>6

\* A step that leaves flags alone and deletes nothing contests no job, unless
\* it is a fault.
LEMMA SameContested ==
    ASSUME flag' = flag, faults' = faults,
           \A j \in Jobs : status'[j] = "deleted" <=> status[j] = "deleted"
    PROVE  Contested' = Contested
BY DEF Contested

\* What the end of a drive does to the rows.
LEMMA Ends ==
    ASSUME RowTypes, RunnerTypes, NEW g \in Runners,
           CompleteJob(g) \/ Requeue(g) \/ FailJob(g) \/ MarkCancelled(g)
    PROVE  /\ pc[g] \in Driving /\ Hand(g) \in Jobs /\ Return(g)
           /\ UNCHANGED <<flag, asking, lease, faults, crashes, render>>
           /\ \A k \in Jobs \ {Hand(g)} : status'[k] = status[k]
           /\ Exists(Hand(g)) => status'[Hand(g)] \in {"queued"} \cup Terminal
           /\ ~Exists(Hand(g)) => status'[Hand(g)] = status[Hand(g)]
           /\ status'[Hand(g)] = "queued" => status[Hand(g)] = "queued" \/ pc[g] = "requeue"
           /\ Contested' = Contested
<1>1. PICK label \in {"complete", "requeue", "fail", "cancel"},
           s \in {"completed", "queued", "failed", "cancelled"} :
             Write(g, label, s) /\ (s = "queued" => label = "requeue")
  BY DEF CompleteJob, Requeue, FailJob, MarkCancelled
<1>2. /\ pc[g] = label /\ pc[g] \in Driving /\ Return(g) /\ Hand(g) \in Jobs
      /\ UNCHANGED <<flag, asking, lease, faults, crashes, render>>
      /\ status' = Put(status, Hand(g), s)
  BY <1>1 DEF Write, Driving, RunnerTypes, envVars
<1>3. s \in Statuses
  BY DEF Statuses, Terminal
<1>4. /\ \A k \in Jobs \ {Hand(g)} : status'[k] = status[k]
      /\ status'[Hand(g)] = IF Exists(Hand(g)) THEN s ELSE status[Hand(g)]
  BY <1>2, <1>3, Written
<1>5. Contested' = Contested
  BY <1>2, <1>4, SameContested DEF Exists
<1> QED BY <1>1, <1>2, <1>4, <1>5 DEF Terminal

\* What a claim does to the rows.
LEMMA Claims ==
    ASSUME RowTypes, RunnerTypes, NEW g \in Runners, Claim(g)
    PROVE  \E j \in Jobs :
              /\ status[j] = "queued"
              /\ status' = [status EXCEPT ![j] = "rendering"]
              /\ cur' = [cur EXCEPT ![g] = Snapshot(j)]
              /\ Hand(g)' = j
              /\ pc[g] = "idle" /\ Goto(g, "claimed") /\ Overtime(g)
              /\ UNCHANGED <<flag, refunds, asking, render, lease, mode, todo, crashes>>
<1> DEFINE open == {k \in Jobs : status[k] = "queued"}
           j == Min(open)
<1>1. /\ open # {} /\ status' = [status EXCEPT ![j] = "rendering"]
      /\ cur' = [cur EXCEPT ![g] = Snapshot(j)]
      /\ pc[g] = "idle" /\ Goto(g, "claimed") /\ Overtime(g)
      /\ UNCHANGED <<flag, refunds, asking, render, lease, mode, todo, crashes>>
  BY DEF Claim
<1>2. j \in open
  BY <1>1, MinIsIn
<1>3. j \in Jobs /\ status[j] = "queued"
  BY <1>2
<1> HIDE DEF open, j
<1>4. Hand(g)' = j
  BY <1>1, <1>3, SnapshotType DEF Hand, RunnerTypes
<1> QED BY <1>1, <1>3, <1>4

\* What DELETE /videos/{id} does to the rows: it contests the job.
LEMMA CancelContests ==
    ASSUME RowTypes, RunnerTypes, NEW j \in Jobs, CancelWrite(j)
    PROVE  /\ Contested' = Contested \cup {j}
           /\ \A k \in Jobs \ {j} : status'[k] = status[k]
           /\ asking' = [asking EXCEPT ![j] = "no"]
           /\ UNCHANGED <<lease, runnerVars, faults, crashes, render>>
           /\ status'[j] \in {status[j], "deleted", "cancelled"}
<1>1. /\ asking' = [asking EXCEPT ![j] = "no"]
      /\ UNCHANGED <<lease, runnerVars, faults, crashes, render>>
  BY DEF CancelWrite, envVars
<1>2. \A k \in Jobs \ {j} : status'[k] = status[k] /\ flag'[k] = flag[k]
  BY DEF CancelWrite, RowTypes
<1>3. status'[j] \in {status[j], "deleted", "cancelled"}
  BY DEF CancelWrite, RowTypes
<1>4. flag'[j] \/ status'[j] = "deleted"
  BY DEF CancelWrite, RowTypes
<1> QED BY <1>1, <1>2, <1>3, <1>4 DEF Contested

\* A contested job stays contested.
LEMMA ContestedGrows ==
    ASSUME RowTypes, RunnerTypes, CancelsInPlace, [Next]_vars
    PROVE  Contested \subseteq Contested'
<1>1. CASE faults' # faults
  BY <1>1, FaultsGrow DEF Contested, RunnerTypes
<1> SUFFICES ASSUME faults' = faults PROVE Contested \subseteq Contested'
  BY <1>1
<1>2. CASE Outside \/ \E g \in Runners : Quietly(g)
  BY <1>2, QuietSteps DEF Contested
<1>3. ASSUME NEW j \in Jobs, Create(j) \/ CancelRead(j) PROVE Contested \subseteq Contested'
  BY <1>3 DEF Create, CancelRead, jobVars, Contested, RowTypes
<1>4. ASSUME NEW j \in Jobs, CancelWrite(j) PROVE Contested \subseteq Contested'
  BY <1>4, CancelContests
<1>5. ASSUME NEW g \in Runners, Claim(g) PROVE Contested \subseteq Contested'
  BY <1>5, Claims DEF Contested, RowTypes
<1>6. ASSUME NEW g \in Runners, CompleteJob(g) \/ Requeue(g) \/ FailJob(g) \/ MarkCancelled(g)
      PROVE  Contested \subseteq Contested'
  BY <1>6, Ends
<1> QED BY <1>2, <1>3, <1>4, <1>5, <1>6, StepKinds

\* Every step keeps cancellations in place.
LEMMA CancelsStep ==
    ASSUME RowTypes, RunnerTypes, CancelsInPlace, [Next]_vars
    PROVE  CancelsInPlace'
<1>1. Contested \subseteq Contested'
  BY ContestedGrows
<1>2. ASSUME UNCHANGED <<status, asking>> PROVE \A j \in Jobs : asking'[j] # "no" => Exists(j)'
  BY <1>2 DEF CancelsInPlace, Exists
<1>3. ASSUME UNCHANGED <<pc, cur>> PROVE \A g \in Runners : pc'[g] = "cancel" => Hand(g)' \in Contested'
  BY <1>1, <1>3 DEF CancelsInPlace, Hand
<1>4. CASE Outside
  <2>1. UNCHANGED <<status, asking, pc, cur>>
    BY <1>4, QuietSteps DEF Outside, RenderEnds, GoesStale, TimeRunsOut, LeaseExpires, SiteChanges,
                            vars, runnerVars
  <2> QED BY <1>2, <1>3, <2>1 DEF CancelsInPlace
<1>5. ASSUME NEW g \in Runners, NEW to, to # "cancel", Goto(g, to),
             \A h \in Runners \ {g} : Hand(h)' = Hand(h)
      PROVE  \A h \in Runners : pc'[h] = "cancel" => Hand(h)' \in Contested'
  BY <1>1, <1>5 DEF CancelsInPlace, Goto, RunnerTypes
<1>6. ASSUME NEW g \in Runners, Return(g)
      PROVE  \A h \in Runners : pc'[h] = "cancel" => Hand(h)' \in Contested'
  <2>1. PICK to \in {"idle", "reconcile"} : Goto(g, to)
    BY <1>6 DEF Return
  <2>2. \A h \in Runners \ {g} : Hand(h)' = Hand(h)
    BY <1>6 DEF Return, Hand, RunnerTypes
  <2> QED BY <1>5, <2>1, <2>2
<1>7. ASSUME NEW g \in Runners, Quietly(g) PROVE CancelsInPlace'
  <2>1. \A j \in Jobs : asking'[j] # "no" => Exists(j)'
    BY <1>2, <1>7, QuietSteps
  <2>2. CASE Scan(g) \/ ReconcileEnds(g) \/ Acquire(g) \/ ReconcileDue(g)
    <3>1. PICK to \in {"reconcile", "idle", "scan"} : Goto(g, to)
      BY <2>2 DEF Scan, ReconcileEnds, Acquire, ReconcileDue
    <3>2. \A h \in Runners \ {g} : Hand(h)' = Hand(h)
      BY <2>2 DEF Scan, ReconcileEnds, Acquire, ReconcileDue, Hand
    <3> QED BY <1>5, <2>1, <3>1, <3>2 DEF CancelsInPlace
  <2>3. CASE ReconcileJob(g)
    <3>1. PICK to \in {"fail", "requeue", "lost", "readopt"} : Goto(g, to)
      BY <2>3 DEF ReconcileJob
    <3>2. \A h \in Runners \ {g} : Hand(h)' = Hand(h)
      BY <2>3 DEF ReconcileJob, Hand, RunnerTypes
    <3> QED BY <1>5, <2>1, <3>1, <3>2 DEF CancelsInPlace
  <2>4. CASE \/ ReconcileLost(g) \/ Readopt(g) \/ CheckCancelled(g) \/ Submit(g) \/ MarkShot(g)
             \/ SubmitFailed(g) \/ PollCancelled(g) \/ Poll(g) \/ Finalize(g)
    <3>1. CASE Return(g)
      BY <1>6, <2>1, <3>1 DEF CancelsInPlace
    <3>2. CASE ~Return(g)
      <4>1. PICK to \in Driving : /\ Goto(g, to)
                                  /\ \A h \in Runners : Hand(h)' = Hand(h)
                                  /\ to = "cancel" => flag[Hand(g)]
        BY <2>4, <3>2, Drives
      <4>2. flag[Hand(g)] /\ Hand(g) \in Jobs => Hand(g) \in Contested
        BY DEF Contested
      <4>3. Hand(g) \in Jobs
        BY <2>4, Drives DEF RunnerTypes
      <4>4. \A h \in Runners : pc'[h] = "cancel" => Hand(h)' \in Contested'
        BY <1>1, <4>1, <4>2, <4>3 DEF CancelsInPlace, Goto, RunnerTypes
      <4> QED BY <2>1, <4>4 DEF CancelsInPlace
    <3> QED BY <3>1, <3>2
  <2>5. CASE StepDown(g) \/ Restart(g)
    <3>1. PICK to \in {"standby", "ended"} : Leave(g, to)
      BY <2>5 DEF StepDown, Restart
    <3>2. \A h \in Runners \ {g} : Hand(h)' = Hand(h)
      BY <3>1 DEF Leave, Hand, RunnerTypes
    <3> QED BY <1>5, <2>1, <3>1, <3>2 DEF Leave, CancelsInPlace
  <2> QED BY <1>7, <2>2, <2>3, <2>4, <2>5 DEF Quietly
<1>8. ASSUME NEW j \in Jobs, Create(j) PROVE CancelsInPlace'
  <2>1. \A k \in Jobs : asking'[k] # "no" => Exists(k)'
    BY <1>8 DEF Create, CancelsInPlace, Exists, RowTypes
  <2> QED BY <1>3, <1>8, <2>1 DEF Create, runnerVars, CancelsInPlace
<1>9. ASSUME NEW j \in Jobs, CancelRead(j) PROVE CancelsInPlace'
  <2>1. \A k \in Jobs : asking'[k] # "no" => Exists(k)'
    BY <1>9 DEF CancelRead, CancelsInPlace, Exists, RowTypes, jobVars
  <2> QED BY <1>3, <1>9, <2>1 DEF CancelRead, runnerVars, CancelsInPlace
<1>10. ASSUME NEW j \in Jobs, CancelWrite(j) PROVE CancelsInPlace'
  <2>1. \A k \in Jobs : asking'[k] # "no" => Exists(k)'
    BY <1>10, CancelContests DEF CancelsInPlace, Exists, RowTypes
  <2> QED BY <1>3, <1>10, <2>1, CancelContests DEF runnerVars, CancelsInPlace
<1>11. ASSUME NEW g \in Runners, Claim(g) PROVE CancelsInPlace'
  <2>1. PICK j \in Jobs : /\ status' = [status EXCEPT ![j] = "rendering"]
                          /\ cur' = [cur EXCEPT ![g] = Snapshot(j)]
                          /\ Goto(g, "claimed") /\ asking' = asking
    BY <1>11, Claims
  <2>2. \A k \in Jobs : asking'[k] # "no" => Exists(k)'
    BY <2>1 DEF CancelsInPlace, Exists, RowTypes
  <2>3. \A h \in Runners \ {g} : Hand(h)' = Hand(h)
    BY <2>1 DEF Hand, RunnerTypes
  <2> QED BY <1>5, <2>1, <2>2, <2>3 DEF CancelsInPlace
<1>12. ASSUME NEW g \in Runners, CompleteJob(g) \/ Requeue(g) \/ FailJob(g) \/ MarkCancelled(g)
       PROVE  CancelsInPlace'
  <2>1. \A k \in Jobs : Exists(k) => Exists(k)'
    BY <1>12, Ends DEF Exists, Terminal
  <2>2. asking' = asking /\ Return(g)
    BY <1>12, Ends
  <2> QED BY <1>6, <2>1, <2>2 DEF CancelsInPlace
<1> QED BY <1>4, <1>7, <1>8, <1>9, <1>10, <1>11, <1>12, StepKinds

\* The part of SoleDriver that speaks of one process.
Sole(g) ==
    /\ pc[g] \in Leading => lease = g
    /\ Hand(g) \in Jobs \ Contested => status[Hand(g)] = "rendering"
    /\ \A s \in todo[g] : s.job \notin Contested =>
          status[s.job] = "rendering" /\ Hand(g) # s.job

\* A process that neither moves nor loses its lease stays in place while
\* uncontested jobs that render go on rendering.
LEMMA SoleFrame ==
    ASSUME RunnerTypes, NEW g \in Runners, Sole(g), Contested \subseteq Contested',
           UNCHANGED <<pc[g], cur[g], todo[g]>>,
           lease = g => lease' = g,
           \A j \in Jobs \ Contested' : status[j] = "rendering" => status'[j] = "rendering"
    PROVE  Sole(g)'
<1>1. \A s \in todo[g] : s.job \in Jobs
  BY DEF RunnerTypes, Snapshots
<1> QED BY <1>1 DEF Sole, Hand

\* A process that does not lead has neither a job in hand nor a list.
LEMMA SoleOutside ==
    ASSUME RunnerTypes, ListsInPlace, NEW g \in Runners, pc[g] \notin Leading
    PROVE  Sole(g) /\ Hand(g) = NoOne /\ todo[g] = {}
BY DEF RunnerTypes, ListsInPlace, Sole, Leading

\* Steps on the job in hand keep the driver alone.
LEMMA SoleDrives ==
    ASSUME RowTypes, RunnerTypes, Contested \subseteq Contested', NEW g \in Runners,
           \A h \in Runners : Sole(h),
           \/ ReconcileLost(g) \/ Readopt(g) \/ CheckCancelled(g) \/ Submit(g) \/ MarkShot(g)
           \/ SubmitFailed(g) \/ PollCancelled(g) \/ Poll(g) \/ Finalize(g)
    PROVE  \A h \in Runners : Sole(h)'
<1>1. /\ UNCHANGED <<mode, todo, lease, faults, crashes, status, flag, refunds, asking>>
      /\ pc[g] \in Driving
  BY Drives
<1>2. pc[g] \in Leading
  BY <1>1 DEF Leading
<1>3. \A s \in todo[g] : s.job \in Jobs
  BY DEF RunnerTypes, Snapshots
<1>4. CASE Return(g)
  <2>1. Hand(g)' = NoOne /\ Hand(g)' \notin Jobs
    BY <1>4 DEF Return, RunnerTypes, Hand, NoJob
  <2>2. Sole(g)'
    BY <1>1, <1>2, <1>3, <2>1 DEF Sole
  <2>3. \A h \in Runners \ {g} : UNCHANGED <<pc[h], cur[h], todo[h]>>
    BY <1>1, <1>4 DEF Return, Goto, RunnerTypes
  <2> QED BY <1>1, <2>2, <2>3, SoleFrame
<1>5. CASE ~Return(g)
  <2>1. PICK to \in Driving : Goto(g, to) /\ \A h \in Runners : Hand(h)' = Hand(h)
    BY <1>5, Drives
  <2>2. \A h \in Runners \ {g} : pc'[h] = pc[h]
    BY <2>1 DEF Goto, RunnerTypes
  <2> QED BY <1>1, <1>2, <1>3, <2>1, <2>2 DEF Sole
<1> QED BY <1>4, <1>5

\* Every step of a process that writes no status keeps the driver alone.
LEMMA SoleQuietly ==
    ASSUME RowTypes, RunnerTypes, ListsInPlace, Contested \subseteq Contested', NEW g \in Runners,
           RunnerTypes', ListsInPlace',
           \A h \in Runners : Sole(h), Quietly(g), faults = 0, faults' = 0
    PROVE  \A h \in Runners : Sole(h)'
<1>1. UNCHANGED <<status, refunds, flag, asking>>
  BY QuietSteps
<1>2. pc[g] \notin Driving => Hand(g) = NoOne /\ NoOne \notin Jobs
  BY DEF RunnerTypes
<1>3. CASE Scan(g)
  <2>1. /\ UNCHANGED <<lease, cur>> /\ pc' = [pc EXCEPT ![g] = "reconcile"] /\ pc[g] = "scan"
        /\ todo' = [todo EXCEPT ![g] = {Snapshot(j) : j \in {k \in Jobs : Stale(k)}}]
    BY <1>3 DEF Scan, Goto
  <2>2. \A s \in todo'[g] : s.job \in Jobs /\ status[s.job] = "rendering"
    BY <2>1, SnapshotType DEF Stale, RunnerTypes
  <2>3. Sole(g)'
    BY <1>1, <1>2, <2>1, <2>2 DEF Sole, Hand, RunnerTypes, Leading, Driving
  <2>4. \A h \in Runners \ {g} : UNCHANGED <<pc[h], cur[h], todo[h]>>
    BY <2>1 DEF RunnerTypes
  <2> QED BY <1>1, <2>1, <2>3, <2>4, SoleFrame
<1>4. CASE ReconcileEnds(g)
  <2>1. /\ UNCHANGED <<lease, cur, todo>> /\ pc' = [pc EXCEPT ![g] = "idle"] /\ pc[g] = "reconcile"
        /\ todo[g] = {}
    BY <1>4 DEF ReconcileEnds, Goto
  <2>2. Sole(g)'
    BY <1>2, <2>1 DEF Sole, Hand, RunnerTypes, Leading, Driving
  <2>3. \A h \in Runners \ {g} : UNCHANGED <<pc[h], cur[h], todo[h]>>
    BY <2>1 DEF RunnerTypes
  <2> QED BY <1>1, <2>1, <2>2, <2>3, SoleFrame
<1>5. CASE ReconcileJob(g)
  <2>1. PICK s \in todo[g] :
          /\ todo' = [todo EXCEPT ![g] = todo[g] \ {s}]
          /\ cur' = [cur EXCEPT ![g] = [s EXCEPT !.said = render[s.job], !.known = FALSE]]
    BY <1>5 DEF ReconcileJob
  <2>2. PICK label : pc' = [pc EXCEPT ![g] = label]
    BY <1>5 DEF ReconcileJob, Goto
  <2>3. lease' = lease /\ pc[g] \in Leading
    BY <1>5 DEF ReconcileJob, Leading
  <2>4. s \in Snapshots /\ \A t \in todo[g] : t \in Snapshots
    BY DEF RunnerTypes
  <2>5. Hand(g)' = s.job
    BY <2>1, <2>4 DEF Hand, RunnerTypes, Snapshots
  <2>6. \A t \in todo'[g] : t \in todo[g] /\ t.job # s.job
    BY <2>1 DEF ListsInPlace, RunnerTypes
  <2>7. Sole(g)'
    BY <1>1, <2>3, <2>5, <2>6 DEF Sole
  <2>8. \A h \in Runners \ {g} : UNCHANGED <<pc[h], cur[h], todo[h]>>
    BY <2>1, <2>2 DEF RunnerTypes
  <2> QED BY <1>1, <2>3, <2>7, <2>8, SoleFrame
<1>6. CASE \/ ReconcileLost(g) \/ Readopt(g) \/ CheckCancelled(g) \/ Submit(g) \/ MarkShot(g)
           \/ SubmitFailed(g) \/ PollCancelled(g) \/ Poll(g) \/ Finalize(g)
  BY <1>6, SoleDrives
<1>7. CASE Acquire(g)
  <2>1. /\ lease = NoOne /\ lease' = g /\ pc' = [pc EXCEPT ![g] = "scan"] /\ pc[g] = "standby"
        /\ UNCHANGED <<todo, cur>>
    BY <1>7 DEF Acquire, Goto
  <2>2. \A h \in Runners : pc[h] \notin Leading /\ h # NoOne
    BY <2>1 DEF Sole
  <2>3. \A h \in Runners : Hand(h) = NoOne /\ todo[h] = {}
    BY <2>2, SoleOutside
  <2>4. \A h \in Runners \ {g} : pc'[h] = pc[h]
    BY <2>1 DEF RunnerTypes
  <2> QED BY <2>1, <2>2, <2>3, <2>4 DEF Sole, Hand
<1>8. CASE ReconcileDue(g)
  <2>1. /\ UNCHANGED <<lease, todo, cur>> /\ pc' = [pc EXCEPT ![g] = "scan"] /\ pc[g] = "idle"
    BY <1>8 DEF ReconcileDue, Goto
  <2>2. Sole(g)'
    BY <1>1, <2>1 DEF Sole, Hand, RunnerTypes, Leading
  <2>3. \A h \in Runners \ {g} : UNCHANGED <<pc[h], cur[h], todo[h]>>
    BY <2>1 DEF RunnerTypes
  <2> QED BY <1>1, <2>1, <2>2, <2>3, SoleFrame
<1>9. CASE StepDown(g) \/ Restart(g)
  <2>1. PICK label \in {"standby", "ended"} : Leave(g, label)
    BY <1>9 DEF StepDown, Restart
  <2>2. pc'[g] \notin Leading
    BY <2>1 DEF Leave, Goto, RunnerTypes, Leading, Driving
  <2>3. Sole(g)'
    BY <2>2 DEF RunnerTypes, ListsInPlace, Sole, Leading
  <2>4. \A h \in Runners \ {g} : UNCHANGED <<pc[h], cur[h], todo[h]>>
    BY <2>1 DEF Leave, Goto, RunnerTypes
  <2>5. \A h \in Runners \ {g} : lease = h => lease' = h
    BY <1>9 DEF StepDown, Restart
  <2> QED BY <1>1, <2>3, <2>4, <2>5, SoleFrame
<1> QED BY <1>3, <1>4, <1>5, <1>6, <1>7, <1>8, <1>9 DEF Quietly

\* Every step keeps the driver alone while there is no fault.
LEMMA SoleStep ==
    ASSUME RunnerInv, RunnerTypes', ListsInPlace', [Next]_vars
    PROVE  SoleDriver'
<1> SUFFICES ASSUME faults' = 0 PROVE \A h \in Runners : Sole(h)'
  BY DEF SoleDriver, Sole
<1> USE DEF RunnerInv
<1>1. faults = 0 /\ Contested \subseteq Contested'
  BY FaultsGrow, ContestedGrows
<1>2. \A h \in Runners : Sole(h)
  BY <1>1 DEF SoleDriver, Sole
<1>3. ASSUME NEW g \in Runners, Quietly(g) PROVE \A h \in Runners : Sole(h)'
  BY <1>1, <1>2, <1>3, SoleQuietly
<1>4. CASE Outside
  <2>1. UNCHANGED <<status, pc, cur, todo>>
    BY <1>4, QuietSteps DEF Outside, RenderEnds, GoesStale, TimeRunsOut, LeaseExpires, SiteChanges,
                            vars, runnerVars
  <2>2. CASE lease' = lease
    BY <1>1, <1>2, <2>1, <2>2, SoleFrame
  <2>3. CASE lease' # lease
    <3>1. LeaseExpires
      BY <1>4, <2>3 DEF Outside, RenderEnds, GoesStale, TimeRunsOut, SiteChanges, vars
    <3>2. pc[lease] \notin Leading
      BY <1>1, <3>1 DEF LeaseExpires
    <3>3. \A h \in Runners : pc[h] \notin Leading
      BY <1>2, <3>2 DEF Sole
    <3> QED BY <2>1, <3>3, SoleOutside DEF Sole, Hand, RunnerTypes
  <2> QED BY <2>2, <2>3
<1>5. ASSUME NEW j \in Jobs, Create(j) \/ CancelRead(j) PROVE \A h \in Runners : Sole(h)'
  <2>1. /\ UNCHANGED <<pc, cur, todo, lease>>
        /\ \A k \in Jobs : status[k] = "rendering" => status'[k] = "rendering"
    BY <1>5 DEF Create, CancelRead, jobVars, runnerVars, RowTypes
  <2> QED BY <1>1, <1>2, <2>1, SoleFrame
<1>6. ASSUME NEW j \in Jobs, CancelWrite(j) PROVE \A h \in Runners : Sole(h)'
  <2>1. /\ UNCHANGED <<pc, cur, todo, lease>>
        /\ \A k \in Jobs \ Contested' : status'[k] = status[k]
    BY <1>6, CancelContests DEF runnerVars
  <2> QED BY <1>1, <1>2, <2>1, SoleFrame
<1>7. ASSUME NEW g \in Runners, Claim(g) PROVE \A h \in Runners : Sole(h)'
  <2>1. PICK j \in Jobs : /\ status' = [status EXCEPT ![j] = "rendering"]
                          /\ cur' = [cur EXCEPT ![g] = Snapshot(j)] /\ Hand(g)' = j
                          /\ pc[g] = "idle" /\ Goto(g, "claimed")
                          /\ UNCHANGED <<lease, mode, todo>>
    BY <1>7, Claims
  <2>2. todo[g] = {}
    BY <2>1 DEF ListsInPlace
  <2>3. Sole(g)'
    BY <1>2, <2>1, <2>2 DEF Sole, Leading, RowTypes
  <2>4. \A h \in Runners \ {g} : UNCHANGED <<pc[h], cur[h], todo[h]>>
    BY <2>1 DEF Goto, RunnerTypes
  <2>5. \A k \in Jobs : status[k] = "rendering" => status'[k] = "rendering"
    BY <2>1 DEF RowTypes
  <2> QED BY <1>1, <1>2, <2>1, <2>3, <2>4, <2>5, SoleFrame
<1>8. ASSUME NEW g \in Runners, CompleteJob(g) \/ Requeue(g) \/ FailJob(g) \/ MarkCancelled(g)
      PROVE  \A h \in Runners : Sole(h)'
  <2>1. /\ pc[g] \in Driving /\ Hand(g) \in Jobs /\ Return(g) /\ lease' = lease
        /\ \A k \in Jobs \ {Hand(g)} : status'[k] = status[k]
        /\ Contested' = Contested
    BY <1>8, Ends
  <2>2. Hand(g)' = NoOne /\ Hand(g)' \notin Jobs /\ todo' = todo
    BY <2>1 DEF Return, RunnerTypes, Hand, NoJob
  <2>3. \A s \in todo[g] : s.job \in Jobs
    BY DEF RunnerTypes, Snapshots
  <2>4. Sole(g)'
    BY <1>2, <2>1, <2>2, <2>3 DEF Sole, Leading
  <2>5. ASSUME NEW h \in Runners \ {g} PROVE Sole(h)'
    <3>1. pc[h] \notin Leading
      BY <1>2, <2>1 DEF Sole, Leading
    <3>2. UNCHANGED <<pc[h], cur[h], todo[h]>>
      BY <2>1 DEF Return, Goto, RunnerTypes
    <3> QED BY <3>1, <3>2, SoleOutside DEF Sole, Hand, RunnerTypes
  <2> QED BY <2>4, <2>5
<1> QED BY <1>3, <1>4, <1>5, <1>6, <1>7, <1>8, StepKinds

-----------------------------------------------------------------------------
(* The promise of the videos API.                                          *)

\* The invariant holds at the start and is kept by every step.
LEMMA RunnerInvInit == Init => RunnerInv
<1> SUFFICES ASSUME Init PROVE RunnerInv
  OBVIOUS
<1>1. ListsInPlace
  BY DEF Init, ListsInPlace
<1>2. CancelsInPlace
  BY DEF Init, CancelsInPlace
<1>3. \A g \in Runners : pc[g] \notin Leading /\ Hand(g) = NoOne /\ todo[g] = {}
  BY DEF Init, Leading, Driving, Hand, NoJob
<1>4. SoleDriver
  BY <1>3 DEF SoleDriver
<1> QED BY <1>1, <1>2, <1>4, TypesInit DEF RunnerInv

\* The invariant is inductive.
LEMMA RunnerInvStep == RunnerInv /\ [Next]_vars => RunnerInv'
<1> SUFFICES ASSUME RunnerInv, [Next]_vars PROVE RunnerInv'
  OBVIOUS
<1>1. RowTypes' /\ RunnerTypes' /\ ListsInPlace'
  BY RowTypesStep, RunnerTypesStep, ListsStep DEF RunnerInv
<1>2. CancelsInPlace'
  BY CancelsStep DEF RunnerInv
<1>3. SoleDriver'
  BY <1>1, SoleStep
<1> QED BY <1>1, <1>2, <1>3 DEF RunnerInv

\* A step that changes no status and no refund at most contests jobs.
LEMMA PromiseQuiet ==
    ASSUME Contested \subseteq Contested', UNCHANGED <<status, refunds>>
    PROVE  Promise!Contest
<1>1. Contested' \in SUBSET Jobs /\ Contested' = Contested \cup Contested'
  BY DEF Contested
<1> QED BY <1>1 DEF Promise!Contest, Promise!More

\* Whatever is written to the row of a contested job is a drift of the promise.
LEMMA PromiseDrifts ==
    ASSUME RowTypes, Contested \subseteq Contested', UnservedIsRefunded', NEW j \in Jobs,
           j \in Contested', Exists(j), NEW s \in {"queued", "rendering"} \cup Terminal,
           status' = [status EXCEPT ![j] = s],
           refunds' = refunds \/ refunds' = [refunds EXCEPT ![j] = refunds[j] + 1]
    PROVE  Promise!Drift(j)
<1>1. Promise!More
  <2>1. Contested' \in SUBSET Jobs /\ Contested' = Contested \cup Contested'
    BY DEF Contested
  <2> QED BY <2>1 DEF Promise!More
<1>2. status[j] \in Promise!Existing /\ s \in Promise!Existing
  BY DEF Exists, RowTypes, Statuses, Terminal, Promise!Existing, Promise!Ended
<1>3. refunds' = [refunds EXCEPT ![j] = refunds[j]] \/ refunds' = [refunds EXCEPT ![j] = refunds[j] + 1]
  BY DEF RowTypes
<1>4. \E n \in {refunds[j], refunds[j] + 1} : refunds' = [refunds EXCEPT ![j] = n]
  BY <1>3
<1>5. status'[j] \in Promise!Unserved => refunds'[j] > 0
  BY DEF UnservedIsRefunded, Promise!Unserved
<1> QED BY <1>1, <1>2, <1>4, <1>5 DEF Promise!Drift

\* The end of a drive ends the job, puts it back in the queue, or is a drift.
LEMMA PromiseEnds ==
    ASSUME RunnerInv, UnservedIsRefunded', NEW g \in Runners,
           CompleteJob(g) \/ Requeue(g) \/ FailJob(g) \/ MarkCancelled(g)
    PROVE  Promise!Next
<1> DEFINE j == Hand(g)
<1> USE DEF RunnerInv
<1>1. /\ pc[g] \in Driving /\ j \in Jobs /\ Contested' = Contested
  BY Ends
<1>2. PICK s \in {"completed", "queued", "failed", "cancelled"} :
        /\ status' = Put(status, j, s)
        /\ s = "cancelled" => pc[g] = "cancel"
        /\ refunds' = IF s \in {"failed", "cancelled"} THEN Put(refunds, j, refunds[j] + 1)
                                                       ELSE refunds
  BY DEF CompleteJob, Requeue, FailJob, MarkCancelled, Write, Refund
<1>3. CASE ~Exists(j)
  <2>1. status' = status /\ refunds' = refunds
    BY <1>1, <1>2, <1>3 DEF Put, RowTypes
  <2> QED BY <1>1, <2>1, PromiseQuiet DEF Promise!Next
<1>4. CASE Exists(j)
  <2>1. /\ status' = [status EXCEPT ![j] = s]
        /\ refunds' = IF s \in {"failed", "cancelled"} THEN [refunds EXCEPT ![j] = refunds[j] + 1]
                                                       ELSE refunds
    BY <1>2, <1>4 DEF Put
  <2>2. CASE j \in Contested
    <3>1. s \in {"queued", "rendering"} \cup Terminal
      BY DEF Terminal
    <3>2. Promise!Drift(j)
      BY <1>1, <1>4, <2>1, <2>2, <3>1, PromiseDrifts
    <3> QED BY <1>1, <3>2 DEF Promise!Next
  <2>3. CASE j \notin Contested
    <3>1. faults = 0
      BY <1>1, <2>3 DEF Contested, RunnerTypes
    <3>2. status[j] = "rendering" /\ s # "cancelled"
      BY <1>1, <1>2, <2>3, <3>1 DEF SoleDriver, CancelsInPlace
    <3>3. refunds' = [refunds EXCEPT ![j] = IF s \in Promise!Unserved THEN refunds[j] + 1
                                                                      ELSE refunds[j]]
      BY <2>1 DEF Promise!Unserved, RowTypes
    <3>4. Promise!Moves(j, "rendering", s)
      BY <1>1, <2>1, <2>3, <3>2, <3>3 DEF Promise!Moves
    <3>5. CASE s = "queued"
      BY <1>1, <3>4, <3>5 DEF Promise!WaitAgain, Promise!Next
    <3>6. CASE s # "queued"
      <4>1. s \in Promise!Ended \ {"cancelled"}
        BY <3>2, <3>6 DEF Promise!Ended
      <4>2. Promise!End(j)
        BY <3>4, <4>1 DEF Promise!End
      <4> QED BY <1>1, <4>2 DEF Promise!Next
    <3> QED BY <3>5, <3>6
  <2> QED BY <2>2, <2>3
<1> QED BY <1>3, <1>4

\* A claim begins to render the job.
LEMMA PromiseClaims ==
    ASSUME RunnerInv, UnservedIsRefunded', Contested \subseteq Contested', NEW g \in Runners, Claim(g)
    PROVE  Promise!Next
<1> USE DEF RunnerInv
<1>1. PICK j \in Jobs : /\ status[j] = "queued" /\ status' = [status EXCEPT ![j] = "rendering"]
                        /\ UNCHANGED <<flag, refunds>> /\ Overtime(g)
  BY Claims
<1>2. CASE j \in Contested'
  <2>1. Exists(j)
    BY <1>1 DEF Exists
  <2>2. Promise!Drift(j)
    BY <1>1, <1>2, <2>1, PromiseDrifts
  <2> QED BY <2>2 DEF Promise!Next
<1>3. CASE j \notin Contested'
  <2>1. faults' = faults
    BY <1>1, <1>3 DEF Overtime, Contested, RunnerTypes
  <2>2. Contested' = Contested
    BY <1>1, <2>1, SameContested DEF RowTypes
  <2>3. refunds' = [refunds EXCEPT ![j] = IF "rendering" \in Promise!Unserved THEN refunds[j] + 1
                                                                             ELSE refunds[j]]
    BY <1>1 DEF Promise!Unserved, RowTypes
  <2>4. Promise!Render(j)
    BY <1>1, <1>3, <2>2, <2>3 DEF Promise!Render, Promise!Moves
  <2> QED BY <2>4 DEF Promise!Next
<1> QED BY <1>2, <1>3

\* Creation is an acceptance; a cancellation is a deletion, a drift, or contests.
LEMMA PromiseApi ==
    ASSUME RunnerInv, UnservedIsRefunded', Contested \subseteq Contested', NEW j \in Jobs,
           Create(j) \/ CancelRead(j) \/ CancelWrite(j)
    PROVE  Promise!Next
<1> USE DEF RunnerInv
<1>1. CASE Create(j)
  <2>1. /\ status[j] = "none" /\ status' = [status EXCEPT ![j] = "queued"]
        /\ UNCHANGED <<flag, refunds, faults>>
    BY <1>1 DEF Create, envVars
  <2>2. Contested' = Contested
    BY <2>1, SameContested DEF RowTypes
  <2>3. Promise!Accept(j)
    BY <2>1, <2>2 DEF Promise!Accept
  <2> QED BY <2>3 DEF Promise!Next
<1>2. CASE CancelRead(j)
  BY <1>2, PromiseQuiet DEF CancelRead, jobVars, Promise!Next
<1>3. CASE CancelWrite(j)
  <2>1. Contested' = Contested \cup {j} /\ Exists(j)
    BY <1>3, CancelContests DEF CancelWrite, CancelsInPlace
  <2>2. CASE asking[j] \in Terminal
    <3>1. status' = [status EXCEPT ![j] = "deleted"] /\ UNCHANGED refunds
      BY <1>3, <2>2 DEF CancelWrite, Terminal
    <3>2. status[j] \in Promise!Existing
      BY <2>1 DEF Exists, RowTypes, Statuses, Terminal, Promise!Existing, Promise!Ended
    <3>3. Promise!More
      BY <2>1 DEF Promise!More
    <3>4. Promise!Delete(j)
      BY <3>1, <3>2, <3>3 DEF Promise!Delete
    <3> QED BY <3>4 DEF Promise!Next
  <2>3. CASE asking[j] = "queued"
    <3>1. /\ status' = [status EXCEPT ![j] = "cancelled"]
          /\ refunds' = [refunds EXCEPT ![j] = refunds[j] + 1]
      BY <1>3, <2>3 DEF CancelWrite, Terminal
    <3>2. Promise!Drift(j)
      BY <2>1, <3>1, PromiseDrifts DEF Terminal
    <3> QED BY <3>2 DEF Promise!Next
  <2>4. CASE asking[j] = "rendering"
    <3>1. UNCHANGED <<status, refunds>>
      BY <1>3, <2>4 DEF CancelWrite, Terminal
    <3> QED BY <3>1, PromiseQuiet DEF Promise!Next
  <2> QED BY <1>3, <2>2, <2>3, <2>4 DEF CancelWrite
<1> QED BY <1>1, <1>2, <1>3

\* Every step of the runners is a step of the promise, or changes nothing of it.
LEMMA PromiseStep ==
    RunnerInv /\ UnservedIsRefunded' /\ [Next]_vars => [Promise!Next]_(Promise!vars)
<1> SUFFICES ASSUME RunnerInv, UnservedIsRefunded', [Next]_vars PROVE Promise!Next
  OBVIOUS
<1>1. Contested \subseteq Contested'
  BY ContestedGrows DEF RunnerInv
<1>2. CASE Outside \/ \E g \in Runners : Quietly(g)
  BY <1>1, <1>2, QuietSteps, PromiseQuiet DEF Promise!Next
<1>3. CASE \E j \in Jobs : Create(j) \/ CancelRead(j) \/ CancelWrite(j)
  BY <1>1, <1>3, PromiseApi
<1>4. CASE \E g \in Runners : \/ Claim(g) \/ CompleteJob(g) \/ Requeue(g) \/ FailJob(g)
                              \/ MarkCancelled(g)
  BY <1>1, <1>4, PromiseClaims, PromiseEnds
<1> QED BY <1>2, <1>3, <1>4, StepKinds

\* KeepsPromise for any number of processes and jobs: as long as no process
\* works without the lease, the runner's blind writes move an uncontested job
\* through its states in order, end it once and refund it once; no crash makes
\* a job contested.
THEOREM PromiseKept == Spec => KeepsPromise
<1>1. Init => Promise!Init
  BY DEF Init, Promise!Init, Contested
<1>2. Spec => []RunnerInv
  BY RunnerInvInit, RunnerInvStep, PTL DEF Spec
<1>3. Spec => []UnservedIsRefunded
  BY UnservedRefunded
<1> QED BY <1>1, <1>2, <1>3, PromiseStep, PTL DEF Spec, KeepsPromise, Promise!Spec

-----------------------------------------------------------------------------
(* Renders.                                                                *)

\* Without faults one process leads, and it has the only job in hand.
LEMMA OneLeader ==
    ASSUME RunnerInv, faults = 0, NEW g \in Runners, pc[g] \in Leading, NEW h \in Runners \ {g}
    PROVE  pc[h] \notin Leading /\ pc[h] \notin Driving /\ Hand(h) = NoOne
<1>1. pc[h] \notin Leading
  BY DEF RunnerInv, SoleDriver
<1> QED BY <1>1 DEF RunnerInv, RunnerTypes, Leading

\* The step of the leader that changes no status keeps renders in place if it
\* keeps its own part and starts no render of another job.
LEMMA LeaderSteps ==
    ASSUME RunnerInv, RunnerInv', faults = 0, NEW g \in Runners, pc[g] \in Leading,
           \A j \in Jobs : RowInPlace(j),
           \A h \in Runners \ {g} : pc'[h] = pc[h],
           DriveInPlace(g)', Hand(g)' = Hand(g), status' = status,
           \A j \in Jobs : status[j] \in {"none", "queued"} /\ render'[j] = "running"
                              => render[j] = "running"
    PROVE  /\ \A h \in Runners : DriveInPlace(h)'
           /\ \A j \in Jobs : RowInPlace(j)'
<1>1. \A h \in Runners \ {g} : pc'[h] \notin Leading
  BY OneLeader
<1>2. \A h \in Runners \ {g} : DriveInPlace(h)'
  BY <1>1 DEF RunnerInv, ListsInPlace, DriveInPlace, Leading, Driving
<1>3. ASSUME NEW j \in Jobs PROVE RowInPlace(j)'
  <2>1. status[j] = "rendering" => Hand(g) = j
    BY OneLeader DEF RowInPlace, RunnerInv
  <2> QED BY <2>1 DEF RowInPlace
<1> QED BY <1>2, <1>3

\* Every step of a process that writes no status keeps renders in place.
LEMMA RendersQuietly ==
    ASSUME RunnerInv, RunnerInv', faults + crashes = 0, faults' + crashes' = 0,
           faults = 0, crashes = 0,
           \A h \in Runners : DriveInPlace(h), \A j \in Jobs : RowInPlace(j),
           NEW g \in Runners, Quietly(g)
    PROVE  /\ \A h \in Runners : DriveInPlace(h)'
           /\ \A j \in Jobs : RowInPlace(j)'
<1> DEFINE Goal == /\ \A h \in Runners : DriveInPlace(h)'
                   /\ \A j \in Jobs : RowInPlace(j)'
<1>1. RowTypes /\ RunnerTypes /\ ListsInPlace /\ DriveInPlace(g)
  BY DEF RunnerInv
<1>2. UNCHANGED <<status, refunds, flag, asking>>
  BY QuietSteps
<1>3. CASE Scan(g)
  <2>1. /\ UNCHANGED <<render, mode, cur>> /\ pc' = [pc EXCEPT ![g] = "reconcile"] /\ pc[g] = "scan"
        /\ todo' = [todo EXCEPT ![g] = {Snapshot(j) : j \in {k \in Jobs : Stale(k)}}]
    BY <1>3 DEF Scan, Goto
  <2>2. pc[g] \in Leading /\ Hand(g) = NoOne
    BY <1>1, <2>1 DEF Leading, RunnerTypes, Driving
  <2>3. \A j \in Jobs : ~Stale(j)
    BY <2>2, OneLeader DEF RowInPlace, Stale, RunnerInv
  <2>4. todo'[g] = {}
    BY <1>1, <2>1, <2>3 DEF RunnerTypes
  <2>5. DriveInPlace(g)'
    BY <1>1, <2>1, <2>4 DEF DriveInPlace, RunnerTypes, Driving
  <2>6. Hand(g)' = Hand(g) /\ \A h \in Runners \ {g} : pc'[h] = pc[h]
    BY <1>1, <2>1 DEF RunnerTypes, Hand
  <2> QED BY <1>2, <2>1, <2>2, <2>5, <2>6, LeaderSteps
<1>4. CASE ReconcileEnds(g) \/ ReconcileDue(g)
  <2>1. PICK to \in {"idle", "scan"} : pc' = [pc EXCEPT ![g] = to]
    BY <1>4 DEF ReconcileEnds, ReconcileDue, Goto
  <2>2. UNCHANGED <<render, todo, cur>> /\ pc[g] \in Leading
    BY <1>4 DEF ReconcileEnds, ReconcileDue, Leading
  <2>3. DriveInPlace(g)'
    BY <1>1, <2>1, <2>2 DEF DriveInPlace, RunnerTypes, Driving
  <2>4. Hand(g)' = Hand(g) /\ \A h \in Runners \ {g} : pc'[h] = pc[h]
    BY <1>1, <2>1, <2>2 DEF RunnerTypes, Hand
  <2> QED BY <1>2, <2>2, <2>3, <2>4, LeaderSteps
<1>5. CASE ReconcileJob(g) \/ ReconcileLost(g) \/ Readopt(g)
  BY <1>1, <1>5 DEF ReconcileJob, ReconcileLost, Readopt, DriveInPlace
<1>6. ASSUME NEW from \in Driving, NEW to \in Driving, Step(g, from, to), to \notin {"lost", "readopt"},
             to \in {"claimed", "submit", "submitFailed", "requeue"} =>
                 from \in {"claimed", "submit", "submitFailed", "requeue"} /\ render' = render,
             \A j \in Jobs \ {Hand(g)} : render'[j] = render[j]
      PROVE  Goal
  <2>1. /\ UNCHANGED <<mode, todo, cur>> /\ pc' = [pc EXCEPT ![g] = to] /\ pc[g] = from
        /\ pc[g] \in Driving /\ pc[g] \in Leading
    BY <1>6 DEF Step, Goto, Leading
  <2>2. Hand(g)' = Hand(g) /\ \A h \in Runners \ {g} : pc'[h] = pc[h]
    BY <1>1, <2>1 DEF RunnerTypes, Hand
  <2>3. DriveInPlace(g)'
    BY <1>1, <1>2, <1>6, <2>1, <2>2 DEF DriveInPlace, RunnerTypes
  <2>4. \A j \in Jobs : status[j] \in {"none", "queued"} => render'[j] = render[j]
    BY <1>1, <1>6, <2>1 DEF DriveInPlace
  <2> QED BY <1>2, <2>1, <2>2, <2>3, <2>4, LeaderSteps
<1>7. CASE CheckCancelled(g)
  <2>1. PICK to \in {"cancel", "submit"} : Step(g, "claimed", to) /\ render' = render
    BY <1>7 DEF CheckCancelled
  <2> QED BY <1>6, <2>1 DEF Driving
<1>8. CASE Submit(g)
  <2>1. CASE render' = render
    <3>1. PICK to \in {"requeue", "mark", "submitFailed"} : Step(g, "submit", to)
      BY <1>8 DEF Submit
    <3> QED BY <1>6, <2>1, <3>1 DEF Driving
  <2>2. CASE render' # render
    <3>1. Step(g, "submit", "mark") /\ render' = [render EXCEPT ![Hand(g)] = "running"]
      BY <1>8, <2>2 DEF Submit
    <3>2. \A j \in Jobs \ {Hand(g)} : render'[j] = render[j]
      BY <1>1, <3>1 DEF RowTypes
    <3> QED BY <1>6, <3>1, <3>2 DEF Driving
  <2> QED BY <2>1, <2>2
<1>9. CASE MarkShot(g)
  BY <1>6, <1>9 DEF MarkShot, Driving
<1>10. CASE SubmitFailed(g)
  <2>1. PICK to \in {"requeue", "fail"} : Step(g, "submitFailed", to) /\ render' = render
    BY <1>10 DEF SubmitFailed
  <2> QED BY <1>6, <2>1 DEF Driving
<1>11. CASE PollCancelled(g)
  <2>1. Step(g, "poll", "cancel") /\ render' = [render EXCEPT ![Hand(g)] = "none"]
    BY <1>11 DEF PollCancelled
  <2>2. \A j \in Jobs \ {Hand(g)} : render'[j] = render[j]
    BY <1>1, <2>1 DEF RowTypes
  <2> QED BY <1>6, <2>1, <2>2 DEF Driving
<1>12. CASE Poll(g) \/ Finalize(g)
  <2>1. PICK from \in {"poll", "finalize"}, to \in {"poll", "finalize", "fail", "complete"} :
          Step(g, from, to)
    <3>1. pc[g] \in {"poll", "finalize"} /\ mode[g] = "tick"
      BY <1>1, <1>12 DEF Poll, Finalize, Step, Raise, DriveInPlace, Driving
    <3> QED BY <1>12, <3>1 DEF Poll, Finalize, Raise, Step
  <2>2. render' = render
    BY <1>12 DEF Poll, Finalize
  <2> QED BY <1>6, <2>1, <2>2 DEF Driving
<1>13. CASE Acquire(g)
  <2>1. /\ lease = NoOne /\ pc' = [pc EXCEPT ![g] = "scan"] /\ pc[g] = "standby"
        /\ UNCHANGED <<todo, cur, render>>
    BY <1>13 DEF Acquire, Goto
  <2>2. \A h \in Runners : pc[h] \notin Leading
    BY <2>1 DEF RunnerInv, SoleDriver
  <2>3. \A h \in Runners : Hand(h) = NoOne /\ todo[h] = {}
    BY <1>1, <2>2, SoleOutside
  <2>4. \A h \in Runners : DriveInPlace(h)'
    BY <1>1, <2>1, <2>2, <2>3 DEF DriveInPlace, RunnerTypes, Leading, Driving
  <2>5. \A j \in Jobs : RowInPlace(j)'
    BY <1>2, <2>1, <2>3 DEF RowInPlace, Hand
  <2> QED BY <2>4, <2>5
<1>14. CASE StepDown(g)
  BY <1>14 DEF StepDown, RunnerInv, SoleDriver
<1>15. CASE Restart(g)
  <2>1. faults' = faults /\ crashes' = crashes + 1
    BY <1>15 DEF Restart
  <2> QED BY <2>1
<1> QED BY <1>3, <1>4, <1>5, <1>7, <1>8, <1>9, <1>10, <1>11, <1>12, <1>13, <1>14, <1>15 DEF Quietly


\* Every step of nobody in particular keeps renders in place.
LEMMA RendersOutside ==
    ASSUME RunnerInv, RunnerInv', faults' + crashes' = 0, faults = 0, crashes = 0,
           \A h \in Runners : DriveInPlace(h), \A j \in Jobs : RowInPlace(j), Outside
    PROVE  /\ \A h \in Runners : DriveInPlace(h)'
           /\ \A j \in Jobs : RowInPlace(j)'
<1> USE DEF jobVars, runnerVars, envVars
<1>1. UNCHANGED <<status, todo, pc, mode, cur>>
  BY DEF Outside, RenderEnds, GoesStale, TimeRunsOut, LeaseExpires, SiteChanges, vars
<1>2. \A j \in Jobs : render'[j] = "running" => render[j] = "running"
  <2>1. CASE \E j \in Jobs : RenderEnds(j)
    BY <2>1 DEF RenderEnds, RunnerInv, RowTypes
  <2>2. CASE SiteChanges
    BY <2>2 DEF SiteChanges
  <2>3. CASE ~SiteChanges /\ ~(\E j \in Jobs : RenderEnds(j))
    BY <2>3 DEF Outside, GoesStale, TimeRunsOut, LeaseExpires, vars
  <2> QED BY <2>1, <2>2, <2>3
<1>3. \A h \in Runners : pc[h] \in Driving => Hand(h) \in Jobs
  BY DEF RunnerInv, RunnerTypes
<1>4. \A h \in Runners : DriveInPlace(h)'
  BY <1>1, <1>2, <1>3 DEF DriveInPlace, Hand, Driving
<1>5. \A j \in Jobs : RowInPlace(j)'
  BY <1>1, <1>2 DEF RowInPlace, Hand
<1> QED BY <1>4, <1>5

\* Every step of the API keeps renders in place: it makes no job queued but a
\* new one, and none rendering.
LEMMA RendersApi ==
    ASSUME RunnerInv, RunnerInv', faults' + crashes' = 0, faults = 0, crashes = 0,
           \A h \in Runners : DriveInPlace(h), \A j \in Jobs : RowInPlace(j),
           NEW j \in Jobs, Create(j) \/ CancelRead(j) \/ CancelWrite(j)
    PROVE  /\ \A h \in Runners : DriveInPlace(h)'
           /\ \A k \in Jobs : RowInPlace(k)'
<1>1. UNCHANGED <<render, todo, pc, mode, cur>>
  BY DEF Create, CancelRead, CancelWrite, runnerVars
<1>2. /\ \A k \in Jobs \ {j} : status'[k] = status[k]
      /\ status'[j] \in {status[j], "queued", "deleted", "cancelled"}
      /\ status'[j] = "queued" => status[j] \in {"none", "queued"}
  <2>1. CASE CancelWrite(j)
    BY <2>1, CancelContests DEF RunnerInv
  <2>2. CASE Create(j) \/ CancelRead(j)
    BY <2>2 DEF Create, CancelRead, jobVars, RunnerInv, RowTypes
  <2> QED BY <2>1, <2>2
<1>3. \A h \in Runners : pc[h] \in Driving => Hand(h) \in Jobs
  BY DEF RunnerInv, RunnerTypes
<1>4. \A h \in Runners : DriveInPlace(h)'
  BY <1>1, <1>2, <1>3 DEF DriveInPlace, Hand, Driving
<1>5. \A k \in Jobs : RowInPlace(k)'
  BY <1>1, <1>2 DEF RowInPlace, Hand
<1> QED BY <1>4, <1>5

\* A claim takes a queued job, whose render does not run.
LEMMA RendersClaim ==
    ASSUME RunnerInv, RunnerInv', faults' + crashes' = 0, faults = 0, crashes = 0,
           \A h \in Runners : DriveInPlace(h), \A j \in Jobs : RowInPlace(j),
           NEW g \in Runners, Claim(g)
    PROVE  /\ \A h \in Runners : DriveInPlace(h)'
           /\ \A k \in Jobs : RowInPlace(k)'
<1>1. PICK j \in Jobs :
        /\ status[j] = "queued"
        /\ status' = [status EXCEPT ![j] = "rendering"]
        /\ cur' = [cur EXCEPT ![g] = Snapshot(j)]
        /\ Hand(g)' = j
        /\ pc[g] = "idle" /\ Goto(g, "claimed") /\ Overtime(g)
        /\ UNCHANGED <<flag, refunds, asking, render, lease, mode, todo, crashes>>
  BY Claims DEF RunnerInv
<1>2. RowTypes /\ RunnerTypes /\ ListsInPlace /\ DriveInPlace(g) /\ RowInPlace(j)
  BY DEF RunnerInv
<1>3. pc[g] \in Leading
  BY <1>1 DEF Leading
<1>4. \A h \in Runners \ {g} : pc[h] \notin Driving /\ Hand(h) = NoOne
  BY <1>3, OneLeader
<1>5. Hand(g) = NoOne
  BY <1>1, <1>2 DEF RunnerTypes, Driving
<1>6. DriveInPlace(g)'
  <2>1. mode'[g] = "tick" /\ todo'[g] = {} /\ pc'[g] = "claimed"
    BY <1>1, <1>2 DEF ListsInPlace, RunnerTypes, Goto
  <2>2. status'[j] = "rendering" /\ render'[j] # "running"
    BY <1>1, <1>2 DEF RowTypes, RowInPlace
  <2> QED BY <1>1, <2>1, <2>2 DEF DriveInPlace
<1>7. ASSUME NEW h \in Runners \ {g} PROVE DriveInPlace(h)'
  <2>1. pc'[h] = pc[h] /\ todo'[h] = todo[h] /\ pc[h] \notin Driving
    BY <1>1, <1>2, <1>4 DEF RunnerTypes, Goto
  <2> QED BY <2>1 DEF DriveInPlace, Driving
<1>8. ASSUME NEW k \in Jobs PROVE RowInPlace(k)'
  <2>1. CASE k = j
    BY <1>1, <1>2, <2>1 DEF RowInPlace, RowTypes
  <2>2. CASE k # j
    <3>1. status'[k] = status[k] /\ render'[k] = render[k]
      BY <1>1, <1>2, <2>2 DEF RowTypes
    <3>2. status[k] # "rendering"
      BY <1>4, <1>5 DEF RowInPlace
    <3> QED BY <3>1, <3>2 DEF RowInPlace
  <2> QED BY <2>1, <2>2
<1> QED BY <1>6, <1>7, <1>8

\* The end of a drive leaves nothing in hand; a job is queued again only if its
\* render does not run.
LEMMA RendersEnd ==
    ASSUME RunnerInv, RunnerInv', faults' + crashes' = 0, faults = 0, crashes = 0,
           \A h \in Runners : DriveInPlace(h), \A j \in Jobs : RowInPlace(j),
           NEW g \in Runners, CompleteJob(g) \/ Requeue(g) \/ FailJob(g) \/ MarkCancelled(g)
    PROVE  /\ \A h \in Runners : DriveInPlace(h)'
           /\ \A k \in Jobs : RowInPlace(k)'
<1> DEFINE j == Hand(g)
<1>1. /\ pc[g] \in Driving /\ j \in Jobs /\ Return(g) /\ render' = render
      /\ \A k \in Jobs \ {j} : status'[k] = status[k]
      /\ Exists(j) => status'[j] \in {"queued"} \cup Terminal
      /\ ~Exists(j) => status'[j] = status[j]
      /\ status'[j] = "queued" => status[j] = "queued" \/ pc[g] = "requeue"
  BY Ends DEF RunnerInv
<1>2. RowTypes /\ RunnerTypes /\ DriveInPlace(g) /\ RowInPlace(j)
  BY <1>1 DEF RunnerInv
<1>3. \A h \in Runners \ {g} : pc[h] \notin Driving /\ Hand(h) = NoOne
  BY <1>1, OneLeader DEF Leading
<1> HIDE DEF j
<1>4. ASSUME NEW h \in Runners PROVE DriveInPlace(h)'
  <2>1. todo'[h] = todo[h] /\ todo[h] = {}
    BY <1>1 DEF Return, DriveInPlace
  <2>2. pc'[h] \notin Driving
    BY <1>1, <1>2, <1>3 DEF Return, Goto, RunnerTypes, DriveInPlace, Driving
  <2> QED BY <2>1, <2>2 DEF DriveInPlace, Driving
<1>5. status'[j] # "rendering" /\ (status'[j] \in {"none", "queued"} => render[j] # "running")
  <2>1. CASE Exists(j)
    <3>1. status'[j] = "queued" => render[j] # "running"
      BY <1>1, <1>2 DEF RowInPlace, DriveInPlace, j
    <3> QED BY <1>1, <2>1, <3>1 DEF Terminal
  <2>2. CASE ~Exists(j)
    BY <1>1, <1>2, <2>2 DEF RowInPlace, Exists
  <2> QED BY <2>1, <2>2
<1>6. ASSUME NEW k \in Jobs PROVE RowInPlace(k)'
  <2>1. CASE k = j
    BY <1>1, <1>5, <2>1 DEF RowInPlace
  <2>2. CASE k # j
    <3>1. status'[k] = status[k] /\ render'[k] = render[k]
      BY <1>1, <2>2
    <3>2. status[k] # "rendering"
      BY <1>3, <2>2 DEF RowInPlace, j
    <3> QED BY <3>1, <3>2 DEF RowInPlace
  <2> QED BY <2>1, <2>2
<1> QED BY <1>4, <1>6

\* While nothing failed, every step keeps the renders in place.
LEMMA RendersStep == RunnerInv /\ RunnerInv' /\ RendersInPlace /\ [Next]_vars => RendersInPlace'
<1> SUFFICES ASSUME RunnerInv, RunnerInv', RendersInPlace, [Next]_vars, faults' + crashes' = 0
             PROVE  /\ \A h \in Runners : DriveInPlace(h)'
                    /\ \A j \in Jobs : RowInPlace(j)'
  BY DEF RendersInPlace
<1>1. faults + crashes = 0 /\ faults = 0 /\ crashes = 0
  <2>1. faults \in Nat /\ crashes \in Nat /\ faults + crashes = 0
    BY FaultsGrow DEF RunnerInv, RunnerTypes
  <2> QED BY <2>1
<1>2. (\A h \in Runners : DriveInPlace(h)) /\ (\A j \in Jobs : RowInPlace(j))
  BY <1>1 DEF RendersInPlace
<1>3. CASE Outside
  BY <1>1, <1>2, <1>3, RendersOutside
<1>4. CASE \E g \in Runners : Quietly(g)
  BY <1>1, <1>2, <1>4, RendersQuietly
<1>5. CASE \E j \in Jobs : Create(j) \/ CancelRead(j) \/ CancelWrite(j)
  BY <1>1, <1>2, <1>5, RendersApi
<1>6. CASE \E g \in Runners : \/ Claim(g) \/ CompleteJob(g) \/ Requeue(g) \/ FailJob(g)
                              \/ MarkCancelled(g)
  BY <1>1, <1>2, <1>6, RendersClaim, RendersEnd
<1> QED BY <1>3, <1>4, <1>5, <1>6, StepKinds

\* A submission while the last render runs needs a crash or a fault before it.
LEMMA SubmitsAlone ==
    ASSUME RunnerInv, RendersInPlace, NEW g \in Runners,
           pc[g] = "submit", render[Hand(g)] = "running"
    PROVE  faults + crashes > 0
<1>1. faults \in Nat /\ crashes \in Nat /\ faults + crashes # 0
  BY DEF RunnerInv, RunnerTypes, RendersInPlace, DriveInPlace
<1> QED BY <1>1

\* RendersDoNotOverlap for any number of processes, jobs, retries, restarts of
\* the worker and cancellations: without a crash and a lost lease the runner
\* never submits a job whose last render still runs.
THEOREM RendersAlone == Spec => RendersDoNotOverlap
<1>1. Init => RendersInPlace
  BY DEF Init, RendersInPlace, DriveInPlace, RowInPlace, Driving
<1>2. Spec => []RunnerInv
  BY RunnerInvInit, RunnerInvStep, PTL DEF Spec
<1>3. Spec => []RendersInPlace
  BY <1>1, <1>2, RendersStep, PTL DEF Spec
<1>4. RunnerInv /\ RendersInPlace /\ [Next]_vars =>
        [\A g \in Runners :
            pc[g] = "submit" /\ pc'[g] = "mark" /\ render[Hand(g)] = "running"
                => faults + crashes > 0]_vars
  BY SubmitsAlone
<1> QED BY <1>2, <1>3, <1>4, PTL DEF Spec, RendersDoNotOverlap

-----------------------------------------------------------------------------
(* Attempts.  A job is attempted once more than its retries allow, and once *)
(* more for each process that lost the lease with the job in hand or on its *)
(* list, or that took it up without the lease.                              *)

Mishaps == faults + crashes

\* Attempts beyond those the retries allow.
Over(n) == IF n > MaxRetries THEN n - MaxRetries ELSE 0

Holds(g, j) == Hand(g) = j \/ \E s \in todo[g] : s.job = j
Fails(g, j) == pc[g] = "fail" /\ Hand(g) = j

\* Processes without the lease that may still submit or requeue the job.
Straying(j) ==
    {g \in Runners : lease # g /\ ~Fails(g, j) /\ (pc[g] = "scan" \/ Holds(g, j))}

Waits(j) == status[j] \in {"none", "queued"}

\* The holder of the lease may attempt the job once more.
Open(j) ==
    \/ attempts[j] <= MaxRetries
    \/ Waits(j)
    \/ status[j] = "rendering" /\ (lease \in Runners => ~Fails(lease, j))
    \/ lease \in Runners /\ Holds(lease, j) /\ ~Fails(lease, j)

\* The extra attempts there were and those that may still come.
JobBound(j) ==
    /\ IsFiniteSet(Straying(j))
    /\ Over(attempts[j]) + Cardinality(Straying(j)) + (IF Open(j) THEN 1 ELSE 0) <= 1 + Mishaps

Trying == {"claimed", "submit", "submitFailed"}

\* A straying process has put the job in the holder's hand back into the queue.
Behind(g) == lease = g /\ Waits(Hand(g))

\* The attempt a process is about to count.
TryBound(g) ==
    pc[g] \in Trying =>
        Over(cur[g].attempts) + Cardinality(Straying(Hand(g))) + (IF Behind(g) THEN 1 ELSE 0)
            <= Mishaps

\* What a process remembers of the rows.
ListBound(g) ==
    /\ cur[g].attempts <= MaxRetries + 1 + Mishaps
    /\ \A s \in todo[g] : s.job # Hand(g) /\ s.attempts <= MaxRetries + 1 + Mishaps

AttemptsInv ==
    /\ \A j \in Jobs : JobBound(j)
    /\ \A g \in Runners : TryBound(g) /\ ListBound(g)

\* What a step does to the processes straying with a job: it adds none, it is a
\* mishap that adds none or one, or it ends a straying.
Calm(j) == Mishaps' = Mishaps /\ Straying(j)' \subseteq Straying(j)
Slips(j) == Mishaps' = Mishaps + 1 /\ Straying(j)' \subseteq Straying(j)
Strays(j) ==
    Mishaps' = Mishaps + 1 /\ \E g \in Runners : Straying(j)' \subseteq Straying(j) \cup {g}
Returns(j) ==
    Mishaps' = Mishaps /\ \E g \in Straying(j) : Straying(j)' \subseteq Straying(j) \ {g}

\* Only a mishap that adds none, or the end of a straying, makes more of the
\* holder's attempt.
JobChange(j) == Slips(j) \/ Returns(j) \/ ((Calm(j) \/ Strays(j)) /\ (Open(j)' => Open(j)))
TryChange(g, j) ==
    Slips(j) \/ Returns(j) \/ ((Calm(j) \/ Strays(j)) /\ (Behind(g)' => Behind(g)))

\* The sum of extra attempts, straying processes and the holder's attempt grows
\* with the mishaps only.
LEMMA Tally ==
    ASSUME NEW S, NEW T, IsFiniteSet(S), NEW was \in BOOLEAN, NEW is \in BOOLEAN,
           NEW x \in {0, 1}, NEW e \in Nat, NEW c \in Int,
           e + Cardinality(S) + (IF was THEN 1 ELSE 0) <= c,
           \/ T \subseteq S /\ (is => was)
           \/ x = 1 /\ T \subseteq S
           \/ x = 1 /\ (is => was) /\ \E g : T \subseteq S \cup {g}
           \/ \E g \in S : T \subseteq S \ {g}
    PROVE  IsFiniteSet(T) /\ e + Cardinality(T) + (IF is THEN 1 ELSE 0) <= c + x
<1>1. Cardinality(S) \in Nat
  BY FS_CardinalityType
<1>2. CASE T \subseteq S
  <2>1. T \in SUBSET S
    BY <1>2
  <2>2. IsFiniteSet(T) /\ Cardinality(T) \in Nat /\ Cardinality(T) <= Cardinality(S)
    BY <2>1, FS_Subset, FS_CardinalityType
  <2>3. CASE \E g \in S : T \subseteq S \ {g}
    <3>1. PICK g \in S : T \in SUBSET (S \ {g})
      BY <2>3
    <3>2. IsFiniteSet(S \ {g}) /\ Cardinality(S \ {g}) = Cardinality(S) - 1
      BY FS_RemoveElement
    <3>3. Cardinality(T) <= Cardinality(S) - 1
      BY <3>1, <3>2, FS_Subset
    <3> QED BY <1>1, <2>2, <3>3
  <2>4. CASE (is => was) \/ x = 1
    BY <1>1, <2>2, <2>4
  <2> QED BY <2>3, <2>4
<1>3. CASE x = 1 /\ (is => was) /\ \E g : T \subseteq S \cup {g}
  <2>1. PICK g : T \in SUBSET (S \cup {g})
    BY <1>3
  <2>2. IsFiniteSet(S \cup {g}) /\ Cardinality(S \cup {g}) <= Cardinality(S) + 1
    <3>1. /\ IsFiniteSet(S \cup {g})
          /\ Cardinality(S \cup {g}) = IF g \in S THEN Cardinality(S) ELSE Cardinality(S) + 1
      BY FS_AddElement
    <3> QED BY <1>1, <3>1
  <2>3. /\ IsFiniteSet(T) /\ Cardinality(T) \in Nat
        /\ Cardinality(S \cup {g}) \in Nat /\ Cardinality(T) <= Cardinality(S \cup {g})
    BY <2>1, <2>2, FS_Subset, FS_CardinalityType
  <2> QED BY <1>1, <1>3, <2>2, <2>3
<1> QED BY <1>2, <1>3

\* A job's sum is kept by a step that counts no attempt of it.
LEMMA JobStep ==
    ASSUME RowTypes, RunnerTypes, NEW j \in Jobs, JobBound(j),
           attempts'[j] = attempts[j], JobChange(j)
    PROVE  JobBound(j)'
<1>1. Over(attempts[j]) \in Nat /\ Mishaps \in Nat
  BY DEF RowTypes, RunnerTypes, Over, Mishaps
<1>2. Open(j) \in BOOLEAN /\ Open(j)' \in BOOLEAN
  BY DEF Open
<1>3. PICK x \in {0, 1} :
        /\ Mishaps' = Mishaps + x
        /\ \/ Straying(j)' \subseteq Straying(j) /\ (Open(j)' => Open(j))
           \/ x = 1 /\ Straying(j)' \subseteq Straying(j)
           \/ x = 1 /\ (Open(j)' => Open(j)) /\ \E g : Straying(j)' \subseteq Straying(j) \cup {g}
           \/ \E g \in Straying(j) : Straying(j)' \subseteq Straying(j) \ {g}
  BY <1>1 DEF JobChange, Calm, Slips, Strays, Returns
<1> DEFINE S == Straying(j)
           T == Straying(j)'
           e == Over(attempts[j])
           was == Open(j)
           is == Open(j)'
           c == 1 + Mishaps
<1>4. e \in Nat /\ c \in Int /\ IsFiniteSet(S) /\ e + Cardinality(S) + (IF was THEN 1 ELSE 0) <= c
  BY <1>1 DEF JobBound
<1>5. \/ T \subseteq S /\ (is => was)
      \/ x = 1 /\ T \subseteq S
      \/ x = 1 /\ (is => was) /\ \E g : T \subseteq S \cup {g}
      \/ \E g \in S : T \subseteq S \ {g}
  BY <1>3
<1>6. was \in BOOLEAN /\ is \in BOOLEAN
  BY <1>2
<1>7. IsFiniteSet(T) /\ e + Cardinality(T) + (IF is THEN 1 ELSE 0) <= c + x
  <2> HIDE DEF S, T, e, was, is, c
  <2> QED BY <1>4, <1>5, <1>6, Tally
<1>8. e' = e /\ c + x = (1 + Mishaps)'
  BY <1>1, <1>3 DEF Over
<1> QED BY <1>7, <1>8 DEF JobBound

\* So is the sum of a process that goes on with its attempt.
LEMMA TryStep ==
    ASSUME RowTypes, RunnerTypes, AttemptsInv, NEW g \in Runners, pc[g] \in Trying,
           NEW j, j = Hand(g), cur'[g] = cur[g], TryChange(g, j)
    PROVE  TryBound(g)'
<1>1. j \in Jobs
  BY DEF RunnerTypes, Trying, Driving
<1>2. Over(cur[g].attempts) \in Nat /\ Mishaps \in Nat /\ JobBound(j) /\ TryBound(g)
  BY <1>1 DEF RunnerTypes, Hands, Over, Mishaps, AttemptsInv
<1>3. PICK x \in {0, 1} :
        /\ Mishaps' = Mishaps + x
        /\ \/ Straying(j)' \subseteq Straying(j) /\ (Behind(g)' => Behind(g))
           \/ x = 1 /\ Straying(j)' \subseteq Straying(j)
           \/ x = 1 /\ (Behind(g)' => Behind(g)) /\ \E h : Straying(j)' \subseteq Straying(j) \cup {h}
           \/ \E h \in Straying(j) : Straying(j)' \subseteq Straying(j) \ {h}
  BY <1>2 DEF TryChange, Calm, Slips, Strays, Returns
<1> DEFINE S == Straying(j)
           T == Straying(j)'
           e == Over(cur[g].attempts)
           was == Behind(g)
           is == Behind(g)'
           c == Mishaps
<1>4. e \in Nat /\ c \in Int /\ IsFiniteSet(S) /\ e + Cardinality(S) + (IF was THEN 1 ELSE 0) <= c
  BY <1>2 DEF JobBound, TryBound
<1>5. \/ T \subseteq S /\ (is => was)
      \/ x = 1 /\ T \subseteq S
      \/ x = 1 /\ (is => was) /\ \E h : T \subseteq S \cup {h}
      \/ \E h \in S : T \subseteq S \ {h}
  BY <1>3
<1>6. was \in BOOLEAN /\ is \in BOOLEAN
  BY DEF Behind
<1>7. IsFiniteSet(T) /\ e + Cardinality(T) + (IF is THEN 1 ELSE 0) <= c + x
  <2> HIDE DEF S, T, e, was, is, c
  <2> QED BY <1>4, <1>5, <1>6, Tally
<1>8. e' = e /\ c + x = Mishaps' /\ Hand(g)' = j
  BY <1>3 DEF Over, Hand
<1> QED BY <1>7, <1>8 DEF TryBound

\* An attempt that the retries allow, or the end of the row, resets the sum.
LEMMA JobReset ==
    ASSUME RowTypes, RunnerTypes, NEW j \in Jobs, JobBound(j), Mishaps' = Mishaps,
           Straying(j)' \subseteq Straying(j), attempts'[j] \in 0 .. MaxRetries
    PROVE  JobBound(j)'
<1>1. Over(attempts[j]) \in Nat /\ Mishaps \in Nat /\ IsFiniteSet(Straying(j))
  BY DEF RowTypes, RunnerTypes, Over, Mishaps, JobBound
<1>2. Straying(j)' \in SUBSET Straying(j)
  OBVIOUS
<1>3. /\ IsFiniteSet(Straying(j)') /\ Cardinality(Straying(j)') \in Nat
      /\ Cardinality(Straying(j)) \in Nat /\ Cardinality(Straying(j)') <= Cardinality(Straying(j))
  BY <1>1, <1>2, FS_Subset, FS_CardinalityType
<1>4. Cardinality(Straying(j)) <= Mishaps
  <2>1. attempts[j] \in Nat /\ (Over(attempts[j]) = 0 => Open(j))
    BY DEF RowTypes, Over, Open
  <2> QED BY <1>1, <1>3, <2>1 DEF JobBound
<1>5. Over(attempts'[j]) = 0
  BY DEF Over
<1> QED BY <1>1, <1>3, <1>4, <1>5 DEF JobBound

\* A step of one process by which it comes to hold no further job, with the row's
\* status kept or ended.
LEMMA Settled ==
    ASSUME RowTypes, RunnerTypes, NEW g \in Runners, NEW j \in Jobs, lease' = lease,
           \A h \in Runners \ {g} : UNCHANGED <<pc[h], todo[h], cur[h]>>,
           Holds(g, j)' => Holds(g, j) \/ (pc[g] = "scan" /\ status[j] = "rendering"),
           pc'[g] = "scan" => pc[g] = "scan",
           Fails(g, j) => ~Holds(g, j)' /\ (lease = g => status'[j] # "rendering"),
           status'[j] = status[j] \/ status'[j] \notin {"none", "queued", "rendering"}
    PROVE  /\ Straying(j)' \subseteq Straying(j)
           /\ Waits(j)' => Waits(j)
           /\ attempts'[j] = attempts[j] => (Open(j)' => Open(j))
<1>1. \A h \in Runners \ {g} : (Holds(h, j)' <=> Holds(h, j)) /\ (Fails(h, j)' <=> Fails(h, j))
  BY DEF Holds, Fails, Hand
<1>2. /\ Fails(g, j) => pc[g] = "fail" /\ Holds(g, j)
      /\ Fails(g, j)' => Holds(g, j)'
  BY DEF Fails, Holds
<1>3. Straying(j)' \subseteq Straying(j)
  BY <1>1, <1>2 DEF Straying
<1>4. Waits(j)' => Waits(j)
  BY DEF Waits
<1>5. ASSUME attempts'[j] = attempts[j], Open(j)' PROVE Open(j)
  <2>1. CASE attempts[j] <= MaxRetries \/ Waits(j)'
    BY <1>4, <2>1 DEF Open
  <2>2. CASE status'[j] = "rendering" /\ (lease \in Runners => ~Fails(lease, j)')
    <3>1. status[j] = "rendering"
      BY <2>2
    <3>2. ASSUME lease \in Runners PROVE ~Fails(lease, j)
      BY <1>1, <2>2, <3>2
    <3> QED BY <3>1, <3>2 DEF Open
  <2>3. CASE lease \in Runners /\ Holds(lease, j)' /\ ~Fails(lease, j)'
    BY <1>1, <1>2, <2>3 DEF Open
  <2> QED BY <1>5, <2>1, <2>2, <2>3 DEF Open
<1> QED BY <1>3, <1>4, <1>5

\* The attempts of the rows and of what processes remember of them are few.
LEMMA FewAttempts ==
    ASSUME RowTypes, RunnerTypes, NEW j \in Jobs, JobBound(j)
    PROVE  attempts[j] \in 0 .. MaxRetries + 1 + Mishaps
<1>1. attempts[j] \in Nat /\ Mishaps \in Nat /\ Cardinality(Straying(j)) \in Nat
  BY FS_CardinalityType DEF RowTypes, RunnerTypes, Mishaps, JobBound
<1> QED BY <1>1 DEF JobBound, Over

\* Every such step, if it counts no attempt, keeps the sums.
LEMMA CalmStep ==
    ASSUME RowTypes, RunnerTypes, AttemptsInv, NEW g \in Runners,
           UNCHANGED <<lease, faults, crashes>>,
           \A h \in Runners \ {g} : UNCHANGED <<pc[h], todo[h], cur[h]>>,
           \A j \in Jobs : Holds(g, j)' => Holds(g, j) \/ (pc[g] = "scan" /\ status[j] = "rendering"),
           pc'[g] = "scan" => pc[g] = "scan",
           \A j \in Jobs : Fails(g, j) => ~Holds(g, j)' /\ (lease = g => status'[j] # "rendering"),
           \A j \in Jobs : status'[j] = status[j] \/ status'[j] \notin {"none", "queued", "rendering"},
           \A j \in Jobs : attempts'[j] = attempts[j] \/ JobBound(j)',
           pc'[g] \in Trying => pc[g] \in Trying /\ cur'[g] = cur[g],
           ListBound(g)'
    PROVE  AttemptsInv'
<1>1. Mishaps' = Mishaps
  BY DEF Mishaps
<1>2. \A j \in Jobs : /\ Straying(j)' \subseteq Straying(j)
                      /\ Waits(j)' => Waits(j)
                      /\ attempts'[j] = attempts[j] => (Open(j)' => Open(j))
  BY Settled
<1>3. ASSUME NEW j \in Jobs PROVE JobBound(j)'
  <2>1. CASE attempts'[j] = attempts[j]
    BY <1>1, <1>2, <2>1, JobStep DEF AttemptsInv, JobChange, Calm
  <2> QED BY <2>1
<1>4. ASSUME NEW h \in Runners PROVE TryBound(h)'
  <2> SUFFICES ASSUME pc'[h] \in Trying PROVE TryBound(h)'
    BY DEF TryBound
  <2>1. pc[h] \in Trying /\ cur'[h] = cur[h]
    BY DEF RunnerTypes
  <2>2. PICK j \in Jobs : j = Hand(h)
    BY <2>1 DEF RunnerTypes, Trying, Driving
  <2>3. Behind(h)' => Behind(h)
    BY <1>2, <2>1, <2>2 DEF Behind, Hand
  <2>4. TryChange(h, j)
    BY <1>1, <1>2, <2>3 DEF TryChange, Calm
  <2> QED BY <2>1, <2>2, <2>4, TryStep
<1>5. ASSUME NEW h \in Runners \ {g} PROVE ListBound(h)'
  BY <1>1 DEF AttemptsInv, ListBound, Hand
<1> QED BY <1>3, <1>4, <1>5 DEF AttemptsInv

\* The process that drops the job in hand holds it no more.
LEMMA Dropped ==
    ASSUME RunnerTypes, AttemptsInv, NEW g \in Runners, pc[g] \in Driving, Return(g)
    PROVE  /\ \A h \in Runners \ {g} : UNCHANGED <<pc[h], todo[h], cur[h]>>
           /\ \A j \in Jobs : Holds(g, j)' => Holds(g, j)
           /\ \A j \in Jobs : Hand(g) = j => ~Holds(g, j)'
           /\ Hand(g)' = NoOne
           /\ pc'[g] \in {"idle", "reconcile"}
           /\ faults' = faults /\ crashes' = crashes => ListBound(g)'
<1>1. /\ \A h \in Runners \ {g} : UNCHANGED <<pc[h], todo[h], cur[h]>>
      /\ pc'[g] \in {"idle", "reconcile"} /\ todo' = todo /\ cur'[g] = NoJob
  BY DEF RunnerTypes, Return, Goto
<1>2. Hand(g)' = NoOne /\ cur'[g].attempts = 0 /\ Hand(g) \in Jobs
  BY <1>1 DEF Hand, NoJob, RunnerTypes
<1>3. \A s \in todo[g] : s.job # Hand(g) /\ s.job \in Jobs /\ s.attempts <= MaxRetries + 1 + Mishaps
  BY DEF AttemptsInv, ListBound, RunnerTypes, Snapshots
<1>4. \A k \in Jobs : Holds(g, k)' <=> \E s \in todo[g] : s.job = k
  BY <1>1, <1>2 DEF Holds
<1>5. ASSUME faults' = faults, crashes' = crashes PROVE ListBound(g)'
  <2>1. Mishaps' = Mishaps /\ Mishaps \in Nat
    BY <1>5 DEF Mishaps, RunnerTypes
  <2> QED BY <1>1, <1>2, <1>3, <2>1 DEF ListBound
<1>6. \A j \in Jobs : Hand(g) = j => ~Holds(g, j)'
  BY <1>3, <1>4
<1>7. \A j \in Jobs : Holds(g, j)' => Holds(g, j)
  BY <1>4 DEF Holds
<1> QED BY <1>1, <1>2, <1>5, <1>6, <1>7

\* Reconcile takes a snapshot of its list in hand.
LEMMA TakesFromList ==
    ASSUME RunnerTypes, NEW g \in Runners, ReconcileJob(g)
    PROVE  /\ \A h \in Runners \ {g} : UNCHANGED <<pc[h], todo[h], cur[h]>>
           /\ pc[g] = "reconcile" /\ pc'[g] \in {"fail", "requeue", "lost", "readopt"}
           /\ UNCHANGED <<lease, faults, crashes, status, attempts>>
           /\ \E s \in todo[g] : /\ todo'[g] = todo[g] \ {s}
                                 /\ cur'[g].attempts = s.attempts /\ Hand(g)' = s.job
<1>1. PICK s \in todo[g] :
        /\ todo' = [todo EXCEPT ![g] = @ \ {s}]
        /\ cur' = [cur EXCEPT ![g] = [s EXCEPT !.said = render[s.job], !.known = FALSE]]
  BY Zenon DEF ReconcileJob
<1>2. PICK label \in {"fail", "requeue", "lost", "readopt"} : Goto(g, label)
  BY DEF ReconcileJob
<1>3. /\ UNCHANGED <<lease, faults, crashes, status, attempts>>
      /\ pc[g] = "reconcile"
  BY DEF ReconcileJob, jobVars, envVars
<1>4. /\ \A h \in Runners \ {g} : UNCHANGED <<pc[h], todo[h], cur[h]>>
      /\ pc'[g] \in {"fail", "requeue", "lost", "readopt"}
      /\ todo'[g] = todo[g] \ {s}
  BY <1>1, <1>2 DEF Goto, RunnerTypes
<1>5. s \in Snapshots
  BY DEF RunnerTypes
<1>6. cur'[g].attempts = s.attempts /\ Hand(g)' = s.job
  BY <1>1, <1>5 DEF RunnerTypes, Hand, Snapshots
<1> QED BY <1>3, <1>4, <1>6

\* A process takes the next job of its list in hand, lists the stale ones, ends
\* its reconcile or gives up.
LEMMA ListsBounded ==
    ASSUME RowTypes, RunnerTypes, ListsInPlace, AttemptsInv, NEW g \in Runners
    PROVE  Scan(g) \/ ReconcileEnds(g) \/ ReconcileJob(g) \/ StepDown(g) => AttemptsInv'
<1> DEFINE Same == UNCHANGED <<lease, faults, crashes, status, attempts>>
<1>1. Mishaps \in Nat /\ (Same => Mishaps' = Mishaps)
  BY DEF Mishaps, RunnerTypes
<1>2. /\ cur[g].attempts <= MaxRetries + 1 + Mishaps
      /\ \A s \in todo[g] : s.job # Hand(g) /\ s.attempts <= MaxRetries + 1 + Mishaps /\ s.job \in Jobs
  BY DEF AttemptsInv, ListBound, RunnerTypes, Snapshots
<1>3. ASSUME Scan(g) PROVE AttemptsInv'
  <2> DEFINE list == {Snapshot(j) : j \in {k \in Jobs : Stale(k)}}
  <2>1. /\ \A h \in Runners \ {g} : UNCHANGED <<pc[h], todo[h], cur[h]>>
        /\ pc[g] = "scan" /\ pc'[g] = "reconcile" /\ todo'[g] = list /\ cur'[g] = cur[g] /\ Same
    BY <1>3 DEF Scan, Goto, RunnerTypes, jobVars, envVars
  <2>2. Hand(g) = NoOne /\ Hand(g)' = NoOne
    BY <2>1 DEF RunnerTypes, Driving, Hand
  <2>3. ASSUME NEW s \in list
        PROVE  s.job \in Jobs /\ status[s.job] = "rendering" /\ s.attempts <= MaxRetries + 1 + Mishaps
    <3>1. PICK j \in Jobs : Stale(j) /\ s = Snapshot(j)
      OBVIOUS
    <3>2. s.job = j /\ s.attempts = attempts[j]
      BY <3>1 DEF Snapshot
    <3>3. JobBound(j)
      BY DEF AttemptsInv
    <3>4. attempts[j] \in 0 .. MaxRetries + 1 + Mishaps
      BY <3>3, FewAttempts
    <3> QED BY <1>1, <3>1, <3>2, <3>4 DEF Stale
  <2> HIDE DEF list
  <2>4. ListBound(g)'
    BY <1>1, <1>2, <2>1, <2>2, <2>3 DEF ListBound
  <2>5. \A j \in Jobs : Holds(g, j)' => status[j] = "rendering"
    BY <2>1, <2>2, <2>3 DEF Holds
  <2> QED BY <2>1, <2>4, <2>5, CalmStep DEF Fails, Trying
<1>4. ASSUME ReconcileEnds(g) PROVE AttemptsInv'
  <2>1. /\ \A h \in Runners \ {g} : UNCHANGED <<pc[h], todo[h], cur[h]>>
        /\ pc[g] = "reconcile" /\ pc'[g] = "idle" /\ todo'[g] = todo[g] /\ cur'[g] = cur[g] /\ Same
    BY <1>4 DEF ReconcileEnds, Goto, RunnerTypes, jobVars, envVars
  <2>2. ListBound(g)' /\ \A j \in Jobs : Holds(g, j)' => Holds(g, j)
    BY <1>1, <1>2, <2>1 DEF ListBound, Holds, Hand
  <2> QED BY <2>1, <2>2, CalmStep DEF Fails, Trying
<1>5. ASSUME ReconcileJob(g) PROVE AttemptsInv'
  <2>1. /\ \A h \in Runners \ {g} : UNCHANGED <<pc[h], todo[h], cur[h]>>
        /\ pc[g] = "reconcile" /\ pc'[g] \in {"fail", "requeue", "lost", "readopt"} /\ Same
    BY <1>5, TakesFromList
  <2>2. PICK s \in todo[g] :
          /\ todo'[g] = todo[g] \ {s} /\ cur'[g].attempts = s.attempts /\ Hand(g)' = s.job
    BY <1>5, TakesFromList
  <2>3. ListBound(g)'
    BY <1>1, <1>2, <2>1, <2>2 DEF ListBound, ListsInPlace
  <2>4. \A j \in Jobs : Holds(g, j)' => Holds(g, j)
    BY <2>2 DEF Holds
  <2> QED BY <2>1, <2>3, <2>4, CalmStep DEF Fails, Trying
<1>6. ASSUME StepDown(g) PROVE AttemptsInv'
  <2>1. /\ \A h \in Runners \ {g} : UNCHANGED <<pc[h], todo[h], cur[h]>>
        /\ pc'[g] \in {"standby", "ended"} /\ todo'[g] = {} /\ cur'[g] = NoJob /\ lease # g /\ Same
    BY <1>6 DEF StepDown, Leave, Goto, RunnerTypes, jobVars, envVars
  <2>2. ListBound(g)' /\ \A j \in Jobs : ~Holds(g, j)'
    BY <1>1, <2>1 DEF ListBound, Holds, Hand, NoJob
  <2> QED BY <2>1, <2>2, CalmStep DEF Trying
<1> QED BY <1>3, <1>4, <1>5, <1>6

\* The steps of a process on the job in hand that count no attempt.
LEMMA DrivesBounded ==
    ASSUME RowTypes, RunnerTypes, AttemptsInv, NEW g \in Runners,
           \/ Readopt(g) \/ CheckCancelled(g) \/ Submit(g) \/ MarkShot(g)
           \/ PollCancelled(g) \/ Poll(g) \/ Finalize(g)
    PROVE  AttemptsInv'
<1> USE DEF jobVars, envVars
<1>1. UNCHANGED <<lease, faults, crashes, status, attempts>>
  BY DEF Readopt, CheckCancelled, Submit, MarkShot, PollCancelled, Poll, Finalize
<1>2. Mishaps' = Mishaps
  BY <1>1 DEF Mishaps
<1>3. pc[g] \in Driving /\ pc[g] \notin {"fail", "scan"}
  BY DEF Readopt, CheckCancelled, Submit, MarkShot, PollCancelled, Poll, Finalize, Step, Driving
<1>4. ASSUME Return(g) PROVE AttemptsInv'
  BY <1>1, <1>3, <1>4, Dropped, CalmStep DEF Fails, Trying
<1>5. ASSUME NEW to \in Driving, Goto(g, to), UNCHANGED <<todo>>,
             to \in Trying => pc[g] \in Trying /\ cur' = cur,
             \/ cur' = cur
             \/ cur' = [cur EXCEPT ![g].said = "none"]
      PROVE  AttemptsInv'
  <2>1. /\ \A h \in Runners \ {g} : UNCHANGED <<pc[h], todo[h], cur[h]>>
        /\ pc'[g] = to /\ to # "scan" /\ todo'[g] = todo[g]
    BY <1>5 DEF Goto, RunnerTypes, Driving
  <2>2. cur'[g].attempts = cur[g].attempts /\ Hand(g)' = Hand(g)
    BY <1>5 DEF RunnerTypes, Hands, Hand
  <2>3. ListBound(g)' /\ \A j \in Jobs : Holds(g, j)' => Holds(g, j)
    BY <1>2, <2>1, <2>2 DEF AttemptsInv, ListBound, Holds
  <2> QED BY <1>1, <1>3, <1>5, <2>1, <2>3, CalmStep DEF Fails
<1>6. CASE Readopt(g)
  <2>1. CASE Stale(Hand(g))
    <3>1. PICK to \in {"fail", "finalize", "poll"} : Goto(g, to)
      BY <1>6, <2>1 DEF Readopt
    <3>2. cur' = [cur EXCEPT ![g].said = "none"] /\ todo' = todo
      BY <1>6, <2>1 DEF Readopt
    <3> QED BY <1>5, <3>1, <3>2 DEF Driving, Trying
  <2>2. CASE ~Stale(Hand(g))
    BY <1>4, <1>6, <2>2 DEF Readopt
  <2> QED BY <2>1, <2>2
<1>7. ASSUME Raise(g), pc[g] \notin Trying PROVE AttemptsInv'
  BY <1>4, <1>5, <1>7 DEF Raise, Driving, Trying
<1>8. CASE CheckCancelled(g) \/ Submit(g) \/ MarkShot(g) \/ PollCancelled(g)
  <2>1. PICK to \in {"cancel", "submit", "requeue", "mark", "submitFailed", "poll"} :
          /\ Goto(g, to) /\ UNCHANGED <<todo, cur>>
          /\ to \in {"submit", "submitFailed"} => pc[g] \in {"claimed", "submit"}
    BY <1>8 DEF CheckCancelled, Submit, MarkShot, PollCancelled, Step
  <2> QED BY <1>5, <2>1 DEF Driving, Trying
<1>9. CASE Poll(g)
  <2>1. CASE Raise(g)
    BY <1>7, <1>9, <2>1 DEF Poll, Trying
  <2>2. CASE ~Raise(g)
    <3>1. PICK to \in {"finalize", "fail", "poll"} : Step(g, "poll", to)
      BY <1>9, <2>2 DEF Poll
    <3> QED BY <1>5, <3>1 DEF Step, Driving, Trying
  <2> QED BY <2>1, <2>2
<1>10. CASE Finalize(g)
  <2>1. CASE Step(g, "finalize", "complete")
    BY <1>5, <2>1 DEF Step, Driving, Trying
  <2>2. CASE ~Step(g, "finalize", "complete")
    BY <1>7, <1>10, <2>2 DEF Finalize, Trying
  <2> QED BY <2>1, <2>2
<1> QED BY <1>6, <1>8, <1>9, <1>10

\* The worker lost a render, or a submission failed: the attempt is counted.
LEMMA CountsBounded ==
    ASSUME RowTypes, RunnerTypes, AttemptsInv, NEW g \in Runners,
           ReconcileLost(g) \/ SubmitFailed(g)
    PROVE  AttemptsInv'
<1> USE DEF envVars
<1>1. /\ UNCHANGED <<lease, faults, crashes, status, todo, cur>>
      /\ \A h \in Runners \ {g} : pc'[h] = pc[h]
      /\ pc[g] \in {"lost", "submitFailed"} /\ pc'[g] \in {"requeue", "fail"}
  BY DEF ReconcileLost, SubmitFailed, Step, Goto, RunnerTypes
<1>2. PICK i \in Jobs : i = Hand(g)
  BY <1>1 DEF RunnerTypes, Driving
<1> DEFINE n == cur[g].attempts
<1>3. /\ n \in Nat /\ Mishaps \in Nat /\ Mishaps' = Mishaps
      /\ \A j \in Jobs : Holds(g, j)' <=> Holds(g, j)
      /\ \A j \in Jobs : ~Fails(g, j)
      /\ Holds(g, i)
  BY <1>1, <1>2 DEF RunnerTypes, Hands, Mishaps, Holds, Hand, Fails
<1>4. \A j \in Jobs : Straying(j)' \subseteq Straying(j)
  BY <1>1, <1>3, Settled
<1>5. \A j \in Jobs \ {i} : attempts'[j] = attempts[j]
  BY <1>2 DEF ReconcileLost, SubmitFailed, Put, RowTypes
<1>6. \/ attempts'[i] = attempts[i]
      \/ attempts'[i] = n + 1 /\ n < MaxRetries
      \/ attempts'[i] = n + 1 /\ pc[g] = "submitFailed" /\ (n < MaxRetries \/ pc'[g] = "fail")
  <2>1. CASE ReconcileLost(g)
    BY <1>2, <1>3, <2>1 DEF ReconcileLost, Put, RowTypes
  <2>2. CASE SubmitFailed(g)
    <3>1. attempts'[i] = attempts[i] \/ attempts'[i] = n + 1
      BY <1>2, <1>3, <2>2 DEF SubmitFailed, Put, RowTypes
    <3>2. pc[g] = "submitFailed" /\ (n < MaxRetries \/ pc'[g] = "fail")
      BY <1>3, <2>2 DEF SubmitFailed, Step, Goto, RunnerTypes
    <3> QED BY <3>1, <3>2
  <2> QED BY <2>1, <2>2
<1>7. ASSUME attempts'[i] = n + 1, n < MaxRetries PROVE JobBound(i)'
  <2>1. attempts'[i] \in 0 .. MaxRetries
    BY <1>3, <1>7
  <2>2. JobBound(i)
    BY DEF AttemptsInv
  <2> QED BY <1>3, <1>4, <2>1, <2>2, JobReset
<1>8. ASSUME attempts'[i] = n + 1, ~(n < MaxRetries), pc[g] = "submitFailed", pc'[g] = "fail"
      PROVE  JobBound(i)'
  <2> DEFINE S == Straying(i)
             T == Straying(i)'
             e == Over(n)
             was == Behind(g)
             is == Open(i)'
             c == Mishaps
  <2>1. Fails(g, i)'
    BY <1>1, <1>2, <1>8 DEF Fails, Hand
  <2>2. (T \subseteq S /\ (is => was)) \/ \E h \in S : T \subseteq S \ {h}
    <3>1. CASE lease = g
      <4>1. Open(i)' => Behind(g)
        BY <1>1, <1>2, <1>3, <1>8, <2>1, <3>1 DEF Open, Behind, Waits, Hand
      <4> QED BY <1>4, <4>1
    <3>2. CASE lease # g
      <4>1. g \in Straying(i) /\ g \notin Straying(i)'
        BY <1>1, <1>3, <2>1, <3>2 DEF Straying
      <4> QED BY <1>4, <4>1
    <3> QED BY <3>1, <3>2
  <2>3. TryBound(g) /\ JobBound(i)
    BY DEF AttemptsInv
  <2>4. e \in Nat /\ c \in Int /\ IsFiniteSet(S) /\ e + Cardinality(S) + (IF was THEN 1 ELSE 0) <= c
    BY <1>2, <1>3, <1>8, <2>3 DEF TryBound, JobBound, Trying, Over
  <2>5. was \in BOOLEAN /\ is \in BOOLEAN
    BY DEF Behind, Open
  <2>6. IsFiniteSet(T) /\ e + Cardinality(T) + (IF is THEN 1 ELSE 0) <= c
    <3>1. ASSUME NEW x, x = 0
          PROVE  IsFiniteSet(T) /\ e + Cardinality(T) + (IF is THEN 1 ELSE 0) <= c + x
      <4> HIDE DEF S, T, e, was, is, c
      <4> QED BY <2>2, <2>4, <2>5, <3>1, Tally
    <3> QED BY <2>4, <3>1
  <2>7. Over(attempts'[i]) = Over(n) + 1
    BY <1>3, <1>8 DEF Over
  <2>8. Over(attempts[i])' = e + 1 /\ Cardinality(T) \in Nat
    BY <2>6, <2>7, FS_CardinalityType DEF Over
  <2> QED BY <1>3, <2>4, <2>6, <2>8 DEF JobBound
<1>9. JobBound(i)' \/ attempts'[i] = attempts[i]
  BY <1>6, <1>7, <1>8
<1>10. ListBound(g)'
  BY <1>1, <1>3 DEF AttemptsInv, ListBound, Hand
<1> QED BY <1>1, <1>3, <1>5, <1>9, <1>10, CalmStep DEF Trying

\* A job ends.
LEMMA EndsBounded ==
    ASSUME RowTypes, RunnerTypes, AttemptsInv, NEW g \in Runners,
           CompleteJob(g) \/ FailJob(g) \/ MarkCancelled(g)
    PROVE  AttemptsInv'
<1>1. PICK s \in Terminal : Write(g, pc[g], s) /\ pc[g] \in {"complete", "fail", "cancel"}
  BY DEF CompleteJob, FailJob, MarkCancelled, Write, Terminal
<1>2. pc[g] \in Driving /\ Return(g) /\ UNCHANGED <<lease, faults, crashes, attempts>>
  BY <1>1 DEF Write, Driving, envVars
<1>3. PICK i \in Jobs : i = Hand(g)
  BY <1>2 DEF RunnerTypes
<1>4. /\ \A j \in Jobs \ {i} : status'[j] = status[j]
      /\ status'[i] \in Terminal \/ (status'[i] = status[i] /\ ~Exists(i))
  BY <1>1, <1>3 DEF Write, Put, RowTypes
<1>5. \A j \in Jobs : status'[j] = status[j] \/ status'[j] \notin {"none", "queued", "rendering"}
  BY <1>4 DEF Terminal
<1>6. \A j \in Jobs : Fails(g, j) => ~Holds(g, j)' /\ status'[j] # "rendering"
  BY <1>2, <1>3, <1>4, Dropped DEF Fails, Terminal, Exists
<1>7. ListBound(g)' /\ pc'[g] \in {"idle", "reconcile"}
  BY <1>2, Dropped
<1> QED BY <1>2, <1>5, <1>6, <1>7, Dropped, CalmStep DEF Trying

\* What a step has to show.
LEMMA StepBounded ==
    ASSUME RowTypes, RunnerTypes, AttemptsInv,
           \A j \in Jobs : JobBound(j)' \/ (attempts'[j] = attempts[j] /\ JobChange(j)),
           \A g \in Runners :
              \/ pc'[g] \notin Trying
              \/ TryBound(g)'
              \/ /\ pc[g] \in Trying /\ cur'[g] = cur[g]
                 /\ \A j \in Jobs : j = Hand(g) => TryChange(g, j),
           \A g \in Runners :
              \/ ListBound(g)'
              \/ UNCHANGED <<cur[g], todo[g]>> /\ Mishaps' \in {Mishaps, Mishaps + 1}
    PROVE  AttemptsInv'
<1>1. ASSUME NEW j \in Jobs PROVE JobBound(j)'
  BY JobStep DEF AttemptsInv
<1>2. ASSUME NEW g \in Runners PROVE TryBound(g)'
  <2>1. CASE pc'[g] \notin Trying
    BY <2>1 DEF TryBound
  <2>2. ASSUME pc[g] \in Trying, cur'[g] = cur[g], \A j \in Jobs : j = Hand(g) => TryChange(g, j)
        PROVE  TryBound(g)'
    <3>1. Hand(g) \in Jobs
      BY <2>2 DEF RunnerTypes, Trying, Driving
    <3> QED BY <2>2, <3>1, TryStep
  <2> QED BY <2>1, <2>2
<1>3. ASSUME NEW g \in Runners PROVE ListBound(g)'
  <2>1. CASE UNCHANGED <<cur[g], todo[g]>> /\ Mishaps' \in {Mishaps, Mishaps + 1}
    <3>1. /\ Mishaps \in Nat /\ cur[g].attempts \in Nat
          /\ \A s \in todo[g] : s.attempts \in Nat
      BY DEF Mishaps, RunnerTypes, Hands, Snapshots
    <3> QED BY <2>1, <3>1 DEF AttemptsInv, ListBound, Hand
  <2> QED BY <2>1
<1> QED BY <1>1, <1>2, <1>3 DEF AttemptsInv

\* A job goes back to the queue: by the holder of the lease, which could attempt
\* it once more anyway, or by a process that strays no more.
LEMMA RequeueBounded ==
    ASSUME RowTypes, RunnerTypes, AttemptsInv, NEW g \in Runners, Requeue(g)
    PROVE  AttemptsInv'
<1>1. /\ pc[g] = "requeue" /\ pc[g] \in Driving /\ Return(g) /\ Mishaps' = Mishaps
      /\ UNCHANGED <<lease, faults, crashes, attempts>>
  BY DEF Requeue, Write, Driving, envVars, Mishaps
<1>2. PICK i \in Jobs : i = Hand(g)
  BY <1>1 DEF RunnerTypes
<1>3. /\ \A j \in Jobs \ {i} : status'[j] = status[j]
      /\ status'[i] = "queued" \/ status'[i] = status[i]
  BY <1>2 DEF Requeue, Write, Put, RowTypes
<1>4. /\ \A h \in Runners \ {g} : UNCHANGED <<pc[h], todo[h], cur[h]>>
      /\ \A j \in Jobs : Holds(g, j)' => Holds(g, j)
      /\ ~Holds(g, i)' /\ ListBound(g)' /\ pc'[g] \in {"idle", "reconcile"}
  BY <1>1, <1>2, Dropped
<1>5. \A j \in Jobs : ~Fails(g, j) /\ Holds(g, i)
  BY <1>1, <1>2 DEF Fails, Holds
<1>6. \A h \in Runners \ {g}, j \in Jobs : (Holds(h, j)' <=> Holds(h, j)) /\ (Fails(h, j)' <=> Fails(h, j))
  BY <1>4 DEF Holds, Fails, Hand
<1>7. \A j \in Jobs : Straying(j)' \subseteq Straying(j)
  BY <1>1, <1>4, <1>5, <1>6 DEF Straying
<1>8. \A j \in Jobs : Calm(j)
  BY <1>1, <1>7 DEF Calm
<1>9. ASSUME NEW j \in Jobs \ {i} PROVE (Waits(j)' => Waits(j)) /\ (Open(j)' => Open(j))
  <2>1. status'[j] = status[j]
    BY <1>3
  <2> QED BY <1>1, <1>4, <1>5, <2>1, Settled
<1>10. Returns(i) \/ Open(i)
  <2>1. CASE lease = g
    BY <1>5, <2>1 DEF Open
  <2>2. CASE lease # g
    <3>1. g \in Straying(i) /\ g \notin Straying(i)'
      BY <1>1, <1>4, <1>5, <2>2 DEF Straying
    <3> QED BY <1>1, <1>7, <3>1 DEF Returns
  <2> QED BY <2>1, <2>2
<1>11. \A j \in Jobs : attempts'[j] = attempts[j] /\ JobChange(j)
  BY <1>1, <1>8, <1>9, <1>10 DEF JobChange
<1>12. ASSUME NEW h \in Runners, pc'[h] \in Trying
       PROVE  /\ pc[h] \in Trying /\ cur'[h] = cur[h]
              /\ \A j \in Jobs : j = Hand(h) => TryChange(h, j)
  <2>1. h # g /\ pc[h] \in Trying /\ cur'[h] = cur[h]
    BY <1>4, <1>12 DEF Trying
  <2>2. ASSUME NEW j \in Jobs, j = Hand(h) PROVE TryChange(h, j)
    <3>1. Hand(h)' = j
      BY <2>1, <2>2 DEF Hand
    <3>2. CASE j # i
      BY <1>8, <1>9, <2>2, <3>1, <3>2, <1>1 DEF TryChange, Behind
    <3>3. CASE lease = g
      BY <1>1, <1>8, <2>1, <3>3 DEF TryChange, Behind
    <3>4. CASE lease # g
      <4>1. g \in Straying(i) /\ g \notin Straying(i)'
        BY <1>1, <1>4, <1>5, <3>4 DEF Straying
      <4>2. Returns(i)
        BY <1>1, <1>7, <4>1 DEF Returns
      <4> QED BY <3>2, <4>2 DEF TryChange
    <3> QED BY <3>3, <3>4
  <2> QED BY <2>1, <2>2
<1>13. \A h \in Runners \ {g} : UNCHANGED <<cur[h], todo[h]>>
  BY <1>4
<1> QED BY <1>1, <1>4, <1>11, <1>12, <1>13, StepBounded

\* A process claims a job: the holder of the lease makes the attempt it could make
\* anyway, any other strays from here on.
LEMMA ClaimBounded ==
    ASSUME RowTypes, RunnerTypes, ListsInPlace, AttemptsInv, NEW g \in Runners, Claim(g)
    PROVE  AttemptsInv'
<1> USE DEF envVars
<1>1. PICK i \in Jobs : /\ status[i] = "queued"
                        /\ status' = [status EXCEPT ![i] = "rendering"]
                        /\ cur' = [cur EXCEPT ![g] = Snapshot(i)]
  <2> DEFINE open == {k \in Jobs : status[k] = "queued"}
  <2>1. /\ open # {} /\ status' = [status EXCEPT ![Min(open)] = "rendering"]
        /\ cur' = [cur EXCEPT ![g] = Snapshot(Min(open))]
    BY DEF Claim
  <2>2. Min(open) \in open
    BY <2>1, MinIsIn
  <2> HIDE DEF open
  <2>3. Min(open) \in Jobs /\ status[Min(open)] = "queued"
    BY <2>2 DEF open
  <2> QED BY <2>1, <2>3
<1>2. /\ pc[g] = "idle" /\ pc'[g] = "claimed" /\ UNCHANGED <<lease, attempts, todo, crashes>>
      /\ \A h \in Runners \ {g} : UNCHANGED <<pc[h], todo[h], cur[h]>>
      /\ status'[i] = "rendering" /\ \A j \in Jobs \ {i} : status'[j] = status[j]
      /\ cur'[g] = Snapshot(i)
  BY <1>1 DEF Claim, Goto, RunnerTypes, RowTypes
<1>3. /\ Mishaps \in Nat /\ (lease = g => Mishaps' = Mishaps)
      /\ lease # g => Mishaps' = Mishaps + 1
  BY DEF Claim, Overtime, Mishaps, RunnerTypes
<1>4. Hand(g) = NoOne /\ todo[g] = {} /\ todo'[g] = {} /\ Hand(g)' = i /\ cur'[g].attempts = attempts[i]
  BY <1>2 DEF RunnerTypes, Driving, ListsInPlace, Hand, Snapshot
<1>5. \A j \in Jobs : ~Holds(g, j) /\ ~Fails(g, j) /\ ~Fails(g, j)' /\ (Holds(g, j)' => j = i)
  BY <1>2, <1>4 DEF Holds, Fails
<1>6. \A h \in Runners \ {g}, j \in Jobs : (Holds(h, j)' <=> Holds(h, j)) /\ (Fails(h, j)' <=> Fails(h, j))
  BY <1>2 DEF Holds, Fails, Hand
<1>7. /\ \A j \in Jobs \ {i} : Straying(j)' \subseteq Straying(j)
      /\ lease = g => Straying(i)' \subseteq Straying(i)
      /\ Straying(i)' \subseteq Straying(i) \cup {g}
  BY <1>2, <1>5, <1>6 DEF Straying
<1>8. Open(i)
  BY <1>1 DEF Open, Waits
<1>9. \A j \in Jobs \ {i} : (Open(j)' => Open(j)) /\ (Waits(j)' => Waits(j))
  BY <1>2, <1>5, <1>6 DEF Open, Waits
<1>10. ASSUME NEW j \in Jobs PROVE attempts'[j] = attempts[j] /\ JobChange(j)
  <2>1. CASE lease = g
    BY <1>2, <1>3, <1>7, <1>8, <1>9, <2>1 DEF JobChange, Calm
  <2>2. CASE lease # g /\ j = i
    BY <1>2, <1>3, <1>7, <1>8, <2>2 DEF JobChange, Strays
  <2>3. CASE lease # g /\ j # i
    BY <1>2, <1>3, <1>7, <2>3 DEF JobChange, Slips
  <2> QED BY <2>1, <2>2, <2>3
<1>11. TryBound(g)'
  <2> DEFINE S == Straying(i)
             T == Straying(i)'
             e == Over(attempts[i])
             was == TRUE
             is == TRUE
             c == 1 + Mishaps
  <2>1. JobBound(i) /\ attempts[i] \in Nat
    BY DEF AttemptsInv, RowTypes
  <2>2. PICK x \in {0, 1} :
          /\ Mishaps' = Mishaps + x
          /\ T \subseteq S \/ (x = 1 /\ \E h : T \subseteq S \cup {h})
    BY <1>3, <1>7
  <2>3. e \in Nat /\ c \in Int /\ IsFiniteSet(S) /\ e + Cardinality(S) + (IF was THEN 1 ELSE 0) <= c
    BY <1>3, <1>8, <2>1 DEF JobBound, Over
  <2>4. IsFiniteSet(T) /\ e + Cardinality(T) + (IF is THEN 1 ELSE 0) <= c + x
    <3> HIDE DEF S, T, e, c
    <3> QED BY <2>2, <2>3, Tally
  <2>5. ~Behind(g)'
    BY <1>2, <1>4 DEF Behind, Waits
  <2>6. Over(cur[g].attempts)' = e /\ Straying(Hand(g))' = T
    BY <1>4 DEF Over, Straying, Holds, Fails, Hand
  <2>7. Cardinality(T) \in Nat
    BY <2>4, FS_CardinalityType
  <2> QED BY <1>3, <2>2, <2>3, <2>4, <2>5, <2>6, <2>7 DEF TryBound
<1>12. ASSUME NEW h \in Runners \ {g}, pc'[h] \in Trying
       PROVE  /\ pc[h] \in Trying /\ cur'[h] = cur[h]
              /\ \A j \in Jobs : j = Hand(h) => TryChange(h, j)
  <2>1. pc[h] \in Trying /\ cur'[h] = cur[h] /\ Hand(h)' = Hand(h)
    BY <1>2, <1>12 DEF Hand
  <2>2. ASSUME NEW j \in Jobs, j = Hand(h) PROVE TryChange(h, j)
    <3>1. CASE lease = g
      BY <1>2, <1>3, <1>7, <3>1 DEF TryChange, Calm, Behind
    <3>2. CASE lease # g /\ j # i
      BY <1>3, <1>7, <3>2 DEF TryChange, Slips
    <3>3. CASE lease # g /\ j = i
      <4>1. ~Behind(h)'
        BY <1>2, <2>1, <2>2, <3>3 DEF Behind, Waits
      <4> QED BY <1>3, <1>7, <3>3, <4>1 DEF TryChange, Strays
    <3> QED BY <3>1, <3>2, <3>3
  <2> QED BY <2>1, <2>2
<1>13. ListBound(g)'
  <2>1. attempts[i] \in 0 .. MaxRetries + 1 + Mishaps
    BY FewAttempts DEF AttemptsInv
  <2> QED BY <1>3, <1>4, <2>1 DEF ListBound
<1>14. \A h \in Runners \ {g} : UNCHANGED <<cur[h], todo[h]>> /\ Mishaps' \in {Mishaps, Mishaps + 1}
  BY <1>2, <1>3
<1> QED BY <1>10, <1>11, <1>12, <1>13, <1>14, StepBounded

\* A process is about to list stale jobs: only without the lease it strays.
LEMMA ScansBounded ==
    ASSUME RowTypes, RunnerTypes, ListsInPlace, AttemptsInv, NEW g \in Runners,
           ReconcileDue(g) \/ Acquire(g)
    PROVE  AttemptsInv'
<1> USE DEF jobVars, envVars
<1>1. /\ pc[g] \in {"idle", "standby"} /\ pc'[g] = "scan"
      /\ \A h \in Runners \ {g} : pc'[h] = pc[h]
      /\ UNCHANGED <<status, attempts, todo, cur, crashes>>
  BY DEF ReconcileDue, Acquire, Goto, RunnerTypes
<1>2. /\ Mishaps \in Nat
      /\ \/ Mishaps' = Mishaps /\ lease' = g /\ lease \in {g, NoOne}
         \/ Mishaps' = Mishaps + 1 /\ lease' = lease /\ lease # g
  BY DEF ReconcileDue, Acquire, Overtime, Mishaps, RunnerTypes
<1>3. Hand(g) = NoOne /\ todo[g] = {}
  BY <1>1 DEF RunnerTypes, Driving, Leading, ListsInPlace
<1>4. /\ \A h \in Runners, j \in Jobs : Holds(h, j)' <=> Holds(h, j)
      /\ \A h \in Runners, j \in Jobs : Fails(h, j)' <=> Fails(h, j)
      /\ \A j \in Jobs : ~Holds(g, j) /\ ~Fails(g, j)
  BY <1>1, <1>3 DEF Holds, Fails, Hand
<1>5. ASSUME NEW j \in Jobs
      PROVE  /\ lease' = g => Straying(j)' \subseteq Straying(j)
             /\ Straying(j)' \subseteq Straying(j) \cup {g}
  BY <1>1, <1>2, <1>4 DEF Straying
<1>6. ASSUME NEW j \in Jobs PROVE Open(j)' => Open(j)
  BY <1>1, <1>2, <1>4 DEF Open, Waits
<1>7. ASSUME NEW j \in Jobs PROVE Calm(j) \/ Strays(j)
  BY <1>2, <1>5 DEF Calm, Strays
<1>8. ASSUME NEW h \in Runners, pc'[h] \in Trying
      PROVE  pc[h] \in Trying /\ cur'[h] = cur[h] /\ (Behind(h)' => Behind(h))
  <2>1. h # g
    BY <1>1, <1>8 DEF Trying
  <2> QED BY <1>1, <1>2, <1>8, <2>1 DEF Behind, Waits, Hand
<1>9. \A h \in Runners : UNCHANGED <<cur[h], todo[h]>> /\ Mishaps' \in {Mishaps, Mishaps + 1}
  BY <1>1, <1>2
<1> QED BY <1>1, <1>6, <1>7, <1>8, <1>9, StepBounded DEF JobChange, TryChange

\* The lease runs out: its holder, if it is at work, strays from here on.
LEMMA ExpiryBounded ==
    ASSUME RowTypes, RunnerTypes, ListsInPlace, AttemptsInv, LeaseExpires
    PROVE  AttemptsInv'
<1> USE DEF jobVars, runnerVars
<1>1. PICK g \in Runners : lease = g
  BY DEF LeaseExpires, RunnerTypes
<1>2. /\ lease' = NoOne /\ UNCHANGED <<status, attempts, pc, todo, cur>>
      /\ Mishaps \in Nat
      /\ \/ Mishaps' = Mishaps /\ pc[g] \notin Leading
         \/ Mishaps' = Mishaps + 1
  BY <1>1 DEF LeaseExpires, Mishaps, RunnerTypes
<1>3. pc[g] \notin Leading => pc[g] # "scan" /\ \A j \in Jobs : ~Holds(g, j) /\ ~Fails(g, j)
  BY DEF RunnerTypes, ListsInPlace, Leading, Driving, Holds, Fails
<1>4. /\ \A h \in Runners, j \in Jobs : Holds(h, j)' <=> Holds(h, j)
      /\ \A h \in Runners, j \in Jobs : Fails(h, j)' <=> Fails(h, j)
  BY <1>2 DEF Holds, Fails, Hand
<1>5. ASSUME NEW j \in Jobs
      PROVE  /\ pc[g] \notin Leading \/ Fails(g, j) => Straying(j)' \subseteq Straying(j)
             /\ Straying(j)' \subseteq Straying(j) \cup {g}
  BY <1>1, <1>2, <1>3, <1>4 DEF Straying
<1>6. ASSUME NEW j \in Jobs, ~Fails(g, j) PROVE Open(j)' => Open(j)
  BY <1>1, <1>2, <1>6 DEF Open, Waits
<1>7. ASSUME NEW j \in Jobs PROVE JobChange(j)
  <2>1. CASE Mishaps' = Mishaps /\ pc[g] \notin Leading
    BY <1>3, <1>5, <1>6, <2>1 DEF JobChange, Calm
  <2>2. CASE Mishaps' = Mishaps + 1 /\ Fails(g, j)
    BY <1>5, <2>2 DEF JobChange, Slips
  <2>3. CASE Mishaps' = Mishaps + 1 /\ ~Fails(g, j)
    BY <1>5, <1>6, <2>3 DEF JobChange, Strays
  <2> QED BY <1>2, <2>1, <2>2, <2>3
<1>8. ASSUME NEW h \in Runners PROVE ~Behind(h)'
  BY <1>2 DEF Behind
<1>9. ASSUME NEW h \in Runners, NEW j \in Jobs PROVE TryChange(h, j)
  <2>1. CASE Mishaps' = Mishaps /\ pc[g] \notin Leading
    BY <1>5, <1>8, <2>1 DEF TryChange, Calm
  <2>2. CASE Mishaps' = Mishaps + 1
    BY <1>5, <1>8, <2>2 DEF TryChange, Strays
  <2> QED BY <1>2, <2>1, <2>2
<1>10. \A h \in Runners : /\ UNCHANGED <<pc[h], cur[h], todo[h]>>
                          /\ Mishaps' \in {Mishaps, Mishaps + 1}
  BY <1>2
<1> QED BY <1>2, <1>7, <1>9, <1>10, StepBounded

\* A process is restarted: a mishap after which it holds nothing.
LEMMA RestartBounded ==
    ASSUME RowTypes, RunnerTypes, AttemptsInv, NEW g \in Runners, Restart(g)
    PROVE  AttemptsInv'
<1>1. /\ pc'[g] = "standby" /\ todo'[g] = {} /\ cur'[g] = NoJob
      /\ \A h \in Runners \ {g} : UNCHANGED <<pc[h], todo[h], cur[h]>>
      /\ lease' = lease \/ (lease = g /\ lease' = NoOne)
      /\ UNCHANGED <<status, attempts>>
      /\ Mishaps \in Nat /\ Mishaps' = Mishaps + 1
  BY DEF Restart, Leave, Goto, RunnerTypes, jobVars, Mishaps
<1>2. /\ \A j \in Jobs : ~Holds(g, j)'
      /\ ListBound(g)'
  BY <1>1 DEF Holds, Hand, NoJob, ListBound
<1>3. \A h \in Runners \ {g}, j \in Jobs : (Holds(h, j)' <=> Holds(h, j)) /\ (Fails(h, j)' <=> Fails(h, j))
  BY <1>1 DEF Holds, Fails, Hand
<1>4. ASSUME NEW j \in Jobs PROVE Straying(j)' \subseteq Straying(j)
  BY <1>1, <1>2, <1>3 DEF Straying
<1>5. ASSUME NEW j \in Jobs PROVE Slips(j)
  BY <1>1, <1>4 DEF Slips
<1>6. ASSUME NEW h \in Runners PROVE ListBound(h)' \/ UNCHANGED <<cur[h], todo[h]>>
  BY <1>1, <1>2
<1>7. ASSUME NEW h \in Runners, pc'[h] \in Trying PROVE pc[h] \in Trying /\ cur'[h] = cur[h]
  BY <1>1, <1>7 DEF Trying
<1> QED BY <1>1, <1>5, <1>6, <1>7, StepBounded DEF JobChange, TryChange

\* No process moves: the API creates, ends or deletes a job, or the site changes.
LEMMA StillBounded ==
    ASSUME RowTypes, RunnerTypes, AttemptsInv, UNCHANGED <<pc, todo, cur, lease, faults, crashes>>,
           \A j \in Jobs : \/ status'[j] = status[j]
                           \/ status'[j] \notin {"none", "queued", "rendering"}
                           \/ status'[j] = "queued" /\ status[j] = "none",
           \A j \in Jobs : attempts'[j] = attempts[j] \/ attempts'[j] = 0
    PROVE  AttemptsInv'
<1>1. Mishaps \in Nat /\ Mishaps' = Mishaps
  BY DEF Mishaps, RunnerTypes
<1>2. /\ \A h \in Runners, j \in Jobs : Holds(h, j)' <=> Holds(h, j)
      /\ \A h \in Runners, j \in Jobs : Fails(h, j)' <=> Fails(h, j)
      /\ \A h \in Runners : Hand(h)' = Hand(h)
  BY DEF Holds, Fails, Hand
<1>3. ASSUME NEW j \in Jobs PROVE Straying(j)' \subseteq Straying(j)
  BY <1>2 DEF Straying
<1>4. ASSUME NEW j \in Jobs PROVE Waits(j)' => Waits(j)
  BY DEF Waits
<1>5. ASSUME NEW j \in Jobs, attempts'[j] = attempts[j] PROVE Open(j)' => Open(j)
  BY <1>2, <1>4, <1>5 DEF Open
<1>6. ASSUME NEW j \in Jobs, attempts'[j] = 0 PROVE JobBound(j)'
  <2>1. attempts'[j] \in 0 .. MaxRetries /\ JobBound(j)
    BY <1>6 DEF AttemptsInv
  <2> QED BY <1>1, <1>3, <2>1, JobReset
<1>7. ASSUME NEW j \in Jobs PROVE JobBound(j)' \/ (attempts'[j] = attempts[j] /\ JobChange(j))
  BY <1>1, <1>3, <1>5, <1>6 DEF JobChange, Calm
<1>8. ASSUME NEW h \in Runners, NEW j \in Jobs, j = Hand(h) PROVE TryChange(h, j)
  BY <1>1, <1>2, <1>3, <1>4, <1>8 DEF TryChange, Calm, Behind
<1> QED BY <1>1, <1>7, <1>8, StepBounded

\* AttemptsInv is inductive.
LEMMA AttemptsStep == RunnerInv /\ AttemptsInv /\ [Next]_vars => AttemptsInv'
<1> SUFFICES ASSUME RowTypes, RunnerTypes, ListsInPlace, AttemptsInv, [Next]_vars
             PROVE  AttemptsInv'
  BY DEF RunnerInv
<1> USE DEF jobVars, runnerVars, envVars
<1>1. ASSUME NEW j \in Jobs, Create(j) \/ CancelRead(j) PROVE AttemptsInv'
  BY <1>1, StillBounded DEF Create, CancelRead, RowTypes
<1>2. ASSUME NEW j \in Jobs, CancelWrite(j) PROVE AttemptsInv'
  BY <1>2, StillBounded DEF CancelWrite, RowTypes
<1>3. CASE Outside
  <2>1. CASE LeaseExpires
    BY <2>1, ExpiryBounded
  <2>2. CASE ~LeaseExpires
    BY <1>3, <2>2, StillBounded DEF Outside, RenderEnds, GoesStale, TimeRunsOut, SiteChanges, vars
  <2> QED BY <2>1, <2>2
<1>4. ASSUME NEW g \in Runners, Quietly(g) PROVE AttemptsInv'
  BY <1>4, ListsBounded, CountsBounded, DrivesBounded, ScansBounded, RestartBounded DEF Quietly
<1>5. ASSUME NEW g \in Runners,
             Claim(g) \/ CompleteJob(g) \/ Requeue(g) \/ FailJob(g) \/ MarkCancelled(g)
      PROVE  AttemptsInv'
  BY <1>5, ClaimBounded, EndsBounded, RequeueBounded
<1> QED BY <1>1, <1>2, <1>3, <1>4, <1>5, StepKinds

\* Nothing was attempted yet.
LEMMA AttemptsInit == Init => AttemptsInv
<1> SUFFICES ASSUME Init PROVE AttemptsInv
  OBVIOUS
<1>1. Mishaps = 0
  BY DEF Init, Mishaps
<1>2. \A j \in Jobs : Straying(j) = {} /\ Over(attempts[j]) = 0
  BY DEF Init, Straying, Holds, Hand, NoJob, Over
<1>3. \A j \in Jobs : JobBound(j)
  BY <1>1, <1>2, FS_EmptySet DEF JobBound
<1>4. \A g \in Runners : TryBound(g) /\ ListBound(g)
  BY <1>1 DEF Init, TryBound, Trying, ListBound, NoJob
<1> QED BY <1>3, <1>4 DEF AttemptsInv

\* TypeOK for any number of processes, jobs, retries, crashes and lost leases: a
\* shot is attempted once more than its retries allow, and once more for each process
\* that left its job in hand or worked on it without the lease, and no more.
THEOREM AttemptsBounded == Spec => []TypeOK
<1>1. Spec => []RunnerInv
  BY RunnerInvInit, RunnerInvStep, PTL DEF Spec
<1>2. Spec => []AttemptsInv
  BY <1>1, AttemptsInit, AttemptsStep, PTL DEF Spec
<1>3. RunnerInv /\ AttemptsInv => TypeOK
  <2> SUFFICES ASSUME RunnerInv, AttemptsInv PROVE TypeOK
    OBVIOUS
  <2> USE DEF RunnerInv
  <2>1. \A j \in Jobs : attempts[j] \in 0 .. MaxRetries + 1 + Mishaps
    BY FewAttempts DEF AttemptsInv
  <2>2. attempts \in [Jobs -> 0 .. MaxRetries + 1 + faults + crashes]
    BY <2>1 DEF RowTypes, RunnerTypes, Mishaps
  <2>3. \A g \in Runners : cur[g].attempts \in 0 .. MaxRetries + 1 + faults + crashes
    BY DEF AttemptsInv, ListBound, RunnerTypes, Hands, Mishaps
  <2> QED BY <2>2, <2>3 DEF TypeOK, RowTypes, RunnerTypes, Statuses, Saids
<1> QED BY <1>1, <1>2, <1>3, PTL

=============================================================================
