--------------------------------- MODULE Dlp ---------------------------------
(***************************************************************************)
(* Data loss prevention: every worker process scans the requests it has    *)
(* served and raises alerts (services/dlp_worker.py), and every worker     *)
(* process runs the loop that mails the digest of new alerts.              *)
(*                                                                         *)
(* A process has a bounded queue of requests, a pool of consumers that a   *)
(* supervisor resizes, and a table of values seen lately (_dedup_seen): a  *)
(* value seen again within the window raises no second alert.  Alerts and  *)
(* the digest's watermark (dlp.digest.last_sent_at) are rows that all      *)
(* processes share.                                                        *)
(*                                                                         *)
(* Value[r] is the (user, masked value-set) the scanners find in request   *)
(* r, or Clean.  All severities are digest severities: the mail sent at    *)
(* once for others and its budget are left out.  Time is counted in ticks, *)
(* Second ticks to the second: a watermark has microseconds, the column    *)
(* scanned_at has whole seconds.                                           *)
(***************************************************************************)
EXTENDS Integers, Sequences, FiniteSets

CONSTANTS
    Workers,        \* worker processes
    Requests,       \* requests served
    Server,         \* the process that serves each request
    Value,          \* what the scanners find in each request
    Clean,          \* nothing
    QueueMax,       \* maxsize of _dlp_queue
    MaxConsumers,   \* DLP_WORKER_MAX_CONCURRENCY
    Interval,       \* ticks between two digests
    Second,         \* ticks in a second
    MaxClock,       \* bound on the ticks
    MaxFaults       \* bound on crashes and failing calls

ASSUME DlpAssumption ==
    /\ IsFiniteSet(Requests)
    /\ QueueMax \in Nat \ {0}
    /\ MaxConsumers \in Nat \ {0}
    /\ Interval \in Nat \ {0}
    /\ Second \in Nat \ {0}
    /\ MaxClock \in Nat
    /\ MaxFaults \in Nat
    /\ Server \in [Requests -> Workers]
    /\ DOMAIN Value = Requests

VARIABLES
    clock,      \* ticks gone by
    offered,    \* requests handed to enqueue_for_dlp
    queue,      \* _dlp_queue of each process
    consumers,  \* number of consumers of each process
    task,       \* what each consumer does: step, request and timestamp
    seen,       \* _dedup_seen of each process, the entries inside the window
    alerts,     \* committed rows: request -> scanned_at, NoAlert if none
    mark,       \* the watermark, Never before the first digest cycle
    digest,     \* digest loop of each process
    faults,     \* crashes and failures so far
    forgone,    \* history: values marked seen by a scan that came to nothing
    late,       \* history: alerts no digest window was open for when committed
    dropped,    \* history: alerts whose digest was lost after its claim, or whose
                \* window a watermark written back closed
    reported,   \* history: alert -> the "now" of the digest that mailed it
    rewound     \* history: a restored watermark undid another process's claim

vars == <<clock, offered, queue, consumers, task, seen, alerts, mark, digest,
          faults, forgone, late, dropped, reported, rewound>>

scanVars == <<offered, queue, consumers, task, seen, forgone>>

digestVars == <<mark, digest, dropped, reported, rewound>>

Slots == 1 .. MaxConsumers

NoAlert == -1
Never == -1

Free == [step |-> "free"]

Asleep == [step |-> "asleep"]

Init ==
    /\ clock = 0
    /\ offered = {}
    /\ queue = [w \in Workers |-> <<>>]
    /\ consumers = [w \in Workers |-> 1]
    /\ task = [w \in Workers |-> [c \in Slots |-> Free]]
    /\ seen = [w \in Workers |-> {}]
    /\ alerts = [r \in Requests |-> NoAlert]
    /\ mark = Never
    /\ digest = [w \in Workers |-> Asleep]
    /\ faults = 0
    /\ forgone = [w \in Workers |-> {}]
    /\ late = {}
    /\ dropped = {}
    /\ reported = [r \in Requests |-> Never]
    /\ rewound = FALSE

-----------------------------------------------------------------------------
(* Scanning.                                                               *)

\* Mutant: the queue has no bound.
EnqueueUnbounded(w, r) ==
    /\ w = Server[r]
    /\ r \notin offered
    /\ offered' = offered \cup {r}
    /\ queue' = [queue EXCEPT ![w] = Append(@, r)]
    /\ UNCHANGED <<clock, consumers, task, seen, alerts, faults, forgone, late>>
    /\ UNCHANGED digestVars

\* enqueue_for_dlp: a full queue drops the request.
Enqueue(w, r) ==
    /\ w = Server[r]
    /\ r \notin offered
    /\ offered' = offered \cup {r}
    /\ queue' = IF Len(queue[w]) < QueueMax
                THEN [queue EXCEPT ![w] = Append(@, r)]
                ELSE queue
    /\ UNCHANGED <<clock, consumers, task, seen, alerts, faults, forgone, late>>
    /\ UNCHANGED digestVars

\* _consume_loop takes the next request.
Take(w, c) ==
    /\ c <= consumers[w]
    /\ task[w][c] = Free
    /\ queue[w] # <<>>
    /\ task' = [task EXCEPT ![w][c] = [step |-> "scanning", req |-> Head(queue[w])]]
    /\ queue' = [queue EXCEPT ![w] = Tail(@)]
    /\ UNCHANGED <<clock, offered, consumers, seen, alerts, faults, forgone, late>>
    /\ UNCHANGED digestVars

\* Mutant: the value is marked as seen before the scanners' answer is looked at.
MarkAlways(w, c) ==
    LET r == task[w][c].req IN
    /\ task[w][c].step = "scanning"
    /\ seen' = [seen EXCEPT ![w] = @ \cup {Value[r]}]
    /\ \E found \in BOOLEAN :
          task' = [task EXCEPT ![w][c] =
                     IF Value[r] = Clean \/ Value[r] \in seen[w] \/ ~found
                     THEN Free ELSE [step |-> "marked", req |-> r]]
    /\ UNCHANGED <<clock, offered, queue, consumers, alerts, faults, forgone, late>>
    /\ UNCHANGED digestVars

\* _process_one up to the de-duplication: the scanners answer, and a value that is
\* not a repeat is marked as seen before its alert exists.  Nothing is found in a
\* clean request, and in any request when DLP is off or its scanners fail.
Mark(w, c) ==
    LET r == task[w][c].req IN
    /\ task[w][c].step = "scanning"
    /\ \/ /\ task' = [task EXCEPT ![w][c] = Free]
          /\ UNCHANGED seen
       \/ /\ Value[r] \notin seen[w] \cup {Clean}
          /\ seen' = [seen EXCEPT ![w] = @ \cup {Value[r]}]
          /\ task' = [task EXCEPT ![w][c] = [step |-> "marked", req |-> r]]
    /\ UNCHANGED <<clock, offered, queue, consumers, alerts, faults, forgone, late>>
    /\ UNCHANGED digestVars

\* create_dlp_alert: the insert takes the server's time, in whole seconds.
Insert(w, c) ==
    /\ task[w][c].step = "marked"
    /\ task' = [task EXCEPT ![w][c] =
                  [step |-> "inserted", req |-> task[w][c].req,
                   at |-> (clock \div Second) * Second]]
    /\ UNCHANGED <<clock, offered, queue, consumers, seen, alerts, faults, forgone, late>>
    /\ UNCHANGED digestVars

\* A digest still to come selects an alert with this timestamp.
Awaited(at) ==
    \/ mark = Never
    \/ at > mark
    \/ \E w \in Workers : digest[w].step = "claimed" /\ at > digest[w].last

\* The alert's transaction commits.
Commit(w, c) ==
    LET t == task[w][c] IN
    /\ t.step = "inserted"
    /\ alerts' = [alerts EXCEPT ![t.req] = t.at]
    /\ late' = IF Awaited(t.at) THEN late ELSE late \cup {t.req}
    /\ task' = [task EXCEPT ![w][c] = Free]
    /\ UNCHANGED <<clock, offered, queue, consumers, seen, faults, forgone>>
    /\ UNCHANGED digestVars

\* The values a set of tasks marked without getting to the alert.
Marked(tasks) ==
    {Value[t.req] : t \in {u \in tasks : u.step \in {"marked", "inserted"}}}

\* An exception in _process_one: logged, the request is not scanned again and the
\* mark stays.
Fail(w, c) ==
    /\ faults < MaxFaults
    /\ task[w][c] # Free
    /\ faults' = faults + 1
    /\ task' = [task EXCEPT ![w][c] = Free]
    /\ forgone' = [forgone EXCEPT ![w] = @ \cup Marked({task[w][c]})]
    /\ UNCHANGED <<clock, offered, queue, consumers, seen, alerts, late>>
    /\ UNCHANGED digestVars

\* Mutant: the configured size is not clamped.
ResizeUnclamped(w) ==
    \E target \in (0 .. MaxConsumers) \ {consumers[w]} :
       LET stopped == (target + 1) .. consumers[w] IN
       /\ consumers' = [consumers EXCEPT ![w] = target]
       /\ task' = [task EXCEPT ![w] = [c \in Slots |->
                     IF c \in stopped THEN Free ELSE task[w][c]]]
       /\ forgone' = [forgone EXCEPT ![w] = @ \cup Marked({task[w][c] : c \in stopped})]
       /\ UNCHANGED <<clock, offered, queue, seen, alerts, faults, late>>
       /\ UNCHANGED digestVars

\* dlp_worker_loop: the pool follows the configured size, clamped to 1 ..
\* MaxConsumers; the newest consumers are cancelled with what they were scanning.
Resize(w) ==
    \E target \in Slots \ {consumers[w]} :
       LET stopped == (target + 1) .. consumers[w] IN
       /\ consumers' = [consumers EXCEPT ![w] = target]
       /\ task' = [task EXCEPT ![w] = [c \in Slots |->
                     IF c \in stopped THEN Free ELSE task[w][c]]]
       /\ forgone' = [forgone EXCEPT ![w] = @ \cup Marked({task[w][c] : c \in stopped})]
       /\ UNCHANGED <<clock, offered, queue, seen, alerts, faults, late>>
       /\ UNCHANGED digestVars

\* The window of a seen value ends.
Forget(w) ==
    /\ \E v \in seen[w] :
          /\ seen' = [seen EXCEPT ![w] = @ \ {v}]
          /\ forgone' = [forgone EXCEPT ![w] = @ \ {v}]
    /\ UNCHANGED <<clock, offered, queue, consumers, task, alerts, faults, late>>
    /\ UNCHANGED digestVars

-----------------------------------------------------------------------------
(* The digest.                                                             *)

\* Mutant: an alert stamped at the watermark itself is selected again.
SinceInclusive(last) == {r \in Requests : alerts[r] # NoAlert /\ alerts[r] >= last}

\* The committed alerts a digest selects: no upper bound.
Since(last) == {r \in Requests : alerts[r] # NoAlert /\ alerts[r] > last}

\* _maybe_send_digest before the first report: the watermark is set, and what was
\* alerted so far is not mailed.
FirstCycle(w) ==
    /\ digest[w] = Asleep
    /\ mark = Never
    /\ mark' = clock
    /\ late' = late \cup {r \in Requests : alerts[r] # NoAlert /\ alerts[r] <= clock}
    /\ UNCHANGED <<clock, alerts, digest, faults, dropped, reported, rewound>>
    /\ UNCHANGED scanVars

\* _maybe_send_digest reads the watermark and finds a report due.
Due(w) ==
    /\ digest[w] = Asleep
    /\ mark # Never
    /\ clock - mark >= Interval
    /\ digest' = [digest EXCEPT ![w] = [step |-> "due", last |-> mark, now |-> clock]]
    /\ UNCHANGED <<clock, alerts, mark, faults, late, dropped, reported, rewound>>
    /\ UNCHANGED scanVars

\* _claim_digest_window: a compare-and-set; the loser stands down.
Claim(w) ==
    LET d == digest[w] IN
    /\ d.step = "due"
    /\ \/ /\ mark = d.last
          /\ mark' = d.now
          /\ digest' = [digest EXCEPT ![w] = [d EXCEPT !.step = "claimed"]]
       \/ /\ mark # d.last
          /\ digest' = [digest EXCEPT ![w] = Asleep]
          /\ UNCHANGED mark
    /\ UNCHANGED <<clock, alerts, faults, late, dropped, reported, rewound>>
    /\ UNCHANGED scanVars

\* _digest_alerts_since; with no alert the cycle is over.
Gather(w) ==
    LET d == digest[w]
        batch == Since(d.last)
    IN
    /\ d.step = "claimed"
    /\ digest' = [digest EXCEPT ![w] =
                    IF batch = {} THEN Asleep
                    ELSE [step |-> "sending", last |-> d.last, now |-> d.now,
                          batch |-> batch]]
    /\ UNCHANGED <<clock, alerts, mark, faults, late, dropped, reported, rewound>>
    /\ UNCHANGED scanVars

\* _send_digest_email delivers the mail.
Send(w) ==
    LET d == digest[w] IN
    /\ d.step = "sending"
    /\ reported' = [r \in Requests |->
                      IF r \in d.batch /\ reported[r] = Never THEN d.now ELSE reported[r]]
    /\ digest' = [digest EXCEPT ![w] = Asleep]
    /\ UNCHANGED <<clock, alerts, mark, faults, late, dropped, rewound>>
    /\ UNCHANGED scanVars

\* The mail server refuses: send_notification_email logs it, returns 0 and does not
\* raise, so the cycle ends as if the report had been sent.
SendSwallowed(w) ==
    LET d == digest[w] IN
    /\ faults < MaxFaults
    /\ d.step = "sending"
    /\ faults' = faults + 1
    /\ dropped' = dropped \cup d.batch
    /\ digest' = [digest EXCEPT ![w] = Asleep]
    /\ UNCHANGED <<clock, alerts, mark, late, reported, rewound>>
    /\ UNCHANGED scanVars

\* _send_digest_email raises: SMTP is not configured, or a query fails.
SendRaises(w) ==
    /\ faults < MaxFaults
    /\ digest[w].step = "sending"
    /\ faults' = faults + 1
    /\ digest' = [digest EXCEPT ![w].step = "restoring"]
    /\ UNCHANGED <<clock, alerts, mark, late, dropped, reported, rewound>>
    /\ UNCHANGED scanVars

\* Mutant: the claimed watermark is kept.
RestoreNothing(w) ==
    /\ digest[w].step = "restoring"
    /\ digest' = [digest EXCEPT ![w] = Asleep]
    /\ UNCHANGED <<clock, alerts, mark, faults, late, dropped, reported, rewound>>
    /\ UNCHANGED scanVars

\* The previous watermark is written back, whatever the row holds by now: an earlier
\* one reopens windows, a later one closes the window that another process's
\* write-back had reopened.
Restore(w) ==
    LET d == digest[w] IN
    /\ d.step = "restoring"
    /\ mark' = d.last
    /\ rewound' = (rewound \/ mark # d.now)
    /\ dropped' = dropped \cup (Since(mark) \ Since(d.last))
    /\ digest' = [digest EXCEPT ![w] = Asleep]
    /\ UNCHANGED <<clock, alerts, faults, late, reported>>
    /\ UNCHANGED scanVars

\* Writing it back fails too: logged.
RestoreFails(w) ==
    LET d == digest[w] IN
    /\ d.step = "restoring"
    /\ dropped' = dropped \cup d.batch
    /\ digest' = [digest EXCEPT ![w] = Asleep]
    /\ UNCHANGED <<clock, alerts, mark, faults, late, reported, rewound>>
    /\ UNCHANGED scanVars

-----------------------------------------------------------------------------
(* The process dies: its queue, its scans and its digest cycle are gone,   *)
(* the rows stay.                                                          *)

\* The alerts the digest cycle of w had claimed.
Claimed(w) ==
    LET d == digest[w] IN
    CASE d.step = "claimed" -> Since(d.last)
      [] d.step \in {"sending", "restoring"} -> d.batch
      [] OTHER -> {}

Crash(w) ==
    /\ faults < MaxFaults
    /\ faults' = faults + 1
    /\ queue' = [queue EXCEPT ![w] = <<>>]
    /\ consumers' = [consumers EXCEPT ![w] = 1]
    /\ task' = [task EXCEPT ![w] = [c \in Slots |-> Free]]
    /\ seen' = [seen EXCEPT ![w] = {}]
    /\ forgone' = [forgone EXCEPT ![w] = {}]
    /\ digest' = [digest EXCEPT ![w] = Asleep]
    /\ dropped' = dropped \cup Claimed(w)
    /\ UNCHANGED <<clock, offered, alerts, mark, late, reported, rewound>>

Tick ==
    /\ clock < MaxClock
    /\ clock' = clock + 1
    /\ UNCHANGED <<alerts, faults, late>>
    /\ UNCHANGED scanVars
    /\ UNCHANGED digestVars

-----------------------------------------------------------------------------
Next ==
    \/ \E w \in Workers :
          \/ \E r \in Requests : Enqueue(w, r)
          \/ \E c \in Slots : Take(w, c) \/ Mark(w, c) \/ Insert(w, c) \/ Commit(w, c)
                              \/ Fail(w, c)
          \/ Resize(w) \/ Forget(w)
          \/ FirstCycle(w) \/ Due(w) \/ Claim(w) \/ Gather(w)
          \/ Send(w) \/ SendSwallowed(w) \/ SendRaises(w) \/ Restore(w) \/ RestoreFails(w)
          \/ Crash(w)
    \/ Tick

Spec == Init /\ [][Next]_vars

\* A ready task of the event loop runs: the consumer that is never cancelled takes
\* and finishes its scans.
FairSpec ==
    /\ Spec
    /\ \A w \in Workers : WF_vars(Take(w, 1) \/ Mark(w, 1) \/ Insert(w, 1) \/ Commit(w, 1))

-----------------------------------------------------------------------------
(* Properties.                                                             *)

TaskType ==
    {Free}
    \cup [step : {"scanning", "marked"}, req : Requests]
    \cup [step : {"inserted"}, req : Requests, at : 0 .. MaxClock]

DigestType ==
    {Asleep}
    \cup [step : {"due", "claimed"}, last : 0 .. MaxClock, now : 0 .. MaxClock]
    \cup [step : {"sending", "restoring"}, last : 0 .. MaxClock, now : 0 .. MaxClock,
          batch : SUBSET Requests]

\* Types, and: a queue never exceeds its bound, only consumers of the pool scan, and a
\* digest covers a window that is not empty.
TypeOK ==
    /\ clock \in 0 .. MaxClock
    /\ offered \subseteq Requests
    /\ \A w \in Workers :
          /\ Len(queue[w]) <= QueueMax
          /\ \A i \in DOMAIN queue[w] : queue[w][i] \in Requests
          /\ digest[w] # Asleep => digest[w].last < digest[w].now
    /\ consumers \in [Workers -> 0 .. MaxConsumers]
    /\ task \in [Workers -> [Slots -> TaskType]]
    /\ \A w \in Workers, c \in Slots : task[w][c] # Free => c <= consumers[w]
    /\ seen \in [Workers -> SUBSET {Value[r] : r \in Requests}]
    /\ alerts \in [Requests -> 0 .. MaxClock \cup {NoAlert}]
    /\ mark \in 0 .. MaxClock \cup {Never}
    /\ digest \in [Workers -> DigestType]
    /\ faults \in 0 .. MaxFaults
    /\ forgone \in [Workers -> SUBSET {Value[r] : r \in Requests}]
    /\ late \subseteq Requests
    /\ dropped \subseteq Requests
    /\ reported \in [Requests -> 0 .. MaxClock \cup {Never}]
    /\ rewound \in BOOLEAN

\* De-duplication hides a repeat, never the value: a value that suppresses alerts has
\* an alert, or one on its way in the same process; the one exception is a scan that
\* failed or was cancelled by a resize after it had marked the value, and then only
\* until the window ends (_dedup_is_duplicate marks before create_dlp_alert commits).
SuppressionExplained ==
    \A w \in Workers : \A v \in seen[w] \ forgone[w] :
       \E r \in Requests :
          /\ Value[r] = v
          /\ \/ alerts[r] # NoAlert
             \/ \E c \in Slots : task[w][c].step \in {"marked", "inserted"}
                                 /\ task[w][c].req = r

\* No alert is lost between two digests: one that was not mailed is selected by a
\* digest to come or is in the hands of a running one.  The exceptions are named: its
\* window was closed when it was committed (late), or its digest was claimed and then
\* lost to a crash, a refused mail or a failed write-back, or a second write-back
\* closed the window the first had reopened for it (dropped).
MissesExplained ==
    \A r \in Requests :
       (alerts[r] # NoAlert /\ reported[r] = Never /\ r \notin late \cup dropped)
          => \/ Awaited(alerts[r])
             \/ \E w \in Workers : r \in Claimed(w)

\* No alert is mailed in two digests ("what makes a duplicate impossible") unless it
\* was stamped after the window of one of them, as the selection has no upper bound, or a
\* watermark written back over another process's claim reopened the window.
RepeatsExplained ==
    [][\A w \in Workers :
          (digest[w].step = "sending" /\ Send(w)) =>
             \A r \in digest[w].batch :
                \/ reported[r] = Never
                \/ alerts[r] > reported[r] \/ alerts[r] > digest[w].now
                \/ rewound]_vars

\* A request in the queue is taken from it: the pool never shrinks to nothing, so no
\* resize leaves a queue that nobody reads.
QueueDrains ==
    \A w \in Workers, r \in Requests :
       (\E i \in DOMAIN queue[w] : queue[w][i] = r)
          ~> ~(\E i \in DOMAIN queue[w] : queue[w][i] = r)

=============================================================================
