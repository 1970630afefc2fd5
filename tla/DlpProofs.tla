------------------------------ MODULE DlpProofs ------------------------------
(***************************************************************************)
(* What Dlp guarantees for any processes, requests, scanner findings, pool *)
(* and queue sizes, interval and number of faults: a value suppresses no   *)
(* alert it does not have, an alert no digest mails and an alert that two  *)
(* digests mail are the cases the properties name.                         *)
(***************************************************************************)
EXTENDS Dlp, TLAPS

USE DlpAssumption DEF DlpAssumption

-----------------------------------------------------------------------------
(* The inductive invariants.                                               *)

Times == 0 .. MaxClock

Values == {Value[r] : r \in Requests}

ScanTypes ==
    /\ offered \subseteq Requests
    /\ queue \in [Workers -> Seq(Requests)]
    /\ \A w \in Workers : Len(queue[w]) <= QueueMax
    /\ consumers \in [Workers -> Slots]
    /\ task \in [Workers -> [Slots -> TaskType]]
    /\ \A w \in Workers, c \in Slots : task[w][c] # Free => c <= consumers[w]
    /\ seen \in [Workers -> SUBSET Values]
    /\ forgone \in [Workers -> SUBSET Values]

RowTypes ==
    /\ clock \in Times
    /\ faults \in 0 .. MaxFaults
    /\ alerts \in [Requests -> Times \cup {NoAlert}]
    /\ mark \in Times \cup {Never}
    /\ digest \in [Workers -> DigestType]
    /\ late \subseteq Requests
    /\ dropped \subseteq Requests
    /\ reported \in [Requests -> Times \cup {Never}]
    /\ rewound \in BOOLEAN

Types == ScanTypes /\ RowTypes

\* A request is in one place of one process, and until it leaves it has no alert.
Once ==
    /\ \A r \in Requests : alerts[r] # NoAlert => r \in offered
    /\ \A w \in Workers : \A i \in 1 .. Len(queue[w]) :
          /\ queue[w][i] \in offered
          /\ Server[queue[w][i]] = w
          /\ alerts[queue[w][i]] = NoAlert
          /\ \A j \in 1 .. Len(queue[w]) : queue[w][i] = queue[w][j] => i = j
          /\ \A c \in Slots : task[w][c] # Free => task[w][c].req # queue[w][i]
    /\ \A w \in Workers, c \in Slots :
          task[w][c] # Free =>
             /\ task[w][c].req \in offered
             /\ Server[task[w][c].req] = w
             /\ alerts[task[w][c].req] = NoAlert
             /\ \A d \in Slots :
                   (task[w][d] # Free /\ task[w][d].req = task[w][c].req) => c = d

\* A digest's window is not empty, what it mails lies after the window's start, and
\* what was mailed was an alert.
Batches ==
    /\ \A w \in Workers :
          /\ digest[w] # Asleep => digest[w].last < digest[w].now
          /\ digest[w].step \in {"sending", "restoring"} =>
                \A r \in digest[w].batch : alerts[r] > digest[w].last
    /\ \A r \in Requests : reported[r] # Never => alerts[r] # NoAlert

Active(w) == digest[w].step \in {"claimed", "sending", "restoring"}

\* The windows of two digests do not overlap.
Beside(v, w) == digest[v].now <= digest[w].last \/ digest[w].now <= digest[v].last

\* Alert r is mailed by now: before the window of w, or after it with a later stamp.
Outside(r, w) ==
    reported[r] > digest[w].last => /\ reported[r] > digest[w].now
                                    /\ alerts[r] > digest[w].now

\* While no write-back undid a claim, the windows in progress and those of the mails
\* sent do not overlap and end at the watermark at the latest.
Windows ==
    ~rewound =>
       /\ \A r \in Requests : reported[r] <= mark
       /\ \A w \in Workers :
             Active(w) =>
                /\ digest[w].now <= mark
                /\ \A v \in Workers \ {w} : Active(v) => Beside(v, w)
                /\ \A r \in Requests : Outside(r, w)

-----------------------------------------------------------------------------
(* The types.                                                              *)

\* A time in whole seconds is a time, and not a later one.
LEMMA RoundedDown ==
    ASSUME NEW n \in Nat, NEW s \in Nat \ {0}
    PROVE  (n \div s) * s \in 0 .. n
<1>1. s * (n \div s) \in 0 .. n /\ n \div s \in Nat
  OBVIOUS
<1>2. (n \div s) * s = s * (n \div s)
  BY <1>1
<1> QED BY <1>1, <1>2

\* A task that is not free has a request.
LEMMA TaskFacts ==
    ASSUME NEW t \in TaskType
    PROVE  /\ t # Free => t.req \in Requests
           /\ t.step \in {"scanning", "marked", "inserted"} => t # Free
           /\ t.step = "inserted" => t.at \in Times
BY DEF TaskType, Free, Times

LEMMA ScanTypesInit == Init => ScanTypes
BY DEF Init, ScanTypes, Slots, TaskType, Free, Values

\* The type of Mark, Insert, Commit and Fail: one task changes.
LEMMA OneTask ==
    ASSUME ScanTypes, NEW w \in Workers, NEW c \in Slots, NEW t \in TaskType,
           task[w][c] # Free, task' = [task EXCEPT ![w][c] = t],
           UNCHANGED <<offered, queue, consumers>>,
           seen' \in [Workers -> SUBSET Values], forgone' \in [Workers -> SUBSET Values]
    PROVE  ScanTypes'
<1>1. c <= consumers[w]
  BY DEF ScanTypes
<1>2. task' \in [Workers -> [Slots -> TaskType]]
  BY DEF ScanTypes
<1>3. \A v \in Workers, d \in Slots : task'[v][d] # Free => d <= consumers[v]
  BY <1>1 DEF ScanTypes
<1> QED BY <1>2, <1>3 DEF ScanTypes

\* The values of some tasks are values.
LEMMA MarkedValues ==
    ASSUME NEW S, S \subseteq TaskType
    PROVE  Marked(S) \subseteq Values
<1>1. \A t \in S : t.step \in {"marked", "inserted"} => t.req \in Requests
  BY TaskFacts
<1> QED BY <1>1 DEF Marked, Values

\* Every step keeps the types of the scanning, one case per action.
LEMMA ScanTypesStep == ASSUME Types, [Next]_vars PROVE ScanTypes'
<1> USE DEF Types
<1>1. ASSUME NEW w \in Workers, NEW r \in Requests, Enqueue(w, r) PROVE ScanTypes'
  <2>1. queue' \in [Workers -> Seq(Requests)] /\ \A v \in Workers : Len(queue'[v]) <= QueueMax
    BY <1>1 DEF Enqueue, ScanTypes
  <2> QED BY <1>1, <2>1 DEF Enqueue, ScanTypes
<1>2. ASSUME NEW w \in Workers, NEW c \in Slots, Take(w, c) PROVE ScanTypes'
  <2>1. queue[w] \in Seq(Requests) /\ queue[w] # <<>>
    BY <1>2 DEF Take, ScanTypes
  <2>2. /\ Head(queue[w]) \in Requests /\ Tail(queue[w]) \in Seq(Requests)
        /\ Len(Tail(queue[w])) <= Len(queue[w])
    BY <2>1
  <2> DEFINE t == [step |-> "scanning", req |-> Head(queue[w])]
  <2>3. t \in TaskType
    BY <2>2 DEF TaskType
  <2> HIDE DEF t
  <2>4. /\ queue' \in [Workers -> Seq(Requests)]
        /\ \A v \in Workers : Len(queue'[v]) <= QueueMax
    BY <1>2, <2>2 DEF Take, ScanTypes
  <2>5. task' = [task EXCEPT ![w][c] = t] /\ c <= consumers[w]
    BY <1>2 DEF Take, t
  <2>6. /\ task' \in [Workers -> [Slots -> TaskType]]
        /\ \A v \in Workers, d \in Slots : task'[v][d] # Free => d <= consumers[v]
    BY <2>3, <2>5 DEF ScanTypes
  <2> QED BY <1>2, <2>4, <2>6 DEF Take, ScanTypes
<1>3. ASSUME NEW w \in Workers, NEW c \in Slots, Mark(w, c) PROVE ScanTypes'
  <2>1. task[w][c] \in TaskType /\ task[w][c] # Free /\ task[w][c].req \in Requests
    BY <1>3, TaskFacts DEF Mark, ScanTypes
  <2>2. PICK t \in TaskType : task' = [task EXCEPT ![w][c] = t]
    BY <1>3, <2>1 DEF Mark, TaskType
  <2>3. Value[task[w][c].req] \in Values
    BY <2>1 DEF Values
  <2>4. \/ seen' = seen
        \/ seen' = [seen EXCEPT ![w] = @ \cup {Value[task[w][c].req]}]
    BY <1>3 DEF Mark
  <2>5. seen' \in [Workers -> SUBSET Values]
    <3>1. seen[w] \cup {Value[task[w][c].req]} \subseteq Values
      BY <2>3 DEF ScanTypes
    <3> QED BY <2>4, <3>1 DEF ScanTypes
  <2> QED BY <1>3, <2>1, <2>2, <2>5, OneTask DEF Mark, ScanTypes
<1>4. ASSUME NEW w \in Workers, NEW c \in Slots, Insert(w, c) PROVE ScanTypes'
  <2>1. task[w][c] \in TaskType /\ task[w][c] # Free /\ task[w][c].req \in Requests
    BY <1>4, TaskFacts DEF Insert, ScanTypes
  <2>2. (clock \div Second) * Second \in Times
    BY RoundedDown DEF RowTypes, Times
  <2>3. PICK t \in TaskType : task' = [task EXCEPT ![w][c] = t]
    BY <1>4, <2>1, <2>2 DEF Insert, TaskType, Times
  <2> QED BY <1>4, <2>1, <2>3, OneTask DEF Insert, ScanTypes
<1>5. ASSUME NEW w \in Workers, NEW c \in Slots, Commit(w, c) PROVE ScanTypes'
  <2>1. task[w][c] # Free /\ Free \in TaskType
    BY <1>5, TaskFacts DEF Commit, ScanTypes, TaskType
  <2> QED BY <1>5, <2>1, OneTask DEF Commit, ScanTypes
<1>6. ASSUME NEW w \in Workers, NEW c \in Slots, Fail(w, c) PROVE ScanTypes'
  <2>1. task[w][c] # Free /\ Free \in TaskType /\ {task[w][c]} \subseteq TaskType
    BY <1>6 DEF Fail, ScanTypes, TaskType
  <2>2. Marked({task[w][c]}) \subseteq Values
    BY <2>1, MarkedValues
  <2>3. forgone' \in [Workers -> SUBSET Values]
    BY <1>6, <2>2 DEF Fail, ScanTypes
  <2> QED BY <1>6, <2>1, <2>3, OneTask DEF Fail, ScanTypes
<1>7. ASSUME NEW w \in Workers, Resize(w) PROVE ScanTypes'
  <2>1. PICK target \in Slots \ {consumers[w]} :
          LET stopped == (target + 1) .. consumers[w] IN
          /\ consumers' = [consumers EXCEPT ![w] = target]
          /\ task' = [task EXCEPT ![w] = [c \in Slots |->
                        IF c \in stopped THEN Free ELSE task[w][c]]]
          /\ forgone' = [forgone EXCEPT ![w] = @ \cup Marked({task[w][c] : c \in stopped})]
    BY <1>7 DEF Resize
  <2> DEFINE stopped == (target + 1) .. consumers[w]
  <2>2. stopped \subseteq Slots
    BY DEF ScanTypes, Slots
  <2>3. {task[w][c] : c \in stopped} \subseteq TaskType
    BY <2>2 DEF ScanTypes
  <2>4. Marked({task[w][c] : c \in stopped}) \subseteq Values
    BY <2>3, MarkedValues
  <2>5. forgone' \in [Workers -> SUBSET Values]
    BY <2>1, <2>4 DEF ScanTypes
  <2>6. consumers' \in [Workers -> Slots] /\ task' \in [Workers -> [Slots -> TaskType]]
    BY <2>1 DEF ScanTypes, TaskType
  <2>7. \A v \in Workers, c \in Slots : task'[v][c] # Free => c <= consumers'[v]
    BY <2>1 DEF ScanTypes, Slots
  <2>8. UNCHANGED <<offered, queue, seen>>
    BY <1>7 DEF Resize
  <2> QED BY <2>5, <2>6, <2>7, <2>8 DEF ScanTypes
<1>8. ASSUME NEW w \in Workers, Forget(w) PROVE ScanTypes'
  BY <1>8 DEF Forget, ScanTypes
<1>9. ASSUME NEW w \in Workers, Crash(w) PROVE ScanTypes'
  BY <1>9 DEF Crash, ScanTypes, TaskType, Slots
<1>10. CASE UNCHANGED scanVars
  BY <1>10 DEF ScanTypes, scanVars
<1> QED BY <1>1, <1>2, <1>3, <1>4, <1>5, <1>6, <1>7, <1>8, <1>9, <1>10
        DEF Next, vars, scanVars, FirstCycle, Due, Claim, Gather, Send, SendSwallowed,
            SendRaises, Restore, RestoreFails, Tick

\* A digest that is not asleep has a window.
LEMMA DigestFacts ==
    ASSUME NEW d \in DigestType
    PROVE  /\ d # Asleep => d.last \in Times /\ d.now \in Times
           /\ d.step \in {"due", "claimed", "sending", "restoring"} <=> d # Asleep
           /\ d.step \in {"sending", "restoring"} => d.batch \subseteq Requests
           /\ d = Asleep <=> d.step = "asleep"
BY DEF DigestType, Asleep, Times

\* What a digest selects.
LEMMA SinceFacts ==
    ASSUME NEW n
    PROVE  /\ Since(n) \subseteq Requests
           /\ \A r \in Requests : r \in Since(n) <=> (alerts[r] # NoAlert /\ alerts[r] > n)
BY DEF Since

LEMMA RowTypesInit == Init => RowTypes
<1> SUFFICES ASSUME Init PROVE RowTypes
  OBVIOUS
<1>1. digest \in [Workers -> DigestType]
  BY DEF Init, DigestType
<1>2. 0 \in Times /\ 0 \in 0 .. MaxFaults
  BY DEF Times
<1> QED BY <1>1, <1>2 DEF Init, RowTypes

\* Every step keeps the types of the rows and the digests.
LEMMA RowTypesStep == ASSUME Types, [Next]_vars PROVE RowTypes'
<1> USE DEF Types
<1>1. ASSUME NEW w \in Workers, NEW c \in Slots, Commit(w, c) PROVE RowTypes'
  <2>1. task[w][c] \in TaskType /\ task[w][c].step = "inserted"
    BY <1>1 DEF Commit, ScanTypes
  <2>2. task[w][c].req \in Requests /\ task[w][c].at \in Times
    BY <2>1, TaskFacts
  <2> QED BY <1>1, <2>2 DEF Commit, RowTypes, digestVars
<1>2. ASSUME NEW w \in Workers, FirstCycle(w) PROVE RowTypes'
  BY <1>2 DEF FirstCycle, RowTypes
<1>3. ASSUME NEW w \in Workers, Due(w) PROVE RowTypes'
  <2>1. PICK d \in DigestType : digest' = [digest EXCEPT ![w] = d]
    BY <1>3 DEF Due, RowTypes, DigestType, Times
  <2> QED BY <1>3, <2>1 DEF Due, RowTypes
<1>4. ASSUME NEW w \in Workers, Claim(w) PROVE RowTypes'
  <2>1. digest[w] \in DigestType /\ digest[w].now \in Times /\ digest[w].last \in Times
    BY <1>4, DigestFacts DEF Claim, RowTypes
  <2>2. PICK d \in DigestType : digest' = [digest EXCEPT ![w] = d]
    BY <1>4, <2>1 DEF Claim, DigestType, Asleep
  <2>3. mark' \in Times \cup {Never}
    BY <1>4, <2>1 DEF Claim, RowTypes
  <2> QED BY <1>4, <2>2, <2>3 DEF Claim, RowTypes
<1>5. ASSUME NEW w \in Workers, Gather(w) PROVE RowTypes'
  <2>1. digest[w] \in DigestType /\ digest[w].now \in Times /\ digest[w].last \in Times
    BY <1>5, DigestFacts DEF Gather, RowTypes
  <2>2. Since(digest[w].last) \subseteq Requests
    BY SinceFacts
  <2>3. PICK d \in DigestType : digest' = [digest EXCEPT ![w] = d]
    BY <1>5, <2>1, <2>2 DEF Gather, DigestType, Times
  <2> QED BY <1>5, <2>3 DEF Gather, RowTypes
<1>6. ASSUME NEW w \in Workers, Send(w) PROVE RowTypes'
  <2>1. digest[w] \in DigestType /\ digest[w].now \in Times
    BY <1>6, DigestFacts DEF Send, RowTypes
  <2> QED BY <1>6, <2>1 DEF Send, RowTypes, DigestType
<1>7. ASSUME NEW w \in Workers, SendSwallowed(w) \/ RestoreFails(w) PROVE RowTypes'
  <2>1. digest[w] \in DigestType /\ digest[w].batch \subseteq Requests
    BY <1>7, DigestFacts DEF SendSwallowed, RestoreFails, RowTypes
  <2> QED BY <1>7, <2>1 DEF SendSwallowed, RestoreFails, RowTypes, DigestType
<1>8. ASSUME NEW w \in Workers, SendRaises(w) PROVE RowTypes'
  <2>1. digest[w] \in DigestType /\ digest[w].step = "sending"
    BY <1>8 DEF SendRaises, RowTypes
  <2>2. [digest[w] EXCEPT !.step = "restoring"] \in DigestType
    BY <2>1 DEF DigestType, Asleep
  <2>3. digest' = [digest EXCEPT ![w] = [digest[w] EXCEPT !.step = "restoring"]]
    BY <1>8 DEF SendRaises, RowTypes
  <2> QED BY <1>8, <2>2, <2>3 DEF SendRaises, RowTypes
<1>9. ASSUME NEW w \in Workers, Restore(w) PROVE RowTypes'
  <2>1. digest[w] \in DigestType /\ digest[w].last \in Times
    BY <1>9, DigestFacts DEF Restore, RowTypes
  <2>2. Since(mark) \subseteq Requests
    BY SinceFacts
  <2> QED BY <1>9, <2>1, <2>2 DEF Restore, RowTypes, DigestType
<1>10. ASSUME NEW w \in Workers, Crash(w) PROVE RowTypes'
  <2>1. digest[w] \in DigestType /\ Since(digest[w].last) \subseteq Requests
    BY SinceFacts DEF RowTypes
  <2>2. Claimed(w) \subseteq Requests
    BY <2>1, DigestFacts DEF Claimed
  <2> QED BY <1>10, <2>2 DEF Crash, RowTypes, DigestType
<1>11. ASSUME NEW w \in Workers, NEW c \in Slots, Fail(w, c) PROVE RowTypes'
  BY <1>11 DEF Fail, RowTypes, digestVars
<1>12. CASE Tick
  BY <1>12 DEF Tick, RowTypes, digestVars, Times
<1>13. ASSUME UNCHANGED <<clock, alerts, faults, late, digestVars>> PROVE RowTypes'
  BY <1>13 DEF RowTypes, digestVars
<1>14. ASSUME NEW w \in Workers, \/ \E r \in Requests : Enqueue(w, r)
                                 \/ \E c \in Slots : Take(w, c) \/ Mark(w, c) \/ Insert(w, c)
                                 \/ Resize(w) \/ Forget(w)
       PROVE  RowTypes'
  BY <1>13, <1>14 DEF Enqueue, Take, Mark, Insert, Resize, Forget
<1> QED BY <1>1, <1>2, <1>3, <1>4, <1>5, <1>6, <1>7, <1>8, <1>9, <1>10, <1>11, <1>12, <1>13,
           <1>14 DEF Next, vars, digestVars

-----------------------------------------------------------------------------
(* A request is in one place.                                              *)

\* Nothing but the deletion of queues and tasks.
Fewer ==
    /\ UNCHANGED <<offered, alerts>>
    /\ \A w \in Workers : queue'[w] = queue[w] \/ queue'[w] = <<>>
    /\ \A w \in Workers, c \in Slots :
          task'[w][c] # Free => task[w][c] # Free /\ task'[w][c].req = task[w][c].req

\* Deleting queues and tasks puts no request anywhere.
LEMMA OnceFewer == ASSUME Once, Fewer PROVE Once'
<1>1. \A r \in Requests : alerts'[r] # NoAlert => r \in offered'
  BY DEF Once, Fewer
<1>2. ASSUME NEW w \in Workers, NEW i \in 1 .. Len(queue'[w])
      PROVE  /\ queue'[w][i] \in offered'
             /\ Server[queue'[w][i]] = w
             /\ alerts'[queue'[w][i]] = NoAlert
             /\ \A j \in 1 .. Len(queue'[w]) : queue'[w][i] = queue'[w][j] => i = j
             /\ \A c \in Slots : task'[w][c] # Free => task'[w][c].req # queue'[w][i]
  <2>1. queue'[w] = queue[w]
    BY DEF Fewer
  <2> QED BY <2>1 DEF Once, Fewer
<1>3. ASSUME NEW w \in Workers, NEW c \in Slots, task'[w][c] # Free
      PROVE  /\ task'[w][c].req \in offered'
             /\ Server[task'[w][c].req] = w
             /\ alerts'[task'[w][c].req] = NoAlert
             /\ \A d \in Slots :
                   (task'[w][d] # Free /\ task'[w][d].req = task'[w][c].req) => c = d
  BY <1>3 DEF Once, Fewer
<1> QED BY <1>1, <1>2, <1>3 DEF Once

LEMMA OnceInit == Init => Once
BY DEF Init, Once

\* Enqueue brings a new request, Take moves one, Commit ends one; the rest deletes.
LEMMA OnceStep == ASSUME Types, Once, [Next]_vars PROVE Once'
<1> USE DEF Types
<1>1. ASSUME NEW w \in Workers, NEW r \in Requests, Enqueue(w, r) PROVE Once'
  <2>1. CASE queue' = queue
    BY <1>1, <2>1 DEF Enqueue, Once
  <2>2. CASE queue' = [queue EXCEPT ![w] = Append(@, r)]
    <3>1. queue[w] \in Seq(Requests)
      BY DEF ScanTypes
    <3>2. /\ Len(queue'[w]) = Len(queue[w]) + 1
          /\ \A i \in 1 .. Len(queue[w]) : queue'[w][i] = queue[w][i]
          /\ queue'[w][Len(queue[w]) + 1] = r
          /\ Len(queue[w]) \in Nat
      BY <2>2, <3>1 DEF ScanTypes
    <3>3. \A v \in Workers \ {w} : queue'[v] = queue[v]
      BY <2>2 DEF ScanTypes
    <3>4. /\ w = Server[r] /\ r \notin offered /\ offered' = offered \cup {r}
          /\ UNCHANGED <<task, alerts>>
      BY <1>1 DEF Enqueue
    <3>5. alerts[r] = NoAlert
      BY <3>4 DEF Once
    <3>6. ASSUME NEW i \in 1 .. Len(queue'[w])
          PROVE  /\ queue'[w][i] \in offered'
                 /\ Server[queue'[w][i]] = w
                 /\ alerts[queue'[w][i]] = NoAlert
                 /\ \A j \in 1 .. Len(queue'[w]) : queue'[w][i] = queue'[w][j] => i = j
                 /\ \A c \in Slots : task[w][c] # Free => task[w][c].req # queue'[w][i]
      <4>1. \A c \in Slots : task[w][c] # Free => task[w][c].req \in offered
        BY DEF Once
      <4>2. \A j \in 1 .. Len(queue[w]) : queue[w][j] \in offered /\ queue[w][j] # r
        BY <3>4 DEF Once
      <4>3. CASE i = Len(queue[w]) + 1
        <5>1. queue'[w][i] = r
          BY <3>2, <4>3
        <5>2. ASSUME NEW j \in 1 .. Len(queue'[w]), queue'[w][j] = r PROVE j = i
          <6>1. j \in 1 .. Len(queue[w]) \/ j = Len(queue[w]) + 1
            BY <3>2
          <6> QED BY <3>2, <4>2, <4>3, <5>2, <6>1
        <5> QED BY <3>4, <3>5, <4>1, <5>1, <5>2
      <4>4. CASE i \in 1 .. Len(queue[w])
        <5>1. queue'[w][i] = queue[w][i] /\ queue[w][i] # r
          BY <3>2, <4>2, <4>4
        <5>2. ASSUME NEW j \in 1 .. Len(queue'[w]), queue'[w][i] = queue'[w][j] PROVE i = j
          <6>1. j \in 1 .. Len(queue[w])
            BY <3>2, <5>1, <5>2
          <6>2. queue[w][i] = queue[w][j]
            BY <3>2, <5>1, <5>2, <6>1
          <6> QED BY <4>4, <6>1, <6>2 DEF Once
        <5> QED BY <3>4, <4>4, <5>1, <5>2 DEF Once
      <4>5. i = Len(queue[w]) + 1 \/ i \in 1 .. Len(queue[w])
        BY <3>2
      <4> QED BY <4>3, <4>4, <4>5
    <3> QED BY <3>3, <3>4, <3>6 DEF Once
  <2> QED BY <1>1, <2>1, <2>2 DEF Enqueue
<1>2. ASSUME NEW w \in Workers, NEW c \in Slots, Take(w, c) PROVE Once'
  <2>1. queue[w] \in Seq(Requests) /\ queue[w] # <<>> /\ task[w][c] = Free
    BY <1>2 DEF ScanTypes, Take
  <2>2. /\ Len(queue'[w]) = Len(queue[w]) - 1
        /\ \A i \in 1 .. Len(queue'[w]) : queue'[w][i] = queue[w][i + 1]
        /\ Len(queue[w]) \in Nat \ {0} /\ queue[w][1] = Head(queue[w])
    BY <1>2, <2>1 DEF ScanTypes, Take
  <2>3. \A v \in Workers \ {w} : queue'[v] = queue[v] /\ task'[v] = task[v]
    BY <1>2 DEF ScanTypes, Take
  <2>4. /\ task'[w][c].req = queue[w][1] /\ UNCHANGED <<offered, alerts>>
        /\ \A d \in Slots \ {c} : task'[w][d] = task[w][d]
    BY <1>2, <2>2 DEF ScanTypes, Take
  <2>5. ASSUME NEW i \in 1 .. Len(queue'[w])
        PROVE  /\ queue'[w][i] \in offered
               /\ Server[queue'[w][i]] = w
               /\ alerts[queue'[w][i]] = NoAlert
               /\ \A j \in 1 .. Len(queue'[w]) : queue'[w][i] = queue'[w][j] => i = j
               /\ \A d \in Slots : task'[w][d] # Free => task'[w][d].req # queue'[w][i]
    <3>1. i + 1 \in 1 .. Len(queue[w]) /\ queue'[w][i] = queue[w][i + 1] /\ i + 1 # 1
          /\ 1 \in 1 .. Len(queue[w])
      BY <2>2
    <3>2. queue[w][i + 1] # queue[w][1]
      BY <3>1 DEF Once
    <3>3. ASSUME NEW j \in 1 .. Len(queue'[w]), queue'[w][i] = queue'[w][j] PROVE i = j
      <4>1. j + 1 \in 1 .. Len(queue[w]) /\ queue'[w][j] = queue[w][j + 1]
        BY <2>2
      <4>2. \A k, l \in 1 .. Len(queue[w]) : queue[w][k] = queue[w][l] => k = l
        BY DEF Once
      <4>3. i + 1 = j + 1
        BY <3>1, <3>3, <4>1, <4>2
      <4> QED BY <4>3
    <3>4. ASSUME NEW d \in Slots, task'[w][d] # Free PROVE task'[w][d].req # queue'[w][i]
      <4>1. CASE d = c
        BY <2>4, <3>1, <3>2, <4>1
      <4>2. CASE d # c
        BY <2>4, <3>1, <3>4, <4>2 DEF Once
      <4> QED BY <4>1, <4>2
    <3> QED BY <3>1, <3>3, <3>4 DEF Once
  <2>6. ASSUME NEW d \in Slots, task'[w][d] # Free
        PROVE  /\ task'[w][d].req \in offered
               /\ Server[task'[w][d].req] = w
               /\ alerts[task'[w][d].req] = NoAlert
               /\ \A e \in Slots :
                     (task'[w][e] # Free /\ task'[w][e].req = task'[w][d].req) => d = e
    <3>1. 1 \in 1 .. Len(queue[w])
      BY <2>2
    <3>2. /\ queue[w][1] \in offered /\ Server[queue[w][1]] = w /\ alerts[queue[w][1]] = NoAlert
          /\ \A e \in Slots : task[w][e] # Free => task[w][e].req # queue[w][1]
      BY <3>1 DEF Once
    <3>3. CASE d = c
      BY <2>4, <3>2, <3>3
    <3>4. CASE d # c
      BY <2>4, <2>6, <3>2, <3>4 DEF Once
    <3> QED BY <3>3, <3>4
  <2>7. ASSUME NEW v \in Workers \ {w}, NEW i \in 1 .. Len(queue'[v])
        PROVE  /\ queue'[v][i] \in offered
               /\ Server[queue'[v][i]] = v
               /\ alerts[queue'[v][i]] = NoAlert
               /\ \A j \in 1 .. Len(queue'[v]) : queue'[v][i] = queue'[v][j] => i = j
               /\ \A d \in Slots : task'[v][d] # Free => task'[v][d].req # queue'[v][i]
    BY <2>3 DEF Once
  <2>8. ASSUME NEW v \in Workers \ {w}, NEW d \in Slots, task'[v][d] # Free
        PROVE  /\ task'[v][d].req \in offered
               /\ Server[task'[v][d].req] = v
               /\ alerts[task'[v][d].req] = NoAlert
               /\ \A e \in Slots :
                     (task'[v][e] # Free /\ task'[v][e].req = task'[v][d].req) => d = e
    BY <2>3, <2>8 DEF Once
  <2>9. \A r \in Requests : alerts[r] # NoAlert => r \in offered
    BY DEF Once
  <2>10. UNCHANGED <<offered, alerts>>
    BY <2>4
  <2> QED BY <2>5, <2>6, <2>7, <2>8, <2>9, <2>10 DEF Once
<1>3. ASSUME NEW w \in Workers, NEW c \in Slots, Commit(w, c) PROVE Once'
  <2>1. task[w][c] \in TaskType /\ task[w][c] # Free /\ task[w][c].req \in Requests
    BY <1>3, TaskFacts DEF Commit, ScanTypes
  <2> DEFINE q == task[w][c].req
  <2>2. /\ q \in Requests /\ q \in offered /\ Server[q] = w
        /\ \A i \in 1 .. Len(queue[w]) : queue[w][i] # q
        /\ \A d \in Slots \ {c} : task[w][d] # Free => task[w][d].req # q
    BY <2>1 DEF Once
  <2>3. /\ \A r \in Requests \ {q} : alerts'[r] = alerts[r]
        /\ \A v \in Workers, d \in Slots :
              task'[v][d] = IF v = w /\ d = c THEN Free ELSE task[v][d]
        /\ UNCHANGED <<offered, queue>>
    BY <1>3, <2>2 DEF Commit, ScanTypes, RowTypes
  <2> HIDE DEF q
  <2>4. \A r \in Requests : alerts'[r] # NoAlert => r \in offered'
    BY <2>2, <2>3 DEF Once
  <2>5. ASSUME NEW v \in Workers, NEW i \in 1 .. Len(queue[v])
        PROVE  queue[v][i] # q /\ alerts'[queue[v][i]] = NoAlert
    <3>1. queue[v][i] # q
      BY <2>2 DEF Once
    <3>2. queue[v][i] \in Requests
      BY DEF Once, ScanTypes
    <3> QED BY <2>3, <3>1, <3>2 DEF Once
  <2>6. ASSUME NEW v \in Workers, NEW d \in Slots, task'[v][d] # Free
        PROVE  /\ task'[v][d].req \in offered'
               /\ Server[task'[v][d].req] = v
               /\ alerts'[task'[v][d].req] = NoAlert
               /\ \A e \in Slots :
                     (task'[v][e] # Free /\ task'[v][e].req = task'[v][d].req) => d = e
    <3>1. task[v][d] # Free /\ task'[v][d] = task[v][d] /\ task[v][d].req # q
      BY <2>2, <2>3, <2>6 DEF Once
    <3>2. task[v][d].req \in Requests
      BY <3>1 DEF Once, ScanTypes
    <3> QED BY <2>3, <3>1, <3>2 DEF Once
  <2> QED BY <2>3, <2>4, <2>5, <2>6 DEF Once
<1>4. ASSUME NEW w \in Workers, NEW c \in Slots, Mark(w, c) \/ Insert(w, c) \/ Fail(w, c)
      PROVE  Once'
  <2>1. task[w][c] # Free
    BY <1>4 DEF Mark, Insert, Fail, Free
  <2>2. \E t : task' = [task EXCEPT ![w][c] = t] /\ (t # Free => t.req = task[w][c].req)
    BY <1>4 DEF Mark, Insert, Fail
  <2>3. Fewer
    BY <1>4, <2>1, <2>2 DEF Fewer, Mark, Insert, Fail, ScanTypes
  <2> QED BY <2>3, OnceFewer
<1>5. ASSUME NEW w \in Workers, Resize(w) PROVE Once'
  <2>1. Fewer
    BY <1>5 DEF Fewer, Resize, ScanTypes
  <2> QED BY <2>1, OnceFewer
<1>6. ASSUME NEW w \in Workers, Crash(w) PROVE Once'
  <2>1. Fewer
    BY <1>6 DEF Fewer, Crash, ScanTypes
  <2> QED BY <2>1, OnceFewer
<1>7. CASE UNCHANGED <<offered, queue, task, alerts>>
  BY <1>7 DEF Once
<1>8. ASSUME NEW w \in Workers, Forget(w) PROVE Once'
  BY <1>7, <1>8 DEF Forget
<1> QED BY <1>1, <1>2, <1>3, <1>4, <1>5, <1>6, <1>7, <1>8
        DEF Next, vars, scanVars, FirstCycle, Due, Claim, Gather, Send, SendSwallowed,
            SendRaises, Restore, RestoreFails, Tick

\* A step leaves the alerts and the digest alone, commits an alert, or is one of the
\* digest or a crash.
LEMMA DlpSteps ==
    ASSUME [Next]_vars
    PROVE  \/ UNCHANGED <<alerts, late, digestVars>>
           \/ \E w \in Workers, c \in Slots : Commit(w, c)
           \/ \E w \in Workers :
                 \/ FirstCycle(w) \/ Due(w) \/ Claim(w) \/ Gather(w) \/ Send(w)
                 \/ SendSwallowed(w) \/ SendRaises(w) \/ Restore(w) \/ RestoreFails(w)
                 \/ Crash(w)
<1>1. ASSUME NEW w \in Workers, \/ \E r \in Requests : Enqueue(w, r)
                                \/ \E c \in Slots : Take(w, c) \/ Mark(w, c)
                                                    \/ Insert(w, c) \/ Fail(w, c)
                                \/ Resize(w) \/ Forget(w)
      PROVE  UNCHANGED <<alerts, late, digestVars>>
  BY <1>1 DEF Enqueue, Take, Mark, Insert, Fail, Resize, Forget
<1>2. CASE Tick \/ UNCHANGED vars
  BY <1>2 DEF Tick, vars, digestVars
<1> QED BY <1>1, <1>2 DEF Next

\* The digest's own steps leave the alerts alone.
LEMMA DigestOnly ==
    ASSUME NEW w \in Workers, \/ FirstCycle(w) \/ Due(w) \/ Claim(w) \/ Gather(w) \/ Send(w)
                              \/ SendSwallowed(w) \/ SendRaises(w) \/ Restore(w)
                              \/ RestoreFails(w) \/ Crash(w)
    PROVE  alerts' = alerts /\ late \subseteq late'
BY DEF FirstCycle, Due, Claim, Gather, Send, SendSwallowed, SendRaises, Restore, RestoreFails,
       Crash

\* An alert stays, with its timestamp.
LEMMA AlertsStay ==
    ASSUME Types, Once, [Next]_vars, NEW r \in Requests, alerts[r] # NoAlert
    PROVE  alerts'[r] = alerts[r]
<1>1. ASSUME NEW w \in Workers, NEW c \in Slots, Commit(w, c) PROVE alerts'[r] = alerts[r]
  <2>1. task[w][c] \in TaskType /\ task[w][c] # Free
    BY <1>1, TaskFacts DEF Commit, Types, ScanTypes
  <2>2. task[w][c].req # r
    BY <2>1 DEF Once
  <2> QED BY <1>1, <2>2 DEF Commit, Types, RowTypes
<1> QED BY <1>1, DlpSteps, DigestOnly

-----------------------------------------------------------------------------
(* Suppression.                                                            *)

\* Consumer c of w is on its way to the alert of request r.
Underway(w, c, r) == task[w][c].step \in {"marked", "inserted"} /\ task[w][c].req = r

Hidden(w) == seen[w] \ forgone[w]

\* No value is hidden that was not, and what accounted for one still does.
Accounted ==
    /\ \A w \in Workers : Hidden(w)' \subseteq Hidden(w)
    /\ \A r \in Requests : alerts[r] # NoAlert => alerts'[r] # NoAlert
    /\ \A w \in Workers, c \in Slots, r \in Requests :
          Underway(w, c, r) => \/ Underway(w, c, r)'
                               \/ alerts'[r] # NoAlert
                               \/ Value[r] \notin Hidden(w)'

\* So the values hidden are still accounted for.
LEMMA SuppressionKept == ASSUME SuppressionExplained, Accounted PROVE SuppressionExplained'
<1> SUFFICES ASSUME NEW w \in Workers, NEW v \in Hidden(w)'
             PROVE  \E r \in Requests :
                       Value[r] = v /\ (alerts'[r] # NoAlert \/ \E c \in Slots : Underway(w, c, r)')
  BY DEF SuppressionExplained, Underway, Hidden
<1>1. v \in Hidden(w)
  BY DEF Accounted
<1>2. PICK r \in Requests :
         Value[r] = v /\ (alerts[r] # NoAlert \/ \E c \in Slots : Underway(w, c, r))
  BY <1>1 DEF SuppressionExplained, Underway, Hidden
<1> QED BY <1>2 DEF Accounted

LEMMA SuppressionInit == Init => SuppressionExplained
BY DEF Init, SuppressionExplained

\* Only Mark hides a value, and it accounts for it; the others keep what accounts.
LEMMA SuppressionStep ==
    ASSUME Types, Once, SuppressionExplained, [Next]_vars
    PROVE  SuppressionExplained'
<1> USE DEF Types
<1>1. \A r \in Requests : alerts[r] # NoAlert => alerts'[r] # NoAlert
  BY AlertsStay
<1>2. ASSUME UNCHANGED <<task, seen, forgone>> PROVE SuppressionExplained'
  BY <1>1, <1>2, SuppressionKept DEF Accounted, Underway, Hidden
<1>3. ASSUME NEW w \in Workers, NEW c \in Slots, Take(w, c) PROVE SuppressionExplained'
  <2>1. \A u \in Workers, d \in Slots, r \in Requests : Underway(u, d, r) => Underway(u, d, r)'
    BY <1>3 DEF Take, Underway, ScanTypes, Free
  <2> QED BY <1>1, <1>3, <2>1, SuppressionKept DEF Accounted, Take, Hidden
<1>4. ASSUME NEW w \in Workers, NEW c \in Slots, Mark(w, c) PROVE SuppressionExplained'
  <2>1. /\ task[w][c].step = "scanning" /\ task[w][c].req \in Requests
        /\ UNCHANGED <<alerts, forgone>>
    BY <1>4, TaskFacts DEF Mark, ScanTypes
  <2>2. \A u \in Workers, d \in Slots, r \in Requests : Underway(u, d, r) => Underway(u, d, r)'
    <3>1. \A u \in Workers, d \in Slots : (u # w \/ d # c) => task'[u][d] = task[u][d]
      BY <1>4 DEF Mark, ScanTypes
    <3> QED BY <2>1, <3>1 DEF Underway
  <2>3. CASE seen' = seen
    BY <1>1, <2>1, <2>2, <2>3, SuppressionKept DEF Accounted, Hidden
  <2>4. CASE /\ seen' = [seen EXCEPT ![w] = @ \cup {Value[task[w][c].req]}]
             /\ task' = [task EXCEPT ![w][c] = [step |-> "marked", req |-> task[w][c].req]]
    <3>1. \E r \in Requests : Value[r] = Value[task[w][c].req] /\ Underway(w, c, r)'
      <4>1. PICK r \in Requests : r = task[w][c].req
        BY <2>1
      <4>2. Underway(w, c, r)'
        BY <2>4, <4>1 DEF Underway, ScanTypes
      <4> QED BY <4>1, <4>2
    <3> SUFFICES ASSUME NEW u \in Workers, NEW v \in Hidden(u)'
                 PROVE  \E r \in Requests :
                           Value[r] = v /\ (alerts'[r] # NoAlert \/ \E d \in Slots : Underway(u, d, r)')
      BY DEF SuppressionExplained, Underway, Hidden
    <3>2. v \in Hidden(u) \/ (u = w /\ v = Value[task[w][c].req])
      BY <2>1, <2>4 DEF Hidden, ScanTypes
    <3>3. CASE v \in Hidden(u)
      <4>1. PICK r \in Requests :
              Value[r] = v /\ (alerts[r] # NoAlert \/ \E d \in Slots : Underway(u, d, r))
        BY <3>3 DEF SuppressionExplained, Underway, Hidden
      <4> QED BY <1>1, <2>2, <4>1
    <3>4. CASE u = w /\ v = Value[task[w][c].req]
      BY <3>1, <3>4
    <3> QED BY <3>2, <3>3, <3>4
  <2> QED BY <1>4, <2>3, <2>4 DEF Mark
<1>5. ASSUME NEW w \in Workers, NEW c \in Slots, Insert(w, c) PROVE SuppressionExplained'
  <2>1. \A u \in Workers, d \in Slots, r \in Requests : Underway(u, d, r) => Underway(u, d, r)'
    BY <1>5 DEF Insert, Underway, ScanTypes
  <2> QED BY <1>1, <1>5, <2>1, SuppressionKept DEF Accounted, Insert, Hidden
<1>6. ASSUME NEW w \in Workers, NEW c \in Slots, Commit(w, c) PROVE SuppressionExplained'
  <2>1. task[w][c] \in TaskType /\ task[w][c].step = "inserted"
    BY <1>6 DEF Commit, ScanTypes
  <2>2. task[w][c].req \in Requests /\ task[w][c].at \in Times
    BY <2>1, TaskFacts
  <2>3. alerts'[task[w][c].req] # NoAlert
    BY <1>6, <2>2 DEF Commit, RowTypes, NoAlert, Times
  <2>4. \A u \in Workers, d \in Slots : (u # w \/ d # c) => task'[u][d] = task[u][d]
    BY <1>6 DEF Commit, ScanTypes
  <2>5. \A u \in Workers, d \in Slots, r \in Requests :
          Underway(u, d, r) => Underway(u, d, r)' \/ alerts'[r] # NoAlert
    BY <2>3, <2>4 DEF Underway
  <2> QED BY <1>1, <1>6, <2>5, SuppressionKept DEF Accounted, Commit, Hidden
<1>7. ASSUME NEW w \in Workers, NEW c \in Slots, Fail(w, c) PROVE SuppressionExplained'
  <2>1. \A u \in Workers, d \in Slots : (u # w \/ d # c) => task'[u][d] = task[u][d]
    BY <1>7 DEF Fail, ScanTypes
  <2>2. \A r \in Requests : Underway(w, c, r) => Value[r] \in Marked({task[w][c]})
    BY DEF Underway, Marked
  <2>3. /\ forgone'[w] = forgone[w] \cup Marked({task[w][c]})
        /\ \A u \in Workers : forgone[u] \subseteq forgone'[u]
        /\ seen' = seen
    BY <1>7 DEF Fail, ScanTypes
  <2>4. \A u \in Workers, d \in Slots, r \in Requests :
          Underway(u, d, r) => Underway(u, d, r)' \/ Value[r] \notin Hidden(u)'
    <3>1. \A r \in Requests : Underway(w, c, r) => Value[r] \notin Hidden(w)'
      BY <2>2, <2>3 DEF Hidden
    <3> QED BY <2>1, <3>1 DEF Underway
  <2> QED BY <1>1, <2>3, <2>4, SuppressionKept DEF Accounted, Hidden
<1>8. ASSUME NEW w \in Workers, Resize(w) PROVE SuppressionExplained'
  <2>1. PICK stopped :
          /\ task' = [task EXCEPT ![w] = [c \in Slots |->
                        IF c \in stopped THEN Free ELSE task[w][c]]]
          /\ forgone' = [forgone EXCEPT ![w] = @ \cup Marked({task[w][c] : c \in stopped})]
    BY <1>8, Zenon DEF Resize
  <2>2. \A u \in Workers, d \in Slots : (u # w \/ d \notin stopped) => task'[u][d] = task[u][d]
    BY <2>1 DEF ScanTypes
  <2>3. ASSUME NEW d \in Slots \cap stopped, NEW r \in Requests, Underway(w, d, r)
        PROVE  Value[r] \in Marked({task[w][c] : c \in stopped})
    <3>1. task[w][d] \in {u \in {task[w][c] : c \in stopped} : u.step \in {"marked", "inserted"}}
      BY <2>3 DEF Underway
    <3> QED BY <2>3, <3>1 DEF Underway, Marked
  <2>4. /\ forgone'[w] = forgone[w] \cup Marked({task[w][c] : c \in stopped})
        /\ \A u \in Workers : forgone[u] \subseteq forgone'[u]
        /\ seen' = seen
    <3>1. seen' = seen
      BY <1>8 DEF Resize
    <3>2. /\ forgone \in [Workers -> SUBSET Values]
          /\ forgone' = [forgone EXCEPT ![w] = @ \cup Marked({task[w][c] : c \in stopped})]
      BY <2>1 DEF ScanTypes
    <3>3. \A u \in Workers : u # w => forgone'[u] = forgone[u]
      BY <3>2
    <3> QED BY <3>1, <3>2, <3>3
  <2>5. \A u \in Workers, d \in Slots, r \in Requests :
          Underway(u, d, r) => Underway(u, d, r)' \/ Value[r] \notin Hidden(u)'
    <3>1. \A d \in Slots \cap stopped, r \in Requests :
            Underway(w, d, r) => Value[r] \notin Hidden(w)'
      BY <2>3, <2>4 DEF Hidden
    <3> QED BY <2>2, <3>1 DEF Underway
  <2> QED BY <1>1, <2>4, <2>5, SuppressionKept DEF Accounted, Hidden
<1>9. ASSUME NEW w \in Workers, Forget(w) PROVE SuppressionExplained'
  <2>1. \A u \in Workers : Hidden(u)' \subseteq Hidden(u)
    BY <1>9 DEF Forget, Hidden, ScanTypes
  <2> QED BY <1>1, <1>9, <2>1, SuppressionKept DEF Accounted, Forget, Underway
<1>10. ASSUME NEW w \in Workers, Crash(w) PROVE SuppressionExplained'
  <2>1. /\ Hidden(w)' = {}
        /\ \A u \in Workers \ {w} : Hidden(u)' = Hidden(u) /\ task'[u] = task[u]
    BY <1>10 DEF Crash, Hidden, ScanTypes
  <2> QED BY <1>1, <2>1, SuppressionKept DEF Accounted, Underway
<1>11. ASSUME NEW w \in Workers, NEW r \in Requests, Enqueue(w, r) PROVE SuppressionExplained'
  BY <1>2, <1>11 DEF Enqueue
<1> QED BY <1>2, <1>3, <1>4, <1>5, <1>6, <1>7, <1>8, <1>9, <1>10, <1>11
        DEF Next, vars, scanVars, FirstCycle, Due, Claim, Gather, Send, SendSwallowed,
            SendRaises, Restore, RestoreFails, Tick

-----------------------------------------------------------------------------
(* The digests.                                                            *)

\* What a step does to the digest of a process.
LEMMA DigestMoves ==
    ASSUME Types, [Next]_vars, NEW w \in Workers
    PROVE  \/ digest'[w] = digest[w] \/ digest'[w] = Asleep
           \/ Due(w) \/ Claim(w) \/ Gather(w) \/ SendRaises(w)
<1> USE DEF Types, RowTypes
<1>1. ASSUME UNCHANGED digestVars PROVE digest' = digest
  BY <1>1 DEF digestVars
<1>2. ASSUME NEW v \in Workers, \/ FirstCycle(v) \/ Due(v) \/ Claim(v) \/ Gather(v) \/ Send(v)
                                \/ SendSwallowed(v) \/ SendRaises(v) \/ Restore(v)
                                \/ RestoreFails(v) \/ Crash(v)
      PROVE  v = w \/ digest'[w] = digest[w]
  BY <1>2 DEF FirstCycle, Due, Claim, Gather, Send, SendSwallowed, SendRaises, Restore,
              RestoreFails, Crash
<1>3. ASSUME \/ FirstCycle(w) \/ Send(w) \/ SendSwallowed(w) \/ Restore(w) \/ RestoreFails(w)
             \/ Crash(w)
      PROVE  digest'[w] = digest[w] \/ digest'[w] = Asleep
  BY <1>3 DEF FirstCycle, Send, SendSwallowed, Restore, RestoreFails, Crash
<1>4. ASSUME NEW v \in Workers, NEW c \in Slots, Commit(v, c) PROVE UNCHANGED digestVars
  BY <1>4 DEF Commit
<1> QED BY <1>1, <1>2, <1>3, <1>4, DlpSteps

\* What Claim, Gather and SendRaises do to the digest.
LEMMA DigestTurns ==
    ASSUME Types, NEW w \in Workers
    PROVE  /\ Due(w) => digest'[w] = [step |-> "due", last |-> mark, now |-> clock]
                        /\ mark \in Times /\ mark < clock /\ digest[w] = Asleep
           /\ Claim(w) => /\ digest[w].step = "due"
                          /\ \/ mark' = mark /\ digest'[w] = Asleep
                             \/ /\ mark = digest[w].last /\ mark' = digest[w].now
                                /\ digest'[w].step = "claimed"
                                /\ digest'[w].last = digest[w].last
                                /\ digest'[w].now = digest[w].now
           /\ Gather(w) => /\ digest[w].step = "claimed"
                           /\ \/ digest'[w] = Asleep /\ Since(digest[w].last) = {}
                              \/ digest'[w] = [step |-> "sending", last |-> digest[w].last,
                                               now |-> digest[w].now,
                                               batch |-> Since(digest[w].last)]
           /\ SendRaises(w) => /\ digest[w].step = "sending"
                               /\ digest'[w] = [step |-> "restoring", last |-> digest[w].last,
                                                now |-> digest[w].now, batch |-> digest[w].batch]
<1> USE DEF Types, RowTypes
<1>1. digest[w] \in DigestType
  OBVIOUS
<1>2. ASSUME Due(w)
      PROVE  digest'[w] = [step |-> "due", last |-> mark, now |-> clock]
             /\ mark \in Times /\ mark < clock /\ digest[w] = Asleep
  BY <1>2 DEF Due, Times, Never
<1>3. ASSUME Claim(w)
      PROVE  /\ digest[w].step = "due"
             /\ \/ mark' = mark /\ digest'[w] = Asleep
                \/ /\ mark = digest[w].last /\ mark' = digest[w].now
                   /\ digest'[w].step = "claimed"
                   /\ digest'[w].last = digest[w].last
                   /\ digest'[w].now = digest[w].now
  BY <1>1, <1>3 DEF Claim, DigestType, Asleep
<1>4. ASSUME Gather(w)
      PROVE  /\ digest[w].step = "claimed"
             /\ \/ digest'[w] = Asleep /\ Since(digest[w].last) = {}
                \/ digest'[w] = [step |-> "sending", last |-> digest[w].last,
                                 now |-> digest[w].now, batch |-> Since(digest[w].last)]
  BY <1>4 DEF Gather
<1>5. ASSUME SendRaises(w)
      PROVE  /\ digest[w].step = "sending"
             /\ digest'[w] = [step |-> "restoring", last |-> digest[w].last,
                              now |-> digest[w].now, batch |-> digest[w].batch]
  <2>1. digest'[w] = [digest[w] EXCEPT !.step = "restoring"] /\ digest[w].step = "sending"
    BY <1>5 DEF SendRaises
  <2> QED BY <1>1, <2>1 DEF DigestType, Asleep
<1> QED BY <1>2, <1>3, <1>4, <1>5

\* Only Send reports.
LEMMA ReportsMove ==
    ASSUME [Next]_vars
    PROVE  reported' = reported \/ \E w \in Workers : Send(w)
<1>1. CASE UNCHANGED digestVars
  BY <1>1 DEF digestVars
<1>2. ASSUME NEW w \in Workers, NEW c \in Slots, Commit(w, c) PROVE UNCHANGED digestVars
  BY <1>2 DEF Commit
<1>3. ASSUME NEW w \in Workers, \/ FirstCycle(w) \/ Due(w) \/ Claim(w) \/ Gather(w)
                                \/ SendSwallowed(w) \/ SendRaises(w) \/ Restore(w)
                                \/ RestoreFails(w) \/ Crash(w)
      PROVE  reported' = reported
  BY <1>3 DEF FirstCycle, Due, Claim, Gather, SendSwallowed, SendRaises, Restore, RestoreFails,
              Crash
<1> QED BY <1>1, <1>2, <1>3, DlpSteps

LEMMA BatchesInit == Init => Batches
BY DEF Init, Batches, Asleep

\* Every step keeps the windows of the digests and what lies in them.
LEMMA BatchesStep == ASSUME Types, Once, Batches, [Next]_vars PROVE Batches'
<1> DEFINE Goal(d) == /\ d # Asleep => d.last < d.now
                      /\ d.step \in {"sending", "restoring"} =>
                            \A r \in d.batch : alerts'[r] > d.last
<1>1. ASSUME NEW w \in Workers PROVE Goal(digest'[w])
  <2>1. digest[w] \in DigestType
    BY DEF Types, RowTypes
  <2>2. ASSUME NEW r \in Requests, digest[w] # Asleep, alerts[r] > digest[w].last
        PROVE  alerts'[r] > digest[w].last
    <3>1. alerts[r] # NoAlert
      BY <2>1, <2>2, DigestFacts DEF NoAlert, Times
    <3> QED BY <2>2, <3>1, AlertsStay
  <2>3. CASE digest'[w] = digest[w]
    BY <2>1, <2>2, <2>3, DigestFacts DEF Batches
  <2>4. CASE digest'[w] = Asleep
    BY <2>4 DEF Asleep
  <2>5. CASE Due(w)
    <3>1. digest'[w] = [step |-> "due", last |-> mark, now |-> clock] /\ mark < clock
      BY <2>5, DigestTurns
    <3> QED BY <3>1
  <2>6. CASE Claim(w)
    BY <2>1, <2>4, <2>6, DigestTurns, DigestFacts DEF Batches
  <2>7. CASE Gather(w) /\ digest'[w] # Asleep
    <3>1. /\ digest[w].step = "claimed"
          /\ digest'[w] = [step |-> "sending", last |-> digest[w].last, now |-> digest[w].now,
                           batch |-> Since(digest[w].last)]
      BY <2>7, DigestTurns
    <3>2. \A r \in Since(digest[w].last) : r \in Requests /\ alerts[r] > digest[w].last
      BY SinceFacts
    <3> QED BY <2>1, <2>2, <3>1, <3>2, DigestFacts DEF Batches
  <2>8. CASE SendRaises(w)
    <3>1. /\ digest[w].step = "sending"
          /\ digest'[w] = [step |-> "restoring", last |-> digest[w].last, now |-> digest[w].now,
                           batch |-> digest[w].batch]
      BY <2>8, DigestTurns
    <3> QED BY <2>1, <2>2, <3>1, DigestFacts DEF Batches
  <2> QED BY <2>3, <2>4, <2>5, <2>6, <2>7, <2>8, DigestMoves
<1>2. ASSUME NEW r \in Requests, reported'[r] # Never PROVE alerts'[r] # NoAlert
  <2>1. CASE reported' = reported
    BY <1>2, <2>1, AlertsStay DEF Batches
  <2>2. ASSUME NEW w \in Workers, Send(w) PROVE alerts'[r] # NoAlert
    <3>1. /\ digest[w] \in DigestType /\ digest[w].step = "sending"
          /\ reported'[r] # reported[r] => r \in digest[w].batch
          /\ alerts' = alerts
      BY <2>2 DEF Send, Types, RowTypes
    <3>2. CASE r \in digest[w].batch
      BY <3>1, <3>2, DigestFacts DEF Batches, NoAlert, Times
    <3> QED BY <1>2, <3>1, <3>2 DEF Batches
  <2> QED BY <2>1, <2>2, ReportsMove
<1> QED BY <1>1, <1>2 DEF Batches

-----------------------------------------------------------------------------
(* The windows.                                                            *)

\* The steps that move the watermark, report or undo a claim.
LEMMA MarkMoves ==
    ASSUME [Next]_vars
    PROVE  \/ UNCHANGED <<mark, reported, rewound>>
           \/ \E w \in Workers : FirstCycle(w) \/ Claim(w) \/ Send(w) \/ Restore(w)
<1>1. CASE UNCHANGED digestVars
  BY <1>1 DEF digestVars
<1>2. ASSUME NEW w \in Workers, NEW c \in Slots, Commit(w, c) PROVE UNCHANGED digestVars
  BY <1>2 DEF Commit
<1>3. ASSUME NEW w \in Workers, \/ Due(w) \/ Gather(w) \/ SendSwallowed(w) \/ SendRaises(w)
                                \/ RestoreFails(w) \/ Crash(w)
      PROVE  UNCHANGED <<mark, reported, rewound>>
  BY <1>3 DEF Due, Gather, SendSwallowed, SendRaises, RestoreFails, Crash
<1> QED BY <1>1, <1>2, <1>3, DlpSteps

\* Process w has no new window.
Calm(w) == Active(w)' => /\ Active(w)
                         /\ digest'[w].last = digest[w].last
                         /\ digest'[w].now = digest[w].now

\* Only Claim opens a window.
LEMMA CalmUnlessClaim ==
    ASSUME Types, [Next]_vars, NEW w \in Workers, ~Claim(w)
    PROVE  Calm(w)
<1>1. CASE digest'[w] = digest[w]
  BY <1>1 DEF Calm, Active
<1>2. CASE digest'[w] = Asleep
  BY <1>2 DEF Calm, Active, Asleep
<1>3. CASE Due(w)
  <2>1. digest'[w] = [step |-> "due", last |-> mark, now |-> clock]
    BY <1>3, DigestTurns
  <2> QED BY <2>1 DEF Calm, Active
<1>4. CASE Gather(w) /\ digest'[w] # Asleep
  <2>1. /\ digest[w].step = "claimed"
        /\ digest'[w] = [step |-> "sending", last |-> digest[w].last, now |-> digest[w].now,
                         batch |-> Since(digest[w].last)]
    BY <1>4, DigestTurns
  <2> QED BY <2>1 DEF Calm, Active
<1>5. CASE SendRaises(w)
  <2>1. /\ digest[w].step = "sending"
        /\ digest'[w] = [step |-> "restoring", last |-> digest[w].last, now |-> digest[w].now,
                         batch |-> digest[w].batch]
    BY <1>5, DigestTurns
  <2> QED BY <2>1 DEF Calm, Active
<1> QED BY <1>1, <1>2, <1>3, <1>4, <1>5, DigestMoves

\* What lies outside a window stays there, and the windows beside each other stay so.
LEMMA OutsideStays ==
    ASSUME Types, Once, Batches, [Next]_vars, NEW w \in Workers, Active(w), Calm(w), Active(w)',
           NEW r \in Requests, Outside(r, w), reported'[r] = reported[r]
    PROVE  Outside(r, w)'
<1>1. digest[w].last \in Times
  BY DigestFacts DEF Active, Types, RowTypes
<1>2. CASE reported[r] > digest[w].last
  <2>1. alerts[r] # NoAlert
    BY <1>1, <1>2 DEF Batches, Never, Times
  <2>2. alerts'[r] = alerts[r]
    BY <2>1, AlertsStay
  <2> QED BY <2>2 DEF Outside, Calm
<1>3. CASE ~(reported[r] > digest[w].last)
  BY <1>3 DEF Outside, Calm
<1> QED BY <1>2, <1>3

LEMMA WindowsInit == Init => Windows
BY DEF Init, Windows, Active, Asleep, Never

\* Claim opens a window after all others, Send and Restore close one.
LEMMA WindowsStep == ASSUME Types, Once, Batches, Windows, [Next]_vars PROVE Windows'
<1> USE DEF Types, RowTypes
<1>1. \A w \in Workers : digest[w] \in DigestType
  OBVIOUS
<1>2. \A w \in Workers : Active(w) => /\ digest[w].last \in Times /\ digest[w].now \in Times
                                      /\ digest[w].last < digest[w].now /\ digest[w] # Asleep
  BY <1>1, DigestFacts DEF Active, Batches
<1>3. CASE UNCHANGED <<mark, reported, rewound>> /\ \A w \in Workers : ~Claim(w)
  <2>1. \A w \in Workers : Calm(w)
    BY <1>3, CalmUnlessClaim
  <2>2. \A w \in Workers, r \in Requests :
          Active(w) /\ Active(w)' /\ Outside(r, w) => Outside(r, w)'
    BY <1>3, <2>1, OutsideStays
  <2> QED BY <1>3, <2>1, <2>2 DEF Windows, Calm, Beside
<1>4. ASSUME NEW w \in Workers, FirstCycle(w) PROVE Windows'
  <2>1. /\ mark = Never /\ mark' = clock /\ UNCHANGED <<digest, reported, rewound, alerts>>
    BY <1>4 DEF FirstCycle
  <2> QED BY <1>2, <2>1 DEF Windows, Never, Times, Active
<1>5. ASSUME NEW w \in Workers, Claim(w) PROVE Windows'
  <2>1. /\ UNCHANGED <<reported, rewound, alerts>>
        /\ \A v \in Workers \ {w} : digest'[v] = digest[v]
    BY <1>5 DEF Claim
  <2>2. CASE mark' = mark /\ digest'[w] = Asleep
    BY <2>1, <2>2 DEF Windows, Active, Asleep, Beside, Outside
  <2>3. CASE /\ digest[w].step = "due"
             /\ mark = digest[w].last /\ mark' = digest[w].now
             /\ digest'[w].last = digest[w].last /\ digest'[w].now = digest[w].now
    <3>1. digest[w].last \in Times /\ digest[w].now \in Times /\ digest[w].last < digest[w].now
      BY <1>1, <2>3, DigestFacts DEF Batches
    <3> SUFFICES ASSUME ~rewound
                 PROVE  /\ \A r \in Requests : reported'[r] <= mark'
                        /\ \A v \in Workers :
                              Active(v)' =>
                                 /\ digest'[v].now <= mark'
                                 /\ \A u \in Workers \ {v} : Active(u)' => Beside(u, v)'
                                 /\ \A r \in Requests : Outside(r, v)'
      BY <2>1 DEF Windows
    <3>2. \A r \in Requests : reported[r] <= digest[w].last
      BY <2>3 DEF Windows
    <3>3. \A v \in Workers \ {w} : Active(v) => digest[v].now <= digest[w].last
      BY <2>3 DEF Windows
    <3>4. \A r \in Requests : reported'[r] <= mark'
      BY <2>1, <2>3, <3>1, <3>2 DEF Times, Never
    <3>5. \A r \in Requests : Outside(r, w)'
      BY <2>1, <2>3, <3>1, <3>2 DEF Outside, Times, Never
    <3>6. ASSUME NEW v \in Workers \ {w}, Active(v)'
          PROVE  /\ digest'[v].now <= mark'
                 /\ \A u \in Workers \ {v} : Active(u)' => Beside(u, v)'
                 /\ \A r \in Requests : Outside(r, v)'
      <4>1. Active(v) /\ digest'[v] = digest[v]
        BY <2>1, <3>6 DEF Active
      <4>2. digest'[v].now <= mark' /\ Beside(w, v)'
        BY <1>2, <2>3, <3>1, <3>3, <4>1 DEF Times, Beside
      <4>3. ASSUME NEW u \in Workers \ {v}, Active(u)', u # w PROVE Beside(u, v)'
        <5>1. Active(u) /\ digest'[u] = digest[u]
          BY <2>1, <4>3 DEF Active
        <5> QED BY <4>1, <5>1 DEF Windows, Beside
      <4>4. \A r \in Requests : Outside(r, v)'
        BY <2>1, <4>1 DEF Windows, Outside
      <4> QED BY <4>2, <4>3, <4>4
    <3>7. \A u \in Workers \ {w} : Active(u)' => Beside(u, w)'
      BY <2>1, <2>3, <3>3 DEF Active, Beside
    <3>8. digest'[w].now <= mark'
      BY <2>3, <3>1 DEF Times
    <3> QED BY <3>4, <3>5, <3>6, <3>7, <3>8
  <2> QED BY <1>5, <2>2, <2>3, DigestTurns
<1>6. ASSUME NEW w \in Workers, Send(w) PROVE Windows'
  <2>1. /\ digest[w].step = "sending" /\ UNCHANGED <<mark, rewound, alerts>>
        /\ digest'[w] = Asleep /\ \A v \in Workers \ {w} : digest'[v] = digest[v]
        /\ \A r \in Requests : reported'[r] = IF r \in digest[w].batch /\ reported[r] = Never
                                              THEN digest[w].now ELSE reported[r]
    BY <1>6 DEF Send
  <2>2. Active(w) /\ ~Active(w)'
    BY <2>1 DEF Active, Asleep
  <2> SUFFICES ASSUME ~rewound
               PROVE  /\ \A r \in Requests : reported'[r] <= mark
                      /\ \A v \in Workers :
                            Active(v)' =>
                               /\ digest'[v].now <= mark
                               /\ \A u \in Workers \ {v} : Active(u)' => Beside(u, v)'
                               /\ \A r \in Requests : Outside(r, v)'
    BY <2>1 DEF Windows
  <2>3. \A r \in Requests : reported'[r] <= mark
    BY <2>1, <2>2 DEF Windows
  <2>4. ASSUME NEW v \in Workers, Active(v)'
        PROVE  /\ digest'[v].now <= mark
               /\ \A u \in Workers \ {v} : Active(u)' => Beside(u, v)'
               /\ \A r \in Requests : Outside(r, v)'
    <3>1. v # w /\ Active(v) /\ digest'[v] = digest[v]
      BY <2>1, <2>2, <2>4 DEF Active
    <3>2. digest'[v].now <= mark
      BY <3>1 DEF Windows
    <3>3. ASSUME NEW u \in Workers \ {v}, Active(u)' PROVE Beside(u, v)'
      <4>1. u # w /\ Active(u) /\ digest'[u] = digest[u]
        BY <2>1, <2>2, <3>3 DEF Active
      <4> QED BY <3>1, <4>1 DEF Windows, Beside
    <3>4. ASSUME NEW r \in Requests PROVE Outside(r, v)'
      <4>1. Outside(r, v) /\ Beside(w, v)
        BY <2>2, <3>1 DEF Windows
      <4>2. CASE reported'[r] = reported[r]
        BY <2>1, <3>1, <4>1, <4>2 DEF Outside
      <4>3. CASE reported'[r] = digest[w].now /\ r \in digest[w].batch
        <5>1. alerts[r] > digest[w].last /\ alerts[r] \in Times \cup {NoAlert}
          BY <2>1, <4>3 DEF Batches
        <5> QED BY <1>2, <2>1, <2>2, <3>1, <4>1, <4>3, <5>1 DEF Beside, Outside, Times, NoAlert
      <4> QED BY <2>1, <4>2, <4>3
    <3> QED BY <3>2, <3>3, <3>4
  <2> QED BY <2>3, <2>4
<1>7. ASSUME NEW w \in Workers, Restore(w) PROVE Windows'
  <2>1. /\ digest[w].step = "restoring" /\ UNCHANGED <<reported, alerts>>
        /\ mark' = digest[w].last /\ rewound' = (rewound \/ mark # digest[w].now)
        /\ digest'[w] = Asleep /\ \A v \in Workers \ {w} : digest'[v] = digest[v]
    BY <1>7 DEF Restore
  <2>2. Active(w) /\ ~Active(w)'
    BY <2>1 DEF Active, Asleep
  <2> SUFFICES ASSUME ~rewound, mark = digest[w].now
               PROVE  /\ \A r \in Requests : reported[r] <= mark'
                      /\ \A v \in Workers :
                            Active(v)' =>
                               /\ digest'[v].now <= mark'
                               /\ \A u \in Workers \ {v} : Active(u)' => Beside(u, v)'
                               /\ \A r \in Requests : Outside(r, v)'
    BY <2>1 DEF Windows
  <2>3. ASSUME NEW r \in Requests PROVE reported[r] <= mark'
    <3>1. Outside(r, w) /\ reported[r] <= digest[w].now
      BY <2>2 DEF Windows
    <3>2. reported[r] \in Times \cup {Never}
      OBVIOUS
    <3> QED BY <1>2, <2>1, <2>2, <3>1, <3>2 DEF Outside, Times, Never
  <2>4. ASSUME NEW v \in Workers, Active(v)'
        PROVE  /\ digest'[v].now <= mark'
               /\ \A u \in Workers \ {v} : Active(u)' => Beside(u, v)'
               /\ \A r \in Requests : Outside(r, v)'
    <3>1. v # w /\ Active(v) /\ digest'[v] = digest[v]
      BY <2>1, <2>2, <2>4 DEF Active
    <3>2. digest[v].now <= digest[w].now /\ Beside(w, v)
      BY <2>2, <3>1 DEF Windows
    <3>3. digest'[v].now <= mark'
      BY <1>2, <2>1, <2>2, <3>1, <3>2 DEF Beside, Times
    <3>4. ASSUME NEW u \in Workers \ {v}, Active(u)' PROVE Beside(u, v)'
      <4>1. u # w /\ Active(u) /\ digest'[u] = digest[u]
        BY <2>1, <2>2, <3>4 DEF Active
      <4> QED BY <3>1, <4>1 DEF Windows, Beside
    <3>5. \A r \in Requests : Outside(r, v)'
      BY <2>1, <3>1 DEF Windows, Outside
    <3> QED BY <3>3, <3>4, <3>5
  <2> QED BY <2>3, <2>4
<1> QED BY <1>3, <1>4, <1>5, <1>6, <1>7, MarkMoves

-----------------------------------------------------------------------------
(* Alerts that are not mailed.                                             *)

\* Alert r is in the hands of the digest of w.
Held(r, w) ==
    \/ digest[w].step = "claimed" /\ alerts[r] # NoAlert /\ alerts[r] > digest[w].last
    \/ digest[w].step \in {"sending", "restoring"} /\ r \in digest[w].batch

\* Held is membership in Claimed, in both states of a step.
LEMMA HeldIsClaimed ==
    ASSUME NEW r \in Requests, NEW w \in Workers
    PROVE  /\ r \in Claimed(w) <=> Held(r, w)
           /\ r \in Claimed(w)' <=> Held(r, w)'
<1>1. r \in Claimed(w) <=> Held(r, w)
  BY DEF Claimed, Held, Since
<1>2. r \in Claimed(w)' <=> Held(r, w)'
  BY DEF Claimed, Held, Since
<1> QED BY <1>1, <1>2

\* Alert r is selected by a digest to come, or in the hands of a running one.
Pending(r) == mark = Never \/ alerts[r] > mark \/ \E w \in Workers : Held(r, w)

\* The conclusion of MissesExplained is that the alert is pending,
LEMMA PendingFacts ==
    ASSUME NEW r \in Requests, alerts[r] # NoAlert
    PROVE  Pending(r) <=> (Awaited(alerts[r]) \/ \E w \in Workers : r \in Claimed(w))
BY HeldIsClaimed DEF Pending, Awaited, Held

\* ... also after a step.
LEMMA PendingNext ==
    ASSUME NEW r \in Requests, Pending(r)'
    PROVE  Awaited(alerts[r])' \/ \E w \in Workers : r \in Claimed(w)'
BY HeldIsClaimed DEF Pending, Awaited

\* What was counted as late, dropped or reported stays so.
LEMMA HistoryStays ==
    ASSUME Types, [Next]_vars
    PROVE  /\ late \subseteq late' /\ dropped \subseteq dropped'
           /\ \A r \in Requests : reported[r] # Never => reported'[r] = reported[r]
<1>1. CASE UNCHANGED <<late, digestVars>>
  BY <1>1 DEF digestVars
<1>2. ASSUME NEW w \in Workers, NEW c \in Slots, Commit(w, c)
      PROVE  late \subseteq late' /\ UNCHANGED digestVars
  BY <1>2 DEF Commit
<1>3. ASSUME NEW w \in Workers, Send(w)
      PROVE  /\ late \subseteq late' /\ dropped \subseteq dropped'
             /\ \A r \in Requests : reported[r] # Never => reported'[r] = reported[r]
  BY <1>3 DEF Send
<1>4. ASSUME NEW w \in Workers, \/ FirstCycle(w) \/ Due(w) \/ Claim(w) \/ Gather(w)
                                \/ SendSwallowed(w) \/ SendRaises(w) \/ Restore(w)
                                \/ RestoreFails(w) \/ Crash(w)
      PROVE  late \subseteq late' /\ dropped \subseteq dropped' /\ reported' = reported
  BY <1>4 DEF FirstCycle, Due, Claim, Gather, SendSwallowed, SendRaises, Restore, RestoreFails,
              Crash
<1>5. ASSUME UNCHANGED digestVars
      PROVE  UNCHANGED <<dropped, reported>>
  BY <1>5 DEF digestVars
<1> QED BY <1>1, <1>2, <1>3, <1>4, <1>5, DlpSteps

LEMMA MissesInit == Init => MissesExplained
BY DEF Init, MissesExplained

\* An alert that was pending and has neither been mailed nor dropped is pending.
LEMMA PendingStays ==
    ASSUME Types, Batches, [Next]_vars, NEW r \in Requests, Pending(r),
           alerts[r] # NoAlert, alerts'[r] = alerts[r],
           reported'[r] = Never, r \notin late' \cup dropped'
    PROVE  Pending(r)'
<1> USE DEF Types, RowTypes
<1>1. /\ alerts[r] \in Times
      /\ \A w \in Workers : digest[w] \in DigestType
  OBVIOUS
<1>2. \A w \in Workers : digest'[w] = digest[w] /\ Held(r, w) => Held(r, w)'
  BY DEF Held
<1>3. CASE UNCHANGED digestVars
  BY <1>2, <1>3 DEF digestVars, Pending
<1>4. ASSUME NEW w \in Workers, \A v \in Workers \ {w} : digest'[v] = digest[v], mark' = mark,
             Held(r, w) => Held(r, w)'
      PROVE  Pending(r)'
  BY <1>2, <1>4 DEF Pending
<1>5. ASSUME NEW w \in Workers, FirstCycle(w) PROVE Pending(r)'
  BY <1>1, <1>5 DEF FirstCycle, Pending, Times
<1>6. ASSUME NEW w \in Workers, Due(w) PROVE Pending(r)'
  <2>1. ~Held(r, w) /\ mark' = mark /\ \A v \in Workers \ {w} : digest'[v] = digest[v]
    BY <1>6 DEF Due, Held, Asleep
  <2> QED BY <1>4, <2>1
<1>7. ASSUME NEW w \in Workers, Claim(w) PROVE Pending(r)'
  <2>1. ~Held(r, w) /\ \A v \in Workers \ {w} : digest'[v] = digest[v]
    BY <1>7 DEF Claim, Held
  <2>2. CASE mark' = mark
    BY <1>4, <2>1, <2>2
  <2>3. CASE /\ digest[w].step = "due" /\ mark = digest[w].last /\ digest'[w].step = "claimed"
             /\ digest'[w].last = digest[w].last
    <3>1. mark # Never
      BY <1>1, <2>3, DigestFacts DEF Times, Never
    <3>2. CASE alerts[r] > mark
      BY <2>3, <3>2 DEF Held, Pending
    <3>3. ASSUME NEW v \in Workers, Held(r, v) PROVE Pending(r)'
      BY <1>2, <2>1, <3>3 DEF Pending
    <3> QED BY <3>1, <3>2, <3>3 DEF Pending
  <2> QED BY <1>7, <2>2, <2>3, DigestTurns
<1>8. ASSUME NEW w \in Workers, Gather(w) PROVE Pending(r)'
  <2>1. mark' = mark /\ \A v \in Workers \ {w} : digest'[v] = digest[v]
    BY <1>8 DEF Gather
  <2>2. ASSUME Held(r, w) PROVE Held(r, w)'
    <3>1. digest[w].step = "claimed" /\ r \in Since(digest[w].last)
      BY <1>8, <2>2, SinceFacts DEF Gather, Held
    <3>2. digest'[w] = [step |-> "sending", last |-> digest[w].last, now |-> digest[w].now,
                        batch |-> Since(digest[w].last)]
      BY <1>8, <3>1, DigestTurns
    <3> QED BY <3>1, <3>2 DEF Held
  <2> QED BY <1>4, <2>1, <2>2
<1>9. ASSUME NEW w \in Workers, Send(w) PROVE Pending(r)'
  <2>1. mark' = mark /\ \A v \in Workers \ {w} : digest'[v] = digest[v]
    BY <1>9 DEF Send
  <2>2. ~Held(r, w)
    BY <1>1, <1>9, DigestFacts DEF Send, Held, Never, Times
  <2> QED BY <1>4, <2>1, <2>2
<1>10. ASSUME NEW w \in Workers, SendSwallowed(w) \/ RestoreFails(w) PROVE Pending(r)'
  <2>1. mark' = mark /\ \A v \in Workers \ {w} : digest'[v] = digest[v]
    BY <1>10 DEF SendSwallowed, RestoreFails
  <2>2. ~Held(r, w)
    BY <1>10 DEF SendSwallowed, RestoreFails, Held
  <2> QED BY <1>4, <2>1, <2>2
<1>11. ASSUME NEW w \in Workers, SendRaises(w) PROVE Pending(r)'
  <2>1. mark' = mark /\ \A v \in Workers \ {w} : digest'[v] = digest[v]
    BY <1>11 DEF SendRaises
  <2>2. /\ digest[w].step = "sending"
        /\ digest'[w] = [step |-> "restoring", last |-> digest[w].last, now |-> digest[w].now,
                         batch |-> digest[w].batch]
    BY <1>11, DigestTurns
  <2>3. Held(r, w) => Held(r, w)'
    BY <2>2 DEF Held
  <2> QED BY <1>4, <2>1, <2>3
<1>12. ASSUME NEW w \in Workers, Restore(w) PROVE Pending(r)'
  <2>1. /\ digest[w].step = "restoring" /\ mark' = digest[w].last
        /\ dropped' = dropped \cup (Since(mark) \ Since(digest[w].last))
        /\ \A v \in Workers \ {w} : digest'[v] = digest[v]
    BY <1>12 DEF Restore
  <2>2. CASE mark = Never \/ alerts[r] > mark
    <3>1. r \in Since(mark)
      BY <1>1, <2>2, SinceFacts DEF Never, Times
    <3>2. alerts[r] > digest[w].last
      BY <2>1, <3>1, SinceFacts
    <3> QED BY <2>1, <3>2 DEF Pending
  <2>3. CASE Held(r, w)
    <3>1. alerts[r] > digest[w].last
      BY <2>1, <2>3 DEF Held, Batches
    <3> QED BY <2>1, <3>1 DEF Pending
  <2>4. ASSUME NEW v \in Workers \ {w}, Held(r, v) PROVE Pending(r)'
    BY <1>2, <2>1, <2>4 DEF Pending
  <2> QED BY <2>2, <2>3, <2>4 DEF Pending
<1>13. ASSUME NEW w \in Workers, Crash(w) PROVE Pending(r)'
  <2>1. mark' = mark /\ \A v \in Workers \ {w} : digest'[v] = digest[v]
    BY <1>13 DEF Crash
  <2>2. ~Held(r, w)
    BY <1>13, HeldIsClaimed DEF Crash
  <2> QED BY <1>4, <2>1, <2>2
<1>14. ASSUME NEW w \in Workers, NEW c \in Slots, Commit(w, c) PROVE Pending(r)'
  BY <1>3, <1>14 DEF Commit
<1> QED BY <1>3, <1>5, <1>6, <1>7, <1>8, <1>9, <1>10, <1>11, <1>12, <1>13, <1>14, DlpSteps

\* An alert is pending when it is committed, unless it is late, and stays so.
LEMMA MissesStep ==
    ASSUME Types, Once, Batches, MissesExplained, [Next]_vars
    PROVE  MissesExplained'
<1> USE DEF Types, RowTypes
<1> SUFFICES ASSUME NEW r \in Requests, alerts'[r] # NoAlert, reported'[r] = Never,
                    r \notin late' \cup dropped'
             PROVE  Awaited(alerts[r])' \/ \E w \in Workers : r \in Claimed(w)'
  BY DEF MissesExplained
<1>1. CASE alerts[r] # NoAlert
  <2>1. /\ alerts'[r] = alerts[r]
        /\ reported[r] = Never /\ r \notin late \cup dropped
    BY <1>1, AlertsStay, HistoryStays
  <2>2. Pending(r)
    BY <1>1, <2>1, PendingFacts DEF MissesExplained
  <2>3. Pending(r)'
    BY <1>1, <2>1, <2>2, PendingStays
  <2> QED BY <2>3, PendingNext
<1>2. CASE alerts[r] = NoAlert
  <2>1. alerts' # alerts
    BY <1>2
  <2>2. PICK w \in Workers, c \in Slots : Commit(w, c)
    BY <2>1, DlpSteps, DigestOnly
  <2>3. /\ alerts' = [alerts EXCEPT ![task[w][c].req] = task[w][c].at]
        /\ late' = IF Awaited(task[w][c].at) THEN late ELSE late \cup {task[w][c].req}
        /\ mark' = mark /\ digest' = digest
    BY <2>2 DEF Commit, digestVars
  <2>4. r = task[w][c].req /\ alerts'[r] = task[w][c].at
    BY <1>2, <2>3
  <2>5. Awaited(task[w][c].at)
    BY <2>3, <2>4
  <2> QED BY <2>3, <2>4, <2>5 DEF Awaited
<1> QED BY <1>1, <1>2

-----------------------------------------------------------------------------
(* The theorems.                                                           *)

DlpInv == Types /\ Once /\ Batches /\ Windows

\* The conjunction is inductive.
LEMMA InvariantHolds == Spec => []DlpInv
<1>1. Init => DlpInv
  BY ScanTypesInit, RowTypesInit, OnceInit, BatchesInit, WindowsInit DEF DlpInv, Types
<1>2. DlpInv /\ [Next]_vars => DlpInv'
  BY ScanTypesStep, RowTypesStep, OnceStep, BatchesStep, WindowsStep DEF DlpInv, Types
<1> QED BY <1>1, <1>2, PTL DEF Spec

\* A queue never exceeds its bound, only consumers of the pool scan, and a digest
\* covers a window that is not empty.
THEOREM DlpTypes == Spec => []TypeOK
<1>1. DlpInv => TypeOK
  <2> SUFFICES ASSUME DlpInv PROVE TypeOK
    OBVIOUS
  <2>1. \A w \in Workers : /\ Len(queue[w]) <= QueueMax
                           /\ \A i \in DOMAIN queue[w] : queue[w][i] \in Requests
    BY DEF DlpInv, Types, ScanTypes
  <2>2. \A w \in Workers : digest[w] # Asleep => digest[w].last < digest[w].now
    BY DEF DlpInv, Batches
  <2>3. /\ offered \subseteq Requests
        /\ consumers \in [Workers -> 0 .. MaxConsumers]
        /\ task \in [Workers -> [Slots -> TaskType]]
        /\ \A w \in Workers, c \in Slots : task[w][c] # Free => c <= consumers[w]
        /\ seen \in [Workers -> SUBSET {Value[r] : r \in Requests}]
        /\ forgone \in [Workers -> SUBSET {Value[r] : r \in Requests}]
    BY DEF DlpInv, Types, ScanTypes, Slots, Values
  <2> QED BY <2>1, <2>2, <2>3 DEF DlpInv, Types, RowTypes, TypeOK, Times
<1> QED BY <1>1, InvariantHolds, PTL

\* De-duplication hides a repeat, never the value: a value that suppresses alerts has
\* one, or one on its way, unless a scan failed or was cancelled after it had marked it
\* (_dedup_is_duplicate marks before create_dlp_alert commits).
THEOREM SuppressionAccounted == Spec => []SuppressionExplained
<1>1. Init => SuppressionExplained
  BY SuppressionInit
<1>2. DlpInv /\ SuppressionExplained /\ [Next]_vars => SuppressionExplained'
  BY SuppressionStep DEF DlpInv
<1> QED BY <1>1, <1>2, InvariantHolds, PTL DEF Spec

\* No alert is lost between two digests (_maybe_send_digest) but those that were late
\* or whose digest was dropped.
THEOREM MissesAccounted == Spec => []MissesExplained
<1>1. Init => MissesExplained
  BY MissesInit
<1>2. DlpInv /\ MissesExplained /\ [Next]_vars => MissesExplained'
  BY MissesStep DEF DlpInv
<1> QED BY <1>1, <1>2, InvariantHolds, PTL DEF Spec

\* No alert is in two mails but one stamped after the window of one of them, or while
\* a write-back has undone a claim (_claim_digest_window).
THEOREM RepeatsAccounted == Spec => RepeatsExplained
<1>1. ASSUME DlpInv, [Next]_vars, NEW w \in Workers, digest[w].step = "sending",
             NEW r \in digest[w].batch
      PROVE  \/ reported[r] = Never
             \/ alerts[r] > reported[r] \/ alerts[r] > digest[w].now
             \/ rewound
  <2>1. r \in Requests /\ digest[w].last \in Times /\ digest[w].now \in Times
    BY <1>1, DigestFacts DEF DlpInv, Types, RowTypes
  <2>2. alerts[r] > digest[w].last /\ alerts[r] \in Times \cup {NoAlert}
    BY <1>1, <2>1 DEF DlpInv, Batches, Types, RowTypes
  <2>3. reported[r] \in Times \cup {Never}
    BY <1>1, <2>1 DEF DlpInv, Types, RowTypes
  <2>4. CASE ~rewound
    <3>1. Outside(r, w)
      BY <1>1, <2>1, <2>4 DEF DlpInv, Windows, Active
    <3> QED BY <2>1, <2>2, <2>3, <3>1 DEF Outside, Times, NoAlert, Never
  <2> QED BY <1>1, <2>4 DEF DlpInv, Types, RowTypes
<1>2. DlpInv /\ [Next]_vars =>
        [\A w \in Workers :
            (digest[w].step = "sending" /\ Send(w)) =>
               \A r \in digest[w].batch :
                  \/ reported[r] = Never
                  \/ alerts[r] > reported[r] \/ alerts[r] > digest[w].now
                  \/ rewound]_vars
  BY <1>1
<1> QED BY <1>2, InvariantHolds, PTL DEF Spec, RepeatsExplained

=============================================================================
