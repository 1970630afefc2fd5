--------------------------- MODULE RetentionProofs ---------------------------
(***************************************************************************)
(* What Retention guarantees for any finite set of workers and items, any  *)
(* batch size, any payloads the archive refuses and any number of faults   *)
(* and purges: an item is removed and counted once, and content leaves     *)
(* both databases only for a listed reason.                                *)
(***************************************************************************)
EXTENDS Retention, FiniteSetTheorems, TLAPS

USE RetentionAssumption DEF RetentionAssumption

-----------------------------------------------------------------------------
(* The inductive invariants.                                               *)

Runs == [at : {"idle", "batch", "staged", "committed", "tier2"}, kind : Kinds,
         purge : BOOLEAN, safe : SUBSET Items, read : [Items -> SUBSET Row],
         pend : [Items -> SUBSET Row]]

\* Types; the bound of the totals is a part of its own.
Types ==
    /\ archiving \in BOOLEAN
    /\ parts \in [Items -> SUBSET Row]
    /\ expired \in SUBSET Items /\ files \in SUBSET Chats
    /\ arch \in [Items -> SUBSET Row]
    /\ counted \in [Items -> Nat]
    /\ lock \in Workers \cup {NoWorker}
    /\ run \in [Workers -> Runs]
    /\ events \in 0 .. MaxEvents
    /\ overlapped \in BOOLEAN

\* What a staged batch is about to delete has no files left, and its copies are
\* what was read of it.
StagedInPlace ==
    \A w \in Workers :
        run[w].at = "staged" =>
            /\ run[w].safe \cap files = {}
            /\ \A i \in run[w].safe : run[w].pend[i] = run[w].read[i]

\* While no lock was lost only its holder is at work, so what it has staged is
\* still there.
SoleRunner ==
    ~overlapped =>
        \A w \in Workers :
            /\ run[w].at # "idle" => lock = w
            /\ run[w].at = "staged" => \A i \in run[w].safe \cap Requests : parts[i] # {}

\* The totals hold nothing that is live and, while no lock was lost, each
\* request that is gone.
CountsInPlace ==
    /\ \A i \in Items : parts[i] # {} => counted[i] = 0
    /\ ~overlapped => \A i \in Requests : parts[i] = {} => counted[i] = 1
    /\ \A i \in Chats : parts[i] = {} => i \notin files

\* The workers that are about to remove item i, and to count it once more each.
Removing(i) == {w \in Workers : run[w].at = "staged" /\ i \in run[w].safe}

CountsBounded ==
    \A i \in Items :
        parts[i] = {} => counted[i] + Cardinality(Removing(i)) <= 1 + Cardinality(Workers)

RetentionInv == Types /\ StagedInPlace /\ SoleRunner /\ CountsInPlace

-----------------------------------------------------------------------------
(* What a step does to the runs and to the rows.                           *)

\* A run that begins, goes on with a batch of its own, or is over.
Quiet(r) == r \in Runs /\ r.at \in {"idle", "batch", "tier2"}

\* The idle run is quiet.
LEMMA IdleIsQuiet == Quiet(Idle) /\ Idle.at = "idle"
<1>1. Nothing \in [Items -> SUBSET Row]
  BY DEF Nothing
<1> QED BY <1>1 DEF Idle, Runs, Kinds, Quiet

\* Worker w goes on with run r, and gives the lock back if r is idle.
Turn(w, r) ==
    /\ run' = [run EXCEPT ![w] = r]
    /\ Quiet(r)
    /\ \/ lock' = lock /\ r.at # "idle" /\ run[w].at # "idle"
       \/ lock' = (IF lock = w THEN NoWorker ELSE lock) /\ r.at = "idle"

\* A cycle goes on with a batch or is over.
LEMMA NextKindTurns ==
    ASSUME NEW w \in Workers, run[w].at # "idle", NextKind(w) \/ Finish(w)
    PROVE  \E r : Turn(w, r)
<1>1. CASE Finish(w)
  <2>1. Turn(w, Idle)
    BY <1>1, IdleIsQuiet DEF Finish, Turn
  <2> QED BY <2>1
<1>2. CASE NextKind(w) /\ ~Finish(w)
  <2>1. PICK r \in {[Idle EXCEPT !.at = "batch", !.kind = "chats"], [Idle EXCEPT !.at = "tier2"],
                    [Idle EXCEPT !.at = "batch", !.kind = "plain"]} :
          run' = [run EXCEPT ![w] = r] /\ lock' = lock
    BY <1>2 DEF NextKind
  <2>2. Nothing \in [Items -> SUBSET Row]
    BY DEF Nothing
  <2>3. Quiet(r) /\ r.at # "idle"
    BY <2>1, <2>2 DEF Quiet, Idle, Runs, Kinds
  <2> QED BY <2>1, <2>3 DEF Turn
<1> QED BY <1>1, <1>2

\* A batch and what the archive makes of it.
LEMMA BatchFacts ==
    ASSUME Types, NEW w \in Workers, NEW b \in Batches(w), NEW r \in Refusals(b)
    PROVE  /\ b \in SUBSET Items /\ b \subseteq Due(w) /\ DOMAIN r \subseteq b
           /\ \A i \in b : parts[i] # {}
           /\ Copies(b, r) \in [Items -> SUBSET Row]
           /\ \A i \in b \ DOMAIN r : Copies(b, r)[i] = parts[i]
<1>1. b \subseteq Due(w)
  BY DEF Batches
<1>2. Due(w) \subseteq Items /\ \A i \in Due(w) : parts[i] # {}
  BY DEF Due, KindOf, Items
<1>3. PICK skipped \in SUBSET b : r \in [skipped -> SUBSET Row]
  BY DEF Refusals
<1>4. DOMAIN r \subseteq b /\ \A i \in DOMAIN r : r[i] \in SUBSET Row
  BY <1>3
<1>5. \A i \in Items : parts[i] \in SUBSET Row
  BY DEF Types
<1>6. Copies(b, r) \in [Items -> SUBSET Row]
  BY <1>4, <1>5 DEF Copies
<1>7. \A i \in b \ DOMAIN r : Copies(b, r)[i] = parts[i]
  BY <1>1, <1>2 DEF Copies
<1> QED BY <1>1, <1>2, <1>4, <1>6, <1>7

\* A batch is staged, or given up with what the archive took of it.
Staged(w) ==
    \E c \in Runs :
        /\ run' = [run EXCEPT ![w] = c] /\ run[w].at = "batch"
        /\ c.at = "staged" /\ c.safe \subseteq Due(w) /\ c.safe \cap files' = {}
        /\ \A i \in c.safe : c.pend[i] = c.read[i]
        /\ UNCHANGED <<lock, arch>>

\* What StageSome stages.
LEMMA StageFacts ==
    ASSUME Types, NEW w \in Workers, StageSome(w)
    PROVE  /\ Staged(w) \/ \E r : Turn(w, r)
           /\ run[w].at = "batch"
           /\ files' \subseteq files /\ events' \in 0 .. MaxEvents
           /\ arch' \in [Items -> SUBSET Row] /\ \A i \in Items : arch[i] \subseteq arch'[i]
           /\ UNCHANGED <<archiving, parts, expired, counted, overlapped>>
<1>1. PICK b \in Batches(w) : \E r \in Refusals(b) : Stage(w, b, r)
  BY DEF StageSome
<1>2. PICK r \in Refusals(b) : Stage(w, b, r)
  BY <1>1
<1>3. /\ run[w].at = "batch" /\ files' = files \ b
      /\ UNCHANGED <<archiving, parts, expired, counted, overlapped>>
  BY <1>2 DEF Stage
<1>4. events' \in 0 .. MaxEvents
  BY <1>2 DEF Stage, Event, Types
<1> DEFINE copies == Copies(b, r)
           read == [i \in Items |-> IF i \in b THEN parts[i] ELSE {}]
<1>5. /\ b \in SUBSET Items /\ b \subseteq Due(w) /\ DOMAIN r \subseteq b
      /\ copies \in [Items -> SUBSET Row] /\ \A i \in b \ DOMAIN r : copies[i] = parts[i]
  BY BatchFacts
<1>6. CASE DOMAIN r = b
  <2>1. NextKind(w) /\ arch' = [i \in Items |-> arch[i] \cup copies[i]]
    BY <1>2, <1>6 DEF Stage
  <2> HIDE DEF copies
  <2>2. \E t : Turn(w, t)
    BY <1>3, <2>1, NextKindTurns
  <2>3. arch' \in [Items -> SUBSET Row] /\ \A i \in Items : arch[i] \subseteq arch'[i]
    BY <1>5, <2>1 DEF Types
  <2> QED BY <1>3, <1>4, <2>2, <2>3
<1>7. CASE DOMAIN r # b
  <2> DEFINE c == [run[w] EXCEPT !.at = "staged", !.safe = b \ DOMAIN r, !.read = read, !.pend = copies]
  <2>1. run' = [run EXCEPT ![w] = c] /\ UNCHANGED <<lock, arch>>
    BY <1>2, <1>7 DEF Stage
  <2>2. read \in [Items -> SUBSET Row] /\ \A i \in b : read[i] = parts[i]
    BY <1>5 DEF Types
  <2> HIDE DEF copies, read
  <2>3. c \in Runs
    <3>1. run[w] \in Runs
      BY DEF Types
    <3> QED BY <1>5, <2>2, <3>1 DEF Runs
  <2>4. c.at = "staged" /\ c.safe = b \ DOMAIN r /\ c.read = read /\ c.pend = copies
    <3>1. run[w] \in Runs
      BY DEF Types
    <3> QED BY <3>1 DEF Runs
  <2> HIDE DEF c
  <2>5. \A i \in c.safe : c.pend[i] = c.read[i]
    BY <1>5, <2>2, <2>4
  <2>6. c.safe \subseteq Due(w) /\ c.safe \cap files' = {}
    BY <1>3, <1>5, <2>4
  <2>7. Staged(w)
    BY <1>3, <2>1, <2>3, <2>4, <2>5, <2>6 DEF Staged
  <2> QED BY <1>3, <1>4, <2>1, <2>7 DEF Types
<1> QED BY <1>6, <1>7

\* What the deletes of a batch leave.
LEMMA RemoveFacts ==
    ASSUME Types, NEW gone \in SUBSET Items, Remove(gone)
    PROVE  /\ parts' \in [Items -> SUBSET Row] /\ expired' \in SUBSET Items
           /\ \A i \in Items : parts'[i] = IF i \in gone THEN {} ELSE parts[i]
BY DEF Types, Remove

\* The items some requests are counted of are counted once more.
LEMMA CountFacts ==
    ASSUME Types, NEW some \in SUBSET Items,
           counted' = [i \in Items |-> IF i \in some THEN counted[i] + 1 ELSE counted[i]]
    PROVE  counted' \in [Items -> Nat]
BY DEF Types

\* The steps that begin, go on with or end a run and write no row of the
\* application database.
LEMMA TurnFacts ==
    ASSUME Types, NEW w \in Workers,
           \/ StartCycle(w) \/ (\E kind \in Kinds : StartPurge(w, kind)) \/ NoneLeft(w)
           \/ ArchiveCommit(w) \/ Tier2(w) \/ Abort(w)
    PROVE  /\ \/ \E r : Turn(w, r)
              \/ run[w].at = "idle" /\ lock = NoWorker /\ lock' = w
                 /\ \E r : Quiet(r) /\ run' = [run EXCEPT ![w] = r]
           /\ events' \in 0 .. MaxEvents /\ arch' \in [Items -> SUBSET Row]
           /\ UNCHANGED <<archiving, parts, expired, files, counted, overlapped>>
<1> USE DEF dataVars
<1> DEFINE Began == /\ run[w].at = "idle" /\ lock = NoWorker /\ lock' = w
                    /\ \E r : Quiet(r) /\ run' = [run EXCEPT ![w] = r]
           Same == UNCHANGED <<archiving, parts, expired, files, counted, overlapped>>
<1>1. Nothing \in [Items -> SUBSET Row]
  BY DEF Nothing
<1>2. run[w] \in Runs
  BY DEF Types
<1>3. ASSUME NEW kind \in Kinds, NEW purge \in BOOLEAN, Acquire(w, kind, purge) PROVE Began
  <2> DEFINE r == [Idle EXCEPT !.at = "batch", !.kind = kind, !.purge = purge]
  <2>1. Quiet(r)
    BY <1>1 DEF Quiet, Idle, Runs, Kinds
  <2>2. run[w].at = "idle" /\ lock = NoWorker /\ lock' = w /\ run' = [run EXCEPT ![w] = r]
    BY <1>3 DEF Acquire
  <2> HIDE DEF r
  <2> QED BY <2>1, <2>2
<1>4. CASE StartCycle(w)
  <2>1. Acquire(w, "requests", FALSE) /\ Same /\ events' = events /\ arch' = arch
    BY <1>4 DEF StartCycle
  <2> QED BY <1>3, <2>1 DEF Types, Kinds
<1>5. ASSUME NEW kind \in Kinds, StartPurge(w, kind)
      PROVE  Began /\ Same /\ events' \in 0 .. MaxEvents /\ arch' = arch
  <2>1. Acquire(w, kind, TRUE) /\ Same /\ Event /\ arch' = arch
    BY <1>5 DEF StartPurge
  <2>2. Began
    BY <1>3, <2>1
  <2>3. events' \in 0 .. MaxEvents
    BY <2>1 DEF Event, Types
  <2> QED BY <2>1, <2>2, <2>3
<1>6. CASE NoneLeft(w)
  <2>1. \E r : Turn(w, r)
    BY <1>6, NextKindTurns DEF NoneLeft
  <2> QED BY <1>6, <2>1 DEF NoneLeft, Types
<1>7. CASE Abort(w)
  <2>1. \E r : Turn(w, r)
    BY <1>7, NextKindTurns DEF Abort
  <2> QED BY <1>7, <2>1 DEF Abort, Event, Types
<1>8. CASE ArchiveCommit(w)
  <2> DEFINE r == [Idle EXCEPT !.at = "batch", !.kind = run[w].kind, !.purge = run[w].purge]
  <2>1. Quiet(r) /\ r.at # "idle"
    BY <1>1, <1>2 DEF Quiet, Idle, Runs
  <2>2. run' = [run EXCEPT ![w] = r] /\ lock' = lock /\ run[w].at # "idle"
        /\ arch' = [i \in Items |-> arch[i] \cup run[w].pend[i]] /\ Same /\ events' = events
    BY <1>8 DEF ArchiveCommit
  <2> HIDE DEF r
  <2>3. Turn(w, r)
    BY <2>1, <2>2 DEF Turn
  <2>4. arch' \in [Items -> SUBSET Row]
    BY <1>2, <2>2 DEF Types, Runs
  <2> QED BY <2>2, <2>3, <2>4 DEF Types
<1>9. CASE Tier2(w)
  <2> DEFINE r == [Idle EXCEPT !.at = "batch", !.kind = "plain"]
  <2>1. Quiet(r) /\ r.at # "idle"
    BY <1>1 DEF Quiet, Idle, Runs, Kinds
  <2>2. run' = [run EXCEPT ![w] = r] /\ lock' = lock /\ run[w].at # "idle" /\ Same
        /\ events' = events
    BY <1>9 DEF Tier2
  <2> HIDE DEF r
  <2>3. Turn(w, r)
    BY <2>1, <2>2 DEF Turn
  <2>4. arch' \in [Items -> SUBSET Row]
    BY <1>9 DEF Tier2, Types
  <2> QED BY <2>2, <2>3, <2>4 DEF Types
<1> QED BY <1>4, <1>5, <1>6, <1>7, <1>8, <1>9 DEF Types

\* The steps that leave the runs as they are.
Elsewhere ==
    \/ \E w \in Workers : LockLost(w)
    \/ \E i \in Items : \E touches \in BOOLEAN : Write(i, touches)
    \/ \E i \in Items : Expire(i)
    \/ UNCHANGED vars

\* What the other steps leave alone.
LEMMA ElsewhereFacts ==
    ASSUME Types, Elsewhere
    PROVE  /\ UNCHANGED <<archiving, run, files, counted, arch>>
           /\ lock' \in {lock, NoWorker} /\ (lock' # lock => overlapped')
           /\ overlapped' \in BOOLEAN /\ (overlapped => overlapped')
           /\ parts' \in [Items -> SUBSET Row] /\ expired' \in SUBSET Items
           /\ \A i \in Items : parts[i] \subseteq parts'[i] /\ (parts[i] = {} => parts'[i] = {})
           /\ events' \in 0 .. MaxEvents
<1> USE DEF dataVars
<1>1. ASSUME NEW w \in Workers, LockLost(w)
      PROVE  UNCHANGED <<archiving, dataVars, run>> /\ lock' = NoWorker /\ overlapped' = TRUE
             /\ events' \in 0 .. MaxEvents
  BY <1>1 DEF LockLost, Event, Types
<1>2. ASSUME NEW i \in Items, NEW touches \in BOOLEAN, Write(i, touches)
      PROVE  /\ UNCHANGED <<archiving, run, files, counted, arch, lock, overlapped, events>>
             /\ parts' = [parts EXCEPT ![i] = parts[i] \cup {"late"}] /\ parts[i] # {}
             /\ expired' \in {expired, expired \ {i}}
  BY <1>2 DEF Write
<1>3. ASSUME NEW i \in Items, Expire(i)
      PROVE  /\ UNCHANGED <<archiving, run, files, counted, arch, lock, overlapped, events, parts>>
             /\ expired' = expired \cup {i}
  BY <1>3 DEF Expire
<1>4. CASE \E w \in Workers : LockLost(w)
  BY <1>1, <1>4 DEF Types
<1>5. CASE \E i \in Items : \E touches \in BOOLEAN : Write(i, touches)
  <2>1. PICK i \in Items : \E touches \in BOOLEAN : Write(i, touches)
    BY <1>5
  <2>2. /\ UNCHANGED <<archiving, run, files, counted, arch, lock, overlapped, events>>
        /\ parts' = [parts EXCEPT ![i] = parts[i] \cup {"late"}] /\ parts[i] # {}
        /\ expired' \in {expired, expired \ {i}}
    BY <1>2, <2>1
  <2>3. parts' \in [Items -> SUBSET Row]
    BY <2>2 DEF Types, Row
  <2>4. \A k \in Items : parts[k] \subseteq parts'[k] /\ (parts[k] = {} => parts'[k] = {})
    BY <2>2 DEF Types
  <2> QED BY <2>2, <2>3, <2>4 DEF Types
<1>6. CASE \E i \in Items : Expire(i)
  BY <1>3, <1>6 DEF Types
<1>7. CASE UNCHANGED vars
  BY <1>7 DEF vars, Types
<1> QED BY <1>4, <1>5, <1>6, <1>7 DEF Elsewhere

\* The delete of a batch that was staged.
LEMMA CommitFacts ==
    ASSUME Types, NEW w \in Workers, AppCommit(w)
    PROVE  /\ run[w].at = "staged" /\ run[w].safe \in SUBSET Items
           /\ run' = [run EXCEPT ![w].at = "committed"]
           /\ run'[w] = [run[w] EXCEPT !.at = "committed"] /\ run'[w] \in Runs
           /\ run'[w].at = "committed" /\ run'[w].pend = run[w].pend
           /\ \A v \in Workers \ {w} : run'[v] = run[v]
           /\ parts' \in [Items -> SUBSET Row] /\ expired' \in SUBSET Items
           /\ \A i \in Items : parts'[i] = IF i \in run[w].safe THEN {} ELSE parts[i]
           /\ counted' \in [Items -> Nat]
           /\ \A i \in Items : counted'[i] = IF i \in run[w].safe \cap Requests
                                             THEN counted[i] + 1 ELSE counted[i]
           /\ UNCHANGED <<archiving, files, arch, lock, events, overlapped>>
<1>1. run[w] \in Runs /\ run[w].safe \in SUBSET Items
  BY DEF Types, Runs
<1>2. /\ run[w].at = "staged" /\ Remove(run[w].safe)
      /\ run' = [run EXCEPT ![w].at = "committed"]
      /\ counted' = [i \in Items |-> IF i \in run[w].safe \cap Requests THEN counted[i] + 1
                                                                       ELSE counted[i]]
      /\ UNCHANGED <<archiving, files, arch, lock, events, overlapped>>
  BY DEF AppCommit
<1>3. run'[w] = [run[w] EXCEPT !.at = "committed"] /\ \A v \in Workers \ {w} : run'[v] = run[v]
  BY <1>2 DEF Types
<1>4. run'[w] \in Runs /\ run'[w].at = "committed" /\ run'[w].pend = run[w].pend
  BY <1>1, <1>3 DEF Runs
<1>5. counted' \in [Items -> Nat]
  BY <1>1, <1>2, CountFacts
<1>6. \A i \in Items : counted'[i] = IF i \in run[w].safe \cap Requests THEN counted[i] + 1
                                                                       ELSE counted[i]
  BY <1>2
<1> QED BY <1>1, <1>2, <1>3, <1>4, <1>5, <1>6, RemoveFacts

\* The delete of a batch that is not archived.
LEMMA DeleteFacts ==
    ASSUME Types, NEW w \in Workers, NEW b \in Batches(w), DeleteOnly(w, b)
    PROVE  /\ b \in SUBSET Items /\ \A i \in b : parts[i] # {}
           /\ run[w].at = "batch"
           /\ archiving => b \subseteq Plain
           /\ parts' \in [Items -> SUBSET Row] /\ expired' \in SUBSET Items
           /\ \A i \in Items : parts'[i] = IF i \in b THEN {} ELSE parts[i]
           /\ counted' \in [Items -> Nat]
           /\ \A i \in Items : counted'[i] = IF i \in b \cap Requests THEN counted[i] + 1
                                                                     ELSE counted[i]
           /\ files' = files \ b
           /\ UNCHANGED <<archiving, arch, lock, run, events, overlapped>>
<1>1. b \in SUBSET Items /\ \A i \in b : parts[i] # {}
  BY DEF Batches, Due, KindOf, Items
<1>2. /\ run[w].at = "batch" /\ (archiving => run[w].kind = "plain") /\ Remove(b)
      /\ counted' = [i \in Items |-> IF i \in b \cap Requests THEN counted[i] + 1 ELSE counted[i]]
      /\ files' = files \ b
      /\ UNCHANGED <<archiving, arch, lock, run, events, overlapped>>
  BY DEF DeleteOnly
<1>3. archiving => b \subseteq Plain
  BY <1>2 DEF Batches, Due, KindOf
<1>4. counted' \in [Items -> Nat]
  BY <1>1, <1>2, CountFacts
<1>5. \A i \in Items : counted'[i] = IF i \in b \cap Requests THEN counted[i] + 1 ELSE counted[i]
  BY <1>2
<1> QED BY <1>1, <1>2, <1>3, <1>4, <1>5, RemoveFacts

\* The delete of a conversation by its user.
LEMMA DeleteConversationFacts ==
    ASSUME Types, NEW i \in Items, DeleteConversation(i)
    PROVE  /\ i \in Chats /\ parts[i] # {}
           /\ parts' \in [Items -> SUBSET Row] /\ expired' \in SUBSET Items
           /\ \A k \in Items : parts'[k] = IF k = i THEN {} ELSE parts[k]
           /\ files' = files \ {i}
           /\ UNCHANGED <<archiving, arch, counted, lock, run, events, overlapped>>
<1>1. /\ i \in Chats /\ parts[i] # {} /\ Remove({i}) /\ files' = files \ {i}
      /\ UNCHANGED <<archiving, arch, counted, lock, run, events, overlapped>>
  BY DEF DeleteConversation
<1>2. {i} \in SUBSET Items
  OBVIOUS
<1>3. /\ parts' \in [Items -> SUBSET Row] /\ expired' \in SUBSET Items
      /\ \A k \in Items : parts'[k] = IF k \in {i} THEN {} ELSE parts[k]
  BY <1>1, <1>2, RemoveFacts
<1> QED BY <1>1, <1>3

\* Every step is one of these.
Turns(w) ==
    \/ StartCycle(w) \/ (\E kind \in Kinds : StartPurge(w, kind)) \/ NoneLeft(w)
    \/ ArchiveCommit(w) \/ Tier2(w) \/ Abort(w)

\* The kinds of steps.
LEMMA RetentionSteps ==
    ASSUME [Next]_vars
    PROVE  \/ \E w \in Workers : Turns(w) \/ StageSome(w) \/ AppCommit(w)
           \/ \E w \in Workers : \E b \in Batches(w) : DeleteOnly(w, b)
           \/ \E i \in Items : DeleteConversation(i)
           \/ Elsewhere
BY DEF Next, Work, Turns, Elsewhere

-----------------------------------------------------------------------------
(* The invariants.                                                         *)

\* Every step keeps the types.
LEMMA TypesStep == Types /\ [Next]_vars => Types'
<1> SUFFICES ASSUME Types, [Next]_vars PROVE Types'
  OBVIOUS
<1>1. ASSUME NEW w \in Workers, Turns(w) PROVE Types'
  <2>1. /\ \/ \E r : Turn(w, r)
           \/ lock' = w /\ \E r : Quiet(r) /\ run' = [run EXCEPT ![w] = r]
        /\ events' \in 0 .. MaxEvents /\ arch' \in [Items -> SUBSET Row]
        /\ UNCHANGED <<archiving, parts, expired, files, counted, overlapped>>
    BY <1>1, TurnFacts DEF Turns
  <2>2. run' \in [Workers -> Runs] /\ lock' \in Workers \cup {NoWorker}
    BY <2>1 DEF Turn, Quiet, Types
  <2> QED BY <2>1, <2>2 DEF Types
<1>2. ASSUME NEW w \in Workers, StageSome(w) PROVE Types'
  <2>1. /\ Staged(w) \/ \E r : Turn(w, r)
        /\ files' \subseteq files /\ events' \in 0 .. MaxEvents
        /\ arch' \in [Items -> SUBSET Row]
        /\ UNCHANGED <<archiving, parts, expired, counted, overlapped>>
    BY <1>2, StageFacts
  <2>2. run' \in [Workers -> Runs] /\ lock' \in Workers \cup {NoWorker}
    BY <2>1 DEF Turn, Staged, Quiet, Types
  <2> QED BY <2>1, <2>2 DEF Types
<1>3. ASSUME NEW w \in Workers, AppCommit(w) PROVE Types'
  <2>1. run' \in [Workers -> Runs]
    BY <1>3, CommitFacts DEF Types
  <2> QED BY <1>3, <2>1, CommitFacts DEF Types
<1>4. ASSUME NEW w \in Workers, NEW b \in Batches(w), DeleteOnly(w, b) PROVE Types'
  BY <1>4, DeleteFacts DEF Types
<1>5. ASSUME NEW i \in Items, DeleteConversation(i) PROVE Types'
  BY <1>5, DeleteConversationFacts DEF Types
<1>6. CASE Elsewhere
  BY <1>6, ElsewhereFacts DEF Types
<1> QED BY <1>1, <1>2, <1>3, <1>4, <1>5, <1>6, RetentionSteps

\* A staged batch stays as it was read.
LEMMA StagedStep == Types /\ StagedInPlace /\ [Next]_vars => StagedInPlace'
<1> SUFFICES ASSUME Types, StagedInPlace, [Next]_vars PROVE StagedInPlace'
  OBVIOUS
<1>1. ASSUME NEW w \in Workers, files' \subseteq files,
             \A v \in Workers \ {w} : run'[v] = run[v],
             \/ run'[w].at # "staged"
             \/ run'[w].safe \cap files' = {}
                /\ \A i \in run'[w].safe : run'[w].pend[i] = run'[w].read[i]
      PROVE  StagedInPlace'
  BY <1>1 DEF StagedInPlace
<1>2. ASSUME NEW w \in Workers, NEW r, Turn(w, r), files' \subseteq files PROVE StagedInPlace'
  <2>1. run'[w].at # "staged" /\ \A v \in Workers \ {w} : run'[v] = run[v]
    BY <1>2 DEF Turn, Quiet, Types
  <2> QED BY <1>1, <1>2, <2>1
<1>3. ASSUME NEW w \in Workers, Turns(w) PROVE StagedInPlace'
  <2>1. files' = files /\ \E r : Quiet(r) /\ run' = [run EXCEPT ![w] = r]
    BY <1>3, TurnFacts DEF Turns, Turn
  <2>2. run'[w].at # "staged" /\ \A v \in Workers \ {w} : run'[v] = run[v]
    BY <2>1 DEF Quiet, Types
  <2> QED BY <1>1, <2>1, <2>2
<1>4. ASSUME NEW w \in Workers, StageSome(w) PROVE StagedInPlace'
  <2>1. files' \subseteq files /\ (Staged(w) \/ \E r : Turn(w, r))
    BY <1>4, StageFacts
  <2>2. CASE Staged(w)
    BY <1>1, <2>1, <2>2 DEF Staged, Types
  <2> QED BY <1>2, <2>1, <2>2
<1>5. ASSUME NEW w \in Workers, AppCommit(w) PROVE StagedInPlace'
  BY <1>1, <1>5, CommitFacts
<1>6. ASSUME UNCHANGED run, files' \subseteq files PROVE StagedInPlace'
  BY <1>6 DEF StagedInPlace
<1> QED BY <1>3, <1>4, <1>5, <1>6, RetentionSteps, DeleteFacts, DeleteConversationFacts,
           ElsewhereFacts

\* A run that begins, goes on or ends keeps its holder the only one at work.
LEMMA SoleTurn ==
    ASSUME Types, SoleRunner, ~overlapped, NEW w \in Workers, NEW r, Quiet(r),
           run' = [run EXCEPT ![w] = r], parts' = parts,
           \/ lock = NoWorker /\ lock' = w
           \/ lock' = lock /\ run[w].at # "idle"
           \/ lock' = (IF lock = w THEN NoWorker ELSE lock) /\ r.at = "idle"
    PROVE  SoleRunner'
<1>1. run'[w] = r /\ \A v \in Workers \ {w} : run'[v] = run[v]
  BY DEF Types
<1>2. ASSUME NEW v \in Workers, run'[v].at # "idle" PROVE lock' = v
  <2>1. CASE lock = NoWorker /\ lock' = w
    BY <1>1, <1>2, <2>1 DEF SoleRunner
  <2>2. CASE lock' = lock /\ run[w].at # "idle"
    BY <1>1, <1>2, <2>2 DEF SoleRunner
  <2>3. CASE lock' = (IF lock = w THEN NoWorker ELSE lock) /\ r.at = "idle"
    BY <1>1, <1>2, <2>3 DEF SoleRunner
  <2> QED BY <2>1, <2>2, <2>3
<1>3. ASSUME NEW v \in Workers, run'[v].at = "staged"
      PROVE  \A i \in run'[v].safe \cap Requests : parts'[i] # {}
  <2>1. v # w
    BY <1>1, <1>3 DEF Quiet
  <2> QED BY <1>1, <1>3, <2>1 DEF SoleRunner
<1> QED BY <1>2, <1>3 DEF SoleRunner

\* While no lock was lost nobody but its holder takes, stages or deletes.
LEMMA SoleRunnerStep == Types /\ SoleRunner /\ [Next]_vars => SoleRunner'
<1> SUFFICES ASSUME Types, SoleRunner, [Next]_vars, ~overlapped' PROVE SoleRunner'
  BY DEF SoleRunner
<1>1. ~overlapped => /\ \A v \in Workers : run[v].at # "idle" => lock = v
                     /\ \A v \in Workers : run[v].at = "staged" =>
                          \A i \in run[v].safe \cap Requests : parts[i] # {}
  BY DEF SoleRunner
<1>2. ASSUME NEW w \in Workers, Turns(w) PROVE SoleRunner'
  <2>1. /\ \/ \E r : Turn(w, r)
           \/ lock = NoWorker /\ lock' = w /\ \E r : Quiet(r) /\ run' = [run EXCEPT ![w] = r]
        /\ UNCHANGED <<parts, overlapped>>
    BY <1>2, TurnFacts DEF Turns
  <2> QED BY <2>1, SoleTurn DEF Turn
<1>3. ASSUME NEW w \in Workers, StageSome(w) PROVE SoleRunner'
  <2>1. /\ Staged(w) \/ \E r : Turn(w, r)
        /\ run[w].at = "batch" /\ UNCHANGED <<parts, overlapped>>
    BY <1>3, StageFacts
  <2>2. CASE Staged(w)
    <3>1. PICK c \in Runs : run' = [run EXCEPT ![w] = c] /\ c.safe \subseteq Due(w) /\ lock' = lock
      BY <2>2 DEF Staged
    <3>2. run'[w] = c /\ \A v \in Workers \ {w} : run'[v] = run[v]
      BY <3>1 DEF Types
    <3>3. \A i \in c.safe : parts[i] # {}
      BY <3>1 DEF Due
    <3> QED BY <1>1, <2>1, <3>1, <3>2, <3>3 DEF SoleRunner
  <2>3. CASE \E r : Turn(w, r)
    BY <2>1, <2>3, SoleTurn DEF Turn
  <2> QED BY <2>1, <2>2, <2>3
<1>4. ASSUME NEW w \in Workers, AppCommit(w) PROVE SoleRunner'
  <2>1. run[w].at = "staged" /\ ~overlapped /\ lock' = lock /\ run'[w].at = "committed"
        /\ \A v \in Workers \ {w} : run'[v] = run[v]
    BY <1>4, CommitFacts
  <2>2. lock = w /\ \A v \in Workers \ {w} : run[v].at = "idle"
    BY <1>1, <2>1
  <2> QED BY <2>1, <2>2 DEF SoleRunner
<1>5. ASSUME NEW w \in Workers, NEW b \in Batches(w), DeleteOnly(w, b) PROVE SoleRunner'
  <2>1. run[w].at = "batch" /\ UNCHANGED <<lock, run, overlapped>>
    BY <1>5, DeleteFacts
  <2>2. \A v \in Workers : run[v].at # "staged"
    BY <1>1, <2>1
  <2> QED BY <1>1, <2>1, <2>2 DEF SoleRunner
<1>6. ASSUME NEW i \in Items, DeleteConversation(i) PROVE SoleRunner'
  <2>1. /\ UNCHANGED <<lock, run, overlapped>> /\ i \notin Requests
        /\ \A k \in Items : parts'[k] = IF k = i THEN {} ELSE parts[k]
    BY <1>6, DeleteConversationFacts
  <2>2. \A k \in Requests : parts'[k] = parts[k]
    BY <2>1 DEF Items
  <2> QED BY <1>1, <2>1, <2>2 DEF SoleRunner
<1>7. CASE Elsewhere
  <2>1. /\ run' = run /\ ~overlapped /\ lock' = lock
        /\ \A i \in Items : parts[i] \subseteq parts'[i]
    BY <1>7, ElsewhereFacts
  <2>2. \A k \in Requests : parts[k] \subseteq parts'[k]
    BY <2>1 DEF Items
  <2>3. \A v \in Workers : run'[v].at # "idle" => lock' = v
    BY <1>1, <2>1
  <2>4. ASSUME NEW v \in Workers, run'[v].at = "staged", NEW i \in run'[v].safe \cap Requests
        PROVE  parts'[i] # {}
    BY <1>1, <2>1, <2>2, <2>4
  <2> QED BY <2>3, <2>4 DEF SoleRunner
<1> QED BY <1>2, <1>3, <1>4, <1>5, <1>6, <1>7, RetentionSteps

\* Every step counts what it removes, once.
LEMMA CountsStep ==
    Types /\ StagedInPlace /\ SoleRunner /\ CountsInPlace /\ [Next]_vars => CountsInPlace'
<1> SUFFICES ASSUME Types, StagedInPlace, SoleRunner, CountsInPlace, [Next]_vars
             PROVE  CountsInPlace'
  OBVIOUS
<1> USE DEF Items
<1>1. ASSUME counted' = counted, files' \subseteq files, overlapped => overlapped',
             \A i \in Items : (parts[i] = {} <=> parts'[i] = {})
      PROVE  CountsInPlace'
  BY <1>1 DEF CountsInPlace
<1>2. ASSUME NEW w \in Workers, Turns(w) PROVE CountsInPlace'
  BY <1>1, <1>2, TurnFacts DEF Turns
<1>3. ASSUME NEW w \in Workers, StageSome(w) PROVE CountsInPlace'
  BY <1>1, <1>3, StageFacts
<1>4. ASSUME NEW w \in Workers, AppCommit(w) PROVE CountsInPlace'
  <2>1. /\ run[w].at = "staged" /\ UNCHANGED <<files, overlapped>>
        /\ \A i \in Items : parts'[i] = IF i \in run[w].safe THEN {} ELSE parts[i]
        /\ \A i \in Items : counted'[i] = IF i \in run[w].safe \cap Requests
                                          THEN counted[i] + 1 ELSE counted[i]
    BY <1>4, CommitFacts
  <2>2. \A i \in Items : parts'[i] # {} => counted'[i] = 0
    BY <2>1 DEF CountsInPlace
  <2>3. ASSUME ~overlapped', NEW i \in Requests, parts'[i] = {} PROVE counted'[i] = 1
    <3>1. CASE i \in run[w].safe
      <4>1. parts[i] # {}
        BY <2>1, <2>3, <3>1 DEF SoleRunner
      <4> QED BY <2>1, <3>1, <4>1 DEF CountsInPlace
    <3>2. CASE i \notin run[w].safe
      BY <2>1, <2>3, <3>2 DEF CountsInPlace
    <3> QED BY <3>1, <3>2
  <2>4. \A i \in Chats : parts'[i] = {} => i \notin files'
    BY <2>1 DEF CountsInPlace, StagedInPlace
  <2> QED BY <2>2, <2>3, <2>4 DEF CountsInPlace
<1>5. ASSUME NEW w \in Workers, NEW b \in Batches(w), DeleteOnly(w, b) PROVE CountsInPlace'
  <2>1. /\ files' = files \ b /\ UNCHANGED overlapped /\ \A i \in b : parts[i] # {}
        /\ \A i \in Items : parts'[i] = IF i \in b THEN {} ELSE parts[i]
        /\ \A i \in Items : counted'[i] = IF i \in b \cap Requests
                                          THEN counted[i] + 1 ELSE counted[i]
    BY <1>5, DeleteFacts
  <2>2. \A i \in Items : parts'[i] # {} => counted'[i] = 0
    BY <2>1 DEF CountsInPlace
  <2>3. ASSUME ~overlapped', NEW i \in Requests, parts'[i] = {} PROVE counted'[i] = 1
    BY <2>1, <2>3 DEF CountsInPlace
  <2>4. \A i \in Chats : parts'[i] = {} => i \notin files'
    BY <2>1 DEF CountsInPlace
  <2> QED BY <2>2, <2>3, <2>4 DEF CountsInPlace
<1>6. ASSUME NEW i \in Items, DeleteConversation(i) PROVE CountsInPlace'
  <2>1. /\ i \in Chats /\ files' = files \ {i} /\ UNCHANGED <<counted, overlapped>>
        /\ \A k \in Items : parts'[k] = IF k = i THEN {} ELSE parts[k]
    BY <1>6, DeleteConversationFacts
  <2>2. i \notin Requests
    BY <2>1
  <2> QED BY <2>1, <2>2 DEF CountsInPlace
<1>7. CASE Elsewhere
  <2>1. \A i \in Items : (parts[i] = {} <=> parts'[i] = {})
    BY <1>7, ElsewhereFacts
  <2> QED BY <1>1, <1>7, <2>1, ElsewhereFacts
<1> QED BY <1>2, <1>3, <1>4, <1>5, <1>6, <1>7, RetentionSteps

\* The invariant is inductive.
LEMMA RetentionInvStep == RetentionInv /\ [Next]_vars => RetentionInv'
BY TypesStep, StagedStep, SoleRunnerStep, CountsStep DEF RetentionInv

\* It holds at the start.
LEMMA RetentionInvInit == Init => RetentionInv
<1> SUFFICES ASSUME Init PROVE RetentionInv
  OBVIOUS
<1>1. Idle \in Runs /\ Idle.at = "idle"
  BY IdleIsQuiet DEF Quiet
<1>2. \A w \in Workers : run[w].at = "idle"
  BY <1>1 DEF Init
<1>3. Types
  <2>1. parts \in [Items -> SUBSET Row] /\ arch \in [Items -> SUBSET Row]
    BY DEF Init, Nothing, Row
  <2>2. counted \in [Items -> Nat] /\ run \in [Workers -> Runs]
    BY <1>1 DEF Init
  <2>3. expired \in SUBSET Items /\ files \in SUBSET Chats /\ events \in 0 .. MaxEvents
    BY DEF Init
  <2> QED BY <2>1, <2>2, <2>3 DEF Init, Types
<1>4. \A i \in Items : parts[i] # {} /\ counted[i] = 0
  BY DEF Init
<1>5. StagedInPlace /\ SoleRunner /\ CountsInPlace
  BY <1>2, <1>4 DEF StagedInPlace, SoleRunner, CountsInPlace, Items
<1> QED BY <1>3, <1>5 DEF RetentionInv

\* RemovedOnce for any workers, items and faults: while the advisory lock keeps
\* cycles and purges apart, a request is in the archived totals exactly when it
\* is gone, once, wherever a crash or a failed commit falls; and a conversation
\* that is gone left no files, even if the lock was lost.
THEOREM CountedWhenRemoved == Spec => []RemovedOnce
<1>1. RetentionInv => RemovedOnce
  BY DEF RetentionInv, CountsInPlace, RemovedOnce, Items
<1> QED BY <1>1, RetentionInvInit, RetentionInvStep, PTL DEF Spec

-----------------------------------------------------------------------------
(* How often an item may be counted at all.                                *)

\* The workers that are about to remove an item are finitely many.
LEMMA RemovingFacts ==
    ASSUME NEW i
    PROVE  /\ IsFiniteSet(Removing(i)) /\ Cardinality(Removing(i)) \in Nat
           /\ Cardinality(Removing(i)) <= Cardinality(Workers) /\ Cardinality(Workers) \in Nat
           /\ Cardinality(Removing(i)') \in Nat
           /\ Cardinality(Removing(i)') <= Cardinality(Workers)
           /\ Removing(i)' \subseteq Removing(i)
                 => Cardinality(Removing(i)') <= Cardinality(Removing(i))
<1>1. Removing(i) \subseteq Workers /\ Removing(i)' \subseteq Workers
  BY DEF Removing
<1>2. \A S \in SUBSET Workers : /\ IsFiniteSet(S) /\ Cardinality(S) \in Nat
                                /\ Cardinality(S) <= Cardinality(Workers)
  BY FS_Subset, FS_CardinalityType
<1>3. Cardinality(Workers) \in Nat
  BY FS_CardinalityType
<1>4. Removing(i)' \subseteq Removing(i) => Cardinality(Removing(i)') <= Cardinality(Removing(i))
  BY <1>1, <1>2, FS_Subset
<1> QED BY <1>1, <1>2, <1>3, <1>4

\* A count that goes up takes a worker out of those about to remove the item.
LEMMA CountsBoundedStep ==
    Types /\ CountsInPlace /\ CountsBounded /\ [Next]_vars => CountsBounded'
<1> SUFFICES ASSUME Types, CountsInPlace, CountsBounded, [Next]_vars,
                    NEW i \in Items, parts'[i] = {}
             PROVE  counted'[i] + Cardinality(Removing(i)') <= 1 + Cardinality(Workers)
  BY DEF CountsBounded
<1> DEFINE Goal == counted'[i] + Cardinality(Removing(i)') <= 1 + Cardinality(Workers)
<1>1. counted[i] \in Nat /\ (parts[i] # {} => counted[i] = 0)
  BY DEF Types, CountsInPlace
<1>2. parts[i] = {} => counted[i] + Cardinality(Removing(i)) <= 1 + Cardinality(Workers)
  BY DEF CountsBounded
\* A step that removes a live item counts it for the first time.
<1>3. ASSUME parts[i] # {}, counted'[i] \in {counted[i], counted[i] + 1} PROVE Goal
  BY <1>1, <1>3, RemovingFacts
\* A step that counts nothing and stages the item for nobody.
<1>4. ASSUME parts[i] = {}, counted'[i] = counted[i], Removing(i)' \subseteq Removing(i) PROVE Goal
  BY <1>1, <1>2, <1>4, RemovingFacts
<1>5. ASSUME NEW w \in Workers, NEW r, Quiet(r), run' = [run EXCEPT ![w] = r],
             UNCHANGED <<parts, counted>>
      PROVE  Goal
  <2>1. Removing(i)' \subseteq Removing(i)
    BY <1>5 DEF Removing, Quiet, Types
  <2> QED BY <1>4, <1>5, <2>1
<1>6. ASSUME NEW w \in Workers, Turns(w) PROVE Goal
  <2>1. UNCHANGED <<parts, counted>> /\ \E r : Quiet(r) /\ run' = [run EXCEPT ![w] = r]
    BY <1>6, TurnFacts DEF Turns, Turn
  <2> QED BY <1>5, <2>1
<1>7. ASSUME NEW w \in Workers, StageSome(w) PROVE Goal
  <2>1. UNCHANGED <<parts, counted>> /\ (Staged(w) \/ \E r : Turn(w, r))
    BY <1>7, StageFacts
  <2>2. CASE Staged(w)
    <3>1. PICK c \in Runs : run' = [run EXCEPT ![w] = c] /\ c.safe \subseteq Due(w)
      BY <2>2 DEF Staged
    <3>2. i \notin c.safe
      BY <2>1, <3>1 DEF Due
    <3>3. Removing(i)' \subseteq Removing(i)
      BY <3>1, <3>2 DEF Removing, Types
    <3> QED BY <1>4, <2>1, <3>3
  <2> QED BY <1>5, <2>1, <2>2 DEF Turn
<1>8. ASSUME NEW w \in Workers, AppCommit(w) PROVE Goal
  <2>1. /\ run[w].at = "staged" /\ run'[w].at = "committed"
        /\ \A v \in Workers \ {w} : run'[v] = run[v]
        /\ parts'[i] = IF i \in run[w].safe THEN {} ELSE parts[i]
        /\ counted'[i] = IF i \in run[w].safe \cap Requests THEN counted[i] + 1 ELSE counted[i]
    BY <1>8, CommitFacts
  <2>2. Removing(i)' = Removing(i) \ {w}
    BY <2>1 DEF Removing
  <2>3. CASE parts[i] # {}
    BY <1>3, <2>1, <2>3
  <2>4. CASE parts[i] = {} /\ i \notin run[w].safe
    BY <1>4, <2>1, <2>2, <2>4
  <2>5. CASE parts[i] = {} /\ i \in run[w].safe
    <3>1. w \in Removing(i)
      BY <2>1, <2>5 DEF Removing
    <3>2. Cardinality(Removing(i)') = Cardinality(Removing(i)) - 1
      <4>1. IsFiniteSet(Removing(i))
        BY RemovingFacts
      <4>2. Cardinality(Removing(i) \ {w}) = Cardinality(Removing(i)) - 1
        BY <3>1, <4>1, FS_RemoveElement
      <4> QED BY <2>2, <4>2
    <3>3. counted'[i] \in {counted[i], counted[i] + 1}
      BY <2>1
    <3>4. counted[i] + Cardinality(Removing(i)) <= 1 + Cardinality(Workers)
      BY <1>2, <2>5
    <3>5. counted[i] \in Nat /\ Cardinality(Removing(i)) \in Nat /\ Cardinality(Workers) \in Nat
      BY <1>1, RemovingFacts
    <3> QED BY <3>2, <3>3, <3>4, <3>5
  <2> QED BY <2>3, <2>4, <2>5
<1>9. ASSUME run' = run, counted'[i] = counted[i] \/ (parts[i] # {} /\ counted'[i] = counted[i] + 1)
      PROVE  Goal
  <2>1. Removing(i)' = Removing(i)
    BY <1>9 DEF Removing
  <2> QED BY <1>3, <1>4, <1>9, <2>1
<1>10. ASSUME NEW w \in Workers, NEW b \in Batches(w), DeleteOnly(w, b) PROVE Goal
  BY <1>9, <1>10, DeleteFacts
<1>11. ASSUME NEW k \in Items, DeleteConversation(k) PROVE Goal
  BY <1>9, <1>11, DeleteConversationFacts
<1>12. CASE Elsewhere
  BY <1>9, <1>12, ElsewhereFacts
<1> QED BY <1>6, <1>7, <1>8, <1>10, <1>11, <1>12, RetentionSteps

\* TypeOK for any workers, items and faults: even cycles that run beside each
\* other after lost locks count an item at most once more than there are workers.
THEOREM RetentionTypes == Spec => []TypeOK
<1>1. Init => CountsBounded
  BY DEF Init, CountsBounded
<1>2. RetentionInv /\ CountsBounded => TypeOK
  <2> SUFFICES ASSUME Types, CountsInPlace, CountsBounded PROVE TypeOK
    BY DEF RetentionInv
  <2>1. ASSUME NEW i \in Items PROVE counted[i] \in 0 .. 1 + Cardinality(Workers)
    <3>1. counted[i] \in Nat /\ (parts[i] # {} => counted[i] = 0)
      BY DEF Types, CountsInPlace
    <3> QED BY <3>1, RemovingFacts DEF CountsBounded
  <2>2. counted \in [Items -> 0 .. 1 + Cardinality(Workers)]
    BY <2>1 DEF Types
  <2> QED BY <2>2 DEF Types, TypeOK, Runs
<1>3. RetentionInv /\ CountsBounded /\ [Next]_vars => CountsBounded'
  BY CountsBoundedStep DEF RetentionInv
<1> QED BY <1>1, <1>2, <1>3, RetentionInvInit, RetentionInvStep, PTL DEF Spec

-----------------------------------------------------------------------------
(* Losses.                                                                 *)

\* The reasons for which a row of item i may leave both databases.
Explained(i, p) ==
    \/ \E w \in Workers : Tier2(w)
    \/ DeleteConversation(i)
    \/ BetweenCommits
    \/ WrittenLate(i, p)

\* A step that takes nothing from the item's rows or copies, and no copy from a
\* cycle that is between its commits, loses nothing.
LEMMA KeptGrows ==
    ASSUME NEW i, parts[i] \subseteq parts'[i], arch[i] \subseteq arch'[i],
           \A v \in Workers : run[v].at = "committed" =>
               \/ run'[v].at = "committed" /\ run'[v].pend = run[v].pend
               \/ run[v].pend[i] \subseteq arch'[i]
    PROVE  Kept(i) \subseteq Kept(i)'
<1> SUFFICES ASSUME NEW p \in Kept(i) PROVE p \in Kept(i)'
  OBVIOUS
<1>1. CASE p \in parts[i] \cup arch[i]
  BY <1>1 DEF Kept
<1>2. CASE \E v \in Workers : run[v].at = "committed" /\ p \in run[v].pend[i]
  <2>1. PICK v \in Workers : run[v].at = "committed" /\ p \in run[v].pend[i]
    BY <1>2
  <2>2. CASE p \in arch'[i]
    BY <2>2 DEF Kept
  <2>3. CASE run'[v].at = "committed" /\ run'[v].pend = run[v].pend
    BY <2>1, <2>3 DEF Kept
  <2> QED BY <2>1, <2>2, <2>3
<1> QED BY <1>1, <1>2 DEF Kept

\* A step that loses content is one of the listed ones.
LEMMA LossStep ==
    ASSUME RetentionInv, [Next]_vars, archiving, NEW i \in Requests \cup Chats,
           NEW p \in Kept(i) \ Kept(i)'
    PROVE  Explained(i, p)
<1>1. Types /\ StagedInPlace /\ i \in Items /\ ~(Kept(i) \subseteq Kept(i)')
  BY DEF RetentionInv, Items
<1>2. ASSUME NEW w \in Workers, \A v \in Workers \ {w} : run'[v] = run[v],
             run[w].at = "committed" => run[w].pend[i] \subseteq arch'[i],
             parts' = parts, arch[i] \subseteq arch'[i]
      PROVE  FALSE
  BY <1>1, <1>2, KeptGrows
<1>3. ASSUME NEW w \in Workers, Turns(w) PROVE Explained(i, p)
  <2>1. PICK r : Quiet(r) /\ run' = [run EXCEPT ![w] = r]
    BY <1>1, <1>3, TurnFacts DEF Turns, Turn
  <2>2. r = run'[w] /\ \A v \in Workers \ {w} : run'[v] = run[v]
    BY <1>1, <2>1 DEF Types
  <2>3. parts' = parts
    BY <1>1, <1>3, TurnFacts DEF Turns
  <2>4. CASE Tier2(w)
    BY <2>4 DEF Explained
  <2>5. CASE ArchiveCommit(w)
    <3>1. arch[i] \subseteq arch'[i] /\ run[w].pend[i] \subseteq arch'[i]
      BY <1>1, <2>5 DEF ArchiveCommit
    <3> QED BY <1>2, <2>2, <2>3, <3>1
  <2>6. CASE Abort(w)
    <3>1. arch' = arch /\ Finish(w)
      BY <2>6 DEF Abort, dataVars
    <3>2. CASE run[w].at = "committed"
      <4>1. run'[w].at = "idle"
        BY <1>1, <3>1 DEF Finish, Types, Idle
      <4> QED BY <3>2, <4>1 DEF Explained, BetweenCommits
    <3> QED BY <1>2, <2>2, <2>3, <3>1, <3>2
  <2>7. CASE StartCycle(w) \/ (\E kind \in Kinds : StartPurge(w, kind)) \/ NoneLeft(w)
    <3>1. arch' = arch /\ run[w].at # "committed"
      BY <2>7 DEF StartCycle, StartPurge, NoneLeft, Acquire, dataVars
    <3> QED BY <1>2, <2>2, <2>3, <3>1
  <2> QED BY <1>3, <2>4, <2>5, <2>6, <2>7 DEF Turns
<1>4. ASSUME NEW w \in Workers, StageSome(w) PROVE FALSE
  <2>1. /\ Staged(w) \/ \E r : Turn(w, r)
        /\ run[w].at = "batch" /\ parts' = parts /\ arch[i] \subseteq arch'[i]
    BY <1>1, <1>4, StageFacts
  <2>2. \A v \in Workers \ {w} : run'[v] = run[v]
    BY <1>1, <2>1 DEF Staged, Turn, Types
  <2> QED BY <1>2, <2>1, <2>2
<1>5. ASSUME NEW w \in Workers, AppCommit(w) PROVE Explained(i, p)
  <2>1. /\ run[w].at = "staged" /\ run'[w].at = "committed" /\ run'[w].pend = run[w].pend
        /\ \A v \in Workers \ {w} : run'[v] = run[v]
        /\ parts'[i] = IF i \in run[w].safe THEN {} ELSE parts[i]
        /\ arch' = arch
    BY <1>1, <1>5, CommitFacts
  <2>2. i \in run[w].safe
    BY <1>1, <2>1, KeptGrows
  <2>3. run[w].pend[i] \subseteq Kept(i)'
    BY <2>1 DEF Kept
  <2>4. p \notin run[w].read[i]
    BY <1>1, <2>1, <2>2, <2>3 DEF StagedInPlace
  <2> QED BY <1>5, <2>2, <2>4 DEF Explained, WrittenLate
<1>6. ASSUME NEW w \in Workers, NEW b \in Batches(w), DeleteOnly(w, b) PROVE FALSE
  <2>1. run' = run /\ arch' = arch /\ b \subseteq Plain
        /\ parts'[i] = IF i \in b THEN {} ELSE parts[i]
    BY <1>1, <1>6, DeleteFacts
  <2> QED BY <1>1, <2>1, KeptGrows
<1>7. ASSUME NEW k \in Items, DeleteConversation(k) PROVE Explained(i, p)
  <2>1. run' = run /\ arch' = arch /\ parts'[i] = IF i = k THEN {} ELSE parts[i]
    BY <1>1, <1>7, DeleteConversationFacts
  <2>2. i = k
    BY <1>1, <2>1, KeptGrows
  <2> QED BY <1>7, <2>2 DEF Explained
<1>8. CASE Elsewhere
  BY <1>1, <1>8, ElsewhereFacts, KeptGrows
<1> QED BY <1>1, <1>3, <1>4, <1>5, <1>6, <1>7, <1>8, RetentionSteps

\* LossesExplained for any workers, items and faults, and whether or not the
\* advisory lock keeps cycles apart: with an archive, content leaves both
\* databases only by the purge of the archive, by its user, between the commits
\* of a batch, or when it came after the batch was read.
THEOREM ContentIsKept == Spec => LossesExplained
<1>1. Spec => []RetentionInv
  BY RetentionInvInit, RetentionInvStep, PTL DEF Spec
<1>2. RetentionInv /\ [Next]_vars =>
        [archiving => \A i \in Requests \cup Chats : \A p \in Kept(i) \ Kept(i)' : Explained(i, p)]_vars
  BY LossStep
<1> QED BY <1>1, <1>2, PTL DEF Spec, LossesExplained, Explained

=============================================================================
