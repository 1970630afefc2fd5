------------------------------ MODULE Retention ------------------------------
(***************************************************************************)
(* Tiered data retention (services/retention.py): rows past their age are  *)
(* copied to the archive database and deleted from the application's,      *)
(* batch by batch; archive rows past a second age are purged.  Every       *)
(* worker runs a cycle from time to time and an administrator may purge a  *)
(* category at once, all under one advisory lock of the database server.   *)
(*                                                                         *)
(* The two databases commit separately.  A batch is: read and stage the    *)
(* copies in the archive transaction; snapshot the usage totals, delete    *)
(* and commit in the application database; commit the archive.  What a     *)
(* worker reads and stages in open transactions nobody else sees, so the   *)
(* reading and the staging are one step.  Until the delete, users go on    *)
(* writing: a message to an old conversation, the response of a request    *)
(* that a purge of everything has caught while it runs.                    *)
(***************************************************************************)
EXTENDS Integers, FiniteSets

CONSTANTS
    Workers,
    Requests,    \* requests with their responses, decisions and artifacts
    Chats,       \* chat conversations with their messages and attachments
    Plain,       \* rows that are deleted without archival: stored responses, ...
    Stubborn,    \* items the archive always refuses (an oversized payload)
    BatchSize,   \* retention.batch_size
    MaxEvents    \* bound: crashes, failed statements and commits, lost locks and
                 \* purges by an administrator, together

Items == Requests \cup Chats \cup Plain

\* Nobody holds the advisory lock.
NoWorker == "none"

\* The categories are different tables.
ASSUME RetentionAssumption ==
    /\ IsFiniteSet(Items) /\ IsFiniteSet(Workers) /\ NoWorker \notin Workers
    /\ Requests \cap Chats = {} /\ Plain \cap (Requests \cup Chats) = {}
    /\ Stubborn \subseteq Requests \cup Chats
    /\ BatchSize \in Nat \ {0} /\ MaxEvents \in Nat

VARIABLES
    archiving,   \* archive_database_url is configured
    parts,       \* rows of each item in the application database
    expired,     \* items older than the tier-1 cutoff
    files,       \* conversations whose attachment files are on disk
    arch,        \* rows of each item in the archive database
    counted,     \* how often an item is in the archived_* totals
    lock,        \* holder of the advisory lock
    run,         \* what each worker's cycle or purge is doing
    events,      \* faults and purges so far
    overlapped   \* history: a cycle went on after its lock was lost

dataVars == <<parts, expired, files, arch, counted>>
vars == <<archiving, dataVars, lock, run, events, overlapped>>

\* "row": what the item consisted of; "late": a row added to it afterwards.
Row == {"row", "late"}
Kinds == {"requests", "chats", "plain"}
KindOf(kind) == CASE kind = "requests" -> Requests [] kind = "chats" -> Chats [] OTHER -> Plain

Nothing == [i \in Items |-> {}]
Idle == [at |-> "idle", kind |-> "requests", purge |-> FALSE,
         safe |-> {}, read |-> Nothing, pend |-> Nothing]

Init ==
    /\ archiving \in BOOLEAN
    /\ parts = [i \in Items |-> {"row"}]
    /\ expired = {}
    /\ files = Chats
    /\ arch = Nothing
    /\ counted = [i \in Items |-> 0]
    /\ lock = NoWorker
    /\ run = [w \in Workers |-> Idle]
    /\ events = 0
    /\ overlapped = FALSE

\* A purge or a fault; their number is bounded.
Event == events < MaxEvents /\ events' = events + 1

-----------------------------------------------------------------------------
(* Starting and ending.                                                    *)

\* GET_LOCK with timeout 0 succeeds; a worker that does not get the lock
\* skips its turn.
Acquire(w, kind, purge) ==
    /\ run[w].at = "idle"
    /\ lock = NoWorker
    /\ lock' = w
    /\ run' = [run EXCEPT ![w] = [Idle EXCEPT !.at = "batch", !.kind = kind, !.purge = purge]]

\* _retention_loop, or "Run now": try_run_retention_with_lock.
StartCycle(w) ==
    /\ Acquire(w, "requests", FALSE)
    /\ UNCHANGED <<archiving, dataVars, events, overlapped>>

\* try_run_purge_with_lock of one category, everything in it.
StartPurge(w, kind) ==
    /\ Event
    /\ Acquire(w, kind, TRUE)
    /\ UNCHANGED <<archiving, dataVars, overlapped>>

\* The end of a cycle or purge, by returning, by an exception or with its
\* process: RELEASE_LOCK, or the server drops it with the connection.
Finish(w) ==
    /\ run' = [run EXCEPT ![w] = Idle]
    /\ lock' = IF lock = w THEN NoWorker ELSE lock

\* Mutant: a category nothing handles.
NextKindUnknown(w) ==
    /\ run' = [run EXCEPT ![w] = [Idle EXCEPT !.at = "batch", !.kind = "telemetry"]]
    /\ UNCHANGED lock

\* The next category of run_retention_cycle; a purge has only one.
NextKind(w) ==
    IF run[w].purge \/ run[w].kind = "plain"
      THEN Finish(w)
      ELSE /\ run' = [run EXCEPT ![w] =
                        IF run[w].kind = "requests" THEN [Idle EXCEPT !.at = "batch", !.kind = "chats"]
                        ELSE IF archiving THEN [Idle EXCEPT !.at = "tier2"]
                        ELSE [Idle EXCEPT !.at = "batch", !.kind = "plain"]]
           /\ UNCHANGED lock

-----------------------------------------------------------------------------
(* A batch.                                                                *)

\* The rows a SELECT ... WHERE created_at (updated_at) < cutoff would return.
Due(w) == {i \in KindOf(run[w].kind) : parts[i] # {} /\ (run[w].purge \/ i \in expired)}

\* ... of which LIMIT takes any, there being no ORDER BY.
Batches(w) ==
    LET n == IF Cardinality(Due(w)) < BatchSize THEN Cardinality(Due(w)) ELSE BatchSize
    IN  {b \in SUBSET Due(w) : Cardinality(b) = n}

\* Nothing is left to do in this category.
NoneLeft(w) ==
    /\ run[w].at = "batch"
    /\ Due(w) = {}
    /\ NextKind(w)
    /\ UNCHANGED <<archiving, dataVars, events, overlapped>>

\* What _bulk_insert_ignore may make of a batch: the items of which a row was
\* refused, each with the rows of it that were copied all the same.
Refusals(b) ==
    {r \in UNION {[skipped -> SUBSET Row] : skipped \in SUBSET b} :
        /\ b \cap Stubborn \subseteq DOMAIN r
        /\ \A i \in DOMAIN r : r[i] \subseteq parts[i] /\ r[i] # parts[i]}

\* The copies in the archive transaction.
Copies(b, r) ==
    [i \in Items |-> IF i \in DOMAIN r THEN r[i] ELSE IF i \in b THEN parts[i] ELSE {}]

\* Mutant: one refused row gives up the batch.
StageAllOrNothing(w, b, r) ==
    /\ run[w].at = "batch" /\ archiving /\ run[w].kind # "plain"
    /\ b # {}
    /\ IF DOMAIN r \subseteq Stubborn THEN UNCHANGED events ELSE Event
    /\ files' = files \ b
    /\ IF DOMAIN r # {}
         THEN /\ NextKind(w)
              /\ arch' = [i \in Items |-> arch[i] \cup Copies(b, r)[i]]
         ELSE /\ run' = [run EXCEPT ![w] = [@ EXCEPT !.at = "staged", !.safe = b,
                                                     !.read = [i \in Items |-> IF i \in b THEN parts[i] ELSE {}],
                                                     !.pend = Copies(b, r)]]
              /\ UNCHANGED <<lock, arch>>
    /\ UNCHANGED <<archiving, parts, expired, counted, overlapped>>

\* Mutant: the refused items are deleted with the others.
StageUnsafe(w, b, r) ==
    /\ run[w].at = "batch" /\ archiving /\ run[w].kind # "plain"
    /\ b # {}
    /\ IF DOMAIN r \subseteq Stubborn THEN UNCHANGED events ELSE Event
    /\ files' = files \ b
    /\ run' = [run EXCEPT ![w] = [@ EXCEPT !.at = "staged", !.safe = b,
                                           !.read = [i \in Items |-> IF i \in b THEN parts[i] ELSE {}],
                                           !.pend = Copies(b, r)]]
    /\ UNCHANGED <<archiving, parts, expired, arch, counted, lock, overlapped>>

\* archive_expired_requests and archive_expired_chats read a batch, remove the
\* attachment files of the conversations in it and stage the copies.  A batch
\* that was refused as a whole ends the category; leaving the context commits
\* what was staged.
Stage(w, b, r) ==
    /\ run[w].at = "batch" /\ archiving /\ run[w].kind # "plain"
    /\ b # {}
    /\ IF DOMAIN r \subseteq Stubborn THEN UNCHANGED events ELSE Event
    /\ files' = files \ b
    /\ IF DOMAIN r = b
         THEN /\ NextKind(w)
              /\ arch' = [i \in Items |-> arch[i] \cup Copies(b, r)[i]]
         ELSE /\ run' = [run EXCEPT ![w] = [@ EXCEPT !.at = "staged", !.safe = b \ DOMAIN r,
                                                     !.read = [i \in Items |-> IF i \in b THEN parts[i] ELSE {}],
                                                     !.pend = Copies(b, r)]]
              /\ UNCHANGED <<lock, arch>>
    /\ UNCHANGED <<archiving, parts, expired, counted, overlapped>>

\* The items leave the application database.
Remove(gone) ==
    /\ parts' = [i \in Items |-> IF i \in gone THEN {} ELSE parts[i]]
    /\ expired' = expired \ gone

\* Mutant: the totals are taken over the whole batch.
AppCommitCountsAll(w) ==
    /\ run[w].at = "staged"
    /\ Remove(run[w].safe)
    /\ counted' = [i \in Items |->
                     IF i \in Requests /\ run[w].read[i] # {} THEN counted[i] + 1 ELSE counted[i]]
    /\ run' = [run EXCEPT ![w].at = "committed"]
    /\ UNCHANGED <<archiving, files, arch, lock, events, overlapped>>

\* The application's transaction: the totals of the requests it read (from its
\* snapshot), detached references, deletes by id; and its commit.
AppCommit(w) ==
    /\ run[w].at = "staged"
    /\ Remove(run[w].safe)
    /\ counted' = [i \in Items |->
                     IF i \in run[w].safe \cap Requests THEN counted[i] + 1 ELSE counted[i]]
    /\ run' = [run EXCEPT ![w].at = "committed"]
    /\ UNCHANGED <<archiving, files, arch, lock, events, overlapped>>

\* ... then the commit of the archive; back to the next batch.
ArchiveCommit(w) ==
    /\ run[w].at = "committed"
    /\ arch' = [i \in Items |-> arch[i] \cup run[w].pend[i]]
    /\ run' = [run EXCEPT ![w] = [Idle EXCEPT !.at = "batch", !.kind = run[w].kind, !.purge = run[w].purge]]
    /\ UNCHANGED <<archiving, parts, expired, files, counted, lock, events, overlapped>>

\* Without an archive, and for the categories that have none: totals (for
\* requests), files, deletes and one commit.
DeleteOnly(w, b) ==
    /\ run[w].at = "batch"
    /\ ~archiving \/ run[w].kind = "plain"
    /\ b # {}
    /\ Remove(b)
    /\ counted' = [i \in Items |-> IF i \in b \cap Requests THEN counted[i] + 1 ELSE counted[i]]
    /\ files' = files \ b
    /\ UNCHANGED <<archiving, arch, lock, run, events, overlapped>>

\* purge_expired_archives: by the age of the item's own archive row, which may
\* have passed the second cutoff for any of them.
Tier2(w) ==
    /\ run[w].at = "tier2"
    /\ \E old \in SUBSET {i \in Items : "row" \in arch[i]} :
           arch' = [i \in Items |-> IF i \in old THEN {} ELSE arch[i]]
    /\ run' = [run EXCEPT ![w] = [Idle EXCEPT !.at = "batch", !.kind = "plain"]]
    /\ UNCHANGED <<archiving, parts, expired, files, counted, lock, events, overlapped>>

-----------------------------------------------------------------------------
(* Faults.                                                                 *)

\* A statement or a commit raises, or the process dies: the open transactions
\* roll back and the cycle is over; nothing undoes a commit already made.
Abort(w) ==
    /\ Event
    /\ run[w].at # "idle"
    /\ Finish(w)
    /\ UNCHANGED <<archiving, dataVars, overlapped>>

\* The idle connection that holds the lock is closed while the cycle runs on.
LockLost(w) ==
    /\ Event
    /\ lock = w
    /\ lock' = NoWorker
    /\ overlapped' = TRUE
    /\ UNCHANGED <<archiving, dataVars, run>>

-----------------------------------------------------------------------------
(* Users and time.                                                         *)

\* chat_completions adds a message to a conversation (its updated_at moves only
\* when the model of the conversation changes), or a running request gets its
\* response.
Write(i, touches) ==
    /\ i \in Chats \/ (i \in Requests \ expired /\ ~touches)
    /\ parts[i] # {}
    /\ parts' = [parts EXCEPT ![i] = @ \cup {"late"}]
    /\ expired' = IF touches THEN expired \ {i} ELSE expired
    /\ UNCHANGED <<archiving, files, arch, counted, lock, run, events, overlapped>>

\* chat_crud.delete_conversation: the user deletes it, files included.
DeleteConversation(i) ==
    /\ i \in Chats /\ parts[i] # {}
    /\ Remove({i})
    /\ files' = files \ {i}
    /\ UNCHANGED <<archiving, arch, counted, lock, run, events, overlapped>>

Expire(i) ==
    /\ i \notin expired /\ parts[i] # {}
    /\ expired' = expired \cup {i}
    /\ UNCHANGED <<archiving, parts, files, arch, counted, lock, run, events, overlapped>>

-----------------------------------------------------------------------------
StageSome(w) ==
    \E b \in Batches(w) : \E r \in Refusals(b) : Stage(w, b, r)

Work(w) ==
    \/ NoneLeft(w) \/ StageSome(w) \/ AppCommit(w) \/ ArchiveCommit(w) \/ Tier2(w)
    \/ \E b \in Batches(w) : DeleteOnly(w, b)

Next ==
    \/ \E w \in Workers : StartCycle(w) \/ Work(w) \/ Abort(w) \/ LockLost(w)
    \/ \E w \in Workers, kind \in Kinds : StartPurge(w, kind)
    \/ \E i \in Items : \E touches \in BOOLEAN : Write(i, touches)
    \/ \E i \in Items : DeleteConversation(i) \/ Expire(i)

Spec == Init /\ [][Next]_vars

\* The loop of each worker comes round and a cycle that runs goes on.
Fairness == \A w \in Workers : WF_vars(StartCycle(w)) /\ WF_vars(Work(w))

FairSpec == Spec /\ Fairness

-----------------------------------------------------------------------------
(* Properties.                                                             *)

\* Types.
TypeOK ==
    /\ archiving \in BOOLEAN
    /\ parts \in [Items -> SUBSET Row]
    /\ expired \subseteq Items /\ files \subseteq Chats
    /\ arch \in [Items -> SUBSET Row]
    /\ counted \in [Items -> 0 .. 1 + Cardinality(Workers)]
    /\ lock \in Workers \cup {NoWorker}
    /\ run \in [Workers -> [at : {"idle", "batch", "staged", "committed", "tier2"},
                            kind : Kinds, purge : BOOLEAN, safe : SUBSET Items,
                            read : [Items -> SUBSET Row], pend : [Items -> SUBSET Row]]]
    /\ events \in 0 .. MaxEvents
    /\ overlapped \in BOOLEAN

\* The totals that users, models and keys show are the live requests plus the
\* archived_* offsets: a request is in the offsets exactly when it is gone,
\* once, whatever cycle or purge crashes where, as long as the advisory lock
\* keeps them apart.  A conversation that is gone left no files behind.
RemovedOnce ==
    /\ ~overlapped => \A i \in Requests : counted[i] = IF parts[i] = {} THEN 1 ELSE 0
    /\ \A i \in Chats : parts[i] = {} => i \notin files

\* Where the content of an item is kept: in a database, or staged by a cycle
\* that already deleted it and is about to commit the archive.
Kept(i) ==
    parts[i] \cup arch[i] \cup UNION {run[w].pend[i] : w \in {v \in Workers : run[v].at = "committed"}}

\* A cycle that ends between its two commits.
BetweenCommits == \E w \in Workers : run[w].at = "committed" /\ run'[w].at = "idle"

\* A row written after the batch was read is deleted with its item, unarchived.
WrittenLate(i, p) ==
    \E w \in Workers : AppCommit(w) /\ i \in run[w].safe /\ p \notin run[w].read[i]

\* With an archive configured, content leaves both databases only by the purge
\* of the archive, by its user, between the two commits of a batch, or when it
\* was written after the batch was read: no row the archive refused is deleted.
LossesExplained ==
    [][archiving =>
          \A i \in Requests \cup Chats : \A p \in Kept(i) \ Kept(i)' :
              \/ \E w \in Workers : Tier2(w)
              \/ DeleteConversation(i)
              \/ BetweenCommits
              \/ WrittenLate(i, p)]_vars

\* An expired item that the archive accepts leaves the application database (or
\* is used again), beside items the archive always refuses, after crashes,
\* failed commits, purges and lost locks.
ExpiredLeave ==
    \A i \in Items \ Stubborn :
        i \in expired /\ parts[i] # {} ~> parts[i] = {} \/ i \notin expired
=============================================================================
