------------------------------ MODULE VideoJob ------------------------------
(***************************************************************************)
(* What a client of the videos API is promised about its jobs, without     *)
(* runners, leases, renders or heartbeats.  A job is accepted, waits,      *)
(* renders, possibly waits again, and ends once; if it ends without output *)
(* its reservation is given back, exactly once.                            *)
(*                                                                         *)
(* The promise has one condition: a job is contested when its owner        *)
(* cancelled it or when two processes drove jobs at the same time.  Of a   *)
(* contested job only the rest is promised: it is never without its refund *)
(* when it has ended without output, no refund is taken back, and a        *)
(* deleted job stays deleted.                                              *)
(***************************************************************************)
EXTENDS Naturals

CONSTANT Jobs

VARIABLES
    status,     \* of each job, as GET /videos/{id} shows it
    refunds,    \* how often the reservation was given back
    contested   \* jobs of which only the weaker promise is made

vars == <<status, refunds, contested>>

Ended == {"completed", "failed", "cancelled"}

Unserved == {"failed", "cancelled"}

Existing == {"queued", "rendering"} \cup Ended

Init ==
    /\ status = [j \in Jobs |-> "none"]
    /\ refunds = [j \in Jobs |-> 0]
    /\ contested = {}

Moves(j, from, to) ==
    /\ j \notin contested
    /\ status[j] = from
    /\ status' = [status EXCEPT ![j] = to]
    /\ refunds' = [refunds EXCEPT ![j] = IF to \in Unserved THEN @ + 1 ELSE @]
    /\ UNCHANGED contested

Accept(j) ==
    /\ status[j] = "none"
    /\ status' = [status EXCEPT ![j] = "queued"]
    /\ UNCHANGED <<refunds, contested>>

Render(j) == Moves(j, "queued", "rendering")

WaitAgain(j) == Moves(j, "rendering", "queued")

End(j) == \E to \in Ended \ {"cancelled"} : Moves(j, "rendering", to)

\* Owners cancel jobs, or two processes begin to drive jobs at once.
More == \E more \in SUBSET Jobs : contested' = contested \cup more

Delete(j) ==
    /\ status[j] \in Existing
    /\ status' = [status EXCEPT ![j] = "deleted"]
    /\ UNCHANGED refunds
    /\ More

Contest ==
    /\ More
    /\ UNCHANGED <<status, refunds>>

\* What may happen to a job that is contested.
Drift(j) ==
    /\ More
    /\ j \in contested'
    /\ status[j] \in Existing
    /\ \E to \in Existing : status' = [status EXCEPT ![j] = to]
    /\ \E n \in {refunds[j], refunds[j] + 1} : refunds' = [refunds EXCEPT ![j] = n]
    /\ status'[j] \in Unserved => refunds'[j] > 0

Next ==
    \/ \E j \in Jobs : Accept(j) \/ Render(j) \/ WaitAgain(j) \/ End(j) \/ Delete(j)
                       \/ Drift(j)
    \/ Contest

Spec == Init /\ [][Next]_vars

=============================================================================
