----------------------------- MODULE RateLimit -----------------------------
(***************************************************************************)
(* The requests-per-minute limit: check_rpm of core/redis_client.py, which *)
(* counts in a Redis key with an expiry, and the bounded in-process        *)
(* limiter of security/rate_limits.py that answers when Redis does not.    *)
(*                                                                         *)
(* A call sends its commands one by one: INCR with TTL in a transaction,   *)
(* EXPIRE when the key has no expiry, DECR when the count is over the      *)
(* limit.  The key may expire between any two of them, and any of them may *)
(* fail, which hands the call to the in-process limiter.                   *)
(*                                                                         *)
(* The names do not clash with those of Quota: LimitsProofs extends both.  *)
(***************************************************************************)
EXTENDS Integers, FiniteSets

CONSTANTS
    Users,    \* keys "user:<id>"
    Slots,    \* concurrent calls of a user
    Limit,    \* rpm_limit
    MaxKeys,  \* _max_keys of the in-process limiter
    MaxFailed \* bound: commands that fail

ASSUME RateAssumption ==
    /\ IsFiniteSet(Slots)
    /\ Limit \in Nat \ {0} /\ MaxKeys \in Nat \ {0} /\ MaxFailed \in Nat

VARIABLES
    key,      \* rpm:user:<id> in Redis
    call,     \* where each call is
    over,     \* the INCR of the call returned more than the limit
    late,     \* the key expired since the call's INCR
    buckets,  \* _buckets of the limiter: a user's count, whether its window has
              \* elapsed, and its place, 1 for the bucket used last, 0 for none
    passed,   \* history: calls Redis admitted since the key was created
    debt,     \* history: DECRs that reached a later key than their INCR
    failed

redisVars == <<key, passed, debt>>
callVars == <<call, over, late>>
rateVars == <<redisVars, callVars, buckets, failed>>

Calls == Users \X Slots
User(c) == c[1]

Absent == [live |-> FALSE, n |-> 0, ttl |-> FALSE]
NoBucket == [n |-> 0, old |-> FALSE, place |-> 0]

RateInit ==
    /\ key = [u \in Users |-> Absent]
    /\ call = [c \in Calls |-> "idle"]
    /\ over = [c \in Calls |-> FALSE]
    /\ late = [c \in Calls |-> FALSE]
    /\ buckets = [u \in Users |-> NoBucket]
    /\ passed = [u \in Users |-> 0]
    /\ debt = [u \in Users |-> 0]
    /\ failed = 0

Go(c, label) == call' = [call EXCEPT ![c] = label]

-----------------------------------------------------------------------------
(* check_rpm.                                                              *)

\* The call is answered.
Return(c) ==
    /\ Go(c, "idle")
    /\ over' = [over EXCEPT ![c] = FALSE]
    /\ late' = [late EXCEPT ![c] = FALSE]

\* After EXPIRE, or without it: over the limit, the count is taken back.
Decide(c, isOver) ==
    IF isOver
      THEN /\ Go(c, "decr")
           /\ over' = [over EXCEPT ![c] = TRUE]
           /\ UNCHANGED <<late, passed>>
      ELSE /\ Return(c)
           /\ passed' = [passed EXCEPT ![User(c)] = IF late[c] THEN @ ELSE @ + 1]

\* INCR and TTL; a new key has neither a count nor an expiry.
IncrKey(c) ==
    /\ call[c] = "idle"
    /\ LET u == User(c)
           n == key[u].n + 1
       IN  /\ key' = [key EXCEPT ![u] = [@ EXCEPT !.live = TRUE, !.n = n]]
           /\ IF key[u].ttl
                THEN Decide(c, n > Limit)
                ELSE /\ Go(c, "expire")
                     /\ over' = [over EXCEPT ![c] = n > Limit]
                     /\ UNCHANGED <<late, passed>>
    /\ UNCHANGED <<debt, buckets, failed>>

\* Mutant: the expiry is set only by the call that created the key.
ExpireNew(c) ==
    /\ call[c] = "expire"
    /\ key' = [key EXCEPT ![User(c)].ttl = @ \/ (key[User(c)].live /\ key[User(c)].n = 1)]
    /\ Decide(c, over[c])
    /\ UNCHANGED <<debt, buckets, failed>>

\* EXPIRE, without effect on a key that is gone.
ExpireKey(c) ==
    /\ call[c] = "expire"
    /\ key' = [key EXCEPT ![User(c)].ttl = key[User(c)].live]
    /\ Decide(c, over[c])
    /\ UNCHANGED <<debt, buckets, failed>>

\* Mutant: the count is taken back twice.
DecrTwice(c) ==
    /\ call[c] = "decr"
    /\ key' = [key EXCEPT ![User(c)] = [@ EXCEPT !.live = TRUE, !.n = key[User(c)].n - 2]]
    /\ debt' = [debt EXCEPT ![User(c)] = IF late[c] THEN @ + 1 ELSE @]
    /\ Return(c)
    /\ UNCHANGED <<passed, buckets, failed>>

\* DECR, which creates a key that is gone; the request is refused.
DecrKey(c) ==
    /\ call[c] = "decr"
    /\ key' = [key EXCEPT ![User(c)] = [@ EXCEPT !.live = TRUE, !.n = key[User(c)].n - 1]]
    /\ debt' = [debt EXCEPT ![User(c)] = IF late[c] THEN @ + 1 ELSE @]
    /\ Return(c)
    /\ UNCHANGED <<passed, buckets, failed>>

-----------------------------------------------------------------------------
(* InMemoryRateLimiter.                                                    *)

Held == {u \in Users : buckets[u].place > 0}

\* The bucket of u, with count n, becomes the last used one; those that were
\* ahead of it move back by a place.
Touch(u, n) ==
    LET ahead == {v \in Held : \/ buckets[u].place = 0
                               \/ buckets[v].place < buckets[u].place}
    IN  [v \in Users |->
            IF v = u THEN [n |-> n, old |-> FALSE, place |-> 1]
            ELSE IF v \in ahead THEN [buckets[v] EXCEPT !.place = @ + 1]
            ELSE buckets[v]]

\* Mutant: only elapsed windows are pruned.
PruneOld(b) == [u \in Users |-> IF b[u].old THEN NoBucket ELSE b[u]]

\* _prune: windows that elapsed go first, then the least recently used.
Prune(b) ==
    LET fresh == {u \in Users : b[u].place > 0 /\ ~b[u].old}
        Place(u) == Cardinality({v \in fresh : b[v].place <= b[u].place})
    IN  [u \in Users |-> IF u \in fresh /\ Place(u) <= MaxKeys
                           THEN [b[u] EXCEPT !.place = Place(u)]
                           ELSE NoBucket]

\* The buckets after check; it admits the request unless its window is full.
Check(u) ==
    LET e == buckets[u]
    IN  CASE e.place = 0 \/ e.old -> Prune(Touch(u, 1))
          [] e.place > 0 /\ ~e.old /\ e.n >= Limit -> Touch(u, e.n)
          [] e.place > 0 /\ ~e.old /\ e.n < Limit -> Touch(u, e.n + 1)

\* A command fails: _rpm_fallback answers, whatever Redis has already counted.
Fallback(c) ==
    /\ failed < MaxFailed
    /\ failed' = failed + 1
    /\ buckets' = Check(User(c))
    /\ Return(c)
    /\ UNCHANGED redisVars

-----------------------------------------------------------------------------
(* Time.                                                                   *)

\* The key's expiry: the window is over.
KeyExpires(u) ==
    /\ key[u].live /\ key[u].ttl
    /\ key' = [key EXCEPT ![u] = Absent]
    /\ passed' = [passed EXCEPT ![u] = 0]
    /\ debt' = [debt EXCEPT ![u] = 0]
    /\ late' = [c \in Calls |-> IF User(c) = u /\ call[c] # "idle" THEN TRUE ELSE late[c]]
    /\ UNCHANGED <<call, over, buckets, failed>>

\* A bucket's window elapses.
BucketElapses(u) ==
    /\ u \in Held /\ ~buckets[u].old
    /\ buckets' = [buckets EXCEPT ![u].old = TRUE]
    /\ UNCHANGED <<redisVars, callVars, failed>>

-----------------------------------------------------------------------------
Command(c) == IncrKey(c) \/ ExpireKey(c) \/ DecrKey(c)

RateNext ==
    \/ \E c \in Calls : Command(c) \/ Fallback(c)
    \/ \E u \in Users : KeyExpires(u) \/ BucketElapses(u)

RateSpec == RateInit /\ [][RateNext]_rateVars

\* Clients keep asking and calls go on; expiries come.
RateFairSpec ==
    /\ RateSpec
    /\ \A c \in Calls : WF_rateVars(Command(c))
    /\ \A u \in Users : WF_rateVars(KeyExpires(u))

-----------------------------------------------------------------------------
(* Properties.                                                             *)

\* Types, and the size limit of the in-process limiter.
RateTypeOK ==
    /\ key \in [Users -> [live : BOOLEAN, n : Int, ttl : BOOLEAN]]
    /\ call \in [Calls -> {"idle", "expire", "decr"}]
    /\ buckets \in [Users -> [n : 0 .. Limit, old : BOOLEAN, place : 0 .. MaxKeys]]
    /\ IsFiniteSet(Held) /\ Cardinality(Held) <= MaxKeys

\* In one life of the key Redis admits no more than the limit, and one more for
\* every count that was taken back from it although it had been added to the
\* key before.
WindowWithinLimit == \A u \in Users : passed[u] <= Limit + debt[u]

\* A user who keeps asking is not locked out: refused requests do not prolong
\* the window, and a lost EXPIRE is made up for.
NotLockedOut == \A u \in Users : []<>(key[u].n < Limit)
=============================================================================
