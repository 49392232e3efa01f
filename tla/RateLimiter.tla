---------------------------- MODULE RateLimiter -----------------------------
(***************************************************************************)
(* ethereum/ratelimit: the limit on the Ethereum RPC requests of a UTC     *)
(* day.  Wait checks the count in one critical section and increments it   *)
(* in another one, after the per-second limiter has let the request pass;  *)
(* one goroutine of Start zeroes the count at midnight, another one stores *)
(* it in the database, and New reads it back when the node restarts.       *)
(***************************************************************************)
EXTENDS Integers, FiniteSets

CONSTANTS Caller,               \* goroutines that send requests
          maxRequestsPer24Hrs,
          MaxDay                \* bound of the model

ASSUME RateLimiterAssumption ==
    /\ IsFiniteSet(Caller) /\ Caller # {}
    /\ maxRequestsPer24Hrs \in Nat /\ MaxDay \in Nat

VARIABLES
    day,         \* the day of the clock
    checkpoint,  \* currentUTCCheckpoint: the day that is being counted
    granted,     \* grantedInLast24hrsUTC
    resetAt,     \* the midnight the resetting goroutine waits for
    stored,      \* the metadata in the database
    waiting,     \* the callers at the per-second limiter
    sent,        \* the requests really granted in the day that is being counted
    lost         \* those of them that restarts have forgotten

limiterVars == <<day, checkpoint, granted, resetAt, stored, waiting, sent, lost>>

LimiterInit ==
    /\ day = 0 /\ checkpoint = 0 /\ granted = 0 /\ resetAt = 1
    /\ stored = [day |-> 0, count |-> 0]
    /\ waiting = {} /\ sent = 0 /\ lost = 0

\* Wait returns ErrTooManyRequestsIn24Hours.
TooManyRequests == granted >= maxRequestsPer24Hrs

\* Mutant: the count is not checked.
WaitUnchecked(c) ==
    /\ c \notin waiting
    /\ waiting' = waiting \cup {c}
    /\ UNCHANGED <<day, checkpoint, granted, resetAt, stored, sent, lost>>

\* Wait: the check, before the per-second limiter ...
WaitBegin(c) ==
    /\ c \notin waiting /\ ~TooManyRequests
    /\ waiting' = waiting \cup {c}
    /\ UNCHANGED <<day, checkpoint, granted, resetAt, stored, sent, lost>>

\* ... and the increment after it.
WaitGranted(c) ==
    /\ c \in waiting
    /\ waiting' = waiting \ {c}
    /\ granted' = granted + 1 /\ sent' = sent + 1
    /\ UNCHANGED <<day, checkpoint, resetAt, stored, lost>>

\* The context of the caller ends before.
WaitCancelled(c) ==
    /\ c \in waiting
    /\ waiting' = waiting \ {c}
    /\ UNCHANGED <<day, checkpoint, granted, resetAt, stored, sent, lost>>

\* External: another day begins.
Midnight ==
    /\ day < MaxDay
    /\ day' = day + 1
    /\ UNCHANGED <<checkpoint, granted, resetAt, stored, waiting, sent, lost>>

\* The resetting goroutine: it waits for the next midnight after the current
\* day, which it computes when it starts to wait.
ResetGrants ==
    /\ day >= resetAt
    /\ checkpoint' = resetAt /\ granted' = 0
    /\ sent' = 0 /\ lost' = 0
    /\ resetAt' = day + 1
    /\ UNCHANGED <<day, stored, waiting>>

\* The checkpoint ticker of Start.  (A database error changes nothing.)
StoreCheckpoint ==
    /\ stored' = [day |-> checkpoint, count |-> granted]
    /\ UNCHANGED <<day, checkpoint, granted, resetAt, waiting, sent, lost>>

\* The count that New takes over from the database: none from another day.
Restored == IF stored.day = day THEN stored.count ELSE 0

\* The node stops, at any point, and New reads the metadata.
Restart ==
    /\ checkpoint' = day /\ resetAt' = day + 1
    /\ granted' = Restored
    /\ stored' = [day |-> day, count |-> Restored]
    /\ waiting' = {}
    /\ sent' = IF checkpoint = day THEN sent ELSE Restored
    /\ lost' = IF checkpoint = day THEN lost + granted - Restored ELSE 0
    /\ UNCHANGED day

LimiterStep ==
    \/ \E c \in Caller : WaitBegin(c) \/ WaitGranted(c) \/ WaitCancelled(c)
    \/ Midnight \/ ResetGrants \/ StoreCheckpoint \/ Restart

LimiterSpec == LimiterInit /\ [][LimiterStep]_limiterVars

-----------------------------------------------------------------------------
LimiterTypeOK ==
    /\ day \in Nat /\ checkpoint \in Nat /\ granted \in Nat /\ resetAt \in Nat
    /\ stored \in [day : Nat, count : Nat]
    /\ waiting \in SUBSET Caller
    /\ sent \in Nat /\ lost \in Nat

(***************************************************************************)
(* The requests of a day exceed maxRequestsPer24Hrs by less than the       *)
(* number of goroutines that can be between the check and the increment of *)
(* Wait, plus the requests that were not yet stored when the node stopped. *)
(* ("It also returns an error if too many requests have been sent during   *)
(* this 24 hour period.")                                                  *)
(***************************************************************************)
DailyBound ==
    sent + Cardinality(waiting) < maxRequestsPer24Hrs + Cardinality(Caller) + lost

(***************************************************************************)
(* The database never holds more than the limiter has counted for the same *)
(* day: a restart may forget requests, but never counts one twice or takes *)
(* over another day's (New, Start).                                        *)
(***************************************************************************)
StoredIsBehind ==
    /\ stored.day <= checkpoint /\ checkpoint <= day
    /\ stored.day = checkpoint => stored.count <= granted
    /\ sent = granted + lost
=============================================================================
