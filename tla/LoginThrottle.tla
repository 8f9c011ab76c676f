---------------------------- MODULE LoginThrottle ----------------------------
(***************************************************************************)
(* The failed-login counter of backend/src/middleware/throttle.rs, which   *)
(* parks one credential after repeated wrong passwords.  A record is kept  *)
(* per user name (trimmed and in lower case, so a name here is the name    *)
(* after normalize).  Instants become what the code asks of them: stale,   *)
(* that last_seen is more than one lock-out ago, and lock, whether         *)
(* locked_until is unset, still to come ("on") or past ("over").  Each     *)
(* method holds the mutex from end to end and is one operator.             *)
(***************************************************************************)
EXTENDS Naturals

CONSTANT Threshold  \* failed_login_threshold; 0 switches the counter off

ASSUME ThrottleAssumption == Threshold \in Nat

Failures == [known : BOOLEAN, count : 0 .. Threshold, stale : BOOLEAN,
             lock : {"none", "on", "over"}]

(* No record: what an absent key of the map stands for. *)
NoFailures == [known |-> FALSE, count |-> 0, stale |-> FALSE, lock |-> "none"]

LockedOut(f) == f.lock = "on"

(* lockout_remaining of a name that is not locked out: a record whose      *)
(* lock-out has ended is dropped.                                          *)
ClearEnded(f) == IF f.lock = "over" THEN NoFailures ELSE f

(* record_failure's count before it looks at the threshold. *)
Counted(f) == (IF f.stale THEN 0 ELSE f.count) + 1

(* Mutant of the next: the comparison is strict. *)
RecordFailureLate(f) ==
    IF Threshold = 0 THEN f
    ELSE IF Counted(f) > Threshold
    THEN [known |-> TRUE, count |-> 0, stale |-> FALSE, lock |-> "on"]
    ELSE [known |-> TRUE, count |-> Counted(f), stale |-> FALSE,
          lock |-> f.lock]

RecordFailure(f) ==
    IF Threshold = 0 THEN f
    ELSE IF Counted(f) >= Threshold
    THEN [known |-> TRUE, count |-> 0, stale |-> FALSE, lock |-> "on"]
    ELSE [known |-> TRUE, count |-> Counted(f), stale |-> FALSE,
          lock |-> f.lock]

(* record_success *)
RecordSuccess(f) == NoFailures

(* prune, for a record nothing has touched for a day.  A day is taken to   *)
(* be longer than a lock-out.                                              *)
Prunable(f) == f.known /\ f.stale /\ f.lock # "on"

(* What the passing of time does to a record. *)
Stale(f) == [f EXCEPT !.stale = TRUE]
LockEnded(f) == [f EXCEPT !.lock = "over"]
=============================================================================
