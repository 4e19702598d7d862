---------------------------- MODULE StatusRecord ----------------------------
(***************************************************************************)
(* One target's record in state.json, and the pure decisions main.py takes *)
(* on it: which status to store after a probe, whether a status alert is   *)
(* due, and what an alert's outcome writes back.  AlertLifecycle gives     *)
(* these operators their interleavings, files and crashes.                 *)
(*                                                                         *)
(* Timestamps are abstracted to what decisions compare: `since' names the  *)
(* outage a DOWN record's last_changed belongs to, `missed' names the      *)
(* outage missed_outage.start belongs to (0: the field is absent), and     *)
(* `fresh' is the answer of "0 <= age <= PERFORMANCE_MAX_GAP_S".           *)
(***************************************************************************)
EXTENDS Naturals

CONSTANTS
    DOWN_CONFIRMATIONS,                 \* failed runs that confirm DOWN
    DEGRADED_CONFIRMATIONS,             \* slow runs that confirm DEGRADED
    PERFORMANCE_RECOVERY_CONFIRMATIONS  \* healthy runs that confirm a recovery

ASSUME ConfirmationsAssumption ==
    /\ DOWN_CONFIRMATIONS \in Nat \ {0}
    /\ DEGRADED_CONFIRMATIONS \in Nat \ {0}
    /\ PERFORMANCE_RECOVERY_CONFIRMATIONS \in Nat \ {0}

Status == {"UP", "DEGRADED", "DOWN"}

\* notified = "NONE" is a record written before notification_status existed.
Record ==
    [ status   : Status \union {"ABSENT"},
      failures : 0..DOWN_CONFIRMATIONS,      \* consecutive_failures, capped
      notified : Status \union {"NONE"},     \* notification_status
      slow     : 0..DEGRADED_CONFIRMATIONS,  \* slow_runs
      healthy  : 0..PERFORMANCE_RECOVERY_CONFIRMATIONS,  \* healthy_runs
      pending  : BOOLEAN,                    \* alert_pending
      muted    : BOOLEAN,                    \* muted_alert_owed
      since    : Nat,
      missed   : Nat,
      remind   : Nat ]                       \* remind_step

\* self._state.get(url) is None; every field reads as its .get() default.
Absent ==
    [ status |-> "ABSENT", failures |-> 0, notified |-> "NONE", slow |-> 0,
      healthy |-> 0, pending |-> FALSE, muted |-> FALSE, since |-> 0,
      missed |-> 0, remind |-> 0 ]

\* Fault: streaks grow without the ceiling.
Uncapped(n, ceiling) == n

Capped(n, ceiling) == IF n < ceiling THEN n ELSE ceiling

-----------------------------------------------------------------------------
(* What the record says the operator was last told. A record without the   *)
(* field infers it: the status, unless an alert about it is still owed.    *)
Notified(old) ==
    IF old.notified \in Status THEN old.notified
    ELSE IF old.status \in Status /\ ~old.pending /\ ~old.muted
         THEN old.status
         ELSE "UP"

\* The base of every replaced record: carried fields kept, the rest dropped.
CarryForward(old) ==
    [Absent EXCEPT !.notified = old.notified, !.slow = old.slow,
                   !.healthy = old.healthy, !.pending = old.pending]

-----------------------------------------------------------------------------
(*                    set_up and set_degraded, stabilize=True              *)

\* One more consecutive run of the same kind, or the first of a new streak.
Streak(old, n, s, fresh, ceiling) ==
    IF fresh /\ old.failures = 0 /\ old.status = s THEN Capped(n + 1, ceiling)
                                                   ELSE 1

SlowRuns(old, s, fresh) ==
    IF s = "DEGRADED"
    THEN Streak(old, old.slow, s, fresh, DEGRADED_CONFIRMATIONS) ELSE 0

HealthyRuns(old, s, fresh) ==
    IF s = "UP"
    THEN Streak(old, old.healthy, s, fresh, PERFORMANCE_RECOVERY_CONFIRMATIONS)
    ELSE 0

\* Faults: every outage is caught up, none is, and one is for a single run.
MissedEvenIfTold(old) == IF old.status = "DOWN" THEN old.since ELSE 0
MissedForgotten(old) == 0
MissedOnce(old) ==
    IF old.status = "DOWN" /\ Notified(old) # "DOWN" THEN old.since ELSE 0

\* The outage a catch-up notice is owed for when the target is reachable again.
MissedOutage(old) ==
    LET missed == IF old.status = "DOWN" /\ Notified(old) # "DOWN"
                  THEN old.since ELSE old.missed
    IN  IF old.status = "DOWN" \/ old.pending THEN missed ELSE 0

\* Fault: every change of the observation alerts.
AlertDueOnChange(old, s, fresh) == old.status # s \/ old.pending

\* _performance_decision: is a status alert due for this healthy observation?
AlertDue(old, s, fresh) ==
    \/ MissedOutage(old) # 0
    \/ Notified(old) = "DOWN"
    \/ /\ s = "DEGRADED"
       /\ Notified(old) # "DEGRADED"
       /\ SlowRuns(old, s, fresh) >= DEGRADED_CONFIRMATIONS
    \/ /\ s = "UP"
       /\ Notified(old) = "DEGRADED"
       /\ HealthyRuns(old, s, fresh) >= PERFORMANCE_RECOVERY_CONFIRMATIONS
    \/ old.pending /\ old.status = s

Observed(old, s, fresh) ==
    [CarryForward(old) EXCEPT
        !.status   = s,
        !.notified = Notified(old),
        !.slow     = SlowRuns(old, s, fresh),
        !.healthy  = HealthyRuns(old, s, fresh),
        !.missed   = MissedOutage(old),
        !.muted    = s = "DEGRADED" /\ old.status = "DEGRADED" /\ old.muted]

\* Fault: the obligation is left for the outcome of the dispatch to write.
SetHealthyUnarmed(old, s, fresh) ==
    [Observed(old, s, fresh) EXCEPT !.pending = FALSE]

\* The record set_up (s = "UP") or set_degraded (s = "DEGRADED") stores. An
\* alert that is due is armed in this very record; one that is not is dropped.
SetHealthy(old, s, fresh) ==
    [Observed(old, s, fresh) EXCEPT !.pending = AlertDue(old, s, fresh)]

-----------------------------------------------------------------------------
(*                        set_down, stabilize=True                         *)

Strikes(old) == Capped(old.failures + 1, DOWN_CONFIRMATIONS)

\* A healthy target that failed, but not often enough in a row.
HeldByHysteresis(old) ==
    /\ old.status \in {"UP", "DEGRADED"}
    /\ Strikes(old) < DOWN_CONFIRMATIONS

\* Fault: a FAILURE that reached nobody is not tried again.
DownAlertDueOnce(old) == old.status # "DOWN" /\ ~HeldByHysteresis(old)

\* Does this failed run send FAILURE: news, or a retry of one still owed?
DownAlertDue(old) ==
    IF old.status = "DOWN" THEN old.pending ELSE ~HeldByHysteresis(old)

\* The record set_down stores while the outage `id' is going on.
SetDown(old, id) ==
    IF HeldByHysteresis(old)
    THEN [old EXCEPT !.failures = Strikes(old), !.notified = Notified(old),
                     !.slow = 0, !.healthy = 0]
    ELSE LET repeat == old.status = "DOWN"
         IN  [CarryForward(old) EXCEPT
                 !.status   = "DOWN",
                 !.failures = IF old.status = "ABSENT" THEN 1 ELSE Strikes(old),
                 !.notified = Notified(old),
                 !.slow     = 0,
                 !.healthy  = 0,
                 !.since    = IF repeat THEN old.since ELSE id,
                 !.remind   = IF repeat THEN old.remind ELSE 0,
                 !.muted    = repeat /\ old.muted,
                 !.pending  = DownAlertDue(old)]

-----------------------------------------------------------------------------
(*                  what an alert's outcome writes back                    *)

\* Faults: the outcome is taken for a delivery, and a delivery for a loss.
AlertOutcomeAssumed(record, delivered) ==
    [record EXCEPT !.notified = record.status, !.missed = 0,
                   !.pending = ~delivered]
AlertOutcomeStuck(record, delivered) ==
    [record EXCEPT !.notified = IF delivered THEN record.status ELSE @,
                   !.missed = 0, !.pending = TRUE]

\* record_alert_outcome.
AlertOutcome(record, delivered) ==
    IF delivered
    THEN [record EXCEPT !.notified = record.status, !.missed = 0,
                        !.pending = FALSE]
    ELSE [record EXCEPT !.pending = TRUE,
                        !.notified = IF @ = "NONE" THEN "UP" ELSE @]

=============================================================================
