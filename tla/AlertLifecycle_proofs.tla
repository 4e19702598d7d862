------------------------ MODULE AlertLifecycle_proofs -----------------------
(***************************************************************************)
(* What the decisions of StatusRecord return, and invariants of            *)
(* AlertLifecycle for every set of targets, every subset of them with      *)
(* windows and reminders, with and without crashes, failing writes and     *)
(* sampling gaps, and every confirmation count.                            *)
(***************************************************************************)
EXTENDS AlertLifecycle, TLAPS

-----------------------------------------------------------------------------
(*                        The decisions on one record                      *)

\* A capped counter stays within 0..ceiling.
LEMMA CappedType ==
    ASSUME NEW n \in Nat, NEW ceiling \in Nat
    PROVE  Capped(n, ceiling) \in 0..ceiling
  BY DEF Capped

\* The record of a target never seen is a record.
LEMMA AbsentType == Absent \in Record
  BY ConfirmationsAssumption DEF Absent, Record, Status

\* What the operator was told is always a status.
LEMMA NotifiedType ==
    ASSUME NEW old \in Record
    PROVE  Notified(old) \in Status
  BY DEF Notified, Status

\* The streak counters a healthy observation stores are within their bounds.
LEMMA StreakTypes ==
    ASSUME NEW old \in Record, NEW s \in Status, NEW fresh \in BOOLEAN
    PROVE  /\ SlowRuns(old, s, fresh) \in 0..DEGRADED_CONFIRMATIONS
           /\ HealthyRuns(old, s, fresh)
                  \in 0..PERFORMANCE_RECOVERY_CONFIRMATIONS
<1>1. old.slow + 1 \in Nat /\ old.healthy + 1 \in Nat
  BY ConfirmationsAssumption DEF Record
<1>2. /\ Capped(old.slow + 1, DEGRADED_CONFIRMATIONS)
             \in 0..DEGRADED_CONFIRMATIONS
      /\ Capped(old.healthy + 1, PERFORMANCE_RECOVERY_CONFIRMATIONS)
             \in 0..PERFORMANCE_RECOVERY_CONFIRMATIONS
  BY <1>1, CappedType, ConfirmationsAssumption
<1> QED
  BY <1>2, ConfirmationsAssumption DEF SlowRuns, HealthyRuns, Streak

\* Carrying fields forward yields a record.
LEMMA CarryForwardType ==
    ASSUME NEW old \in Record
    PROVE  CarryForward(old) \in Record
  BY AbsentType DEF CarryForward, Record

\* set_up and set_degraded store a record with the observed status.
LEMMA SetHealthyType ==
    ASSUME NEW old \in Record, NEW s \in {"UP", "DEGRADED"}, NEW fresh \in BOOLEAN
    PROVE  /\ SetHealthy(old, s, fresh) \in Record
           /\ SetHealthy(old, s, fresh).status = s
<1>1. s \in Status
  BY DEF Status
<1>2. /\ CarryForward(old) \in Record
      /\ Notified(old) \in Status
      /\ SlowRuns(old, s, fresh) \in 0..DEGRADED_CONFIRMATIONS
      /\ HealthyRuns(old, s, fresh) \in 0..PERFORMANCE_RECOVERY_CONFIRMATIONS
  BY <1>1, CarryForwardType, NotifiedType, StreakTypes
<1>3. MissedOutage(old) \in Nat
  BY DEF MissedOutage, Record
<1>4. AlertDue(old, s, fresh) \in BOOLEAN
  BY DEF AlertDue
<1> QED
  BY <1>1, <1>2, <1>3, <1>4 DEF SetHealthy, Observed, Record

\* set_down stores a record; unless hysteresis holds a status, it is DOWN.
LEMMA SetDownType ==
    ASSUME NEW old \in Record, NEW id \in Nat
    PROVE  /\ SetDown(old, id) \in Record
           /\ SetDown(old, id).status \in Status
<1>1. Strikes(old) \in 0..DOWN_CONFIRMATIONS /\ 1 \in 0..DOWN_CONFIRMATIONS
  <2>1. old.failures + 1 \in Nat
    BY ConfirmationsAssumption DEF Record
  <2>2. Capped(old.failures + 1, DOWN_CONFIRMATIONS) \in 0..DOWN_CONFIRMATIONS
    BY <2>1, CappedType, ConfirmationsAssumption
  <2>3. 1 \in 0..DOWN_CONFIRMATIONS
    BY ConfirmationsAssumption
  <2> QED
    BY <2>2, <2>3 DEF Strikes
<1>2. /\ Notified(old) \in Status
      /\ CarryForward(old) \in Record
  BY NotifiedType, CarryForwardType
<1>3. /\ 0 \in 0..DEGRADED_CONFIRMATIONS
      /\ 0 \in 0..PERFORMANCE_RECOVERY_CONFIRMATIONS
  BY ConfirmationsAssumption
<1>4. CASE HeldByHysteresis(old)
  <2>1. old.status \in Status
    BY <1>4 DEF HeldByHysteresis, Status
  <2>2. SetDown(old, id) =
          [old EXCEPT !.failures = Strikes(old), !.notified = Notified(old),
                      !.slow = 0, !.healthy = 0]
    BY <1>4 DEF SetDown
  <2>3. SetDown(old, id) \in Record
    BY <1>1, <1>2, <1>3, <2>2 DEF Record
  <2>4. SetDown(old, id).status = old.status
    BY <2>2 DEF Record
  <2> QED
    BY <2>1, <2>3, <2>4
<1>5. CASE ~HeldByHysteresis(old)
  <2> DEFINE repeat   == old.status = "DOWN"
             carried  == CarryForward(old)
             failures == IF old.status = "ABSENT" THEN 1 ELSE Strikes(old)
             since    == IF repeat THEN old.since ELSE id
             remind   == IF repeat THEN old.remind ELSE 0
             muted    == repeat /\ old.muted
             due      == DownAlertDue(old)
             notified == Notified(old)
  <2>1. SetDown(old, id) =
          [carried EXCEPT !.status = "DOWN", !.failures = failures,
                          !.notified = notified, !.slow = 0, !.healthy = 0,
                          !.since = since, !.remind = remind,
                          !.muted = muted, !.pending = due]
    BY <1>5 DEF SetDown
  <2>2. due \in BOOLEAN
    BY DEF DownAlertDue, Record, HeldByHysteresis
  <2>3. failures \in 0..DOWN_CONFIRMATIONS
    BY <1>1
  <2>4. since \in Nat /\ remind \in Nat
    BY DEF Record
  <2>5. muted \in BOOLEAN
    BY DEF Record
  <2>6. "DOWN" \in Status
    BY DEF Status
  <2>7. carried \in Record /\ notified \in Status
    BY <1>2
  <2> HIDE DEF carried, failures, since, remind, muted, due, notified
  <2>8. [carried EXCEPT !.status = "DOWN", !.failures = failures,
                        !.notified = notified, !.slow = 0, !.healthy = 0]
          \in Record
    BY <1>3, <2>3, <2>6, <2>7 DEF Record
  <2>9. [[carried EXCEPT !.status = "DOWN", !.failures = failures,
                         !.notified = notified, !.slow = 0, !.healthy = 0]
           EXCEPT !.since = since, !.remind = remind, !.muted = muted,
                  !.pending = due] \in Record
    BY <2>2, <2>4, <2>5, <2>8 DEF Record
  <2>10. SetDown(old, id) \in Record
    BY <2>1, <2>7, <2>9 DEF Record
  <2>11. SetDown(old, id).status = "DOWN"
    BY <2>1, <2>7 DEF Record
  <2> QED
    BY <2>6, <2>10, <2>11
<1> QED
  BY <1>4, <1>5

\* record_alert_outcome stores a record with the status it found.
LEMMA AlertOutcomeType ==
    ASSUME NEW record \in Record, NEW delivered \in BOOLEAN,
           record.status \in Status
    PROVE  /\ AlertOutcome(record, delivered) \in Record
           /\ AlertOutcome(record, delivered).status = record.status
           /\ AlertOutcome(record, delivered).pending = ~delivered
<1>1. "UP" \in Status
  BY DEF Status
<1> QED
  BY <1>1 DEF AlertOutcome, Record

\* What the record set_up or set_degraded stores says, field by field.
LEMMA SetHealthyFields ==
    ASSUME NEW old \in Record, NEW s, NEW fresh
    PROVE  /\ SetHealthy(old, s, fresh).status = s
           /\ SetHealthy(old, s, fresh).pending = AlertDue(old, s, fresh)
           /\ SetHealthy(old, s, fresh).notified = Notified(old)
           /\ SetHealthy(old, s, fresh).missed = MissedOutage(old)
           /\ SetHealthy(old, s, fresh).muted =
                 (s = "DEGRADED" /\ old.status = "DEGRADED" /\ old.muted)
  BY DEF SetHealthy, Observed, CarryForward, Absent

\* A failed run that hysteresis holds back moves the counters only.
LEMMA SetDownHeldFields ==
    ASSUME NEW old \in Record, NEW id, HeldByHysteresis(old)
    PROVE  /\ SetDown(old, id).status = old.status
           /\ SetDown(old, id).pending = old.pending
           /\ SetDown(old, id).notified = Notified(old)
           /\ SetDown(old, id).missed = old.missed
           /\ SetDown(old, id).muted = old.muted
  BY DEF SetDown, Record

\* A failed run that confirms DOWN, or finds it confirmed.
LEMMA SetDownFields ==
    ASSUME NEW old \in Record, NEW id, ~HeldByHysteresis(old)
    PROVE  /\ SetDown(old, id).status = "DOWN"
           /\ SetDown(old, id).pending = DownAlertDue(old)
           /\ SetDown(old, id).notified = Notified(old)
           /\ SetDown(old, id).missed = 0
           /\ SetDown(old, id).since =
                 IF old.status = "DOWN" THEN old.since ELSE id
           /\ SetDown(old, id).muted = (old.status = "DOWN" /\ old.muted)
  BY DEF SetDown, CarryForward, Absent

\* What an alert's outcome writes back, field by field.
LEMMA AlertOutcomeFields ==
    ASSUME NEW record \in Record, NEW delivered \in BOOLEAN
    PROVE  /\ AlertOutcome(record, delivered).status = record.status
           /\ AlertOutcome(record, delivered).pending = ~delivered
           /\ AlertOutcome(record, delivered).since = record.since
           /\ AlertOutcome(record, delivered).muted = record.muted
           /\ AlertOutcome(record, delivered).missed =
                 IF delivered THEN 0 ELSE record.missed
           /\ record.notified \in Status =>
                 AlertOutcome(record, delivered).notified =
                     IF delivered THEN record.status ELSE record.notified
  BY DEF AlertOutcome, Record, Status

\* An outage never ends in silence: whatever a reachable probe observes after
\* DOWN, an alert is due, a recovery if the record says DOWN was told and the
\* catch-up notice if not (_performance_decision).
THEOREM LeavingDownAlerts ==
    ASSUME NEW old \in Record, NEW s \in Status, NEW fresh \in BOOLEAN,
           old.status = "DOWN", old.since # 0
    PROVE  /\ SetHealthy(old, s, fresh).pending
           /\ Notified(old) # "DOWN" => MissedOutage(old) = old.since
<1>1. AlertDue(old, s, fresh)
  BY DEF AlertDue, MissedOutage
<1>2. SetHealthy(old, s, fresh).pending = AlertDue(old, s, fresh)
  BY DEF SetHealthy, Observed, CarryForward, Absent
<1> QED
  BY <1>1, <1>2 DEF MissedOutage

\* No failed run forgets an alert that is owed (set_down).
THEOREM FailureKeepsOwed ==
    ASSUME NEW old \in Record, NEW id \in Nat, old.pending
    PROVE  SetDown(old, id).pending
  BY DEF SetDown, HeldByHysteresis, DownAlertDue, CarryForward, Absent, Record

-----------------------------------------------------------------------------
(*                         The types of the pipeline                       *)

USE LifecycleAssumption

\* A coroutine past its probe has a record with an observed status.
SeenBeforeSent ==
    \A t \in Target : task[t].at \notin {"idle", "probe"}
                        => mem[t].status \in Status

TypeInv == TypeOK /\ SeenBeforeSent

-----------------------------------------------------------------------------
(*                        Types of the constructors                        *)

LEMMA TaskTypes ==
    /\ \A step \in Step : At(step) \in Task /\ At(step).at = step
    /\ \A kind \in Kind, site \in Site :
          Carrying(kind, site) \in Task /\ Carrying(kind, site).at = "funnel"
  BY DEF At, Carrying, Task, Step

LEMMA ReturnedType ==
    ASSUME task \in [Target -> Task], NEW t \in Target, NEW outcome \in Outcome
    PROVE  /\ Returned(t, outcome) \in Task
           /\ Returned(t, outcome).at \in {"done", "settle"}
  BY DEF Returned, Task, Step

LEMMA HealthyKindType ==
    ASSUME NEW old \in Record, NEW s \in {"UP", "DEGRADED"}
    PROVE  HealthyKind(old, s) \in Kind
  BY DEF HealthyKind, Kind, StatusKind

LEMMA LegacyRecordType ==
    ASSUME NEW s \in Status, NEW owed \in BOOLEAN
    PROVE  LegacyRecord(s, owed) \in Record
<1>1. 1 \in 0..DOWN_CONFIRMATIONS /\ 0 \in 0..DOWN_CONFIRMATIONS
  BY ConfirmationsAssumption
<1> QED
  BY <1>1, AbsentType DEF LegacyRecord, Record

LEMMA FirstRecordType == \A t \in Target : FirstRecord(t) \subseteq Record
<1> SUFFICES ASSUME NEW t \in Target, NEW r \in FirstRecord(t)
             PROVE  r \in Record
  OBVIOUS
<1>1. CASE r = Absent
  BY <1>1, AbsentType
<1>2. CASE \E s \in Status : r = LegacyRecord(s, FALSE)
  BY <1>2, LegacyRecordType
<1>3. CASE r = LegacyRecord("DOWN", TRUE)
  BY <1>3, LegacyRecordType DEF Status
<1> QED
  BY <1>1, <1>2, <1>3 DEF FirstRecord

\* Storing a record keeps both the memory and the file maps of records, and
\* leaves the other targets' records in memory alone.
LEMMA StoreType ==
    ASSUME TypeOK, NEW t \in Target, NEW record \in Record, Store(t, record)
    PROVE  /\ mem' \in [Target -> Record]
           /\ disk' \in [Target -> Record]
           /\ writeFailed' \in BOOLEAN
           /\ mem'[t] = record
           /\ \A u \in Target \ {t} : mem'[u] = mem[u]
  BY DEF Store, WriteSync, TypeOK

-----------------------------------------------------------------------------
(*                             Type correctness                            *)

LEMMA InitTypeInv == Init => TypeInv
<1> SUFFICES ASSUME Init
             PROVE  TypeInv
  OBVIOUS
<1>1. disk \in [Target -> Record]
  BY FirstRecordType DEF Init
<1>2. mem \in [Target -> Record]
  BY <1>1 DEF Init
<1>3. told \in [Target -> Status]
  BY <1>1 DEF Init, ToldBefore, Status
<1>4. heard \in [Target -> SUBSET Nat]
  BY <1>1 DEF Init, Record
<1>5. task \in [Target -> Task] /\ \A t \in Target : task[t].at = "idle"
  BY TaskTypes DEF Init, Step
<1>6. outage \in [Target -> Nat]
  BY DEF Init
<1> QED
  BY <1>1, <1>2, <1>3, <1>4, <1>5, <1>6 DEF Init, TypeInv, TypeOK, SeenBeforeSent

LEMMA NextTypeInv == TypeInv /\ [Next]_vars => TypeInv'
<1> SUFFICES ASSUME TypeInv, [Next]_vars
             PROVE  TypeInv'
  OBVIOUS
<1> USE DEF TypeInv
<1>1. ASSUME NEW t \in Target, ObserveHealthy(t)
      PROVE  TypeInv'
  <2>1. PICK fresh \in BOOLEAN :
           /\ Store(t, SetHealthy(mem[t], health[t], fresh))
           /\ Arm(t, AlertDue(mem[t], health[t], fresh))
           /\ task' = [task EXCEPT ![t] =
                IF AlertDue(mem[t], health[t], fresh)
                THEN Carrying(HealthyKind(mem[t], health[t]),
                        IF health[t] = "UP" THEN "recovery" ELSE "transition")
                ELSE At(IF health[t] = "UP" THEN "done" ELSE "announce")]
    BY <1>1 DEF ObserveHealthy
  <2>2. mem[t] \in Record /\ health[t] \in {"UP", "DEGRADED"}
    BY <1>1 DEF TypeOK, ObserveHealthy
  <2>3. /\ SetHealthy(mem[t], health[t], fresh) \in Record
        /\ SetHealthy(mem[t], health[t], fresh).status \in Status
    <3>1. SetHealthy(mem[t], health[t], fresh) \in Record
      BY <2>2, SetHealthyType
    <3>2. SetHealthy(mem[t], health[t], fresh).status = health[t]
      BY DEF SetHealthy, Observed, CarryForward, Absent
    <3> QED
      BY <2>2, <3>1, <3>2 DEF Status
  <2>4. /\ mem' \in [Target -> Record] /\ disk' \in [Target -> Record]
        /\ writeFailed' \in BOOLEAN
        /\ mem'[t].status \in Status
        /\ \A u \in Target \ {t} : mem'[u] = mem[u]
    BY <2>1, <2>3, StoreType
  <2>5. task' \in [Target -> Task] /\ \A u \in Target \ {t} : task'[u] = task[u]
    <3>1. HealthyKind(mem[t], health[t]) \in Kind
      BY <2>2, HealthyKindType
    <3>2. {"recovery", "transition"} \subseteq Site /\ {"done", "announce"} \subseteq Step
      BY DEF Site, Step
    <3> QED
      BY <2>1, <3>1, <3>2, TaskTypes DEF TypeOK
  <2>6. armed' \subseteq Target
    BY <2>1 DEF Arm, TypeOK
  <2> QED
    BY <1>1, <2>4, <2>5, <2>6
    DEF ObserveHealthy, TypeOK, SeenBeforeSent, environment, operator
<1>2. ASSUME NEW t \in Target, ObserveDown(t)
      PROVE  TypeInv'
  <2>1. mem[t] \in Record /\ outage[t] \in Nat
    BY DEF TypeOK
  <2>2. /\ SetDown(mem[t], outage[t]) \in Record
        /\ SetDown(mem[t], outage[t]).status \in Status
    BY <2>1, SetDownType
  <2>3. /\ mem' \in [Target -> Record] /\ disk' \in [Target -> Record]
        /\ writeFailed' \in BOOLEAN
        /\ mem'[t].status \in Status
        /\ \A u \in Target \ {t} : mem'[u] = mem[u]
    BY <1>2, <2>2, StoreType DEF ObserveDown
  <2>4. task' \in [Target -> Task] /\ \A u \in Target \ {t} : task'[u] = task[u]
    <3>1. /\ "FAILURE" \in Kind /\ "transition" \in Site
          /\ {"remind", "announce", "done"} \subseteq Step
      BY DEF Kind, StatusKind, Site, Step
    <3> QED
      BY <1>2, <3>1, TaskTypes DEF ObserveDown, TypeOK
  <2>5. armed' \subseteq Target
    BY <1>2 DEF ObserveDown, Arm, TypeOK
  <2> QED
    BY <1>2, <2>3, <2>4, <2>5
    DEF ObserveDown, TypeOK, SeenBeforeSent, environment, operator
<1>3. ASSUME NEW t \in Target, ClaimReminder(t)
      PROVE  TypeInv'
  <2>1. PICK due \in mem[t].remind + 1 .. MaxReminders :
           /\ Store(t, [mem[t] EXCEPT !.remind = due])
           /\ task' = [task EXCEPT ![t] =
                [Carrying("STILL_DOWN", "reminder") EXCEPT
                    !.claim = [from |-> mem[t].remind, to |-> due]]]
    BY <1>3 DEF ClaimReminder
  <2>2. mem[t] \in Record /\ mem[t].remind \in Nat /\ due \in Nat
    BY DEF TypeOK, Record
  <2>3. /\ [mem[t] EXCEPT !.remind = due] \in Record
        /\ [mem[t] EXCEPT !.remind = due].status = mem[t].status
    BY <2>2 DEF Record
  <2>4. /\ mem' \in [Target -> Record] /\ disk' \in [Target -> Record]
        /\ writeFailed' \in BOOLEAN
        /\ mem'[t].status \in Status
        /\ \A u \in Target \ {t} : mem'[u] = mem[u]
    BY <1>3, <2>1, <2>3, StoreType DEF ClaimReminder, Status
  <2>5. task' \in [Target -> Task] /\ \A u \in Target \ {t} : task'[u] = task[u]
    <3>1. Carrying("STILL_DOWN", "reminder") \in Task
      BY TaskTypes DEF Kind, Site
    <3>2. [Carrying("STILL_DOWN", "reminder") EXCEPT
              !.claim = [from |-> mem[t].remind, to |-> due]] \in Task
      BY <2>2, <3>1 DEF Task
    <3> QED
      BY <2>1, <3>2 DEF TypeOK
  <2> QED
    BY <1>3, <2>4, <2>5
    DEF ClaimReminder, TypeOK, SeenBeforeSent, environment, operator
<1>4. ASSUME NEW t \in Target, SkipReminder(t)
      PROVE  TypeInv'
  <2>1. {"announce", "done"} \subseteq Step
    BY DEF Step
  <2>2. /\ task' \in [Target -> Task]
        /\ \A u \in Target \ {t} : task'[u] = task[u]
    BY <1>4, <2>1, TaskTypes DEF SkipReminder, TypeOK
  <2> QED
    BY <1>4, <2>2
    DEF SkipReminder, NoStore, TypeOK, SeenBeforeSent, environment, operator
<1>5. ASSUME NEW t \in Target, AnnounceIfOwed(t)
      PROVE  TypeInv'
  <2>1. /\ {"FAILURE", "DEGRADED"} \subseteq Kind
        /\ "announce" \in Site /\ "done" \in Step
    BY DEF Kind, StatusKind, Site, Step
  <2>2. /\ task' \in [Target -> Task]
        /\ \A u \in Target \ {t} : task'[u] = task[u]
    BY <1>5, <2>1, TaskTypes DEF AnnounceIfOwed, TypeOK
  <2> QED
    BY <1>5, <2>2
    DEF AnnounceIfOwed, NoStore, TypeOK, SeenBeforeSent, environment, operator
<1>6. ASSUME NEW t \in Target, Mute(t)
      PROVE  TypeInv'
  <2>1. /\ task' \in [Target -> Task]
        /\ \A u \in Target \ {t} : task'[u] = task[u]
    BY <1>6, ReturnedType DEF Mute, TypeOK, Outcome
  <2>2. armed' \subseteq Target
    BY <1>6 DEF Mute, TypeOK
  <2>3. CASE Store(t, [mem[t] EXCEPT !.pending = FALSE])
    <3>0. mem[t] \in Record /\ mem[t].status \in Status
      BY <1>6 DEF Mute, TypeOK, SeenBeforeSent
    <3>1. /\ [mem[t] EXCEPT !.pending = FALSE] \in Record
          /\ [mem[t] EXCEPT !.pending = FALSE].status \in Status
      BY <3>0 DEF Record
    <3>2. /\ mem' \in [Target -> Record] /\ disk' \in [Target -> Record]
          /\ writeFailed' \in BOOLEAN
          /\ mem'[t].status \in Status
          /\ \A u \in Target \ {t} : mem'[u] = mem[u]
      BY <2>3, <3>1, StoreType
    <3> QED
      BY <1>6, <2>1, <2>2, <3>2
      DEF Mute, TypeOK, SeenBeforeSent, environment, operator
  <2>4. CASE NoStore
    BY <1>6, <2>1, <2>2, <2>4
    DEF Mute, NoStore, TypeOK, SeenBeforeSent, environment, operator
  <2> QED
    BY <1>6, <2>3, <2>4 DEF Mute
<1>7. ASSUME NEW t \in Target, Unmuted(t)
      PROVE  TypeInv'
  <2>1. /\ task' \in [Target -> Task]
        /\ \A u \in Target \ {t} : task'[u] = task[u]
    <3>1. task[t] \in Task
      BY DEF TypeOK
    <3>2. [task[t] EXCEPT !.at = "send"] \in Task
      BY <3>1 DEF Task, Step
    <3> QED
      BY <1>7, <3>2 DEF Unmuted, TypeOK
  <2> QED
    BY <1>7, <2>1
    DEF Unmuted, NoStore, TypeOK, SeenBeforeSent, environment, operator
<1>8. ASSUME NEW t \in Target, Dispatch(t)
      PROVE  TypeInv'
  <2>1. /\ mem[t] \in Record /\ mem[t].status \in Status
        /\ task[t] \in Task
    BY <1>8 DEF Dispatch, TypeOK, SeenBeforeSent
  <2>2. told' \in [Target -> Status] /\ acked' \in [Target -> Status]
    BY <1>8, <2>1 DEF Dispatch, Reaches, Confirmed, TypeOK, operator
  <2>3. heard' \in [Target -> SUBSET Nat] /\ ackedOf' \in [Target -> SUBSET Nat]
    <3>1. Subject(t) \in SUBSET Nat
      BY <2>1 DEF Subject, Record
    <3> QED
      BY <1>8, <3>1 DEF Dispatch, Reaches, Confirmed, TypeOK, operator
  <2>4. /\ task' \in [Target -> Task]
        /\ \A u \in Target \ {t} : task'[u] = task[u]
    <3>1. {"DELIVERED", "UNDELIVERED"} \subseteq Outcome /\ "record" \in Step
      BY DEF Outcome, Step
    <3>2. \A outcome \in Outcome :
             [task[t] EXCEPT !.outcome = outcome, !.at = "record"] \in Task
      BY <2>1, <3>1 DEF Task
    <3>3. \A outcome \in Outcome : Returned(t, outcome) \in Task
      BY ReturnedType DEF TypeOK
    <3> QED
      BY <1>8, <3>1, <3>2, <3>3 DEF Dispatch, TypeOK
  <2>5. advisoryLost' \in BOOLEAN
    BY <1>8 DEF Dispatch
  <2> QED
    BY <1>8, <2>1, <2>2, <2>3, <2>4, <2>5
    DEF Dispatch, NoStore, TypeOK, SeenBeforeSent, environment
<1>9. ASSUME NEW t \in Target, RecordOutcome(t)
      PROVE  TypeInv'
  <2>1. /\ mem[t] \in Record /\ mem[t].status \in Status
        /\ task[t] \in Task
    BY <1>9 DEF RecordOutcome, TypeOK, SeenBeforeSent
  <2>2. LET record == AlertOutcome(mem[t], task[t].outcome = "DELIVERED")
        IN  record \in Record /\ record.status \in Status
    BY <2>1, AlertOutcomeType
  <2>3. /\ mem' \in [Target -> Record] /\ disk' \in [Target -> Record]
        /\ writeFailed' \in BOOLEAN
        /\ mem'[t].status \in Status
        /\ \A u \in Target \ {t} : mem'[u] = mem[u]
    BY <1>9, <2>2, StoreType DEF RecordOutcome
  <2>4. /\ task' \in [Target -> Task]
        /\ \A u \in Target \ {t} : task'[u] = task[u]
    <3>1. task' = [task EXCEPT ![t] = Returned(t, task[t].outcome)]
      BY <1>9 DEF RecordOutcome
    <3>2. Returned(t, task[t].outcome) \in Task
      BY <2>1 DEF Returned, Task, Step
    <3> QED
      BY <3>1, <3>2 DEF TypeOK
  <2>5. armed' \subseteq Target
    BY <1>9 DEF RecordOutcome, TypeOK
  <2> QED
    BY <1>9, <2>3, <2>4, <2>5
    DEF RecordOutcome, TypeOK, SeenBeforeSent, environment, operator
<1>10. ASSUME NEW t \in Target, Settle(t)
       PROVE  TypeInv'
  <2>1. /\ task' \in [Target -> Task]
        /\ \A u \in Target \ {t} : task'[u] = task[u]
    BY <1>10, TaskTypes DEF Settle, TypeOK, Step
  <2>2. \/ NoStore
        \/ \E owed \in BOOLEAN : Store(t, [mem[t] EXCEPT !.muted = owed])
        \/ Store(t, [mem[t] EXCEPT !.remind = task[t].claim.from])
    BY <1>10 DEF Settle, SettleTransition, SettleAnnounce, SettleReminder,
                 RecordMutedAlert
  <2>3. CASE NoStore
    BY <1>10, <2>1, <2>3
    DEF Settle, NoStore, TypeOK, SeenBeforeSent, environment, operator
  <2>4. ASSUME NEW record \in Record, Store(t, record), record.status \in Status
        PROVE  TypeInv'
    <3>1. /\ mem' \in [Target -> Record] /\ disk' \in [Target -> Record]
          /\ writeFailed' \in BOOLEAN
          /\ mem'[t].status \in Status
          /\ \A u \in Target \ {t} : mem'[u] = mem[u]
      BY <2>4, StoreType
    <3> QED
      BY <1>10, <2>1, <3>1
      DEF Settle, TypeOK, SeenBeforeSent, environment, operator
  <2>5. /\ mem[t] \in Record /\ mem[t].status \in Status
        /\ task[t].claim.from \in Nat
    BY <1>10 DEF Settle, TypeOK, SeenBeforeSent, Task
  <2>6. \A owed \in BOOLEAN :
           /\ [mem[t] EXCEPT !.muted = owed] \in Record
           /\ [mem[t] EXCEPT !.muted = owed].status \in Status
    BY <2>5 DEF Record
  <2>7. /\ [mem[t] EXCEPT !.remind = task[t].claim.from] \in Record
        /\ [mem[t] EXCEPT !.remind = task[t].claim.from].status \in Status
    BY <2>5 DEF Record
  <2> QED
    BY <2>2, <2>3, <2>4, <2>6, <2>7
<1>11. CASE StartRound
  <2>1. task' \in [Target -> Task] /\ \A t \in Target : task'[t].at = "probe"
    BY <1>11, TaskTypes DEF StartRound, Step
  <2> QED
    BY <1>11, <2>1 DEF StartRound, TypeOK, SeenBeforeSent, environment, operator
<1>12. CASE FinishRound \/ Crash
  <2>1. Gone /\ pinged' \in BOOLEAN
    BY <1>12 DEF FinishRound, Crash, Vouches
  <2>2. task' \in [Target -> Task] /\ \A t \in Target : task'[t].at = "idle"
    BY <2>1, TaskTypes DEF Gone, Step
  <2> QED
    BY <2>1, <2>2 DEF Gone, TypeOK, SeenBeforeSent, environment, operator
<1>13. CASE Environment
  <2>1. ASSUME NEW t \in Target, TargetChanges(t)
        PROVE  TypeInv'
    BY <2>1 DEF TargetChanges, TypeOK, SeenBeforeSent, operator
  <2>2. ASSUME NEW t \in Target, WindowToggles(t)
        PROVE  TypeInv'
    BY <2>2 DEF WindowToggles, TypeOK, SeenBeforeSent, operator
  <2>3. CASE ChannelsToggle
    BY <2>3 DEF ChannelsToggle, TypeOK, SeenBeforeSent, operator
  <2> QED
    BY <1>13, <2>1, <2>2, <2>3 DEF Environment
<1>14. CASE UNCHANGED vars
  BY <1>14 DEF vars, environment, operator, TypeOK, SeenBeforeSent
<1> QED
  BY <1>1, <1>2, <1>3, <1>4, <1>5, <1>6, <1>7, <1>8, <1>9, <1>10, <1>11,
     <1>12, <1>13, <1>14 DEF Next, Monitor, CheckUrl

\* The state of the monitor stays within its types, and no coroutine reaches
\* an alert for a target whose record does not exist yet.
THEOREM TypeCorrect == Spec => []TypeOK
<1>1. TypeInv => TypeOK
  BY DEF TypeInv
<1> QED
  BY <1>1, InitTypeInv, NextTypeInv, PTL DEF Spec

-----------------------------------------------------------------------------
(*                        At-least-once delivery                           *)

\* A file that no write missed is the memory of the process that wrote it.
FileIsMemory == ~writeFailed => disk = mem

\* The memory owes what is in flight: by the flag the setter armed, or by the
\* marker of a muted alert that _announce_if_owed found.
OwedInMemory ==
    \A t \in Target :
        InFlight(t) /\ task[t].kind \in StatusKind
            => mem[t].pending \/ mem[t].muted

ObligationInv == TypeInv /\ FileIsMemory /\ OwedInMemory

\* A store keeps the file in step with the memory, or is counted as failed.
LEMMA StoreKeepsFile ==
    ASSUME NEW t \in Target, NEW record, Store(t, record)
    PROVE  FileIsMemory'
  BY DEF Store, WriteSync, FileIsMemory

\* A coroutine that has left the funnel owes nothing by being in flight.
LEMMA TaskAt ==
    /\ \A step \in Step : At(step).at = step /\ At(step).kind = "none"
    /\ \A kind \in Kind, site \in Site :
          Carrying(kind, site).at = "funnel" /\ Carrying(kind, site).kind = kind
  BY DEF At, Carrying

LEMMA InitObligationInv == Init => ObligationInv
<1>1. Init => FileIsMemory
  BY DEF Init, FileIsMemory
<1>2. Init => OwedInMemory
  <2> SUFFICES ASSUME Init, NEW t \in Target, InFlight(t)
               PROVE  FALSE
    BY DEF OwedInMemory
  <2>1. task[t].at = "idle"
    BY TaskAt DEF Init, Step
  <2> QED
    BY <2>1 DEF InFlight
<1> QED
  BY <1>1, <1>2, InitTypeInv DEF ObligationInv

\* Each step of one coroutine leaves the others' alerts and records alone, so
\* it keeps OwedInMemory if it keeps it for its own target.
LEMMA OwedIsLocal ==
    ASSUME OwedInMemory, NEW t \in Target,
           \A u \in Target \ {t} : task'[u] = task[u] /\ mem'[u] = mem[u],
           InFlight(t)' /\ task'[t].kind \in StatusKind
               => mem'[t].pending \/ mem'[t].muted
    PROVE  OwedInMemory'
<1> SUFFICES ASSUME NEW u \in Target,
                    InFlight(u)', task'[u].kind \in StatusKind
             PROVE  mem'[u].pending \/ mem'[u].muted
  BY DEF OwedInMemory
<1>1. CASE u = t
  BY <1>1
<1>2. CASE u # t
  <2>1. InFlight(u) /\ task[u].kind \in StatusKind
    BY <1>2 DEF InFlight
  <2> QED
    BY <1>2, <2>1 DEF OwedInMemory
<1> QED
  BY <1>1, <1>2

LEMMA NextObligationInv == ObligationInv /\ [Next]_vars => ObligationInv'
<1> SUFFICES ASSUME ObligationInv, [Next]_vars
             PROVE  FileIsMemory' /\ OwedInMemory'
  BY NextTypeInv DEF ObligationInv
<1> USE DEF ObligationInv
<1>1. ASSUME NEW t \in Target, ObserveHealthy(t)
      PROVE  FileIsMemory' /\ OwedInMemory'
  <2>1. PICK fresh \in BOOLEAN :
           /\ Store(t, SetHealthy(mem[t], health[t], fresh))
           /\ task' = [task EXCEPT ![t] =
                IF AlertDue(mem[t], health[t], fresh)
                THEN Carrying(HealthyKind(mem[t], health[t]),
                        IF health[t] = "UP" THEN "recovery" ELSE "transition")
                ELSE At(IF health[t] = "UP" THEN "done" ELSE "announce")]
    BY <1>1 DEF ObserveHealthy
  <2>2. mem[t] \in Record /\ health[t] \in {"UP", "DEGRADED"}
    BY <1>1 DEF TypeInv, TypeOK, ObserveHealthy
  <2>3. SetHealthy(mem[t], health[t], fresh) \in Record
    BY <2>2, SetHealthyType
  <2>4. /\ mem'[t] = SetHealthy(mem[t], health[t], fresh)
        /\ \A u \in Target \ {t} : task'[u] = task[u] /\ mem'[u] = mem[u]
    BY <2>1, <2>3, StoreType DEF TypeInv, TypeOK
  <2>5. ASSUME InFlight(t)'
        PROVE  mem'[t].pending
    <3>1. AlertDue(mem[t], health[t], fresh)
      <4>1. CASE ~AlertDue(mem[t], health[t], fresh)
        <5>1. task'[t].at \in {"done", "announce"}
          BY <2>1, <4>1, TaskAt DEF TypeInv, TypeOK, Step
        <5> QED
          BY <2>5, <5>1 DEF InFlight
      <4> QED
        BY <4>1
    <3> QED
      BY <2>4, <3>1 DEF SetHealthy, Observed, CarryForward, Absent
  <2> QED
    BY <2>1, <2>4, <2>5, StoreKeepsFile, OwedIsLocal
<1>2. ASSUME NEW t \in Target, ObserveDown(t)
      PROVE  FileIsMemory' /\ OwedInMemory'
  <2>1. mem[t] \in Record /\ outage[t] \in Nat
    BY DEF TypeInv, TypeOK
  <2>2. SetDown(mem[t], outage[t]) \in Record
    BY <2>1, SetDownType
  <2>3. /\ mem'[t] = SetDown(mem[t], outage[t])
        /\ \A u \in Target \ {t} : task'[u] = task[u] /\ mem'[u] = mem[u]
    BY <1>2, <2>2, StoreType DEF ObserveDown, TypeInv, TypeOK
  <2>4. ASSUME InFlight(t)'
        PROVE  mem'[t].pending
    <3>1. DownAlertDue(mem[t])
      <4>1. CASE ~DownAlertDue(mem[t])
        <5>1. task'[t].at \in {"remind", "announce", "done"}
          BY <1>2, <4>1, TaskAt DEF ObserveDown, TypeInv, TypeOK, Step
        <5> QED
          BY <2>4, <5>1 DEF InFlight
      <4> QED
        BY <4>1
    <3>2. ~HeldByHysteresis(mem[t])
      BY <3>1 DEF DownAlertDue, HeldByHysteresis
    <3> QED
      BY <2>3, <3>1, <3>2 DEF SetDown, CarryForward, Absent
  <2> QED
    BY <1>2, <2>3, <2>4, StoreKeepsFile, OwedIsLocal DEF ObserveDown
<1>3. ASSUME NEW t \in Target, ClaimReminder(t)
      PROVE  FileIsMemory' /\ OwedInMemory'
  <2>1. PICK due \in mem[t].remind + 1 .. MaxReminders :
           /\ Store(t, [mem[t] EXCEPT !.remind = due])
           /\ task' = [task EXCEPT ![t] =
                [Carrying("STILL_DOWN", "reminder") EXCEPT
                    !.claim = [from |-> mem[t].remind, to |-> due]]]
    BY <1>3 DEF ClaimReminder
  <2>2. /\ task'[t].kind = "STILL_DOWN"
        /\ \A u \in Target \ {t} : task'[u] = task[u] /\ mem'[u] = mem[u]
    BY <2>1 DEF Store, Carrying, At, TypeInv, TypeOK
  <2> QED
    BY <2>1, <2>2, StoreKeepsFile, OwedIsLocal DEF StatusKind
<1>4. ASSUME NEW t \in Target, SkipReminder(t) \/ AnnounceIfOwed(t)
      PROVE  FileIsMemory' /\ OwedInMemory'
  <2>1. FileIsMemory' /\ UNCHANGED mem
    BY <1>4 DEF SkipReminder, AnnounceIfOwed, NoStore, FileIsMemory
  <2>2. \A u \in Target \ {t} : task'[u] = task[u]
    BY <1>4 DEF SkipReminder, AnnounceIfOwed, TypeInv, TypeOK
  <2>3. ASSUME InFlight(t)'
        PROVE  mem[t].muted
    <3>1. CASE ~(AnnounceIfOwed(t) /\ mem[t].muted)
      <4>1. task'[t].at \in {"announce", "done"}
        BY <1>4, <3>1, TaskAt
        DEF SkipReminder, AnnounceIfOwed, TypeInv, TypeOK, Step
      <4> QED
        BY <2>3, <4>1 DEF InFlight
    <3> QED
      BY <3>1
  <2> QED
    BY <2>1, <2>2, <2>3, OwedIsLocal
<1>5. ASSUME NEW t \in Target, Mute(t)
      PROVE  FileIsMemory' /\ OwedInMemory'
  <2>1. /\ ~InFlight(t)'
        /\ \A u \in Target \ {t} : task'[u] = task[u]
    BY <1>5, ReturnedType DEF Mute, TypeInv, TypeOK, Outcome, InFlight
  <2>2. \/ Store(t, [mem[t] EXCEPT !.pending = FALSE])
        \/ NoStore
    BY <1>5 DEF Mute
  <2>3. FileIsMemory' /\ \A u \in Target \ {t} : mem'[u] = mem[u]
    BY <2>2, StoreKeepsFile DEF NoStore, Store, FileIsMemory, TypeInv, TypeOK
  <2> QED
    BY <2>1, <2>3, OwedIsLocal
<1>6. ASSUME NEW t \in Target, Unmuted(t)
      PROVE  FileIsMemory' /\ OwedInMemory'
  <2>1. FileIsMemory' /\ UNCHANGED mem
    BY <1>6 DEF Unmuted, NoStore, FileIsMemory
  <2>2. /\ task'[t].kind = task[t].kind /\ InFlight(t)
        /\ \A u \in Target \ {t} : task'[u] = task[u]
    BY <1>6 DEF Unmuted, InFlight, TypeInv, TypeOK, Task
  <2> QED
    BY <2>1, <2>2, OwedIsLocal DEF OwedInMemory
<1>7. ASSUME NEW t \in Target, Dispatch(t)
      PROVE  FileIsMemory' /\ OwedInMemory'
  <2>1. FileIsMemory' /\ UNCHANGED mem
    BY <1>7 DEF Dispatch, NoStore, FileIsMemory
  <2>2. InFlight(t) /\ \A u \in Target \ {t} : task'[u] = task[u]
    BY <1>7 DEF Dispatch, InFlight, TypeInv, TypeOK
  <2>3. CASE task[t].kind \in StatusKind
    BY <2>1, <2>2, <2>3, OwedIsLocal DEF OwedInMemory
  <2>4. CASE task[t].kind \notin StatusKind
    <3>1. task'[t] \in {Returned(t, outcome) : outcome \in Outcome}
      BY <1>7, <2>4 DEF Dispatch, Outcome, TypeInv, TypeOK
    <3>2. ~InFlight(t)'
      BY <3>1, ReturnedType DEF InFlight, TypeInv, TypeOK
    <3> QED
      BY <2>1, <2>2, <3>2, OwedIsLocal
  <2> QED
    BY <2>3, <2>4
<1>8. ASSUME NEW t \in Target, RecordOutcome(t)
      PROVE  FileIsMemory' /\ OwedInMemory'
  <2>1. /\ Store(t, AlertOutcome(mem[t], task[t].outcome = "DELIVERED"))
        /\ task' = [task EXCEPT ![t] = Returned(t, task[t].outcome)]
    BY <1>8 DEF RecordOutcome
  <2>2. \A u \in Target \ {t} : task'[u] = task[u] /\ mem'[u] = mem[u]
    BY <2>1 DEF Store, TypeInv, TypeOK
  <2>3. ~InFlight(t)'
    BY <2>1 DEF InFlight, Returned, TypeInv, TypeOK, Task
  <2> QED
    BY <2>1, <2>2, <2>3, StoreKeepsFile, OwedIsLocal
<1>9. ASSUME NEW t \in Target, Settle(t)
      PROVE  FileIsMemory' /\ OwedInMemory'
  <2>1. ~InFlight(t)' /\ \A u \in Target \ {t} : task'[u] = task[u]
    BY <1>9, TaskAt DEF Settle, InFlight, TypeInv, TypeOK, Step
  <2>2. \/ \E record \in {mem'[t]} : Store(t, record)
        \/ NoStore
    BY <1>9 DEF Settle, SettleTransition, SettleAnnounce, SettleReminder,
                RecordMutedAlert, Store, TypeInv, TypeOK
  <2>3. FileIsMemory' /\ \A u \in Target \ {t} : mem'[u] = mem[u]
    BY <2>2, StoreKeepsFile DEF NoStore, Store, FileIsMemory, TypeInv, TypeOK
  <2> QED
    BY <2>1, <2>3, OwedIsLocal
<1>10. CASE StartRound \/ FinishRound \/ Crash
  <2>1. mem' = disk' /\ \A t \in Target : ~InFlight(t)'
    BY <1>10, TaskAt DEF StartRound, FinishRound, Crash, Gone, InFlight, Step
  <2> QED
    BY <2>1 DEF FileIsMemory, OwedInMemory
<1>11. CASE Environment \/ UNCHANGED vars
  <2>1. UNCHANGED <<disk, mem, writeFailed, task>>
    BY <1>11 DEF Environment, TargetChanges, WindowToggles, ChannelsToggle, vars
  <2> QED
    BY <2>1 DEF FileIsMemory, OwedInMemory, InFlight
<1> QED
  BY <1>1, <1>2, <1>3, <1>4, <1>5, <1>6, <1>7, <1>8, <1>9, <1>10, <1>11
  DEF Next, Monitor, CheckUrl

\* A process killed between the decision to send a status alert and the record
\* of its outcome leaves a file that still owes it, whatever the number of
\* targets, their interleaving, and the writes other rounds lost.
THEOREM AtLeastOnce == Spec => []ObligationOnDisk
<1>1. ObligationInv => ObligationOnDisk
  BY DEF ObligationInv, FileIsMemory, OwedInMemory, ObligationOnDisk
<1> QED
  BY <1>1, InitObligationInv, NextObligationInv, PTL DEF Spec

-----------------------------------------------------------------------------
(*                         The success heartbeat                           *)

PingedBetweenRounds == running => ~pinged

HeartbeatInv == ObligationInv /\ PingedBetweenRounds

\* Only the end of a round can send the heartbeat.
LEMMA PingedOnlyAtEnd ==
    [Next]_vars => UNCHANGED <<running, pinged>> \/ StartRound \/ FinishRound \/ Crash
<1>1. ASSUME NEW t \in Target, CheckUrl(t)
      PROVE  UNCHANGED <<running, pinged>>
  BY <1>1 DEF CheckUrl, ObserveHealthy, ObserveDown, ClaimReminder, SkipReminder,
              AnnounceIfOwed, Mute, Unmuted, Dispatch, RecordOutcome, Settle
<1>2. ASSUME Environment \/ UNCHANGED vars
      PROVE  UNCHANGED <<running, pinged>>
  BY <1>2 DEF Environment, TargetChanges, WindowToggles, ChannelsToggle, vars
<1> QED
  BY <1>1, <1>2 DEF Next, Monitor

LEMMA NextHeartbeatInv == HeartbeatInv /\ [Next]_vars => HeartbeatInv'
<1>1. PingedBetweenRounds /\ [Next]_vars => PingedBetweenRounds'
  BY PingedOnlyAtEnd
  DEF PingedBetweenRounds, StartRound, FinishRound, Crash, Gone
<1> QED
  BY <1>1, NextObligationInv DEF HeartbeatInv

\* The heartbeat vouches for the file: a round that sends it has stored all it
\* learned, although any of its writes may fail and every later one carries
\* the whole map (run_health_checks, _write_sync).
THEOREM HeartbeatVouches == Spec => HeartbeatMeansSaved
<1>1. Init => HeartbeatInv
  BY InitObligationInv DEF HeartbeatInv, PingedBetweenRounds, Init
<1>2. HeartbeatInv /\ [Next]_vars => [running /\ pinged' => disk = mem]_vars
  BY PingedOnlyAtEnd
  DEF HeartbeatInv, ObligationInv, PingedBetweenRounds, FileIsMemory, StartRound,
      FinishRound, Vouches, Crash
<1> QED
  BY <1>1, <1>2, NextHeartbeatInv, PTL DEF Spec, HeartbeatMeansSaved

-----------------------------------------------------------------------------
(*                     A lost FAILURE is never forgotten                   *)

\* Every DOWN record dates from a real outage (last_changed is always set), so
\* the outage a catch-up notice is about is never the absent one; and it carries
\* no notice about another outage.
Dated(record) == record.status = "DOWN" => record.since # 0 /\ record.missed = 0

OutagesDated ==
    \A t \in Target :
        /\ health[t] = "DOWN" => outage[t] # 0
        /\ Dated(mem[t]) /\ Dated(disk[t])

OutageInv == TypeInv /\ OutagesDated

LEMMA StoreKeepsDates ==
    ASSUME OutageInv, NEW t \in Target, NEW record, Store(t, record),
           Dated(record)
    PROVE  \A u \in Target : Dated(mem'[u]) /\ Dated(disk'[u])
  BY DEF OutageInv, OutagesDated, TypeInv, TypeOK, Store, WriteSync

LEMMA InitOutageInv == Init => OutageInv
<1> SUFFICES ASSUME Init, NEW t \in Target
             PROVE  /\ health[t] = "DOWN" => outage[t] # 0
                    /\ Dated(mem[t]) /\ Dated(disk[t])
  BY InitTypeInv DEF OutageInv, OutagesDated
<1>1. health[t] = "DOWN" => outage[t] # 0
  BY DEF Init
<1>2. Dated(Absent) /\ \A s \in Status, owed \in BOOLEAN : Dated(LegacyRecord(s, owed))
  BY DEF Dated, Absent, LegacyRecord
<1>3. disk[t] \in FirstRecord(t) /\ mem[t] = disk[t]
  BY DEF Init
<1>4. Dated(disk[t])
  BY <1>2, <1>3 DEF FirstRecord, Status
<1> QED
  BY <1>1, <1>3, <1>4

\* What each of check_url's steps stores, if anything, is dated.
LEMMA StepStoresDated ==
    ASSUME OutageInv, NEW t \in Target, CheckUrl(t)
    PROVE  NoStore \/ \E record \in Record : Store(t, record) /\ Dated(record)
<1> USE DEF OutageInv
<1>0. mem[t] \in Record /\ Dated(mem[t]) /\ task[t] \in Task
  BY DEF OutagesDated, TypeInv, TypeOK
<1>1. CASE ObserveHealthy(t)
  <2>1. PICK fresh \in BOOLEAN : Store(t, SetHealthy(mem[t], health[t], fresh))
    BY <1>1 DEF ObserveHealthy
  <2>2. mem[t] \in Record /\ health[t] \in {"UP", "DEGRADED"}
    BY <1>0, <1>1 DEF ObserveHealthy
  <2>3. SetHealthy(mem[t], health[t], fresh) \in Record
    BY <2>2, SetHealthyType
  <2>4. SetHealthy(mem[t], health[t], fresh).status = health[t]
    BY DEF SetHealthy, Observed, CarryForward, Absent
  <2> QED
    BY <2>1, <2>2, <2>3, <2>4 DEF Dated
<1>2. CASE ObserveDown(t)
  <2>1. outage[t] \in Nat /\ outage[t] # 0
    BY <1>2 DEF ObserveDown, OutagesDated, TypeInv, TypeOK
  <2>2. SetDown(mem[t], outage[t]) \in Record
    BY <1>0, <2>1, SetDownType
  <2>3. Dated(SetDown(mem[t], outage[t]))
    <3>1. CASE HeldByHysteresis(mem[t])
      BY <1>0, <3>1 DEF SetDown, HeldByHysteresis, Dated, Record
    <3>2. CASE ~HeldByHysteresis(mem[t])
      BY <1>0, <2>1, <3>2 DEF SetDown, CarryForward, Absent, Dated
    <3> QED
      BY <3>1, <3>2
  <2> QED
    BY <1>2, <2>2, <2>3 DEF ObserveDown
<1>3. CASE ClaimReminder(t)
  <2>1. PICK due \in mem[t].remind + 1 .. MaxReminders :
           Store(t, [mem[t] EXCEPT !.remind = due])
    BY <1>3 DEF ClaimReminder
  <2>2. due \in Nat
    BY <1>0 DEF Record
  <2>3. /\ [mem[t] EXCEPT !.remind = due] \in Record
        /\ Dated([mem[t] EXCEPT !.remind = due])
    BY <1>0, <2>2 DEF Record, Dated
  <2> QED
    BY <2>1, <2>3
<1>4. CASE SkipReminder(t) \/ AnnounceIfOwed(t) \/ Unmuted(t) \/ Dispatch(t)
  BY <1>4 DEF SkipReminder, AnnounceIfOwed, Unmuted, Dispatch
<1>5. CASE Mute(t)
  <2>1. /\ [mem[t] EXCEPT !.pending = FALSE] \in Record
        /\ Dated([mem[t] EXCEPT !.pending = FALSE])
    BY <1>0 DEF Record, Dated
  <2> QED
    BY <1>5, <2>1 DEF Mute
<1>6. CASE RecordOutcome(t)
  <2>1. mem[t].status \in Status
    BY <1>6 DEF RecordOutcome, TypeInv, SeenBeforeSent
  <2>2. \A delivered \in BOOLEAN :
           /\ AlertOutcome(mem[t], delivered) \in Record
           /\ AlertOutcome(mem[t], delivered).status = mem[t].status
           /\ AlertOutcome(mem[t], delivered).since = mem[t].since
           /\ AlertOutcome(mem[t], delivered).missed \in {0, mem[t].missed}
    <3> SUFFICES ASSUME NEW delivered \in BOOLEAN
                 PROVE  /\ AlertOutcome(mem[t], delivered) \in Record
                        /\ AlertOutcome(mem[t], delivered).status = mem[t].status
                        /\ AlertOutcome(mem[t], delivered).since = mem[t].since
                        /\ AlertOutcome(mem[t], delivered).missed
                              \in {0, mem[t].missed}
      OBVIOUS
    <3>1. /\ AlertOutcome(mem[t], delivered) \in Record
          /\ AlertOutcome(mem[t], delivered).status = mem[t].status
      BY <1>0, <2>1, AlertOutcomeType
    <3>2. /\ AlertOutcome(mem[t], delivered).since = mem[t].since
          /\ AlertOutcome(mem[t], delivered).missed \in {0, mem[t].missed}
      BY <1>0 DEF AlertOutcome, Record
    <3> QED
      BY <3>1, <3>2
  <2>3. \A delivered \in BOOLEAN : Dated(AlertOutcome(mem[t], delivered))
    BY <1>0, <2>2 DEF Dated
  <2>4. Store(t, AlertOutcome(mem[t], task[t].outcome = "DELIVERED"))
    BY <1>6 DEF RecordOutcome
  <2>5. (task[t].outcome = "DELIVERED") \in BOOLEAN
    OBVIOUS
  <2>6. /\ AlertOutcome(mem[t], task[t].outcome = "DELIVERED") \in Record
        /\ Dated(AlertOutcome(mem[t], task[t].outcome = "DELIVERED"))
    BY <2>2, <2>3, <2>5, Zenon
  <2> QED
    BY <2>4, <2>6, Zenon
<1>7. CASE Settle(t)
  <2>1. /\ \A owed \in BOOLEAN :
              /\ [mem[t] EXCEPT !.muted = owed] \in Record
              /\ Dated([mem[t] EXCEPT !.muted = owed])
        /\ [mem[t] EXCEPT !.remind = task[t].claim.from] \in Record
        /\ Dated([mem[t] EXCEPT !.remind = task[t].claim.from])
    BY <1>0 DEF Record, Dated, Task
  <2> QED
    BY <1>7, <2>1
    DEF Settle, SettleTransition, SettleAnnounce, SettleReminder, RecordMutedAlert
<1> QED
  BY <1>1, <1>2, <1>3, <1>4, <1>5, <1>6, <1>7 DEF CheckUrl

LEMMA NextOutageInv == OutageInv /\ [Next]_vars => OutageInv'
<1> SUFFICES ASSUME OutageInv, [Next]_vars
             PROVE  OutagesDated'
  BY NextTypeInv DEF OutageInv
<1>1. ASSUME NEW t \in Target, CheckUrl(t)
      PROVE  OutagesDated'
  <2>1. UNCHANGED <<health, outage>>
    BY <1>1 DEF CheckUrl, ObserveHealthy, ObserveDown, ClaimReminder,
       SkipReminder, AnnounceIfOwed, Mute, Unmuted, Dispatch, RecordOutcome,
       Settle, environment
  <2>2. \A u \in Target : Dated(mem'[u]) /\ Dated(disk'[u])
    BY <1>1, StepStoresDated, StoreKeepsDates DEF NoStore, OutageInv, OutagesDated
  <2> QED
    BY <2>1, <2>2 DEF OutageInv, OutagesDated
<1>2. CASE StartRound \/ FinishRound \/ Crash
  BY <1>2 DEF StartRound, FinishRound, Crash, Gone, environment, OutageInv,
              OutagesDated
<1>3. ASSUME NEW t \in Target, TargetChanges(t)
      PROVE  OutagesDated'
  BY <1>3 DEF TargetChanges, OutageInv, OutagesDated, TypeInv, TypeOK
<1>4. ASSUME UNCHANGED <<health, outage, mem, disk>>
      PROVE  OutagesDated'
  BY <1>4 DEF OutageInv, OutagesDated
<1> QED
  BY <1>1, <1>2, <1>3, <1>4
  DEF Next, Monitor, Environment, WindowToggles, ChannelsToggle, vars, environment

\* Between two states of one round, an owed FAILURE is only cleared by the
\* record of its delivery.
LEMMA OwedKept ==
    ASSUME OutageInv, [Next]_vars, NEW t \in Target, running, running',
           mem[t].status = "DOWN", mem[t].pending, t \notin armed,
           ~mem'[t].pending
    PROVE  RecordsDelivery(t)
<1> USE DEF OutageInv
<1>0. /\ mem[t] \in Record /\ mem[t].since # 0 /\ outage[t] \in Nat
      /\ task[t] \in Task
  BY DEF OutagesDated, Dated, TypeInv, TypeOK
<1>1. ASSUME NoStore
      PROVE  FALSE
  BY <1>1 DEF NoStore
<1>2. ASSUME NEW record, Store(t, record), record.pending
      PROVE  FALSE
  BY <1>2 DEF Store, TypeInv, TypeOK
<1>3. ASSUME NEW u \in Target, CheckUrl(u)
      PROVE  u = t
  <2> SUFFICES ASSUME u # t
               PROVE  FALSE
    OBVIOUS
  <2>1. NoStore \/ \E record \in Record : Store(u, record)
    BY <1>3, StepStoresDated
  <2> QED
    BY <2>1 DEF NoStore, Store, TypeInv, TypeOK
<1>4. ASSUME ObserveHealthy(t)
      PROVE  FALSE
  <2>1. PICK fresh \in BOOLEAN : Store(t, SetHealthy(mem[t], health[t], fresh))
    BY <1>4 DEF ObserveHealthy
  <2>2. health[t] \in Status
    BY DEF TypeInv, TypeOK
  <2>3. SetHealthy(mem[t], health[t], fresh).pending
    BY <1>0, <2>2, LeavingDownAlerts
  <2> QED
    BY <1>2, <2>1, <2>3
<1>5. ASSUME ObserveDown(t)
      PROVE  FALSE
  BY <1>0, <1>2, <1>5, FailureKeepsOwed DEF ObserveDown
<1>6. ASSUME ClaimReminder(t)
      PROVE  FALSE
  <2>1. PICK due \in mem[t].remind + 1 .. MaxReminders :
           Store(t, [mem[t] EXCEPT !.remind = due])
    BY <1>6 DEF ClaimReminder
  <2>2. [mem[t] EXCEPT !.remind = due].pending
    BY <1>0 DEF Record
  <2> QED
    BY <1>2, <2>1, <2>2
<1>7. ASSUME SkipReminder(t) \/ AnnounceIfOwed(t) \/ Mute(t) \/ Unmuted(t)
             \/ Dispatch(t)
      PROVE  FALSE
  BY <1>1, <1>7
  DEF SkipReminder, AnnounceIfOwed, Mute, TakesBack, Unmuted, Dispatch
<1>8. ASSUME Settle(t)
      PROVE  FALSE
  <2>1. /\ \A owed \in BOOLEAN : [mem[t] EXCEPT !.muted = owed].pending
        /\ [mem[t] EXCEPT !.remind = task[t].claim.from].pending
    BY <1>0 DEF Record
  <2> QED
    BY <1>1, <1>2, <1>8, <2>1
    DEF Settle, SettleTransition, SettleAnnounce, SettleReminder, RecordMutedAlert
<1>9. ASSUME RecordOutcome(t)
      PROVE  RecordsDelivery(t)
  <2>1. mem[t].status \in Status
    BY DEF Status
  <2>2. CASE task[t].outcome = "DELIVERED"
    BY <1>9, <2>2 DEF RecordOutcome, RecordsDelivery
  <2>3. CASE task[t].outcome # "DELIVERED"
    <3>1. AlertOutcome(mem[t], FALSE).pending
      BY <1>0, <2>1, AlertOutcomeType
    <3> QED
      BY <1>2, <1>9, <2>3, <3>1 DEF RecordOutcome
  <2> QED
    BY <2>2, <2>3
<1>10. UNCHANGED mem \/ \E u \in Target : CheckUrl(u)
  BY DEF Next, Monitor, StartRound, FinishRound, Crash, Gone, Environment,
         TargetChanges, WindowToggles, ChannelsToggle, vars
<1> QED
  BY <1>3, <1>4, <1>5, <1>6, <1>7, <1>8, <1>9, <1>10 DEF CheckUrl

\* A FAILURE that no channel accepted is never forgotten: neither a later
\* observation, nor a window, nor a reminder clears it, only the recorded
\* delivery of the alert that tells of the outage.
THEOREM LostFailureStaysOwed == Spec => OwedOutageKept
<1>1. OutageInv /\ [Next]_vars =>
        [\A t \in Target :
            /\ running /\ running'
            /\ mem[t].status = "DOWN" /\ mem[t].pending /\ t \notin armed
            /\ ~mem'[t].pending
            => RecordsDelivery(t)]_vars
  BY OwedKept
<1> QED
  BY <1>1, InitOutageInv, NextOutageInv, PTL DEF Spec, OwedOutageKept

\* Between two states of one round, an owed catch-up notice is only cleared by
\* the record of its delivery, or exchanged for a FAILURE that is owed.
LEMMA NoticeKept ==
    ASSUME OutageInv, [Next]_vars, NEW t \in Target, running, running',
           mem[t].missed # 0, mem[t].pending, t \notin armed,
           mem'[t].missed # mem[t].missed
    PROVE  RecordsDelivery(t) \/ (mem'[t].status = "DOWN" /\ mem'[t].pending)
<1> USE DEF OutageInv
<1>0. /\ mem[t] \in Record /\ mem[t].status # "DOWN" /\ outage[t] \in Nat
      /\ task[t] \in Task
  BY DEF OutagesDated, Dated, TypeInv, TypeOK
<1>1. ASSUME NoStore
      PROVE  FALSE
  BY <1>1 DEF NoStore
<1>2. ASSUME NEW record, Store(t, record), record.missed = mem[t].missed
      PROVE  FALSE
  BY <1>2 DEF Store, TypeInv, TypeOK
<1>3. ASSUME NEW u \in Target, CheckUrl(u)
      PROVE  u = t
  <2> SUFFICES ASSUME u # t
               PROVE  FALSE
    OBVIOUS
  <2>1. NoStore \/ \E record \in Record : Store(u, record)
    BY <1>3, StepStoresDated
  <2> QED
    BY <2>1 DEF NoStore, Store, TypeInv, TypeOK
<1>4. ASSUME ObserveHealthy(t)
      PROVE  FALSE
  <2>1. PICK fresh \in BOOLEAN : Store(t, SetHealthy(mem[t], health[t], fresh))
    BY <1>4 DEF ObserveHealthy
  <2>2. MissedOutage(mem[t]) = mem[t].missed
    BY <1>0 DEF MissedOutage
  <2>3. SetHealthy(mem[t], health[t], fresh).missed = mem[t].missed
    BY <1>0, <2>2, SetHealthyFields
  <2> QED
    BY <1>2, <2>1, <2>3
<1>5. ASSUME ObserveDown(t)
      PROVE  mem'[t].status = "DOWN" /\ mem'[t].pending
  <2>1. Store(t, SetDown(mem[t], outage[t]))
    BY <1>5 DEF ObserveDown
  <2>2. ~HeldByHysteresis(mem[t])
    BY <1>0, <1>2, <2>1, SetDownHeldFields
  <2>3. SetDown(mem[t], outage[t]).pending
    BY <1>0, FailureKeepsOwed
  <2>4. SetDown(mem[t], outage[t]).status = "DOWN"
    BY <1>0, <2>2, SetDownFields
  <2>5. mem'[t] = SetDown(mem[t], outage[t])
    BY <2>1 DEF Store, TypeInv, TypeOK
  <2> QED
    BY <2>3, <2>4, <2>5
<1>6. ASSUME ClaimReminder(t)
      PROVE  FALSE
  BY <1>0, <1>6 DEF ClaimReminder
<1>7. ASSUME SkipReminder(t) \/ AnnounceIfOwed(t) \/ Mute(t) \/ Unmuted(t)
             \/ Dispatch(t)
      PROVE  FALSE
  BY <1>1, <1>7
  DEF SkipReminder, AnnounceIfOwed, Mute, TakesBack, Unmuted, Dispatch
<1>8. ASSUME Settle(t)
      PROVE  FALSE
  <2>1. /\ \A owed \in BOOLEAN : [mem[t] EXCEPT !.muted = owed].missed = mem[t].missed
        /\ [mem[t] EXCEPT !.remind = task[t].claim.from].missed = mem[t].missed
    BY <1>0 DEF Record
  <2> QED
    BY <1>1, <1>2, <1>8, <2>1
    DEF Settle, SettleTransition, SettleAnnounce, SettleReminder, RecordMutedAlert
<1>9. ASSUME RecordOutcome(t)
      PROVE  RecordsDelivery(t)
  <2>1. CASE task[t].outcome = "DELIVERED"
    BY <1>9, <2>1 DEF RecordOutcome, RecordsDelivery
  <2>2. CASE task[t].outcome # "DELIVERED"
    <3>1. AlertOutcome(mem[t], FALSE).missed = mem[t].missed
      BY <1>0, AlertOutcomeFields
    <3> QED
      BY <1>2, <1>9, <2>2, <3>1 DEF RecordOutcome
  <2> QED
    BY <2>1, <2>2
<1>10. UNCHANGED mem \/ \E u \in Target : CheckUrl(u)
  BY DEF Next, Monitor, StartRound, FinishRound, Crash, Gone, Environment,
         TargetChanges, WindowToggles, ChannelsToggle, vars
<1> QED
  BY <1>3, <1>4, <1>5, <1>6, <1>7, <1>8, <1>9, <1>10 DEF CheckUrl

\* The notice that an outage ended unannounced is not lost to hysteresis, gaps,
\* windows, dead channels or failing writes: a later outage alone replaces it,
\* and then its FAILURE is owed (MissedOutage, set_down).
THEOREM NoticeTradedForFailure == Spec => CatchUpTraded
<1>1. OutageInv /\ [Next]_vars =>
        [\A t \in Target :
            /\ running /\ running'
            /\ mem[t].missed # 0 /\ mem[t].pending /\ t \notin armed
            /\ mem'[t].missed # mem[t].missed
            => \/ RecordsDelivery(t)
               \/ mem'[t].status = "DOWN" /\ mem'[t].pending]_vars
  BY NoticeKept
<1> QED
  BY <1>1, InitOutageInv, NextOutageInv, PTL DEF Spec, CatchUpTraded

=============================================================================
