------------------------ MODULE AlertMessages_proofs ------------------------
(***************************************************************************)
(* What the operator is told: invariants of AlertLifecycle that relate the *)
(* record of a target, the alert its coroutine carries and the messages    *)
(* that reached a channel.  The hypotheses of each theorem name the        *)
(* features with which it fails (README, section 3).                       *)
(***************************************************************************)
EXTENDS AlertLifecycle_proofs

-----------------------------------------------------------------------------
(*               What a step does to its own target, by field              *)

LEMMA NewTaskFields ==
    /\ \A step : /\ At(step).at = step /\ At(step).kind = "none"
                 /\ At(step).site = "none" /\ At(step).outcome = "none"
    /\ \A kind, site :
          /\ Carrying(kind, site).at = "funnel"
          /\ Carrying(kind, site).kind = kind
          /\ Carrying(kind, site).site = site
          /\ Carrying(kind, site).outcome = "none"
  BY DEF At, Carrying

LEMMA ReturnedFields ==
    ASSUME task \in [Target -> Task], NEW t \in Target, NEW outcome
    PROVE  /\ Returned(t, outcome).at =
                 IF task[t].site = "recovery" THEN "done" ELSE "settle"
           /\ Returned(t, outcome).kind = task[t].kind
           /\ Returned(t, outcome).site = task[t].site
           /\ Returned(t, outcome).outcome = outcome
  BY DEF Returned, Task

LEMMA StoredIn ==
    ASSUME TypeInv, NEW t \in Target, NEW record, Store(t, record)
    PROVE  mem'[t] = record
  BY DEF Store, TypeInv, TypeOK

LEMMA ObserveHealthyDoes ==
    ASSUME TypeInv, NEW t \in Target, ObserveHealthy(t)
    PROVE  \E fresh \in BOOLEAN :
              LET due == AlertDue(mem[t], health[t], fresh) IN
              /\ mem'[t] = SetHealthy(mem[t], health[t], fresh)
              /\ task'[t].at = IF due THEN "funnel"
                               ELSE IF health[t] = "UP" THEN "done" ELSE "announce"
              /\ task'[t].kind = IF due THEN HealthyKind(mem[t], health[t])
                                        ELSE "none"
              /\ task'[t].site = IF due
                    THEN IF health[t] = "UP" THEN "recovery" ELSE "transition"
                    ELSE "none"
              /\ task'[t].outcome = "none"
<1>1. PICK fresh \in BOOLEAN :
         /\ Store(t, SetHealthy(mem[t], health[t], fresh))
         /\ task' = [task EXCEPT ![t] =
              IF AlertDue(mem[t], health[t], fresh)
              THEN Carrying(HealthyKind(mem[t], health[t]),
                      IF health[t] = "UP" THEN "recovery" ELSE "transition")
              ELSE At(IF health[t] = "UP" THEN "done" ELSE "announce")]
  BY DEF ObserveHealthy
<1>2. task'[t] = IF AlertDue(mem[t], health[t], fresh)
              THEN Carrying(HealthyKind(mem[t], health[t]),
                      IF health[t] = "UP" THEN "recovery" ELSE "transition")
              ELSE At(IF health[t] = "UP" THEN "done" ELSE "announce")
  BY <1>1 DEF TypeInv, TypeOK
<1>3. mem'[t] = SetHealthy(mem[t], health[t], fresh)
  BY <1>1, StoredIn
<1>4. CASE AlertDue(mem[t], health[t], fresh)
  BY <1>2, <1>3, <1>4, NewTaskFields
<1>5. CASE ~AlertDue(mem[t], health[t], fresh)
  BY <1>2, <1>3, <1>5, NewTaskFields
<1> QED
  BY <1>4, <1>5

LEMMA ObserveDownDoes ==
    ASSUME TypeInv, NEW t \in Target, ObserveDown(t)
    PROVE  /\ mem'[t] = SetDown(mem[t], outage[t])
           /\ task'[t].outcome = "none"
           /\ DownAlertDue(mem[t]) =>
                 /\ task'[t].at = "funnel"
                 /\ task'[t].kind = "FAILURE"
                 /\ task'[t].site = "transition"
           /\ ~DownAlertDue(mem[t]) =>
                 /\ task'[t].at \in {"remind", "announce", "done"}
                 /\ task'[t].at = "remind" => t \in Reminded
                 /\ task'[t].kind = "none"
                 /\ task'[t].site = "none"
<1>1. mem'[t] = SetDown(mem[t], outage[t])
  BY StoredIn DEF ObserveDown
<1>2. task'[t] = IF DownAlertDue(mem[t]) THEN Carrying("FAILURE", "transition")
                 ELSE IF t \in Reminded THEN At("remind")
                 ELSE IF SetDown(mem[t], outage[t]).status = "DOWN"
                 THEN At("announce") ELSE At("done")
  BY DEF ObserveDown, TypeInv, TypeOK
<1> QED
  BY <1>1, <1>2, NewTaskFields

LEMMA ClaimReminderDoes ==
    ASSUME TypeInv, NEW t \in Target, ClaimReminder(t)
    PROVE  /\ \E due : mem'[t] = [mem[t] EXCEPT !.remind = due]
           /\ mem[t].status = "DOWN"
           /\ task'[t].at = "funnel"
           /\ task'[t].kind = "STILL_DOWN"
           /\ task'[t].site = "reminder"
           /\ task'[t].outcome = "none"
<1>1. PICK due : /\ Store(t, [mem[t] EXCEPT !.remind = due])
                 /\ task' = [task EXCEPT ![t] =
                       [Carrying("STILL_DOWN", "reminder") EXCEPT
                           !.claim = [from |-> mem[t].remind, to |-> due]]]
  BY DEF ClaimReminder
<1>2. task'[t] = [Carrying("STILL_DOWN", "reminder") EXCEPT
                     !.claim = [from |-> mem[t].remind, to |-> due]]
  BY <1>1 DEF TypeInv, TypeOK
<1>3. /\ task'[t].at = "funnel" /\ task'[t].kind = "STILL_DOWN"
      /\ task'[t].site = "reminder" /\ task'[t].outcome = "none"
  BY <1>2 DEF Carrying, At
<1> QED
  BY <1>1, <1>3, StoredIn DEF ClaimReminder

LEMMA SkipReminderDoes ==
    ASSUME TypeInv, NEW t \in Target, SkipReminder(t)
    PROVE  /\ UNCHANGED mem
           /\ task'[t].at \in {"announce", "done"}
           /\ task'[t].kind = "none"
           /\ task'[t].site = "none"
           /\ task'[t].outcome = "none"
  BY NewTaskFields DEF SkipReminder, NoStore, TypeInv, TypeOK

LEMMA AnnounceIfOwedDoes ==
    ASSUME TypeInv, NEW t \in Target, AnnounceIfOwed(t)
    PROVE  /\ UNCHANGED mem
           /\ task'[t].outcome = "none"
           /\ \/ /\ mem[t].muted
                 /\ task'[t].at = "funnel"
                 /\ task'[t].site = "announce"
                 /\ task'[t].kind =
                       IF mem[t].status = "DOWN" THEN "FAILURE" ELSE "DEGRADED"
              \/ /\ task'[t].at = "done"
                 /\ task'[t].site = "none"
                 /\ task'[t].kind = "none"
  BY NewTaskFields DEF AnnounceIfOwed, NoStore, TypeInv, TypeOK

LEMMA MuteDoes ==
    ASSUME TypeInv, NEW t \in Target, Mute(t)
    PROVE  /\ t \in window
           /\ \/ mem'[t] = mem[t]
              \/ /\ task[t].kind \in StatusKind
                 /\ mem'[t] = [mem[t] EXCEPT !.pending = FALSE]
           /\ task'[t].at = IF task[t].site = "recovery" THEN "done" ELSE "settle"
           /\ task'[t].kind = task[t].kind
           /\ task'[t].site = task[t].site
           /\ task'[t].outcome = "MUTED"
<1>1. task'[t] = Returned(t, "MUTED")
  BY DEF Mute, TypeInv, TypeOK
<1>2. \/ mem'[t] = mem[t]
      \/ /\ task[t].kind \in StatusKind
         /\ mem'[t] = [mem[t] EXCEPT !.pending = FALSE]
  BY StoredIn DEF Mute, TakesBack, NoStore
<1> QED
  BY <1>1, <1>2, ReturnedFields DEF Mute, TypeInv, TypeOK

LEMMA UnmutedDoes ==
    ASSUME TypeInv, NEW t \in Target, Unmuted(t)
    PROVE  /\ UNCHANGED mem
           /\ task'[t].at = "send"
           /\ task'[t].kind = task[t].kind
           /\ task'[t].site = task[t].site
           /\ task'[t].outcome = task[t].outcome
  BY DEF Unmuted, NoStore, TypeInv, TypeOK, Task

LEMMA DispatchDoes ==
    ASSUME TypeInv, NEW t \in Target, Dispatch(t)
    PROVE  /\ UNCHANGED mem
           /\ task'[t].kind = task[t].kind
           /\ task'[t].site = task[t].site
           /\ task'[t].at = IF task[t].kind \in StatusKind THEN "record"
                            ELSE IF task[t].site = "recovery" THEN "done"
                            ELSE "settle"
           /\ \/ /\ told'[t] = mem[t].status
                 /\ heard'[t] = heard[t] \union Subject(t)
              \/ /\ UNCHANGED <<told, heard>>
                 /\ task'[t].outcome = "UNDELIVERED"
           /\ \/ /\ task'[t].outcome = "DELIVERED"
                 /\ acked'[t] = mem[t].status
                 /\ ackedOf'[t] = ackedOf[t] \union Subject(t)
              \/ /\ task'[t].outcome = "UNDELIVERED"
                 /\ UNCHANGED <<acked, ackedOf>>
<1> DEFINE outcome == IF channelsUp THEN "DELIVERED" ELSE "UNDELIVERED"
<1>1. UNCHANGED mem
  BY DEF Dispatch, NoStore
<1>2. /\ task'[t].kind = task[t].kind
      /\ task'[t].site = task[t].site
      /\ task'[t].outcome = outcome
      /\ task'[t].at = IF task[t].kind \in StatusKind THEN "record"
                       ELSE IF task[t].site = "recovery" THEN "done"
                       ELSE "settle"
  <2>1. task[t] \in Task
    BY DEF TypeInv, TypeOK
  <2>2. CASE task[t].kind \in StatusKind
    <3>1. task'[t] = [task[t] EXCEPT !.outcome = outcome, !.at = "record"]
      BY <2>2 DEF Dispatch, TypeInv, TypeOK
    <3> QED
      BY <2>1, <2>2, <3>1 DEF Task
  <2>3. CASE task[t].kind \notin StatusKind
    <3>1. task'[t] = Returned(t, outcome)
      BY <2>3 DEF Dispatch, TypeInv, TypeOK
    <3> QED
      BY <2>3, <3>1, ReturnedFields DEF TypeInv, TypeOK
  <2> QED
    BY <2>2, <2>3
<1>3. ASSUME Reaches(t)
      PROVE  told'[t] = mem[t].status /\ heard'[t] = heard[t] \union Subject(t)
  BY <1>3 DEF Reaches, TypeInv, TypeOK
<1>4. ASSUME Confirmed(t)
      PROVE  acked'[t] = mem[t].status /\ ackedOf'[t] = ackedOf[t] \union Subject(t)
  BY <1>4 DEF Confirmed, TypeInv, TypeOK
<1>5. \/ channelsUp /\ Reaches(t) /\ Confirmed(t)
      \/ ~channelsUp /\ Reaches(t) /\ UNCHANGED <<acked, ackedOf>>
      \/ ~channelsUp /\ UNCHANGED <<told, heard, acked, ackedOf>>
  BY DEF Dispatch, operator
<1> QED
  BY <1>1, <1>2, <1>3, <1>4, <1>5

LEMMA RecordOutcomeDoes ==
    ASSUME TypeInv, NEW t \in Target, RecordOutcome(t)
    PROVE  /\ mem'[t] = AlertOutcome(mem[t], task[t].outcome = "DELIVERED")
           /\ task'[t].at = IF task[t].site = "recovery" THEN "done" ELSE "settle"
           /\ task'[t].kind = task[t].kind
           /\ task'[t].site = task[t].site
           /\ task'[t].outcome = task[t].outcome
<1>1. task'[t] = Returned(t, task[t].outcome)
  BY DEF RecordOutcome, TypeInv, TypeOK
<1> QED
  BY <1>1, StoredIn, ReturnedFields DEF RecordOutcome, TypeInv, TypeOK

\* After the dispatch only the muted marker and the reminder's step change.
LEMMA SettleDoes ==
    ASSUME TypeInv, NEW t \in Target, Settle(t)
    PROVE  /\ task'[t].at = "done" /\ task'[t].kind = "none"
           /\ task'[t].site = "none" /\ task'[t].outcome = "none"
           /\ mem'[t].status = mem[t].status
           /\ mem'[t].pending = mem[t].pending
           /\ mem'[t].notified = mem[t].notified
           /\ mem'[t].missed = mem[t].missed
           /\ mem'[t].since = mem[t].since
           /\ \/ task[t].site = "transition"
                 /\ mem'[t].muted = (task[t].outcome = "MUTED")
              \/ task[t].site = "announce"
                 /\ mem'[t].muted = (mem[t].muted /\ task[t].outcome = "MUTED")
              \/ task[t].site = "reminder"
                 /\ mem'[t].muted = (mem[t].muted /\ task[t].outcome # "DELIVERED")
<1>1. /\ task'[t].at = "done" /\ task'[t].kind = "none"
      /\ task'[t].site = "none" /\ task'[t].outcome = "none"
  BY NewTaskFields DEF Settle, TypeInv, TypeOK
<1>2. mem[t] \in Record /\ mem[t].muted \in BOOLEAN
  BY DEF TypeInv, TypeOK, Record
<1>3. \A owed \in BOOLEAN :
         RecordMutedAlert(t, owed) =>
            /\ mem'[t].muted = owed
            /\ mem'[t].status = mem[t].status
            /\ mem'[t].pending = mem[t].pending
            /\ mem'[t].notified = mem[t].notified
            /\ mem'[t].missed = mem[t].missed
            /\ mem'[t].since = mem[t].since
  <2> SUFFICES ASSUME NEW owed \in BOOLEAN, RecordMutedAlert(t, owed)
               PROVE  /\ mem'[t].muted = owed
                      /\ mem'[t].status = mem[t].status
                      /\ mem'[t].pending = mem[t].pending
                      /\ mem'[t].notified = mem[t].notified
                      /\ mem'[t].missed = mem[t].missed
                      /\ mem'[t].since = mem[t].since
    OBVIOUS
  <2>1. \/ mem'[t] = mem[t] /\ mem[t].muted = owed
        \/ mem'[t] = [mem[t] EXCEPT !.muted = owed]
    BY StoredIn DEF RecordMutedAlert, NoStore
  <2> QED
    BY <1>2, <2>1 DEF Record
<1>4. NoStore => mem'[t] = mem[t]
  BY DEF NoStore
<1>5. \A step : Store(t, [mem[t] EXCEPT !.remind = step]) =>
            /\ mem'[t].muted = mem[t].muted
            /\ mem'[t].status = mem[t].status
            /\ mem'[t].pending = mem[t].pending
            /\ mem'[t].notified = mem[t].notified
            /\ mem'[t].missed = mem[t].missed
            /\ mem'[t].since = mem[t].since
  BY <1>2, StoredIn DEF Record
<1>6. CASE task[t].site = "transition" /\ SettleTransition(t)
  BY <1>1, <1>3, <1>6 DEF SettleTransition
<1>7. CASE task[t].site = "announce" /\ SettleAnnounce(t)
  BY <1>1, <1>2, <1>3, <1>4, <1>7 DEF SettleAnnounce
<1>8. CASE task[t].site = "reminder" /\ SettleReminder(t)
  BY <1>1, <1>2, <1>3, <1>4, <1>5, <1>8 DEF SettleReminder
<1> QED
  BY <1>6, <1>7, <1>8 DEF Settle

-----------------------------------------------------------------------------
(*                    What holds while no write fails                      *)

\* A coroutine changes nothing about another target, and nothing outside the
\* monitor but what the operator hears.
LEMMA CheckUrlIsLocal ==
    ASSUME OutageInv, NEW t \in Target, CheckUrl(t)
    PROVE  /\ UNCHANGED <<health, outage, window, running, pinged>>
           /\ \A u \in Target \ {t} :
                 /\ mem'[u] = mem[u]   /\ task'[u] = task[u]
                 /\ told'[u] = told[u]   /\ heard'[u] = heard[u]
                 /\ acked'[u] = acked[u] /\ ackedOf'[u] = ackedOf[u]
<1>1. UNCHANGED <<health, outage, window, running, pinged>>
  BY DEF CheckUrl, ObserveHealthy, ObserveDown, ClaimReminder, SkipReminder,
         AnnounceIfOwed, Mute, Unmuted, Dispatch, RecordOutcome, Settle, environment
<1>2. \A u \in Target \ {t} : mem'[u] = mem[u]
  <2>1. NoStore \/ \E record \in Record : Store(t, record)
    BY StepStoresDated
  <2> QED
    BY <2>1 DEF NoStore, Store, OutageInv, TypeInv, TypeOK
<1>3. \A u \in Target \ {t} : task'[u] = task[u]
  BY DEF CheckUrl, ObserveHealthy, ObserveDown, ClaimReminder, SkipReminder,
         AnnounceIfOwed, Mute, Unmuted, Dispatch, RecordOutcome, Settle,
         OutageInv, TypeInv, TypeOK
<1>4. \A u \in Target \ {t} :
         /\ told'[u] = told[u]   /\ heard'[u] = heard[u]
         /\ acked'[u] = acked[u] /\ ackedOf'[u] = ackedOf[u]
  BY DEF CheckUrl, ObserveHealthy, ObserveDown, ClaimReminder, SkipReminder,
         AnnounceIfOwed, Mute, Unmuted, Dispatch, Reaches, Confirmed,
         RecordOutcome, Settle, operator, OutageInv, TypeInv, TypeOK
<1> QED
  BY <1>1, <1>2, <1>3, <1>4

\* Every step is one coroutine's, one of the round's, or the environment's.
LEMMA StepCases ==
    [Next]_vars =>
        \/ \E t \in Target : CheckUrl(t)
        \/ StartRound \/ FinishRound \/ Crash
        \/ \E t \in Target : TargetChanges(t)
        \/ /\ UNCHANGED <<health, outage, disk, mem, writeFailed, running, task,
                          pinged, operator>>
           /\ window' = window \/ \E t \in Maintained : window' \subseteq window \union {t}
<1>1. ASSUME NEW t \in Target, WindowToggles(t)
      PROVE  /\ UNCHANGED <<health, outage, disk, mem, writeFailed, running, task,
                            pinged, operator>>
             /\ \E u \in Maintained : window' \subseteq window \union {u}
  BY <1>1 DEF WindowToggles, operator
<1>2. CASE ChannelsToggle
  BY <1>2 DEF ChannelsToggle, operator
<1>3. CASE UNCHANGED vars
  BY <1>3 DEF vars, environment, operator
<1> QED
  BY <1>1, <1>2, <1>3 DEF Next, Monitor, Environment

\* Windows open on maintained targets only, and only a running round has
\* coroutines.
Orderly ==
    /\ window \subseteq Maintained
    /\ ~running => \A t \in Target : task[t].at = "idle"

\* If no write can fail, the file is the memory at all times.
Saved == disk = mem /\ ~writeFailed

SavedInv == ObligationInv /\ OutageInv /\ Orderly /\ Saved

LEMMA InitSavedInv == Init => SavedInv
<1>1. Init => Orderly
  BY NewTaskFields DEF Init, Orderly
<1>2. Init => Saved
  BY DEF Init, Saved
<1> QED
  BY <1>1, <1>2, InitObligationInv, InitOutageInv DEF SavedInv

LEMMA NextOrderly ==
    ASSUME OutageInv, Orderly, [Next]_vars
    PROVE  Orderly'
<1>1. ASSUME NEW t \in Target, CheckUrl(t)
      PROVE  Orderly'
  <2>1. running
    BY <1>1 DEF Orderly, CheckUrl, ObserveHealthy, ObserveDown, ClaimReminder,
       SkipReminder, AnnounceIfOwed, Mute, Unmuted, Dispatch, RecordOutcome, Settle
  <2>2. UNCHANGED <<window, running>>
    BY <1>1, CheckUrlIsLocal
  <2> QED
    BY <2>1, <2>2 DEF Orderly
<1>2. CASE StartRound
  BY <1>2 DEF StartRound, environment, Orderly
<1>3. CASE FinishRound \/ Crash
  BY <1>3, NewTaskFields DEF FinishRound, Crash, Gone, environment, Orderly
<1>4. ASSUME NEW t \in Target, TargetChanges(t)
      PROVE  Orderly'
  BY <1>4 DEF TargetChanges, Orderly
<1>5. CASE /\ UNCHANGED <<running, task>>
           /\ window' = window \/ \E t \in Maintained : window' \subseteq window \union {t}
  BY <1>5 DEF Orderly
<1> QED
  BY <1>1, <1>2, <1>3, <1>4, <1>5, StepCases

LEMMA NextSavedInv ==
    ASSUME ~WritesMayFail, SavedInv, [Next]_vars
    PROVE  SavedInv'
<1> SUFFICES Saved'
  BY NextObligationInv, NextOutageInv, NextOrderly DEF SavedInv
<1>1. ASSUME NEW t \in Target, CheckUrl(t)
      PROVE  Saved'
  <2>1. NoStore \/ \E record \in Record : Store(t, record)
    BY <1>1, StepStoresDated DEF SavedInv
  <2> QED
    BY <2>1 DEF NoStore, Store, WriteSync, Saved, SavedInv
<1>2. CASE StartRound \/ FinishRound \/ Crash
  BY <1>2 DEF StartRound, FinishRound, Crash, Gone, Saved, SavedInv
<1>3. CASE UNCHANGED <<disk, mem, writeFailed>>
  BY <1>3 DEF Saved, SavedInv
<1> QED
  BY <1>1, <1>2, <1>3, StepCases DEF TargetChanges

-----------------------------------------------------------------------------
(*                        The heartbeat is honest                          *)

\* A muted transition between the write that took its alert back and the one
\* that puts it on record.
Muting(t) ==
    /\ task[t].at = "settle"
    /\ task[t].site = "transition"
    /\ task[t].outcome = "MUTED"

\* What a call site knows of the record while the alert it asked for is on
\* its way, and what it learns.
SiteKnows(t) ==
    /\ InFlight(t) =>
          /\ task[t].site \in Site
          /\ task[t].site = "recovery" => mem[t].status = "UP"
          /\ task[t].site = "announce" => mem[t].muted
          /\ task[t].site = "reminder" <=> task[t].kind \notin StatusKind
    /\ InFlight(t) \/ task[t].at = "settle" =>
          (task[t].site = "transition" => mem[t].status # "UP")
    /\ task[t].at \in {"funnel", "send"} => task[t].outcome = "none"
    /\ task[t].at = "record" =>
          /\ task[t].kind \in StatusKind
          /\ task[t].outcome \in {"DELIVERED", "UNDELIVERED"}
    /\ task[t].at = "settle" => task[t].outcome \in Outcome
    /\ task[t].outcome = "MUTED" => t \in Maintained

\* An outcome is what happened: a delivery told the operator the status on
\* record, and that was confirmed; a status alert that was lost is owed.
OutcomeTrue(t) ==
    /\ task[t].at \in {"record", "settle"} /\ task[t].outcome = "DELIVERED"
          => told[t] = mem[t].status /\ acked[t] = mem[t].status
    /\ task[t].at = "settle" /\ task[t].outcome = "UNDELIVERED"
          => mem[t].pending \/ task[t].site = "reminder"

\* An outage on record was told, is owed, or its mute is on record or about to
\* be put there.
OutageAccounted(t) ==
    mem[t].status = "DOWN"
        => \/ told[t] = "DOWN" /\ acked[t] = "DOWN"
           \/ mem[t].pending \/ mem[t].muted \/ Muting(t)

Accounted(t) == SiteKnows(t) /\ OutcomeTrue(t) /\ OutageAccounted(t)

\* Only Dispatch is heard by the operator.
LEMMA OnlyDispatchTells ==
    ASSUME NEW t \in Target, CheckUrl(t), ~Dispatch(t)
    PROVE  UNCHANGED operator
  BY DEF CheckUrl, ObserveHealthy, ObserveDown, ClaimReminder, SkipReminder,
         AnnounceIfOwed, Mute, Unmuted, RecordOutcome, Settle

\* A step of its own coroutine keeps a target accounted for.
LEMMA StepAccounts ==
    ASSUME OutageInv, Orderly, NEW t \in Target, SiteKnows(t), OutcomeTrue(t),
           CheckUrl(t)
    PROVE  /\ SiteKnows(t)' /\ OutcomeTrue(t)'
           /\ OutageAccounted(t) => OutageAccounted(t)'
<1>0. /\ TypeInv /\ mem[t] \in Record /\ task[t] \in Task
      /\ health[t] \in Status /\ outage[t] \in Nat
      /\ ~Dispatch(t) => told'[t] = told[t] /\ acked'[t] = acked[t]
  BY OnlyDispatchTells DEF OutageInv, TypeInv, TypeOK, operator
<1>1. CASE ObserveHealthy(t)
  <2>1. PICK fresh \in BOOLEAN :
           LET due == AlertDue(mem[t], health[t], fresh) IN
           /\ mem'[t] = SetHealthy(mem[t], health[t], fresh)
           /\ task'[t].at = IF due THEN "funnel"
                            ELSE IF health[t] = "UP" THEN "done" ELSE "announce"
           /\ task'[t].kind = IF due THEN HealthyKind(mem[t], health[t])
                                     ELSE "none"
           /\ task'[t].site = IF due
                 THEN IF health[t] = "UP" THEN "recovery" ELSE "transition"
                 ELSE "none"
           /\ task'[t].outcome = "none"
    BY <1>0, <1>1, ObserveHealthyDoes
  <2>2. mem'[t].status = health[t] /\ health[t] \in {"UP", "DEGRADED"}
    BY <1>0, <1>1, <2>1, SetHealthyFields DEF ObserveHealthy
  <2>3. HealthyKind(mem[t], health[t]) \in StatusKind
    BY DEF HealthyKind, StatusKind
  <2>4. SiteKnows(t)'
    BY <2>1, <2>2, <2>3 DEF SiteKnows, InFlight, Site
  <2> QED
    BY <2>1, <2>2, <2>4 DEF OutcomeTrue, OutageAccounted
<1>2. CASE ObserveDown(t)
  <2>1. /\ mem'[t] = SetDown(mem[t], outage[t])
        /\ task'[t].outcome = "none"
        /\ DownAlertDue(mem[t]) =>
              /\ task'[t].at = "funnel"
              /\ task'[t].kind = "FAILURE"
              /\ task'[t].site = "transition"
        /\ ~DownAlertDue(mem[t]) =>
              /\ task'[t].at \in {"remind", "announce", "done"}
              /\ task'[t].kind = "none"
              /\ task'[t].site = "none"
    BY <1>0, <1>2, ObserveDownDoes
  <2>2. told'[t] = told[t] /\ acked'[t] = acked[t] /\ task[t].at = "probe"
    BY <1>0, <1>2 DEF ObserveDown, Dispatch
  <2>3. CASE HeldByHysteresis(mem[t])
    <3>1. mem'[t].status = mem[t].status /\ mem[t].status # "DOWN"
      BY <1>0, <2>1, <2>3, SetDownHeldFields DEF HeldByHysteresis
    <3>2. ~DownAlertDue(mem[t])
      BY <2>3, <3>1 DEF DownAlertDue
    <3> QED
      BY <2>1, <3>1, <3>2
      DEF SiteKnows, OutcomeTrue, OutageAccounted, InFlight
  <2>4. CASE ~HeldByHysteresis(mem[t])
    <3>1. /\ mem'[t].status = "DOWN"
          /\ mem'[t].pending = DownAlertDue(mem[t])
          /\ mem'[t].muted = (mem[t].status = "DOWN" /\ mem[t].muted)
      BY <1>0, <2>1, <2>4, SetDownFields
    <3>2. SiteKnows(t)' /\ OutcomeTrue(t)'
      BY <2>1, <3>1
      DEF SiteKnows, OutcomeTrue, InFlight, Site, StatusKind
    <3>3. OutageAccounted(t) => OutageAccounted(t)'
      BY <2>2, <2>4, <3>1 DEF OutageAccounted, DownAlertDue, Muting
    <3> QED
      BY <3>2, <3>3
  <2> QED
    BY <2>3, <2>4
<1>3. CASE ClaimReminder(t)
  <2>1. PICK due : mem'[t] = [mem[t] EXCEPT !.remind = due]
    BY <1>0, <1>3, ClaimReminderDoes
  <2>2. /\ mem'[t].status = mem[t].status /\ mem'[t].pending = mem[t].pending
        /\ mem'[t].muted = mem[t].muted
        /\ told'[t] = told[t] /\ acked'[t] = acked[t] /\ task[t].at = "remind"
    BY <1>0, <1>3, <2>1 DEF Record, ClaimReminder, Dispatch
  <2>3. /\ task'[t].at = "funnel" /\ task'[t].kind = "STILL_DOWN"
        /\ task'[t].site = "reminder" /\ task'[t].outcome = "none"
    BY <1>0, <1>3, ClaimReminderDoes
  <2> QED
    BY <2>2, <2>3
    DEF SiteKnows, OutcomeTrue, OutageAccounted, Muting, InFlight, Site, StatusKind
<1>4. CASE SkipReminder(t)
  <2>1. /\ UNCHANGED mem /\ told'[t] = told[t] /\ acked'[t] = acked[t] /\ task[t].at = "remind"
        /\ task'[t].at \in {"announce", "done"} /\ task'[t].outcome = "none"
    BY <1>0, <1>4, SkipReminderDoes DEF SkipReminder, Dispatch
  <2> QED
    BY <2>1 DEF SiteKnows, OutcomeTrue, OutageAccounted, Muting, InFlight
<1>5. CASE AnnounceIfOwed(t)
  <2>1. /\ UNCHANGED mem /\ told'[t] = told[t] /\ acked'[t] = acked[t] /\ task[t].at = "announce"
        /\ task'[t].outcome = "none"
        /\ \/ /\ mem[t].muted
              /\ task'[t].at = "funnel"
              /\ task'[t].site = "announce"
              /\ task'[t].kind \in {"FAILURE", "DEGRADED"}
           \/ task'[t].at = "done"
    BY <1>0, <1>5, AnnounceIfOwedDoes DEF AnnounceIfOwed, Dispatch
  <2> QED
    BY <2>1
    DEF SiteKnows, OutcomeTrue, OutageAccounted, Muting, InFlight, Site, StatusKind
<1>6. CASE Mute(t)
  <2>1. /\ task[t].at = "funnel" /\ told'[t] = told[t] /\ acked'[t] = acked[t] /\ t \in Maintained
        /\ \/ mem'[t] = mem[t]
           \/ /\ task[t].kind \in StatusKind
              /\ mem'[t] = [mem[t] EXCEPT !.pending = FALSE]
        /\ task'[t].at = IF task[t].site = "recovery" THEN "done" ELSE "settle"
        /\ task'[t].site = task[t].site
        /\ task'[t].outcome = "MUTED"
    BY <1>0, <1>6, MuteDoes DEF Mute, Dispatch, Orderly
  <2>2. /\ mem'[t].status = mem[t].status /\ mem'[t].muted = mem[t].muted
        /\ task[t].kind \notin StatusKind => mem'[t].pending = mem[t].pending
    BY <1>0, <2>1 DEF Record
  <2>3. SiteKnows(t)' /\ OutcomeTrue(t)'
    BY <2>1, <2>2 DEF SiteKnows, OutcomeTrue, InFlight, Outcome
  <2>4. OutageAccounted(t) => OutageAccounted(t)'
    BY <2>1, <2>2 DEF SiteKnows, OutageAccounted, Muting, InFlight, Site
  <2> QED
    BY <2>3, <2>4
<1>7. CASE Unmuted(t)
  <2>1. /\ UNCHANGED mem /\ told'[t] = told[t] /\ acked'[t] = acked[t] /\ task[t].at = "funnel"
        /\ task'[t].at = "send" /\ task'[t].kind = task[t].kind
        /\ task'[t].site = task[t].site /\ task'[t].outcome = task[t].outcome
    BY <1>0, <1>7, UnmutedDoes DEF Unmuted, Dispatch
  <2> QED
    BY <2>1 DEF SiteKnows, OutcomeTrue, OutageAccounted, Muting, InFlight
<1>8. CASE Dispatch(t)
  <2>1. /\ UNCHANGED mem /\ task[t].at = "send"
        /\ task'[t].kind = task[t].kind
        /\ task'[t].site = task[t].site
        /\ task'[t].at = IF task[t].kind \in StatusKind THEN "record"
                         ELSE IF task[t].site = "recovery" THEN "done"
                         ELSE "settle"
        /\ \/ /\ task'[t].outcome = "DELIVERED"
              /\ told'[t] = mem[t].status /\ acked'[t] = mem[t].status
           \/ /\ task'[t].outcome = "UNDELIVERED"
              /\ told'[t] \in {told[t], mem[t].status}
              /\ acked'[t] = acked[t]
    BY <1>0, <1>8, DispatchDoes DEF Dispatch, operator
  <2>2. SiteKnows(t)'
    BY <2>1 DEF SiteKnows, InFlight, Outcome
  <2>3. OutcomeTrue(t)'
    BY <2>1 DEF SiteKnows, OutcomeTrue, InFlight
  <2>4. OutageAccounted(t) => OutageAccounted(t)'
    BY <2>1 DEF OutageAccounted, Muting
  <2> QED
    BY <2>2, <2>3, <2>4
<1>9. CASE RecordOutcome(t)
  <2>1. /\ mem'[t] = AlertOutcome(mem[t], task[t].outcome = "DELIVERED")
        /\ task[t].at = "record" /\ told'[t] = told[t] /\ acked'[t] = acked[t]
        /\ task'[t].at = IF task[t].site = "recovery" THEN "done" ELSE "settle"
        /\ task'[t].kind = task[t].kind
        /\ task'[t].site = task[t].site
        /\ task'[t].outcome = task[t].outcome
    BY <1>0, <1>9, RecordOutcomeDoes DEF RecordOutcome, Dispatch
  <2>2. /\ mem'[t].status = mem[t].status
        /\ mem'[t].pending = ~(task[t].outcome = "DELIVERED")
        /\ mem'[t].muted = mem[t].muted
    <3> DEFINE delivered == task[t].outcome = "DELIVERED"
    <3>1. delivered \in BOOLEAN /\ mem'[t] = AlertOutcome(mem[t], delivered)
      BY <2>1
    <3> HIDE DEF delivered
    <3>2. /\ mem'[t].status = mem[t].status
          /\ mem'[t].pending = ~delivered
          /\ mem'[t].muted = mem[t].muted
      BY <1>0, <3>1, AlertOutcomeFields
    <3> QED
      BY <3>2 DEF delivered
  <2>3. SiteKnows(t)' /\ OutcomeTrue(t)'
    BY <2>1, <2>2 DEF SiteKnows, OutcomeTrue, InFlight, Outcome
  <2>4. OutageAccounted(t) => OutageAccounted(t)'
    BY <2>1, <2>2 DEF OutcomeTrue, OutageAccounted
  <2> QED
    BY <2>3, <2>4
<1>10. CASE Settle(t)
  <2>1. /\ task'[t].at = "done" /\ task'[t].outcome = "none"
        /\ mem'[t].status = mem[t].status
        /\ mem'[t].pending = mem[t].pending
        /\ \/ task[t].site = "transition"
              /\ mem'[t].muted = (task[t].outcome = "MUTED")
           \/ task[t].site = "announce"
              /\ mem'[t].muted = (mem[t].muted /\ task[t].outcome = "MUTED")
           \/ task[t].site = "reminder"
              /\ mem'[t].muted = (mem[t].muted /\ task[t].outcome # "DELIVERED")
    BY <1>0, <1>10, SettleDoes
  <2>2. task[t].at = "settle" /\ told'[t] = told[t] /\ acked'[t] = acked[t]
    BY <1>0, <1>10 DEF Settle, Dispatch
  <2>3. task[t].outcome \in Outcome
    BY <2>2 DEF SiteKnows
  <2>4. SiteKnows(t)' /\ OutcomeTrue(t)'
    BY <2>1 DEF SiteKnows, OutcomeTrue, InFlight
  <2>5. OutageAccounted(t) => OutageAccounted(t)'
    BY <2>1, <2>2, <2>3 DEF OutcomeTrue, OutageAccounted, Muting, Outcome
  <2> QED
    BY <2>4, <2>5
<1> QED
  BY <1>1, <1>2, <1>3, <1>4, <1>5, <1>6, <1>7, <1>8, <1>9, <1>10 DEF CheckUrl

\* With windows, no process is killed between the two writes of a mute.
KilledOutsideWindows == MayCrash => Maintained = {}

HonestInv ==
    /\ SavedInv
    /\ \A t \in Target : Accounted(t)
    /\ PingedBetweenRounds
    /\ HeartbeatHonest

LEMMA InitHonestInv == Init => HonestInv
<1> SUFFICES ASSUME Init
             PROVE  HonestInv
  OBVIOUS
<1>1. SavedInv
  BY InitSavedInv
<1>2. ASSUME NEW t \in Target
      PROVE  Accounted(t)
  <2>1. /\ task[t].at = "idle" /\ task[t].outcome = "none"
        /\ mem[t] = disk[t] /\ told[t] = ToldBefore(disk[t]) /\ acked[t] = told[t]
    BY NewTaskFields DEF Init
  <2>2. SiteKnows(t) /\ OutcomeTrue(t)
    BY <2>1 DEF SiteKnows, OutcomeTrue, InFlight
  <2>3. OutageAccounted(t)
    BY <2>1 DEF OutageAccounted, ToldBefore, Status
  <2> QED
    BY <2>2, <2>3 DEF Accounted
<1> QED
  BY <1>1, <1>2 DEF HonestInv, Init, PingedBetweenRounds, HeartbeatHonest

\* Where a round ends or is killed, nothing is about to be put on record.
LEMMA NextAccounted ==
    ASSUME ~WritesMayFail, KilledOutsideWindows, SavedInv,
           \A t \in Target : Accounted(t), [Next]_vars
    PROVE  \A t \in Target : Accounted(t)'
<1>1. ASSUME NEW t \in Target, CheckUrl(t), NEW u \in Target
      PROVE  Accounted(u)'
  <2>1. CASE u = t
    BY <1>1, <2>1, StepAccounts DEF Accounted, SavedInv
  <2>2. CASE u # t
    <3>1. mem'[u] = mem[u] /\ task'[u] = task[u] /\ told'[u] = told[u]
          /\ acked'[u] = acked[u]
      BY <1>1, <2>2, CheckUrlIsLocal DEF SavedInv
    <3> QED
      BY <3>1 DEF Accounted, SiteKnows, OutcomeTrue, OutageAccounted, Muting,
                  InFlight
  <2> QED
    BY <2>1, <2>2
<1>2. ASSUME StartRound \/ FinishRound \/ Crash, NEW u \in Target
      PROVE  Accounted(u)'
  <2>1. /\ mem' = mem /\ told' = told /\ acked' = acked
        /\ task'[u].at \in {"probe", "idle"} /\ task'[u].outcome = "none"
    BY <1>2, NewTaskFields
    DEF StartRound, FinishRound, Crash, Gone, operator, SavedInv, Saved
  <2>2. ~Muting(u)
    <3>1. CASE StartRound
      BY <3>1 DEF StartRound, SavedInv, Orderly, Muting
    <3>2. CASE FinishRound
      BY <3>2 DEF FinishRound, Muting
    <3>3. CASE Crash
      BY <3>3 DEF Crash, KilledOutsideWindows, Accounted, SiteKnows, Muting
    <3> QED
      BY <1>2, <3>1, <3>2, <3>3
  <2> QED
    BY <2>1, <2>2 DEF Accounted, SiteKnows, OutcomeTrue, OutageAccounted, InFlight
<1>3. ASSUME UNCHANGED <<mem, task, told, acked>>, NEW u \in Target
      PROVE  Accounted(u)'
  BY <1>3 DEF Accounted, SiteKnows, OutcomeTrue, OutageAccounted, Muting, InFlight
<1> QED
  BY <1>1, <1>2, <1>3, StepCases DEF TargetChanges, operator

LEMMA NextHonestInv ==
    ASSUME ~WritesMayFail, KilledOutsideWindows, HonestInv, [Next]_vars
    PROVE  HonestInv'
<1> USE DEF HonestInv
<1>1. SavedInv' /\ \A t \in Target : Accounted(t)'
  BY NextSavedInv, NextAccounted
<1>2. PingedBetweenRounds'
  BY PingedOnlyAtEnd
  DEF PingedBetweenRounds, StartRound, FinishRound, Crash, Gone
<1>3. HeartbeatHonest'
  <2>1. CASE FinishRound
    <3> SUFFICES ASSUME pinged', NEW t \in Target, disk'[t].status = "DOWN"
                 PROVE  told'[t] = "DOWN" \/ disk'[t].muted
      BY DEF HeartbeatHonest
    <3>1. /\ disk' = disk /\ told' = told /\ disk = mem
          /\ ~disk[t].pending /\ task[t].at = "done"
      BY <2>1 DEF FinishRound, Gone, Vouches, Undelivered, operator, SavedInv, Saved
    <3>2. OutageAccounted(t)
      BY DEF Accounted
    <3> QED
      BY <3>1, <3>2 DEF OutageAccounted, Muting
  <2>2. CASE StartRound \/ Crash
    BY <2>2 DEF StartRound, Crash, HeartbeatHonest
  <2>3. ASSUME NEW t \in Target, CheckUrl(t)
        PROVE  HeartbeatHonest'
    <3>1. running /\ UNCHANGED <<running, pinged>>
      BY <2>3, CheckUrlIsLocal DEF SavedInv, Orderly, CheckUrl, ObserveHealthy,
         ObserveDown, ClaimReminder, SkipReminder, AnnounceIfOwed, Mute,
         Unmuted, Dispatch, RecordOutcome, Settle
    <3> QED
      BY <3>1 DEF HeartbeatHonest, PingedBetweenRounds
  <2>4. CASE UNCHANGED <<disk, pinged, told>>
    BY <2>4 DEF HeartbeatHonest
  <2> QED
    BY <2>1, <2>2, <2>3, <2>4, StepCases DEF TargetChanges, operator
<1> QED
  BY <1>1, <1>2, <1>3

\* A green watchdog means that no outage on file is one the operator was never
\* told of, other than one whose muted announcement is on record: for any
\* number of targets, with reminders, dead channels and gaps, and with kills
\* unless windows can mute (run_health_checks, _alerts_undelivered).
THEOREM HeartbeatTrue ==
    ~WritesMayFail /\ KilledOutsideWindows => (Spec => []HeartbeatHonest)
<1> SUFFICES ASSUME ~WritesMayFail, KilledOutsideWindows
             PROVE  Spec => []HeartbeatHonest
  OBVIOUS
<1>1. HonestInv /\ [Next]_vars => HonestInv'
  BY NextHonestInv
<1>2. HonestInv => HeartbeatHonest
  BY DEF HonestInv
<1> QED
  BY <1>1, <1>2, InitHonestInv, PTL DEF Spec

-----------------------------------------------------------------------------
(*               What the record says was confirmed                        *)

\* No target has both reminders and maintenance windows.
RemindersUnmuted == Reminded \cap Maintained = {}

\* A reminder goes out for an outage of which nothing is owed, a mute is on
\* record for a target with windows only, and never for one that is up.
Marked(t) ==
    /\ mem[t].muted => mem[t].status # "UP" /\ t \in Maintained
    /\ task[t].at = "remind" =>
          t \in Reminded /\ (mem[t].status = "DOWN" => ~mem[t].pending)
    /\ task[t].site = "reminder" =>
          t \in Reminded /\ mem[t].status = "DOWN" /\ ~mem[t].pending

\* Past the probe notification_status is in the record; what it says, or what
\* an older record implies, was confirmed, but for a delivery not recorded yet.
ConfirmedIsNotified(t) ==
    /\ task[t].at \notin {"idle", "probe"} => mem[t].notified \in Status
    /\ acked[t] = IF RecordsDelivery(t) THEN mem[t].status ELSE Notified(mem[t])

\* A reminder tells of an outage that was confirmed already.
LEMMA ReminderRepeats ==
    ASSUME RemindersUnmuted, NEW t \in Target, Accounted(t), Marked(t),
           task[t].site = "reminder"
    PROVE  acked[t] = "DOWN" /\ mem[t].status = "DOWN"
  BY DEF RemindersUnmuted, Marked, Accounted, OutageAccounted, Muting

\* A step that keeps notification_status, and is not about a delivery, keeps
\* what the record says was confirmed.
LEMMA NotifiedKept ==
    ASSUME NEW t \in Target, ConfirmedIsNotified(t), ~RecordsDelivery(t),
           mem'[t].notified = Notified(mem[t]), Notified(mem[t]) \in Status,
           acked'[t] = acked[t], task'[t].at # "record" \/ task'[t].outcome # "DELIVERED"
    PROVE  ConfirmedIsNotified(t)'
<1>1. Notified(mem'[t]) = mem'[t].notified
  BY DEF Notified
<1> QED
  BY <1>1 DEF ConfirmedIsNotified, RecordsDelivery

LEMMA StepMarks ==
    ASSUME HonestInv, NEW t \in Target, Marked(t), CheckUrl(t)
    PROVE  Marked(t)'
<1>0. /\ TypeInv /\ mem[t] \in Record /\ task[t] \in Task
      /\ health[t] \in Status /\ outage[t] \in Nat
      /\ Accounted(t)
  BY DEF HonestInv, SavedInv, OutageInv, TypeInv, TypeOK
<1>1. CASE ObserveHealthy(t)
  <2>1. PICK fresh \in BOOLEAN :
           LET due == AlertDue(mem[t], health[t], fresh) IN
           /\ mem'[t] = SetHealthy(mem[t], health[t], fresh)
           /\ task'[t].at = IF due THEN "funnel"
                            ELSE IF health[t] = "UP" THEN "done" ELSE "announce"
           /\ task'[t].site = IF due
                 THEN IF health[t] = "UP" THEN "recovery" ELSE "transition"
                 ELSE "none"
    BY <1>0, <1>1, ObserveHealthyDoes
  <2>2. /\ mem'[t].status = health[t]
        /\ mem'[t].muted = (health[t] = "DEGRADED" /\ mem[t].status = "DEGRADED"
                               /\ mem[t].muted)
    BY <1>0, <2>1, SetHealthyFields
  <2> QED
    BY <2>1, <2>2 DEF Marked
<1>2. CASE ObserveDown(t)
  <2>1. /\ mem'[t] = SetDown(mem[t], outage[t])
        /\ DownAlertDue(mem[t]) => task'[t].at = "funnel"
                                   /\ task'[t].site = "transition"
        /\ ~DownAlertDue(mem[t]) => task'[t].site = "none"
        /\ task'[t].at = "remind" => t \in Reminded /\ ~DownAlertDue(mem[t])
    BY <1>0, <1>2, ObserveDownDoes
  <2>2. CASE HeldByHysteresis(mem[t])
    <3>1. /\ mem'[t].status = mem[t].status /\ mem[t].status # "DOWN"
          /\ mem'[t].muted = mem[t].muted
      BY <1>0, <2>1, <2>2, SetDownHeldFields DEF HeldByHysteresis
    <3> QED
      BY <2>1, <3>1 DEF Marked
  <2>3. CASE ~HeldByHysteresis(mem[t])
    <3>1. /\ mem'[t].status = "DOWN"
          /\ mem'[t].pending = DownAlertDue(mem[t])
          /\ mem'[t].muted = (mem[t].status = "DOWN" /\ mem[t].muted)
      BY <1>0, <2>1, <2>3, SetDownFields
    <3> QED
      BY <2>1, <3>1 DEF Marked
  <2> QED
    BY <2>2, <2>3
<1>3. CASE ClaimReminder(t)
  <2>1. PICK due : mem'[t] = [mem[t] EXCEPT !.remind = due]
    BY <1>0, <1>3, ClaimReminderDoes
  <2>2. /\ mem'[t].status = mem[t].status /\ mem'[t].pending = mem[t].pending
        /\ mem'[t].muted = mem[t].muted
        /\ task[t].at = "remind" /\ mem[t].status = "DOWN"
        /\ task'[t].at = "funnel"
    BY <1>0, <1>3, <2>1, ClaimReminderDoes DEF Record, ClaimReminder
  <2> QED
    BY <2>2 DEF Marked
<1>4. CASE SkipReminder(t)
  BY <1>0, <1>4, SkipReminderDoes DEF Marked
<1>5. CASE AnnounceIfOwed(t)
  BY <1>0, <1>5, AnnounceIfOwedDoes DEF Marked
<1>6. CASE Mute(t)
  <2>1. /\ task[t].at = "funnel"
        /\ \/ mem'[t] = mem[t]
           \/ mem'[t] = [mem[t] EXCEPT !.pending = FALSE]
        /\ task'[t].at \in {"done", "settle"}
        /\ task'[t].site = task[t].site
    BY <1>0, <1>6, MuteDoes DEF Mute
  <2>2. /\ mem'[t].status = mem[t].status /\ mem'[t].muted = mem[t].muted
        /\ mem'[t].pending => mem[t].pending
    BY <1>0, <2>1 DEF Record
  <2> QED
    BY <2>1, <2>2 DEF Marked
<1>7. CASE Unmuted(t)
  BY <1>0, <1>7, UnmutedDoes DEF Marked
<1>8. CASE Dispatch(t)
  <2>1. /\ UNCHANGED mem /\ task'[t].site = task[t].site
        /\ task'[t].at \in {"record", "done", "settle"}
    BY <1>0, <1>8, DispatchDoes
  <2> QED
    BY <2>1 DEF Marked
<1>9. CASE RecordOutcome(t)
  <2>1. /\ mem'[t] = AlertOutcome(mem[t], task[t].outcome = "DELIVERED")
        /\ task'[t].at \in {"done", "settle"}
        /\ task'[t].site = task[t].site
    BY <1>0, <1>9, RecordOutcomeDoes
  <2>2. task[t].site # "reminder"
    BY <1>0, <1>9 DEF RecordOutcome, Accounted, SiteKnows, InFlight
  <2>3. mem'[t].status = mem[t].status /\ mem'[t].muted = mem[t].muted
    <3> DEFINE delivered == task[t].outcome = "DELIVERED"
    <3>1. delivered \in BOOLEAN /\ mem'[t] = AlertOutcome(mem[t], delivered)
      BY <2>1
    <3> HIDE DEF delivered
    <3> QED
      BY <1>0, <3>1, AlertOutcomeFields
  <2> QED
    BY <2>1, <2>2, <2>3 DEF Marked
<1>10. CASE Settle(t)
  <2>1. /\ task'[t].at = "done" /\ task'[t].site = "none"
        /\ mem'[t].status = mem[t].status
        /\ mem'[t].muted => \/ mem[t].muted
                            \/ /\ task[t].site = "transition"
                               /\ task[t].outcome = "MUTED"
    BY <1>0, <1>10, SettleDoes
  <2>2. Muting(t) => mem[t].status # "UP" /\ t \in Maintained
    BY <1>0 DEF Accounted, SiteKnows, Muting
  <2>3. task[t].at = "settle"
    BY <1>10 DEF Settle
  <2> QED
    BY <2>1, <2>2, <2>3 DEF Marked, Muting
<1> QED
  BY <1>1, <1>2, <1>3, <1>4, <1>5, <1>6, <1>7, <1>8, <1>9, <1>10 DEF CheckUrl

LEMMA StepNotified ==
    ASSUME HonestInv, RemindersUnmuted, NEW t \in Target, Marked(t),
           ConfirmedIsNotified(t), CheckUrl(t)
    PROVE  ConfirmedIsNotified(t)'
<1>0. /\ TypeInv /\ mem[t] \in Record /\ task[t] \in Task
      /\ health[t] \in Status /\ outage[t] \in Nat
      /\ Accounted(t)
      /\ ~Dispatch(t) => acked'[t] = acked[t]
  BY OnlyDispatchTells
  DEF HonestInv, SavedInv, OutageInv, TypeInv, TypeOK, operator
<1>a. Notified(mem[t]) \in Status
  BY <1>0, NotifiedType
<1>b. task[t].at \notin {"idle", "probe"} => Notified(mem[t]) = mem[t].notified
  BY DEF ConfirmedIsNotified, Notified
<1>1. CASE ObserveHealthy(t)
  <2>1. PICK fresh \in BOOLEAN :
           /\ mem'[t] = SetHealthy(mem[t], health[t], fresh)
           /\ task'[t].outcome = "none"
    BY <1>0, <1>1, ObserveHealthyDoes
  <2>2. mem'[t].notified = Notified(mem[t])
    BY <1>0, <2>1, SetHealthyFields
  <2>3. task[t].at = "probe" /\ ~Dispatch(t)
    BY <1>1 DEF ObserveHealthy, Dispatch
  <2> QED
    BY <1>0, <1>a, <2>1, <2>2, <2>3, NotifiedKept DEF RecordsDelivery
<1>2. CASE ObserveDown(t)
  <2>1. /\ mem'[t] = SetDown(mem[t], outage[t])
        /\ task'[t].outcome = "none"
    BY <1>0, <1>2, ObserveDownDoes
  <2>2. mem'[t].notified = Notified(mem[t])
    BY <1>0, <2>1, SetDownFields, SetDownHeldFields
  <2>3. task[t].at = "probe" /\ ~Dispatch(t)
    BY <1>2 DEF ObserveDown, Dispatch
  <2> QED
    BY <1>0, <1>a, <2>1, <2>2, <2>3, NotifiedKept DEF RecordsDelivery
<1>3. CASE ClaimReminder(t)
  <2>1. PICK due : mem'[t] = [mem[t] EXCEPT !.remind = due]
    BY <1>0, <1>3, ClaimReminderDoes
  <2>2. /\ mem'[t].notified = mem[t].notified
        /\ task[t].at = "remind" /\ task'[t].at = "funnel" /\ ~Dispatch(t)
    BY <1>0, <1>3, <2>1, ClaimReminderDoes DEF Record, ClaimReminder, Dispatch
  <2> QED
    BY <1>0, <1>a, <1>b, <2>2, NotifiedKept DEF RecordsDelivery
<1>4. CASE SkipReminder(t)
  <2>1. /\ UNCHANGED mem /\ task[t].at = "remind" /\ ~Dispatch(t)
        /\ task'[t].at \in {"announce", "done"}
    BY <1>0, <1>4, SkipReminderDoes DEF SkipReminder, Dispatch
  <2> QED
    BY <1>0, <1>a, <1>b, <2>1, NotifiedKept DEF RecordsDelivery
<1>5. CASE AnnounceIfOwed(t)
  <2>1. /\ UNCHANGED mem /\ task[t].at = "announce" /\ ~Dispatch(t)
        /\ task'[t].at \in {"funnel", "done"}
    BY <1>0, <1>5, AnnounceIfOwedDoes DEF AnnounceIfOwed, Dispatch
  <2> QED
    BY <1>0, <1>a, <1>b, <2>1, NotifiedKept DEF RecordsDelivery
<1>6. CASE Mute(t)
  <2>1. /\ task[t].at = "funnel" /\ ~Dispatch(t)
        /\ \/ mem'[t] = mem[t]
           \/ mem'[t] = [mem[t] EXCEPT !.pending = FALSE]
        /\ task'[t].at \in {"done", "settle"}
    BY <1>0, <1>6, MuteDoes DEF Mute, Dispatch
  <2>2. mem'[t].notified = mem[t].notified
    BY <1>0, <2>1 DEF Record
  <2> QED
    BY <1>0, <1>a, <1>b, <2>1, <2>2, NotifiedKept DEF RecordsDelivery
<1>7. CASE Unmuted(t)
  <2>1. /\ UNCHANGED mem /\ task[t].at = "funnel" /\ ~Dispatch(t)
        /\ task'[t].at = "send"
    BY <1>0, <1>7, UnmutedDoes DEF Unmuted, Dispatch
  <2> QED
    BY <1>0, <1>a, <1>b, <2>1, NotifiedKept DEF RecordsDelivery
<1>8. CASE Dispatch(t)
  <2>1. /\ UNCHANGED mem /\ task[t].at = "send"
        /\ task'[t].at = IF task[t].kind \in StatusKind THEN "record"
                         ELSE IF task[t].site = "recovery" THEN "done"
                         ELSE "settle"
        /\ \/ task'[t].outcome = "DELIVERED" /\ acked'[t] = mem[t].status
           \/ task'[t].outcome = "UNDELIVERED" /\ acked'[t] = acked[t]
    BY <1>0, <1>8, DispatchDoes DEF Dispatch, operator
  <2>2. mem[t].notified \in Status /\ acked[t] = Notified(mem[t])
    BY <2>1 DEF ConfirmedIsNotified, RecordsDelivery
  <2>3. CASE task[t].kind \in StatusKind
    BY <2>1, <2>2, <2>3 DEF ConfirmedIsNotified, RecordsDelivery
  <2>4. CASE task[t].kind \notin StatusKind
    <3>1. task[t].site = "reminder"
      BY <1>0, <2>1, <2>4 DEF Accounted, SiteKnows, InFlight
    <3>2. acked'[t] = acked[t]
      BY <1>0, <2>1, <3>1, ReminderRepeats
    <3> QED
      BY <2>1, <2>2, <2>4, <3>1, <3>2 DEF ConfirmedIsNotified, RecordsDelivery
  <2> QED
    BY <2>3, <2>4
<1>9. CASE RecordOutcome(t)
  <2>1. /\ mem'[t] = AlertOutcome(mem[t], task[t].outcome = "DELIVERED")
        /\ task[t].at = "record" /\ acked'[t] = acked[t]
        /\ task'[t].at \in {"done", "settle"}
    BY <1>0, <1>9, RecordOutcomeDoes DEF RecordOutcome, Dispatch
  <2>2. mem[t].notified \in Status /\ mem[t].status \in Status
    BY <1>0, <2>1 DEF ConfirmedIsNotified, TypeInv, SeenBeforeSent
  <2>3. mem'[t].notified = IF task[t].outcome = "DELIVERED" THEN mem[t].status
                                                            ELSE mem[t].notified
    <3> DEFINE delivered == task[t].outcome = "DELIVERED"
    <3>1. delivered \in BOOLEAN /\ mem'[t] = AlertOutcome(mem[t], delivered)
      BY <2>1
    <3> HIDE DEF delivered
    <3>2. mem'[t].notified = IF delivered THEN mem[t].status ELSE mem[t].notified
      BY <1>0, <2>2, <3>1, AlertOutcomeFields
    <3> QED
      BY <3>2 DEF delivered
  <2>4. mem'[t].notified \in Status /\ Notified(mem'[t]) = mem'[t].notified
    BY <2>2, <2>3 DEF Notified
  <2> QED
    BY <1>b, <2>1, <2>3, <2>4 DEF ConfirmedIsNotified, RecordsDelivery
<1>10. CASE Settle(t)
  <2>1. /\ task'[t].at = "done" /\ mem'[t].notified = mem[t].notified
        /\ task[t].at = "settle" /\ ~Dispatch(t)
    BY <1>0, <1>10, SettleDoes DEF Settle, Dispatch
  <2> QED
    BY <1>0, <1>a, <1>b, <2>1, NotifiedKept DEF RecordsDelivery
<1> QED
  BY <1>1, <1>2, <1>3, <1>4, <1>5, <1>6, <1>7, <1>8, <1>9, <1>10 DEF CheckUrl

ConfirmedInv ==
    /\ HonestInv
    /\ \A t \in Target : Marked(t) /\ ConfirmedIsNotified(t)

\* The record of an older version implies what that version told.
LEMMA FirstRecordFields ==
    ASSUME NEW t \in Target, NEW r \in FirstRecord(t)
    PROVE  /\ r.notified = "NONE" /\ ~r.muted /\ r.missed = 0
           /\ r.pending => r.status = "DOWN"
           /\ r.status = "DOWN" => r.since = 1
           /\ Notified(r) = ToldBefore(r)
<1>1. /\ Absent.notified = "NONE" /\ ~Absent.muted /\ Absent.missed = 0
      /\ ~Absent.pending /\ Absent.status = "ABSENT"
  BY DEF Absent
<1>2. /\ r.notified = "NONE" /\ ~r.muted /\ r.missed = 0
      /\ r.pending => r.status = "DOWN"
      /\ r.status = "DOWN" => r.since = 1
  <2>1. CASE r = Absent
    BY <1>1, <2>1
  <2>2. ASSUME NEW s \in Status, r = LegacyRecord(s, FALSE)
        PROVE  /\ r.notified = "NONE" /\ ~r.muted /\ r.missed = 0
               /\ r.pending => r.status = "DOWN"
               /\ r.status = "DOWN" => r.since = 1
    BY <2>2 DEF LegacyRecord, Absent
  <2>3. CASE r = LegacyRecord("DOWN", TRUE)
    BY <2>3 DEF LegacyRecord, Absent
  <2> QED
    BY <2>1, <2>2, <2>3 DEF FirstRecord
<1> QED
  BY <1>2 DEF Notified, ToldBefore, Status

LEMMA InitConfirmedInv == Init => ConfirmedInv
<1> SUFFICES ASSUME Init, NEW t \in Target
             PROVE  Marked(t) /\ ConfirmedIsNotified(t)
  BY InitHonestInv DEF ConfirmedInv
<1>1. /\ task[t].at = "idle" /\ task[t].site = "none"
      /\ disk[t] \in FirstRecord(t) /\ mem[t] = disk[t]
      /\ acked[t] = ToldBefore(disk[t])
  BY NewTaskFields DEF Init
<1>2. ~mem[t].muted /\ Notified(mem[t]) = acked[t]
  BY <1>1, FirstRecordFields
<1> QED
  BY <1>1, <1>2 DEF Marked, ConfirmedIsNotified, RecordsDelivery

LEMMA NextConfirmedInv ==
    ASSUME ~WritesMayFail, ~MayCrash, RemindersUnmuted, ConfirmedInv, [Next]_vars
    PROVE  ConfirmedInv'
<1> USE DEF ConfirmedInv
<1> SUFFICES ASSUME NEW u \in Target
             PROVE  Marked(u)' /\ ConfirmedIsNotified(u)'
  BY NextHonestInv DEF KilledOutsideWindows
<1>1. ASSUME NEW t \in Target, CheckUrl(t)
      PROVE  Marked(u)' /\ ConfirmedIsNotified(u)'
  <2>1. CASE u = t
    BY <1>1, <2>1, StepMarks, StepNotified
  <2>2. CASE u # t
    <3>1. mem'[u] = mem[u] /\ task'[u] = task[u] /\ acked'[u] = acked[u]
      BY <1>1, <2>2, CheckUrlIsLocal DEF HonestInv, SavedInv
    <3> QED
      BY <3>1 DEF Marked, ConfirmedIsNotified, RecordsDelivery, Notified
  <2> QED
    BY <2>1, <2>2
<1>2. ASSUME StartRound \/ FinishRound
      PROVE  Marked(u)' /\ ConfirmedIsNotified(u)'
  <2>1. /\ mem' = mem /\ acked' = acked
        /\ task'[u].at \in {"probe", "idle"} /\ task'[u].site = "none"
    BY <1>2, NewTaskFields
    DEF StartRound, FinishRound, Gone, operator, HonestInv, SavedInv, Saved
  <2>2. ~RecordsDelivery(u)
    BY <1>2 DEF StartRound, FinishRound, RecordsDelivery, HonestInv, SavedInv,
                Orderly
  <2> QED
    BY <2>1, <2>2 DEF Marked, ConfirmedIsNotified, RecordsDelivery, Notified
<1>3. ASSUME UNCHANGED <<mem, task, acked>>
      PROVE  Marked(u)' /\ ConfirmedIsNotified(u)'
  BY <1>3 DEF Marked, ConfirmedIsNotified, RecordsDelivery, Notified
<1> QED
  BY <1>1, <1>2, <1>3, StepCases DEF TargetChanges, operator, Crash

-----------------------------------------------------------------------------
(*                   Each message fits the one before it                   *)

\* An alert that is owed while the target is up closes something: a catch-up
\* notice, or a problem whose delivery was confirmed.
ClosureOwed(record) ==
    record.status = "UP" /\ record.pending
        => record.missed # 0 \/ Notified(record) \in {"DOWN", "DEGRADED"}

\* The message on its way fits the record it is about and the message before.
MessageFits(t) ==
    /\ ClosureOwed(mem[t])
    /\ task[t].at \in {"funnel", "send"} =>
          /\ task[t].kind = "RECOVERY" =>
                /\ mem[t].status = "UP" /\ acked[t] # "UP"
                /\ PERFORMANCE_RECOVERY_CONFIRMATIONS > 1 => acked[t] = "DOWN"
          /\ task[t].kind = "PERFORMANCE_RECOVERY" =>
                mem[t].status = "UP" /\ acked[t] = "DEGRADED"
          /\ task[t].kind = "FAILURE" => mem[t].status = "DOWN"
          /\ task[t].kind = "UNANNOUNCED_OUTAGE" =>
                mem[t].missed # 0 /\ mem[t].status # "DOWN"

\* The alert a healthy observation asks for, and what it presupposes. A record
\* of an older version that says DEGRADED has no notification_status yet: its
\* recovery would be of the wrong kind, were one healthy run enough for it.
LEMMA HealthyAlertFits ==
    ASSUME NEW old \in Record, NEW s \in {"UP", "DEGRADED"}, NEW fresh \in BOOLEAN,
           ClosureOwed(old), AlertDue(old, s, fresh)
    PROVE  /\ s = "UP" => \/ MissedOutage(old) # 0
                          \/ Notified(old) \in {"DOWN", "DEGRADED"}
           /\ HealthyKind(old, s) = "UNANNOUNCED_OUTAGE" => MissedOutage(old) # 0
           /\ HealthyKind(old, s) = "PERFORMANCE_RECOVERY" =>
                 s = "UP" /\ Notified(old) = "DEGRADED"
           /\ HealthyKind(old, s) = "RECOVERY" =>
                 /\ s = "UP" /\ Notified(old) # "UP"
                 /\ PERFORMANCE_RECOVERY_CONFIRMATIONS > 1 => Notified(old) = "DOWN"
           /\ HealthyKind(old, s) # "FAILURE"
<1>1. Notified(old) \in Status
  BY NotifiedType
<1>2. s = "UP" => \/ MissedOutage(old) # 0
                  \/ Notified(old) \in {"DOWN", "DEGRADED"}
  BY DEF AlertDue, ClosureOwed, MissedOutage
<1>3. old.notified = "DEGRADED" => Notified(old) = "DEGRADED"
  BY DEF Notified, Status
<1>4. ASSUME HealthyKind(old, s) = "RECOVERY", PERFORMANCE_RECOVERY_CONFIRMATIONS > 1
      PROVE  Notified(old) = "DOWN"
  <2>1. s = "UP" /\ MissedOutage(old) = 0 /\ old.notified # "DEGRADED"
    BY <1>4 DEF HealthyKind
  <2>2. Notified(old) = "DEGRADED" => old.status = "DEGRADED" /\ ~old.pending
    BY <2>1 DEF Notified, Status
  <2>3. old.status = "DEGRADED" => HealthyRuns(old, s, fresh) = 1
    BY <2>1 DEF HealthyRuns, Streak
  <2>4. ~(HealthyRuns(old, s, fresh) >= PERFORMANCE_RECOVERY_CONFIRMATIONS
             /\ Notified(old) = "DEGRADED")
    BY <1>4, <2>2, <2>3, ConfirmationsAssumption
  <2>5. CASE old.pending /\ old.status = s
    BY <1>2, <2>1, <2>2, <2>5
  <2> QED
    BY <2>1, <2>4, <2>5 DEF AlertDue
<1> QED
  BY <1>1, <1>2, <1>3, <1>4 DEF HealthyKind, Status

\* A step that changes neither the status, nor what was confirmed, nor what is
\* missed, and arms nothing, leaves the closure owed.
LEMMA ClosureKept ==
    ASSUME NEW old, NEW new, ClosureOwed(old),
           new.status = old.status, new.missed = old.missed,
           new.pending => old.pending, Notified(new) = Notified(old)
    PROVE  ClosureOwed(new)
  BY DEF ClosureOwed

LEMMA StepFits ==
    ASSUME ConfirmedInv, NEW t \in Target, MessageFits(t), CheckUrl(t)
    PROVE  MessageFits(t)'
<1>0. /\ TypeInv /\ mem[t] \in Record /\ task[t] \in Task
      /\ health[t] \in Status /\ outage[t] \in Nat
      /\ Accounted(t) /\ Marked(t) /\ ConfirmedIsNotified(t)
      /\ ~Dispatch(t) => acked'[t] = acked[t]
  BY OnlyDispatchTells
  DEF ConfirmedInv, HonestInv, SavedInv, OutageInv, TypeInv, TypeOK, operator
<1>a. \A new : new.notified \in Status => Notified(new) = new.notified
  BY DEF Notified
<1>b. Notified(mem[t]) \in Status
  BY <1>0, NotifiedType
<1>c. ClosureOwed(mem[t])
  BY DEF MessageFits
<1>d. task[t].at \notin {"idle", "probe"} => mem[t].notified \in Status
  BY <1>0 DEF ConfirmedIsNotified
<1>1. CASE ObserveHealthy(t)
  <2>1. PICK fresh \in BOOLEAN :
           LET due == AlertDue(mem[t], health[t], fresh) IN
           /\ mem'[t] = SetHealthy(mem[t], health[t], fresh)
           /\ task'[t].at = IF due THEN "funnel"
                            ELSE IF health[t] = "UP" THEN "done" ELSE "announce"
           /\ task'[t].kind = IF due THEN HealthyKind(mem[t], health[t])
                                     ELSE "none"
    BY <1>0, <1>1, ObserveHealthyDoes
  <2>2. /\ health[t] \in {"UP", "DEGRADED"} /\ task[t].at = "probe"
        /\ acked'[t] = acked[t]
    BY <1>0, <1>1 DEF ObserveHealthy, Dispatch
  <2>3. /\ mem'[t].status = health[t]
        /\ mem'[t].pending = AlertDue(mem[t], health[t], fresh)
        /\ mem'[t].notified = Notified(mem[t])
        /\ mem'[t].missed = MissedOutage(mem[t])
    BY <1>0, <2>1, SetHealthyFields
  <2>4. Notified(mem'[t]) = Notified(mem[t]) /\ acked[t] = Notified(mem[t])
    BY <1>0, <1>a, <1>b, <2>2, <2>3 DEF ConfirmedIsNotified, RecordsDelivery
  <2>5. CASE AlertDue(mem[t], health[t], fresh)
    BY <1>0, <1>c, <2>1, <2>2, <2>3, <2>4, <2>5, HealthyAlertFits
    DEF MessageFits, ClosureOwed
  <2>6. CASE ~AlertDue(mem[t], health[t], fresh)
    BY <2>1, <2>3, <2>6 DEF MessageFits, ClosureOwed
  <2> QED
    BY <2>5, <2>6
<1>2. CASE ObserveDown(t)
  <2>1. /\ mem'[t] = SetDown(mem[t], outage[t])
        /\ DownAlertDue(mem[t]) => task'[t].kind = "FAILURE"
        /\ ~DownAlertDue(mem[t]) => task'[t].kind = "none"
    BY <1>0, <1>2, ObserveDownDoes
  <2>2. CASE HeldByHysteresis(mem[t])
    <3>1. /\ mem'[t].status = mem[t].status /\ mem[t].status # "DOWN"
          /\ mem'[t].pending = mem[t].pending
          /\ mem'[t].missed = mem[t].missed
          /\ mem'[t].notified = Notified(mem[t])
      BY <1>0, <2>1, <2>2, SetDownHeldFields DEF HeldByHysteresis
    <3>2. ~DownAlertDue(mem[t])
      BY <2>2, <3>1 DEF DownAlertDue
    <3>3. ClosureOwed(mem'[t])
      BY <1>a, <1>b, <1>c, <3>1, ClosureKept
    <3> QED
      BY <2>1, <3>2, <3>3 DEF MessageFits
  <2>3. CASE ~HeldByHysteresis(mem[t])
    <3>1. mem'[t].status = "DOWN"
      BY <1>0, <2>1, <2>3, SetDownFields
    <3> QED
      BY <2>1, <3>1 DEF MessageFits, ClosureOwed
  <2> QED
    BY <2>2, <2>3
<1>3. CASE ClaimReminder(t)
  <2>1. PICK due : mem'[t] = [mem[t] EXCEPT !.remind = due]
    BY <1>0, <1>3, ClaimReminderDoes
  <2>2. /\ mem'[t].status = "DOWN" /\ task'[t].kind = "STILL_DOWN"
    BY <1>0, <1>3, <2>1, ClaimReminderDoes DEF Record
  <2> QED
    BY <2>2 DEF MessageFits, ClosureOwed
<1>4. CASE SkipReminder(t)
  BY <1>0, <1>c, <1>4, SkipReminderDoes DEF MessageFits
<1>5. CASE AnnounceIfOwed(t)
  BY <1>0, <1>c, <1>5, AnnounceIfOwedDoes DEF MessageFits
<1>6. CASE Mute(t)
  <2>1. /\ task[t].at = "funnel"
        /\ \/ mem'[t] = mem[t]
           \/ mem'[t] = [mem[t] EXCEPT !.pending = FALSE]
        /\ task'[t].at \in {"done", "settle"}
    BY <1>0, <1>6, MuteDoes DEF Mute
  <2>2. /\ mem'[t].status = mem[t].status /\ mem'[t].missed = mem[t].missed
        /\ mem'[t].notified = mem[t].notified
        /\ mem'[t].pending => mem[t].pending
    BY <1>0, <2>1 DEF Record
  <2>3. ClosureOwed(mem'[t])
    BY <1>a, <1>c, <1>d, <2>1, <2>2, ClosureKept
  <2> QED
    BY <2>1, <2>3 DEF MessageFits
<1>7. CASE Unmuted(t)
  <2>1. /\ UNCHANGED mem /\ acked'[t] = acked[t] /\ task[t].at = "funnel"
        /\ task'[t].kind = task[t].kind
    BY <1>0, <1>7, UnmutedDoes DEF Unmuted, Dispatch
  <2> QED
    BY <1>c, <2>1 DEF MessageFits
<1>8. CASE Dispatch(t)
  <2>1. UNCHANGED mem /\ task'[t].at \in {"record", "done", "settle"}
    BY <1>0, <1>8, DispatchDoes
  <2> QED
    BY <1>c, <2>1 DEF MessageFits
<1>9. CASE RecordOutcome(t)
  <2>1. /\ mem'[t] = AlertOutcome(mem[t], task[t].outcome = "DELIVERED")
        /\ task[t].at = "record" /\ task'[t].at \in {"done", "settle"}
    BY <1>0, <1>9, RecordOutcomeDoes DEF RecordOutcome
  <2> DEFINE delivered == task[t].outcome = "DELIVERED"
  <2>2. delivered \in BOOLEAN /\ mem'[t] = AlertOutcome(mem[t], delivered)
    BY <2>1
  <2>3. mem[t].pending \/ mem[t].muted
    <3>1. InFlight(t) /\ task[t].kind \in StatusKind
      BY <1>0, <2>1 DEF Accounted, SiteKnows, InFlight
    <3> QED
      BY <3>1 DEF ConfirmedInv, HonestInv, SavedInv, ObligationInv, OwedInMemory
  <2> HIDE DEF delivered
  <2>4. /\ mem'[t].status = mem[t].status
        /\ mem'[t].pending = ~delivered
        /\ ~delivered => mem'[t].missed = mem[t].missed
                         /\ mem'[t].notified = mem[t].notified
    BY <1>0, <1>d, <2>1, <2>2, AlertOutcomeFields
  <2>5. CASE delivered
    BY <2>1, <2>4, <2>5 DEF MessageFits, ClosureOwed
  <2>6. CASE ~delivered
    <3>1. mem[t].status = "UP" => mem[t].pending
      BY <1>0, <2>3 DEF Marked
    <3>2. ClosureOwed(mem'[t])
      BY <1>a, <1>c, <1>d, <2>1, <2>4, <2>6, <3>1 DEF ClosureOwed
    <3> QED
      BY <2>1, <3>2 DEF MessageFits
  <2> QED
    BY <2>5, <2>6
<1>10. CASE Settle(t)
  <2>1. /\ task[t].at = "settle" /\ task'[t].at = "done"
        /\ mem'[t].status = mem[t].status /\ mem'[t].missed = mem[t].missed
        /\ mem'[t].notified = mem[t].notified
        /\ mem'[t].pending = mem[t].pending
    BY <1>0, <1>10, SettleDoes DEF Settle
  <2>2. ClosureOwed(mem'[t])
    BY <1>a, <1>c, <1>d, <2>1, ClosureKept
  <2> QED
    BY <2>1, <2>2 DEF MessageFits
<1> QED
  BY <1>1, <1>2, <1>3, <1>4, <1>5, <1>6, <1>7, <1>8, <1>9, <1>10 DEF CheckUrl

FitsInv == ConfirmedInv /\ \A t \in Target : MessageFits(t)

LEMMA InitFitsInv == Init => FitsInv
<1> SUFFICES ASSUME Init, NEW t \in Target
             PROVE  MessageFits(t)
  BY InitConfirmedInv DEF FitsInv
<1>1. /\ task[t].at = "idle"
      /\ disk[t] \in FirstRecord(t) /\ mem[t] = disk[t]
  BY NewTaskFields DEF Init
<1>2. mem[t].pending => mem[t].status = "DOWN"
  BY <1>1, FirstRecordFields
<1> QED
  BY <1>1, <1>2 DEF MessageFits, ClosureOwed

LEMMA NextFitsInv ==
    ASSUME ~WritesMayFail, ~MayCrash, RemindersUnmuted, FitsInv, [Next]_vars
    PROVE  FitsInv'
<1> USE DEF FitsInv
<1> SUFFICES ASSUME NEW u \in Target
             PROVE  MessageFits(u)'
  BY NextConfirmedInv
<1>1. ASSUME NEW t \in Target, CheckUrl(t)
      PROVE  MessageFits(u)'
  <2>1. CASE u = t
    BY <1>1, <2>1, StepFits
  <2>2. CASE u # t
    <3>1. mem'[u] = mem[u] /\ task'[u] = task[u] /\ acked'[u] = acked[u]
      BY <1>1, <2>2, CheckUrlIsLocal DEF ConfirmedInv, HonestInv, SavedInv
    <3> QED
      BY <3>1 DEF MessageFits, ClosureOwed, Notified
  <2> QED
    BY <2>1, <2>2
<1>2. ASSUME StartRound \/ FinishRound
      PROVE  MessageFits(u)'
  <2>1. mem' = mem /\ task'[u].at \in {"probe", "idle"}
    BY <1>2, NewTaskFields
    DEF StartRound, FinishRound, Gone, ConfirmedInv, HonestInv, SavedInv, Saved
  <2> QED
    BY <2>1 DEF MessageFits, ClosureOwed, Notified
<1>3. ASSUME UNCHANGED <<mem, task, acked>>
      PROVE  MessageFits(u)'
  BY <1>3 DEF MessageFits, ClosureOwed, Notified
<1> QED
  BY <1>1, <1>2, <1>3, StepCases DEF TargetChanges, operator, Crash

\* No recovery is sent unless the problem it closes is the last status that was
\* confirmed: for any number of targets, whatever their windows, gaps and dead
\* channels do. One healthy run must not be enough to confirm a performance
\* recovery, which only matters for a DEGRADED record that an older version
\* left (status_alert, recovery_kind, _performance_decision).
THEOREM ClosureTrue ==
    /\ ~WritesMayFail /\ ~MayCrash /\ RemindersUnmuted
    /\ PERFORMANCE_RECOVERY_CONFIRMATIONS > 1
    => (Spec => []ClosureHasOpening)
<1> SUFFICES ASSUME ~WritesMayFail, ~MayCrash, RemindersUnmuted,
                    PERFORMANCE_RECOVERY_CONFIRMATIONS > 1
             PROVE  Spec => []ClosureHasOpening
  OBVIOUS
<1>1. FitsInv /\ [Next]_vars => FitsInv'
  BY NextFitsInv
<1>2. FitsInv => ClosureHasOpening
  BY DEF FitsInv, MessageFits, ClosureHasOpening, InFlight
<1> QED
  BY <1>1, <1>2, InitFitsInv, PTL DEF Spec

-----------------------------------------------------------------------------
(*                 Nothing confirmed is told a second time                 *)

\* The outages that were confirmed, or that the record names.
Known(t) == ackedOf[t] \union {mem[t].missed}
            \union (IF mem[t].status = "DOWN" THEN {mem[t].since} ELSE {})

\* An outage that no probe has confirmed yet is not among them.
KnownInOrder(t) ==
    /\ \A id \in Known(t) : id <= outage[t]
    /\ health[t] = "DOWN" /\ mem[t].status # "DOWN" =>
          \A id \in Known(t) : id < outage[t]
    /\ 0 \notin ackedOf[t]
    /\ mem[t].status = "DOWN" => mem[t].missed = 0

\* An outage that is owed, as a FAILURE, as a mute on record or as a catch-up
\* notice, is one of which nothing was confirmed, but for the delivery that
\* is about to be recorded.
OwedIsUnconfirmed(t) ==
    /\ mem[t].missed \in ackedOf[t] => RecordsDelivery(t)
    /\ mem[t].status = "DOWN" /\ mem[t].since \in ackedOf[t] =>
          \/ task[t].at \in {"record", "settle"} /\ task[t].outcome = "DELIVERED"
          \/ Notified(mem[t]) = "DOWN" /\ ~mem[t].pending /\ ~mem[t].muted
    /\ Muting(t) /\ mem[t].status = "DOWN" => mem[t].since \notin ackedOf[t]
    /\ task[t].at = "settle" /\ task[t].outcome = "DELIVERED" => ~mem[t].pending

ConfirmedOfInv == FitsInv /\ \A t \in Target : KnownInOrder(t) /\ OwedIsUnconfirmed(t)

\* What ConfirmedOfInv says of one target, for the steps of its coroutine.
LEMMA ConfirmedOfFacts ==
    ASSUME ConfirmedOfInv, NEW t \in Target
    PROVE  /\ TypeInv /\ mem[t] \in Record /\ task[t] \in Task
           /\ health[t] \in Status /\ outage[t] \in Nat
           /\ ackedOf[t] \subseteq Nat
           /\ mem[t].since \in Nat /\ mem[t].missed \in Nat
           /\ SiteKnows(t) /\ OutcomeTrue(t) /\ Marked(t) /\ ConfirmedIsNotified(t)
           /\ MessageFits(t) /\ KnownInOrder(t) /\ OwedIsUnconfirmed(t)
           /\ mem[t].status = "DOWN" => mem[t].since # 0
           /\ InFlight(t) /\ task[t].kind \in StatusKind
                 => mem[t].pending \/ mem[t].muted
<1>1. TypeInv /\ OutagesDated /\ OwedInMemory
  BY DEF ConfirmedOfInv, FitsInv, ConfirmedInv, HonestInv, SavedInv, OutageInv, ObligationInv
<1>2. /\ mem[t] \in Record /\ task[t] \in Task
      /\ health[t] \in Status /\ outage[t] \in Nat
      /\ ackedOf[t] \subseteq Nat
  BY <1>1 DEF TypeInv, TypeOK
<1>3. mem[t].since \in Nat /\ mem[t].missed \in Nat
  BY <1>2 DEF Record
<1>4. /\ SiteKnows(t) /\ OutcomeTrue(t) /\ Marked(t) /\ ConfirmedIsNotified(t)
      /\ MessageFits(t) /\ KnownInOrder(t) /\ OwedIsUnconfirmed(t)
  BY DEF ConfirmedOfInv, FitsInv, ConfirmedInv, HonestInv, Accounted
<1>5. mem[t].status = "DOWN" => mem[t].since # 0
  BY <1>1 DEF OutagesDated, Dated
<1> QED
  BY <1>1, <1>2, <1>3, <1>4, <1>5 DEF OwedInMemory

LEMMA InitConfirmedOfInv == Init => ConfirmedOfInv
<1> SUFFICES ASSUME Init, NEW t \in Target
             PROVE  KnownInOrder(t) /\ OwedIsUnconfirmed(t)
  BY InitFitsInv DEF ConfirmedOfInv
<1>1. /\ task[t].at = "idle"
      /\ disk[t] \in FirstRecord(t) /\ mem[t] = disk[t]
      /\ acked[t] = ToldBefore(disk[t])
      /\ ackedOf[t] = IF acked[t] = "DOWN" THEN {disk[t].since} ELSE {}
      /\ outage[t] = IF "DOWN" \in {health[t], disk[t].status} THEN 1 ELSE 0
  BY NewTaskFields DEF Init
<1>2. /\ ~mem[t].muted /\ mem[t].missed = 0
      /\ mem[t].status = "DOWN" => mem[t].since = 1
      /\ Notified(mem[t]) = acked[t]
  BY <1>1, FirstRecordFields
<1>3. acked[t] = "DOWN" => mem[t].status = "DOWN" /\ ~mem[t].pending
  BY <1>1 DEF ToldBefore
<1>4. ackedOf[t] = IF acked[t] = "DOWN" THEN {1} ELSE {}
  BY <1>1, <1>2, <1>3
<1>5. KnownInOrder(t)
  BY <1>1, <1>2, <1>3, <1>4 DEF KnownInOrder, Known
<1>6. OwedIsUnconfirmed(t)
  BY <1>1, <1>2, <1>3, <1>4 DEF OwedIsUnconfirmed, Muting
<1> QED
  BY <1>5, <1>6

\* A step after which the record names nothing new, and no one confirmed anything
\* but an outage that was known.
LEMMA KnownKept ==
    ASSUME NEW t \in Target, KnownInOrder(t), Known(t)' \subseteq Known(t),
           health'[t] = health[t], outage'[t] = outage[t],
           mem'[t].status = mem[t].status, mem'[t].missed = mem[t].missed,
           0 \notin ackedOf'[t]
    PROVE  KnownInOrder(t)'
  BY DEF KnownInOrder

LEMMA StepKnown ==
    ASSUME ConfirmedOfInv, NEW t \in Target, CheckUrl(t)
    PROVE  KnownInOrder(t)'
<1>0. /\ TypeInv /\ mem[t] \in Record /\ task[t] \in Task
      /\ health[t] \in Status /\ outage[t] \in Nat
      /\ ackedOf[t] \subseteq Nat
      /\ mem[t].since \in Nat /\ mem[t].missed \in Nat
      /\ MessageFits(t) /\ KnownInOrder(t)
      /\ mem[t].status = "DOWN" => mem[t].since # 0
  BY ConfirmedOfFacts
<1>a. health' = health /\ outage' = outage
  BY CheckUrlIsLocal
  DEF ConfirmedOfInv, FitsInv, ConfirmedInv, HonestInv, SavedInv
<1>b. ~Dispatch(t) => ackedOf'[t] = ackedOf[t]
  BY OnlyDispatchTells DEF operator
<1>1. CASE ObserveHealthy(t)
  <2>1. PICK fresh \in BOOLEAN :
           mem'[t] = SetHealthy(mem[t], health[t], fresh)
    BY <1>0, <1>1, ObserveHealthyDoes
  <2>2. /\ mem'[t].status = health[t] /\ mem'[t].missed = MissedOutage(mem[t])
        /\ health[t] \in {"UP", "DEGRADED"} /\ ackedOf'[t] = ackedOf[t]
    BY <1>0, <1>1, <1>b, <2>1, SetHealthyFields DEF ObserveHealthy, Dispatch
  <2>3. MissedOutage(mem[t]) \in Known(t) \union {0}
    BY DEF MissedOutage, Known
  <2>4. Known(t)' \subseteq Known(t) \union {0}
    BY <2>2, <2>3 DEF Known
  <2> QED
    BY <1>0, <1>a, <2>2, <2>4 DEF KnownInOrder
<1>2. CASE ObserveDown(t)
  <2>1. /\ mem'[t] = SetDown(mem[t], outage[t])
        /\ ackedOf'[t] = ackedOf[t] /\ health[t] = "DOWN"
    BY <1>0, <1>2, <1>b, ObserveDownDoes DEF ObserveDown, Dispatch
  <2>2. CASE HeldByHysteresis(mem[t])
    <3>1. /\ mem'[t].status = mem[t].status /\ mem[t].status # "DOWN"
          /\ mem'[t].missed = mem[t].missed
      BY <1>0, <2>1, <2>2, SetDownHeldFields DEF HeldByHysteresis
    <3>2. Known(t)' \subseteq Known(t)
      BY <2>1, <3>1 DEF Known
    <3> QED
      BY <1>0, <1>a, <2>1, <3>1, <3>2, KnownKept DEF KnownInOrder
  <2>3. CASE ~HeldByHysteresis(mem[t])
    <3>1. /\ mem'[t].status = "DOWN" /\ mem'[t].missed = 0
          /\ mem'[t].since = IF mem[t].status = "DOWN" THEN mem[t].since
                                                       ELSE outage[t]
      BY <1>0, <2>1, <2>3, SetDownFields
    <3>2. Known(t)' \subseteq Known(t) \union {0, outage[t]}
      BY <2>1, <3>1 DEF Known
    <3> QED
      BY <1>0, <1>a, <2>1, <3>1, <3>2 DEF KnownInOrder
  <2> QED
    BY <2>2, <2>3
<1>3. CASE ClaimReminder(t)
  <2>1. PICK due : mem'[t] = [mem[t] EXCEPT !.remind = due]
    BY <1>0, <1>3, ClaimReminderDoes
  <2>2. /\ mem'[t].status = mem[t].status /\ mem'[t].missed = mem[t].missed
        /\ mem'[t].since = mem[t].since /\ ackedOf'[t] = ackedOf[t]
    BY <1>0, <1>3, <1>b, <2>1 DEF Record, ClaimReminder, Dispatch
  <2>3. Known(t)' \subseteq Known(t)
    BY <2>2 DEF Known
  <2> QED
    BY <1>0, <1>a, <2>2, <2>3, KnownKept DEF KnownInOrder
<1>4. CASE SkipReminder(t) \/ AnnounceIfOwed(t) \/ Unmuted(t)
  <2>1. UNCHANGED mem /\ ackedOf'[t] = ackedOf[t]
    BY <1>0, <1>4, <1>b, SkipReminderDoes, AnnounceIfOwedDoes, UnmutedDoes
    DEF SkipReminder, AnnounceIfOwed, Unmuted, Dispatch
  <2> QED
    BY <1>0, <1>a, <2>1 DEF KnownInOrder, Known
<1>5. CASE Mute(t)
  <2>1. /\ ackedOf'[t] = ackedOf[t]
        /\ \/ mem'[t] = mem[t]
           \/ mem'[t] = [mem[t] EXCEPT !.pending = FALSE]
    BY <1>0, <1>5, <1>b, MuteDoes DEF Mute, Dispatch
  <2>2. /\ mem'[t].status = mem[t].status /\ mem'[t].missed = mem[t].missed
        /\ mem'[t].since = mem[t].since
    BY <1>0, <2>1 DEF Record
  <2>3. Known(t)' \subseteq Known(t)
    BY <2>1, <2>2 DEF Known
  <2> QED
    BY <1>0, <1>a, <2>1, <2>2, <2>3, KnownKept DEF KnownInOrder
<1>6. CASE Dispatch(t)
  <2>1. /\ UNCHANGED mem /\ task[t].at = "send"
        /\ \/ ackedOf'[t] = ackedOf[t]
           \/ ackedOf'[t] = ackedOf[t]
                \union (IF mem[t].status = "DOWN" THEN {mem[t].since} ELSE {})
                \union (IF task[t].kind = "UNANNOUNCED_OUTAGE"
                        THEN {mem[t].missed} ELSE {})
    BY <1>0, <1>6, DispatchDoes DEF Dispatch, Subject
  <2>2. Known(t)' \subseteq Known(t)
    BY <2>1 DEF Known
  <2>3. task[t].kind = "UNANNOUNCED_OUTAGE" => mem[t].missed # 0
    BY <1>0, <2>1 DEF MessageFits
  <2>4. 0 \notin ackedOf'[t]
    BY <1>0, <2>1, <2>3 DEF KnownInOrder
  <2> QED
    BY <1>0, <1>a, <2>1, <2>2, <2>4, KnownKept
<1>7. CASE RecordOutcome(t)
  <2>1. /\ mem'[t] = AlertOutcome(mem[t], task[t].outcome = "DELIVERED")
        /\ ackedOf'[t] = ackedOf[t]
    BY <1>0, <1>7, <1>b, RecordOutcomeDoes DEF RecordOutcome, Dispatch
  <2>2. /\ mem'[t].status = mem[t].status /\ mem'[t].since = mem[t].since
        /\ mem'[t].missed \in {0, mem[t].missed}
    <3> DEFINE delivered == task[t].outcome = "DELIVERED"
    <3>1. delivered \in BOOLEAN /\ mem'[t] = AlertOutcome(mem[t], delivered)
      BY <2>1
    <3> HIDE DEF delivered
    <3> QED
      BY <1>0, <3>1, AlertOutcomeFields
  <2>3. Known(t)' \subseteq Known(t) \union {0}
    BY <2>1, <2>2 DEF Known
  <2>4. health[t] = "DOWN" /\ mem[t].status # "DOWN" => 0 < outage[t]
    BY <1>0 DEF KnownInOrder, Known
  <2> QED
    BY <1>0, <1>a, <2>1, <2>2, <2>3, <2>4 DEF KnownInOrder
<1>8. CASE Settle(t)
  <2>1. /\ mem'[t].status = mem[t].status /\ mem'[t].missed = mem[t].missed
        /\ mem'[t].since = mem[t].since /\ ackedOf'[t] = ackedOf[t]
    BY <1>0, <1>8, <1>b, SettleDoes DEF Settle, Dispatch
  <2>2. Known(t)' \subseteq Known(t)
    BY <2>1 DEF Known
  <2> QED
    BY <1>0, <1>a, <2>1, <2>2, KnownKept DEF KnownInOrder
<1> QED
  BY <1>1, <1>2, <1>3, <1>4, <1>5, <1>6, <1>7, <1>8 DEF CheckUrl

\* A step before the dispatch that keeps what is owed, and hears nothing.
LEMMA UnheardKept ==
    ASSUME NEW t \in Target, OwedIsUnconfirmed(t), ackedOf'[t] = ackedOf[t],
           task[t].at \notin {"record", "settle"},
           task'[t].at \notin {"record", "settle"},
           mem'[t].status = mem[t].status, mem'[t].missed = mem[t].missed,
           mem'[t].since = mem[t].since, Notified(mem'[t]) = Notified(mem[t]),
           mem'[t].pending => mem[t].pending, mem'[t].muted => mem[t].muted
    PROVE  OwedIsUnconfirmed(t)'
  BY DEF OwedIsUnconfirmed, Muting, RecordsDelivery

LEMMA StepUnheard ==
    ASSUME ConfirmedOfInv, NEW t \in Target, CheckUrl(t)
    PROVE  OwedIsUnconfirmed(t)'
<1>0. /\ TypeInv /\ mem[t] \in Record /\ task[t] \in Task
      /\ health[t] \in Status /\ outage[t] \in Nat
      /\ ackedOf[t] \subseteq Nat
      /\ mem[t].since \in Nat /\ mem[t].missed \in Nat
      /\ SiteKnows(t) /\ OutcomeTrue(t) /\ Marked(t) /\ ConfirmedIsNotified(t)
      /\ KnownInOrder(t) /\ OwedIsUnconfirmed(t)
      /\ InFlight(t) /\ task[t].kind \in StatusKind
            => mem[t].pending \/ mem[t].muted
  BY ConfirmedOfFacts
<1>a. \A new : new.notified \in Status => Notified(new) = new.notified
  BY DEF Notified
<1>b. Notified(mem[t]) \in Status
  BY <1>0, NotifiedType
<1>c. task[t].at \notin {"idle", "probe"} => mem[t].notified \in Status
  BY <1>0 DEF ConfirmedIsNotified
<1>d. ~Dispatch(t) => ackedOf'[t] = ackedOf[t]
  BY OnlyDispatchTells DEF operator
<1>1. CASE ObserveHealthy(t)
  <2>1. PICK fresh \in BOOLEAN :
           LET due == AlertDue(mem[t], health[t], fresh) IN
           /\ mem'[t] = SetHealthy(mem[t], health[t], fresh)
           /\ task'[t].at = IF due THEN "funnel"
                            ELSE IF health[t] = "UP" THEN "done" ELSE "announce"
    BY <1>0, <1>1, ObserveHealthyDoes
  <2>2. /\ mem'[t].status \in {"UP", "DEGRADED"}
        /\ mem'[t].missed = MissedOutage(mem[t])
        /\ task[t].at = "probe" /\ ackedOf'[t] = ackedOf[t]
    BY <1>0, <1>1, <1>d, <2>1, SetHealthyFields DEF ObserveHealthy, Dispatch
  <2>3. MissedOutage(mem[t]) \notin ackedOf[t]
    BY <1>0, <2>2 DEF MissedOutage, OwedIsUnconfirmed, RecordsDelivery, KnownInOrder
  <2> QED
    BY <2>1, <2>2, <2>3 DEF OwedIsUnconfirmed, Muting
<1>2. CASE ObserveDown(t)
  <2>1. /\ mem'[t] = SetDown(mem[t], outage[t])
        /\ task'[t].at \in {"funnel", "remind", "announce", "done"}
    BY <1>0, <1>2, ObserveDownDoes
  <2>2. task[t].at = "probe" /\ ackedOf'[t] = ackedOf[t] /\ health[t] = "DOWN"
    BY <1>2, <1>d DEF ObserveDown, Dispatch
  <2>3. CASE HeldByHysteresis(mem[t])
    <3>1. /\ mem'[t].status = mem[t].status /\ mem[t].status # "DOWN"
          /\ mem'[t].missed = mem[t].missed
      BY <1>0, <2>1, <2>3, SetDownHeldFields DEF HeldByHysteresis
    <3> QED
      BY <1>0, <2>1, <2>2, <3>1 DEF OwedIsUnconfirmed, Muting, RecordsDelivery
  <2>4. CASE ~HeldByHysteresis(mem[t])
    <3>1. /\ mem'[t].status = "DOWN" /\ mem'[t].missed = 0
          /\ mem'[t].pending = DownAlertDue(mem[t])
          /\ mem'[t].muted = (mem[t].status = "DOWN" /\ mem[t].muted)
          /\ mem'[t].notified = Notified(mem[t])
          /\ mem'[t].since = IF mem[t].status = "DOWN" THEN mem[t].since
                                                       ELSE outage[t]
      BY <1>0, <2>1, <2>4, SetDownFields
    <3>2. 0 \notin ackedOf[t]
      BY <1>0 DEF KnownInOrder
    <3>3. mem[t].status # "DOWN" => outage[t] \notin ackedOf[t]
      BY <1>0, <2>2 DEF KnownInOrder, Known
    <3>4. ASSUME mem[t].status = "DOWN", mem[t].since \in ackedOf[t]
          PROVE  Notified(mem'[t]) = "DOWN" /\ ~mem'[t].pending /\ ~mem'[t].muted
      BY <1>0, <1>a, <1>b, <2>2, <3>1, <3>4 DEF OwedIsUnconfirmed, DownAlertDue
    <3> QED
      BY <2>1, <2>2, <3>1, <3>2, <3>3, <3>4 DEF OwedIsUnconfirmed, Muting
  <2> QED
    BY <2>3, <2>4
<1>3. CASE ClaimReminder(t)
  <2>1. PICK due : mem'[t] = [mem[t] EXCEPT !.remind = due]
    BY <1>0, <1>3, ClaimReminderDoes
  <2>2. /\ mem'[t].status = mem[t].status /\ mem'[t].missed = mem[t].missed
        /\ mem'[t].since = mem[t].since /\ mem'[t].notified = mem[t].notified
        /\ mem'[t].pending = mem[t].pending /\ mem'[t].muted = mem[t].muted
        /\ ackedOf'[t] = ackedOf[t] /\ task[t].at = "remind" /\ task'[t].at = "funnel"
    BY <1>0, <1>3, <1>d, <2>1, ClaimReminderDoes
    DEF Record, ClaimReminder, Dispatch
  <2> QED
    BY <1>0, <1>a, <1>c, <2>2, UnheardKept
<1>4. CASE SkipReminder(t) \/ AnnounceIfOwed(t) \/ Unmuted(t)
  <2>1. /\ UNCHANGED mem /\ ackedOf'[t] = ackedOf[t]
        /\ task[t].at \in {"remind", "announce", "funnel"}
        /\ task'[t].at \in {"announce", "funnel", "send", "done"}
    BY <1>0, <1>4, <1>d, SkipReminderDoes, AnnounceIfOwedDoes, UnmutedDoes
    DEF SkipReminder, AnnounceIfOwed, Unmuted, Dispatch
  <2> QED
    BY <1>0, <2>1, UnheardKept
<1>5. CASE Mute(t)
  <2>1. /\ task[t].at = "funnel" /\ ackedOf'[t] = ackedOf[t]
        /\ \/ mem'[t] = mem[t]
           \/ mem'[t] = [mem[t] EXCEPT !.pending = FALSE]
        /\ task'[t].at \in {"done", "settle"}
        /\ task'[t].site = task[t].site /\ task'[t].outcome = "MUTED"
    BY <1>0, <1>5, <1>d, MuteDoes DEF Mute, Dispatch
  <2>2. /\ mem'[t].status = mem[t].status /\ mem'[t].missed = mem[t].missed
        /\ mem'[t].since = mem[t].since /\ mem'[t].muted = mem[t].muted
        /\ mem'[t].notified = mem[t].notified
        /\ mem'[t].pending => mem[t].pending
    BY <1>0, <2>1 DEF Record
  <2>3. Notified(mem'[t]) = Notified(mem[t])
    BY <1>a, <1>c, <2>1, <2>2
  <2>4. task[t].site = "transition" => mem[t].pending \/ mem[t].muted
    BY <1>0, <2>1 DEF SiteKnows, InFlight
  <2> QED
    BY <1>0, <2>1, <2>2, <2>3, <2>4 DEF OwedIsUnconfirmed, Muting, RecordsDelivery
<1>6. CASE Dispatch(t)
  <2>1. /\ UNCHANGED mem /\ task[t].at = "send"
        /\ task'[t].at = IF task[t].kind \in StatusKind THEN "record"
                         ELSE IF task[t].site = "recovery" THEN "done"
                         ELSE "settle"
        /\ \/ /\ task'[t].outcome = "DELIVERED"
              /\ ackedOf'[t] = ackedOf[t]
                   \union (IF mem[t].status = "DOWN" THEN {mem[t].since} ELSE {})
                   \union (IF task[t].kind = "UNANNOUNCED_OUTAGE"
                           THEN {mem[t].missed} ELSE {})
           \/ task'[t].outcome = "UNDELIVERED" /\ ackedOf'[t] = ackedOf[t]
    BY <1>0, <1>6, DispatchDoes DEF Dispatch, Subject
  <2>2. ~RecordsDelivery(t) /\ InFlight(t)
    BY <2>1 DEF RecordsDelivery, InFlight
  <2>3. CASE task'[t].outcome = "UNDELIVERED"
    BY <1>0, <2>1, <2>2, <2>3 DEF OwedIsUnconfirmed, Muting
  <2>4. CASE task'[t].outcome = "DELIVERED" /\ task[t].kind \in StatusKind
    BY <1>0, <2>1, <2>4 DEF OwedIsUnconfirmed, RecordsDelivery, Muting
  <2>5. CASE task'[t].outcome = "DELIVERED" /\ task[t].kind \notin StatusKind
    <3>1. task[t].site = "reminder"
      BY <1>0, <2>2, <2>5 DEF SiteKnows
    <3>2. mem[t].status = "DOWN" /\ ~mem[t].pending /\ task'[t].at = "settle"
      BY <1>0, <2>1, <2>5, <3>1 DEF Marked
    <3>3. mem[t].missed = 0 /\ 0 \notin ackedOf'[t]
      <4>1. mem[t].missed = 0 /\ 0 \notin ackedOf[t] /\ mem[t].since # 0
        BY <3>2, ConfirmedOfFacts DEF KnownInOrder
      <4>2. task[t].kind # "UNANNOUNCED_OUTAGE"
        BY <2>5 DEF StatusKind
      <4> QED
        BY <2>1, <2>5, <4>1, <4>2
    <3> QED
      BY <2>1, <2>5, <3>2, <3>3 DEF OwedIsUnconfirmed, Muting
  <2> QED
    BY <2>1, <2>3, <2>4, <2>5
<1>7. CASE RecordOutcome(t)
  <2>1. /\ mem'[t] = AlertOutcome(mem[t], task[t].outcome = "DELIVERED")
        /\ ackedOf'[t] = ackedOf[t] /\ task[t].at = "record"
        /\ task'[t].at = IF task[t].site = "recovery" THEN "done" ELSE "settle"
        /\ task'[t].outcome = task[t].outcome
    BY <1>0, <1>7, <1>d, RecordOutcomeDoes DEF RecordOutcome, Dispatch
  <2>2. /\ mem[t].pending \/ mem[t].muted
        /\ task[t].site = "recovery" => mem[t].status = "UP"
        /\ task[t].outcome \in {"DELIVERED", "UNDELIVERED"}
    BY <1>0, <2>1 DEF SiteKnows, InFlight
  <2> DEFINE delivered == task[t].outcome = "DELIVERED"
  <2>3. delivered \in BOOLEAN /\ mem'[t] = AlertOutcome(mem[t], delivered)
    BY <2>1
  <2> HIDE DEF delivered
  <2>4. /\ mem'[t].status = mem[t].status /\ mem'[t].since = mem[t].since
        /\ mem'[t].pending = ~delivered
        /\ mem'[t].missed = IF delivered THEN 0 ELSE mem[t].missed
    BY <1>0, <2>3, AlertOutcomeFields
  <2>5. CASE delivered
    BY <1>0, <2>1, <2>2, <2>4, <2>5
    DEF OwedIsUnconfirmed, KnownInOrder, Muting, delivered
  <2>6. CASE ~delivered
    BY <1>0, <2>1, <2>2, <2>4, <2>6
    DEF OwedIsUnconfirmed, RecordsDelivery, Muting, delivered
  <2> QED
    BY <2>5, <2>6
<1>8. CASE Settle(t)
  <2>1. /\ task'[t].at = "done"
        /\ mem'[t].status = mem[t].status
        /\ mem'[t].pending = mem[t].pending
        /\ mem'[t].notified = mem[t].notified
        /\ mem'[t].missed = mem[t].missed
        /\ mem'[t].since = mem[t].since
        /\ \/ task[t].site = "transition"
              /\ mem'[t].muted = (task[t].outcome = "MUTED")
           \/ task[t].site = "announce"
              /\ mem'[t].muted = (mem[t].muted /\ task[t].outcome = "MUTED")
           \/ task[t].site = "reminder"
              /\ mem'[t].muted = (mem[t].muted /\ task[t].outcome # "DELIVERED")
    BY <1>0, <1>8, SettleDoes
  <2>2. /\ task[t].at = "settle" /\ ackedOf'[t] = ackedOf[t]
        /\ ~RecordsDelivery(t)
    BY <1>8, <1>d DEF Settle, Dispatch, RecordsDelivery
  <2>3. Notified(mem'[t]) = Notified(mem[t]) /\ acked[t] = Notified(mem[t])
    BY <1>0, <1>a, <1>c, <2>1, <2>2 DEF ConfirmedIsNotified
  <2>4. ASSUME mem[t].status = "DOWN", mem[t].since \in ackedOf[t]
        PROVE  Notified(mem[t]) = "DOWN" /\ ~mem[t].pending /\ ~mem'[t].muted
    <3>1. CASE task[t].outcome = "DELIVERED"
      BY <1>0, <2>1, <2>2, <2>3, <2>4, <3>1 DEF OutcomeTrue, OwedIsUnconfirmed
    <3>2. CASE task[t].outcome # "DELIVERED"
      BY <1>0, <2>1, <2>2, <2>4, <3>2 DEF OwedIsUnconfirmed, Muting
    <3> QED
      BY <3>1, <3>2
  <2> QED
    BY <1>0, <2>1, <2>2, <2>3, <2>4 DEF OwedIsUnconfirmed, Muting
<1> QED
  BY <1>1, <1>2, <1>3, <1>4, <1>5, <1>6, <1>7, <1>8 DEF CheckUrl

LEMMA NextConfirmedOfInv ==
    ASSUME ~WritesMayFail, ~MayCrash, RemindersUnmuted, ConfirmedOfInv, [Next]_vars
    PROVE  ConfirmedOfInv'
<1> SUFFICES ASSUME NEW u \in Target
             PROVE  KnownInOrder(u)' /\ OwedIsUnconfirmed(u)'
  BY NextFitsInv DEF ConfirmedOfInv
<1>0. /\ SavedInv /\ KnownInOrder(u) /\ OwedIsUnconfirmed(u)
      /\ ackedOf[u] \subseteq Nat /\ outage[u] \in Nat
      /\ mem[u].since \in Nat /\ mem[u].missed \in Nat
  BY ConfirmedOfFacts DEF ConfirmedOfInv, FitsInv, ConfirmedInv, HonestInv
<1>1. ASSUME NEW t \in Target, CheckUrl(t)
      PROVE  KnownInOrder(u)' /\ OwedIsUnconfirmed(u)'
  <2>1. CASE u = t
    BY <1>1, <2>1, StepKnown, StepUnheard
  <2>2. CASE u # t
    <3>1. /\ mem'[u] = mem[u] /\ task'[u] = task[u] /\ ackedOf'[u] = ackedOf[u]
          /\ UNCHANGED <<health, outage>>
      BY <1>0, <1>1, <2>2, CheckUrlIsLocal DEF SavedInv
    <3> QED
      BY <1>0, <3>1 DEF KnownInOrder, Known, OwedIsUnconfirmed, Muting,
                        RecordsDelivery, Notified
  <2> QED
    BY <2>1, <2>2
<1>2. ASSUME StartRound \/ FinishRound
      PROVE  KnownInOrder(u)' /\ OwedIsUnconfirmed(u)'
  <2>1. /\ mem' = mem /\ ackedOf' = ackedOf /\ UNCHANGED <<health, outage>>
        /\ task'[u].at \in {"probe", "idle"}
    BY <1>0, <1>2, NewTaskFields
    DEF StartRound, FinishRound, Gone, environment, operator, SavedInv, Saved
  <2>2. task[u].at \in {"idle", "done"}
    BY <1>0, <1>2 DEF StartRound, FinishRound, SavedInv, Orderly
  <2>3. KnownInOrder(u)'
    BY <1>0, <2>1 DEF KnownInOrder, Known
  <2>4. OwedIsUnconfirmed(u)'
    BY <1>0, <2>1, <2>2 DEF OwedIsUnconfirmed, Muting, RecordsDelivery, Notified
  <2> QED
    BY <2>3, <2>4
<1>3. ASSUME NEW t \in Target, TargetChanges(t)
      PROVE  KnownInOrder(u)' /\ OwedIsUnconfirmed(u)'
  <2>1. UNCHANGED <<mem, task, ackedOf>>
    BY <1>3 DEF TargetChanges, operator
  <2>2. \/ health'[u] = health[u] /\ outage'[u] = outage[u]
        \/ health'[u] # "DOWN" /\ outage'[u] = outage[u]
        \/ outage'[u] = outage[u] + 1
    BY <1>3 DEF TargetChanges, SavedInv, OutageInv, TypeInv, TypeOK, ConfirmedOfInv,
                FitsInv, ConfirmedInv, HonestInv
  <2>3. Known(u)' = Known(u) /\ \A id \in Known(u) : id \in Nat /\ id <= outage[u]
    BY <1>0, <2>1 DEF Known, KnownInOrder
  <2>4. KnownInOrder(u)'
    BY <1>0, <2>1, <2>2, <2>3 DEF KnownInOrder
  <2>5. OwedIsUnconfirmed(u)'
    BY <1>0, <2>1 DEF OwedIsUnconfirmed, Muting, RecordsDelivery, Notified
  <2> QED
    BY <2>4, <2>5
<1>4. ASSUME UNCHANGED <<health, outage, mem, task, ackedOf>>
      PROVE  KnownInOrder(u)' /\ OwedIsUnconfirmed(u)'
  BY <1>0, <1>4 DEF KnownInOrder, Known, OwedIsUnconfirmed, Muting,
                    RecordsDelivery, Notified
<1> QED
  BY <1>1, <1>2, <1>3, <1>4, StepCases DEF Crash, operator

\* The notice "nobody was told" is sent for outages of which no delivery was
\* confirmed, for any number of targets and outages (MissedOutage, status_alert).
THEOREM CatchUpTrue ==
    ~WritesMayFail /\ ~MayCrash /\ RemindersUnmuted
        => (Spec => []CatchUpUnconfirmed)
<1> SUFFICES ASSUME ~WritesMayFail, ~MayCrash, RemindersUnmuted
             PROVE  Spec => []CatchUpUnconfirmed
  OBVIOUS
<1>1. ConfirmedOfInv /\ [Next]_vars => ConfirmedOfInv'
  BY NextConfirmedOfInv
<1>2. ConfirmedOfInv => CatchUpUnconfirmed
  BY ConfirmedOfFacts DEF CatchUpUnconfirmed, OwedIsUnconfirmed, RecordsDelivery
<1> QED
  BY <1>1, <1>2, InitConfirmedOfInv, PTL DEF Spec

\* Nobody is paged again for what they were confirmed to have: a FAILURE, recovery
\* or catch-up notice is only attempted to say another status than the last one
\* confirmed, or to tell of an outage no delivery of which was, for any number of
\* targets, with their windows and reminders apart (_alert_unless_muted,
\* record_alert_outcome).
THEOREM NotRepeated ==
    ~WritesMayFail /\ ~MayCrash /\ RemindersUnmuted
        => (Spec => []ConfirmedNotRepeated)
<1> SUFFICES ASSUME ~WritesMayFail, ~MayCrash, RemindersUnmuted
             PROVE  Spec => []ConfirmedNotRepeated
  OBVIOUS
<1>1. ConfirmedOfInv /\ [Next]_vars => ConfirmedOfInv'
  BY NextConfirmedOfInv
<1>2. ConfirmedOfInv => ConfirmedNotRepeated
  <2> SUFFICES ASSUME ConfirmedOfInv, NEW t \in Target, task[t].at = "send",
                      task[t].kind \in StatusKind \ {"DEGRADED"}
               PROVE  mem[t].status # acked[t] \/ ~(Subject(t) \subseteq ackedOf[t])
    BY DEF ConfirmedNotRepeated
  <2>1. /\ SiteKnows(t) /\ MessageFits(t) /\ OwedIsUnconfirmed(t)
        /\ task[t].outcome = "none"
        /\ mem[t].pending \/ mem[t].muted
    BY ConfirmedOfFacts DEF InFlight, SiteKnows
  <2>2. CASE task[t].kind = "FAILURE"
    BY <2>1, <2>2 DEF MessageFits, OwedIsUnconfirmed, Subject
  <2>3. CASE task[t].kind \in {"RECOVERY", "PERFORMANCE_RECOVERY"}
    BY <2>1, <2>3 DEF MessageFits
  <2>4. CASE task[t].kind = "UNANNOUNCED_OUTAGE"
    BY <2>1, <2>4 DEF OwedIsUnconfirmed, RecordsDelivery, Subject
  <2> QED
    BY <2>2, <2>3, <2>4 DEF StatusKind
<1> QED
  BY <1>1, <1>2, InitConfirmedOfInv, PTL DEF Spec

-----------------------------------------------------------------------------
(*                 The alert pipeline keeps AlertContract                  *)

\* What a call site relies on when it acts on an outcome: no earlier round's
\* alert is armed before the probe, a recovery leaves no muted announcement
\* behind, a reminder is only sent when nothing else is owed, and a recorded
\* delivery owes nothing any more.
Prepared(t) ==
    /\ task[t].at = "probe" => t \notin armed
    /\ InFlight(t) /\ task[t].site = "recovery" => ~mem[t].muted
    /\ task[t].at = "remind" /\ mem[t].status = "DOWN" => ~mem[t].pending
    /\ InFlight(t) /\ task[t].site = "reminder" => ~mem[t].pending
    /\ task[t].at = "settle" /\ task[t].outcome = "DELIVERED" => ~mem[t].pending

\* A coroutine arms and takes back its own target's alert only.
LEMMA ArmsOwn ==
    ASSUME NEW t \in Target, CheckUrl(t)
    PROVE  \A u \in Target \ {t} : u \in armed' <=> u \in armed
  BY DEF CheckUrl, ObserveHealthy, ObserveDown, Arm, ClaimReminder, SkipReminder,
         AnnounceIfOwed, Mute, Unmuted, Dispatch, RecordOutcome, Settle

LEMMA StepPrepares ==
    ASSUME SavedInv, NEW t \in Target, SiteKnows(t), Prepared(t), CheckUrl(t)
    PROVE  Prepared(t)'
<1>0. TypeInv /\ mem[t] \in Record /\ task[t] \in Task /\ health[t] \in Status
  BY DEF SavedInv, OutageInv, TypeInv, TypeOK
<1>1. CASE ObserveHealthy(t)
  <2>1. PICK fresh \in BOOLEAN :
           LET due == AlertDue(mem[t], health[t], fresh) IN
           /\ mem'[t] = SetHealthy(mem[t], health[t], fresh)
           /\ task'[t].at = IF due THEN "funnel"
                            ELSE IF health[t] = "UP" THEN "done" ELSE "announce"
           /\ task'[t].site = IF due
                 THEN IF health[t] = "UP" THEN "recovery" ELSE "transition"
                 ELSE "none"
    BY <1>0, <1>1, ObserveHealthyDoes
  <2>2. mem'[t].muted =
           (health[t] = "DEGRADED" /\ mem[t].status = "DEGRADED" /\ mem[t].muted)
    BY <1>0, <2>1, SetHealthyFields
  <2>3. health[t] = "UP" => ~mem'[t].muted
    BY <2>2
  <2> QED
    BY <2>1, <2>3 DEF Prepared, InFlight
<1>2. CASE ObserveDown(t)
  <2>1. /\ mem'[t] = SetDown(mem[t], outage[t])
        /\ DownAlertDue(mem[t]) =>
              task'[t].at = "funnel" /\ task'[t].site = "transition"
        /\ ~DownAlertDue(mem[t]) => task'[t].at \in {"remind", "announce", "done"}
    BY <1>0, <1>2, ObserveDownDoes
  <2>2. ~DownAlertDue(mem[t]) /\ mem'[t].status = "DOWN" => ~mem'[t].pending
    <3>1. CASE HeldByHysteresis(mem[t])
      BY <1>0, <2>1, <3>1, SetDownHeldFields DEF HeldByHysteresis
    <3>2. CASE ~HeldByHysteresis(mem[t])
      BY <1>0, <2>1, <3>2, SetDownFields
    <3> QED
      BY <3>1, <3>2
  <2> QED
    BY <2>1, <2>2 DEF Prepared, InFlight
<1>3. CASE ClaimReminder(t)
  <2>1. PICK due : mem'[t] = [mem[t] EXCEPT !.remind = due]
    BY <1>0, <1>3, ClaimReminderDoes
  <2>2. /\ mem'[t].pending = mem[t].pending
        /\ task[t].at = "remind" /\ mem[t].status = "DOWN"
        /\ task'[t].at = "funnel" /\ task'[t].site = "reminder"
    BY <1>0, <1>3, <2>1, ClaimReminderDoes DEF Record, ClaimReminder
  <2> QED
    BY <2>2 DEF Prepared, InFlight
<1>4. CASE SkipReminder(t)
  BY <1>0, <1>4, SkipReminderDoes DEF Prepared, InFlight
<1>5. CASE AnnounceIfOwed(t)
  BY <1>0, <1>5, AnnounceIfOwedDoes DEF Prepared, InFlight
<1>6. CASE Mute(t)
  BY <1>0, <1>6, MuteDoes DEF Prepared, InFlight
<1>7. CASE Unmuted(t)
  <2>1. task[t].at = "funnel"
    BY <1>7 DEF Unmuted
  <2> QED
    BY <1>0, <1>7, <2>1, UnmutedDoes DEF Prepared, InFlight
<1>8. CASE Dispatch(t)
  <2>1. task[t].at = "send"
    BY <1>8 DEF Dispatch
  <2>2. /\ UNCHANGED mem /\ task'[t].kind = task[t].kind
        /\ task'[t].site = task[t].site
        /\ task'[t].at = IF task[t].kind \in StatusKind THEN "record"
                         ELSE IF task[t].site = "recovery" THEN "done"
                         ELSE "settle"
    BY <1>0, <1>8, DispatchDoes
  <2> QED
    BY <2>1, <2>2 DEF Prepared, SiteKnows, InFlight
<1>9. CASE RecordOutcome(t)
  <2> DEFINE delivered == task[t].outcome = "DELIVERED"
  <2>1. /\ delivered \in BOOLEAN /\ mem'[t] = AlertOutcome(mem[t], delivered)
        /\ task'[t].at \in {"done", "settle"}
        /\ task'[t].outcome = "DELIVERED" => delivered
    BY <1>0, <1>9, RecordOutcomeDoes
  <2> HIDE DEF delivered
  <2>2. mem'[t].pending = ~delivered
    BY <1>0, <2>1, AlertOutcomeFields
  <2> QED
    BY <2>1, <2>2 DEF Prepared, InFlight
<1>10. CASE Settle(t)
  BY <1>0, <1>10, SettleDoes DEF Prepared, InFlight
<1> QED
  BY <1>1, <1>2, <1>3, <1>4, <1>5, <1>6, <1>7, <1>8, <1>9, <1>10 DEF CheckUrl

ContractInv ==
    /\ SavedInv
    /\ \A t \in Target : SiteKnows(t) /\ OutcomeTrue(t) /\ Prepared(t)

LEMMA InitContractInv == Init => ContractInv
<1> SUFFICES ASSUME Init
             PROVE  ContractInv
  OBVIOUS
<1>1. \A t \in Target : task[t].at = "idle" /\ task[t].outcome = "none"
  BY NewTaskFields DEF Init
<1> QED
  BY <1>1, InitSavedInv DEF ContractInv, SiteKnows, OutcomeTrue, Prepared, InFlight

LEMMA NextContractInv ==
    ASSUME ~WritesMayFail, ContractInv, [Next]_vars
    PROVE  ContractInv'
<1>0. SavedInv'
  BY NextSavedInv DEF ContractInv
<1> SUFFICES ASSUME NEW u \in Target
             PROVE  (SiteKnows(u) /\ OutcomeTrue(u) /\ Prepared(u))'
  BY <1>0 DEF ContractInv
<1>1. ASSUME NEW t \in Target, CheckUrl(t)
      PROVE  (SiteKnows(u) /\ OutcomeTrue(u) /\ Prepared(u))'
  <2>1. CASE u = t
    BY <1>1, <2>1, StepAccounts, StepPrepares DEF ContractInv, SavedInv
  <2>2. CASE u # t
    <3>1. /\ mem'[u] = mem[u] /\ task'[u] = task[u] /\ told'[u] = told[u]
          /\ acked'[u] = acked[u] /\ (u \in armed' <=> u \in armed)
      BY <1>1, <2>2, CheckUrlIsLocal, ArmsOwn DEF ContractInv, SavedInv
    <3> QED
      BY <3>1 DEF ContractInv, SiteKnows, OutcomeTrue, Prepared, InFlight
  <2> QED
    BY <2>1, <2>2
<1>2. CASE StartRound \/ FinishRound \/ Crash
  <2>1. armed' = {} /\ task'[u].at \in {"probe", "idle"} /\ task'[u].outcome = "none"
    BY <1>2, NewTaskFields DEF StartRound, FinishRound, Crash, Gone
  <2> QED
    BY <2>1 DEF SiteKnows, OutcomeTrue, Prepared, InFlight
<1>3. CASE UNCHANGED <<mem, task, told, acked, armed>>
  BY <1>3 DEF ContractInv, SiteKnows, OutcomeTrue, Prepared, InFlight
<1>4. Environment \/ UNCHANGED vars => UNCHANGED <<mem, task, told, acked, armed>>
  BY DEF Environment, TargetChanges, WindowToggles, ChannelsToggle, vars, operator
<1> QED
  BY <1>1, <1>2, <1>3, <1>4 DEF Next, Monitor


\* The contract's alert of a target, read off its record and its coroutine.
LEMMA PhaseFacts ==
    ASSUME ContractInv, NEW t \in Target
    PROVE  /\ PhaseOf(t) =
                 IF /\ mem[t].pending \/ mem[t].muted
                    /\ task[t].at \in {"record", "settle"}
                    /\ task[t].outcome = "DELIVERED"
                 THEN "sent"
                 ELSE IF mem[t].pending THEN IF t \in armed THEN "due" ELSE "lost"
                 ELSE IF mem[t].muted THEN "deferred"
                 ELSE "quiet"
           /\ SubjectOf(t) =
                 IF PhaseOf(t) \in {"quiet", "sent"} THEN "nothing"
                 ELSE IF AboutOutage(mem[t]) THEN "outage" ELSE "slowness"
  BY DEF PhaseOf, SubjectOf, ContractInv, SavedInv, Saved

\* A coroutine moves its own target's alert only.
LEMMA OthersKeepPhase ==
    ASSUME ContractInv, NEW t \in Target, CheckUrl(t), ContractInv'
    PROVE  \A u \in Target \ {t} :
              PhaseOf(u)' = PhaseOf(u) /\ SubjectOf(u)' = SubjectOf(u)
<1> SUFFICES ASSUME NEW u \in Target \ {t}
             PROVE  PhaseOf(u)' = PhaseOf(u) /\ SubjectOf(u)' = SubjectOf(u)
  OBVIOUS
<1>1. /\ mem'[u] = mem[u] /\ task'[u] = task[u]
      /\ u \in armed' <=> u \in armed
  BY CheckUrlIsLocal, ArmsOwn DEF ContractInv, SavedInv
<1>2. disk = mem /\ disk' = mem'
  BY DEF ContractInv, SavedInv, Saved
<1> QED
  BY <1>1, <1>2 DEF PhaseOf, SubjectOf

\* A target's alert keeps its phase, or makes one move of the contract.
Stays(t) == PhaseOf(t)' = PhaseOf(t) /\ SubjectOf(t)' = SubjectOf(t)

NoLess(t) ==
    /\ SubjectOf(t)' \in {"outage", "slowness"}
    /\ SubjectOf(t) = "outage" => SubjectOf(t)' = "outage"

LEMMA MovesKeepContract ==
    ASSUME ContractInv, NEW t \in Target, CheckUrl(t), ContractInv'
    PROVE  LET p == PhaseOf(t)
               q == PhaseOf(t)'
               kept == Contract!Round(t) \/
                       UNCHANGED <<[u \in Target |-> PhaseOf(u)],
                                   [u \in Target |-> SubjectOf(u)]>>
           IN  /\ Stays(t) => kept
               /\ p \in {"quiet", "deferred"} /\ q = "due" /\ NoLess(t) => kept
               /\ p \in {"lost", "deferred"} /\ SubjectOf(t) = "slowness"
                     /\ q = "quiet" => kept
               /\ p = "due" /\ q \in {"quiet", "deferred"} => kept
               /\ p = "quiet" /\ q = "deferred" => kept
               /\ p \in {"due", "lost", "deferred"} /\ q = "sent" => kept
               /\ p \in {"due", "lost", "deferred"} /\ q = "lost" /\ NoLess(t) => kept
               /\ p = "sent" /\ q = "quiet" => kept
<1> DEFINE phase == [u \in Target |-> PhaseOf(u)]
           about == [u \in Target |-> SubjectOf(u)]
<1>1. /\ phase' = [phase EXCEPT ![t] = PhaseOf(t)']
      /\ about' = [about EXCEPT ![t] = SubjectOf(t)']
  BY OthersKeepPhase
<1>2. phase[t] = PhaseOf(t) /\ about[t] = SubjectOf(t)
  OBVIOUS
<1>3. Contract!Becomes(t, PhaseOf(t)', SubjectOf(t)')
  BY <1>1 DEF Contract!Becomes
<1>4. /\ PhaseOf(t)' \in {"quiet", "sent"} => SubjectOf(t)' = "nothing"
      /\ PhaseOf(t)' \notin {"quiet", "sent"} =>
            SubjectOf(t)' \in {"outage", "slowness"}
  BY DEF SubjectOf
<1>5. Stays(t) => phase' = phase /\ about' = about
  BY <1>1, <1>2 DEF Stays
<1>6. PhaseOf(t) \in {"quiet", "deferred"} /\ PhaseOf(t)' = "due" /\ NoLess(t)
         => Contract!Decide(t)
  BY <1>2, <1>3 DEF Contract!Decide, Contract!BecomesNoLess, Contract!Subject, NoLess
<1>7. PhaseOf(t) \in {"lost", "deferred"} /\ SubjectOf(t) = "slowness"
         /\ PhaseOf(t)' = "quiet" => Contract!Overtake(t)
  BY <1>2, <1>3, <1>4 DEF Contract!Overtake
<1>8. PhaseOf(t) = "due" /\ PhaseOf(t)' \in {"quiet", "deferred"}
         => Contract!TakeBack(t)
  BY <1>2, <1>3, <1>4 DEF Contract!TakeBack, Contract!Subject
<1>9. PhaseOf(t) = "quiet" /\ PhaseOf(t)' = "deferred" => Contract!Defer(t)
  BY <1>2, <1>3, <1>4 DEF Contract!Defer, Contract!Subject
<1>10. PhaseOf(t) \in {"due", "lost", "deferred"} /\ PhaseOf(t)' = "sent"
          => Contract!Send(t)
  BY <1>2, <1>3, <1>4 DEF Contract!Send, Contract!Owed
<1>11. PhaseOf(t) \in {"due", "lost", "deferred"} /\ PhaseOf(t)' = "lost" /\ NoLess(t)
          => Contract!Lose(t)
  BY <1>2, <1>3
  DEF Contract!Lose, Contract!Owed, Contract!BecomesNoLess, Contract!Subject, NoLess
<1>12. PhaseOf(t) = "sent" /\ PhaseOf(t)' = "quiet" => Contract!Acknowledge(t)
  BY <1>2, <1>3, <1>4 DEF Contract!Acknowledge
<1> QED
  BY <1>5, <1>6, <1>7, <1>8, <1>9, <1>10, <1>11, <1>12 DEF Contract!Round


\* Unless its alert is dropped, an observation after an outage is about it too;
\* and it is dropped only if there was no outage to tell of.
LEMMA OutageSubjectKept ==
    ASSUME NEW old \in Record, Dated(old), NEW s \in {"UP", "DEGRADED"},
           NEW fresh \in BOOLEAN
    PROVE  /\ AlertDue(old, s, fresh) /\ AboutOutage(old)
                 => AboutOutage(SetHealthy(old, s, fresh))
           /\ ~AlertDue(old, s, fresh) =>
                 /\ ~AboutOutage(old)
                 /\ ~AboutOutage(SetHealthy(old, s, fresh))
<1> DEFINE new == SetHealthy(old, s, fresh)
           due == AlertDue(old, s, fresh)
<1>1. /\ new.status = s /\ new.pending = due
      /\ new.notified = Notified(old) /\ new.missed = MissedOutage(old)
  BY SetHealthyFields
<1>2. Notified(new) = Notified(old) /\ new.status # "DOWN"
  BY <1>1, NotifiedType DEF Notified
<1>3. MissedOutage(old) # 0 \/ Notified(old) = "DOWN" => due
  BY DEF AlertDue
<1>4. AboutOutage(old) => MissedOutage(old) # 0 \/ Notified(old) = "DOWN"
  BY DEF AboutOutage, MissedOutage, Dated
<1> HIDE DEF new, due
<1>5. AboutOutage(new) <=> Notified(old) = "DOWN" \/ (due /\ MissedOutage(old) # 0)
  BY <1>1, <1>2 DEF AboutOutage
<1> QED
  BY <1>3, <1>4, <1>5 DEF new, due

\* What AboutOutage reads. Without notification_status the record is read
\* through its flags.
LEMMA SubjectReads ==
    ASSUME NEW old \in Record, NEW new \in Record,
           new.status = old.status, new.pending = old.pending,
           new.notified = old.notified, new.missed = old.missed,
           new.muted = old.muted \/ old.pending \/ old.notified \in Status
    PROVE  AboutOutage(new) <=> AboutOutage(old)
  BY DEF AboutOutage, Notified


\* Every move of a target's alert is one the contract has.
Moves(t) ==
    LET p == PhaseOf(t)
        q == PhaseOf(t)'
    IN  \/ Stays(t)
        \/ p \in {"quiet", "deferred"} /\ q = "due" /\ NoLess(t)
        \/ p \in {"lost", "deferred"} /\ SubjectOf(t) = "slowness" /\ q = "quiet"
        \/ p = "due" /\ q \in {"quiet", "deferred"}
        \/ p = "quiet" /\ q = "deferred"
        \/ p \in {"due", "lost", "deferred"} /\ q = "sent"
        \/ p \in {"due", "lost", "deferred"} /\ q = "lost" /\ NoLess(t)
        \/ p = "sent" /\ q = "quiet"

LEMMA ObservationMoves ==
    ASSUME ContractInv, NEW t \in Target, ContractInv',
           ObserveHealthy(t) \/ ObserveDown(t)
    PROVE  Moves(t)
<1>0. /\ TypeInv /\ mem[t] \in Record /\ task[t] \in Task /\ health[t] \in Status
      /\ outage[t] \in Nat /\ Dated(mem[t]) /\ mem[t].pending \in BOOLEAN
      /\ mem[t].muted \in BOOLEAN
  BY DEF ContractInv, SavedInv, OutageInv, OutagesDated, TypeInv, TypeOK, Record
<1>1. task[t].at = "probe" /\ t \notin armed
  BY DEF ObserveHealthy, ObserveDown, ContractInv, Prepared
<1>2. /\ PhaseOf(t) = IF mem[t].pending THEN "lost"
                      ELSE IF mem[t].muted THEN "deferred" ELSE "quiet"
      /\ SubjectOf(t) = IF PhaseOf(t) = "quiet" THEN "nothing"
                        ELSE IF AboutOutage(mem[t]) THEN "outage" ELSE "slowness"
  BY <1>1, PhaseFacts
<1>3. task'[t].outcome = "none" =>
         /\ PhaseOf(t)' = IF mem'[t].pending THEN IF t \in armed' THEN "due" ELSE "lost"
                          ELSE IF mem'[t].muted THEN "deferred" ELSE "quiet"
         /\ SubjectOf(t)' = IF PhaseOf(t)' = "quiet" THEN "nothing"
                            ELSE IF AboutOutage(mem'[t]) THEN "outage" ELSE "slowness"
  BY DEF PhaseOf, SubjectOf, AboutOutage, Notified, ContractInv, SavedInv, Saved
<1>4. CASE ObserveHealthy(t)
  <2>1. PICK fresh \in {TRUE, ~GapsMayHappen} :
           /\ Store(t, SetHealthy(mem[t], health[t], fresh))
           /\ Arm(t, AlertDue(mem[t], health[t], fresh))
           /\ task' = [task EXCEPT ![t] =
                IF AlertDue(mem[t], health[t], fresh)
                THEN Carrying(HealthyKind(mem[t], health[t]),
                        IF health[t] = "UP" THEN "recovery" ELSE "transition")
                ELSE At(IF health[t] = "UP" THEN "done" ELSE "announce")]
    BY <1>4 DEF ObserveHealthy
  <2> DEFINE due == AlertDue(mem[t], health[t], fresh)
             new == SetHealthy(mem[t], health[t], fresh)
  <2>2. health[t] \in {"UP", "DEGRADED"} /\ fresh \in BOOLEAN
    BY <1>4 DEF ObserveHealthy
  <2>3. mem'[t] = new
    BY <1>0, <2>1, StoredIn
  <2>4. t \in armed' <=> due /\ ~mem[t].pending
    BY <1>1, <2>1 DEF Arm
  <2>5. task'[t].outcome = "none"
    BY <1>0, <1>4, ObserveHealthyDoes
  <2>6. /\ new.pending = due
        /\ new.muted = (health[t] = "DEGRADED" /\ mem[t].status = "DEGRADED"
                                               /\ mem[t].muted)
    BY <1>0, <2>2, SetHealthyFields
  <2>7. /\ due /\ AboutOutage(mem[t]) => AboutOutage(new)
        /\ ~due => ~AboutOutage(mem[t]) /\ ~AboutOutage(new)
    BY <1>0, <2>2, OutageSubjectKept
  <2>8. mem[t].pending /\ mem[t].status = health[t] => due
    BY DEF AlertDue
  <2> HIDE DEF due, new
  <2>9. CASE due
    BY <1>2, <1>3, <2>3, <2>4, <2>5, <2>6, <2>7, <2>9 DEF Moves, NoLess
  <2>10. CASE ~due
    <3>1. CASE mem[t].pending
      <4>1. PhaseOf(t) = "lost" /\ SubjectOf(t) = "slowness"
        BY <1>2, <2>7, <2>10, <3>1
      <4>2. PhaseOf(t)' = "quiet"
        BY <1>0, <1>3, <2>3, <2>5, <2>6, <2>8, <2>10, <3>1
      <4> QED
        BY <4>1, <4>2 DEF Moves
    <3>2. CASE ~mem[t].pending
      <4>1. /\ PhaseOf(t) = IF mem[t].muted THEN "deferred" ELSE "quiet"
            /\ SubjectOf(t) = IF mem[t].muted THEN "slowness" ELSE "nothing"
        BY <1>2, <2>7, <2>10, <3>2
      <4>2. /\ PhaseOf(t)' = IF new.muted THEN "deferred" ELSE "quiet"
            /\ SubjectOf(t)' = IF new.muted THEN "slowness" ELSE "nothing"
        BY <1>3, <2>3, <2>5, <2>6, <2>7, <2>10
      <4>3. new.muted => mem[t].muted
        BY <2>6
      <4> QED
        BY <4>1, <4>2, <4>3 DEF Moves, Stays
    <3> QED
      BY <3>1, <3>2
  <2> QED
    BY <2>9, <2>10
<1>5. CASE ObserveDown(t)
  <2> DEFINE due == DownAlertDue(mem[t])
             new == SetDown(mem[t], outage[t])
  <2>1. mem'[t] = new /\ task'[t].outcome = "none"
    BY <1>0, <1>5, ObserveDownDoes
  <2>2. t \in armed' <=> due /\ ~mem[t].pending
    BY <1>1, <1>5 DEF ObserveDown, Arm
  <2> HIDE DEF due, new
  <2>3. CASE HeldByHysteresis(mem[t])
    <3>1. ~due
      BY <2>3 DEF due, DownAlertDue, HeldByHysteresis
    <3>2. /\ new.status = mem[t].status /\ new.pending = mem[t].pending
          /\ new.notified = Notified(mem[t]) /\ new.missed = mem[t].missed
          /\ new.muted = mem[t].muted
      BY <1>0, <2>3, SetDownHeldFields DEF new
    <3>3. Notified(new) = Notified(mem[t])
      BY <1>0, <3>2, NotifiedType DEF Notified
    <3>4. AboutOutage(new) <=> AboutOutage(mem[t])
      BY <3>2, <3>3 DEF AboutOutage
    <3> QED
      BY <1>2, <1>3, <2>1, <2>2, <3>1, <3>2, <3>4 DEF Moves, Stays
  <2>4. CASE ~HeldByHysteresis(mem[t])
    <3>1. /\ new.status = "DOWN" /\ new.pending = due
          /\ new.muted = (mem[t].status = "DOWN" /\ mem[t].muted)
      BY <1>0, <2>4, SetDownFields DEF new, due
    <3>2. AboutOutage(new)
      BY <3>1 DEF AboutOutage
    <3>3. due = (mem[t].status = "DOWN" => mem[t].pending)
      BY <1>0, <2>4 DEF due, DownAlertDue
    <3>4. mem[t].status = "DOWN" => AboutOutage(mem[t])
      BY DEF AboutOutage
    <3>5. CASE due
      BY <1>0, <1>2, <1>3, <2>1, <2>2, <3>1, <3>2, <3>5 DEF Moves, NoLess
    <3>6. CASE ~due
      <4>1. mem[t].status = "DOWN" /\ ~mem[t].pending
        BY <3>3, <3>6
      <4> QED
        BY <1>0, <1>2, <1>3, <2>1, <2>2, <3>1, <3>2, <3>4, <3>6, <4>1 DEF Moves, Stays
    <3> QED
      BY <3>5, <3>6
  <2> QED
    BY <2>3, <2>4
<1> QED
  BY <1>4, <1>5


\* Between the probe and the dispatch a record keeps what its alert is about.
LEMMA QuietMoves ==
    ASSUME ContractInv, NEW t \in Target, ContractInv',
           ClaimReminder(t) \/ SkipReminder(t) \/ AnnounceIfOwed(t) \/ Unmuted(t)
    PROVE  Moves(t)
<1>0. TypeInv /\ mem[t] \in Record /\ task[t] \in Task
  BY DEF ContractInv, SavedInv, OutageInv, TypeInv, TypeOK
<1>1. task[t].at \notin {"record", "settle"} /\ task'[t].at \notin {"record", "settle"}
  BY <1>0, ClaimReminderDoes, SkipReminderDoes, AnnounceIfOwedDoes, UnmutedDoes
  DEF ClaimReminder, SkipReminder, AnnounceIfOwed, Unmuted
<1>2. UNCHANGED armed
  BY DEF ClaimReminder, SkipReminder, AnnounceIfOwed, Unmuted
<1>3. mem'[t] = mem[t] \/ \E due : mem'[t] = [mem[t] EXCEPT !.remind = due]
  BY <1>0, ClaimReminderDoes, SkipReminderDoes, AnnounceIfOwedDoes, UnmutedDoes
<1>4. /\ mem'[t].status = mem[t].status /\ mem'[t].pending = mem[t].pending
      /\ mem'[t].muted = mem[t].muted /\ mem'[t].notified = mem[t].notified
      /\ mem'[t].missed = mem[t].missed
  BY <1>0, <1>3 DEF Record
<1>5. disk = mem /\ disk' = mem'
  BY DEF ContractInv, SavedInv, Saved
<1>6. PhaseOf(t)' = PhaseOf(t)
  BY <1>1, <1>2, <1>4, <1>5 DEF PhaseOf
<1>7. AboutOutage(disk[t])' <=> AboutOutage(disk[t])
  BY <1>4, <1>5 DEF AboutOutage, Notified
<1> QED
  BY <1>6, <1>7 DEF Moves, Stays, SubjectOf

LEMMA MuteMoves ==
    ASSUME ContractInv, NEW t \in Target, ContractInv', Mute(t)
    PROVE  Moves(t)
<1>0. TypeInv /\ mem[t] \in Record
  BY DEF ContractInv, SavedInv, OutageInv, TypeInv, TypeOK
<1>1. task[t].at = "funnel" /\ task'[t].outcome = "MUTED"
  BY <1>0, MuteDoes DEF Mute
<1>2. disk = mem /\ disk' = mem'
  BY DEF ContractInv, SavedInv, Saved
<1>3. CASE TakesBack(t) /\ mem[t].pending
  <2>1. mem'[t] = [mem[t] EXCEPT !.pending = FALSE]
    BY <1>0, <1>3, StoredIn DEF Mute
  <2>2. ~mem'[t].pending /\ t \in armed
    BY <1>0, <1>3, <2>1 DEF Record, TakesBack
  <2>3. PhaseOf(t) = "due" /\ PhaseOf(t)' \in {"quiet", "deferred"}
    BY <1>1, <1>2, <1>3, <2>2 DEF PhaseOf
  <2> QED
    BY <2>3 DEF Moves
<1>4. CASE ~(TakesBack(t) /\ mem[t].pending)
  <2>1. mem'[t] = mem[t]
    BY <1>4 DEF Mute, NoStore
  <2>2. mem[t].pending => armed' = armed
    BY <1>4 DEF Mute
  <2>3. PhaseOf(t)' = PhaseOf(t)
    BY <1>1, <1>2, <2>1, <2>2 DEF PhaseOf
  <2> QED
    BY <1>2, <2>1, <2>3 DEF Moves, Stays, SubjectOf, AboutOutage, Notified
<1> QED
  BY <1>3, <1>4

LEMMA DispatchMoves ==
    ASSUME ContractInv, NEW t \in Target, ContractInv', Dispatch(t)
    PROVE  Moves(t)
<1>0. TypeInv
  BY DEF ContractInv, SavedInv, OutageInv
<1>1. /\ task[t].at = "send" /\ mem' = mem /\ armed' = armed
      /\ task'[t].at \in {"record", "settle", "done"}
  BY <1>0, DispatchDoes DEF Dispatch, NoStore
<1>2. disk = mem /\ disk' = mem'
  BY DEF ContractInv, SavedInv, Saved
<1>3. AboutOutage(disk[t])' <=> AboutOutage(disk[t])
  BY <1>1, <1>2 DEF AboutOutage, Notified
<1>4. CASE PhaseOf(t)' = PhaseOf(t)
  BY <1>3, <1>4 DEF Moves, Stays, SubjectOf
<1>5. CASE PhaseOf(t)' # PhaseOf(t)
  <2>1. mem[t].pending \/ mem[t].muted
    BY <1>1, <1>2, <1>5 DEF PhaseOf
  <2>2. PhaseOf(t)' = "sent" /\ PhaseOf(t) \in {"due", "lost", "deferred"}
    BY <1>1, <1>2, <1>5, <2>1 DEF PhaseOf
  <2> QED
    BY <2>2 DEF Moves
<1> QED
  BY <1>4, <1>5

LEMMA RecordMoves ==
    ASSUME ContractInv, NEW t \in Target, ContractInv', RecordOutcome(t)
    PROVE  Moves(t)
<1> DEFINE delivered == task[t].outcome = "DELIVERED"
<1>0. /\ TypeInv /\ mem[t] \in Record /\ mem[t].pending \in BOOLEAN
      /\ mem[t].muted \in BOOLEAN /\ mem[t].notified \in Status \union {"NONE"}
      /\ mem[t].status \in Status
  BY DEF ContractInv, SavedInv, OutageInv, TypeInv, TypeOK, Record, RecordOutcome,
         SeenBeforeSent
<1>1. /\ task[t].at = "record" /\ armed' = armed \ {t} /\ delivered \in BOOLEAN
      /\ mem'[t] = AlertOutcome(mem[t], delivered)
      /\ task'[t].at = IF task[t].site = "recovery" THEN "done" ELSE "settle"
      /\ task'[t].outcome = task[t].outcome
  BY <1>0, RecordOutcomeDoes DEF RecordOutcome
<1>2. disk = mem /\ disk' = mem'
  BY DEF ContractInv, SavedInv, Saved
<1>3. /\ task[t].site = "recovery" => ~mem[t].muted
      /\ mem[t].pending \/ mem[t].muted
  BY <1>1 DEF ContractInv, SavedInv, ObligationInv, OwedInMemory, InFlight,
     Prepared, SiteKnows
<1>4. /\ mem'[t].status = mem[t].status
      /\ mem'[t].pending = ~delivered
      /\ mem'[t].muted = mem[t].muted
      /\ mem'[t].missed = IF delivered THEN 0 ELSE mem[t].missed
  <2> HIDE DEF delivered
  <2> QED
    BY <1>0, <1>1, AlertOutcomeFields
<1>5. CASE delivered
  <2>1. PhaseOf(t) = "sent"
    BY <1>1, <1>2, <1>3, <1>5 DEF PhaseOf
  <2>2. PhaseOf(t)' = IF mem[t].muted THEN "sent" ELSE "quiet"
    BY <1>1, <1>2, <1>3, <1>4, <1>5 DEF PhaseOf
  <2> QED
    BY <2>1, <2>2 DEF Moves, Stays, SubjectOf
<1>6. CASE ~delivered
  <2>1. PhaseOf(t) \in {"due", "lost", "deferred"} /\ PhaseOf(t)' = "lost"
    BY <1>1, <1>2, <1>3, <1>4, <1>6 DEF PhaseOf
  <2>2. Notified(mem'[t]) = Notified(mem[t])
    BY <1>0, <1>1, <1>3, <1>6 DEF AlertOutcome, Notified, Record, Status
  <2>3. AboutOutage(mem[t]) => AboutOutage(mem'[t])
    BY <1>4, <1>6, <2>2 DEF AboutOutage
  <2>4. AboutOutage(disk[t])' <=> AboutOutage(mem'[t])
    BY <1>2 DEF AboutOutage, Notified
  <2> QED
    BY <1>2, <2>1, <2>3, <2>4 DEF Moves, NoLess, SubjectOf
<1> QED
  BY <1>5, <1>6

LEMMA SettleMoves ==
    ASSUME ContractInv, NEW t \in Target, ContractInv', Settle(t)
    PROVE  Moves(t)
<1>0. /\ TypeInv /\ mem[t] \in Record /\ mem[t].pending \in BOOLEAN
      /\ mem[t].muted \in BOOLEAN
  BY DEF ContractInv, SavedInv, OutageInv, TypeInv, TypeOK, Record
<1>1. /\ task[t].at = "settle" /\ task'[t].at = "done" /\ armed' = armed
      /\ mem'[t].status = mem[t].status
      /\ mem'[t].pending = mem[t].pending
      /\ mem'[t].notified = mem[t].notified
      /\ mem'[t].missed = mem[t].missed
      /\ \/ task[t].site = "transition"
            /\ mem'[t].muted = (task[t].outcome = "MUTED")
         \/ task[t].site = "announce"
            /\ mem'[t].muted = (mem[t].muted /\ task[t].outcome = "MUTED")
         \/ task[t].site = "reminder"
            /\ mem'[t].muted = (mem[t].muted /\ task[t].outcome # "DELIVERED")
  BY <1>0, SettleDoes DEF Settle
<1>2. disk = mem /\ disk' = mem'
  BY DEF ContractInv, SavedInv, Saved
<1>3. /\ task[t].outcome \in Outcome
      /\ task[t].outcome = "DELIVERED" => ~mem[t].pending
      /\ task[t].outcome = "UNDELIVERED" => mem[t].pending \/ task[t].site = "reminder"
  BY <1>1 DEF ContractInv, SiteKnows, OutcomeTrue, Prepared
<1>4. AboutOutage(disk[t])' <=> AboutOutage(mem'[t])
  BY <1>2 DEF AboutOutage, Notified
<1>5. mem'[t].muted = mem[t].muted \/ mem[t].pending
         => (AboutOutage(mem'[t]) <=> AboutOutage(mem[t]))
  BY <1>1 DEF AboutOutage, Notified
<1>6. CASE task[t].outcome = "DELIVERED"
  <2>1. /\ PhaseOf(t) = IF mem[t].muted THEN "sent" ELSE "quiet"
        /\ PhaseOf(t)' = "quiet"
    BY <1>1, <1>2, <1>3, <1>6 DEF PhaseOf
  <2> QED
    BY <2>1 DEF Moves, Stays, SubjectOf
<1>7. CASE task[t].outcome # "DELIVERED" /\ mem[t].pending
  <2>1. PhaseOf(t)' = PhaseOf(t)
    BY <1>1, <1>2, <1>7 DEF PhaseOf
  <2> QED
    BY <1>2, <1>4, <1>5, <1>7, <2>1 DEF Moves, Stays, SubjectOf
<1>8. CASE task[t].outcome # "DELIVERED" /\ ~mem[t].pending
  <2>1. /\ PhaseOf(t) = IF mem[t].muted THEN "deferred" ELSE "quiet"
        /\ PhaseOf(t)' = IF mem'[t].muted THEN "deferred" ELSE "quiet"
        /\ mem[t].muted => mem'[t].muted
    BY <1>1, <1>2, <1>3, <1>8 DEF PhaseOf, Outcome
  <2>2. CASE mem'[t].muted /\ ~mem[t].muted
    BY <2>1, <2>2 DEF Moves
  <2>3. CASE mem'[t].muted <=> mem[t].muted
    <3>1. AboutOutage(mem'[t]) <=> AboutOutage(mem[t])
      BY <1>1, <2>3 DEF AboutOutage, Notified
    <3>2. PhaseOf(t)' = PhaseOf(t)
      BY <2>1, <2>3
    <3> QED
      BY <1>2, <1>4, <3>1, <3>2 DEF Moves, Stays, SubjectOf
  <2> QED
    BY <2>1, <2>2, <2>3
<1> QED
  BY <1>0, <1>6, <1>7, <1>8

\* A coroutine's step is a move of its target's alert, or none.
LEMMA CheckKeepsContract ==
    ASSUME ContractInv, NEW t \in Target, CheckUrl(t), ContractInv'
    PROVE  Contract!Round(t) \/
           UNCHANGED <<[u \in Target |-> PhaseOf(u)], [u \in Target |-> SubjectOf(u)]>>
<1>1. Moves(t)
  BY ObservationMoves, QuietMoves, MuteMoves, DispatchMoves, RecordMoves, SettleMoves
  DEF CheckUrl
<1> QED
  BY <1>1, MovesKeepContract DEF Moves


LEMMA InitKeepsContract == Init => Contract!Init
<1> SUFFICES ASSUME Init
             PROVE  Contract!Init
  OBVIOUS
<1> DEFINE phase == [t \in Target |-> PhaseOf(t)]
           about == [t \in Target |-> SubjectOf(t)]
<1>1. ASSUME NEW t \in Target
      PROVE  /\ PhaseOf(t) \in {"quiet", "lost"}
             /\ SubjectOf(t) = IF PhaseOf(t) = "lost" THEN "outage" ELSE "nothing"
  <2>1. task[t].at = "idle" /\ t \notin armed /\ disk[t] \in FirstRecord(t)
    BY NewTaskFields DEF Init
  <2>2. ~disk[t].muted /\ (disk[t].pending => disk[t].status = "DOWN")
    BY <2>1, FirstRecordFields
  <2> QED
    BY <2>1, <2>2 DEF PhaseOf, SubjectOf, AboutOutage
<1>2. phase \in [Target -> {"quiet", "lost"}]
  BY <1>1
<1>3. about = [t \in Target |-> IF phase[t] = "lost" THEN "outage" ELSE "nothing"]
  BY <1>1
<1>4. pinged = FALSE
  BY DEF Init
<1> QED
  BY <1>2, <1>3, <1>4 DEF Contract!Init

\* A round that begins, ends or is killed moves every alert at once.
LEMMA RoundKeepsContract ==
    ASSUME ContractInv, StartRound \/ FinishRound \/ Crash, ContractInv'
    PROVE  Contract!Ping \/ Contract!Forget
<1> DEFINE phase == [t \in Target |-> PhaseOf(t)]
           about == [t \in Target |-> SubjectOf(t)]
<1>1. /\ disk' = disk /\ armed' = {}
      /\ \A t \in Target : task'[t].at \in {"probe", "idle"}
  BY NewTaskFields DEF StartRound, FinishRound, Crash, Gone
<1>2. ASSUME NEW t \in Target
      PROVE  /\ PhaseOf(t)' = IF disk[t].pending THEN "lost"
                              ELSE IF disk[t].muted THEN "deferred" ELSE "quiet"
             /\ AboutOutage(disk[t])' <=> AboutOutage(disk[t])
  BY <1>1 DEF PhaseOf, AboutOutage, Notified
<1>3. ASSUME NEW t \in Target
      PROVE  \/ /\ PhaseOf(t) \in {"quiet", "lost", "deferred"}
                /\ PhaseOf(t)' = PhaseOf(t) /\ SubjectOf(t)' = SubjectOf(t)
             \/ /\ PhaseOf(t) = "due"
                /\ PhaseOf(t)' = "lost" /\ SubjectOf(t)' = SubjectOf(t)
             \/ /\ PhaseOf(t) = "sent"
                /\ PhaseOf(t)' \in {"lost", "deferred"}
                /\ SubjectOf(t)' \in Contract!Subject
  <2>1. CASE PhaseOf(t) = "sent"
    <3>1. PhaseOf(t)' \in {"lost", "deferred"}
      BY <1>2, <2>1 DEF PhaseOf
    <3> QED
      BY <2>1, <3>1 DEF SubjectOf, Contract!Subject
  <2>2. CASE PhaseOf(t) # "sent"
    <3>1. \/ PhaseOf(t) = "due" /\ PhaseOf(t)' = "lost"
          \/ PhaseOf(t) \in {"quiet", "lost", "deferred"} /\ PhaseOf(t)' = PhaseOf(t)
      BY <1>2, <2>2 DEF PhaseOf
    <3>2. SubjectOf(t)' = SubjectOf(t)
      BY <1>2, <2>2, <3>1 DEF SubjectOf
    <3> QED
      BY <3>1, <3>2
  <2> QED
    BY <2>1, <2>2
<1>4. /\ \A t \in Target : phase[t] = PhaseOf(t) /\ about[t] = SubjectOf(t)
      /\ \A t \in Target : phase'[t] = PhaseOf(t)' /\ about'[t] = SubjectOf(t)'
      /\ DOMAIN phase' = Target /\ DOMAIN about' = Target
  OBVIOUS
<1>5. CASE ~pinged'
  <2>1. pinged' = FALSE
    BY <1>5 DEF StartRound, FinishRound, Crash, Vouches
  <2> QED
    BY <1>3, <1>4, <2>1 DEF Contract!Forget
<1>6. CASE pinged'
  <2>1. FinishRound /\ Vouches /\ pinged' = TRUE
    BY <1>6 DEF StartRound, FinishRound, Crash, Vouches
  <2>2. \A t \in Target : PhaseOf(t) \in {"quiet", "deferred"}
    BY <2>1 DEF FinishRound, Vouches, Undelivered, PhaseOf
  <2>3. \A t \in Target : PhaseOf(t)' = PhaseOf(t) /\ SubjectOf(t)' = SubjectOf(t)
    BY <1>3, <2>2
  <2>4. phase' = phase /\ about' = about
    BY <2>3
  <2> QED
    BY <2>1, <2>2, <2>4 DEF Contract!Ping
<1> QED
  BY <1>5, <1>6

LEMMA StepKeepsContract ==
    ASSUME ContractInv, PingedBetweenRounds, [Next]_vars, ContractInv'
    PROVE  [Contract!Next]_<<[t \in Target |-> PhaseOf(t)],
                             [t \in Target |-> SubjectOf(t)], pinged>>
<1>1. ASSUME NEW t \in Target, CheckUrl(t)
      PROVE  Contract!Next \/ UNCHANGED <<[u \in Target |-> PhaseOf(u)],
                                          [u \in Target |-> SubjectOf(u)], pinged>>
  <2>1. running /\ UNCHANGED pinged
    BY <1>1, CheckUrlIsLocal DEF ContractInv, SavedInv, Orderly, CheckUrl,
       ObserveHealthy, ObserveDown, ClaimReminder, SkipReminder, AnnounceIfOwed,
       Mute, Unmuted, Dispatch, RecordOutcome, Settle
  <2>2. \/ Contract!Round(t)
        \/ UNCHANGED <<[u \in Target |-> PhaseOf(u)], [u \in Target |-> SubjectOf(u)]>>
    BY <1>1, CheckKeepsContract
  <2> QED
    BY <2>1, <2>2 DEF PingedBetweenRounds, Contract!Next
<1>2. CASE StartRound \/ FinishRound \/ Crash
  BY <1>2, RoundKeepsContract DEF Contract!Next
<1>3. CASE UNCHANGED <<disk, armed, task, pinged>>
  BY <1>3 DEF PhaseOf, SubjectOf, AboutOutage, Notified
<1>4. Environment \/ UNCHANGED vars => UNCHANGED <<disk, armed, task, pinged>>
  BY DEF Environment, TargetChanges, WindowToggles, ChannelsToggle, vars
<1> QED
  BY <1>1, <1>2, <1>3, <1>4 DEF Next, Monitor

\* What the funnel and the setters promise of each target's alert (_arm,
\* record_alert_outcome, _alerts_undelivered): every behaviour starts and steps as
\* AlertContract does, for any targets, with kills, windows, dead channels,
\* reminders, gaps and records of an older version at once, as long as the file
\* can be written.
THEOREM AlertContractKept ==
    ~WritesMayFail =>
        (Spec => Contract!Init /\ [][Contract!Next]_<<[t \in Target |-> PhaseOf(t)],
                                                     [t \in Target |-> SubjectOf(t)],
                                                     pinged>>)
<1> SUFFICES ASSUME ~WritesMayFail
             PROVE  Spec => Contract!Init /\
                       [][Contract!Next]_<<[t \in Target |-> PhaseOf(t)],
                                           [t \in Target |-> SubjectOf(t)], pinged>>
  OBVIOUS
<1>1. Init => ContractInv /\ PingedBetweenRounds
  BY InitContractInv DEF Init, PingedBetweenRounds
<1>2. ContractInv /\ PingedBetweenRounds /\ [Next]_vars
         => ContractInv' /\ PingedBetweenRounds'
  BY NextContractInv, NextHeartbeatInv DEF HeartbeatInv, ContractInv, SavedInv
<1>3. ContractInv /\ ContractInv' /\ PingedBetweenRounds /\ [Next]_vars
         => [Contract!Next]_<<[t \in Target |-> PhaseOf(t)],
                              [t \in Target |-> SubjectOf(t)], pinged>>
  BY StepKeepsContract
<1> QED
  BY <1>1, <1>2, <1>3, InitKeepsContract, PTL DEF Spec

-----------------------------------------------------------------------------
(*                  What the file says when writes may fail                *)

\* An outage on record was heard of, is owed, or its mute is on record.
HeardOrOwed(t, record) ==
    record.status = "DOWN" =>
        record.since \in heard[t] \/ record.pending \/ record.muted

\* A delivery from a DOWN record is heard of, also before it is written down.
DeliveryHeard(t) ==
    /\ task[t].at \in {"record", "settle"}
    /\ task[t].outcome = "DELIVERED"
    /\ mem[t].status = "DOWN"
    => mem[t].since \in heard[t]

\* Memory and file may differ, but each record of either was once the memory's.
FiledInv ==
    /\ OutageInv
    /\ Orderly
    /\ \A t \in Target :
          /\ SiteKnows(t) /\ OutcomeTrue(t) /\ DeliveryHeard(t)
          /\ HeardOrOwed(t, mem[t]) /\ HeardOrOwed(t, disk[t])

LEMMA InitFiledInv == Init => FiledInv
<1> SUFFICES ASSUME Init, NEW t \in Target
             PROVE  /\ SiteKnows(t) /\ OutcomeTrue(t) /\ DeliveryHeard(t)
                    /\ HeardOrOwed(t, mem[t]) /\ HeardOrOwed(t, disk[t])
  BY InitSavedInv DEF FiledInv, SavedInv
<1>1. task[t].at = "idle" /\ task[t].outcome = "none"
  BY NewTaskFields DEF Init
<1>2. /\ mem[t] = disk[t] /\ told[t] = ToldBefore(disk[t])
      /\ told[t] = "DOWN" => heard[t] = {disk[t].since}
  BY DEF Init
<1>3. HeardOrOwed(t, disk[t])
  BY <1>2 DEF HeardOrOwed, ToldBefore, Status
<1> QED
  BY <1>1, <1>2, <1>3 DEF SiteKnows, OutcomeTrue, DeliveryHeard, InFlight

LEMMA OnlyDispatchIsHeard ==
    ASSUME TypeInv, NEW t \in Target, CheckUrl(t)
    PROVE  heard[t] \subseteq heard'[t]
<1>1. CASE Dispatch(t)
  BY <1>1, DispatchDoes DEF operator
<1>2. CASE ~Dispatch(t)
  BY <1>2, OnlyDispatchTells DEF operator
<1> QED
  BY <1>1, <1>2

\* What the coroutine of a target leaves in memory.
LEMMA StepHears ==
    ASSUME Maintained = {}, FiledInv, NEW t \in Target, CheckUrl(t)
    PROVE  DeliveryHeard(t)' /\ HeardOrOwed(t, mem[t])'
<1>0. /\ TypeInv /\ mem[t] \in Record /\ health[t] \in Status
      /\ SiteKnows(t) /\ OutcomeTrue(t) /\ DeliveryHeard(t)
      /\ HeardOrOwed(t, mem[t])
      /\ heard[t] \subseteq heard'[t]
  BY OnlyDispatchIsHeard DEF FiledInv, OutageInv, TypeInv, TypeOK
<1>1. CASE ObserveHealthy(t)
  <2>1. PICK fresh \in BOOLEAN : mem'[t] = SetHealthy(mem[t], health[t], fresh)
    BY <1>0, <1>1, ObserveHealthyDoes
  <2>2. task'[t].outcome = "none"
    BY <1>0, <1>1, ObserveHealthyDoes
  <2>3. mem'[t].status # "DOWN"
    BY <1>0, <1>1, <2>1, SetHealthyFields DEF ObserveHealthy
  <2> QED
    BY <2>2, <2>3 DEF DeliveryHeard, HeardOrOwed
<1>2. CASE ObserveDown(t)
  <2>1. mem'[t] = SetDown(mem[t], outage[t]) /\ task'[t].outcome = "none"
    BY <1>0, <1>2, ObserveDownDoes
  <2>2. HeardOrOwed(t, mem[t])'
    <3>1. CASE HeldByHysteresis(mem[t])
      <4>1. mem'[t].status # "DOWN"
        BY <1>0, <2>1, <3>1, SetDownHeldFields DEF HeldByHysteresis
      <4> QED
        BY <4>1 DEF HeardOrOwed
    <3>2. CASE ~HeldByHysteresis(mem[t])
      <4>1. /\ mem'[t].pending = DownAlertDue(mem[t])
            /\ mem'[t].since = IF mem[t].status = "DOWN" THEN mem[t].since ELSE outage[t]
            /\ mem'[t].muted = (mem[t].status = "DOWN" /\ mem[t].muted)
        BY <1>0, <2>1, <3>2, SetDownFields
      <4>2. DownAlertDue(mem[t]) = (mem[t].status = "DOWN" => mem[t].pending)
        BY <1>0, <3>2 DEF DownAlertDue, Record
      <4> QED
        BY <1>0, <4>1, <4>2 DEF HeardOrOwed
    <3> QED
      BY <3>1, <3>2
  <2> QED
    BY <2>1, <2>2 DEF DeliveryHeard
<1>3. CASE ClaimReminder(t)
  <2>1. PICK due : mem'[t] = [mem[t] EXCEPT !.remind = due]
    BY <1>0, <1>3, ClaimReminderDoes
  <2>2. /\ mem'[t].status = mem[t].status /\ mem'[t].pending = mem[t].pending
        /\ mem'[t].muted = mem[t].muted /\ mem'[t].since = mem[t].since
    BY <1>0, <2>1 DEF Record
  <2>3. task'[t].outcome = "none"
    BY <1>0, <1>3, ClaimReminderDoes
  <2> QED
    BY <1>0, <2>2, <2>3 DEF DeliveryHeard, HeardOrOwed
<1>4. CASE SkipReminder(t) \/ AnnounceIfOwed(t)
  <2>1. mem'[t] = mem[t] /\ task'[t].outcome = "none"
    BY <1>0, <1>4, SkipReminderDoes, AnnounceIfOwedDoes
  <2> QED
    BY <1>0, <2>1 DEF DeliveryHeard, HeardOrOwed
<1>5. CASE Mute(t)
  BY <1>5 DEF Mute, FiledInv, Orderly
<1>6. CASE Unmuted(t)
  <2>1. mem'[t] = mem[t] /\ task'[t].at = "send"
    BY <1>0, <1>6, UnmutedDoes
  <2> QED
    BY <1>0, <2>1 DEF DeliveryHeard, HeardOrOwed
<1>7. CASE Dispatch(t)
  <2>1. /\ mem'[t] = mem[t]
        /\ task'[t].outcome = "DELIVERED" /\ mem[t].status = "DOWN"
              => mem[t].since \in heard'[t]
    BY <1>0, <1>7, DispatchDoes DEF Subject
  <2> QED
    BY <1>0, <2>1 DEF DeliveryHeard, HeardOrOwed
<1>8. CASE RecordOutcome(t)
  <2> DEFINE delivered == task[t].outcome = "DELIVERED"
  <2>1. /\ delivered \in BOOLEAN /\ mem'[t] = AlertOutcome(mem[t], delivered)
        /\ task[t].at = "record" /\ task'[t].outcome = task[t].outcome
    BY <1>0, <1>8, RecordOutcomeDoes DEF RecordOutcome
  <2>2. delivered /\ mem[t].status = "DOWN" => mem[t].since \in heard'[t]
    BY <1>0, <2>1 DEF DeliveryHeard
  <2>3. task'[t].outcome = "DELIVERED" => delivered
    BY <2>1
  <2> HIDE DEF delivered
  <2>4. /\ mem'[t].status = mem[t].status /\ mem'[t].since = mem[t].since
        /\ mem'[t].pending = ~delivered
    BY <1>0, <2>1, AlertOutcomeFields
  <2> QED
    BY <2>2, <2>3, <2>4 DEF DeliveryHeard, HeardOrOwed
<1>9. CASE Settle(t)
  <2>1. /\ task[t].at = "settle" /\ task'[t].outcome = "none"
        /\ mem'[t].status = mem[t].status /\ mem'[t].pending = mem[t].pending
        /\ mem'[t].since = mem[t].since
        /\ \/ task[t].site = "transition"
           \/ task[t].site = "announce"
           \/ task[t].site = "reminder"
              /\ mem'[t].muted = (mem[t].muted /\ task[t].outcome # "DELIVERED")
    BY <1>0, <1>9, SettleDoes DEF Settle
  <2>2. task[t].outcome \in {"DELIVERED", "UNDELIVERED"}
    BY <1>0, <2>1 DEF SiteKnows, Outcome
  <2>3. CASE task[t].outcome = "DELIVERED"
    BY <1>0, <2>1, <2>3 DEF DeliveryHeard, HeardOrOwed
  <2>4. CASE task[t].outcome = "UNDELIVERED"
    <3>1. mem[t].pending \/ task[t].site = "reminder"
      BY <1>0, <2>1, <2>4 DEF OutcomeTrue
    <3> QED
      BY <1>0, <2>1, <2>4, <3>1 DEF DeliveryHeard, HeardOrOwed
  <2> QED
    BY <2>2, <2>3, <2>4
<1> QED
  BY <1>1, <1>2, <1>3, <1>4, <1>5, <1>6, <1>7, <1>8, <1>9 DEF CheckUrl

\* The file takes the whole memory, or nothing.
LEMMA StepFiles ==
    ASSUME OutageInv, NEW t \in Target, CheckUrl(t)
    PROVE  disk' = disk \/ disk' = mem'
<1>1. NoStore \/ \E record \in Record : Store(t, record)
  BY StepStoresDated
<1> QED
  BY <1>1 DEF NoStore, Store, WriteSync

LEMMA NextFiledInv ==
    ASSUME Maintained = {}, FiledInv, [Next]_vars
    PROVE  FiledInv'
<1> SUFFICES ASSUME NEW u \in Target
             PROVE  /\ SiteKnows(u)' /\ OutcomeTrue(u)' /\ DeliveryHeard(u)'
                    /\ HeardOrOwed(u, mem[u])' /\ HeardOrOwed(u, disk[u])'
  BY NextOutageInv, NextOrderly DEF FiledInv
<1>0. /\ OutageInv /\ Orderly
      /\ SiteKnows(u) /\ OutcomeTrue(u) /\ DeliveryHeard(u)
      /\ HeardOrOwed(u, mem[u]) /\ HeardOrOwed(u, disk[u])
  BY DEF FiledInv
<1>1. ASSUME NEW t \in Target, CheckUrl(t)
      PROVE  /\ SiteKnows(u)' /\ OutcomeTrue(u)' /\ DeliveryHeard(u)'
             /\ HeardOrOwed(u, mem[u])' /\ HeardOrOwed(u, disk[u])'
  <2>1. CASE u = t
    <3>1. SiteKnows(u)' /\ OutcomeTrue(u)'
      BY <1>0, <1>1, <2>1, StepAccounts
    <3>2. DeliveryHeard(u)' /\ HeardOrOwed(u, mem[u])'
      BY <1>1, <2>1, StepHears
    <3>3. heard[u] \subseteq heard'[u]
      BY <1>0, <1>1, <2>1, OnlyDispatchIsHeard DEF OutageInv
    <3>4. disk' = disk \/ disk' = mem'
      BY <1>0, <1>1, StepFiles
    <3>5. HeardOrOwed(u, disk[u])'
      BY <1>0, <3>2, <3>3, <3>4 DEF HeardOrOwed
    <3> QED
      BY <3>1, <3>2, <3>5
  <2>2. CASE u # t
    <3>1. /\ mem'[u] = mem[u] /\ task'[u] = task[u]
          /\ told'[u] = told[u] /\ heard'[u] = heard[u] /\ acked'[u] = acked[u]
      BY <1>0, <1>1, <2>2, CheckUrlIsLocal
    <3>2. SiteKnows(u)' /\ OutcomeTrue(u)' /\ DeliveryHeard(u)'
      BY <1>0, <3>1 DEF SiteKnows, OutcomeTrue, DeliveryHeard, InFlight
    <3>3. disk' = disk \/ disk' = mem'
      BY <1>0, <1>1, StepFiles
    <3> QED
      BY <1>0, <3>1, <3>2, <3>3 DEF HeardOrOwed
  <2> QED
    BY <2>1, <2>2
<1>2. CASE StartRound \/ FinishRound \/ Crash
  <2>1. /\ disk' = disk /\ mem' = disk /\ heard' = heard
        /\ task'[u].at \in {"probe", "idle"} /\ task'[u].outcome = "none"
    BY <1>2, NewTaskFields DEF StartRound, FinishRound, Crash, Gone, operator
  <2>2. SiteKnows(u)' /\ OutcomeTrue(u)' /\ DeliveryHeard(u)'
    BY <2>1 DEF SiteKnows, OutcomeTrue, DeliveryHeard, InFlight
  <2> QED
    BY <1>0, <2>1, <2>2 DEF HeardOrOwed
<1>3. CASE UNCHANGED <<disk, mem, task, told, heard, acked>>
  BY <1>0, <1>3 DEF SiteKnows, OutcomeTrue, DeliveryHeard, HeardOrOwed, InFlight
<1> QED
  BY <1>1, <1>2, <1>3, StepCases DEF TargetChanges, operator

\* The half of OutageOnFileTold that the file and the operator decide alone.
OnFileHeard ==
    pinged => \A t \in Target :
        disk[t].status = "DOWN" => disk[t].since \in heard[t] \/ disk[t].muted

\* What a round that vouches for itself leaves.
LEMMA NextOnFile ==
    ASSUME FiledInv, PingedBetweenRounds, OnFileHeard, [Next]_vars
    PROVE  OnFileHeard'
<1>1. CASE FinishRound
  <2> SUFFICES ASSUME pinged', NEW t \in Target, disk'[t].status = "DOWN"
               PROVE  disk'[t].since \in heard'[t] \/ disk'[t].muted
    BY DEF OnFileHeard
  <2>1. disk' = disk /\ heard' = heard /\ ~disk[t].pending
    BY <1>1 DEF FinishRound, Gone, Vouches, Undelivered, operator
  <2> QED
    BY <2>1 DEF FiledInv, HeardOrOwed
<1>2. CASE StartRound \/ Crash
  BY <1>2 DEF StartRound, Crash, OnFileHeard
<1>3. ASSUME NEW t \in Target, CheckUrl(t)
      PROVE  OnFileHeard'
  <2>1. running /\ UNCHANGED <<running, pinged>>
    BY <1>3, CheckUrlIsLocal DEF FiledInv, Orderly, CheckUrl, ObserveHealthy,
       ObserveDown, ClaimReminder, SkipReminder, AnnounceIfOwed, Mute, Unmuted,
       Dispatch, RecordOutcome, Settle
  <2> QED
    BY <2>1 DEF OnFileHeard, PingedBetweenRounds
<1>4. CASE UNCHANGED <<disk, pinged, heard>>
  BY <1>4 DEF OnFileHeard
<1> QED
  BY <1>1, <1>2, <1>3, <1>4, StepCases DEF TargetChanges, operator

\* What a coroutine past its probe alerts about is what the probe found.
SeesOutage(t) ==
    task[t].at \in {"announce", "funnel", "send"} /\ health[t] = "DOWN"
        => mem[t].status = "DOWN"

\* A record names no outage that has not happened yet.
Past(t, record) == record.since <= outage[t] /\ record.missed <= outage[t]

\* Nobody heard of a later outage than the last, and if that one was heard of and
\* goes on, it is what the operator was told last.
CurrentTold(t) ==
    /\ \A id \in heard[t] : id <= outage[t]
    /\ health[t] = "DOWN" /\ outage[t] \in heard[t] => told[t] = "DOWN"

Current(t) ==
    /\ SeesOutage(t) /\ CurrentTold(t)
    /\ Past(t, mem[t]) /\ Past(t, disk[t])

CurrentInv == OutageInv /\ Orderly /\ \A t \in Target : Current(t)

LEMMA InitCurrentInv == Init => CurrentInv
<1> SUFFICES ASSUME Init, NEW t \in Target
             PROVE  Current(t)
  BY InitSavedInv DEF CurrentInv, SavedInv
<1>1. /\ task[t].at = "idle"
      /\ disk[t] \in FirstRecord(t) /\ mem[t] = disk[t]
      /\ told[t] = ToldBefore(disk[t])
      /\ heard[t] = IF told[t] = "DOWN" THEN {disk[t].since} ELSE {}
      /\ outage[t] = IF "DOWN" \in {health[t], disk[t].status} THEN 1 ELSE 0
  BY NewTaskFields DEF Init
<1>2. /\ disk[t].missed = 0
      /\ disk[t].since = IF disk[t].status = "DOWN" THEN 1 ELSE 0
  <2>1. CASE disk[t] = Absent
    BY <2>1 DEF Absent
  <2>2. ASSUME NEW s \in Status, NEW owed \in BOOLEAN, disk[t] = LegacyRecord(s, owed)
        PROVE  /\ disk[t].missed = 0
               /\ disk[t].since = IF disk[t].status = "DOWN" THEN 1 ELSE 0
    BY <2>2 DEF LegacyRecord, Absent
  <2>3. \/ disk[t] = Absent
        \/ \E s \in Status, owed \in BOOLEAN : disk[t] = LegacyRecord(s, owed)
    BY <1>1 DEF FirstRecord, Status
  <2> QED
    BY <2>1, <2>2, <2>3
<1>3. told[t] = "DOWN" => disk[t].status = "DOWN"
  BY <1>1 DEF ToldBefore
<1> QED
  BY <1>1, <1>2, <1>3 DEF Current, SeesOutage, Past, CurrentTold

\* What the coroutine of a target leaves in memory and tells the operator.
LEMMA StepCurrent ==
    ASSUME CurrentInv, NEW t \in Target, CheckUrl(t)
    PROVE  SeesOutage(t)' /\ CurrentTold(t)' /\ Past(t, mem[t])'
<1>0. /\ TypeInv /\ mem[t] \in Record /\ task[t] \in Task
      /\ health[t] \in Status /\ outage[t] \in Nat /\ heard[t] \subseteq Nat
      /\ mem[t].since \in Nat /\ mem[t].missed \in Nat
      /\ SeesOutage(t) /\ CurrentTold(t) /\ Past(t, mem[t])
  BY DEF CurrentInv, Current, OutageInv, TypeInv, TypeOK, Record
<1>a. health'[t] = health[t] /\ outage'[t] = outage[t]
  BY CheckUrlIsLocal DEF CurrentInv
<1>b. ~Dispatch(t) => CurrentTold(t)'
  BY <1>0, <1>a, OnlyDispatchTells DEF operator, CurrentTold
<1>1. CASE ObserveHealthy(t)
  <2>1. PICK fresh \in BOOLEAN : mem'[t] = SetHealthy(mem[t], health[t], fresh)
    BY <1>0, <1>1, ObserveHealthyDoes
  <2>2. mem'[t].since = 0 /\ mem'[t].missed = MissedOutage(mem[t])
    BY <2>1 DEF SetHealthy, Observed, CarryForward, Absent
  <2>3. MissedOutage(mem[t]) \in {mem[t].since, mem[t].missed, 0}
    BY DEF MissedOutage
  <2>4. health[t] # "DOWN" /\ ~Dispatch(t)
    BY <1>1 DEF ObserveHealthy, Dispatch
  <2> QED
    BY <1>0, <1>a, <1>b, <2>2, <2>3, <2>4 DEF SeesOutage, Past
<1>2. CASE ObserveDown(t)
  <2>1. /\ mem'[t] = SetDown(mem[t], outage[t])
        /\ task'[t].at = "funnel" => DownAlertDue(mem[t])
        /\ task'[t].at # "send"
    BY <1>0, <1>2, ObserveDownDoes
  <2>2. /\ ~Dispatch(t)
        /\ task'[t].at = "announce" => mem'[t].status = "DOWN"
    BY <1>0, <1>2, <2>1, NewTaskFields DEF ObserveDown, Dispatch, TypeInv, TypeOK
  <2>3. CASE HeldByHysteresis(mem[t])
    <3>1. mem'[t].since = mem[t].since /\ mem'[t].missed = mem[t].missed
      BY <1>0, <2>1, <2>3 DEF SetDown, Record
    <3>2. ~DownAlertDue(mem[t])
      BY <2>3 DEF DownAlertDue, HeldByHysteresis
    <3> QED
      BY <1>0, <1>a, <1>b, <2>1, <2>2, <3>1, <3>2 DEF SeesOutage, Past
  <2>4. CASE ~HeldByHysteresis(mem[t])
    <3>1. /\ mem'[t].status = "DOWN" /\ mem'[t].missed = 0
          /\ mem'[t].since = IF mem[t].status = "DOWN" THEN mem[t].since
                                                       ELSE outage[t]
      BY <1>0, <2>1, <2>4, SetDownFields
    <3> QED
      BY <1>0, <1>a, <1>b, <2>2, <3>1 DEF SeesOutage, Past
  <2> QED
    BY <2>3, <2>4
<1>3. CASE ClaimReminder(t)
  <2>1. PICK due : mem'[t] = [mem[t] EXCEPT !.remind = due]
    BY <1>0, <1>3, ClaimReminderDoes
  <2>2. /\ mem'[t].status = "DOWN" /\ mem'[t].since = mem[t].since
        /\ mem'[t].missed = mem[t].missed /\ ~Dispatch(t)
    BY <1>0, <1>3, <2>1 DEF Record, ClaimReminder, Dispatch
  <2> QED
    BY <1>0, <1>a, <1>b, <2>2 DEF SeesOutage, Past
<1>4. CASE SkipReminder(t)
  <2>1. mem'[t] = mem[t] /\ ~Dispatch(t)
    BY <1>0, <1>4, SkipReminderDoes DEF SkipReminder, Dispatch
  <2>2. task'[t].at = IF mem[t].status = "DOWN" THEN "announce" ELSE "done"
    BY <1>0, <1>4, NewTaskFields DEF SkipReminder, TypeInv, TypeOK
  <2> QED
    BY <1>0, <1>a, <1>b, <2>1, <2>2 DEF SeesOutage, Past
<1>5. CASE AnnounceIfOwed(t) \/ Unmuted(t)
  <2>1. /\ mem'[t] = mem[t] /\ ~Dispatch(t)
        /\ task[t].at \in {"announce", "funnel"}
    BY <1>0, <1>5, AnnounceIfOwedDoes, UnmutedDoes
    DEF AnnounceIfOwed, Unmuted, Dispatch
  <2> QED
    BY <1>0, <1>a, <1>b, <2>1 DEF SeesOutage, Past
<1>6. CASE Mute(t)
  <2>1. /\ \/ mem'[t] = mem[t]
           \/ mem'[t] = [mem[t] EXCEPT !.pending = FALSE]
        /\ task'[t].at \in {"done", "settle"} /\ ~Dispatch(t)
    BY <1>0, <1>6, MuteDoes DEF Mute, Dispatch
  <2>2. mem'[t].since = mem[t].since /\ mem'[t].missed = mem[t].missed
    BY <1>0, <2>1 DEF Record
  <2> QED
    BY <1>0, <1>a, <1>b, <2>1, <2>2 DEF SeesOutage, Past
<1>7. CASE Dispatch(t)
  <2>a. /\ mem' = mem
        /\ task'[t].at \in {"record", "done", "settle"}
        /\ \/ /\ told'[t] = mem[t].status
              /\ heard'[t] = heard[t]
                   \union (IF mem[t].status = "DOWN" THEN {mem[t].since} ELSE {})
                   \union (IF task[t].kind = "UNANNOUNCED_OUTAGE"
                           THEN {mem[t].missed} ELSE {})
           \/ told' = told /\ heard' = heard
    BY <1>0, <1>7, DispatchDoes DEF Subject
  <2>b. task[t].at = "send"
    BY <1>7 DEF Dispatch
  <2>1. /\ mem'[t] = mem[t] /\ task[t].at = "send"
        /\ task'[t].at \notin {"announce", "funnel", "send"}
        /\ \/ /\ told'[t] = mem[t].status
              /\ heard'[t] \subseteq heard[t] \union {mem[t].since, mem[t].missed}
           \/ told'[t] = told[t] /\ heard'[t] = heard[t]
    BY <2>a, <2>b
  <2>2. health[t] = "DOWN" => mem[t].status = "DOWN"
    BY <1>0, <2>1 DEF SeesOutage
  <2>3. CurrentTold(t)'
    BY <1>0, <1>a, <2>1, <2>2 DEF CurrentTold, Past
  <2> QED
    BY <1>0, <1>a, <2>1, <2>3 DEF SeesOutage, Past
<1>8. CASE RecordOutcome(t)
  <2> DEFINE delivered == task[t].outcome = "DELIVERED"
  <2>1. /\ delivered \in BOOLEAN /\ mem'[t] = AlertOutcome(mem[t], delivered)
        /\ task'[t].at \in {"done", "settle"} /\ ~Dispatch(t)
    BY <1>0, <1>8, RecordOutcomeDoes DEF RecordOutcome, Dispatch
  <2> HIDE DEF delivered
  <2>2. mem'[t].since = mem[t].since /\ mem'[t].missed \in {0, mem[t].missed}
    BY <1>0, <2>1, AlertOutcomeFields
  <2> QED
    BY <1>0, <1>a, <1>b, <2>1, <2>2 DEF SeesOutage, Past
<1>9. CASE Settle(t)
  <2>1. /\ mem'[t].since = mem[t].since /\ mem'[t].missed = mem[t].missed
        /\ task'[t].at = "done" /\ ~Dispatch(t)
    BY <1>0, <1>9, SettleDoes DEF Settle, Dispatch
  <2> QED
    BY <1>0, <1>a, <1>b, <2>1 DEF SeesOutage, Past
<1> QED
  BY <1>1, <1>2, <1>3, <1>4, <1>5, <1>6, <1>7, <1>8, <1>9 DEF CheckUrl

LEMMA NextCurrentInv ==
    ASSUME CurrentInv, [Next]_vars
    PROVE  CurrentInv'
<1> SUFFICES ASSUME NEW u \in Target
             PROVE  SeesOutage(u)' /\ CurrentTold(u)' /\ Past(u, mem[u])'
                    /\ Past(u, disk[u])'
  BY NextOutageInv, NextOrderly DEF CurrentInv, Current
<1>0. /\ OutageInv /\ Orderly /\ outage[u] \in Nat /\ heard[u] \subseteq Nat
      /\ SeesOutage(u) /\ CurrentTold(u)
      /\ Past(u, mem[u]) /\ Past(u, disk[u])
      /\ mem[u].since \in Nat /\ mem[u].missed \in Nat
      /\ disk[u].since \in Nat /\ disk[u].missed \in Nat
  BY DEF CurrentInv, Current, OutageInv, TypeInv, TypeOK, Record
<1>1. ASSUME NEW t \in Target, CheckUrl(t)
      PROVE  SeesOutage(u)' /\ CurrentTold(u)' /\ Past(u, mem[u])'
             /\ Past(u, disk[u])'
  <2>1. outage' = outage /\ health' = health
    BY <1>0, <1>1, CheckUrlIsLocal
  <2>2. SeesOutage(u)' /\ CurrentTold(u)' /\ Past(u, mem[u])'
    <3>1. CASE u = t
      BY <1>1, <3>1, StepCurrent
    <3>2. CASE u # t
      <4>1. /\ mem'[u] = mem[u] /\ task'[u] = task[u]
            /\ told'[u] = told[u] /\ heard'[u] = heard[u]
        BY <1>0, <1>1, <3>2, CheckUrlIsLocal
      <4> QED
        BY <1>0, <2>1, <4>1 DEF SeesOutage, CurrentTold, Past
    <3> QED
      BY <3>1, <3>2
  <2>3. disk' = disk \/ disk' = mem'
    BY <1>0, <1>1, StepFiles
  <2> QED
    BY <1>0, <2>1, <2>2, <2>3 DEF Past
<1>2. CASE StartRound \/ FinishRound \/ Crash
  <2>1. /\ disk' = disk /\ mem' = disk /\ heard' = heard /\ told' = told
        /\ health' = health /\ outage' = outage
        /\ task'[u].at \in {"probe", "idle"}
    BY <1>2, NewTaskFields
    DEF StartRound, FinishRound, Crash, Gone, operator, environment
  <2> QED
    BY <1>0, <2>1 DEF SeesOutage, CurrentTold, Past
<1>3. ASSUME NEW t \in Target, TargetChanges(t)
      PROVE  SeesOutage(u)' /\ CurrentTold(u)' /\ Past(u, mem[u])'
             /\ Past(u, disk[u])'
  <2>1. /\ UNCHANGED <<disk, mem, task, told, heard>> /\ task[u].at = "idle"
        /\ \/ health'[u] = health[u] /\ outage'[u] = outage[u]
           \/ health'[u] # "DOWN" /\ outage'[u] = outage[u]
           \/ outage'[u] = outage[u] + 1
    BY <1>0, <1>3
    DEF TargetChanges, operator, Orderly, OutageInv, TypeInv, TypeOK
  <2> QED
    BY <1>0, <2>1 DEF SeesOutage, CurrentTold, Past
<1>4. CASE UNCHANGED <<health, outage, disk, mem, task, told, heard>>
  BY <1>0, <1>4 DEF SeesOutage, CurrentTold, Past
<1> QED
  BY <1>1, <1>2, <1>3, <1>4, StepCases DEF operator

\* However many writes failed before: under a heartbeat no outage is in the file
\* of which no alert ever reached the operator, nor one that goes on without being
\* what the operator was told last; for any targets, with kills, dead channels,
\* reminders and gaps, where no window mutes (_alerts_undelivered).
THEOREM OnFileTrue == Maintained = {} => (Spec => []OutageOnFileTold)
<1> SUFFICES ASSUME Maintained = {}
             PROVE  Spec => []OutageOnFileTold
  OBVIOUS
<1> DEFINE Inv == FiledInv /\ PingedBetweenRounds /\ OnFileHeard
<1>1. Init => Inv
  BY InitFiledInv DEF Init, PingedBetweenRounds, OnFileHeard
<1>2. PingedBetweenRounds /\ [Next]_vars => PingedBetweenRounds'
  BY PingedOnlyAtEnd
  DEF PingedBetweenRounds, StartRound, FinishRound, Crash, Gone
<1>3. Inv /\ [Next]_vars => Inv'
  BY <1>2, NextFiledInv, NextOnFile
<1>4. CurrentInv /\ [Next]_vars => CurrentInv'
  BY NextCurrentInv
<1>5. Inv /\ CurrentInv => OutageOnFileTold
  BY DEF OnFileHeard, CurrentInv, Current, CurrentTold, OutageOnFileTold
<1> QED
  BY <1>1, <1>3, <1>4, <1>5, InitCurrentInv, PTL DEF Spec

-----------------------------------------------------------------------------
(*                   An outage told of stays in the file                   *)

\* Past the probe notification_status is in the record.
Inferred(t) == task[t].at \notin {"idle", "probe"} => mem[t].notified \in Status

\* What the record keeps of an outage that the operator was told of.
OpenOnRecord(record) ==
    \/ record.status = "DOWN"
    \/ Notified(record) = "DOWN"
    \/ record.pending /\ record.missed # 0

OpenKept(t) == told[t] = "DOWN" => OpenOnRecord(mem[t])

\* A step that keeps what OpenOnRecord reads, with notification_status in place.
LEMMA OpenUnchanged ==
    ASSUME NEW old, NEW record,
           record.status = old.status, record.notified = old.notified,
           record.pending = old.pending, record.missed = old.missed,
           old.notified \in Status, OpenOnRecord(old)
    PROVE  OpenOnRecord(record)
  BY DEF OpenOnRecord, Notified

\* Where nothing is muted, a coroutine's step loses no outage told of.
LEMMA StepKeepsOpen ==
    ASSUME SavedInv, Maintained = {}, NEW t \in Target, SiteKnows(t),
           OutcomeTrue(t), Inferred(t), OpenKept(t), CheckUrl(t)
    PROVE  Inferred(t)' /\ OpenKept(t)'
<1>0. /\ TypeInv /\ mem[t] \in Record /\ task[t] \in Task /\ health[t] \in Status
      /\ Dated(mem[t])
  BY DEF SavedInv, OutageInv, OutagesDated, TypeInv, TypeOK
<1>a. Notified(mem[t]) \in Status
  BY <1>0, NotifiedType
<1>b. ASSUME mem'[t] = mem[t], told'[t] = told[t], mem[t].notified \in Status
      PROVE  Inferred(t)' /\ OpenKept(t)'
  BY <1>b DEF Inferred, OpenKept
<1>c. ~Dispatch(t) => told'[t] = told[t]
  BY OnlyDispatchTells DEF operator
<1>1. CASE ObserveHealthy(t)
  <2>0. told'[t] = told[t]
    BY <1>1, <1>c DEF ObserveHealthy, Dispatch
  <2>1. PICK fresh \in BOOLEAN : mem'[t] = SetHealthy(mem[t], health[t], fresh)
    BY <1>0, <1>1, ObserveHealthyDoes
  <2>2. /\ mem'[t].notified = Notified(mem[t])
        /\ mem'[t].pending = AlertDue(mem[t], health[t], fresh)
        /\ mem'[t].missed = MissedOutage(mem[t])
    BY <1>0, <2>1, SetHealthyFields
  <2>3. MissedOutage(mem[t]) # 0 => AlertDue(mem[t], health[t], fresh)
    BY DEF AlertDue
  <2>4. ASSUME told[t] = "DOWN", Notified(mem[t]) # "DOWN"
        PROVE  MissedOutage(mem[t]) # 0
    BY <1>0, <2>4 DEF OpenKept, OpenOnRecord, MissedOutage, Dated
  <2>5. mem'[t].notified \in Status
    BY <1>a, <2>2
  <2>6. Notified(mem'[t]) = Notified(mem[t])
    BY <2>2, <2>5 DEF Notified
  <2>7. told[t] = "DOWN" => OpenOnRecord(mem'[t])
    BY <2>2, <2>3, <2>4, <2>6 DEF OpenOnRecord
  <2> QED
    BY <2>0, <2>5, <2>7 DEF Inferred, OpenKept
<1>2. CASE ObserveDown(t)
  <2>0. told'[t] = told[t]
    BY <1>2, <1>c DEF ObserveDown, Dispatch
  <2>1. mem'[t] = SetDown(mem[t], outage[t])
    BY <1>0, <1>2, ObserveDownDoes
  <2>2. CASE HeldByHysteresis(mem[t])
    <3>1. /\ mem'[t].status = mem[t].status /\ mem'[t].notified = Notified(mem[t])
          /\ mem'[t].pending = mem[t].pending /\ mem'[t].missed = mem[t].missed
      BY <1>0, <2>1, <2>2, SetDownHeldFields
    <3>2. Notified(mem'[t]) = Notified(mem[t])
      BY <1>a, <3>1 DEF Notified
    <3> QED
      BY <1>a, <2>0, <3>1, <3>2 DEF Inferred, OpenKept, OpenOnRecord
  <2>3. CASE ~HeldByHysteresis(mem[t])
    <3>1. mem'[t].status = "DOWN" /\ mem'[t].notified = Notified(mem[t])
      BY <1>0, <2>1, <2>3, SetDownFields
    <3> QED
      BY <1>a, <3>1 DEF Inferred, OpenKept, OpenOnRecord
  <2> QED
    BY <2>2, <2>3
<1>3. CASE ClaimReminder(t)
  <2>0. told'[t] = told[t]
    BY <1>3, <1>c DEF ClaimReminder, Dispatch
  <2>1. PICK due : mem'[t] = [mem[t] EXCEPT !.remind = due]
    BY <1>0, <1>3, ClaimReminderDoes
  <2>2. /\ mem'[t].status = mem[t].status /\ mem'[t].notified = mem[t].notified
        /\ mem'[t].pending = mem[t].pending /\ mem'[t].missed = mem[t].missed
    BY <1>0, <2>1 DEF Record
  <2>3. mem[t].notified \in Status
    BY <1>3 DEF ClaimReminder, Inferred
  <2> QED
    BY <2>0, <2>2, <2>3, OpenUnchanged DEF Inferred, OpenKept
<1>4. CASE SkipReminder(t) \/ AnnounceIfOwed(t) \/ Unmuted(t)
  <2>1. task[t].at \in {"remind", "announce", "funnel"}
    BY <1>4 DEF SkipReminder, AnnounceIfOwed, Unmuted
  <2>2. mem'[t] = mem[t] /\ told'[t] = told[t]
    BY <1>4, <2>1, <1>c DEF SkipReminder, AnnounceIfOwed, Unmuted, NoStore, operator
  <2> QED
    BY <1>b, <2>1, <2>2 DEF Inferred
<1>5. CASE Mute(t)
  BY <1>5 DEF Mute, SavedInv, Orderly
<1>6. CASE Dispatch(t)
  <2>1. mem'[t] = mem[t] /\ task[t].at = "send"
    BY <1>6 DEF Dispatch, NoStore
  <2>2. told'[t] = mem[t].status \/ told'[t] = told[t]
    BY <1>0, <1>6, DispatchDoes DEF operator
  <2> QED
    BY <1>b, <2>1, <2>2 DEF Inferred, OpenKept, OpenOnRecord
<1>7. CASE RecordOutcome(t)
  <2> DEFINE delivered == task[t].outcome = "DELIVERED"
  <2>0. told'[t] = told[t] /\ task[t].at = "record"
    BY <1>7, <1>c DEF RecordOutcome, Dispatch
  <2>1. delivered \in BOOLEAN /\ mem'[t] = AlertOutcome(mem[t], delivered)
    BY <1>0, <1>7, RecordOutcomeDoes
  <2>2. delivered => told[t] = mem[t].status
    BY <2>0 DEF OutcomeTrue
  <2>3. mem[t].notified \in Status
    BY <2>0 DEF Inferred
  <2> HIDE DEF delivered
  <2>4. /\ mem'[t].status = mem[t].status
        /\ mem'[t].pending = ~delivered
        /\ ~delivered => mem'[t].missed = mem[t].missed
        /\ mem'[t].notified = IF delivered THEN mem[t].status ELSE mem[t].notified
    BY <1>0, <2>1, <2>3, AlertOutcomeFields
  <2>5. mem'[t].notified \in Status
    <3>1. mem[t].status = "ABSENT" => ~delivered
      BY <1>0, <2>2 DEF TypeInv, TypeOK, Status
    <3> QED
      BY <1>0, <2>3, <2>4, <3>1 DEF Record
  <2>6. CASE delivered
    BY <2>0, <2>2, <2>4, <2>5, <2>6 DEF Inferred, OpenKept, OpenOnRecord
  <2>7. CASE ~delivered
    <3>1. Notified(mem'[t]) = Notified(mem[t])
      BY <2>3, <2>4, <2>7 DEF Notified
    <3> QED
      BY <2>0, <2>4, <2>5, <2>7, <3>1 DEF Inferred, OpenKept, OpenOnRecord
  <2> QED
    BY <2>6, <2>7
<1>8. CASE Settle(t)
  <2>0. told'[t] = told[t] /\ task[t].at = "settle"
    BY <1>8, <1>c DEF Settle, Dispatch
  <2>1. /\ mem'[t].status = mem[t].status /\ mem'[t].notified = mem[t].notified
        /\ mem'[t].pending = mem[t].pending /\ mem'[t].missed = mem[t].missed
    BY <1>0, <1>8, SettleDoes
  <2>2. mem[t].notified \in Status
    BY <2>0 DEF Inferred
  <2> QED
    BY <2>0, <2>1, <2>2, OpenUnchanged DEF Inferred, OpenKept
<1> QED
  BY <1>1, <1>2, <1>3, <1>4, <1>5, <1>6, <1>7, <1>8 DEF CheckUrl

OpenInv == ContractInv /\ \A t \in Target : Inferred(t) /\ OpenKept(t)

LEMMA InitOpenInv == Init => OpenInv
<1> SUFFICES ASSUME Init, NEW t \in Target
             PROVE  Inferred(t) /\ OpenKept(t)
  BY InitContractInv DEF OpenInv
<1>1. /\ task[t].at = "idle" /\ mem[t] = disk[t]
      /\ told[t] = ToldBefore(disk[t])
  BY NewTaskFields DEF Init
<1> QED
  BY <1>1 DEF Inferred, OpenKept, OpenOnRecord, ToldBefore

LEMMA NextOpenInv ==
    ASSUME ~WritesMayFail, Maintained = {}, OpenInv, [Next]_vars
    PROVE  OpenInv'
<1> USE DEF OpenInv
<1> SUFFICES ASSUME NEW u \in Target
             PROVE  Inferred(u)' /\ OpenKept(u)'
  BY NextContractInv
<1>1. ASSUME NEW t \in Target, CheckUrl(t)
      PROVE  Inferred(u)' /\ OpenKept(u)'
  <2>1. CASE u = t
    BY <1>1, <2>1, StepKeepsOpen DEF ContractInv
  <2>2. CASE u # t
    <3>1. mem'[u] = mem[u] /\ task'[u] = task[u] /\ told'[u] = told[u]
      BY <1>1, <2>2, CheckUrlIsLocal DEF ContractInv, SavedInv
    <3> QED
      BY <3>1 DEF Inferred, OpenKept
  <2> QED
    BY <2>1, <2>2
<1>2. ASSUME StartRound \/ FinishRound \/ Crash
      PROVE  Inferred(u)' /\ OpenKept(u)'
  <2>1. mem' = mem /\ told' = told /\ task'[u].at \in {"probe", "idle"}
    BY <1>2, NewTaskFields
    DEF StartRound, FinishRound, Crash, Gone, operator, ContractInv, SavedInv, Saved
  <2> QED
    BY <2>1 DEF Inferred, OpenKept
<1>3. ASSUME UNCHANGED <<mem, task, told>>
      PROVE  Inferred(u)' /\ OpenKept(u)'
  BY <1>3 DEF Inferred, OpenKept
<1> QED
  BY <1>1, <1>2, <1>3, StepCases DEF TargetChanges, operator

-----------------------------------------------------------------------------
(*                 What came back as lost, but reached someone             *)

\* An outage, or its end, that the operator saw in an alert that came back as
\* lost, or was confirmed before one: the record still has what there is to tell,
\* and owes it from earlier than this round.
DoubtOwed(t) ==
    told[t] # acked[t] /\ "DOWN" \in {told[t], acked[t]} =>
        /\ OpenOnRecord(mem[t])
        /\ task[t].at = "record" \/ (mem[t].pending /\ t \notin armed)

LEMMA StepKeepsDoubt ==
    ASSUME ConfirmedInv, RemindersUnmuted, NEW t \in Target, DoubtOwed(t), CheckUrl(t)
    PROVE  DoubtOwed(t)'
<1>0. /\ TypeInv /\ mem[t] \in Record /\ task[t] \in Task /\ health[t] \in Status
      /\ Dated(mem[t]) /\ Accounted(t) /\ Marked(t) /\ ConfirmedIsNotified(t)
      /\ SiteKnows(t) /\ OutcomeTrue(t)
  BY DEF ConfirmedInv, HonestInv, SavedInv, OutageInv, OutagesDated, Accounted, TypeInv, TypeOK
<1>a. Notified(mem[t]) \in Status
  BY <1>0, NotifiedType
<1>c. ~Dispatch(t) => told'[t] = told[t] /\ acked'[t] = acked[t]
  BY OnlyDispatchTells DEF operator
<1>1. CASE ObserveHealthy(t)
  <2>0. task[t].at = "probe" /\ ~Dispatch(t)
    BY <1>1 DEF ObserveHealthy, Dispatch
  <2>1. PICK fresh \in BOOLEAN : mem'[t] = SetHealthy(mem[t], health[t], fresh)
    BY <1>0, <1>1, ObserveHealthyDoes
  <2>2. /\ mem'[t].notified = Notified(mem[t])
        /\ mem'[t].pending = AlertDue(mem[t], health[t], fresh)
        /\ mem'[t].missed = MissedOutage(mem[t])
    BY <1>0, <2>1, SetHealthyFields
  <2>3. ASSUME mem[t].pending, OpenOnRecord(mem[t])
        PROVE  OpenOnRecord(mem'[t]) /\ mem'[t].pending
    <3>1. Notified(mem'[t]) = Notified(mem[t])
      BY <1>a, <2>2 DEF Notified
    <3>2. Notified(mem[t]) = "DOWN" \/ MissedOutage(mem[t]) # 0
      BY <1>0, <2>3 DEF OpenOnRecord, MissedOutage, Dated
    <3>3. mem'[t].pending
      BY <2>2, <3>2 DEF AlertDue
    <3> QED
      BY <2>2, <3>1, <3>2, <3>3 DEF OpenOnRecord
  <2>4. mem[t].pending => armed' = armed
    BY <1>1 DEF ObserveHealthy, Arm
  <2> QED
    BY <1>c, <2>0, <2>3, <2>4 DEF DoubtOwed
<1>2. CASE ObserveDown(t)
  <2>0. task[t].at = "probe" /\ ~Dispatch(t)
    BY <1>2 DEF ObserveDown, Dispatch
  <2>1. mem'[t] = SetDown(mem[t], outage[t])
    BY <1>0, <1>2, ObserveDownDoes
  <2>2. mem[t].pending => armed' = armed
    BY <1>2 DEF ObserveDown, Arm
  <2>3. ASSUME mem[t].pending, OpenOnRecord(mem[t])
        PROVE  OpenOnRecord(mem'[t]) /\ mem'[t].pending
    <3>1. CASE HeldByHysteresis(mem[t])
      <4>1. /\ mem'[t].status = mem[t].status /\ mem'[t].notified = Notified(mem[t])
            /\ mem'[t].pending = mem[t].pending /\ mem'[t].missed = mem[t].missed
        BY <1>0, <2>1, <3>1, SetDownHeldFields
      <4>2. Notified(mem'[t]) = Notified(mem[t])
        BY <1>a, <4>1 DEF Notified
      <4> QED
        BY <2>3, <4>1, <4>2 DEF OpenOnRecord
    <3>2. CASE ~HeldByHysteresis(mem[t])
      <4>1. DownAlertDue(mem[t])
        BY <2>3, <3>2 DEF DownAlertDue
      <4>2. mem'[t].status = "DOWN" /\ mem'[t].pending = DownAlertDue(mem[t])
        BY <1>0, <2>1, <3>2, SetDownFields
      <4> QED
        BY <4>1, <4>2 DEF OpenOnRecord
    <3> QED
      BY <3>1, <3>2
  <2> QED
    BY <1>c, <2>0, <2>2, <2>3 DEF DoubtOwed
<1>3. CASE ClaimReminder(t)
  <2>0. /\ task[t].at = "remind" /\ ~Dispatch(t) /\ armed' = armed
        /\ mem[t].notified \in Status
    BY <1>0, <1>3 DEF ClaimReminder, Dispatch, ConfirmedIsNotified
  <2>1. PICK due : mem'[t] = [mem[t] EXCEPT !.remind = due]
    BY <1>0, <1>3, ClaimReminderDoes
  <2>2. /\ mem'[t].status = mem[t].status /\ mem'[t].notified = mem[t].notified
        /\ mem'[t].pending = mem[t].pending /\ mem'[t].missed = mem[t].missed
    BY <1>0, <2>1 DEF Record
  <2>3. OpenOnRecord(mem[t]) => OpenOnRecord(mem'[t])
    BY <2>0, <2>2, OpenUnchanged
  <2> QED
    BY <1>c, <2>0, <2>2, <2>3 DEF DoubtOwed
<1>4. CASE SkipReminder(t) \/ AnnounceIfOwed(t) \/ Unmuted(t)
  <2>1. /\ task[t].at # "record" /\ armed' = armed /\ mem' = mem /\ ~Dispatch(t)
    BY <1>4 DEF SkipReminder, AnnounceIfOwed, Unmuted, Dispatch, NoStore
  <2> QED
    BY <1>c, <2>1 DEF DoubtOwed
<1>5. CASE Mute(t)
  <2>1. /\ task[t].at = "funnel" /\ ~Dispatch(t) /\ armed' \subseteq armed
        /\ t \notin armed => mem' = mem
    BY <1>5 DEF Mute, TakesBack, NoStore, Dispatch
  <2> QED
    BY <1>c, <2>1 DEF DoubtOwed
<1>6. CASE Dispatch(t)
  <2>1. /\ mem' = mem /\ task[t].at = "send" /\ armed' = armed
        /\ task[t].kind \in StatusKind => task'[t].at = "record"
        /\ \/ told'[t] = acked'[t]
           \/ told'[t] = mem[t].status /\ acked'[t] = acked[t]
           \/ told'[t] = told[t] /\ acked'[t] = acked[t]
    BY <1>0, <1>6, DispatchDoes DEF Dispatch
  <2>2. CASE task[t].kind \in StatusKind
    <3>1. acked[t] = Notified(mem[t])
      BY <1>0, <2>1 DEF ConfirmedIsNotified, RecordsDelivery
    <3> QED
      BY <2>1, <2>2, <3>1 DEF DoubtOwed, OpenOnRecord
  <2>3. CASE task[t].kind \notin StatusKind
    <3>1. task[t].site = "reminder"
      BY <1>0, <2>1, <2>3 DEF SiteKnows, InFlight
    <3>2. acked[t] = "DOWN" /\ mem[t].status = "DOWN"
      BY <1>0, <3>1, ReminderRepeats
    <3> QED
      BY <2>1, <3>2 DEF DoubtOwed
  <2> QED
    BY <2>2, <2>3
<1>7. CASE RecordOutcome(t)
  <2> DEFINE delivered == task[t].outcome = "DELIVERED"
  <2>0. task[t].at = "record" /\ ~Dispatch(t) /\ t \notin armed'
    BY <1>7 DEF RecordOutcome, Dispatch
  <2>1. delivered \in BOOLEAN /\ mem'[t] = AlertOutcome(mem[t], delivered)
    BY <1>0, <1>7, RecordOutcomeDoes
  <2>2. delivered => told[t] = acked[t]
    BY <1>0, <2>0 DEF OutcomeTrue
  <2>3. mem[t].notified \in Status
    BY <1>0, <2>0 DEF ConfirmedIsNotified
  <2> HIDE DEF delivered
  <2>4. CASE delivered
    BY <1>c, <2>0, <2>2, <2>4 DEF DoubtOwed
  <2>5. CASE ~delivered
    <3>1. /\ mem'[t].status = mem[t].status
          /\ mem'[t].pending = ~delivered
          /\ mem'[t].missed = IF delivered THEN 0 ELSE mem[t].missed
          /\ mem'[t].notified = IF delivered THEN mem[t].status ELSE mem[t].notified
      BY <1>0, <2>1, <2>3, AlertOutcomeFields
    <3>2. OpenOnRecord(mem[t]) => OpenOnRecord(mem'[t])
      BY <2>3, <2>5, <3>1 DEF OpenOnRecord, Notified
    <3> QED
      BY <1>c, <2>0, <2>5, <3>1, <3>2 DEF DoubtOwed
  <2> QED
    BY <2>4, <2>5
<1>8. CASE Settle(t)
  <2>0. task[t].at = "settle" /\ ~Dispatch(t) /\ armed' = armed
    BY <1>8 DEF Settle, Dispatch
  <2>1. /\ mem'[t].status = mem[t].status /\ mem'[t].notified = mem[t].notified
        /\ mem'[t].pending = mem[t].pending /\ mem'[t].missed = mem[t].missed
    BY <1>0, <1>8, SettleDoes
  <2>2. OpenOnRecord(mem[t]) => OpenOnRecord(mem'[t])
    BY <1>0, <2>0, <2>1, OpenUnchanged DEF ConfirmedIsNotified
  <2> QED
    BY <1>c, <2>0, <2>1, <2>2 DEF DoubtOwed
<1> QED
  BY <1>1, <1>2, <1>3, <1>4, <1>5, <1>6, <1>7, <1>8 DEF CheckUrl

DoubtInv == ConfirmedInv /\ \A t \in Target : DoubtOwed(t)

LEMMA InitDoubtInv == Init => DoubtInv
  BY InitConfirmedInv DEF DoubtInv, DoubtOwed, Init

LEMMA NextDoubtInv ==
    ASSUME ~WritesMayFail, ~MayCrash, RemindersUnmuted, DoubtInv, [Next]_vars
    PROVE  DoubtInv'
<1> USE DEF DoubtInv
<1> SUFFICES ASSUME NEW u \in Target
             PROVE  DoubtOwed(u)'
  BY NextConfirmedInv
<1>1. ASSUME NEW t \in Target, CheckUrl(t)
      PROVE  DoubtOwed(u)'
  <2>1. CASE u = t
    BY <1>1, <2>1, StepKeepsDoubt
  <2>2. CASE u # t
    <3>1. /\ mem'[u] = mem[u] /\ task'[u] = task[u] /\ told'[u] = told[u]
          /\ acked'[u] = acked[u] /\ (u \in armed' <=> u \in armed)
      BY <1>1, <2>2, CheckUrlIsLocal, ArmsOwn DEF ConfirmedInv, HonestInv, SavedInv
    <3> QED
      BY <3>1 DEF DoubtOwed, OpenOnRecord, Notified
  <2> QED
    BY <2>1, <2>2
<1>2. ASSUME StartRound \/ FinishRound
      PROVE  DoubtOwed(u)'
  <2>1. mem' = mem /\ told' = told /\ acked' = acked /\ armed' = {}
    BY <1>2 DEF StartRound, FinishRound, Gone, operator, ConfirmedInv, HonestInv,
                SavedInv, Saved
  <2>2. task[u].at # "record"
    BY <1>2 DEF StartRound, FinishRound, ConfirmedInv, HonestInv, SavedInv, Orderly
  <2> QED
    BY <2>1, <2>2 DEF DoubtOwed
<1>3. ASSUME UNCHANGED <<mem, task, told, acked, armed>>
      PROVE  DoubtOwed(u)'
  BY <1>3 DEF DoubtOwed, OpenOnRecord, Notified
<1>4. Environment \/ UNCHANGED vars => UNCHANGED <<mem, task, told, acked, armed>>
  BY DEF Environment, TargetChanges, WindowToggles, ChannelsToggle, vars, operator
<1> QED
  BY <1>1, <1>2, <1>3, <1>4 DEF Next, Monitor, Crash

\* notification_status is what was confirmed last, or the record owes an alert;
\* and of outages it is what the operator was really told last, also by alerts
\* that came back as lost: for any number of targets, windows, gaps, dead channels
\* and records of older versions, and reminders where there are no windows
\* (record_alert_outcome, _performance_decision, set_down).
THEOREM NotifiedTrue ==
    ~WritesMayFail /\ ~MayCrash /\ RemindersUnmuted
        => (Spec => []NotifiedWasTold)
<1> SUFFICES ASSUME ~WritesMayFail, ~MayCrash, RemindersUnmuted
             PROVE  Spec => []NotifiedWasTold
  OBVIOUS
<1>1. DoubtInv /\ [Next]_vars => DoubtInv'
  BY NextDoubtInv
<1>2. DoubtInv => NotifiedWasTold
  <2> SUFFICES ASSUME DoubtInv, NEW t \in Target, ~mem[t].pending, ~mem[t].muted
               PROVE  /\ Notified(mem[t]) = acked[t]
                      /\ "DOWN" \in {Notified(mem[t]), told[t]}
                            => Notified(mem[t]) = told[t]
    BY DEF NotifiedWasTold, DoubtInv, ConfirmedInv, HonestInv, SavedInv, Saved
  <2>1. OwedInMemory /\ SiteKnows(t) /\ ConfirmedIsNotified(t) /\ DoubtOwed(t)
    BY DEF DoubtInv, ConfirmedInv, HonestInv, SavedInv, ObligationInv, Accounted
  <2>2. task[t].at # "record"
    BY <2>1 DEF OwedInMemory, SiteKnows, InFlight
  <2> QED
    BY <2>1, <2>2 DEF ConfirmedIsNotified, RecordsDelivery, DoubtOwed
<1> QED
  BY <1>1, <1>2, InitDoubtInv, PTL DEF Spec

\* The file can close every outage that the operator was told of last: either
\* nothing is killed, and notification_status says DOWN or is about to; or nothing
\* is muted, and what a kill leaves unrecorded is caught up (MissedOutage).
THEOREM OpenTrue ==
    ~WritesMayFail /\ KilledOutsideWindows /\ RemindersUnmuted
        => (Spec => []OpenOutageOnFile)
<1> SUFFICES ASSUME ~WritesMayFail, KilledOutsideWindows, RemindersUnmuted
             PROVE  Spec => []OpenOutageOnFile
  OBVIOUS
<1>1. CASE MayCrash
  <2>1. OpenInv /\ [Next]_vars => OpenInv'
    BY <1>1, NextOpenInv DEF KilledOutsideWindows
  <2>2. OpenInv => OpenOutageOnFile
    BY DEF OpenInv, ContractInv, SavedInv, Saved, OpenKept, OpenOnRecord,
           OpenOutageOnFile
  <2> QED
    BY <2>1, <2>2, InitOpenInv, PTL DEF Spec
<1>2. CASE ~MayCrash
  <2>1. DoubtInv /\ [Next]_vars => DoubtInv'
    BY <1>2, NextDoubtInv
  <2>2. DoubtInv => OpenOutageOnFile
    <3> SUFFICES ASSUME DoubtInv, NEW t \in Target, told[t] = "DOWN"
                 PROVE  OpenOnRecord(mem[t])
      BY DEF OpenOutageOnFile, OpenOnRecord, DoubtInv, ConfirmedInv, HonestInv,
             SavedInv, Saved
    <3> QED
      BY DEF DoubtInv, DoubtOwed, ConfirmedInv, ConfirmedIsNotified, OpenOnRecord
  <2> QED
    BY <2>1, <2>2, InitDoubtInv, PTL DEF Spec
<1> QED
  BY <1>1, <1>2

=============================================================================
