--------------------------- MODULE AlertLifecycle ---------------------------
(***************************************************************************)
(* The monitor's rounds: every watched target is probed, its record in     *)
(* state.json replaced, and a status alert decided, muted or dispatched,   *)
(* its outcome written back (main.py: check_url, StateManager,             *)
(* _alert_unless_muted, _announce_if_owed, run_health_checks).             *)
(*                                                                         *)
(* One action per stretch of a check_url coroutine between two points at   *)
(* which another coroutine may run or the process may be killed: each      *)
(* StateManager call (atomic under its lock, one write of the WHOLE file), *)
(* each dispatch.  Certificate and trend alerts, history and pruning are   *)
(* not part of this module.                                                *)
(***************************************************************************)
EXTENDS StatusRecord

CONSTANTS
    Target,          \* the watched URLs
    Maintained,      \* targets with maintenance windows configured
    Reminded,        \* targets with remind: true
    Upgraded,        \* targets whose record may predate notification_status
    MayCrash,        \* the process may be killed during a round
    WritesMayFail,   \* _write_sync may hit an OSError
    GapsMayHappen,   \* rounds may be more than PERFORMANCE_MAX_GAP_S apart
    MaxOutages,      \* bound: how often a target goes down
    MaxReminders     \* bound: how far reminders_due counts

ASSUME LifecycleAssumption ==
    /\ Maintained \subseteq Target
    /\ Reminded \subseteq Target
    /\ Upgraded \subseteq Target
    /\ MayCrash \in BOOLEAN
    /\ WritesMayFail \in BOOLEAN
    /\ GapsMayHappen \in BOOLEAN
    /\ MaxOutages \in Nat \ {0}
    /\ MaxReminders \in Nat

VARIABLES
    \* the environment
    health,        \* what a probe of the target would find now
    outage,        \* how often the target has gone down; names its outage
    window,        \* targets inside one of their maintenance windows
    channelsUp,    \* would at least one channel confirm a delivery now?
    \* the monitor
    disk,          \* state.json
    running,       \* is a round in progress?
    mem,           \* StateManager._state of the running process
    armed,         \* StateManager._armed_by_transition
    writeFailed,   \* StateManager.write_failures > 0
    advisoryLost,  \* StateManager.undelivered_advisory is not empty
    task,          \* each target's check_url coroutine
    pinged,        \* did the round that just ended send its heartbeat?
    \* the operator (observed, not implemented)
    told,          \* the status in the last alert that reached the operator
    heard,         \* the outages of which any alert did
    acked,         \* the status in the last alert a channel confirmed
    ackedOf        \* the outages of which any alert was confirmed

environment == <<health, outage, window, channelsUp>>
operator == <<told, heard, acked, ackedOf>>
vars == <<environment, disk, running, mem, armed, writeFailed, advisoryLost,
          task, pinged, operator>>

-----------------------------------------------------------------------------
StatusKind == {"FAILURE", "RECOVERY", "PERFORMANCE_RECOVERY", "DEGRADED",
               "UNANNOUNCED_OUTAGE"}       \* _STATUS_ALERT_KINDS
Kind == StatusKind \union {"STILL_DOWN"}
Outcome == {"DELIVERED", "MUTED", "UNDELIVERED"}

\* Where a coroutine is, the alert it carries, the call site in check_url the
\* outcome returns to, and the reminder step it claimed.
Step == {"idle", "probe", "remind", "announce", "funnel", "send", "record",
         "settle", "done"}
Site == {"recovery", "transition", "announce", "reminder"}
Task == [ at      : Step,
          kind    : Kind \union {"none"},
          site    : Site \union {"none"},
          outcome : Outcome \union {"none"},
          claim   : [from : Nat, to : Nat] ]

At(step) == [at |-> step, kind |-> "none", site |-> "none",
             outcome |-> "none", claim |-> [from |-> 0, to |-> 0]]
Carrying(kind, site) == [At("funnel") EXCEPT !.kind = kind, !.site = site]

InFlight(t) == task[t].at \in {"funnel", "send", "record"}

\* What the file holds before the first round: nothing, or the record of an
\* older version that told the operator its status, or lost its FAILURE.
LegacyRecord(s, owed) ==
    [Absent EXCEPT !.status = s, !.pending = owed,
                   !.failures = IF s = "DOWN" THEN 1 ELSE 0,
                   !.since = IF s = "DOWN" THEN 1 ELSE 0]

FirstRecord(t) ==
    {Absent} \union
    IF t \in Upgraded
    THEN {LegacyRecord(s, FALSE) : s \in Status} \union
         {LegacyRecord("DOWN", TRUE)}
    ELSE {}

ToldBefore(record) ==
    IF record.status \in Status /\ ~record.pending THEN record.status ELSE "UP"

Init ==
    /\ health \in [Target -> Status]
    /\ window = {}
    /\ channelsUp = TRUE
    /\ disk \in {d \in [Target -> UNION {FirstRecord(t) : t \in Target}] :
                    \A t \in Target : d[t] \in FirstRecord(t)}
    /\ outage = [t \in Target |->
                    IF "DOWN" \in {health[t], disk[t].status} THEN 1 ELSE 0]
    /\ running = FALSE
    /\ mem = disk
    /\ armed = {}
    /\ writeFailed = FALSE
    /\ advisoryLost = FALSE
    /\ task = [t \in Target |-> At("idle")]
    /\ pinged = FALSE
    /\ told = [t \in Target |-> ToldBefore(disk[t])]
    /\ heard = [t \in Target |-> IF told[t] = "DOWN" THEN {disk[t].since}
                                                        ELSE {}]
    /\ acked = told
    /\ ackedOf = heard

-----------------------------------------------------------------------------
(*                             The environment                             *)

\* A target changes between two rounds; a change during a round is seen by
\* this round's probe or by the next one's.
TargetChanges(t) ==
    /\ ~running
    /\ \E s \in Status \ {health[t]} :
          /\ s = "DOWN" => outage[t] < MaxOutages
          /\ health' = [health EXCEPT ![t] = s]
          /\ outage' = [outage EXCEPT ![t] = IF s = "DOWN" THEN @ + 1 ELSE @]
    /\ UNCHANGED <<window, channelsUp, disk, running, mem, armed, writeFailed,
                   advisoryLost, task, pinged, operator>>

WindowToggles(t) ==
    /\ t \in Maintained
    /\ window' = IF t \in window THEN window \ {t} ELSE window \union {t}
    /\ UNCHANGED <<health, outage, channelsUp, disk, running, mem, armed,
                   writeFailed, advisoryLost, task, pinged, operator>>

ChannelsToggle ==
    /\ channelsUp' = ~channelsUp
    /\ UNCHANGED <<health, outage, window, disk, running, mem, armed,
                   writeFailed, advisoryLost, task, pinged, operator>>

-----------------------------------------------------------------------------
(*                          StateManager's writes                          *)

\* _write_sync: the whole map reaches the file, or the failure is counted.
WriteSync ==
    \/ disk' = mem' /\ UNCHANGED writeFailed
    \/ WritesMayFail /\ writeFailed' = TRUE /\ UNCHANGED disk

Store(t, record) ==
    /\ mem' = [mem EXCEPT ![t] = record]
    /\ WriteSync

\* A setter that returns early changes and writes nothing.
NoStore == UNCHANGED <<mem, disk, writeFailed>>

\* Fault: what an earlier round left owed counts as this one's decision.
ArmAgain(t, due) == armed' = IF due THEN armed \union {t} ELSE armed

\* _arm, on the record a setter is about to store.
Arm(t, due) ==
    armed' = IF due /\ ~mem[t].pending THEN armed \union {t} ELSE armed

-----------------------------------------------------------------------------
(*                         The check_url coroutine                         *)

\* The probe found the target up or degraded: set_up / set_degraded, then
\* status_alert picks the kind (recovery_kind was read before set_up).
HealthyKind(old, s) ==
    IF MissedOutage(old) # 0 THEN "UNANNOUNCED_OUTAGE"
    ELSE IF s = "DEGRADED" THEN "DEGRADED"
    ELSE IF old.notified = "DEGRADED" THEN "PERFORMANCE_RECOVERY"
    ELSE "RECOVERY"

ObserveHealthy(t) ==
    LET s == health[t] IN
    /\ task[t].at = "probe"
    /\ s \in {"UP", "DEGRADED"}
    /\ \E fresh \in {TRUE, ~GapsMayHappen} :
          LET due == AlertDue(mem[t], s, fresh) IN
          /\ Store(t, SetHealthy(mem[t], s, fresh))
          /\ Arm(t, due)
          /\ task' = [task EXCEPT ![t] =
                IF due
                THEN Carrying(HealthyKind(mem[t], s),
                              IF s = "UP" THEN "recovery" ELSE "transition")
                ELSE At(IF s = "UP" THEN "done" ELSE "announce")]
    /\ UNCHANGED <<environment, running, advisoryLost, pinged, operator>>

\* Every attempt of the probe failed: set_down.
ObserveDown(t) ==
    LET record == SetDown(mem[t], outage[t])
        due == DownAlertDue(mem[t])
    IN
    /\ task[t].at = "probe"
    /\ health[t] = "DOWN"
    /\ Store(t, record)
    /\ Arm(t, due)
    /\ task' = [task EXCEPT ![t] =
          IF due THEN Carrying("FAILURE", "transition")
          ELSE IF t \in Reminded THEN At("remind")
          ELSE IF record.status = "DOWN" THEN At("announce")
          ELSE At("done")]
    /\ UNCHANGED <<environment, running, advisoryLost, pinged, operator>>

\* claim_reminder_step: a due reminder is consumed before it is sent.
ClaimReminder(t) ==
    /\ task[t].at = "remind"
    /\ t \notin window
    /\ mem[t].status = "DOWN"
    /\ \E due \in mem[t].remind + 1 .. MaxReminders :
          /\ Store(t, [mem[t] EXCEPT !.remind = due])
          /\ task' = [task EXCEPT ![t] =
                [Carrying("STILL_DOWN", "reminder") EXCEPT
                    !.claim = [from |-> mem[t].remind, to |-> due]]]
    /\ UNCHANGED <<environment, running, armed, advisoryLost, pinged, operator>>

\* No reminder this run: muted, none due yet, or DOWN is not confirmed.
SkipReminder(t) ==
    /\ task[t].at = "remind"
    /\ task' = [task EXCEPT ![t] =
          At(IF mem[t].status = "DOWN" THEN "announce" ELSE "done")]
    /\ NoStore
    /\ UNCHANGED <<environment, running, armed, advisoryLost, pinged, operator>>

\* _announce_if_owed, up to its call of the funnel.
AnnounceIfOwed(t) ==
    /\ task[t].at = "announce"
    /\ task' = [task EXCEPT ![t] =
          IF mem[t].muted /\ t \notin window
          THEN Carrying(IF mem[t].status = "DOWN" THEN "FAILURE"
                                                  ELSE "DEGRADED", "announce")
          ELSE At("done")]
    /\ NoStore
    /\ UNCHANGED <<environment, running, armed, advisoryLost, pinged, operator>>

-----------------------------------------------------------------------------
(*                    The funnel, _alert_unless_muted                      *)

\* Only the recovery call site ignores the outcome.
Returned(t, outcome) ==
    [task[t] EXCEPT !.outcome = outcome,
                    !.at = IF task[t].site = "recovery" THEN "done"
                                                        ELSE "settle"]

\* release_muted_status_alert takes back only what this transition armed.
TakesBack(t) == task[t].kind \in StatusKind /\ t \in armed

Mute(t) ==
    /\ task[t].at = "funnel"
    /\ t \in window
    /\ armed' = IF TakesBack(t) THEN armed \ {t} ELSE armed
    /\ IF TakesBack(t) /\ mem[t].pending
       THEN Store(t, [mem[t] EXCEPT !.pending = FALSE])
       ELSE NoStore
    /\ task' = [task EXCEPT ![t] = Returned(t, "MUTED")]
    /\ UNCHANGED <<environment, running, advisoryLost, pinged, operator>>

Unmuted(t) ==
    /\ task[t].at = "funnel"
    /\ t \notin window
    /\ task' = [task EXCEPT ![t].at = "send"]
    /\ NoStore
    /\ UNCHANGED <<environment, running, armed, advisoryLost, pinged, operator>>

\* The outages the alert of t is about: the one going on, the one it catches up.
Subject(t) ==
    (IF mem[t].status = "DOWN" THEN {mem[t].since} ELSE {}) \union
    (IF task[t].kind = "UNANNOUNCED_OUTAGE" THEN {mem[t].missed} ELSE {})

Reaches(t) ==
    /\ told' = [told EXCEPT ![t] = mem[t].status]
    /\ heard' = [heard EXCEPT ![t] = @ \union Subject(t)]

Confirmed(t) ==
    /\ acked' = [acked EXCEPT ![t] = mem[t].status]
    /\ ackedOf' = [ackedOf EXCEPT ![t] = @ \union Subject(t)]

\* dispatch_alert: a channel confirms the message, or none does; and one that
\* took the POST but whose answer timed out or broke off did reach the operator
\* though the send comes back as lost.
Dispatch(t) ==
    LET outcome == IF channelsUp THEN "DELIVERED" ELSE "UNDELIVERED"
        status  == task[t].kind \in StatusKind
    IN
    /\ task[t].at = "send"
    /\ \/ channelsUp /\ Reaches(t) /\ Confirmed(t)
       \/ ~channelsUp /\ Reaches(t) /\ UNCHANGED <<acked, ackedOf>>
       \/ ~channelsUp /\ UNCHANGED operator
    /\ advisoryLost' = (advisoryLost \/ (~status /\ ~channelsUp))
    /\ task' = [task EXCEPT ![t] =
          IF status THEN [@ EXCEPT !.outcome = outcome, !.at = "record"]
                    ELSE Returned(t, outcome)]
    /\ NoStore
    /\ UNCHANGED <<environment, running, armed, pinged>>

\* record_alert_outcome.
RecordOutcome(t) ==
    /\ task[t].at = "record"
    /\ Store(t, AlertOutcome(mem[t], task[t].outcome = "DELIVERED"))
    /\ armed' = armed \ {t}
    /\ task' = [task EXCEPT ![t] = Returned(t, @.outcome)]
    /\ UNCHANGED <<environment, running, advisoryLost, pinged, operator>>

-----------------------------------------------------------------------------
(*                 What check_url does with the outcome                    *)

\* record_muted_alert: a no-op when the marker already says so.
RecordMutedAlert(t, owed) ==
    IF mem[t].muted = owed THEN NoStore
    ELSE Store(t, [mem[t] EXCEPT !.muted = owed])

\* Fault: a muted transition is not put on record.
SettleTransitionForgets(t) == NoStore

SettleTransition(t) == RecordMutedAlert(t, task[t].outcome = "MUTED")

SettleAnnounce(t) ==
    IF task[t].outcome = "MUTED" THEN NoStore ELSE RecordMutedAlert(t, FALSE)

\* release_reminder unless delivered; a delivered one is the announcement.
SettleReminder(t) ==
    IF task[t].outcome = "DELIVERED" THEN RecordMutedAlert(t, FALSE)
    ELSE IF mem[t].status = "DOWN" /\ mem[t].remind = task[t].claim.to
    THEN Store(t, [mem[t] EXCEPT !.remind = task[t].claim.from])
    ELSE NoStore

Settle(t) ==
    /\ task[t].at = "settle"
    /\ \/ task[t].site = "transition" /\ SettleTransition(t)
       \/ task[t].site = "announce"   /\ SettleAnnounce(t)
       \/ task[t].site = "reminder"   /\ SettleReminder(t)
    /\ task' = [task EXCEPT ![t] = At("done")]
    /\ UNCHANGED <<environment, running, armed, advisoryLost, pinged, operator>>

-----------------------------------------------------------------------------
(*                                 Rounds                                  *)

\* The loop starts main.py again: StateManager.__init__ loads the file.
StartRound ==
    /\ ~running
    /\ running' = TRUE
    /\ mem' = disk
    /\ armed' = {}
    /\ writeFailed' = FALSE
    /\ advisoryLost' = FALSE
    /\ task' = [t \in Target |-> At("probe")]
    /\ pinged' = FALSE
    /\ UNCHANGED <<environment, disk, operator>>

\* The process is gone; what it had not written is lost.
Gone ==
    /\ running' = FALSE
    /\ mem' = disk
    /\ armed' = {}
    /\ writeFailed' = FALSE
    /\ advisoryLost' = FALSE
    /\ task' = [t \in Target |-> At("idle")]
    /\ UNCHANGED <<environment, disk, operator>>

\* Fault: only the advisory alerts are counted.
UndeliveredAdvisory == advisoryLost

\* _alerts_undelivered reads the file, not the memory.
Undelivered == advisoryLost \/ \E t \in Target : disk[t].pending

\* Fault: a write that failed does not withhold the heartbeat.
VouchesUnsaved == ~Undelivered

Vouches == ~writeFailed /\ ~Undelivered

FinishRound ==
    /\ running
    /\ \A t \in Target : task[t].at = "done"
    /\ pinged' = Vouches
    /\ Gone

Crash ==
    /\ MayCrash
    /\ running
    /\ pinged' = FALSE
    /\ Gone

-----------------------------------------------------------------------------
CheckUrl(t) ==
    \/ ObserveHealthy(t) \/ ObserveDown(t)
    \/ ClaimReminder(t) \/ SkipReminder(t) \/ AnnounceIfOwed(t)
    \/ Mute(t) \/ Unmuted(t) \/ Dispatch(t) \/ RecordOutcome(t) \/ Settle(t)

Monitor == StartRound \/ FinishRound \/ \E t \in Target : CheckUrl(t)

Environment ==
    \/ \E t \in Target : TargetChanges(t) \/ WindowToggles(t)
    \/ ChannelsToggle

Next == Monitor \/ Environment \/ Crash

Spec == Init /\ [][Next]_vars

\* The loop around main.py starts a round after every round, and a round runs
\* to its end: every probe and every webhook call has a timeout.
FairSpec == Spec /\ WF_vars(StartRound) /\ WF_vars(FinishRound)
                 /\ \A t \in Target : WF_vars(CheckUrl(t))

-----------------------------------------------------------------------------
(*                               Properties                                *)

TypeOK ==
    /\ health \in [Target -> Status]
    /\ outage \in [Target -> Nat]
    /\ window \subseteq Target
    /\ channelsUp \in BOOLEAN
    /\ disk \in [Target -> Record]
    /\ running \in BOOLEAN
    /\ mem \in [Target -> Record]
    /\ armed \subseteq Target
    /\ writeFailed \in BOOLEAN
    /\ advisoryLost \in BOOLEAN
    /\ task \in [Target -> Task]
    /\ pinged \in BOOLEAN
    /\ told \in [Target -> Status]
    /\ heard \in [Target -> SUBSET Nat]
    /\ acked \in [Target -> Status]
    /\ ackedOf \in [Target -> SUBSET Nat]

\* At-least-once delivery: for as long as a status alert is between its
\* decision and its recorded outcome, the FILE says that it is owed, so a
\* process killed there leaves the obligation behind (_arm's reason to exist).
ObligationOnDisk ==
    \A t \in Target :
        InFlight(t) /\ task[t].kind \in StatusKind /\ ~writeFailed
            => disk[t].pending \/ disk[t].muted

\* notification_status is the status a channel confirmed last, or the record
\* still owes an alert (record_alert_outcome is its only writer, after a confirmed
\* delivery).  Where an outage is involved it is also what the operator was really
\* told last, whatever reached them of sends that came back as lost: such an alert
\* stays owed until a confirmed one settles it.  (A DEGRADED alert has no such
\* guarantee: lost but seen, it is dropped when the target is UP again.)
NotifiedWasTold ==
    \A t \in Target :
        \/ disk[t].pending
        \/ disk[t].muted
        \/ /\ Notified(disk[t]) = acked[t]
           /\ "DOWN" \in {Notified(disk[t]), told[t]} => Notified(disk[t]) = told[t]

\* A round that sends the success heartbeat leaves no outage that the operator
\* was never told of, other than one a maintenance window muted and whose
\* announcement is on record (run_health_checks: the ping asserts that the
\* monitor is doing its job).
HeartbeatHonest ==
    pinged => \A t \in Target :
        disk[t].status = "DOWN" => told[t] = "DOWN" \/ disk[t].muted

\* A round that sends the heartbeat has everything it learned in the file,
\* whatever the order in which its targets' writes succeeded and failed.
HeartbeatMeansSaved ==
    [][running /\ pinged' => disk = mem]_vars

\* Whatever writes failed before: an outage in the file under a heartbeat is one
\* of which an alert reached the operator, or whose muted announcement is on record;
\* and if it is the outage going on, the last message was about it. (What a failed
\* write can hide is an outage that looks like an earlier one, told and over.)
OutageOnFileTold ==
    pinged => \A t \in Target :
        disk[t].status = "DOWN" /\ ~disk[t].muted =>
            /\ disk[t].since \in heard[t]
            /\ health[t] = "DOWN" /\ outage[t] = disk[t].since => told[t] = "DOWN"

\* What the operator was told of last, the file can still close: an outage told
\* is on file as the status, as what was told, or as the owed notice of its end,
\* whatever the retries, kills and lost messages in between.
OpenOutageOnFile ==
    \A t \in Target : told[t] = "DOWN" =>
        \/ disk[t].status = "DOWN"
        \/ Notified(disk[t]) = "DOWN"
        \/ disk[t].pending /\ disk[t].missed # 0

\* No closure without its opening: a recovery message is only sent after the
\* matching problem, and no other status, was the last delivery confirmed.
ClosureHasOpening ==
    \A t \in Target : InFlight(t) /\ task[t].at # "record" =>
        /\ task[t].kind = "RECOVERY" => acked[t] = "DOWN"
        /\ task[t].kind = "PERFORMANCE_RECOVERY" => acked[t] = "DEGRADED"

\* The catch-up notice ("nobody was told") is only sent about an outage of
\* which no alert was ever confirmed.
CatchUpUnconfirmed ==
    \A t \in Target :
        task[t].at = "send" /\ task[t].kind = "UNANNOUNCED_OUTAGE"
            => mem[t].missed \notin ackedOf[t]

\* Nobody is paged again for what they were confirmed to have: a FAILURE, recovery
\* or catch-up is only attempted to say another status than the last one
\* confirmed, or to tell of an outage no delivery of which was.  (A DEGRADED may
\* repeat what was told before a window; an alert that came back as lost is
\* repeated until it is confirmed.)
ConfirmedNotRepeated ==
    \A t \in Target :
        task[t].at = "send" /\ task[t].kind \in StatusKind \ {"DEGRADED"} =>
            \/ mem[t].status # acked[t]
            \/ ~(Subject(t) \subseteq ackedOf[t])

RecordsDelivery(t) == task[t].at = "record" /\ task[t].outcome = "DELIVERED"

\* A FAILURE that was attempted and lost stays owed until it, or the catch-up
\* that replaces it, is delivered: no later observation, mute or advisory
\* alert clears it.
OwedOutageKept ==
    [][\A t \in Target :
          /\ running /\ running'
          /\ mem[t].status = "DOWN" /\ mem[t].pending /\ t \notin armed
          /\ ~mem'[t].pending
          => RecordsDelivery(t)]_vars

\* An owed catch-up notice stays owed, for the same outage, until a channel
\* accepts it (the comment in _performance_decision).
CatchUpKept ==
    [][\A t \in Target :
          /\ running /\ running'
          /\ mem[t].missed # 0 /\ mem[t].pending /\ t \notin armed
          /\ mem'[t].missed # mem[t].missed
          => RecordsDelivery(t)]_vars

\* What the code keeps of CatchUpKept: a new outage may drop the notice, but only
\* for a FAILURE that is owed in its place (set_down's record).
CatchUpTraded ==
    [][\A t \in Target :
          /\ running /\ running'
          /\ mem[t].missed # 0 /\ mem[t].pending /\ t \notin armed
          /\ mem'[t].missed # mem[t].missed
          => \/ RecordsDelivery(t)
             \/ mem'[t].status = "DOWN" /\ mem'[t].pending]_vars

\* A status that lasts, with the window closed and a channel that confirms, is
\* eventually the one confirmed, for good; and no operator who saw an outage, or
\* its end, in a message that came back as lost is left with it.
OperatorLearns ==
    \A t \in Target : \A s \in Status :
        <>[](health[t] = s /\ t \notin window /\ channelsUp)
            => <>[](/\ acked[t] = s
                    /\ "DOWN" \in {s, told[t]} => told[t] = s)

-----------------------------------------------------------------------------
(*                         The contract, implemented                       *)

\* An outage, its end, or an outage that ended before anybody was told.
AboutOutage(record) ==
    \/ record.status = "DOWN"
    \/ Notified(record) = "DOWN"
    \/ record.pending /\ record.missed # 0

\* A delivery is written down when nothing in the file owes its alert.
PhaseOf(t) ==
    LET owed == disk[t].pending \/ disk[t].muted IN
    IF owed /\ task[t].at \in {"record", "settle"} /\ task[t].outcome = "DELIVERED"
    THEN "sent"
    ELSE IF disk[t].pending THEN IF t \in armed THEN "due" ELSE "lost"
    ELSE IF disk[t].muted THEN "deferred"
    ELSE "quiet"

SubjectOf(t) ==
    IF PhaseOf(t) \in {"quiet", "sent"} THEN "nothing"
    ELSE IF AboutOutage(disk[t]) THEN "outage" ELSE "slowness"

Contract == INSTANCE AlertContract WITH
    phase <- [t \in Target |-> PhaseOf(t)],
    about <- [t \in Target |-> SubjectOf(t)]

\* With kills, windows, reminders and legacy records at once, as long as the file
\* can be written: a status alert is in the file from before its first attempt
\* until its delivery is recorded, and what a round may forget is what the
\* contract lets it forget.
KeepsAlertContract == Contract!Spec

=============================================================================
