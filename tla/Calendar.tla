------------------------------ MODULE Calendar ------------------------------
(***************************************************************************)
(* What the clock decides for one target: whether a maintenance window is  *)
(* open (diagnostics.py in_maintenance, windows as targetstore.py          *)
(* validates them) and which reminders of a lasting outage are due         *)
(* (diagnostics.py reminders_due, main.py claim_reminder_step and          *)
(* release_reminder).  AlertLifecycle leaves both to chance; here they are *)
(* computed, on a week of DAYS days of MINUTES minutes, an hour being one  *)
(* of them.                                                                *)
(***************************************************************************)
EXTENDS Integers, FiniteSets, Sequences

CONSTANTS
    DAYS,
    MINUTES,
    REMINDER_SCHEDULE_H,
    REMINDER_REPEAT_H,
    MAX_WINDOWS,
    MaxElapsed               \* bound: the longest outage

ASSUME CalendarAssumption ==
    /\ DAYS \in Nat \ {0}
    /\ MINUTES \in Nat \ {0}
    /\ REMINDER_SCHEDULE_H \in Seq(Nat \ {0})
    /\ REMINDER_SCHEDULE_H # <<>>
    /\ \A i, j \in DOMAIN REMINDER_SCHEDULE_H :
          i < j => REMINDER_SCHEDULE_H[i] < REMINDER_SCHEDULE_H[j]
    /\ REMINDER_REPEAT_H \in Nat \ {0}
    /\ MAX_WINDOWS \in Nat
    /\ MaxElapsed \in Nat

VARIABLES
    windows,       \* the target's maintenance windows
    now,           \* minute of the week
    elapsed,       \* hours the outage has lasted; NoOutage without one
    remind_step,   \* in the memory of the running process
    stored,        \* remind_step in state.json
    claim,         \* the ReminderClaim in flight
    \* observed, not implemented
    reminded,      \* the step of the last reminder a channel confirmed
    remindedOf,    \* the outage's age in it
    lapse          \* since then a process ended with its claim in flight, or
                   \* with a step in memory that it had failed to write

calVars == <<windows, now, elapsed, remind_step, stored, claim, reminded,
             remindedOf, lapse>>

NoOutage == -1
NoClaim == [elapsed_h |-> NoOutage, previous_step |-> NoOutage]
Reminded == <<reminded, remindedOf, lapse>>
Day == 0..DAYS - 1
Minute == 0..MINUTES - 1
LastMinute == MINUTES - 1          \* 23:59

\* _validated_windows. A window without days is one on every day.
Window ==
    { w \in [days : SUBSET Day \ {{}}, start : Minute, end : Minute] :
        w.start # w.end }

WindowLists == UNION { [1..n -> Window] : n \in 0..MAX_WINDOWS }

-----------------------------------------------------------------------------
(*                             in_maintenance                              *)

\* 23:59 means: to the end of the day.
End(w) == IF w.end = LastMinute THEN MINUTES ELSE w.end

StartsOn(w, day) == day \in w.days

\* Fault: the hours after midnight go by the day they are in.
InEffectByDate(w, weekday, minute) ==
    /\ StartsOn(w, weekday)
    /\ IF w.start <= End(w) THEN w.start <= minute /\ minute < End(w)
       ELSE minute >= w.start \/ minute < End(w)

\* A window that crosses midnight belongs to the day it starts on.
InEffect(w, weekday, minute) ==
    IF w.start <= End(w)
    THEN StartsOn(w, weekday) /\ w.start <= minute /\ minute < End(w)
    ELSE \/ minute >= w.start /\ StartsOn(w, weekday)
         \/ minute < End(w) /\ StartsOn(w, (weekday - 1) % DAYS)

InMaintenance ==
    \E i \in DOMAIN windows :
        InEffect(windows[i], now \div MINUTES, now % MINUTES)

-----------------------------------------------------------------------------
(*                                Reminders                                *)

Last == REMINDER_SCHEDULE_H[Len(REMINDER_SCHEDULE_H)]

\* reminders_due: a count, so that a missed one is not missed for good.
RemindersDue(hours) ==
    Cardinality({i \in DOMAIN REMINDER_SCHEDULE_H : hours >= REMINDER_SCHEDULE_H[i]})
        + (IF hours >= Last THEN (hours - Last) \div REMINDER_REPEAT_H ELSE 0)

CalInit ==
    /\ windows \in WindowLists
    /\ now \in 0..DAYS * MINUTES - 1
    /\ elapsed = NoOutage /\ remind_step = 0 /\ stored = 0 /\ claim = NoClaim
    /\ reminded = 0 /\ remindedOf = 0 /\ lapse = FALSE

\* The outage is on file, with last_changed, its beginning.
OutageBegins ==
    /\ elapsed = NoOutage
    /\ elapsed' = 0
    /\ UNCHANGED <<windows, now, remind_step, stored, claim, Reminded>>

TimePasses ==
    /\ elapsed # MaxElapsed
    /\ now' = (now + 1) % (DAYS * MINUTES)
    /\ elapsed' = IF elapsed = NoOutage THEN NoOutage ELSE elapsed + 1
    /\ UNCHANGED <<windows, remind_step, stored, claim, Reminded>>

\* _write_sync: an OSError leaves the file as it was.
Write(step) ==
    /\ remind_step' = step
    /\ stored' \in {stored, step}

\* Fault: one step at a time, for a schedule that went on.
ClaimsNext(hours) == remind_step + 1

ClaimsStep(hours) == RemindersDue(hours)

\* claim_reminder_step, not in a window; one write with the claim.
ClaimReminder ==
    /\ elapsed # NoOutage
    /\ claim = NoClaim
    /\ ~InMaintenance
    /\ RemindersDue(elapsed) > remind_step
    /\ claim' = [elapsed_h |-> elapsed, previous_step |-> remind_step]
    /\ Write(ClaimsStep(elapsed))
    /\ UNCHANGED <<windows, now, elapsed, Reminded>>

ReminderConfirmed ==
    /\ claim # NoClaim
    /\ reminded' = remind_step
    /\ remindedOf' = claim.elapsed_h
    /\ lapse' = FALSE
    /\ claim' = NoClaim
    /\ UNCHANGED <<windows, now, elapsed, remind_step, stored>>

\* Fault: a step once claimed stays claimed.
KeptStep == remind_step

ReleasedStep == claim.previous_step

\* release_reminder: a window opened, or no channel confirmed it, be it refused
\* or taken by one whose answer did not come back.
ReleaseReminder ==
    /\ claim # NoClaim
    /\ Write(ReleasedStep)
    /\ claim' = NoClaim
    /\ UNCHANGED <<windows, now, elapsed, Reminded>>

\* A write of the whole file for anything else that the round records.
RestWritten ==
    /\ stored' = remind_step
    /\ UNCHANGED <<windows, now, elapsed, remind_step, claim, Reminded>>

\* The round is over or killed; the next process has what is in the file.
ProcessEnds ==
    /\ lapse' = (lapse \/ claim # NoClaim \/ stored # remind_step)
    /\ remind_step' = stored
    /\ claim' = NoClaim
    /\ UNCHANGED <<windows, now, elapsed, stored, reminded, remindedOf>>

\* The recovery on file: its record does not carry remind_step.
Recovers ==
    /\ elapsed # NoOutage
    /\ claim = NoClaim
    /\ elapsed' = NoOutage /\ remind_step' = 0 /\ stored' = 0
    /\ reminded' = 0 /\ remindedOf' = 0 /\ lapse' = FALSE
    /\ UNCHANGED <<windows, now, claim>>

CalNext ==
    \/ OutageBegins \/ TimePasses \/ Recovers
    \/ ClaimReminder \/ ReminderConfirmed \/ ReleaseReminder
    \/ RestWritten \/ ProcessEnds

CalSpec == CalInit /\ [][CalNext]_calVars

-----------------------------------------------------------------------------
(*                                Properties                               *)

CalTypeOK ==
    /\ windows \in WindowLists
    /\ now \in 0..DAYS * MINUTES - 1
    /\ elapsed \in {NoOutage} \union 0..MaxElapsed
    /\ remind_step \in Nat
    /\ stored \in Nat
    /\ claim \in [elapsed_h : Nat, previous_step : Nat] \union {NoClaim}
    /\ reminded \in Nat
    /\ remindedOf \in 0..MaxElapsed
    /\ lapse \in BOOLEAN

\* What a person means by a window: from its start, on the days it names, for as
\* long as it takes to get to its end.
Span(w, day) ==
    LET from   == day * MINUTES + w.start
        length == IF End(w) >= w.start THEN End(w) - w.start
                  ELSE MINUTES - w.start + End(w) IN
    { (from + i) % (DAYS * MINUTES) : i \in 0..length - 1 }

\* Alerts are muted in exactly those minutes: also after midnight, over the end
\* of the week, in the last minute of the day, and with several windows.
MutedAsDescribed ==
    InMaintenance <=>
        \E i \in DOMAIN windows : \E day \in Day :
            StartsOn(windows[i], day) /\ now \in Span(windows[i], day)

\* The points in time at which the schedule promises a reminder.
Point ==
    { REMINDER_SCHEDULE_H[i] : i \in DOMAIN REMINDER_SCHEDULE_H }
        \union { Last + k * REMINDER_REPEAT_H : k \in 1..MaxElapsed }

\* Between sends the schedule stands where the last confirmed reminder left it,
\* however many were refused, muted or came back as lost in between, and never past
\* the points gone by: no point is given up unannounced, but by a process that
\* ended with its claim in flight or its step unwritten (claim before send,
\* release_reminder).
RemindersKept ==
    elapsed # NoOutage =>
        /\ reminded <= Cardinality({h \in Point : h <= elapsed})
        /\ claim = NoClaim => remind_step = reminded \/ lapse

\* One message for all that was missed, and none for what was confirmed: also after
\* a silence of its own the monitor only attempts a reminder when a further point
\* has gone by than the last confirmed one covered.
RemindersSpaced ==
    claim # NoClaim /\ ~lapse =>
        \E h \in Point : remindedOf < h /\ h <= claim.elapsed_h

=============================================================================
