----------------------- MODULE CalendarHistory_proofs -----------------------
(***************************************************************************)
(* Calendar for every schedule of reminders, every length of a day and of  *)
(* a week and every list of windows; History for every table of rows,      *)
(* every retention and every number of slots.                              *)
(***************************************************************************)
EXTENDS Calendar, History, FiniteSetTheorems, TLAPS

-----------------------------------------------------------------------------
(*                        Arithmetic that both need                        *)

\* A quotient counts the multiples.
LEMMA QuotientCounts ==
    ASSUME NEW n \in Nat, NEW r \in Nat \ {0}
    PROVE  /\ n \div r \in Nat
           /\ n \div r <= n
           /\ (n \div r) * r <= n
           /\ \A k \in Nat : k * r <= n => k <= n \div r
  OBVIOUS

LEMMA TimesMonotone ==
    ASSUME NEW k \in Nat, NEW n \in Nat, NEW r \in Nat, k <= n
    PROVE  k * r <= n * r
  OBVIOUS

\* What is numbered without repetition has as many elements as numbers.
LEMMA Numbered ==
    ASSUME NEW S, IsFiniteSet(S), NEW T, NEW f \in [S -> T],
           \A a, b \in S : f[a] = f[b] => a = b,
           \A y \in T : \E x \in S : f[x] = y
    PROVE  IsFiniteSet(T) /\ Cardinality(T) = Cardinality(S)
<1>1. f \in Injection(S, T)
  BY DEF Injection, IsInjective
<1>2. f \in Surjection(S, T)
  BY Zenon DEF Surjection
<1>3. f \in Bijection(S, T)
  BY <1>1, <1>2 DEF Bijection
<1> QED
  BY <1>3, FS_Bijection DEF ExistsBijection

LEMMA DigitsUnique ==
    ASSUME NEW q \in Nat, NEW r \in Nat, NEW base \in Nat \ {0}, r < base
    PROVE  /\ (q * base + r) \div base = q
           /\ (q * base + r) % base = r
  OBVIOUS

LEMMA OneDigit ==
    ASSUME NEW n \in Nat, NEW base \in Nat \ {0}, n < base
    PROVE  n % base = n
  OBVIOUS

LEMMA Digits ==
    ASSUME NEW n \in Nat, NEW base \in Nat \ {0}
    PROVE  /\ n \div base \in Nat
           /\ n % base \in 0..base - 1
           /\ n = (n \div base) * base + (n % base)
  OBVIOUS

-----------------------------------------------------------------------------
(*                     The reminders that are due                          *)

LEMMA CalendarNumbers ==
    /\ DAYS \in Nat \ {0}
    /\ MINUTES \in Nat \ {0}
    /\ REMINDER_REPEAT_H \in Nat \ {0}
    /\ MaxElapsed \in Nat
  BY CalendarAssumption

USE CalendarNumbers

LEMMA ScheduleTypes ==
    /\ DOMAIN REMINDER_SCHEDULE_H = 1..Len(REMINDER_SCHEDULE_H)
    /\ Len(REMINDER_SCHEDULE_H) \in DOMAIN REMINDER_SCHEDULE_H
    /\ \A i \in DOMAIN REMINDER_SCHEDULE_H :
          REMINDER_SCHEDULE_H[i] \in Nat \ {0}
    /\ Last \in Nat \ {0}
    /\ \A i \in DOMAIN REMINDER_SCHEDULE_H : REMINDER_SCHEDULE_H[i] <= Last
    /\ \A i, j \in DOMAIN REMINDER_SCHEDULE_H :
          REMINDER_SCHEDULE_H[i] = REMINDER_SCHEDULE_H[j] => i = j
    /\ IsFiniteSet(DOMAIN REMINDER_SCHEDULE_H)
<1>1. /\ DOMAIN REMINDER_SCHEDULE_H = 1..Len(REMINDER_SCHEDULE_H)
      /\ Len(REMINDER_SCHEDULE_H) \in Nat \ {0}
      /\ \A i \in DOMAIN REMINDER_SCHEDULE_H :
            REMINDER_SCHEDULE_H[i] \in Nat \ {0}
  BY CalendarAssumption
<1>2. IsFiniteSet(DOMAIN REMINDER_SCHEDULE_H)
  BY <1>1, FS_Interval
<1>3. \A i \in DOMAIN REMINDER_SCHEDULE_H : REMINDER_SCHEDULE_H[i] <= Last
  BY <1>1, CalendarAssumption DEF Last
<1>4. \A i, j \in DOMAIN REMINDER_SCHEDULE_H :
         REMINDER_SCHEDULE_H[i] = REMINDER_SCHEDULE_H[j] => i = j
  BY <1>1, CalendarAssumption
<1> QED
  BY <1>1, <1>2, <1>3, <1>4 DEF Last

\* The entries of the schedule that an outage of this age has reached, and the
\* repetitions after the last of them.
Reached(hours) ==
    {i \in DOMAIN REMINDER_SCHEDULE_H : hours >= REMINDER_SCHEDULE_H[i]}
Repeats(hours) ==
    IF hours >= Last THEN (hours - Last) \div REMINDER_REPEAT_H ELSE 0

LEMMA DueTypes ==
    ASSUME NEW hours \in Nat
    PROVE  /\ IsFiniteSet(Reached(hours)) /\ Cardinality(Reached(hours)) \in Nat
           /\ Repeats(hours) \in Nat
           /\ RemindersDue(hours) = Cardinality(Reached(hours)) + Repeats(hours)
           /\ RemindersDue(hours) \in Nat
<1>1. IsFiniteSet(Reached(hours)) /\ Cardinality(Reached(hours)) \in Nat
  BY ScheduleTypes, FS_Subset, FS_CardinalityType DEF Reached
<1>2. Repeats(hours) \in Nat
  <2>1. CASE hours >= Last
    <3>1. hours - Last \in Nat
      BY <2>1, ScheduleTypes
    <3> QED
      BY <3>1, QuotientCounts DEF Repeats
  <2>2. CASE ~(hours >= Last)
    BY <2>2 DEF Repeats
  <2> QED
    BY <2>1, <2>2
<1>3. RemindersDue(hours) = Cardinality(Reached(hours)) + Repeats(hours)
  BY DEF RemindersDue, Reached, Repeats
<1> QED
  BY <1>1, <1>2, <1>3

\* Nothing is due when an outage begins.
LEMMA NoneDueAtFirst == RemindersDue(0) = 0
<1>1. Reached(0) = {}
  BY ScheduleTypes DEF Reached
<1>2. Repeats(0) = 0
  BY ScheduleTypes DEF Repeats
<1> QED
  BY <1>1, <1>2, DueTypes, FS_EmptySet

\* Two outages of different age that are due differently have a point of the
\* schedule between them.
LEMMA DueHasPoint ==
    ASSUME NEW early \in Nat, NEW late \in 0..MaxElapsed,
           RemindersDue(early) < RemindersDue(late)
    PROVE  \E h \in Point : early < h /\ h <= late
<1>0. \A h \in Point : h \in Nat
  BY ScheduleTypes DEF Point
<1> SUFFICES ASSUME ~ \E h \in Point : early < h /\ h <= late
             PROVE  FALSE
  OBVIOUS
<1>a. \A h \in Point : h <= late => h <= early
  BY <1>0
<1>b. /\ late \in Nat /\ late <= MaxElapsed /\ Last \in Nat /\ Last \in Point
      /\ Repeats(early) \in Nat /\ Repeats(late) \in Nat
  <2>1. late \in Nat /\ late <= MaxElapsed
    OBVIOUS
  <2>2. Repeats(early) \in Nat /\ Repeats(late) \in Nat
    BY <2>1, DueTypes
  <2>3. Last \in Nat /\ Last \in Point
    BY ScheduleTypes DEF Point, Last
  <2> QED
    BY <2>1, <2>2, <2>3
<1>1. Cardinality(Reached(late)) <= Cardinality(Reached(early))
  <2>1. Reached(late) \subseteq Reached(early)
    BY <1>a, ScheduleTypes DEF Reached, Point
  <2> QED
    BY <2>1, DueTypes, FS_Subset
<1>2. Repeats(late) <= Repeats(early)
  <2>1. CASE late < Last
    BY <1>b, <2>1 DEF Repeats
  <2>2. CASE late >= Last
    <3> DEFINE k == (late - Last) \div REMINDER_REPEAT_H
    <3>1. late - Last \in Nat /\ Last <= early /\ early - Last \in Nat
      BY <1>a, <1>b, <2>2
    <3>2. /\ k \in Nat /\ k <= late - Last
          /\ k * REMINDER_REPEAT_H <= late - Last
      BY <3>1, QuotientCounts
    <3> HIDE DEF k
    <3>3. k * REMINDER_REPEAT_H <= early - Last
      <4>1. CASE k = 0
        BY <3>1, <4>1
      <4>2. CASE k # 0
        <5>1. k \in 1..MaxElapsed
          BY <1>b, <3>1, <3>2, <4>2
        <5>2. Last + k * REMINDER_REPEAT_H \in Point
          BY <5>1 DEF Point
        <5> QED
          BY <1>a, <3>1, <3>2, <5>2, ScheduleTypes
      <4> QED
        BY <4>1, <4>2
    <3>4. k <= (early - Last) \div REMINDER_REPEAT_H
      BY <3>1, <3>2, <3>3, QuotientCounts
    <3> QED
      BY <2>2, <3>1, <3>4 DEF Repeats, k
  <2> QED
    BY <2>1, <2>2, ScheduleTypes
<1> QED
  BY <1>1, <1>2, DueTypes

\* The points in time that an outage of this age has passed.
Passed(hours) == {h \in Point : h <= hours}

LEMMA PassedTypes ==
    ASSUME NEW hours \in Nat
    PROVE  /\ Passed(hours) \subseteq Nat
           /\ IsFiniteSet(Passed(hours)) /\ Cardinality(Passed(hours)) \in Nat
<1>1. \A h \in Point : h \in Nat
  BY ScheduleTypes DEF Point
<1>2. Passed(hours) \in SUBSET Nat /\ \A h \in Passed(hours) : h <= hours
  BY <1>1 DEF Passed
<1>3. IsFiniteSet(Passed(hours))
  BY <1>2, FS_BoundedSetOfNaturals
<1> QED
  BY <1>2, <1>3, FS_CardinalityType

\* No more reminders are due than points have passed.
LEMMA DuePassed ==
    ASSUME NEW hours \in 0..MaxElapsed
    PROVE  RemindersDue(hours) <= Cardinality(Passed(hours))
<1> DEFINE entries == {REMINDER_SCHEDULE_H[i] : i \in Reached(hours)}
           n == Repeats(hours)
           repeats == {Last + k * REMINDER_REPEAT_H : k \in 1..n}
<1>0. hours \in Nat /\ hours <= MaxElapsed /\ n \in Nat
  <2>1. hours \in Nat /\ hours <= MaxElapsed
    OBVIOUS
  <2> QED
    BY <2>1, DueTypes
<1>1. IsFiniteSet(entries) /\ Cardinality(entries) = Cardinality(Reached(hours))
  <2> DEFINE f == [i \in Reached(hours) |-> REMINDER_SCHEDULE_H[i]]
  <2>1. \A i, j \in Reached(hours) :
           REMINDER_SCHEDULE_H[i] = REMINDER_SCHEDULE_H[j] => i = j
    BY ScheduleTypes DEF Reached
  <2>2. /\ f \in [Reached(hours) -> entries]
        /\ \A i, j \in Reached(hours) : f[i] = f[j] => i = j
        /\ \A h \in entries : \E i \in Reached(hours) : f[i] = h
    BY <2>1
  <2>3. IsFiniteSet(Reached(hours))
    BY <1>0, DueTypes
  <2> HIDE DEF f, entries
  <2> QED
    BY <2>2, <2>3, Numbered
<1>2. IsFiniteSet(repeats) /\ Cardinality(repeats) = n
  <2> DEFINE g == [k \in 1..n |-> Last + k * REMINDER_REPEAT_H]
  <2>1. \A k, l \in Nat : k * REMINDER_REPEAT_H = l * REMINDER_REPEAT_H => k = l
    OBVIOUS
  <2>2. \A k \in 1..n : k \in Nat /\ k * REMINDER_REPEAT_H \in Nat
    BY <1>0
  <2>3. \A k, l \in 1..n :
           Last + k * REMINDER_REPEAT_H = Last + l * REMINDER_REPEAT_H => k = l
    BY <2>1, <2>2, ScheduleTypes
  <2>4. /\ g \in [1..n -> repeats]
        /\ \A k, l \in 1..n : g[k] = g[l] => k = l
        /\ \A h \in repeats : \E k \in 1..n : g[k] = h
    BY <2>3
  <2>5. IsFiniteSet(1..n) /\ Cardinality(1..n) = n
    BY <1>0, FS_Interval
  <2> HIDE DEF g, repeats, n
  <2> QED
    BY <2>4, <2>5, Numbered
<1>3. entries \cap repeats = {}
  <2>1. \A k \in 1..n : k * REMINDER_REPEAT_H \in Nat \ {0}
    BY <1>0
  <2>2. \A h \in entries : h \in Nat /\ h <= Last
    BY ScheduleTypes DEF Reached
  <2>3. \A h \in repeats : ~(h <= Last)
    BY <2>1, ScheduleTypes
  <2> QED
    BY <2>2, <2>3
<1>4. entries \cup repeats \subseteq Passed(hours)
  <2>1. entries \subseteq Passed(hours)
    BY <1>0, ScheduleTypes DEF Passed, Point, Reached
  <2>2. ASSUME NEW k \in 1..n
        PROVE  Last + k * REMINDER_REPEAT_H \in Passed(hours)
    <3>1. hours - Last \in Nat /\ n = (hours - Last) \div REMINDER_REPEAT_H
      <4>1. hours >= Last
        BY <2>2 DEF Repeats
      <4> QED
        BY <1>0, <4>1, ScheduleTypes DEF Repeats
    <3>2. n <= hours - Last /\ n * REMINDER_REPEAT_H <= hours - Last
      BY <3>1, QuotientCounts
    <3>3. k * REMINDER_REPEAT_H <= n * REMINDER_REPEAT_H
      BY <1>0, TimesMonotone
    <3>4. k * REMINDER_REPEAT_H \in Nat /\ n * REMINDER_REPEAT_H \in Nat
      BY <1>0
    <3>5. Last + k * REMINDER_REPEAT_H <= hours
      BY <1>0, <3>1, <3>2, <3>3, <3>4, ScheduleTypes
    <3>6. k \in 1..MaxElapsed
      BY <1>0, <3>1, <3>2, ScheduleTypes
    <3> QED
      BY <3>5, <3>6 DEF Passed, Point
  <2> QED
    BY <2>1, <2>2
<1> HIDE DEF entries, repeats, n
<1>5. /\ IsFiniteSet(entries \cup repeats)
      /\ Cardinality(entries \cup repeats) = Cardinality(entries) + n
  <2>1. Cardinality(entries \cap repeats) = 0
    BY <1>3, FS_EmptySet
  <2>2. Cardinality(entries) \in Nat
    BY <1>1, FS_CardinalityType
  <2>3. /\ IsFiniteSet(entries \cup repeats)
        /\ Cardinality(entries \cup repeats)
              = Cardinality(entries) + Cardinality(repeats)
                  - Cardinality(entries \cap repeats)
    BY <1>1, <1>2, FS_Union
  <2> QED
    BY <1>0, <1>2, <2>1, <2>2, <2>3
<1>6. Cardinality(entries \cup repeats) <= Cardinality(Passed(hours))
  BY <1>0, <1>4, PassedTypes, FS_Subset
<1> QED
  BY <1>0, <1>1, <1>5, <1>6, DueTypes DEF n

-----------------------------------------------------------------------------
(*                   The reminders that were confirmed                     *)

\* A claim in flight is for a further step than the last one confirmed, and
\* without a claim the schedule stands at that one, unless a process ended with
\* its claim in flight or its step unwritten.
ClaimInv ==
    /\ elapsed = NoOutage =>
          /\ claim = NoClaim /\ remind_step = 0 /\ stored = 0
          /\ remindedOf = 0 /\ ~lapse
    /\ elapsed # NoOutage => remindedOf <= elapsed
    /\ reminded = RemindersDue(remindedOf)
    /\ claim = NoClaim => remind_step = reminded \/ lapse
    /\ claim # NoClaim =>
          /\ elapsed # NoOutage
          /\ claim.elapsed_h <= elapsed
          /\ remind_step = RemindersDue(claim.elapsed_h)
          /\ claim.previous_step < remind_step
          /\ claim.previous_step = reminded \/ lapse

CalInv == CalTypeOK /\ ClaimInv

LEMMA InitCalInv == CalInit => CalInv
<1> SUFFICES ASSUME CalInit
             PROVE  CalInv
  OBVIOUS
<1>1. CalTypeOK
  <2>1. /\ windows \in WindowLists /\ now \in 0..DAYS * MINUTES - 1
        /\ elapsed = NoOutage /\ remind_step = 0 /\ stored = 0 /\ claim = NoClaim
        /\ reminded = 0 /\ remindedOf = 0 /\ lapse = FALSE
    BY DEF CalInit
  <2>2. 0 \in 0..MaxElapsed /\ 0 \in Nat
    OBVIOUS
  <2> QED
    BY <2>1, <2>2 DEF CalTypeOK
<1>2. ClaimInv
  BY NoneDueAtFirst DEF CalInit, ClaimInv
<1> QED
  BY <1>1, <1>2 DEF CalInv

LEMMA NextCalInv == CalInv /\ [CalNext]_calVars => CalInv'
<1> SUFFICES ASSUME CalInv, [CalNext]_calVars
             PROVE  CalInv'
  OBVIOUS
<1> USE DEF CalInv
<1>a. /\ elapsed \in {NoOutage} \union 0..MaxElapsed
      /\ remind_step \in Nat /\ stored \in Nat /\ reminded \in Nat
      /\ remindedOf \in Nat /\ remindedOf <= MaxElapsed
  BY DEF CalTypeOK
<1>b. UNCHANGED <<windows, now>> =>
         windows' \in WindowLists /\ now' \in 0..DAYS * MINUTES - 1
  BY DEF CalTypeOK
<1>c. NoOutage \notin Nat
  BY DEF NoOutage
<1>d. claim # NoClaim => claim.elapsed_h \in Nat /\ claim.previous_step \in Nat
  BY DEF CalTypeOK
<1>1. CASE OutageBegins
  <2>1. CalTypeOK'
    BY <1>1 DEF OutageBegins, CalTypeOK, Reminded
  <2>2. ClaimInv'
    BY <1>1, <1>c DEF OutageBegins, ClaimInv, Reminded
  <2> QED
    BY <2>1, <2>2
<1>2. CASE TimePasses
  <2>1. now' \in 0..DAYS * MINUTES - 1
    <3>1. DAYS * MINUTES \in Nat \ {0}
      OBVIOUS
    <3>2. now + 1 \in Nat /\ now' = (now + 1) % (DAYS * MINUTES)
      BY <1>2 DEF TimePasses, CalTypeOK
    <3> QED
      BY <3>1, <3>2, Digits
  <2>2. elapsed' \in {NoOutage} \union 0..MaxElapsed
    BY <1>2, <1>a DEF TimePasses
  <2>3. CalTypeOK'
    BY <1>2, <2>1, <2>2 DEF TimePasses, CalTypeOK, Reminded
  <2>4. elapsed # NoOutage => elapsed' # NoOutage /\ elapsed' = elapsed + 1
    BY <1>2, <1>a DEF TimePasses, NoOutage
  <2>5. elapsed = NoOutage => elapsed' = NoOutage
    BY <1>2 DEF TimePasses
  <2>6. UNCHANGED <<remind_step, stored, claim, reminded, remindedOf, lapse>>
    BY <1>2 DEF TimePasses, Reminded
  <2>7. ClaimInv'
    BY <1>a, <1>d, <2>4, <2>5, <2>6 DEF ClaimInv
  <2> QED
    BY <2>3, <2>7
<1>3. CASE Recovers
  <2>1. CalTypeOK'
    <3>1. /\ elapsed' = NoOutage /\ remind_step' = 0 /\ stored' = 0
          /\ reminded' = 0 /\ remindedOf' = 0 /\ lapse' = FALSE
          /\ UNCHANGED <<windows, now, claim>>
      BY <1>3 DEF Recovers
    <3>2. 0 \in 0..MaxElapsed /\ 0 \in Nat
      OBVIOUS
    <3> QED
      BY <1>b, <3>1, <3>2 DEF CalTypeOK
  <2>2. ClaimInv'
    BY <1>3, NoneDueAtFirst DEF Recovers, ClaimInv
  <2> QED
    BY <2>1, <2>2
<1>4. CASE ClaimReminder
  <2>1. /\ elapsed \in 0..MaxElapsed /\ elapsed \in Nat /\ claim = NoClaim
        /\ claim' = [elapsed_h |-> elapsed, previous_step |-> remind_step]
        /\ remind_step' = RemindersDue(elapsed) /\ remind_step' \in Nat
        /\ remind_step' > remind_step /\ stored' \in Nat
        /\ UNCHANGED <<windows, now, elapsed, reminded, remindedOf, lapse>>
    BY <1>4, <1>a, DueTypes DEF ClaimReminder, ClaimsStep, Write, Reminded
  <2>2. CalTypeOK'
    <3>1. claim' \in [elapsed_h : Nat, previous_step : Nat]
      BY <1>a, <2>1
    <3>2. /\ elapsed' \in {NoOutage} \union 0..MaxElapsed
          /\ reminded' \in Nat /\ remindedOf' \in 0..MaxElapsed
          /\ stored' \in Nat /\ lapse' \in BOOLEAN
      BY <2>1 DEF CalTypeOK
    <3>3. windows' \in WindowLists /\ now' \in 0..DAYS * MINUTES - 1
      BY <1>b, <2>1
    <3>4. remind_step' \in Nat
      BY <2>1
    <3> QED
      BY <3>1, <3>2, <3>3, <3>4 DEF CalTypeOK
  <2>3. claim' # NoClaim /\ elapsed # NoOutage
    BY <1>c, <2>1 DEF NoClaim
  <2>4. ClaimInv'
    BY <1>a, <2>1, <2>3 DEF ClaimInv
  <2> QED
    BY <2>2, <2>4
<1>5. CASE ReminderConfirmed
  <2>1. /\ claim # NoClaim /\ claim' = NoClaim
        /\ reminded' = remind_step /\ remindedOf' = claim.elapsed_h
        /\ lapse' = FALSE
        /\ UNCHANGED <<windows, now, elapsed, remind_step, stored>>
    BY <1>5 DEF ReminderConfirmed
  <2>2. /\ claim.elapsed_h <= elapsed /\ elapsed \in 0..MaxElapsed
        /\ remind_step = RemindersDue(claim.elapsed_h)
    BY <1>a, <1>d, <2>1 DEF ClaimInv
  <2>3. CalTypeOK'
    <3>1. /\ remindedOf' \in 0..MaxElapsed /\ reminded' \in Nat
          /\ remind_step' \in Nat /\ stored' \in Nat
      BY <1>a, <1>d, <2>1, <2>2
    <3>2. elapsed' \in {NoOutage} \union 0..MaxElapsed
      BY <1>a, <2>1
    <3> QED
      BY <1>b, <2>1, <3>1, <3>2 DEF CalTypeOK
  <2>4. ClaimInv'
    BY <1>a, <1>c, <1>d, <2>1, <2>2 DEF ClaimInv
  <2> QED
    BY <2>3, <2>4
<1>6. CASE ReleaseReminder
  <2>1. CalTypeOK'
    BY <1>6, <1>a, <1>d DEF ReleaseReminder, ReleasedStep, Write, CalTypeOK, Reminded
  <2>2. ClaimInv'
    BY <1>6, <1>a, <1>d DEF ReleaseReminder, ReleasedStep, Write, ClaimInv, Reminded
  <2> QED
    BY <2>1, <2>2
<1>7. CASE RestWritten
  <2>1. CalTypeOK'
    BY <1>7 DEF RestWritten, CalTypeOK, Reminded
  <2>2. ClaimInv'
    BY <1>7 DEF RestWritten, ClaimInv, Reminded
  <2> QED
    BY <2>1, <2>2
<1>9. CASE ProcessEnds
  <2>1. CalTypeOK'
    BY <1>9 DEF ProcessEnds, CalTypeOK
  <2>2. ClaimInv'
    BY <1>9, <1>a, <1>d DEF ProcessEnds, ClaimInv
  <2> QED
    BY <2>1, <2>2
<1>8. CASE UNCHANGED calVars
  BY <1>8 DEF calVars, CalTypeOK, ClaimInv
<1> QED
  BY <1>1, <1>2, <1>3, <1>4, <1>5, <1>6, <1>7, <1>8, <1>9 DEF CalNext

\* The calendar's variables keep their types.
THEOREM CalTypeCorrect == CalSpec => []CalTypeOK
<1>1. CalInv => CalTypeOK
  BY DEF CalInv
<1> QED
  BY <1>1, InitCalInv, NextCalInv, PTL DEF CalSpec

\* For every ascending schedule: between sends the schedule stands at the last
\* reminder that was confirmed, at most as far as points have passed, unless a
\* process ended with its claim in flight or its step unwritten
\* (claim_reminder_step, release_reminder).
THEOREM RemindersCorrect == CalSpec => []RemindersKept
<1>1. CalInv => RemindersKept
  <2> SUFFICES ASSUME CalInv, elapsed # NoOutage
               PROVE  /\ reminded <= Cardinality(Passed(elapsed))
                      /\ claim = NoClaim => remind_step = reminded \/ lapse
    BY DEF RemindersKept, Passed
  <2>1. /\ elapsed \in Nat /\ elapsed \in 0..MaxElapsed
        /\ remindedOf \in 0..MaxElapsed /\ remindedOf \in Nat
        /\ remindedOf <= elapsed /\ reminded \in Nat
        /\ reminded = RemindersDue(remindedOf)
        /\ claim = NoClaim => remind_step = reminded \/ lapse
    BY DEF CalInv, ClaimInv, CalTypeOK
  <2>2. Passed(remindedOf) \subseteq Passed(elapsed)
    <3>1. \A h \in Point : h \in Nat
      BY ScheduleTypes DEF Point
    <3> QED
      BY <2>1, <3>1 DEF Passed
  <2>3. /\ Cardinality(Passed(remindedOf)) <= Cardinality(Passed(elapsed))
        /\ Cardinality(Passed(remindedOf)) \in Nat
        /\ Cardinality(Passed(elapsed)) \in Nat
    BY <2>1, <2>2, PassedTypes, FS_Subset
  <2>4. reminded <= Cardinality(Passed(remindedOf))
    BY <2>1, DuePassed
  <2> QED
    BY <2>1, <2>3, <2>4
<1> QED
  BY <1>1, InitCalInv, NextCalInv, PTL DEF CalSpec

\* For every ascending schedule: a reminder is only attempted when a further point
\* of it has gone by than the last confirmed reminder covered, however long the
\* monitor was away and however many attempts came back as lost (reminders_due).
THEOREM SpacingCorrect == CalSpec => []RemindersSpaced
<1>1. CalInv => RemindersSpaced
  <2> SUFFICES ASSUME CalInv, claim # NoClaim, ~lapse
               PROVE  \E h \in Point : remindedOf < h /\ h <= claim.elapsed_h
    BY DEF RemindersSpaced
  <2>1. /\ elapsed \in 0..MaxElapsed /\ claim.elapsed_h \in Nat
        /\ claim.previous_step \in Nat
        /\ claim.elapsed_h <= elapsed /\ remindedOf \in Nat
    BY DEF CalInv, ClaimInv, CalTypeOK
  <2>2. RemindersDue(remindedOf) < RemindersDue(claim.elapsed_h)
    BY <2>1 DEF CalInv, ClaimInv, CalTypeOK
  <2>3. claim.elapsed_h \in 0..MaxElapsed
    BY <2>1
  <2> QED
    BY <2>1, <2>2, <2>3, DueHasPoint
<1> QED
  BY <1>1, InitCalInv, NextCalInv, PTL DEF CalSpec

-----------------------------------------------------------------------------
(*                        The minutes of a window                          *)

\* A minute of a day of the week is one minute of the week.
LEMMA MinuteOfWeek ==
    ASSUME NEW day \in Day, NEW minute \in Minute
    PROVE  /\ day * MINUTES + minute \in 0..DAYS * MINUTES - 1
           /\ (day * MINUTES + minute) % (DAYS * MINUTES) = day * MINUTES + minute
           /\ (day * MINUTES + minute) \div MINUTES = day
           /\ (day * MINUTES + minute) % MINUTES = minute
<1>1. /\ day \in Nat /\ day + 1 <= DAYS /\ day + 1 \in Nat
      /\ minute \in Nat /\ minute < MINUTES
  BY DEF Day, Minute
<1>2. (day + 1) * MINUTES <= DAYS * MINUTES
  BY <1>1, TimesMonotone
<1>3. (day + 1) * MINUTES = day * MINUTES + MINUTES
  BY <1>1
<1>4. day * MINUTES \in Nat /\ DAYS * MINUTES \in Nat \ {0}
  BY <1>1
<1>5. /\ day * MINUTES + minute \in Nat
      /\ day * MINUTES + minute < DAYS * MINUTES
  BY <1>1, <1>2, <1>3, <1>4
<1>7. /\ (day * MINUTES + minute) \div MINUTES = day
      /\ (day * MINUTES + minute) % MINUTES = minute
  BY <1>1, DigitsUnique
<1>8. (day * MINUTES + minute) % (DAYS * MINUTES) = day * MINUTES + minute
  BY <1>4, <1>5, OneDigit
<1>9. day * MINUTES + minute \in 0..DAYS * MINUTES - 1
  BY <1>4, <1>5
<1> QED
  BY <1>7, <1>8, <1>9

\* The day after the last is the first.
LEMMA DayAfter ==
    ASSUME NEW day \in Day, NEW minute \in Minute,
           NEW next, next = (day + 1) % DAYS
    PROVE  /\ next \in Day
           /\ (next - 1) % DAYS = day
           /\ (day * MINUTES + MINUTES + minute) % (DAYS * MINUTES)
                 = next * MINUTES + minute
<1>1. day \in Nat /\ day < DAYS /\ minute \in Nat /\ minute < MINUTES
  BY DEF Day, Minute
<1>2. CASE day + 1 < DAYS
  <2>1. next = day + 1 /\ next \in Day /\ (next - 1) % DAYS = day
    <3>1. day + 1 \in Nat /\ (day + 1) % DAYS = day + 1
      BY <1>1, <1>2, OneDigit
    <3>2. next = day + 1
      BY <3>1
    <3>3. next - 1 = day /\ day % DAYS = day
      BY <1>1, <3>2, OneDigit
    <3> QED
      BY <1>1, <1>2, <3>2, <3>3 DEF Day
  <2>2. day * MINUTES + MINUTES + minute = (day + 1) * MINUTES + minute
    BY <1>1
  <2>3. ((day + 1) * MINUTES + minute) % (DAYS * MINUTES)
           = (day + 1) * MINUTES + minute
    BY <2>1, MinuteOfWeek
  <2> QED
    BY <2>1, <2>2, <2>3
<1>3. CASE day + 1 = DAYS
  <2>1. next = 0 /\ next \in Day
    <3>1. (1 * DAYS + 0) % DAYS = 0
      BY DigitsUnique
    <3> QED
      BY <1>3, <3>1 DEF Day
  <2>2. (0 - 1) % DAYS = day
    BY <1>1, <1>3
  <2>3. day * MINUTES + MINUTES + minute = 1 * (DAYS * MINUTES) + minute
    BY <1>1, <1>3
  <2>4. DAYS * MINUTES \in Nat \ {0} /\ minute < DAYS * MINUTES
    <3>1. 1 * MINUTES <= DAYS * MINUTES
      BY TimesMonotone
    <3> QED
      BY <1>1, <3>1
  <2>5. (1 * (DAYS * MINUTES) + minute) % (DAYS * MINUTES) = minute
    BY <1>1, <2>4, DigitsUnique
  <2>6. 0 * MINUTES + minute = minute
    BY <1>1
  <2> QED
    BY <2>1, <2>2, <2>3, <2>5, <2>6
<1>4. day + 1 < DAYS \/ day + 1 = DAYS
  BY <1>1
<1> QED
  BY <1>2, <1>3, <1>4


LEMMA DayBefore ==
    ASSUME NEW day \in Day, NEW before, before = (day - 1) % DAYS
    PROVE  before \in Day /\ day = (before + 1) % DAYS
<1>1. day \in Nat /\ day < DAYS
  BY DEF Day
<1>2. CASE day = 0
  <2>1. (1 * DAYS + 0) % DAYS = 0
    BY DigitsUnique
  <2>2. before = DAYS - 1
    <3>1. PICK last \in Nat : last + 1 = DAYS
      BY <1>1
    <3>2. last \in Day /\ 0 \in Minute
      BY <3>1 DEF Day, Minute
    <3>3. (last + 1) % DAYS = 0
      BY <2>1, <3>1
    <3>4. (0 - 1) % DAYS = last
      BY <3>2, <3>3, DayAfter
    <3> QED
      BY <1>2, <3>1, <3>4
  <2>3. before + 1 = 1 * DAYS + 0
    BY <2>2
  <2> QED
    BY <1>2, <2>1, <2>2, <2>3 DEF Day
<1>3. CASE day # 0
  <2>0. day - 1 \in Nat /\ day - 1 < DAYS
    BY <1>1, <1>3
  <2>1. (day - 1) % DAYS = day - 1
    BY <2>0, OneDigit
  <2>2. before = day - 1 /\ before + 1 = day
    BY <1>1, <2>0, <2>1
  <2> QED
    BY <1>1, <2>0, <2>2, OneDigit DEF Day
<1> QED
  BY <1>2, <1>3

\* A window is in effect in the minutes of its span, and in no other.
LEMMA WindowSpans ==
    ASSUME NEW w \in Window, NEW weekday \in Day, NEW minute \in Minute
    PROVE  InEffect(w, weekday, minute) <=>
              \E day \in Day :
                 StartsOn(w, day) /\ weekday * MINUTES + minute \in Span(w, day)
<1> DEFINE n == weekday * MINUTES + minute
           length == IF End(w) >= w.start THEN End(w) - w.start
                     ELSE MINUTES - w.start + End(w)
           At(day, i) == (day * MINUTES + w.start + i) % (DAYS * MINUTES)
<1>a. \A day \in Day : n \in Span(w, day) <=> \E i \in 0..length - 1 : n = At(day, i)
  BY DEF Span
<1>b. /\ w.start \in Nat /\ w.start < MINUTES
      /\ End(w) \in Nat /\ End(w) <= MINUTES
      /\ minute \in Nat /\ minute < MINUTES
  BY DEF Window, Minute, End, LastMinute
<1>c. /\ n % (DAYS * MINUTES) = n /\ n \in Nat
      /\ n \div MINUTES = weekday /\ n % MINUTES = minute
  BY MinuteOfWeek
<1>d. length \in Nat /\ w.start + length <= MINUTES + MINUTES
  BY <1>b
<1>e. \A day \in Day : day * MINUTES \in Nat
  BY DEF Day
\* The offset of a minute, in the day the window starts on and in the next.
<1>2. ASSUME NEW day \in Day, NEW i \in 0..length - 1, w.start + i < MINUTES
      PROVE  n = At(day, i) => weekday = day /\ minute = w.start + i
  <2>1. w.start + i \in Minute
    BY <1>b, <1>d, <1>2 DEF Minute
  <2>2. day * MINUTES + w.start + i = day * MINUTES + (w.start + i)
    BY <1>b, <1>d, <1>e
  <2>3. At(day, i) = day * MINUTES + (w.start + i)
    BY <2>1, <2>2, MinuteOfWeek
  <2>4. /\ At(day, i) \div MINUTES = day
        /\ At(day, i) % MINUTES = w.start + i
    BY <2>1, <2>3, MinuteOfWeek
  <2> HIDE DEF n, At
  <2> QED
    BY <1>c, <2>4
<1>3. ASSUME NEW day \in Day, NEW i \in 0..length - 1, w.start + i >= MINUTES
      PROVE  n = At(day, i) =>
                weekday = (day + 1) % DAYS /\ minute = w.start + i - MINUTES
  <2>1. w.start + i - MINUTES \in Minute
    <3>1. i \in Nat /\ w.start + i < MINUTES + MINUTES
      BY <1>b, <1>d
    <3> QED
      BY <1>b, <1>3, <3>1 DEF Minute
  <2>2. day * MINUTES + w.start + i
           = day * MINUTES + MINUTES + (w.start + i - MINUTES)
    BY <1>b, <1>d, <1>e
  <2>3. /\ (day + 1) % DAYS \in Day
        /\ At(day, i) = ((day + 1) % DAYS) * MINUTES + (w.start + i - MINUTES)
    BY <2>1, <2>2, DayAfter
  <2>4. /\ At(day, i) \div MINUTES = (day + 1) % DAYS
        /\ At(day, i) % MINUTES = w.start + i - MINUTES
    BY <2>1, <2>3, MinuteOfWeek
  <2> HIDE DEF n, At
  <2> QED
    BY <1>c, <2>4
<1>4. ASSUME minute >= w.start, minute - w.start < length
      PROVE  n = At(weekday, minute - w.start)
  <2>1. weekday * MINUTES + w.start + (minute - w.start) = n
    BY <1>b, <1>e
  <2> QED
    BY <1>c, <2>1
<1>5. ASSUME NEW day \in Day, weekday = (day + 1) % DAYS
      PROVE  n = At(day, MINUTES - w.start + minute)
  <2>1. day * MINUTES + w.start + (MINUTES - w.start + minute)
           = day * MINUTES + MINUTES + minute
    BY <1>b, <1>e
  <2> QED
    BY <1>5, <2>1, DayAfter
<1> HIDE DEF n, At
<1>6. CASE w.start <= End(w)
  <2>1. length = End(w) - w.start
    BY <1>6
  <2>2. ASSUME InEffect(w, weekday, minute)
        PROVE  StartsOn(w, weekday) /\ \E i \in 0..length - 1 : n = At(weekday, i)
    <3>1. StartsOn(w, weekday) /\ w.start <= minute /\ minute < End(w)
      BY <1>6, <2>2 DEF InEffect
    <3>2. minute - w.start \in 0..length - 1 /\ minute - w.start < length
      BY <1>b, <2>1, <3>1
    <3> QED
      BY <1>4, <3>1, <3>2
  <2>3. ASSUME NEW day \in Day, StartsOn(w, day),
               NEW i \in 0..length - 1, n = At(day, i)
        PROVE  InEffect(w, weekday, minute)
    <3>1. w.start + i < End(w) /\ w.start + i < MINUTES /\ w.start <= w.start + i
      BY <1>b, <2>1, <2>3
    <3>2. weekday = day /\ minute = w.start + i
      BY <1>2, <2>3, <3>1
    <3> QED
      BY <1>6, <2>3, <3>1, <3>2 DEF InEffect
  <2> QED
    BY <1>a, <2>2, <2>3 DEF n
<1>7. CASE ~(w.start <= End(w))
  <2>1. length = MINUTES - w.start + End(w) /\ End(w) < w.start
    BY <1>b, <1>7
  <2>2. ASSUME InEffect(w, weekday, minute)
        PROVE  \E day \in Day :
                  StartsOn(w, day) /\ \E i \in 0..length - 1 : n = At(day, i)
    <3>1. CASE minute >= w.start /\ StartsOn(w, weekday)
      <4>1. minute - w.start \in 0..length - 1 /\ minute - w.start < length
        BY <1>b, <2>1, <3>1
      <4> QED
        BY <1>4, <3>1, <4>1
    <3>2. CASE minute < End(w) /\ StartsOn(w, (weekday - 1) % DAYS)
      <4>1. PICK day \in Day :
               day = (weekday - 1) % DAYS /\ weekday = (day + 1) % DAYS
        BY DayBefore
      <4>3. MINUTES - w.start + minute \in 0..length - 1
        BY <1>b, <2>1, <3>2
      <4> QED
        BY <1>5, <3>2, <4>1, <4>3
    <3> QED
      BY <1>7, <2>2, <3>1, <3>2 DEF InEffect
  <2>3. ASSUME NEW day \in Day, StartsOn(w, day),
               NEW i \in 0..length - 1, n = At(day, i)
        PROVE  InEffect(w, weekday, minute)
    <3>1. CASE w.start + i < MINUTES
      <4>1. weekday = day /\ minute = w.start + i
        BY <1>2, <2>3, <3>1
      <4>2. minute >= w.start
        BY <1>b, <1>d, <4>1
      <4> QED
        BY <1>7, <2>3, <4>1, <4>2 DEF InEffect
    <3>2. CASE w.start + i >= MINUTES
      <4>1. weekday = (day + 1) % DAYS /\ minute = w.start + i - MINUTES
        BY <1>3, <2>3, <3>2
      <4>2. minute < End(w)
        BY <1>b, <2>1, <4>1
      <4>3. (weekday - 1) % DAYS = day
        BY <4>1, DayAfter
      <4> QED
        BY <1>7, <2>3, <4>2, <4>3 DEF InEffect
    <3>3. w.start + i < MINUTES \/ w.start + i >= MINUTES
      BY <1>b, <1>d
    <3> QED
      BY <3>1, <3>2, <3>3
  <2> QED
    BY <1>a, <2>2, <2>3 DEF n
<1> QED
  BY <1>6, <1>7


\* For every length of a day and of a week and every list of windows: alerts are
\* muted in the minutes a person reads in the windows (in_maintenance).
THEOREM MutedCorrect == CalSpec => []MutedAsDescribed
<1>1. CalInv => MutedAsDescribed
  <2> SUFFICES ASSUME CalInv
               PROVE  MutedAsDescribed
    OBVIOUS
  <2> DEFINE weekday == now \div MINUTES
             minute == now % MINUTES
  <2>1. now \in Nat /\ now <= DAYS * MINUTES - 1
    <3>1. DAYS * MINUTES \in Nat
      OBVIOUS
    <3> QED
      BY <3>1 DEF CalInv, CalTypeOK
  <2>2. /\ weekday \in Nat /\ minute \in Minute
        /\ now = weekday * MINUTES + minute
    BY <2>1, Digits DEF Minute
  <2>3. weekday \in Day
    <3>0. minute \in Nat
      BY <2>2 DEF Minute
    <3> HIDE DEF weekday, minute
    <3>1. DAYS * MINUTES \in Nat /\ weekday * MINUTES \in Nat /\ minute \in Nat
      BY <2>2, <3>0
    <3>2. weekday * MINUTES < DAYS * MINUTES
      BY <2>1, <2>2, <3>1
    <3>3. DAYS <= weekday => DAYS * MINUTES <= weekday * MINUTES
      BY <2>2, TimesMonotone
    <3> QED
      BY <2>2, <3>1, <3>2, <3>3 DEF Day
  <2>4. \A i \in DOMAIN windows : windows[i] \in Window
    BY DEF CalInv, CalTypeOK, WindowLists
  <2> HIDE DEF weekday, minute
  <2>5. \A i \in DOMAIN windows :
           InEffect(windows[i], weekday, minute) <=>
              \E day \in Day :
                 StartsOn(windows[i], day) /\ now \in Span(windows[i], day)
    BY <2>2, <2>3, <2>4, WindowSpans
  <2> QED
    BY <2>5 DEF MutedAsDescribed, InMaintenance, weekday, minute
<1> QED
  BY <1>1, InitCalInv, NextCalInv, PTL DEF CalSpec


-----------------------------------------------------------------------------
(*                    Least and largest of finitely many                   *)

HIDE CalendarNumbers

USE HistoryAssumption

LEMMA LeastNumber ==
    ASSUME NEW S \in SUBSET Nat, S # {}
    PROVE  \E x \in S : \A y \in S : x <= y
<1> DEFINE below == {0..x : x \in S}
           shorter == StrictSubsetOrdering(Nat)
<1>1. below \subseteq FiniteSubsetsOf(Nat)
  <2> SUFFICES ASSUME NEW x \in S
               PROVE  0..x \in FiniteSubsetsOf(Nat)
    OBVIOUS
  <2>1. IsFiniteSet(0..x) /\ 0..x \subseteq Nat
    BY FS_Interval
  <2> QED
    BY <2>1 DEF FiniteSubsetsOf
<1>2. IsWellFoundedOn(shorter, FiniteSubsetsOf(Nat))
  BY FS_StrictSubsetOrderingWellFounded
<1>3. below # {}
  OBVIOUS
<1>4. \E s \in below : \A t \in below : <<t, s>> \notin shorter
  <2> HIDE DEF below, shorter
  <2> QED
    BY <1>1, <1>2, <1>3, WFMin, Zenon
<1>5. PICK x \in S : \A y \in S : <<0..y, 0..x>> \notin shorter
  <2> HIDE DEF shorter
  <2> QED
    BY <1>4
<1>6. ASSUME NEW y \in S, y < x
      PROVE  FALSE
  <2>1. 0..y \subseteq 0..x /\ 0..y # 0..x /\ 0..x \subseteq Nat
    BY <1>6
  <2>2. <<0..y, 0..x>> \in shorter
    BY <2>1 DEF StrictSubsetOrdering
  <2> QED
    BY <1>5, <2>2
<1> QED
  BY <1>5, <1>6

LEMMA Largest ==
    ASSUME NEW S, IsFiniteSet(S), S # {}, NEW f \in [S -> Int]
    PROVE  \E x \in S : \A y \in S : f[y] <= f[x]
<1> DEFINE Above(x) == {y \in S : f[y] > f[x]}
           above == {Above(x) : x \in S}
           smaller == StrictSubsetOrdering(S)
<1>1. above \subseteq FiniteSubsetsOf(S)
  BY FS_FiniteSubsetsOfFinite
<1>2. IsWellFoundedOn(smaller, FiniteSubsetsOf(S))
  BY FS_StrictSubsetOrderingWellFounded
<1>3. above # {}
  <2>1. PICK x \in S : TRUE
    OBVIOUS
  <2>2. Above(x) \in above
    OBVIOUS
  <2> QED
    BY <2>2
<1>4. \E s \in above : \A t \in above : <<t, s>> \notin smaller
  <2> HIDE DEF above, smaller
  <2> QED
    BY <1>1, <1>2, <1>3, WFMin, Zenon
<1>5. PICK x \in S : \A y \in S : <<Above(y), Above(x)>> \notin smaller
  <2> HIDE DEF smaller, Above
  <2> QED
    BY <1>4
<1>6. ASSUME NEW y \in S, f[y] > f[x]
      PROVE  FALSE
  <2>1. /\ Above(y) \subseteq Above(x) /\ Above(x) \subseteq S
        /\ y \in Above(x) /\ y \notin Above(y)
    BY <1>6
  <2>2. <<Above(y), Above(x)>> \in smaller
    <3> HIDE DEF Above
    <3> QED
      BY <2>1 DEF StrictSubsetOrdering
  <2> QED
    BY <1>5, <2>2
<1> QED
  BY <1>5, <1>6

LEMMA LeastChosen ==
    ASSUME NEW values \in SUBSET Nat, values # {}
    PROVE  Least(values) \in values /\ \A v \in values : Least(values) <= v
  BY LeastNumber DEF Least

-----------------------------------------------------------------------------
(*                          The table of the rows                          *)

\* There are finitely many rows, and their ids go up.
HistInv == IsFiniteSet(DOMAIN rows) /\ HistTypeOK

LEMMA RowTypes ==
    ASSUME HistInv
    PROVE  \A i \in DOMAIN rows :
              /\ rows[i] \in Row
              /\ rows[i].at \in 0..MaxTime
              /\ rows[i].status \in {"UP", "DEGRADED", "DOWN"}
              /\ Answered(i) => rows[i].ttfb_ms \in Nat \ {0}
  BY DEF HistInv, HistTypeOK, Row, Answered

LEMMA NewIdIsNew ==
    ASSUME HistInv
    PROVE  NewId \in Nat \ {0} /\ NewId \notin DOMAIN rows
<1>1. CASE DOMAIN rows = {}
  BY <1>1 DEF NewId
<1>2. CASE DOMAIN rows # {}
  <2> DEFINE f == [i \in DOMAIN rows |-> i]
             last == CHOOSE i \in DOMAIN rows : \A j \in DOMAIN rows : j <= i
  <2>1. f \in [DOMAIN rows -> Int]
    BY DEF HistInv, HistTypeOK
  <2>2. \E i \in DOMAIN rows : \A j \in DOMAIN rows : f[j] <= f[i]
    <3> HIDE DEF f
    <3> QED
      BY <1>2, <2>1, Largest DEF HistInv
  <2>3. \E i \in DOMAIN rows : \A j \in DOMAIN rows : j <= i
    BY <2>2
  <2>4. last \in DOMAIN rows /\ \A j \in DOMAIN rows : j <= last
    BY <2>3
  <2>5. last \in Nat /\ \A j \in DOMAIN rows : j \in Nat
    BY <2>4 DEF HistInv, HistTypeOK
  <2>6. NewId = 1 + last
    BY <1>2 DEF NewId
  <2> HIDE DEF last
  <2> QED
    BY <2>4, <2>5, <2>6
<1> QED
  BY <1>1, <1>2

LEMMA InitHistInv == HistInit => HistInv
<1> SUFFICES ASSUME HistInit
             PROVE  HistInv
  OBVIOUS
<1>1. DOMAIN rows = {} /\ rows \in [{} -> Row] /\ clock = 0
  BY DEF HistInit
<1>2. IsFiniteSet({}) /\ Cardinality({}) = 0
  BY FS_EmptySet
<1> QED
  BY <1>1, <1>2 DEF HistInv, HistTypeOK

LEMMA NextHistInv == HistInv /\ [HistNext]_histVars => HistInv'
<1> SUFFICES ASSUME HistInv, [HistNext]_histVars
             PROVE  HistInv'
  OBVIOUS
<1>a. /\ IsFiniteSet(DOMAIN rows) /\ Cardinality(DOMAIN rows) \in Nat
      /\ DOMAIN rows \subseteq Nat \ {0} /\ rows \in [DOMAIN rows -> Row]
      /\ Cardinality(DOMAIN rows) <= MaxRows /\ clock \in 0..MaxTime
  BY FS_CardinalityType DEF HistInv, HistTypeOK
<1>1. CASE ClockTicks
  BY <1>1, <1>a DEF ClockTicks, HistInv, HistTypeOK
<1>2. CASE Prune
  <2> DEFINE kept == {i \in DOMAIN rows : rows[i].at >= Cutoff}
  <2>1. rows' = [i \in kept |-> rows[i]] /\ clock' = clock
    BY <1>2 DEF Prune
  <2>2. IsFiniteSet(kept) /\ Cardinality(kept) <= Cardinality(DOMAIN rows)
    BY <1>a, FS_Subset
  <2>3. Cardinality(kept) \in Nat
    BY <2>2, FS_CardinalityType
  <2>4. kept \subseteq DOMAIN rows
    OBVIOUS
  <2> HIDE DEF kept
  <2>5. DOMAIN rows' = kept /\ rows' \in [kept -> Row]
    BY <1>a, <2>1, <2>4
  <2> QED
    BY <1>a, <2>1, <2>2, <2>3, <2>4, <2>5 DEF HistInv, HistTypeOK
<1>3. ASSUME NEW r \in Row, RecordRow(r)
      PROVE  HistInv'
  <2>1. NewId \in Nat \ {0} /\ NewId \notin DOMAIN rows
    BY NewIdIsNew
  <2> DEFINE ids == DOMAIN rows \cup {NewId}
  <2>2. /\ Cardinality(DOMAIN rows) < MaxRows /\ clock' = clock
        /\ rows' = [i \in ids |-> IF i = NewId THEN r ELSE rows[i]]
    BY <1>3 DEF RecordRow
  <2>3. IsFiniteSet(ids) /\ Cardinality(ids) = Cardinality(DOMAIN rows) + 1
    BY <1>a, <2>1, FS_AddElement
  <2>4. DOMAIN rows' = ids /\ rows' \in [ids -> Row] /\ ids \subseteq Nat \ {0}
    BY <1>a, <1>3, <2>1, <2>2
  <2> HIDE DEF ids
  <2> QED
    BY <1>a, <2>2, <2>3, <2>4 DEF HistInv, HistTypeOK
<1>4. CASE UNCHANGED histVars
  BY <1>4, <1>a DEF histVars, HistInv, HistTypeOK
<1> QED
  BY <1>1, <1>2, <1>3, <1>4 DEF HistNext

\* The table is one of rows by distinct ids, and never holds more than the bound.
THEOREM HistTypeCorrect == HistSpec => []HistTypeOK
<1>1. HistInv => HistTypeOK
  BY DEF HistInv
<1> QED
  BY <1>1, InitHistInv, NextHistInv, PTL DEF HistSpec


-----------------------------------------------------------------------------
(*                        What is read from the rows                       *)

LEMMA WithinTypes ==
    ASSUME HistInv, NEW since \in Int, NEW until \in Int
    PROVE  /\ IsFiniteSet(Within(since, until))
           /\ Within(since, until) \subseteq DOMAIN rows
           /\ \A i \in Within(since, until) : since <= rows[i].at
<1>1. Within(since, until) \subseteq DOMAIN rows
  BY DEF Within
<1>2. IsFiniteSet(Within(since, until))
  BY <1>1, FS_Subset DEF HistInv
<1> QED
  BY <1>1, <1>2 DEF Within

LEMMA SpanTypes ==
    ASSUME HistInv, NEW since \in Spans
    PROVE  since \in Int /\ clock - since \in Nat \ {0} /\ Cutoff <= since
<1>1. clock \in Nat
  BY DEF HistInv, HistTypeOK
<1> QED
  BY <1>1 DEF Spans, Cutoff

\* Every row of a window is shown in one of the slots.
LEMMA SlotTypes ==
    ASSUME HistInv, NEW since \in Spans, NEW i \in Since(since)
    PROVE  Slot(i, since) \in 0..STRIP_BUCKETS - 1
<1> DEFINE age == rows[i].at - since
           n == (age * STRIP_BUCKETS) \div (clock - since)
<1>1. since \in Int /\ clock - since \in Nat \ {0} /\ MaxTime + 1 \in Int
  BY SpanTypes
<1>2. age \in Nat
  <2>1. i \in DOMAIN rows /\ since <= rows[i].at
    BY <1>1, WithinTypes DEF Since
  <2>2. rows[i].at \in Int
    BY <2>1, RowTypes
  <2> QED
    BY <1>1, <2>1, <2>2
<1> HIDE DEF age
<1>3. age * STRIP_BUCKETS \in Nat
  BY <1>2
<1>4. n \in Nat
  BY <1>1, <1>3, QuotientCounts
<1>5. Slot(i, since) = IF n < STRIP_BUCKETS THEN n ELSE STRIP_BUCKETS - 1
  BY DEF Slot, age
<1> HIDE DEF n
<1> QED
  BY <1>4, <1>5

\* For every table of rows, every window within the retention and every number of
\* slots: the strip shows a failure exactly if the figure beside it counts one,
\* and no data exactly if the figure has none (status_strip, uptime_pct).
THEOREM StripCorrect == HistSpec => []StripAgreesWithUptime
<1>1. HistInv => StripAgreesWithUptime
  <2> SUFFICES ASSUME HistInv, NEW since \in Spans
               PROVE  LET shown == {Strip(since)[n] : n \in 0..STRIP_BUCKETS - 1}
                          uptime == Uptime(since) IN
                      /\ "DOWN" \in shown <=> uptime.up < uptime.total
                      /\ shown = {"none"} <=> uptime.total = 0
    BY DEF StripAgreesWithUptime
  <2> DEFINE all == Since(since)
             up == {i \in all : Available(i)}
             In(n) == {i \in all : Slot(i, since) = n}
             slots == 0..STRIP_BUCKETS - 1
             shown == {Strip(since)[n] : n \in slots}
  <2>1. since \in Int /\ MaxTime + 1 \in Int /\ 0 \in slots
    BY SpanTypes
  <2>2. IsFiniteSet(all)
    BY <2>1, WithinTypes DEF Since
  <2>3. IsFiniteSet(up) /\ Cardinality(up) <= Cardinality(all)
    BY <2>2, FS_Subset
  <2>4. Cardinality(up) \in Nat /\ Cardinality(all) \in Nat
    BY <2>2, <2>3, FS_CardinalityType
  <2>5. \A i \in all : Slot(i, since) \in slots
    BY SlotTypes
  <2>6. \A n \in slots :
           Strip(since)[n] = IF In(n) = {} THEN "none" ELSE Worst(In(n))
    <3>1. Strip(since) = [n \in slots |-> IF In(n) = {} THEN "none" ELSE Worst(In(n))]
      BY Zenon DEF Strip
    <3> HIDE DEF In, slots
    <3> QED
      BY <3>1
  <2>7. Uptime(since).up = Cardinality(up) /\ Uptime(since).total = Cardinality(all)
    BY DEF Uptime
  <2>8. \A n \in slots : Worst(In(n)) = "DOWN" <=> \E i \in In(n) : ~Available(i)
    BY DEF Worst
  <2>9. \A n \in slots : Worst(In(n)) # "none"
    BY DEF Worst
  <2>10. Cardinality(up) < Cardinality(all) <=> \E i \in all : ~Available(i)
    <3>1. Cardinality(up) = Cardinality(all) => up = all
      BY <2>2, FS_Subset
    <3>2. (\A i \in all : Available(i)) => up = all
      OBVIOUS
    <3>3. up = all => \A i \in all : Available(i)
      OBVIOUS
    <3> HIDE DEF up, all
    <3> QED
      BY <2>3, <2>4, <3>1, <3>2, <3>3
  <2>11. Cardinality(all) = 0 <=> all = {}
    BY <2>2, FS_EmptySet
  <2>12. \A i \in all : i \in In(Slot(i, since))
    OBVIOUS
  <2>13. \A n \in slots : In(n) \subseteq all
    OBVIOUS
  <2> HIDE DEF all, up, In, slots
  <2>14. "DOWN" \in shown <=> \E i \in all : ~Available(i)
    <3>1. ASSUME NEW i \in all, ~Available(i)
          PROVE  "DOWN" \in shown
      BY <2>5, <2>6, <2>8, <2>12, <3>1
    <3>2. ASSUME NEW n \in slots, Strip(since)[n] = "DOWN"
          PROVE  \E i \in all : ~Available(i)
      BY <2>6, <2>8, <2>13, <3>2
    <3> QED
      BY <3>1, <3>2
  <2>15. shown = {"none"} <=> all = {}
    <3>1. ASSUME NEW i \in all
          PROVE  shown # {"none"}
      <4>1. Strip(since)[Slot(i, since)] # "none"
        BY <2>5, <2>6, <2>9, <2>12
      <4> QED
        BY <2>5, <4>1
    <3>2. ASSUME all = {}
          PROVE  shown = {"none"}
      <4>1. \A n \in slots : Strip(since)[n] = "none"
        BY <2>6, <2>13, <3>2
      <4> QED
        BY <2>1, <4>1
    <3> QED
      BY <3>1, <3>2
  <2> HIDE DEF shown
  <2>16. /\ "DOWN" \in shown <=> Uptime(since).up < Uptime(since).total
         /\ shown = {"none"} <=> Uptime(since).total = 0
    BY <2>7, <2>10, <2>11, <2>14, <2>15
  <2> QED
    BY <2>16 DEF shown, slots
<1> QED
  BY <1>1, InitHistInv, NextHistInv, PTL DEF HistSpec

\* What is at most as old as the retention is the same before and after pruning.
LEMMA PruneKeepsWindow ==
    ASSUME HistInv, Prune, NEW since \in Int, Cutoff <= since, NEW until \in Int
    PROVE  /\ Within(since, until)' = Within(since, until)
           /\ \A i \in Within(since, until) : rows'[i] = rows[i]
<1> DEFINE kept == {i \in DOMAIN rows : rows[i].at >= Cutoff}
<1>1. rows' = [i \in kept |-> rows[i]] /\ DOMAIN rows' = kept
  BY DEF Prune
<1>2. \A i \in DOMAIN rows : rows[i].at \in Int
  BY RowTypes
<1>3. Cutoff \in Int
  BY DEF Cutoff, HistInv, HistTypeOK
<1>4. \A i \in DOMAIN rows : since <= rows[i].at => i \in kept
  BY <1>2, <1>3
<1>5. \A i \in kept : i \in DOMAIN rows
  OBVIOUS
<1> HIDE DEF kept
<1>6. \A i \in kept : rows'[i] = rows[i]
  BY <1>1
<1> QED
  BY <1>1, <1>4, <1>5, <1>6 DEF Within

LEMMA PruneKeepsFigures ==
    ASSUME HistInv, Prune, NEW since \in Int, Cutoff <= since, NEW until \in Int,
           NEW p \in Nat
    PROVE  /\ Uptime(since)' = Uptime(since)
           /\ Percentile(p, since, until)' = Percentile(p, since, until)
           /\ {i \in Within(since, until) : Answered(i)}'
                 = {i \in Within(since, until) : Answered(i)}
<1>1. Uptime(since)' = Uptime(since)
  <2>1. /\ Since(since)' = Since(since)
        /\ \A i \in Since(since) : rows'[i] = rows[i]
    BY PruneKeepsWindow DEF Since
  <2>2. \A i \in Since(since) : Available(i)' <=> Available(i)
    BY <2>1 DEF Available, Answered
  <2>3. {i \in Since(since) : Available(i)}' = {i \in Since(since) : Available(i)}
    BY <2>1, <2>2
  <2> QED
    BY <2>1, <2>3 DEF Uptime
<1> DEFINE all == Within(since, until)
           among == {i \in all : Answered(i)}
<1>2. all' = all /\ \A i \in all : rows'[i] = rows[i]
  BY PruneKeepsWindow
<1>3. among' = among
  <2>1. \A i \in all : Answered(i)' <=> Answered(i)
    BY <1>2 DEF Answered
  <2> HIDE DEF all
  <2> QED
    BY <1>2, <2>1
<1>4. \A i \in among : rows'[i] = rows[i]
  BY <1>2
<1>5. Percentile(p, since, until)' = Percentile(p, since, until)
  <2> DEFINE reaching == {j \in among : Reaches(j, among, p)}
             values == {rows[i].ttfb_ms : i \in reaching}
  <2>1. Percentile(p, since, until) = IF among = {} THEN NULL ELSE Least(values)
    BY DEF Percentile
  <2>2. Percentile(p, since, until)' = IF among' = {} THEN NULL ELSE Least(values')
    BY DEF Percentile, Least
  <2> HIDE DEF among
  <2>3. \A i \in among : Reaches(i, among, p)' <=> Reaches(i, among, p)
    <3> SUFFICES ASSUME NEW i \in among
                 PROVE  Reaches(i, among, p)' <=> Reaches(i, among, p)
      OBVIOUS
    <3>1. {j \in among : rows[j].ttfb_ms <= rows[i].ttfb_ms}'
             = {j \in among : rows[j].ttfb_ms <= rows[i].ttfb_ms}
      BY <1>3, <1>4
    <3> QED
      BY <1>3, <3>1 DEF Reaches
  <2>4. reaching' = reaching /\ \A i \in reaching : rows'[i] = rows[i]
    BY <1>3, <1>4, <2>3
  <2> HIDE DEF reaching
  <2>5. values' = values
    BY <2>4
  <2> HIDE DEF values
  <2> QED
    BY <1>3, <2>1, <2>2, <2>5
<1> QED
  BY <1>1, <1>3, <1>5


\* For every retention of at least two trend windows: no report over a window
\* within it and no verdict on the trend depends on whether a prune succeeded
\* (_prune_sync).
THEOREM PruneCorrect == HistSpec => PruneUnseen
<1>1. HistInv /\ [HistNext]_histVars =>
         [~(DOMAIN rows \subseteq DOMAIN rows') =>
            /\ \A since \in Spans :
                  Uptime(since)' = Uptime(since)
                    /\ Percentile(95, since, MaxTime + 1)'
                          = Percentile(95, since, MaxTime + 1)
            /\ Verdict' = Verdict]_histVars
  <2> SUFFICES ASSUME HistInv, [HistNext]_histVars,
                      ~(DOMAIN rows \subseteq DOMAIN rows')
               PROVE  /\ \A since \in Spans :
                            Uptime(since)' = Uptime(since)
                              /\ Percentile(95, since, MaxTime + 1)'
                                    = Percentile(95, since, MaxTime + 1)
                      /\ Verdict' = Verdict
    OBVIOUS
  <2>1. Prune
    <3>1. ~ClockTicks /\ ~UNCHANGED histVars
      BY DEF ClockTicks, histVars
    <3>2. ASSUME NEW r \in Row, RecordRow(r)
          PROVE  FALSE
      <4>1. DOMAIN rows' = DOMAIN rows \union {NewId}
        BY <3>2 DEF RecordRow
      <4> QED
        BY <4>1
    <3> QED
      BY <3>1, <3>2 DEF HistNext
  <2>2. clock' = clock /\ clock \in Nat /\ MaxTime + 1 \in Int
    BY <2>1 DEF Prune, HistInv, HistTypeOK
  <2>3. ASSUME NEW since \in Spans
        PROVE  /\ Uptime(since)' = Uptime(since)
               /\ Percentile(95, since, MaxTime + 1)'
                     = Percentile(95, since, MaxTime + 1)
    <3>1. since \in Int /\ Cutoff <= since
      BY SpanTypes
    <3> QED
      BY <2>1, <2>2, <3>1, PruneKeepsFigures
  <2>4. TrendWindows' = TrendWindows
    <3> DEFINE boundary == clock - TREND_WINDOW
               Summary(since, until) ==
                  [ p95     |-> Percentile(95, since, until),
                    samples |-> Cardinality({i \in Within(since, until) : Answered(i)}),
                    total   |-> Cardinality(Within(since, until)) ]
    <3>1. /\ boundary \in Int /\ boundary - TREND_WINDOW \in Int
          /\ Cutoff <= boundary /\ Cutoff <= boundary - TREND_WINDOW
      BY <2>2 DEF Cutoff
    <3>3. ASSUME NEW since \in Int, Cutoff <= since, NEW until \in Int
          PROVE  Summary(since, until)' = Summary(since, until)
      <4>1. Percentile(95, since, until)' = Percentile(95, since, until)
        BY <2>1, <3>3, PruneKeepsFigures
      <4>2. {i \in Within(since, until) : Answered(i)}'
               = {i \in Within(since, until) : Answered(i)}
        BY <2>1, <3>3, PruneKeepsFigures
      <4>3. Within(since, until)' = Within(since, until)
        BY <2>1, <3>3, PruneKeepsWindow
      <4> QED
        BY <4>1, <4>2, <4>3, Zenon
    <3>4. TrendWindows = [ recent   |-> Summary(boundary, MaxTime + 1),
                           previous |-> Summary(boundary - TREND_WINDOW, boundary) ]
      BY Zenon DEF TrendWindows
    <3>5. TrendWindows' = [ recent   |-> Summary(boundary, MaxTime + 1)',
                            previous |-> Summary(boundary - TREND_WINDOW, boundary)' ]
      BY DEF TrendWindows
    <3>6. /\ Summary(boundary, MaxTime + 1)' = Summary(boundary, MaxTime + 1)
          /\ Summary(boundary - TREND_WINDOW, boundary)'
                = Summary(boundary - TREND_WINDOW, boundary)
      BY <2>2, <3>1, <3>3
    <3> HIDE DEF Summary
    <3> QED
      BY <3>4, <3>5, <3>6
  <2>5. Verdict' = Verdict
    BY <2>4, Zenon DEF Verdict
  <2> QED
    BY <2>3, <2>5
<1> QED
  BY <1>1, InitHistInv, NextHistInv, PTL DEF HistSpec, PruneUnseen

\* Rounding up: what is enough for p percent, and what is not.
LEMMA RoundsUp ==
    ASSUME NEW p \in {50, 95}, NEW n \in Nat, NEW count \in Nat
    PROVE  /\ 100 * count >= p * n => count >= (p * n + 99) \div 100
           /\ 100 * count < p * n => count < (p * n + 99) \div 100
<1>1. CASE p = 50
  BY <1>1
<1>2. CASE p = 95
  BY <1>2
<1> QED
  BY <1>1, <1>2

\* For every table of rows and every length of the window, 50 and 95 percent are
\* read as the answer time at the nearest rank, ties and tiny windows included
\* (latency_percentiles).
THEOREM PercentilesCorrect == HistSpec => []NearestRank
<1>1. HistInv => NearestRank
  <2> SUFFICES ASSUME HistInv, NEW p \in {50, 95}, NEW since \in Spans \union {0}
               PROVE  LET among == {i \in Since(since) : Answered(i)}
                          rank  == (p * Cardinality(among) + 99) \div 100
                          value == Percentile(p, since, MaxTime + 1) IN
                      IF among = {} THEN value = NULL
                      ELSE /\ Cardinality({i \in among : rows[i].ttfb_ms < value}) < rank
                           /\ Cardinality({i \in among : rows[i].ttfb_ms <= value}) >= rank
    BY DEF NearestRank
  <2> DEFINE among == {i \in Since(since) : Answered(i)}
             n == Cardinality(among)
             rank == (p * n + 99) \div 100
             value == Percentile(p, since, MaxTime + 1)
             UpTo(v) == {i \in among : rows[i].ttfb_ms <= v}
             below == {i \in among : rows[i].ttfb_ms < value}
             values == {rows[i].ttfb_ms : i \in {j \in among : Reaches(j, among, p)}}
             times == [i \in among |-> rows[i].ttfb_ms]
  <2>1. since \in Int /\ MaxTime + 1 \in Int
    BY SpanTypes
  <2>2. IsFiniteSet(among) /\ n \in Nat
    BY <2>1, WithinTypes, FS_Subset, FS_CardinalityType DEF Since
  <2>3. \A i \in among : rows[i].ttfb_ms \in Nat \ {0}
    BY <2>1, WithinTypes, RowTypes DEF Since
  <2>4. value = IF among = {} THEN NULL ELSE Least(values)
    BY DEF Percentile, Since
  <2>5. \A i \in among : Reaches(i, among, p)
                            <=> 100 * Cardinality(UpTo(rows[i].ttfb_ms)) >= p * n
    BY DEF Reaches
  <2>6. \A v : IsFiniteSet(UpTo(v)) /\ Cardinality(UpTo(v)) \in Nat
    BY <2>2, FS_Subset, FS_CardinalityType
  <2>8. \A v : v \in values <=> \E i \in among :
                   Reaches(i, among, p) /\ v = rows[i].ttfb_ms
    OBVIOUS
  <2>9. \A v : \A i \in among : i \in UpTo(v) <=> rows[i].ttfb_ms <= v
    OBVIOUS
  <2>10. \A v : UpTo(v) \subseteq among
    OBVIOUS
  <2>11. below \subseteq among
    OBVIOUS
  <2>12. \A i \in among : i \in below <=> rows[i].ttfb_ms < value
    OBVIOUS
  <2>13. times \in [among -> Int] /\ \A i \in among : times[i] = rows[i].ttfb_ms
    BY <2>3
  <2>14. \A S \in SUBSET among :
            [i \in S |-> times[i]] \in [S -> Int]
    BY <2>13
  <2> HIDE DEF among, UpTo, below, values, value, times, n
  <2>7. values \in SUBSET Nat
    BY <2>3, <2>8
  <2>15. ASSUME NEW S \in SUBSET among, S # {}
         PROVE  \E i \in S : \A j \in S : rows[j].ttfb_ms <= rows[i].ttfb_ms
    <3> DEFINE f == [i \in S |-> times[i]]
    <3>1. f \in [S -> Int] /\ \A i \in S : f[i] = rows[i].ttfb_ms
      BY <2>13, <2>14
    <3>2. IsFiniteSet(S)
      BY <2>2, FS_Subset
    <3> HIDE DEF f
    <3>3. PICK i \in S : \A j \in S : f[j] <= f[i]
      BY <2>15, <3>1, <3>2, Largest
    <3>4. \A j \in S : rows[j].ttfb_ms <= rows[i].ttfb_ms
      BY <3>1, <3>3
    <3> QED
      BY <3>4
  <2>16. CASE among # {}
    <3>1. values # {}
      <4>1. PICK i \in among : \A j \in among : rows[j].ttfb_ms <= rows[i].ttfb_ms
        BY <2>15, <2>16
      <4>2. UpTo(rows[i].ttfb_ms) = among
        <5>1. \A j \in among : j \in UpTo(rows[i].ttfb_ms)
          BY <2>9, <4>1
        <5>2. UpTo(rows[i].ttfb_ms) \subseteq among
          BY <2>10
        <5> QED
          BY <5>1, <5>2
      <4>3. 100 * n >= p * n
        BY <2>2
      <4>4. Reaches(i, among, p)
        BY <2>5, <4>2, <4>3 DEF n
      <4>5. rows[i].ttfb_ms \in values
        BY <2>8, <4>4
      <4> QED
        BY <4>5
    <3>2. value \in values /\ \A v \in values : value <= v
      BY <2>4, <2>7, <2>16, <3>1, LeastChosen
    <3>3. value \in Nat
      BY <2>7, <3>2
    <3>4. Cardinality(UpTo(value)) >= rank
      <4>1. 100 * Cardinality(UpTo(value)) >= p * n
        BY <2>5, <2>8, <3>2
      <4> QED
        BY <2>2, <2>6, <4>1, RoundsUp
    <3>5. Cardinality(below) < rank
      <4>1. CASE below = {}
        <5>1. Cardinality(below) = 0
          BY <4>1, FS_EmptySet
        <5>2. n # 0
          BY <2>2, <2>16, FS_EmptySet DEF n
        <5>3. 100 * 0 < p * n
          BY <2>2, <5>2
        <5> QED
          BY <2>2, <5>1, <5>3, RoundsUp
      <4>2. CASE below # {}
        <5>1. PICK i \in below : \A j \in below : rows[j].ttfb_ms <= rows[i].ttfb_ms
          BY <2>11, <2>15, <4>2
        <5>2. i \in among /\ rows[i].ttfb_ms < value /\ rows[i].ttfb_ms \in Nat
          BY <2>3, <2>11, <2>12
        <5>3. below = UpTo(rows[i].ttfb_ms)
          <6>1. ASSUME NEW j \in among
                PROVE  rows[j].ttfb_ms < value
                          <=> rows[j].ttfb_ms <= rows[i].ttfb_ms
            BY <2>3, <2>12, <3>3, <5>1, <5>2
          <6>2. \A j \in among : j \in below <=> j \in UpTo(rows[i].ttfb_ms)
            BY <2>9, <2>12, <6>1
          <6>3. UpTo(rows[i].ttfb_ms) \subseteq among
            BY <2>10
          <6> QED
            BY <2>11, <6>2, <6>3
        <5>4. ~Reaches(i, among, p)
          BY <2>8, <3>2, <3>3, <5>2
        <5>5. ~(100 * Cardinality(UpTo(rows[i].ttfb_ms)) >= p * n)
          BY <2>5, <5>2, <5>4
        <5>6. Cardinality(below) \in Nat /\ ~(100 * Cardinality(below) >= p * n)
          BY <2>6, <5>3, <5>5
        <5>7. p * n \in Nat
          BY <2>2
        <5>8. 100 * Cardinality(below) < p * n
          BY <5>6, <5>7
        <5> QED
          BY <2>2, <5>6, <5>8, RoundsUp
      <4> QED
        BY <4>1, <4>2
    <3> QED
      BY <2>16, <3>4, <3>5 DEF among, n, value, below, UpTo
  <2>17. CASE among = {}
    BY <2>4, <2>17 DEF among, value
  <2> QED
    BY <2>16, <2>17
<1> QED
  BY <1>1, InitHistInv, NextHistInv, PTL DEF HistSpec

=============================================================================
