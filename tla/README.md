# vigil-sre in TLA+

vigil-sre is an HTTP monitor: a shell loop starts `main.py` about once a minute;
each run ("round") probes every target concurrently, keeps one record per target
in `state.json`, tells an operator about changes through webhooks, records
history in SQLite and, if all went well, pings a dead-man's switch. This
directory models what is hard to get right in it: **that the operator is told,
once, about what happened, although rounds are killed, writes fail, webhooks are
dead, windows mute alerts and every piece of memory between two rounds is one
JSON file** – and, around that core, what it relies on: the delivery of one
alert, the list of targets and its editors, the loop that starts the rounds and
the probe that restarts it, the markers of the alerts no status change
announces, the clock, and the history.

All line numbers refer to the files under `src/`.

## 1. Inventory

| Component | Code | State | Operations | Correct when |
|---|---|---|---|---|
| Status record and notification policy | `main.py` 727–827, 1023–1225, 1362–1465 | one `UrlState` per URL | `set_up`, `set_degraded`, `set_down`, `_performance_decision`, `record_alert_outcome` | news is never lost by a later observation; no closure without an opening; flapping does not page |
| Alert pipeline of a round | `main.py` 843–980, 1281–1500, 2177–2571, 2733–2966 | `StateManager._state`, `_armed_by_transition`, `write_failures`, `undelivered_advisory`, `state.json` | `check_url`, `_alert_unless_muted`, `_announce_if_owed`, reminder claim and release, `_write_sync`, heartbeat decision | at-least-once across kills; the file agrees with what was told; the heartbeat vouches for no silent outage |
| Channels and circuit breaker | `notifiers.py` 60–105, 199–327, 569–673 | `_circuit_failures` (per run) | `send`, `dispatch_alert`, `reset_circuits` | delivered iff some channel answered 2xx; a dead channel costs bounded time; a live one is not cut off |
| Maintenance windows | `diagnostics.py` 1059–1121 | none (clock) | `in_maintenance` | windows over midnight, whole-day windows, weekday wrap |
| Reminder schedule | `diagnostics.py` 865–900, `main.py` 1281–1360 | `remind_step` | `reminders_due`, claim, release | one reminder for many missed ones; none lost to a mute |
| Certificate alerts | `main.py` 1502–1542, 1912–2011, `diagnostics.py` 664–760 | `cert_alerted_days`, `cert_last_seen_days` | `_maybe_alert_cert_expiry` | one confirmed alert per band and certificate |
| Trend alerts | `main.py` 1544–1572, 2014–2175 | `trend_alerted_p95_ms` | `_maybe_alert_trend` | one confirmed alert per episode, one more when much worse |
| Target store | `targetstore.py`, `api.py` 448–533, `targetctl.py`, `main.py` 452–725 | `targets.json` or the YAML seed | `read_store`, `write_store`, `do_PUT`, `add`, `remove`, `load_targets` | an unreadable list is neither replaced by the seed nor overwritten; an empty one is deliberate |
| Pruning | `main.py` 1227–1266 | records of unlisted targets | `prune` | exactly the unlisted records go |
| Round supervision | `main.py` 3205–3390, `docker-compose.yml`, `deploy/k8s` | exit code, round marker | `_exit_code`, `_finish_run`, `liveness_problem`, the shell loop | a stuck or failing monitor is restarted, a slow one is not |
| History | `history.py` | `history.db` | `record_run`, `prune`, percentiles, uptime, strip | never affects alerting; statistics of the right samples |
| Probe and diagnostics | `main.py` 1580–1866, `diagnostics.py` | none | `_probe_with_backoff`, `analyze` | numeric heuristics |
| Dashboard, browser, MCP server, scripts | `dashboard.py`, `history_browser.py`, `mcp_server.py`, `scripts/` | none of their own | read-only | – |

**Interaction.** `run_health_checks` builds one `StateManager` from `state.json`
and gathers one `check_url` coroutine per target. Coroutines interleave at every
`await`: each `StateManager` method is atomic under one lock and rewrites the
*whole* file, so one target's write persists (or repairs, or fails to persist)
what the others have in memory. Status alerts pass through one funnel,
`_alert_unless_muted`. Nothing but the file survives a round. After all
coroutines the round reads the file back to decide on the heartbeat; the exit
code uses the same count. The dashboard's API writes the target list, which the
next round reads; the two processes share no lock.

**What is hard.** Kills between two writes; failed writes; channels that take an
alert and lose the answer, so that the monitor's belief about the operator is
wrong; the clock read twice around a window's edge; retries of alerts that have been overtaken by a newer
observation; streaks, hysteresis and retries that overlap; markers with
different owners (`alert_pending`, `muted_alert_owed`, `missed_outage`,
`notification_status`, `remind_step`) that must agree. `PROJECT.json` lists each
such hazard at its line.

## 2. Modules

| Module | Models |
|---|---|
| `StatusRecord` | a record and the pure decisions on it |
| `AlertLifecycle` | rounds, coroutines, file, funnel, windows, channels, operator |
| `AlertContract` | what the pipeline promises of each target's status alert, implemented by `AlertLifecycle` |
| `Notifiers` | concurrent dispatches: POSTs, retries, `Retry-After`, the shared breaker |
| `DispatchContract` | what `dispatch_alert` promises, implemented by `Notifiers` and assumed by `AlertLifecycle` |
| `TargetList` | seed and store, editors, API, `load_targets`, pruning |
| `RoundLoop` | the container's loop, exit code, liveness probe, stop and restart |
| `Advisories` | certificate and trend alerts with their markers |
| `Calendar` | maintenance windows and reminders, computed on a small week |
| `History` | rows, pruning, percentiles, uptime, strip, trend verdict |
| `MCAlertLifecycle`, `MCOperations` | instances for TLC |
| `AlertLifecycle_proofs` | theorems about `StatusRecord` and `AlertLifecycle`: types, what is owed, the heartbeat |
| `AlertMessages_proofs` | theorems about `AlertLifecycle`: what the operator is told, and `AlertContract` |
| `Notifiers_proofs`, `TargetList_proofs`, `RoundLoop_proofs`, `Advisories_proofs` | theorems about the module each is named after |
| `CalendarHistory_proofs` | theorems about `Calendar` and `History` |
| `Operations_proofs` | `MCOperations` keeps what is proved of its parts |

`AlertLifecycle` leaves to chance what the smaller modules compute: whether a
dispatch delivers (`Notifiers`), whether a window is open and a reminder due
(`Calendar`), which targets there are (`TargetList`), when a process dies
(`RoundLoop`). Each of them has no more behaviours than `AlertLifecycle` allows
for, so a property it has holds with any of them. For the dispatch, `Notifiers`
implements `DispatchContract` (`KeepsContract`): an answer "delivered" only after
an acceptance, "undelivered" with or without one. These are the three disjuncts
of `AlertLifecycle`'s `Dispatch`. For the others it is read off the actions.

**Reached and confirmed.** A webhook that takes the POST and whose answer times
out or breaks off (`notifiers.py:306–316`) has told the operator, and the send is
tried again and may come back as lost. No module lets the code know better:
`AlertLifecycle` observes what *reached* the operator and what was *confirmed* to
the monitor separately, `Calendar` and `Advisories` observe what was confirmed, and
there a send that is not confirmed may have been seen or not. A promise that
speaks of what the monitor repeats, closes or is silent about is one about
confirmed deliveries; one about an outage the operator saw is stated of what
reached them.

### StatusRecord

A record keeps every field a decision reads: `status`, `failures`
(`consecutive_failures`), `notified` (`notification_status`; `"NONE"` = written
before the field existed), `slow`, `healthy`, `pending` (`alert_pending`),
`muted` (`muted_alert_owed`), `missed` (`missed_outage`), `remind`
(`remind_step`). Certificate and trend markers, `diagnostics` and texts are left
out: no status decision reads them. Abstractions:

* `last_changed` of a DOWN record and `missed_outage.start` become the *identity*
  of the outage (`since`, `missed`; 0 is "absent"), which is all that decisions
  and properties compare. The identity comes from the environment's `outage`
  counter when DOWN is confirmed.
* `0 <= age <= PERFORMANCE_MAX_GAP_S` becomes the bit `fresh`; with
  `GapsMayHappen` it may be false in any round.
* `consecutive_failures` grows without bound in the code; it is compared only
  with `DOWN_CONFIRMATIONS` and with zero, so the model caps it there. The
  streaks are capped by the code itself.

`SetHealthy` is `set_up` and `set_degraded` with `stabilize=True`, the only way
production calls them; `SetDown` likewise. Operators whose comment begins with
"Fault" are not part of the model: each is a plausible bug that the properties
must catch (see `mutants`).

### AlertLifecycle

An action is a stretch of `check_url` between two points where another coroutine
may run or the process may die.

| Action | Code |
|---|---|
| `ObserveHealthy`, `ObserveDown` | the probe's answer, the setter with `_arm` and its write, choice of kind and path |
| `ClaimReminder`, `SkipReminder` | `claim_reminder_step` and the test before it |
| `AnnounceIfOwed` | `_announce_if_owed` up to the funnel |
| `Mute`, `Unmuted` | the window test in the funnel, `release_muted_status_alert` |
| `Dispatch` | `dispatch_alert`: confirmed; taken by a channel and reported lost; lost |
| `RecordOutcome` | `record_alert_outcome` |
| `Settle` | `record_muted_alert` / `release_reminder`, by call site |
| `StartRound`, `FinishRound` | a process loads the file; the heartbeat decision, then the process is gone |
| `Crash` | the process is killed |
| `TargetChanges`, `WindowToggles`, `ChannelsToggle` | environment: a target's health changes between rounds, a window or the webhooks at any time |

`disk` is `state.json`, `mem` the memory of the running process. `WriteSync` puts
all of `mem` on `disk`, or, if `WritesMayFail`, counts a failure and leaves
`disk` alone. The rename makes a write atomic, so a kill inside it is a kill
before or after. `told` and `heard` observe the operator: the status the last alert
that reached them spoke of, and the outages any such alert (reminders and catch-up
notices included) was about. `acked` and `ackedOf` observe the same of alerts whose
delivery a channel confirmed. No guard reads them.

Initial states: an empty file, or, for targets in `Upgraded`, a record written by
a version without `notification_status` that told its status, or that lost its
FAILURE. A legacy UP or DEGRADED record that owes an alert is not enumerated:
what the operator was told last cannot be inferred from it, so it makes no
statement about `told`.

### AlertContract

The contract follows one alert per target and forgets streaks, kinds, windows,
channels and rounds. `AlertLifecycle` maps its record, as the *file* has it, and
its coroutine to a phase:

| Phase | In `AlertLifecycle` |
|---|---|
| `due` | `alert_pending`, armed by this round |
| `lost` | `alert_pending`, left by an attempt that reached nobody or by a killed process |
| `deferred` | `muted_alert_owed` only |
| `sent` | a channel confirmed it and the file still owes it |
| `quiet` | the file owes nothing |

`about` says whether an alert that is owed is about an outage (going on, just
ended, or ended before anybody heard of it) or about slowness only. What the
contract does not allow is the point of it: a `lost` alert about an outage becomes
quiet only through `Send` and `Acknowledge`; a window takes back only what is
`due`; the heartbeat (`Ping`) is sent with nothing `due`, `lost` or `sent`; and a
kill turns `due` into `lost` and a delivery not yet written down into an alert
that is repeated, never into silence. What can be given up is an alert
about slowness, once the target is no longer slow (`Overtake`).

### Notifiers and DispatchContract

`leg[k][c]` is the send of coroutine `k`'s alert on channel `c`: `queued` before
the breaker is asked, `posting`, `sleeping`, `done`.

| Action | Code |
|---|---|
| `DispatchAlert` | `dispatch_alert` up to the gather; no channel configured |
| `Deliver` | `_deliver`: the breaker, the first POST |
| `Accept`, `Abandon`, `TryAgain`, `Wake` | one answered or lost POST of `Notifier.send`, the end of a sleep |
| `Return` | the end of the gather, `_record_circuit` for every channel, the answer |
| `NewRun` | `reset_circuits` in the next process |

A POST costs its whole timeout. A timeout may hide an acceptance, so `False` can
be wrong about what the channel did and `True` cannot. `DispatchContract` says
that and nothing else: `Reach` is an acceptance, `Return` may answer
`"delivered"` only after one, and every call is answered. `Notifiers` maps
`reached` to the coroutines with an accepting channel.

### TargetList

A list is a set of URLs. An odd URL is either `loose` (the YAML loader takes its
entry, the store's validation refuses it) or `unset` (it names an environment
variable that has no value). `ReadStore` keeps the three answers of `read_store`
apart; `LoadTargets` is `load_targets`. An editor, a page or a command, is shown
a list (`Show`), sends all of an edited one (`Add`, `Remove`, `SendNothing`), and
the API checks (`PutCheck`) and writes it (`PutWrite`) in two steps, with
everybody else in between. `HandEdit` changes or damages either file. The
monitor loads (`LoadRound`), checks (`ProbeAll`), prunes with the list it loaded
(`EndRound`), or is killed. `inForce`, `unlisted` and an editor's `truth` and
`meant` observe what the operator established, saw and confirmed.

### RoundLoop

Time is counted in ticks; `Tick` never passes over something that is `Due`. The
two ages the probe reads (`marker`, `newest`) are counted up to the first that is
too old. A round works and ends within `BUDGET`, or hangs. `LivenessProblem` is
`liveness_problem`; the probe's command also loads the list, so a list that
cannot be loaded fails it too. `TermSent` is the trap: the shell passes TERM on
and waits for the round, up to `GRACE`. Nothing relates `BUDGET` and `GRACE`:
the code only warns when a round exceeds `RUN_BUDGET_S`.

### Advisories

One target's advisory fields in file and memory, a round that can end anywhere
(`AdvEnd`), writes that may fail (`AdvWrite`) or be made good by another target's
(`OtherWrite`). `MaybeAlertCertExpiry` is the function up to its dispatch,
`CertConfirmed` / `CertUnconfirmed` the answer, `CertRecord` the marker; likewise
the trend. Unconfirmed is muted, refused, or taken and reported lost: the code
records nothing in any of them. The certificate can be replaced at any moment (`Renew`), also by one that
is valid for less; `fresh` observes whether days on record are this
certificate's, `hidden` that a replacement could not be seen because the days
did not rise.

### Calendar

`InEffect` is the test of `in_maintenance` on a week of `DAYS` days of `MINUTES` minutes;
`RemindersDue` is `reminders_due`. The reminder's claim, its confirmed delivery
(`ReminderConfirmed`), its release and the end of the process in between
(`ProcessEnds`) run beside the clock. The claim and the release each write the
file, and the write may fail (`Write`); a later write of the round makes it good
(`RestWritten`). `lapse` observes that a process ended with its claim in flight or
its step unwritten, after which the schedule may be a step off.

### History

Rows of one target, by their id, are recorded and pruned; the readers are operators
on them. `Worst` ranks the conditions of `status_strip`'s `MAX(CASE ...)`: a probe
that did not answer is a failure whatever its status.
Percentiles are defined the way the SQL computes them (`CUME_DIST` and `MIN`),
and compared with the nearest-rank definition.

## 3. Runs

Bounds: `MaxOutages` (how often a target goes down) and `MaxReminders`; every
other counter is bounded by the code's own ceilings. One target suffices for
what a record and its file say, since targets share only the file, the write
counter and the advisory tally; the runs with two targets are there for those.
Two outages are the least in which an obligation of one meets the next, `rounds`
allows three. Confirmation counts are the code's (2, 3, 2) where one target is
checked and smaller where there are two, which only shortens streaks; the
theorems hold for every count.

| Run | Configuration | Checks |
|---|---|---|
| `rounds` | 1 target; windows, dead channels, sends reported lost, upgrades, fairness; no kills | `TypeOK`, `NotifiedWasTold`, `HeartbeatHonest`, `OpenOutageOnFile`, `ClosureHasOpening`, `CatchUpUnconfirmed`, `ConfirmedNotRepeated`, `OperatorLearns` |
| `writes` | 2 interchangeable targets, one outage each, failing writes, kills | `OutageOnFileTold`, `HeartbeatMeansSaved` |
| `contract` | 1 target; kills, windows, reminders, dead channels, gaps, upgrades and fairness together | `ObligationOnDisk`, `OwedOutageKept`, `CatchUpTraded`, `KeepsAlertContract` |
| `dispatches` | 2 coroutines, 2 channels, 4 dispatches, 2 attempts, breaker at 2, fairness | `TypeOK`, `WorkingChannelKept`, `DeadChannelBounded`, `SendTimeBounded`, `KeepsContract` |
| `targets` | 2 URLs, one odd; a page, a command, one edit by hand | `SavesOneEdit`, `EmptiedOnPurpose`, `SavedListLoads`, `DroppedWasRemoved`, `CleanRunWatchedAll` |
| `operations` | one part per behaviour, see below | the properties of `Advisories`, `RoundLoop`, `Calendar`, `History`, and `EditsTakeEffect` |

`operations` runs parts that share no state: `MCOperations` extends their modules
and adds `part`, which is chosen at the start; the other parts stay in one fixed
initial state (the list has a command and no page, `Page = {}`), so the state graph is the sum of
the parts' graphs, not their product, and each part's bounds can be read alone.

The deadlock check is on for the runs of `AlertLifecycle` and `Notifiers`. It is
off in `targets` and `operations`: the history stops at `MaxTime` with
`MaxRows` rows and an outage of the calendar at `MaxElapsed`, which are bounds of
the model, and a loop stopped for good really stops.

* `ObligationOnDisk` – between the decision to send a status alert and its
  recorded outcome the *file* owes it. Checked with every feature but failing
  writes; with those, and for several targets, it is proved (`AtLeastOnce`).
* `NotifiedWasTold` – the file's idea of what the operator was told is what was
  confirmed last, and where an outage is involved it is what the operator really
  saw last, or something is still owed.
* `HeartbeatHonest` – a round that pings leaves no outage nobody was told of,
  other than one whose muted announcement is on record.
* `HeartbeatMeansSaved` – a round that pings has all it learned in the file.
* `OutageOnFileTold` – however many writes failed before, an outage on file under
  a heartbeat is one of which an alert reached a channel, or whose muted
  announcement is on record; and if it is the outage going on, it is what the
  operator was told last. Weaker than `HeartbeatHonest`, which fails with failing
  writes: the file may still hold an earlier outage, told and over, in the place
  of the one going on. The run has one outage per target; later ones are covered
  by the theorem `OnFileTrue`.
* `OpenOutageOnFile` – the outage the operator saw last, be it in a message that
  was reported lost, is on file as the status, as `notification_status`, or as the
  catch-up notice owed for it: a closure can still follow.
* `ClosureHasOpening`, `CatchUpUnconfirmed`, `ConfirmedNotRepeated` – each message
  the monitor *attempts* agrees with what was confirmed before, and is news
  beside it: a closure follows its confirmed opening, a catch-up is about an
  outage no alert of which was confirmed, nothing confirmed is paged again.
  DEGRADED is exempt from the last: after a muted phase the current state is
  announced even if it is what was told before the window.
* `OwedOutageKept` – only a recorded delivery clears an attempted, lost FAILURE.
* `CatchUpTraded` – an owed catch-up notice is given up only for a recorded
  delivery or for the FAILURE, now owed, of a newer outage: what remains of
  `CatchUpKept`, which the code does not keep.
* `OperatorLearns` – a lasting status is eventually the one confirmed, for good,
  and an operator who saw an outage or its end is not left with it.
* `KeepsAlertContract` – the pipeline implements `AlertContract`, with every feature
  but failing writes at once; where the single properties above need kills or
  windows excluded, this is what remains true with them. Its fairness says that
  what was delivered is written down, or forgotten by a kill.

Delivery:

* `WorkingChannelKept` – the breaker is open only on a channel that itself lost
  that many messages in this run, in a row or not: its sibling's losses never open
  it. (Skipped sends can open it again after a delivery; `breaker_reopened`.)
* `DeadChannelBounded` – since its last delivery a channel was paid the whole
  retry policy at most `CIRCUIT_BREAK_AFTER - 1` times plus once per coroutine.
  The coroutines matter: all of them may be posting when the breaker opens.
* `SendTimeBounded` – a send ends in bounded time whatever `Retry-After` names.
* `KeepsContract` – `Notifiers` implements `DispatchContract`, liveness included.

Four dispatches by two coroutines are the least that open the breaker, skip, and
close it again by a delivery that began before it opened.

Targets: `SavesOneEdit` (a save changes nothing its author did not edit, against
the list the author read), `EmptiedOnPurpose`, `SavedListLoads` (the store's
validation is at least as strict as the loader's), `DroppedWasRemoved` (pruning
drops only what was out of force at some moment of the round), `CleanRunWatchedAll`
(a run with a heartbeat watched what stayed in force), `EditsTakeEffect` (with a
list that loads for good, what is in force is probed again and again, what is
not leaves no record). Two URLs suffice: the edited one and a bystander; the
editors share only the store.

Operations:

* `HungRoundReplaced`, `WorkingMonitorKept`, `WorkingRoundFinishes`, `RoundsGoOn`
  – a hung round is replaced within `HangLimit`, a working monitor is not
  restarted, a working round younger than the grace period is not cut off, and
  rounds go on for ever. The ticks are small numbers that keep what the real ones
  can do: a round may outlast the grace, round + pause <= liveness age, period
  below both.
* `CertSilenceEarned`, `TrendSilenceEarned` – silence about something bad relies
  on a confirmed message; `CertNotRepeated`, `TrendNotRepeated` – after a confirmed
  one the next *attempt* is for something worse, or follows a lost marker. Four days cover both bands, the healthy side and the
  day of expiry; the three p95 values give a pair within and a pair beyond the
  factor.
* `MutedAsDescribed` – `in_maintenance` is true in exactly the minutes the windows
  span, for every list of up to two windows on a week of two days of three
  minutes, which has crossings of midnight, the wrap of the week and the day's last
  minute.
* `RemindersKept`, `RemindersSpaced` – between sends the schedule stands where the
  last confirmed reminder left it, and an attempt is about a further point than
  that one, unless a process ended with its claim in flight or its step
  unwritten.
* `NearestRank`, `StripAgreesWithUptime`, `PruneUnseen` – percentiles against the
  textbook definition; strip and uptime agree; pruning changes no answer.

`rounds` keeps kills and reminders out because of the disagreements below, each
with its own run: kills (`muted_then_killed`, `delivery_not_recorded`), reminders
(`reminder_not_recorded`). Sampling gaps are left to `contract` and to the proofs,
which cover them in every property of `rounds` but the liveness one. `writes` is
checked up to a VIEW without `acked` and `ackedOf`, which no action and no property of
that run reads. That `HeartbeatHonest` holds with kills where no window
can mute is proved (`HeartbeatTrue`).

**Fairness.** `FairSpec` assumes weak fairness of `StartRound`, of `FinishRound`
and of each target's coroutine. The shell loops in `docker-compose.yml` and the
Kubernetes manifest start a round after every round, also after a failed one (by
restarting the container); a coroutine always goes on because every probe, every
webhook attempt and every sleep has a timeout, and asyncio schedules ready
coroutines in order. Nothing is assumed of the environment; `OperatorLearns` is
conditional on the status lasting, the window being closed and a channel
confirming. Kills are off in that run: a process killed in every round never
tells anybody anything.

`Notifiers`: weak fairness of every send's steps and of `Return`, since every POST
has a timeout, every sleep is finite (a mutant makes it otherwise) and asyncio
runs what is ready. `RoundLoop`: weak fairness of the loop, the kubelet and the
clock taken together (`LoopStep`), none of `Stop`, of `ListChanges` or of a
check's write. `TargetList`: weak fairness of `LoadRound` and strong fairness of
`ProbeAll` and `EndRound`: a round may be killed at any point, but not every round
is. `MCOperations` restates the last two for the part chosen.

### Where code and documentation disagree

| Run | Property | What happens |
|---|---|---|
| `muted_then_killed` | `HeartbeatHonest` | a muted FAILURE is taken back in one write and put on record in the next; a kill in between loses the outage for good, under a green watchdog |
| `catch_up_dropped` | `CatchUpKept` | confirming a second outage drops the catch-up notice still owed for the first |
| `reminder_not_recorded` | `CatchUpUnconfirmed` | a confirmed reminder announced a muted outage, but the recovery still says "nobody was told" |
| `delivery_not_recorded` | `NotifiedWasTold` | a DEGRADED alert confirmed just before a kill is neither re-sent nor closed if the next probe is healthy |
| `breaker_reopened` | `OpenOnConsecutiveLosses` | skipped sends count as failures; recorded after a concurrent delivery has closed the breaker they open it again, on a channel that lost nothing since |
| `stop_cuts_round` | `StopWaitsForRound` | 150 s of grace are not "longer than the worst round": probes, a status and a certificate dispatch take 210 s, each trend alert 75 s more; a stop kills such a round over its deliveries |

`findings` in `PROJECT.json` quotes the lines. `stop_cuts_round` has ticks of 15 s
and otherwise the deployed constants. More observations without a run:

* What was seen and reported lost: a FAILURE is repeated every round until one is
  confirmed; if the outage ends first, the catch-up says that "Nobody Was Told"
  (`notifiers.py:373`, `main.py:1012–1014`) although somebody was; a DEGRADED is
  dropped when the target is UP again, and its closure never comes; a reminder, a
  certificate or a trend alert is sent again. The code cannot tell these from
  refusals, so the properties are stated as above.
* A round that delivers a RECOVERY while all its writes fail leaves a stale "DOWN,
  told" on file, so a next outage is silent (`HeartbeatHonest` needs
  `~WritesMayFail`; `OutageOnFileTold` says that it takes such a stale record).
* An outage announced after its window by a process killed before the record, and
  over by the next window, is never closed: the RECOVERY is muted, and the record
  says that nobody was told (`OpenOutageOnFile` needs kills without windows). The
  same happens to an outage that only a reminder announced.
* A legacy UP record that owes its RECOVERY and is first observed DEGRADED loses
  it.
* `main.py:2094–2096` logs that no trend marker is changed when `history.db` cannot
  be read; markers cleared for targets earlier in the same loop stay cleared.
* `timeout_s` may be 300 s in the store and is unbounded in YAML; a round of such
  targets outlasts `LIVENESS_MAX_AGE` (`RoundLoopAssumption` excludes it).
* An unusable list makes the liveness probe fail in the middle of a working round;
  the restart waits for that round.
* A certificate replaced by one with no more days left cannot be noticed
  (`hidden`).
* A retention below two trend windows silently disables the trend
  (`HistoryAssumption`).
* `do_PUT` checks the store and writes it in two steps, and a save replaces the
  whole list: a newer list saved in between is overwritten. `do_PUT` says so;
  `SavesOneEdit` compares with the list at the read.

## 4. Proofs

Everything below is proved for every value of the constants that the named
assumptions of each module allow.

**AlertLifecycle and StatusRecord** (`ConfirmationsAssumption`,
`LifecycleAssumption`): any set of targets, any subset with windows and reminders,
crashes, failing writes and gaps allowed or not.

| Theorem | States |
|---|---|
| `TypeCorrect` | `Spec => []TypeOK` |
| `AtLeastOnce` | `Spec => []ObligationOnDisk` |
| `HeartbeatVouches` | `Spec => HeartbeatMeansSaved` |
| `LostFailureStaysOwed` | `Spec => OwedOutageKept` |
| `NoticeTradedForFailure` | `Spec => CatchUpTraded` |
| `LeavingDownAlerts`, `FailureKeepsOwed` | about `set_up`/`set_degraded` after DOWN, and about `set_down` |

*Types.* `TypeOK` is not inductive: `status` may be `"ABSENT"`, and `Dispatch`
would then copy it into `told` and `acked`. `TypeInv` adds `SeenBeforeSent`: past its probe
a coroutine has a record with an observed status.

*At-least-once.* `ObligationOnDisk` speaks of the file, but no single action
relates the file to one target's flight. `ObligationInv` adds `FileIsMemory`
(until a write fails, `disk = mem`, whoever wrote last) and `OwedInMemory` (the
memory owes what is in flight, by the armed flag or the muted marker). Every
step touches one target, so `OwedIsLocal` reduces it to that target; the rest is
what the setters store.

*Heartbeat.* `FileIsMemory` at the end of a round, and `PingedBetweenRounds`: a
running round has not pinged yet.

*Lost FAILURE.* `OutageInv` adds that every DOWN record dates from a real outage.
Without it a healthy observation could find the missed outage "absent" and drop
the flag. Then each step that touches an owed DOWN record is shown to keep the
flag or to record a delivery.

*Owed notice.* The same invariant also says that a DOWN record has no missed
outage (`Dated`): what its recovery will owe is its own outage. So a notice is on
a reachable target's record only, a healthy observation keeps it while it is owed
(`NoticeKept`), and the confirmation that drops it arms the new FAILURE.

**What the operator is told** (`AlertMessages_proofs`, same assumptions). Here the
theorems have hypotheses, each the negation of a feature with which the
property fails:

| Theorem | States | Hypotheses |
|---|---|---|
| `HeartbeatTrue` | `[]HeartbeatHonest` | writes do not fail; `KilledOutsideWindows`: kills only without windows (`muted_then_killed`) |
| `OnFileTrue` | `[]OutageOnFileTold` | `Maintained = {}`: no windows; writes may fail, processes may be killed |
| `NotifiedTrue` | `[]NotifiedWasTold` | writes do not fail; no kills (`delivery_not_recorded`); `RemindersUnmuted`: no target has both reminders and windows |
| `OpenTrue` | `[]OpenOutageOnFile` | writes do not fail; `KilledOutsideWindows`; `RemindersUnmuted` |
| `ClosureTrue` | `[]ClosureHasOpening` | as `NotifiedTrue`, and `PERFORMANCE_RECOVERY_CONFIRMATIONS > 1` (the code's is 2, `main.py:197`) |
| `CatchUpTrue` | `[]CatchUpUnconfirmed` | as `NotifiedTrue` (`reminder_not_recorded`) |
| `NotRepeated` | `[]ConfirmedNotRepeated` | as `NotifiedTrue` |
| `AlertContractKept` | the safety half of `KeepsAlertContract` | writes do not fail |

With one confirmation, a DEGRADED record of a version without `notification_status`
would be closed at once, by a RECOVERY ("was down") instead of a
PERFORMANCE_RECOVERY, since `recovery_kind` reads the missing field before it is
inferred; with two, the first healthy round has inferred it. The proof of
`ClosureTrue` found that.

The invariants are a chain, each using the ones before. `SavedInv`: the file is
the memory. `HonestInv`: what a call site knows of the record while its alert is
on its way (`SiteKnows`), that an outcome is what happened (`OutcomeTrue`), and
that an outage on record was told, is owed, or is between the two writes of a
mute (`OutageAccounted`). `ConfirmedInv`: `notification_status` is what was confirmed,
and a muted marker stands for something that was not (`Marked`,
`ConfirmedIsNotified`). `FitsInv`: the alert under way is one the record calls for
(`MessageFits`). `ConfirmedOfInv`: outages are known in order, and none was
confirmed of the one a catch-up is owed for (`KnownInOrder`, `OwedIsUnconfirmed`).
`DoubtInv`: where what the operator saw and what was confirmed differ over an
outage, an alert is owed (`DoubtOwed`): a send that was reported lost leaves its
obligation, and only a confirmed one, which the operator has seen too, takes it
away.

*Failing writes.* `OnFileTrue` cannot start from `SavedInv`, since memory and file
part ways. `FiledInv` says of the record in memory and of the one in the file
alike that its outage was heard of or is owed (`HeardOrOwed`), and of a delivery
not yet written down that it was heard (`DeliveryHeard`). The file only ever
takes the whole memory (`StepFiles`) and what was heard is never unheard, so an
old record stays accounted for. `CurrentInv` adds the second half: whose outage a
record names. A coroutine that has seen the target down sees the outage going on
(`SeesOutage`), no copy names an outage still to come (`Past`), and of the outage
going on, once told, the operator has heard nothing since (`CurrentTold`). With windows the invariant fails between the
two writes of a mute, the second of which may fail: hence `Maintained = {}`.

*Closing.* Without kills `OpenTrue` follows from `DoubtInv`: `notification_status` is
what was confirmed, or is about to be, and if the operator saw an outage besides,
it is owed. With kills it need not be, and what a kill
leaves unrecorded must follow from the rest of the record: `OpenInv` adds to
`ContractInv` that the record has a `notification_status` past the probe
(`Inferred`) and keeps the outage told of (`OpenKept`). A DOWN record
that does not say "DOWN was told" makes a missed outage of itself when the target
recovers, owed until it is delivered, so the operator gets a closure in any case.

*Contract.* `ContractInv` takes `SiteKnows` and `OutcomeTrue`, which hold with kills,
and adds `Prepared`: nothing is armed before the probe, a recovery leaves no muted
announcement, reminders are sent only when nothing else is owed, and a recorded
delivery owes nothing. Each step of a coroutine is then a move of its own
target's alert (`Moves`), one lemma per action, and `OutageSubjectKept` shows that
an observation that drops an alert had no outage to tell of. The ends of rounds
move all alerts at once (`RoundKeepsContract`).

**Notifiers** (`NotifiersAssumption`): any finite set of coroutines, any channels,
attempts, header values and number of dispatches. `TypeCorrect`,
`SendTimeCorrect`, `WorkingChannelCorrect`, `DeadChannelCorrect`, `BreakerExact`,
`SerialBreakerCorrect`, `ContractKept`.
*Types and time* share `LegsOK`: a posting send has a number of attempts and has
waited no longer than the attempts before can take, a sleeping one is not at its
last; the product is kept behind an operator (`Tries`) whose recurrence is a
lemma. *Breaker*: `CountEarned` (the count is covered by losses until there are
`CIRCUIT_BREAK_AFTER` of them) and `SkipsEarned` (a skip happens only beyond).
*Cost*: `LossesCounted` (no loss since the last delivery is missing from the
count) and `DeadChannelBounded` itself, whose sum with `Cardinality(InFlight(c))`
makes it inductive: a send moves from in flight to lost, and starts only below the
limit. *Losses in a row*: `OpenOnConsecutiveLosses`, which the run
`breaker_reopened` violates, is proved under `NoStaleSkip` (`BreakerExact`): no
dispatch reports a delivery on a channel while another has a skipped send there
still to be counted. `RowInv` is the breaker's invariant with the losses since the
last recorded delivery in the place of all losses; a delivery starts both anew,
and the hypothesis is what keeps a skip from being counted after it. So the
overtaken skip is the whole of the disagreement, and with one dispatch at a time
the comment in the code is exact (`SerialBreakerCorrect`). *Contract*:
`ContractInv` says that a leg is there only in an open call and that a leg
counted as delivered was accepted; then each action is a step of
`DispatchContract` or a stutter. `ContractKept` is the safety half of
`KeepsContract`; its fairness is model-checked.

**RoundLoop** (`RoundLoopAssumption`): `LoopTypeCorrect`, `HungRoundCorrect`,
`WorkingMonitorCorrect`, `WorkingRoundCorrect`. `LoopTypeOK` is not inductive, since
nothing in it bounds a round. `LoopInv` adds `InTime` (pauses and working rounds
end in time), `MarkerAge` and `NewestAge` (what the ages the probe reads say about
the time spent in the round) and `Patience` (failed probes, and after TERM the
grace, account for the time since the round went stale). `WorkingRoundCorrect`
needs no bound on `BUDGET`: the grace that has passed since TERM is no more than
the round's age.

**TargetList** (`TargetListAssumption`): any URLs, pages and commands.
`ListTypeCorrect`, `SavesCorrect`, `EmptiedCorrect`, `SavedLoadCorrect`,
`DroppedCorrect`, `CleanRunCorrect`. `ListInv` adds `EditorsOK` (an editor's table
differs from what was in force at its read only in its edits, or the read said
that it could not tell), `FileInForce` (the file the monitor would load holds the
list in force), `RoundListed` and
`ListWatched` (the round's list lacks only what was out of force since its start,
and what it checked without raising has a record).

**Advisories** (`AdvisoriesAssumption`): any thresholds and p95 values.
`AdvTypeCorrect`, `CertSilenceCorrect`, `CertOnceCorrect`, `TrendSilenceCorrect`,
`TrendOnceCorrect`. `CertInv` says of the record in the file and of the one in
memory alike that a marker is no more urgent than the days on record justify,
that days on record are no fewer than are left, and that a marker that is this
certificate's was confirmed: either copy may be the next round's. `OnceInv` is the
converse: what was confirmed and not lost is marked. Its last conjunct is there for
the end of a round, where only the file survives: two copies that agree on a
marker agree on whose it is. `TrendInv` does both for the trend.

**Calendar** (`CalendarAssumption`): any lengths of day and week, any windows,
any schedule that is positive and strictly ascending, as
`REMINDER_SCHEDULE_H = (1, 2, 4, 6, 12)` is (`diagnostics.py:858`). `CalTypeCorrect`,
`RemindersCorrect`, `SpacingCorrect`, `MutedCorrect`. *Reminders*: `RemindersDue` counts
the points passed; since the points are distinct, a claim beyond the step on file
has a point of its own (`DueHasPoint`), and `ClaimInv` relates the claim in flight to
the step in memory and to what was confirmed. *Windows*: a minute of the week has one
weekday and one time of day (`MinuteOfWeek`, from the uniqueness of quotient and
remainder), and the cases of a window that ends on the day after are `DayAfter` and
`DayBefore`.

**History** (`HistoryAssumption`): any rows, retention and slots. `HistTypeCorrect`,
`StripCorrect`, `PruneCorrect`, `PercentilesCorrect`. `HistInv` adds that the table is
finite, without which no least or largest row need exist (`LeastNumber`,
`Largest`). *Strip*: every row of the window falls into exactly one slot
(`SlotTypes`). *Percentiles*: the least value whose rows reach the share is the
nearest-rank one; the rounding is the lemma `RoundsUp`. *Pruning*: the rows of a
window within the retention are all kept (`PruneKeepsWindow`), so every figure is
the same expression. The proof showed that the strip had first been written with
overlapping CASE guards, which leave the choice open where the SQL ranks them.

**MCOperations** (the assumptions of its parts). `PartsKept`: a behaviour of
`FairSpec` is one of each part's specification, since a step is one of its part
and a stutter of the others; so every safety theorem about `Advisories`,
`RoundLoop`, `Calendar`, `History` and `TargetList` holds of the composition.
`OperationsTypeCorrect` is the first that follows.

*Only model-checked.* All liveness: `OperatorLearns`, `RoundsGoOn`, `EditsTakeEffect`,
the fairness of `KeepsContract` and of `KeepsAlertContract`; liveness under fairness
is out of the prover's reach. Every invariant and every action property of a
passing run is stated by a theorem. Where a theorem has hypotheses, the violation runs
and the observations of section 3 show how the property fails without them.

## 5. Plan

1. *Done*: the core (`StatusRecord`, `AlertLifecycle`) and its proofs; delivery and
   its contract; targets; the loop; advisories; calendar; history; the contract of
   the whole pipeline; the proofs of section 4.
2. *Possible next*: a composition of `TargetList` with `AlertLifecycle`, so that an
   alert owed for a target that is removed and listed again is followed through
   pruning.

## 6. Not modelled

Probe and diagnostics heuristics (network I/O, floating point), message layout,
which field makes a list entry invalid, the dashboard's rendering, history
browser, MCP server, Grafana generation, import and export scripts, `targetctl
list` and `validate` (read only), `--strict` (it changes an exit code only), the
external watchdog (a service; `AlertLifecycle` models the ping). None has state
that the alert pipeline reads. Overlapping rounds are excluded: the loops run
rounds one after the other. `TargetList` gives the process that saves and the one
that loads the same environment variables.
