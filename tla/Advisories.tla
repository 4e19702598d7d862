----------------------------- MODULE Advisories -----------------------------
(***************************************************************************)
(* The two alerts that no change of state announces, for one target:       *)
(* certificate expiry (main.py _maybe_alert_cert_expiry, diagnostics.py    *)
(* cert_alert_threshold) and the latency trend (main.py                    *)
(* _maybe_alert_trend).  Each is silenced by a marker of its own in the    *)
(* target's record, and each writes its marker only once a channel         *)
(* confirmed the alert.  What is observed is what was confirmed: a send    *)
(* can also be accepted and reported lost, and the code cannot tell that   *)
(* from a refusal.                                                         *)
(*                                                                         *)
(* A round loads the record, looks at the certificate while it checks the  *)
(* target, and at the trend once every target is checked.  It can be       *)
(* killed anywhere, and any of its writes can fail; the writes of the      *)
(* other targets put the whole document, this record included, on disk.    *)
(***************************************************************************)
EXTENDS Integers

CONSTANTS
    CERT_WARN_DAYS,
    CERT_CRIT_DAYS,
    TREND_MIN_CHANGE_PCT,
    MaxDays,               \* bound: the longest validity, in days
    P95                    \* recent p95 values a degrading verdict may show

None == -1                 \* a field that is not there

ASSUME AdvisoriesAssumption ==
    /\ CERT_CRIT_DAYS \in Nat
    /\ CERT_WARN_DAYS \in Nat
    /\ CERT_CRIT_DAYS < CERT_WARN_DAYS
    /\ TREND_MIN_CHANGE_PCT \in Nat \ {0}
    /\ MaxDays \in Nat
    /\ P95 \subseteq Nat \ {0}

VARIABLES
    days,        \* tls_cert_days_left of the certificate the target serves
    file,        \* the target's record in state.json: its advisory fields
    mem,         \* the same in the running process
    at,          \* where the round is
    due,         \* what the round is about to announce: a threshold or a p95
    seen,        \* the days the round saw
    \* observed, not implemented
    confirmed,   \* the lowest threshold confirmed for this certificate
    hidden,      \* its renewal could not be seen: no more days than last seen
    drift,       \* the last p95 confirmed in this episode
    lost         \* the advisories whose marker a round left unwritten

advVars == <<days, file, mem, at, due, seen, confirmed, hidden, drift, lost>>

Days == 0..MaxDays
Threshold == {CERT_CRIT_DAYS, CERT_WARN_DAYS}

\* fresh is not in the file: the days last seen are this certificate's.
AdvRecord ==
    [ cert_alerted_days    : Threshold \union {None},
      cert_last_seen_days  : Days \union {None},
      trend_alerted_p95_ms : P95 \union {None},
      fresh                : BOOLEAN ]

NewRecord ==
    [ cert_alerted_days |-> None, cert_last_seen_days |-> None,
      trend_alerted_p95_ms |-> None, fresh |-> TRUE ]

Stage == {"idle", "probed", "cert_due", "cert_confirmed", "checked", "trend_due",
          "trend_confirmed", "done"}

AdvInit ==
    /\ days \in Days
    /\ file = NewRecord
    /\ mem = NewRecord
    /\ at = "idle"
    /\ due = None
    /\ seen = [days |-> None, fresh |-> TRUE]
    /\ confirmed = None
    /\ hidden = FALSE
    /\ drift = None
    /\ lost = {}

-----------------------------------------------------------------------------
(*                         The rules of the two markers                    *)

\* is_cert_renewed: days left rise only when the certificate is replaced.
IsCertRenewed(left, last) == last # None /\ left > last

IsCertHealthy(left) == left >= CERT_WARN_DAYS

\* Fault: the days left in place of the threshold.
DaysLeft(left) == left

\* The threshold a certificate has crossed: stable, while the days go by.
Band(left) == IF left < CERT_CRIT_DAYS THEN CERT_CRIT_DAYS ELSE CERT_WARN_DAYS

\* cert_alert_threshold finds something to say of a certificate in a band.
CertAlertDue(left, alerted) == alerted = None \/ Band(left) < alerted

\* Fault: degrading is degrading, however much worse.
AnyMarker(p, alerted) == alerted # None

\* The same episode, and not materially worse than what was announced.
TrendSuppressed(p, alerted) ==
    alerted # None /\ p * 100 < alerted * (100 + TREND_MIN_CHANGE_PCT)

-----------------------------------------------------------------------------
World == <<days, confirmed, hidden, drift>>

\* _write_sync: the process knows, and the file may not.
AdvWrite(record) == mem' = record /\ file' \in {file, record}

CertRecorded(threshold, left) ==
    [mem EXCEPT !.cert_alerted_days = threshold, !.cert_last_seen_days = left,
                !.fresh = seen'.fresh]

DayPasses ==
    /\ days > 0
    /\ days' = days - 1
    /\ UNCHANGED <<file, mem, at, due, seen, confirmed, hidden, drift, lost>>

\* The certificate is replaced, by one that may be valid for less.
Renew ==
    /\ days' \in Days
    /\ file' = [file EXCEPT !.fresh = FALSE]
    /\ mem' = [mem EXCEPT !.fresh = FALSE]
    /\ seen' = [seen EXCEPT !.fresh = FALSE]
    /\ confirmed' = None
    /\ hidden' = FALSE
    /\ lost' = lost \ {"cert"}
    /\ UNCHANGED <<at, due, drift>>

\* Fault: the status writers keep the certificate's days and no marker.
CarriedDaysOnly ==
    [file EXCEPT !.cert_alerted_days = None, !.trend_alerted_p95_ms = None]

\* _carry_forward: the advisory fields survive the status writers.
Carried == file

\* The state is loaded, and the check's status is written first.
AdvStart ==
    /\ at = "idle"
    /\ AdvWrite(Carried)
    /\ at' = "probed"
    /\ UNCHANGED <<due, seen, lost, World>>

\* Another target's write, in the same process.
OtherWrite ==
    /\ at # "idle"
    /\ file' = mem
    /\ UNCHANGED <<mem, at, due, seen, lost, World>>

\* The probe failed, or showed no certificate.
NoCertificate ==
    /\ at = "probed"
    /\ at' = "checked"
    /\ UNCHANGED <<file, mem, due, seen, lost, World>>

\* _maybe_alert_cert_expiry up to its dispatch.
MaybeAlertCertExpiry ==
    LET last   == mem.cert_last_seen_days
        stored == IF IsCertRenewed(days, last) THEN None
                  ELSE mem.cert_alerted_days IN
    /\ at = "probed"
    /\ seen' = [days |-> days, fresh |-> TRUE]
    /\ hidden' = (hidden \/ (last # None /\ ~mem.fresh /\ days <= last))
    /\ \/ /\ IsCertHealthy(days)
          /\ AdvWrite(CertRecorded(None, days))
          /\ at' = "checked"
          /\ UNCHANGED due
       \/ /\ ~IsCertHealthy(days)
          /\ IF days # last THEN AdvWrite(CertRecorded(stored, days))
                            ELSE UNCHANGED <<file, mem>>
          /\ \/ /\ CertAlertDue(days, stored)
                /\ due' = Band(days)
                /\ at' = "cert_due"
             \/ /\ ~CertAlertDue(days, stored)
                /\ at' = "checked"
                /\ UNCHANGED due
    /\ UNCHANGED <<days, confirmed, drift, lost>>

\* Fault: the band is recorded whatever became of the alert.
CertGoesOnRecorded == at' = "cert_confirmed"

\* Nothing is recorded: muted, refused by every channel, or taken by one whose
\* answer did not come back.
CertGoesOn == at' = "checked"

CertUnconfirmed ==
    /\ at = "cert_due"
    /\ CertGoesOn
    /\ UNCHANGED <<file, mem, due, seen, lost, World>>

CertConfirmed ==
    /\ at = "cert_due"
    /\ confirmed' = IF seen.fresh THEN due ELSE confirmed
    /\ lost' = lost \ {"cert"}
    /\ at' = "cert_confirmed"
    /\ UNCHANGED <<days, file, mem, due, seen, hidden, drift>>

CertRecord ==
    /\ at = "cert_confirmed"
    /\ UNCHANGED seen
    /\ AdvWrite(CertRecorded(due, seen.days))
    /\ at' = "checked"
    /\ UNCHANGED <<due, lost, World>>

\* No trend_alerts, no record, or history.db unreadable before this target's
\* turn.
NoTrend ==
    /\ at = "checked"
    /\ at' = "done"
    /\ UNCHANGED <<file, mem, due, seen, lost, World>>

\* Any other verdict arms the next episode: it is cleared at once, whatever the
\* targets after this one meet.
TrendNotDegrading ==
    /\ at = "checked"
    /\ IF mem.trend_alerted_p95_ms = None THEN UNCHANGED <<file, mem>>
       ELSE AdvWrite([mem EXCEPT !.trend_alerted_p95_ms = None])
    /\ drift' = None
    /\ at' = "done"
    /\ UNCHANGED <<due, seen, lost, days, confirmed, hidden>>

\* Silent within the episode; else a candidate, which an unreadable history.db
\* at a later target's turn drops for this round.
TrendSilent(p) ==
    /\ at = "checked"
    /\ TrendSuppressed(p, mem.trend_alerted_p95_ms)
    /\ at' = "done"
    /\ UNCHANGED <<file, mem, due, seen, lost, World>>

TrendDegrading(p) ==
    /\ at = "checked"
    /\ ~TrendSuppressed(p, mem.trend_alerted_p95_ms)
    /\ \/ at' = "done" /\ UNCHANGED due
       \/ at' = "trend_due" /\ due' = p
    /\ UNCHANGED <<file, mem, seen, lost, World>>

\* As for a certificate: nothing is recorded, and the episode stays armed.
TrendUnconfirmed ==
    /\ at = "trend_due"
    /\ at' = "done"
    /\ UNCHANGED <<file, mem, due, seen, lost, World>>

TrendConfirmed ==
    /\ at = "trend_due"
    /\ drift' = due
    /\ lost' = lost \ {"trend"}
    /\ at' = "trend_confirmed"
    /\ UNCHANGED <<days, file, mem, due, seen, confirmed, hidden>>

\* Fault: the episode's marker keeps its first value.
TrendMarkerOnce(p) ==
    IF mem.trend_alerted_p95_ms = None
    THEN [mem EXCEPT !.trend_alerted_p95_ms = p] ELSE mem

TrendMarker(p) == [mem EXCEPT !.trend_alerted_p95_ms = p]

TrendRecord ==
    /\ at = "trend_confirmed"
    /\ AdvWrite(TrendMarker(due))
    /\ at' = "done"
    /\ UNCHANGED <<due, seen, lost, World>>

\* What is neither in the file nor going to be: the alert was accepted and the
\* process stopped first, or its writes failed.
Unwritten ==
    {adv \in {"cert", "trend"} :
        IF adv = "cert"
        THEN \/ at = "cert_confirmed"
             \/ <<mem.cert_alerted_days, mem.cert_last_seen_days>>
                   # <<file.cert_alerted_days, file.cert_last_seen_days>>
        ELSE \/ at = "trend_confirmed"
             \/ mem.trend_alerted_p95_ms # file.trend_alerted_p95_ms}

\* The process ends: at the end of its round, or killed anywhere before.
AdvEnd ==
    /\ at # "idle"
    /\ at' = "idle"
    /\ lost' = lost \union Unwritten
    /\ mem' = file
    /\ due' = None
    /\ seen' = [days |-> None, fresh |-> TRUE]
    /\ UNCHANGED <<file, World>>

AdvNext ==
    \/ DayPasses \/ Renew
    \/ AdvStart \/ OtherWrite \/ AdvEnd
    \/ NoCertificate \/ MaybeAlertCertExpiry
    \/ CertUnconfirmed \/ CertConfirmed \/ CertRecord
    \/ NoTrend \/ TrendNotDegrading
    \/ TrendUnconfirmed \/ TrendConfirmed \/ TrendRecord
    \/ \E p \in P95 : TrendSilent(p) \/ TrendDegrading(p)

AdvSpec == AdvInit /\ [][AdvNext]_advVars

-----------------------------------------------------------------------------
(*                                Properties                               *)

AdvTypeOK ==
    /\ days \in Days
    /\ file \in AdvRecord
    /\ mem \in AdvRecord
    /\ at \in Stage
    /\ due \in Threshold \union P95 \union {None}
    /\ seen \in [days : Days \union {None}, fresh : BOOLEAN]
    /\ confirmed \in Threshold \union {None}
    /\ hidden \in BOOLEAN
    /\ drift \in P95 \union {None}
    /\ lost \subseteq {"cert", "trend"}

\* The round says nothing of a certificate it saw below a threshold.
CertSilent ==
    at = "probed" /\ seen'.days # None /\ at' = "checked" /\ ~IsCertHealthy(days)

\* Nobody is left without the warning of a band: a round that is silent about a
\* certificate below a threshold follows a warning of that band, or a more
\* urgent one, which a channel confirmed, and which was about this certificate
\* unless its renewal could not be seen (the two reset signals, the order of
\* dispatch and record_cert_alert).
CertSilenceEarned ==
    [][CertSilent => hidden' \/ (confirmed # None /\ confirmed <= Band(days))]_advVars

\* A band that was confirmed is not announced again, nor is a less urgent one:
\* every attempt is for a band nobody confirmed of this certificate, unless a
\* round lost the marker of the last time (cert_alert_threshold, is_cert_renewed).
CertNotRepeated ==
    [][at # "cert_due" /\ at' = "cert_due" /\ confirmed # None
          => due' < confirmed \/ "cert" \in lost]_advVars

\* A round is silent about a degrading trend only after a channel confirmed this
\* episode's announcement, of a number not much smaller: a marker from an
\* earlier episode is left only by a round whose write of it failed.
TrendSilenceEarned ==
    [][\A p \in P95 :
          at = "checked" /\ TrendSilent(p)
              => \/ drift # None /\ p * 100 < drift * (100 + TREND_MIN_CHANGE_PCT)
                 \/ "trend" \in lost]_advVars

\* After a confirmed announcement the episode is announced again only for a
\* number that is worse by the same factor, unless a round lost the marker.
TrendNotRepeated ==
    [][at # "trend_due" /\ at' = "trend_due" /\ drift # None
          => \/ due' * 100 >= drift * (100 + TREND_MIN_CHANGE_PCT)
             \/ "trend" \in lost]_advVars

=============================================================================
