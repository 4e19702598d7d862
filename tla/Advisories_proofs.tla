------------------------- MODULE Advisories_proofs -------------------------
(***************************************************************************)
(* Theorems about Advisories, for any thresholds and any p95 values: a     *)
(* round that says nothing of an expiring certificate or of a degrading    *)
(* trend relies on a marker that a confirmed alert put there, and no alert *)
(* that was confirmed is repeated unless a round lost its marker.          *)
(***************************************************************************)
EXTENDS Advisories, TLAPS

-----------------------------------------------------------------------------
(*                                 Bands                                   *)

\* A band is a threshold, and the fewer days are left the more urgent it is.
LEMMA BandIsThreshold ==
    /\ \A d \in Int : Band(d) \in Threshold
    /\ \A d, e \in Int : d <= e => Band(d) <= Band(e)
    /\ Threshold \subseteq Nat /\ None \notin Nat
BY AdvisoriesAssumption DEF Band, Threshold, None

\* The comparison of two p95 values is a comparison of numbers.
LEMMA TrendCompared ==
    ASSUME NEW p \in P95, NEW q \in P95 \union {None}
    PROVE  \/ q = None
           \/ TrendSuppressed(p, q)
           \/ p * 100 >= q * (100 + TREND_MIN_CHANGE_PCT)
<1>1. p \in Int /\ q \in Int /\ 100 + TREND_MIN_CHANGE_PCT \in Int
    BY AdvisoriesAssumption DEF None
<1>2. p * 100 \in Int /\ q * (100 + TREND_MIN_CHANGE_PCT) \in Int
    BY <1>1
<1> DEFINE x == p * 100
           y == q * (100 + TREND_MIN_CHANGE_PCT)
<1>3. x < y \/ x >= y
  <2>1. x \in Int /\ y \in Int
      BY <1>2
  <2> HIDE DEF x, y
  <2> QED BY <2>1
<1> QED BY <1>3 DEF TrendSuppressed

-----------------------------------------------------------------------------
(*                          The inductive invariant                        *)

\* The days of a certificate are those of a threshold while it is announced,
\* and a p95 while the trend is.
DueOK ==
    /\ at \in {"cert_due", "cert_confirmed"} =>
          /\ seen.days # None
          /\ ~IsCertHealthy(seen.days)
          /\ due = Band(seen.days)
    /\ at \in {"trend_due", "trend_confirmed"} => due \in P95

\* Nothing is written between the end of a round and the probe of the next.
Loaded == at \in {"idle", "probed"} => mem = file /\ seen.days = None

TypeInv == AdvTypeOK /\ DueOK /\ Loaded

\* What a record says of the certificate, in the file and in memory.
CertFact(r) ==
    /\ r.cert_alerted_days # None =>
          /\ r.cert_last_seen_days # None
          /\ Band(r.cert_last_seen_days) <= r.cert_alerted_days
    /\ r.fresh /\ r.cert_last_seen_days # None =>
          /\ days <= r.cert_last_seen_days
          /\ seen.days # None => seen.days <= r.cert_last_seen_days
    /\ r.fresh /\ r.cert_alerted_days # None /\ ~hidden =>
          confirmed # None /\ confirmed <= r.cert_alerted_days

\* What the round saw is of this certificate, unless it was replaced since.
SeenFact ==
    /\ seen.fresh /\ seen.days # None => days <= seen.days
    /\ ~seen.fresh => confirmed = None
    /\ at = "cert_confirmed" /\ seen.fresh => confirmed = due

CertInv == CertFact(file) /\ CertFact(mem) /\ SeenFact

\* This certificate's announcement is in memory: its marker is there.
Marked ==
    /\ mem.fresh
    /\ mem.cert_alerted_days # None
    /\ mem.cert_alerted_days <= confirmed

Fields(r) == <<r.cert_alerted_days, r.cert_last_seen_days>>

OnceInv ==
    /\ confirmed # None => ~IsCertHealthy(days)
    /\ confirmed # None /\ "cert" \notin lost => at = "cert_confirmed" \/ Marked
    /\ at \in {"cert_due", "cert_confirmed"} =>
          /\ CertAlertDue(seen.days, mem.cert_alerted_days)
          /\ Fields(file) # <<due, seen.days>>
    /\ mem.cert_alerted_days # None /\ Fields(mem) = Fields(file) =>
          mem.fresh = file.fresh

\* The trend's marker is the episode's last announcement.
TrendInv ==
    /\ \/ "trend" \in lost
       \/ at = "trend_confirmed"
       \/ mem.trend_alerted_p95_ms = drift
    /\ at = "trend_confirmed" => drift = due

AdvInv == TypeInv /\ CertInv /\ OnceInv /\ TrendInv

-----------------------------------------------------------------------------
(*                                  Types                                  *)

\* The certificate's fields as the round writes them.
LEMMA RecordedIsRecord ==
    ASSUME AdvTypeOK, NEW t \in Threshold \union {None},
           NEW d \in Days \union {None}, seen'.fresh \in BOOLEAN
    PROVE  /\ CertRecorded(t, d) \in AdvRecord
           /\ CertRecorded(t, d).cert_alerted_days = t
           /\ CertRecorded(t, d).cert_last_seen_days = d
           /\ CertRecorded(t, d).fresh = seen'.fresh
           /\ CertRecorded(t, d).trend_alerted_p95_ms = mem.trend_alerted_p95_ms
BY Zenon DEF AdvTypeOK, AdvRecord, CertRecorded

LEMMA TypeInvInit == AdvInit => TypeInv
<1> SUFFICES ASSUME AdvInit PROVE TypeInv
    OBVIOUS
<1>1. NewRecord \in AdvRecord
    BY Zenon DEF NewRecord, AdvRecord
<1>2. [days |-> None, fresh |-> TRUE] \in [days : Days \union {None}, fresh : BOOLEAN]
    BY Zenon
<1>3. AdvTypeOK
    BY <1>1, <1>2 DEF AdvInit, AdvTypeOK, Stage
<1>4. DueOK
    BY DEF AdvInit, DueOK
<1>5. Loaded
    BY DEF AdvInit, Loaded
<1> QED BY <1>3, <1>4, <1>5 DEF TypeInv

\* The look at the certificate, as far as types are concerned.
LEMMA LookTyped ==
    ASSUME TypeInv, MaybeAlertCertExpiry
    PROVE  TypeInv'
<1>1. AdvTypeOK /\ at = "probed" /\ days \in Int /\ days # None
    BY DEF TypeInv, AdvTypeOK, MaybeAlertCertExpiry, Days, None
<1>2. /\ seen' = [days |-> days, fresh |-> TRUE]
      /\ seen'.days = days /\ seen'.fresh = TRUE
    BY DEF MaybeAlertCertExpiry
<1>3. seen' \in [days : Days \union {None}, fresh : BOOLEAN]
    BY <1>1, <1>2, Zenon DEF AdvTypeOK
<1>4. ASSUME NEW t \in Threshold \union {None}
      PROVE  CertRecorded(t, days) \in AdvRecord
    BY <1>1, <1>2, RecordedIsRecord DEF AdvTypeOK
<1> DEFINE stored == IF IsCertRenewed(days, mem.cert_last_seen_days) THEN None
                     ELSE mem.cert_alerted_days
<1>5. stored \in Threshold \union {None}
  <2>1. mem.cert_alerted_days \in Threshold \union {None}
      BY <1>1 DEF AdvTypeOK, AdvRecord
  <2> QED BY <2>1
<1>6. \/ AdvWrite(CertRecorded(None, days)) \/ AdvWrite(CertRecorded(stored, days))
      \/ UNCHANGED <<file, mem>>
    BY Zenon DEF MaybeAlertCertExpiry
<1>7. /\ at' \in {"checked", "cert_due"}
      /\ at' = "checked" => due' = due
      /\ at' = "cert_due" => due' = Band(days) /\ ~IsCertHealthy(days)
    BY DEF MaybeAlertCertExpiry
<1>8. hidden' \in BOOLEAN
    BY <1>1 DEF MaybeAlertCertExpiry, AdvTypeOK
<1>9. file' \in AdvRecord /\ mem' \in AdvRecord
  <2>1. file \in AdvRecord /\ mem \in AdvRecord
      BY <1>1 DEF AdvTypeOK
  <2>2. CertRecorded(None, days) \in AdvRecord /\ CertRecorded(stored, days) \in AdvRecord
      BY <1>4, <1>5
  <2> HIDE DEF stored
  <2> QED BY <1>6, <2>1, <2>2 DEF AdvWrite
<1>10. due' \in Threshold \union P95 \union {None}
    BY <1>1, <1>7, BandIsThreshold DEF AdvTypeOK
<1>11. AdvTypeOK'
    BY <1>1, <1>3, <1>7, <1>8, <1>9, <1>10 DEF AdvTypeOK, MaybeAlertCertExpiry, Stage
<1>12. DueOK' /\ Loaded'
    BY <1>1, <1>2, <1>7 DEF DueOK, Loaded, IsCertHealthy
<1> QED BY <1>11, <1>12 DEF TypeInv

LEMMA TypeInvStep == TypeInv /\ [AdvNext]_advVars => TypeInv'
<1> SUFFICES ASSUME TypeInv, [AdvNext]_advVars PROVE TypeInv'
    OBVIOUS
<1> USE DEF TypeInv, AdvTypeOK, DueOK, Loaded, World
<1>1. CASE DayPasses
  <2>1. days' \in Days
      BY <1>1, AdvisoriesAssumption DEF DayPasses, Days
  <2> QED BY <1>1, <2>1 DEF DayPasses
<1>2. CASE Renew
  <2>1. /\ [file EXCEPT !.fresh = FALSE] \in AdvRecord
        /\ [mem EXCEPT !.fresh = FALSE] \in AdvRecord
        /\ [seen EXCEPT !.fresh = FALSE] \in [days : Days \union {None}, fresh : BOOLEAN]
        /\ [seen EXCEPT !.fresh = FALSE].days = seen.days
      BY Zenon DEF AdvRecord
  <2>2. AdvTypeOK'
      BY <1>2, <2>1 DEF Renew
  <2>3. DueOK' /\ Loaded'
      BY <1>2, <2>1 DEF Renew
  <2> QED BY <2>2, <2>3
<1>3. CASE AdvStart
    BY <1>3 DEF AdvStart, AdvWrite, Carried, Stage
<1>4. CASE OtherWrite
    BY <1>4 DEF OtherWrite
<1>5. CASE AdvEnd
  <2>1. seen' = [days |-> None, fresh |-> TRUE]
      BY <1>5 DEF AdvEnd
  <2>2. seen' \in [days : Days \union {None}, fresh : BOOLEAN] /\ seen'.days = None
      BY <2>1, Zenon
  <2>3. lost' \subseteq {"cert", "trend"}
      BY <1>5 DEF AdvEnd, Unwritten
  <2> QED BY <1>5, <2>2, <2>3 DEF AdvEnd, Stage
<1>6. CASE NoCertificate
    BY <1>6 DEF NoCertificate, Stage
<1>7. CASE MaybeAlertCertExpiry
    BY <1>7, LookTyped
<1>8. CASE CertUnconfirmed
    BY <1>8 DEF CertUnconfirmed, CertGoesOn, Stage
<1>9. CASE CertConfirmed
  <2>1. due \in Threshold /\ seen.days \in Int
      BY <1>9, BandIsThreshold DEF CertConfirmed, Days
  <2> QED BY <1>9, <2>1 DEF CertConfirmed, Stage
<1>10. CASE CertRecord
  <2>1. due \in Threshold /\ seen.days \in Int /\ seen'.fresh \in BOOLEAN
      BY <1>10, BandIsThreshold DEF CertRecord, Days
  <2>2. CertRecorded(due, seen.days) \in AdvRecord
      BY <2>1, RecordedIsRecord
  <2> QED BY <1>10, <2>2 DEF CertRecord, AdvWrite, Stage
<1>11. CASE NoTrend
    BY <1>11 DEF NoTrend, Stage
<1>12. CASE TrendNotDegrading
  <2>1. [mem EXCEPT !.trend_alerted_p95_ms = None] \in AdvRecord
      BY Zenon DEF AdvRecord
  <2> QED BY <1>12, <2>1 DEF TrendNotDegrading, AdvWrite, Stage
<1>13. CASE TrendUnconfirmed
    BY <1>13 DEF TrendUnconfirmed, Stage
<1>14. CASE TrendConfirmed
    BY <1>14 DEF TrendConfirmed, Stage
<1>15. CASE TrendRecord
  <2>1. due \in P95
      BY <1>15 DEF TrendRecord
  <2>2. TrendMarker(due) \in AdvRecord
      BY <2>1, Zenon DEF AdvRecord, TrendMarker
  <2> QED BY <1>15, <2>2 DEF TrendRecord, AdvWrite, Stage
<1>16. ASSUME NEW p \in P95, TrendSilent(p)
       PROVE  TypeInv'
    BY <1>16 DEF TrendSilent, Stage
<1>17. ASSUME NEW p \in P95, TrendDegrading(p)
       PROVE  TypeInv'
    BY <1>17 DEF TrendDegrading, Stage
<1>18. CASE UNCHANGED advVars
    BY <1>18 DEF advVars
<1> QED BY <1>1, <1>2, <1>3, <1>4, <1>5, <1>6, <1>7, <1>8, <1>9, <1>10, <1>11,
           <1>12, <1>13, <1>14, <1>15, <1>16, <1>17, <1>18 DEF AdvNext

-----------------------------------------------------------------------------
(*                       What the certificate's marker says                *)

\* The numbers behind a record, as the provers want them.
LEMMA RecordNumbers ==
    ASSUME NEW r \in AdvRecord
    PROVE  /\ r.cert_alerted_days \in Threshold \union {None}
           /\ r.cert_last_seen_days \in Days \union {None}
           /\ r.cert_alerted_days \in Int /\ r.cert_last_seen_days \in Int
           /\ r.cert_alerted_days # None => r.cert_alerted_days \in Nat
           /\ r.cert_last_seen_days # None => r.cert_last_seen_days \in Nat
           /\ r.fresh \in BOOLEAN
           /\ r.trend_alerted_p95_ms \in P95 \union {None}
<1>1. /\ r.cert_alerted_days \in Threshold \union {None}
      /\ r.cert_last_seen_days \in Days \union {None}
      /\ r.fresh \in BOOLEAN
      /\ r.trend_alerted_p95_ms \in P95 \union {None}
    BY DEF AdvRecord
<1>2. \A d \in Days \union {None} : d \in Int /\ (d # None => d \in Nat)
    BY AdvisoriesAssumption DEF Days, None
<1>3. \A t \in Threshold \union {None} : t \in Int /\ (t # None => t \in Nat)
    BY AdvisoriesAssumption DEF Threshold, None
<1> QED BY <1>1, <1>2, <1>3

\* What the look at the certificate decides, in one place: the marker that
\* survives it, the record it writes, and when it has something to say.
LEMMA Look ==
    ASSUME AdvInv, MaybeAlertCertExpiry
    PROVE  \E stored \in Threshold \union {None} :
              /\ at = "probed" /\ mem = file /\ days \in Nat
              /\ \/ stored = None
                 \/ /\ stored = mem.cert_alerted_days
                    /\ days <= mem.cert_last_seen_days
              /\ days <= mem.cert_last_seen_days => stored = mem.cert_alerted_days
              /\ seen'.days = days /\ seen'.fresh = TRUE
              /\ \/ mem' = mem /\ days = mem.cert_last_seen_days
                       /\ stored = mem.cert_alerted_days
                       /\ ~IsCertHealthy(days)
                 \/ /\ mem' \in AdvRecord
                    /\ mem'.cert_alerted_days \in {stored, None}
                    /\ mem'.cert_alerted_days = stored \/ IsCertHealthy(days)
                    /\ mem'.cert_last_seen_days = days
                    /\ mem'.fresh = TRUE
                    /\ mem'.trend_alerted_p95_ms = mem.trend_alerted_p95_ms
                    /\ mem'.cert_alerted_days # None =>
                          days # mem.cert_last_seen_days
              /\ file' \in {file, mem'}
              /\ at' \in {"checked", "cert_due"}
              /\ at' = "cert_due" =>
                    /\ ~IsCertHealthy(days)
                    /\ due' = Band(days)
                    /\ CertAlertDue(days, stored)
              /\ at' = "checked" /\ ~IsCertHealthy(days) =>
                    ~CertAlertDue(days, stored)
<1> DEFINE last == mem.cert_last_seen_days
           stored == IF IsCertRenewed(days, last) THEN None
                     ELSE mem.cert_alerted_days
<1>1. /\ at = "probed" /\ mem = file /\ days \in Nat /\ days # None
      /\ mem \in AdvRecord /\ AdvTypeOK /\ days \in Days
    BY DEF AdvInv, TypeInv, AdvTypeOK, Loaded, MaybeAlertCertExpiry, Days, None
<1>2. /\ mem.cert_alerted_days \in Threshold \union {None}
      /\ last \in Int
    BY <1>1, RecordNumbers
<1>3. stored \in Threshold \union {None}
    BY <1>2
<1>4. mem.cert_alerted_days # None => last # None
    BY DEF AdvInv, CertInv, CertFact
<1>5. stored = None \/ (stored = mem.cert_alerted_days /\ days <= last)
    BY <1>1, <1>2, <1>4 DEF IsCertRenewed
<1>6. seen'.days = days /\ seen'.fresh = TRUE
    BY DEF MaybeAlertCertExpiry
<1>7. ASSUME NEW t \in Threshold \union {None}
      PROVE  /\ CertRecorded(t, days) \in AdvRecord
             /\ CertRecorded(t, days).cert_alerted_days = t
             /\ CertRecorded(t, days).cert_last_seen_days = days
             /\ CertRecorded(t, days).fresh = TRUE
             /\ CertRecorded(t, days).trend_alerted_p95_ms = mem.trend_alerted_p95_ms
    BY <1>1, <1>6, RecordedIsRecord
<1>8. days <= last => stored = mem.cert_alerted_days
    BY <1>1, <1>2 DEF IsCertRenewed
<1>9. \/ /\ IsCertHealthy(days)
         /\ AdvWrite(CertRecorded(None, days))
         /\ at' = "checked"
      \/ /\ ~IsCertHealthy(days)
         /\ IF days # last THEN AdvWrite(CertRecorded(stored, days))
                           ELSE UNCHANGED <<file, mem>>
         /\ \/ CertAlertDue(days, stored) /\ due' = Band(days) /\ at' = "cert_due"
            \/ ~CertAlertDue(days, stored) /\ at' = "checked"
    BY Zenon DEF MaybeAlertCertExpiry
<1> HIDE DEF stored
<1>10. CASE IsCertHealthy(days)
  <2>1. mem' = CertRecorded(None, days) /\ file' \in {file, mem'} /\ at' = "checked"
      BY <1>9, <1>10 DEF AdvWrite
  <2>2. /\ mem' \in AdvRecord /\ mem'.cert_alerted_days = None
        /\ mem'.cert_last_seen_days = days /\ mem'.fresh = TRUE
        /\ mem'.trend_alerted_p95_ms = mem.trend_alerted_p95_ms
      BY <1>7, <2>1
  <2> QED BY <1>1, <1>3, <1>5, <1>6, <1>8, <1>10, <2>1, <2>2
<1>11. CASE ~IsCertHealthy(days) /\ days # last
  <2>1. mem' = CertRecorded(stored, days) /\ file' \in {file, mem'}
      BY <1>9, <1>11 DEF AdvWrite
  <2>2. /\ mem' \in AdvRecord /\ mem'.cert_alerted_days = stored
        /\ mem'.cert_last_seen_days = days /\ mem'.fresh = TRUE
        /\ mem'.trend_alerted_p95_ms = mem.trend_alerted_p95_ms
      BY <1>3, <1>7, <2>1
  <2> QED BY <1>1, <1>3, <1>5, <1>6, <1>8, <1>9, <1>11, <2>1, <2>2
<1>12. CASE ~IsCertHealthy(days) /\ days = last
  <2>1. mem' = mem /\ file' = file /\ stored = mem.cert_alerted_days
      BY <1>1, <1>8, <1>9, <1>12
  <2> QED BY <1>1, <1>3, <1>5, <1>6, <1>8, <1>9, <1>12, <2>1
<1> QED BY <1>10, <1>11, <1>12

LEMMA CertInvStep == AdvInv /\ [AdvNext]_advVars => CertInv'
<1> SUFFICES ASSUME AdvInv, [AdvNext]_advVars PROVE CertInv'
    OBVIOUS
<1>1. /\ TypeInv /\ AdvTypeOK /\ CertInv /\ CertFact(file) /\ CertFact(mem) /\ SeenFact
      /\ file \in AdvRecord /\ mem \in AdvRecord
    BY DEF AdvInv, TypeInv, AdvTypeOK, CertInv
<1>2. /\ days \in Nat /\ seen.days \in Int /\ confirmed \in Int /\ hidden \in BOOLEAN
      /\ seen.fresh \in BOOLEAN
    BY <1>1, BandIsThreshold, AdvisoriesAssumption DEF AdvTypeOK, Days, None
\* A step that leaves the certificate and what is known of it.
<1>3. ASSUME UNCHANGED <<days, hidden, confirmed, seen>>,
             at' # "cert_confirmed" \/ (at' = at /\ due' = due),
             \A r \in {file, mem} : CertFact(r),
             NEW f \in {file, mem}, NEW m \in {file, mem},
             file'.cert_alerted_days = f.cert_alerted_days,
             file'.cert_last_seen_days = f.cert_last_seen_days,
             file'.fresh = f.fresh,
             mem'.cert_alerted_days = m.cert_alerted_days,
             mem'.cert_last_seen_days = m.cert_last_seen_days,
             mem'.fresh = m.fresh
      PROVE  CertInv'
  <2>1. CertFact(f) /\ CertFact(m)
      BY <1>3
  <2>2. CertFact(file)' /\ CertFact(mem)'
      BY <1>3, <2>1 DEF CertFact
  <2>3. SeenFact'
      BY <1>1, <1>3 DEF SeenFact
  <2> QED BY <2>2, <2>3 DEF CertInv
<1>4. \A r \in {file, mem} : CertFact(r)
    BY <1>1
<1>5. CASE DayPasses
  <2>1. \A r \in {file, mem} :
            r.cert_last_seen_days \in Int /\ CertFact(r)'
    <3> SUFFICES ASSUME NEW r \in {file, mem}
                 PROVE  r.cert_last_seen_days \in Int /\ CertFact(r)'
        OBVIOUS
    <3>1. r \in AdvRecord /\ CertFact(r)
        BY <1>1
    <3>2. r.cert_last_seen_days \in Int
        BY <3>1, RecordNumbers
    <3> QED BY <1>2, <1>5, <3>1, <3>2 DEF DayPasses, CertFact
  <2>2. SeenFact'
      BY <1>1, <1>2, <1>5 DEF DayPasses, SeenFact
  <2>3. file' = file /\ mem' = mem
      BY <1>5 DEF DayPasses
  <2>4. CertFact(file)' /\ CertFact(mem)'
      BY <1>5, <2>1, <2>3 DEF CertFact
  <2> QED BY <2>2, <2>4 DEF CertInv
<1>6. CASE Renew
  <2>1. /\ file'.fresh = FALSE /\ mem'.fresh = FALSE /\ seen'.fresh = FALSE
        /\ file'.cert_alerted_days = file.cert_alerted_days
        /\ file'.cert_last_seen_days = file.cert_last_seen_days
        /\ mem'.cert_alerted_days = mem.cert_alerted_days
        /\ mem'.cert_last_seen_days = mem.cert_last_seen_days
        /\ confirmed' = None
      BY <1>1, <1>6, Zenon DEF Renew, AdvRecord, AdvTypeOK
  <2> QED BY <1>1, <2>1 DEF CertInv, CertFact, SeenFact
<1>7. CASE AdvStart
    BY <1>1, <1>3, <1>4, <1>7 DEF AdvStart, AdvWrite, Carried, World
<1>8. CASE OtherWrite
    BY <1>1, <1>3, <1>4, <1>8 DEF OtherWrite, World
<1>9. CASE AdvEnd
  <2>1. /\ mem' = file /\ file' = file /\ UNCHANGED <<days, confirmed, hidden>>
        /\ at' = "idle" /\ seen' = [days |-> None, fresh |-> TRUE]
      BY <1>9 DEF AdvEnd, World
  <2>2. seen'.days = None /\ seen'.fresh = TRUE
      BY <2>1
  <2> QED BY <1>1, <2>1, <2>2 DEF CertInv, CertFact, SeenFact
<1>10. CASE NoCertificate
    BY <1>1, <1>3, <1>4, <1>10 DEF NoCertificate, World
<1>11. CASE MaybeAlertCertExpiry
  <2>1. PICK stored \in Threshold \union {None} :
            /\ at = "probed" /\ mem = file
            /\ \/ stored = None
               \/ /\ stored = mem.cert_alerted_days
                  /\ days <= mem.cert_last_seen_days
            /\ seen'.days = days /\ seen'.fresh = TRUE
            /\ \/ mem' = mem /\ days = mem.cert_last_seen_days
               \/ /\ mem' \in AdvRecord
                  /\ mem'.cert_alerted_days \in {stored, None}
                  /\ mem'.cert_last_seen_days = days
                  /\ mem'.fresh = TRUE
            /\ file' \in {file, mem'}
            /\ at' \in {"checked", "cert_due"}
      BY <1>11, Look
  <2>2. /\ UNCHANGED <<days, confirmed>>
        /\ hidden' = (hidden \/ (/\ mem.cert_last_seen_days # None /\ ~mem.fresh
                                 /\ days <= mem.cert_last_seen_days))
      BY <1>11 DEF MaybeAlertCertExpiry
  <2>3. /\ mem.cert_last_seen_days \in Int /\ mem.cert_alerted_days \in Int
        /\ mem.fresh \in BOOLEAN
      BY <1>1, RecordNumbers
  <2>4. days \in Int /\ days # None
      BY <1>2 DEF None
  <2>5. /\ Band(days) \in Nat /\ Band(mem.cert_last_seen_days) \in Nat
        /\ days <= mem.cert_last_seen_days =>
              Band(days) <= Band(mem.cert_last_seen_days)
      BY <2>3, <2>4, BandIsThreshold
  <2>6. ASSUME stored # None
        PROVE  /\ Band(days) <= stored
               /\ ~hidden' => confirmed # None /\ confirmed <= stored
    <3>1. stored = mem.cert_alerted_days /\ days <= mem.cert_last_seen_days
        BY <2>1, <2>6
    <3>2. /\ mem.cert_last_seen_days # None
          /\ Band(mem.cert_last_seen_days) <= stored
        BY <1>1, <2>6, <3>1 DEF CertFact
    <3>3. ~hidden' => ~hidden /\ mem.fresh
        BY <1>2, <2>2, <2>3, <3>1, <3>2
    <3>4. ~hidden' => confirmed # None /\ confirmed <= stored
        BY <1>1, <2>6, <3>1, <3>3 DEF CertFact
    <3> QED BY <2>3, <2>5, <3>1, <3>2, <3>4
  <2>7. ASSUME mem' # mem
        PROVE  CertFact(mem)'
    <3>1. /\ mem'.cert_last_seen_days = days /\ mem'.fresh = TRUE
          /\ mem'.cert_alerted_days # None =>
                stored # None /\ mem'.cert_alerted_days = stored
        BY <2>1, <2>7
    <3> QED BY <2>1, <2>2, <2>4, <2>6, <3>1 DEF CertFact
  <2>8. ASSUME NEW r \in {file, mem}
        PROVE  CertFact(r)'
    <3>1. hidden => hidden'
        BY <2>2
    <3>2. r = file /\ CertFact(r)
        BY <1>1, <2>1, <2>8
    <3>3. r.fresh /\ r.cert_last_seen_days # None => seen'.days <= r.cert_last_seen_days
        BY <2>1, <3>2 DEF CertFact
    <3> QED BY <2>2, <3>1, <3>2, <3>3 DEF CertFact
  <2>9. CertFact(mem)'
    <3>1. CASE mem' = mem
        BY <2>1, <2>8, <3>1 DEF CertFact
    <3> QED BY <2>7, <3>1
  <2>10. CertFact(file)'
    <3>1. CASE file' = file
        BY <2>8, <3>1 DEF CertFact
    <3>2. CASE file' = mem'
        BY <2>9, <3>2 DEF CertFact
    <3> QED BY <2>1, <3>1, <3>2
  <2>11. SeenFact'
      BY <1>2, <2>1, <2>2 DEF SeenFact
  <2> QED BY <2>9, <2>10, <2>11 DEF CertInv
<1>12. CASE CertUnconfirmed
    BY <1>1, <1>3, <1>4, <1>12 DEF CertUnconfirmed, CertGoesOn, World
<1>13. CASE CertConfirmed
  <2>1. /\ at = "cert_due" /\ at' = "cert_confirmed"
        /\ confirmed' = IF seen.fresh THEN due ELSE confirmed
        /\ UNCHANGED <<days, file, mem, due, seen, hidden>>
      BY <1>13 DEF CertConfirmed
  <2>2. due = Band(seen.days) /\ seen.days # None /\ due \in Nat /\ due # None
      BY <1>1, <1>2, <2>1, BandIsThreshold DEF TypeInv, DueOK
  <2>3. ASSUME NEW r \in {file, mem}
        PROVE  CertFact(r)'
    <3>1. /\ r \in AdvRecord /\ CertFact(r) /\ r.cert_last_seen_days \in Int
          /\ r.cert_alerted_days \in Int
        BY <1>1, <2>3, RecordNumbers
    <3>2. r.fresh /\ r.cert_alerted_days # None => due <= r.cert_alerted_days
      <4>1. Band(r.cert_last_seen_days) \in Nat
          BY <3>1, BandIsThreshold
      <4>2. r.fresh /\ r.cert_last_seen_days # None =>
                Band(seen.days) <= Band(r.cert_last_seen_days)
          BY <1>2, <2>2, <3>1, BandIsThreshold DEF CertFact
      <4> QED BY <2>2, <3>1, <4>1, <4>2 DEF CertFact
    <3> QED BY <2>1, <2>2, <3>1, <3>2 DEF CertFact
  <2>4. SeenFact'
      BY <1>1, <2>1 DEF SeenFact
  <2>5. CertFact(file)' /\ CertFact(mem)'
      BY <2>1, <2>3 DEF CertFact
  <2> QED BY <2>4, <2>5 DEF CertInv
<1>14. CASE CertRecord
  <2>1. /\ at = "cert_confirmed" /\ at' = "checked" /\ seen' = seen
        /\ UNCHANGED <<days, confirmed, hidden>>
        /\ mem' = CertRecorded(due, seen.days) /\ file' \in {file, mem'}
      BY <1>14 DEF CertRecord, AdvWrite, World
  <2>2. /\ due = Band(seen.days) /\ seen.days # None /\ due \in Threshold
        /\ seen.days \in Days
      BY <1>1, <1>2, <2>1, BandIsThreshold DEF TypeInv, AdvTypeOK, DueOK
  <2>3. /\ mem'.cert_alerted_days = due /\ mem'.cert_last_seen_days = seen.days
        /\ mem'.fresh = seen.fresh
      BY <1>1, <1>2, <2>1, <2>2, RecordedIsRecord
  <2>4. due \in Nat /\ due # None
      BY <2>2, BandIsThreshold
  <2>5. CertFact(mem)'
      BY <1>1, <1>2, <2>1, <2>2, <2>3, <2>4 DEF CertFact, SeenFact
  <2>6. CertFact(file)'
    <3>1. CASE file' = file
        BY <1>1, <2>1, <3>1 DEF CertFact
    <3>2. CASE file' = mem'
        BY <2>5, <3>2 DEF CertFact
    <3> QED BY <2>1, <3>1, <3>2
  <2>7. SeenFact'
      BY <1>1, <2>1 DEF SeenFact
  <2> QED BY <2>5, <2>6, <2>7 DEF CertInv
<1>15. CASE NoTrend
    BY <1>1, <1>3, <1>4, <1>15 DEF NoTrend, World
<1>16. CASE TrendNotDegrading
  <2>1. /\ mem'.cert_alerted_days = mem.cert_alerted_days
        /\ mem'.cert_last_seen_days = mem.cert_last_seen_days
        /\ mem'.fresh = mem.fresh
        /\ file' \in {file, mem'}
      BY <1>1, <1>16, Zenon DEF TrendNotDegrading, AdvWrite, AdvRecord
  <2>2. at' = "done" /\ UNCHANGED <<days, hidden, confirmed, seen>>
      BY <1>16 DEF TrendNotDegrading
  <2>3. CASE file' = file
      BY <1>3, <1>4, <2>1, <2>2, <2>3
  <2>4. CASE file' = mem'
      BY <1>3, <1>4, <2>1, <2>2, <2>4
  <2> QED BY <2>1, <2>3, <2>4
<1>17. CASE TrendUnconfirmed
    BY <1>1, <1>3, <1>4, <1>17 DEF TrendUnconfirmed, World
<1>18. CASE TrendConfirmed
    BY <1>1, <1>3, <1>4, <1>18 DEF TrendConfirmed
<1>19. CASE TrendRecord
  <2>1. /\ mem'.cert_alerted_days = mem.cert_alerted_days
        /\ mem'.cert_last_seen_days = mem.cert_last_seen_days
        /\ mem'.fresh = mem.fresh
        /\ file' \in {file, mem'}
      BY <1>1, <1>19, Zenon DEF TrendRecord, TrendMarker, AdvWrite, AdvRecord
  <2>2. at' = "done" /\ UNCHANGED <<days, hidden, confirmed, seen>>
      BY <1>19 DEF TrendRecord, World
  <2>3. CASE file' = file
      BY <1>3, <1>4, <2>1, <2>2, <2>3
  <2>4. CASE file' = mem'
      BY <1>3, <1>4, <2>1, <2>2, <2>4
  <2> QED BY <2>1, <2>3, <2>4
<1>20. ASSUME NEW p \in P95, TrendSilent(p) \/ TrendDegrading(p)
       PROVE  CertInv'
    BY <1>1, <1>3, <1>4, <1>20 DEF TrendSilent, TrendDegrading, World
<1>21. CASE UNCHANGED advVars
    BY <1>1, <1>3, <1>4, <1>21 DEF advVars
<1> QED BY <1>5, <1>6, <1>7, <1>8, <1>9, <1>10, <1>11, <1>12, <1>13, <1>14,
           <1>15, <1>16, <1>17, <1>18, <1>19, <1>20, <1>21 DEF AdvNext

LEMMA OnceInvStep == AdvInv /\ [AdvNext]_advVars => OnceInv'
<1> SUFFICES ASSUME AdvInv, [AdvNext]_advVars PROVE OnceInv'
    OBVIOUS
<1>1. /\ TypeInv /\ AdvTypeOK /\ DueOK /\ Loaded /\ CertInv /\ SeenFact /\ OnceInv
      /\ file \in AdvRecord /\ mem \in AdvRecord
    BY DEF AdvInv, TypeInv, AdvTypeOK, CertInv
<1>2. /\ days \in Nat /\ seen.days \in Int /\ confirmed \in Int
      /\ mem.cert_alerted_days \in Int /\ mem.cert_last_seen_days \in Int
      /\ seen.fresh \in BOOLEAN /\ CERT_WARN_DAYS \in Nat
  <2>1. days \in Days /\ seen.days \in Days \union {None} /\ seen.fresh \in BOOLEAN
        /\ confirmed \in Threshold \union {None}
      BY <1>1 DEF AdvTypeOK
  <2>2. days \in Nat /\ seen.days \in Int
      BY <2>1, AdvisoriesAssumption DEF Days, None
  <2>3. confirmed \in Int
      BY <2>1, AdvisoriesAssumption DEF Threshold, None
  <2> QED BY <1>1, <2>1, <2>2, <2>3, RecordNumbers, AdvisoriesAssumption
<1>3. at \in {"cert_due", "cert_confirmed"} =>
          /\ due = Band(seen.days) /\ due \in Nat
          /\ Fields(mem) # <<due, seen.days>>
  <2> SUFFICES ASSUME at \in {"cert_due", "cert_confirmed"}
               PROVE  /\ due = Band(seen.days) /\ due \in Nat
                      /\ mem.cert_alerted_days # due
      BY DEF Fields
  <2>1. due = Band(seen.days) /\ due \in Nat /\ due # None
      BY <1>1, <1>2, BandIsThreshold DEF DueOK
  <2>2. CertAlertDue(seen.days, mem.cert_alerted_days)
      BY <1>1 DEF OnceInv
  <2> QED BY <1>2, <2>1, <2>2 DEF CertAlertDue
\* A step that leaves the certificate and what is known of it: the file may be
\* brought up to date.
<1>4. ASSUME UNCHANGED <<days, confirmed, seen>>, lost' = lost,
             \/ at' = at /\ due' = due
             \/ at' \notin {"cert_due", "cert_confirmed"} /\ at # "cert_confirmed",
             Fields(mem') = Fields(mem), mem'.fresh = mem.fresh,
             \/ Fields(file') = Fields(file) /\ file'.fresh = file.fresh
             \/ Fields(file') = Fields(mem) /\ file'.fresh = mem.fresh
      PROVE  OnceInv'
  <2>1. mem'.cert_alerted_days = mem.cert_alerted_days
      BY <1>4 DEF Fields
  <2> QED BY <1>1, <1>3, <1>4, <2>1 DEF OnceInv, Marked
<1>5. CASE DayPasses
  <2>1. /\ days' = days - 1
        /\ UNCHANGED <<file, mem, at, due, seen, confirmed, lost>>
      BY <1>5 DEF DayPasses
  <2>2. ~IsCertHealthy(days) => ~IsCertHealthy(days')
      BY <1>2, <2>1 DEF IsCertHealthy
  <2> QED BY <1>1, <2>1, <2>2 DEF OnceInv, Marked, Fields
<1>6. CASE Renew
  <2>1. /\ file'.fresh = FALSE /\ mem'.fresh = FALSE
        /\ Fields(file') = Fields(file) /\ Fields(mem') = Fields(mem)
        /\ mem'.cert_alerted_days = mem.cert_alerted_days
        /\ seen'.days = seen.days
        /\ confirmed' = None /\ at' = at /\ due' = due
      BY <1>1, <1>6, Zenon DEF Renew, AdvRecord, AdvTypeOK, Fields
  <2> QED BY <1>1, <2>1 DEF OnceInv
<1>7. CASE AdvStart
  <2>1. /\ at = "idle" /\ at' = "probed" /\ mem' = file /\ file' = file
        /\ UNCHANGED <<days, confirmed, seen, lost>>
      BY <1>7 DEF AdvStart, AdvWrite, Carried, World
  <2>2. mem = file
      BY <1>1, <2>1 DEF Loaded
  <2> QED BY <1>4, <2>1, <2>2 DEF Fields
<1>8. CASE OtherWrite
    BY <1>4, <1>8 DEF OtherWrite, World, Fields
<1>9. CASE AdvEnd
  <2>1. /\ at' = "idle" /\ mem' = file /\ file' = file
        /\ UNCHANGED <<days, confirmed>>
        /\ lost' = lost \union Unwritten
      BY <1>9 DEF AdvEnd, World
  <2>2. ASSUME confirmed # None, "cert" \notin lost'
        PROVE  Marked'
    <3>1. "cert" \notin lost /\ "cert" \notin Unwritten
        BY <2>1, <2>2
    <3>2. at # "cert_confirmed" /\ Fields(mem) = Fields(file)
        BY <3>1 DEF Unwritten, Fields
    <3>3. Marked
        BY <1>1, <2>2, <3>1, <3>2 DEF OnceInv
    <3>4. file.fresh /\ file.cert_alerted_days = mem.cert_alerted_days
        BY <1>1, <3>2, <3>3 DEF OnceInv, Marked, Fields
    <3> QED BY <2>1, <3>3, <3>4 DEF Marked
  <2> QED BY <1>1, <2>1, <2>2 DEF OnceInv
<1>10. CASE NoCertificate
    BY <1>4, <1>10 DEF NoCertificate, World
<1>11. CASE MaybeAlertCertExpiry
  <2>1. PICK stored \in Threshold \union {None} :
            /\ at = "probed" /\ mem = file
            /\ days <= mem.cert_last_seen_days => stored = mem.cert_alerted_days
            /\ seen'.days = days /\ seen'.fresh = TRUE
            /\ \/ mem' = mem /\ days = mem.cert_last_seen_days
                     /\ stored = mem.cert_alerted_days
               \/ /\ mem'.cert_alerted_days \in {stored, None}
                  /\ mem'.cert_alerted_days = stored \/ IsCertHealthy(days)
                  /\ mem'.cert_last_seen_days = days
                  /\ mem'.fresh = TRUE
                  /\ mem'.cert_alerted_days # None => days # mem.cert_last_seen_days
            /\ file' \in {file, mem'}
            /\ at' \in {"checked", "cert_due"}
            /\ at' = "cert_due" =>
                  /\ ~IsCertHealthy(days)
                  /\ due' = Band(days)
                  /\ CertAlertDue(days, stored)
      BY <1>11, Look
  <2>2. UNCHANGED <<days, confirmed, lost>>
      BY <1>11 DEF MaybeAlertCertExpiry
  <2>3. ASSUME at' = "cert_due"
        PROVE  /\ CertAlertDue(seen'.days, mem'.cert_alerted_days)
               /\ Fields(file') # <<due', seen'.days>>
    <3>1. mem'.cert_alerted_days = stored
        BY <2>1, <2>3
    <3>2. Band(days) \in Nat /\ Band(days) # None
      <4>1. Band(days) \in Threshold /\ Threshold \subseteq Nat /\ None \notin Nat
          BY <1>2, BandIsThreshold
      <4> QED BY <4>1
    <3>3. stored \in Int
        BY AdvisoriesAssumption DEF Threshold, None
    <3>4. stored # Band(days)
        BY <2>1, <2>3, <3>2, <3>3 DEF CertAlertDue
    <3>5. days = mem.cert_last_seen_days => stored = mem.cert_alerted_days
        BY <1>2, <2>1
    <3>6. Fields(mem') # <<Band(days), days>>
        BY <3>1, <3>4 DEF Fields
    <3>7. Fields(file) # <<Band(days), days>>
        BY <2>1, <3>4, <3>5 DEF Fields
    <3> QED BY <2>1, <2>3, <3>1, <3>6, <3>7
  <2>4. ASSUME confirmed' # None, "cert" \notin lost'
        PROVE  Marked'
    <3>1. Marked /\ ~IsCertHealthy(days)
        BY <1>1, <2>1, <2>2, <2>4 DEF OnceInv
    <3>2. days <= mem.cert_last_seen_days
        BY <1>1, <1>2, <2>1, <3>1 DEF Marked, CertInv, CertFact
    <3>3. stored = mem.cert_alerted_days
        BY <2>1, <3>2
    <3> QED BY <2>1, <2>2, <3>1, <3>3 DEF Marked
  <2>5. ASSUME mem'.cert_alerted_days # None, Fields(mem') = Fields(file')
        PROVE  mem'.fresh = file'.fresh
    <3>1. CASE mem' = mem
        BY <2>1, <3>1
    <3>2. CASE mem' # mem /\ file' = file
        BY <2>1, <2>5, <3>2 DEF Fields
    <3> QED BY <2>1, <3>1, <3>2
  <2> QED BY <1>1, <2>1, <2>2, <2>3, <2>4, <2>5 DEF OnceInv
<1>12. CASE CertUnconfirmed
    BY <1>4, <1>12 DEF CertUnconfirmed, CertGoesOn, World
<1>13. CASE CertConfirmed
  <2>1. /\ at = "cert_due" /\ at' = "cert_confirmed"
        /\ confirmed' = IF seen.fresh THEN due ELSE confirmed
        /\ UNCHANGED <<days, file, mem, due, seen>>
      BY <1>13 DEF CertConfirmed
  <2>2. confirmed' # None => ~IsCertHealthy(days)
      BY <1>1, <1>2, <2>1 DEF SeenFact, DueOK, IsCertHealthy
  <2> QED BY <1>1, <2>1, <2>2 DEF OnceInv
<1>14. CASE CertRecord
  <2>1. /\ at = "cert_confirmed" /\ at' = "checked" /\ seen' = seen
        /\ UNCHANGED <<days, confirmed, due, lost>>
        /\ mem' = CertRecorded(due, seen.days) /\ file' \in {file, mem'}
      BY <1>14 DEF CertRecord, AdvWrite, World
  <2>2. due \in Threshold /\ seen.days \in Days /\ due # None /\ due \in Nat
      BY <1>1, <1>2, <1>3, <2>1, BandIsThreshold DEF AdvTypeOK, DueOK
  <2>3. /\ mem'.cert_alerted_days = due /\ mem'.cert_last_seen_days = seen.days
        /\ mem'.fresh = seen.fresh
      BY <1>1, <1>2, <2>1, <2>2, RecordedIsRecord
  <2>4. confirmed # None => Marked'
      BY <1>1, <1>2, <2>1, <2>2, <2>3 DEF SeenFact, Marked
  <2>5. Fields(file) # <<due, seen.days>> /\ Fields(mem') = <<due, seen.days>>
      BY <1>1, <2>1, <2>3 DEF OnceInv, Fields
  <2> QED BY <1>1, <2>1, <2>4, <2>5 DEF OnceInv
<1>15. CASE NoTrend
    BY <1>4, <1>15 DEF NoTrend, World, Fields
<1>16. CASE TrendNotDegrading
  <2>1. /\ Fields(mem') = Fields(mem) /\ mem'.fresh = mem.fresh
        /\ file' \in {file, mem'}
      BY <1>1, <1>16, Zenon DEF TrendNotDegrading, AdvWrite, AdvRecord, Fields
  <2> QED BY <1>4, <1>16, <2>1 DEF TrendNotDegrading, Fields
<1>17. CASE TrendUnconfirmed
    BY <1>4, <1>17 DEF TrendUnconfirmed, World, Fields
<1>18. CASE TrendConfirmed
  <2>1. /\ at = "trend_due" /\ at' = "trend_confirmed" /\ "cert" \in lost' <=> "cert" \in lost
        /\ UNCHANGED <<days, file, mem, due, seen, confirmed>>
      BY <1>18 DEF TrendConfirmed
  <2> QED BY <1>1, <1>18, <2>1 DEF OnceInv, Marked, TrendConfirmed
<1>19. CASE TrendRecord
  <2>1. /\ Fields(mem') = Fields(mem) /\ mem'.fresh = mem.fresh
        /\ file' \in {file, mem'}
      BY <1>1, <1>19, Zenon DEF TrendRecord, TrendMarker, AdvWrite, AdvRecord, Fields
  <2> QED BY <1>4, <1>19, <2>1 DEF TrendRecord, World, Fields
<1>20. ASSUME NEW p \in P95, TrendSilent(p) \/ TrendDegrading(p)
       PROVE  OnceInv'
    BY <1>4, <1>20 DEF TrendSilent, TrendDegrading, World, Fields
<1>21. CASE UNCHANGED advVars
    BY <1>4, <1>21 DEF advVars, Fields
<1> QED BY <1>5, <1>6, <1>7, <1>8, <1>9, <1>10, <1>11, <1>12, <1>13, <1>14,
           <1>15, <1>16, <1>17, <1>18, <1>19, <1>20, <1>21 DEF AdvNext

-----------------------------------------------------------------------------
(*                          What the trend's marker says                   *)

LEMMA TrendInvStep == AdvInv /\ [AdvNext]_advVars => TrendInv'
<1> SUFFICES ASSUME AdvInv, [AdvNext]_advVars PROVE TrendInv'
    OBVIOUS
<1> DEFINE marker == mem.trend_alerted_p95_ms
<1>1. /\ TypeInv /\ AdvTypeOK /\ DueOK /\ Loaded /\ TrendInv
      /\ mem \in AdvRecord /\ file \in AdvRecord
    BY DEF AdvInv, TypeInv, AdvTypeOK
\* A step that leaves the episode and its marker.
<1>2. ASSUME UNCHANGED drift, "trend" \in lost => "trend" \in lost',
             mem'.trend_alerted_p95_ms = marker,
             \/ at' = at /\ due' = due
             \/ at' \notin {"trend_due", "trend_confirmed"} /\ at # "trend_confirmed"
      PROVE  TrendInv'
    BY <1>1, <1>2 DEF TrendInv
<1>3. CASE DayPasses
    BY <1>2, <1>3 DEF DayPasses
<1>4. CASE Renew
  <2>1. mem'.trend_alerted_p95_ms = marker
      BY <1>1, <1>4, Zenon DEF Renew, AdvRecord
  <2> QED BY <1>2, <1>4, <2>1 DEF Renew
<1>5. CASE AdvStart
  <2>1. mem' = mem
      BY <1>1, <1>5 DEF AdvStart, AdvWrite, Carried, Loaded
  <2> QED BY <1>2, <1>5, <2>1 DEF AdvStart, World
<1>6. CASE OtherWrite
    BY <1>2, <1>6 DEF OtherWrite, World
<1>7. CASE AdvEnd
  <2>1. /\ at' = "idle" /\ mem' = file /\ drift' = drift
        /\ lost' = lost \union Unwritten
      BY <1>7 DEF AdvEnd, World
  <2>2. ASSUME "trend" \notin lost'
        PROVE  file.trend_alerted_p95_ms = drift
    <3>1. /\ "trend" \notin lost /\ at # "trend_confirmed"
          /\ marker = file.trend_alerted_p95_ms
        BY <2>1, <2>2 DEF Unwritten
    <3> QED BY <1>1, <3>1 DEF TrendInv
  <2> QED BY <2>1, <2>2 DEF TrendInv
<1>8. CASE NoCertificate
    BY <1>2, <1>8 DEF NoCertificate, World
<1>9. CASE MaybeAlertCertExpiry
  <2>1. mem'.trend_alerted_p95_ms = marker /\ at = "probed"
        /\ at' \in {"checked", "cert_due"}
      BY <1>9, Look
  <2>2. UNCHANGED <<drift, lost>>
      BY <1>9 DEF MaybeAlertCertExpiry
  <2> QED BY <1>2, <2>1, <2>2
<1>10. CASE CertUnconfirmed
    BY <1>2, <1>10 DEF CertUnconfirmed, CertGoesOn, World
<1>11. CASE CertConfirmed
    BY <1>2, <1>11 DEF CertConfirmed
<1>12. CASE CertRecord
  <2>1. mem'.trend_alerted_p95_ms = marker
      BY <1>1, <1>12, Zenon DEF CertRecord, AdvWrite, CertRecorded, AdvRecord
  <2> QED BY <1>2, <1>12, <2>1 DEF CertRecord, World
<1>13. CASE NoTrend
    BY <1>2, <1>13 DEF NoTrend, World
<1>14. CASE TrendNotDegrading
  <2>1. mem'.trend_alerted_p95_ms = None
    <3>1. [mem EXCEPT !.trend_alerted_p95_ms = None].trend_alerted_p95_ms = None
        BY <1>1, Zenon DEF AdvRecord
    <3> QED BY <1>14, <3>1 DEF TrendNotDegrading, AdvWrite
  <2> QED BY <1>14, <2>1 DEF TrendNotDegrading, TrendInv
<1>15. CASE TrendUnconfirmed
    BY <1>2, <1>15 DEF TrendUnconfirmed, World
<1>16. CASE TrendConfirmed
    BY <1>16 DEF TrendConfirmed, TrendInv
<1>17. CASE TrendRecord
  <2>1. mem'.trend_alerted_p95_ms = due
      BY <1>1, <1>17, Zenon DEF TrendRecord, TrendMarker, AdvWrite, AdvRecord
  <2> QED BY <1>1, <1>17, <2>1 DEF TrendRecord, TrendInv, World
<1>18. ASSUME NEW p \in P95, TrendSilent(p)
       PROVE  TrendInv'
    BY <1>2, <1>18 DEF TrendSilent, World
<1>19. ASSUME NEW p \in P95, TrendDegrading(p)
       PROVE  TrendInv'
    BY <1>1, <1>19 DEF TrendDegrading, World, TrendInv
<1>20. CASE UNCHANGED advVars
    BY <1>2, <1>20 DEF advVars
<1> QED BY <1>3, <1>4, <1>5, <1>6, <1>7, <1>8, <1>9, <1>10, <1>11, <1>12, <1>13,
           <1>14, <1>15, <1>16, <1>17, <1>18, <1>19, <1>20 DEF AdvNext

-----------------------------------------------------------------------------
(*                                 Theorems                                *)

LEMMA AdvInductive == AdvSpec => []AdvInv
<1>1. AdvInit => AdvInv
  <2> SUFFICES ASSUME AdvInit PROVE AdvInv
      OBVIOUS
  <2>1. /\ file.cert_alerted_days = None /\ file.cert_last_seen_days = None
        /\ file.trend_alerted_p95_ms = None /\ file.fresh = TRUE
        /\ mem = file /\ seen.days = None /\ seen.fresh = TRUE
        /\ confirmed = None /\ drift = None /\ at = "idle"
      BY DEF AdvInit, NewRecord
  <2>2. CertInv /\ OnceInv /\ TrendInv
      BY <2>1 DEF CertInv, CertFact, SeenFact, OnceInv, TrendInv
  <2> QED BY <2>2, TypeInvInit DEF AdvInv
<1>2. AdvInv /\ [AdvNext]_advVars => AdvInv'
    BY TypeInvStep, CertInvStep, OnceInvStep, TrendInvStep DEF AdvInv
<1> QED BY <1>1, <1>2, PTL DEF AdvSpec

\* The record, the round and what is observed of them keep their types.
THEOREM AdvTypeCorrect == AdvSpec => []AdvTypeOK
<1>1. AdvInv => AdvTypeOK
    BY DEF AdvInv, TypeInv
<1> QED BY <1>1, AdvInductive, PTL

\* Silence about an expiring certificate is earned by a delivered warning of
\* its band (_maybe_alert_cert_expiry).
THEOREM CertSilenceCorrect == AdvSpec => CertSilenceEarned
<1>1. ASSUME AdvInv, [AdvNext]_advVars, CertSilent
      PROVE  hidden' \/ (confirmed # None /\ confirmed <= Band(days))
  <2>1. at = "probed" /\ at' = "checked" /\ seen'.days # None /\ ~IsCertHealthy(days)
      BY <1>1 DEF CertSilent
  <2>2. /\ seen.days = None /\ mem = file /\ AdvTypeOK /\ CertFact(mem)
        /\ mem \in AdvRecord
      BY <1>1, <2>1 DEF AdvInv, TypeInv, AdvTypeOK, Loaded, CertInv
  <2>3. MaybeAlertCertExpiry
      BY <1>1, <2>1, <2>2
         DEF AdvNext, advVars, DayPasses, Renew, AdvStart, OtherWrite, AdvEnd,
             NoCertificate, CertUnconfirmed, CertConfirmed, CertRecord, NoTrend,
             TrendNotDegrading, TrendUnconfirmed, TrendConfirmed, TrendRecord, TrendSilent,
             TrendDegrading, World
  <2>4. PICK stored \in Threshold \union {None} :
            /\ \/ stored = None
               \/ stored = mem.cert_alerted_days /\ days <= mem.cert_last_seen_days
            /\ ~CertAlertDue(days, stored)
      BY <1>1, <2>1, <2>3, Look
  <2>5. stored # None /\ stored <= Band(days) /\ Band(days) \in Nat
    <3>1. days \in Int /\ stored \in Int
        BY <2>2, AdvisoriesAssumption DEF AdvTypeOK, Days, Threshold, None
    <3>2. Band(days) \in Threshold
        BY <3>1, BandIsThreshold
    <3>3. Band(days) \in Nat
        BY <3>2, BandIsThreshold
    <3> QED BY <2>4, <3>1, <3>3 DEF CertAlertDue
  <2>6. stored = mem.cert_alerted_days /\ mem.cert_last_seen_days # None
      BY <2>2, <2>4, <2>5 DEF CertFact
  <2>7. hidden' = (hidden \/ (mem.cert_last_seen_days # None /\ ~mem.fresh
                                /\ days <= mem.cert_last_seen_days))
      BY <2>3 DEF MaybeAlertCertExpiry
  <2>8. ~hidden' => ~hidden /\ mem.fresh
      BY <2>2, <2>4, <2>5, <2>6, <2>7 DEF AdvRecord, AdvTypeOK
  <2>9. ~hidden' => confirmed # None /\ confirmed <= stored
      BY <2>2, <2>5, <2>6, <2>8 DEF CertFact
  <2>10. confirmed \in Int /\ stored \in Int
      BY <2>2, AdvisoriesAssumption DEF AdvTypeOK, Threshold, None
  <2> QED BY <2>5, <2>9, <2>10
<1>2. AdvInv /\ [AdvNext]_advVars =>
          [CertSilent => hidden' \/ (confirmed # None /\ confirmed <= Band(days))]_advVars
    BY <1>1
<1> QED BY <1>2, AdvInductive, PTL DEF AdvSpec, CertSilenceEarned

\* A band that was confirmed is not announced again, except after a lost marker,
\* however many attempts went unconfirmed in between (cert_alert_threshold,
\* record_cert_alert).
THEOREM CertOnceCorrect == AdvSpec => CertNotRepeated
<1>1. ASSUME AdvInv, [AdvNext]_advVars,
             at # "cert_due" /\ at' = "cert_due" /\ confirmed # None
      PROVE  due' < confirmed \/ "cert" \in lost
  <2> SUFFICES ASSUME "cert" \notin lost PROVE due' < confirmed
      OBVIOUS
  <2>1. MaybeAlertCertExpiry
      BY <1>1
         DEF AdvNext, advVars, DayPasses, Renew, AdvStart, OtherWrite, AdvEnd,
             NoCertificate, CertUnconfirmed, CertGoesOn, CertConfirmed, CertRecord,
             NoTrend, TrendNotDegrading, TrendUnconfirmed, TrendConfirmed,
             TrendRecord, TrendSilent, TrendDegrading
  <2>2. /\ at = "probed" /\ AdvTypeOK /\ mem \in AdvRecord /\ CertFact(mem) /\ Marked
      BY <1>1, <2>1 DEF AdvInv, TypeInv, AdvTypeOK, CertInv, OnceInv,
                        MaybeAlertCertExpiry
  <2>3. days <= mem.cert_last_seen_days
      BY <2>2 DEF CertFact, Marked
  <2>4. due' = Band(days) /\ CertAlertDue(days, mem.cert_alerted_days)
      BY <1>1, <2>1, <2>3, Look
  <2>5. Band(days) < mem.cert_alerted_days /\ mem.cert_alerted_days <= confirmed
      BY <2>2, <2>4 DEF Marked, CertAlertDue
  <2>6. confirmed \in Int /\ mem.cert_alerted_days \in Int
      BY <2>2, RecordNumbers, AdvisoriesAssumption DEF AdvTypeOK, Threshold, None
  <2>7. Band(days) \in Int
    <3>1. days \in Int
        BY <2>2, AdvisoriesAssumption DEF AdvTypeOK, Days
    <3>2. Band(days) \in Threshold
        BY <3>1, BandIsThreshold
    <3> QED BY <3>2, AdvisoriesAssumption DEF Threshold
  <2> QED BY <2>4, <2>5, <2>6, <2>7
<1>2. AdvInv /\ [AdvNext]_advVars =>
          [at # "cert_due" /\ at' = "cert_due" /\ confirmed # None
              => due' < confirmed \/ "cert" \in lost]_advVars
    BY <1>1
<1> QED BY <1>2, AdvInductive, PTL DEF AdvSpec, CertNotRepeated

\* Silence about a degrading trend is earned by this episode's announcement of
\* a number not much smaller (_maybe_alert_trend).
THEOREM TrendSilenceCorrect == AdvSpec => TrendSilenceEarned
<1>1. ASSUME AdvInv, NEW p \in P95, at = "checked", TrendSilent(p)
      PROVE  \/ drift # None /\ p * 100 < drift * (100 + TREND_MIN_CHANGE_PCT)
             \/ "trend" \in lost
    BY <1>1 DEF AdvInv, TrendInv, TrendSilent, TrendSuppressed
<1>2. AdvInv /\ [AdvNext]_advVars =>
          [\A p \in P95 :
              at = "checked" /\ TrendSilent(p)
                  => \/ drift # None /\ p * 100 < drift * (100 + TREND_MIN_CHANGE_PCT)
                     \/ "trend" \in lost]_advVars
    BY <1>1
<1> QED BY <1>2, AdvInductive, PTL DEF AdvSpec, TrendSilenceEarned

\* After a confirmed announcement an episode is announced again only when it is
\* worse by the factor, unless a round lost the marker.
THEOREM TrendOnceCorrect == AdvSpec => TrendNotRepeated
<1>1. ASSUME AdvInv, [AdvNext]_advVars,
             at # "trend_due" /\ at' = "trend_due" /\ drift # None
      PROVE  \/ due' * 100 >= drift * (100 + TREND_MIN_CHANGE_PCT)
             \/ "trend" \in lost
  <2>1. PICK p \in P95 : TrendDegrading(p)
      BY <1>1
         DEF AdvNext, advVars, DayPasses, Renew, AdvStart, OtherWrite, AdvEnd,
             NoCertificate, MaybeAlertCertExpiry, CertUnconfirmed, CertGoesOn,
             CertConfirmed, CertRecord, NoTrend, TrendNotDegrading,
             TrendUnconfirmed, TrendConfirmed, TrendRecord, TrendSilent
  <2>2. due' = p /\ ~TrendSuppressed(p, mem.trend_alerted_p95_ms) /\ at = "checked"
      BY <1>1, <2>1 DEF TrendDegrading
  <2>3. "trend" \in lost \/ mem.trend_alerted_p95_ms = drift
      BY <1>1, <2>2 DEF AdvInv, TrendInv
  <2>4. drift \in P95 \union {None}
      BY <1>1 DEF AdvInv, TypeInv, AdvTypeOK
  <2> QED BY <1>1, <2>2, <2>3, <2>4, TrendCompared
<1>2. AdvInv /\ [AdvNext]_advVars =>
          [at # "trend_due" /\ at' = "trend_due" /\ drift # None
              => \/ due' * 100 >= drift * (100 + TREND_MIN_CHANGE_PCT)
                 \/ "trend" \in lost]_advVars
    BY <1>1
<1> QED BY <1>2, AdvInductive, PTL DEF AdvSpec, TrendNotRepeated

=============================================================================
