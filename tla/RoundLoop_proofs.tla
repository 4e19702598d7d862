-------------------------- MODULE RoundLoop_proofs --------------------------
(***************************************************************************)
(* Theorems about RoundLoop, for any budgets, periods and thresholds that  *)
(* RoundLoopAssumption allows: how long a round that hangs can last, and   *)
(* that neither the probe nor a stop touches a round that works.           *)
(***************************************************************************)
EXTENDS RoundLoop, TLAPS

-----------------------------------------------------------------------------
(*                                Arithmetic                               *)

\* The time of n probes.
Periods(n) == n * PERIOD

\* From here on a round that hangs fails every probe.
Stale == BUDGET + LIVENESS_MAX_AGE + 1

\* Another probe takes another period, and the limit is made of such steps.
LEMMA Limits ==
    /\ Periods(0) = 0
    /\ \A n \in Nat : Periods(n) \in Nat /\ Periods(n + 1) = Periods(n) + PERIOD
    /\ \A n \in 0..(FAILURE_THRESHOLD - 1) :
          Periods(n) + PERIOD <= Periods(FAILURE_THRESHOLD)
    /\ Stale \in Nat
    /\ HangLimit = Stale + Periods(FAILURE_THRESHOLD) + GRACE
    /\ HangLimit \in Nat
<1>1. ASSUME NEW p \in Nat
      PROVE  /\ 0 * p = 0
             /\ \A n \in Nat : n * p \in Nat /\ (n + 1) * p = n * p + p
             /\ \A n, m \in Nat : n * p + m * p = (n + m) * p
    OBVIOUS
<1>2. PERIOD \in Nat /\ FAILURE_THRESHOLD \in Nat \ {0} /\ GRACE \in Nat
    BY RoundLoopAssumption
<1>3. /\ Periods(0) = 0
      /\ \A n \in Nat : Periods(n) \in Nat /\ Periods(n + 1) = Periods(n) + PERIOD
      /\ \A n, m \in Nat : Periods(n) + Periods(m) = Periods(n + m)
    BY <1>1, <1>2 DEF Periods
<1>4. ASSUME NEW n \in 0..(FAILURE_THRESHOLD - 1)
      PROVE  Periods(n) + PERIOD <= Periods(FAILURE_THRESHOLD)
  <2>1. PICK m \in Nat : n + 1 + m = FAILURE_THRESHOLD
    <3>1. FAILURE_THRESHOLD - n - 1 \in Nat
        BY <1>2
    <3> QED BY <1>2, <3>1
  <2>2. n \in Nat /\ n + 1 \in Nat
      BY <1>2
  <2>3. Periods(n + 1) + Periods(m) = Periods(FAILURE_THRESHOLD)
      BY <1>3, <2>1, <2>2
  <2>4. /\ Periods(n + 1) = Periods(n) + PERIOD
        /\ Periods(n) \in Nat /\ Periods(m) \in Nat
      BY <1>3, <2>2
  <2> QED BY <1>2, <2>3, <2>4
<1>5. Stale \in Nat
    BY RoundLoopAssumption DEF Stale
<1>6. Periods(FAILURE_THRESHOLD) \in Nat
    BY <1>2, <1>3
<1>7. HangLimit = Stale + Periods(FAILURE_THRESHOLD) + GRACE
  <2>1. HangLimit = BUDGET + LIVENESS_MAX_AGE + 1 + Periods(FAILURE_THRESHOLD)
                      + GRACE
      BY Zenon DEF HangLimit, Periods
  <2> QED BY <1>6, <2>1, RoundLoopAssumption DEF Stale
<1>8. HangLimit \in Nat
    BY <1>2, <1>5, <1>6, <1>7
<1> QED BY <1>3, <1>4, <1>5, <1>7, <1>8

-----------------------------------------------------------------------------
(*                          The inductive invariant                        *)

\* Who waits for what: TERM finds a round or ends the container, a pause and a
\* working round are over in time.
InTime ==
    /\ stopping # "no" => phase \in {"round", "down"}
    /\ phase = "pause" => spent <= PAUSE
    /\ phase = "round" /\ ~hung => spent <= BUDGET

\* The marker says how long ago the round started: through the pause that
\* follows, and at the next start.
MarkerAge ==
    /\ phase = "round" =>
          marker = IF spent <= LIVENESS_MAX_AGE THEN spent ELSE Old
    /\ phase = "pause" => marker \in 0..(BUDGET + spent)
    /\ phase = "starting" => wait = PERIOD \/ marker \in 0..LIVENESS_MAX_AGE

\* No check is written later than BUDGET into a round.
NewestAge ==
    phase = "round" => newest \in {Absent, Old} \/ spent <= BUDGET + newest

\* Probes that failed since the round went stale account for its time, and TERM
\* for the rest.
Patience ==
    /\ stopping = "no" => misses < FAILURE_THRESHOLD
    /\ phase = "round" /\ stopping = "no" =>
          spent + wait <= Stale + Periods(misses) + PERIOD
    /\ phase = "round" /\ stopping # "no" =>
          /\ grace <= spent
          /\ spent <= Stale + Periods(FAILURE_THRESHOLD) + grace

LoopInv == LoopTypeOK /\ InTime /\ MarkerAge /\ NewestAge /\ Patience

\* The types as the provers want them.
LEMMA Numbers ==
    ASSUME LoopInv
    PROVE  /\ spent \in Nat /\ wait \in Nat /\ grace \in Nat /\ misses \in Nat
           /\ marker \in Int /\ newest \in Int
           /\ wait <= PERIOD /\ grace <= GRACE /\ misses <= FAILURE_THRESHOLD
           /\ Periods(misses) \in Nat
           /\ Stale \in Nat /\ Periods(FAILURE_THRESHOLD) \in Nat
<1>1. LoopTypeOK
    BY DEF LoopInv
<1>2. HangLimit \in Nat
    BY Limits
<1>3. /\ spent \in Nat /\ wait \in Nat /\ grace \in Nat /\ misses \in Nat
      /\ marker \in Int /\ newest \in Int
      /\ wait <= PERIOD /\ grace <= GRACE /\ misses <= FAILURE_THRESHOLD
    BY <1>1, <1>2, RoundLoopAssumption DEF LoopTypeOK, Absent, Old
<1> QED BY <1>3, Limits, RoundLoopAssumption

\* A round never outlasts HangLimit.
LEMMA RoundWithinLimit ==
    ASSUME LoopInv, phase = "round"
    PROVE  spent <= HangLimit
<1>1. HangLimit = Stale + Periods(FAILURE_THRESHOLD) + GRACE
    BY Limits
<1>2. CASE stopping = "no"
  <2>1. misses \in 0..(FAILURE_THRESHOLD - 1)
      BY <1>2, Numbers, RoundLoopAssumption DEF LoopInv, Patience
  <2>2. Periods(misses) + PERIOD <= Periods(FAILURE_THRESHOLD)
      BY <2>1, Limits
  <2>3. spent + wait <= Stale + Periods(misses) + PERIOD
      BY <1>2 DEF LoopInv, Patience
  <2> QED BY <1>1, <2>2, <2>3, Numbers, RoundLoopAssumption
<1>3. CASE stopping # "no"
  <2>1. spent <= Stale + Periods(FAILURE_THRESHOLD) + grace
      BY <1>3 DEF LoopInv, Patience
  <2> QED BY <1>1, <2>1, Numbers, RoundLoopAssumption
<1> QED BY <1>2, <1>3

\* What the liveness verdict says of the loop when the kubelet asks.
LEMMA ProbeVerdict ==
    ASSUME LoopInv, phase # "down", stopping = "no", wait = 0
    PROVE  /\ LivenessProblem => phase = "round" /\ hung
           /\ ~LivenessProblem /\ phase = "round" => spent < Stale
<1>1. CASE phase = "round"
  <2>1. marker = IF spent <= LIVENESS_MAX_AGE THEN spent ELSE Old
      BY <1>1 DEF LoopInv, MarkerAge
  <2>2. newest \in {Absent, Old} \/ spent <= BUDGET + newest
      BY <1>1 DEF LoopInv, NewestAge
  <2>3. ~hung => spent <= BUDGET
      BY <1>1 DEF LoopInv, InTime
  <2>4. LivenessProblem => hung
      BY <2>1, <2>3, Numbers, RoundLoopAssumption DEF LivenessProblem
  <2>5. ASSUME ~LivenessProblem
        PROVE  spent < Stale
    <3>1. CASE marker \in 0..LIVENESS_MAX_AGE
        BY <2>1, <3>1, Numbers, RoundLoopAssumption DEF Stale, Old
    <3>2. CASE marker \notin 0..LIVENESS_MAX_AGE
      <4>1. marker = Old
          BY <2>1, <3>2, Numbers, RoundLoopAssumption
      <4>2. newest # Absent /\ newest # Old
          BY <2>5, <3>2, <4>1, RoundLoopAssumption DEF LivenessProblem, Absent, Old
      <4>3. newest <= LIVENESS_MAX_AGE
          BY <4>2, RoundLoopAssumption DEF LoopInv, LoopTypeOK, Absent, Old
      <4> QED BY <2>2, <4>2, <4>3, Numbers, RoundLoopAssumption DEF Stale
    <3> QED BY <3>1, <3>2
  <2> QED BY <1>1, <2>4, <2>5
<1>2. CASE phase = "pause"
  <2>1. marker \in 0..(BUDGET + spent) /\ spent <= PAUSE
      BY <1>2 DEF LoopInv, MarkerAge, InTime
  <2>2. marker \in 0..LIVENESS_MAX_AGE
      BY <2>1, Numbers, RoundLoopAssumption
  <2> QED BY <1>2, <2>2 DEF LivenessProblem
<1>3. CASE phase = "starting"
  <2>1. marker \in 0..LIVENESS_MAX_AGE
      BY <1>3, RoundLoopAssumption DEF LoopInv, MarkerAge
  <2> QED BY <1>3, <2>1 DEF LivenessProblem
<1> QED BY <1>1, <1>2, <1>3 DEF LoopInv, LoopTypeOK


-----------------------------------------------------------------------------
(*                                 The steps                               *)

\* TERM sent by the probe (after its last miss) or by a stop.
LEMMA TermStep ==
    ASSUME LoopInv, NEW why \in {"restart", "stop"}, stopping = "no",
           TermSent(why),
           wait' \in 0..PERIOD, misses' \in 0..FAILURE_THRESHOLD,
           UNCHANGED <<hung, rc, marker, newest, usable>>,
           phase = "round" =>
               spent <= Stale + Periods(FAILURE_THRESHOLD)
    PROVE  LoopInv'
<1>1. /\ stopping' = why /\ grace' = 0
      /\ phase' \in {"round", "down"}
      /\ phase' = "round" => phase = "round" /\ spent' = spent
      /\ spent' \in {0, spent}
    BY DEF TermSent, AfterTerm
<1>2. stopping' # "no"
    BY <1>1
<1>3. LoopTypeOK'
  <2>1. LoopTypeOK
      BY DEF LoopInv
  <2>2. 0 \in 0..HangLimit + 1 /\ 0 \in 0..GRACE
      BY Limits, RoundLoopAssumption
  <2> QED BY <1>1, <2>1, <2>2 DEF LoopTypeOK
<1>4. InTime'
    BY <1>1, <1>2 DEF LoopInv, InTime
<1>5. MarkerAge' /\ NewestAge'
    BY <1>1 DEF LoopInv, MarkerAge, NewestAge, Old
<1>6. Patience'
    BY <1>1, <1>2, Numbers DEF Patience
<1> QED BY <1>3, <1>4, <1>5, <1>6 DEF LoopInv

\* A probe keeps the invariant: it passes only while the round is not stale,
\* and each failure adds the period it took.
LEMMA ProbeStep ==
    ASSUME LoopInv, LivenessProbe
    PROVE  LoopInv'
<1>1. /\ wait = 0 /\ stopping = "no" /\ phase # "down" /\ wait' = PERIOD
      /\ UNCHANGED <<hung, rc, marker, newest, usable>>
    BY DEF LivenessProbe
<1>2. /\ misses \in 0..(FAILURE_THRESHOLD - 1)
      /\ phase = "round" => spent <= Stale + Periods(misses) + PERIOD
    BY <1>1, Numbers, RoundLoopAssumption DEF LoopInv, Patience
<1>3. LoopTypeOK /\ InTime /\ MarkerAge /\ NewestAge
    BY DEF LoopInv
<1>4. wait' \in 0..PERIOD
    BY <1>1, RoundLoopAssumption
<1>5. CASE misses' = 0 /\ ProbePasses /\ UNCHANGED <<phase, spent, Term>>
  <2>1. UNCHANGED <<phase, spent, stopping, grace>>
      BY <1>5 DEF Term
  <2>2. misses' \in 0..FAILURE_THRESHOLD /\ misses' < FAILURE_THRESHOLD
      BY <1>5, RoundLoopAssumption
  <2>3. LoopTypeOK'
      BY <1>1, <1>3, <1>4, <2>1, <2>2 DEF LoopTypeOK
  <2>4. phase = "round" => spent < Stale
      BY <1>1, <1>5, ProbeVerdict DEF ProbePasses
  <2>5. phase = "round" => spent + wait' <= Stale + Periods(misses') + PERIOD
      BY <1>1, <1>5, <2>4, Numbers, Limits, RoundLoopAssumption
  <2>6. Patience'
      BY <1>1, <2>1, <2>2, <2>5 DEF Patience
  <2>7. InTime' /\ MarkerAge' /\ NewestAge'
      BY <1>1, <1>3, <2>1 DEF InTime, MarkerAge, NewestAge
  <2> QED BY <2>3, <2>6, <2>7 DEF LoopInv
<1>6. CASE misses' = misses + 1 /\ misses' # FAILURE_THRESHOLD
           /\ UNCHANGED <<phase, spent, Term>>
  <2>1. UNCHANGED <<phase, spent, stopping, grace>>
      BY <1>6 DEF Term
  <2>2. misses' \in 0..FAILURE_THRESHOLD /\ misses' < FAILURE_THRESHOLD
      BY <1>2, <1>6, RoundLoopAssumption
  <2>3. LoopTypeOK'
      BY <1>1, <1>3, <1>4, <2>1, <2>2 DEF LoopTypeOK
  <2>4. Periods(misses') = Periods(misses) + PERIOD
      BY <1>2, <1>6, Numbers, Limits
  <2>5. phase = "round" => spent + wait' <= Stale + Periods(misses') + PERIOD
      BY <1>1, <1>2, <2>4, Numbers, RoundLoopAssumption
  <2>6. Patience'
      BY <1>1, <2>1, <2>2, <2>5 DEF Patience
  <2>7. InTime' /\ MarkerAge' /\ NewestAge'
      BY <1>1, <1>3, <2>1 DEF InTime, MarkerAge, NewestAge
  <2> QED BY <2>3, <2>6, <2>7 DEF LoopInv
<1>7. CASE misses' = misses + 1 /\ misses' = FAILURE_THRESHOLD /\ TermSent("restart")
  <2>1. Periods(misses) + PERIOD <= Periods(FAILURE_THRESHOLD)
      BY <1>2, Limits
  <2>2. phase = "round" => spent <= Stale + Periods(FAILURE_THRESHOLD)
      BY <1>2, <2>1, Numbers, RoundLoopAssumption
  <2>3. misses' \in 0..FAILURE_THRESHOLD
      BY <1>7, RoundLoopAssumption
  <2> QED BY <1>1, <1>4, <1>7, <2>2, <2>3, TermStep
<1> QED BY <1>5, <1>6, <1>7 DEF LivenessProbe

\* Time passes over nothing that is due.
LEMMA TickStep ==
    ASSUME LoopInv, Tick
    PROVE  LoopInv'
<1>1. /\ UNCHANGED <<phase, hung, rc, stopping, usable, misses>>
      /\ phase \notin {"starting", "down"}
      /\ phase = "round" /\ ~hung => spent # BUDGET
      /\ phase = "pause" => spent # PAUSE
      /\ stopping # "no" => grace # GRACE
      /\ wait # 0
    BY DEF Tick, Due, PauseOver
<1>2. /\ grace' = IF stopping = "no" THEN 0 ELSE grace + 1
      /\ wait' = IF stopping = "no" THEN wait - 1 ELSE wait
      /\ marker' = Aged(marker) /\ newest' = Aged(newest)
    BY DEF Tick
<1>3. LoopTypeOK /\ InTime /\ MarkerAge /\ NewestAge /\ Patience
    BY DEF LoopInv
<1>4. phase \in {"round", "pause"}
    BY <1>1, <1>3 DEF LoopTypeOK
<1>5. spent <= HangLimit
  <2>1. PAUSE <= HangLimit
      BY Limits, Numbers, RoundLoopAssumption DEF Stale
  <2>2. phase = "pause" => spent <= PAUSE
      BY <1>3 DEF InTime
  <2>3. phase = "round" => spent <= HangLimit
      BY RoundWithinLimit
  <2> QED BY <1>4, <2>1, <2>2, <2>3, Numbers, Limits, RoundLoopAssumption
<1>6. spent' = spent + 1
    BY <1>5, Numbers, Limits DEF Tick
<1>7. LoopTypeOK'
  <2>1. spent' \in 0..HangLimit + 1
      BY <1>5, <1>6, Numbers, Limits
  <2>2. grace' \in 0..GRACE /\ wait' \in 0..PERIOD
      BY <1>1, <1>2, Numbers, RoundLoopAssumption
  <2>3. marker' \in Absent..Old /\ newest' \in Absent..Old
      BY <1>2, <1>3, RoundLoopAssumption DEF LoopTypeOK, Aged, Absent, Old
  <2> QED BY <1>1, <1>3, <2>1, <2>2, <2>3 DEF LoopTypeOK
<1>8. InTime'
    BY <1>1, <1>3, <1>6, Numbers, RoundLoopAssumption DEF InTime
<1>9. MarkerAge'
  <2>1. CASE phase = "round"
    <3>1. marker' = IF spent' <= LIVENESS_MAX_AGE THEN spent' ELSE Old
        BY <1>2, <1>3, <1>6, <2>1, Numbers, RoundLoopAssumption
        DEF MarkerAge, Aged, Old
    <3> QED BY <1>1, <2>1, <3>1 DEF MarkerAge
  <2>2. CASE phase = "pause"
    <3>1. marker \in 0..(BUDGET + spent) /\ spent + 1 <= PAUSE
        BY <1>1, <1>3, <2>2, Numbers, RoundLoopAssumption DEF MarkerAge, InTime
    <3>2. marker' \in 0..(BUDGET + spent')
        BY <1>2, <1>6, <3>1, Numbers, RoundLoopAssumption DEF Aged
    <3> QED BY <1>1, <2>2, <3>2 DEF MarkerAge
  <2> QED BY <1>4, <2>1, <2>2
<1>10. NewestAge'
    BY <1>1, <1>2, <1>3, <1>6, Numbers, RoundLoopAssumption
    DEF NewestAge, Aged, Absent, Old, LoopTypeOK
<1>11. Patience'
    BY <1>1, <1>2, <1>3, <1>6, Numbers, RoundLoopAssumption DEF Patience
<1> QED BY <1>7, <1>8, <1>9, <1>10, <1>11 DEF LoopInv


\* LoopInv is inductive.
LEMMA LoopInductive ==
    /\ LoopInit => LoopInv
    /\ LoopInv /\ [LoopNext]_loopVars => LoopInv'
<1>1. ASSUME LoopInit
      PROVE  LoopInv
  <2>1. LoopTypeOK
    <3>1. /\ 0 \in 0..HangLimit + 1 /\ 0 \in 0..GRACE /\ 0 \in 0..FAILURE_THRESHOLD
          /\ PERIOD \in 0..PERIOD
        BY Limits, RoundLoopAssumption
    <3>2. Absent \in Absent..Old /\ Old \in Absent..Old
        BY RoundLoopAssumption DEF Absent, Old
    <3> QED BY <1>1, <3>1, <3>2 DEF LoopInit, LoopTypeOK
  <2>2. InTime /\ MarkerAge /\ NewestAge
      BY <1>1 DEF LoopInit, InTime, MarkerAge, NewestAge
  <2>3. Patience
      BY <1>1, RoundLoopAssumption DEF LoopInit, Patience
  <2> QED BY <2>1, <2>2, <2>3 DEF LoopInv
<1>2. ASSUME LoopInv, [LoopNext]_loopVars
      PROVE  LoopInv'
  <2> USE <1>2
  <2>1. LoopTypeOK /\ InTime /\ MarkerAge /\ NewestAge /\ Patience
      BY DEF LoopInv
  <2>2. 0 \in 0..HangLimit + 1 /\ 0 \in Absent..Old /\ 0 \in 0..GRACE
      BY Limits, RoundLoopAssumption DEF Absent, Old
  <2>3. CASE RoundStarts
    <3>1. /\ phase = "starting" /\ phase' = "round" /\ spent' = 0 /\ marker' = 0
          /\ hung' \in BOOLEAN
          /\ UNCHANGED <<rc, newest, usable, stopping, grace, wait, misses>>
        BY <2>3 DEF RoundStarts, Term, Probe
    <3>2. stopping = "no"
        BY <2>1, <3>1 DEF InTime
    <3>3. LoopTypeOK'
        BY <2>1, <2>2, <3>1 DEF LoopTypeOK
    <3>4. InTime' /\ MarkerAge' /\ NewestAge'
      <4>1. newest \in {Absent, Old} \/ 0 <= BUDGET + newest
          BY <2>1, RoundLoopAssumption DEF LoopTypeOK, Absent, Old
      <4>2. 0 <= BUDGET /\ 0 <= LIVENESS_MAX_AGE
          BY RoundLoopAssumption
      <4> QED BY <3>1, <3>2, <4>1, <4>2 DEF InTime, MarkerAge, NewestAge
    <3>5. Patience'
        BY <2>1, <3>1, <3>2, Numbers, RoundLoopAssumption DEF Patience
    <3> QED BY <3>3, <3>4, <3>5 DEF LoopInv
  <2>4. CASE CheckWritten
    <3>1. /\ phase = "round" /\ spent <= BUDGET /\ newest' = 0
          /\ UNCHANGED <<phase, spent, hung, rc, marker, usable, stopping, grace,
                         wait, misses>>
        BY <2>4 DEF CheckWritten, Term, Probe
    <3>2. LoopTypeOK'
        BY <2>1, <2>2, <3>1 DEF LoopTypeOK
    <3>3. NewestAge'
        BY <3>1, RoundLoopAssumption DEF NewestAge
    <3>4. InTime' /\ MarkerAge' /\ Patience'
        BY <2>1, <3>1 DEF InTime, MarkerAge, Patience
    <3> QED BY <3>2, <3>3, <3>4 DEF LoopInv
  <2>5. CASE RoundEnds
    <3>1. /\ phase = "round" /\ ~hung /\ spent' = 0
          /\ phase' = IF stopping = "no" THEN "pause" ELSE "down"
          /\ UNCHANGED <<hung, marker, newest, usable, stopping, grace, wait, misses>>
        BY <2>5 DEF RoundEnds, Term, Probe
    <3>2. rc' \in {0, 1}
        BY <2>5, Zenon DEF RoundEnds, ExitCode
    <3>3. LoopTypeOK'
        BY <2>1, <2>2, <3>1, <3>2 DEF LoopTypeOK
    <3>4. marker = spent /\ spent \in 0..BUDGET
        BY <2>1, <3>1, Numbers, RoundLoopAssumption DEF InTime, MarkerAge
    <3>5. marker' \in 0..(BUDGET + spent')
        BY <3>1, <3>4, RoundLoopAssumption
    <3>6. InTime' /\ MarkerAge' /\ NewestAge'
        BY <2>1, <3>1, <3>5, RoundLoopAssumption DEF InTime, MarkerAge, NewestAge
    <3>7. Patience'
        BY <2>1, <3>1 DEF Patience
    <3> QED BY <3>3, <3>6, <3>7 DEF LoopInv
  <2>6. CASE PauseEnds
    <3>1. /\ phase = "pause" /\ spent = PAUSE /\ spent' = 0
          /\ phase' \in {"starting", "down"}
          /\ UNCHANGED <<hung, rc, marker, newest, usable, stopping, grace, wait,
                         misses>>
        BY <2>6 DEF PauseEnds, PauseOver, Term, Probe
    <3>2. stopping = "no"
        BY <2>1, <3>1 DEF InTime
    <3>3. marker \in 0..LIVENESS_MAX_AGE
        BY <2>1, <3>1, RoundLoopAssumption DEF MarkerAge
    <3>4. LoopTypeOK'
        BY <2>1, <2>2, <3>1 DEF LoopTypeOK
    <3>5. InTime' /\ MarkerAge' /\ NewestAge' /\ Patience'
        BY <2>1, <3>1, <3>2, <3>3 DEF InTime, MarkerAge, NewestAge, Patience
    <3> QED BY <3>4, <3>5 DEF LoopInv
  <2>7. CASE LivenessProbe
      BY <2>7, ProbeStep
  <2>8. CASE Stop
    <3>1. /\ stopping = "no" /\ TermSent("stop")
          /\ UNCHANGED <<hung, rc, marker, newest, usable, wait, misses>>
        BY <2>8 DEF Stop, Probe
    <3>2. wait' \in 0..PERIOD /\ misses' \in 0..FAILURE_THRESHOLD
        BY <2>1, <3>1 DEF LoopTypeOK
    <3>3. misses \in 0..(FAILURE_THRESHOLD - 1)
        BY <2>1, <3>1, Numbers, RoundLoopAssumption DEF Patience
    <3>4. Periods(misses) + PERIOD <= Periods(FAILURE_THRESHOLD)
        BY <3>3, Limits
    <3>5. phase = "round" => spent <= Stale + Periods(FAILURE_THRESHOLD)
        BY <2>1, <3>1, <3>4, Numbers, RoundLoopAssumption DEF Patience
    <3> QED BY <3>1, <3>2, <3>5, TermStep
  <2>9. CASE GraceEnds
    <3>1. /\ phase' = "down" /\ spent' = 0 /\ stopping # "no"
          /\ UNCHANGED <<hung, rc, marker, newest, usable, stopping, grace, wait,
                         misses>>
        BY <2>9 DEF GraceEnds, Term, Probe
    <3>2. LoopTypeOK'
        BY <2>1, <2>2, <3>1 DEF LoopTypeOK
    <3>3. InTime' /\ MarkerAge' /\ NewestAge' /\ Patience'
        BY <2>1, <3>1 DEF InTime, MarkerAge, NewestAge, Patience
    <3> QED BY <3>2, <3>3 DEF LoopInv
  <2>10. CASE Restarted
    <3>1. /\ phase' = "starting" /\ spent' = 0 /\ hung' = FALSE /\ rc' = 0
          /\ stopping' = "no" /\ grace' = 0 /\ wait' = PERIOD /\ misses' = 0
          /\ UNCHANGED <<marker, newest, usable>>
        BY <2>10 DEF Restarted
    <3>2. LoopTypeOK'
      <4>1. PERIOD \in 0..PERIOD /\ 0 \in 0..FAILURE_THRESHOLD
          BY RoundLoopAssumption
      <4> QED BY <2>1, <2>2, <3>1, <4>1 DEF LoopTypeOK
    <3>3. InTime' /\ MarkerAge' /\ NewestAge' /\ Patience'
        BY <3>1, RoundLoopAssumption DEF InTime, MarkerAge, NewestAge, Patience
    <3> QED BY <3>2, <3>3 DEF LoopInv
  <2>11. CASE ListChanges
    <3>1. UNCHANGED <<phase, spent, hung, rc, marker, newest, stopping, grace, wait,
                      misses>>
        BY <2>11 DEF ListChanges, Term, Probe
    <3>2. usable' \in BOOLEAN
        BY <2>11, Zenon DEF ListChanges
    <3>3. LoopTypeOK'
        BY <2>1, <3>1, <3>2 DEF LoopTypeOK
    <3>4. InTime' /\ MarkerAge' /\ NewestAge' /\ Patience'
        BY <2>1, <3>1 DEF InTime, MarkerAge, NewestAge, Patience
    <3> QED BY <3>3, <3>4 DEF LoopInv
  <2>12. CASE Tick
      BY <2>12, TickStep
  <2>13. CASE UNCHANGED loopVars
      BY <2>1, <2>13
      DEF loopVars, LoopInv, LoopTypeOK, InTime, MarkerAge, NewestAge, Patience
  <2> QED BY <2>3, <2>4, <2>5, <2>6, <2>7, <2>8, <2>9, <2>10, <2>11, <2>12, <2>13
          DEF LoopNext, LoopStep
<1> QED BY <1>1, <1>2

-----------------------------------------------------------------------------
(*                                 Theorems                                *)

\* The loop, its supervisor and the files they share stay well-formed; no age or
\* counter runs past its bound.
THEOREM LoopTypeCorrect == LoopSpec => []LoopTypeOK
<1>1. LoopSpec => []LoopInv
    BY LoopInductive, PTL DEF LoopSpec
<1>2. LoopInv => LoopTypeOK
    BY DEF LoopInv
<1> QED BY <1>1, <1>2, PTL

\* A round that hangs is gone within its budget, the marker's age, the failing
\* probes and the grace period, whatever state.json it found or left and
\* whoever stops or breaks what meanwhile (liveness_problem).
THEOREM HungRoundCorrect == LoopSpec => []HungRoundReplaced
<1>1. LoopSpec => []LoopInv
    BY LoopInductive, PTL DEF LoopSpec
<1>2. LoopInv => HungRoundReplaced
    BY RoundWithinLimit DEF HungRoundReplaced
<1> QED BY <1>1, <1>2, PTL

\* The probe restarts the monitor only for a round that hangs or a list it
\* cannot load: not in a pause, at a start, in a working round, or for an old
\* state.json on the volume.
THEOREM WorkingMonitorCorrect == LoopSpec => WorkingMonitorKept
<1>1. LoopSpec => []LoopInv
    BY LoopInductive, PTL DEF LoopSpec
<1>2. ASSUME LoopInv, [LoopNext]_loopVars, stopping = "no", stopping' = "restart"
      PROVE  (phase = "round" /\ hung) \/ ~usable
  <2>1. LivenessProbe
      BY <1>2
      DEF LoopNext, LoopStep, RoundStarts, CheckWritten, RoundEnds, PauseEnds, Stop,
          TermSent, GraceEnds, Restarted, ListChanges, Tick, Term, loopVars
  <2>2. wait = 0 /\ phase # "down"
      BY <2>1 DEF LivenessProbe
  <2>3. ~ProbePasses
      BY <1>2, <2>1 DEF LivenessProbe, Term
  <2>4. CASE usable
    <3>1. LivenessProblem
        BY <2>3, <2>4 DEF ProbePasses
    <3> QED BY <1>2, <2>2, <3>1, ProbeVerdict
  <2>5. CASE ~usable
      BY <2>5
  <2> QED BY <2>4, <2>5
<1>3. LoopInv /\ [LoopNext]_loopVars =>
          [stopping = "no" /\ stopping' = "restart"
              => (phase = "round" /\ hung) \/ ~usable]_loopVars
    BY <1>2
<1> QED BY <1>1, <1>3, PTL DEF LoopSpec, WorkingMonitorKept

\* A round that does not hang, and is younger than the grace period, only ends by
\* itself, whatever the budget: TERM does not end the shell before it, and no KILL
\* reaches it yet (the trap of the loop, stop_grace_period).
THEOREM WorkingRoundCorrect == LoopSpec => WorkingRoundFinishes
<1>1. LoopSpec => []LoopInv
    BY LoopInductive, PTL DEF LoopSpec
<1>2. ASSUME LoopInv, [LoopNext]_loopVars, phase = "round", ~hung, spent < GRACE,
             phase' # "round"
      PROVE  RoundEnds
  <2>1. ~GraceEnds
    <3>1. stopping # "no" => grace <= spent
        BY <1>2 DEF LoopInv, Patience
    <3> QED BY <1>2, <3>1, Numbers, RoundLoopAssumption DEF GraceEnds
  <2>2. ~LivenessProbe /\ ~Stop
      BY <1>2 DEF LivenessProbe, Stop, TermSent, AfterTerm
  <2>3. /\ ~RoundStarts /\ ~CheckWritten /\ ~PauseEnds /\ ~Restarted /\ ~ListChanges
        /\ ~Tick /\ ~(UNCHANGED loopVars)
      BY <1>2
      DEF RoundStarts, CheckWritten, PauseEnds, PauseOver, Restarted, ListChanges,
          Tick, loopVars
  <2> QED BY <1>2, <2>1, <2>2, <2>3 DEF LoopNext, LoopStep
<1>3. LoopInv /\ [LoopNext]_loopVars =>
          [phase = "round" /\ ~hung /\ spent < GRACE /\ phase' # "round"
              => RoundEnds]_loopVars
    BY <1>2
<1> QED BY <1>1, <1>3, PTL DEF LoopSpec, WorkingRoundFinishes

=============================================================================
