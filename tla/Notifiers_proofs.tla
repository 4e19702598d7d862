-------------------------- MODULE Notifiers_proofs ---------------------------
(***************************************************************************)
(* Theorems about Notifiers, for any coroutines, channels, retry policy    *)
(* and breaker threshold: types, the time of one send, the breaker, and    *)
(* that every step of a dispatch is one DispatchContract allows.           *)
(***************************************************************************)
EXTENDS Notifiers, FiniteSetTheorems, TLAPS

-----------------------------------------------------------------------------
(*                                Arithmetic                               *)

\* Seconds of one failed attempt: the POST's timeout and the longest sleep.
Try == WEBHOOK_TIMEOUT_S + WEBHOOK_RETRY_AFTER_CAP_S

\* A product grows with its factor: fewer attempts take no longer.
LEMMA FewerAttempts ==
    ASSUME NEW m \in Nat, NEW n \in Nat, m <= n, NEW s \in Nat
    PROVE  m * s <= n * s
<1>1. n * s = m * s + (n - m) * s
    OBVIOUS
<1>2. n - m \in Nat
    OBVIOUS
<1>3. (n - m) * s \in Nat
    BY <1>2
<1>4. m * s \in Nat
    OBVIOUS
<1> QED BY <1>1, <1>3, <1>4

\* What n attempts take at most.
Tries(n) == n * Try

\* Another attempt adds one Try to the bound.
LEMMA OneMoreAttempt ==
    /\ Tries(0) = 0
    /\ \A n \in Nat : Tries(n) \in Nat
    /\ \A n \in Nat \ {0} : Tries(n - 1) + Try = Tries(n)
<1>1. Try \in Nat
    BY NotifiersAssumption DEF Try
<1>2. ASSUME NEW s \in Nat
      PROVE  /\ 0 * s = 0
             /\ \A n \in Nat : n * s \in Nat
             /\ \A n \in Nat \ {0} : (n - 1) * s + s = n * s
    OBVIOUS
<1>3. /\ 0 * Try = 0
      /\ \A n \in Nat : n * Try \in Nat
      /\ \A n \in Nat \ {0} : (n - 1) * Try + Try = n * Try
    BY <1>1, <1>2
<1> QED BY <1>3 DEF Tries

\* SleepFor stays within the cap, whatever the header says: the linear backoff
\* of every attempt but the last does too.
LEMMA SleepWithinCap ==
    ASSUME NEW n \in 1..WEBHOOK_RETRY_ATTEMPTS, NEW header \in Int
    PROVE  SleepFor(n, header) \in 0..WEBHOOK_RETRY_AFTER_CAP_S
<1>1. n * WEBHOOK_RETRY_BASE_S <= WEBHOOK_RETRY_ATTEMPTS * WEBHOOK_RETRY_BASE_S
    BY FewerAttempts, NotifiersAssumption
<1>2. /\ WEBHOOK_RETRY_BASE_S * n = n * WEBHOOK_RETRY_BASE_S
      /\ WEBHOOK_RETRY_BASE_S * WEBHOOK_RETRY_ATTEMPTS
            = WEBHOOK_RETRY_ATTEMPTS * WEBHOOK_RETRY_BASE_S
      /\ WEBHOOK_RETRY_BASE_S * n \in Nat
      /\ WEBHOOK_RETRY_BASE_S * WEBHOOK_RETRY_ATTEMPTS \in Nat
    BY NotifiersAssumption
<1>3. LinearBackoff(n) \in 0..WEBHOOK_RETRY_AFTER_CAP_S
    BY <1>1, <1>2, NotifiersAssumption DEF LinearBackoff
<1> QED BY <1>3, NotifiersAssumption DEF SleepFor

-----------------------------------------------------------------------------
(*                           One send and its time                         *)

\* A send has waited for no more than the attempts before this one can take.
LegOK(l) ==
    /\ l \in Leg
    /\ l.at \in {"none", "queued", "done"} =>
          l.attempt \in {0, 1} /\ l.sleep = 0 /\ l.waited = 0
    /\ l.at \in {"none", "queued", "posting", "sleeping"} => ~l.ok
    /\ l.at = "posting" =>
          /\ l.attempt # 0
          /\ l.sleep = 0
          /\ l.waited <= Tries(l.attempt - 1)
    /\ l.at = "sleeping" =>
          /\ l.attempt # 0 /\ l.attempt # WEBHOOK_RETRY_ATTEMPTS
          /\ l.sleep \in 0..WEBHOOK_RETRY_AFTER_CAP_S
          /\ l.waited + WEBHOOK_RETRY_AFTER_CAP_S <= Tries(l.attempt)

LegsOK == \A k \in Coroutine, c \in Configured : LegOK(leg[k][c])

TypeInv == TypeOK /\ LegsOK

\* The legs an action writes without counting anything.
LEMMA FreshLegs ==
    /\ \A at \in {"none", "queued", "done"} : LegOK(LegAt(at))
    /\ LegOK([LegAt("posting") EXCEPT !.attempt = 1])
    /\ \A d \in BOOLEAN : LegOK(Ended(d))
<1>1. 0 \in 0..WEBHOOK_RETRY_ATTEMPTS /\ 1 \in 0..WEBHOOK_RETRY_ATTEMPTS
    BY NotifiersAssumption
<1>2. \A at \in {"none", "queued", "done"} : LegOK(LegAt(at))
    BY <1>1 DEF LegOK, LegAt, Leg
<1>3. Tries(1 - 1) = 0
    BY OneMoreAttempt
<1>4. LegOK([LegAt("posting") EXCEPT !.attempt = 1])
  <2> DEFINE r == [LegAt("posting") EXCEPT !.attempt = 1]
  <2>1. LegAt("posting") \in Leg /\ ~LegAt("posting").ok
      BY <1>1 DEF LegAt, Leg
  <2>2. /\ r.at = "posting" /\ r.attempt = 1 /\ r.sleep = 0 /\ r.waited = 0
        /\ r.ok = LegAt("posting").ok
        /\ r \in Leg
      BY <1>1, <2>1 DEF LegAt, Leg
  <2> HIDE DEF r
  <2>3. LegOK(r)
      BY <2>1, <2>2, <1>3 DEF LegOK
  <2> QED BY <2>3 DEF r
<1>5. ASSUME NEW d \in BOOLEAN
      PROVE  LegOK(Ended(d))
  <2> DEFINE r == Ended(d)
  <2>1. r.at = "done" /\ r.attempt = 1 /\ r.sleep = 0 /\ r.waited = 0
      BY DEF LegAt, Ended
  <2>2. LegAt("done") \in Leg /\ 1 \in 0..WEBHOOK_RETRY_ATTEMPTS
      BY <1>1 DEF LegAt, Leg
  <2>3. r \in Leg
      BY <2>2 DEF Leg, Ended
  <2> HIDE DEF r
  <2>4. LegOK(r)
      BY <2>1, <2>3 DEF LegOK
  <2> QED BY <2>4 DEF r
<1> QED BY <1>2, <1>4, <1>5

\* After a failed attempt that was not the last, and after its sleep, the send
\* is still within its time.
LEMMA SendGoesOn ==
    ASSUME NEW l, LegOK(l)
    PROVE  /\ \A header \in Int :
                 l.at = "posting" /\ l.attempt # WEBHOOK_RETRY_ATTEMPTS =>
                     LegOK([l EXCEPT !.at = "sleeping",
                                     !.sleep = SleepFor(l.attempt, header),
                                     !.waited = @ + WEBHOOK_TIMEOUT_S])
           /\ l.at = "sleeping" =>
                 LegOK([l EXCEPT !.at = "posting", !.attempt = @ + 1,
                                 !.sleep = 0, !.waited = @ + l.sleep])
<1>1. /\ l \in Leg
      /\ l.attempt \in 0..WEBHOOK_RETRY_ATTEMPTS
      /\ l.waited \in Nat
      /\ l.sleep \in Int
    BY DEF LegOK, Leg
<1>2. PICK n \in 0..WEBHOOK_RETRY_ATTEMPTS, w \in Nat, sleep \in Int :
          n = l.attempt /\ w = l.waited /\ sleep = l.sleep
    BY <1>1
<1>3. ASSUME NEW header \in Int, l.at = "posting", n # WEBHOOK_RETRY_ATTEMPTS
      PROVE  LegOK([l EXCEPT !.at = "sleeping",
                             !.sleep = SleepFor(n, header),
                             !.waited = w + WEBHOOK_TIMEOUT_S])
  <2>1. n \in 1..WEBHOOK_RETRY_ATTEMPTS /\ n \in Nat \ {0}
      BY <1>2, <1>3, NotifiersAssumption DEF LegOK
  <2>2. PICK s \in 0..WEBHOOK_RETRY_AFTER_CAP_S : s = SleepFor(n, header)
      BY <2>1, SleepWithinCap
  <2>3. w <= Tries(n - 1) /\ ~l.ok
      BY <1>2, <1>3 DEF LegOK
  <2>4. w + WEBHOOK_TIMEOUT_S + WEBHOOK_RETRY_AFTER_CAP_S <= Tries(n)
    <3>1. Tries(n - 1) + Try = Tries(n) /\ Tries(n - 1) \in Nat /\ Tries(n) \in Nat
        BY <2>1, OneMoreAttempt
    <3> QED BY <2>3, <3>1, NotifiersAssumption DEF Try
  <2> DEFINE r == [l EXCEPT !.at = "sleeping", !.sleep = s,
                            !.waited = w + WEBHOOK_TIMEOUT_S]
  <2>5. s \in Int /\ w + WEBHOOK_TIMEOUT_S \in Nat
      BY NotifiersAssumption
  <2>6. /\ r.at = "sleeping" /\ r.attempt = n /\ ~r.ok /\ r.sleep = s
        /\ r.waited = w + WEBHOOK_TIMEOUT_S
        /\ r \in Leg
      BY <1>1, <1>2, <2>3, <2>5 DEF Leg
  <2> HIDE DEF r
  <2>7. LegOK(r)
      BY <1>3, <2>1, <2>4, <2>6 DEF LegOK
  <2> QED BY <2>2, <2>7 DEF r
<1>4. ASSUME l.at = "sleeping"
      PROVE  LegOK([l EXCEPT !.at = "posting", !.attempt = n + 1,
                             !.sleep = 0, !.waited = w + sleep])
  <2>1. /\ n # 0 /\ n # WEBHOOK_RETRY_ATTEMPTS
        /\ sleep \in 0..WEBHOOK_RETRY_AFTER_CAP_S
        /\ w + WEBHOOK_RETRY_AFTER_CAP_S <= Tries(n)
        /\ ~l.ok
      BY <1>2, <1>4 DEF LegOK
  <2>2. n \in Nat \ {0} /\ n + 1 \in 0..WEBHOOK_RETRY_ATTEMPTS
      BY <2>1, NotifiersAssumption
  <2>3. w + sleep \in Nat /\ w + sleep <= Tries((n + 1) - 1)
    <3>1. (n + 1) - 1 = n /\ Tries(n) \in Nat
        BY <2>2, OneMoreAttempt
    <3> QED BY <2>1, <3>1, NotifiersAssumption
  <2> DEFINE r == [l EXCEPT !.at = "posting", !.attempt = n + 1, !.sleep = 0,
                            !.waited = w + sleep]
  <2>4. /\ r.at = "posting" /\ r.attempt = n + 1 /\ ~r.ok /\ r.sleep = 0
        /\ r.waited = w + sleep
        /\ r \in Leg
    <3>1. PICK m \in 0..WEBHOOK_RETRY_ATTEMPTS, v \in Nat : m = n + 1 /\ v = w + sleep
        BY <2>2, <2>3
    <3>2. 0 \in Int
        OBVIOUS
    <3> QED BY <1>1, <2>1, <3>1, <3>2 DEF Leg
  <2> HIDE DEF r
  <2>5. LegOK(r)
      BY <2>2, <2>3, <2>4 DEF LegOK
  <2> QED BY <2>5 DEF r
<1> QED BY <1>2, <1>3, <1>4

-----------------------------------------------------------------------------
(*                            What a send changes                          *)

\* The five steps of a send seen from outside: it writes one leg, l.
SendEffect(k, c, l) ==
    /\ LegOK(l)
    /\ leg[k][c].at \in {"queued", "posting", "sleeping"}
    /\ l.at # "none"
    /\ leg' = [leg EXCEPT ![k][c] = l]
    /\ \/ accepted' = accepted
       \/ accepted' = [accepted EXCEPT ![k] = @ \union {c}]
    /\ l.ok => c \in accepted'[k]
    /\ l.attempt = 0 => failures[c] >= CIRCUIT_BREAK_AFTER
    /\ leg[k][c].attempt = 0 /\ l.attempt # 0 => ~(failures[c] >= CIRCUIT_BREAK_AFTER)
    /\ UNCHANGED <<failures, dispatches, call, lost, lostBefore>>

\* Every step of a send does that: it posts for the first time only if the
\* breaker is closed, and says True only of what the channel accepted.
LEMMA SendDoes ==
    ASSUME TypeInv, NEW k \in Coroutine, NEW c \in Configured, Send(k, c)
    PROVE  \E l : SendEffect(k, c, l)
<1>1. LegOK(leg[k][c]) /\ leg \in [Coroutine -> [Configured -> Leg]]
    BY DEF TypeInv, LegsOK, TypeOK
<1>2. accepted \in [Coroutine -> SUBSET Configured]
    BY DEF TypeInv, TypeOK
<1>3. CASE Deliver(k, c)
  <2>1. CASE CircuitIsOpen(c)
    <3>1. Skipped.attempt = 0 /\ Skipped.at = "done" /\ ~Skipped.ok /\ LegOK(Skipped)
        BY FreshLegs DEF Skipped, LegAt
    <3>2. SendEffect(k, c, Skipped)
        BY <1>3, <2>1, <3>1 DEF Deliver, SendEffect, CircuitIsOpen
    <3> QED BY <3>2
  <2>2. CASE ~CircuitIsOpen(c)
    <3> DEFINE l == [LegAt("posting") EXCEPT !.attempt = 1]
    <3>1. l.attempt = 1 /\ l.at = "posting"
        BY DEF LegAt
    <3>2. LegOK(l)
        BY FreshLegs
    <3> HIDE DEF l
    <3>3. ~l.ok
        BY <3>1, <3>2 DEF LegOK
    <3>4. leg' = [leg EXCEPT ![k][c] = l]
        BY <1>3, <2>2 DEF Deliver, l
    <3>5. /\ leg[k][c].at = "queued"
          /\ accepted' = accepted
          /\ UNCHANGED <<failures, dispatches, call, lost, lostBefore>>
        BY <1>3 DEF Deliver
    <3>6. ~(failures[c] >= CIRCUIT_BREAK_AFTER)
        BY <2>2 DEF CircuitIsOpen
    <3>7. SendEffect(k, c, l)
        BY <3>1, <3>2, <3>3, <3>4, <3>5, <3>6 DEF SendEffect
    <3> QED BY <3>7
  <2> QED BY <2>1, <2>2
<1>4. ASSUME NEW d \in BOOLEAN
      PROVE  \E l : /\ l = Ended(d) /\ l.attempt # 0 /\ l.at = "done" /\ LegOK(l)
                    /\ l.ok = d
  <2>1. LegOK(Ended(d))
      BY FreshLegs
  <2>2. Ended(d).attempt # 0 /\ Ended(d).at = "done"
      BY DEF Ended, LegAt
  <2>3. Ended(d).ok = d
      BY Zenon DEF Ended, LegAt
  <2> QED BY <2>1, <2>2, <2>3, Zenon
<1>5. CASE Accept(k, c)
  <2>1. PICK l : l = Ended(TRUE) /\ l.attempt # 0 /\ l.at = "done" /\ LegOK(l)
      BY <1>4
  <2>2. leg[k][c].attempt # 0 /\ leg[k][c].at = "posting"
      BY <1>1, <1>5 DEF Accept, Posting, LegOK
  <2>3. c \in accepted'[k]
      BY <1>2, <1>5 DEF Accept
  <2>4. /\ leg' = [leg EXCEPT ![k][c] = l]
        /\ accepted' = [accepted EXCEPT ![k] = @ \union {c}]
        /\ UNCHANGED <<failures, dispatches, call, lost, lostBefore>>
      BY <1>5, <2>1 DEF Accept
  <2>5. SendEffect(k, c, l)
    <3>1. l.attempt # 0 /\ l.at # "none" /\ LegOK(l)
        BY <2>1
    <3> QED BY <2>2, <2>3, <2>4, <3>1 DEF SendEffect
  <2> QED BY <2>5
<1>6. PICK e : /\ e = Ended(FALSE) /\ e.attempt # 0 /\ e.at = "done" /\ LegOK(e)
               /\ ~e.ok
    BY <1>4
<1>7. e.attempt # 0 /\ e.at # "none" /\ LegOK(e) /\ ~e.ok
    BY <1>6
<1>8. CASE Abandon(k, c)
  <2>1. leg[k][c].attempt # 0 /\ leg[k][c].at = "posting"
      BY <1>1, <1>8 DEF Abandon, Posting, LegOK
  <2>2. /\ leg' = [leg EXCEPT ![k][c] = e]
        /\ accepted' = accepted
        /\ UNCHANGED <<failures, dispatches, call, lost, lostBefore>>
      BY <1>6, <1>8 DEF Abandon
  <2>3. SendEffect(k, c, e)
      BY <1>7, <2>1, <2>2 DEF SendEffect
  <2> QED BY <2>3
<1>9. CASE TryAgain(k, c)
  <2> DEFINE now == leg[k][c]
  <2>1. leg[k][c].at = "posting" /\ leg[k][c].attempt # 0
      BY <1>1, <1>9 DEF TryAgain, Posting, LegOK
  <2>2. /\ accepted' = accepted \/ accepted' = [accepted EXCEPT ![k] = @ \union {c}]
        /\ UNCHANGED <<failures, dispatches, call, lost, lostBefore>>
      BY <1>9 DEF TryAgain
  <2>3. CASE leg' = [leg EXCEPT ![k][c] = Ended(FALSE)]
    <3>1. leg' = [leg EXCEPT ![k][c] = e]
        BY <1>6, <2>3
    <3>2. SendEffect(k, c, e)
        BY <1>7, <2>1, <2>2, <3>1 DEF SendEffect
    <3> QED BY <3>2
  <2>4. CASE now.attempt # WEBHOOK_RETRY_ATTEMPTS
             /\ \E header \in RetryAfter \union {NoHeader, NaN} :
                   leg' = [leg EXCEPT ![k][c] =
                             [now EXCEPT !.at = "sleeping",
                                         !.sleep = SleepFor(now.attempt, header),
                                         !.waited = @ + WEBHOOK_TIMEOUT_S]]
    <3>1. PICK header \in RetryAfter \union {NoHeader, NaN} :
              leg' = [leg EXCEPT ![k][c] =
                        [now EXCEPT !.at = "sleeping",
                                    !.sleep = SleepFor(now.attempt, header),
                                    !.waited = @ + WEBHOOK_TIMEOUT_S]]
        BY <2>4
    <3>2. header \in Int
        BY NotifiersAssumption DEF NoHeader, NaN
    <3> DEFINE l == [now EXCEPT !.at = "sleeping",
                                !.sleep = SleepFor(now.attempt, header),
                                !.waited = @ + WEBHOOK_TIMEOUT_S]
    <3>3. LegOK(l)
        BY <1>1, <2>1, <2>4, <3>2, SendGoesOn
    <3>4. l.at = "sleeping" /\ l.attempt = now.attempt
        BY <1>1 DEF LegOK, Leg
    <3>5. leg' = [leg EXCEPT ![k][c] = l]
        BY <3>1
    <3> HIDE DEF l
    <3>6. ~l.ok
        BY <3>3, <3>4 DEF LegOK
    <3>7. SendEffect(k, c, l)
        BY <2>1, <2>2, <3>3, <3>4, <3>5, <3>6 DEF SendEffect
    <3> QED BY <3>7
  <2> QED BY <1>9, <2>3, <2>4 DEF TryAgain, IsLastAttempt
<1>10. CASE Wake(k, c)
  <2> DEFINE now == leg[k][c]
             l == [now EXCEPT !.at = "posting", !.attempt = @ + 1, !.sleep = 0,
                              !.waited = @ + now.sleep]
  <2>1. now.at = "sleeping" /\ now.attempt \in Nat \ {0} /\ now \in Leg
      BY <1>1, <1>10, NotifiersAssumption DEF Wake, LegOK, Leg
  <2>2. LegOK(l)
      BY <1>1, <2>1, SendGoesOn
  <2>3. l.at = "posting" /\ l.attempt = now.attempt + 1
      BY <2>1 DEF Leg
  <2>4. leg' = [leg EXCEPT ![k][c] = l]
      BY <1>10 DEF Wake
  <2> HIDE DEF l
  <2>5. ~l.ok /\ l.attempt # 0
      BY <2>1, <2>2, <2>3 DEF LegOK
  <2>6. accepted' = accepted /\ UNCHANGED <<failures, dispatches, call, lost, lostBefore>>
      BY <1>10 DEF Wake
  <2>7. SendEffect(k, c, l)
      BY <2>1, <2>2, <2>3, <2>4, <2>5, <2>6 DEF SendEffect
  <2> QED BY <2>7
<1> QED BY <1>3, <1>5, <1>8, <1>9, <1>10 DEF Send

\* It leaves the other legs alone.
LEMMA OneLegWritten ==
    ASSUME TypeInv, NEW k \in Coroutine, NEW c \in Configured,
           NEW l, SendEffect(k, c, l)
    PROVE  /\ l \in Leg
           /\ leg' \in [Coroutine -> [Configured -> Leg]]
           /\ \A j \in Coroutine, d \in Configured :
                 leg'[j][d] = IF j = k /\ d = c THEN l ELSE leg[j][d]
<1>1. l \in Leg
    BY DEF SendEffect, LegOK
<1> QED BY <1>1 DEF TypeInv, TypeOK, SendEffect


-----------------------------------------------------------------------------
(*                          Types, and the time of a send                  *)

\* A leg that carries no attempt is over or has not begun.
LEMMA EmptyLegs ==
    \A at \in {"none", "queued"} :
        LegOK(LegAt(at)) /\ ~LegAt(at).ok /\ LegAt(at).attempt = 0
<1>1. \A at \in {"none", "queued"} : LegOK(LegAt(at))
    BY FreshLegs
<1>2. \A at \in {"none", "queued"} : ~LegAt(at).ok /\ LegAt(at).attempt = 0
    BY DEF LegAt
<1> QED BY <1>1, <1>2

\* TypeInv is inductive.
LEMMA TypeInductive ==
    /\ Init => TypeInv
    /\ TypeInv /\ [Next]_vars => TypeInv'
<1>1. ASSUME Init
      PROVE  TypeInv
  <2>1. \A k \in Coroutine, c \in Configured : leg[k][c] = LegAt("none")
      BY <1>1 DEF Init, Idle
  <2>2. LegsOK
      BY <2>1, EmptyLegs DEF LegsOK
  <2>3. LegAt("none") \in Leg
      BY EmptyLegs DEF LegOK
  <2>4. TypeOK
      BY <1>1, <2>3, NotifiersAssumption DEF Init, Idle, TypeOK
  <2> QED BY <2>2, <2>4 DEF TypeInv
<1>2. ASSUME TypeInv, [Next]_vars
      PROVE  TypeInv'
  <2> USE <1>2
  <2>1. CASE NewRun
    <3>1. LegAt("none") \in Leg
        BY EmptyLegs DEF LegOK
    <3>2. TypeOK'
        BY <2>1, <3>1, NotifiersAssumption DEF NewRun, Idle, TypeInv, TypeOK
    <3>3. \A k \in Coroutine, c \in Configured : leg'[k][c] = LegAt("none")
        BY <2>1 DEF NewRun, Idle
    <3>4. LegsOK'
        BY <3>3, EmptyLegs DEF LegsOK
    <3> QED BY <3>2, <3>4 DEF TypeInv
  <2>2. ASSUME NEW k \in Coroutine, DispatchAlert(k)
        PROVE  TypeInv'
    <3>1. LegAt("queued") \in Leg
        BY EmptyLegs DEF LegOK
    <3>2. TypeOK'
        BY <2>2, <3>1, NotifiersAssumption DEF DispatchAlert, TypeInv, TypeOK
    <3>3. \A j \in Coroutine, c \in Configured :
              leg'[j][c] = IF j = k THEN LegAt("queued") ELSE leg[j][c]
        BY <2>2 DEF DispatchAlert, TypeInv, TypeOK
    <3>4. LegsOK'
        BY <3>3, EmptyLegs DEF LegsOK, TypeInv
    <3> QED BY <3>2, <3>4 DEF TypeInv
  <2>3. ASSUME NEW k \in Coroutine, Return(k)
        PROVE  TypeInv'
    <3>1. LegAt("none") \in Leg
        BY EmptyLegs DEF LegOK
    <3>2. /\ failures' \in [Configured -> Nat]
          /\ lost' \in [Configured -> Nat]
          /\ lostBefore' \in [Configured -> Nat]
        BY <2>3 DEF Return, Recorded, TypeInv, TypeOK
    <3>3. TypeOK'
        BY <2>3, <3>1, <3>2 DEF Return, TypeInv, TypeOK
    <3>4. \A j \in Coroutine, c \in Configured :
              leg'[j][c] = IF j = k THEN LegAt("none") ELSE leg[j][c]
        BY <2>3 DEF Return, TypeInv, TypeOK
    <3>5. LegsOK'
        BY <3>4, EmptyLegs DEF LegsOK, TypeInv
    <3> QED BY <3>3, <3>5 DEF TypeInv
  <2>4. ASSUME NEW k \in Coroutine, NEW c \in Configured, Send(k, c)
        PROVE  TypeInv'
    <3>1. PICK l : SendEffect(k, c, l)
        BY <2>4, SendDoes
    <3>2. /\ leg' \in [Coroutine -> [Configured -> Leg]]
          /\ \A j \in Coroutine, d \in Configured :
                leg'[j][d] = IF j = k /\ d = c THEN l ELSE leg[j][d]
        BY <3>1, OneLegWritten
    <3>3. accepted' \in [Coroutine -> SUBSET Configured]
        BY <3>1 DEF SendEffect, TypeInv, TypeOK
    <3>4. TypeOK'
        BY <3>1, <3>2, <3>3 DEF SendEffect, TypeInv, TypeOK
    <3>5. LegsOK'
        BY <3>1, <3>2 DEF SendEffect, LegsOK, TypeInv
    <3> QED BY <3>4, <3>5 DEF TypeInv
  <2>5. CASE UNCHANGED vars
      BY <2>5 DEF vars, TypeInv, TypeOK, LegsOK
  <2> QED BY <2>1, <2>2, <2>3, <2>4, <2>5 DEF Next
<1> QED BY <1>1, <1>2

\* The state of the breaker, the dispatches and the sends stays well-formed in
\* every run, whatever the channels answer.
THEOREM TypeCorrect == Spec => []TypeOK
<1>1. Spec => []TypeInv
    BY TypeInductive, PTL DEF Spec
<1>2. TypeInv => TypeOK
    BY DEF TypeInv
<1> QED BY <1>1, <1>2, PTL

\* One send takes at most (WEBHOOK_RETRY_ATTEMPTS - 1) timeouts and capped
\* sleeps before its last attempt, whatever Retry-After says and whatever the
\* backoff base (the cap, the finiteness test, the last attempt of Notifier.send
\* that does not sleep).
THEOREM SendTimeCorrect == Spec => []SendTimeBounded
<1>1. ASSUME TypeInv, NEW k \in Coroutine, NEW c \in Configured
      PROVE  leg[k][c].waited + leg[k][c].sleep
                 <= (WEBHOOK_RETRY_ATTEMPTS - 1)
                       * (WEBHOOK_TIMEOUT_S + WEBHOOK_RETRY_AFTER_CAP_S)
  <2>1. PICK l : l = leg[k][c] /\ LegOK(l)
      BY <1>1 DEF TypeInv, LegsOK
  <2>2. PICK n \in 0..WEBHOOK_RETRY_ATTEMPTS, w \in Nat :
            n = l.attempt /\ w = l.waited
      BY <2>1 DEF LegOK, Leg
  <2>3. WEBHOOK_RETRY_ATTEMPTS \in Nat \ {0} /\ Try \in Nat
      BY NotifiersAssumption DEF Try
  <2> DEFINE last == WEBHOOK_RETRY_ATTEMPTS - 1
  <2>4. last \in Nat
      BY <2>3
  <2>5. Tries(last) \in Nat
      BY <2>4, OneMoreAttempt
  <2>6. \A m \in Nat : m <= last => Tries(m) <= Tries(last)
      BY <2>3, <2>4, FewerAttempts DEF Tries
  <2>7. l.at \in {"none", "queued", "posting", "sleeping", "done"}
      BY <2>1 DEF LegOK, Leg
  <2> HIDE DEF last
  <2>8. l.at \in {"none", "queued", "done"} => w = 0 /\ l.sleep = 0
      BY <2>1, <2>2 DEF LegOK
  <2>9. l.at = "posting" => n # 0 /\ l.sleep = 0 /\ w <= Tries(n - 1)
      BY <2>1, <2>2 DEF LegOK
  <2>10. l.at = "sleeping" =>
            /\ n # 0 /\ n # WEBHOOK_RETRY_ATTEMPTS
            /\ l.sleep \in 0..WEBHOOK_RETRY_AFTER_CAP_S
            /\ w + WEBHOOK_RETRY_AFTER_CAP_S <= Tries(n)
      BY <2>1, <2>2 DEF LegOK
  <2>11. w + l.sleep <= Tries(last)
    <3>1. CASE l.at \in {"none", "queued", "done"}
        BY <2>5, <2>8, <3>1
    <3>2. CASE l.at = "posting"
      <4>1. n - 1 \in Nat /\ n - 1 <= last
          BY <2>3, <2>9, <3>2 DEF last
      <4>2. Tries(n - 1) <= Tries(last) /\ Tries(n - 1) \in Nat
          BY <2>6, <4>1, OneMoreAttempt
      <4> QED BY <2>5, <2>9, <3>2, <4>2
    <3>3. CASE l.at = "sleeping"
      <4>1. n \in Nat /\ n <= last
          BY <2>3, <2>10, <3>3 DEF last
      <4>2. Tries(n) <= Tries(last) /\ Tries(n) \in Nat
          BY <2>6, <4>1, OneMoreAttempt
      <4> QED BY <2>5, <2>10, <3>3, <4>2, NotifiersAssumption
    <3> QED BY <2>7, <3>1, <3>2, <3>3
  <2> QED BY <2>1, <2>2, <2>11 DEF Tries, Try, last
<1>2. TypeInv => SendTimeBounded
    BY <1>1 DEF SendTimeBounded
<1>3. Spec => []TypeInv
    BY TypeInductive, PTL DEF Spec
<1> QED BY <1>2, <1>3, PTL


-----------------------------------------------------------------------------
(*                               The breaker                               *)

\* The breaker's count stays behind the messages the channel lost, until the
\* channel has lost CIRCUIT_BREAK_AFTER of them: beyond that a skipped send,
\* which only happens there, may count again.
CountEarned ==
    \A c \in Configured :
        failures[c] <= lost[c] \/ lost[c] >= CIRCUIT_BREAK_AFTER

\* A send that ended with nothing posted found the breaker open.
SkipsEarned ==
    \A k \in Coroutine, c \in Configured :
        leg[k][c].at = "done" /\ leg[k][c].attempt = 0
            => lost[c] >= CIRCUIT_BREAK_AFTER

BreakerInv == TypeInv /\ CountEarned /\ SkipsEarned

\* BreakerInv is inductive.
LEMMA BreakerInductive ==
    /\ Init => BreakerInv
    /\ BreakerInv /\ [Next]_vars => BreakerInv'
<1>1. ASSUME Init
      PROVE  BreakerInv
  <2>1. CountEarned
      BY <1>1 DEF Init, CountEarned
  <2>2. SkipsEarned
      BY <1>1 DEF Init, Idle, LegAt, SkipsEarned
  <2> QED BY <1>1, <2>1, <2>2, TypeInductive DEF BreakerInv
<1>2. ASSUME BreakerInv, [Next]_vars
      PROVE  BreakerInv'
  <2> USE <1>2
  <2>1. TypeInv /\ TypeInv'
      BY TypeInductive DEF BreakerInv
  <2>2. CASE NewRun
    <3>1. CountEarned'
        BY <2>2 DEF NewRun, CountEarned
    <3>2. SkipsEarned'
        BY <2>2 DEF NewRun, Idle, LegAt, SkipsEarned
    <3> QED BY <2>1, <3>1, <3>2 DEF BreakerInv
  <2>3. ASSUME NEW k \in Coroutine, DispatchAlert(k)
        PROVE  BreakerInv'
    <3>1. CountEarned'
        BY <2>3 DEF DispatchAlert, BreakerInv, CountEarned
    <3>2. \A j \in Coroutine, c \in Configured :
              leg'[j][c] = IF j = k THEN LegAt("queued") ELSE leg[j][c]
        BY <2>1, <2>3 DEF DispatchAlert, TypeInv, TypeOK
    <3>3. LegAt("queued").at = "queued"
        BY DEF LegAt
    <3>4. SkipsEarned'
        BY <2>3, <3>2, <3>3 DEF DispatchAlert, BreakerInv, SkipsEarned
    <3> QED BY <2>1, <3>1, <3>4 DEF BreakerInv
  <2>4. ASSUME NEW k \in Coroutine, Return(k)
        PROVE  BreakerInv'
    <3>1. \A c \in Configured : lost[c] \in Nat /\ lost'[c] \in Nat /\ failures[c] \in Nat
        BY <2>1 DEF TypeInv, TypeOK
    <3>2. \A c \in Configured : lost'[c] = lost[c] \/ lost'[c] = lost[c] + 1
        BY <2>4, <3>1 DEF Return
    <3>3. ASSUME NEW c \in Configured
          PROVE  failures'[c] <= lost'[c] \/ lost'[c] >= CIRCUIT_BREAK_AFTER
      <4>1. CASE leg[k][c].ok
          BY <2>4, <3>1, <4>1 DEF Return, Recorded
      <4>2. CASE ~leg[k][c].ok /\ leg[k][c].attempt = 0
        <5>1. leg[k][c].at = "done"
            BY <2>4 DEF Return
        <5>2. lost[c] >= CIRCUIT_BREAK_AFTER
            BY <4>2, <5>1 DEF BreakerInv, SkipsEarned
        <5> QED BY <3>1, <3>2, <5>2, NotifiersAssumption
      <4>3. CASE ~leg[k][c].ok /\ leg[k][c].attempt # 0
        <5>1. failures'[c] = failures[c] + 1 /\ lost'[c] = lost[c] + 1
            BY <2>4, <4>3 DEF Return, Recorded
        <5>2. failures[c] <= lost[c] \/ lost[c] >= CIRCUIT_BREAK_AFTER
            BY DEF BreakerInv, CountEarned
        <5> QED BY <3>1, <5>1, <5>2, NotifiersAssumption
      <4> QED BY <4>1, <4>2, <4>3
    <3>4. \A j \in Coroutine, c \in Configured :
              leg'[j][c] = IF j = k THEN LegAt("none") ELSE leg[j][c]
        BY <2>1, <2>4 DEF Return, TypeInv, TypeOK
    <3>5. LegAt("none").at = "none"
        BY DEF LegAt
    <3>6. \A c \in Configured :
              lost[c] >= CIRCUIT_BREAK_AFTER => lost'[c] >= CIRCUIT_BREAK_AFTER
        BY <3>1, <3>2, NotifiersAssumption
    <3>7. SkipsEarned'
        BY <3>4, <3>5, <3>6 DEF BreakerInv, SkipsEarned
    <3> QED BY <2>1, <3>3, <3>7 DEF BreakerInv, CountEarned
  <2>5. ASSUME NEW k \in Coroutine, NEW c \in Configured, Send(k, c)
        PROVE  BreakerInv'
    <3>1. PICK l : SendEffect(k, c, l)
        BY <2>1, <2>5, SendDoes
    <3>2. \A j \in Coroutine, d \in Configured :
              leg'[j][d] = IF j = k /\ d = c THEN l ELSE leg[j][d]
        BY <2>1, <3>1, OneLegWritten
    <3>3. UNCHANGED <<failures, lost>>
        BY <3>1 DEF SendEffect
    <3>4. CountEarned'
        BY <3>3 DEF BreakerInv, CountEarned
    <3>5. l.attempt = 0 => lost[c] >= CIRCUIT_BREAK_AFTER
      <4>1. l.attempt = 0 => failures[c] >= CIRCUIT_BREAK_AFTER
          BY <3>1 DEF SendEffect
      <4>2. failures[c] <= lost[c] \/ lost[c] >= CIRCUIT_BREAK_AFTER
          BY DEF BreakerInv, CountEarned
      <4>3. failures[c] \in Nat /\ lost[c] \in Nat
          BY <2>1 DEF TypeInv, TypeOK
      <4> QED BY <4>1, <4>2, <4>3, NotifiersAssumption
    <3>6. SkipsEarned'
        BY <3>2, <3>3, <3>5 DEF BreakerInv, SkipsEarned
    <3> QED BY <2>1, <3>4, <3>6 DEF BreakerInv
  <2>6. CASE UNCHANGED vars
      BY <2>1, <2>6 DEF vars, BreakerInv, CountEarned, SkipsEarned
  <2> QED BY <2>2, <2>3, <2>4, <2>5, <2>6 DEF Next
<1> QED BY <1>1, <1>2

\* In every run, with any number of channels and concurrent dispatches, the
\* breaker of a channel is open only if that channel itself lost
\* CIRCUIT_BREAK_AFTER messages it was given (_record_circuit, _circuit_is_open).
THEOREM WorkingChannelCorrect == Spec => []WorkingChannelKept
<1>1. Spec => []BreakerInv
    BY BreakerInductive, PTL DEF Spec
<1>2. ASSUME BreakerInv, NEW c \in Configured
      PROVE  CircuitIsOpen(c) => lost[c] >= CIRCUIT_BREAK_AFTER
  <2>1. failures[c] \in Nat /\ lost[c] \in Nat
      BY <1>2 DEF BreakerInv, TypeInv, TypeOK
  <2>2. failures[c] <= lost[c] \/ lost[c] >= CIRCUIT_BREAK_AFTER
      BY <1>2 DEF BreakerInv, CountEarned
  <2> QED BY <2>1, <2>2, NotifiersAssumption DEF CircuitIsOpen
<1>3. BreakerInv => WorkingChannelKept
    BY <1>2 DEF WorkingChannelKept
<1> QED BY <1>1, <1>3, PTL

-----------------------------------------------------------------------------
(*                        What a dead channel costs                        *)

\* No loss since the last delivery is missing from the count.
LossesCounted ==
    \A c \in Configured : lost[c] - lostBefore[c] <= failures[c]

CostInv == TypeInv /\ LossesCounted /\ DeadChannelBounded

\* Coroutines that are posting are coroutines: how many of them there can be.
LEMMA Few ==
    ASSUME NEW S, NEW T, S \subseteq T, T \subseteq Coroutine
    PROVE  /\ Cardinality(S) \in Nat /\ Cardinality(T) \in Nat
           /\ Cardinality(S) <= Cardinality(T)
           /\ Cardinality(T) <= Cardinality(Coroutine)
           /\ Cardinality(Coroutine) \in Nat
           /\ \A k \in S : Cardinality(S \ {k}) = Cardinality(S) - 1
<1>1. IsFiniteSet(Coroutine)
    BY NotifiersAssumption
<1>2. IsFiniteSet(T) /\ IsFiniteSet(S)
    BY <1>1, FS_Subset
<1> QED BY <1>1, <1>2, FS_Subset, FS_CardinalityType, FS_RemoveElement

\* CostInv is inductive.
LEMMA CostInductive ==
    /\ Init => CostInv
    /\ CostInv /\ [Next]_vars => CostInv'
<1>1. ASSUME \A k \in Coroutine, c \in Configured : leg[k][c].attempt = 0,
             \A c \in Configured : lost[c] = 0 /\ lostBefore[c] = 0 /\ failures[c] = 0
      PROVE  LossesCounted /\ DeadChannelBounded
  <2>1. \A c \in Configured : InFlight(c) = {}
      BY <1>1 DEF InFlight
  <2>2. Cardinality({}) = 0 /\ Cardinality(Coroutine) \in Nat
      BY FS_EmptySet, Few
  <2>3. LossesCounted
      BY <1>1 DEF LossesCounted
  <2>4. ASSUME NEW c \in Configured
        PROVE  lost[c] - lostBefore[c] + Cardinality(InFlight(c))
                   <= CIRCUIT_BREAK_AFTER - 1 + Cardinality(Coroutine)
    <3>1. Cardinality(InFlight(c)) = 0 /\ lost[c] = 0 /\ lostBefore[c] = 0
        BY <1>1, <2>1, <2>2
    <3> QED BY <2>2, <3>1, NotifiersAssumption
  <2>5. DeadChannelBounded
      BY <2>4 DEF DeadChannelBounded
  <2> QED BY <2>3, <2>5
<1>2. ASSUME Init
      PROVE  CostInv
  <2>1. \A k \in Coroutine, c \in Configured : leg[k][c].attempt = 0
      BY <1>2 DEF Init, Idle, LegAt
  <2>2. \A c \in Configured : lost[c] = 0 /\ lostBefore[c] = 0 /\ failures[c] = 0
      BY <1>2 DEF Init
  <2> QED BY <1>1, <1>2, <2>1, <2>2, TypeInductive DEF CostInv
<1>3. ASSUME CostInv, [Next]_vars
      PROVE  CostInv'
  <2> USE <1>3
  <2>1. TypeInv /\ TypeInv'
      BY TypeInductive DEF CostInv
  <2>2. \A c \in Configured :
            /\ lost[c] \in Nat /\ lostBefore[c] \in Nat /\ failures[c] \in Nat
            /\ lost'[c] \in Nat /\ lostBefore'[c] \in Nat
      BY <2>1 DEF TypeInv, TypeOK
  <2>3. CASE NewRun
    <3>1. \A k \in Coroutine, c \in Configured : leg'[k][c].attempt = 0
        BY <2>3 DEF NewRun, Idle, LegAt
    <3>2. \A c \in Configured : InFlight(c)' = {}
        BY <3>1 DEF InFlight
    <3>3. \A c \in Configured :
              lost'[c] = 0 /\ lostBefore'[c] = 0 /\ failures'[c] = 0
        BY <2>3 DEF NewRun
    <3>4. LossesCounted'
        BY <3>3 DEF LossesCounted
    <3>5. Cardinality({}) = 0 /\ Cardinality(Coroutine) \in Nat
        BY FS_EmptySet, Few
    <3>6. ASSUME NEW c \in Configured
          PROVE  lost'[c] - lostBefore'[c] + Cardinality(InFlight(c)')
                     <= CIRCUIT_BREAK_AFTER - 1 + Cardinality(Coroutine)
      <4>1. Cardinality(InFlight(c)') = 0 /\ lost'[c] = 0 /\ lostBefore'[c] = 0
          BY <3>2, <3>3, <3>5
      <4> QED BY <3>5, <4>1, NotifiersAssumption
    <3>7. DeadChannelBounded'
        BY <3>6 DEF DeadChannelBounded
    <3> QED BY <2>1, <3>4, <3>7 DEF CostInv
  <2>4. ASSUME NEW k \in Coroutine, DispatchAlert(k)
        PROVE  CostInv'
    <3>1. UNCHANGED <<failures, lost, lostBefore>>
        BY <2>4 DEF DispatchAlert
    <3>2. \A j \in Coroutine, c \in Configured :
              leg'[j][c] = IF j = k THEN LegAt("queued") ELSE leg[j][c]
        BY <2>1, <2>4 DEF DispatchAlert, TypeInv, TypeOK
    <3>3. ASSUME NEW c \in Configured
          PROVE  lost'[c] - lostBefore'[c] + Cardinality(InFlight(c)')
                     <= CIRCUIT_BREAK_AFTER - 1 + Cardinality(Coroutine)
      <4>1. InFlight(c)' \subseteq InFlight(c) /\ InFlight(c) \subseteq Coroutine
          BY <3>2, EmptyLegs DEF InFlight
      <4>2. /\ Cardinality(InFlight(c)') <= Cardinality(InFlight(c))
            /\ Cardinality(InFlight(c)') \in Nat
            /\ Cardinality(InFlight(c)) \in Nat
            /\ Cardinality(Coroutine) \in Nat
          BY <4>1, Few
      <4>3. lost[c] - lostBefore[c] + Cardinality(InFlight(c))
                <= CIRCUIT_BREAK_AFTER - 1 + Cardinality(Coroutine)
          BY DEF CostInv, DeadChannelBounded
      <4> QED BY <2>2, <3>1, <4>2, <4>3, NotifiersAssumption
    <3>4. DeadChannelBounded'
        BY <3>3 DEF DeadChannelBounded
    <3>5. LossesCounted'
        BY <3>1 DEF CostInv, LossesCounted
    <3> QED BY <2>1, <3>4, <3>5 DEF CostInv
  <2>5. ASSUME NEW k \in Coroutine, Return(k)
        PROVE  CostInv'
    <3>1. \A j \in Coroutine, c \in Configured :
              leg'[j][c] = IF j = k THEN LegAt("none") ELSE leg[j][c]
        BY <2>1, <2>5 DEF Return, TypeInv, TypeOK
    <3>2. ASSUME NEW c \in Configured
          PROVE  /\ lost'[c] - lostBefore'[c] <= failures'[c]
                 /\ lost'[c] - lostBefore'[c] + Cardinality(InFlight(c)')
                        <= CIRCUIT_BREAK_AFTER - 1 + Cardinality(Coroutine)
      <4>1. InFlight(c)' = InFlight(c) \ {k} /\ InFlight(c) \subseteq Coroutine
          BY <3>1, EmptyLegs DEF InFlight
      <4>2. /\ Cardinality(InFlight(c)') <= Cardinality(InFlight(c))
            /\ Cardinality(InFlight(c)') <= Cardinality(Coroutine)
            /\ Cardinality(InFlight(c)') \in Nat
            /\ Cardinality(InFlight(c)) \in Nat
            /\ Cardinality(Coroutine) \in Nat
            /\ k \in InFlight(c) =>
                  Cardinality(InFlight(c)') = Cardinality(InFlight(c)) - 1
        <5>1. InFlight(c)' \subseteq InFlight(c) /\ InFlight(c)' \subseteq Coroutine
            BY <4>1
        <5>2. k \in InFlight(c) =>
                  Cardinality(InFlight(c) \ {k}) = Cardinality(InFlight(c)) - 1
            BY <4>1, Few
        <5>3. /\ Cardinality(InFlight(c)') <= Cardinality(InFlight(c))
              /\ Cardinality(InFlight(c)) <= Cardinality(Coroutine)
              /\ Cardinality(InFlight(c)') \in Nat
              /\ Cardinality(InFlight(c)) \in Nat
              /\ Cardinality(Coroutine) \in Nat
            BY <4>1, <5>1, Few
        <5> QED BY <4>1, <5>2, <5>3
      <4>3. /\ lost[c] - lostBefore[c] + Cardinality(InFlight(c))
                   <= CIRCUIT_BREAK_AFTER - 1 + Cardinality(Coroutine)
            /\ lost[c] - lostBefore[c] <= failures[c]
          BY DEF CostInv, DeadChannelBounded, LossesCounted
      <4>4. CASE leg[k][c].ok
        <5>1. failures'[c] = 0 /\ lost'[c] = lost[c] /\ lostBefore'[c] = lost[c]
            BY <2>5, <4>4 DEF Return, Recorded
        <5> QED BY <2>2, <4>2, <5>1, NotifiersAssumption
      <4>5. CASE ~leg[k][c].ok /\ leg[k][c].attempt = 0
        <5>1. /\ failures'[c] = failures[c] + 1
              /\ lost'[c] = lost[c] /\ lostBefore'[c] = lostBefore[c]
            BY <2>5, <4>5 DEF Return, Recorded
        <5> QED BY <2>2, <4>2, <4>3, <5>1, NotifiersAssumption
      <4>6. CASE ~leg[k][c].ok /\ leg[k][c].attempt # 0
        <5>1. /\ failures'[c] = failures[c] + 1
              /\ lost'[c] = lost[c] + 1 /\ lostBefore'[c] = lostBefore[c]
            BY <2>5, <4>6 DEF Return, Recorded
        <5>2. k \in InFlight(c)
            BY <4>6 DEF InFlight
        <5> QED BY <2>2, <4>2, <4>3, <5>1, <5>2, NotifiersAssumption
      <4> QED BY <4>4, <4>5, <4>6
    <3>3. LossesCounted' /\ DeadChannelBounded'
        BY <3>2 DEF LossesCounted, DeadChannelBounded
    <3> QED BY <2>1, <3>3 DEF CostInv
  <2>6. ASSUME NEW k \in Coroutine, NEW c \in Configured, Send(k, c)
        PROVE  CostInv'
    <3>1. PICK l : SendEffect(k, c, l)
        BY <2>1, <2>6, SendDoes
    <3>2. \A j \in Coroutine, d \in Configured :
              leg'[j][d] = IF j = k /\ d = c THEN l ELSE leg[j][d]
        BY <2>1, <3>1, OneLegWritten
    <3>3. UNCHANGED <<failures, lost, lostBefore>>
        BY <3>1 DEF SendEffect
    <3>4. ASSUME NEW d \in Configured
          PROVE  lost'[d] - lostBefore'[d] + Cardinality(InFlight(d)')
                     <= CIRCUIT_BREAK_AFTER - 1 + Cardinality(Coroutine)
      <4>1. InFlight(d) \subseteq Coroutine /\ InFlight(d)' \subseteq Coroutine
          BY DEF InFlight
      <4>2. /\ Cardinality(InFlight(d)') <= Cardinality(Coroutine)
            /\ Cardinality(InFlight(d)') \in Nat
            /\ Cardinality(InFlight(d)) \in Nat
            /\ Cardinality(Coroutine) \in Nat
          BY <4>1, Few
      <4>3. /\ lost[d] - lostBefore[d] + Cardinality(InFlight(d))
                   <= CIRCUIT_BREAK_AFTER - 1 + Cardinality(Coroutine)
            /\ lost[d] - lostBefore[d] <= failures[d]
          BY DEF CostInv, DeadChannelBounded, LossesCounted
      <4>4. CASE d = c /\ leg[k][c].attempt = 0 /\ l.attempt # 0
        <5>1. ~(failures[d] >= CIRCUIT_BREAK_AFTER)
            BY <3>1, <4>4 DEF SendEffect
        <5> QED BY <2>2, <3>3, <4>2, <4>3, <5>1, NotifiersAssumption
      <4>5. CASE ~(d = c /\ leg[k][c].attempt = 0 /\ l.attempt # 0)
        <5>1. InFlight(d)' \subseteq InFlight(d)
            BY <3>2, <4>5 DEF InFlight
        <5>2. Cardinality(InFlight(d)') <= Cardinality(InFlight(d))
            BY <4>1, <5>1, Few
        <5> QED BY <2>2, <3>3, <4>2, <4>3, <5>2, NotifiersAssumption
      <4> QED BY <4>4, <4>5
    <3>5. DeadChannelBounded'
        BY <3>4 DEF DeadChannelBounded
    <3>6. LossesCounted'
        BY <3>3 DEF CostInv, LossesCounted
    <3> QED BY <2>1, <3>5, <3>6 DEF CostInv
  <2>7. CASE UNCHANGED vars
    <3>1. \A c \in Configured : InFlight(c)' = InFlight(c)
        BY <2>7 DEF vars, InFlight
    <3> QED BY <2>1, <2>7, <3>1 DEF vars, CostInv, LossesCounted, DeadChannelBounded
  <2> QED BY <2>3, <2>4, <2>5, <2>6, <2>7 DEF Next
<1> QED BY <1>2, <1>3

\* However many coroutines alert however often, a channel that accepts nothing
\* is posted to at most CIRCUIT_BREAK_AFTER - 1 times plus once per coroutine
\* between two deliveries: the breaker is read when a send starts and written
\* when its dispatch ends, and that is all the race can cost.
THEOREM DeadChannelCorrect == Spec => []DeadChannelBounded
<1>1. Spec => []CostInv
    BY CostInductive, PTL DEF Spec
<1>2. CostInv => DeadChannelBounded
    BY DEF CostInv
<1> QED BY <1>1, <1>2, PTL


-----------------------------------------------------------------------------
(*                     Dispatches keep DispatchContract                    *)

\* The state DispatchContract's reached stands for.
Reached == {k \in Coroutine : accepted[k] # {}}

\* Sends run inside a dispatch, and say True only of what was accepted.
SendsHonest ==
    \A k \in Coroutine, c \in Configured :
        /\ leg[k][c].at # "none" => call[k] = "open"
        /\ leg[k][c].ok => c \in accepted[k]

ContractInv == TypeInv /\ SendsHonest

\* ContractInv is inductive.
LEMMA ContractInductive ==
    /\ Init => ContractInv
    /\ ContractInv /\ [Next]_vars => ContractInv'
<1>1. ASSUME Init
      PROVE  ContractInv
  <2>1. \A k \in Coroutine, c \in Configured : leg[k][c] = LegAt("none")
      BY <1>1 DEF Init, Idle
  <2>2. LegAt("none").at = "none" /\ ~LegAt("none").ok
      BY DEF LegAt
  <2>3. SendsHonest
      BY <2>1, <2>2 DEF SendsHonest
  <2> QED BY <1>1, <2>3, TypeInductive DEF ContractInv
<1>2. ASSUME ContractInv, [Next]_vars
      PROVE  ContractInv'
  <2> USE <1>2
  <2>1. TypeInv /\ TypeInv'
      BY TypeInductive DEF ContractInv
  <2>2. LegAt("none").at = "none" /\ ~LegAt("none").ok /\ ~LegAt("queued").ok
      BY DEF LegAt
  <2>3. CASE NewRun
    <3>1. \A k \in Coroutine, c \in Configured : leg'[k][c] = LegAt("none")
        BY <2>3 DEF NewRun, Idle
    <3>2. SendsHonest'
        BY <2>2, <3>1 DEF SendsHonest
    <3> QED BY <2>1, <3>2 DEF ContractInv
  <2>4. ASSUME NEW k \in Coroutine, DispatchAlert(k)
        PROVE  ContractInv'
    <3>1. \A j \in Coroutine, c \in Configured :
              leg'[j][c] = IF j = k THEN LegAt("queued") ELSE leg[j][c]
        BY <2>1, <2>4 DEF DispatchAlert, TypeInv, TypeOK
    <3>2. \A j \in Coroutine, c \in Configured :
              call'[j] = IF j = k THEN "open" ELSE call[j]
        BY <2>1, <2>4 DEF DispatchAlert, TypeInv, TypeOK
    <3>3. accepted' = accepted
        BY <2>4 DEF DispatchAlert
    <3>4. SendsHonest'
        BY <2>2, <3>1, <3>2, <3>3 DEF ContractInv, SendsHonest
    <3> QED BY <2>1, <3>4 DEF ContractInv
  <2>5. ASSUME NEW k \in Coroutine, Return(k)
        PROVE  ContractInv'
    <3>1. \A j \in Coroutine, c \in Configured :
              leg'[j][c] = IF j = k THEN LegAt("none") ELSE leg[j][c]
        BY <2>1, <2>5 DEF Return, TypeInv, TypeOK
    <3>2. \A j \in Coroutine :
              j # k => call'[j] = call[j] /\ accepted'[j] = accepted[j]
        BY <2>1, <2>5 DEF Return, TypeInv, TypeOK
    <3>3. SendsHonest'
        BY <2>2, <3>1, <3>2 DEF ContractInv, SendsHonest
    <3> QED BY <2>1, <3>3 DEF ContractInv
  <2>6. ASSUME NEW k \in Coroutine, NEW c \in Configured, Send(k, c)
        PROVE  ContractInv'
    <3>1. PICK l : SendEffect(k, c, l)
        BY <2>1, <2>6, SendDoes
    <3>2. \A j \in Coroutine, d \in Configured :
              leg'[j][d] = IF j = k /\ d = c THEN l ELSE leg[j][d]
        BY <2>1, <3>1, OneLegWritten
    <3>3. call' = call /\ leg[k][c].at # "none" /\ (l.ok => c \in accepted'[k])
        BY <3>1 DEF SendEffect
    <3>4. \A j \in Coroutine : accepted[j] \subseteq accepted'[j]
      <4>1. \/ accepted' = accepted
            \/ accepted' = [accepted EXCEPT ![k] = accepted[k] \union {c}]
          BY <3>1 DEF SendEffect
      <4>2. accepted \in [Coroutine -> SUBSET Configured]
          BY <2>1 DEF TypeInv, TypeOK
      <4> QED BY <4>1, <4>2
    <3>5. SendsHonest'
        BY <3>2, <3>3, <3>4 DEF ContractInv, SendsHonest
    <3> QED BY <2>1, <3>5 DEF ContractInv
  <2>7. CASE UNCHANGED vars
      BY <2>1, <2>7 DEF vars, ContractInv, SendsHonest
  <2> QED BY <2>3, <2>4, <2>5, <2>6, <2>7 DEF Next
<1> QED BY <1>1, <1>2

\* A step that changes neither the calls nor who was reached is a stutter of
\* the contract, and the five steps of a send are at most a Reach.
LEMMA StepKeepsContract ==
    ASSUME ContractInv, [Next]_vars
    PROVE  [Contract!Next]_<<call, Reached>>
<1>1. TypeInv
    BY DEF ContractInv
<1>2. CASE NewRun
  <2>1. Reached' = Reached
      BY <1>2 DEF NewRun, Reached
  <2>2. Contract!Restart
      BY <1>2, <2>1 DEF NewRun, Contract!Restart, Reached
  <2> QED BY <2>2 DEF Contract!Next
<1>3. ASSUME NEW k \in Coroutine, DispatchAlert(k)
      PROVE  Contract!Next
  <2>1. Reached' = Reached
      BY <1>3 DEF DispatchAlert, Reached
  <2>2. Contract!Call(k) \/ Contract!Refuse(k)
      BY <1>3, <2>1 DEF DispatchAlert, Contract!Call, Contract!Refuse, Reached
  <2> QED BY <2>2 DEF Contract!Next
<1>4. ASSUME NEW k \in Coroutine, Return(k)
      PROVE  Contract!Next
  <2>1. Reached' = Reached \ {k}
      BY <1>1, <1>4 DEF Return, Reached, TypeInv, TypeOK
  <2>2. AnyDelivered(k) => k \in Reached
      BY DEF AnyDelivered, ContractInv, SendsHonest, Reached
  <2>3. PICK answer \in {"delivered", "undelivered"} :
            /\ answer = "delivered" => AnyDelivered(k)
            /\ call' = [call EXCEPT ![k] = answer]
      BY <1>4 DEF Return
  <2>4. call[k] = "open"
      BY <1>4 DEF Return
  <2>5. Contract!Return(k)
      BY <2>1, <2>2, <2>3, <2>4 DEF Contract!Return, Contract!Answer, Reached
  <2> QED BY <2>5 DEF Contract!Next
<1>5. ASSUME NEW k \in Coroutine, NEW c \in Configured, Send(k, c)
      PROVE  Contract!Next \/ UNCHANGED <<call, Reached>>
  <2>1. PICK l : SendEffect(k, c, l)
      BY <1>1, <1>5, SendDoes
  <2>2. call' = call /\ call[k] = "open"
      BY <2>1 DEF SendEffect, ContractInv, SendsHonest
  <2>3. CASE accepted' = accepted
      BY <2>2, <2>3 DEF Reached
  <2>4. CASE accepted' = [accepted EXCEPT ![k] = @ \union {c}]
    <3>1. Reached' = Reached \union {k}
        BY <1>1, <2>4 DEF Reached, TypeInv, TypeOK
    <3>2. CASE k \in Reached
        BY <2>2, <3>1, <3>2
    <3>3. CASE k \notin Reached
      <4>1. Contract!Reach(k)
          BY <2>2, <3>1, <3>3 DEF Contract!Reach, Reached
      <4> QED BY <4>1 DEF Contract!Next
    <3> QED BY <3>2, <3>3
  <2> QED BY <2>1, <2>3, <2>4 DEF SendEffect
<1>6. CASE UNCHANGED vars
    BY <1>6 DEF vars, Reached
<1> QED BY <1>2, <1>3, <1>4, <1>5, <1>6 DEF Next

\* dispatch_alert's safety promise, for any number of concurrent dispatches and
\* channels: every behaviour of Notifiers starts and steps as DispatchContract
\* allows, so True is only returned for an alert some channel accepted.
THEOREM ContractKept ==
    Spec => Contract!Init /\ [][Contract!Next]_<<call, Reached>>
<1>1. Init => Contract!Init
    BY DEF Init, Contract!Init
<1>2. Spec => []ContractInv
    BY ContractInductive, PTL DEF Spec
<1> QED BY <1>1, <1>2, StepKeepsContract, PTL DEF Spec

-----------------------------------------------------------------------------
(*                  When an open breaker means losses in a row             *)

\* No dispatch reports a delivery on a channel while another one, which found
\* the breaker of that channel open, has its skipped send still to be counted.
NoStaleSkip ==
    \A k \in Coroutine, c \in Configured :
        Return(k) /\ leg[k][c].ok
            => \A j \in Coroutine \ {k} :
                  ~(leg[j][c].at = "done" /\ leg[j][c].attempt = 0)

\* The losses in a row: since the channel's last recorded delivery.
LostInRow(c) == lost[c] - lostBefore[c]

\* What CountEarned and SkipsEarned say of all losses holds of those in a row.
RowEarned(c) ==
    /\ lostBefore[c] <= lost[c]
    /\ failures[c] <= LostInRow(c) \/ LostInRow(c) >= CIRCUIT_BREAK_AFTER
    /\ \A k \in Coroutine :
          leg[k][c].at = "done" /\ leg[k][c].attempt = 0
              => LostInRow(c) >= CIRCUIT_BREAK_AFTER

RowInv == TypeInv /\ \A c \in Configured : RowEarned(c)

\* The end of a dispatch: a delivery starts the row again, and with it the count;
\* no other dispatch is left that found the breaker open before.
LEMMA RowReturn ==
    ASSUME NoStaleSkip, RowInv, TypeInv', NEW k \in Coroutine, Return(k),
           NEW c \in Configured
    PROVE  RowEarned(c)'
<1>0. TypeInv
    BY DEF RowInv
<1>1. /\ lost[c] \in Nat /\ lost'[c] \in Nat /\ failures[c] \in Nat
      /\ failures'[c] \in Nat /\ lostBefore[c] \in Nat /\ lostBefore'[c] \in Nat
    BY <1>0 DEF TypeInv, TypeOK
<1>2. RowEarned(c) /\ leg[k][c].at = "done"
    BY DEF RowInv, Return
<1>3. \A j \in Coroutine :
         leg'[j][c] = IF j = k THEN LegAt("none") ELSE leg[j][c]
    BY <1>0 DEF Return, TypeInv, TypeOK
<1>4. /\ lostBefore'[c] <= lost'[c]
      /\ \/ failures'[c] <= lost'[c] - lostBefore'[c]
         \/ lost'[c] - lostBefore'[c] >= CIRCUIT_BREAK_AFTER
  <2>1. CASE leg[k][c].ok
    <3>1. failures'[c] = 0 /\ lost'[c] = lost[c] /\ lostBefore'[c] = lost[c]
        BY <2>1 DEF Return, Recorded
    <3> QED BY <1>1, <3>1
  <2>2. CASE ~leg[k][c].ok /\ leg[k][c].attempt = 0
    <3>1. lost'[c] = lost[c] /\ lostBefore'[c] = lostBefore[c]
        BY <2>2 DEF Return
    <3>2. LostInRow(c) >= CIRCUIT_BREAK_AFTER /\ lostBefore[c] <= lost[c]
        BY <1>2, <2>2 DEF RowEarned
    <3> QED BY <3>1, <3>2 DEF LostInRow
  <2>3. CASE ~leg[k][c].ok /\ leg[k][c].attempt # 0
    <3>1. /\ failures'[c] = failures[c] + 1
          /\ lost'[c] = lost[c] + 1 /\ lostBefore'[c] = lostBefore[c]
        BY <2>3 DEF Return, Recorded
    <3>2. /\ lostBefore[c] <= lost[c]
          /\ \/ failures[c] <= lost[c] - lostBefore[c]
             \/ lost[c] - lostBefore[c] >= CIRCUIT_BREAK_AFTER
        BY <1>2 DEF RowEarned, LostInRow
    <3> QED BY <1>1, <3>1, <3>2, NotifiersAssumption
  <2> QED BY <2>1, <2>2, <2>3
<1>5. ASSUME NEW j \in Coroutine, leg'[j][c].at = "done", leg'[j][c].attempt = 0
      PROVE  lost'[c] - lostBefore'[c] >= CIRCUIT_BREAK_AFTER
  <2>1. j # k /\ leg[j][c].at = "done" /\ leg[j][c].attempt = 0
      BY <1>3, <1>5 DEF LegAt
  <2>2. ~leg[k][c].ok
      BY <2>1 DEF NoStaleSkip
  <2>3. lostBefore'[c] = lostBefore[c] /\ lost'[c] \in {lost[c], lost[c] + 1}
      BY <2>2 DEF Return
  <2>4. lost[c] - lostBefore[c] >= CIRCUIT_BREAK_AFTER
      BY <1>2, <2>1 DEF RowEarned, LostInRow
  <2> QED BY <1>1, <2>3, <2>4, NotifiersAssumption
<1> QED BY <1>4, <1>5 DEF RowEarned, LostInRow

\* Between two ends of dispatches nothing is counted, and a send is only skipped
\* where the breaker is open.
LEMMA RowInductive ==
    /\ Init => RowInv
    /\ RowInv /\ NoStaleSkip /\ [Next]_vars => RowInv'
<1>1. ASSUME Init, NEW c \in Configured
      PROVE  RowEarned(c)
  <2>1. lost[c] = 0 /\ lostBefore[c] = 0 /\ failures[c] = 0
      BY <1>1 DEF Init
  <2>2. \A k \in Coroutine : leg[k][c].at = "none"
      BY <1>1 DEF Init, Idle, LegAt
  <2> QED BY <2>1, <2>2 DEF RowEarned, LostInRow
<1>2. ASSUME NoStaleSkip, RowInv, [Next]_vars, NEW c \in Configured
      PROVE  RowEarned(c)'
  <2>1. TypeInv /\ TypeInv' /\ RowEarned(c)
      BY <1>2, TypeInductive DEF RowInv
  <2>2. CASE NewRun
    <3>1. lost'[c] = 0 /\ lostBefore'[c] = 0 /\ failures'[c] = 0
        BY <2>2 DEF NewRun
    <3>2. \A k \in Coroutine : leg'[k][c].at = "none"
        BY <2>2 DEF NewRun, Idle, LegAt
    <3> QED BY <3>1, <3>2 DEF RowEarned, LostInRow
  <2>3. ASSUME NEW k \in Coroutine, DispatchAlert(k)
        PROVE  RowEarned(c)'
    <3>1. \A j \in Coroutine :
              leg'[j][c] = IF j = k THEN LegAt("queued") ELSE leg[j][c]
        BY <2>1, <2>3 DEF DispatchAlert, TypeInv, TypeOK
    <3>2. LegAt("queued").at = "queued"
        BY DEF LegAt
    <3>3. UNCHANGED <<failures, lost, lostBefore>>
        BY <2>3 DEF DispatchAlert
    <3> QED BY <2>1, <3>1, <3>2, <3>3 DEF RowEarned, LostInRow
  <2>4. ASSUME NEW k \in Coroutine, Return(k)
        PROVE  RowEarned(c)'
      BY <1>2, <2>1, <2>4, RowReturn
  <2>5. ASSUME NEW k \in Coroutine, NEW d \in Configured, Send(k, d)
        PROVE  RowEarned(c)'
    <3>1. PICK l : SendEffect(k, d, l)
        BY <2>1, <2>5, SendDoes
    <3>2. \A j \in Coroutine :
              leg'[j][c] = IF j = k /\ c = d THEN l ELSE leg[j][c]
        BY <2>1, <3>1, OneLegWritten
    <3>3. UNCHANGED <<failures, lost, lostBefore>>
        BY <3>1 DEF SendEffect
    <3>4. c = d /\ l.attempt = 0 => LostInRow(c) >= CIRCUIT_BREAK_AFTER
      <4>1. l.attempt = 0 => failures[d] >= CIRCUIT_BREAK_AFTER
          BY <3>1 DEF SendEffect
      <4>2. failures[c] \in Nat /\ lost[c] \in Nat /\ lostBefore[c] \in Nat
          BY <2>1 DEF TypeInv, TypeOK
      <4>3. failures[c] <= LostInRow(c) \/ LostInRow(c) >= CIRCUIT_BREAK_AFTER
          BY <2>1 DEF RowEarned
      <4>4. LostInRow(c) \in Int
          BY <4>2 DEF LostInRow
      <4> QED BY <4>1, <4>2, <4>3, <4>4, NotifiersAssumption
    <3> QED BY <2>1, <3>2, <3>3, <3>4 DEF RowEarned, LostInRow
  <2>6. CASE UNCHANGED vars
      BY <2>1, <2>6 DEF vars, RowEarned, LostInRow
  <2> QED BY <1>2, <2>2, <2>3, <2>4, <2>5, <2>6 DEF Next
<1> QED BY <1>1, <1>2, TypeInductive DEF RowInv

\* With any number of dispatches at a time: where no delivery overtakes a skipped
\* send, an open breaker means CIRCUIT_BREAK_AFTER messages in a row lost on that
\* channel. The overtaken skip is thus all there is to the run breaker_reopened
\* (dispatch_alert counts the False of a skip as a failure).
THEOREM BreakerExact ==
    Spec /\ [][NoStaleSkip]_vars => []OpenOnConsecutiveLosses
<1>1. RowInv /\ [Next]_vars /\ [NoStaleSkip]_vars => RowInv'
  <2>1. RowInv /\ [Next]_vars /\ NoStaleSkip => RowInv'
      BY RowInductive
  <2>2. RowInv /\ UNCHANGED vars => RowInv'
      BY TypeInductive DEF RowInv, RowEarned, LostInRow, vars
  <2> QED BY <2>1, <2>2
<1>2. ASSUME RowInv, NEW c \in Configured, CircuitIsOpen(c)
      PROVE  lost[c] - lostBefore[c] >= CIRCUIT_BREAK_AFTER
  <2>1. failures[c] \in Nat /\ lost[c] \in Nat /\ lostBefore[c] \in Nat
      BY <1>2 DEF RowInv, TypeInv, TypeOK
  <2>2. failures[c] <= LostInRow(c) \/ LostInRow(c) >= CIRCUIT_BREAK_AFTER
      BY <1>2 DEF RowInv, RowEarned
  <2>3. failures[c] >= CIRCUIT_BREAK_AFTER
      BY <1>2 DEF CircuitIsOpen
  <2> QED BY <2>1, <2>2, <2>3, NotifiersAssumption DEF LostInRow
<1>3. RowInv => OpenOnConsecutiveLosses
    BY <1>2 DEF OpenOnConsecutiveLosses
<1>4. Init => RowInv
    BY RowInductive
<1> QED BY <1>1, <1>3, <1>4, PTL DEF Spec

\* In particular where dispatches do not overlap at all, as in a run with a single
\* target, the comment on CIRCUIT_BREAK_AFTER is exact.
THEOREM SerialBreakerCorrect ==
    (\A j, k \in Coroutine : j = k) => (Spec => []OpenOnConsecutiveLosses)
<1> SUFFICES ASSUME \A j, k \in Coroutine : j = k
             PROVE  Spec => []OpenOnConsecutiveLosses
    OBVIOUS
<1>1. NoStaleSkip
    BY DEF NoStaleSkip
<1> QED BY <1>1, BreakerExact, PTL

=============================================================================
