----------------------------- MODULE Notifiers ------------------------------
(***************************************************************************)
(* Delivering alerts (notifiers.py: Notifier.send, dispatch_alert, the     *)
(* per-run circuit breaker).  The coroutines of a round dispatch alerts    *)
(* concurrently; a dispatch sends on every configured channel in parallel  *)
(* and returns once the last channel is through.  Between two awaits a     *)
(* coroutine runs undisturbed, so an action is: one channel's send getting *)
(* to the breaker, one answered (or lost) POST, the end of one sleep, or   *)
(* the end of the gather.                                                  *)
(*                                                                         *)
(* A channel answers every POST as it likes.  Time is counted in seconds   *)
(* of the worst case: a POST takes its whole timeout.  Message layout is   *)
(* left out.                                                               *)
(***************************************************************************)
EXTENDS Integers, FiniteSets

CONSTANTS
    Coroutine,                   \* check_url coroutines that dispatch alerts
    Configured,                  \* channels whose webhook is set
    WEBHOOK_RETRY_ATTEMPTS,
    WEBHOOK_RETRY_BASE_S,
    WEBHOOK_RETRY_AFTER_CAP_S,
    WEBHOOK_TIMEOUT_S,
    CIRCUIT_BREAK_AFTER,
    RetryAfter,                  \* seconds a Retry-After header may name
    MaxDispatches                \* bound: dispatches in one run

ASSUME NotifiersAssumption ==
    /\ IsFiniteSet(Coroutine)
    /\ WEBHOOK_RETRY_ATTEMPTS \in Nat \ {0}
    /\ WEBHOOK_RETRY_BASE_S \in Nat
    /\ WEBHOOK_RETRY_AFTER_CAP_S \in Nat
    /\ WEBHOOK_RETRY_BASE_S * WEBHOOK_RETRY_ATTEMPTS
          <= WEBHOOK_RETRY_AFTER_CAP_S
    /\ WEBHOOK_TIMEOUT_S \in Nat
    /\ CIRCUIT_BREAK_AFTER \in Nat \ {0}
    /\ RetryAfter \subseteq Nat
    /\ MaxDispatches \in Nat

VARIABLES
    failures,      \* _circuit_failures
    dispatches,    \* dispatches made in this run
    call,          \* each coroutine's dispatch: none, open, or its answer
    leg,           \* leg[k][c]: the send of k's alert on channel c
    \* observed, not implemented
    accepted,      \* the channels that accepted k's current alert
    lost,          \* sends tried on c and recorded as lost, in this run
    lostBefore     \* how many of them before the last recorded delivery

vars == <<failures, dispatches, call, leg, accepted, lost, lostBefore>>

-----------------------------------------------------------------------------
\* attempt = 0: nothing was posted, because the send has not got to the
\* breaker yet, or found it open. A send that is over keeps attempt = 1.
Leg == [ at      : {"none", "queued", "posting", "sleeping", "done"},
         attempt : 0..WEBHOOK_RETRY_ATTEMPTS,
         ok      : BOOLEAN,               \* send returned True
         sleep   : Int,                   \* what the retry waits for
         waited  : Nat ]                  \* seconds spent so far

LegAt(at) == [at |-> at, attempt |-> 0, ok |-> FALSE, sleep |-> 0, waited |-> 0]
Skipped == LegAt("done")
Ended(delivered) == [LegAt("done") EXCEPT !.ok = delivered, !.attempt = 1]

Idle == [k \in Coroutine |-> [c \in Configured |-> LegAt("none")]]

Init ==
    /\ failures = [c \in Configured |-> 0]
    /\ dispatches = 0
    /\ call = [k \in Coroutine |-> "none"]
    /\ leg = Idle
    /\ accepted = [k \in Coroutine |-> {}]
    /\ lost = [c \in Configured |-> 0]
    /\ lostBefore = [c \in Configured |-> 0]

-----------------------------------------------------------------------------
(*                               The breaker                               *)

\* Fault: an open breaker is not asked.
NeverOpen(c) == FALSE

\* _circuit_is_open.
CircuitIsOpen(c) == failures[c] >= CIRCUIT_BREAK_AFTER

\* Fault: the count follows the whole dispatch.
RecordedForAll(k, c) ==
    IF \A d \in Configured : leg[k][d].ok THEN 0 ELSE failures[c] + 1

\* _record_circuit: a skipped send counts as a failure.
Recorded(k, c) == IF leg[k][c].ok THEN 0 ELSE failures[c] + 1

-----------------------------------------------------------------------------
(*                               dispatch_alert                            *)

\* active_notifiers is empty: nobody will hear of it. Else a gather.
DispatchAlert(k) ==
    /\ call[k] # "open"
    /\ dispatches < MaxDispatches
    /\ dispatches' = dispatches + 1
    /\ call' = [call EXCEPT ![k] =
                   IF Configured = {} THEN "undelivered" ELSE "open"]
    /\ leg' = [leg EXCEPT ![k] = [c \in Configured |-> LegAt("queued")]]
    /\ UNCHANGED <<failures, accepted, lost, lostBefore>>

\* _deliver: fail fast, or post for the first time.
Deliver(k, c) ==
    /\ leg[k][c].at = "queued"
    /\ leg' = [leg EXCEPT ![k][c] =
                  IF CircuitIsOpen(c) THEN Skipped
                  ELSE [LegAt("posting") EXCEPT !.attempt = 1]]
    /\ UNCHANGED <<failures, dispatches, call, accepted, lost, lostBefore>>

\* any(result is True for result in results).
AnyDelivered(k) == \E c \in Configured : leg[k][c].ok

\* Every channel is through: the breaker learns of all of them at once.
Return(k) ==
    /\ call[k] = "open"
    /\ \A c \in Configured : leg[k][c].at = "done"
    /\ failures' = [c \in Configured |-> Recorded(k, c)]
    /\ call' = [call EXCEPT ![k] =
                   IF AnyDelivered(k) THEN "delivered" ELSE "undelivered"]
    /\ lost' = [c \in Configured |->
                   IF leg[k][c].ok \/ leg[k][c].attempt = 0 THEN lost[c]
                                                            ELSE lost[c] + 1]
    /\ lostBefore' = [c \in Configured |->
                         IF leg[k][c].ok THEN lost[c] ELSE lostBefore[c]]
    /\ leg' = [leg EXCEPT ![k] = [c \in Configured |-> LegAt("none")]]
    /\ accepted' = [accepted EXCEPT ![k] = {}]
    /\ UNCHANGED dispatches

-----------------------------------------------------------------------------
(*                              Notifier.send                              *)

\* What a 429 may carry: a usable number of seconds, or one of the two ways of
\* being useless that matter (absent, malformed, negative; and NaN).
NoHeader == -1
NaN == -2
Never == -1         \* asyncio.sleep(nan) does not return

LinearBackoff(attempt) == WEBHOOK_RETRY_BASE_S * attempt

\* Faults: the header is taken at its word, finite or not, and uncapped.
SleepUnchecked(attempt, header) ==
    IF header = NaN THEN Never
    ELSE IF header \in Nat /\ header < WEBHOOK_RETRY_AFTER_CAP_S THEN header
    ELSE IF header \in Nat THEN WEBHOOK_RETRY_AFTER_CAP_S
    ELSE LinearBackoff(attempt)
SleepUncapped(attempt, header) ==
    IF header \in Nat THEN header ELSE LinearBackoff(attempt)

SleepFor(attempt, header) ==
    IF header \in Nat
    THEN IF header < WEBHOOK_RETRY_AFTER_CAP_S
         THEN header ELSE WEBHOOK_RETRY_AFTER_CAP_S
    ELSE LinearBackoff(attempt)

\* Fault: one attempt too many.
LastAttemptPassed(attempt) == attempt > WEBHOOK_RETRY_ATTEMPTS

IsLastAttempt(attempt) == attempt = WEBHOOK_RETRY_ATTEMPTS

Posting(k, c) == leg[k][c].at = "posting"

\* Any 2xx.
Accept(k, c) ==
    /\ Posting(k, c)
    /\ accepted' = [accepted EXCEPT ![k] = @ \union {c}]
    /\ leg' = [leg EXCEPT ![k][c] = Ended(TRUE)]
    /\ UNCHANGED <<failures, dispatches, call, lost, lostBefore>>

\* A 4xx other than 429 will not heal; a notifier that raises ends here too.
Abandon(k, c) ==
    /\ Posting(k, c)
    /\ leg' = [leg EXCEPT ![k][c] = Ended(FALSE)]
    /\ UNCHANGED <<failures, dispatches, call, accepted, lost, lostBefore>>

\* 429, 5xx, a timeout or a broken connection. After a timeout the channel may
\* have accepted the message all the same.
TryAgain(k, c) ==
    LET now == leg[k][c] IN
    /\ Posting(k, c)
    /\ \/ UNCHANGED accepted
       \/ accepted' = [accepted EXCEPT ![k] = @ \union {c}]
    /\ \/ /\ IsLastAttempt(now.attempt)
          /\ leg' = [leg EXCEPT ![k][c] = Ended(FALSE)]
       \/ /\ ~IsLastAttempt(now.attempt)
          /\ \E header \in RetryAfter \union {NoHeader, NaN} :
                leg' = [leg EXCEPT ![k][c] =
                          [now EXCEPT !.at = "sleeping",
                                      !.sleep = SleepFor(now.attempt, header),
                                      !.waited = @ + WEBHOOK_TIMEOUT_S]]
    /\ UNCHANGED <<failures, dispatches, call, lost, lostBefore>>

Wake(k, c) ==
    LET now == leg[k][c] IN
    /\ now.at = "sleeping"
    /\ now.sleep # Never
    /\ leg' = [leg EXCEPT ![k][c] =
                  [now EXCEPT !.at = "posting", !.attempt = @ + 1, !.sleep = 0,
                              !.waited = @ + now.sleep]]
    /\ UNCHANGED <<failures, dispatches, call, accepted, lost, lostBefore>>

-----------------------------------------------------------------------------
\* The next run is another process; reset_circuits makes sure of the rest.
NewRun ==
    /\ \A k \in Coroutine : call[k] # "open"
    /\ failures' = [c \in Configured |-> 0]
    /\ dispatches' = 0
    /\ call' = [k \in Coroutine |-> "none"]
    /\ leg' = Idle
    /\ lost' = [c \in Configured |-> 0]
    /\ lostBefore' = [c \in Configured |-> 0]
    /\ UNCHANGED accepted

Send(k, c) ==
    Deliver(k, c) \/ Accept(k, c) \/ Abandon(k, c) \/ TryAgain(k, c) \/ Wake(k, c)

Next ==
    \/ NewRun
    \/ \E k \in Coroutine :
          DispatchAlert(k) \/ Return(k) \/ \E c \in Configured : Send(k, c)

Spec == Init /\ [][Next]_vars

\* Every POST has a timeout and asyncio runs every coroutine that is ready.
FairSpec ==
    /\ Spec
    /\ \A k \in Coroutine :
          WF_vars(Return(k)) /\ \A c \in Configured : WF_vars(Send(k, c))

-----------------------------------------------------------------------------
(*                               Properties                                *)

TypeOK ==
    /\ failures \in [Configured -> Nat]
    /\ dispatches \in 0..MaxDispatches
    /\ call \in [Coroutine -> {"none", "open", "delivered", "undelivered"}]
    /\ leg \in [Coroutine -> [Configured -> Leg]]
    /\ accepted \in [Coroutine -> SUBSET Configured]
    /\ lost \in [Configured -> Nat]
    /\ lostBefore \in [Configured -> Nat]

\* The breaker is only open on a channel that has itself lost
\* CIRCUIT_BREAK_AFTER messages in this run, in a row or not: the sibling's
\* failures never open it (breaking is per-channel so that a dead Discord cannot
\* silence a healthy Slack), and skipped sends only where that many were lost
\* before; there they can open it again after a delivery, see
\* OpenOnConsecutiveLosses.
WorkingChannelKept ==
    \A c \in Configured : CircuitIsOpen(c) => lost[c] >= CIRCUIT_BREAK_AFTER

\* Where the breaker is open, CIRCUIT_BREAK_AFTER messages in a row were tried
\* on that channel and lost (the comment on CIRCUIT_BREAK_AFTER).
OpenOnConsecutiveLosses ==
    \A c \in Configured :
        CircuitIsOpen(c) => lost[c] - lostBefore[c] >= CIRCUIT_BREAK_AFTER

InFlight(c) == {k \in Coroutine : leg[k][c].attempt # 0}

\* What a dead channel can cost a run: since its last delivery the retry policy
\* is paid in full at most CIRCUIT_BREAK_AFTER - 1 times, plus once for each
\* coroutine that was already posting when the breaker opened, however many
\* alerts there are.
DeadChannelBounded ==
    \A c \in Configured :
        lost[c] - lostBefore[c] + Cardinality(InFlight(c))
            <= CIRCUIT_BREAK_AFTER - 1 + Cardinality(Coroutine)

\* One send is over in bounded time, whatever Retry-After says (the cap, the
\* finiteness test, the last attempt that does not sleep).
SendTimeBounded ==
    \A k \in Coroutine, c \in Configured :
        leg[k][c].waited + leg[k][c].sleep
            <= (WEBHOOK_RETRY_ATTEMPTS - 1)
                  * (WEBHOOK_TIMEOUT_S + WEBHOOK_RETRY_AFTER_CAP_S)

Contract == INSTANCE DispatchContract
    WITH Caller <- Coroutine,
         reached <- {k \in Coroutine : accepted[k] # {}}

\* dispatch_alert keeps its promise, and always returns: this is the one-step
\* Dispatch of AlertLifecycle.
KeepsContract == Contract!Spec

=============================================================================
