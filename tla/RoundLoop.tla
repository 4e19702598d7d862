----------------------------- MODULE RoundLoop ------------------------------
(***************************************************************************)
(* What keeps the rounds going: the shell loop that is the container's     *)
(* process, the liveness probe and the restarts (deploy/k8s/vigil-sre.yaml,*)
(* the same loop in docker-compose.yml, main.py liveness_problem,          *)
(* _finish_run).  The loop touches a marker, runs a round, pauses, and     *)
(* ends with the round's failure; the kubelet probes marker and state.json *)
(* and restarts a container that fails FAILURE_THRESHOLD times in a row;   *)
(* a stop, and a restart, send TERM and wait for GRACE.                    *)
(*                                                                         *)
(* Time is counted in ticks, and no tick passes over something that is     *)
(* due.  A round is a working one, over within BUDGET, or hangs for ever.  *)
(***************************************************************************)
EXTENDS Integers

CONSTANTS
    LIVENESS_MAX_AGE,
    PERIOD,                \* periodSeconds of the liveness probe
    FAILURE_THRESHOLD,
    PAUSE,                 \* the loop's sleep
    BUDGET,                \* the longest a round takes that does not hang: its
                           \* probes, and up to 75 s for each dispatch in a row
    GRACE                  \* terminationGracePeriodSeconds

ASSUME RoundLoopAssumption ==
    /\ LIVENESS_MAX_AGE \in Nat
    /\ PERIOD \in Nat \ {0}
    /\ FAILURE_THRESHOLD \in Nat \ {0, 1}
    /\ PAUSE \in Nat \ {0}
    /\ BUDGET \in Nat
    /\ GRACE \in Nat
    /\ BUDGET + PAUSE <= LIVENESS_MAX_AGE

VARIABLES
    phase,     \* where the loop is
    spent,     \* ticks there
    hung,      \* this round never ends by itself
    rc,        \* the round's exit code
    stopping,  \* TERM was sent: "no", "restart", or "stop" for good
    grace,     \* ticks since TERM
    marker,    \* age of LIVENESS_ROUND_MARKER
    newest,    \* age of the newest last_checked in state.json
    usable,    \* load_targets finds a list
    wait,      \* ticks to the next probe
    misses     \* liveness probes failed in a row

loopVars == <<phase, spent, hung, rc, stopping, grace, marker, newest, usable,
              wait, misses>>

Absent == -1
Old == LIVENESS_MAX_AGE + 1    \* ages are counted up to the first that is too old
Aged(age) == IF age \in 0..LIVENESS_MAX_AGE THEN age + 1 ELSE age

\* The volume may hold an old state.json; /tmp is new.
LoopInit ==
    /\ phase = "starting" /\ spent = 0 /\ hung = FALSE /\ rc = 0
    /\ stopping = "no" /\ grace = 0
    /\ marker = Absent
    /\ newest \in {Absent, Old}
    /\ usable = TRUE
    /\ wait = PERIOD /\ misses = 0

\* The most that may pass from the start of a round that hangs to its KILL;
\* longer is counted as one more.
HangLimit ==
    BUDGET + LIVENESS_MAX_AGE + 1 + FAILURE_THRESHOLD * PERIOD + GRACE

Probe == <<wait, misses>>
Term == <<stopping, grace>>

-----------------------------------------------------------------------------
(*                              The loop                                   *)

\* touch, then main.py in the background.
RoundStarts ==
    /\ phase = "starting"
    /\ marker' = 0
    /\ phase' = "round" /\ spent' = 0
    /\ hung' \in BOOLEAN
    /\ UNCHANGED <<rc, newest, usable, Term, Probe>>

\* A check's status is written. In a round that hangs the other targets are
\* through within BUDGET; no write at all if the disk is full.
CheckWritten ==
    /\ phase = "round" /\ spent <= BUDGET
    /\ newest # 0
    /\ newest' = 0
    /\ UNCHANGED <<phase, spent, hung, rc, marker, usable, Term, Probe>>

\* _exit_code of a round that came to its end, not --strict.
ExitCode(undelivered, incomplete) == IF undelivered \/ incomplete THEN 1 ELSE 0

\* run_health_checks and _finish_run; a list that cannot be loaded exits 1. Under
\* TERM the shell only waits for this.
RoundEnds ==
    /\ phase = "round" /\ ~hung
    /\ \E undelivered, incomplete \in BOOLEAN :
          rc' = ExitCode(undelivered, incomplete \/ ~usable)
    /\ phase' = IF stopping = "no" THEN "pause" ELSE "down"
    /\ spent' = 0
    /\ UNCHANGED <<hung, marker, newest, usable, Term, Probe>>

PauseOver == phase = "pause" /\ spent = PAUSE

PauseEnds ==
    /\ PauseOver
    /\ phase' = IF rc = 0 THEN "starting" ELSE "down"
    /\ spent' = 0
    /\ UNCHANGED <<hung, rc, marker, newest, usable, Term, Probe>>

-----------------------------------------------------------------------------
(*                             The supervisor                              *)

\* Faults: startup excuses a missing timestamp for ever; the round in progress
\* is not asked about.
ExcusesNoCheck == marker \notin 0..LIVENESS_MAX_AGE /\ newest = Old
NewestOnly == newest = Old

\* liveness_problem: a round that started recently is alive; else the newest
\* check decides, and without one the marker does.
LivenessProblem ==
    /\ marker \notin 0..LIVENESS_MAX_AGE
    /\ IF newest = Absent THEN marker # Absent ELSE newest = Old

\* Fault: the code loads its list, so it must be running.
ListLoads == usable

\* load_targets and check_liveness, in one command.
ProbePasses == usable /\ ~LivenessProblem

\* Fault: the shell ends without the round.
TermNotForwarded == "down"

\* The trap: TERM goes on to a round that is running, which is waited for.
AfterTerm == IF phase = "round" THEN "round" ELSE "down"

TermSent(why) ==
    /\ stopping' = why
    /\ grace' = 0
    /\ phase' = AfterTerm
    /\ spent' = IF AfterTerm = phase THEN spent ELSE 0

LivenessProbe ==
    /\ wait = 0
    /\ stopping = "no" /\ phase # "down"
    /\ wait' = PERIOD
    /\ \/ /\ ProbePasses
          /\ misses' = 0
          /\ UNCHANGED <<phase, spent, Term>>
       \/ /\ ~ProbePasses
          /\ misses' = misses + 1
          /\ IF misses' = FAILURE_THRESHOLD THEN TermSent("restart")
             ELSE UNCHANGED <<phase, spent, Term>>
    /\ UNCHANGED <<hung, rc, marker, newest, usable>>

\* The operator stops the monitor, or drains its node.
Stop ==
    /\ stopping = "no"
    /\ TermSent("stop")
    /\ UNCHANGED <<hung, rc, marker, newest, usable, Probe>>

\* KILL: what is left of the round goes.
GraceEnds ==
    /\ stopping # "no" /\ phase = "round" /\ grace = GRACE
    /\ phase' = "down" /\ spent' = 0
    /\ UNCHANGED <<hung, rc, marker, newest, usable, Term, Probe>>

\* A container that ended is started again: /tmp and the volume are as it left
\* them.
Restarted ==
    /\ phase = "down" /\ stopping # "stop"
    /\ phase' = "starting" /\ spent' = 0
    /\ hung' = FALSE /\ rc' = 0
    /\ stopping' = "no" /\ grace' = 0
    /\ wait' = PERIOD /\ misses' = 0
    /\ UNCHANGED <<marker, newest, usable>>

\* Somebody breaks the list, or mends it.
ListChanges ==
    /\ usable' = ~usable
    /\ UNCHANGED <<phase, spent, hung, rc, marker, newest, Term, Probe>>

Due ==
    \/ phase \in {"starting", "down"}
    \/ phase = "round" /\ ~hung /\ spent = BUDGET
    \/ PauseOver
    \/ stopping # "no" /\ grace = GRACE
    \/ wait = 0

Tick ==
    /\ ~Due
    /\ spent' = IF spent > HangLimit THEN spent ELSE spent + 1
    /\ grace' = IF stopping = "no" THEN 0 ELSE grace + 1
    /\ wait' = IF stopping = "no" THEN wait - 1 ELSE wait
    /\ marker' = Aged(marker)
    /\ newest' = Aged(newest)
    /\ UNCHANGED <<phase, hung, rc, stopping, usable, misses>>

LoopStep ==
    RoundStarts \/ RoundEnds \/ PauseEnds \/ LivenessProbe \/ GraceEnds \/ Restarted \/ Tick

LoopNext == LoopStep \/ CheckWritten \/ Stop \/ ListChanges

LoopSpec == LoopInit /\ [][LoopNext]_loopVars

\* The shell and the kubelet go on, and so does time.
FairLoopSpec == LoopSpec /\ WF_loopVars(LoopStep)

-----------------------------------------------------------------------------
(*                                Properties                               *)

LoopTypeOK ==
    /\ phase \in {"starting", "round", "pause", "down"}
    /\ spent \in 0..HangLimit + 1
    /\ hung \in BOOLEAN
    /\ rc \in {0, 1}
    /\ stopping \in {"no", "restart", "stop"}
    /\ grace \in 0..GRACE
    /\ marker \in Absent..Old
    /\ newest \in Absent..Old
    /\ usable \in BOOLEAN
    /\ wait \in 0..PERIOD
    /\ misses \in 0..FAILURE_THRESHOLD

\* A round that hangs is replaced in bounded time, whatever state.json it found
\* or leaves behind: none, an old one, or checks written before the hang
\* (liveness_problem, which answered for the code instead of the monitor).
HungRoundReplaced == phase = "round" => spent <= HangLimit

\* The monitor is told to go only if its round hangs or its list cannot be
\* loaded: never for an old state.json, in a pause, or at a start.
WorkingMonitorKept ==
    [][stopping = "no" /\ stopping' = "restart"
          => (phase = "round" /\ hung) \/ ~usable]_loopVars

\* A round that works is left to deliver what it started for GRACE from its own
\* start at the least, whenever a stop or a restart lands in it: the shell does
\* not go without it, and no KILL comes before (the trap, stop_grace_period).
WorkingRoundFinishes ==
    [][phase = "round" /\ ~hung /\ spent < GRACE /\ phase' # "round"
          => RoundEnds]_loopVars

\* The comment on stop_grace_period: it is "longer than the worst round that can be
\* mid-flight when the stop lands", so that no round is killed over a delivery.
StopWaitsForRound ==
    [][phase = "round" /\ ~hung /\ phase' # "round" => RoundEnds]_loopVars

\* Until it is stopped the monitor starts round after round, whatever becomes of
\* each: one that fails, one that hangs, a list that cannot be loaded.
RoundsGoOn == []<>(phase = "starting" \/ stopping = "stop")

=============================================================================
