--------------------------- MODULE AlertContract ----------------------------
(***************************************************************************)
(* What the alert pipeline promises about each target's status alert, as   *)
(* seen in state.json (main.py: the comments of _arm, record_alert_outcome *)
(* and _alerts_undelivered).  It is written down before it is sent and     *)
(* until its delivery is written down, whenever the process is killed; one *)
(* about an outage that was attempted and not confirmed, or that a window  *)
(* put off, is not given up; and no heartbeat is sent while one is due.    *)
(* Probes, streaks, windows, channels and rounds are hidden.               *)
(***************************************************************************)
CONSTANT Target

VARIABLES
    phase,     \* each target's alert
    about,     \* what an alert that is due is about
    pinged     \* did the round that just ended send its heartbeat?

\* due: decided in this round; lost: tried and not confirmed, or its process was
\* killed; deferred: put off by a window; sent: confirmed, not yet written down.
Phase == {"quiet", "due", "lost", "deferred", "sent"}

\* An outage also if it has ended, or if its end is what there is to tell.
Subject == {"outage", "slowness"}

Owed(t) == phase[t] \in {"due", "lost", "deferred"}

Becomes(t, p, subject) ==
    /\ phase' = [phase EXCEPT ![t] = p]
    /\ about' = [about EXCEPT ![t] = subject]

\* An outage stays one; slowness may turn out to be worse.
BecomesNoLess(t, p) ==
    \E subject \in Subject :
        /\ about[t] = "outage" => subject = "outage"
        /\ Becomes(t, p, subject)

Init ==
    /\ phase \in [Target -> {"quiet", "lost"}]
    /\ about = [t \in Target |-> IF phase[t] = "lost" THEN "outage" ELSE "nothing"]
    /\ pinged = FALSE

\* A probe gives something new to tell.
Decide(t) ==
    /\ phase[t] \in {"quiet", "deferred"}
    /\ BecomesNoLess(t, "due")

\* A slow phase no alert of which was confirmed is over.
Overtake(t) ==
    /\ phase[t] \in {"lost", "deferred"}
    /\ about[t] = "slowness"
    /\ Becomes(t, "quiet", "nothing")

\* A window takes back what this round decided, and only that.
TakeBack(t) ==
    /\ phase[t] = "due"
    /\ \/ Becomes(t, "quiet", "nothing")
       \/ \E subject \in Subject : Becomes(t, "deferred", subject)

Defer(t) ==
    /\ phase[t] = "quiet"
    /\ \E subject \in Subject : Becomes(t, "deferred", subject)

Send(t) ==
    /\ Owed(t)
    /\ Becomes(t, "sent", "nothing")

    \* No channel confirmed it, or what was not told has become an outage.
Lose(t) ==
    /\ Owed(t)
    /\ BecomesNoLess(t, "lost")

Acknowledge(t) ==
    /\ phase[t] = "sent"
    /\ Becomes(t, "quiet", "nothing")

Ping ==
    /\ \A t \in Target : phase[t] \in {"quiet", "deferred"}
    /\ pinged' = TRUE
    /\ UNCHANGED <<phase, about>>

\* A round begins, ends without a heartbeat or is killed. What was not written
\* down is not known any more, so that a delivery is repeated.
Forget ==
    /\ \A t \in Target :
          \/ /\ phase[t] \in {"quiet", "lost", "deferred"}
             /\ phase'[t] = phase[t] /\ about'[t] = about[t]
          \/ /\ phase[t] = "due"
             /\ phase'[t] = "lost" /\ about'[t] = about[t]
          \/ /\ phase[t] = "sent"
             /\ phase'[t] \in {"lost", "deferred"} /\ about'[t] \in Subject
    /\ DOMAIN phase' = Target /\ DOMAIN about' = Target
    /\ pinged' = FALSE

Round(t) ==
    \/ Decide(t) \/ Overtake(t) \/ TakeBack(t) \/ Defer(t)
    \/ Send(t) \/ Lose(t) \/ Acknowledge(t)

Next ==
    \/ ~pinged /\ UNCHANGED pinged /\ \E t \in Target : Round(t)
    \/ Ping \/ Forget

contractVars == <<phase, about, pinged>>

Spec == Init /\ [][Next]_contractVars
             /\ \A t \in Target : WF_contractVars(Acknowledge(t) /\ UNCHANGED pinged)

=============================================================================
