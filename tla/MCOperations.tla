---------------------------- MODULE MCOperations ----------------------------
(***************************************************************************)
(* Instances for TLC of the parts that share no state: the advisory        *)
(* alerts, the loop and its supervisor, the calendar, the history, and the *)
(* target list under fairness.  A behaviour is one of a single part,       *)
(* chosen at the start; the others stay where they are.                    *)
(***************************************************************************)
EXTENDS Advisories, RoundLoop, Calendar, History, TargetList

VARIABLE part

\* Reminders after one hour and two, then one every three.
Schedule == <<1, 2>>

vars == <<part, advVars, loopVars, calVars, histVars, listVars>>

Init ==
    /\ part \in {"advisories", "loop", "calendar", "history", "list"}
    /\ AdvInit
    /\ part # "advisories" => days = 0
    /\ LoopInit
    /\ part # "loop" => newest = Absent
    /\ CalInit
    /\ part # "calendar" => windows = <<>> /\ now = 0
    /\ HistInit
    /\ ListInit
    /\ part # "list" => seed = Missing /\ defect = [u \in Odd |-> "loose"]

Next ==
    \/ /\ part = "advisories" /\ AdvNext
       /\ UNCHANGED <<part, loopVars, calVars, histVars, listVars>>
    \/ /\ part = "loop" /\ LoopNext
       /\ UNCHANGED <<part, advVars, calVars, histVars, listVars>>
    \/ /\ part = "calendar" /\ CalNext
       /\ UNCHANGED <<part, advVars, loopVars, histVars, listVars>>
    \/ /\ part = "history" /\ HistNext
       /\ UNCHANGED <<part, advVars, loopVars, calVars, listVars>>
    \/ /\ part = "list" /\ ListNext
       /\ UNCHANGED <<part, advVars, loopVars, calVars, histVars>>

\* The fairness of the two parts that promise progress (FairLoopSpec,
\* ListFairness), where they are the part chosen.
FairSpec ==
    /\ Init /\ [][Next]_vars
    /\ WF_loopVars(part = "loop" /\ LoopStep)
    /\ WF_listVars(part = "list" /\ LoadRound)
    /\ SF_listVars(part = "list" /\ ProbeAll)
    /\ SF_listVars(part = "list" /\ EndRound)

TypeOK == AdvTypeOK /\ LoopTypeOK /\ CalTypeOK /\ HistTypeOK /\ ListTypeOK

=============================================================================
