------------------------- MODULE Operations_proofs --------------------------
(***************************************************************************)
(* MCOperations puts parts that share no state into one behaviour each.    *)
(* It adds nothing to them and takes nothing from their safety: what is    *)
(* proved of a part holds of the composition, for every value of every     *)
(* part's constants.                                                       *)
(***************************************************************************)
EXTENDS MCOperations, Advisories_proofs, RoundLoop_proofs,
        CalendarHistory_proofs, TargetList_proofs

-----------------------------------------------------------------------------
(*                  Every behaviour is a behaviour of each part            *)

LEMMA InitOfParts ==
    Init => AdvInit /\ LoopInit /\ CalInit /\ HistInit /\ ListInit
  BY DEF Init

\* A step is one of its part, and a stutter of the others.
LEMMA StepOfParts ==
    [Next]_vars => /\ [AdvNext]_advVars
                   /\ [LoopNext]_loopVars
                   /\ [CalNext]_calVars
                   /\ [HistNext]_histVars
                   /\ [ListNext]_listVars
  BY DEF Next, vars

\* The instances of MCOperations are faithful: none of its behaviours does
\* anything to a part that the part's own specification does not allow.
THEOREM PartsKept ==
    FairSpec => AdvSpec /\ LoopSpec /\ CalSpec /\ HistSpec /\ ListSpec
<1>1. Init => AdvInit /\ LoopInit /\ CalInit /\ HistInit /\ ListInit
  BY InitOfParts
<1>2. [Next]_vars => /\ [AdvNext]_advVars
                     /\ [LoopNext]_loopVars
                     /\ [CalNext]_calVars
                     /\ [HistNext]_histVars
                     /\ [ListNext]_listVars
  BY StepOfParts
<1> QED
  BY <1>1, <1>2, PTL DEF FairSpec, AdvSpec, LoopSpec, CalSpec, HistSpec, ListSpec

-----------------------------------------------------------------------------
(*                       What the parts promise, together                  *)

\* The type invariant of the composition, part by part.
THEOREM OperationsTypeCorrect == FairSpec => []TypeOK
<1>1. AdvTypeOK /\ LoopTypeOK /\ CalTypeOK /\ HistTypeOK /\ ListTypeOK => TypeOK
  BY DEF TypeOK
<1> QED
  BY <1>1, PartsKept, AdvTypeCorrect, LoopTypeCorrect, CalTypeCorrect,
     HistTypeCorrect, ListTypeCorrect, PTL

=============================================================================
