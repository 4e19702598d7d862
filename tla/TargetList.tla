----------------------------- MODULE TargetList -----------------------------
(***************************************************************************)
(* The list of targets: targets.yaml (the seed), data/targets.json (the    *)
(* store, written by the API's PUT), the editors that read the list and    *)
(* write all of it back (the dashboard's page, targetctl), and the monitor *)
(* that loads the list at the start of a round and prunes the state by it  *)
(* at the end (targetstore.py, api.py, targetctl.py, main.py).             *)
(*                                                                         *)
(* A list is a set of URLs; an entry's fields are abstracted to whether    *)
(* the store accepts them.  What each alert of a round does is             *)
(* AlertLifecycle's; here a target's record is there or not.               *)
(***************************************************************************)
EXTENDS Integers, FiniteSets

CONSTANTS
    Url,
    Page,          \* open dashboard pages: keep their table after a save
    Command,       \* targetctl and other scripts: read, write and end
    Odd,           \* URLs whose entry has something wrong with it
    MaxHandEdits   \* bound: edits of the two files by hand

ASSUME TargetListAssumption ==
    /\ Page \cap Command = {}
    /\ Odd \subseteq Url
    /\ MaxHandEdits \in Nat

Editor == Page \union Command

VARIABLES
    defect,        \* what is wrong with the odd entries; never changes
    seed,          \* targets.yaml
    store,         \* data/targets.json
    editor,        \* what each editor was shown and is sending
    records,       \* the targets with a record in state.json
    round,         \* the monitor's round: where it is, and its list
    run,           \* what the run has to say of itself when it exits
    handEdits,
    \* observed, not implemented
    inForce,       \* the list the operator last established
    unlisted       \* URLs out of force at some moment since the round began

listVars == <<defect, seed, store, editor, records, round, run, handEdits, inForce,
              unlisted>>

-----------------------------------------------------------------------------
(*                               The two files                             *)

\* "loose": main.py takes the entry from YAML and the store refuses it; "unset":
\* it names an environment variable that has no value.
Loose == {u \in Odd : defect[u] = "loose"}
Unset == {u \in Odd : defect[u] = "unset"}

\* "unusable": not readable, not JSON or YAML, a duplicate, an invalid entry.
File == [kind : {"missing", "unusable", "list"}, urls : SUBSET Url]
ListOf(urls) == [kind |-> "list", urls |-> urls]
Missing == [kind |-> "missing", urls |-> {}]
Unusable == [kind |-> "unusable", urls |-> {}]

\* Fault: the writer does not look at the environment.
ValidateNoEnv(urls, checkEnv) == urls \cap Loose = {}

\* validate_all: refuses, never repairs.
ValidateAll(urls, checkEnv) ==
    /\ urls \cap Loose = {}
    /\ checkEnv => urls \cap Unset = {}

\* Three answers that are never confused: no store, a list, a store that is
\* there and cannot be used.
ReadStore ==
    IF store.kind = "list" /\ ~ValidateAll(store.urls, FALSE) THEN Unusable
    ELSE store

ReadSeed ==
    IF seed.kind = "list" /\ ValidateAll(seed.urls, FALSE)
    THEN [urls |-> seed.urls, problem |-> FALSE]
    ELSE [urls |-> {}, problem |-> TRUE]

\* The YAML branch of load_targets: its own, looser, validation. No targets,
\* no file or an unset variable end the process.
SeedTargets ==
    IF seed.kind = "list" /\ seed.urls # {} /\ seed.urls \cap Unset = {}
    THEN seed ELSE Unusable

\* Fault: an unusable store falls back to the seed.
LoadTargetsOrSeed ==
    IF ReadStore.kind = "list" THEN ReadStore ELSE SeedTargets

\* Fault: targets.yaml wins when it can be loaded.
LoadTargetsSeedFirst ==
    IF SeedTargets.kind = "list" THEN SeedTargets ELSE ReadStore

\* load_targets: the store wins when it exists, whatever it holds.
LoadTargets ==
    CASE ReadStore.kind = "unusable" -> Unusable
      [] ReadStore.kind = "missing"  -> SeedTargets
      [] OTHER -> IF ReadStore.urls \cap Unset = {} THEN ReadStore ELSE Unusable

-----------------------------------------------------------------------------
(*                                The editors                              *)

\* table: what the editor was shown, with its edits; edited: the URLs those
\* edits are about; seedProblem: seed_error of the read; meant: the person
\* means this list to replace whatever there is; truth: observed, the list in
\* force at the read.
EditorState ==
    [ at : {"closed", "shown", "sent", "checked"},
      table : SUBSET Url, edited : SUBSET Url, truth : SUBSET Url,
      seedProblem : BOOLEAN, allowEmpty : BOOLEAN, meant : BOOLEAN ]

Closed == [ at |-> "closed", table |-> {}, edited |-> {}, truth |-> {},
            seedProblem |-> FALSE, allowEmpty |-> FALSE, meant |-> FALSE ]

\* What is left of an editor whose write was refused or never answered: the page
\* keeps its unsaved table.
GivenUp(e) ==
    IF e \in Page
    THEN [editor[e] EXCEPT !.at = "shown", !.allowEmpty = FALSE, !.meant = FALSE]
    ELSE Closed

Idle == [at |-> "idle", list |-> {}]

ListInit ==
    /\ defect \in [Odd -> {"loose", "unset"}]
    /\ seed \in {ListOf(urls) : urls \in SUBSET Url} \union {Missing, Unusable}
    /\ store = Missing
    /\ editor = [e \in Editor |-> Closed]
    /\ records = {}
    /\ round = Idle
    /\ run = "clean"
    /\ handEdits = 0
    /\ inForce = seed.urls
    /\ unlisted = {}

Files == <<defect, seed, store, handEdits>>
Monitor == <<records, round, run>>
Ghosts == <<inForce, unlisted>>

\* GET /api/targets (do_GET, _snapshot, eload): a list, or an error the editor
\* stops at.
Show(e) ==
    /\ editor[e].at \in {"closed", "shown"}
    /\ ReadStore.kind # "unusable"
    /\ editor' = [editor EXCEPT ![e] =
           [Closed EXCEPT
               !.at = "shown",
               !.table = IF ReadStore.kind = "list" THEN ReadStore.urls
                         ELSE ReadSeed.urls,
               !.seedProblem = ReadStore.kind = "missing" /\ ReadSeed.problem,
               !.truth = inForce]]
    /\ UNCHANGED <<Files, Monitor, Ghosts>>

Sends(e, urls, edits, allowEmpty, meant) ==
    /\ editor' = [editor EXCEPT
           ![e].at = "sent", ![e].table = urls, ![e].edited = @ \union edits,
           ![e].allowEmpty = allowEmpty, ![e].meant = meant]
    /\ UNCHANGED <<Files, Monitor, Ghosts>>

\* Fault: targetctl does not ask where the list came from.
Unguarded(e) == TRUE

\* _guard_seed: an unreadable seed stops targetctl; the page asks instead.
GuardSeed(e) == e \in Command => ~editor[e].seedProblem

\* cmd_add, and one row added on the page.
Add(e, u) ==
    /\ editor[e].at = "shown"
    /\ u \notin editor[e].table
    /\ GuardSeed(e)
    /\ Sends(e, editor[e].table \union {u}, {u}, FALSE,
             e \in Page /\ editor[e].seedProblem)

\* cmd_remove, and one row removed on the page. An empty list takes a flag or
\* a confirmation.
Remove(e, u) ==
    LET kept == editor[e].table \ {u} IN
    /\ editor[e].at = "shown"
    /\ u \in editor[e].table
    /\ GuardSeed(e)
    /\ Sends(e, kept, {u}, kept = {},
             kept = {} \/ (e \in Page /\ editor[e].seedProblem))

\* A script sends what it read of an answer it did not understand: nothing.
SendNothing(e) ==
    /\ e \in Command
    /\ editor[e].at = "closed"
    /\ Sends(e, {}, {}, FALSE, FALSE)

\* Fault: an empty list is a list.
AcceptsEmpty(e) == ReadStore.kind # "unusable"

\* do_PUT up to its write: a usable store under it, and no empty list without
\* the mark.
Accepts(e) ==
    /\ ReadStore.kind # "unusable"
    /\ editor[e].table = {} => editor[e].allowEmpty

PutCheck(e) ==
    /\ editor[e].at = "sent"
    /\ editor' = [editor EXCEPT ![e] =
                     IF Accepts(e) THEN [@ EXCEPT !.at = "checked"] ELSE GivenUp(e)]
    /\ UNCHANGED <<Files, Monitor, Ghosts>>

\* Refused for its token or its body, the disk's error, a lost connection: the
\* tmp file goes, the store stays.
PutFails(e) ==
    /\ editor[e].at \in {"sent", "checked"}
    /\ editor' = [editor EXCEPT ![e] = GivenUp(e)]
    /\ UNCHANGED <<Files, Monitor, Ghosts>>

Establish(urls) ==
    /\ inForce' = urls
    /\ unlisted' = IF round = Idle THEN {} ELSE unlisted \union (Url \ urls)

\* write_store: validate, then tmp file and rename. The page's table is now the
\* list; with the answer lost, the page does not know.
PutWrite(e) ==
    LET new == editor[e].table IN
    /\ editor[e].at = "checked"
    /\ ValidateAll(new, TRUE)
    /\ store' = ListOf(new)
    /\ Establish(new)
    /\ \/ editor' = [editor EXCEPT ![e] = GivenUp(e)]
       \/ /\ e \in Page
          /\ editor' = [editor EXCEPT ![e] =
                 [Closed EXCEPT !.at = "shown", !.table = new, !.truth = new]]
    /\ UNCHANGED <<defect, seed, handEdits, Monitor>>

\* The operator, or an accident, at the files themselves. An unusable file
\* establishes nothing.
HandEdit ==
    /\ handEdits < MaxHandEdits
    /\ handEdits' = handEdits + 1
    /\ \E file \in {ListOf(urls) : urls \in SUBSET Url} \union {Missing, Unusable} :
          \/ store' = file /\ UNCHANGED seed
          \/ seed' = file /\ UNCHANGED store
    /\ CASE store'.kind = "list" /\ ValidateAll(store'.urls, FALSE) ->
               Establish(store'.urls)
         [] store'.kind = "missing" /\ seed'.kind = "list" -> Establish(seed'.urls)
         [] OTHER -> UNCHANGED Ghosts
    /\ UNCHANGED <<defect, editor, Monitor>>

-----------------------------------------------------------------------------
(*                                The monitor                              *)

\* The start of run_health_checks; a list that cannot be loaded ends it.
LoadRound ==
    /\ round = Idle
    /\ \/ /\ LoadTargets.kind = "list"
          /\ round' = [at |-> "probing", list |-> LoadTargets.urls]
          /\ run' = "going"
          /\ unlisted' = Url \ inForce
       \/ /\ LoadTargets.kind = "unusable"
          /\ run' = "failed"
          /\ UNCHANGED <<round, unlisted>>
    /\ UNCHANGED <<Files, editor, records, inForce>>

\* The gather: every check leaves a record, or raises and leaves none; an alert
\* that reaches nobody makes the run a failed one as well.
ProbeAll ==
    /\ round.at = "probing"
    /\ \E raised \in SUBSET round.list, undelivered \in BOOLEAN :
          /\ records' = records \union (round.list \ raised)
          /\ run' = IF raised = {} /\ ~undelivered THEN "clean" ELSE "failed"
    /\ round' = [round EXCEPT !.at = "probed"]
    /\ UNCHANGED <<Files, editor, Ghosts>>

\* Fault: the list is read again, and whatever cannot be read is empty.
PruneReloaded == LoadTargets.urls

\* prune's list is the one the round was loaded with.
PruneList == round.list

\* prune, the heartbeat and _finish_run: a clean run sends the heartbeat and
\* exits 0.
EndRound ==
    /\ round.at = "probed"
    /\ records' = records \cap PruneList
    /\ round' = Idle
    /\ unlisted' = {}
    /\ UNCHANGED <<Files, editor, run, inForce>>

\* Killed: nothing is pruned.
KillRound ==
    /\ round # Idle
    /\ round' = Idle
    /\ run' = "failed"
    /\ unlisted' = {}
    /\ UNCHANGED <<Files, editor, records, inForce>>

ListNext ==
    \/ \E e \in Editor :
          \/ Show(e) \/ SendNothing(e) \/ PutCheck(e) \/ PutFails(e) \/ PutWrite(e)
          \/ \E u \in Url : Add(e, u) \/ Remove(e, u)
    \/ HandEdit
    \/ LoadRound \/ ProbeAll \/ EndRound \/ KillRound

ListSpec == ListInit /\ [][ListNext]_listVars

\* The loop starts round after round, and not every one of them is killed.
ListFairness ==
    /\ WF_listVars(LoadRound)
    /\ SF_listVars(ProbeAll)
    /\ SF_listVars(EndRound)

FairListSpec == ListSpec /\ ListFairness

-----------------------------------------------------------------------------
(*                                Properties                               *)

ListTypeOK ==
    /\ defect \in [Odd -> {"loose", "unset"}]
    /\ seed \in File
    /\ store \in File
    /\ editor \in [Editor -> EditorState]
    /\ records \subseteq Url
    /\ round \in [at : {"idle", "probing", "probed"}, list : SUBSET Url]
    /\ run \in {"going", "clean", "failed"}
    /\ handEdits \in 0..MaxHandEdits
    /\ inForce \subseteq Url
    /\ unlisted \subseteq Url

\* e's PUT replaces the store in this step.
Writes(e) == editor[e].at = "checked" /\ inForce' # inForce /\ editor'[e].at # "checked"

\* A save changes the one target it is about and nothing else of the list that
\* was in force when the editor read it, seed or store, unless the person said
\* that it replaces the list (GET's answer to "no store", seed_error,
\* _guard_seed, the page's confirmation).
SavesOneEdit ==
    [][\A e \in Editor :
          Writes(e) => \/ editor[e].meant
                       \/ \A u \in Url \ editor[e].edited :
                             u \in inForce' <=> u \in editor[e].truth]_listVars

\* The list is emptied, and every target left unwatched, only by someone who
\* meant it (allow_empty).
EmptiedOnPurpose ==
    [][\A e \in Editor : Writes(e) /\ inForce' = {} => editor[e].meant]_listVars

\* What the file holds loads, and gives the operator's list.
LoadsInForce == LoadTargets.kind = "list" /\ LoadTargets.urls = inForce

\* What a save stores, the monitor can load: an entry that would end every
\* round is refused at the save (validate_all against load_targets).
SavedListLoads == [][\A e \in Editor : Writes(e) => LoadsInForce']_listVars

\* A record, and the alert it may owe, is dropped only for a target that was
\* out of force at some moment since the round began: never because a list was
\* unreadable, stale or edited half way through the round (prune).
DroppedWasRemoved ==
    [][records \ records' \subseteq unlisted]_listVars

\* A run that exits 0 and sends the heartbeat has watched every target that was
\* in force all along.
CleanRunWatchedAll ==
    [][round # Idle /\ round' = Idle /\ run' = "clean"
          => Url \ unlisted \subseteq records']_listVars

\* An edit takes effect: as long as the monitor can load its list, a target that
\* stays in force is probed again and again, and one that was removed leaves no
\* record behind.
EditsTakeEffect ==
    \A u \in Url :
        /\ <>[](LoadTargets.kind = "list" /\ u \in inForce)
              => []<>(u \in round.list)
        /\ <>[](LoadTargets.kind = "list" /\ u \notin inForce)
              => <>[](u \notin records)

=============================================================================
