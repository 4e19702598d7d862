-------------------------- MODULE TargetList_proofs --------------------------
(***************************************************************************)
(* Theorems about TargetList, for any URLs, pages, commands and hand       *)
(* edits: what a save may change, what the monitor loads after it, and     *)
(* what pruning and the exit code of a run may rely on.                    *)
(***************************************************************************)
EXTENDS TargetList, TLAPS

-----------------------------------------------------------------------------
(*                          The inductive invariant                        *)

\* An editor's table is the list that was in force when it was read, but for
\* the edits; a read that could not tell (seed_error) is only ever sent back by
\* someone who means it, and so is an empty list.
EditorOK(r) ==
    /\ r \in EditorState
    /\ r.at = "closed" => r.table = {} /\ ~r.seedProblem
    /\ r.allowEmpty => r.meant
    /\ r.at = "checked" /\ r.table = {} => r.allowEmpty
    /\ r.at \in {"sent", "checked"} /\ r.seedProblem => r.meant
    /\ r.seedProblem \/ \A u \in Url \ r.edited : u \in r.table <=> u \in r.truth

EditorsOK == \A e \in Editor : EditorOK(editor[e])

\* Whatever file the monitor would load its list from holds the list in force.
FileInForce ==
    /\ ReadStore.kind = "list" => inForce = store.urls
    /\ store.kind = "missing" /\ seed.kind = "list" => inForce = seed.urls

\* The list of the round under way lacks only what was out of force meanwhile.
RoundListed == round # Idle => Url \ round.list \subseteq unlisted

\* A run that is clean before the pruning has a record of its whole list.
ListWatched == round.at = "probed" /\ run = "clean" => round.list \subseteq records

ListInv == ListTypeOK /\ EditorsOK /\ FileInForce /\ RoundListed /\ ListWatched

-----------------------------------------------------------------------------
(*                                The editors                              *)

\* Reading a list that some file holds: it is the one in force.
LEMMA ReadsInForce ==
    ASSUME ListInv, ReadStore.kind # "unusable"
    PROVE  /\ ReadStore.kind = "list" => ReadStore.urls = inForce
           /\ ReadStore.kind # "list" /\ ~ReadSeed.problem => ReadSeed.urls = inForce
           /\ ReadStore.kind \in {"missing", "list"}
           /\ ReadStore.urls \subseteq Url
           /\ ReadSeed.urls \subseteq Url
           /\ ReadSeed.problem \in BOOLEAN
<1>1. store \in File /\ seed \in File
    BY DEF ListInv, ListTypeOK
<1>2. ReadStore = store
    BY DEF ReadStore, Unusable
<1>3. ReadStore.kind \in {"missing", "list"} /\ ReadStore.urls \subseteq Url
    BY <1>1, <1>2 DEF File
<1>4. ReadStore.kind = "list" => ReadStore.urls = inForce
    BY <1>2 DEF ListInv, FileInForce
<1>5. CASE seed.kind = "list" /\ ValidateAll(seed.urls, FALSE)
  <2>1. ReadSeed.urls = seed.urls /\ ReadSeed.problem = FALSE
      BY <1>5 DEF ReadSeed
  <2>2. ReadStore.kind # "list" => store.kind = "missing"
      BY <1>2, <1>3
  <2>3. ReadStore.kind # "list" => inForce = seed.urls
      BY <1>5, <2>2 DEF ListInv, FileInForce
  <2> QED BY <1>1, <1>3, <1>4, <2>1, <2>3 DEF File
<1>6. CASE ~(seed.kind = "list" /\ ValidateAll(seed.urls, FALSE))
  <2>1. ReadSeed.urls = {} /\ ReadSeed.problem = TRUE
      BY <1>6, Zenon DEF ReadSeed
  <2> QED BY <1>3, <1>4, <2>1
<1> QED BY <1>5, <1>6

\* An editor that is closed, or gives up, is in order.
LEMMA QuietRecords ==
    /\ EditorOK(Closed)
    /\ \A e \in Editor : EditorOK(editor[e]) => EditorOK(GivenUp(e))
<1>1. EditorOK(Closed)
  <2>1. Closed \in EditorState
      BY DEF Closed, EditorState
  <2>2. Closed.at = "closed" /\ Closed.table = {} /\ Closed.truth = {}
      BY DEF Closed
  <2>3. ~Closed.allowEmpty /\ ~Closed.seedProblem
      BY DEF Closed
  <2> QED BY <2>1, <2>2, <2>3 DEF EditorOK
<1>2. ASSUME NEW e \in Editor, EditorOK(editor[e])
      PROVE  EditorOK(GivenUp(e))
  <2>1. CASE e \in Page
    <3> DEFINE r == [editor[e] EXCEPT !.at = "shown", !.allowEmpty = FALSE,
                                      !.meant = FALSE]
    <3>1. editor[e] \in EditorState
        BY <1>2 DEF EditorOK
    <3>2. r \in EditorState
        BY <3>1 DEF EditorState
    <3>3. /\ r.at = "shown" /\ r.table = editor[e].table
          /\ r.edited = editor[e].edited /\ r.truth = editor[e].truth
        BY <3>1 DEF EditorState
    <3>4. ~r.allowEmpty
        BY <3>1 DEF EditorState
    <3>5. r.seedProblem = editor[e].seedProblem
        BY <3>1 DEF EditorState
    <3>6. GivenUp(e) = r
        BY <2>1 DEF GivenUp
    <3> HIDE DEF r
    <3>7. EditorOK(r)
        BY <1>2, <3>2, <3>3, <3>4, <3>5 DEF EditorOK
    <3> QED BY <3>6, <3>7
  <2>2. CASE e \notin Page
      BY <1>1, <2>2 DEF GivenUp
  <2> QED BY <2>1, <2>2
<1> QED BY <1>1, <1>2

\* What the editors do short of replacing the store.
Quiet(e) ==
    \/ Show(e) \/ SendNothing(e) \/ PutCheck(e) \/ PutFails(e)
    \/ \E u \in Url : Add(e, u) \/ Remove(e, u)

\* Sends, of a table that differs by its edits only.
LEMMA SendsInOrder ==
    ASSUME ListInv, NEW e \in Editor, NEW urls \in SUBSET Url,
           NEW edits \in SUBSET Url, NEW allowEmpty \in BOOLEAN,
           NEW meant \in BOOLEAN,
           Sends(e, urls, edits, allowEmpty, meant),
           \A u \in Url \ edits : u \in urls <=> u \in editor[e].table,
           allowEmpty => meant,
           editor[e].seedProblem => meant
    PROVE  \E r : EditorOK(r) /\ editor' = [editor EXCEPT ![e] = r]
<1> DEFINE old == editor[e]
           r == [old EXCEPT !.at = "sent", !.table = urls,
                            !.edited = @ \union edits,
                            !.allowEmpty = allowEmpty, !.meant = meant]
<1>1. editor \in [Editor -> EditorState] /\ EditorOK(old)
    BY DEF ListInv, ListTypeOK, EditorsOK
<1>2. old \in EditorState
    BY <1>1
<1>3. old.edited \union edits \in SUBSET Url
    BY <1>2 DEF EditorState
<1>4. editor' = [editor EXCEPT ![e] = r]
    BY <1>1, <1>2 DEF Sends, EditorState
<1>5. r \in EditorState
    BY <1>2, <1>3 DEF EditorState
<1>6. /\ r.at = "sent" /\ r.table = urls /\ r.edited = old.edited \union edits
      /\ r.truth = old.truth
    BY <1>2 DEF EditorState
<1>7. r.allowEmpty = allowEmpty /\ r.meant = meant /\ r.seedProblem = old.seedProblem
    BY <1>2, Zenon DEF EditorState
<1> HIDE DEF r
<1>8. old.seedProblem \/ \A u \in Url \ old.edited : u \in old.table <=> u \in old.truth
    BY <1>1 DEF EditorOK
<1>9. r.seedProblem \/ \A u \in Url \ r.edited : u \in r.table <=> u \in r.truth
    BY <1>6, <1>7, <1>8
<1>10. EditorOK(r)
    BY <1>5, <1>6, <1>7, <1>9 DEF EditorOK
<1> QED BY <1>4, <1>10

\* Every quiet step leaves its editor in order and the rest alone.
LEMMA QuietStep ==
    ASSUME ListInv, NEW e \in Editor, Quiet(e)
    PROVE  /\ \E r : EditorOK(r) /\ editor' = [editor EXCEPT ![e] = r]
           /\ UNCHANGED <<Files, Monitor, Ghosts>>
<1>1. editor \in [Editor -> EditorState] /\ EditorOK(editor[e])
    BY DEF ListInv, ListTypeOK, EditorsOK
<1>2. UNCHANGED <<Files, Monitor, Ghosts>>
    BY DEF Quiet, Show, SendNothing, PutCheck, PutFails, Add, Remove, Sends
<1>3. CASE Show(e)
  <2> DEFINE table == IF ReadStore.kind = "list" THEN ReadStore.urls ELSE ReadSeed.urls
             problem == ReadStore.kind = "missing" /\ ReadSeed.problem
             r == [Closed EXCEPT !.at = "shown", !.table = table,
                                 !.seedProblem = problem, !.truth = inForce]
  <2>1. ReadStore.kind # "unusable"
      BY <1>3 DEF Show
  <2>2. table \in SUBSET Url
      BY <2>1, ReadsInForce
  <2>3. problem \in BOOLEAN
      BY Zenon
  <2>4. inForce \in SUBSET Url
      BY DEF ListInv, ListTypeOK
  <2>5. ReadStore.kind # "list" => ReadStore.kind = "missing"
      BY <2>1, ReadsInForce
  <2>6. ~problem => table = inForce
      BY <2>1, <2>5, ReadsInForce
  <2>7. Closed \in EditorState
      BY QuietRecords DEF EditorOK
  <2> HIDE DEF table, problem
  <2>8. r \in EditorState
      BY <2>2, <2>3, <2>4, <2>7 DEF EditorState
  <2>9. r.at = "shown" /\ r.table = table /\ r.truth = inForce
      BY <2>7 DEF EditorState
  <2>10. r.seedProblem = problem /\ r.allowEmpty = FALSE
      BY Zenon DEF Closed
  <2>11. editor' = [editor EXCEPT ![e] = r]
      BY <1>3, Zenon DEF Show, table, problem
  <2> HIDE DEF r
  <2>12. EditorOK(r)
      BY <2>6, <2>8, <2>9, <2>10 DEF EditorOK
  <2> QED BY <1>2, <2>11, <2>12
<1>4. CASE SendNothing(e)
  <2>1. Sends(e, {}, {}, FALSE, FALSE)
      BY <1>4 DEF SendNothing
  <2>2. editor[e].table = {} /\ ~editor[e].seedProblem
      BY <1>1, <1>4 DEF SendNothing, EditorOK
  <2>3. \A u \in Url \ {} : u \in {} <=> u \in editor[e].table
      BY <2>2
  <2> QED BY <1>2, <2>1, <2>2, <2>3, SendsInOrder
<1>5. CASE PutCheck(e)
  <2>1. CASE Accepts(e)
    <3> DEFINE r == [editor[e] EXCEPT !.at = "checked"]
    <3>1. /\ editor[e].table = {} => editor[e].allowEmpty
          /\ editor[e].at = "sent"
        BY <1>5, <2>1 DEF PutCheck, Accepts
    <3>2. r \in EditorState /\ r.at = "checked"
        BY <1>1 DEF EditorState
    <3>3. /\ r.table = editor[e].table /\ r.edited = editor[e].edited
          /\ r.truth = editor[e].truth
        BY <1>1 DEF EditorState
    <3>4. /\ r.allowEmpty = editor[e].allowEmpty /\ r.meant = editor[e].meant
          /\ r.seedProblem = editor[e].seedProblem
        BY <1>1, Zenon DEF EditorState
    <3>5. editor' = [editor EXCEPT ![e] = r]
        BY <1>1, <1>5, <2>1 DEF PutCheck
    <3> HIDE DEF r
    <3>6. EditorOK(r)
        BY <1>1, <3>1, <3>2, <3>3, <3>4 DEF EditorOK
    <3> QED BY <1>2, <3>5, <3>6
  <2>2. CASE ~Accepts(e)
      BY <1>1, <1>2, <1>5, <2>2, QuietRecords DEF PutCheck
  <2> QED BY <2>1, <2>2
<1>6. CASE PutFails(e)
    BY <1>1, <1>2, <1>6, QuietRecords DEF PutFails
<1>7. ASSUME NEW u \in Url, Add(e, u)
      PROVE  \E r : EditorOK(r) /\ editor' = [editor EXCEPT ![e] = r]
  <2> DEFINE meant == e \in Page /\ editor[e].seedProblem
             urls == editor[e].table \union {u}
             empty == FALSE
  <2>1. Sends(e, urls, {u}, empty, meant)
      BY <1>7, Zenon DEF Add
  <2>2. meant \in BOOLEAN /\ empty \in BOOLEAN /\ (empty => meant)
      BY Zenon
  <2>3. urls \in SUBSET Url
      BY <1>1 DEF EditorState
  <2>4. editor[e].seedProblem => meant
      BY <1>7 DEF Add, GuardSeed, Editor
  <2>5. \A v \in Url \ {u} : v \in urls <=> v \in editor[e].table
      OBVIOUS
  <2> HIDE DEF meant, urls, empty
  <2> QED BY <2>1, <2>2, <2>3, <2>4, <2>5, SendsInOrder
<1>8. ASSUME NEW u \in Url, Remove(e, u)
      PROVE  \E r : EditorOK(r) /\ editor' = [editor EXCEPT ![e] = r]
  <2> DEFINE urls == editor[e].table \ {u}
             empty == urls = {}
             meant == empty \/ (e \in Page /\ editor[e].seedProblem)
  <2>1. Sends(e, urls, {u}, empty, meant)
      BY <1>8, Zenon DEF Remove
  <2>2. meant \in BOOLEAN /\ empty \in BOOLEAN
      BY Zenon
  <2>3. urls \in SUBSET Url
      BY <1>1 DEF EditorState
  <2>4. editor[e].seedProblem => meant
      BY <1>8 DEF Remove, GuardSeed, Editor
  <2>5. \A v \in Url \ {u} : v \in urls <=> v \in editor[e].table
      OBVIOUS
  <2>6. empty => meant
      OBVIOUS
  <2> HIDE DEF meant, urls, empty
  <2> QED BY <2>1, <2>2, <2>3, <2>4, <2>5, <2>6, SendsInOrder
<1> QED BY <1>2, <1>3, <1>4, <1>5, <1>6, <1>7, <1>8 DEF Quiet


-----------------------------------------------------------------------------
(*                              The whole system                           *)

\* An editor's step keeps every editor in order.
LEMMA EditorWritten ==
    ASSUME ListInv, NEW e \in Editor, NEW r, EditorOK(r),
           editor' = [editor EXCEPT ![e] = r]
    PROVE  EditorsOK' /\ editor' \in [Editor -> EditorState]
<1>1. editor \in [Editor -> EditorState] /\ EditorsOK
    BY DEF ListInv, ListTypeOK
<1>2. r \in EditorState
    BY DEF EditorOK
<1>3. \A f \in Editor : editor'[f] = IF f = e THEN r ELSE editor[f]
    BY <1>1
<1> QED BY <1>1, <1>2, <1>3 DEF EditorsOK

\* A list the store accepts and the monitor can load is read back as it is.
LEMMA SavedIsRead ==
    ASSUME NEW urls \in SUBSET Url, ValidateAll(urls, TRUE)
    PROVE  /\ ListOf(urls).kind = "list" /\ ListOf(urls).urls = urls
           /\ ListOf(urls) \in File
           /\ urls \cap Loose = {} /\ urls \cap Unset = {}
BY DEF ListOf, File, ValidateAll

\* What PutWrite does besides its editor.
LEMMA SaveStep ==
    ASSUME ListInv, NEW e \in Editor, PutWrite(e)
    PROVE  /\ \E r : EditorOK(r) /\ editor' = [editor EXCEPT ![e] = r]
           /\ editor[e].at = "checked"
           /\ editor[e].table \in SUBSET Url
           /\ ValidateAll(editor[e].table, TRUE)
           /\ store' = ListOf(editor[e].table)
           /\ inForce' = editor[e].table
           /\ unlisted \subseteq unlisted' \/ round = Idle
           /\ unlisted' \subseteq Url
           /\ UNCHANGED <<defect, seed, handEdits, Monitor>>
<1> DEFINE new == editor[e].table
<1>1. editor \in [Editor -> EditorState] /\ EditorOK(editor[e])
    BY DEF ListInv, ListTypeOK, EditorsOK
<1>2. new \in SUBSET Url
  <2>1. editor[e] \in EditorState
      BY <1>1 DEF EditorOK
  <2> QED BY <2>1 DEF EditorState
<1>3. ASSUME editor' = [editor EXCEPT ![e] = GivenUp(e)]
      PROVE  \E r : EditorOK(r) /\ editor' = [editor EXCEPT ![e] = r]
    BY <1>1, <1>3, QuietRecords
<1>4. ASSUME editor' = [editor EXCEPT ![e] =
                 [Closed EXCEPT !.at = "shown", !.table = new, !.truth = new]]
      PROVE  \E r : EditorOK(r) /\ editor' = [editor EXCEPT ![e] = r]
  <2> DEFINE r == [Closed EXCEPT !.at = "shown", !.table = new, !.truth = new]
  <2>1. Closed \in EditorState
      BY QuietRecords DEF EditorOK
  <2>2. r \in EditorState /\ r.at = "shown" /\ r.table = r.truth
      BY <1>2, <2>1 DEF EditorState
  <2>3. r.allowEmpty = FALSE
      BY Zenon DEF Closed
  <2>4. editor' = [editor EXCEPT ![e] = r]
      BY <1>4
  <2> HIDE DEF r
  <2>5. EditorOK(r)
      BY <2>2, <2>3 DEF EditorOK
  <2> QED BY <2>4, <2>5
<1>5. \E r : EditorOK(r) /\ editor' = [editor EXCEPT ![e] = r]
    BY <1>3, <1>4 DEF PutWrite
<1>6. unlisted \subseteq Url
    BY DEF ListInv, ListTypeOK
<1>7. /\ unlisted \subseteq unlisted' \/ round = Idle
      /\ unlisted' \subseteq Url
    BY <1>6 DEF PutWrite, Establish
<1> QED BY <1>2, <1>5, <1>7 DEF PutWrite, Establish

\* Whatever list the monitor can load is the list in force.
LEMMA LoadOfFile ==
    ASSUME ListInv, LoadTargets.kind = "list"
    PROVE  LoadTargets.urls = inForce
<1>1. store \in File /\ FileInForce
    BY DEF ListInv, ListTypeOK
<1>2. ReadStore.kind # "unusable"
    BY DEF LoadTargets, Unusable
<1>3. ReadStore = store
    BY <1>2 DEF ReadStore, Unusable
<1>4. CASE ReadStore.kind = "missing"
  <2>1. LoadTargets = SeedTargets
      BY <1>4 DEF LoadTargets
  <2>2. SeedTargets = seed /\ seed.kind = "list"
      BY <2>1 DEF SeedTargets, Unusable
  <2> QED BY <1>1, <1>3, <1>4, <2>1, <2>2 DEF FileInForce
<1>5. CASE ReadStore.kind = "list"
  <2>1. LoadTargets = IF ReadStore.urls \cap Unset = {} THEN ReadStore ELSE Unusable
      BY <1>5 DEF LoadTargets
  <2>2. LoadTargets = ReadStore
      BY <2>1 DEF Unusable
  <2> QED BY <1>1, <1>3, <1>5, <2>2 DEF FileInForce
<1>6. ReadStore.kind \in {"missing", "unusable", "list"}
    BY <1>1, <1>3 DEF File
<1> QED BY <1>2, <1>4, <1>5, <1>6

\* ListInv is inductive.
LEMMA ListInductive ==
    /\ ListInit => ListInv
    /\ ListInv /\ [ListNext]_listVars => ListInv'
<1>1. ASSUME ListInit
      PROVE  ListInv
  <2>1. Closed \in EditorState /\ EditorOK(Closed)
      BY QuietRecords DEF EditorOK
  <2>2. seed \in File /\ store \in File
      BY <1>1 DEF ListInit, ListOf, Missing, Unusable, File
  <2>3. ListTypeOK
      BY <1>1, <2>1, <2>2, TargetListAssumption
      DEF ListInit, Idle, ListTypeOK, File
  <2>4. EditorsOK
      BY <1>1, <2>1 DEF ListInit, EditorsOK
  <2>5. FileInForce
      BY <1>1 DEF ListInit, FileInForce, ReadStore, Missing
  <2>6. RoundListed /\ ListWatched
      BY <1>1 DEF ListInit, Idle, RoundListed, ListWatched
  <2> QED BY <2>3, <2>4, <2>5, <2>6 DEF ListInv
<1>2. ASSUME ListInv, [ListNext]_listVars
      PROVE  ListInv'
  <2> USE <1>2
  <2>1. ListTypeOK /\ EditorsOK /\ FileInForce /\ RoundListed /\ ListWatched
      BY DEF ListInv
  <2>2. ASSUME NEW e \in Editor, Quiet(e)
        PROVE  ListInv'
    <3>1. UNCHANGED <<Files, Monitor, Ghosts>>
        BY <2>2, QuietStep
    <3>2. EditorsOK' /\ editor' \in [Editor -> EditorState]
        BY <2>2, QuietStep, EditorWritten
    <3>3. ListTypeOK'
        BY <2>1, <3>1, <3>2 DEF ListTypeOK, Files, Monitor, Ghosts
    <3>4. FileInForce'
        BY <2>1, <3>1
        DEF FileInForce, ReadStore, ValidateAll, Loose, Unset, Files, Ghosts
    <3>5. RoundListed' /\ ListWatched'
        BY <2>1, <3>1 DEF RoundListed, ListWatched, Monitor, Ghosts
    <3> QED BY <3>2, <3>3, <3>4, <3>5 DEF ListInv
  <2>3. ASSUME NEW e \in Editor, PutWrite(e)
        PROVE  ListInv'
    <3> DEFINE new == editor[e].table
    <3>1. /\ new \in SUBSET Url /\ ValidateAll(new, TRUE)
          /\ store' = ListOf(new) /\ inForce' = new
          /\ unlisted \subseteq unlisted' \/ round = Idle
          /\ unlisted' \subseteq Url
          /\ UNCHANGED <<defect, seed, handEdits, records, round, run>>
        BY <2>3, SaveStep DEF Monitor
    <3>2. EditorsOK' /\ editor' \in [Editor -> EditorState]
        BY <2>3, SaveStep, EditorWritten
    <3>3. store' \in File /\ store'.kind = "list" /\ store'.urls = new
        BY <3>1, SavedIsRead
    <3>4. ListTypeOK'
        BY <2>1, <3>1, <3>2, <3>3 DEF ListTypeOK
    <3>5. FileInForce'
      <4>1. ReadStore'.kind = "list" => inForce' = store'.urls
          BY <3>1, <3>3
      <4>2. store'.kind # "missing"
          BY <3>3
      <4> QED BY <4>1, <4>2 DEF FileInForce
    <3>6. RoundListed' /\ ListWatched'
        BY <2>1, <3>1 DEF RoundListed, ListWatched
    <3> QED BY <3>2, <3>4, <3>5, <3>6 DEF ListInv
  <2>4. CASE HandEdit
    <3>1. PICK file \in {ListOf(urls) : urls \in SUBSET Url} \union {Missing, Unusable} :
              \/ store' = file /\ UNCHANGED seed
              \/ seed' = file /\ UNCHANGED store
        BY <2>4 DEF HandEdit
    <3>2. file \in File
        BY DEF ListOf, Missing, Unusable, File
    <3>3. store' \in File /\ seed' \in File
        BY <2>1, <3>1, <3>2 DEF ListTypeOK
    <3>4. UNCHANGED <<defect, editor, records, round, run>>
        BY <2>4 DEF HandEdit, Monitor
    <3>5. handEdits' \in 0..MaxHandEdits
        BY <2>1, <2>4, TargetListAssumption DEF HandEdit, ListTypeOK
    <3>6. \/ /\ store'.kind = "list" /\ ValidateAll(store'.urls, FALSE)
             /\ Establish(store'.urls)
          \/ /\ ~(store'.kind = "list" /\ ValidateAll(store'.urls, FALSE))
             /\ store'.kind = "missing" /\ seed'.kind = "list"
             /\ Establish(seed'.urls)
          \/ /\ ~(store'.kind = "list" /\ ValidateAll(store'.urls, FALSE))
             /\ ~(store'.kind = "missing" /\ seed'.kind = "list")
             /\ UNCHANGED Ghosts
        BY <2>4 DEF HandEdit
    <3>7. /\ inForce' \subseteq Url /\ unlisted' \subseteq Url
          /\ round # Idle => unlisted \subseteq unlisted'
        BY <2>1, <3>3, <3>6 DEF Establish, Ghosts, ListTypeOK, File
    <3>8. ListTypeOK'
        BY <2>1, <3>3, <3>4, <3>5, <3>7 DEF ListTypeOK
    <3>9. EditorsOK'
        BY <2>1, <3>4 DEF EditorsOK
    <3>10. FileInForce'
      <4>1. Loose' = Loose
          BY <3>4 DEF Loose
      <4>2. ReadStore' = IF store'.kind = "list" /\ ~(store'.urls \cap Loose = {})
                         THEN Unusable ELSE store'
          BY <4>1 DEF ReadStore, ValidateAll
      <4>3. ReadStore'.kind = "list" =>
                /\ ReadStore' = store'
                /\ store'.kind = "list" /\ store'.urls \cap Loose = {}
          BY <4>2 DEF Unusable
      <4>4. ReadStore'.kind = "list" => inForce' = store'.urls
          BY <3>6, <4>3 DEF ValidateAll, Establish
      <4>5. store'.kind = "missing" /\ seed'.kind = "list" => inForce' = seed'.urls
          BY <3>6 DEF Establish
      <4> QED BY <4>4, <4>5 DEF FileInForce
    <3>11. RoundListed' /\ ListWatched'
        BY <2>1, <3>4, <3>7 DEF RoundListed, ListWatched
    <3> QED BY <3>8, <3>9, <3>10, <3>11 DEF ListInv
  <2>5. CASE LoadRound
    <3>1. UNCHANGED <<defect, seed, store, handEdits, editor, records, inForce>>
        BY <2>5 DEF LoadRound, Files
    <3>2. EditorsOK' /\ FileInForce'
        BY <2>1, <3>1
        DEF EditorsOK, FileInForce, ReadStore, ValidateAll, Loose, Unset
    <3>3. CASE LoadTargets.kind = "list" /\ round' # round
      <4>1. /\ round' = [at |-> "probing", list |-> LoadTargets.urls]
            /\ run' = "going"
            /\ unlisted' = Url \ inForce
          BY <2>5, <3>3 DEF LoadRound
      <4>2. LoadTargets.urls = inForce
          BY <3>3, LoadOfFile
      <4>3. inForce \in SUBSET Url
          BY <2>1 DEF ListTypeOK
      <4>4. round' \in [at : {"idle", "probing", "probed"}, list : SUBSET Url]
          BY <4>1, <4>2, <4>3
      <4>5. ListTypeOK'
          BY <2>1, <3>1, <4>1, <4>3, <4>4 DEF ListTypeOK
      <4>6. RoundListed'
          BY <4>1, <4>2 DEF RoundListed
      <4>7. ListWatched'
          BY <4>1 DEF ListWatched
      <4> QED BY <3>2, <4>5, <4>6, <4>7 DEF ListInv
    <3>4. CASE ~(LoadTargets.kind = "list" /\ round' # round)
      <4>1. run' \in {"going", "failed"} /\ round = Idle /\ round' = round
          BY <2>5, <3>4 DEF LoadRound
      <4>2. unlisted' \subseteq Url
          BY <2>1, <2>5 DEF LoadRound, ListTypeOK
      <4>3. ListTypeOK'
          BY <2>1, <3>1, <4>1, <4>2 DEF ListTypeOK
      <4>4. RoundListed' /\ ListWatched'
          BY <4>1 DEF RoundListed, ListWatched, Idle
      <4> QED BY <3>2, <4>3, <4>4 DEF ListInv
    <3> QED BY <3>3, <3>4
  <2>6. CASE ProbeAll
    <3>1. /\ UNCHANGED <<defect, seed, store, handEdits, editor, inForce, unlisted>>
          /\ round.at = "probing"
          /\ round' = [round EXCEPT !.at = "probed"]
        BY <2>6 DEF ProbeAll, Files, Ghosts
    <3>2. PICK raised \in SUBSET round.list, undelivered \in BOOLEAN :
              /\ records' = records \union (round.list \ raised)
              /\ run' = IF raised = {} /\ ~undelivered THEN "clean" ELSE "failed"
        BY <2>6 DEF ProbeAll
    <3>3. /\ round \in [at : {"idle", "probing", "probed"}, list : SUBSET Url]
          /\ records \subseteq Url
        BY <2>1 DEF ListTypeOK
    <3>4. /\ round' \in [at : {"idle", "probing", "probed"}, list : SUBSET Url]
          /\ round'.list = round.list
        BY <3>1, <3>3
    <3>5. records' \subseteq Url
        BY <3>2, <3>3
    <3>6. /\ run' \in {"clean", "failed"}
          /\ run' = "clean" => round.list \subseteq records'
        BY <3>2
    <3>7. ListTypeOK'
        BY <2>1, <3>1, <3>4, <3>5, <3>6 DEF ListTypeOK
    <3>8. round # Idle
        BY <3>1 DEF Idle
    <3>9. RoundListed' /\ ListWatched'
        BY <2>1, <3>1, <3>4, <3>6, <3>8 DEF RoundListed, ListWatched
    <3>10. EditorsOK' /\ FileInForce'
        BY <2>1, <3>1
        DEF EditorsOK, FileInForce, ReadStore, ValidateAll, Loose, Unset
    <3> QED BY <3>7, <3>9, <3>10 DEF ListInv
  <2>7. CASE EndRound \/ KillRound
    <3>1. /\ UNCHANGED <<defect, seed, store, handEdits, editor, inForce>>
          /\ round' = Idle /\ unlisted' = {}
          /\ records' \subseteq records
          /\ run' \in {run, "failed"}
        BY <2>7 DEF EndRound, KillRound, Files
    <3>2. Idle \in [at : {"idle", "probing", "probed"}, list : SUBSET Url]
        BY DEF Idle
    <3>3. ListTypeOK'
        BY <2>1, <3>1, <3>2 DEF ListTypeOK
    <3>4. RoundListed' /\ ListWatched'
        BY <3>1 DEF RoundListed, ListWatched, Idle
    <3>5. EditorsOK' /\ FileInForce'
        BY <2>1, <3>1
        DEF EditorsOK, FileInForce, ReadStore, ValidateAll, Loose, Unset
    <3> QED BY <3>3, <3>4, <3>5 DEF ListInv
  <2>8. CASE UNCHANGED listVars
      BY <2>1, <2>8
      DEF listVars, ListInv, ListTypeOK, EditorsOK, FileInForce, RoundListed,
          ListWatched, ReadStore, ValidateAll, Loose, Unset
  <2> QED BY <2>2, <2>3, <2>4, <2>5, <2>6, <2>7, <2>8 DEF ListNext, Quiet
<1> QED BY <1>1, <1>2

\* Every editor, file and round stays well-formed.
THEOREM ListTypeCorrect == ListSpec => []ListTypeOK
<1>1. ListSpec => []ListInv
    BY ListInductive, PTL DEF ListSpec
<1>2. ListInv => ListTypeOK
    BY DEF ListInv
<1> QED BY <1>1, <1>2, PTL

-----------------------------------------------------------------------------
(*                            What a save may change                       *)

\* A step that counts as a save of e is e's PutWrite.
LEMMA SavesAreWrites ==
    ASSUME ListInv, [ListNext]_listVars, NEW e \in Editor, Writes(e)
    PROVE  /\ PutWrite(e)
           /\ EditorOK(editor[e])
           /\ inForce' = editor[e].table
<1>1. inForce' # inForce /\ editor'[e].at # "checked" /\ editor[e].at = "checked"
    BY DEF Writes
<1>2. editor \in [Editor -> EditorState] /\ EditorOK(editor[e])
    BY DEF ListInv, ListTypeOK, EditorsOK
<1>3. ASSUME NEW f \in Editor, Quiet(f)
      PROVE  FALSE
    BY <1>1, <1>3, QuietStep DEF Ghosts
<1>4. ~HandEdit /\ ~LoadRound /\ ~ProbeAll /\ ~EndRound /\ ~KillRound
    BY <1>1 DEF HandEdit, LoadRound, ProbeAll, EndRound, KillRound, Ghosts
<1>5. ~(UNCHANGED listVars)
    BY <1>1 DEF listVars
<1>6. PICK f \in Editor : PutWrite(f)
    BY <1>3, <1>4, <1>5 DEF ListNext, Quiet
<1>7. f = e
  <2>1. PICK r : editor' = [editor EXCEPT ![f] = r]
      BY <1>6, SaveStep
  <2> QED BY <1>1, <1>2, <2>1
<1>8. inForce' = editor[e].table
    BY <1>6, <1>7, SaveStep
<1> QED BY <1>2, <1>6, <1>7, <1>8

\* Whatever the editors and the operator do, a save changes the targets its
\* edits are about and no others of the list that was in force at the read, or
\* its author said that it replaces the list (do_PUT, _guard_seed, saveTargets).
THEOREM SavesCorrect == ListSpec => SavesOneEdit
<1>1. ListSpec => []ListInv
    BY ListInductive, PTL DEF ListSpec
<1>2. ASSUME ListInv, [ListNext]_listVars, NEW e \in Editor, Writes(e)
      PROVE  \/ editor[e].meant
             \/ \A u \in Url \ editor[e].edited :
                   u \in inForce' <=> u \in editor[e].truth
  <2>1. EditorOK(editor[e]) /\ inForce' = editor[e].table
      BY <1>2, SavesAreWrites
  <2>2. editor[e].at = "checked"
      BY <1>2 DEF Writes
  <2> QED BY <2>1, <2>2 DEF EditorOK
<1>3. ListInv /\ [ListNext]_listVars =>
          [\A e \in Editor :
              Writes(e) => \/ editor[e].meant
                           \/ \A u \in Url \ editor[e].edited :
                                 u \in inForce' <=> u \in editor[e].truth]_listVars
    BY <1>2
<1> QED BY <1>1, <1>3, PTL DEF ListSpec, SavesOneEdit

\* The list becomes empty, and nothing is watched any more, only by a save whose
\* author said so (allow_empty).
THEOREM EmptiedCorrect == ListSpec => EmptiedOnPurpose
<1>1. ListSpec => []ListInv
    BY ListInductive, PTL DEF ListSpec
<1>2. ASSUME ListInv, [ListNext]_listVars, NEW e \in Editor, Writes(e),
             inForce' = {}
      PROVE  editor[e].meant
  <2>1. EditorOK(editor[e]) /\ inForce' = editor[e].table
      BY <1>2, SavesAreWrites
  <2>2. editor[e].at = "checked" /\ editor[e].table = {}
      BY <1>2, <2>1 DEF Writes
  <2> QED BY <2>1, <2>2 DEF EditorOK
<1>3. ListInv /\ [ListNext]_listVars =>
          [\A e \in Editor : Writes(e) /\ inForce' = {} => editor[e].meant]_listVars
    BY <1>2
<1> QED BY <1>1, <1>3, PTL DEF ListSpec, EmptiedOnPurpose

\* What a save stored, the monitor loads, as it was saved: write_store's
\* validation is at least as strict as load_targets'.
THEOREM SavedLoadCorrect == ListSpec => SavedListLoads
<1>1. ListSpec => []ListInv
    BY ListInductive, PTL DEF ListSpec
<1>2. ASSUME ListInv, [ListNext]_listVars, NEW e \in Editor, Writes(e)
      PROVE  LoadsInForce'
  <2> DEFINE new == editor[e].table
  <2>1. PutWrite(e)
      BY <1>2, SavesAreWrites
  <2>2. /\ new \in SUBSET Url /\ ValidateAll(new, TRUE)
        /\ store' = ListOf(new) /\ inForce' = new /\ defect' = defect
      BY <1>2, <2>1, SaveStep
  <2>3. /\ store'.kind = "list" /\ store'.urls = new
        /\ new \cap Loose = {} /\ new \cap Unset = {}
      BY <2>2, SavedIsRead
  <2>4. Loose' = Loose /\ Unset' = Unset
      BY <2>2 DEF Loose, Unset
  <2>5. ReadStore' = store'
      BY <2>3, <2>4 DEF ReadStore, ValidateAll
  <2>6. LoadTargets' = store'
      BY <2>3, <2>4, <2>5 DEF LoadTargets
  <2> QED BY <2>2, <2>3, <2>6 DEF LoadsInForce
<1>3. ListInv /\ [ListNext]_listVars =>
          [\A e \in Editor : Writes(e) => LoadsInForce']_listVars
    BY <1>2
<1> QED BY <1>1, <1>3, PTL DEF ListSpec, SavedListLoads

-----------------------------------------------------------------------------
(*                        What the monitor may rely on                     *)

\* Pruning, with the list the round began with, drops the record of a target
\* only if the operator had it out of force at some moment of that round,
\* however lists are saved, edited or damaged meanwhile.
THEOREM DroppedCorrect == ListSpec => DroppedWasRemoved
<1>1. ListSpec => []ListInv
    BY ListInductive, PTL DEF ListSpec
<1>2. ASSUME ListInv, [ListNext]_listVars
      PROVE  records \ records' \subseteq unlisted
  <2>1. RoundListed /\ records \subseteq Url
      BY <1>2 DEF ListInv, ListTypeOK
  <2>2. CASE EndRound
    <3>1. round # Idle /\ records' = records \cap round.list
        BY <2>2 DEF EndRound, PruneList, Idle
    <3> QED BY <2>1, <3>1 DEF RoundListed
  <2>3. CASE ~EndRound
    <3>1. ASSUME NEW e \in Editor, Quiet(e)
          PROVE  records' = records
        BY <1>2, <3>1, QuietStep DEF Monitor
    <3>2. ASSUME NEW e \in Editor, PutWrite(e)
          PROVE  records' = records
        BY <3>2 DEF PutWrite, Monitor
    <3>3. HandEdit \/ LoadRound \/ KillRound => records' = records
        BY DEF HandEdit, LoadRound, KillRound, Monitor
    <3>4. ProbeAll => records \subseteq records'
        BY DEF ProbeAll
    <3>5. UNCHANGED listVars => records' = records
        BY DEF listVars
    <3> QED BY <1>2, <2>3, <3>1, <3>2, <3>3, <3>4, <3>5 DEF ListNext, Quiet
  <2> QED BY <2>2, <2>3
<1>3. ListInv /\ [ListNext]_listVars => [records \ records' \subseteq unlisted]_listVars
    BY <1>2
<1> QED BY <1>1, <1>3, PTL DEF ListSpec, DroppedWasRemoved

\* A run that exits 0 and sends the heartbeat leaves a record of every target
\* that was in force all through it.
THEOREM CleanRunCorrect == ListSpec => CleanRunWatchedAll
<1>1. ListSpec => []ListInv
    BY ListInductive, PTL DEF ListSpec
<1>2. ASSUME ListInv, [ListNext]_listVars, round # Idle, round' = Idle, run' = "clean"
      PROVE  Url \ unlisted \subseteq records'
  <2>1. RoundListed /\ ListWatched
      BY <1>2 DEF ListInv
  <2>2. CASE EndRound
    <3>1. /\ round.at = "probed" /\ run = "clean"
          /\ records' = records \cap round.list
        BY <1>2, <2>2 DEF EndRound, PruneList
    <3> QED BY <1>2, <2>1, <3>1 DEF RoundListed, ListWatched
  <2>3. CASE ~EndRound
    <3>1. ASSUME NEW e \in Editor, Quiet(e)
          PROVE  FALSE
        BY <1>2, <3>1, QuietStep DEF Monitor
    <3>2. ASSUME NEW e \in Editor, PutWrite(e)
          PROVE  FALSE
        BY <1>2, <3>2 DEF PutWrite, Monitor
    <3>3. ~HandEdit /\ ~LoadRound /\ ~KillRound
        BY <1>2 DEF HandEdit, LoadRound, KillRound, Monitor
    <3>4. ~ProbeAll
      <4>1. round \in [at : {"idle", "probing", "probed"}, list : SUBSET Url]
          BY <1>2 DEF ListInv, ListTypeOK
      <4> QED BY <1>2, <4>1 DEF ProbeAll, Idle
    <3>5. ~(UNCHANGED listVars)
        BY <1>2 DEF listVars
    <3> QED BY <1>2, <2>3, <3>1, <3>2, <3>3, <3>4, <3>5 DEF ListNext, Quiet
  <2> QED BY <2>2, <2>3
<1>3. ListInv /\ [ListNext]_listVars =>
          [round # Idle /\ round' = Idle /\ run' = "clean"
              => Url \ unlisted \subseteq records']_listVars
    BY <1>2
<1> QED BY <1>1, <1>3, PTL DEF ListSpec, CleanRunWatchedAll

=============================================================================
