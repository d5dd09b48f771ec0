------------------------- MODULE ProjectImportProofs -------------------------
(***************************************************************************)
(* Proofs about ProjectImport, for any number of imports and requests: the *)
(* state is well typed, and imports and patches implement one append-only  *)
(* log together.  An import deletes assets, so of BPInv only what handlers *)
(* believe about the row is kept: InvFor({}).                              *)
(***************************************************************************)
EXTENDS ProjectImport, BuildPatchProofs

USE ImportAssumption

\* A started import has a project, and the version it read there.
ImportStates ==
  [pc : {"new"}] \cup [pc : ImportSteps \ {"new"}, project : Projects, version : Nat]

\* The inductive invariant.
ImportInv ==
  /\ InvFor({})
  /\ import \in [Imports -> ImportStates]
  /\ swept \subseteq AssetTxns

LEMMA StartedTyped ==
  ASSUME ImportInv, NEW i \in Imports, import[i].pc # "new"
  PROVE  /\ import[i] \in [pc : ImportSteps \ {"new"}, project : Projects, version : Nat]
         /\ import[i].project \in Projects
         /\ import[i].version \in Nat
PROOF BY DEF ImportInv, ImportStates

\* A started import that goes on to another step stays typed.
LEMMA GoesOn ==
  ASSUME ImportInv, NEW i \in Imports, import[i].pc # "new",
         NEW to \in ImportSteps \ {"new"},
         import' = [import EXCEPT ![i].pc = to]
  PROVE  import' \in [Imports -> ImportStates]
PROOF
  <1>1. [import[i] EXCEPT !.pc = to] \in ImportStates
    BY StartedTyped DEF ImportStates
  <1>2. import' = [import EXCEPT ![i] = [import[i] EXCEPT !.pc = to]]
    OBVIOUS
  <1> QED
    BY <1>1, <1>2 DEF ImportInv

LEMMA ImportInitInv ==
  ImportInit => ImportInv
PROOF
  <1> SUFFICES ASSUME ImportInit PROVE ImportInv
    OBVIOUS
  <1>1. {} \in SUBSET AssetTxns
    OBVIOUS
  <1>2. InvFor({})
    BY <1>1, BPInitInv DEF ImportInit
  <1>3. [pc |-> "new"] \in ImportStates
    BY DEF ImportStates
  <1> QED
    BY <1>2, <1>3 DEF ImportInit, ImportInv

\* What handlers believe about the row does not depend on the asset tables.
LEMMA QuietForHandlers ==
  ASSUME InvFor({}), UNCHANGED <<row, handler>>, assets' \in [Projects -> SUBSET Txns]
  PROVE  InvFor({})'
PROOF BY DEF InvFor, BPTypeOK, Present, InPlace, VersionAsRead, Matches, row

\* An import whose compare-and-set matches appends its entry to the log; every
\* handler that has read the row before is left behind by it.
LEMMA ReplaceRowEffect ==
  ASSUME ImportInv, NEW i \in Imports, ReplaceRow(i)
  PROVE  LET p == import[i].project
         IN  /\ p \in Projects /\ {i} \in SUBSET Txns
             /\ version' = [version EXCEPT ![p] = @ + 1]
             /\ content' = [content EXCEPT ![p] = Append(@, {i})]
             /\ lastTransactionId' \in [Projects -> Txns \cup {NoTxn}]
PROOF
  <1>1. import[i].project \in Projects /\ i \in Txns
    BY StartedTyped DEF ReplaceRow
  <1>2. version \in [Projects -> Nat] /\ lastTransactionId \in [Projects -> Txns \cup {NoTxn}]
    BY DEF ImportInv, InvFor, BPTypeOK
  <1> QED
    BY <1>1, <1>2 DEF ReplaceRow, SameVersion, NewTransactionId

LEMMA ReplaceRowStep ==
  ASSUME ImportInv, NEW i \in Imports, ReplaceRow(i)
  PROVE  InvFor({})'
PROOF
  <1> DEFINE p == import[i].project
  <1>1. /\ p \in Projects /\ {i} \in SUBSET Txns
        /\ version' = [version EXCEPT ![p] = @ + 1]
        /\ content' = [content EXCEPT ![p] = Append(@, {i})]
        /\ lastTransactionId' \in [Projects -> Txns \cup {NoTxn}]
    BY ReplaceRowEffect
  <1>2. UNCHANGED <<assets, handler>>
    BY DEF ReplaceRow
  <1>3. /\ version \in [Projects -> Nat]
        /\ content \in [Projects -> Seq(SUBSET Txns)]
        /\ BPTypeOK
    BY DEF ImportInv, InvFor, BPTypeOK
  <1> HIDE DEF p
  <1>4. BPTypeOK'
    <2>1. Append(content[p], {i}) \in Seq(SUBSET Txns)
      BY <1>1, <1>3
    <2> QED
      BY <1>1, <1>2, <1>3, <2>1 DEF BPTypeOK
  <1>5. ASSUME NEW k \in Handlers
        PROVE  VersionAsRead(handler[k])' /\ InPlace({}, handler[k])'
    <2>1. VersionAsRead(handler[k])
      BY DEF ImportInv, InvFor
    <2>2. handler[k].pc \in {"authorizing", "assets", "update"} =>
            handler[k].project \in Projects /\ handler[k].version \in Nat
      BY <1>3, BusyWhenStarted DEF Busy
    <2>3. \A q \in Projects \ {p} : version'[q] = version[q] /\ content'[q] = content[q]
      BY <1>1, <1>3
    <2>4. version'[p] = version[p] + 1
      BY <1>1, <1>3
    <2>5. VersionAsRead(handler[k])'
      BY <1>1, <1>2, <1>3, <2>1, <2>2, <2>3, <2>4 DEF VersionAsRead, Matches
    <2> QED
      BY <2>5 DEF InPlace
  <1>6. Present({})'
    BY DEF Present
  <1> QED
    BY <1>4, <1>5, <1>6 DEF InvFor

\* Deleting rows: none but those of assets, which may be swept.
LEMMA DeleteRowsEffect ==
  ASSUME ImportInv, NEW i \in Imports, import[i].pc # "new",
         NEW gone \in SUBSET AssetTxns, DeleteRows(i, gone)
  PROVE  assets' \in [Projects -> SUBSET Txns] /\ swept' \subseteq AssetTxns
PROOF
  <1>1. assets \in [Projects -> SUBSET Txns] /\ swept \subseteq AssetTxns
    BY DEF ImportInv, InvFor, BPTypeOK
  <1>2. import[i].project \in Projects
    BY StartedTyped
  <1> QED
    BY <1>1, <1>2 DEF DeleteRows

\* Every statement of an import, and every way it ends.
LEMMA ImportStepInv ==
  ASSUME ImportInv, NEW i \in Imports, ImportStep(i)
  PROVE  ImportInv'
PROOF
  <1>1. /\ InvFor({})
        /\ import \in [Imports -> ImportStates]
        /\ swept \subseteq AssetTxns
        /\ assets \in [Projects -> SUBSET Txns]
        /\ version \in [Projects -> Nat]
    BY DEF ImportInv, InvFor, BPTypeOK
  <1>2. ASSUME UNCHANGED <<row, handler>>, assets' \in [Projects -> SUBSET Txns],
               import' \in [Imports -> ImportStates], swept' \subseteq AssetTxns
        PROVE  ImportInv'
    BY <1>1, <1>2, QuietForHandlers DEF ImportInv
  <1>3. ASSUME NEW from \in ImportSteps \ {"new"}, NEW to \in ImportSteps \ {"new"},
               Statement(i, from, to)
        PROVE  import' \in [Imports -> ImportStates] /\ UNCHANGED <<row, handler>>
    BY <1>3, GoesOn DEF Statement
  <1>4. CASE \E p \in Projects : ImportLoad(i, p)
    <2>1. PICK p \in Projects : ImportLoad(i, p)
      BY <1>4
    <2>2. [pc |-> "loaded", project |-> p, version |-> version[p]] \in ImportStates
      BY <1>1 DEF ImportStates, ImportSteps
    <2> QED
      BY <1>1, <1>2, <2>1, <2>2 DEF ImportLoad, bpVars, row
  <1>5. CASE ImportSave(i) \/ ImportSaveFails(i)
    <2>1. ReplaceRow(i) /\ import[i].pc # "new"
      BY <1>5 DEF ImportSave, ImportSaveFails, ReplaceRow
    <2>2. PICK to \in {"saved", "broken"} : import' = [import EXCEPT ![i].pc = to]
      BY <1>5 DEF ImportSave, ImportSaveFails
    <2>3. import' \in [Imports -> ImportStates]
      BY <2>1, <2>2, GoesOn DEF ImportSteps
    <2>4. swept' = swept
      BY <2>1 DEF ReplaceRow
    <2> QED
      BY <1>1, <2>1, <2>3, <2>4, ReplaceRowStep DEF ImportInv
  <1>6. CASE ImportRefused(i)
    <2>1. import' \in [Imports -> ImportStates]
      BY <1>6, GoesOn DEF ImportRefused, ImportSteps
    <2> QED
      BY <1>1, <1>2, <1>6, <2>1 DEF ImportRefused, bpVars, row
  <1>7. CASE ResetPreviewImage(i) \/ InsertFolders(i) \/ ImportDone(i)
    BY <1>1, <1>2, <1>3, <1>7 DEF ResetPreviewImage, InsertFolders, ImportDone, ImportSteps
  <1>8. CASE DeleteAssets(i)
    <2>1. import[i].pc # "new" /\ DeleteRows(i, AssetTxns \ FolderTxns)
      BY <1>8 DEF DeleteAssets, Statement
    <2>2. assets' \in [Projects -> SUBSET Txns] /\ swept' \subseteq AssetTxns
      BY <2>1, DeleteRowsEffect
    <2> QED
      BY <1>2, <1>3, <1>8, <2>2 DEF DeleteAssets, ImportSteps
  <1>9. CASE DeleteFolders(i)
    <2>1. import[i].pc # "new" /\ DeleteRows(i, FolderTxns) /\ FolderTxns \subseteq AssetTxns
      BY <1>9 DEF DeleteFolders, Statement
    <2>2. assets' \in [Projects -> SUBSET Txns] /\ swept' \subseteq AssetTxns
      BY <2>1, DeleteRowsEffect
    <2> QED
      BY <1>2, <1>3, <1>9, <2>2 DEF DeleteFolders, ImportSteps
  <1>10. CASE InsertAssets(i)
    <2>1. import[i].pc # "new" /\ i \in Txns
      BY <1>10 DEF InsertAssets, Statement
    <2>2. import[i].project \in Projects
      BY <2>1, StartedTyped
    <2>3. assets' \in [Projects -> SUBSET Txns] /\ swept' = swept
      BY <1>1, <1>10, <2>1, <2>2 DEF InsertAssets
    <2> QED
      BY <1>1, <1>2, <1>3, <1>10, <2>3 DEF InsertAssets, ImportSteps
  <1>11. CASE ImportBreaks(i)
    <2>1. import[i].pc # "new"
      BY <1>11 DEF ImportBreaks, Replacing
    <2>2. PICK to \in {"refused", "broken"} : import' = [import EXCEPT ![i].pc = to]
      BY <1>11 DEF ImportBreaks
    <2>3. import' \in [Imports -> ImportStates]
      BY <2>1, <2>2, GoesOn DEF ImportSteps
    <2> QED
      BY <1>1, <1>2, <1>11, <2>3 DEF ImportBreaks, bpVars, row
  <1> QED
    BY <1>4, <1>5, <1>6, <1>7, <1>8, <1>9, <1>10, <1>11 DEF ImportStep

LEMMA ImportNextInv ==
  ImportInv /\ [ImportNext]_vars => ImportInv'
PROOF
  <1> SUFFICES ASSUME ImportInv, [ImportNext]_vars
               PROVE  ImportInv'
    OBVIOUS
  <1>1. CASE [BPNext]_bpVars /\ UNCHANGED importVars
    <2>1. InvFor({})'
      BY <1>1, BPNextInv, {} \in SUBSET AssetTxns DEF ImportInv
    <2> QED
      BY <1>1, <2>1 DEF ImportInv, importVars
  <1>2. CASE \E i \in Imports : ImportStep(i)
    BY <1>2, ImportStepInv
  <1> QED
    BY <1>1, <1>2 DEF ImportNext, vars

\* What requests and imports believe about the row stays true for as long as their
\* compare-and-set can succeed, whatever an import deletes meanwhile.
THEOREM ImportInvariant == ImportSpec => []ImportInv
PROOF BY ImportInitInv, ImportNextInv, PTL DEF ImportSpec

\* Every variable stays in its type, for any number of imports and requests.
THEOREM ImportTypeCorrect == ImportSpec => []ImportTypeOK
PROOF
  <1>1. ImportInv => ImportTypeOK
    BY DEF ImportInv, InvFor, ImportTypeOK, ImportStates, ImportSteps
  <1> QED
    BY <1>1, ImportInvariant, PTL

-----------------------------------------------------------------------------

\* A step of an import saves one entry, or leaves the log as it is.
LEMMA ImportStepImplementsLog ==
  ASSUME ImportInv, NEW i \in Imports, ImportStep(i)
  PROVE  Log!LogNext \/ UNCHANGED <<version, content>>
PROOF
  <1>1. CASE ReplaceRow(i)
    BY <1>1, ReplaceRowEffect DEF Log!LogNext, Log!Save
  <1>2. CASE ~ ReplaceRow(i)
    BY <1>2 DEF ImportStep, ImportLoad, ImportSave, ImportSaveFails, ImportRefused,
                ResetPreviewImage, DeleteAssets, DeleteFolders, InsertFolders,
                InsertAssets, ImportDone, ImportBreaks, Statement, row, bpVars
  <1> QED
    BY <1>1, <1>2

\* Two writers with opposite orders of writing still share one append-only log: an
\* import replaces the version it loaded and no other, and no patch computed before
\* an import is saved over it.
THEOREM ImportsImplementLog == ImportSpec => ImportLogSpec
PROOF
  <1>1. ImportInit => Log!LogInit
    BY DEF ImportInit, BPInit, Log!LogInit
  <1>2. ImportInv /\ [ImportNext]_vars => [Log!LogNext]_(Log!logVars)
    <2> SUFFICES ASSUME ImportInv, [ImportNext]_vars
                 PROVE  [Log!LogNext]_(Log!logVars)
      OBVIOUS
    <2>1. CASE [BPNext]_bpVars
      BY <2>1, StepImplementsLog DEF ImportInv
    <2>2. CASE \E i \in Imports : ImportStep(i)
      BY <2>2, ImportStepImplementsLog DEF Log!logVars
    <2> QED
      BY <2>1, <2>2 DEF ImportNext, vars
  <1> QED
    BY <1>1, <1>2, ImportInvariant, PTL DEF ImportSpec, ImportLogSpec, Log!LogSpec

-----------------------------------------------------------------------------
(* What is told to have been saved is shown. *)

\* What the project shows after one more entry: all of that entry, none of what an
\* import replaces, and nothing that was not shown before.
OneMore(log, b) ==
  LET new == Append(log, b) IN
  /\ b \subseteq Shown(new)
  /\ b \cap Imports = {} => Shown(new) \subseteq Shown(log) \cup b
  /\ b \cap Imports # {} => Shown(new) \subseteq b

LEMMA ShownGrows ==
  ASSUME NEW log \in Seq(SUBSET Txns), NEW b
  PROVE  OneMore(log, b)
PROOF
  <1> DEFINE new == Append(log, b)
             shows(c, m) == \A k \in (m+1)..Len(c) : c[k] \cap Imports = {}
  <1>1. /\ Len(log) \in Nat /\ DOMAIN log = 1..Len(log)
        /\ Len(new) = Len(log) + 1 /\ DOMAIN new = 1..(Len(log) + 1)
        /\ new[Len(log) + 1] = b
        /\ \A n \in DOMAIN log : new[n] = log[n]
    OBVIOUS
  <1>2. \A c, x : x \in Shown(c) <=> \E m \in DOMAIN c : shows(c, m) /\ x \in c[m]
    BY DEF Shown
  <1>3. shows(new, Len(log) + 1)
    BY <1>1
  <1>4. ASSUME NEW m \in DOMAIN log, shows(new, m)
        PROVE  b \cap Imports = {} /\ shows(log, m)
    <2>1. \A k \in (m+1)..(Len(log) + 1) : new[k] \cap Imports = {}
      BY <1>1, <1>4
    <2>2. Len(log) + 1 \in (m+1)..(Len(log) + 1)
      BY <1>1
    <2>3. \A k \in (m+1)..Len(log) : k \in DOMAIN log /\ k \in (m+1)..(Len(log) + 1)
      BY <1>1
    <2> HIDE DEF new
    <2> QED
      BY <1>1, <2>1, <2>2, <2>3
  <1> HIDE DEF shows, new
  <1>5. b \subseteq Shown(new)
    BY <1>1, <1>2, <1>3
  <1>6. ASSUME b \cap Imports = {}
        PROVE  Shown(new) \subseteq Shown(log) \cup b
    BY <1>1, <1>2, <1>4
  <1>7. ASSUME b \cap Imports # {}
        PROVE  Shown(new) \subseteq b
    BY <1>1, <1>2, <1>4, <1>7
  <1> QED
    BY <1>5, <1>6, <1>7 DEF new, OneMore

\* Requests of which nothing is refused or fails alone, as a batch of one cannot, and
\* which are whole batches: two with the same last transaction are the same.
WholeBatches ==
  /\ \A es \in Requests : Len(es) # 1 => ToSet(es) \cap (Cyclic \cup Restricted) = {}
  /\ \A es, fs \in Requests : Last(es) = Last(fs) => ToSet(es) = ToSet(fs)

\* A request is saved in one piece.
InOnePiece(hd) ==
  hd # Idle =>
    /\ hd.entries \in Requests
    /\ Patching(hd) => \/ hd.remaining = {}
                       \/ hd.remaining = ToSet(hd.entries) /\ Batch(hd) = ToSet(hd.entries)

\* lastTransactionId tells the last entry of the log.
TellsLast(p) ==
  lastTransactionId[p] # NoTxn =>
    /\ content[p] # <<>>
    /\ \/ lastTransactionId[p] \in Imports
       \/ \E es \in Requests :
            lastTransactionId[p] = Last(es) /\ Last(content[p]) = ToSet(es)

WholeInv ==
  /\ ImportInv
  /\ \A h \in Handlers : InOnePiece(handler[h])
  /\ \A p \in Projects : TellsLast(p)

\* The last of all entries is the last of the list.
LEMMA LatestOfAll ==
  ASSUME NEW es \in Seq(Txns) \ {<<>>}
  PROVE  /\ LatestOf(es, ToSet(es)) = {Last(es)}
         /\ Last(es) \in ToSet(es)
         /\ EarliestOf(es, ToSet(es)) \subseteq ToSet(es)
         /\ EarliestOf(es, ToSet(es)) # {}
PROOF
  <1>1. /\ Len(es) \in Nat \ {0} /\ DOMAIN es = 1..Len(es)
        /\ \A n \in DOMAIN es : es[n] \in ToSet(es)
        /\ \A x \in ToSet(es) : \E n \in DOMAIN es : x = es[n]
    BY DEF ToSet
  <1>2. Last(es) = es[Len(es)] /\ Last(es) \in ToSet(es)
    BY <1>1 DEF Last
  <1>3. LatestOf(es, ToSet(es)) = {Last(es)}
    <2>1. Len(es) \in DOMAIN es /\ \A k \in (Len(es)+1)..Len(es) : es[k] \notin ToSet(es)
      BY <1>1
    <2>2. Last(es) \in LatestOf(es, ToSet(es))
      BY <1>1, <1>2, <2>1 DEF LatestOf
    <2>3. ASSUME NEW j \in DOMAIN es, \A k \in (j+1)..Len(es) : es[k] \notin ToSet(es)
          PROVE  j = Len(es)
      BY <1>1, <2>3
    <2>4. \A x \in LatestOf(es, ToSet(es)) : x = Last(es)
      BY <1>2, <2>3 DEF LatestOf
    <2> QED
      BY <2>2, <2>4
  <1>4. es[1] \in EarliestOf(es, ToSet(es)) /\ EarliestOf(es, ToSet(es)) \subseteq ToSet(es)
    <2>1. 1 \in DOMAIN es /\ \A k \in 1..(1-1) : es[k] \notin ToSet(es)
      BY <1>1
    <2> QED
      BY <1>1, <2>1 DEF EarliestOf
  <1>5. EarliestOf(es, ToSet(es)) # {}
    BY <1>4
  <1> QED
    BY <1>2, <1>3, <1>4, <1>5

\* Of a single entry there is no part.
LEMMA NoPart ==
  ASSUME NEW es \in Seq(Txns) \ {<<>>}, Len(es) = 1, NEW T, T \subseteq ToSet(es), T # {}
  PROVE  T = ToSet(es)
PROOF
  <1>1. DOMAIN es = {1}
    OBVIOUS
  <1>2. ToSet(es) = {es[1]}
    BY <1>1 DEF ToSet
  <1> QED
    BY <1>2

\* So what is saved at all is saved whole.
LEMMA SavedWhole ==
  ASSUME WholeInv, NEW h \in Handlers, handler[h].pc = "update", WriteRow(handler[h])
  PROVE  LET hd == handler[h] IN
         /\ hd \in Busy /\ hd.entries \in Requests
         /\ Batch(hd) = ToSet(hd.entries)
         /\ hd.remaining \ Batch(hd) = {}
         /\ lastTransactionId' = [lastTransactionId EXCEPT ![hd.project] = Last(hd.entries)]
PROOF
  <1> DEFINE hd == handler[h]
  <1>1. /\ hd \in Busy /\ hd.entries \in Requests /\ hd.entries \in Seq(Txns) \ {<<>>}
        /\ InOnePiece(hd) /\ hd # Idle
    <2>1. BPTypeOK /\ InOnePiece(hd)
      BY DEF WholeInv, ImportInv, InvFor
    <2>2. hd \in Busy /\ hd # Idle
      BY <2>1, BusyWhenStarted DEF Idle
    <2> QED
      BY <2>1, <2>2 DEF InOnePiece, Busy
  <1>2. Batch(hd) \subseteq hd.remaining
    BY <1>1, BatchTyped
  <1>3. PICK t \in LatestOf(hd.entries, Batch(hd)) :
          lastTransactionId' = [lastTransactionId EXCEPT ![hd.project] = t]
    BY DEF WriteRow
  <1> HIDE DEF hd
  <1>4. Batch(hd) # {}
    BY <1>3 DEF LatestOf
  <1>5. Batch(hd) = ToSet(hd.entries) /\ hd.remaining = ToSet(hd.entries)
    <2>1. hd.pc = "update"
      BY DEF hd
    <2> QED
      BY <1>1, <1>2, <1>4, <2>1 DEF InOnePiece, Patching
  <1>6. t = Last(hd.entries)
    BY <1>1, <1>3, <1>5, LatestOfAll
  <1> QED
    BY <1>1, <1>3, <1>5, <1>6 DEF hd

\* A request starts to save all of its entries, or none.
LEMMA StartsWhole ==
  ASSUME WholeBatches, NEW hd \in Busy, NEW new \in Busy, hd.entries \in Requests,
         SameRequest(hd, new), Starts(hd, new)
  PROVE  InOnePiece(new)
PROOF
  <1> DEFINE all == ToSet(hd.entries)
  <1>1. /\ hd.entries \in Seq(Txns) \ {<<>>} /\ new.entries = hd.entries
        /\ new.remaining \subseteq all
        /\ all \ new.remaining \subseteq Cyclic \cup Restricted
    BY DEF Busy, SameRequest, Starts
  <1>2. new.remaining = {} \/ new.remaining = all
    <2>1. CASE Len(hd.entries) = 1
      BY <1>1, <2>1, NoPart
    <2>2. CASE Len(hd.entries) # 1
      BY <1>1, <2>2 DEF WholeBatches
    <2> QED
      BY <2>1, <2>2
  <1>3. ASSUME new.remaining = all
        PROVE  Batch(new) = all
    <2>1. CASE new.mode = "batch"
      BY <1>3, <2>1 DEF Batch
    <2>2. CASE new.mode # "batch"
      <3>1. all \cap Cyclic # {}
        BY <2>2 DEF Starts
      <3>2. Len(hd.entries) = 1
        BY <3>1 DEF WholeBatches
      <3>3. Batch(new) = EarliestOf(hd.entries, all)
        BY <1>1, <1>3, <2>2 DEF Batch
      <3> QED
        BY <1>1, <3>2, <3>3, LatestOfAll, NoPart
    <2> QED
      BY <2>1, <2>2
  <1> QED
    BY <1>1, <1>2, <1>3 DEF InOnePiece

\* The answers that accept anything: to a retry of what was saved last, and to what
\* has just been saved.
LEMMA AnswersShown ==
  ASSUME WholeBatches, WholeInv, NEW h \in Handlers, Works(h),
         handler[h].pc # "replied", handler'[h].pc = "replied",
         NEW p \in Projects, handler[h].project = p
  PROVE  handler'[h].result.accepted \subseteq Visible(p)'
PROOF
  <1> DEFINE hd == handler[h]
             Goal == handler'[h].result.accepted \subseteq Visible(p)'
  <1>1. ImportInv /\ InvFor({}) /\ BPTypeOK
    BY DEF WholeInv, ImportInv, InvFor
  <1>2. hd.pc # "idle" /\ hd # Idle
    <2>1. Serve(h) => hd.pc # "idle"
      BY DEF Serve, LoadBuildState, RejectAll, CheckStale, StartPatch, PatchAssets,
             UpdateBuild, LoseRace
    <2>2. Falter(h) => hd.pc # "idle"
      BY DEF Falter, TurnAway, PatchAssetsFails, UpdateBuildFails, Throw
    <2>3. Respond(h) \/ Vanish(h) \/ Disconnect(h) => hd # Idle
      BY DEF Respond, Vanish, Disconnect, Idle
    <2>4. hd.pc # "idle" <=> hd # Idle
      <3>1. hd \in Busy \cup {Idle} /\ Idle.pc = "idle"
        BY <1>1 DEF BPTypeOK, Idle
      <3>2. hd \in Busy => hd.pc # "idle"
        BY DEF Busy
      <3> QED
        BY <3>1, <3>2
    <2> QED
      BY <2>1, <2>2, <2>3, <2>4 DEF Works
  <1>3. /\ hd \in Busy /\ p \in Projects
        /\ hd.entries \in Requests /\ hd.entries \in Seq(Txns) \ {<<>>}
        /\ hd.version \in Nat /\ ToSet(hd.entries) \subseteq Txns
        /\ Last(hd.entries) \in ToSet(hd.entries)
    <2>1. hd \in Busy
      BY <1>1, <1>2, BusyWhenStarted
    <2> QED
      BY <1>2, <2>1, EntriesTyped, LatestOfAll DEF WholeInv, InOnePiece, Busy
  <1>4. /\ content \in [Projects -> Seq(SUBSET Txns)]
        /\ lastTransactionId \in [Projects -> Txns \cup {NoTxn}]
    BY <1>1 DEF BPTypeOK
  <1>5. ASSUME NEW status \in Statuses, NEW v \in Nat, NEW accepted \in SUBSET Txns,
               Reply(h, status, v, accepted), accepted \subseteq Visible(p)'
        PROVE  Goal
    <2>1. handler'[h].result = [status |-> status, version |-> v, accepted |-> accepted]
      BY <1>1, <1>2, <1>5, ReplyShape
    <2> QED
      BY <1>5, <2>1
  <1>6. ASSUME NEW status \in Statuses, NEW v \in Nat, Reply(h, status, v, {})
        PROVE  Goal
    BY <1>5, <1>6
  <1>7. CASE CheckStale(h)
    <2>1. PICK rejected \in SUBSET (ToSet(hd.entries) \cap Restricted) :
            LET authorized == ToSet(hd.entries) \ rejected IN
            /\ authorized # {}
            /\ IF lastTransactionId[p] \in LatestOf(hd.entries, authorized)
                 THEN Reply(h, StatusFor(rejected), hd.version, authorized)
                 ELSE Reply(h, "version_mismatched", 0, {})
      BY <1>7 DEF CheckStale
    <2> DEFINE authorized == ToSet(hd.entries) \ rejected
    <2>2. CASE lastTransactionId[p] \in LatestOf(hd.entries, authorized)
      <3>1. authorized = ToSet(hd.entries)
        BY <1>3, <2>1, NoPart DEF WholeBatches
      <3>2. lastTransactionId[p] = Last(hd.entries)
        <4>1. LatestOf(hd.entries, ToSet(hd.entries)) = {Last(hd.entries)}
          BY <1>3, LatestOfAll
        <4> QED
          BY <2>2, <3>1, <4>1
      <3>3. lastTransactionId[p] # NoTxn /\ lastTransactionId[p] \notin Imports
        <4>1. Last(hd.entries) \in Txns /\ Last(hd.entries) \notin Imports
          BY <1>3
        <4> QED
          BY <3>2, <4>1, BuildPatchAssumption
      <3>4. PICK es \in Requests : Last(es) = Last(hd.entries) /\ Last(content[p]) = ToSet(es)
        BY <1>3, <3>2, <3>3 DEF WholeInv, TellsLast
      <3>5. content[p] # <<>> /\ Last(content[p]) = authorized
        BY <1>3, <3>1, <3>2, <3>3, <3>4 DEF WholeBatches, WholeInv, TellsLast
      <3>6. authorized \subseteq Visible(p)'
        <4> DEFINE n == Len(content[p])
        <4>1. n \in DOMAIN content[p] /\ content[p][n] = authorized
              /\ \A k \in (n+1)..Len(content[p]) : content[p][k] \cap Imports = {}
          BY <1>3, <1>4, <3>5 DEF Last
        <4>2. content' = content
          BY <1>7 DEF CheckStale
        <4> HIDE DEF authorized
        <4> QED
          BY <4>1, <4>2 DEF Visible, Shown
      <3>7. StatusFor(rejected) \in Statuses /\ authorized \in SUBSET Txns
        BY <1>3 DEF StatusFor, Statuses
      <3>8. Reply(h, StatusFor(rejected), hd.version, authorized)
        BY <2>1, <2>2
      <3> HIDE DEF authorized
      <3> QED
        BY <1>3, <1>5, <3>6, <3>7, <3>8
    <2>3. CASE lastTransactionId[p] \notin LatestOf(hd.entries, authorized)
      <3>1. Reply(h, "version_mismatched", 0, {}) /\ "version_mismatched" \in Statuses /\ 0 \in Nat
        BY <2>1, <2>3 DEF Statuses
      <3> QED
        BY <1>6, <3>1
    <2> QED
      BY <2>2, <2>3
  <1>8. CASE UpdateBuild(h)
    <2>1. hd.pc = "update" /\ Matches(hd) /\ WriteRow(hd)
      BY <1>8 DEF UpdateBuild
    <2>2. Batch(hd) = ToSet(hd.entries) /\ hd.remaining \ Batch(hd) = {}
      BY <2>1, SavedWhole
    <2>3. Batch(hd) \in SUBSET Txns /\ content'[p] = Append(content[p], Batch(hd))
      <3>1. {} \in SUBSET AssetTxns
        OBVIOUS
      <3>2. /\ Batch(hd) \in SUBSET Txns
            /\ content' = [content EXCEPT ![p] = Append(@, Batch(hd))]
        BY <1>1, <2>1, <3>1, WriteRowEffect
      <3> QED
        BY <1>3, <1>4, <3>2
    <2>4. Batch(hd) \subseteq Visible(p)'
      <3>1. content[p] \in Seq(SUBSET Txns)
        BY <1>4
      <3>2. OneMore(content[p], Batch(hd))
        BY <3>1, ShownGrows
      <3> QED
        BY <2>3, <3>2 DEF Visible, OneMore
    <2>5. Reply(h, StatusFor(hd.failed), hd.version + 1, Applied(hd))
      BY <1>8, <2>2 DEF UpdateBuild
    <2>6. Applied(hd) \subseteq Batch(hd) /\ StatusFor(hd.failed) \in Statuses
      BY <2>2 DEF Applied, StatusFor, Statuses
    <2>7. hd.version + 1 \in Nat /\ Applied(hd) \in SUBSET Txns /\ Applied(hd) \subseteq Visible(p)'
      BY <1>3, <2>3, <2>4, <2>6
    <2> QED
      BY <1>5, <2>5, <2>6, <2>7
  <1>9. CASE RejectAll(h) \/ StartPatch(h)
    <2>1. Reply(h, "partial", hd.version, {}) \/ handler'[h].pc # "replied"
      <3>1. CASE RejectAll(h)
        BY <3>1 DEF RejectAll
      <3>2. CASE StartPatch(h)
        <4>1. PICK rejected \in SUBSET (ToSet(hd.entries) \cap Restricted) :
                LET authorized == ToSet(hd.entries) \ rejected
                    started == [hd EXCEPT
                      !.content = content[hd.project],
                      !.mode = IF authorized \cap Cyclic = {} THEN "batch" ELSE "entries",
                      !.remaining = authorized \ Cyclic,
                      !.failed = rejected \cup (authorized \cap Cyclic)]
                IN IF started.remaining = {}
                     THEN Reply(h, "partial", hd.version, {})
                     ELSE handler' = [handler EXCEPT ![h] =
                            [started EXCEPT !.pc = StepFor(Batch(started))]]
          BY <3>2 DEF StartPatch
        <4> DEFINE authorized == ToSet(hd.entries) \ rejected
                   mode == IF authorized \cap Cyclic = {} THEN "batch" ELSE "entries"
                   rest == authorized \ Cyclic
                   failed == rejected \cup (authorized \cap Cyclic)
                   started == [hd EXCEPT !.content = content[hd.project], !.mode = mode,
                                 !.remaining = rest, !.failed = failed]
                   step == StepFor(Batch(started))
        <4>2. Reply(h, "partial", hd.version, {})
              \/ handler' = [handler EXCEPT ![h] = [started EXCEPT !.pc = step]]
          BY <4>1
        <4>3. step # "replied"
          BY StepForTyped
        <4>4. h \in DOMAIN handler /\ "pc" \in DOMAIN hd
          BY <1>1, <1>3 DEF BPTypeOK, Busy
        <4> HIDE DEF authorized, mode, rest, failed, step
        <4>5. "pc" \in DOMAIN started
          BY <4>4
        <4> HIDE DEF started
        <4>6. [started EXCEPT !.pc = step].pc # "replied"
          BY <4>3, <4>5
        <4> QED
          BY <4>2, <4>4, <4>6
      <3> QED
        BY <1>9, <3>1, <3>2
    <2>2. "partial" \in Statuses
      BY DEF Statuses
    <2> QED
      BY <1>3, <1>6, <2>1, <2>2
  <1>10. CASE LoadBuildState(h) \/ PatchAssets(h) \/ Respond(h) \/ Vanish(h) \/ Disconnect(h)
    BY <1>1, <1>3, <1>10 DEF LoadBuildState, PatchAssets, Respond, Vanish, Disconnect, Idle, Busy,
       BPTypeOK
  <1>11. CASE LoseRace(h) \/ PatchAssetsFails(h) \/ UpdateBuildFails(h) \/ TurnAway(h) \/ Throw(h)
    <2>1. PICK status \in Statuses : Reply(h, status, 0, {})
      BY <1>11 DEF LoseRace, PatchAssetsFails, UpdateBuildFails, TurnAway, Throw, Statuses
    <2> QED
      BY <1>6, <2>1
  <1> QED
    BY <1>7, <1>8, <1>9, <1>10, <1>11 DEF Works, Serve, Falter

\* A handler that stays in one piece.
LEMMA CalmWhole ==
  ASSUME WholeBatches, NEW h \in Handlers, InOnePiece(handler[h]), Calm(h)
  PROVE  InOnePiece(handler'[h])
PROOF
  <1> DEFINE hd == handler[h]
             new == handler'[h]
  <1>1. CASE new = Idle
    BY <1>1 DEF InOnePiece
  <1>2. CASE new # Idle
    <2>1. hd \in Busy /\ new \in Busy /\ SameRequest(hd, new)
          /\ (Patching(new) => ProceedsTo(hd, new) \/ Starts(hd, new))
      BY <1>2 DEF Calm
    <2>2. hd # Idle /\ new.entries = hd.entries
      BY <2>1 DEF Busy, Idle, SameRequest
    <2>3. CASE ~ Patching(new)
      BY <2>2, <2>3 DEF InOnePiece
    <2>4. CASE ProceedsTo(hd, new)
      <3>1. new.remaining = hd.remaining /\ new.mode = hd.mode /\ Patching(hd)
        BY <2>4 DEF ProceedsTo
      <3>2. Batch(new) = Batch(hd)
        BY <2>2, <3>1 DEF Batch
      <3> QED
        BY <2>2, <3>1, <3>2 DEF InOnePiece
    <2>5. CASE Starts(hd, new)
      <3> HIDE DEF hd, new
      <3>1. hd.entries \in Requests
        BY <2>2 DEF InOnePiece, hd
      <3> QED
        BY <2>1, <2>5, <3>1, StartsWhole DEF new
    <2> QED
      BY <2>1, <2>3, <2>4, <2>5
  <1> QED
    BY <1>1, <1>2

\* Saving all of a request makes its last transaction the last one.
LEMMA SavedTellsLast ==
  ASSUME WholeInv, NEW h \in Handlers, handler[h].pc = "update",
         Matches(handler[h]), WriteRow(handler[h])
  PROVE  \A p \in Projects : TellsLast(p)'
PROOF
  <1> DEFINE hd == handler[h]
  <1>1. /\ hd \in Busy /\ hd.entries \in Requests
        /\ Batch(hd) = ToSet(hd.entries)
        /\ lastTransactionId' = [lastTransactionId EXCEPT ![hd.project] = Last(hd.entries)]
    BY SavedWhole
  <1>2. {} \in SUBSET AssetTxns /\ InvFor({})
    BY DEF WholeInv, ImportInv
  <1>3. content' = [content EXCEPT ![hd.project] = Append(@, Batch(hd))]
        /\ Batch(hd) \in SUBSET Txns /\ hd.project \in Projects
    BY <1>2, WriteRowEffect
  <1>4. /\ content \in [Projects -> Seq(SUBSET Txns)]
        /\ lastTransactionId \in [Projects -> Txns \cup {NoTxn}]
    BY <1>2 DEF InvFor, BPTypeOK
  <1> HIDE DEF hd
  <1> SUFFICES ASSUME NEW p \in Projects PROVE TellsLast(p)'
    OBVIOUS
  <1>5. CASE p = hd.project
    <2>1. content'[p] = Append(content[p], ToSet(hd.entries)) /\ content[p] \in Seq(SUBSET Txns)
          /\ lastTransactionId'[p] = Last(hd.entries)
      BY <1>1, <1>3, <1>4, <1>5
    <2>2. content'[p] # <<>> /\ Last(content'[p]) = ToSet(hd.entries)
      <3> DEFINE b == ToSet(hd.entries)
                 log == content[p]
      <3>1. b \in SUBSET Txns /\ log \in Seq(SUBSET Txns) /\ content'[p] = Append(log, b)
        BY <1>1, <1>3, <2>1
      <3> HIDE DEF b, log
      <3>2. /\ Len(log) \in Nat /\ Len(Append(log, b)) = Len(log) + 1
            /\ Append(log, b)[Len(log) + 1] = b
        BY <3>1
      <3>3. Append(log, b) # <<>> /\ Last(Append(log, b)) = b
        BY <3>1, <3>2 DEF Last
      <3> QED
        BY <3>1, <3>3 DEF b
    <2> QED
      BY <1>1, <2>1, <2>2 DEF TellsLast
  <1>6. CASE p # hd.project
    <2>1. content'[p] = content[p] /\ lastTransactionId'[p] = lastTransactionId[p]
      BY <1>1, <1>3, <1>4, <1>6
    <2>2. TellsLast(p)
      BY DEF WholeInv
    <2> QED
      BY <2>1, <2>2 DEF TellsLast
  <1> QED
    BY <1>5, <1>6

\* Any step of a handler.
LEMMA WorksWhole ==
  ASSUME WholeBatches, WholeInv, NEW h \in Handlers, Works(h)
  PROVE  /\ \A k \in Handlers : InOnePiece(handler'[k])
         /\ \A p \in Projects : TellsLast(p)'
PROOF
  <1>1. InvFor({}) /\ \A k \in Handlers : InOnePiece(handler[k])
    BY DEF WholeInv, ImportInv
  <1>2. CASE UNCHANGED row /\ \A k \in Handlers : Calm(k)
    <2>1. \A p \in Projects : TellsLast(p)'
      BY <1>2 DEF WholeInv, TellsLast, row
    <2> QED
      BY <1>1, <1>2, <2>1, CalmWhole
  <1>3. CASE /\ handler[h] \in Busy /\ handler'[h] \in Busy
             /\ SameRequest(handler[h], handler'[h])
             /\ Saves(handler[h], handler'[h])
             /\ \A k \in Handlers \ {h} : handler'[k] = handler[k]
    <2>1. handler[h].pc = "update" /\ Matches(handler[h]) /\ WriteRow(handler[h])
      BY <1>3 DEF Saves
    <2>2. /\ handler[h].entries \in Requests
          /\ handler[h].remaining \ Batch(handler[h]) = {}
      BY <2>1, SavedWhole
    <2>3. ~ Patching(handler'[h]) /\ handler'[h].entries \in Requests
      BY <1>3, <2>2 DEF Saves, Patching, SameRequest
    <2>4. \A k \in Handlers : InOnePiece(handler'[k])
      BY <1>1, <1>3, <2>3 DEF InOnePiece
    <2> QED
      BY <2>1, <2>4, SavedTellsLast
  <1> QED
    BY <1>1, <1>2, <1>3, CalmOrSaves

\* An import is its own last transaction.
LEMMA ImportTellsLast ==
  ASSUME WholeInv, NEW i \in Imports, ImportStep(i)
  PROVE  \A p \in Projects : TellsLast(p)'
PROOF
  <1>1. ImportInv /\ \A p \in Projects : TellsLast(p)
    BY DEF WholeInv
  <1>2. CASE ReplaceRow(i)
    <2> DEFINE q == import[i].project
    <2>1. /\ q \in Projects /\ {i} \in SUBSET Txns
          /\ content' = [content EXCEPT ![q] = Append(@, {i})]
      BY <1>1, <1>2, ReplaceRowEffect
    <2>2. lastTransactionId' = [lastTransactionId EXCEPT ![q] = i]
      BY <1>2 DEF ReplaceRow, NewTransactionId
    <2>3. /\ content \in [Projects -> Seq(SUBSET Txns)]
          /\ lastTransactionId \in [Projects -> Txns \cup {NoTxn}]
      BY <1>1 DEF ImportInv, InvFor, BPTypeOK
    <2> HIDE DEF q
    <2> SUFFICES ASSUME NEW p \in Projects PROVE TellsLast(p)'
      OBVIOUS
    <2>4. CASE p = q
      <3>1. content'[p] = Append(content[p], {i}) /\ content[p] \in Seq(SUBSET Txns)
            /\ lastTransactionId'[p] = i
        BY <2>1, <2>2, <2>3, <2>4
      <3>2. content'[p] # <<>>
        BY <3>1
      <3> QED
        BY <3>1, <3>2 DEF TellsLast
    <2>5. CASE p # q
      <3>1. content'[p] = content[p] /\ lastTransactionId'[p] = lastTransactionId[p]
        BY <2>1, <2>2, <2>3, <2>5
      <3> QED
        BY <1>1, <3>1 DEF TellsLast
    <2> QED
      BY <2>4, <2>5, Zenon
  <1>3. CASE ~ ReplaceRow(i)
    <2>1. UNCHANGED row
      BY <1>3 DEF ImportStep, ImportLoad, ImportSave, ImportSaveFails, ImportRefused,
                  ResetPreviewImage, DeleteAssets, DeleteFolders, InsertFolders,
                  InsertAssets, ImportDone, ImportBreaks, Statement, row, bpVars
    <2> QED
      BY <1>1, <2>1 DEF TellsLast, row
  <1> QED
    BY <1>2, <1>3

\* An import leaves the requests alone.
LEMMA ImportNoRequest ==
  ASSUME NEW i \in Imports, ImportStep(i)
  PROVE  handler' = handler
PROOF
  BY Zenon DEF ImportStep, ImportLoad, ImportSave, ImportSaveFails, ImportRefused,
     ReplaceRow, ResetPreviewImage, DeleteAssets, DeleteFolders, InsertFolders,
     InsertAssets, ImportDone, ImportBreaks, Statement, bpVars

\* A step of BPNext is a request, or a step of a handler.
LEMMA RequestOrWorks ==
  ASSUME BPNext
  PROVE  \/ \E h \in Handlers, c \in Clients, p \in Projects, es \in Requests, v \in Nat :
               v <= version[p] /\ Request(h, c, p, es, v)
         \/ \E h \in Handlers : Works(h)
PROOF
  <1>1. PICK h \in Handlers :
          \/ \E c \in Clients, p \in Projects, es \in Requests :
               \E v \in 0..version[p] : Request(h, c, p, es, v)
          \/ Works(h)
    BY DEF BPNext, Works
  <1>2. ASSUME NEW p \in Projects, NEW v \in 0..version[p]
        PROVE  v \in Nat /\ v <= version[p]
    BY DEF BPTypeOK
  <1> QED
    BY <1>1, <1>2

LEMMA RequestWhole ==
  ASSUME WholeInv, NEW h \in Handlers, NEW c \in Clients, NEW p \in Projects,
         NEW es \in Requests, NEW v \in Nat, Request(h, c, p, es, v)
  PROVE  /\ \A k \in Handlers : InOnePiece(handler'[k])
         /\ \A q \in Projects : TellsLast(q)'
         /\ handler'[h].pc = "arrived"
         /\ \A k \in Handlers \ {h} : handler'[k] = handler[k]
PROOF
  <1>1. handler \in [Handlers -> Busy \cup {Idle}]
        /\ \A k \in Handlers : InOnePiece(handler[k])
    BY DEF WholeInv, ImportInv, InvFor, BPTypeOK
  <1>2. /\ handler'[h].pc = "arrived" /\ handler'[h].entries = es
        /\ \A k \in Handlers \ {h} : handler'[k] = handler[k]
    BY <1>1 DEF Request
  <1>3. \A k \in Handlers : InOnePiece(handler'[k])
    BY <1>1, <1>2 DEF InOnePiece, Patching
  <1>4. \A q \in Projects : TellsLast(q)'
    BY DEF Request, WholeInv, TellsLast
  <1> QED
    BY <1>2, <1>3, <1>4

LEMMA WholeNext ==
  ASSUME WholeBatches, WholeInv, [ImportNext]_vars
  PROVE  WholeInv'
PROOF
  <1>1. ImportInv'
    BY ImportNextInv DEF WholeInv
  <1> DEFINE Goal == /\ \A k \in Handlers : InOnePiece(handler'[k])
                     /\ \A p \in Projects : TellsLast(p)'
  <1>2. ASSUME BPNext
        PROVE  Goal
    BY <1>2, RequestOrWorks, RequestWhole, WorksWhole
  <1>3. ASSUME NEW i \in Imports, ImportStep(i)
        PROVE  Goal
    BY <1>3, ImportTellsLast, ImportNoRequest DEF WholeInv
  <1>4. ASSUME UNCHANGED vars
        PROVE  Goal
    BY <1>4 DEF vars, bpVars, WholeInv, TellsLast
  <1>5. Goal
    BY <1>2, <1>3, <1>4 DEF ImportNext
  <1> QED
    BY <1>1, <1>5 DEF WholeInv

\* A request is told that something was saved only when the project shows it, with
\* any number of imports between its attempts, as long as a retry is of the same batch
\* and no part of a batch is refused or fails: the retry of a batch of which an entry
\* failed is told more than is true even without imports.
THEOREM AcceptedShown == WholeBatches => (ImportSpec => AcceptedIsVisible)
PROOF
  <1> SUFFICES ASSUME WholeBatches PROVE ImportSpec => AcceptedIsVisible
    OBVIOUS
  <1>1. ImportInit => WholeInv
    <2> SUFFICES ASSUME ImportInit PROVE WholeInv
      OBVIOUS
    <2>1. ImportInv
      BY ImportInitInv
    <2>2. \A h \in Handlers : handler[h] = Idle
      BY DEF ImportInit, BPInit
    <2>3. \A p \in Projects : lastTransactionId[p] = NoTxn
      BY DEF ImportInit, BPInit
    <2> QED
      BY <2>1, <2>2, <2>3 DEF WholeInv, InOnePiece, TellsLast
  <1>2. WholeInv /\ [ImportNext]_vars => WholeInv'
    BY WholeNext
  <1>3. WholeInv /\ [ImportNext]_vars =>
          \A h \in Handlers :
            handler[h].pc # "replied" /\ handler'[h].pc = "replied" =>
              handler'[h].result.accepted \subseteq Visible(handler[h].project)'
    <2> SUFFICES ASSUME WholeInv, [ImportNext]_vars, NEW h \in Handlers,
                        handler[h].pc # "replied", handler'[h].pc = "replied"
                 PROVE  handler'[h].result.accepted \subseteq Visible(handler[h].project)'
      OBVIOUS
    <2>1. handler' # handler
      OBVIOUS
    <2>2. BPNext
      BY <2>1, ImportNoRequest DEF ImportNext, vars, bpVars
    <2>3. Works(h)
      BY <2>2, RequestOrWorks, RequestWhole, WorksProgress DEF WholeInv, ImportInv, Progress
    <2>4. Progress(h) /\ handler'[h] # Idle
      BY <2>3, WorksProgress DEF WholeInv, ImportInv, Idle
    <2>5. handler[h] \in Busy /\ handler'[h].project = handler[h].project
      BY <2>4 DEF Progress, SameRequest
    <2>6. PICK p \in Projects : handler[h].project = p /\ handler'[h].project = p
      BY <2>5 DEF Busy
    <2>7. handler'[h].result.accepted \subseteq Visible(p)'
      BY <2>3, <2>6, AnswersShown
    <2> QED
      BY <2>6, <2>7 DEF Visible
  <1> QED
    BY <1>1, <1>2, <1>3, PTL DEF ImportSpec, AcceptedIsVisible

-----------------------------------------------------------------------------
(* What is shown has its assets.  The statements of an import delete what was *)
(* saved before it, and nothing of that is saved again after it; what they    *)
(* delete of a request that is still being saved is swept.                    *)

\* A request that would win the compare-and-set saves nothing the row has.
Fresh(hd) ==
  /\ hd # Idle => hd.entries \in Requests
  /\ Patching(hd) =>
       /\ hd.remaining \subseteq ToSet(hd.entries)
       /\ Matches(hd) => \A n \in DOMAIN content[hd.project] :
                           hd.remaining \cap content[hd.project][n] = {}

\* What it saves next has its assets, or an import took them.
Ready(hd) ==
  hd.pc = "update" /\ Matches(hd) =>
    Batch(hd) \cap AssetTxns \subseteq assets[hd.project] \cup swept

SavedOnce(p) ==
  \A n, m \in DOMAIN content[p] : n # m => content[p][n] \cap content[p][m] = {}

\* An import is in the log of its project from its compare-and-set on, and has its
\* assets once they are inserted.
Placed(i) ==
  /\ \A p \in Projects : \A n \in DOMAIN content[p] : i \in content[p][n] =>
       import[i].pc \notin {"new", "loaded", "refused"} /\ import[i].project = p
  /\ import[i].pc \in Replacing \cup {"done"} =>
       \E n \in DOMAIN content[import[i].project] : i \in content[import[i].project][n]
  /\ import[i].pc \in {"assets inserted", "done"} /\ i \in AssetTxns =>
       (i \in Visible(import[i].project) => i \in assets[import[i].project] \cup swept)

AssetsInv ==
  /\ ImportInv
  /\ AskedForNew
  /\ \A h \in Handlers : Fresh(handler[h]) /\ Ready(handler[h])
  /\ \A p \in Projects : SavedOnce(p)
  /\ \A i \in Imports : Placed(i)
  /\ AssetsOfVisible

\* A handler that goes on to the update at once has no assets to mutate.
LEMMA NoAssetsToPatch ==
  ASSUME NEW started, {"pc", "mode", "entries", "remaining"} \subseteq DOMAIN started,
         NEW new, new = [started EXCEPT !.pc = StepFor(Batch(started))], new.pc = "update"
  PROVE  Batch(new) \cap AssetTxns = {}
PROOF
  <1> DEFINE step == StepFor(Batch(started))
  <1>1. step = "update" => Batch(started) \cap AssetTxns = {}
    BY StepForTyped
  <1>2. new = [started EXCEPT !.pc = step]
    OBVIOUS
  <1> HIDE DEF step
  <1>3. /\ new.pc = step /\ new.mode = started.mode
        /\ new.entries = started.entries /\ new.remaining = started.remaining
    BY <1>2
  <1>4. Batch(new) = Batch(started)
    BY <1>3 DEF Batch
  <1> QED
    BY <1>1, <1>3, <1>4

\* Handlers remove no assets, and put those of a batch in place before the update.
LEMMA AssetsKept ==
  ASSUME InvFor({}), NEW h \in Handlers, Works(h)
  PROVE  /\ \A q \in Projects : assets[q] \subseteq assets'[q]
         /\ handler'[h].pc = "update" =>
              \/ Batch(handler'[h]) \cap AssetTxns \subseteq assets'[handler'[h].project]
              \/ /\ handler[h].pc = "update" /\ UNCHANGED row
                 /\ Batch(handler'[h]) = Batch(handler[h])
PROOF
  <1> DEFINE hd == handler[h]
             new == handler'[h]
             Goal == /\ \A q \in Projects : assets[q] \subseteq assets'[q]
                     /\ new.pc = "update" =>
                          \/ Batch(new) \cap AssetTxns \subseteq assets'[new.project]
                          \/ hd.pc = "update" /\ UNCHANGED row /\ Batch(new) = Batch(hd)
  <1>1. /\ BPTypeOK /\ handler \in [Handlers -> Busy \cup {Idle}]
        /\ assets \in [Projects -> SUBSET Txns]
    BY DEF InvFor, BPTypeOK
  <1>2. hd \in Busy => /\ hd.project \in Projects
                       /\ {"pc", "mode", "entries", "remaining", "content", "failed", "version",
                          "client", "project"} \subseteq DOMAIN hd
    BY DEF Busy
  <1>3. CASE LoadBuildState(h)
    BY <1>1, <1>3 DEF LoadBuildState, Busy, Idle
  <1>4. ASSUME \A q \in Projects : assets[q] \subseteq assets'[q],
               NEW status, NEW v, NEW accepted, Reply(h, status, v, accepted), hd \in Busy
        PROVE  Goal
    BY <1>1, <1>2, <1>4 DEF Reply
  <1>5. CASE RejectAll(h) \/ CheckStale(h) \/ LoseRace(h) \/ TurnAway(h) \/ Throw(h)
             \/ UpdateBuildFails(h)
    <2>1. assets' = assets /\ hd.pc # "idle"
      BY <1>5 DEF RejectAll, CheckStale, LoseRace, TurnAway, Throw, UpdateBuildFails, WriteRow
    <2>2. \E status, v, accepted : Reply(h, status, v, accepted)
      BY <1>5 DEF RejectAll, CheckStale, LoseRace, TurnAway, Throw, UpdateBuildFails
    <2> QED
      BY <1>1, <1>4, <2>1, <2>2, BusyWhenStarted
  <1>6. CASE StartPatch(h)
    <2>1. assets' = assets /\ hd \in Busy
      BY <1>1, <1>6, BusyWhenStarted DEF StartPatch
    <2>2. PICK c, mode, rest, failed :
            \/ Reply(h, "partial", hd.version, {})
            \/ LET started == [hd EXCEPT !.content = c, !.mode = mode, !.remaining = rest,
                                  !.failed = failed]
               IN  handler' = [handler EXCEPT ![h] =
                                 [started EXCEPT !.pc = StepFor(Batch(started))]]
      BY <1>6, Zenon DEF StartPatch
    <2> DEFINE started == [hd EXCEPT !.content = c, !.mode = mode, !.remaining = rest,
                             !.failed = failed]
    <2>3. ASSUME handler' = [handler EXCEPT ![h] = [started EXCEPT !.pc = StepFor(Batch(started))]]
          PROVE  Goal
      <3>1. {"pc", "mode", "entries", "remaining"} \subseteq DOMAIN started
        BY <1>2, <2>1
      <3>2. new = [started EXCEPT !.pc = StepFor(Batch(started))]
        BY <1>1, <2>3
      <3> HIDE DEF started
      <3>3. new.pc = "update" => Batch(new) \cap AssetTxns = {}
        BY <3>1, <3>2, NoAssetsToPatch
      <3> QED
        BY <2>1, <3>3
    <2> QED
      BY <1>4, <2>1, <2>2, <2>3
  <1>7. CASE PatchAssets(h)
    <2>1. hd \in Busy /\ new = [hd EXCEPT !.pc = "update"]
      BY <1>1, <1>7, BusyWhenStarted DEF PatchAssets
    <2>2. /\ new.mode = hd.mode /\ new.entries = hd.entries /\ new.remaining = hd.remaining
          /\ new.project = hd.project
      BY <1>2, <2>1
    <2>3. Batch(new) = Batch(hd)
      BY <2>2 DEF Batch
    <2>4. assets' = [assets EXCEPT ![hd.project] = @ \cup (Batch(hd) \cap AssetTxns)]
      BY <1>7 DEF PatchAssets
    <2>5. (\A q \in Projects : assets[q] \subseteq assets'[q])
          /\ Batch(hd) \cap AssetTxns \subseteq assets'[hd.project]
      <3> DEFINE batch == Batch(hd)
      <3> HIDE DEF batch
      <3>1. assets' = [assets EXCEPT ![hd.project] = @ \cup (batch \cap AssetTxns)]
        BY <2>4 DEF batch
      <3> QED
        BY <1>1, <1>2, <2>1, <3>1 DEF batch
    <2> QED
      BY <2>2, <2>3, <2>5
  <1>8. CASE PatchAssetsFails(h)
    <2>1. hd \in Busy /\ Reply(h, "error", 0, {})
      BY <1>1, <1>8, BusyWhenStarted DEF PatchAssetsFails
    <2>2. \E done : assets' = [assets EXCEPT ![hd.project] = @ \cup done]
      BY <1>8 DEF PatchAssetsFails
    <2>3. \A q \in Projects : assets[q] \subseteq assets'[q]
      BY <1>1, <1>2, <2>1, <2>2
    <2> QED
      BY <1>4, <2>1, <2>3
  <1>9. CASE UpdateBuild(h)
    <2>1. assets' = assets /\ hd \in Busy
      BY <1>1, <1>9, BusyWhenStarted DEF UpdateBuild, WriteRow
    <2>2. PICK w, c, rest :
            \/ \E status, v, accepted : Reply(h, status, v, accepted)
            \/ LET next == [hd EXCEPT !.version = w, !.content = c, !.remaining = rest]
               IN  handler' = [handler EXCEPT ![h] = [next EXCEPT !.pc = StepFor(Batch(next))]]
      BY <1>9, Zenon DEF UpdateBuild
    <2> DEFINE next == [hd EXCEPT !.version = w, !.content = c, !.remaining = rest]
    <2>3. ASSUME handler' = [handler EXCEPT ![h] = [next EXCEPT !.pc = StepFor(Batch(next))]]
          PROVE  Goal
      <3>1. {"pc", "mode", "entries", "remaining"} \subseteq DOMAIN next
        BY <1>2, <2>1
      <3>2. new = [next EXCEPT !.pc = StepFor(Batch(next))]
        BY <1>1, <2>3
      <3> HIDE DEF next
      <3>3. new.pc = "update" => Batch(new) \cap AssetTxns = {}
        BY <3>1, <3>2, NoAssetsToPatch
      <3> QED
        BY <2>1, <3>3
    <2> QED
      BY <1>4, <2>1, <2>2, <2>3
  <1>10. CASE Respond(h) \/ Vanish(h)
    BY <1>1, <1>10 DEF Respond, Vanish, Idle
  <1>11. CASE Disconnect(h)
    <2>1. hd \in Busy /\ new = [hd EXCEPT !.client = NoClient]
          /\ UNCHANGED <<version, lastTransactionId, content, assets>>
      BY <1>1, <1>11 DEF Disconnect
    <2>2. /\ new.mode = hd.mode /\ new.entries = hd.entries /\ new.remaining = hd.remaining
          /\ new.pc = hd.pc
      BY <1>2, <2>1
    <2>3. Batch(new) = Batch(hd)
      BY <2>2 DEF Batch
    <2> QED
      BY <2>1, <2>2, <2>3 DEF row
  <1> QED
    BY <1>3, <1>5, <1>6, <1>7, <1>8, <1>9, <1>10, <1>11 DEF Works, Serve, Falter

\* A request that starts to be saved is fresh, because it was asked for; one that
\* goes on stays so.
LEMMA CalmFresh ==
  ASSUME AssetsInv, NEW h \in Handlers, Calm(h), UNCHANGED row
  PROVE  Fresh(handler[h])'
PROOF
  <1> DEFINE hd == handler[h]
             new == handler'[h]
  <1>1. Fresh(hd) /\ AskedForNew
    BY DEF AssetsInv
  <1>2. CASE new = Idle
    BY <1>2 DEF Fresh, Patching, Idle
  <1>3. CASE new # Idle
    <2>1. hd \in Busy /\ new \in Busy /\ SameRequest(hd, new)
          /\ (Patching(new) => ProceedsTo(hd, new) \/ Starts(hd, new))
      BY <1>3 DEF Calm
    <2>2. hd # Idle /\ new.entries = hd.entries /\ new.project = hd.project
          /\ hd.entries \in Requests /\ version' = version /\ content' = content
      BY <1>1, <2>1 DEF Busy, Idle, SameRequest, Fresh, row
    <2>3. CASE ~ Patching(new)
      BY <2>2, <2>3 DEF Fresh, Patching
    <2>4. CASE Patching(new) /\ ProceedsTo(hd, new)
      BY <1>1, <2>2, <2>4 DEF ProceedsTo, Fresh, Matches, Patching
    <2>5. CASE Patching(new) /\ Starts(hd, new)
      <3>1. new.remaining \subseteq ToSet(hd.entries) /\ new.version = hd.clientVersion
        BY <2>5 DEF Starts
      <3>2. hd.clientVersion = version[hd.project] =>
              \A n \in DOMAIN content[hd.project] :
                ToSet(hd.entries) \cap content[hd.project][n] = {}
        BY <1>1, <2>2 DEF AskedForNew
      <3> QED
        BY <2>2, <2>5, <3>1, <3>2 DEF Fresh, Matches, Patching
    <2> QED
      BY <2>1, <2>3, <2>4, <2>5
  <1> QED
    BY <1>2, <1>3

\* Steps of handlers that leave the row alone.
LEMMA QuietAssets ==
  ASSUME AssetsInv, NEW h \in Handlers, Works(h), UNCHANGED <<row, import, swept>>,
         \A k \in Handlers : Calm(k), \A k \in Handlers \ {h} : handler'[k] = handler[k]
  PROVE  /\ \A k \in Handlers : Fresh(handler[k])' /\ Ready(handler[k])'
         /\ \A p \in Projects : SavedOnce(p)'
         /\ \A i \in Imports : Placed(i)'
         /\ AssetsOfVisible'
PROOF
  <1>1. /\ InvFor({}) /\ import \in [Imports -> ImportStates]
        /\ content' = content /\ version' = version /\ import' = import /\ swept' = swept
    BY DEF AssetsInv, ImportInv, row
  <1>2. /\ \A q \in Projects : assets[q] \subseteq assets'[q]
        /\ handler'[h].pc = "update" =>
              \/ Batch(handler'[h]) \cap AssetTxns \subseteq assets'[handler'[h].project]
              \/ /\ handler[h].pc = "update" /\ UNCHANGED row
                 /\ Batch(handler'[h]) = Batch(handler[h])
    BY <1>1, AssetsKept
  <1>3. \A k \in Handlers : Fresh(handler[k])'
    BY CalmFresh
  <1>4. ASSUME NEW k \in Handlers
        PROVE  Ready(handler[k])'
    <2>1. Ready(handler[k]) /\ handler[k] \in Busy \cup {Idle}
          /\ (handler[k] \in Busy => handler[k].project \in Projects)
      BY <1>1 DEF AssetsInv, InvFor, BPTypeOK, Busy
    <2>2. ASSUME handler[k].pc = "update", handler'[k].pc = "update",
                 Batch(handler'[k]) = Batch(handler[k])
          PROVE  Ready(handler[k])'
      <3>1. handler[k] \in Busy
        BY <2>1, <2>2 DEF Idle
      <3>2. ProceedsTo(handler[k], handler'[k]) /\ SameRequest(handler[k], handler'[k])
        BY <2>2, <3>1 DEF Calm, Idle, Patching, Starts
      <3>3. handler'[k].project = handler[k].project /\ handler'[k].version = handler[k].version
        BY <3>2 DEF ProceedsTo, SameRequest
      <3> QED
        BY <1>1, <1>2, <2>1, <2>2, <3>1, <3>3 DEF Ready, Matches
    <2>3. CASE k # h
      <3>1. handler'[k] = handler[k]
        BY <2>3
      <3>2. handler[k].pc = "update" => handler[k] \in Busy
        BY <2>1 DEF Idle
      <3> QED
        BY <1>1, <1>2, <2>1, <3>1, <3>2 DEF Ready, Matches
    <2>4. CASE k = h
      BY <1>2, <2>2, <2>4 DEF Ready
    <2> QED
      BY <2>3, <2>4
  <1>5. \A p \in Projects : SavedOnce(p)'
    BY <1>1 DEF AssetsInv, SavedOnce
  <1>6. ASSUME NEW i \in Imports
        PROVE  Placed(i)'
    <2>1. Placed(i) /\ (import[i].pc # "new" => import[i].project \in Projects)
      BY StartedTyped DEF AssetsInv
    <2>2. import[i].pc \in {"assets inserted", "done"} =>
            assets[import[i].project] \subseteq assets'[import[i].project]
      BY <1>2, <2>1
    <2> QED
      BY <1>1, <2>1, <2>2 DEF Placed, Visible
  <1>7. AssetsOfVisible'
    BY <1>1, <1>2 DEF AssetsInv, AssetsOfVisible, Visible
  <1> QED
    BY <1>3, <1>4, <1>5, <1>6, <1>7

\* The entries of a log with one more.
LEMMA AppendEntries ==
  ASSUME NEW log \in Seq(SUBSET Txns), NEW b
  PROVE  LET new == Append(log, b) IN
         /\ \A n \in DOMAIN new : new[n] = b \/ (n \in DOMAIN log /\ new[n] = log[n])
         /\ \A n \in DOMAIN log : n \in DOMAIN new /\ new[n] = log[n]
         /\ \E n \in DOMAIN new : new[n] = b
PROOF
  <1> DEFINE new == Append(log, b)
  <1>1. /\ Len(log) \in Nat /\ DOMAIN log = 1..Len(log)
        /\ DOMAIN new = 1..(Len(log) + 1) /\ new[Len(log) + 1] = b
        /\ \A n \in DOMAIN log : new[n] = log[n]
    OBVIOUS
  <1>2. \A n \in DOMAIN new : n = Len(log) + 1 \/ n \in DOMAIN log
    BY <1>1
  <1>3. Len(log) + 1 \in DOMAIN new /\ \A n \in DOMAIN log : n \in DOMAIN new
    BY <1>1
  <1> HIDE DEF new
  <1> QED
    BY <1>1, <1>2, <1>3 DEF new

\* One more entry that has nothing the log has.
LEMMA AppendOnce ==
  ASSUME NEW p \in Projects, content[p] \in Seq(SUBSET Txns), SavedOnce(p), NEW b,
         \A n \in DOMAIN content[p] : b \cap content[p][n] = {},
         content'[p] = Append(content[p], b)
  PROVE  SavedOnce(p)'
PROOF
  <1> DEFINE log == content[p]
             new == content'[p]
  <1>1. /\ Len(log) \in Nat /\ DOMAIN log = 1..Len(log)
        /\ DOMAIN new = 1..(Len(log) + 1) /\ new[Len(log) + 1] = b
        /\ \A n \in DOMAIN log : new[n] = log[n]
    OBVIOUS
  <1>2. \A n \in DOMAIN new : n = Len(log) + 1 \/ n \in DOMAIN log
    BY <1>1
  <1>3. \A n, m \in DOMAIN log : n # m => log[n] \cap log[m] = {}
    BY DEF SavedOnce
  <1>4. \A n \in DOMAIN log : b \cap log[n] = {}
    OBVIOUS
  <1> HIDE DEF log, new
  <1>5. \A n, m \in DOMAIN new : n # m => new[n] \cap new[m] = {}
    BY <1>1, <1>2, <1>3, <1>4
  <1> QED
    BY <1>5 DEF SavedOnce, new

\* Once the row of a project moves on, the requests for it that were about to save
\* what they had computed are too late.
LEMMA LeftBehind ==
  ASSUME AssetsInv, NEW p \in Projects, version' = [version EXCEPT ![p] = @ + 1],
         \A q \in Projects \ {p} : content'[q] = content[q],
         NEW k \in Handlers, handler'[k] = handler[k],
         UNCHANGED <<assets, swept>>
  PROVE  Fresh(handler[k])' /\ Ready(handler[k])'
PROOF
  <1> DEFINE hd == handler[k]
  <1>1. /\ InvFor({}) /\ Fresh(hd) /\ Ready(hd) /\ version \in [Projects -> Nat]
        /\ hd \in Busy \cup {Idle}
    BY DEF AssetsInv, ImportInv, InvFor, BPTypeOK
  <1>2. Patching(hd) => hd \in Busy
    BY <1>1 DEF Patching, Idle
  <1>3. Patching(hd) => hd.project \in Projects /\ hd.version \in Nat
                        /\ hd.version <= version[hd.project]
    BY <1>1, <1>2 DEF Busy, InvFor, VersionAsRead, Patching
  <1>4. CASE Patching(hd) /\ hd.project = p
    <2>1. hd.version # version'[hd.project]
      BY <1>1, <1>3, <1>4
    <2> QED
      BY <1>1, <2>1 DEF Fresh, Ready, Matches
  <1>5. CASE Patching(hd) /\ hd.project # p
    <2>1. version'[hd.project] = version[hd.project] /\ content'[hd.project] = content[hd.project]
      BY <1>1, <1>3, <1>5
    <2> QED
      BY <1>1, <2>1 DEF Fresh, Ready, Matches
  <1>6. CASE ~ Patching(hd)
    BY <1>1, <1>6 DEF Fresh, Ready, Patching
  <1> QED
    BY <1>4, <1>5, <1>6

\* A save: of what is fresh and ready.
LEMMA SaveAssets ==
  ASSUME AssetsInv, NEW h \in Handlers, Works(h), UNCHANGED <<import, swept>>,
         handler[h] \in Busy, handler'[h] \in Busy, SameRequest(handler[h], handler'[h]),
         Saves(handler[h], handler'[h]), \A k \in Handlers \ {h} : handler'[k] = handler[k]
  PROVE  /\ \A k \in Handlers : Fresh(handler[k])' /\ Ready(handler[k])'
         /\ \A p \in Projects : SavedOnce(p)'
         /\ \A i \in Imports : Placed(i)'
         /\ AssetsOfVisible'
PROOF
  <1> DEFINE hd == handler[h]
             new == handler'[h]
             b == Batch(hd)
  <1>1. PICK p \in Projects : hd.project = p
    BY DEF Busy
  <1>2. hd.pc = "update" /\ Matches(hd) /\ WriteRow(hd) /\ Patching(hd)
    BY DEF Saves, Patching
  <1>3. /\ InvFor({}) /\ Fresh(hd) /\ Ready(hd) /\ {} \in SUBSET AssetTxns
        /\ content \in [Projects -> Seq(SUBSET Txns)] /\ version \in [Projects -> Nat]
        /\ import' = import /\ swept' = swept
    BY DEF AssetsInv, ImportInv, InvFor, BPTypeOK
  <1>4. /\ b \in SUBSET Txns
        /\ version' = [version EXCEPT ![p] = @ + 1]
        /\ content' = [content EXCEPT ![p] = Append(@, b)]
        /\ assets' = assets
    BY <1>1, <1>2, <1>3, WriteRowEffect
  <1>5. b \subseteq hd.remaining
    BY BatchTyped
  <1>6. /\ hd.entries \in Requests /\ hd.remaining \subseteq ToSet(hd.entries)
        /\ \A n \in DOMAIN content[p] : hd.remaining \cap content[p][n] = {}
        /\ b \cap AssetTxns \subseteq assets[p] \cup swept
    BY <1>1, <1>2, <1>3 DEF Fresh, Ready, Busy, Idle
  <1>7. b \cap Imports = {} /\ \A n \in DOMAIN content[p] : b \cap content[p][n] = {}
    BY <1>5, <1>6
  <1> HIDE DEF b
  <1>8. /\ content'[p] = Append(content[p], b) /\ content[p] \in Seq(SUBSET Txns)
        /\ \A q \in Projects \ {p} : content'[q] = content[q]
    BY <1>3, <1>4
  <1>9. \A k \in Handlers \ {h} : Fresh(handler[k])' /\ Ready(handler[k])'
    BY <1>3, <1>4, <1>8, LeftBehind
  <1>10. Fresh(handler[h])' /\ Ready(handler[h])'
    <2>1. new.entries = hd.entries /\ new.project = p
      BY <1>1 DEF SameRequest
    <2>2. CASE new.pc = "replied"
      BY <1>6, <2>1, <2>2 DEF Fresh, Ready, Patching
    <2>3. CASE new.pc # "replied"
      <3>1. new.remaining = hd.remaining \ b
        BY <2>3 DEF Saves, b
      <3>2. \A n \in DOMAIN content'[p] : new.remaining \cap content'[p][n] = {}
        <4>1. \A n \in DOMAIN content'[p] :
                content'[p][n] = b \/ (n \in DOMAIN content[p] /\ content'[p][n] = content[p][n])
          BY <1>8, AppendEntries
        <4> QED
          BY <1>6, <3>1, <4>1
      <3>3. Fresh(handler[h])'
        BY <1>6, <2>1, <3>1, <3>2 DEF Fresh
      <3>4. new.pc = "update" => Batch(new) \cap AssetTxns \subseteq assets'[p]
        <4>1. version'[p] # version[p]
          BY <1>3, <1>4
        <4> QED
          BY <1>3, <2>1, <4>1, AssetsKept DEF row
      <3> QED
        BY <2>1, <3>3, <3>4 DEF Ready
    <2> QED
      BY <2>2, <2>3
  <1>11. ASSUME NEW q \in Projects
         PROVE  SavedOnce(q)'
    <2>1. SavedOnce(q)
      BY DEF AssetsInv
    <2>2. CASE q = p
      BY <1>7, <1>8, <2>1, <2>2, AppendOnce
    <2>3. CASE q # p
      BY <1>8, <2>1, <2>3 DEF SavedOnce
    <2> QED
      BY <2>2, <2>3
  <1>12. \A q \in Projects : Visible(q)' \subseteq Visible(q) \cup b /\ (q # p => Visible(q)' = Visible(q))
    <2>1. OneMore(content[p], b)
      BY <1>8, ShownGrows
    <2>2. Visible(p)' \subseteq Visible(p) \cup b
      BY <1>7, <1>8, <2>1 DEF OneMore, Visible
    <2>3. \A q \in Projects \ {p} : Visible(q)' = Visible(q)
      BY <1>8 DEF Visible
    <2> QED
      BY <2>2, <2>3
  <1>13. ASSUME NEW i \in Imports
         PROVE  Placed(i)'
    <2>1. Placed(i) /\ (import[i].pc # "new" => import[i].project \in Projects)
      BY StartedTyped DEF AssetsInv
    <2>2. i \notin b
      BY <1>7
    <2>3. ASSUME NEW q \in Projects, NEW n \in DOMAIN content'[q], i \in content'[q][n]
          PROVE  import'[i].pc \notin {"new", "loaded", "refused"} /\ import'[i].project = q
      <3>1. n \in DOMAIN content[q] /\ content'[q][n] = content[q][n]
        BY <1>8, <2>2, <2>3, AppendEntries
      <3> QED
        BY <1>3, <2>1, <2>3, <3>1 DEF Placed
    <2>4. CASE import[i].pc \notin Replacing \cup {"done"}
      BY <1>3, <2>3, <2>4 DEF Placed, Replacing
    <2>5. CASE import[i].pc \in Replacing \cup {"done"}
      <3>1. PICK q \in Projects : import[i].project = q
        BY <2>1, <2>5 DEF Replacing
      <3>2. PICK n \in DOMAIN content[q] : i \in content[q][n]
        BY <2>1, <2>5, <3>1 DEF Placed
      <3>3. n \in DOMAIN content'[q] /\ content'[q][n] = content[q][n]
        BY <1>8, AppendEntries
      <3>4. i \in Visible(q)' => i \in Visible(q)
        BY <1>12, <2>2
      <3> QED
        BY <1>3, <1>4, <2>1, <2>3, <2>5, <3>1, <3>2, <3>3, <3>4 DEF Placed, Visible
    <2> QED
      BY <2>4, <2>5
  <1>14. AssetsOfVisible'
    BY <1>3, <1>4, <1>6, <1>12 DEF AssetsInv, AssetsOfVisible
  <1> QED
    BY <1>9, <1>10, <1>11, <1>13, <1>14

\* An import saves its row: what is shown then is the import, which is not done.
LEMMA ReplaceRowAssets ==
  ASSUME AssetsInv, NEW i \in Imports, ReplaceRow(i),
         NEW to \in {"saved", "broken"}, import' = [import EXCEPT ![i].pc = to]
  PROVE  /\ \A k \in Handlers : Fresh(handler[k])' /\ Ready(handler[k])'
         /\ \A p \in Projects : SavedOnce(p)'
         /\ \A j \in Imports : Placed(j)'
         /\ AssetsOfVisible'
PROOF
  <1>1. PICK p \in Projects : import[i].project = p
    BY StartedTyped DEF AssetsInv, ReplaceRow
  <1>2. /\ {i} \in SUBSET Txns
        /\ version' = [version EXCEPT ![p] = @ + 1]
        /\ content' = [content EXCEPT ![p] = Append(@, {i})]
        /\ UNCHANGED <<assets, handler, swept>> /\ import[i].pc = "loaded"
    BY <1>1, ReplaceRowEffect DEF AssetsInv, ReplaceRow
  <1>3. /\ content \in [Projects -> Seq(SUBSET Txns)]
        /\ import \in [Imports -> ImportStates]
        /\ import[i] \in [pc : ImportSteps \ {"new"}, project : Projects, version : Nat]
    BY <1>2, StartedTyped DEF AssetsInv, ImportInv, InvFor, BPTypeOK
  <1>4. /\ import'[i].pc = to /\ import'[i].project = p
        /\ \A j \in Imports \ {i} : import'[j] = import[j]
    BY <1>1, <1>3
  <1>5. /\ content'[p] = Append(content[p], {i}) /\ content[p] \in Seq(SUBSET Txns)
        /\ \A q \in Projects \ {p} : content'[q] = content[q]
    BY <1>2, <1>3
  <1>6. \A k \in Handlers : Fresh(handler[k])' /\ Ready(handler[k])'
    BY <1>2, <1>5, LeftBehind
  <1>7. \A q \in Projects : \A n \in DOMAIN content[q] : i \notin content[q][n]
    BY <1>2 DEF AssetsInv, Placed
  <1>8. ASSUME NEW q \in Projects
        PROVE  SavedOnce(q)'
    <2>1. SavedOnce(q)
      BY DEF AssetsInv
    <2>2. CASE q = p
      <3>1. \A n \in DOMAIN content[p] : {i} \cap content[p][n] = {}
        BY <1>7
      <3> QED
        BY <1>5, <2>1, <2>2, <3>1, AppendOnce
    <2>3. CASE q # p
      BY <1>5, <2>1, <2>3 DEF SavedOnce
    <2> QED
      BY <2>2, <2>3
  <1>9. \A q \in Projects : (q = p => Visible(q)' \subseteq {i})
                           /\ (q # p => Visible(q)' = Visible(q))
    <2>1. OneMore(content[p], {i})
      BY <1>5, ShownGrows
    <2>2. Visible(p)' \subseteq {i}
      BY <1>5, <2>1 DEF OneMore, Visible
    <2>3. \A q \in Projects \ {p} : Visible(q)' = Visible(q)
      BY <1>5 DEF Visible
    <2> QED
      BY <2>2, <2>3
  <1>10. Placed(i)'
    <2>1. \E n \in DOMAIN content'[p] : i \in content'[p][n]
      BY <1>5, AppendEntries
    <2>2. ASSUME NEW q \in Projects, NEW n \in DOMAIN content'[q], i \in content'[q][n]
          PROVE  q = p
      BY <1>5, <1>7, <2>2
    <2> QED
      BY <1>4, <2>1, <2>2 DEF Placed, Replacing
  <1>11. ASSUME NEW j \in Imports \ {i}
         PROVE  Placed(j)'
    <2>1. Placed(j) /\ (import[j].pc # "new" => import[j].project \in Projects)
          /\ import'[j] = import[j]
      BY <1>4, StartedTyped DEF AssetsInv
    <2>2. ASSUME NEW q \in Projects, NEW n \in DOMAIN content'[q], j \in content'[q][n]
          PROVE  import'[j].pc \notin {"new", "loaded", "refused"} /\ import'[j].project = q
      <3>1. n \in DOMAIN content[q] /\ content'[q][n] = content[q][n]
        BY <1>5, <2>2, AppendEntries
      <3> QED
        BY <2>1, <2>2, <3>1 DEF Placed
    <2>3. CASE import[j].pc \notin Replacing \cup {"done"}
      BY <2>1, <2>2, <2>3 DEF Placed, Replacing
    <2>4. CASE import[j].pc \in Replacing \cup {"done"}
      <3>1. PICK q \in Projects : import[j].project = q
        BY <2>1, <2>4 DEF Replacing
      <3>2. PICK n \in DOMAIN content[q] : j \in content[q][n]
        BY <2>1, <2>4, <3>1 DEF Placed
      <3>3. n \in DOMAIN content'[q] /\ content'[q][n] = content[q][n]
        BY <1>5, AppendEntries
      <3>4. j \in Visible(q)' => j \in Visible(q)
        BY <1>9
      <3> QED
        BY <1>2, <2>1, <2>2, <2>4, <3>1, <3>2, <3>3, <3>4 DEF Placed, Visible
    <2> QED
      BY <2>3, <2>4
  <1>12. AssetsOfVisible'
    <2> SUFFICES ASSUME NEW q \in Projects, NEW x \in AssetTxns, x \in Visible(q)'
                 PROVE  \/ x \in assets'[q]
                        \/ x \in swept'
                        \/ x \in Imports /\ import'[x].pc # "done"
      BY DEF AssetsOfVisible
    <2>1. CASE q = p
      BY <1>4, <1>9, <2>1
    <2>2. CASE q # p
      BY <1>2, <1>4, <1>9, <2>2 DEF AssetsInv, AssetsOfVisible
    <2> QED
      BY <2>1, <2>2
  <1> QED
    BY <1>6, <1>8, <1>10, <1>11, <1>12

\* What is shown is of an entry no import came after.
LEMMA ShownEntry ==
  ASSUME NEW log, NEW x \in Shown(log)
  PROVE  \E n \in DOMAIN log :
           x \in log[n] /\ \A k \in (n+1)..Len(log) : log[k] \cap Imports = {}
PROOF BY DEF Shown

\* A step of an import from one statement to the next, or to its end, that takes no
\* assets of what is shown or is about to be saved but those it sweeps.
LEMMA StatementAssets ==
  ASSUME AssetsInv, NEW i \in Imports, import[i].pc # "new", NEW to,
         import' = [import EXCEPT ![i].pc = to], UNCHANGED <<row, handler>>,
         to \in {"new", "loaded", "refused"} => import[i].pc = "loaded",
         to \in Replacing \cup {"done"} => import[i].pc \in Replacing,
         to = "done" => import[i].pc = "assets inserted",
         to = "assets inserted" /\ i \in AssetTxns => i \in assets'[import[i].project],
         \A p \in Projects : \A x \in Visible(p) \cap AssetTxns :
           x \in assets[p] \cup swept => x \in assets'[p] \cup swept',
         \A k \in Handlers : handler[k].pc = "update" /\ Matches(handler[k]) =>
           \A x \in Batch(handler[k]) \cap AssetTxns :
             x \in assets[handler[k].project] \cup swept =>
               x \in assets'[handler[k].project] \cup swept'
  PROVE  /\ \A k \in Handlers : Fresh(handler[k])' /\ Ready(handler[k])'
         /\ \A p \in Projects : SavedOnce(p)'
         /\ \A j \in Imports : Placed(j)'
         /\ AssetsOfVisible'
PROOF
  <1>1. PICK p \in Projects : import[i].project = p
    BY StartedTyped DEF AssetsInv
  <1>2. version' = version /\ content' = content /\ handler' = handler
    BY DEF row
  <1>3. /\ import \in [Imports -> ImportStates]
        /\ import[i] \in [pc : ImportSteps \ {"new"}, project : Projects, version : Nat]
    BY StartedTyped DEF AssetsInv, ImportInv
  <1>4. /\ import'[i].pc = to /\ import'[i].project = p
        /\ \A j \in Imports \ {i} : import'[j] = import[j]
    BY <1>1, <1>3
  <1>5. \A k \in Handlers : Fresh(handler[k])'
    BY <1>2 DEF AssetsInv, Fresh, Matches
  <1>6. \A k \in Handlers : Ready(handler[k])'
    BY <1>2 DEF AssetsInv, Ready, Matches, Batch
  <1>7. \A q \in Projects : SavedOnce(q)'
    BY <1>2 DEF AssetsInv, SavedOnce
  <1>8. \A q \in Projects : Visible(q)' = Visible(q)
    BY <1>2 DEF Visible
  <1>9. Placed(i)'
    <2>1. Placed(i)
      BY DEF AssetsInv
    <2>2. ASSUME NEW q \in Projects, NEW n \in DOMAIN content'[q], i \in content'[q][n]
          PROVE  to \notin {"new", "loaded", "refused"} /\ p = q
      BY <1>1, <1>2, <2>1, <2>2 DEF Placed
    <2>3. to \in Replacing \cup {"done"} => \E n \in DOMAIN content'[p] : i \in content'[p][n]
      BY <1>1, <1>2, <2>1 DEF Placed
    <2>4. ASSUME to \in {"assets inserted", "done"}, i \in AssetTxns, i \in Visible(p)'
          PROVE  i \in assets'[p] \cup swept'
      <3>1. CASE to = "assets inserted"
        BY <1>1, <2>4, <3>1
      <3>2. CASE to = "done"
        <4>1. i \in Visible(p) /\ i \in AssetTxns
          BY <1>8, <2>4
        <4>2. i \in assets[p] \cup swept
          BY <1>1, <2>1, <3>2, <4>1 DEF Placed
        <4> QED
          BY <4>1, <4>2
      <3> QED
        BY <2>4, <3>1, <3>2
    <2> QED
      BY <1>4, <2>2, <2>3, <2>4 DEF Placed, Visible
  <1>10. ASSUME NEW j \in Imports \ {i}
         PROVE  Placed(j)'
    <2>1. Placed(j) /\ (import[j].pc # "new" => import[j].project \in Projects)
          /\ import'[j] = import[j]
      BY <1>4, StartedTyped DEF AssetsInv
    <2>2. CASE import[j].pc \notin {"assets inserted", "done"}
      BY <1>2, <2>1, <2>2 DEF Placed
    <2>3. CASE import[j].pc \in {"assets inserted", "done"}
      <3>1. PICK q \in Projects : import[j].project = q
        BY <2>1, <2>3
      <3> QED
        BY <1>2, <1>8, <2>1, <3>1 DEF Placed, Visible
    <2> QED
      BY <2>2, <2>3
  <1>11. AssetsOfVisible'
    <2> SUFFICES ASSUME NEW q \in Projects, NEW x \in AssetTxns, x \in Visible(q)'
                 PROVE  \/ x \in assets'[q]
                        \/ x \in swept'
                        \/ x \in Imports /\ import'[x].pc # "done"
      BY DEF AssetsOfVisible
    <2>1. x \in Visible(q)
      BY <1>8
    <2>2. CASE x \in assets[q] \cup swept
      BY <2>1, <2>2
    <2>3. CASE x \in Imports /\ import[x].pc # "done" /\ x \notin assets[q] \cup swept
      <3>1. CASE x = i /\ to = "done"
        <4>1. \E n \in DOMAIN content[q] : i \in content[q][n]
          BY <2>1, <3>1, ShownEntry DEF Visible
        <4>2. p = q
          BY <1>1, <4>1 DEF AssetsInv, Placed
        <4> QED
          BY <1>1, <2>1, <2>3, <3>1, <4>2 DEF AssetsInv, Placed
      <3>2. CASE ~ (x = i /\ to = "done")
        BY <1>4, <2>3, <3>2
      <3> QED
        BY <3>1, <3>2
    <2> QED
      BY <2>1, <2>2, <2>3 DEF AssetsInv, AssetsOfVisible
  <1> QED
    BY <1>5, <1>6, <1>7, <1>9, <1>10, <1>11

\* What an import deletes of what was not saved before it is swept; that is all it
\* deletes of what is shown, and of what a request that would win saves next.
LEMMA DeletedIsSwept ==
  ASSUME AssetsInv, NEW i \in Imports, import[i].pc \in Replacing,
         NEW gone \in SUBSET AssetTxns, DeleteRows(i, gone)
  PROVE  /\ \A p \in Projects : \A x \in Visible(p) \cap AssetTxns :
              x \in assets[p] \cup swept => x \in assets'[p] \cup swept'
         /\ \A k \in Handlers : handler[k].pc = "update" /\ Matches(handler[k]) =>
              \A x \in Batch(handler[k]) \cap AssetTxns :
                x \in assets[handler[k].project] \cup swept =>
                  x \in assets'[handler[k].project] \cup swept'
PROOF
  <1>1. /\ assets \in [Projects -> SUBSET Txns]
        /\ handler \in [Handlers -> Busy \cup {Idle}]
        /\ content \in [Projects -> Seq(SUBSET Txns)]
    BY DEF AssetsInv, ImportInv, InvFor, BPTypeOK
  <1>2. PICK p \in Projects : import[i].project = p
    BY StartedTyped DEF AssetsInv, Replacing
  <1>3. PICK j \in DOMAIN content[p] : i \in content[p][j]
    BY <1>2 DEF AssetsInv, Placed
  <1> DEFINE log == content[p]
             before == {n \in DOMAIN log : \A k \in 1..n : i \notin log[k]}
  <1>4. /\ assets' = [assets EXCEPT ![p] = @ \ gone]
        /\ swept' = swept \cup ((assets[p] \cap gone) \ UNION {log[n] : n \in before})
    BY <1>2 DEF DeleteRows
  <1>5. Len(log) \in Nat /\ DOMAIN log = 1..Len(log)
    BY <1>1
  <1>6. ASSUME NEW n \in before
        PROVE  n \in DOMAIN log /\ n < j
    <2>1. n \in DOMAIN log /\ j \notin 1..n
      BY <1>3
    <2> QED
      BY <1>3, <1>5, <2>1
  <1> HIDE DEF before
  <1>7. ASSUME NEW x, \A n \in before : x \notin log[n]
        PROVE  /\ x \in assets[p] \cup swept => x \in assets'[p] \cup swept'
               /\ \A q \in Projects \ {p} : x \in assets[q] \cup swept => x \in assets'[q] \cup swept'
    <2>1. x \notin UNION {log[n] : n \in before}
      BY <1>7
    <2>2. assets'[p] = assets[p] \ gone /\ \A q \in Projects \ {p} : assets'[q] = assets[q]
      BY <1>1, <1>4
    <2> QED
      BY <1>4, <2>1, <2>2
  <1>8. \A x : x \in swept => x \in swept'
    BY <1>4
  <1>9. \A q \in Projects \ {p} : assets'[q] = assets[q]
    BY <1>1, <1>4
  <1>10. ASSUME NEW x \in Visible(p), NEW n \in before
         PROVE  x \notin log[n]
    <2>1. PICK m \in DOMAIN log : x \in log[m] /\ \A k \in (m+1)..Len(log) : log[k] \cap Imports = {}
      BY ShownEntry DEF Visible
    <2>2. j \notin (m+1)..Len(log)
      BY <1>3, <2>1
    <2>3. n \in DOMAIN log /\ n # m
      BY <1>3, <1>5, <1>6, <2>1, <2>2
    <2>4. log[n] \cap log[m] = {}
      BY <2>1, <2>3 DEF AssetsInv, SavedOnce
    <2> QED
      BY <2>1, <2>4
  <1>11. ASSUME NEW q \in Projects, NEW x \in Visible(q) \cap AssetTxns,
                x \in assets[q] \cup swept
         PROVE  x \in assets'[q] \cup swept'
    BY <1>7, <1>8, <1>9, <1>10, <1>11
  <1>12. ASSUME NEW k \in Handlers, handler[k].pc = "update", Matches(handler[k]),
                NEW x \in Batch(handler[k]) \cap AssetTxns,
                x \in assets[handler[k].project] \cup swept
         PROVE  x \in assets'[handler[k].project] \cup swept'
    <2>1. handler[k] \in Busy /\ Fresh(handler[k]) /\ Patching(handler[k])
      BY <1>1, <1>12 DEF AssetsInv, Idle, Patching
    <2>2. PICK q \in Projects : handler[k].project = q
      BY <2>1 DEF Busy
    <2>3. x \in handler[k].remaining
      BY <2>1, BatchTyped
    <2>4. \A n \in DOMAIN content[q] : x \notin content[q][n]
      BY <1>12, <2>1, <2>2, <2>3 DEF Fresh
    <2>5. CASE q = p
      BY <1>6, <1>7, <1>12, <2>2, <2>4, <2>5
    <2>6. CASE q # p
      BY <1>8, <1>9, <1>12, <2>2, <2>6
    <2> QED
      BY <2>5, <2>6
  <1> QED
    BY <1>11, <1>12

\* A step that changes nothing of what is stored, and of the handlers none that has
\* read the columns.
LEMMA StillAssets ==
  ASSUME AssetsInv, UNCHANGED <<row, assets, swept>>,
         import' = import \/ \E i \in Imports, p \in Projects : ImportLoad(i, p),
         \A k \in Handlers : handler'[k] = handler[k] \/
           (handler'[k].pc = "arrived" /\ handler'[k].entries \in Requests)
  PROVE  /\ \A k \in Handlers : Fresh(handler[k])' /\ Ready(handler[k])'
         /\ \A p \in Projects : SavedOnce(p)'
         /\ \A i \in Imports : Placed(i)'
         /\ AssetsOfVisible'
PROOF
  <1>1. /\ version' = version /\ content' = content /\ assets' = assets /\ swept' = swept
        /\ import \in [Imports -> ImportStates]
    BY DEF row, AssetsInv, ImportInv
  <1>2. ASSUME NEW k \in Handlers
        PROVE  Fresh(handler[k])' /\ Ready(handler[k])'
    <2>1. Fresh(handler[k]) /\ Ready(handler[k])
      BY DEF AssetsInv
    <2>2. CASE handler'[k] = handler[k]
      BY <1>1, <2>1, <2>2 DEF Fresh, Ready, Matches
    <2>3. CASE handler'[k].pc = "arrived" /\ handler'[k].entries \in Requests
      BY <2>3 DEF Fresh, Ready, Patching
    <2> QED
      BY <2>2, <2>3
  <1>3. \A p \in Projects : SavedOnce(p)'
    BY <1>1 DEF AssetsInv, SavedOnce
  <1>4. ASSUME NEW i \in Imports
        PROVE  Placed(i)'
    <2>1. Placed(i)
      BY DEF AssetsInv
    <2>2. CASE import'[i] = import[i]
      BY <1>1, <2>1, <2>2 DEF Placed, Visible
    <2>3. CASE import[i].pc = "new" /\ import'[i].pc = "loaded"
      <3>1. \A p \in Projects : \A n \in DOMAIN content'[p] : i \notin content'[p][n]
        BY <1>1, <2>1, <2>3 DEF Placed
      <3> QED
        BY <2>3, <3>1 DEF Placed, Replacing
    <2> QED
      BY <1>1, <2>2, <2>3 DEF ImportLoad
  <1>5. AssetsOfVisible'
    <2>1. \A x \in Imports : import[x].pc # "done" => import'[x].pc # "done"
      BY <1>1 DEF ImportLoad
    <2> QED
      BY <1>1, <2>1 DEF AssetsInv, AssetsOfVisible, Visible
  <1> QED
    BY <1>2, <1>3, <1>4, <1>5

\* Every step of an import.
LEMMA ImportAssets ==
  ASSUME AssetsInv, NEW i \in Imports, ImportStep(i)
  PROVE  /\ \A k \in Handlers : Fresh(handler[k])' /\ Ready(handler[k])'
         /\ \A p \in Projects : SavedOnce(p)'
         /\ \A j \in Imports : Placed(j)'
         /\ AssetsOfVisible'
PROOF
  <1> DEFINE Goal == /\ \A k \in Handlers : Fresh(handler[k])' /\ Ready(handler[k])'
                     /\ \A p \in Projects : SavedOnce(p)'
                     /\ \A j \in Imports : Placed(j)'
                     /\ AssetsOfVisible'
             Keeps == /\ \A p \in Projects : \A x \in Visible(p) \cap AssetTxns :
                           x \in assets[p] \cup swept => x \in assets'[p] \cup swept'
                      /\ \A k \in Handlers : handler[k].pc = "update" /\ Matches(handler[k]) =>
                           \A x \in Batch(handler[k]) \cap AssetTxns :
                             x \in assets[handler[k].project] \cup swept =>
                               x \in assets'[handler[k].project] \cup swept'
  <1>1. ASSUME UNCHANGED <<assets, swept>>
        PROVE  Keeps
    BY <1>1
  <1>2. ASSUME NEW from \in Replacing, NEW to \in ImportSteps, Statement(i, from, to), Keeps,
               to \notin {"new", "loaded", "refused"},
               to = "done" => from = "assets inserted",
               to = "assets inserted" /\ i \in AssetTxns => i \in assets'[import[i].project]
        PROVE  Goal
    <2>1. import[i].pc = from /\ import' = [import EXCEPT ![i].pc = to]
          /\ UNCHANGED <<row, handler>>
      BY <1>2 DEF Statement
    <2> QED
      BY <1>2, <2>1, StatementAssets DEF Replacing
  <1>3. CASE \E p \in Projects : ImportLoad(i, p)
    <2>1. UNCHANGED <<row, assets, swept>> /\ handler' = handler
      BY <1>3 DEF ImportLoad, bpVars, row
    <2> QED
      BY <1>3, <2>1, StillAssets
  <1>4. CASE ImportSave(i) \/ ImportSaveFails(i)
    <2>1. ReplaceRow(i) /\ \E to \in {"saved", "broken"} : import' = [import EXCEPT ![i].pc = to]
      BY <1>4 DEF ImportSave, ImportSaveFails
    <2> QED
      BY <2>1, ReplaceRowAssets
  <1>5. ASSUME NEW to \in {"refused", "broken"}, import' = [import EXCEPT ![i].pc = to],
               UNCHANGED <<row, handler, assets, swept>>, import[i].pc # "new",
               to = "refused" => import[i].pc = "loaded"
        PROVE  Goal
    BY <1>1, <1>5, StatementAssets DEF Replacing
  <1>6. CASE ImportRefused(i)
    BY <1>5, <1>6 DEF ImportRefused, bpVars, row
  <1>7. CASE ImportBreaks(i)
    BY <1>5, <1>7 DEF ImportBreaks, Replacing, bpVars, row
  <1>8. CASE ResetPreviewImage(i)
    BY <1>1, <1>2, <1>8 DEF ResetPreviewImage, Replacing, ImportSteps
  <1>9. CASE InsertFolders(i)
    BY <1>1, <1>2, <1>9 DEF InsertFolders, Replacing, ImportSteps
  <1>10. CASE ImportDone(i)
    BY <1>1, <1>2, <1>10 DEF ImportDone, Replacing, ImportSteps
  <1>11. CASE DeleteAssets(i)
    <2>1. import[i].pc \in Replacing /\ DeleteRows(i, AssetTxns \ FolderTxns)
          /\ Statement(i, "reset", "assets deleted")
      BY <1>11 DEF DeleteAssets, Statement, Replacing
    <2>2. Keeps
      BY <2>1, DeletedIsSwept
    <2> QED
      BY <1>2, <2>1, <2>2 DEF Replacing, ImportSteps
  <1>12. CASE DeleteFolders(i)
    <2>1. import[i].pc \in Replacing /\ DeleteRows(i, FolderTxns)
          /\ Statement(i, "assets deleted", "folders deleted") /\ FolderTxns \in SUBSET AssetTxns
      BY <1>12 DEF DeleteFolders, Statement, Replacing
    <2>2. Keeps
      BY <2>1, DeletedIsSwept
    <2> QED
      BY <1>2, <2>1, <2>2 DEF Replacing, ImportSteps
  <1>13. CASE InsertAssets(i)
    <2>1. Statement(i, "folders inserted", "assets inserted") /\ swept' = swept
          /\ assets' = [assets EXCEPT ![import[i].project] = @ \cup ({i} \cap AssetTxns)]
      BY <1>13 DEF InsertAssets
    <2>2. PICK p \in Projects : import[i].project = p
      BY <2>1, StartedTyped DEF Statement, AssetsInv
    <2>3. assets \in [Projects -> SUBSET Txns] /\ handler \in [Handlers -> Busy \cup {Idle}]
      BY DEF AssetsInv, ImportInv, InvFor, BPTypeOK
    <2>4. \A q \in Projects : assets[q] \subseteq assets'[q]
      BY <2>1, <2>2, <2>3
    <2>5. \A k \in Handlers : handler[k].pc = "update" => handler[k].project \in Projects
      BY <2>3 DEF Busy, Idle
    <2>6. Keeps
      BY <2>1, <2>4, <2>5
    <2>7. i \in AssetTxns => i \in assets'[import[i].project]
      BY <2>1, <2>2, <2>3
    <2> QED
      BY <1>2, <2>1, <2>6, <2>7 DEF Replacing, ImportSteps
  <1> QED
    BY <1>3, <1>4, <1>6, <1>7, <1>8, <1>9, <1>10, <1>11, <1>12, <1>13 DEF ImportStep

\* Every step of a request.
LEMMA PatchAssetsKept ==
  ASSUME AssetsInv, BPNext, UNCHANGED importVars
  PROVE  /\ \A k \in Handlers : Fresh(handler[k])' /\ Ready(handler[k])'
         /\ \A p \in Projects : SavedOnce(p)'
         /\ \A j \in Imports : Placed(j)'
         /\ AssetsOfVisible'
PROOF
  <1>1. InvFor({}) /\ handler \in [Handlers -> Busy \cup {Idle}] /\ UNCHANGED <<import, swept>>
    BY DEF AssetsInv, ImportInv, InvFor, BPTypeOK, importVars
  <1>2. CASE \E h \in Handlers, c \in Clients, p \in Projects, es \in Requests, v \in Nat :
               Request(h, c, p, es, v)
    <2>1. UNCHANGED <<row, assets, swept>> /\ import' = import
      BY <1>1, <1>2 DEF Request, row
    <2>2. \A k \in Handlers : handler'[k] = handler[k] \/
            (handler'[k].pc = "arrived" /\ handler'[k].entries \in Requests)
      BY <1>1, <1>2 DEF Request
    <2> QED
      BY <2>1, <2>2, StillAssets
  <1>3. CASE \E h \in Handlers : Works(h)
    <2>1. PICK h \in Handlers : Works(h)
      BY <1>3
    <2>2. \A k \in Handlers \ {h} : handler'[k] = handler[k]
      BY <1>1, <2>1, WorksProgress DEF Progress
    <2>3. CASE UNCHANGED row /\ \A k \in Handlers : Calm(k)
      BY <1>1, <2>1, <2>2, <2>3, QuietAssets
    <2>4. CASE /\ handler[h] \in Busy /\ handler'[h] \in Busy
               /\ SameRequest(handler[h], handler'[h])
               /\ Saves(handler[h], handler'[h])
      BY <1>1, <2>1, <2>2, <2>4, SaveAssets
    <2> QED
      BY <1>1, <2>1, <2>3, <2>4, CalmOrSaves
  <1> QED
    BY <1>2, <1>3, RequestOrWorks

LEMMA AssetsNext ==
  ASSUME AssetsInv, [ImportNext /\ AskedForNew']_vars
  PROVE  AssetsInv'
PROOF
  <1>1. ImportInv'
    BY ImportNextInv DEF AssetsInv
  <1>2. CASE UNCHANGED vars
    BY <1>1, <1>2 DEF vars, bpVars, importVars, AssetsInv, AskedForNew, Fresh, Ready, Matches,
                      Batch, SavedOnce, Placed, Visible, AssetsOfVisible
  <1>3. CASE ImportNext /\ AskedForNew'
    <2>1. /\ \A k \in Handlers : Fresh(handler[k])' /\ Ready(handler[k])'
          /\ \A p \in Projects : SavedOnce(p)'
          /\ \A j \in Imports : Placed(j)'
          /\ AssetsOfVisible'
      BY <1>3, PatchAssetsKept, ImportAssets DEF ImportNext
    <2> QED
      BY <1>1, <1>3, <2>1 DEF AssetsInv
  <1> QED
    BY <1>2, <1>3

LEMMA AssetsInit ==
  ImportInit => AssetsInv
PROOF
  <1> SUFFICES ASSUME ImportInit PROVE AssetsInv
    OBVIOUS
  <1>1. /\ ImportInv
        /\ \A h \in Handlers : handler[h] = Idle
        /\ \A p \in Projects : content[p] = <<>>
        /\ \A i \in Imports : import[i].pc = "new"
    BY ImportInitInv DEF ImportInit, BPInit
  <1>2. AskedForNew
    BY <1>1 DEF AskedForNew
  <1>3. \A h \in Handlers : Fresh(handler[h]) /\ Ready(handler[h])
    BY <1>1 DEF Fresh, Ready, Patching, Idle
  <1>4. \A p \in Projects : SavedOnce(p)
    BY <1>1 DEF SavedOnce
  <1>5. ASSUME NEW i \in Imports
        PROVE  Placed(i)
    <2>1. \A p \in Projects : DOMAIN content[p] = {}
      BY <1>1
    <2>2. import[i].pc \notin Replacing \cup {"assets inserted", "done"}
      BY <1>1 DEF Replacing
    <2> QED
      BY <2>1, <2>2 DEF Placed
  <1>6. ASSUME NEW p \in Projects, NEW x \in Visible(p)
        PROVE  FALSE
    <2>1. \E n \in DOMAIN content[p] : x \in content[p][n]
      BY ShownEntry DEF Visible
    <2> QED
      BY <1>1, <2>1
  <1>7. AssetsOfVisible
    BY <1>6 DEF AssetsOfVisible
  <1> QED
    BY <1>1, <1>2, <1>3, <1>4, <1>5, <1>7 DEF AssetsInv

\* What a project shows has its assets, with any number of imports among any number of
\* requests, as long as a request for the row's version brings nothing the row has.
THEOREM AssetsShown == TabsSpec => []AssetsOfVisible
PROOF
  <1>1. AssetsInv => AssetsOfVisible
    BY DEF AssetsInv
  <1> QED
    BY <1>1, AssetsInit, AssetsNext, PTL DEF TabsSpec
=============================================================================
