---------------------------- MODULE ProjectImport ----------------------------
(***************************************************************************)
(* The second writer of a build row: importPublishedProjectBundle of       *)
(* project-import.server.ts, among the requests of BuildPatch.  build.patch *)
(* changes the asset tables and then the row; an import replaces the row   *)
(* and then the asset tables, one statement at a time.                     *)
(*                                                                         *)
(* An import appends one entry to the log of the build, as every save      *)
(* does; what the project shows starts with its last import.  The id of an *)
(* import is the lastTransactionId it makes up.                            *)
(***************************************************************************)
EXTENDS BuildPatch, FiniteSets

CONSTANTS
  Imports,    \* imports, each run once
  FolderTxns  \* the asset transactions that are about folders

ASSUME ImportAssumption ==
  /\ Imports \subseteq Txns
  /\ Imports \cap UNION {ToSet(es) : es \in Requests} = {}
  /\ FolderTxns \subseteq AssetTxns \ Imports

VARIABLES
  import,  \* what each import is doing
  swept    \* assets an import deleted although their transaction was not
           \* in the build it replaced (auxiliary)

importVars == <<import, swept>>
vars == <<bpVars, importVars>>

ImportSteps == {"new", "loaded", "saved", "reset", "assets deleted", "folders deleted",
                "folders inserted", "assets inserted", "done", "refused", "broken"}

\* The steps after the row was saved.
Replacing == {"saved", "reset", "assets deleted", "folders deleted", "folders inserted",
              "assets inserted"}

ImportInit ==
  /\ BPInit
  /\ import = [i \in Imports |-> [pc |-> "new"]]
  /\ swept = {}

-----------------------------------------------------------------------------

\* The permit, the version of the bundle and its shape are checked before the
\* build is loaded or after: nothing is changed by then.
ImportLoad(i, p) ==
  /\ import[i].pc = "new"
  /\ import' = [import EXCEPT ![i] =
                  [pc |-> "loaded", project |-> p, version |-> version[p]]]
  /\ UNCHANGED <<bpVars, swept>>

\* Mutant: no version in the match of the update.
AnyVersion(i) == TRUE

SameVersion(i) == version[import[i].project] = import[i].version

\* Mutant: the row keeps the lastTransactionId of the build it replaces.
KeepTransactionId(i) == UNCHANGED lastTransactionId

\* lastTransactionId: createId().
NewTransactionId(i) ==
  lastTransactionId' = [lastTransactionId EXCEPT ![import[i].project] = i]

\* The compare-and-set matched: all columns are replaced.
ReplaceRow(i) ==
  LET p == import[i].project IN
  /\ import[i].pc = "loaded"
  /\ SameVersion(i)
  /\ version' = [version EXCEPT ![p] = import[i].version + 1]
  /\ content' = [content EXCEPT ![p] = Append(@, {i})]
  /\ NewTransactionId(i)
  /\ UNCHANGED <<assets, handler, swept>>

ImportSave(i) ==
  /\ ReplaceRow(i)
  /\ import' = [import EXCEPT ![i].pc = "saved"]

\* The answer of the database is lost, and the import ends there.
ImportSaveFails(i) ==
  /\ ReplaceRow(i)
  /\ import' = [import EXCEPT ![i].pc = "broken"]

\* update.count is 0: "Unable to import project bundle because build changed."
ImportRefused(i) ==
  /\ import[i].pc = "loaded"
  /\ ~ SameVersion(i)
  /\ import' = [import EXCEPT ![i].pc = "refused"]
  /\ UNCHANGED <<bpVars, swept>>

\* A statement of replaceProjectAssetRows and what follows it: the step from one pc
\* to the next.
Statement(i, from, to) ==
  /\ import[i].pc = from
  /\ import' = [import EXCEPT ![i].pc = to]
  /\ UNCHANGED <<row, handler>>

\* The rows of gone are deleted.  Those not saved before this import are swept.
DeleteRows(i, gone) ==
  LET p == import[i].project
      log == content[p]
      before == {n \in DOMAIN log : \A k \in 1..n : i \notin log[k]} IN
  /\ assets' = [assets EXCEPT ![p] = @ \ gone]
  /\ swept' = swept \cup ((assets[p] \cap gone) \ UNION {log[n] : n \in before})

ResetPreviewImage(i) ==
  Statement(i, "saved", "reset") /\ UNCHANGED <<assets, swept>>

DeleteAssets(i) ==
  /\ Statement(i, "reset", "assets deleted")
  /\ DeleteRows(i, AssetTxns \ FolderTxns)

DeleteFolders(i) ==
  /\ Statement(i, "assets deleted", "folders deleted")
  /\ DeleteRows(i, FolderTxns)

InsertFolders(i) ==
  Statement(i, "folders deleted", "folders inserted") /\ UNCHANGED <<assets, swept>>

\* Mutant: without folders the import returns before it inserts assets.
InsertNoAssets(i) ==
  Statement(i, "folders inserted", "assets inserted") /\ UNCHANGED <<assets, swept>>

\* With the rows of its assets the import is in the tables as a whole.
InsertAssets(i) ==
  /\ Statement(i, "folders inserted", "assets inserted")
  /\ assets' = [assets EXCEPT ![import[i].project] = @ \cup ({i} \cap AssetTxns)]
  /\ UNCHANGED swept

\* restoreImportedAssetFiles and updateProjectPreviewImage.
ImportDone(i) ==
  Statement(i, "assets inserted", "done") /\ UNCHANGED <<assets, swept>>

\* Any statement throws, or the server process dies: what is done stays done.
ImportBreaks(i) ==
  /\ import[i].pc \in {"loaded"} \cup Replacing
  /\ import' = [import EXCEPT ![i].pc = IF @ = "loaded" THEN "refused" ELSE "broken"]
  /\ UNCHANGED <<bpVars, swept>>

ImportStep(i) ==
  \/ \E p \in Projects : ImportLoad(i, p)
  \/ ImportSave(i)
  \/ ImportSaveFails(i)
  \/ ImportRefused(i)
  \/ ResetPreviewImage(i)
  \/ DeleteAssets(i)
  \/ DeleteFolders(i)
  \/ InsertFolders(i)
  \/ InsertAssets(i)
  \/ ImportDone(i)
  \/ ImportBreaks(i)

ImportNext ==
  \/ BPNext /\ UNCHANGED importVars
  \/ \E i \in Imports : ImportStep(i)

ImportSpec == ImportInit /\ [][ImportNext]_vars

\* The same with requests as the tabs make them (TabsAskForNew of SinglePlayerProofs).
TabsSpec == ImportInit /\ [][ImportNext /\ AskedForNew']_vars

-----------------------------------------------------------------------------
(* Properties *)

ImportTypeOK ==
  /\ BPTypeOK
  /\ swept \subseteq AssetTxns
  /\ \A i \in Imports :
       /\ import[i].pc \in ImportSteps
       /\ import[i].pc # "new" =>
            import[i].project \in Projects /\ import[i].version \in Nat

\* What the project shows: its last import, and what was saved on top of it.
Shown(log) ==
  UNION {log[n] : n \in {m \in DOMAIN log :
           \A k \in (m+1)..Len(log) : log[k] \cap Imports = {}}}

Visible(p) == Shown(content[p])

\* Imports and patches implement the log together: an import replaces the version
\* it loaded and no other, and a patch that was computed before an import is not
\* saved over it.
ImportLogSpec == Log!LogSpec

\* What the project shows has its assets, in spite of the two orders of writing,
\* unless the import it shows did not come to its end, or another import was
\* replacing the assets at the same time.
AssetsOfVisible ==
  \A p \in Projects : \A x \in Visible(p) \cap AssetTxns :
    \/ x \in assets[p]
    \/ x \in swept
    \/ x \in Imports /\ import[x].pc # "done"

\* A request is told that a transaction was saved only when the project shows it:
\* the retry of a batch that an import has replaced meanwhile is not answered ok.
AcceptedIsVisible ==
  [][\A h \in Handlers :
       handler[h].pc # "replied" /\ handler'[h].pc = "replied" =>
         handler'[h].result.accepted \subseteq Visible(handler[h].project)']_vars
=============================================================================
