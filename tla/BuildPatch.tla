----------------------------- MODULE BuildPatch -----------------------------
(***************************************************************************)
(* The server side of saving a project: build.patch, that is               *)
(* applyPatchRequest of patch-service.server.ts over patchLoadedBuild of   *)
(* build-patch.ts and createBuildPatchUpdate of build-patch-core.ts.       *)
(*                                                                         *)
(* A handler is one running request.  Its awaits are the points where      *)
(* other handlers get in between: it reads Build.version, authorizes,      *)
(* reads the columns it will rewrite, applies the asset mutations, and     *)
(* then updates the row with a compare-and-set on the version.             *)
(*                                                                         *)
(* Data is abstracted to transaction ids.  The columns of a build row are  *)
(* the sequence of batches that were applied to them; updateBuild writes   *)
(* columns computed from the ones the handler READ, so a write based on a  *)
(* stale read would drop batches.                                          *)
(***************************************************************************)
EXTENDS Integers, Sequences, SequencesExt

CONSTANTS
  Projects,     \* projects, each with one development build
  Txns,         \* transaction ids
  Clients,      \* whoever holds a connection to build.patch
  Handlers,     \* slots for requests the server has in hand (bound)
  Requests,     \* the entry lists a client may send: a subset of Seq(Txns)
  Cyclic,       \* transactions createBuildPatchUpdate answers "error" to
  Restricted,   \* transactions content mode may refuse to an "edit" permit
  AssetTxns,    \* transactions that carry asset or asset-folder patches
  NoClient,     \* the connection of a request was lost
  NoTxn,        \* lastTransactionId of a fresh build
  MaxVersion    \* bound: no request is sent for this version or a later one

ASSUME BuildPatchAssumption ==
  /\ Requests \subseteq Seq(Txns) \ {<<>>}
  /\ NoTxn \notin Txns
  /\ NoClient \notin Clients
  /\ MaxVersion \in Nat

VARIABLES
  version,            \* Build.version
  lastTransactionId,  \* Build.lastTransactionId
  content,            \* Build columns, as the batches applied to them
  assets,             \* transactions whose asset patches are in the asset tables
  handler             \* what each slot is doing

bpVars == <<version, lastTransactionId, content, assets, handler>>
row == <<version, lastTransactionId, content>>

-----------------------------------------------------------------------------

\* "outdated" is the code's version_mismatched with its other message: not the
\* build, the page is of an earlier release than the server.
Statuses == {"ok", "partial", "version_mismatched", "outdated", "authorization_error",
             "error"}

\* PatchResult, reduced to what the caller acts on.
Results == [status : Statuses, version : Nat, accepted : SUBSET Txns]

NoResult == [status |-> "error", version |-> 0, accepted |-> {}]

Idle == [pc |-> "idle"]

Busy == [pc            : {"arrived", "authorizing", "assets", "update", "replied"},
         client        : Clients \cup {NoClient},
         project       : Projects,
         entries       : Seq(Txns) \ {<<>>},
         clientVersion : Nat,
         version       : Nat,                \* build.version, later currentVersion
         content       : Seq(SUBSET Txns),   \* columns of currentBuild
         mode          : {"batch", "entries"},
         remaining     : SUBSET Txns,        \* authorized, not yet applied
         failed        : SUBSET Txns,        \* rejected or failed entries
         result        : Results]

BPTypeOK ==
  /\ version \in [Projects -> Nat]
  /\ lastTransactionId \in [Projects -> Txns \cup {NoTxn}]
  /\ content \in [Projects -> Seq(SUBSET Txns)]
  /\ assets \in [Projects -> SUBSET Txns]
  /\ handler \in [Handlers -> Busy \cup {Idle}]

BPInit ==
  /\ version = [p \in Projects |-> 0]
  /\ lastTransactionId = [p \in Projects |-> NoTxn]
  /\ content = [p \in Projects |-> <<>>]
  /\ assets = [p \in Projects |-> {}]
  /\ handler = [h \in Handlers |-> Idle]

-----------------------------------------------------------------------------
(* The entries of a request are applied in the order they were sent. *)

EarliestOf(entries, S) ==
  {entries[i] : i \in {j \in DOMAIN entries :
                         entries[j] \in S /\ \A k \in 1..(j-1) : entries[k] \notin S}}

LatestOf(entries, S) ==
  {entries[i] : i \in {j \in DOMAIN entries :
                         entries[j] \in S /\ \A k \in (j+1)..Len(entries) : entries[k] \notin S}}

\* What the next call of patchLoadedBuild saves: every authorized entry at
\* once, or, after the batch failed, the next entry on its own.
Batch(hd) ==
  IF hd.mode = "batch" THEN hd.remaining ELSE EarliestOf(hd.entries, hd.remaining)

\* patchLoadedBuild mutates assets before the row, and only when asked to.
StepFor(batch) == IF batch \cap AssetTxns = {} THEN "update" ELSE "assets"

Applied(hd) == ToSet(hd.entries) \ hd.failed

\* Mutant: an entry's status returned as the status of the request.
StatusOfEntry(failed) == IF failed = {} THEN "ok" ELSE "failed"

\* applyPatchRequest: some entry was not accepted -> "partial".
StatusFor(failed) == IF failed = {} THEN "ok" ELSE "partial"

Reply(h, status, v, accepted) ==
  handler' = [handler EXCEPT ![h] = [handler[h] EXCEPT
                !.pc = "replied",
                !.version = 0,
                !.content = <<>>,
                !.mode = "batch",
                !.remaining = {},
                !.failed = {},
                !.result = [status |-> status, version |-> v, accepted |-> accepted]]]

-----------------------------------------------------------------------------

\* The mutation reaches the server: normalizePatchRequest of a browser request,
\* whose entries all have the writer context of the connection.
Request(h, c, p, es, v) ==
  /\ handler[h] = Idle
  /\ handler' = [handler EXCEPT ![h] =
       [pc |-> "arrived", client |-> c, project |-> p, entries |-> es,
        clientVersion |-> v, version |-> 0, content |-> <<>>, mode |-> "batch",
        remaining |-> {}, failed |-> {}, result |-> NoResult]]
  /\ UNCHANGED <<version, lastTransactionId, content, assets>>

\* loadBuildState: the first read of the row, of its version alone.
LoadBuildState(h) ==
  /\ handler[h].pc = "arrived"
  /\ handler' = [handler EXCEPT ![h].pc = "authorizing",
                                ![h].version = version[handler[h].project]]
  /\ UNCHANGED <<version, lastTransactionId, content, assets>>

\* authorizePatchEntries refused every entry: nothing is loaded or saved.
RejectAll(h) ==
  /\ handler[h].pc = "authorizing"
  /\ ToSet(handler[h].entries) \subseteq Restricted
  /\ Reply(h, "partial", handler[h].version, {})
  /\ UNCHANGED <<version, lastTransactionId, content, assets>>

\* loadBuildForPatch reads the columns (lastTransactionId is one of them) and
\* keeps the version read before; createBuildPatchUpdate compares that version
\* with the client's.  A retry of what the row says was saved last is answered
\* "ok", with the version of the first read.
CheckStale(h) ==
  LET hd == handler[h] IN
  /\ hd.pc = "authorizing"
  /\ hd.clientVersion # hd.version
  /\ \E rejected \in SUBSET (ToSet(hd.entries) \cap Restricted) :
       LET authorized == ToSet(hd.entries) \ rejected IN
       /\ authorized # {}
       /\ IF lastTransactionId[hd.project] \in LatestOf(hd.entries, authorized)
            THEN Reply(h, StatusFor(rejected), hd.version, authorized)
            ELSE Reply(h, "version_mismatched", 0, {})
  /\ UNCHANGED <<version, lastTransactionId, content, assets>>

\* The versions agree: the batch is computed from the columns.  When one entry
\* cannot be applied the entries are tried one by one, and those fail alone.
StartPatch(h) ==
  LET hd == handler[h] IN
  /\ hd.pc = "authorizing"
  /\ hd.clientVersion = hd.version
  /\ \E rejected \in SUBSET (ToSet(hd.entries) \cap Restricted) :
       LET authorized == ToSet(hd.entries) \ rejected
           started == [hd EXCEPT
             !.content = content[hd.project],
             !.mode = IF authorized \cap Cyclic = {} THEN "batch" ELSE "entries",
             !.remaining = authorized \ Cyclic,
             !.failed = rejected \cup (authorized \cap Cyclic)]
       IN
       /\ authorized # {}
       /\ IF started.remaining = {}
            THEN Reply(h, "partial", hd.version, {})
            ELSE handler' = [handler EXCEPT ![h] =
                   [started EXCEPT !.pc = StepFor(Batch(started))]]
  /\ UNCHANGED <<version, lastTransactionId, content, assets>>

\* patchAssetFoldersWithClient, patchAssets and deleteAssetFoldersWithClient:
\* the asset tables change before the row does.
PatchAssets(h) ==
  LET hd == handler[h] IN
  /\ hd.pc = "assets"
  /\ assets' = [assets EXCEPT ![hd.project] = @ \cup (Batch(hd) \cap AssetTxns)]
  /\ handler' = [handler EXCEPT ![h].pc = "update"]
  /\ UNCHANGED row

\* Mutant: the failure of an asset mutation is logged and the row updated.
PatchAssetsIgnored(h) ==
  /\ handler[h].pc = "assets"
  /\ handler' = [handler EXCEPT ![h].pc = "update"]
  /\ UNCHANGED <<version, lastTransactionId, content, assets>>

\* An asset mutation throws: any of the earlier ones have already been done.
PatchAssetsFails(h) ==
  LET hd == handler[h] IN
  /\ hd.pc = "assets"
  /\ \E done \in SUBSET (Batch(hd) \cap AssetTxns) :
       assets' = [assets EXCEPT ![hd.project] = @ \cup done]
  /\ Reply(h, "error", 0, {})
  /\ UNCHANGED row

\* The compare-and-set matched: the row gets the columns computed from the ones
\* this handler read, and the version after the client's.
WriteRow(hd) ==
  /\ version' = [version EXCEPT ![hd.project] = hd.version + 1]
  /\ content' = [content EXCEPT ![hd.project] = Append(hd.content, Batch(hd))]
  /\ \E t \in LatestOf(hd.entries, Batch(hd)) :
       lastTransactionId' = [lastTransactionId EXCEPT ![hd.project] = t]
  /\ UNCHANGED assets

\* Mutant: .match() without the version.
AlwaysMatches(hd) == TRUE

Matches(hd) == version[hd.project] = hd.version

\* Mutant: the per-entry loop goes on with the build it was given.
UpdateBuildOnly(h) ==
  LET hd == handler[h]
      rest == hd.remaining \ Batch(hd)
  IN
  /\ hd.pc = "update"
  /\ Matches(hd)
  /\ WriteRow(hd)
  /\ IF rest = {}
       THEN Reply(h, StatusFor(hd.failed), hd.version + 1, Applied(hd))
       ELSE handler' = [handler EXCEPT ![h].version = @ + 1, ![h].remaining = rest]

\* .update(buildUpdate).match({ version: clientVersion }) changed one row.  The
\* per-entry loop goes on with the row it just wrote as currentBuild.
UpdateBuild(h) ==
  LET hd == handler[h]
      rest == hd.remaining \ Batch(hd)
      next == [hd EXCEPT !.version = @ + 1,
                         !.content = Append(@, Batch(hd)),
                         !.remaining = rest]
  IN
  /\ hd.pc = "update"
  /\ Matches(hd)
  /\ WriteRow(hd)
  /\ IF rest = {}
       THEN Reply(h, StatusFor(hd.failed), hd.version + 1, Applied(hd))
       ELSE handler' = [handler EXCEPT ![h] = [next EXCEPT !.pc = StepFor(Batch(next))]]

\* The row was written, and the request fails all the same: the database's
\* answer was lost, or updatePreviewImage threw.
UpdateBuildFails(h) ==
  LET hd == handler[h] IN
  /\ hd.pc = "update"
  /\ Matches(hd)
  /\ WriteRow(hd)
  /\ Reply(h, "error", 0, {})

\* Mutant: update.count is not looked at.
LoseRaceUnnoticed(h) ==
  /\ handler[h].pc = "update"
  /\ ~Matches(handler[h])
  /\ Reply(h, "ok", handler[h].version + 1, Applied(handler[h]))
  /\ UNCHANGED <<version, lastTransactionId, content, assets>>

\* update.count is 0: somebody else moved the version.
LoseRace(h) ==
  LET hd == handler[h] IN
  /\ hd.pc = "update"
  /\ ~Matches(hd)
  /\ Reply(h, "version_mismatched", 0, {})
  /\ UNCHANGED <<version, lastTransactionId, content, assets>>

\* createTokenContext and assertBrowserPatchContext, before the row is read: the
\* caller is not (or no more) logged in, or its page is of an earlier release.
TurnAway(h) ==
  /\ handler[h].pc = "arrived"
  /\ \E status \in {"authorization_error", "outdated"} : Reply(h, status, 0, {})
  /\ UNCHANGED <<version, lastTransactionId, content, assets>>

\* Anything else throws before the row is written; toPatchResult answers.
Throw(h) ==
  /\ handler[h].pc \in {"arrived", "authorizing", "update"}
  /\ Reply(h, "error", 0, {})
  /\ UNCHANGED <<version, lastTransactionId, content, assets>>

\* The answer is on the wire and the request is over.
Respond(h) ==
  /\ handler[h].pc = "replied"
  /\ handler' = [handler EXCEPT ![h] = Idle]
  /\ UNCHANGED <<version, lastTransactionId, content, assets>>

\* The connection breaks.  The client sees a network error; the request may
\* still be on its way, being handled, or answered to nobody.
Disconnect(h) ==
  /\ handler[h] # Idle
  /\ handler[h].client # NoClient
  /\ handler' = [handler EXCEPT ![h].client = NoClient]
  /\ UNCHANGED <<version, lastTransactionId, content, assets>>

\* A request nobody waits for is lost on its way, dies with its server
\* process, or ends.
Vanish(h) ==
  /\ handler[h] # Idle
  /\ handler[h].client = NoClient
  /\ handler' = [handler EXCEPT ![h] = Idle]
  /\ UNCHANGED <<version, lastTransactionId, content, assets>>

\* A step of the server's own.
Serve(h) ==
  \/ LoadBuildState(h)
  \/ RejectAll(h)
  \/ CheckStale(h)
  \/ StartPatch(h)
  \/ PatchAssets(h)
  \/ UpdateBuild(h)
  \/ LoseRace(h)

\* A failure inside the server.
Falter(h) ==
  \/ TurnAway(h)
  \/ PatchAssetsFails(h)
  \/ UpdateBuildFails(h)
  \/ Throw(h)

BPNext ==
  \E h \in Handlers :
    \/ \E c \in Clients, p \in Projects, es \in Requests :
         \E v \in 0..version[p] : v < MaxVersion /\ Request(h, c, p, es, v)
    \/ Serve(h)
    \/ Falter(h)
    \/ Respond(h)
    \/ Disconnect(h)
    \/ Vanish(h)

BPSpec == BPInit /\ [][BPNext]_bpVars

-----------------------------------------------------------------------------
(* Properties *)

\* The row implements the log: no save drops what an earlier one wrote, and a
\* version is one state of the build, although every handler reads the version
\* and the columns at different moments and computes the new columns outside
\* the database.
Log == INSTANCE BuildLog WITH log <- content
BuildLogSpec == Log!LogSpec

\* "Apply app-side asset mutations before marking the Build": the assets of a
\* saved transaction are in the asset tables, whatever failed on the way.
AssetsBeforeBuild ==
  \A p \in Projects : \A i \in DOMAIN content[p] :
    content[p][i] \cap AssetTxns \subseteq assets[p]

\* What is asked of whoever sends requests, where it matters: a request for the row's
\* version brings nothing the row has.  What was saved is only sent again with the
\* version it was first sent with, and that is older.
AskedForNew ==
  \A h \in Handlers :
    handler[h] # Idle /\ handler[h].clientVersion = version[handler[h].project] =>
      \A n \in DOMAIN content[handler[h].project] :
        ToSet(handler[h].entries) \cap content[handler[h].project][n] = {}

\* Why it holds.  The version a handler works with was the row's when it was
\* read; the columns were read later, so as long as the row still has that
\* version they are the columns of that version.
VersionAsRead(hd) ==
  /\ hd.pc \in {"authorizing", "assets", "update"} => hd.version <= version[hd.project]
  /\ hd.pc \in {"assets", "update"} /\ Matches(hd) => hd.content = content[hd.project]

\* A handler about to update the row has put the assets of its batch in place.
AssetsInPlace(hd) ==
  hd.pc = "update" => Batch(hd) \cap AssetTxns \subseteq assets[hd.project]

\* The inductive invariant behind both.
BPInv ==
  /\ BPTypeOK
  /\ AssetsBeforeBuild
  /\ \A h \in Handlers : VersionAsRead(handler[h]) /\ AssetsInPlace(handler[h])
=============================================================================
