# Saving a project: a formal model

This directory models how the builder gets a project, shows it, and saves what
is done to it: what a browser tab does with the user's edits, what the server
does with the requests that carry them, what becomes of the project's row when
tabs, retries, imports, lost connections and half-failed requests get in each
other's way, and how tabs keep each other up to date. TLC checks the models on
small instances; TLAPS proves the central facts for every instance.

Paths below are relative to `src/apps/builder/app` unless they start with
`packages/`.

## The system

| Component | State | Operations | Talks to |
|---|---|---|---|
| **Save queue** of a tab (`shared/sync/project-queue.ts`, `command-queue.ts`, `singleplayer-client.ts`) | command queue, `isPolling`, `pollingAbortController`, running calls of `pollQueue` with their `detailsMap`, `$syncStatus`, `$committedVersion`, `$lastTransactionId` | `enqueueProjectDetails`, `sendTransaction`, `startPolling`/`stopPolling`, the poll loop: dequeue, set details, send, retry, answer, halt | server (tRPC), stores, user interface (`isSyncIdle`, status) |
| **Transaction completion** (`packages/sync-client/src/transaction-completion.ts`) | callbacks by transaction, listeners, timers | register, listen, complete, time out | queue; asset dialogs and uploads that wait for a save |
| **build.patch** (`services/build-router.server.ts`, `shared/sync/patch/*.server.ts`, `packages/project/src/db/build-patch*.ts`) | the `Build` row (version, lastTransactionId, columns), asset tables, the requests in hand | load state, authorize entries, load columns, compute the update, patch assets, compare-and-set, answer | database through PostgREST, asset storage |
| **Project import** (`services/project-import.server.ts`) | the same row and asset tables | replace a build, statement by statement | database |
| **Client sync initialization** (`shared/sync/sync-client.ts`) | `client`, `modeClient`, `currentProjectId`, `initializationVersion` | initialize, load data, reload, destroy | queue, `SyncClient`, Builder, project cards |
| **SyncClient** (`shared/sync-client.ts`) | role, connection, object pool | connect, lead, state, apply, revert | canvas iframe and builder over an emitter; storages |
| **Multiplayer** (`packages/sync-client/src/multiplayer`, `shared/sync/multiplayer-*.ts`) | pending applies, `lastAckSeq`, retry timers, WebSocket, `stopped`, `$syncStatus` | track, broadcast, applied, ack, error, reconnect, reload, close | an external relay, which calls build.patch |
| **Polly** (`shared/polly`) | leader flag, heartbeats, watchdog, topics, snapshots, poll timer | elect, assert, abdicate, subscribe, poll, dispatch | other tabs over a BroadcastChannel, server |
| Publishing, workspaces, notifications, tokens, uploads, content engine, CLI, libraries, user interface | see `components` in `PROJECT.json` | | |

What is hard about it:

* **Two writers per row.** The columns of a build are read, changed in the
  server's memory and written back, with awaits in between. Only the version in
  the update's match clause protects them. An import writes the same row, and the
  asset tables in the opposite order.
* **Retries.** A tab repeats a batch for ever when the connection fails. The
  first request may have been saved, may still be running, or may never arrive.
* **Partial failure.** Assets are changed before the row; a batch may be saved
  entry by entry; a request may fail after it has written; an import may end
  between any two statements.
* **Two loops in a tab.** `stopPolling` forgets a loop before it has stopped.
* **Status and answers.** `$syncStatus`, `completeTransaction` and
  `$committedVersion` have to tell the user the truth about all of that, in both
  modes of saving.
* **Cumulative acks.** In multiplayer a broadcast, an answer and an ack of one
  apply come in any order, connections break with whatever is on its way, and
  the socket sends what it kept before the tracker repeats what is pending.
* **Late loads.** The data of a project may arrive when its page is gone, or
  another project is open; client and stores are variables of the runtime that
  all cards of a dashboard share.
* **Elections.** Tabs claim leadership when they start, when a leader abdicates
  and when heartbeats are late; several do at once, crash, or are hidden.

`PROJECT.json` lists each hazard at its line with the properties that watch it.
What makes each component correct:

* queue: no edit disappears unless the queue has halted; idle means saved;
  answers come once and in edit order; edits are answered in the end;
* completion: who waits for a save is called for what is saved, and never waits
  for what was answered already;
* server: the row is an append-only log, one batch per version, and the assets
  of a saved transaction exist;
* import: it replaces the version it was made from and no other, and what the
  project shows has its assets;
* together: nothing is applied twice, nothing is overwritten unseen, "saved" is
  true, nobody is told to reload for nothing;
* multiplayer: durable and idle mean saved, edits keep their order, each is
  answered in the end;
* client sync: an edit goes to the project it was made on, once; a page shows its
  own project; what was closed leaves nothing behind;
* Polly: in the end one tab polls, and what the server holds reaches every tab.

## Modules

| Module | Models |
|---|---|
| `BuildLog` | the abstract promise of the server: a log of batches per project, one per version |
| `BuildPatch` | requests inside the server; implements `BuildLog` |
| `ProjectImport` | imports among those requests; the composition implements `BuildLog` too |
| `ProjectQueue` | the save queues of the tabs, the server being anything that answers |
| `TransactionCompletion` | those who wait for a save, on top of `ProjectQueue` |
| `SinglePlayer` | tabs and server composed, with the connections between them |
| `MultiplayerSync` | the multiplayer tracker, its emitter and socket, and the relay at the other end |
| `ClientSync` | opening and closing projects in the Builder and in a dashboard, and the canvas |
| `CrossTab` | the election of a leader among tabs, and its polling |
| `BuildPatchProofs`, `ProjectImportProofs` | TLAPS proofs about the server, without and with imports |
| `ProjectQueueProofs`, `TransactionCompletionProofs` | TLAPS proofs about the queue, without and with callers |
| `SinglePlayerProofs` | TLAPS proofs about tabs and server together |
| `MultiplayerSyncProofs`, `ClientSyncProofs`, `CrossTabProofs` | TLAPS proofs about multiplayer, opening and closing, and the election |
| `MC...` | finite request sets, topics and symmetry for TLC |

### BuildPatch

A handler slot holds one request. Its `pc` names the await it is at, and each
action is the code up to the next await:

| `pc` | next actions | code |
|---|---|---|
| `arrived` | `LoadBuildState`, `TurnAway` | `loadBuildState`; `assertBrowserPatchContext` |
| `authorizing` | `RejectAll`, `CheckStale`, `StartPatch` | `authorizePatchEntries`, `loadBuildForPatch`, `createBuildPatchUpdate` |
| `assets` | `PatchAssets`, `PatchAssetsFails` | asset part of `patchLoadedBuild` |
| `update` | `UpdateBuild`, `UpdateBuildFails`, `LoseRace` | the compare-and-set |
| `replied` | `Respond` | the answer |

`Throw` ends a request with an error at the awaits where nothing has been
written. `Disconnect` takes the client away from a request, which goes on;
`Vanish` is a request that is lost, or whose process died, with nobody waiting.

Transactions are ids. The columns of a row are the sequence of batches applied
to them, and `UpdateBuild` writes *the columns the handler read* plus its batch,
so a save based on a stale read would visibly drop batches. `Cyclic` are the
transactions `createBuildPatchUpdate` answers "error" to; the batch then runs
entry by entry. `Restricted` are those content mode may refuse; which of them it
refuses is a choice. `AssetTxns` carry asset patches. The answer
`version_mismatched` exists for the build and, with another text, for the
release of the page; the model calls the second `outdated`. The refinement
mapping to `BuildLog` is `log <- content`.

### ProjectQueue

All state is a function of the tab. `loop[t]` holds the calls of `pollQueue`: a
call that was aborted lives on beside a newer one. A `for await` continuation
runs before the next timer, answer or user event, hence the guard `Continued` on
those. `Halt` is the code's `break polling` on a fatal error: `isPolling` and
the controller stay set, so nothing polls until a reload. `outcome` is what
`completeTransaction` has said of each transaction, `edits` (auxiliary) the
edits of the page in order. A tab in `Dialogs` is the dashboard with its
settings dialog, which destroys the client when it closes; other tabs are
builders, which only unmount.

### SinglePlayer

`Queue` and `Server` are instances of the two modules over one set of variables.
`Send` takes a batch from a loop to a free handler, `Answer` brings the result
back, `Break` makes the loop retry while the handler goes on, `Reload` drops the
page and its connections. `seen` and `basis` (auxiliary) record what a page
shows and what the author of an edit saw.

### ProjectImport

`import[i].pc` is the statement an import is about to execute. `ReplaceRow` is the
compare-and-set, which replaces all columns: in the log of the build an import is
one more entry, and what the project shows (`Visible`) starts with the last one.
Then the asset rows are deleted, folders last, and inserted again, folders first.
Every statement may be the last (`ImportBreaks`, `ImportSaveFails`). `swept`
(auxiliary) are assets an import deleted although their transaction was not part of
the build it replaced: those of a save that came on top of the import, or of one
whose asset part ran ahead of its row.

Requests come out of nowhere here, and the server does not keep a client from sending
with the row's version what the row already has: saved before an import and again after
it, a transaction would have two places in the log, and a running import would delete
assets of the second for those of the first. The tabs never do so. `AskedForNew`
(`BuildPatch`) states it, `TabsAskForNew` proves it of the tabs of `SinglePlayer`, and
`TabsSpec` is `ImportSpec` with only such requests. An import is a save to the tabs: it
only moves the row past the version they know.

### TransactionCompletion

A caller is one call of `onNextTransactionComplete`. `OnNextTransactionComplete`
registers with `$lastTransactionId` or listens for the next one; every step of
the queue that answers transactions settles the callers that wait for them;
`TimeOut` is the 60 s timer of a registration or of a listener.

### MultiplayerSync

`socket` is the WebSocket of `websocket-emitter.ts` (none, connecting, open,
closed), `buffer` what it keeps while it is not open, `up` and `down` what is on
its way. `actorId` and `clientSeq` name the same applies as transaction ids do, so
the tracker's two maps are one, `pending`, here the set of its keys: entries are only
ever added in the order of `clientSeq`, so `Reconnect` sends `InOrder(pending)`, which
is the Map's order of insertion. Each handler of
`multiplayer-retry-tracker.ts` is an operator (`Sequenced` for broadcast and
settled, `HandleApplied`, `HandleAck`, `HandleError`, `HandleReload`) and ends in
`UpdateUnsaved`. `fate` is what the page has been told of each edit. The relay is
not in the repository; it is modelled from the protocol and from how the tracker
reads it: it sequences an apply once, answers a repeated one with what became of
it, saves its log in order, and may drop, turn away, reject, or send everybody to
reload. `lost` and `missed` (auxiliary) are the applies and the refusals that went
with a connection.

### ClientSync

A session is one mount of the effect that calls `initializeClientSync`. `load` is
the part of the call that comes after its `await`: connecting the client
(`ConnectClient`), setting the stores (`CompleteDataLoad`) or, in multiplayer,
replacing them (`Reload`, with the signal of the session that created the client:
`client.session`). `current` is whether its `initializationVersion` is the
latest. `Open` has the three branches of the code: the client of the project is
there, it must be made before the data come, or after. `DestroyClientSync` leaves
the subscriptions of the client alone: they end with the session's signal.
`place` is the runtime: the `Builder` with its canvas, which follows over the
client's emitter, or a dashboard, where every project card destroys the client
when it is mounted (`MountCard`).

### CrossTab

`inbox[t][s]` is what tab `s` has posted and `t` has not handled: a
BroadcastChannel keeps the order of one sender only. `BecomeLeader`, `Resign` and
the `Handle...` operators are the functions of `cross-tab-manager.ts`; `fetch`,
`timer` and `hidden` belong to the polling client of a leader. A request under way
when its leader resigns (`stray`) is not aborted, and posts its answer all the
same. Topics are subscribed to one after the other when a tab starts; their data
change together and are a version number, so an answer holds any version from the
one it was asked at.

## Runs

Passing runs:

| Run | Instance | Shows |
|---|---|---|
| `build_patch` | 1 project, 2 requests at a time, 3 transactions (one fails, one may be refused, one has assets), 2 versions | `BuildPatch` implements `BuildLog`; assets before build; the inductive invariant |
| `builder_queue` | builder tab, 2 edits, 1 caller that waits, no retry before "failed", no error before giving up, versions up to 2 | no edit lost, idle means saved, saved in order, details first; callers are called for what is saved; every edit is answered, or the queue halts, or the page goes |
| `dialog_queue` | dialog, 2 projects, 2 edits, 2 loops, retries and errors counted to 1 | one loop that is not on its way out; an edit is with one loop only; answered once; types |
| `two_tabs` | a builder and a dashboard dialog with 2 loops, 2 edits, 2 requests at a time, 3 loads, 1 fault | saved is committed, no missing base, no blind write; without a fault a queue halts only when its page is outdated, or when a closed dialog left edits in it |
| `retry` | 1 tab, 2 edits (one fails, one has assets), 2 requests at a time, 2 loads, 2 faults | committed once; every edit is answered, with the real server on the other side |
| `import` | 1 project, 1 request at a time, 2 transactions with assets (one of a folder), 2 imports, requests for 3 versions, as the tabs make them (`TabsSpec`) | imports and patches implement `BuildLog`; what the project shows has its assets; what is accepted is shown |
| `multiplayer` | 2 edits of the page, 1 of another, 1 copy of each apply beside its timer, 2 broken connections, reloads or refusals of service | durable and idle mean saved; edits overtake only what was held up; every edit is answered |
| `client_sync` | 2 projects, 1 edit, 3 sessions, in every mode, on a dashboard or in the Builder | edits go home; a page shows its project; what is closed leaves nothing; the canvas shows the stores; no load takes edits away; opening ends |
| `cross_tab` | 2 tabs, 2 topics, 1 change of the data, 2 faults (crash, late heartbeat, failed poll, refresh, hiding) | followers watch; one leader in the end; listeners catch up |

`NoBlindWrite` implies `CommittedOnce` (no edit is in what its own author saw
before it), which is why `two_tabs` does not list the second.

Runs that find a disagreement between the code and what it says of itself:

| Run | Property | What happens |
|---|---|---|
| `false_saved` | `SavedIsCommitted` | A batch is saved but for one entry that fails, the answer "partial" is lost, and the retry is answered "ok" because the last transaction of the batch is the row's last. The failed edit is reported as saved. |
| `cross_tab_new_topic` | `NoTopicWaits` | A tab that is alone subscribes to its topics one after the other. The first starts a poll for itself; the refreshes of the others are handed that poll, and when it is answered their data are an interval away. |
| `client_sync_cards` | `DialogKeepsData` | A settings dialog is open when the dashboard gets a new project card. The card's effect runs with its own dialog closed, destroys the client of the open one and empties its stores. |

### Known exceptions

Some properties name a case in which the code does something else, found by
TLC while the property was written without it:

* `DurableMeansSaved`, `IdleMeansSaved` (multiplayer): `missed`, a refusal whose
  answer went with a connection. The next ack of anything later passes for an ack
  of it. After a reload (`stopped`) the tracker is idle over edits it ignores.
* `OvertakesOnlyDetained`: an apply lost with a connection is repeated behind what
  the socket has kept.
* `CanvasShowsStores`: `replaced`, the canvas of a multiplayer page after
  `onReload`, which sets the stores of the builder alone.
* `ReadyShowsProject`, `LoadsKeepEdits`, `OpensSettle`: `reset`, the finding of
  `client_sync_cards`.
* `AssetsOfVisible`: an import that broke after it had replaced the row, and
  `swept`, the assets of a save that met an import; and `TabsSpec`, without which a
  client could bring the same transaction twice.
* `ListenersCatchUp`: a hidden leader goes on sending heartbeats and does not poll.
* `NoMissingBase`: edits made in a dialog. The loop a closed dialog leaves
  behind may take the first edits of the next one off the queue, notice its signal and
  drop them, and the new loop then reports idle. For the same reason
  `IdleMeansSaved` and `NoEditLost` of the queue are checked for a builder.
* `DetailsAfterSync`, which is proved for tabs whose polling ends with the page and no
  run checks: a dialog that is closed while its loop sends and opened again.
  `stopPolling` does not wait for the loop it aborts, so the new loop takes the details
  of the project, with the version of before, while the transactions of the first are
  still under way. The comment at line 174 of `project-queue.ts` takes them for
  synchronized, and the version check behind it compares with what this loop alone
  knows; the next patch is then refused as `version_mismatched`.
* `NoBlindWrite`: `BuildersStay`. Were a builder's page to leave its project for another
  and come back, the loop it stopped could drop the `setDetails` of the second visit, and
  the new loop would save over the version of the first. No page of the Builder does so.
* `HaltMeansStale`: with a fault, a retry that reads the version before the
  request it repeats commits is told that somebody else edited the project. And
  `leftOver`: a dialog closed over a queued edit and opened again before the aborted
  loop polls. The loop that starts then takes the edit and after it the details of the
  project, knows none when it comes to the edit, and halts with "Project details not found".

### Bounds

`Handlers` bounds concurrent requests (two are enough for every pairwise race: a
third would race with the row, which the other two change in the same ways),
`Loops` the calls of `pollQueue`, `MaxQueue` the commands in a queue when a
project is opened (with 2 the details may meet edits that are still queued),
`MaxVersion` the versions the environment of a component uses, `MaxFaults` and `MaxEvents` what may fail, `MaxLoads` and `MaxOpens` how
often a project is opened, `Callers` the calls that wait at a time.
`MaxRetryRecovery` and `MaxAllowedApiErrors` are 5 in the code; 0 and 1 reach
each side of both comparisons (both are counted to 1 in `dialog_queue`, errors to
1 in `retry`). Two edits give a batch of two, a batch behind a batch, or a late
edit; two tabs give every two-writer race and every meeting of two leaders; two
topics the first and those behind it. A timer that may fire again and again
(`RetryTimer`, `HeartbeatTimer`, `PollTimer`) waits while `MaxCopies` or
`MaxQueue` of its messages are under way: timers are slow compared with messages.
Three sessions give an opening that is superseded by one that is superseded.
`Loops`, `Handlers`, `Imports` and, where none of them is special, `Txns` are
symmetric. No liveness run uses symmetry.

### Fairness

* `TCFairSpec` (`PQFairness`): timers and continuations of a browser tab run
  (weak fairness on a loop's own steps and on sending), and an answer that is
  possible again and again comes in the end (strong fairness; the network may
  fail in between for as long as it likes, but not for ever). Nothing is assumed
  of callers and their timers.
* `FairSpec` of `SinglePlayer` needs no assumption on answers: the server works
  on what it has (weak fairness on `Serve`), requests and answers travel (weak
  fairness on `Send` and `Answer`), faults are bounded.
* `FairSpec` of `MultiplayerSync`: the socket reconnects (PartySocket does so by
  itself), timers that are set fire, messages arrive, and the relay handles what
  it receives and what it has sequenced, in whatever way.
* `FairSpec` of `ClientSync`: data that were asked for come, or an error does.
* `FairSpec` of `CrossTab`: timers fire, requests are answered, messages arrive.
  Nothing makes a hidden page show itself, or a tab start or end.

Nothing is assumed of the user.

### Mutants

Next to some definitions stands a variant marked "Mutant": the same code with a
plausible mistake (a dropped version in the match clause, a swallowed error, a
counter that is not increased). No specification uses them. Each property fails
when its mutant takes the definition's place, so each has been seen to fail.

## Proofs

`BuildPatchProofs` proves, for any projects, transactions, clients, handlers and
requests, from `BuildPatchAssumption` alone (requests are non-empty sequences of
transactions, the null values are no members of their sets, the bound is a
natural number):

* `BPInvariant`: `BPSpec => []BPInv`;
* `BPTypeCorrect`: `BPSpec => []BPTypeOK`;
* `AssetsCorrect`: `BPSpec => []AssetsBeforeBuild`;
* `ImplementsLog`: `BPSpec => BuildLogSpec`, the refinement.

The refinement needs an invariant: that a save appends to the row's *current*
columns is not visible in the step, which appends to the columns the handler
read. `VersionAsRead` supplies it: the version a handler works with was the
row's when it was read, versions only grow, and the columns were read later, so
if the row still has that version the columns are the row's. A save moves the
version past that of every other handler, which makes their part of the
invariant vacuous. `AssetsInPlace` is the same for the asset tables. There is one lemma
per action (`HandlerStep` and `SaveStep` carry the common part) and
`BPNextInv` puts them together. The lemmas are about `InvFor(A)`, the invariant
whose part on assets is claimed for the transactions of `A` only: `BPInv` is
`InvFor(AssetTxns)`, and what holds beside imports is `InvFor({})`, because an
import deletes the project's assets under the feet of the requests.

`ProjectImportProofs` proves, for any imports too, from `BuildPatchAssumption` and
the assumption on imports:

* `ImportTypeCorrect`: `ImportSpec => []ImportTypeOK`;
* `ImportsImplementLog`: `ImportSpec => ImportLogSpec`, the refinement of the
  composition;
* `AcceptedShown`: `WholeBatches => (ImportSpec => AcceptedIsVisible)`;
* `AssetsShown`: `TabsSpec => []AssetsOfVisible`.

Its invariant adds to `InvFor({})` the types of the imports: one that has started
has a project and the version it loaded, which is what its compare-and-set compares.
An import that replaces the row moves its version past those the requests read, and
so makes what they believe of the row vacuous, as a save does.

For `AcceptedShown` the invariant is `WholeInv`: a request is saved in one piece
(`InOnePiece`), and `lastTransactionId` is that of an import or the last one of the
log's last entry (`TellsLast`). So a retry that finds its last transaction there finds
all of its batch at the end of the log, where it is shown. `WholeBatches` is what this
needs of the requests: those with the same last transaction are the same batch, which
is what a retry is (`Alike` in `SinglePlayerProofs`), and nothing is refused or fails
alone, which leaves out what `false_saved` shows.

For `AssetsShown` it is `AssetsInv`: what a request saves is not in the row yet
(`Fresh`, from `AskedForNew` when the columns are read and from the compare-and-set
after that), what it saves next has its assets or an import swept them (`Ready`), no
transaction has two places in a log (`SavedOnce`), and an import has one from its
compare-and-set on (`Placed`). What an import deletes for the sake of the entries before
its own is therefore in none of those that are shown, and in no batch that can still win
the compare-and-set (`DeletedIsSwept`).

`ProjectQueueProofs` proves, for any tabs, projects, transactions and number of
calls of `pollQueue`, from `ProjectQueueAssumption`, in three parts.

1. *Loops.* `PQInvariant`, `PQTypeCorrect` and `OneLoopAtATime`. `PQInv`, which
   is there for the proofs only, adds to the types what the steps rely on: a loop
   that is handling, sending or waiting has a command in hand, and a page that is not
   closed has a project. `OneLiveLoop` is inductive beside them: a new loop is started only when the tab has no controller,
   and then every loop still running has been aborted.
2. *Answers.* `AnswersAreFinal`: `PQSpec => AnsweredOnce`. A transaction may be
   answered by an aborted loop that was still waiting, by the loop that took over, or
   by a reload, so `OnceInv` says where transactions are: a transaction of the queue or
   of a loop's batch is in one command of one of them only, is among the edits of one
   tab, and is pending. An edit is fresh when it is made, so appending it keeps this;
   taking the queue moves commands to one loop; what leaves a batch is answered at
   that step and is nowhere else. The first part of this is `SentByOneLoop`
   (`OneLoopSends`).
3. *Promises.* `EditsAreKept` (`NoEditLost`), `IdleIsTrue` (`IdleMeansSaved`),
   `SavesInOrder` (`SavedInOrder`), `DetailsAreKnown`
   (`DetailsPrecedeTransactions`) and `DetailsComeLast` (`DetailsAfterSync`), each
   `PQSpec /\ PollsOn => [](...)`. `PollsOn` says
   that the polling of a tab ends only with its page. With dialogs it does not, and the
   promises fail (see *Known exceptions*). A builder unmounts, but destroys no client
   and shows one project: `BuilderPollsOn` proves that `PollsOn` follows where there
   are no dialogs and one project, and `BuilderKeeps` states the first four for
   such a browser under `PQSpec` alone. `KeepInv` is their inductive invariant, per
   tab: the only loop is the controller's and without it there is nothing to save
   (`Manned`), batch and queue stand in the order of the edits (`LinedUp`), details
   come before the transactions that need them (`Equipped`), the running loop has or
   will take all that is unanswered (`Carried`), no saved edit has an unanswered one
   before it (`SavedBefore`), and `$lastTransactionId` is the last edit while that is
   unanswered (`LastIsPending`), without which a new edit would be merged into or
   answered with the wrong ones.

`TransactionCompletionProofs` proves that callers do not disturb the queue
(`CallersRefineQueue`: `TCSpec => PQSpec`) and takes over what is proved of it
(`OneLoopWithCallers`, `FinalWithCallers`, and in `BuilderCalls` the first four promises).
Of the callers it proves the types (`TCTypeCorrect`) and, under `PollsOn` again,
`CalledInTime` (`ConfirmedWhenCalled`) and `NobodyWaitsInVain`
(`WaitsForUnanswered`). `CallInv` says of each call that what it waits for is
unanswered, and that of what was unanswered when it asked the rest comes earlier in
the edits: `SavedBefore` then gives that a success answers all of it.

`SinglePlayerProofs` proves, for any tabs, loops, handlers, loads and faults, from
`SinglePlayerAssumption`:

* `TypeCorrect`: `Spec => []TypeOK`;
* `AppliedOnce`: `Spec => []CommittedOnce`;
* `TabsAskForNew`: `Spec => []AskedForNew`, of the server's requests;
* `SavedIsInRow`: `Cyclic = {} /\ Restricted = {} => (Spec => []SavedIsCommitted)`;
* `NothingOverwrittenBlindly`: `Spec /\ BuildersStay => []NoBlindWrite`, and
  `OneProjectNeverOverwrittenBlindly`, which needs no hypothesis but one project;
* `NothingMissing`: `Spec /\ BuildersStay => []NoMissingBase`, and
  `OneProjectNothingMissing` for one project.

It instantiates the proofs of the queue and of the server and cites their lemmas, so
what is added is what ties the two. For `AppliedOnce`: wherever a transaction of a
request still is in a tab, it is in the same command with the same version
(`Requested`); what the row has is in a loop's hand only with a version from before
it (`Kept`), and in a request only so too (`Later`); requests that share a
transaction are attempts of one loop at one batch (`Alike`). With
`OneVersion` (the version counts the saves) a handler that would win the
compare-and-set has nothing to save that is saved (`Unsaved`). `SavedIsInRow` needs
in addition that the loop that waits is the one its handler answers (`Connections`),
that a row has all of a request or nothing (`AllOrNothing`), that "ok" is true
(`TrueAnswers`) and that the row's last transaction is in it (`LastIsSaved`). The
hypothesis is that no entry of a patch can fail by itself; where one can,
the run `false_saved` shows that the conclusion fails.

`NoBlindWrite` is about what an author had seen when he made an edit, three hops away
from the compare-and-set that writes it. `Informing` follows it along the first hop:
in the line of a loop's batch and the tab's queue, each edit was made by somebody who
had seen what comes before it in the line and the version of the details before it, or
without such details the version the loop itself knows (`Sound`); what is sent was made
by somebody who had seen the version it is sent with. The lemmas about such lines are
the last part of `ProjectQueueProofs`. `HandlerSees` carries it over the wire. The
answer with a newer version is the hard part: the loop takes that version for its own,
also when the server has recognised the request by its last transaction and saved
nothing. So `OkOwn`, `HandlerOwn`, `LoopOwn` and `MatchOwn` say that then all the row
has gained since the request's version is of the request itself (`Own`), and `Handed`
that a builder's tab leaves no loop behind that others go on from. `SeenInv` is all of
these with `CommitInv`. `BuildersStay` says that the page of a builder, once it has
opened a project, opens no other: a project is at a host of its own
(`parseBuilderUrl` in `packages/protocol/src/builder-api/url.ts`), so that another
project is another page with another queue. Without it `NoBlindWrite` fails with two
projects (see *Known exceptions*).

`NoMissingBase` is the other side: what the author of a saved edit saw is in the row.
`Building` says of a builder's tab that what an edit was made on is granted (in the row,
or something the server never takes) or stands before the edit in the same line
(`TabFounded` of `ProjectQueueProofs`), and that what the page shows, when it shows a
project, is granted or in the line. So the entries of a request are founded on what is
granted and on each other (`HandlerFounded`). They may be saved one at a time: what a
handler has left out so far is granted (`PatchRest`), and of two entries that are both
left the one that is saved was made first, because of two edits one author at most saw
the other's (`OneWay`, from `FreshUnseen`). The line of a tab shrinks when an answer is
ok, so the ok must grant all of the request (`OkGiven`). The hard case is again the
request that the server recognises by its last transaction: that transaction is in the
row, and since `NoMissingBase` holds so far, what its author saw is too, which is all
the entries before it. So `NoMissingBase` is needed to prove itself. `BaseInv` is all
of these with `SeenInv`; `BuildersStay` is needed as above, for the page that goes on
to another project stops its loop and drops what that held.

`ClientSyncProofs` proves all five invariants the runs check, and `LoadsKeepEdits`,
for any projects, edits and sessions, from `ClientSyncAssumption`
(`ClientSyncTyped`, `EditsAreQueuedOnce`, `ReadyPagesAreWhole`,
`DashboardsAreLeftClean`, `CanvasFollowsBuilder`, `EditsOutliveLoads`). `CSInv` is the
invariant: one session is shown at a time (`OneShown`), phase, load and flags of a
session go together (`SessionsFit`), a connection is of the shown session and its
client's session has exactly one (`ConnectionsFit`), the client's storage is its
project's (`ClientFits`), and a canvas is where no cards are (`CanvasHosted`).

`MultiplayerSyncProofs` proves all four invariants of `multiplayer`, for any number of
edits and faults, from `MultiplayerAssumption`:

* `MultiplayerTyped`; `DurableIsSaved` (`DurableMeansSaved`); `IdleHidesNoEdit`
  (`IdleMeansSaved`); `LogKeepsOrder` (`OvertakesOnlyDetained`).

`MSInv` says that every message under way is true (`MessagesTrue`) and that so is what
the tracker has learnt from them (`TrackerFits`). A cumulative ack may only take an
apply for durable that was not refused: `RefusalsFirst` says that the refusal of a
pending apply is on its way *before* any ack that covers it (`Warned`), unless it went
with a connection. `EditsAccounted` and `EditsOnTheirWay` say where an edit can be,
and `InTheirOrder` that of two edits the earlier one comes first in log, wire and
buffer taken together, unless something `Detained` it. `InOrder` picks a
listing of the pending applies; that there is one is proved by the least
counterexample on the natural numbers.

`CrossTabProofs` proves, from `CrossTabAssumption`, for any tabs, topics and faults:

* `CTTypeCorrect`: `Spec => []TypeOK`, which says besides the types that a tab that
  does not lead has no request of its client under way and no timer;
* `NoTabUnwatched`: `Spec => []FollowersWatch`.

The two are inductive together: a tab gives up leadership only where it starts its
watchdog and stops its client. `BecomeLeaderStep`, `ResignStep` and `PollStep` carry
what handlers that end in these calls have in common.

Only model-checked:

* `HaltMeansStale` of `SinglePlayer`: that a halt means a conflict needs, beside what
  authors saw, all that they did not see, as long as nothing fails.
* All liveness: fairness and `ENABLED` are beyond the prover.

The proofs use no recursive operator.

## Not modelled

* The contents of transactions (immer patches, merging, cycles, content mode
  rules), permits and tokens, texts and dialogs (a `confirm` only decides whether
  the user reloads, which a user may do at any time), delays (a pause is a point
  where others may act). The database executes one statement atomically.
* Of `SyncClient`: `revert`, which only the relay sends and nobody handles, and
  `lead`, which nothing but tests calls. Of multiplayer: presence, and what pages
  show of the edits of others, which depends on the relay's replay. Of Polly:
  unsubscribing, which no caller does. Of completion: the function that cancels a
  call, which no caller keeps.
* The components `PROJECT.json` lists as not modelled. They are sequential
  scripts over an API, single statements over PostgREST, input and output to
  object storage, views, generated tables or pure data transformations: the
  greater part of the repository's lines, and of its own logic a model would only
  transliterate. This is why the modules cover a small share of the lines while
  they cover the state that several actors change.

## Plan

1. *(done)* `BuildLog`, `BuildPatch`, `ProjectQueue`, `SinglePlayer`, with the
   proofs of the first three's invariants and of the refinement.
2. *(done)* `MultiplayerSync`, `ClientSync` with the canvas, `CrossTab`,
   `TransactionCompletion`, `ProjectImport`.
3. *(done)* The proofs of `ProjectImport`, `TransactionCompletion`, `CrossTab` and of
   `AnsweredOnce`.
4. *(done)* The proofs of the queue's promises and of its callers', `CommittedOnce` and
   `SavedIsCommitted` of `SinglePlayer`, and everything but liveness of `ClientSync` and
   `MultiplayerSync`.
5. *(done)* `NoBlindWrite` of `SinglePlayer`; `AcceptedIsVisible` and
   `AssetsOfVisible` of `ProjectImport`.
6. *(done)* `NoMissingBase` of `SinglePlayer`: every invariant a passing run checks is the
   conclusion of a theorem.
