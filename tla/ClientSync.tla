---------------------------- MODULE ClientSync ----------------------------
(***************************************************************************)
(* How a page gets the data of a project and gives it up again:            *)
(* initializeClientSync and destroyClientSync (shared/sync/sync-client.ts), *)
(* the SyncClient of the page and of its canvas (shared/sync-client.ts),   *)
(* and the components that call them: the Builder, and the settings dialog *)
(* of every project card of the dashboard.                                 *)
(*                                                                         *)
(* client, modeClient and initializationVersion are variables of the       *)
(* JavaScript runtime: all cards of a dashboard share them.  A session is  *)
(* one mount of the effect that calls initializeClientSync; its signal is  *)
(* aborted when the effect is cleaned up.                                  *)
(***************************************************************************)
EXTENDS Integers

CONSTANTS Projects, NoProject,
          Txns,       \* edits, each made once
          MaxOpens    \* bound: sessions of one runtime

ASSUME ClientSyncAssumption ==
  /\ NoProject \notin Projects
  /\ MaxOpens \in Nat

VARIABLES
  place,      \* "dashboard" or "builder": they are different runtimes
  mode,       \* "own", "view" or "multiplayer": authPermit and the relay's URL
  cards,      \* the projects whose card is mounted
  session,    \* calls of initializeClientSync
  client,     \* client, its currentProjectId, the state its storage starts with, its signal
  listeners,  \* the connections of clients: handlers and store subscriptions
  stores,     \* the data stores: whose data, and which edits are in it
  canvas,     \* the SyncClient of the canvas and what the canvas shows
  polling,    \* isPolling of the save queue
  queued,     \* the connections that put each edit on the save queue (auxiliary)
  made        \* the project each edit was made on (auxiliary)

vars == <<place, mode, cards, session, client, listeners, stores, canvas, polling,
          queued, made>>

Sessions == 1..MaxOpens

-----------------------------------------------------------------------------

Data == [project : Projects \cup {NoProject}, edits : SUBSET Txns]
NoData == [project |-> NoProject, edits |-> {}]

\* initial: the ServerSyncStorage of the client, NoData when it has none.  session:
\* the one that created it, whose signal its onReload looks at.
NoClient == [project |-> NoProject, initial |-> NoData, session |-> 0]
Clients == [project : Projects, initial : Data, session : Sessions]
NoCanvas == [connection |-> "disconnected", data |-> NoData, replaced |-> FALSE]

\* "closed" by its dialog or page, "removed" with the card it belongs to.
SessionStates ==
  [project : Projects \cup {NoProject},
   phase   : {"new", "loading", "ready", "closed", "removed"},
   load    : {"none", "connect", "complete", "reload",  \* what its result is for
              "failed"},
   current : BOOLEAN,   \* currentInitializationVersion = initializationVersion
   reset   : BOOLEAN]   \* another card destroyed its client (auxiliary)

NewSession ==
  [project |-> NoProject, phase |-> "new", load |-> "none", current |-> FALSE,
   reset |-> FALSE]

Connections == [session : Sessions, storage : Projects \cup {NoProject}]

Shown(s) == session[s].phase \in {"loading", "ready"}
Aborted(s) == session[s].phase \in {"closed", "removed"}
MadeOn(p) == {x \in Txns : made[x] = p}

TypeOK ==
  /\ place \in {"dashboard", "builder"}
  /\ mode \in {"own", "view", "multiplayer"}
  /\ cards \subseteq Projects
  /\ session \in [Sessions -> SessionStates]
  /\ client = NoClient \/ client \in Clients
  /\ listeners \subseteq Connections
  /\ stores \in Data
  /\ canvas \in [connection : {"disconnected", "connecting", "connected"},
                 data : Data, replaced : BOOLEAN]
  /\ polling \in BOOLEAN
  /\ queued \in [Txns -> SUBSET Connections]
  /\ made \in [Txns -> Projects \cup {NoProject}]

\* Dashboard projects are the user's own.
Init ==
  /\ place \in {"dashboard", "builder"}
  /\ mode \in {"own", "view", "multiplayer"}
  /\ place = "dashboard" => mode # "view"
  /\ cards = {}
  /\ session = [s \in Sessions |-> NewSession]
  /\ client = NoClient
  /\ listeners = {}
  /\ stores = NoData
  /\ canvas = NoCanvas
  /\ polling = FALSE
  /\ queued = [x \in Txns |-> {}]
  /\ made = [x \in Txns |-> NoProject]

-----------------------------------------------------------------------------
(* initializeClientSync and destroyClientSync *)

\* initializationVersion moves on.
Outdated(ss) == [s \in Sessions |-> [ss[s] EXCEPT !.current = FALSE]]

\* Mutant: the client loses its project only.
DestroyHalf ==
  /\ client' = [client EXCEPT !.project = NoProject]
  /\ stores' = NoData
  /\ polling' = FALSE

\* destroyClientSync, but for initializationVersion: modeClient.destroy() stops the
\* polling and closes the emitter.  The subscriptions of the client stay until
\* their signal is aborted.
DestroyClientSync ==
  /\ client' = NoClient
  /\ stores' = NoData
  /\ polling' = FALSE

\* Mutant: a client is as good as another.
AnyClient(p) == TRUE

OwnClient(p) == client.project = p

\* The session asks for the data; what happens to it is the rest of the call.
LoadFor(s, p, then) ==
  [Outdated(session) EXCEPT ![s] = [project |-> p, phase |-> "loading", load |-> then,
                                    current |-> TRUE, reset |-> FALSE]]

\* Mutant: a client that is there has its data.
ReopenedAsIs(s, p) == LoadFor(s, p, "none")

Reopened(s, p) == LoadFor(s, p, "complete")

\* client.connect of a client with a storage: the stores go back to the state the
\* storage was created with, until the data asked for arrives.
OpenAgain(s, p) ==
  /\ client # NoClient
  /\ OwnClient(p)
  /\ listeners' = listeners \cup {[session |-> s, storage |-> client.initial.project]}
  /\ stores' = IF client.initial = NoData THEN stores ELSE client.initial
  /\ session' = Reopened(s, p)
  /\ UNCHANGED <<client, polling>>

\* shouldPreloadStorage: no client before the data.
OpenPreloading(s, p) ==
  /\ mode = "own"
  /\ client = NoClient \/ ~OwnClient(p)
  /\ IF client = NoClient THEN UNCHANGED <<client, stores, polling>> ELSE DestroyClientSync
  /\ session' = LoadFor(s, p, "connect")
  /\ UNCHANGED listeners

\* No storage: the client first, then the data.
OpenConnecting(s, p) ==
  /\ mode # "own"
  /\ client = NoClient \/ ~OwnClient(p)
  /\ client' = [project |-> p, initial |-> NoData, session |-> s]
  /\ listeners' = listeners \cup {[session |-> s, storage |-> NoProject]}
  /\ stores' = IF client = NoClient THEN stores ELSE NoData
  /\ session' = LoadFor(s, p, "complete")
  /\ polling' = FALSE

\* A dialog opens or the Builder mounts; both are the only one of their page.
Open(p) ==
  /\ \A s \in Sessions : ~Shown(s)
  /\ place = "dashboard" => p \in cards
  /\ \E s \in Sessions :
       /\ session[s].phase = "new"
       /\ \A r \in 1..(s-1) : session[r].phase # "new"
       /\ OpenAgain(s, p) \/ OpenPreloading(s, p) \/ OpenConnecting(s, p)
  /\ UNCHANGED <<place, mode, cards, canvas, queued, made>>

\* Mutants: a result is checked by its version only, or not at all.
StaleByVersion(s) == ~session[s].current
NeverStale(s) == FALSE

Stale(s) == Aborted(s) \/ ~session[s].current

\* The result is not wanted any more; fetching again is aborted by the signal.
DiscardLoad(s) ==
  /\ \/ session[s].load \in {"connect", "complete"} /\ Stale(s)
     \/ session[s].load = "reload" /\ Aborted(s)
  /\ session' = [session EXCEPT ![s].load = "none"]
  /\ UNCHANGED <<place, mode, cards, client, listeners, stores, canvas, polling,
                 queued, made>>

\* No data: the error is logged, and the page goes on showing what it shows.
FailLoad(s) ==
  /\ session[s].load \in {"connect", "complete", "reload"}
  /\ session' = [session EXCEPT ![s].load =
                   IF @ = "reload" \/ Stale(s) THEN "none" ELSE "failed"]
  /\ UNCHANGED <<place, mode, cards, client, listeners, stores, canvas, polling,
                 queued, made>>

\* onReady: the page, if it is still there, shows the data.
Ready(s) ==
  [session EXCEPT ![s].load = "none", ![s].phase = IF @ = "loading" THEN "ready" ELSE @]

\* connectClient with the data it waited for: a storage, the polling, and onReady.
ConnectClient(s) ==
  LET p == session[s].project IN
  /\ session[s].load = "connect"
  /\ ~Stale(s)
  /\ \E saved \in SUBSET MadeOn(p) :
       /\ stores' = [project |-> p, edits |-> saved]
       /\ client' = [project |-> p, initial |-> stores', session |-> s]
  /\ listeners' = listeners \cup {[session |-> s, storage |-> p]}
  /\ polling' = TRUE
  /\ session' = Ready(s)
  /\ UNCHANGED <<place, mode, cards, canvas, queued, made>>

\* completeDataLoad: applyBuilderData sets the stores, nobody else is told.
CompleteDataLoad(s) ==
  LET p == session[s].project IN
  /\ session[s].load = "complete"
  /\ ~Stale(s)
  /\ \E saved \in SUBSET MadeOn(p) : stores' = [project |-> p, edits |-> saved]
  /\ polling' = (mode = "own" \/ polling)
  /\ session' = Ready(s)
  /\ UNCHANGED <<place, mode, cards, client, listeners, canvas, queued, made>>

\* onReload of the multiplayer client: the relay sends everybody to the server.  It
\* loads with the signal of the session that created the client: when that one is
\* gone, a reload of its successor's page fails at once.
AskReload(s) ==
  /\ mode = "multiplayer"
  /\ client.session = s
  /\ session[s].phase = "ready"
  /\ session[s].load = "none"
  /\ session' = [session EXCEPT ![s].load = "reload"]
  /\ UNCHANGED <<place, mode, cards, client, listeners, stores, canvas, polling,
                 queued, made>>

\* Only the signal is looked at, and the canvas keeps what it has.
Reload(s) ==
  LET p == session[s].project IN
  /\ session[s].load = "reload"
  /\ ~Aborted(s)
  /\ \E saved \in SUBSET MadeOn(p) : stores' = [project |-> p, edits |-> saved]
  /\ canvas' = [canvas EXCEPT !.replaced = @ \/ canvas.connection # "disconnected"]
  /\ session' = [session EXCEPT ![s].load = "none"]
  /\ UNCHANGED <<place, mode, cards, client, listeners, polling, queued, made>>

-----------------------------------------------------------------------------
(* The components *)

Abort(s) == {c \in listeners : c.session # s}

\* The dialog closes: its signal is aborted, then the client is destroyed.
CloseDialog(s) ==
  /\ place = "dashboard"
  /\ Shown(s)
  /\ DestroyClientSync
  /\ listeners' = Abort(s)
  /\ session' = Outdated([session EXCEPT ![s].phase = "closed"])
  /\ UNCHANGED <<place, mode, cards, canvas, queued, made>>

\* A card is mounted with its dialog closed: the same effect destroys the client,
\* whoever's it is.
MountCard(p) ==
  /\ place = "dashboard"
  /\ p \notin cards
  /\ cards' = cards \cup {p}
  /\ DestroyClientSync
  /\ session' = Outdated([s \in Sessions |-> [session[s] EXCEPT !.reset = @ \/ Shown(s)]])
  /\ UNCHANGED <<place, mode, listeners, canvas, queued, made>>

\* A card goes, and with it the dialog it may have open: only the signal is aborted.
RemoveCard(p) ==
  /\ p \in cards
  /\ cards' = cards \ {p}
  /\ session' = [s \in Sessions |->
       IF Shown(s) /\ session[s].project = p
         THEN [session[s] EXCEPT !.phase = "removed"] ELSE session[s]]
  /\ listeners' = {c \in listeners : ~(Shown(c.session) /\ session[c.session].project = p)}
  /\ UNCHANGED <<place, mode, client, stores, canvas, polling, queued, made>>

\* The Builder unmounts, and its canvas with it.  It also sets $pages to undefined,
\* a part of the stores that is not told apart here.
LeaveBuilder(s) ==
  /\ place = "builder"
  /\ Shown(s)
  /\ listeners' = Abort(s)
  /\ session' = [session EXCEPT ![s].phase = "closed"]
  /\ canvas' = NoCanvas
  /\ UNCHANGED <<place, mode, cards, client, stores, polling, queued, made>>

\* Mutant: the canvas is rendered while the data is being loaded.
RenderedEarly(s) == Shown(s) /\ client # NoClient

\* The canvas is rendered once the data is there.
Rendered(s) == session[s].phase = "ready"

\* The canvas connects to the emitter of the client; a leader that listens answers
\* with the state at once.
ConnectCanvas(s) ==
  /\ place = "builder"
  /\ Rendered(s)
  /\ canvas = NoCanvas
  /\ canvas' = IF listeners = {}
                 THEN [NoCanvas EXCEPT !.connection = "connecting"]
                 ELSE [connection |-> "connected", data |-> stores, replaced |-> FALSE]
  /\ UNCHANGED <<place, mode, cards, session, client, listeners, stores, polling,
                 queued, made>>

\* An edit, in the builder or in its canvas: made in one realm, it is applied in
\* the other through the shared emitter before the call returns.  Every connection
\* of a client with a storage puts it on the queue.
Edit(s, x) ==
  /\ session[s].phase = "ready"
  /\ stores.project = session[s].project
  /\ made[x] = NoProject
  /\ made' = [made EXCEPT ![x] = stores.project]
  /\ queued' = [queued EXCEPT ![x] = {c \in listeners : c.storage # NoProject}]
  /\ stores' = [stores EXCEPT !.edits = @ \cup {x}]
  /\ canvas' = IF canvas.connection = "disconnected" THEN canvas
               ELSE [canvas EXCEPT !.data.edits = @ \cup {x}]
  /\ UNCHANGED <<place, mode, cards, session, client, listeners, polling>>

Next ==
  \/ \E p \in Projects : Open(p) \/ MountCard(p) \/ RemoveCard(p)
  \/ \E s \in Sessions :
       \/ DiscardLoad(s)
       \/ FailLoad(s)
       \/ ConnectClient(s)
       \/ CompleteDataLoad(s)
       \/ AskReload(s)
       \/ Reload(s)
       \/ CloseDialog(s)
       \/ LeaveBuilder(s)
       \/ ConnectCanvas(s)
       \/ \E x \in Txns : Edit(s, x)

Spec == Init /\ [][Next]_vars

\* The data that was asked for comes, or an error does.
Fairness == \A s \in Sessions : WF_vars(ConnectClient(s) \/ CompleteDataLoad(s))

FairSpec == Spec /\ Fairness

-----------------------------------------------------------------------------
(* Properties *)

\* Whatever was opened, closed and still loading before, an edit is put on the
\* save queue once, for the project it was made on; without a storage, never.
EditsGoHome ==
  \A x \in Txns : made[x] # NoProject =>
    IF mode = "own" THEN \E s \in Sessions :
                           queued[x] = {[session |-> s, storage |-> made[x]]}
    ELSE queued[x] = {}

\* A page that has loaded shows its project and no other's data, its connection
\* is the only one, and what is edited will be sent; unless a card that was
\* mounted meanwhile has destroyed its client.
ReadyShowsProject ==
  \A s \in Sessions : session[s].phase = "ready" /\ ~session[s].reset =>
    /\ stores.project = session[s].project
    /\ client.project = session[s].project
    /\ {c.session : c \in listeners} = {s}
    /\ mode = "own" => polling

\* When the dialogs of a dashboard were closed, none of them with its card, nothing
\* of a project is left behind, however late its data comes: no client, no data, no
\* polling, no subscription.
ClosedLeavesNothing ==
  /\ place = "dashboard"
  /\ \A s \in Sessions : session[s].phase \in {"new", "closed"}
  => client = NoClient /\ stores = NoData /\ ~polling /\ listeners = {}

\* "Render canvas only after all data is loaded" (builder.tsx): what a connected
\* canvas shows is what the builder shows; until the relay has the data replaced
\* (onReload sets the stores of the builder only).
CanvasShowsStores ==
  canvas.connection = "connected" /\ ~canvas.replaced => canvas.data = stores

\* No load takes the edits away that were made on a page, however late it comes.
LoadsKeepEdits ==
  [][mode # "multiplayer" =>
       \A s \in Sessions :
         session[s].phase = "ready" /\ session'[s].phase = "ready" /\ ~session'[s].reset
           => stores.edits \subseteq stores'.edits]_vars

\* "Reset data stores and stop sync when dialog closes" (project-dialogs.tsx): a
\* dialog that has loaded keeps its data while it is open.
DialogKeepsData ==
  place = "dashboard" =>
    \A s \in Sessions : session[s].phase = "ready" => stores.project = session[s].project

\* Every page that is opened gets its data in the end, or is closed, or fails to
\* load, or has had its client destroyed by another card.
OpensSettle ==
  \A s \in Sessions :
    session[s].phase = "loading" ~>
      (session[s].phase # "loading" \/ session[s].load = "failed" \/ session[s].reset)
=============================================================================
