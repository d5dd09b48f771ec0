-------------------------- MODULE ClientSyncProofs --------------------------
(***************************************************************************)
(* Proofs about ClientSync, for any projects, edits and number of          *)
(* sessions: where edits go, what a page shows once it has loaded and what *)
(* it leaves behind, and that no load takes edits away.                    *)
(***************************************************************************)
EXTENDS ClientSync, TLAPS

USE ClientSyncAssumption

-----------------------------------------------------------------------------
(* The inductive invariant. *)

\* The session has its client: its data is there, or is all that is missing.
HasClient(s) ==
  Shown(s) /\ (session[s].load = "complete" \/ session[s].phase = "ready")

\* The effects clean up before the next one runs: one session is shown at a time.
OneShown == \A s, r \in Sessions : Shown(s) /\ Shown(r) => s = r

\* How a session's phase, load and flags go together.
SessionFits(s) ==
  /\ session[s].phase = "new" => session[s].load = "none"
  /\ Shown(s) => session[s].project \in Projects
  /\ session[s].load \in {"connect", "complete"} => session[s].phase # "ready"
  /\ session[s].load = "connect" => mode = "own"
  /\ session[s].load = "reload" => mode = "multiplayer" /\ session[s].phase # "loading"
  /\ session[s].reset => ~session[s].current

SessionsFit == \A s \in Sessions : SessionFits(s)

\* A connection is of the session that is shown, with the storage its mode asks for.
ConnectionFits(c) ==
  /\ Shown(c.session)
  /\ session[c.session].load # "connect"
  /\ c.storage = IF mode = "own" THEN session[c.session].project ELSE NoProject

\* A session that has its client has one connection, and no session has two.
ConnectionsFit ==
  /\ \A c \in listeners : ConnectionFits(c)
  /\ \A c, d \in listeners : c.session = d.session => c = d
  /\ \A s \in Sessions : HasClient(s) => \E c \in listeners : c.session = s

\* A client's storage is its project's, and a session that has a client has its own.
ClientFits ==
  /\ client # NoClient =>
       client.initial.project = IF mode = "own" THEN client.project ELSE NoProject
  /\ \A s \in Sessions :
       HasClient(s) /\ ~session[s].reset => client.project = session[s].project

\* A canvas is in a builder, where there are no cards, and its page is ready.
CanvasHosted ==
  /\ place = "builder" => cards = {}
  /\ canvas # NoCanvas =>
       place = "builder" /\ \E s \in Sessions : session[s].phase = "ready"

CSInv ==
  /\ TypeOK
  /\ OneShown
  /\ SessionsFit
  /\ ConnectionsFit
  /\ ClientFits
  /\ CanvasHosted
  /\ EditsGoHome
  /\ ReadyShowsProject
  /\ ClosedLeavesNothing
  /\ CanvasShowsStores

LEMMA CSInit == Init => CSInv
PROOF
  <1> SUFFICES ASSUME Init  PROVE CSInv
    OBVIOUS
  <1>1. /\ NoData \in Data /\ NoCanvas.data \in Data
        /\ NoCanvas.connection = "disconnected" /\ NoCanvas.replaced = FALSE
        /\ NewSession \in SessionStates
    BY DEF NoData, Data, NoCanvas, NewSession, SessionStates
  <1>2. TypeOK
    BY <1>1 DEF Init, TypeOK, NoCanvas
  <1>3. \A s \in Sessions : session[s].phase = "new" /\ session[s].load = "none"
                              /\ ~session[s].reset
    BY DEF Init, NewSession
  <1>4. \A s \in Sessions : ~Shown(s) /\ ~HasClient(s) /\ session[s].phase # "ready"
    BY <1>3 DEF Shown, HasClient
  <1>5. OneShown /\ SessionsFit /\ ReadyShowsProject
    BY <1>3, <1>4 DEF OneShown, SessionsFit, SessionFits, ReadyShowsProject
  <1>6. /\ listeners = {} /\ client = NoClient /\ canvas = NoCanvas /\ cards = {}
        /\ stores = NoData /\ polling = FALSE
        /\ \A x \in Txns : made[x] = NoProject
    BY DEF Init
  <1>7. ConnectionsFit /\ ClientFits /\ CanvasHosted
    BY <1>4, <1>6 DEF ConnectionsFit, ClientFits, CanvasHosted
  <1>8. EditsGoHome /\ ClosedLeavesNothing /\ CanvasShowsStores
    BY <1>1, <1>6 DEF EditsGoHome, ClosedLeavesNothing, CanvasShowsStores
  <1> QED
    BY <1>2, <1>5, <1>7, <1>8 DEF CSInv

-----------------------------------------------------------------------------
(* A session opens. *)

\* When the version moves on, no session is current, and nothing else changes.
LEMMA OutdatedTyped ==
  ASSUME NEW ss \in [Sessions -> SessionStates]
  PROVE  /\ Outdated(ss) \in [Sessions -> SessionStates]
         /\ \A r \in Sessions :
              /\ Outdated(ss)[r] = [ss[r] EXCEPT !.current = FALSE]
              /\ Outdated(ss)[r].project = ss[r].project
              /\ Outdated(ss)[r].phase = ss[r].phase
              /\ Outdated(ss)[r].load = ss[r].load
              /\ Outdated(ss)[r].reset = ss[r].reset
              /\ ~Outdated(ss)[r].current
PROOF BY DEF Outdated, SessionStates

\* Who opens is the next one, and nobody else is shown or listening.
LEMMA OpenTyped ==
  ASSUME TypeOK, NEW s \in Sessions, NEW p \in Projects,
         NEW then \in {"connect", "complete"}, session' = LoadFor(s, p, then)
  PROVE  /\ session' \in [Sessions -> SessionStates]
         /\ session'[s] = [project |-> p, phase |-> "loading", load |-> then,
                           current |-> TRUE, reset |-> FALSE]
         /\ \A r \in Sessions \ {s} :
              /\ session'[r].project = session[r].project
              /\ session'[r].phase = session[r].phase
              /\ session'[r].load = session[r].load
              /\ session'[r].reset = session[r].reset
              /\ ~session'[r].current
PROOF
  <1> DEFINE new == [project |-> p, phase |-> "loading", load |-> then,
                     current |-> TRUE, reset |-> FALSE]
             ss == Outdated(session)
  <1>1. new \in SessionStates
    BY DEF SessionStates
  <1>2. session \in [Sessions -> SessionStates]
    BY DEF TypeOK
  <1>3. /\ ss \in [Sessions -> SessionStates]
        /\ \A r \in Sessions :
              /\ ss[r].project = session[r].project
              /\ ss[r].phase = session[r].phase
              /\ ss[r].load = session[r].load
              /\ ss[r].reset = session[r].reset
              /\ ~ss[r].current
    BY <1>2, OutdatedTyped
  <1>4. session' = [ss EXCEPT ![s] = new]
    BY DEF LoadFor
  <1> HIDE DEF new, ss
  <1>5. /\ session' \in [Sessions -> SessionStates]
        /\ session'[s] = new
        /\ \A r \in Sessions \ {s} : session'[r] = ss[r]
    BY <1>1, <1>3, <1>4
  <1> QED
    BY <1>3, <1>5 DEF new

LEMMA CSOpen ==
  ASSUME CSInv, NEW p \in Projects, Open(p)
  PROVE  CSInv'
PROOF
  <1>1. PICK s \in Sessions :
          /\ session[s].phase = "new"
          /\ OpenAgain(s, p) \/ OpenPreloading(s, p) \/ OpenConnecting(s, p)
    BY DEF Open
  <1>2. /\ \A r \in Sessions : ~Shown(r)
        /\ listeners = {}
        /\ canvas = NoCanvas
        /\ UNCHANGED <<place, mode, cards, canvas, queued, made>>
    <2>1. \A r \in Sessions : ~Shown(r)
      BY DEF Open
    <2>2. listeners = {}
      BY <2>1 DEF CSInv, ConnectionsFit, ConnectionFits, TypeOK, Connections
    <2>3. canvas = NoCanvas
      BY <2>1 DEF CSInv, CanvasHosted, Shown
    <2> QED
      BY <2>1, <2>2, <2>3 DEF Open
  <1>3. PICK then \in {"connect", "complete"} :
          /\ session' = LoadFor(s, p, then)
          /\ \/ then = "complete" /\ (OpenAgain(s, p) \/ OpenConnecting(s, p))
             \/ then = "connect" /\ OpenPreloading(s, p)
    BY <1>1 DEF OpenAgain, OpenPreloading, OpenConnecting, Reopened
  <1>4. TypeOK
    BY DEF CSInv
  <1>5. /\ session' \in [Sessions -> SessionStates]
        /\ session'[s] = [project |-> p, phase |-> "loading", load |-> then,
                          current |-> TRUE, reset |-> FALSE]
        /\ \A r \in Sessions \ {s} :
             /\ session'[r].project = session[r].project
             /\ session'[r].phase = session[r].phase
             /\ session'[r].load = session[r].load
             /\ session'[r].reset = session[r].reset
             /\ ~session'[r].current
    BY <1>3, <1>4, OpenTyped
  <1>6. /\ \A r \in Sessions \ {s} : ~Shown(r)' /\ ~HasClient(r)'
        /\ Shown(s)'
        /\ then = "complete" <=> HasClient(s)'
    BY <1>2, <1>5 DEF Shown, HasClient
  <1>7. /\ listeners' = IF then = "connect" THEN {}
                        ELSE {[session |-> s,
                               storage |-> IF mode = "own" THEN p ELSE NoProject]}
        /\ client' = NoClient \/ client' \in Clients
        /\ stores' \in Data
        /\ polling' \in BOOLEAN
        /\ then = "connect" => mode = "own"
        /\ client' # NoClient =>
             client'.initial.project = IF mode = "own" THEN client'.project ELSE NoProject
        /\ then = "complete" => client'.project = p
    <2> DEFINE Fits == client # NoClient =>
          client.initial.project = IF mode = "own" THEN client.project ELSE NoProject
    <2>0. Fits /\ (client = NoClient \/ client \in Clients)
      BY DEF CSInv, ClientFits, TypeOK
    <2>a. stores \in Data /\ NoData \in Data /\ polling \in BOOLEAN
      BY DEF CSInv, TypeOK, NoData, Data
    <2>1. CASE then = "complete" /\ OpenAgain(s, p)
      BY <1>2, <2>0, <2>a, <2>1 DEF OpenAgain, OwnClient, Clients
    <2>2. CASE then = "connect" /\ OpenPreloading(s, p)
      <3>1. (client' = client /\ stores' = stores /\ polling' = polling) \/ DestroyClientSync
        BY <2>2 DEF OpenPreloading
      <3>2. /\ client' = NoClient \/ (client' = client)
            /\ stores' \in Data
            /\ polling' \in BOOLEAN
        BY <2>a, <3>1 DEF DestroyClientSync
      <3>3. mode = "own" /\ listeners' = listeners
        BY <2>2 DEF OpenPreloading
      <3> QED
        BY <1>2, <2>0, <2>2, <3>2, <3>3
    <2>3. CASE then = "complete" /\ OpenConnecting(s, p)
      <3>1. /\ client' = [project |-> p, initial |-> NoData, session |-> s]
            /\ listeners' = {[session |-> s, storage |-> NoProject]}
            /\ mode # "own"
            /\ stores' \in Data
            /\ polling' \in BOOLEAN
        BY <1>2, <2>a, <2>3 DEF OpenConnecting
      <3>2. client'.initial.project = NoProject /\ client'.project = p
        BY <3>1 DEF NoData
      <3> QED
        BY <2>3, <2>a, <3>1, <3>2 DEF Clients
    <2> QED
      BY <1>3, <2>1, <2>2, <2>3
  <1>8. TypeOK'
    BY <1>2, <1>5, <1>7 DEF CSInv, TypeOK, Connections
  <1>9. OneShown'
    BY <1>6 DEF OneShown
  <1>a. SessionsFit'
    <2>1. SessionFits(s)'
      BY <1>2, <1>5, <1>7 DEF SessionFits, Shown
    <2>2. ASSUME NEW r \in Sessions \ {s}  PROVE SessionFits(r)'
      BY <1>2, <1>5 DEF CSInv, SessionsFit, SessionFits, Shown
    <2> QED
      BY <2>1, <2>2 DEF SessionsFit
  <1>10. ConnectionsFit'
    <2>1. \A c \in listeners' : then = "complete" /\ c.session = s
                                /\ c.storage = IF mode = "own" THEN p ELSE NoProject
      BY <1>3, <1>7
    <2>2. \A c \in listeners' : ConnectionFits(c)'
      BY <1>2, <1>5, <1>6, <2>1 DEF ConnectionFits
    <2>3. \A c, d \in listeners' : c = d
      BY <1>7
    <2>4. \A r \in Sessions : HasClient(r)' => \E c \in listeners' : c.session = r
      BY <1>6, <1>7
    <2> QED
      BY <2>2, <2>3, <2>4 DEF ConnectionsFit
  <1>b. ClientFits'
    BY <1>2, <1>5, <1>6, <1>7 DEF ClientFits
  <1>11. CanvasHosted' /\ CanvasShowsStores'
    BY <1>2 DEF CSInv, CanvasHosted, CanvasShowsStores, NoCanvas
  <1>12. EditsGoHome'
    BY <1>2 DEF CSInv, EditsGoHome
  <1>13. ReadyShowsProject' /\ ClosedLeavesNothing'
    BY <1>2, <1>5 DEF ReadyShowsProject, ClosedLeavesNothing, Shown
  <1> QED
    BY <1>8, <1>9, <1>a, <1>10, <1>b, <1>11, <1>12, <1>13 DEF CSInv

-----------------------------------------------------------------------------
(* A load comes to an end. *)

\* The result of a load is thrown away or does not come, or a reload is asked for:
\* only what the session waits for changes.
LEMMA CSLoadOnly ==
  ASSUME CSInv, NEW s \in Sessions, NEW then \in {"none", "failed", "reload"},
         session' = [session EXCEPT ![s].load = then],
         session[s].phase # "new",
         then = "reload" => mode = "multiplayer" /\ session[s].phase = "ready",
         UNCHANGED <<place, mode, cards, client, listeners, stores, canvas, polling,
                     queued, made>>
  PROVE  CSInv'
PROOF
  <1>1. TypeOK'
    BY DEF CSInv, TypeOK, SessionStates
  <1>2. /\ session'[s].load = then
        /\ \A r \in Sessions :
             /\ session'[r].project = session[r].project
             /\ session'[r].phase = session[r].phase
             /\ session'[r].current = session[r].current
             /\ session'[r].reset = session[r].reset
             /\ r # s => session'[r].load = session[r].load
    BY DEF CSInv, TypeOK, SessionStates
  <1>3. \A r \in Sessions : (Shown(r)' <=> Shown(r)) /\ (HasClient(r)' => HasClient(r))
    BY <1>2 DEF Shown, HasClient
  <1>4. OneShown'
    BY <1>3 DEF CSInv, OneShown
  <1>5. SessionsFit'
    BY <1>2, <1>3 DEF CSInv, SessionsFit, SessionFits
  <1>6. ConnectionsFit'
    BY <1>2, <1>3 DEF CSInv, ConnectionsFit, ConnectionFits, TypeOK, Connections
  <1>7. ClientFits' /\ CanvasHosted' /\ CanvasShowsStores'
    BY <1>2, <1>3 DEF CSInv, ClientFits, CanvasHosted, CanvasShowsStores
  <1>8. EditsGoHome'
    BY DEF CSInv, EditsGoHome
  <1>9. ReadyShowsProject'
    BY <1>2 DEF CSInv, ReadyShowsProject
  <1>10. ClosedLeavesNothing'
    BY <1>2 DEF CSInv, ClosedLeavesNothing
  <1> QED
    BY <1>1, <1>4, <1>5, <1>6, <1>7, <1>8, <1>9, <1>10 DEF CSInv

LEMMA CSLoadEnds ==
  ASSUME CSInv, NEW s \in Sessions, DiscardLoad(s) \/ FailLoad(s) \/ AskReload(s)
  PROVE  CSInv'
PROOF
  <1>1. session[s].phase # "new"
    BY DEF CSInv, SessionsFit, SessionFits, DiscardLoad, FailLoad, AskReload
  <1>2. PICK then \in {"none", "failed", "reload"} :
          /\ session' = [session EXCEPT ![s].load = then]
          /\ then = "reload" => mode = "multiplayer" /\ session[s].phase = "ready"
    <2>1. CASE FailLoad(s)
      <3>1. PICK then \in {"none", "failed"} : session' = [session EXCEPT ![s].load = then]
        BY <2>1 DEF FailLoad
      <3> QED
        BY <3>1
    <2> QED
      BY <2>1 DEF DiscardLoad, AskReload
  <1>3. UNCHANGED <<place, mode, cards, client, listeners, stores, canvas, polling,
                    queued, made>>
    BY DEF DiscardLoad, FailLoad, AskReload
  <1> QED
    BY <1>1, <1>2, <1>3, CSLoadOnly

\* A session that gets its data is the one that is shown, waits for it, and makes
\* the page ready; the stores then hold its project's.
LEMMA DataArrives ==
  ASSUME CSInv, NEW s \in Sessions, ConnectClient(s) \/ CompleteDataLoad(s)
  PROVE  /\ session[s].phase = "loading" /\ ~session[s].reset
         /\ session[s].project \in Projects
         /\ session[s].load \in {"connect", "complete"}
         /\ session' \in [Sessions -> SessionStates]
         /\ session'[s].load = "none" /\ session'[s].phase = "ready"
         /\ \A r \in Sessions :
              /\ session'[r].project = session[r].project
              /\ session'[r].current = session[r].current
              /\ session'[r].reset = session[r].reset
              /\ r # s => /\ session'[r] = session[r]
                           /\ ~Shown(r) /\ ~Shown(r)'
                           /\ ~HasClient(r)' /\ session'[r].phase # "ready"
         /\ Shown(s) /\ Shown(s)'
         /\ stores'.project = session[s].project /\ stores' \in Data
         /\ canvas = NoCanvas
PROOF
  <1>1. session[s].load \in {"connect", "complete"} /\ ~Stale(s) /\ session' = Ready(s)
    BY DEF ConnectClient, CompleteDataLoad
  <1>2. /\ session[s].phase = "loading" /\ ~session[s].reset
        /\ session[s].project \in Projects
    BY <1>1 DEF CSInv, TypeOK, SessionStates, SessionsFit, SessionFits, Stale, Aborted, Shown
  <1>3. /\ session' \in [Sessions -> SessionStates]
        /\ session'[s].load = "none" /\ session'[s].phase = "ready"
        /\ \A r \in Sessions :
              /\ session'[r].project = session[r].project
              /\ session'[r].current = session[r].current
              /\ session'[r].reset = session[r].reset
              /\ r # s => session'[r] = session[r]
    BY <1>1, <1>2 DEF CSInv, TypeOK, SessionStates, Ready
  <1>4. Shown(s) /\ Shown(s)'
    BY <1>2, <1>3 DEF Shown
  <1>5. \A r \in Sessions \ {s} : ~Shown(r) /\ ~Shown(r)' /\ ~HasClient(r)'
                                    /\ session'[r].phase # "ready"
    BY <1>3, <1>4 DEF CSInv, OneShown, Shown, HasClient
  <1>6. stores'.project = session[s].project /\ stores' \in Data
    BY <1>2 DEF ConnectClient, CompleteDataLoad, MadeOn, Data
  <1>7. canvas = NoCanvas
    BY <1>2, <1>4, <1>5 DEF CSInv, CanvasHosted, Shown
  <1> QED
    BY <1>1, <1>2, <1>3, <1>4, <1>5, <1>6, <1>7

LEMMA CSDataArrives ==
  ASSUME CSInv, NEW s \in Sessions, ConnectClient(s) \/ CompleteDataLoad(s)
  PROVE  CSInv'
PROOF
  <1> DEFINE p == session[s].project
  <1>1. /\ session[s].phase = "loading" /\ ~session[s].reset
        /\ p \in Projects
        /\ session[s].load \in {"connect", "complete"}
        /\ session' \in [Sessions -> SessionStates]
        /\ session'[s].load = "none" /\ session'[s].phase = "ready"
        /\ Shown(s) /\ Shown(s)'
        /\ stores'.project = p /\ stores' \in Data
        /\ canvas = NoCanvas
    BY DataArrives
  <1>2. \A r \in Sessions :
          /\ session'[r].project = session[r].project
          /\ session'[r].current = session[r].current
          /\ session'[r].reset = session[r].reset
    BY DataArrives
  <1>3. \A r \in Sessions \ {s} :
          /\ session'[r] = session[r] /\ session'[r].phase # "ready"
          /\ ~Shown(r) /\ ~Shown(r)' /\ ~HasClient(r)'
    BY DataArrives
  <1>4. UNCHANGED <<place, mode, cards, canvas, queued, made>>
    BY DEF ConnectClient, CompleteDataLoad
  <1>5. \A c \in listeners : c \in Connections /\ c.session = s
    BY <1>3 DEF CSInv, ConnectionsFit, ConnectionFits, TypeOK, Connections
  <1>6. /\ listeners' = {[session |-> s,
                          storage |-> IF mode = "own" THEN p ELSE NoProject]}
        /\ client' \in Clients
        /\ client'.project = p
        /\ client'.initial.project = IF mode = "own" THEN p ELSE NoProject
        /\ polling' \in BOOLEAN
        /\ mode = "own" => polling'
    <2>1. CASE ConnectClient(s)
      <3>1. mode = "own" /\ listeners = {}
        BY <1>5, <2>1 DEF ConnectClient, CSInv, SessionsFit, SessionFits, ConnectionsFit,
             ConnectionFits
      <3>2. /\ listeners' = listeners \cup {[session |-> s, storage |-> p]}
            /\ client' = [project |-> p, initial |-> stores', session |-> s]
            /\ polling' = TRUE
        BY <2>1 DEF ConnectClient
      <3> QED
        BY <1>1, <3>1, <3>2 DEF Clients
    <2>2. CASE CompleteDataLoad(s)
      <3>1. /\ HasClient(s)
            /\ listeners' = listeners /\ client' = client
            /\ polling' = (mode = "own" \/ polling)
        BY <1>1, <2>2 DEF CompleteDataLoad, HasClient
      <3>2. PICK c \in listeners : c.session = s
        BY <3>1 DEF CSInv, ConnectionsFit
      <3>3. listeners = {c}
        BY <1>5, <3>2 DEF CSInv, ConnectionsFit
      <3>4. c = [session |-> s, storage |-> IF mode = "own" THEN p ELSE NoProject]
        BY <1>5, <3>2 DEF CSInv, ConnectionsFit, ConnectionFits, Connections
      <3>5. client.project = p
        BY <1>1, <3>1 DEF CSInv, ClientFits
      <3>6. client # NoClient
        BY <1>1, <3>5 DEF NoClient
      <3> QED
        BY <3>1, <3>3, <3>4, <3>5, <3>6 DEF CSInv, TypeOK, ClientFits
    <2> QED
      BY <2>1, <2>2
  <1> HIDE DEF p
  <1>7. TypeOK'
    BY <1>1, <1>4, <1>6 DEF CSInv, TypeOK, Connections
  <1>8. OneShown'
    BY <1>3 DEF OneShown
  <1>9. SessionsFit'
    <2>1. SessionFits(s)'
      BY <1>1, <1>2, <1>4 DEF CSInv, SessionsFit, SessionFits, p
    <2>2. ASSUME NEW r \in Sessions \ {s}  PROVE SessionFits(r)'
      BY <1>3, <1>4 DEF CSInv, SessionsFit, SessionFits
    <2> QED
      BY <2>1, <2>2 DEF SessionsFit
  <1>10. ConnectionsFit'
    <2>1. \A c \in listeners' :
            c.session = s /\ c.storage = IF mode = "own" THEN p ELSE NoProject
      BY <1>6
    <2>2. \A c \in listeners' : ConnectionFits(c)'
      BY <1>1, <1>2, <1>4, <2>1 DEF ConnectionFits, p
    <2> QED
      BY <1>3, <1>6, <2>1, <2>2 DEF ConnectionsFit
  <1>11. ClientFits'
    BY <1>1, <1>2, <1>3, <1>4, <1>6 DEF ClientFits, p
  <1>12. CanvasHosted' /\ CanvasShowsStores' /\ EditsGoHome'
    BY <1>1, <1>4 DEF CSInv, CanvasHosted, CanvasShowsStores, NoCanvas, EditsGoHome
  <1>13. ReadyShowsProject'
    <2>1. {c.session : c \in listeners'} = {s}
      BY <1>6
    <2> QED
      BY <1>1, <1>2, <1>3, <1>4, <1>6, <2>1 DEF ReadyShowsProject, p
  <1>14. ClosedLeavesNothing'
    BY <1>1 DEF ClosedLeavesNothing
  <1> QED
    BY <1>7, <1>8, <1>9, <1>10, <1>11, <1>12, <1>13, <1>14 DEF CSInv

\* A reload replaces the data of the page, and a canvas that is there does not see it.
LEMMA CSReload ==
  ASSUME CSInv, NEW s \in Sessions, Reload(s)
  PROVE  CSInv'
PROOF
  <1>1. /\ session[s].load = "reload" /\ ~Aborted(s)
        /\ session' = [session EXCEPT ![s].load = "none"]
        /\ canvas' = [canvas EXCEPT !.replaced = @ \/ canvas.connection # "disconnected"]
        /\ stores'.project = session[s].project
        /\ UNCHANGED <<place, mode, cards, client, listeners, polling, queued, made>>
    BY DEF Reload
  <1>2. session[s].phase = "ready" /\ session[s].project \in Projects
    BY <1>1 DEF CSInv, TypeOK, SessionStates, SessionsFit, SessionFits, Aborted, Shown
  <1>3. stores' \in Data
    BY <1>2 DEF Reload, MadeOn, Data
  <1>4. /\ canvas'.connection = canvas.connection
        /\ canvas'.replaced = (canvas.replaced \/ canvas.connection # "disconnected")
        /\ canvas' \in [connection : {"disconnected", "connecting", "connected"},
                         data : Data, replaced : BOOLEAN]
        /\ canvas = NoCanvas => canvas' = NoCanvas
    <2>1. canvas \in [connection : {"disconnected", "connecting", "connected"},
                      data : Data, replaced : BOOLEAN]
      BY DEF CSInv, TypeOK
    <2>2. /\ canvas'.connection = canvas.connection
          /\ canvas'.replaced = (canvas.replaced \/ canvas.connection # "disconnected")
      BY <1>1, <2>1
    <2>3. canvas' \in [connection : {"disconnected", "connecting", "connected"},
                       data : Data, replaced : BOOLEAN]
      BY <1>1, <2>1
    <2>4. ASSUME canvas = NoCanvas  PROVE canvas' = NoCanvas
      BY <1>1, <2>4 DEF NoCanvas
    <2> QED
      BY <2>2, <2>3, <2>4
  <1>5. TypeOK'
    <2>1. session' \in [Sessions -> SessionStates]
      BY <1>1 DEF CSInv, TypeOK, SessionStates
    <2> QED
      BY <1>1, <1>3, <1>4, <2>1 DEF CSInv, TypeOK
  <1>6. /\ session'[s].load = "none"
        /\ \A r \in Sessions :
             /\ session'[r].project = session[r].project
             /\ session'[r].phase = session[r].phase
             /\ session'[r].current = session[r].current
             /\ session'[r].reset = session[r].reset
             /\ r # s => session'[r].load = session[r].load
    BY <1>1 DEF CSInv, TypeOK, SessionStates
  <1>7. \A r \in Sessions : (Shown(r)' <=> Shown(r)) /\ (HasClient(r)' => HasClient(r))
    BY <1>6 DEF Shown, HasClient
  <1>8. OneShown' /\ SessionsFit'
    BY <1>1, <1>6, <1>7 DEF CSInv, OneShown, SessionsFit, SessionFits
  <1>9. ConnectionsFit'
    BY <1>1, <1>6, <1>7 DEF CSInv, ConnectionsFit, ConnectionFits, TypeOK, Connections
  <1>10. ClientFits' /\ CanvasHosted' /\ EditsGoHome'
    BY <1>1, <1>4, <1>6, <1>7 DEF CSInv, ClientFits, CanvasHosted, EditsGoHome
  <1>11. CanvasShowsStores'
    BY <1>4 DEF CanvasShowsStores
  <1>12. ReadyShowsProject'
    <2>1. \A r \in Sessions : session[r].phase = "ready" => r = s
      BY <1>2 DEF CSInv, OneShown, Shown
    <2> QED
      BY <1>1, <1>6, <2>1 DEF CSInv, ReadyShowsProject
  <1>13. ClosedLeavesNothing'
    BY <1>2, <1>6 DEF ClosedLeavesNothing
  <1> QED
    BY <1>5, <1>8, <1>9, <1>10, <1>11, <1>12, <1>13 DEF CSInv

-----------------------------------------------------------------------------
(* Dialogs, cards and the Builder. *)

\* The dialog closes and takes its connections and the client with it.
LEMMA CSCloseDialog ==
  ASSUME CSInv, NEW s \in Sessions, CloseDialog(s)
  PROVE  CSInv'
PROOF
  <1>1. /\ place = "dashboard" /\ Shown(s)
        /\ client' = NoClient /\ stores' = NoData /\ polling' = FALSE
        /\ UNCHANGED <<place, mode, cards, canvas, queued, made>>
    BY DEF CloseDialog, DestroyClientSync
  <1>2. /\ session' \in [Sessions -> SessionStates]
        /\ session'[s].phase = "closed"
        /\ \A r \in Sessions :
             /\ session'[r].project = session[r].project
             /\ session'[r].load = session[r].load
             /\ session'[r].reset = session[r].reset
             /\ ~session'[r].current
             /\ r # s => session'[r].phase = session[r].phase
    <2>1. session' = Outdated([session EXCEPT ![s].phase = "closed"])
      BY DEF CloseDialog
    <2> DEFINE ss == [session EXCEPT ![s].phase = "closed"]
    <2>2. /\ ss \in [Sessions -> SessionStates]
          /\ ss[s].phase = "closed"
          /\ \A r \in Sessions :
               /\ ss[r].project = session[r].project
               /\ ss[r].load = session[r].load
               /\ ss[r].reset = session[r].reset
               /\ r # s => ss[r].phase = session[r].phase
      BY DEF CSInv, TypeOK, SessionStates
    <2> HIDE DEF ss
    <2>3. /\ session' \in [Sessions -> SessionStates]
          /\ \A r \in Sessions :
               /\ session'[r].project = ss[r].project
               /\ session'[r].phase = ss[r].phase
               /\ session'[r].load = ss[r].load
               /\ session'[r].reset = ss[r].reset
               /\ ~session'[r].current
      BY <2>1, <2>2, OutdatedTyped DEF ss
    <2> QED
      BY <2>2, <2>3
  <1>3. \A r \in Sessions : ~Shown(r)' /\ ~HasClient(r)' /\ session'[r].phase # "ready"
    BY <1>1, <1>2 DEF CSInv, OneShown, Shown, HasClient
  <1>4. listeners' = {}
    BY <1>1 DEF CloseDialog, Abort, CSInv, ConnectionsFit, ConnectionFits, OneShown, TypeOK,
         Connections
  <1>5. canvas = NoCanvas
    BY <1>1 DEF CSInv, CanvasHosted
  <1>6. TypeOK'
    BY <1>1, <1>2, <1>4 DEF CSInv, TypeOK, NoData, Data
  <1>7. OneShown' /\ ReadyShowsProject'
    BY <1>3 DEF OneShown, ReadyShowsProject
  <1>8. SessionsFit'
    BY <1>1, <1>2, <1>3 DEF CSInv, SessionsFit, SessionFits
  <1>9. ConnectionsFit' /\ ClientFits'
    BY <1>1, <1>3, <1>4 DEF ConnectionsFit, ClientFits
  <1>10. CanvasHosted' /\ CanvasShowsStores' /\ EditsGoHome' /\ ClosedLeavesNothing'
    BY <1>1, <1>4, <1>5 DEF CSInv, CanvasHosted, CanvasShowsStores, NoCanvas, EditsGoHome,
         ClosedLeavesNothing
  <1> QED
    BY <1>6, <1>7, <1>8, <1>9, <1>10 DEF CSInv

\* A card is mounted: whoever is shown has lost its client, and knows no version.
LEMMA CSMountCard ==
  ASSUME CSInv, NEW p \in Projects, MountCard(p)
  PROVE  CSInv'
PROOF
  <1>1. /\ place = "dashboard" /\ cards' = cards \cup {p}
        /\ client' = NoClient /\ stores' = NoData /\ polling' = FALSE
        /\ UNCHANGED <<place, mode, listeners, canvas, queued, made>>
    BY DEF MountCard, DestroyClientSync
  <1>2. /\ session' \in [Sessions -> SessionStates]
        /\ \A r \in Sessions :
             /\ session'[r].project = session[r].project
             /\ session'[r].phase = session[r].phase
             /\ session'[r].load = session[r].load
             /\ session'[r].reset = (session[r].reset \/ Shown(r))
             /\ ~session'[r].current
    <2> DEFINE ss == [r \in Sessions |-> [session[r] EXCEPT !.reset = @ \/ Shown(r)]]
    <2>1. /\ ss \in [Sessions -> SessionStates]
          /\ \A r \in Sessions :
               /\ ss[r].project = session[r].project
               /\ ss[r].phase = session[r].phase
               /\ ss[r].load = session[r].load
               /\ ss[r].reset = (session[r].reset \/ Shown(r))
      <3>1. ASSUME NEW r \in Sessions, NEW b \in BOOLEAN
            PROVE  /\ [session[r] EXCEPT !.reset = b] \in SessionStates
                   /\ [session[r] EXCEPT !.reset = b].project = session[r].project
                   /\ [session[r] EXCEPT !.reset = b].phase = session[r].phase
                   /\ [session[r] EXCEPT !.reset = b].load = session[r].load
                   /\ [session[r] EXCEPT !.reset = b].reset = b
        BY DEF CSInv, TypeOK, SessionStates
      <3>2. \A r \in Sessions : (session[r].reset \/ Shown(r)) \in BOOLEAN
        BY DEF CSInv, TypeOK, SessionStates
      <3> QED
        BY <3>1, <3>2
    <2>2. session' = Outdated(ss)
      BY DEF MountCard
    <2> HIDE DEF ss
    <2>3. /\ session' \in [Sessions -> SessionStates]
          /\ \A r \in Sessions :
               /\ session'[r].project = ss[r].project
               /\ session'[r].phase = ss[r].phase
               /\ session'[r].load = ss[r].load
               /\ session'[r].reset = ss[r].reset
               /\ ~session'[r].current
      BY <2>1, <2>2, OutdatedTyped
    <2> QED
      BY <2>1, <2>3
  <1>3. \A r \in Sessions : (Shown(r)' <=> Shown(r)) /\ (HasClient(r)' <=> HasClient(r))
    BY <1>2 DEF Shown, HasClient
  <1>4. canvas = NoCanvas
    BY <1>1 DEF CSInv, CanvasHosted
  <1>5. TypeOK'
    BY <1>1, <1>2 DEF CSInv, TypeOK, NoData, Data
  <1>6. OneShown'
    BY <1>3 DEF CSInv, OneShown
  <1>7. SessionsFit'
    BY <1>1, <1>2, <1>3 DEF CSInv, SessionsFit, SessionFits
  <1>8. ConnectionsFit'
    BY <1>1, <1>2, <1>3 DEF CSInv, ConnectionsFit, ConnectionFits, TypeOK, Connections
  <1>9. ClientFits' /\ ReadyShowsProject'
    BY <1>1, <1>2, <1>3 DEF ClientFits, ReadyShowsProject, HasClient, Shown
  <1>10. CanvasHosted' /\ CanvasShowsStores' /\ EditsGoHome'
    BY <1>1, <1>4 DEF CSInv, CanvasHosted, CanvasShowsStores, NoCanvas, EditsGoHome
  <1>11. ClosedLeavesNothing'
    BY <1>1, <1>2 DEF CSInv, ClosedLeavesNothing
  <1> QED
    BY <1>5, <1>6, <1>7, <1>8, <1>9, <1>10, <1>11 DEF CSInv

\* A card goes with the session it may show, whose connections end.
LEMMA CSRemoveCard ==
  ASSUME CSInv, NEW p \in Projects, RemoveCard(p)
  PROVE  CSInv'
PROOF
  <1> DEFINE Gone(r) == Shown(r) /\ session[r].project = p
  <1>1. /\ p \in cards /\ cards' = cards \ {p}
        /\ listeners' = {c \in listeners : ~Gone(c.session)}
        /\ UNCHANGED <<place, mode, client, stores, canvas, polling, queued, made>>
    BY DEF RemoveCard
  <1>2. /\ session' \in [Sessions -> SessionStates]
        /\ \A r \in Sessions :
             /\ session'[r].project = session[r].project
             /\ session'[r].phase = IF Gone(r) THEN "removed" ELSE session[r].phase
             /\ session'[r].load = session[r].load
             /\ session'[r].reset = session[r].reset
             /\ session'[r].current = session[r].current
    BY DEF RemoveCard, CSInv, TypeOK, SessionStates, Shown
  <1>3. \A r \in Sessions : /\ Shown(r)' <=> Shown(r) /\ ~Gone(r)
                            /\ HasClient(r)' <=> HasClient(r) /\ ~Gone(r)
    BY <1>2 DEF Shown, HasClient
  <1>4. place = "dashboard" /\ canvas = NoCanvas
    BY <1>1 DEF CSInv, CanvasHosted, TypeOK
  <1>5. TypeOK'
    BY <1>1, <1>2 DEF CSInv, TypeOK
  <1>6. OneShown'
    BY <1>3 DEF CSInv, OneShown
  <1>7. SessionsFit'
    BY <1>1, <1>2, <1>3 DEF CSInv, SessionsFit, SessionFits
  <1>8. ConnectionsFit'
    <2>1. \A c \in listeners' : ConnectionFits(c)'
      BY <1>1, <1>2, <1>3 DEF CSInv, ConnectionsFit, ConnectionFits, TypeOK, Connections
    <2>2. \A r \in Sessions : HasClient(r)' => \E c \in listeners' : c.session = r
      BY <1>1, <1>3 DEF CSInv, ConnectionsFit
    <2> QED
      BY <1>1, <2>1, <2>2 DEF CSInv, ConnectionsFit
  <1>9. ClientFits'
    BY <1>1, <1>2, <1>3 DEF CSInv, ClientFits
  <1>10. CanvasHosted' /\ CanvasShowsStores' /\ EditsGoHome'
    BY <1>1, <1>4 DEF CSInv, CanvasHosted, CanvasShowsStores, NoCanvas, EditsGoHome
  <1>11. ReadyShowsProject'
    <2> SUFFICES ASSUME NEW r \in Sessions, session'[r].phase = "ready", ~session'[r].reset
                 PROVE  /\ stores'.project = session'[r].project
                        /\ client'.project = session'[r].project
                        /\ {c.session : c \in listeners'} = {r}
                        /\ mode' = "own" => polling'
      BY DEF ReadyShowsProject
    <2>1. session[r].phase = "ready" /\ ~session[r].reset /\ ~Gone(r) /\ Shown(r)
      BY <1>2 DEF Shown
    <2>2. \A c \in listeners : c.session = r
      BY <2>1 DEF CSInv, ReadyShowsProject
    <2>3. listeners' = listeners
      BY <1>1, <2>1, <2>2
    <2> QED
      BY <1>1, <1>2, <2>1, <2>3 DEF CSInv, ReadyShowsProject
  <1>12. ClosedLeavesNothing'
    <2> SUFFICES ASSUME \A r \in Sessions : session'[r].phase \in {"new", "closed"}
                 PROVE  client = NoClient /\ stores = NoData /\ ~polling /\ listeners' = {}
      BY <1>1 DEF ClosedLeavesNothing
    <2>1. \A r \in Sessions : session[r].phase \in {"new", "closed"}
      BY <1>2
    <2> QED
      BY <1>1, <1>4, <2>1 DEF CSInv, ClosedLeavesNothing
  <1> QED
    BY <1>5, <1>6, <1>7, <1>8, <1>9, <1>10, <1>11, <1>12 DEF CSInv

\* The Builder unmounts: its connections end and its canvas is gone.
LEMMA CSLeaveBuilder ==
  ASSUME CSInv, NEW s \in Sessions, LeaveBuilder(s)
  PROVE  CSInv'
PROOF
  <1>1. /\ place = "builder" /\ Shown(s)
        /\ canvas' = NoCanvas
        /\ UNCHANGED <<place, mode, cards, client, stores, polling, queued, made>>
    BY DEF LeaveBuilder
  <1>2. /\ session' \in [Sessions -> SessionStates]
        /\ session'[s].phase = "closed"
        /\ \A r \in Sessions :
             /\ session'[r].project = session[r].project
             /\ session'[r].load = session[r].load
             /\ session'[r].reset = session[r].reset
             /\ session'[r].current = session[r].current
             /\ r # s => session'[r].phase = session[r].phase
    BY DEF LeaveBuilder, CSInv, TypeOK, SessionStates
  <1>3. \A r \in Sessions : ~Shown(r)' /\ ~HasClient(r)' /\ session'[r].phase # "ready"
    BY <1>1, <1>2 DEF CSInv, OneShown, Shown, HasClient
  <1>4. listeners' = {}
    BY <1>1 DEF LeaveBuilder, Abort, CSInv, ConnectionsFit, ConnectionFits, OneShown, TypeOK,
         Connections
  <1>5. NoCanvas.connection = "disconnected"
        /\ NoCanvas \in [connection : {"disconnected", "connecting", "connected"},
                          data : Data, replaced : BOOLEAN]
    BY DEF NoCanvas, NoData, Data
  <1>6. TypeOK'
    BY <1>1, <1>2, <1>4, <1>5 DEF CSInv, TypeOK
  <1>7. OneShown' /\ ReadyShowsProject'
    BY <1>3 DEF OneShown, ReadyShowsProject
  <1>8. SessionsFit'
    BY <1>1, <1>2, <1>3 DEF CSInv, SessionsFit, SessionFits
  <1>9. ConnectionsFit' /\ ClientFits'
    BY <1>1, <1>3, <1>4 DEF CSInv, ConnectionsFit, ClientFits
  <1>10. CanvasHosted' /\ CanvasShowsStores' /\ EditsGoHome' /\ ClosedLeavesNothing'
    BY <1>1, <1>5 DEF CSInv, CanvasHosted, CanvasShowsStores, EditsGoHome,
         ClosedLeavesNothing
  <1> QED
    BY <1>6, <1>7, <1>8, <1>9, <1>10 DEF CSInv

-----------------------------------------------------------------------------
(* The canvas, and edits. *)

LEMMA CSConnectCanvas ==
  ASSUME CSInv, NEW s \in Sessions, ConnectCanvas(s)
  PROVE  CSInv'
PROOF
  <1>1. /\ place = "builder" /\ session[s].phase = "ready"
        /\ UNCHANGED <<place, mode, cards, session, client, listeners, stores, polling,
                       queued, made>>
    BY DEF ConnectCanvas, Rendered
  <1>2. /\ canvas' \in [connection : {"disconnected", "connecting", "connected"},
                         data : Data, replaced : BOOLEAN]
        /\ canvas'.connection = "connected" => canvas'.data = stores
    <2>1. /\ stores \in Data
          /\ NoCanvas \in [connection : {"disconnected", "connecting", "connected"},
                            data : Data, replaced : BOOLEAN]
      BY DEF CSInv, TypeOK, NoCanvas, NoData, Data
    <2>2. CASE listeners = {}
      BY <2>1, <2>2 DEF ConnectCanvas
    <2>3. CASE listeners # {}
      BY <2>1, <2>3 DEF ConnectCanvas
    <2> QED
      BY <2>2, <2>3
  <1>3. TypeOK'
    BY <1>1, <1>2 DEF CSInv, TypeOK
  <1>4. OneShown' /\ SessionsFit' /\ ConnectionsFit' /\ ClientFits'
    BY <1>1 DEF CSInv, OneShown, SessionsFit, SessionFits, ConnectionsFit, ConnectionFits,
         ClientFits, HasClient, Shown
  <1>5. CanvasHosted' /\ CanvasShowsStores'
    BY <1>1, <1>2 DEF CSInv, CanvasHosted, CanvasShowsStores
  <1>6. EditsGoHome' /\ ReadyShowsProject' /\ ClosedLeavesNothing'
    BY <1>1 DEF CSInv, EditsGoHome, ReadyShowsProject, ClosedLeavesNothing
  <1> QED
    BY <1>3, <1>4, <1>5, <1>6 DEF CSInv

\* An edit goes to the one connection of the page, and through it to its project.
LEMMA EditQueued ==
  ASSUME CSInv, NEW s \in Sessions, session[s].phase = "ready"
  PROVE  {c \in listeners : c.storage # NoProject} =
           IF mode = "own" THEN {[session |-> s, storage |-> session[s].project]} ELSE {}
PROOF
  <1>1. HasClient(s) /\ Shown(s) /\ session[s].project \in Projects
    BY DEF HasClient, Shown, CSInv, SessionsFit, SessionFits
  <1>2. PICK d \in listeners : d.session = s
    BY <1>1 DEF CSInv, ConnectionsFit
  <1>3. \A c \in listeners : c \in Connections /\ c.session = s
    BY <1>1 DEF CSInv, ConnectionsFit, ConnectionFits, OneShown, TypeOK, Connections
  <1>4. listeners = {d}
    BY <1>2, <1>3 DEF CSInv, ConnectionsFit
  <1>5. d = [session |-> s, storage |-> IF mode = "own" THEN session[s].project
                                        ELSE NoProject]
    BY <1>2, <1>3 DEF CSInv, ConnectionsFit, ConnectionFits, Connections
  <1>6. session[s].project # NoProject
    BY <1>1
  <1>7. CASE mode = "own"
    BY <1>4, <1>5, <1>6, <1>7
  <1>8. CASE mode # "own"
    BY <1>4, <1>5, <1>8
  <1> QED
    BY <1>7, <1>8

LEMMA CSEdit ==
  ASSUME CSInv, NEW s \in Sessions, NEW x \in Txns, Edit(s, x)
  PROVE  CSInv'
PROOF
  <1>1. /\ session[s].phase = "ready" /\ stores.project = session[s].project
        /\ made' = [made EXCEPT ![x] = stores.project]
        /\ queued' = [queued EXCEPT ![x] = {c \in listeners : c.storage # NoProject}]
        /\ stores' = [stores EXCEPT !.edits = @ \cup {x}]
        /\ UNCHANGED <<place, mode, cards, session, client, listeners, polling>>
    BY DEF Edit
  <1>2. Shown(s) /\ session[s].project \in Projects
    BY <1>1 DEF Shown, CSInv, SessionsFit, SessionFits
  <1>3. /\ stores' \in Data /\ stores'.project = stores.project
        /\ stores'.edits = stores.edits \cup {x}
    BY <1>1 DEF CSInv, TypeOK, Data
  <1>4. /\ canvas' \in [connection : {"disconnected", "connecting", "connected"},
                         data : Data, replaced : BOOLEAN]
        /\ canvas = NoCanvas => canvas' = NoCanvas
        /\ canvas'.connection = canvas.connection /\ canvas'.replaced = canvas.replaced
        /\ canvas.connection = "connected" =>
             canvas'.data = [canvas.data EXCEPT !.edits = @ \cup {x}]
    <2>1. canvas \in [connection : {"disconnected", "connecting", "connected"},
                      data : Data, replaced : BOOLEAN]
      BY DEF CSInv, TypeOK
    <2>2. [canvas.data EXCEPT !.edits = @ \cup {x}] \in Data
      BY <2>1 DEF Data
    <2>3. CASE canvas.connection = "disconnected"
      BY <2>1, <2>3 DEF Edit
    <2>4. CASE canvas.connection # "disconnected"
      <3>1. canvas' = [canvas EXCEPT !.data = [canvas.data EXCEPT !.edits = @ \cup {x}]]
        BY <2>4 DEF Edit
      <3> QED
        <4>1. canvas # NoCanvas
          BY <2>4 DEF NoCanvas
        <4>3. /\ canvas'.connection = canvas.connection
              /\ canvas'.replaced = canvas.replaced
              /\ canvas'.data = [canvas.data EXCEPT !.edits = @ \cup {x}]
          BY <2>1, <3>1
        <4>4. canvas' \in [connection : {"disconnected", "connecting", "connected"},
                           data : Data, replaced : BOOLEAN]
          BY <2>1, <2>2, <3>1
        <4> QED
          BY <4>1, <4>3, <4>4
    <2> QED
      BY <2>3, <2>4
  <1>5. TypeOK'
    <2>1. made' \in [Txns -> Projects \cup {NoProject}]
      BY <1>1, <1>2 DEF CSInv, TypeOK
    <2>2. queued' \in [Txns -> SUBSET Connections]
      BY <1>1 DEF CSInv, TypeOK
    <2> QED
      BY <1>1, <1>3, <1>4, <2>1, <2>2 DEF CSInv, TypeOK
  <1>6. OneShown' /\ SessionsFit' /\ ConnectionsFit' /\ ClientFits'
    BY <1>1 DEF CSInv, OneShown, SessionsFit, SessionFits, ConnectionsFit, ConnectionFits,
         ClientFits, HasClient, Shown
  <1>7. CanvasHosted' /\ CanvasShowsStores'
    BY <1>1, <1>3, <1>4 DEF CSInv, CanvasHosted, CanvasShowsStores
  <1>8. EditsGoHome'
    <2> SUFFICES ASSUME NEW y \in Txns, made'[y] # NoProject
                 PROVE  IF mode = "own"
                          THEN \E r \in Sessions :
                                 queued'[y] = {[session |-> r, storage |-> made'[y]]}
                          ELSE queued'[y] = {}
      BY <1>1 DEF EditsGoHome
    <2>1. CASE y = x
      <3>1. /\ made'[y] = session[s].project
            /\ queued'[y] = {c \in listeners : c.storage # NoProject}
        BY <1>1, <2>1 DEF CSInv, TypeOK
      <3> QED
        BY <1>1, <3>1, EditQueued
    <2>2. CASE y # x
      BY <1>1, <2>2 DEF CSInv, TypeOK, EditsGoHome
    <2> QED
      BY <2>1, <2>2
  <1>9. ReadyShowsProject' /\ ClosedLeavesNothing'
    BY <1>1, <1>2, <1>3 DEF CSInv, ReadyShowsProject, ClosedLeavesNothing
  <1> QED
    BY <1>5, <1>6, <1>7, <1>8, <1>9 DEF CSInv

-----------------------------------------------------------------------------
(* The theorems. *)

LEMMA CSNext == CSInv /\ [Next]_vars => CSInv'
PROOF
  <1> SUFFICES ASSUME CSInv, [Next]_vars  PROVE CSInv'
    OBVIOUS
  <1>1. CASE Next
    <2>1. ASSUME NEW p \in Projects, Open(p) \/ MountCard(p) \/ RemoveCard(p)  PROVE CSInv'
      BY <2>1, CSOpen, CSMountCard, CSRemoveCard
    <2>2. ASSUME NEW s \in Sessions,
                 \/ DiscardLoad(s) \/ FailLoad(s) \/ ConnectClient(s)
                 \/ CompleteDataLoad(s) \/ AskReload(s) \/ Reload(s)
          PROVE  CSInv'
      BY <2>2, CSLoadEnds, CSDataArrives, CSReload
    <2>3. ASSUME NEW s \in Sessions,
                 \/ CloseDialog(s) \/ LeaveBuilder(s) \/ ConnectCanvas(s)
                 \/ \E x \in Txns : Edit(s, x)
          PROVE  CSInv'
      BY <2>3, CSCloseDialog, CSLeaveBuilder, CSConnectCanvas, CSEdit
    <2> QED
      BY <1>1, <2>1, <2>2, <2>3 DEF Next
  <1>2. CASE UNCHANGED vars
    <2>1. UNCHANGED <<place, mode, cards, session, client, listeners, stores, canvas,
                      polling, queued, made>>
      BY <1>2 DEF vars
    <2>2. TypeOK' /\ OneShown' /\ SessionsFit' /\ ConnectionsFit' /\ ClientFits'
      BY <2>1 DEF CSInv, TypeOK, OneShown, SessionsFit, SessionFits, ConnectionsFit,
           ConnectionFits, ClientFits, HasClient, Shown
    <2>3. CanvasHosted' /\ CanvasShowsStores'
      BY <2>1 DEF CSInv, CanvasHosted, CanvasShowsStores
    <2>4. EditsGoHome' /\ ReadyShowsProject' /\ ClosedLeavesNothing'
      BY <2>1 DEF CSInv, EditsGoHome, ReadyShowsProject, ClosedLeavesNothing
    <2> QED
      BY <2>2, <2>3, <2>4 DEF CSInv
  <1> QED
    BY <1>1, <1>2

LEMMA ClientSyncInvariant == Spec => []CSInv
PROOF BY CSInit, CSNext, PTL DEF Spec

\* Every state of pages, cards and dialogs is well typed.
THEOREM ClientSyncTyped == Spec => []TypeOK
PROOF
  <1>1. CSInv => TypeOK
    BY DEF CSInv
  <1> QED
    BY <1>1, ClientSyncInvariant, PTL

\* Whatever was opened, closed and still loading before, an edit is put on the
\* save queue once, for the project it was made on; without a storage, never.
THEOREM EditsAreQueuedOnce == Spec => []EditsGoHome
PROOF
  <1>1. CSInv => EditsGoHome
    BY DEF CSInv
  <1> QED
    BY <1>1, ClientSyncInvariant, PTL

\* A page that has loaded shows its project, has the only connection and will send
\* what is edited, unless a card mounted meanwhile has destroyed its client.
THEOREM ReadyPagesAreWhole == Spec => []ReadyShowsProject
PROOF
  <1>1. CSInv => ReadyShowsProject
    BY DEF CSInv
  <1> QED
    BY <1>1, ClientSyncInvariant, PTL

\* When the last dialog was closed, no client, data, polling or subscription of it
\* is left, however late its data comes.
THEOREM DashboardsAreLeftClean == Spec => []ClosedLeavesNothing
PROOF
  <1>1. CSInv => ClosedLeavesNothing
    BY DEF CSInv
  <1> QED
    BY <1>1, ClientSyncInvariant, PTL

\* A connected canvas shows what the builder shows, until the relay has the data
\* of the builder replaced.
THEOREM CanvasFollowsBuilder == Spec => []CanvasShowsStores
PROOF
  <1>1. CSInv => CanvasShowsStores
    BY DEF CSInv
  <1> QED
    BY <1>1, ClientSyncInvariant, PTL

\* A session that was shown and is ready after a step was not waiting for data.
LEMMA LoadsKeepEditsStep ==
  ASSUME CSInv, Next, mode # "multiplayer",
         NEW s \in Sessions, session[s].phase = "ready", session'[s].phase = "ready",
         ~session'[s].reset
  PROVE  stores.edits \subseteq stores'.edits
PROOF
  <1>1. Shown(s) /\ \A r \in Sessions : Shown(r) => r = s
    BY DEF Shown, CSInv, OneShown
  <1>2. ASSUME NEW p \in Projects, Open(p)  PROVE FALSE
    BY <1>1, <1>2 DEF Open
  <1>3. ASSUME NEW p \in Projects, MountCard(p)  PROVE FALSE
    BY <1>1, <1>3 DEF MountCard, Outdated, CSInv, TypeOK, SessionStates
  <1>4. ASSUME NEW r \in Sessions, ConnectClient(r) \/ CompleteDataLoad(r)  PROVE FALSE
    BY <1>1, <1>4, DataArrives DEF Shown
  <1>5. ASSUME NEW r \in Sessions, Reload(r)  PROVE FALSE
    BY <1>5 DEF Reload, CSInv, SessionsFit, SessionFits
  <1>6. ASSUME NEW r \in Sessions, CloseDialog(r)  PROVE FALSE
    <2>1. r = s
      BY <1>1, <1>6 DEF CloseDialog
    <2> QED
      BY <1>6, <2>1 DEF CloseDialog, Outdated, CSInv, TypeOK, SessionStates
  <1>7. ASSUME NEW r \in Sessions, NEW x \in Txns, Edit(r, x)
        PROVE  stores.edits \subseteq stores'.edits
    BY <1>7 DEF Edit, CSInv, TypeOK, Data
  <1>8. ASSUME UNCHANGED stores  PROVE stores.edits \subseteq stores'.edits
    BY <1>8
  <1>9. ASSUME NEW r \in Sessions,
               \/ DiscardLoad(r) \/ FailLoad(r) \/ AskReload(r)
               \/ LeaveBuilder(r) \/ ConnectCanvas(r)
        PROVE  UNCHANGED stores
    BY <1>9 DEF DiscardLoad, FailLoad, AskReload, LeaveBuilder, ConnectCanvas
  <1>10. ASSUME NEW p \in Projects, RemoveCard(p)  PROVE UNCHANGED stores
    BY <1>10 DEF RemoveCard
  <1> QED
    BY <1>2, <1>3, <1>4, <1>5, <1>6, <1>7, <1>8, <1>9, <1>10 DEF Next

\* No load takes the edits away that were made on a page, however late it comes.
THEOREM EditsOutliveLoads == Spec => LoadsKeepEdits
PROOF
  <1>1. CSInv /\ [Next]_vars =>
          [mode # "multiplayer" =>
             \A s \in Sessions :
               session[s].phase = "ready" /\ session'[s].phase = "ready"
                 /\ ~session'[s].reset
                 => stores.edits \subseteq stores'.edits]_vars
    BY LoadsKeepEditsStep
  <1> QED
    BY <1>1, ClientSyncInvariant, PTL DEF Spec, LoadsKeepEdits
=============================================================================
