------------------------- MODULE ProjectQueueProofs -------------------------
(***************************************************************************)
(* Proofs about ProjectQueue, for any tabs, projects, edits and number of  *)
(* calls of pollQueue, in three parts.                                     *)
(*                                                                         *)
(* The state is well typed, and at most one loop of a tab is not on its    *)
(* way out, however often projects are opened, closed and reloaded while   *)
(* loops are waiting for an answer.                                        *)
(*                                                                         *)
(* No transaction is answered twice, and what has been asked of the server *)
(* is asked again as it was: a transaction that is queued or in the hands  *)
(* of a loop is in one command only, and has not been answered.            *)
(*                                                                         *)
(* A tab that polls until its page goes, which is what a builder tab does, *)
(* loses no edit, does not show idle over unanswered edits, has its saves  *)
(* answered in the order of the edits, and its loop has the details of     *)
(* every project it has transactions of.  A dialog that closes, or a tab   *)
(* that goes on to another project, stops its loop and may drop what it    *)
(* holds: then none of this third part is promised.                        *)
(*                                                                         *)
(* Last, what a tab knows of a version it asks the server to save over,    *)
(* and what an edit it sends was made on: lemmas for SinglePlayerProofs,   *)
(* which has the row and who saw what.                                     *)
(***************************************************************************)
EXTENDS ProjectQueue, TLAPS

USE ProjectQueueAssumption

-----------------------------------------------------------------------------
\* The inductive invariant of the first part.  A loop with a command in hand has
\* taken one, and a page that is not closed has a project; a new loop is started
\* only when the controller is gone, and with it the last loop that was not told
\* to stop.
SoundLoops ==
  {lp \in LoopStates : lp.pc \in {"batch", "send", "wait"} => lp.batch # <<>>}

SoundPages == {pg \in Pages : pg.phase # "closed" => pg.project \in Projects}

PQInv ==
  /\ PQTypeOK
  /\ page \in [Tabs -> SoundPages]
  /\ loop \in [Tabs -> [Loops -> SoundLoops]]
  /\ OneLiveLoop

-----------------------------------------------------------------------------
(* The operators on commands, queues and loops. *)

\* Merging a transaction into the tail command keeps the queue one of commands.
LEMMA EnqueueTyped ==
  ASSUME NEW q \in Seq(Commands), NEW command \in Commands
  PROVE  Enqueue(q, command) \in Seq(Commands)
PROOF
  <1> DEFINE n == Len(q)
  <1>1. CASE /\ command.type = "transactions"
             /\ n > 0
             /\ q[n].type = "transactions"
             /\ q[n].project = command.project
    <2> DEFINE merged == [q[n] EXCEPT !.transactions = @ \o command.transactions]
    <2>1. q[n] \in Commands /\ n \in DOMAIN q
      BY <1>1
    <2>2. merged \in Commands
      <3>1. q[n] \in [type : {"transactions"}, project : Projects, transactions : Seq(Txns)]
        BY <1>1, <2>1 DEF Commands
      <3>2. command.transactions \in Seq(Txns)
        BY <1>1 DEF Commands
      <3>3. q[n].transactions \o command.transactions \in Seq(Txns)
        BY <3>1, <3>2
      <3> QED
        BY <3>1, <3>3 DEF Commands
    <2>3. Enqueue(q, command) = [q EXCEPT ![n] = merged]
      BY <1>1 DEF Enqueue
    <2> HIDE DEF merged
    <2> QED
      BY <2>1, <2>2, <2>3
  <1>2. CASE ~ (/\ command.type = "transactions"
                /\ n > 0
                /\ q[n].type = "transactions"
                /\ q[n].project = command.project)
    BY <1>2 DEF Enqueue
  <1> QED
    BY <1>1, <1>2

\* Commands made of the parts of a tab's state are commands.
LEMMA CommandsTyped ==
  ASSUME NEW p \in Projects
  PROVE  /\ \A v \in Nat : SetDetails(p, v) \in Commands
         /\ \A x \in Txns : Transactions(p, <<x>>) \in Commands
PROOF BY DEF SetDetails, Transactions, Commands

\* A loop that has just started, or has ended, is sound, and has no command.
LEMMA OffLoopSound ==
  OffLoop \in SoundLoops /\ OffLoop.pc = "off" /\ ~OffLoop.aborted
PROOF
  <1>1. NoDetails \in [Projects -> Nat \cup {Unknown}]
    BY DEF NoDetails
  <1>2. <<>> \in Seq(Commands)
    OBVIOUS
  <1> QED
    BY <1>1, <1>2 DEF OffLoop, SoundLoops, LoopStates

\* A loop that takes the queue has a command in hand if there was one.
LEMMA TakenSound ==
  ASSUME NEW lp \in SoundLoops, NEW q \in Seq(Commands)
  PROVE  /\ Taken(lp, q) \in SoundLoops
         /\ Taken(lp, q).aborted = lp.aborted
         /\ Taken(lp, q).pc # "off"
PROOF BY DEF Taken, SoundLoops, LoopStates

\* A loop that is done with a command has the next one in hand, or pauses.
LEMMA DoneSound ==
  ASSUME NEW lp \in SoundLoops, lp.batch # <<>>
  PROVE  /\ Done(lp) \in SoundLoops
         /\ Done(lp).aborted = lp.aborted
PROOF
  <1>1. lp.batch \in Seq(Commands) /\ Tail(lp.batch) \in Seq(Commands)
    BY DEF SoundLoops, LoopStates
  <1>2. ASSUME NEW rest \in Seq(Commands), NEW pc \in {"poll", "batch"},
               pc = "batch" => rest # <<>>
        PROVE  LET next == [lp EXCEPT !.pc = pc, !.batch = rest,
                                      !.attempts = 0, !.errors = 0]
               IN  next \in SoundLoops /\ next.aborted = lp.aborted
    <2> DEFINE next == [lp EXCEPT !.pc = pc, !.batch = rest, !.attempts = 0, !.errors = 0]
               D == [Projects -> Nat \cup {Unknown}]
               B == Seq(Commands)
               A == 0..MaxRetryRecovery
               E == 0..MaxAllowedApiErrors
    <2>1. lp \in [pc : {"off", "poll", "batch", "send", "wait"}, aborted : BOOLEAN,
                  details : D, batch : B, attempts : A, errors : E]
      BY DEF SoundLoops, LoopStates
    <2>2. 0 \in A /\ 0 \in E /\ rest \in B
      OBVIOUS
    <2>3. next \in [pc : {"off", "poll", "batch", "send", "wait"}, aborted : BOOLEAN,
                    details : D, batch : B, attempts : A, errors : E]
      <3> HIDE DEF D, B, A, E
      <3> QED
        BY <2>1, <2>2
    <2>4. next.pc = pc /\ next.batch = rest /\ next.aborted = lp.aborted
      <3> HIDE DEF D, B, A, E
      <3> QED
        BY <2>1
    <2> QED
      BY <1>2, <2>3, <2>4, Zenon DEF SoundLoops, LoopStates
  <1> QED
    BY <1>1, <1>2 DEF Done

\* The command in hand is a command of the queue.
LEMMA InHandTyped ==
  ASSUME PQInv, NEW t \in Tabs, NEW l \in Loops,
         loop[t][l].pc \in {"batch", "send", "wait"}
  PROVE  /\ loop[t][l] \in SoundLoops
         /\ loop[t][l].batch # <<>>
         /\ InHand(t, l) \in Commands
         /\ InHand(t, l).project \in Projects
PROOF
  <1>1. loop[t][l] \in SoundLoops
    BY DEF PQInv
  <1>2. loop[t][l].batch \in Seq(Commands) /\ loop[t][l].batch # <<>>
    BY <1>1 DEF SoundLoops, LoopStates
  <1>3. Head(loop[t][l].batch) \in Commands
    BY <1>2
  <1> QED
    BY <1>1, <1>2, <1>3 DEF InHand, Commands

-----------------------------------------------------------------------------
(* What a step of one loop does to the others: nothing. *)

\* A running loop that goes on, with the same signal, or ends.
LEMMA LoopStep ==
  ASSUME PQInv, NEW t \in Tabs, NEW l \in Loops, NEW lp \in SoundLoops,
         loop[t][l].pc # "off",
         lp.pc # "off" => lp.aborted = loop[t][l].aborted,
         SetLoop(t, l, lp), UNCHANGED controller
  PROVE  loop' \in [Tabs -> [Loops -> SoundLoops]] /\ OneLiveLoop'
PROOF
  <1>1. loop \in [Tabs -> [Loops -> SoundLoops]]
    BY DEF PQInv
  <1>2. loop' \in [Tabs -> [Loops -> SoundLoops]]
    BY <1>1 DEF SetLoop
  <1>3. ASSUME NEW u \in Tabs, NEW m \in Loops, loop'[u][m].pc # "off"
        PROVE  loop'[u][m].aborted \/ m = controller'[u]
    <2>1. CASE u = t /\ m = l
      <3>1. loop'[u][m] = lp
        BY <1>1, <2>1 DEF SetLoop
      <3>2. loop[t][l].aborted \/ l = controller[t]
        BY DEF PQInv, OneLiveLoop, RunningLoops
      <3> QED
        BY <1>3, <2>1, <3>1, <3>2
    <2>2. CASE ~ (u = t /\ m = l)
      <3>1. loop'[u][m] = loop[u][m]
        BY <1>1, <2>2 DEF SetLoop
      <3> QED
        BY <1>3, <3>1 DEF PQInv, OneLiveLoop, RunningLoops
    <2> QED
      BY <2>1, <2>2
  <1> QED
    BY <1>2, <1>3 DEF OneLiveLoop, RunningLoops

\* Sound loops are loop states: what is left of the type invariant is about the
\* other variables.
LEMMA SoundLoopsTyped ==
  loop \in [Tabs -> [Loops -> SoundLoops]] => loop \in [Tabs -> [Loops -> LoopStates]]
PROOF BY DEF SoundLoops

\* completeTransaction gives every transaction one of the outcomes.
LEMMA CompleteTyped ==
  ASSUME PQTypeOK, NEW t \in Tabs, NEW ts, NEW saved, Complete(t, ts, saved)
  PROVE  /\ outcome' \in [Txns -> Outcomes]
         /\ lastEdit' \in [Tabs -> Txns \cup {NoTxn}]
PROOF BY DEF PQTypeOK, Complete, Outcomes

-----------------------------------------------------------------------------
(* The inductive invariant PQInv, one lemma per action. *)

LEMMA PQInitInv ==
  PQInit => PQInv
PROOF
  <1> SUFFICES ASSUME PQInit PROVE PQInv
    OBVIOUS
  <1>1. loop \in [Tabs -> [Loops -> SoundLoops]]
    BY OffLoopSound DEF PQInit
  <1>2. PQTypeOK
    <2>1. \A t \in Tabs : page[t] \in Pages
      BY DEF PQInit, Pages, ClosedPage
    <2>2. <<>> \in Seq(Commands) /\ <<>> \in Seq(Txns)
      OBVIOUS
    <2> QED
      BY <1>1, <2>1, <2>2, SoundLoopsTyped DEF PQInit, PQTypeOK, Outcomes
  <1>3. OneLiveLoop
    BY OffLoopSound DEF PQInit, OneLiveLoop, RunningLoops
  <1>4. page \in [Tabs -> SoundPages]
    BY DEF PQInit, SoundPages, Pages, ClosedPage
  <1> QED
    BY <1>1, <1>2, <1>3, <1>4 DEF PQInv

\* stopPolling: the one loop that was not on its way out is told to stop.
LEMMA StopPollingStep ==
  ASSUME PQInv, NEW t \in Tabs, StopPolling(t),
         page' \in [Tabs -> SoundPages], UNCHANGED edits
  PROVE  PQInv'
PROOF
  <1>1. loop \in [Tabs -> [Loops -> SoundLoops]] /\ PQTypeOK /\ page' \in [Tabs -> Pages]
    BY DEF PQInv, SoundPages
  <1>2. ASSUME NEW lp \in SoundLoops
        PROVE  LET stopped == [lp EXCEPT !.aborted = TRUE] IN
               stopped \in SoundLoops /\ stopped.pc = lp.pc /\ stopped.aborted
    BY DEF SoundLoops, LoopStates
  <1>3. loop' \in [Tabs -> [Loops -> SoundLoops]]
    BY <1>1, <1>2 DEF StopPolling
  <1>4. PQTypeOK'
    BY <1>1, <1>3, SoundLoopsTyped DEF StopPolling, PQTypeOK, SoundLoops
  <1>5. ASSUME NEW u \in Tabs, NEW m \in Loops, loop'[u][m].pc # "off"
        PROVE  loop'[u][m].aborted \/ m = controller'[u]
    <2>1. loop[u][m] \in SoundLoops
      BY <1>1
    <2>2. CASE u = t
      <3>1. loop'[u][m] = IF m = controller[t] /\ loop[t][m].pc # "off"
                            THEN [loop[t][m] EXCEPT !.aborted = TRUE]
                            ELSE loop[t][m]
        BY <1>1, <2>2 DEF StopPolling
      <3>2. loop[u][m].pc # "off"
        BY <1>2, <1>5, <2>1, <2>2, <3>1
      <3>3. loop[u][m].aborted \/ m = controller[u]
        BY <3>2 DEF PQInv, OneLiveLoop, RunningLoops
      <3> QED
        BY <1>2, <2>1, <2>2, <3>1, <3>2, <3>3
    <2>3. CASE u # t
      <3>1. loop'[u][m] = loop[u][m] /\ controller'[u] = controller[u]
        BY <1>1, <2>3 DEF StopPolling, PQTypeOK
      <3> QED
        BY <1>5, <3>1 DEF PQInv, OneLiveLoop, RunningLoops
    <2> QED
      BY <2>2, <2>3
  <1> QED
    BY <1>3, <1>4, <1>5 DEF PQInv, OneLiveLoop, RunningLoops

\* Steps of the page alone.
LEMMA PageStep ==
  ASSUME PQInv, page' \in [Tabs -> SoundPages], UNCHANGED <<queueVars, edits>>
  PROVE  PQInv'
PROOF BY DEF PQInv, PQTypeOK, OneLiveLoop, RunningLoops, queueVars, SoundPages

LEMMA OpenProjectStep ==
  ASSUME PQInv, NEW t \in Tabs, NEW p \in Projects, OpenProject(t, p)
  PROVE  PQInv'
PROOF
  <1>1. page' \in [Tabs -> SoundPages]
    BY DEF PQInv, OpenProject, SoundPages, Pages
  <1>2. StopPolling(t) \/ UNCHANGED queueVars
    BY DEF OpenProject
  <1> QED
    BY <1>1, <1>2, StopPollingStep, PageStep DEF OpenProject

LEMMA LoadDataStep ==
  ASSUME PQInv, NEW t \in Tabs, NEW v \in Nat, LoadData(t, v)
  PROVE  PQInv'
PROOF
  <1> DEFINE pg == [page[t] EXCEPT !.phase = "loaded", !.version = v]
  <1>1. pg \in SoundPages
    BY DEF PQInv, LoadData, SoundPages, Pages
  <1>2. page' = [page EXCEPT ![t] = pg]
    BY DEF LoadData
  <1> HIDE DEF pg
  <1>3. page' \in [Tabs -> SoundPages]
    BY <1>1, <1>2 DEF PQInv
  <1> QED
    BY <1>3, PageStep DEF LoadData

LEMMA CloseDialogStep ==
  ASSUME PQInv, NEW t \in Tabs, CloseDialog(t)
  PROVE  PQInv'
PROOF
  <1>1. page' \in [Tabs -> SoundPages]
    BY DEF PQInv, CloseDialog, ClosedPage, SoundPages, Pages
  <1> QED
    BY <1>1, StopPollingStep DEF CloseDialog

LEMMA UnmountStep ==
  ASSUME PQInv, NEW t \in Tabs, Unmount(t)
  PROVE  PQInv'
PROOF
  <1>1. page' \in [Tabs -> SoundPages]
    BY DEF PQInv, Unmount, ClosedPage, SoundPages, Pages
  <1> QED
    BY <1>1, PageStep DEF Unmount

\* A page is opened: a new loop is started only if there is no controller, and
\* then every loop that is still running has been aborted.
LEMMA EnqueueProjectDetailsStep ==
  ASSUME PQInv, NEW t \in Tabs, EnqueueProjectDetails(t)
  PROVE  PQInv'
PROOF
  <1> DEFINE command == SetDetails(page[t].project, page[t].version)
             commands == Enqueue(queue[t], command)
  <1>1. PQTypeOK /\ loop \in [Tabs -> [Loops -> SoundLoops]]
    BY DEF PQInv
  <1>2. commands \in Seq(Commands)
    <2>1. page[t].project \in Projects /\ page[t].version \in Nat
      BY DEF PQInv, EnqueueProjectDetails, SoundPages, Pages
    <2> QED
      BY <1>1, <2>1, CommandsTyped, EnqueueTyped DEF PQTypeOK
  <1>3. page' \in [Tabs -> SoundPages] /\ page' \in [Tabs -> Pages]
    <2> DEFINE pg == [page[t] EXCEPT !.phase = "open", !.version = 0,
                                     !.client = page[t].project]
    <2>1. pg \in SoundPages
      BY DEF PQInv, EnqueueProjectDetails, SoundPages, Pages
    <2>2. page' = [page EXCEPT ![t] = pg]
      BY DEF EnqueueProjectDetails
    <2> HIDE DEF pg
    <2>3. page' \in [Tabs -> SoundPages]
      BY <2>1, <2>2 DEF PQInv
    <2> QED
      BY <2>3 DEF SoundPages
  <1>4. UNCHANGED <<committedVersion, lastEdit, outcome, edits>>
    BY DEF EnqueueProjectDetails
  <1>5. CASE /\ queue' = [queue EXCEPT ![t] = commands]
             /\ UNCHANGED <<isPolling, controller, loop, syncStatus>>
    BY <1>1, <1>2, <1>3, <1>4, <1>5 DEF PQInv, PQTypeOK, OneLiveLoop, RunningLoops
  <1>6. ASSUME controller[t] = NoLoop,
               NEW l \in Loops, loop[t][l].pc = "off",
               controller' = [controller EXCEPT ![t] = l],
               SetLoop(t, l, Taken(OffLoop, commands)),
               isPolling' = [isPolling EXCEPT ![t] = TRUE],
               queue' = [queue EXCEPT ![t] = <<>>],
               SetStatus(t, "syncing")
        PROVE  PQInv'
    <2>1. Taken(OffLoop, commands) \in SoundLoops
      BY <1>2, OffLoopSound, TakenSound
    <2>2. loop' \in [Tabs -> [Loops -> SoundLoops]]
      BY <1>1, <1>6, <2>1 DEF SetLoop
    <2>3. PQTypeOK'
      <3>1. loop' \in [Tabs -> [Loops -> LoopStates]]
        BY <2>2 DEF SoundLoops
      <3>2. <<>> \in Seq(Commands)
        OBVIOUS
      <3> QED
        BY <1>1, <1>3, <1>4, <1>6, <3>1, <3>2 DEF PQTypeOK, SetStatus
    <2>4. ASSUME NEW u \in Tabs, NEW m \in Loops, loop'[u][m].pc # "off"
          PROVE  loop'[u][m].aborted \/ m = controller'[u]
      <3>1. CASE u = t /\ m = l
        BY <1>1, <1>6, <3>1 DEF PQTypeOK
      <3>2. CASE ~ (u = t /\ m = l)
        <4>1. loop'[u][m] = loop[u][m]
          BY <1>1, <1>6, <3>2 DEF SetLoop
        <4>2. loop[u][m].aborted \/ m = controller[u]
          BY <2>4, <4>1 DEF PQInv, OneLiveLoop, RunningLoops
        <4>3. u = t => m # controller[u]
          BY <1>6
        <4> QED
          BY <1>1, <1>6, <4>1, <4>2, <4>3 DEF PQTypeOK
      <3> QED
        BY <3>1, <3>2
    <2> QED
      BY <1>3, <2>2, <2>3, <2>4 DEF PQInv, OneLiveLoop, RunningLoops
  <1> QED
    BY <1>5, <1>6 DEF EnqueueProjectDetails

\* The user edits: the transaction joins the queue.
LEMMA SendTransactionStep ==
  ASSUME PQInv, NEW t \in Tabs, NEW x \in Txns, SendTransaction(t, x)
  PROVE  PQInv'
PROOF
  <1>1. page[t].project \in Projects
    BY DEF PQInv, SendTransaction, SoundPages, Pages
  <1>2. Enqueue(queue[t], Transactions(page[t].project, <<x>>)) \in Seq(Commands)
    BY <1>1, CommandsTyped, EnqueueTyped DEF PQInv, PQTypeOK
  <1>3. Append(edits[t], x) \in Seq(Txns)
    BY DEF PQInv, PQTypeOK
  <1>4. queue' \in [Tabs -> Seq(Commands)] /\ edits' \in [Tabs -> Seq(Txns)]
    BY <1>2, <1>3 DEF PQInv, PQTypeOK, SendTransaction
  <1> QED
    BY <1>4 DEF PQInv, PQTypeOK, OneLiveLoop, RunningLoops, SendTransaction, SetStatus,
                Outcomes

\* The page goes, and every loop of the tab with it.
LEMMA ReloadStep ==
  ASSUME PQInv, NEW t \in Tabs, Reload(t)
  PROVE  PQInv'
PROOF
  <1>1. PQTypeOK /\ loop \in [Tabs -> [Loops -> SoundLoops]]
    BY DEF PQInv
  <1>2. loop' \in [Tabs -> [Loops -> SoundLoops]]
    BY <1>1, OffLoopSound DEF Reload
  <1>3. page' \in [Tabs -> SoundPages] /\ page' \in [Tabs -> Pages]
    BY DEF PQInv, Reload, ClosedPage, SoundPages, Pages
  <1>4. PQTypeOK'
    <2>1. loop' \in [Tabs -> [Loops -> LoopStates]]
      BY <1>2 DEF SoundLoops
    <2>2. <<>> \in Seq(Commands) /\ <<>> \in Seq(Txns)
      OBVIOUS
    <2>3. outcome' \in [Txns -> Outcomes]
      BY <1>1 DEF Reload, PQTypeOK, Outcomes
    <2> QED
      BY <1>1, <1>3, <2>1, <2>2, <2>3 DEF Reload, PQTypeOK, SetStatus
  <1>5. ASSUME NEW u \in Tabs, NEW m \in Loops, loop'[u][m].pc # "off"
        PROVE  loop'[u][m].aborted \/ m = controller'[u]
    <2>1. u # t
      BY <1>1, <1>5, OffLoopSound DEF Reload
    <2>2. loop'[u][m] = loop[u][m] /\ controller'[u] = controller[u]
      BY <1>1, <2>1 DEF Reload, PQTypeOK
    <2> QED
      BY <1>5, <2>2 DEF PQInv, OneLiveLoop, RunningLoops
  <1> QED
    BY <1>2, <1>3, <1>4, <1>5 DEF PQInv, OneLiveLoop, RunningLoops

-----------------------------------------------------------------------------
(* The steps of a loop. *)

\* The type invariant, of what a loop's step may change beside the loop.
RestTyped ==
  /\ queue \in [Tabs -> Seq(Commands)]
  /\ isPolling \in [Tabs -> BOOLEAN]
  /\ syncStatus \in [Tabs -> {"idle", "syncing", "recovering", "failed", "fatal"}]
  /\ committedVersion \in [Tabs -> Nat]
  /\ lastEdit \in [Tabs -> Txns \cup {NoTxn}]
  /\ outcome \in [Txns -> Outcomes]

LEMMA LoopStepInv ==
  ASSUME PQInv, NEW t \in Tabs, NEW l \in Loops, NEW lp \in SoundLoops,
         loop[t][l].pc # "off",
         lp.pc # "off" => lp.aborted = loop[t][l].aborted,
         SetLoop(t, l, lp), UNCHANGED <<page, controller, edits>>,
         RestTyped'
  PROVE  PQInv'
PROOF
  <1>1. loop' \in [Tabs -> [Loops -> SoundLoops]] /\ OneLiveLoop'
    BY LoopStep
  <1>2. loop' \in [Tabs -> [Loops -> LoopStates]]
    BY <1>1 DEF SoundLoops
  <1>3. page' \in [Tabs -> SoundPages] /\ PQTypeOK'
    BY <1>2 DEF PQInv, PQTypeOK, RestTyped
  <1> QED
    BY <1>1, <1>3 DEF PQInv

\* Halting ends the loop, and changes the status.
LEMMA HaltStep ==
  ASSUME PQInv, NEW t \in Tabs, NEW l \in Loops, loop[t][l].pc # "off",
         Halt(t, l), UNCHANGED <<page, queue, isPolling, controller, edits>>,
         committedVersion' \in [Tabs -> Nat],
         lastEdit' \in [Tabs -> Txns \cup {NoTxn}],
         outcome' \in [Txns -> Outcomes]
  PROVE  PQInv'
PROOF
  <1>1. RestTyped'
    BY DEF PQInv, PQTypeOK, RestTyped, Halt, SetStatus
  <1>2. SetLoop(t, l, OffLoop)
    BY DEF Halt
  <1> QED
    BY <1>1, <1>2, OffLoopSound, LoopStepInv

\* A retry keeps the batch, and counts no further than MaxRetryRecovery.
LEMMA RetryLaterStep ==
  ASSUME PQInv, NEW t \in Tabs, NEW l \in Loops, loop[t][l].pc # "off",
         NEW lp \in SoundLoops, lp.batch # <<>>, lp.aborted = loop[t][l].aborted,
         RetryLater(t, l, lp),
         UNCHANGED <<page, queue, isPolling, controller, committedVersion, lastEdit,
                     outcome, edits>>
  PROVE  PQInv'
PROOF
  <1> DEFINE n == IF lp.attempts < MaxRetryRecovery THEN lp.attempts + 1 ELSE lp.attempts
             next == [lp EXCEPT !.pc = "send", !.attempts = n]
             D == [Projects -> Nat \cup {Unknown}]
             B == Seq(Commands)
             A == 0..MaxRetryRecovery
             E == 0..MaxAllowedApiErrors
             R == [pc : {"off", "poll", "batch", "send", "wait"}, aborted : BOOLEAN,
                   details : D, batch : B, attempts : A, errors : E]
  <1>1. lp \in R
    BY DEF SoundLoops, LoopStates
  <1>2. n \in A
    BY <1>1
  <1>3. next \in R /\ next.batch = lp.batch /\ next.aborted = lp.aborted
    <2> HIDE DEF n, D, B, A, E
    <2> QED
      BY <1>1, <1>2
  <1>4. next \in SoundLoops
    BY <1>3 DEF SoundLoops, LoopStates
  <1>5. SetLoop(t, l, next)
    BY DEF RetryLater
  <1>6. RestTyped'
    BY DEF PQInv, PQTypeOK, RestTyped, RetryLater, SetStatus
  <1> HIDE DEF next
  <1> QED
    BY <1>3, <1>4, <1>5, <1>6, LoopStepInv

\* Details of a project are remembered; nothing else changes.
LEMMA DetailsSound ==
  ASSUME NEW lp \in SoundLoops, NEW p \in Projects, NEW v \in Nat
  PROVE  LET next == [lp EXCEPT !.details[p] = v] IN
         /\ next \in SoundLoops
         /\ next.batch = lp.batch
         /\ next.aborted = lp.aborted
PROOF BY DEF SoundLoops, LoopStates

LEMMA PollStep ==
  ASSUME PQInv, NEW t \in Tabs, NEW l \in Loops, Poll(t, l)
  PROVE  PQInv'
PROOF
  <1>1. loop[t][l] \in SoundLoops /\ queue[t] \in Seq(Commands) /\ <<>> \in Seq(Commands)
    BY DEF PQInv, PQTypeOK
  <1>2. RestTyped'
    BY <1>1 DEF PQInv, PQTypeOK, RestTyped, Poll, SetStatus, PollStatus
  <1> QED
    BY <1>1, <1>2, TakenSound, LoopStepInv DEF Poll

LEMMA NoticeAbortStep ==
  ASSUME PQInv, NEW t \in Tabs, NEW l \in Loops, NoticeAbort(t, l)
  PROVE  PQInv'
PROOF
  <1>1. RestTyped'
    BY DEF PQInv, PQTypeOK, RestTyped, NoticeAbort
  <1> QED
    BY <1>1, OffLoopSound, LoopStepInv DEF NoticeAbort

LEMMA TakeDetailsStep ==
  ASSUME PQInv, NEW t \in Tabs, NEW l \in Loops, TakeDetails(t, l)
  PROVE  PQInv'
PROOF
  <1> DEFINE command == InHand(t, l)
             remembered == [loop[t][l] EXCEPT !.details[command.project] = command.version]
  <1>1. /\ loop[t][l] \in SoundLoops
        /\ loop[t][l].batch # <<>>
        /\ command \in Commands
        /\ command.project \in Projects
    BY InHandTyped DEF TakeDetails
  <1>2. CASE Halt(t, l)
    BY <1>2, HaltStep DEF TakeDetails, PQInv, PQTypeOK
  <1>3. CASE SetLoop(t, l, Done(remembered)) /\ UNCHANGED syncStatus
    <2>1. command.version \in Nat
      BY <1>1 DEF TakeDetails, Commands
    <2>2. /\ remembered \in SoundLoops
          /\ remembered.batch # <<>>
          /\ remembered.aborted = loop[t][l].aborted
      BY <1>1, <2>1, DetailsSound
    <2>3. RestTyped'
      BY <1>3 DEF PQInv, PQTypeOK, RestTyped, TakeDetails
    <2> HIDE DEF remembered
    <2> QED
      BY <1>3, <2>2, <2>3, DoneSound, LoopStepInv DEF TakeDetails
  <1> QED
    BY <1>2, <1>3 DEF TakeDetails

LEMMA TakeUnknownStep ==
  ASSUME PQInv, NEW t \in Tabs, NEW l \in Loops, TakeUnknown(t, l)
  PROVE  PQInv'
PROOF
  <1>1. /\ outcome' \in [Txns -> Outcomes]
        /\ lastEdit' \in [Tabs -> Txns \cup {NoTxn}]
    BY CompleteTyped DEF TakeUnknown, PQInv
  <1> QED
    BY <1>1, HaltStep DEF TakeUnknown, PQInv, PQTypeOK

\* A loop that goes on to the next stage with the command it has in hand.
LEMMA StageStep ==
  ASSUME PQInv, NEW t \in Tabs, NEW l \in Loops, NEW pc \in {"send", "wait"},
         loop[t][l].pc \in {"batch", "send"},
         SetLoop(t, l, [loop[t][l] EXCEPT !.pc = pc]),
         UNCHANGED <<page, queue, isPolling, controller, syncStatus, committedVersion,
                     lastEdit, outcome, edits>>
  PROVE  PQInv'
PROOF
  <1>1. loop[t][l] \in SoundLoops /\ loop[t][l].batch # <<>>
    BY InHandTyped
  <1>2. LET next == [loop[t][l] EXCEPT !.pc = pc] IN
        next \in SoundLoops /\ next.aborted = loop[t][l].aborted
    BY <1>1 DEF SoundLoops, LoopStates
  <1>3. RestTyped'
    BY DEF PQInv, PQTypeOK, RestTyped
  <1> QED
    BY <1>2, <1>3, LoopStepInv

LEMMA NetworkErrorStep ==
  ASSUME PQInv, NEW t \in Tabs, NEW l \in Loops, NetworkError(t, l)
  PROVE  PQInv'
PROOF
  <1>1. loop[t][l] \in SoundLoops /\ loop[t][l].batch # <<>>
    BY InHandTyped DEF NetworkError
  <1> QED
    BY <1>1, RetryLaterStep DEF NetworkError

\* Answers of the server, of which the version is a natural number.
LEMMA ReceiveOkStep ==
  ASSUME PQInv, NEW t \in Tabs, NEW l \in Loops, NEW result, result.version \in Nat,
         ReceiveOk(t, l, result)
  PROVE  PQInv'
PROOF
  <1> DEFINE command == InHand(t, l)
             remembered == [loop[t][l] EXCEPT !.details[command.project] = result.version]
  <1>1. /\ loop[t][l] \in SoundLoops
        /\ loop[t][l].batch # <<>>
        /\ command.project \in Projects
    BY InHandTyped DEF ReceiveOk
  <1>2. /\ remembered \in SoundLoops
        /\ remembered.batch # <<>>
        /\ remembered.aborted = loop[t][l].aborted
    BY <1>1, DetailsSound
  <1>3. /\ outcome' \in [Txns -> Outcomes]
        /\ lastEdit' \in [Tabs -> Txns \cup {NoTxn}]
    BY CompleteTyped DEF ReceiveOk, PQInv
  <1>4. RestTyped'
    BY <1>3 DEF PQInv, PQTypeOK, RestTyped, ReceiveOk
  <1>5. SetLoop(t, l, Done(remembered))
    BY DEF ReceiveOk
  <1> HIDE DEF remembered
  <1> QED
    BY <1>2, <1>4, <1>5, DoneSound, LoopStepInv DEF ReceiveOk

LEMMA ReceiveRefusalStep ==
  ASSUME PQInv, NEW t \in Tabs, NEW l \in Loops, NEW result,
         ReceiveRefusal(t, l, result)
  PROVE  PQInv'
PROOF
  <1>1. /\ outcome' \in [Txns -> Outcomes]
        /\ lastEdit' \in [Tabs -> Txns \cup {NoTxn}]
    BY CompleteTyped DEF ReceiveRefusal, PQInv
  <1> QED
    BY <1>1, HaltStep DEF ReceiveRefusal, PQInv, PQTypeOK

\* Counting an error the code has not given up on keeps the loop sound.
LEMMA CountedSound ==
  ASSUME NEW lp \in SoundLoops, lp.errors < MaxAllowedApiErrors
  PROVE  LET counted == [lp EXCEPT !.errors = @ + 1] IN
         /\ counted \in SoundLoops
         /\ counted.batch = lp.batch
         /\ counted.details = lp.details
         /\ counted.aborted = lp.aborted
PROOF
  <1> DEFINE e == lp.errors + 1
             counted == [lp EXCEPT !.errors = e]
             D == [Projects -> Nat \cup {Unknown}]
             B == Seq(Commands)
             A == 0..MaxRetryRecovery
             E == 0..MaxAllowedApiErrors
  <1>1. /\ lp \in [pc : {"off", "poll", "batch", "send", "wait"}, aborted : BOOLEAN,
                   details : D, batch : B, attempts : A, errors : E]
        /\ lp.pc \in {"batch", "send", "wait"} => lp.batch # <<>>
    BY DEF SoundLoops, LoopStates
  <1>2. e \in E
    BY <1>1
  <1>3. [lp EXCEPT !.errors = @ + 1] = counted
    BY <1>1
  <1> HIDE DEF D, B, A, E, e
  <1>4. /\ counted \in [pc : {"off", "poll", "batch", "send", "wait"}, aborted : BOOLEAN,
                        details : D, batch : B, attempts : A, errors : E]
        /\ counted.pc = lp.pc /\ counted.batch = lp.batch
        /\ counted.details = lp.details /\ counted.aborted = lp.aborted
    BY <1>1, <1>2
  <1> HIDE DEF counted
  <1>5. counted \in SoundLoops
    BY <1>1, <1>4 DEF SoundLoops, LoopStates, D, B, A, E
  <1> QED
    BY <1>3, <1>4, <1>5

LEMMA ReceiveErrorStep ==
  ASSUME PQInv, NEW t \in Tabs, NEW l \in Loops, NEW result,
         ReceiveError(t, l, result)
  PROVE  PQInv'
PROOF
  <1>1. loop[t][l] \in SoundLoops /\ loop[t][l].batch # <<>>
    BY InHandTyped DEF ReceiveError
  <1>2. CASE loop[t][l].errors < MaxAllowedApiErrors
    <2> DEFINE counted == [loop[t][l] EXCEPT !.errors = @ + 1]
    <2>1. /\ counted \in SoundLoops
          /\ counted.batch # <<>>
          /\ counted.aborted = loop[t][l].aborted
      BY <1>1, <1>2, CountedSound
    <2>2. RetryLater(t, l, counted) /\ UNCHANGED <<lastEdit, outcome>>
      BY <1>2 DEF ReceiveError
    <2> HIDE DEF counted
    <2> QED
      BY <2>1, <2>2, RetryLaterStep DEF ReceiveError
  <1>3. CASE ~ (loop[t][l].errors < MaxAllowedApiErrors)
    <2>1. Halt(t, l) /\ Complete(t, InHand(t, l).transactions, {})
      BY <1>3 DEF ReceiveError
    <2>2. /\ outcome' \in [Txns -> Outcomes]
          /\ lastEdit' \in [Tabs -> Txns \cup {NoTxn}]
      BY <2>1, CompleteTyped DEF PQInv
    <2> QED
      BY <2>1, <2>2, HaltStep DEF ReceiveError, PQInv, PQTypeOK
  <1> QED
    BY <1>2, <1>3

LEMMA ReceiveStep ==
  ASSUME PQInv, NEW t \in Tabs, NEW l \in Loops, NEW result, result.version \in Nat,
         Receive(t, l, result)
  PROVE  PQInv'
PROOF BY ReceiveOkStep, ReceiveRefusalStep, ReceiveErrorStep DEF Receive

\* The answers of PQNext are some of those.
LEMMA AnswersTyped ==
  ASSUME PQInv, NEW t \in Tabs, NEW l \in Loops, loop[t][l].pc = "wait",
         NEW result \in Answers(t, l)
  PROVE  result.version \in Nat
PROOF
  <1>1. loop[t][l] \in SoundLoops /\ InHand(t, l).project \in Projects
    BY InHandTyped
  <1>2. loop[t][l].details[InHand(t, l).project] \in Nat \cup {-1}
    BY <1>1 DEF SoundLoops, LoopStates, Unknown
  <1> QED
    BY <1>2 DEF Answers

-----------------------------------------------------------------------------
(* A step of a tab under any server: projects come with any version, and   *)
(* so do the answers.  The steps of PQNext are some of these, and those of *)
(* SinglePlayer, where the real server answers, are others.                *)

Moves(t) ==
  \/ Use(t)
  \/ \E v \in Nat : LoadData(t, v)
  \/ \E l \in Loops :
       \/ Step(t, l)
       \/ SendPatch(t, l)
       \/ NetworkError(t, l)
       \/ \E result : result.version \in Nat /\ Receive(t, l, result)

LEMMA NextMoves ==
  ASSUME PQInv, PQNext
  PROVE  \E t \in Tabs : Moves(t)
PROOF
  <1>1. ASSUME NEW t \in Tabs, NEW l \in Loops, Answered(t, l)
        PROVE  Moves(t)
    <2>1. PICK result \in Answers(t, l) : Receive(t, l, result)
      BY <1>1 DEF Answered
    <2> QED
      BY <1>1, <2>1, AnswersTyped DEF Answered, Moves
  <1> QED
    BY <1>1 DEF PQNext, Moves

LEMMA MovesInv ==
  ASSUME PQInv, NEW t \in Tabs, Moves(t)
  PROVE  PQInv'
PROOF
  <1>1. CASE Use(t)
    BY <1>1, OpenProjectStep, EnqueueProjectDetailsStep, SendTransactionStep,
       CloseDialogStep, UnmountStep, ReloadStep DEF Use
  <1>2. ASSUME NEW l \in Loops, Step(t, l)
        PROVE  PQInv'
    <2>1. CASE TakeTransactions(t, l)
      BY <2>1, StageStep DEF TakeTransactions
    <2> QED
      BY <1>2, <2>1, PollStep, NoticeAbortStep, TakeDetailsStep, TakeUnknownStep DEF Step
  <1>3. ASSUME NEW l \in Loops, SendPatch(t, l)
        PROVE  PQInv'
    BY <1>3, StageStep DEF SendPatch
  <1> QED
    BY <1>1, <1>2, <1>3, LoadDataStep, NetworkErrorStep, ReceiveStep DEF Moves

LEMMA PQNextInv ==
  PQInv /\ [PQNext]_pqVars => PQInv'
PROOF
  <1>1. ASSUME PQInv, UNCHANGED pqVars PROVE PQInv'
    BY <1>1, PageStep DEF PQInv, pqVars
  <1> QED
    BY <1>1, NextMoves, MovesInv

\* The loops of a tab: what they have in hand, and that a new one is started only
\* when every other has been told to stop.
THEOREM PQInvariant == PQSpec => []PQInv
PROOF
  <1> QED
    BY PQInitInv, PQNextInv, PTL DEF PQSpec

\* The state of every tab is well typed: no loop works on a command it does not
\* have, counts its retries past their limits or remembers details of nothing.
THEOREM PQTypeCorrect == PQSpec => []PQTypeOK
PROOF
  <1>1. PQInv => PQTypeOK
    BY DEF PQInv
  <1> QED
    BY <1>1, PQInvariant, PTL

\* However projects are opened and closed while loops wait for answers, a tab has
\* at most one loop that has not been told to stop, and stopPolling reaches it.
THEOREM OneLoopAtATime == PQSpec => []OneLiveLoop
PROOF
  <1>1. PQInv => OneLiveLoop
    BY DEF PQInv
  <1> QED
    BY <1>1, PQInvariant, PTL
-----------------------------------------------------------------------------
(* No transaction is answered twice.                                       *)

\* Transaction x is in a command.
InCommand(command, x) ==
  command.type = "transactions" /\ x \in ToSet(command.transactions)

\* No two commands of a list have a transaction in common.
Separate(commands) ==
  \A i, j \in DOMAIN commands : \A x \in Txns :
    i # j /\ InCommand(commands[i], x) => ~ InCommand(commands[j], x)

\* The queue q and the loops lps of a tab have x between them.
CarriedBy(q, lps, x) ==
  Carries(q, x) \/ \E l \in Loops : Carries(lps[l].batch, x)

\* What a loop sends, or waits for, are transactions.
Sends(lp) == lp.pc \in {"send", "wait"} => Head(lp.batch).type = "transactions"

\* They have each transaction once, and loops send nothing else.
Once(q, lps) ==
  /\ Separate(q)
  /\ \A l \in Loops : Separate(lps[l].batch) /\ Sends(lps[l])
  /\ \A l \in Loops, x \in Txns : Carries(lps[l].batch, x) => ~ Carries(q, x)
  /\ \A l, k \in Loops, x \in Txns :
       l # k /\ Carries(lps[l].batch, x) => ~ Carries(lps[k].batch, x)

\* The inductive invariant.
OnceInv ==
  /\ PQInv
  /\ \A t \in Tabs : Once(queue[t], loop[t])
  /\ \A t \in Tabs, x \in Txns :
       CarriedBy(queue[t], loop[t], x) => x \in ToSet(edits[t]) /\ outcome[x] = "pending"
  /\ \A t \in Tabs, x \in Txns : x \in ToSet(edits[t]) => outcome[x] # "fresh"
  /\ \A t, u \in Tabs, x \in Txns :
       x \in ToSet(edits[t]) /\ x \in ToSet(edits[u]) => t = u

-----------------------------------------------------------------------------
(* Lists of commands. *)

LEMMA CarriesCommand ==
  ASSUME NEW commands, NEW x
  PROVE  Carries(commands, x) <=> \E i \in DOMAIN commands : InCommand(commands[i], x)
PROOF BY DEF Carries, InCommand

\* A list without commands.
LEMMA EmptyCarries ==
  /\ \A x : ~ Carries(<<>>, x)
  /\ Separate(<<>>)
PROOF BY DEF Carries, Separate

\* What is in a concatenation is in one of its parts.
LEMMA ToSetConcat ==
  ASSUME NEW S, NEW a \in Seq(S), NEW b \in Seq(S)
  PROVE  ToSet(a \o b) = ToSet(a) \cup ToSet(b)
PROOF
  <1>1. \A i \in DOMAIN a : i \in DOMAIN (a \o b) /\ (a \o b)[i] = a[i]
    OBVIOUS
  <1>2. \A i \in DOMAIN b : Len(a) + i \in DOMAIN (a \o b) /\ (a \o b)[Len(a) + i] = b[i]
    OBVIOUS
  <1>3. \A i \in DOMAIN (a \o b) :
          \/ i \in DOMAIN a /\ (a \o b)[i] = a[i]
          \/ i - Len(a) \in DOMAIN b /\ (a \o b)[i] = b[i - Len(a)]
    OBVIOUS
  <1>4. ToSet(a) \subseteq ToSet(a \o b)
    BY <1>1 DEF ToSet
  <1>5. ToSet(b) \subseteq ToSet(a \o b)
    BY <1>2 DEF ToSet
  <1>6. ToSet(a \o b) \subseteq ToSet(a) \cup ToSet(b)
    BY <1>3 DEF ToSet
  <1> QED
    BY <1>4, <1>5, <1>6

\* Appending to a list adds one element.
LEMMA ToSetAppend ==
  ASSUME NEW S, NEW a \in Seq(S), NEW e \in S
  PROVE  ToSet(Append(a, e)) = ToSet(a) \cup {e}
PROOF
  <1>1. \A i \in DOMAIN a : i \in DOMAIN Append(a, e) /\ Append(a, e)[i] = a[i]
    OBVIOUS
  <1>2. Len(a) + 1 \in DOMAIN Append(a, e) /\ Append(a, e)[Len(a) + 1] = e
    OBVIOUS
  <1>3. \A i \in DOMAIN Append(a, e) : i \in DOMAIN a \/ i = Len(a) + 1
    OBVIOUS
  <1> QED
    BY <1>1, <1>2, <1>3 DEF ToSet

\* A command is merged into the tail, which then has the transactions of both, or
\* appended.
LEMMA EnqueueShape ==
  ASSUME NEW q \in Seq(Commands), NEW command \in Commands
  PROVE  LET n == Len(q)
             new == Enqueue(q, command)
         IN  \/ /\ n \in DOMAIN q /\ DOMAIN new = DOMAIN q
                /\ \A i \in DOMAIN q : i # n => new[i] = q[i]
                /\ new[n].type = "transactions" /\ q[n].type = "transactions"
                /\ new[n].project = q[n].project
                /\ command.type = "transactions" /\ command.project = q[n].project
                /\ \A x \in Txns :
                     InCommand(new[n], x) <=> InCommand(q[n], x) \/ InCommand(command, x)
             \/ /\ DOMAIN new = DOMAIN q \cup {n + 1} /\ n + 1 \notin DOMAIN q
                /\ new[n + 1] = command
                /\ \A i \in DOMAIN q : new[i] = q[i]
PROOF
  <1> DEFINE n == Len(q)
             new == Enqueue(q, command)
  <1>1. CASE /\ command.type = "transactions"
             /\ n > 0
             /\ q[n].type = "transactions"
             /\ q[n].project = command.project
    <2> DEFINE last == [q[n] EXCEPT !.transactions = @ \o command.transactions]
    <2>1. n \in DOMAIN q /\ q[n] \in Commands
      BY <1>1
    <2>2. /\ q[n] \in [type : {"transactions"}, project : Projects, transactions : Seq(Txns)]
          /\ command.transactions \in Seq(Txns)
      BY <1>1, <2>1 DEF Commands
    <2>3. /\ last.type = "transactions"
          /\ last.project = q[n].project
          /\ last.transactions = q[n].transactions \o command.transactions
      BY <2>2
    <2>4. ToSet(last.transactions) = ToSet(q[n].transactions) \cup ToSet(command.transactions)
      BY <2>2, <2>3, ToSetConcat
    <2>5. \A x \in Txns : InCommand(last, x) <=> InCommand(q[n], x) \/ InCommand(command, x)
      BY <1>1, <2>3, <2>4 DEF InCommand
    <2>6. new = [q EXCEPT ![n] = last]
      BY <1>1 DEF Enqueue
    <2> HIDE DEF last
    <2>7. DOMAIN new = DOMAIN q /\ new[n] = last /\ \A i \in DOMAIN q : i # n => new[i] = q[i]
      BY <2>1, <2>6
    <2> HIDE DEF n, new
    <2>8. new[n].type = "transactions" /\ new[n].project = q[n].project
      BY <2>3, <2>7
    <2> QED
      BY <1>1, <2>1, <2>5, <2>7, <2>8 DEF n, new
  <1>2. CASE ~ (/\ command.type = "transactions"
                /\ n > 0
                /\ q[n].type = "transactions"
                /\ q[n].project = command.project)
    <2>1. new = Append(q, command)
      BY <1>2 DEF Enqueue
    <2> QED
      BY <2>1
  <1> QED
    BY <1>1, <1>2

\* Merged into the tail or appended, a command brings its own transactions and no
\* others, and shares none when it had none of theirs.
LEMMA EnqueueCarries ==
  ASSUME NEW q \in Seq(Commands), NEW command \in Commands
  PROVE  /\ \A x \in Txns :
              Carries(Enqueue(q, command), x) <=> Carries(q, x) \/ InCommand(command, x)
         /\ Separate(q) /\ (\A x \in Txns : InCommand(command, x) => ~ Carries(q, x))
              => Separate(Enqueue(q, command))
PROOF
  <1> DEFINE n == Len(q)
             new == Enqueue(q, command)
  <1>1. \/ /\ n \in DOMAIN q /\ DOMAIN new = DOMAIN q
           /\ \A i \in DOMAIN q : i # n => new[i] = q[i]
           /\ \A x \in Txns :
                InCommand(new[n], x) <=> InCommand(q[n], x) \/ InCommand(command, x)
        \/ /\ DOMAIN new = DOMAIN q \cup {n + 1} /\ n + 1 \notin DOMAIN q
           /\ new[n + 1] = command
           /\ \A i \in DOMAIN q : new[i] = q[i]
    BY EnqueueShape
  <1> HIDE DEF n, new
  <1>2. /\ \A x \in Txns : Carries(new, x) <=> Carries(q, x) \/ InCommand(command, x)
        /\ Separate(q) /\ (\A x \in Txns : InCommand(command, x) => ~ Carries(q, x))
             => Separate(new)
    BY <1>1, CarriesCommand DEF Separate
  <1> QED
    BY <1>2 DEF new

\* What is left of a list when its first command is done.
LEMMA TailCarries ==
  ASSUME NEW b \in Seq(Commands), b # <<>>, Separate(b)
  PROVE  /\ Separate(Tail(b))
         /\ \A x \in Txns : Carries(Tail(b), x) => Carries(b, x)
         /\ \A x \in Txns : InCommand(Head(b), x) => Carries(b, x) /\ ~ Carries(Tail(b), x)
PROOF
  <1>1. \A i \in DOMAIN Tail(b) : i + 1 \in DOMAIN b /\ i + 1 # 1 /\ Tail(b)[i] = b[i + 1]
    OBVIOUS
  <1>2. 1 \in DOMAIN b /\ Head(b) = b[1]
    OBVIOUS
  <1>3. \A i, j \in DOMAIN Tail(b) : i # j => i + 1 # j + 1
    OBVIOUS
  <1> QED
    BY <1>1, <1>2, <1>3, CarriesCommand DEF Separate

-----------------------------------------------------------------------------
(* What a step of one tab has to show. *)

\* An answer is final.
Final ==
  \A x \in Txns : outcome[x] \in {"saved", "unsaved"} => outcome'[x] = outcome[x]

\* The edits of a tab are its own, so a step that only touches these leaves the
\* other tabs alone.
LEMMA TabStep ==
  ASSUME OnceInv, PQInv', NEW t \in Tabs,
         \A u \in Tabs \ {t} :
           queue'[u] = queue[u] /\ loop'[u] = loop[u] /\ edits'[u] = edits[u],
         Once(queue'[t], loop'[t]),
         \A x \in Txns : CarriedBy(queue'[t], loop'[t], x) =>
           x \in ToSet(edits'[t]) /\ outcome'[x] = "pending",
         \A x \in Txns : x \in ToSet(edits'[t]) =>
           outcome'[x] # "fresh" /\ (x \in ToSet(edits[t]) \/ outcome[x] = "fresh"),
         \A x \in Txns : outcome'[x] # outcome[x] =>
           /\ x \in ToSet(edits[t]) \/ x \in ToSet(edits'[t])
           /\ outcome[x] \in {"fresh", "pending"}
  PROVE  OnceInv' /\ Final
PROOF
  <1>1. ASSUME NEW u \in Tabs \ {t}, NEW x \in Txns, x \in ToSet(edits[u])
        PROVE  x \notin ToSet(edits[t]) /\ x \notin ToSet(edits'[t]) /\ outcome'[x] = outcome[x]
    <2>1. outcome[x] # "fresh" /\ x \notin ToSet(edits[t])
      BY <1>1 DEF OnceInv
    <2> QED
      BY <2>1
  <1>2. \A u \in Tabs : Once(queue'[u], loop'[u])
    BY DEF OnceInv
  <1>3. \A u \in Tabs, x \in Txns : CarriedBy(queue'[u], loop'[u], x) =>
          x \in ToSet(edits'[u]) /\ outcome'[x] = "pending"
    BY <1>1 DEF OnceInv
  <1>4. \A u \in Tabs, x \in Txns : x \in ToSet(edits'[u]) => outcome'[x] # "fresh"
    BY <1>1 DEF OnceInv
  <1>5. \A u, v \in Tabs, x \in Txns :
          x \in ToSet(edits'[u]) /\ x \in ToSet(edits'[v]) => u = v
    BY <1>1 DEF OnceInv
  <1>6. Final
    BY DEF Final
  <1> QED
    BY <1>2, <1>3, <1>4, <1>5, <1>6 DEF OnceInv

\* A step that leaves the commands where they are.
LEMMA StillStep ==
  ASSUME OnceInv, PQInv', UNCHANGED <<queue, outcome, edits>>,
         \A t \in Tabs, l \in Loops :
           loop'[t][l].batch = loop[t][l].batch /\ Sends(loop'[t][l])
  PROVE  OnceInv' /\ Final
PROOF
  <1>1. ASSUME NEW t \in Tabs
        PROVE  /\ Once(queue'[t], loop'[t])
               /\ \A x \in Txns : CarriedBy(queue'[t], loop'[t], x) =>
                                    CarriedBy(queue[t], loop[t], x)
    BY DEF OnceInv, Once, CarriedBy
  <1>2. Final
    BY DEF Final
  <1> QED
    BY <1>1, <1>2 DEF OnceInv

\* A step of a loop that answers what its batch has no more.
LEMMA BatchStep ==
  ASSUME OnceInv, PQInv', NEW t \in Tabs, NEW l \in Loops, NEW lp \in SoundLoops,
         SetLoop(t, l, lp), UNCHANGED <<queue, edits>>,
         Separate(lp.batch), Sends(lp),
         \A x \in Txns : Carries(lp.batch, x) =>
           Carries(loop[t][l].batch, x) /\ outcome'[x] = outcome[x],
         \A x \in Txns : outcome'[x] # outcome[x] =>
           Carries(loop[t][l].batch, x) /\ outcome'[x] # "fresh"
  PROVE  OnceInv' /\ Final
PROOF
  <1>1. /\ loop \in [Tabs -> [Loops -> SoundLoops]]
        /\ queue \in [Tabs -> Seq(Commands)]
    BY DEF OnceInv, PQInv, PQTypeOK
  <1>2. /\ loop'[t] = [loop[t] EXCEPT ![l] = lp]
        /\ \A u \in Tabs \ {t} : loop'[u] = loop[u]
    BY <1>1 DEF SetLoop
  <1>3. loop'[t][l] = lp /\ \A k \in Loops \ {l} : loop'[t][k] = loop[t][k]
    BY <1>1, <1>2
  <1>4. /\ Once(queue[t], loop[t])
        /\ \A x \in Txns : CarriedBy(queue[t], loop[t], x) =>
                             x \in ToSet(edits[t]) /\ outcome[x] = "pending"
        /\ \A x \in Txns : x \in ToSet(edits[t]) => outcome[x] # "fresh"
    BY DEF OnceInv
  <1>5. Once(queue[t], loop'[t])
    BY <1>3, <1>4 DEF Once
  <1>6. ASSUME NEW x \in Txns, CarriedBy(queue[t], loop'[t], x)
        PROVE  CarriedBy(queue[t], loop[t], x) /\ outcome'[x] = outcome[x]
    <2>1. CASE Carries(queue[t], x)
      BY <1>4, <2>1 DEF Once, CarriedBy
    <2>2. CASE Carries(lp.batch, x)
      BY <2>2 DEF CarriedBy
    <2>3. CASE \E k \in Loops \ {l} : Carries(loop[t][k].batch, x)
      BY <1>4, <2>3 DEF Once, CarriedBy
    <2> QED
      BY <1>3, <1>6, <2>1, <2>2, <2>3 DEF CarriedBy
  <1>7. \A x \in Txns : outcome'[x] # outcome[x] =>
          x \in ToSet(edits[t]) /\ outcome[x] = "pending"
    BY <1>4 DEF CarriedBy
  <1>8. \A x \in Txns : x \in ToSet(edits[t]) => outcome'[x] # "fresh"
    BY <1>4
  <1> QED
    BY <1>2, <1>4, <1>5, <1>6, <1>7, <1>8, TabStep

\* A loop that answers the command in hand, and is done with it or ends.
LEMMA CompleteStep ==
  ASSUME OnceInv, PQInv', NEW t \in Tabs, NEW l \in Loops, NEW saved, NEW lp \in SoundLoops,
         loop[t][l].pc \in {"batch", "wait"},
         InHand(t, l).type = "transactions",
         lp.batch = <<>> \/ lp.batch = Tail(loop[t][l].batch),
         lp.pc \notin {"send", "wait"},
         SetLoop(t, l, lp),
         Complete(t, InHand(t, l).transactions, saved),
         UNCHANGED <<queue, edits>>
  PROVE  OnceInv' /\ Final
PROOF
  <1> DEFINE b == loop[t][l].batch
  <1>1. b \in Seq(Commands) /\ b # <<>> /\ Separate(b)
    <2>1. PQInv /\ Once(queue[t], loop[t])
      BY DEF OnceInv
    <2>2. loop[t][l] \in SoundLoops /\ b # <<>>
      BY <2>1, InHandTyped
    <2> QED
      BY <2>1, <2>2 DEF Once, SoundLoops, LoopStates
  <1>2. /\ Separate(Tail(b))
        /\ \A x \in Txns : Carries(Tail(b), x) => Carries(b, x)
        /\ \A x \in Txns : InCommand(Head(b), x) => Carries(b, x) /\ ~ Carries(Tail(b), x)
    BY <1>1, TailCarries
  <1>3. \A x \in Txns : outcome'[x] # outcome[x] => InCommand(Head(b), x)
    BY DEF Complete, InHand, InCommand
  <1>4. \A x \in Txns : InCommand(Head(b), x) => outcome'[x] # "fresh"
    BY DEF Complete, InHand, InCommand
  <1>5. Separate(lp.batch) /\ \A x \in Txns : Carries(lp.batch, x) => Carries(Tail(b), x)
    BY <1>2, EmptyCarries
  <1>6. Sends(lp)
    BY DEF Sends
  <1> HIDE DEF b
  <1>7. \A x \in Txns : Carries(lp.batch, x) => Carries(b, x) /\ outcome'[x] = outcome[x]
    BY <1>2, <1>3, <1>5
  <1>8. \A x \in Txns : outcome'[x] # outcome[x] => Carries(b, x) /\ outcome'[x] # "fresh"
    BY <1>2, <1>3, <1>4
  <1> QED
    BY <1>5, <1>6, <1>7, <1>8, BatchStep DEF b

-----------------------------------------------------------------------------
(* One lemma per kind of action. *)

LEMMA OnceInit ==
  PQInit => OnceInv
PROOF
  <1> SUFFICES ASSUME PQInit PROVE OnceInv
    OBVIOUS
  <1>1. PQInv
    BY PQInitInv
  <1>2. OffLoop.batch = <<>> /\ Sends(OffLoop)
    BY DEF OffLoop, Sends
  <1>3. ASSUME NEW t \in Tabs
        PROVE  /\ queue[t] = <<>> /\ edits[t] = <<>>
               /\ \A l \in Loops : loop[t][l].batch = <<>> /\ Sends(loop[t][l])
    BY <1>2 DEF PQInit
  <1>4. \A t \in Tabs : Once(queue[t], loop[t])
    BY <1>3, EmptyCarries DEF Once
  <1>5. \A t \in Tabs, x \in Txns : ~ CarriedBy(queue[t], loop[t], x)
    BY <1>3, EmptyCarries DEF CarriedBy
  <1>6. \A t \in Tabs, x \in Txns : x \notin ToSet(edits[t])
    BY <1>3 DEF ToSet
  <1> QED
    BY <1>1, <1>4, <1>5, <1>6 DEF OnceInv

\* A step of one loop that leaves the commands where they are.
LEMMA StillLoop ==
  ASSUME OnceInv, PQInv', NEW t \in Tabs, NEW l \in Loops, NEW lp,
         SetLoop(t, l, lp), lp.batch = loop[t][l].batch, Sends(lp),
         UNCHANGED <<queue, outcome, edits>>
  PROVE  OnceInv' /\ Final
PROOF
  <1>1. loop \in [Tabs -> [Loops -> SoundLoops]]
    BY DEF OnceInv, PQInv
  <1>2. ASSUME NEW u \in Tabs, NEW k \in Loops
        PROVE  loop'[u][k].batch = loop[u][k].batch /\ Sends(loop'[u][k])
    <2>1. loop'[u][k] = IF u = t /\ k = l THEN lp ELSE loop[u][k]
      BY <1>1 DEF SetLoop
    <2>2. Sends(loop[u][k])
      BY DEF OnceInv, Once
    <2> QED
      BY <2>1, <2>2
  <1> QED
    BY <1>2, StillStep

\* stopPolling tells a loop to stop, and takes nothing from it.
LEMMA StopPollingOnce ==
  ASSUME OnceInv, PQInv', NEW t \in Tabs, StopPolling(t), UNCHANGED edits
  PROVE  OnceInv' /\ Final
PROOF
  <1>1. loop \in [Tabs -> [Loops -> SoundLoops]]
    BY DEF OnceInv, PQInv
  <1>2. ASSUME NEW u \in Tabs, NEW k \in Loops
        PROVE  loop'[u][k].batch = loop[u][k].batch /\ Sends(loop'[u][k])
    <2>1. \/ loop'[u][k] = loop[u][k]
          \/ loop'[u][k] = [loop[u][k] EXCEPT !.aborted = TRUE]
      BY <1>1 DEF StopPolling
    <2>2. Sends(loop[u][k]) /\ loop[u][k] \in SoundLoops
      BY <1>1 DEF OnceInv, Once
    <2>3. LET lp == [loop[u][k] EXCEPT !.aborted = TRUE] IN
          lp.batch = loop[u][k].batch /\ lp.pc = loop[u][k].pc
      BY <2>2 DEF SoundLoops, LoopStates
    <2> QED
      BY <2>1, <2>2, <2>3 DEF Sends
  <1>3. UNCHANGED <<queue, outcome>>
    BY DEF StopPolling
  <1> QED
    BY <1>2, <1>3, StillStep

\* Nothing happens to the loops and commands.
LEMMA UntouchedOnce ==
  ASSUME OnceInv, PQInv', UNCHANGED <<queue, loop, outcome, edits>>
  PROVE  OnceInv' /\ Final
PROOF BY StillStep DEF OnceInv, Once

\* A loop takes over what was queued, with a command that is no edit perhaps.
LEMMA TakeAllOnce ==
  ASSUME OnceInv, PQInv', NEW t \in Tabs, NEW l \in Loops,
         NEW lp, NEW q \in Seq(Commands),
         SetLoop(t, l, lp), lp.batch = q, Sends(lp), Separate(q),
         \A x \in Txns : Carries(q, x) => Carries(queue[t], x),
         queue' = [queue EXCEPT ![t] = <<>>],
         UNCHANGED <<outcome, edits>>
  PROVE  OnceInv' /\ Final
PROOF
  <1>1. /\ loop \in [Tabs -> [Loops -> SoundLoops]]
        /\ queue \in [Tabs -> Seq(Commands)]
    BY DEF OnceInv, PQInv, PQTypeOK
  <1>2. /\ loop'[t][l] = lp /\ \A k \in Loops \ {l} : loop'[t][k] = loop[t][k]
        /\ queue'[t] = <<>>
        /\ \A u \in Tabs \ {t} : loop'[u] = loop[u] /\ queue'[u] = queue[u]
    BY <1>1 DEF SetLoop
  <1>3. Once(queue[t], loop[t])
    BY DEF OnceInv
  <1>4. Once(queue'[t], loop'[t])
    BY <1>2, <1>3, EmptyCarries DEF Once
  <1>5. \A x \in Txns : CarriedBy(queue'[t], loop'[t], x) => CarriedBy(queue[t], loop[t], x)
    BY <1>2, EmptyCarries DEF CarriedBy
  <1>6. \A x \in Txns : CarriedBy(queue'[t], loop'[t], x) =>
          x \in ToSet(edits'[t]) /\ outcome'[x] = "pending"
    BY <1>5 DEF OnceInv
  <1>7. \A x \in Txns : x \in ToSet(edits'[t]) =>
          outcome'[x] # "fresh" /\ (x \in ToSet(edits[t]) \/ outcome[x] = "fresh")
    BY DEF OnceInv
  <1> QED
    BY <1>2, <1>4, <1>6, <1>7, TabStep

\* Commands that are queued without a loop to take them.
LEMMA QueuedOnce ==
  ASSUME OnceInv, PQInv', NEW t \in Tabs, NEW command \in Commands,
         \A x \in Txns : InCommand(command, x) =>
           outcome[x] = "fresh" /\ outcome'[x] = "pending" /\ x \in ToSet(edits'[t]),
         \A x \in Txns : ~ InCommand(command, x) => outcome'[x] = outcome[x],
         \A x \in Txns : x \in ToSet(edits'[t]) <=> x \in ToSet(edits[t]) \/ InCommand(command, x),
         \A u \in Tabs \ {t} : edits'[u] = edits[u],
         queue' = [queue EXCEPT ![t] = Enqueue(@, command)],
         UNCHANGED loop
  PROVE  OnceInv' /\ Final
PROOF
  <1>1. queue[t] \in Seq(Commands) /\ DOMAIN queue = Tabs
    BY DEF OnceInv, PQInv, PQTypeOK
  <1>2. /\ queue'[t] = Enqueue(queue[t], command)
        /\ \A u \in Tabs \ {t} : queue'[u] = queue[u]
    BY <1>1
  <1>3. /\ Once(queue[t], loop[t])
        /\ \A x \in Txns : CarriedBy(queue[t], loop[t], x) =>
                             x \in ToSet(edits[t]) /\ outcome[x] = "pending"
        /\ \A x \in Txns : x \in ToSet(edits[t]) => outcome[x] # "fresh"
    BY DEF OnceInv
  <1>4. \A x \in Txns : InCommand(command, x) => ~ CarriedBy(queue[t], loop[t], x)
    BY <1>3
  <1>5. /\ Separate(Enqueue(queue[t], command))
        /\ \A x \in Txns : Carries(Enqueue(queue[t], command), x) <=>
                             Carries(queue[t], x) \/ InCommand(command, x)
    <2>1. \A x \in Txns : InCommand(command, x) => ~ Carries(queue[t], x)
      BY <1>4 DEF CarriedBy
    <2>2. Separate(queue[t])
      BY <1>3 DEF Once
    <2> QED
      BY <1>1, <2>1, <2>2, EnqueueCarries
  <1>6. Once(queue'[t], loop'[t])
    BY <1>2, <1>3, <1>4, <1>5 DEF Once, CarriedBy
  <1>7. \A x \in Txns : CarriedBy(queue'[t], loop'[t], x) =>
          x \in ToSet(edits'[t]) /\ outcome'[x] = "pending"
    <2> SUFFICES ASSUME NEW x \in Txns, CarriedBy(queue'[t], loop'[t], x)
                 PROVE  x \in ToSet(edits'[t]) /\ outcome'[x] = "pending"
      OBVIOUS
    <2>1. CarriedBy(queue[t], loop[t], x) \/ InCommand(command, x)
      BY <1>2, <1>5 DEF CarriedBy
    <2> QED
      BY <1>3, <1>4, <2>1
  <1>8. \A x \in Txns : x \in ToSet(edits'[t]) =>
          outcome'[x] # "fresh" /\ (x \in ToSet(edits[t]) \/ outcome[x] = "fresh")
    BY <1>3
  <1>9. \A x \in Txns : outcome'[x] # outcome[x] =>
          (x \in ToSet(edits[t]) \/ x \in ToSet(edits'[t])) /\ outcome[x] \in {"fresh", "pending"}
    OBVIOUS
  <1> QED
    BY <1>2, <1>6, <1>7, <1>8, <1>9, TabStep

LEMMA EnqueueProjectDetailsOnce ==
  ASSUME OnceInv, PQInv', NEW t \in Tabs, EnqueueProjectDetails(t)
  PROVE  OnceInv' /\ Final
PROOF
  <1> DEFINE command == SetDetails(page[t].project, page[t].version)
             commands == Enqueue(queue[t], command)
  <1>1. command \in Commands /\ \A x \in Txns : ~ InCommand(command, x)
    <2>1. page[t].project \in Projects /\ page[t].version \in Nat
      BY DEF OnceInv, PQInv, EnqueueProjectDetails, SoundPages, Pages
    <2> QED
      BY <2>1, CommandsTyped DEF InCommand, SetDetails
  <1>2. UNCHANGED <<outcome, edits>>
    BY DEF EnqueueProjectDetails
  <1>3. queue[t] \in Seq(Commands) /\ Separate(queue[t]) /\ DOMAIN queue = Tabs
    BY DEF OnceInv, Once, PQInv, PQTypeOK
  <1>4. /\ commands \in Seq(Commands) /\ Separate(commands)
        /\ \A x \in Txns : Carries(commands, x) => Carries(queue[t], x)
    BY <1>1, <1>3, EnqueueTyped, EnqueueCarries
  <1>5. CASE queue' = [queue EXCEPT ![t] = commands] /\ UNCHANGED loop
    BY <1>1, <1>2, <1>5, QueuedOnce
  <1>6. ASSUME NEW l \in Loops, SetLoop(t, l, Taken(OffLoop, commands)),
               queue' = [queue EXCEPT ![t] = <<>>]
        PROVE  OnceInv' /\ Final
    <2>1. Taken(OffLoop, commands).batch = commands /\ Sends(Taken(OffLoop, commands))
      BY DEF Taken, OffLoop, Sends
    <2> HIDE DEF commands
    <2> QED
      BY <1>2, <1>4, <1>6, <2>1, TakeAllOnce
  <1> QED
    BY <1>5, <1>6 DEF EnqueueProjectDetails

LEMMA SendTransactionOnce ==
  ASSUME OnceInv, PQInv', NEW t \in Tabs, NEW x \in Txns, SendTransaction(t, x)
  PROVE  OnceInv' /\ Final
PROOF
  <1> DEFINE command == Transactions(page[t].project, <<x>>)
  <1>1. command \in Commands /\ \A y \in Txns : InCommand(command, y) <=> y = x
    <2>1. page[t].project \in Projects
      BY DEF OnceInv, PQInv, SendTransaction, SoundPages, Pages
    <2>2. ToSet(<<x>>) = {x}
      BY DEF ToSet
    <2> QED
      BY <2>1, <2>2, CommandsTyped DEF InCommand, Transactions
  <1>2. /\ edits'[t] = Append(edits[t], x) /\ edits[t] \in Seq(Txns)
        /\ \A u \in Tabs \ {t} : edits'[u] = edits[u]
        /\ outcome[x] = "fresh" /\ outcome'[x] = "pending"
        /\ \A y \in Txns \ {x} : outcome'[y] = outcome[y]
    BY DEF SendTransaction, OnceInv, PQInv, PQTypeOK
  <1>3. ToSet(edits'[t]) = ToSet(edits[t]) \cup {x}
    BY <1>2, ToSetAppend
  <1>4. queue' = [queue EXCEPT ![t] = Enqueue(@, command)] /\ UNCHANGED loop
    BY DEF SendTransaction
  <1> HIDE DEF command
  <1>5. \A y \in Txns : InCommand(command, y) =>
          outcome[y] = "fresh" /\ outcome'[y] = "pending" /\ y \in ToSet(edits'[t])
    BY <1>1, <1>2, <1>3
  <1>6. \A y \in Txns : ~ InCommand(command, y) => outcome'[y] = outcome[y]
    BY <1>1, <1>2
  <1>7. \A y \in Txns : y \in ToSet(edits'[t]) <=> y \in ToSet(edits[t]) \/ InCommand(command, y)
    BY <1>1, <1>3
  <1> QED
    BY <1>1, <1>2, <1>4, <1>5, <1>6, <1>7, QueuedOnce

LEMMA ReloadOnce ==
  ASSUME OnceInv, PQInv', NEW t \in Tabs, Reload(t)
  PROVE  OnceInv' /\ Final
PROOF
  <1>1. /\ queue'[t] = <<>> /\ edits'[t] = <<>>
        /\ \A l \in Loops : loop'[t][l] = OffLoop
        /\ \A u \in Tabs \ {t} :
             queue'[u] = queue[u] /\ loop'[u] = loop[u] /\ edits'[u] = edits[u]
    BY DEF Reload, OnceInv, PQInv, PQTypeOK
  <1>2. OffLoop.batch = <<>> /\ Sends(OffLoop)
    BY DEF OffLoop, Sends
  <1>3. Once(queue'[t], loop'[t]) /\ \A x \in Txns : ~ CarriedBy(queue'[t], loop'[t], x)
    BY <1>1, <1>2, EmptyCarries DEF Once, CarriedBy
  <1>4. \A x \in Txns : x \notin ToSet(edits'[t])
    BY <1>1 DEF ToSet
  <1>5. \A x \in Txns : outcome'[x] # outcome[x] =>
          x \in ToSet(edits[t]) /\ outcome[x] = "pending"
    BY DEF Reload
  <1> QED
    BY <1>1, <1>3, <1>4, <1>5, TabStep

LEMMA StepOnce ==
  ASSUME OnceInv, PQInv', NEW t \in Tabs, NEW l \in Loops, Step(t, l)
  PROVE  OnceInv' /\ Final
PROOF
  <1>1. /\ PQInv /\ loop[t][l] \in SoundLoops
        /\ queue[t] \in Seq(Commands)
        /\ Separate(queue[t]) /\ Separate(loop[t][l].batch)
    BY DEF OnceInv, Once, PQInv, PQTypeOK
  <1>2. OffLoop \in SoundLoops /\ OffLoop.batch = <<>> /\ OffLoop.pc = "off"
    BY OffLoopSound DEF OffLoop
  <1>3. CASE Poll(t, l)
    <2>1. Taken(loop[t][l], queue[t]).batch = queue[t] /\ Sends(Taken(loop[t][l], queue[t]))
      BY <1>1 DEF Taken, Sends, SoundLoops, LoopStates
    <2> QED
      BY <1>1, <1>3, <2>1, TakeAllOnce DEF Poll
  <1>4. CASE NoticeAbort(t, l)
    BY <1>2, <1>4, EmptyCarries, BatchStep DEF NoticeAbort, Sends
  <1>5. CASE TakeDetails(t, l)
    <2>1. /\ loop[t][l].batch # <<>> /\ loop[t][l].batch \in Seq(Commands)
          /\ InHand(t, l) \in Commands /\ InHand(t, l).type = "setDetails"
          /\ InHand(t, l).project \in Projects
      BY <1>1, <1>5, InHandTyped DEF TakeDetails, SoundLoops, LoopStates
    <2>2. CASE Halt(t, l)
      BY <1>2, <1>5, <2>2, EmptyCarries, BatchStep DEF Halt, TakeDetails, Sends
    <2>3. CASE ~ Halt(t, l)
      <3> DEFINE lp == [loop[t][l] EXCEPT !.details[InHand(t, l).project] = InHand(t, l).version]
      <3>1. SetLoop(t, l, Done(lp)) /\ UNCHANGED <<queue, edits, outcome>>
        BY <1>5, <2>3 DEF TakeDetails
      <3>2. lp \in SoundLoops /\ lp.batch = loop[t][l].batch
        <4>1. InHand(t, l).version \in Nat
          BY <2>1 DEF Commands
        <4> QED
          BY <1>1, <2>1, <4>1, DetailsSound
      <3> HIDE DEF lp
      <3>3. Done(lp) \in SoundLoops /\ Done(lp).batch = Tail(loop[t][l].batch) /\ Sends(Done(lp))
        BY <2>1, <3>2, DoneSound, Zenon DEF Done, Sends, SoundLoops, LoopStates
      <3>4. /\ Separate(Done(lp).batch)
            /\ \A x \in Txns : Carries(Done(lp).batch, x) => Carries(loop[t][l].batch, x)
        BY <1>1, <2>1, <3>3, TailCarries
      <3> QED
        BY <3>1, <3>3, <3>4, BatchStep
    <2> QED
      BY <2>2, <2>3
  <1>6. CASE TakeUnknown(t, l)
    BY <1>2, <1>6, CompleteStep DEF TakeUnknown, Halt
  <1>7. CASE TakeTransactions(t, l)
    <2> DEFINE lp == [loop[t][l] EXCEPT !.pc = "send"]
    <2>1. lp.batch = loop[t][l].batch /\ Sends(lp)
      BY <1>1, <1>7 DEF TakeTransactions, InHand, Sends, SoundLoops, LoopStates
    <2> QED
      BY <1>7, <2>1, StillLoop DEF TakeTransactions
  <1> QED
    BY <1>3, <1>4, <1>5, <1>6, <1>7 DEF Step

LEMMA SendPatchOnce ==
  ASSUME OnceInv, PQInv', NEW t \in Tabs, NEW l \in Loops, SendPatch(t, l)
  PROVE  OnceInv' /\ Final
PROOF
  <1> DEFINE lp == [loop[t][l] EXCEPT !.pc = "wait"]
  <1>1. loop[t][l] \in SoundLoops /\ Sends(loop[t][l])
    BY DEF OnceInv, Once, PQInv
  <1>2. lp.batch = loop[t][l].batch /\ Sends(lp)
    BY <1>1 DEF SendPatch, Sends, SoundLoops, LoopStates
  <1> QED
    BY <1>2, StillLoop DEF SendPatch

\* A retry keeps the command in hand.
LEMMA RetryOnce ==
  ASSUME OnceInv, PQInv', NEW t \in Tabs, NEW l \in Loops, loop[t][l].pc = "wait",
         NEW lp \in SoundLoops, lp.batch = loop[t][l].batch,
         RetryLater(t, l, lp), UNCHANGED <<queue, outcome, edits>>
  PROVE  OnceInv' /\ Final
PROOF
  <1> DEFINE n == IF lp.attempts < MaxRetryRecovery THEN lp.attempts + 1 ELSE lp.attempts
             next == [lp EXCEPT !.pc = "send", !.attempts = n]
  <1>1. next.batch = loop[t][l].batch /\ next.pc = "send"
    BY DEF SoundLoops, LoopStates
  <1>2. Sends(loop[t][l])
    BY DEF OnceInv, Once
  <1>3. Sends(next)
    BY <1>1, <1>2 DEF Sends
  <1>4. SetLoop(t, l, next)
    BY DEF RetryLater, SoundLoops, LoopStates
  <1> QED
    BY <1>1, <1>3, <1>4, StillLoop

LEMMA AnsweredOnceStep ==
  ASSUME OnceInv, PQInv', NEW t \in Tabs, NEW l \in Loops,
         NetworkError(t, l) \/ \E result : result.version \in Nat /\ Receive(t, l, result)
  PROVE  OnceInv' /\ Final
PROOF
  <1>0. loop[t][l].pc = "wait"
    BY DEF NetworkError, Receive, ReceiveOk, ReceiveRefusal, ReceiveError
  <1>1. /\ PQInv /\ loop[t][l] \in SoundLoops /\ loop[t][l].pc = "wait"
        /\ Sends(loop[t][l])
    BY <1>0 DEF OnceInv, Once, PQInv
  <1>2. /\ loop[t][l].batch # <<>> /\ loop[t][l].batch \in Seq(Commands)
        /\ InHand(t, l) \in Commands
        /\ InHand(t, l).project \in Projects
        /\ InHand(t, l).type = "transactions"
    BY <1>1, InHandTyped DEF SoundLoops, LoopStates, Sends, InHand
  <1>3. OffLoop \in SoundLoops /\ OffLoop.batch = <<>> /\ OffLoop.pc = "off"
    BY OffLoopSound DEF OffLoop
  <1>4. CASE NetworkError(t, l)
    BY <1>1, <1>4, RetryOnce DEF NetworkError
  <1>5. ASSUME NEW result, Receive(t, l, result), result.version \in Nat
        PROVE  OnceInv' /\ Final
    <2>1. CASE ReceiveOk(t, l, result)
      <3> DEFINE lp == [loop[t][l] EXCEPT !.details[InHand(t, l).project] = result.version]
      <3>2. lp \in SoundLoops /\ lp.batch = loop[t][l].batch
        BY <1>1, <1>2, <1>5, DetailsSound
      <3>3. SetLoop(t, l, Done(lp)) /\ UNCHANGED <<queue, edits>>
            /\ Complete(t, InHand(t, l).transactions, ToSet(InHand(t, l).transactions))
        BY <2>1 DEF ReceiveOk
      <3> HIDE DEF lp
      <3>4. /\ Done(lp) \in SoundLoops
            /\ Done(lp).batch = Tail(loop[t][l].batch)
            /\ Done(lp).pc \notin {"send", "wait"}
        BY <1>2, <3>2, DoneSound, Zenon DEF Done, SoundLoops, LoopStates
      <3> QED
        BY <1>1, <1>2, <3>3, <3>4, CompleteStep
    <2>2. CASE ReceiveRefusal(t, l, result)
      <3>1. PICK accepted : Complete(t, InHand(t, l).transactions, accepted)
        BY <2>2 DEF ReceiveRefusal
      <3> QED
        BY <1>1, <1>2, <1>3, <2>2, <3>1, CompleteStep DEF ReceiveRefusal, Halt
    <2>3. CASE ReceiveError(t, l, result)
      <3>1. CASE loop[t][l].errors < MaxAllowedApiErrors
        <4> DEFINE counted == [loop[t][l] EXCEPT !.errors = @ + 1]
        <4>1. counted \in SoundLoops /\ counted.batch = loop[t][l].batch
          BY <1>1, <3>1, CountedSound
        <4>2. RetryLater(t, l, counted) /\ UNCHANGED <<queue, outcome, edits>>
          BY <2>3, <3>1 DEF ReceiveError
        <4> HIDE DEF counted
        <4> QED
          BY <1>1, <4>1, <4>2, RetryOnce
      <3>2. CASE ~ (loop[t][l].errors < MaxAllowedApiErrors)
        BY <1>1, <1>2, <1>3, <2>3, <3>2, CompleteStep DEF ReceiveError, Halt
      <3> QED
        BY <3>1, <3>2
    <2> QED
      BY <1>5, <2>1, <2>2, <2>3 DEF Receive
  <1> QED
    BY <1>4, <1>5

-----------------------------------------------------------------------------

LEMMA MovesOnce ==
  ASSUME OnceInv, NEW t \in Tabs, Moves(t)
  PROVE  OnceInv' /\ Final
PROOF
  <1>1. PQInv'
    BY MovesInv DEF OnceInv
  <1>2. CASE Use(t)
    <2>1. CASE \E p \in Projects : OpenProject(t, p)
      BY <1>1, <2>1, StopPollingOnce, UntouchedOnce DEF OpenProject, queueVars
    <2>2. CASE CloseDialog(t)
      BY <1>1, <2>2, StopPollingOnce DEF CloseDialog
    <2>3. CASE Unmount(t)
      BY <1>1, <2>3, UntouchedOnce DEF Unmount, queueVars
    <2> QED
      BY <1>1, <1>2, <2>1, <2>2, <2>3, EnqueueProjectDetailsOnce, SendTransactionOnce,
         ReloadOnce DEF Use
  <1>3. ASSUME NEW v \in Nat, LoadData(t, v)
        PROVE  OnceInv' /\ Final
    BY <1>1, <1>3, UntouchedOnce DEF LoadData, queueVars
  <1> QED
    BY <1>1, <1>2, <1>3, StepOnce, SendPatchOnce, AnsweredOnceStep DEF Moves

LEMMA OnceNext ==
  OnceInv /\ [PQNext]_pqVars => OnceInv' /\ (Final \/ UNCHANGED pqVars)
PROOF
  <1>1. ASSUME OnceInv, UNCHANGED pqVars
        PROVE  OnceInv'
    <2>1. PQInv'
      BY <1>1, PQNextInv DEF OnceInv
    <2> QED
      BY <1>1, <2>1, UntouchedOnce DEF pqVars, queueVars
  <1>2. ASSUME OnceInv, PQNext
        PROVE  OnceInv' /\ Final
    BY <1>2, NextMoves, MovesOnce DEF OnceInv
  <1> QED
    BY <1>1, <1>2

\* A transaction in the queue or with a loop is there once and unanswered, and a
\* loop that sends or waits has transactions in hand.
THEOREM OnceInvariant == PQSpec => []OnceInv
PROOF
  <1>1. PQInit => OnceInv
    BY OnceInit
  <1>2. OnceInv /\ [PQNext]_pqVars => OnceInv'
    BY OnceNext
  <1> QED
    BY <1>1, <1>2, PTL DEF PQSpec

\* An answer is final: aborted loops that still wait, loops that took over the
\* queue, retries and reloads never answer a transaction again.
THEOREM AnswersAreFinal == PQSpec => AnsweredOnce
PROOF
  <1>1. OnceInv /\ [PQNext]_pqVars =>
          [\A x \in Txns : outcome[x] \in {"saved", "unsaved"} => outcome'[x] = outcome[x]]_pqVars
    BY OnceNext DEF Final
  <1> QED
    BY <1>1, OnceInvariant, PTL DEF PQSpec, AnsweredOnce

\* However many loops a tab has left behind, each edit is with one of them or queued.
THEOREM OneLoopSends == PQSpec => []SentByOneLoop
PROOF
  <1>1. OnceInv => SentByOneLoop
    BY DEF OnceInv, Once, SentByOneLoop
  <1> QED
    BY <1>1, OnceInvariant, PTL
-----------------------------------------------------------------------------
(* What has been asked of the server is asked again as it was.             *)

\* x is nowhere but in the hands of loops that send it.
InHandOnly(x) ==
  /\ outcome[x] # "fresh"
  /\ \A t \in Tabs : ~ Carries(queue[t], x)
  /\ \A t \in Tabs, l \in Loops : Carries(loop[t][l].batch, x) =>
       loop[t][l].pc \in {"send", "wait"} /\ InCommand(InHand(t, l), x)

\* A step leaves it there, with the details it was sent with, or takes it away.
StaysInHand(t, l, x) ==
  Carries(loop'[t][l].batch, x) =>
    /\ Carries(loop[t][l].batch, x)
    /\ loop'[t][l].batch = loop[t][l].batch
    /\ loop'[t][l].details = loop[t][l].details
    /\ loop'[t][l].pc \in {"send", "wait"}

LEMMA HandStep ==
  ASSUME NEW x \in Txns, InHandOnly(x), NEW t \in Tabs,
         \A u \in Tabs \ {t} : queue'[u] = queue[u] /\ loop'[u] = loop[u],
         outcome'[x] # "fresh",
         ~ Carries(queue'[t], x),
         \A l \in Loops : StaysInHand(t, l, x)
  PROVE  InHandOnly(x)' /\ \A u \in Tabs, l \in Loops : StaysInHand(u, l, x)
PROOF
  <1>1. \A u \in Tabs, l \in Loops : StaysInHand(u, l, x)
    BY DEF InHandOnly, StaysInHand
  <1>2. \A u \in Tabs : ~ Carries(queue'[u], x)
    BY DEF InHandOnly
  <1>3. \A u \in Tabs, l \in Loops : Carries(loop'[u][l].batch, x) =>
          loop'[u][l].pc \in {"send", "wait"} /\ InCommand(InHand(u, l)', x)
    BY <1>1 DEF InHandOnly, StaysInHand, InHand
  <1> QED
    BY <1>1, <1>2, <1>3 DEF InHandOnly

\* A step of a loop that keeps the batch, or has one without x.
LEMMA HandLoopStep ==
  ASSUME PQInv, NEW x \in Txns, InHandOnly(x), NEW t \in Tabs, NEW l \in Loops, NEW lp,
         SetLoop(t, l, lp),
         \/ /\ lp.batch = loop[t][l].batch /\ lp.details = loop[t][l].details
            /\ lp.pc \in {"send", "wait"}
         \/ ~ Carries(lp.batch, x),
         outcome'[x] # "fresh",
         ~ Carries(queue'[t], x),
         \A u \in Tabs \ {t} : queue'[u] = queue[u]
  PROVE  InHandOnly(x)' /\ \A u \in Tabs, k \in Loops : StaysInHand(u, k, x)
PROOF
  <1>1. loop \in [Tabs -> [Loops -> SoundLoops]]
    BY DEF PQInv
  <1>2. /\ loop'[t][l] = lp
        /\ \A k \in Loops \ {l} : loop'[t][k] = loop[t][k]
        /\ \A u \in Tabs \ {t} : loop'[u] = loop[u]
    BY <1>1 DEF SetLoop
  <1>3. \A k \in Loops : StaysInHand(t, k, x)
    BY <1>2 DEF InHandOnly, StaysInHand
  <1> QED
    BY <1>2, <1>3, HandStep

\* A step that leaves queues, batches and details alone.
LEMMA HandStillStep ==
  ASSUME PQInv, NEW x \in Txns, InHandOnly(x), UNCHANGED <<queue, outcome>>,
         \A t \in Tabs, l \in Loops : /\ loop'[t][l].batch = loop[t][l].batch
                                      /\ loop'[t][l].details = loop[t][l].details
                                      /\ loop'[t][l].pc = loop[t][l].pc
  PROVE  InHandOnly(x)' /\ \A t \in Tabs, l \in Loops : StaysInHand(t, l, x)
PROOF
  <1>1. \A t \in Tabs, l \in Loops : StaysInHand(t, l, x)
    BY DEF InHandOnly, StaysInHand
  <1>2. \A t \in Tabs, l \in Loops : InHand(t, l)' = InHand(t, l)
    BY DEF InHand
  <1> QED
    BY <1>1, <1>2 DEF InHandOnly

\* Edits are added when they are made, and go with the page.
LEMMA EditsMove ==
  ASSUME NEW t \in Tabs, Moves(t)
  PROVE  \/ edits' = edits
         \/ edits' = [edits EXCEPT ![t] = <<>>]
         \/ \E x \in Txns : outcome[x] = "fresh" /\ edits' = [edits EXCEPT ![t] = Append(@, x)]
PROOF
  <1>1. CASE Use(t)
    BY <1>1 DEF Use, OpenProject, EnqueueProjectDetails, SendTransaction, CloseDialog, Unmount, Reload
  <1>2. CASE \E v \in Nat : LoadData(t, v)
    BY <1>2 DEF LoadData
  <1>3. ASSUME NEW l \in Loops, Step(t, l) \/ SendPatch(t, l) \/ NetworkError(t, l)
        PROVE  edits' = edits
    BY <1>3 DEF Step, Poll, NoticeAbort, TakeDetails, TakeUnknown, TakeTransactions, SendPatch, NetworkError
  <1>4. ASSUME NEW l \in Loops, NEW result, Receive(t, l, result)
        PROVE  edits' = edits
    BY <1>4 DEF Receive, ReceiveOk, ReceiveRefusal, ReceiveError
  <1> QED
    BY <1>1, <1>2, <1>3, <1>4 DEF Moves

\* What is in the edits after a step was there before, or is new; what was there
\* stays, unless all goes.
LEMMA EditsKeep ==
  ASSUME PQTypeOK, NEW u \in Tabs, Moves(u), NEW t \in Tabs
  PROVE  \/ ToSet(edits'[t]) = {}
         \/ /\ ToSet(edits[t]) \subseteq ToSet(edits'[t])
            /\ \A x \in ToSet(edits'[t]) : x \in ToSet(edits[t]) \/ outcome[x] = "fresh"
PROOF
  <1>1. edits \in [Tabs -> Seq(Txns)] /\ edits[t] \in Seq(Txns)
    BY DEF PQTypeOK
  <1>2. CASE edits'[t] = edits[t]
    BY <1>2
  <1>3. CASE edits'[t] = <<>>
    BY <1>3 DEF ToSet
  <1>4. ASSUME NEW x \in Txns, outcome[x] = "fresh", edits'[t] = Append(edits[t], x)
        PROVE  /\ ToSet(edits[t]) \subseteq ToSet(edits'[t])
               /\ \A y \in ToSet(edits'[t]) : y \in ToSet(edits[t]) \/ outcome[y] = "fresh"
    <2> DEFINE es == edits[t]
               new == Append(es, x)
    <2>1. /\ \A i \in DOMAIN es : i \in DOMAIN new /\ new[i] = es[i]
          /\ \A i \in DOMAIN new : i \in DOMAIN es \/ new[i] = x
      BY <1>1
    <2>2. edits'[t] = new
      BY <1>4
    <2> HIDE DEF new, es
    <2>3. ToSet(es) \subseteq ToSet(new) /\ \A y \in ToSet(new) : y \in ToSet(es) \/ y = x
      BY <2>1 DEF ToSet
    <2> QED
      BY <1>4, <2>2, <2>3 DEF es
  <1> QED
    BY <1>1, <1>2, <1>3, <1>4, EditsMove

\* A transaction that was made stays made.
LEMMA MadeStays ==
  ASSUME NEW t \in Tabs, Moves(t), NEW x \in Txns, outcome[x] # "fresh"
  PROVE  outcome'[x] # "fresh"
PROOF
  <1>1. ASSUME NEW ts, NEW saved, Complete(t, ts, saved)
        PROVE  outcome'[x] # "fresh"
    BY <1>1 DEF Complete
  <1>2. CASE Use(t)
    <2>1. ASSUME NEW y \in Txns, SendTransaction(t, y)
          PROVE  outcome'[x] # "fresh"
      BY <2>1 DEF SendTransaction
    <2>2. CASE Reload(t)
      BY <2>2 DEF Reload
    <2>3. CASE UNCHANGED outcome
      BY <2>3
    <2> QED
      BY <1>2, <2>1, <2>2, <2>3 DEF Use, OpenProject, EnqueueProjectDetails, CloseDialog, Unmount,
         StopPolling, queueVars
  <1>3. ASSUME NEW l \in Loops, Step(t, l) \/ SendPatch(t, l) \/ NetworkError(t, l)
        PROVE  outcome'[x] # "fresh"
    BY <1>1, <1>3 DEF Step, Poll, NoticeAbort, TakeDetails, TakeUnknown, TakeTransactions,
       SendPatch, NetworkError
  <1>4. ASSUME NEW l \in Loops, NEW result, Receive(t, l, result)
        PROVE  outcome'[x] # "fresh"
    BY <1>1, <1>4 DEF Receive, ReceiveOk, ReceiveRefusal, ReceiveError
  <1>5. ASSUME NEW v \in Nat, LoadData(t, v)
        PROVE  outcome'[x] # "fresh"
    BY <1>5 DEF LoadData, queueVars
  <1> QED
    BY <1>2, <1>3, <1>4, <1>5 DEF Moves

\* StopPolling tells a loop to stop, and nothing else.
LEMMA StopPollingHand ==
  ASSUME PQInv, NEW x \in Txns, InHandOnly(x), NEW t \in Tabs, StopPolling(t)
  PROVE  InHandOnly(x)' /\ \A u \in Tabs, l \in Loops : StaysInHand(u, l, x)
PROOF
  <1>1. loop \in [Tabs -> [Loops -> SoundLoops]]
    BY DEF PQInv
  <1>2. ASSUME NEW u \in Tabs, NEW l \in Loops
        PROVE  /\ loop'[u][l].batch = loop[u][l].batch
               /\ loop'[u][l].details = loop[u][l].details
               /\ loop'[u][l].pc = loop[u][l].pc
    <2>1. loop[u][l] \in SoundLoops
      BY <1>1
    <2>2. loop'[u][l] \in {loop[u][l], [loop[u][l] EXCEPT !.aborted = TRUE]}
      BY <1>1 DEF StopPolling
    <2> QED
      BY <2>1, <2>2 DEF SoundLoops, LoopStates
  <1> QED
    BY <1>2, HandStillStep DEF StopPolling

LEMMA UseHand ==
  ASSUME OnceInv, NEW x \in Txns, InHandOnly(x), NEW t \in Tabs, Use(t)
  PROVE  InHandOnly(x)' /\ \A u \in Tabs, l \in Loops : StaysInHand(u, l, x)
PROOF
  <1>1. PQInv /\ queue \in [Tabs -> Seq(Commands)] /\ ~ Carries(queue[t], x)
    BY DEF OnceInv, PQInv, PQTypeOK, InHandOnly
  <1>2. outcome'[x] # "fresh"
    BY MadeStays DEF Moves, InHandOnly
  <1>3. CASE UNCHANGED queueVars
    BY <1>1, <1>3, HandStillStep DEF queueVars
  <1>4. CASE StopPolling(t)
    BY <1>1, <1>4, StopPollingHand
  <1>5. CASE EnqueueProjectDetails(t)
    <2> DEFINE command == SetDetails(page[t].project, page[t].version)
               commands == Enqueue(queue[t], command)
    <2>1. command \in Commands /\ ~ InCommand(command, x)
      <3>1. page[t].project \in Projects /\ page[t].version \in Nat
        BY <1>1, <1>5 DEF PQInv, EnqueueProjectDetails, SoundPages, Pages
      <3> QED
        BY <3>1, CommandsTyped DEF InCommand, SetDetails
    <2>2. ~ Carries(commands, x)
      BY <1>1, <2>1, EnqueueCarries
    <2>3. CASE queue' = [queue EXCEPT ![t] = commands] /\ UNCHANGED loop
      <3>1. ~ Carries(queue'[t], x) /\ \A u \in Tabs \ {t} : queue'[u] = queue[u]
        BY <1>1, <2>2, <2>3
      <3>2. \A l \in Loops : StaysInHand(t, l, x)
        BY <2>3 DEF InHandOnly, StaysInHand
      <3> QED
        BY <1>2, <2>3, <3>1, <3>2, HandStep
    <2>4. ASSUME NEW l \in Loops, SetLoop(t, l, Taken(OffLoop, commands)),
                 queue' = [queue EXCEPT ![t] = <<>>]
          PROVE  InHandOnly(x)' /\ \A u \in Tabs, k \in Loops : StaysInHand(u, k, x)
      <3>1. ~ Carries(Taken(OffLoop, commands).batch, x)
        BY <2>2 DEF Taken, OffLoop
      <3>2. ~ Carries(queue'[t], x) /\ \A u \in Tabs \ {t} : queue'[u] = queue[u]
        BY <1>1, <2>4, EmptyCarries
      <3> HIDE DEF commands
      <3> QED
        BY <1>1, <1>2, <2>4, <3>1, <3>2, HandLoopStep
    <2> QED
      BY <1>5, <2>3, <2>4 DEF EnqueueProjectDetails
  <1>6. ASSUME NEW y \in Txns, SendTransaction(t, y)
        PROVE  InHandOnly(x)' /\ \A u \in Tabs, l \in Loops : StaysInHand(u, l, x)
    <2> DEFINE command == Transactions(page[t].project, <<y>>)
    <2>1. command \in Commands /\ ~ InCommand(command, x)
      <3>1. page[t].project \in Projects
        BY <1>1, <1>6 DEF PQInv, SendTransaction, SoundPages, Pages
      <3>2. ToSet(<<y>>) = {y}
        BY DEF ToSet
      <3>3. x # y
        BY <1>6 DEF SendTransaction, InHandOnly
      <3> QED
        BY <3>1, <3>2, <3>3, CommandsTyped DEF InCommand, Transactions
    <2>2. queue' = [queue EXCEPT ![t] = Enqueue(@, command)] /\ UNCHANGED loop
      BY <1>6 DEF SendTransaction
    <2> HIDE DEF command
    <2>3. ~ Carries(queue'[t], x) /\ \A u \in Tabs \ {t} : queue'[u] = queue[u]
      BY <1>1, <2>1, <2>2, EnqueueCarries
    <2>4. \A l \in Loops : StaysInHand(t, l, x)
      BY <2>2 DEF InHandOnly, StaysInHand
    <2> QED
      BY <1>2, <2>2, <2>3, <2>4, HandStep
  <1>7. CASE Reload(t)
    <2>1. /\ queue'[t] = <<>>
          /\ \A l \in Loops : loop'[t][l] = OffLoop
          /\ \A u \in Tabs \ {t} : queue'[u] = queue[u] /\ loop'[u] = loop[u]
      BY <1>1, <1>7 DEF Reload, PQInv
    <2>2. \A l \in Loops : StaysInHand(t, l, x)
      BY <2>1, EmptyCarries DEF StaysInHand, OffLoop
    <2> QED
      BY <1>2, <2>1, <2>2, EmptyCarries, HandStep
  <1> QED
    BY <1>3, <1>4, <1>5, <1>6, <1>7 DEF Use, OpenProject, CloseDialog, Unmount

\* Every retry sends the same transactions with the same details: in a list that x
\* has once left with, it stays until it is answered or dropped.
LEMMA MovesHand ==
  ASSUME OnceInv, NEW x \in Txns, InHandOnly(x), NEW t \in Tabs, Moves(t)
  PROVE  InHandOnly(x)' /\ \A u \in Tabs, l \in Loops : StaysInHand(u, l, x)
PROOF
  <1>1. PQInv /\ queue \in [Tabs -> Seq(Commands)] /\ \A u \in Tabs : ~ Carries(queue[u], x)
    BY DEF OnceInv, PQInv, PQTypeOK, InHandOnly
  <1>2. outcome'[x] # "fresh"
    BY MadeStays DEF InHandOnly
  <1>3. ASSUME NEW l \in Loops, loop[t][l].pc \in {"batch", "send", "wait"}
        PROVE  /\ loop[t][l] \in SoundLoops
               /\ \A p \in Projects : \A v : Done([loop[t][l] EXCEPT !.details[p] = v]).batch
                                           = Tail(loop[t][l].batch)
               /\ ~ Carries(Tail(loop[t][l].batch), x)
               /\ loop[t][l].pc = "batch" => ~ Carries(loop[t][l].batch, x)
    <2>1. /\ loop[t][l] \in SoundLoops /\ loop[t][l].batch # <<>>
          /\ Separate(loop[t][l].batch) /\ loop[t][l].batch \in Seq(Commands)
      BY <1>1, <1>3, InHandTyped DEF OnceInv, Once, SoundLoops, LoopStates
    <2>2. /\ Carries(Tail(loop[t][l].batch), x) => Carries(loop[t][l].batch, x)
          /\ InCommand(Head(loop[t][l].batch), x) => ~ Carries(Tail(loop[t][l].batch), x)
      BY <2>1, TailCarries
    <2>3. Carries(loop[t][l].batch, x) =>
            loop[t][l].pc # "batch" /\ InCommand(Head(loop[t][l].batch), x)
      BY DEF InHandOnly, InHand
    <2>4. ASSUME NEW p \in Projects, NEW v
          PROVE  Done([loop[t][l] EXCEPT !.details[p] = v]).batch = Tail(loop[t][l].batch)
      BY <2>1 DEF Done, SoundLoops, LoopStates
    <2> QED
      BY <2>1, <2>2, <2>3, <2>4
  <1>4. ~ Carries(OffLoop.batch, x)
    BY EmptyCarries DEF OffLoop
  <1>5. ASSUME NEW l \in Loops, Step(t, l)
        PROVE  InHandOnly(x)' /\ \A u \in Tabs, k \in Loops : StaysInHand(u, k, x)
    <2>1. CASE Poll(t, l)
      <3>1. loop[t][l] \in SoundLoops
        BY <1>1 DEF PQInv
      <3>2. ~ Carries(Taken(loop[t][l], queue[t]).batch, x)
        BY <1>1, <3>1 DEF Taken, SoundLoops, LoopStates
      <3>3. ~ Carries(queue'[t], x) /\ \A u \in Tabs \ {t} : queue'[u] = queue[u]
        BY <1>1, <2>1, EmptyCarries DEF Poll
      <3> QED
        BY <1>1, <1>2, <2>1, <3>2, <3>3, HandLoopStep DEF Poll
    <2>2. CASE NoticeAbort(t, l)
      BY <1>1, <1>2, <1>4, <2>2, HandLoopStep DEF NoticeAbort
    <2>3. CASE TakeDetails(t, l)
      <3>1. InHand(t, l).project \in Projects
        BY <1>1, <2>3, InHandTyped DEF TakeDetails
      <3>2. CASE Halt(t, l)
        BY <1>1, <1>2, <1>4, <2>3, <3>2, HandLoopStep DEF TakeDetails, Halt
      <3>3. CASE ~ Halt(t, l)
        <4> DEFINE lp == Done([loop[t][l] EXCEPT !.details[InHand(t, l).project] = InHand(t, l).version])
        <4>1. SetLoop(t, l, lp) /\ UNCHANGED queue /\ loop[t][l].pc = "batch"
          BY <2>3, <3>3 DEF TakeDetails
        <4>2. ~ Carries(lp.batch, x)
          BY <1>3, <3>1, <4>1
        <4> HIDE DEF lp
        <4> QED
          BY <1>1, <1>2, <4>1, <4>2, HandLoopStep
      <3> QED
        BY <3>2, <3>3
    <2>4. CASE TakeUnknown(t, l)
      BY <1>1, <1>2, <1>4, <2>4, HandLoopStep DEF TakeUnknown, Halt
    <2>5. CASE TakeTransactions(t, l)
      <3>1. ~ Carries([loop[t][l] EXCEPT !.pc = "send"].batch, x)
        BY <1>3, <2>5 DEF TakeTransactions, SoundLoops, LoopStates
      <3> QED
        BY <1>1, <1>2, <2>5, <3>1, HandLoopStep DEF TakeTransactions
    <2> QED
      BY <1>5, <2>1, <2>2, <2>3, <2>4, <2>5 DEF Step
  <1>6. ASSUME NEW l \in Loops, SendPatch(t, l)
        PROVE  InHandOnly(x)' /\ \A u \in Tabs, k \in Loops : StaysInHand(u, k, x)
    <2> DEFINE lp == [loop[t][l] EXCEPT !.pc = "wait"]
    <2>1. lp.batch = loop[t][l].batch /\ lp.details = loop[t][l].details /\ lp.pc = "wait"
      BY <1>3, <1>6 DEF SendPatch, SoundLoops, LoopStates
    <2>2. SetLoop(t, l, lp) /\ UNCHANGED queue
      BY <1>6 DEF SendPatch
    <2> HIDE DEF lp
    <2> QED
      BY <1>1, <1>2, <2>1, <2>2, HandLoopStep
  <1>7. ASSUME NEW l \in Loops, loop[t][l].pc = "wait", NEW lp0 \in SoundLoops,
               lp0.batch = loop[t][l].batch, lp0.details = loop[t][l].details,
               RetryLater(t, l, lp0), UNCHANGED queue
        PROVE  InHandOnly(x)' /\ \A u \in Tabs, k \in Loops : StaysInHand(u, k, x)
    <2> DEFINE n == IF lp0.attempts < MaxRetryRecovery THEN lp0.attempts + 1 ELSE lp0.attempts
               lp == [lp0 EXCEPT !.pc = "send", !.attempts = n]
    <2>1. SetLoop(t, l, lp)
      BY <1>7 DEF RetryLater, SoundLoops, LoopStates
    <2>2. lp.batch = loop[t][l].batch /\ lp.details = loop[t][l].details /\ lp.pc = "send"
      BY <1>7 DEF SoundLoops, LoopStates
    <2> HIDE DEF lp
    <2> QED
      BY <1>1, <1>2, <1>7, <2>1, <2>2, HandLoopStep
  <1>8. ASSUME NEW l \in Loops, NetworkError(t, l)
        PROVE  InHandOnly(x)' /\ \A u \in Tabs, k \in Loops : StaysInHand(u, k, x)
    BY <1>3, <1>7, <1>8 DEF NetworkError
  <1>9. ASSUME NEW l \in Loops, NEW result, Receive(t, l, result)
        PROVE  InHandOnly(x)' /\ \A u \in Tabs, k \in Loops : StaysInHand(u, k, x)
    <2>1. loop[t][l].pc = "wait"
      BY <1>9 DEF Receive, ReceiveOk, ReceiveRefusal, ReceiveError
    <2>2. CASE ReceiveOk(t, l, result)
      <3> DEFINE lp == Done([loop[t][l] EXCEPT !.details[InHand(t, l).project] = result.version])
      <3>1. SetLoop(t, l, lp) /\ UNCHANGED queue
        BY <2>2 DEF ReceiveOk
      <3>2. ~ Carries(lp.batch, x)
        <4>1. InHand(t, l).project \in Projects
          BY <1>1, <2>1, InHandTyped
        <4> QED
          BY <1>3, <2>1, <4>1
      <3> HIDE DEF lp
      <3> QED
        BY <1>1, <1>2, <3>1, <3>2, HandLoopStep
    <2>3. CASE ReceiveRefusal(t, l, result)
      BY <1>1, <1>2, <1>4, <2>3, HandLoopStep DEF ReceiveRefusal, Halt
    <2>4. CASE ReceiveError(t, l, result)
      <3>1. CASE loop[t][l].errors < MaxAllowedApiErrors
        <4> DEFINE counted == [loop[t][l] EXCEPT !.errors = @ + 1]
        <4>1. /\ counted \in SoundLoops /\ counted.batch = loop[t][l].batch
              /\ counted.details = loop[t][l].details
          BY <1>3, <2>1, <3>1, CountedSound
        <4>2. RetryLater(t, l, counted) /\ UNCHANGED queue
          BY <2>4, <3>1 DEF ReceiveError
        <4> HIDE DEF counted
        <4> QED
          BY <1>7, <2>1, <4>1, <4>2
      <3>2. CASE ~ (loop[t][l].errors < MaxAllowedApiErrors)
        BY <1>1, <1>2, <1>4, <2>4, <3>2, HandLoopStep DEF ReceiveError, Halt
      <3> QED
        BY <3>1, <3>2
    <2> QED
      BY <1>9, <2>2, <2>3, <2>4 DEF Receive
  <1>10. ASSUME NEW v \in Nat, LoadData(t, v)
         PROVE  InHandOnly(x)' /\ \A u \in Tabs, k \in Loops : StaysInHand(u, k, x)
    BY <1>1, <1>10, HandStillStep DEF LoadData, queueVars
  <1> QED
    BY <1>5, <1>6, <1>8, <1>9, <1>10, UseHand DEF Moves

\* Commands of transactions are never empty, and a loop that sends one has the
\* details of its project.
Filled(commands) ==
  \A i \in DOMAIN commands : commands[i].type = "transactions" => commands[i].transactions # <<>>

Knows(lp) ==
  lp.pc \in {"send", "wait"} => lp.details[Head(lp.batch).project] # Unknown

Stocked ==
  \A t \in Tabs : Filled(queue[t]) /\ \A l \in Loops : Filled(loop[t][l].batch) /\ Knows(loop[t][l])

LEMMA EnqueueFilled ==
  ASSUME NEW q \in Seq(Commands), Filled(q), NEW command \in Commands,
         command.type = "transactions" => command.transactions # <<>>
  PROVE  Filled(Enqueue(q, command))
PROOF
  <1> DEFINE n == Len(q)
             new == Enqueue(q, command)
  <1>1. CASE /\ command.type = "transactions"
             /\ n > 0
             /\ q[n].type = "transactions"
             /\ q[n].project = command.project
    <2> DEFINE last == [q[n] EXCEPT !.transactions = @ \o command.transactions]
    <2>1. n \in DOMAIN q /\ q[n] \in Commands
      BY <1>1
    <2>2. /\ q[n] \in [type : {"transactions"}, project : Projects, transactions : Seq(Txns)]
          /\ command.transactions \in Seq(Txns)
      BY <1>1, <2>1 DEF Commands
    <2>3. last.transactions = q[n].transactions \o command.transactions
      BY <2>2
    <2>4. last.transactions # <<>>
      BY <1>1, <2>2, <2>3
    <2>5. new = [q EXCEPT ![n] = last]
      BY <1>1 DEF Enqueue
    <2> HIDE DEF last, n
    <2>6. DOMAIN new = DOMAIN q /\ new[n] = last /\ \A i \in DOMAIN q : i # n => new[i] = q[i]
      BY <2>1, <2>5
    <2> HIDE DEF new
    <2>7. Filled(new)
      BY <2>4, <2>6 DEF Filled
    <2> QED
      BY <2>7 DEF new
  <1>2. CASE ~ (/\ command.type = "transactions"
                /\ n > 0
                /\ q[n].type = "transactions"
                /\ q[n].project = command.project)
    <2>1. new = Append(q, command)
      BY <1>2 DEF Enqueue
    <2>2. DOMAIN new = DOMAIN q \cup {n + 1} /\ new[n + 1] = command
          /\ \A i \in DOMAIN q : new[i] = q[i]
      BY <2>1
    <2> HIDE DEF new, n
    <2>3. Filled(new)
      BY <2>2 DEF Filled
    <2> QED
      BY <2>3 DEF new
  <1> QED
    BY <1>1, <1>2

LEMMA TailFilled ==
  ASSUME NEW b \in Seq(Commands), b # <<>>, Filled(b)
  PROVE  Filled(Tail(b)) /\ (Head(b).type = "transactions" => Head(b).transactions # <<>>)
PROOF
  <1>1. \A i \in DOMAIN Tail(b) : i + 1 \in DOMAIN b /\ Tail(b)[i] = b[i + 1]
    OBVIOUS
  <1>2. 1 \in DOMAIN b /\ Head(b) = b[1]
    OBVIOUS
  <1> QED
    BY <1>1, <1>2 DEF Filled

\* A step that keeps every other tab as it is.
LEMMA StockedStep ==
  ASSUME Stocked, NEW t \in Tabs,
         \A u \in Tabs \ {t} : queue'[u] = queue[u] /\ loop'[u] = loop[u],
         Filled(queue'[t]),
         \A l \in Loops : Filled(loop'[t][l].batch) /\ Knows(loop'[t][l])
  PROVE  Stocked'
PROOF BY DEF Stocked

LEMMA StockedLoopStep ==
  ASSUME PQInv, Stocked, NEW t \in Tabs, NEW l \in Loops, NEW lp,
         SetLoop(t, l, lp),
         Filled(lp.batch) /\ Knows(lp),
         Filled(queue'[t]),
         \A u \in Tabs \ {t} : queue'[u] = queue[u]
  PROVE  Stocked'
PROOF
  <1>1. loop \in [Tabs -> [Loops -> SoundLoops]]
    BY DEF PQInv
  <1>2. /\ loop'[t][l] = lp
        /\ \A k \in Loops \ {l} : loop'[t][k] = loop[t][k]
        /\ \A u \in Tabs \ {t} : loop'[u] = loop[u]
    BY <1>1 DEF SetLoop
  <1>3. \A k \in Loops : Filled(loop'[t][k].batch) /\ Knows(loop'[t][k])
    BY <1>2 DEF Stocked
  <1> QED
    BY <1>2, <1>3, StockedStep

LEMMA StockedStillStep ==
  ASSUME Stocked, UNCHANGED queue,
         \A t \in Tabs, l \in Loops : /\ loop'[t][l].batch = loop[t][l].batch
                                      /\ loop'[t][l].details = loop[t][l].details
                                      /\ loop'[t][l].pc = loop[t][l].pc
  PROVE  Stocked'
PROOF BY DEF Stocked, Knows

LEMMA StockedInit ==
  PQInit => Stocked
PROOF BY DEF PQInit, Stocked, Filled, Knows, OffLoop

LEMMA UseStocked ==
  ASSUME PQInv, Stocked, NEW t \in Tabs, Use(t)
  PROVE  Stocked'
PROOF
  <1>1. queue \in [Tabs -> Seq(Commands)] /\ loop \in [Tabs -> [Loops -> SoundLoops]]
        /\ Filled(queue[t]) /\ Filled(<<>>)
    BY DEF PQInv, PQTypeOK, Stocked, Filled
  <1>2. CASE UNCHANGED queueVars
    BY <1>2, StockedStillStep DEF queueVars
  <1>3. CASE StopPolling(t)
    <2>1. ASSUME NEW u \in Tabs, NEW l \in Loops
          PROVE  /\ loop'[u][l].batch = loop[u][l].batch
                 /\ loop'[u][l].details = loop[u][l].details
                 /\ loop'[u][l].pc = loop[u][l].pc
      <3>1. loop[u][l] \in SoundLoops
        BY <1>1
      <3>2. loop'[u][l] \in {loop[u][l], [loop[u][l] EXCEPT !.aborted = TRUE]}
        BY <1>1, <1>3 DEF StopPolling
      <3> QED
        BY <3>1, <3>2 DEF SoundLoops, LoopStates
    <2> QED
      BY <1>3, <2>1, StockedStillStep DEF StopPolling
  <1>4. CASE EnqueueProjectDetails(t)
    <2> DEFINE command == SetDetails(page[t].project, page[t].version)
               commands == Enqueue(queue[t], command)
    <2>1. command \in Commands /\ command.type = "setDetails"
      <3>1. page[t].project \in Projects /\ page[t].version \in Nat
        BY <1>4 DEF PQInv, EnqueueProjectDetails, SoundPages, Pages
      <3> QED
        BY <3>1, CommandsTyped DEF SetDetails
    <2>2. Filled(commands)
      BY <1>1, <2>1, EnqueueFilled
    <2> HIDE DEF commands
    <2>3. CASE queue' = [queue EXCEPT ![t] = commands] /\ UNCHANGED loop
      BY <1>1, <2>2, <2>3, StockedStep DEF Stocked
    <2>4. ASSUME NEW l \in Loops, SetLoop(t, l, Taken(OffLoop, commands)),
                 queue' = [queue EXCEPT ![t] = <<>>]
          PROVE  Stocked'
      <3>1. Taken(OffLoop, commands).batch = commands /\ Knows(Taken(OffLoop, commands))
        BY DEF Taken, OffLoop, Knows
      <3> QED
        BY <1>1, <2>2, <2>4, <3>1, StockedLoopStep
    <2> QED
      BY <1>4, <2>3, <2>4 DEF EnqueueProjectDetails, commands
  <1>5. ASSUME NEW y \in Txns, SendTransaction(t, y)
        PROVE  Stocked'
    <2> DEFINE command == Transactions(page[t].project, <<y>>)
    <2>1. command \in Commands /\ command.transactions # <<>>
      <3>1. page[t].project \in Projects
        BY <1>5 DEF PQInv, SendTransaction, SoundPages, Pages
      <3> QED
        BY <3>1, CommandsTyped DEF Transactions
    <2>2. queue' = [queue EXCEPT ![t] = Enqueue(@, command)] /\ UNCHANGED loop
      BY <1>5 DEF SendTransaction
    <2> HIDE DEF command
    <2> QED
      BY <1>1, <2>1, <2>2, EnqueueFilled, StockedStep DEF Stocked
  <1>6. CASE Reload(t)
    <2>1. /\ queue'[t] = <<>>
          /\ \A l \in Loops : loop'[t][l] = OffLoop
          /\ \A u \in Tabs \ {t} : queue'[u] = queue[u] /\ loop'[u] = loop[u]
      BY <1>1, <1>6 DEF Reload
    <2>2. Filled(OffLoop.batch) /\ Knows(OffLoop)
      BY <1>1 DEF OffLoop, Knows
    <2> QED
      BY <1>1, <2>1, <2>2, StockedStep
  <1> QED
    BY <1>2, <1>3, <1>4, <1>5, <1>6 DEF Use, OpenProject, CloseDialog, Unmount

LEMMA MovesStocked ==
  ASSUME PQInv, Stocked, NEW t \in Tabs, Moves(t)
  PROVE  Stocked'
PROOF
  <1>1. /\ queue \in [Tabs -> Seq(Commands)] /\ Filled(<<>>)
        /\ \A u \in Tabs : Filled(queue[u])
        /\ \A l \in Loops : /\ loop[t][l] \in SoundLoops
                            /\ Filled(loop[t][l].batch) /\ Knows(loop[t][l])
    BY DEF PQInv, PQTypeOK, Stocked, Filled
  <1>2. Filled(OffLoop.batch) /\ Knows(OffLoop)
    BY <1>1 DEF OffLoop, Knows
  <1>3. ASSUME NEW l \in Loops, loop[t][l].pc \in {"batch", "wait"}, NEW v \in Nat
        PROVE  LET lp == Done([loop[t][l] EXCEPT !.details[InHand(t, l).project] = v])
               IN  Filled(lp.batch) /\ Knows(lp)
    <2> DEFINE lp == Done([loop[t][l] EXCEPT !.details[InHand(t, l).project] = v])
    <2>1. loop[t][l].batch \in Seq(Commands) /\ loop[t][l].batch # <<>>
      BY <1>1, <1>3, InHandTyped DEF SoundLoops, LoopStates
    <2>2. lp.batch = Tail(loop[t][l].batch) /\ lp.pc \in {"poll", "batch"}
      BY <1>1 DEF Done, SoundLoops, LoopStates
    <2> HIDE DEF lp
    <2>3. Filled(lp.batch) /\ Knows(lp)
      BY <1>1, <2>1, <2>2, TailFilled DEF Knows
    <2> QED
      BY <2>3 DEF lp
  <1>4. ASSUME NEW l \in Loops, Step(t, l)
        PROVE  Stocked'
    <2>1. CASE Poll(t, l)
      <3>1. Taken(loop[t][l], queue[t]).batch = queue[t] /\ Knows(Taken(loop[t][l], queue[t]))
        BY <1>1 DEF Taken, Knows, SoundLoops, LoopStates
      <3>2. Filled(queue'[t]) /\ \A u \in Tabs \ {t} : queue'[u] = queue[u]
        BY <1>1, <2>1 DEF Poll
      <3> QED
        BY <1>1, <2>1, <3>1, <3>2, StockedLoopStep DEF Poll
    <2>2. CASE NoticeAbort(t, l)
      BY <1>1, <1>2, <2>2, StockedLoopStep DEF NoticeAbort
    <2>3. CASE TakeDetails(t, l)
      <3>1. CASE Halt(t, l)
        BY <1>1, <1>2, <2>3, <3>1, StockedLoopStep DEF TakeDetails, Halt
      <3>2. CASE ~ Halt(t, l)
        <4>1. InHand(t, l).version \in Nat /\ loop[t][l].pc = "batch"
          BY <2>3, InHandTyped DEF TakeDetails, Commands
        <4> DEFINE lp == Done([loop[t][l] EXCEPT !.details[InHand(t, l).project] = InHand(t, l).version])
        <4>2. SetLoop(t, l, lp) /\ UNCHANGED queue
          BY <2>3, <3>2 DEF TakeDetails
        <4>3. Filled(lp.batch) /\ Knows(lp)
          BY <1>3, <4>1
        <4> HIDE DEF lp
        <4> QED
          BY <1>1, <4>2, <4>3, StockedLoopStep
      <3> QED
        BY <3>1, <3>2
    <2>4. CASE TakeUnknown(t, l)
      BY <1>1, <1>2, <2>4, StockedLoopStep DEF TakeUnknown, Halt
    <2>5. CASE TakeTransactions(t, l)
      <3> DEFINE lp == [loop[t][l] EXCEPT !.pc = "send"]
      <3>1. SetLoop(t, l, lp) /\ UNCHANGED queue
        BY <2>5 DEF TakeTransactions
      <3>2. lp.batch = loop[t][l].batch /\ lp.details = loop[t][l].details
        BY <1>1 DEF SoundLoops, LoopStates
      <3>3. Filled(lp.batch) /\ Knows(lp)
        BY <1>1, <2>5, <3>2 DEF TakeTransactions, Knows, InHand
      <3> HIDE DEF lp
      <3> QED
        BY <1>1, <3>1, <3>3, StockedLoopStep
    <2> QED
      BY <1>4, <2>1, <2>2, <2>3, <2>4, <2>5 DEF Step
  <1>5. ASSUME NEW l \in Loops, SendPatch(t, l)
        PROVE  Stocked'
    <2> DEFINE lp == [loop[t][l] EXCEPT !.pc = "wait"]
    <2>1. SetLoop(t, l, lp) /\ UNCHANGED queue /\ loop[t][l].pc = "send"
      BY <1>5 DEF SendPatch
    <2>2. lp.batch = loop[t][l].batch /\ lp.details = loop[t][l].details
      BY <1>1 DEF SoundLoops, LoopStates
    <2>3. Filled(lp.batch) /\ Knows(lp)
      BY <1>1, <2>1, <2>2 DEF Knows
    <2> HIDE DEF lp
    <2> QED
      BY <1>1, <2>1, <2>3, StockedLoopStep
  <1>6. ASSUME NEW l \in Loops, loop[t][l].pc = "wait", NEW lp0 \in SoundLoops,
               lp0.batch = loop[t][l].batch, lp0.details = loop[t][l].details,
               RetryLater(t, l, lp0), UNCHANGED queue
        PROVE  Stocked'
    <2> DEFINE n == IF lp0.attempts < MaxRetryRecovery THEN lp0.attempts + 1 ELSE lp0.attempts
               lp == [lp0 EXCEPT !.pc = "send", !.attempts = n]
    <2>1. SetLoop(t, l, lp)
      BY <1>6 DEF RetryLater, SoundLoops, LoopStates
    <2>2. lp.batch = loop[t][l].batch /\ lp.details = loop[t][l].details
      BY <1>6 DEF SoundLoops, LoopStates
    <2>3. Filled(lp.batch) /\ Knows(lp)
      BY <1>1, <1>6, <2>2 DEF Knows
    <2> HIDE DEF lp
    <2> QED
      BY <1>1, <1>6, <2>1, <2>3, StockedLoopStep
  <1>7. ASSUME NEW l \in Loops, NetworkError(t, l)
        PROVE  Stocked'
    BY <1>1, <1>6, <1>7 DEF NetworkError
  <1>8. ASSUME NEW l \in Loops, NEW result, result.version \in Nat, Receive(t, l, result)
        PROVE  Stocked'
    <2>1. loop[t][l].pc = "wait"
      BY <1>8 DEF Receive, ReceiveOk, ReceiveRefusal, ReceiveError
    <2>2. CASE ReceiveOk(t, l, result)
      <3> DEFINE lp == Done([loop[t][l] EXCEPT !.details[InHand(t, l).project] = result.version])
      <3>1. SetLoop(t, l, lp) /\ UNCHANGED queue
        BY <2>2 DEF ReceiveOk
      <3>2. Filled(lp.batch) /\ Knows(lp)
        BY <1>3, <1>8, <2>1
      <3> HIDE DEF lp
      <3> QED
        BY <1>1, <3>1, <3>2, StockedLoopStep
    <2>3. CASE ReceiveRefusal(t, l, result)
      BY <1>1, <1>2, <2>3, StockedLoopStep DEF ReceiveRefusal, Halt
    <2>4. CASE ReceiveError(t, l, result)
      <3>1. CASE loop[t][l].errors < MaxAllowedApiErrors
        <4> DEFINE counted == [loop[t][l] EXCEPT !.errors = @ + 1]
        <4>0. loop[t][l] \in SoundLoops
          BY <1>1
        <4>1. /\ counted \in SoundLoops /\ counted.batch = loop[t][l].batch
              /\ counted.details = loop[t][l].details
          BY <3>1, <4>0, CountedSound DEF SoundLoops, LoopStates
        <4>2. RetryLater(t, l, counted) /\ UNCHANGED queue
          BY <2>4, <3>1 DEF ReceiveError
        <4> HIDE DEF counted
        <4> QED
          BY <1>6, <2>1, <4>1, <4>2
      <3>2. CASE ~ (loop[t][l].errors < MaxAllowedApiErrors)
        BY <1>1, <1>2, <2>4, <3>2, StockedLoopStep DEF ReceiveError, Halt
      <3> QED
        BY <3>1, <3>2
    <2> QED
      BY <1>8, <2>2, <2>3, <2>4 DEF Receive
  <1>9. ASSUME NEW v \in Nat, LoadData(t, v)
        PROVE  Stocked'
    BY <1>9, StockedStillStep DEF LoadData, queueVars
  <1> QED
    BY <1>4, <1>5, <1>7, <1>8, <1>9, UseStocked DEF Moves

-----------------------------------------------------------------------------
(* A tab that polls until its page goes.                                   *)

\* Polling ends with the page only: nothing else clears isPolling.
StopsByReload(t) == isPolling[t] /\ ~isPolling'[t] => Reload(t)
PollsOn == [][\A t \in Tabs : StopsByReload(t)]_pqVars

\* A builder tab shows one project, and closes no dialog.
Builder == Dialogs = {} /\ \A p, q \in Projects : p = q

-----------------------------------------------------------------------------

\* x was edited before y.
Before(es, x, y) == \E i, j \in DOMAIN es : i < j /\ es[i] = x /\ es[j] = y

\* The transactions of a list of commands are in the order of the edits, but for
\* those of one command, which are answered together.
InEditOrder(commands, es) ==
  \A a, b \in DOMAIN commands : \A x, y \in Txns :
    a < b /\ InCommand(commands[a], x) /\ InCommand(commands[b], y) => Before(es, x, y)

\* The projects a loop, or a list of commands, has the details of.
KnownTo(lp) == {p \in Projects : lp.details[p] # Unknown}
Supplies(commands) ==
  {p \in Projects :
     \E a \in DOMAIN commands : commands[a].type = "setDetails" /\ commands[a].project = p}

\* Transactions follow the details of their project.
Supplied(commands, known) ==
  \A b \in DOMAIN commands : commands[b].type = "transactions" =>
    \/ commands[b].project \in known
    \/ \E a \in DOMAIN commands :
         a < b /\ commands[a].type = "setDetails" /\ commands[a].project = commands[b].project

\* The loop of a tab is the controller's, and it goes on; without one there is
\* nothing to save.
Manned(t) ==
  /\ isPolling[t] <=> controller[t] # NoLoop
  /\ ~isPolling[t] => queue[t] = <<>> /\ edits[t] = <<>> /\ page[t].phase # "open"
  /\ \A l \in Loops :
       /\ ~loop[t][l].aborted
       /\ loop[t][l].pc # "off" => l = controller[t]
       /\ loop[t][l].pc \in {"off", "poll"} => loop[t][l].batch = <<>>

\* What is to be saved is lined up in the order of the edits, the batch before the
\* queue.
LinedUp(t) ==
  /\ \A i, j \in DOMAIN edits[t] : edits[t][i] = edits[t][j] => i = j
  /\ InEditOrder(queue[t], edits[t])
  /\ \A l \in Loops :
       /\ InEditOrder(loop[t][l].batch, edits[t])
       /\ \A x, y \in Txns :
            Carries(loop[t][l].batch, x) /\ Carries(queue[t], y) => Before(edits[t], x, y)

\* Details come before the transactions that need them.
Equipped(t) ==
  \A l \in Loops : loop[t][l].pc # "off" =>
    LET known == KnownTo(loop[t][l]) \cup Supplies(loop[t][l].batch) IN
    /\ Supplied(loop[t][l].batch, KnownTo(loop[t][l]))
    /\ Supplied(queue[t], known)
    /\ page[t].phase = "open" => page[t].project \in known \cup Supplies(queue[t])

\* A running loop has, or will take, all that is unanswered.
Carried(t) ==
  \A l \in Loops : loop[t][l].pc # "off" =>
    \A x \in Pending(t) : Carries(queue[t], x) \/ Carries(loop[t][l].batch, x)

\* A saved edit has no unanswered edit before it.
SavedBefore(t) ==
  \A i, j \in DOMAIN edits[t] :
    i < j /\ outcome[edits[t][j]] = "saved" => outcome[edits[t][i]] # "pending"

\* $lastTransactionId is the last edit as long as that is unanswered, and is
\* cleared when nothing is.
LastIsPending(t) ==
  IF lastEdit[t] = NoTxn THEN Pending(t) = {}
  ELSE /\ edits[t] # <<>>
       /\ edits[t][Len(edits[t])] = lastEdit[t]
       /\ outcome[lastEdit[t]] = "pending"

Keeps(t) ==
  /\ Manned(t)
  /\ LinedUp(t)
  /\ Equipped(t)
  /\ Carried(t)
  /\ SavedBefore(t)
  /\ syncStatus[t] = "idle" => Pending(t) = {}
  /\ LastIsPending(t)

\* The inductive invariant.
KeepInv == OnceInv /\ \A t \in Tabs : Keeps(t)
-----------------------------------------------------------------------------
(* The order of the edits. *)

\* A new edit comes after all the others.
LEMMA BeforeAppend ==
  ASSUME NEW es \in Seq(Txns), NEW z \in Txns
  PROVE  /\ \A x, y \in Txns : Before(es, x, y) => Before(Append(es, z), x, y)
         /\ \A x \in ToSet(es) : Before(Append(es, z), x, z)
PROOF
  <1> DEFINE new == Append(es, z)
             n == Len(es)
  <1>1. /\ n + 1 \in DOMAIN new /\ new[n + 1] = z
        /\ \A i \in DOMAIN es : i \in DOMAIN new /\ new[i] = es[i] /\ i < n + 1
    OBVIOUS
  <1> HIDE DEF new
  <1> QED
    BY <1>1 DEF Before, ToSet, new

\* Where each edit has one place, the order is one.
LEMMA BeforeStrict ==
  ASSUME NEW es \in Seq(Txns), \A i, j \in DOMAIN es : es[i] = es[j] => i = j
  PROVE  /\ \A i, j \in DOMAIN es : i < j => ~ Before(es, es[j], es[i])
         /\ es # <<>> => \A x : ~ Before(es, es[Len(es)], x)
PROOF
  <1>1. ASSUME NEW i \in DOMAIN es, NEW j \in DOMAIN es, i < j, Before(es, es[j], es[i])
        PROVE  FALSE
    <2>1. PICK a, b \in DOMAIN es : a < b /\ es[a] = es[j] /\ es[b] = es[i]
      BY <1>1 DEF Before
    <2>2. a = j /\ b = i
      BY <2>1
    <2> QED
      BY <1>1, <2>1, <2>2
  <1>2. ASSUME es # <<>>, NEW x, Before(es, es[Len(es)], x)
        PROVE  FALSE
    <2>1. Len(es) \in DOMAIN es /\ \A b \in DOMAIN es : ~ (Len(es) < b)
      BY <1>2
    <2>2. PICK a, b \in DOMAIN es : a < b /\ es[a] = es[Len(es)]
      BY <1>2 DEF Before
    <2> QED
      BY <2>1, <2>2
  <1> QED
    BY <1>1, <1>2

LEMMA AppendDistinct ==
  ASSUME NEW es \in Seq(Txns), \A i, j \in DOMAIN es : es[i] = es[j] => i = j,
         NEW z \in Txns, z \notin ToSet(es)
  PROVE  \A i, j \in DOMAIN Append(es, z) : Append(es, z)[i] = Append(es, z)[j] => i = j
PROOF
  <1> DEFINE new == Append(es, z)
             n == Len(es)
  <1>1. /\ DOMAIN new = DOMAIN es \cup {n + 1} /\ new[n + 1] = z
        /\ \A i \in DOMAIN es : new[i] = es[i]
    OBVIOUS
  <1>2. \A i \in DOMAIN es : es[i] # z
    BY DEF ToSet
  <1> HIDE DEF new
  <1> QED
    BY <1>1, <1>2 DEF new

-----------------------------------------------------------------------------
(* Lists of commands, in order and with their details. *)

LEMMA EmptyList ==
  /\ \A es : InEditOrder(<<>>, es)
  /\ \A known : Supplied(<<>>, known)
  /\ Supplies(<<>>) = {}
PROOF BY DEF InEditOrder, Supplied, Supplies

\* What comes after all that is lined up is put in line.
LEMMA EnqueueInOrder ==
  ASSUME NEW q \in Seq(Commands), NEW command \in Commands, NEW es,
         InEditOrder(q, es),
         \A x, y \in Txns : Carries(q, x) /\ InCommand(command, y) => Before(es, x, y)
  PROVE  InEditOrder(Enqueue(q, command), es)
PROOF
  <1> DEFINE n == Len(q)
             new == Enqueue(q, command)
  <1>1. DOMAIN q = 1..n /\ n \in Nat
    OBVIOUS
  <1>2. \/ /\ n \in DOMAIN q /\ DOMAIN new = DOMAIN q
           /\ \A i \in DOMAIN q : i # n => new[i] = q[i]
           /\ \A x \in Txns :
                InCommand(new[n], x) <=> InCommand(q[n], x) \/ InCommand(command, x)
        \/ /\ DOMAIN new = DOMAIN q \cup {n + 1} /\ n + 1 \notin DOMAIN q
           /\ new[n + 1] = command
           /\ \A i \in DOMAIN q : new[i] = q[i]
    BY EnqueueShape
  <1> HIDE DEF n, new
  <1>3. ASSUME NEW a \in DOMAIN new, NEW b \in DOMAIN new, NEW x \in Txns, NEW y \in Txns,
               a < b, InCommand(new[a], x), InCommand(new[b], y)
        PROVE  Before(es, x, y)
    <2>1. a \in DOMAIN q /\ InCommand(q[a], x)
      BY <1>1, <1>2, <1>3
    <2>2. Carries(q, x)
      BY <2>1, CarriesCommand
    <2>3. (b \in DOMAIN q /\ InCommand(q[b], y)) \/ InCommand(command, y)
      BY <1>1, <1>2, <1>3
    <2> QED
      BY <1>3, <2>1, <2>2, <2>3 DEF InEditOrder
  <1> QED
    BY <1>3 DEF InEditOrder, new

\* A command that needs details finds them before it, or known.
LEMMA EnqueueSupplied ==
  ASSUME NEW q \in Seq(Commands), NEW command \in Commands, NEW known,
         Supplied(q, known),
         command.type = "transactions" => command.project \in known \cup Supplies(q)
  PROVE  /\ Supplied(Enqueue(q, command), known)
         /\ Supplies(q) \subseteq Supplies(Enqueue(q, command))
         /\ command.type = "setDetails" => command.project \in Supplies(Enqueue(q, command))
PROOF
  <1> DEFINE n == Len(q)
             new == Enqueue(q, command)
  <1>1. DOMAIN q = 1..n /\ n \in Nat
    OBVIOUS
  <1>2. command.project \in Projects
    BY DEF Commands
  <1>3. CASE /\ n \in DOMAIN q /\ DOMAIN new = DOMAIN q
             /\ \A i \in DOMAIN q : i # n => new[i] = q[i]
             /\ new[n].type = "transactions" /\ q[n].type = "transactions"
             /\ new[n].project = q[n].project
             /\ command.type = "transactions"
    <2> HIDE DEF n, new
    <2>1. \A a \in DOMAIN q : new[a].type = q[a].type /\ new[a].project = q[a].project
      BY <1>3
    <2>2. Supplied(new, known)
      BY <1>3, <2>1 DEF Supplied
    <2>3. Supplies(new) = Supplies(q)
      BY <1>3, <2>1 DEF Supplies
    <2> QED
      BY <1>3, <2>2, <2>3 DEF new
  <1>4. CASE /\ DOMAIN new = DOMAIN q \cup {n + 1} /\ n + 1 \notin DOMAIN q
             /\ new[n + 1] = command
             /\ \A i \in DOMAIN q : new[i] = q[i]
    <2> HIDE DEF n, new
    <2>1. ASSUME NEW b \in DOMAIN new, new[b].type = "transactions", new[b].project \notin known
          PROVE  \E a \in DOMAIN new :
                   a < b /\ new[a].type = "setDetails" /\ new[a].project = new[b].project
      <3>1. CASE b \in DOMAIN q
        <4>1. PICK a \in DOMAIN q :
                a < b /\ q[a].type = "setDetails" /\ q[a].project = q[b].project
          BY <1>4, <2>1, <3>1 DEF Supplied
        <4> QED
          BY <1>4, <3>1, <4>1
      <3>2. CASE b = n + 1
        <4>1. PICK a \in DOMAIN q : q[a].type = "setDetails" /\ q[a].project = command.project
          BY <1>4, <2>1, <3>2 DEF Supplies
        <4>2. a < n + 1
          BY <1>1, <4>1
        <4> QED
          BY <1>4, <3>2, <4>1, <4>2
      <3> QED
        BY <1>4, <2>1, <3>1, <3>2
    <2>2. Supplied(new, known)
      BY <2>1 DEF Supplied
    <2>3. Supplies(q) \subseteq Supplies(new)
      BY <1>4 DEF Supplies
    <2>4. command.type = "setDetails" => command.project \in Supplies(new)
      BY <1>2, <1>4 DEF Supplies
    <2> QED
      BY <2>2, <2>3, <2>4 DEF new
  <1>5. \/ /\ n \in DOMAIN q /\ DOMAIN new = DOMAIN q
           /\ \A i \in DOMAIN q : i # n => new[i] = q[i]
           /\ new[n].type = "transactions" /\ q[n].type = "transactions"
           /\ new[n].project = q[n].project
           /\ command.type = "transactions"
        \/ /\ DOMAIN new = DOMAIN q \cup {n + 1} /\ n + 1 \notin DOMAIN q
           /\ new[n + 1] = command
           /\ \A i \in DOMAIN q : new[i] = q[i]
    BY EnqueueShape
  <1> QED
    BY <1>3, <1>4, <1>5

\* The rest of a list stays in order, and comes after the command in hand.
LEMMA TailInOrder ==
  ASSUME NEW b \in Seq(Commands), b # <<>>, NEW es, InEditOrder(b, es)
  PROVE  /\ InEditOrder(Tail(b), es)
         /\ \A x, y \in Txns : InCommand(Head(b), x) /\ Carries(Tail(b), y) => Before(es, x, y)
         /\ \A x \in Txns : Carries(b, x) <=> InCommand(Head(b), x) \/ Carries(Tail(b), x)
PROOF
  <1>1. /\ \A i \in DOMAIN Tail(b) :
             /\ i + 1 \in DOMAIN b /\ 1 < i + 1 /\ Tail(b)[i] = b[i + 1]
             /\ \A j \in DOMAIN Tail(b) : i < j => i + 1 < j + 1
        /\ 1 \in DOMAIN b /\ Head(b) = b[1]
    OBVIOUS
  <1>2. \A i \in DOMAIN b : i = 1 \/ (i - 1 \in DOMAIN Tail(b) /\ Tail(b)[i - 1] = b[i])
    OBVIOUS
  <1>3. InEditOrder(Tail(b), es)
    BY <1>1 DEF InEditOrder
  <1>4. ASSUME NEW x \in Txns, NEW y \in Txns, InCommand(Head(b), x), Carries(Tail(b), y)
        PROVE  Before(es, x, y)
    <2>1. PICK i \in DOMAIN Tail(b) : InCommand(Tail(b)[i], y)
      BY <1>4, CarriesCommand
    <2>2. 1 < i + 1 /\ i + 1 \in DOMAIN b /\ InCommand(b[i + 1], y) /\ InCommand(b[1], x)
      BY <1>1, <1>4, <2>1
    <2> QED
      BY <1>1, <2>2 DEF InEditOrder
  <1>5. \A x \in Txns : Carries(b, x) <=> InCommand(Head(b), x) \/ Carries(Tail(b), x)
    BY <1>1, <1>2, CarriesCommand
  <1> QED
    BY <1>3, <1>4, <1>5

\* Done with a command, a loop knows as much as the rest of the batch needs.
LEMMA TailSupplied ==
  ASSUME NEW b \in Seq(Commands), b # <<>>, NEW known, NEW more, Supplied(b, known),
         known \subseteq more, Head(b).type = "setDetails" => Head(b).project \in more
  PROVE  /\ Supplied(Tail(b), more)
         /\ known \cup Supplies(b) \subseteq more \cup Supplies(Tail(b))
         /\ Head(b).type = "transactions" => Head(b).project \in known
PROOF
  <1>1. /\ \A i \in DOMAIN Tail(b) :
             /\ i + 1 \in DOMAIN b /\ 1 < i + 1 /\ Tail(b)[i] = b[i + 1]
        /\ 1 \in DOMAIN b /\ Head(b) = b[1]
    OBVIOUS
  <1>2. \A i \in DOMAIN b :
          \/ i = 1
          \/ /\ i - 1 \in DOMAIN Tail(b) /\ Tail(b)[i - 1] = b[i]
             /\ \A j \in DOMAIN Tail(b) : i < j + 1 => i - 1 < j
    OBVIOUS
  <1>3. ASSUME NEW i \in DOMAIN Tail(b), Tail(b)[i].type = "transactions",
               Tail(b)[i].project \notin more
        PROVE  \E a \in DOMAIN Tail(b) :
                 a < i /\ Tail(b)[a].type = "setDetails" /\ Tail(b)[a].project = Tail(b)[i].project
    <2>1. PICK a \in DOMAIN b :
            a < i + 1 /\ b[a].type = "setDetails" /\ b[a].project = b[i + 1].project
      BY <1>1, <1>3 DEF Supplied
    <2>2. a # 1
      BY <1>1, <1>3, <2>1
    <2> QED
      BY <1>1, <1>2, <2>1, <2>2
  <1>4. Supplied(Tail(b), more)
    BY <1>3 DEF Supplied
  <1>5. Supplies(b) \subseteq more \cup Supplies(Tail(b))
    <2> SUFFICES ASSUME NEW p \in Supplies(b) PROVE p \in more \cup Supplies(Tail(b))
      OBVIOUS
    <2>1. PICK i \in DOMAIN b : b[i].type = "setDetails" /\ b[i].project = p
      BY DEF Supplies
    <2>2. CASE i = 1
      BY <1>1, <2>1, <2>2
    <2>3. CASE i - 1 \in DOMAIN Tail(b) /\ Tail(b)[i - 1] = b[i]
      BY <2>1, <2>3 DEF Supplies
    <2> QED
      BY <1>2, <2>2, <2>3
  <1>6. Head(b).type = "transactions" => Head(b).project \in known
    BY <1>1 DEF Supplied
  <1> QED
    BY <1>4, <1>5, <1>6

LEMMA SuppliedMore ==
  ASSUME NEW q, NEW known, NEW more, Supplied(q, known), known \subseteq more
  PROVE  Supplied(q, more)
PROOF BY DEF Supplied

-----------------------------------------------------------------------------
(* What a step of one tab, and of one loop, has to show. *)

\* A step of one tab leaves the others alone, whose edits are their own.
LEMMA KeepTab ==
  ASSUME KeepInv, OnceInv', NEW t \in Tabs, Keeps(t)',
         \A u \in Tabs \ {t} :
           /\ page'[u] = page[u] /\ queue'[u] = queue[u] /\ loop'[u] = loop[u]
           /\ isPolling'[u] = isPolling[u] /\ controller'[u] = controller[u]
           /\ syncStatus'[u] = syncStatus[u] /\ lastEdit'[u] = lastEdit[u]
           /\ edits'[u] = edits[u],
         \A x \in Txns : outcome'[x] # outcome[x] =>
           x \in ToSet(edits[t]) \/ outcome[x] = "fresh"
  PROVE  KeepInv'
PROOF
  <1>1. ASSUME NEW u \in Tabs \ {t}
        PROVE  Keeps(u)'
    <2>1. ToSet(edits[u]) \subseteq Txns /\ edits[u] \in Seq(Txns)
      BY DEF KeepInv, OnceInv, PQInv, PQTypeOK, ToSet
    <2>2. \A x \in ToSet(edits[u]) : outcome'[x] = outcome[x]
      BY <2>1 DEF KeepInv, OnceInv
    <2>3. \A i \in DOMAIN edits[u] : edits[u][i] \in ToSet(edits[u])
      BY DEF ToSet
    <2>4. Pending(u)' = Pending(u)
      BY <2>2 DEF Pending
    <2>5. Keeps(u)
      BY DEF KeepInv
    <2>6. Manned(u)' /\ LinedUp(u)' /\ Equipped(u)'
      <3>1. Manned(u)'
        BY <2>5 DEF Keeps, Manned
      <3>2. LinedUp(u)'
        BY <2>5 DEF Keeps, LinedUp
      <3>3. Equipped(u)'
        BY <2>5 DEF Keeps, Equipped
      <3> QED
        BY <3>1, <3>2, <3>3
    <2>7. Carried(u)'
      BY <2>4, <2>5 DEF Keeps, Carried
    <2>8. SavedBefore(u)'
      BY <2>2, <2>3, <2>5 DEF Keeps, SavedBefore
    <2>9. LastIsPending(u)'
      <3>1. edits[u] # <<>> => Len(edits[u]) \in DOMAIN edits[u]
        BY <2>1
      <3> QED
        BY <2>2, <2>3, <2>4, <2>5, <3>1 DEF Keeps, LastIsPending
    <2>10. (syncStatus[u] = "idle" => Pending(u) = {})'
      BY <2>4, <2>5 DEF Keeps
    <2> QED
      BY <2>6, <2>7, <2>8, <2>9, <2>10 DEF Keeps
  <1> QED
    BY <1>1 DEF KeepInv

\* The types the steps rely on.
LEMMA KeepTyped ==
  ASSUME KeepInv, NEW t \in Tabs
  PROVE  /\ queue[t] \in Seq(Commands) /\ edits[t] \in Seq(Txns)
         /\ ToSet(edits[t]) \subseteq Txns
         /\ \A l \in Loops : loop[t][l] \in SoundLoops /\ loop[t][l].batch \in Seq(Commands)
         /\ page[t] \in SoundPages
         /\ OnceInv /\ PQInv /\ PQTypeOK /\ Keeps(t)
PROOF
  <1>1. OnceInv /\ PQInv /\ PQTypeOK /\ Keeps(t)
    BY DEF KeepInv, OnceInv, PQInv
  <1>2. queue[t] \in Seq(Commands) /\ edits[t] \in Seq(Txns)
    BY <1>1 DEF PQTypeOK
  <1>3. page[t] \in SoundPages /\ \A l \in Loops : loop[t][l] \in SoundLoops
    BY <1>1 DEF PQInv
  <1>4. \A l \in Loops : loop[t][l].batch \in Seq(Commands)
    BY <1>3 DEF SoundLoops, LoopStates
  <1> QED
    BY <1>1, <1>2, <1>3, <1>4 DEF ToSet

\* A step of the loop of a tab that knows what the rest of its batch needs, and has
\* answered what its batch has no more.
LEMMA LoopKeeps ==
  ASSUME KeepInv, OnceInv', NEW t \in Tabs, NEW l \in Loops, NEW lp,
         SetLoop(t, l, lp), loop[t][l].pc # "off",
         UNCHANGED <<page, queue, isPolling, controller, edits>>,
         ~lp.aborted, lp.pc \in {"off", "poll"} => lp.batch = <<>>,
         InEditOrder(lp.batch, edits[t]),
         \A x \in Txns : Carries(lp.batch, x) => Carries(loop[t][l].batch, x),
         lp.pc # "off" =>
           /\ Supplied(lp.batch, KnownTo(lp))
           /\ KnownTo(loop[t][l]) \cup Supplies(loop[t][l].batch)
                \subseteq KnownTo(lp) \cup Supplies(lp.batch)
           /\ \A x \in Txns : outcome'[x] = "pending" /\ Carries(loop[t][l].batch, x) =>
                Carries(lp.batch, x),
         \A x \in Txns : outcome'[x] # outcome[x] =>
           Carries(loop[t][l].batch, x) /\ outcome'[x] # "pending",
         SavedBefore(t)', LastIsPending(t)',
         syncStatus'[t] = "idle" => syncStatus[t] = "idle" \/ Pending(t) = {},
         \A u \in Tabs \ {t} : syncStatus'[u] = syncStatus[u] /\ lastEdit'[u] = lastEdit[u]
  PROVE  KeepInv'
PROOF
  <1>1. /\ loop \in [Tabs -> [Loops -> SoundLoops]]
        /\ Keeps(t) /\ ToSet(edits[t]) \subseteq Txns
    BY KeepTyped DEF PQInv
  <1>2. /\ loop'[t][l] = lp /\ \A k \in Loops \ {l} : loop'[t][k] = loop[t][k]
        /\ \A u \in Tabs \ {t} : loop'[u] = loop[u]
    BY <1>1 DEF SetLoop
  <1>3. \A x \in Txns : outcome'[x] # outcome[x] => x \in ToSet(edits[t])
    BY DEF KeepInv, OnceInv, CarriedBy
  <1>4. l = controller[t] /\ \A k \in Loops \ {l} : loop[t][k].pc = "off"
    BY <1>1 DEF Keeps, Manned
  <1>5. Manned(t)'
    BY <1>1, <1>2, <1>4 DEF Keeps, Manned
  <1>6. LinedUp(t)'
    BY <1>1, <1>2 DEF Keeps, LinedUp
  <1>7. Pending(t)' \subseteq Pending(t)
    BY <1>1 DEF Pending
  <1>8. Equipped(t)'
    <2> SUFFICES ASSUME lp.pc # "off"
                 PROVE  LET known == KnownTo(lp) \cup Supplies(lp.batch) IN
                        /\ Supplied(lp.batch, KnownTo(lp))
                        /\ Supplied(queue[t], known)
                        /\ page[t].phase = "open" =>
                             page[t].project \in known \cup Supplies(queue[t])
      <3>1. ASSUME NEW k \in Loops, loop'[t][k].pc # "off"
            PROVE  k = l /\ loop'[t][k] = lp
        BY <1>2, <1>4, <3>1
      <3> QED
        BY <3>1 DEF Equipped
    <2>1. LET known == KnownTo(loop[t][l]) \cup Supplies(loop[t][l].batch) IN
          /\ Supplied(queue[t], known)
          /\ page[t].phase = "open" => page[t].project \in known \cup Supplies(queue[t])
      BY <1>1 DEF Keeps, Equipped
    <2> QED
      BY <2>1, SuppliedMore
  <1>9. Carried(t)'
    <2> SUFFICES ASSUME lp.pc # "off", NEW x \in Pending(t)'
                 PROVE  Carries(queue[t], x) \/ Carries(lp.batch, x)
      BY <1>2, <1>4 DEF Carried
    <2>1. x \in Txns /\ outcome'[x] = "pending" /\ x \in Pending(t)
      BY <1>1, <1>7 DEF Pending
    <2>2. Carries(queue[t], x) \/ Carries(loop[t][l].batch, x)
      BY <1>1, <2>1 DEF Keeps, Carried
    <2> QED
      BY <2>1, <2>2
  <1>10. (syncStatus[t] = "idle" => Pending(t) = {})'
    BY <1>1, <1>7 DEF Keeps
  <1>11. Keeps(t)'
    BY <1>5, <1>6, <1>8, <1>9, <1>10 DEF Keeps
  <1> QED
    BY <1>2, <1>3, <1>11, KeepTab

\* A step of a loop that has and knows what it had, and answers nothing.
LEMMA LoopGoesOn ==
  ASSUME KeepInv, OnceInv', NEW t \in Tabs, NEW l \in Loops, NEW lp,
         SetLoop(t, l, lp), loop[t][l].pc # "off", loop[t][l].pc # "poll",
         lp.pc \notin {"off", "poll"},
         lp.batch = loop[t][l].batch, lp.details = loop[t][l].details, ~lp.aborted,
         UNCHANGED <<page, queue, isPolling, controller, edits, outcome, lastEdit>>,
         \A u \in Tabs \ {t} : syncStatus'[u] = syncStatus[u],
         syncStatus'[t] = "idle" => syncStatus[t] = "idle"
  PROVE  KeepInv'
PROOF
  <1>1. Keeps(t)
    BY DEF KeepInv
  <1>2. KnownTo(lp) = KnownTo(loop[t][l])
    BY DEF KnownTo
  <1>3. Supplied(lp.batch, KnownTo(lp)) /\ InEditOrder(lp.batch, edits[t])
    BY <1>1, <1>2 DEF Keeps, Equipped, LinedUp
  <1>4. SavedBefore(t)'
    BY <1>1 DEF Keeps, SavedBefore
  <1>5. LastIsPending(t)'
    BY <1>1 DEF Keeps, LastIsPending, Pending
  <1> QED
    BY <1>2, <1>3, <1>4, <1>5, LoopKeeps

\* Answering the command in hand leaves no unanswered edit before a saved one, and
\* clears $lastTransactionId only when it was the last.
LEMMA AnswerKeeps ==
  ASSUME KeepInv, NEW t \in Tabs, NEW l \in Loops, NEW saved,
         loop[t][l].pc \in {"batch", "wait"},
         InHand(t, l).type = "transactions",
         Complete(t, InHand(t, l).transactions, saved),
         UNCHANGED edits
  PROVE  /\ SavedBefore(t)' /\ LastIsPending(t)'
         /\ \A x \in Txns : outcome'[x] # outcome[x] =>
              InCommand(InHand(t, l), x) /\ outcome'[x] # "pending"
         /\ \A x \in Txns : InCommand(InHand(t, l), x) => outcome'[x] # "pending"
         /\ \A u \in Tabs \ {t} : lastEdit'[u] = lastEdit[u]
PROOF
  <1> DEFINE b == loop[t][l].batch
             es == edits[t]
             In(x) == InCommand(InHand(t, l), x)
  <1>1. /\ b \in Seq(Commands) /\ b # <<>> /\ es \in Seq(Txns) /\ Keeps(t)
        /\ PQTypeOK /\ ToSet(es) \subseteq Txns
    BY KeepTyped, InHandTyped
  <1>2. /\ \A x \in Txns : outcome'[x] =
             IF ~ In(x) THEN outcome[x] ELSE IF x \in saved THEN "saved" ELSE "unsaved"
        /\ lastEdit'[t] = IF lastEdit[t] \in ToSet(InHand(t, l).transactions) THEN NoTxn
                          ELSE lastEdit[t]
        /\ \A u \in Tabs \ {t} : lastEdit'[u] = lastEdit[u]
    BY <1>1 DEF Complete, InCommand, PQTypeOK
  <1>3. \A x \in ToSet(InHand(t, l).transactions) : x \in Txns /\ In(x)
    <2>1. InHand(t, l).transactions \in Seq(Txns)
      BY InHandTyped, KeepTyped DEF Commands
    <2> QED
      BY <2>1 DEF ToSet, InCommand
  <1>4. /\ \A x, y \in Txns : In(x) /\ Carries(Tail(b), y) => Before(es, x, y)
        /\ \A x \in Txns : Carries(b, x) <=> In(x) \/ Carries(Tail(b), x)
    BY <1>1, TailInOrder DEF Keeps, LinedUp, InHand
  <1>5. ASSUME NEW x \in Txns, In(x), NEW y \in Pending(t), ~ In(y)
        PROVE  Before(es, x, y)
    <2>1. y \in Txns
      BY <1>1 DEF Pending
    <2>2. Carries(queue[t], y) \/ Carries(b, y)
      BY <1>1 DEF Keeps, Carried
    <2>3. Carries(b, x)
      BY <1>4, <1>5
    <2>4. CASE Carries(queue[t], y)
      BY <1>1, <2>1, <2>3, <2>4 DEF Keeps, LinedUp
    <2>5. CASE Carries(b, y)
      BY <1>4, <1>5, <2>1, <2>5
    <2> QED
      BY <2>2, <2>4, <2>5
  <1>6. /\ \A i, j \in DOMAIN es : i < j => ~ Before(es, es[j], es[i])
        /\ es # <<>> => \A x : ~ Before(es, es[Len(es)], x)
    BY <1>1, BeforeStrict DEF Keeps, LinedUp
  <1>7. \A i \in DOMAIN es : es[i] \in ToSet(es) /\ es[i] \in Txns
    BY <1>1 DEF ToSet
  <1>8. SavedBefore(t)'
    <2> SUFFICES ASSUME NEW i \in DOMAIN es, NEW j \in DOMAIN es, i < j,
                        outcome'[es[j]] = "saved", outcome'[es[i]] = "pending"
                 PROVE  FALSE
      BY DEF SavedBefore
    <2>1. es[i] \in Pending(t) /\ ~ In(es[i])
      BY <1>2, <1>7 DEF Pending
    <2>2. outcome[es[j]] # "saved"
      BY <1>1, <2>1 DEF Keeps, SavedBefore, Pending
    <2>3. In(es[j])
      BY <1>2, <1>7, <2>2
    <2> QED
      BY <1>5, <1>6, <1>7, <2>1, <2>3
  <1>9. Pending(t)' \subseteq {y \in Pending(t) : ~ In(y)}
    <2> SUFFICES ASSUME NEW y \in Pending(t)' PROVE y \in Pending(t) /\ ~ In(y)
      OBVIOUS
    <2>1. y \in Txns /\ y \in ToSet(es) /\ outcome'[y] = "pending"
      BY <1>1 DEF Pending
    <2> QED
      BY <1>2, <2>1 DEF Pending
  <1>10. LastIsPending(t)'
    <2>1. LastIsPending(t)
      BY <1>1 DEF Keeps
    <2>2. CASE lastEdit[t] = NoTxn
      BY <1>2, <1>9, <2>1, <2>2 DEF LastIsPending
    <2>3. CASE lastEdit[t] # NoTxn /\ In(lastEdit[t])
      <3>1. es # <<>> /\ es[Len(es)] = lastEdit[t] /\ lastEdit[t] \in Txns
        BY <1>1, <2>1, <2>3 DEF LastIsPending, PQTypeOK
      <3>2. Pending(t)' = {}
        BY <1>5, <1>6, <1>9, <2>3, <3>1
      <3>3. lastEdit'[t] = NoTxn
        BY <1>2, <2>3 DEF InCommand
      <3> QED
        BY <3>2, <3>3 DEF LastIsPending
    <2>4. CASE lastEdit[t] # NoTxn /\ ~ In(lastEdit[t])
      <3>1. lastEdit'[t] = lastEdit[t] /\ lastEdit[t] \in Txns
        BY <1>1, <1>2, <1>3, <2>4 DEF PQTypeOK
      <3> QED
        BY <1>2, <2>1, <2>4, <3>1 DEF LastIsPending
    <2> QED
      BY <2>2, <2>3, <2>4
  <1> QED
    BY <1>2, <1>8, <1>10

-----------------------------------------------------------------------------
(* One lemma per kind of action. *)

LEMMA KeepInit ==
  PQInit => KeepInv
PROOF
  <1> SUFFICES ASSUME PQInit PROVE KeepInv
    OBVIOUS
  <1>1. OnceInv
    BY OnceInit
  <1>2. ASSUME NEW t \in Tabs PROVE Keeps(t)
    <2>1. /\ queue[t] = <<>> /\ edits[t] = <<>> /\ page[t].phase = "closed"
          /\ ~isPolling[t] /\ controller[t] = NoLoop /\ lastEdit[t] = NoTxn
          /\ \A l \in Loops : loop[t][l] = OffLoop
      BY DEF PQInit, ClosedPage
    <2>2. Pending(t) = {}
      BY <2>1 DEF Pending, ToSet
    <2>3. Manned(t) /\ Equipped(t) /\ Carried(t)
      BY <2>1 DEF Manned, Equipped, Carried, OffLoop
    <2>4. LinedUp(t)
      BY <2>1, EmptyList, EmptyCarries DEF LinedUp, OffLoop
    <2>5. SavedBefore(t) /\ LastIsPending(t)
      BY <2>1, <2>2 DEF SavedBefore, LastIsPending
    <2> QED
      BY <2>2, <2>3, <2>4, <2>5 DEF Keeps
  <1> QED
    BY <1>1, <1>2 DEF KeepInv

\* With the page all that was to be saved goes.
LEMMA ReloadKeeps ==
  ASSUME KeepInv, OnceInv', NEW t \in Tabs, Reload(t)
  PROVE  KeepInv'
PROOF
  <1>1. PQTypeOK
    BY KeepTyped
  <1>2. /\ queue'[t] = <<>> /\ edits'[t] = <<>> /\ page'[t].phase = "closed"
        /\ ~isPolling'[t] /\ controller'[t] = NoLoop /\ lastEdit'[t] = NoTxn
        /\ \A l \in Loops : loop'[t][l] = OffLoop
    BY <1>1 DEF Reload, PQTypeOK, ClosedPage
  <1>3. Pending(t)' = {}
    BY <1>2 DEF Pending, ToSet
  <1>4. Manned(t)' /\ Equipped(t)' /\ Carried(t)'
    BY <1>2 DEF Manned, Equipped, Carried, OffLoop
  <1>5. LinedUp(t)'
    BY <1>2, EmptyList, EmptyCarries DEF LinedUp, OffLoop
  <1>6. SavedBefore(t)' /\ LastIsPending(t)'
    BY <1>2, <1>3 DEF SavedBefore, LastIsPending
  <1>7. Keeps(t)'
    BY <1>3, <1>4, <1>5, <1>6 DEF Keeps
  <1>8. \A u \in Tabs \ {t} :
          /\ page'[u] = page[u] /\ queue'[u] = queue[u] /\ loop'[u] = loop[u]
          /\ isPolling'[u] = isPolling[u] /\ controller'[u] = controller[u]
          /\ syncStatus'[u] = syncStatus[u] /\ lastEdit'[u] = lastEdit[u]
          /\ edits'[u] = edits[u]
    BY <1>1 DEF Reload, PQTypeOK, SetStatus
  <1>9. \A x \in Txns : outcome'[x] # outcome[x] => x \in ToSet(edits[t])
    BY DEF Reload
  <1> QED
    BY <1>7, <1>8, <1>9, KeepTab

\* A step of the page alone, which may be left or get another build, but is opened
\* by EnqueueProjectDetails only.
LEMMA PageKeeps ==
  ASSUME KeepInv, OnceInv', NEW t \in Tabs, page'[t].phase # "open",
         \A u \in Tabs \ {t} : page'[u] = page[u],
         UNCHANGED <<queueVars, edits>>
  PROVE  KeepInv'
PROOF
  <1>1. Keeps(t)
    BY DEF KeepInv
  <1>2. Manned(t)' /\ LinedUp(t)'
    BY <1>1 DEF Keeps, Manned, LinedUp, queueVars
  <1>3. Equipped(t)'
    BY <1>1 DEF Keeps, Equipped, queueVars
  <1>4. Carried(t)' /\ SavedBefore(t)'
    BY <1>1 DEF Keeps, Carried, SavedBefore, Pending, queueVars
  <1>5. LastIsPending(t)' /\ (syncStatus[t] = "idle" => Pending(t) = {})'
    BY <1>1 DEF Keeps, LastIsPending, Pending, queueVars
  <1>6. Keeps(t)'
    BY <1>2, <1>3, <1>4, <1>5 DEF Keeps
  <1> QED
    BY <1>6, KeepTab DEF queueVars

\* stopPolling where nothing polls.
LEMMA StopPollingKeeps ==
  ASSUME KeepInv, OnceInv', NEW t \in Tabs, StopPolling(t), StopsByReload(t),
         page'[t].phase # "open", \A u \in Tabs \ {t} : page'[u] = page[u],
         UNCHANGED edits
  PROVE  KeepInv'
PROOF
  <1>1. PQTypeOK /\ Keeps(t)
    BY KeepTyped
  <1>2. CASE isPolling[t]
    <2>1. ~isPolling'[t]
      BY <1>1 DEF StopPolling, PQTypeOK
    <2>2. Reload(t)
      BY <1>2, <2>1 DEF StopsByReload
    <2> QED
      BY <2>2, ReloadKeeps
  <1>3. CASE ~isPolling[t]
    <2>1. controller[t] = NoLoop
      BY <1>1, <1>3 DEF Keeps, Manned
    <2>2. UNCHANGED isPolling /\ UNCHANGED controller
      BY <1>1, <1>3, <2>1 DEF StopPolling, PQTypeOK
    <2>3. UNCHANGED loop
      <3>1. \A l \in Loops : l # controller[t]
        BY <2>1
      <3>2. [l \in Loops |-> IF l = controller[t] /\ loop[t][l].pc # "off"
                               THEN [loop[t][l] EXCEPT !.aborted = TRUE]
                               ELSE loop[t][l]] = loop[t]
        BY <1>1, <3>1 DEF PQTypeOK
      <3> QED
        BY <1>1, <3>2 DEF StopPolling, PQTypeOK
    <2> QED
      BY <2>2, <2>3, PageKeeps DEF StopPolling, queueVars
  <1> QED
    BY <1>2, <1>3

\* A page opens: its details join the queue, or the batch of a loop that starts.
LEMMA EnqueueProjectDetailsKeeps ==
  ASSUME KeepInv, OnceInv', NEW t \in Tabs, EnqueueProjectDetails(t)
  PROVE  KeepInv'
PROOF
  <1> DEFINE command == SetDetails(page[t].project, page[t].version)
             commands == Enqueue(queue[t], command)
             p == page[t].project
  <1>1. /\ queue[t] \in Seq(Commands) /\ edits[t] \in Seq(Txns)
        /\ PQTypeOK /\ Keeps(t) /\ page[t] \in SoundPages
        /\ \A l \in Loops : loop[t][l] \in SoundLoops
    BY KeepTyped
  <1>2. /\ command \in Commands /\ \A x \in Txns : ~ InCommand(command, x)
        /\ command.type = "setDetails" /\ command.project = p
    <2>1. page[t].project \in Projects /\ page[t].version \in Nat
      BY <1>1 DEF EnqueueProjectDetails, SoundPages, Pages
    <2> QED
      BY <2>1, CommandsTyped DEF InCommand, SetDetails
  <1>3. /\ page'[t].phase = "open" /\ page'[t].project = p
        /\ \A u \in Tabs \ {t} : page'[u] = page[u]
    BY <1>1 DEF EnqueueProjectDetails, PQTypeOK, SoundPages, Pages
  <1>4. UNCHANGED <<committedVersion, lastEdit, outcome, edits>>
    BY DEF EnqueueProjectDetails
  <1>5. /\ commands \in Seq(Commands)
        /\ \A x \in Txns : Carries(commands, x) <=> Carries(queue[t], x)
        /\ InEditOrder(commands, edits[t])
        /\ p \in Supplies(commands)
        /\ \A known : Supplied(queue[t], known) => Supplied(commands, known)
    <2>1. InEditOrder(queue[t], edits[t])
      BY <1>1 DEF Keeps, LinedUp
    <2> HIDE DEF command
    <2>2. commands \in Seq(Commands) /\ InEditOrder(commands, edits[t])
      BY <1>1, <1>2, <2>1, EnqueueTyped, EnqueueInOrder
    <2>3. \A x \in Txns : Carries(commands, x) <=> Carries(queue[t], x)
      BY <1>1, <1>2, EnqueueCarries
    <2>4. Supplied(queue[t], Projects) => p \in Supplies(commands)
      BY <1>1, <1>2, EnqueueSupplied
    <2>5. Supplied(queue[t], Projects)
      <3>1. \A i \in DOMAIN queue[t] : queue[t][i] \in Commands
        BY <1>1
      <3> QED
        BY <3>1 DEF Supplied, Commands
    <2>6. \A known : Supplied(queue[t], known) => Supplied(commands, known)
      BY <1>1, <1>2, EnqueueSupplied
    <2> QED
      BY <2>2, <2>3, <2>4, <2>5, <2>6
  <1> HIDE DEF command, commands
  <1>6. Pending(t)' = Pending(t) /\ SavedBefore(t)' /\ LastIsPending(t)'
    BY <1>1, <1>4 DEF Keeps, Pending, SavedBefore, LastIsPending
  <1>7. CASE /\ controller[t] # NoLoop
             /\ queue' = [queue EXCEPT ![t] = commands]
             /\ UNCHANGED <<isPolling, controller, loop, syncStatus>>
    <2>1. queue'[t] = commands /\ \A u \in Tabs \ {t} : queue'[u] = queue[u]
      BY <1>1, <1>7 DEF PQTypeOK
    <2>2. Manned(t)'
      BY <1>1, <1>7, <2>1 DEF Keeps, Manned
    <2>3. LinedUp(t)'
      BY <1>1, <1>4, <1>5, <1>7, <2>1 DEF Keeps, LinedUp
    <2>4. Equipped(t)'
      BY <1>1, <1>3, <1>5, <1>7, <2>1 DEF Keeps, Equipped
    <2>5. Carried(t)'
      <3>1. Pending(t) \subseteq Txns
        BY KeepTyped DEF Pending
      <3> QED
        BY <1>1, <1>5, <1>6, <1>7, <2>1, <3>1 DEF Keeps, Carried
    <2>6. (syncStatus[t] = "idle" => Pending(t) = {})'
      BY <1>1, <1>6, <1>7 DEF Keeps
    <2>7. Keeps(t)'
      BY <1>6, <2>2, <2>3, <2>4, <2>5, <2>6 DEF Keeps
    <2> QED
      BY <1>3, <1>4, <1>7, <2>1, <2>7, KeepTab
  <1>8. ASSUME controller[t] = NoLoop,
               NEW l \in Loops, loop[t][l].pc = "off",
               controller' = [controller EXCEPT ![t] = l],
               SetLoop(t, l, Taken(OffLoop, commands)),
               isPolling' = [isPolling EXCEPT ![t] = TRUE],
               queue' = [queue EXCEPT ![t] = <<>>],
               SetStatus(t, "syncing")
        PROVE  KeepInv'
    <2> DEFINE lp == Taken(OffLoop, commands)
    <2>1. /\ queue[t] = <<>> /\ edits[t] = <<>>
          /\ \A k \in Loops : loop[t][k].pc = "off"
      BY <1>1, <1>8 DEF Keeps, Manned
    <2>2. Pending(t) = {}
      BY <2>1 DEF Pending, ToSet
    <2>3. /\ queue'[t] = <<>> /\ controller'[t] = l /\ isPolling'[t]
          /\ loop'[t][l] = lp /\ \A k \in Loops \ {l} : loop'[t][k] = loop[t][k]
          /\ syncStatus'[t] = "syncing"
          /\ \A u \in Tabs \ {t} :
               /\ queue'[u] = queue[u] /\ loop'[u] = loop[u]
               /\ isPolling'[u] = isPolling[u] /\ controller'[u] = controller[u]
               /\ syncStatus'[u] = syncStatus[u]
      BY <1>1, <1>8 DEF PQTypeOK, SetLoop, SetStatus
    <2>4. /\ lp.batch = commands /\ ~lp.aborted /\ lp.pc \in {"poll", "batch"}
          /\ (lp.pc = "poll" => commands = <<>>)
      BY DEF Taken, OffLoop
    <2> HIDE DEF lp
    <2>5. Manned(t)'
      BY <1>1, <1>8, <2>1, <2>3, <2>4 DEF Keeps, Manned
    <2>6. LinedUp(t)'
      BY <1>1, <1>4, <1>5, <2>1, <2>3, <2>4, EmptyList, EmptyCarries DEF Keeps, LinedUp
    <2>7. Equipped(t)'
      <3>1. Supplied(commands, KnownTo(lp))
        BY <1>5, <2>1, EmptyList
      <3> QED
        BY <1>3, <1>5, <2>1, <2>3, <2>4, <3>1, EmptyList DEF Equipped
    <2>8. Carried(t)'
      BY <1>6, <2>2 DEF Carried
    <2>9. Keeps(t)'
      BY <1>6, <2>2, <2>5, <2>6, <2>7, <2>8 DEF Keeps
    <2> QED
      BY <1>3, <1>4, <2>3, <2>9, KeepTab
  <1> QED
    BY <1>7, <1>8 DEF EnqueueProjectDetails, command, commands

\* An edit is the last one, and joins the queue behind all that is unanswered.
LEMMA SendTransactionKeeps ==
  ASSUME KeepInv, OnceInv', NEW t \in Tabs, NEW x \in Txns, SendTransaction(t, x)
  PROVE  KeepInv'
PROOF
  <1> DEFINE command == Transactions(page[t].project, <<x>>)
             es == edits[t]
  <1>1. /\ queue[t] \in Seq(Commands) /\ es \in Seq(Txns) /\ ToSet(es) \subseteq Txns
        /\ PQTypeOK /\ Keeps(t) /\ page[t] \in SoundPages /\ OnceInv
    BY KeepTyped
  <1>2. /\ command \in Commands /\ \A y \in Txns : InCommand(command, y) <=> y = x
        /\ command.type = "transactions" /\ command.project = page[t].project
        /\ page[t].phase = "open"
    <2>1. page[t].project \in Projects
      BY <1>1 DEF SendTransaction, SoundPages, Pages
    <2>2. ToSet(<<x>>) = {x}
      BY DEF ToSet
    <2> QED
      BY <2>1, <2>2, CommandsTyped DEF InCommand, Transactions, SendTransaction
  <1>3. /\ edits'[t] = Append(es, x) /\ outcome[x] = "fresh" /\ outcome'[x] = "pending"
        /\ \A y \in Txns \ {x} : outcome'[y] = outcome[y]
        /\ lastEdit'[t] = x /\ syncStatus'[t] = "syncing"
        /\ queue'[t] = Enqueue(queue[t], command)
        /\ UNCHANGED <<page, isPolling, controller, loop>>
        /\ \A u \in Tabs \ {t} :
             /\ edits'[u] = edits[u] /\ lastEdit'[u] = lastEdit[u]
             /\ queue'[u] = queue[u] /\ syncStatus'[u] = syncStatus[u]
    BY <1>1 DEF SendTransaction, PQTypeOK, SetStatus
  <1> HIDE DEF command
  <1>4. x \notin ToSet(es) /\ ToSet(edits'[t]) = ToSet(es) \cup {x}
    BY <1>1, <1>3, ToSetAppend DEF OnceInv
  <1>5. /\ \A y, z \in Txns : Before(es, y, z) => Before(edits'[t], y, z)
        /\ \A y \in ToSet(es) : Before(edits'[t], y, x)
    BY <1>1, <1>3, BeforeAppend
  <1>6. \A y \in Txns : Carries(queue'[t], y) <=> Carries(queue[t], y) \/ y = x
    BY <1>1, <1>2, <1>3, EnqueueCarries
  <1>7. \A y \in Txns, l \in Loops :
          Carries(queue[t], y) \/ Carries(loop[t][l].batch, y) => y \in ToSet(es)
    BY <1>1 DEF OnceInv, CarriedBy
  <1>8. Pending(t)' = Pending(t) \cup {x}
    BY <1>1, <1>3, <1>4 DEF Pending
  <1>9. Manned(t)'
    BY <1>1, <1>2, <1>3 DEF Keeps, Manned
  <1>10. LinedUp(t)'
    <2>1. \A i, j \in DOMAIN edits'[t] : edits'[t][i] = edits'[t][j] => i = j
      BY <1>1, <1>3, <1>4, AppendDistinct DEF Keeps, LinedUp
    <2>2. /\ InEditOrder(queue[t], edits'[t])
          /\ \A l \in Loops : InEditOrder(loop[t][l].batch, edits'[t])
      <3>1. LinedUp(t)
        BY <1>1 DEF Keeps
      <3>2. /\ InEditOrder(queue[t], es)
            /\ \A l \in Loops : InEditOrder(loop[t][l].batch, es)
        BY <3>1 DEF LinedUp
      <3> QED
        BY <1>5, <3>2 DEF InEditOrder
    <2>3. \A y, z \in Txns : Carries(queue[t], y) /\ InCommand(command, z) =>
            Before(edits'[t], y, z)
      <3>1. \A y \in Txns : Carries(queue[t], y) => y \in ToSet(es)
        BY <1>1 DEF OnceInv, CarriedBy
      <3> QED
        BY <1>2, <1>5, <3>1
    <2>4. InEditOrder(queue'[t], edits'[t])
      BY <1>1, <1>2, <1>3, <2>2, <2>3, EnqueueInOrder
    <2>5. ASSUME NEW l \in Loops, NEW y \in Txns, NEW z \in Txns,
                 Carries(loop[t][l].batch, y), Carries(queue'[t], z)
          PROVE  Before(edits'[t], y, z)
      BY <1>1, <1>5, <1>6, <1>7, <2>5 DEF Keeps, LinedUp
    <2> QED
      BY <1>3, <2>1, <2>2, <2>4, <2>5 DEF LinedUp
  <1>11. Equipped(t)'
    <2> SUFFICES ASSUME NEW l \in Loops, loop[t][l].pc # "off"
                 PROVE  LET known == KnownTo(loop[t][l]) \cup Supplies(loop[t][l].batch) IN
                        /\ Supplied(loop[t][l].batch, KnownTo(loop[t][l]))
                        /\ Supplied(queue'[t], known)
                        /\ page[t].project \in known \cup Supplies(queue'[t])
      BY <1>3 DEF Equipped
    <2> DEFINE known == KnownTo(loop[t][l]) \cup Supplies(loop[t][l].batch)
    <2>1. /\ Supplied(loop[t][l].batch, KnownTo(loop[t][l]))
          /\ Supplied(queue[t], known)
          /\ page[t].project \in known \cup Supplies(queue[t])
      BY <1>1, <1>2 DEF Keeps, Equipped
    <2> HIDE DEF known
    <2>2. Supplied(queue'[t], known) /\ Supplies(queue[t]) \subseteq Supplies(queue'[t])
      BY <1>1, <1>2, <1>3, <2>1, EnqueueSupplied
    <2> QED
      BY <2>1, <2>2 DEF known
  <1>12. Carried(t)'
    <2>1. Pending(t) \subseteq Txns
      BY <1>1 DEF Pending
    <2> QED
      BY <1>1, <1>3, <1>6, <1>8, <2>1 DEF Keeps, Carried
  <1>13. SavedBefore(t)'
    <2> SUFFICES ASSUME NEW i \in DOMAIN edits'[t], NEW j \in DOMAIN edits'[t], i < j,
                        outcome'[edits'[t][j]] = "saved"
                 PROVE  outcome'[edits'[t][i]] # "pending"
      BY DEF SavedBefore
    <2>1. \A k \in DOMAIN edits'[t] :
            \/ k = Len(es) + 1 /\ edits'[t][k] = x
            \/ k \in DOMAIN es /\ edits'[t][k] = es[k] /\ es[k] \in Txns /\ es[k] # x
               /\ k < Len(es) + 1
      BY <1>1, <1>3, <1>4 DEF ToSet
    <2>2. j \in DOMAIN es /\ edits'[t][j] = es[j] /\ es[j] \in Txns /\ es[j] # x
      BY <1>3, <2>1
    <2>3. i \in DOMAIN es /\ edits'[t][i] = es[i] /\ es[i] \in Txns /\ es[i] # x
      BY <1>1, <2>1, <2>2
    <2> QED
      BY <1>1, <1>3, <2>2, <2>3 DEF Keeps, SavedBefore
  <1>14. LastIsPending(t)'
    BY <1>1, <1>3 DEF LastIsPending
  <1>15. Keeps(t)'
    BY <1>3, <1>9, <1>10, <1>11, <1>12, <1>13, <1>14 DEF Keeps
  <1> QED
    BY <1>3, <1>15, KeepTab

\* The queue is taken by a loop that has nothing in hand.
LEMMA PollKeeps ==
  ASSUME KeepInv, OnceInv', NEW t \in Tabs, NEW l \in Loops, Poll(t, l)
  PROVE  KeepInv'
PROOF
  <1> DEFINE lp == Taken(loop[t][l], queue[t])
  <1>1. /\ PQTypeOK /\ Keeps(t) /\ queue[t] \in Seq(Commands)
        /\ loop[t][l] \in SoundLoops
    BY KeepTyped
  <1>2. /\ loop[t][l].batch = <<>> /\ l = controller[t] /\ ~loop[t][l].aborted /\ isPolling[t]
        /\ \A k \in Loops \ {l} : loop[t][k].pc = "off" /\ loop[t][k].batch = <<>>
    BY <1>1 DEF Poll, Keeps, Manned
  <1>3. /\ lp.batch = queue[t] /\ lp.details = loop[t][l].details /\ ~lp.aborted
        /\ lp.pc \in {"poll", "batch"} /\ (lp.pc = "poll" => queue[t] = <<>>)
    BY <1>1, <1>2 DEF Taken, SoundLoops, LoopStates
  <1>4. /\ queue'[t] = <<>> /\ loop'[t][l] = lp
        /\ \A k \in Loops \ {l} : loop'[t][k] = loop[t][k]
        /\ syncStatus'[t] = "idle" => queue[t] = <<>>
        /\ UNCHANGED <<page, isPolling, controller, lastEdit, outcome, edits>>
        /\ \A u \in Tabs \ {t} :
             /\ queue'[u] = queue[u] /\ loop'[u] = loop[u] /\ syncStatus'[u] = syncStatus[u]
    BY <1>1 DEF Poll, PQTypeOK, SetLoop, SetStatus, PollStatus
  <1> HIDE DEF lp
  <1>5. KnownTo(lp) = KnownTo(loop[t][l])
    BY <1>3 DEF KnownTo
  <1>6. Manned(t)'
    BY <1>1, <1>2, <1>3, <1>4 DEF Keeps, Manned
  <1>7. LinedUp(t)'
    BY <1>1, <1>2, <1>3, <1>4, EmptyList, EmptyCarries DEF Keeps, LinedUp
  <1>8. Equipped(t)'
    <2>1. /\ Supplied(queue[t], KnownTo(loop[t][l]))
          /\ page[t].phase = "open" =>
               page[t].project \in KnownTo(loop[t][l]) \cup Supplies(queue[t])
      BY <1>1, <1>2, EmptyList DEF Keeps, Equipped, Poll
    <2> QED
      BY <1>2, <1>3, <1>4, <1>5, <2>1, EmptyList DEF Equipped
  <1>9. Pending(t)' = Pending(t)
    BY <1>4 DEF Pending
  <1>10. \A x \in Pending(t) : Carries(queue[t], x)
    BY <1>1, <1>2, EmptyCarries DEF Keeps, Carried, Poll
  <1>11. Carried(t)'
    BY <1>2, <1>3, <1>4, <1>9, <1>10 DEF Carried
  <1>12. SavedBefore(t)' /\ LastIsPending(t)'
    BY <1>1, <1>4, <1>9 DEF Keeps, SavedBefore, LastIsPending
  <1>13. (syncStatus[t] = "idle" => Pending(t) = {})'
    BY <1>4, <1>9, <1>10, EmptyCarries
  <1>14. Keeps(t)'
    BY <1>6, <1>7, <1>8, <1>11, <1>12, <1>13 DEF Keeps
  <1> QED
    BY <1>4, <1>14, KeepTab

\* A fatal error ends the loop: nothing more is promised of what it held.
LEMMA HaltKeeps ==
  ASSUME KeepInv, OnceInv', NEW t \in Tabs, NEW l \in Loops, loop[t][l].pc # "off",
         Halt(t, l), UNCHANGED <<page, queue, isPolling, controller, edits>>,
         \A x \in Txns : outcome'[x] # outcome[x] =>
           Carries(loop[t][l].batch, x) /\ outcome'[x] # "pending",
         SavedBefore(t)', LastIsPending(t)',
         \A u \in Tabs \ {t} : lastEdit'[u] = lastEdit[u]
  PROVE  KeepInv'
PROOF
  <1>1. PQTypeOK
    BY KeepTyped
  <1>2. /\ OffLoop.pc = "off" /\ OffLoop.batch = <<>> /\ ~OffLoop.aborted
        /\ SetLoop(t, l, OffLoop) /\ syncStatus'[t] = "fatal"
        /\ \A u \in Tabs \ {t} : syncStatus'[u] = syncStatus[u]
    BY <1>1 DEF OffLoop, Halt, SetStatus, PQTypeOK
  <1> QED
    BY <1>2, EmptyList, EmptyCarries, LoopKeeps

\* The loop is done with the command in hand, knows what it says, and has answered
\* its transactions.
LEMMA DoneKeeps ==
  ASSUME KeepInv, OnceInv', NEW t \in Tabs, NEW l \in Loops, NEW v \in Nat,
         loop[t][l].pc \in {"batch", "wait"},
         SetLoop(t, l, Done([loop[t][l] EXCEPT !.details[InHand(t, l).project] = v])),
         UNCHANGED <<page, queue, isPolling, controller, edits, syncStatus>>,
         \A x \in Txns : outcome'[x] # outcome[x] =>
           InCommand(InHand(t, l), x) /\ outcome'[x] # "pending",
         \A x \in Txns : InCommand(InHand(t, l), x) => outcome'[x] # "pending",
         SavedBefore(t)', LastIsPending(t)',
         \A u \in Tabs \ {t} : lastEdit'[u] = lastEdit[u]
  PROVE  KeepInv'
PROOF
  <1> DEFINE b == loop[t][l].batch
             p == InHand(t, l).project
             noted == [loop[t][l] EXCEPT !.details[p] = v]
             lp == Done(noted)
  <1>1. /\ loop[t][l] \in SoundLoops /\ b # <<>> /\ b \in Seq(Commands)
        /\ p \in Projects /\ Keeps(t) /\ Head(b) = InHand(t, l)
    BY KeepTyped, InHandTyped DEF InHand
  <1>2. /\ noted.batch = b /\ noted.aborted = loop[t][l].aborted
        /\ noted.details = [loop[t][l].details EXCEPT ![p] = v]
        /\ noted \in SoundLoops
    BY <1>1, DetailsSound DEF SoundLoops, LoopStates
  <1> HIDE DEF noted
  <1>3. /\ lp.batch = Tail(b) /\ lp.aborted = loop[t][l].aborted
        /\ lp.details = noted.details
        /\ lp.pc \in {"poll", "batch"} /\ (lp.pc = "poll" => Tail(b) = <<>>)
    BY <1>2 DEF Done, SoundLoops, LoopStates
  <1>4. KnownTo(lp) = KnownTo(loop[t][l]) \cup {p}
    <2>1. loop[t][l].details \in [Projects -> Nat \cup {Unknown}] /\ v # Unknown
      BY <1>1 DEF SoundLoops, LoopStates, Unknown
    <2> QED
      BY <1>1, <1>2, <1>3, <2>1 DEF KnownTo
  <1>5. /\ Supplied(Tail(b), KnownTo(lp))
        /\ KnownTo(loop[t][l]) \cup Supplies(b) \subseteq KnownTo(lp) \cup Supplies(Tail(b))
    <2>1. Supplied(b, KnownTo(loop[t][l]))
      BY <1>1 DEF Keeps, Equipped
    <2> QED
      BY <1>1, <1>4, <2>1, TailSupplied
  <1>6. /\ InEditOrder(Tail(b), edits[t])
        /\ \A x \in Txns : Carries(b, x) <=> InCommand(InHand(t, l), x) \/ Carries(Tail(b), x)
    <2>1. InEditOrder(b, edits[t])
      BY <1>1 DEF Keeps, LinedUp
    <2> QED
      BY <1>1, <2>1, TailInOrder
  <1>7. SetLoop(t, l, lp) /\ ~loop[t][l].aborted
    BY <1>1 DEF noted, Keeps, Manned
  <1> HIDE DEF lp, p
  <1>8. /\ InEditOrder(lp.batch, edits[t]) /\ Supplied(lp.batch, KnownTo(lp))
        /\ KnownTo(loop[t][l]) \cup Supplies(loop[t][l].batch)
             \subseteq KnownTo(lp) \cup Supplies(lp.batch)
    BY <1>3, <1>5, <1>6
  <1>9. /\ \A x \in Txns : Carries(lp.batch, x) => Carries(loop[t][l].batch, x)
        /\ \A x \in Txns : outcome'[x] = "pending" /\ Carries(loop[t][l].batch, x) =>
             Carries(lp.batch, x)
        /\ \A x \in Txns : outcome'[x] # outcome[x] =>
             Carries(loop[t][l].batch, x) /\ outcome'[x] # "pending"
    BY <1>3, <1>6
  <1>10. ~lp.aborted /\ (lp.pc \in {"off", "poll"} => lp.batch = <<>>)
    BY <1>3, <1>7
  <1> HIDE DEF b
  <1> QED
    BY <1>7, <1>8, <1>9, <1>10, LoopKeeps

\* Details are the loop's to keep, or tell it that the page is outdated.
LEMMA TakeDetailsKeeps ==
  ASSUME KeepInv, OnceInv', NEW t \in Tabs, NEW l \in Loops, TakeDetails(t, l)
  PROVE  KeepInv'
PROOF
  <1> DEFINE command == InHand(t, l)
  <1>1. /\ loop[t][l] \in SoundLoops /\ command \in Commands
        /\ command.project \in Projects /\ Keeps(t)
        /\ command.type = "setDetails" /\ loop[t][l].pc = "batch"
    BY KeepTyped, InHandTyped DEF TakeDetails
  <1>2. command.version \in Nat /\ \A x \in Txns : ~ InCommand(command, x)
    BY <1>1 DEF Commands, InCommand
  <1>3. UNCHANGED <<page, queue, isPolling, controller, committedVersion, lastEdit,
                    outcome, edits>>
    BY DEF TakeDetails
  <1>4. SavedBefore(t)' /\ LastIsPending(t)'
    BY <1>1, <1>3 DEF Keeps, SavedBefore, LastIsPending, Pending
  <1>5. CASE Halt(t, l)
    BY <1>1, <1>3, <1>4, <1>5, HaltKeeps
  <1>6. CASE /\ SetLoop(t, l, Done([loop[t][l] EXCEPT !.details[command.project] =
                                        command.version]))
             /\ UNCHANGED syncStatus
    BY <1>1, <1>2, <1>3, <1>4, <1>6, DoneKeeps
  <1> QED
    BY <1>5, <1>6 DEF TakeDetails

\* Transactions that are given up are answered, and the loop ends.
LEMMA GiveUpKeeps ==
  ASSUME KeepInv, OnceInv', NEW t \in Tabs, NEW l \in Loops, NEW saved,
         loop[t][l].pc \in {"batch", "wait"},
         InHand(t, l).type = "transactions",
         Halt(t, l), Complete(t, InHand(t, l).transactions, saved),
         UNCHANGED <<page, queue, isPolling, controller, edits>>
  PROVE  KeepInv'
PROOF
  <1>1. /\ loop[t][l].batch \in Seq(Commands) /\ loop[t][l].batch # <<>>
        /\ Keeps(t) /\ Head(loop[t][l].batch) = InHand(t, l)
    BY KeepTyped, InHandTyped DEF InHand
  <1>2. \A x \in Txns : InCommand(InHand(t, l), x) => Carries(loop[t][l].batch, x)
    BY <1>1, TailInOrder DEF Keeps, LinedUp
  <1>3. /\ SavedBefore(t)' /\ LastIsPending(t)'
        /\ \A x \in Txns : outcome'[x] # outcome[x] =>
             InCommand(InHand(t, l), x) /\ outcome'[x] # "pending"
        /\ \A u \in Tabs \ {t} : lastEdit'[u] = lastEdit[u]
    BY AnswerKeeps
  <1> QED
    BY <1>2, <1>3, HaltKeeps

\* Transactions that are saved are answered, and the loop goes on with the version.
LEMMA ReceiveOkKeeps ==
  ASSUME KeepInv, OnceInv', NEW t \in Tabs, NEW l \in Loops, NEW result,
         result.version \in Nat, InHand(t, l).type = "transactions",
         ReceiveOk(t, l, result)
  PROVE  KeepInv'
PROOF
  <1>1. /\ loop[t][l].pc \in {"batch", "wait"}
        /\ Complete(t, InHand(t, l).transactions, ToSet(InHand(t, l).transactions))
        /\ SetLoop(t, l, Done([loop[t][l] EXCEPT !.details[InHand(t, l).project] =
                                   result.version]))
        /\ UNCHANGED <<page, queue, isPolling, controller, edits, syncStatus>>
    BY DEF ReceiveOk
  <1>2. /\ SavedBefore(t)' /\ LastIsPending(t)'
        /\ \A x \in Txns : outcome'[x] # outcome[x] =>
             InCommand(InHand(t, l), x) /\ outcome'[x] # "pending"
        /\ \A x \in Txns : InCommand(InHand(t, l), x) => outcome'[x] # "pending"
        /\ \A u \in Tabs \ {t} : lastEdit'[u] = lastEdit[u]
    BY <1>1, AnswerKeeps
  <1> QED
    BY <1>1, <1>2, DoneKeeps

\* A retry has in hand what it had.
LEMMA RetryKeeps ==
  ASSUME KeepInv, OnceInv', NEW t \in Tabs, NEW l \in Loops, loop[t][l].pc = "wait",
         NEW lp \in SoundLoops,
         lp.batch = loop[t][l].batch, lp.details = loop[t][l].details, ~lp.aborted,
         RetryLater(t, l, lp),
         UNCHANGED <<page, queue, isPolling, controller, committedVersion, lastEdit,
                     outcome, edits>>
  PROVE  KeepInv'
PROOF
  <1> DEFINE n == IF lp.attempts < MaxRetryRecovery THEN lp.attempts + 1 ELSE lp.attempts
             next == [lp EXCEPT !.pc = "send", !.attempts = n]
  <1>1. PQTypeOK
    BY KeepTyped
  <1>2. /\ next.pc = "send" /\ next.batch = loop[t][l].batch
        /\ next.details = loop[t][l].details /\ ~next.aborted
    BY DEF SoundLoops, LoopStates
  <1>3. SetLoop(t, l, next)
    BY DEF RetryLater, SoundLoops, LoopStates
  <1>4. syncStatus'[t] # "idle" /\ \A u \in Tabs \ {t} : syncStatus'[u] = syncStatus[u]
    BY <1>1 DEF RetryLater, SetStatus, PQTypeOK
  <1> HIDE DEF next
  <1> QED
    BY <1>2, <1>3, <1>4, LoopGoesOn

\* A loop that goes on to the next stage with the command it has in hand.
LEMMA StageKeeps ==
  ASSUME KeepInv, OnceInv', NEW t \in Tabs, NEW l \in Loops, NEW pc \in {"send", "wait"},
         loop[t][l].pc \in {"batch", "send"},
         SetLoop(t, l, [loop[t][l] EXCEPT !.pc = pc]),
         UNCHANGED <<page, queue, isPolling, controller, syncStatus, committedVersion,
                     lastEdit, outcome, edits>>
  PROVE  KeepInv'
PROOF
  <1> DEFINE next == [loop[t][l] EXCEPT !.pc = pc]
  <1>1. loop[t][l] \in SoundLoops /\ ~loop[t][l].aborted
    BY KeepTyped DEF Keeps, Manned
  <1>2. /\ next.pc = pc /\ next.batch = loop[t][l].batch
        /\ next.details = loop[t][l].details /\ ~next.aborted
    BY <1>1 DEF SoundLoops, LoopStates
  <1> HIDE DEF next
  <1> QED
    BY <1>2, LoopGoesOn DEF next

LEMMA StepKeeps ==
  ASSUME KeepInv, OnceInv', NEW t \in Tabs, NEW l \in Loops, Step(t, l)
  PROVE  KeepInv'
PROOF
  <1>1. CASE NoticeAbort(t, l)
    BY <1>1 DEF NoticeAbort, KeepInv, Keeps, Manned
  <1>2. CASE TakeUnknown(t, l)
    BY <1>2, GiveUpKeeps DEF TakeUnknown
  <1>3. CASE TakeTransactions(t, l)
    BY <1>3, StageKeeps DEF TakeTransactions
  <1> QED
    BY <1>1, <1>2, <1>3, PollKeeps, TakeDetailsKeeps DEF Step

\* What the server says, or the network instead of it.
LEMMA AnsweredKeeps ==
  ASSUME KeepInv, OnceInv', NEW t \in Tabs, NEW l \in Loops,
         Answered(t, l) \/ NetworkError(t, l)
  PROVE  KeepInv'
PROOF
  <1>1. /\ loop[t][l] \in SoundLoops /\ loop[t][l].pc = "wait" /\ ~loop[t][l].aborted
        /\ InHand(t, l).project \in Projects /\ Sends(loop[t][l])
    BY KeepTyped, InHandTyped DEF Answered, NetworkError, Keeps, Manned, OnceInv, Once
  <1>2. InHand(t, l).type = "transactions"
    BY <1>1 DEF Sends, InHand
  <1>3. CASE NetworkError(t, l)
    BY <1>1, <1>3, RetryKeeps DEF NetworkError
  <1>4. ASSUME NEW result \in Answers(t, l), Receive(t, l, result)
        PROVE  KeepInv'
    <2>1. CASE ReceiveOk(t, l, result)
      <3>1. loop[t][l].details[InHand(t, l).project] \in Nat \cup {-1}
        BY <1>1 DEF SoundLoops, LoopStates, Unknown
      <3>2. result.version \in Nat
        BY <3>1 DEF Answers
      <3> QED
        BY <1>2, <2>1, <3>2, ReceiveOkKeeps
    <2>2. CASE ReceiveRefusal(t, l, result)
      <3>1. PICK accepted : Complete(t, InHand(t, l).transactions, accepted)
        BY <2>2 DEF ReceiveRefusal
      <3> QED
        BY <1>1, <1>2, <2>2, <3>1, GiveUpKeeps DEF ReceiveRefusal
    <2>3. CASE ReceiveError(t, l, result)
      <3>1. CASE loop[t][l].errors < MaxAllowedApiErrors
        <4> DEFINE counted == [loop[t][l] EXCEPT !.errors = @ + 1]
        <4>1. /\ counted \in SoundLoops /\ counted.batch = loop[t][l].batch
              /\ counted.details = loop[t][l].details /\ ~counted.aborted
          BY <1>1, <3>1, CountedSound DEF SoundLoops, LoopStates
        <4>2. RetryLater(t, l, counted) /\ UNCHANGED <<lastEdit, outcome>>
          BY <2>3, <3>1 DEF ReceiveError
        <4> HIDE DEF counted
        <4> QED
          BY <1>1, <2>3, <4>1, <4>2, RetryKeeps DEF ReceiveError
      <3>2. CASE ~ (loop[t][l].errors < MaxAllowedApiErrors)
        BY <1>1, <1>2, <2>3, <3>2, GiveUpKeeps DEF ReceiveError
      <3> QED
        BY <3>1, <3>2
    <2> QED
      BY <1>4, <2>1, <2>2, <2>3 DEF Receive
  <1> QED
    BY <1>3, <1>4 DEF Answered

\* Of what the user does, only the end of polling needs to be the page's own.
LEMMA UseKeeps ==
  ASSUME KeepInv, OnceInv', NEW t \in Tabs, Use(t), StopsByReload(t)
  PROVE  KeepInv'
PROOF
  <1>1. PQTypeOK
    BY KeepTyped
  <1>2. ASSUME NEW p \in Projects, OpenProject(t, p)
        PROVE  KeepInv'
    <2>1. page'[t].phase # "open" /\ \A u \in Tabs \ {t} : page'[u] = page[u]
      BY <1>1, <1>2 DEF OpenProject, PQTypeOK
    <2> QED
      BY <1>2, <2>1, StopPollingKeeps, PageKeeps DEF OpenProject
  <1>3. CASE CloseDialog(t)
    <2>1. page'[t].phase # "open" /\ \A u \in Tabs \ {t} : page'[u] = page[u]
      BY <1>1, <1>3 DEF CloseDialog, PQTypeOK, ClosedPage
    <2> QED
      BY <1>3, <2>1, StopPollingKeeps DEF CloseDialog
  <1>4. CASE Unmount(t)
    <2>1. page'[t].phase # "open" /\ \A u \in Tabs \ {t} : page'[u] = page[u]
      BY <1>1, <1>4 DEF Unmount, PQTypeOK, ClosedPage
    <2> QED
      BY <1>4, <2>1, PageKeeps DEF Unmount
  <1> QED
    BY <1>2, <1>3, <1>4, EnqueueProjectDetailsKeeps, SendTransactionKeeps, ReloadKeeps DEF Use

-----------------------------------------------------------------------------

LEMMA KeepNext ==
  ASSUME KeepInv, [PQNext]_pqVars, [\A t \in Tabs : StopsByReload(t)]_pqVars
  PROVE  KeepInv'
PROOF
  <1>1. OnceInv'
    BY OnceNext DEF KeepInv
  <1>2. CASE UNCHANGED pqVars
    <2>1. UNCHANGED <<page, queue, isPolling, controller, loop, syncStatus, lastEdit,
                      outcome, edits>>
      BY <1>2 DEF pqVars, queueVars
    <2>2. ASSUME NEW t \in Tabs PROVE Keeps(t)'
      <3>1. Keeps(t)
        BY DEF KeepInv
      <3>2. Manned(t)' /\ LinedUp(t)'
        BY <2>1, <3>1 DEF Keeps, Manned, LinedUp
      <3>3. Equipped(t)'
        BY <2>1, <3>1 DEF Keeps, Equipped
      <3>4. Carried(t)' /\ SavedBefore(t)'
        BY <2>1, <3>1 DEF Keeps, Carried, SavedBefore, Pending
      <3>5. LastIsPending(t)' /\ (syncStatus[t] = "idle" => Pending(t) = {})'
        BY <2>1, <3>1 DEF Keeps, LastIsPending, Pending
      <3> QED
        BY <3>2, <3>3, <3>4, <3>5 DEF Keeps
    <2> QED
      BY <1>1, <2>2 DEF KeepInv
  <1>3. CASE PQNext /\ \A t \in Tabs : StopsByReload(t)
    <2>1. ASSUME NEW t \in Tabs, NEW v \in 0..MaxVersion, LoadData(t, v)
          PROVE  KeepInv'
      <3>1. page'[t].phase # "open" /\ \A u \in Tabs \ {t} : page'[u] = page[u]
        BY <2>1, KeepTyped DEF LoadData, PQTypeOK, Pages
      <3> QED
        BY <1>1, <2>1, <3>1, PageKeeps DEF LoadData
    <2>2. ASSUME NEW t \in Tabs, NEW l \in Loops, SendPatch(t, l)
          PROVE  KeepInv'
      BY <1>1, <2>2, StageKeeps DEF SendPatch
    <2> QED
      BY <1>1, <1>3, <2>1, <2>2, UseKeeps, StepKeeps, AnsweredKeeps DEF PQNext
  <1> QED
    BY <1>2, <1>3

\* A tab of the builder opens the project it has, and closes no dialog.
LEMMA BuilderStops ==
  ASSUME Builder, KeepInv, [PQNext]_pqVars
  PROVE  [\A t \in Tabs : StopsByReload(t)]_pqVars
PROOF
  <1> SUFFICES ASSUME NEW t \in Tabs, PQNext, isPolling[t], ~isPolling'[t]
               PROVE  Reload(t)
    BY DEF StopsByReload
  <1>1. isPolling \in [Tabs -> BOOLEAN] /\ page \in [Tabs -> Pages]
    BY KeepTyped DEF PQTypeOK
  <1>2. ASSUME NEW u \in Tabs, NEW p \in Projects, OpenProject(u, p)
        PROVE  UNCHANGED isPolling
    <2>1. page[u].client \in Projects \cup {NoProject}
      BY <1>1 DEF Pages
    <2>2. page[u].client \in {NoProject, p}
      BY <2>1 DEF Builder
    <2> QED
      BY <1>2, <2>2 DEF OpenProject, queueVars
  <1>3. ASSUME NEW u \in Tabs, EnqueueProjectDetails(u)
        PROVE  isPolling'[t]
    BY <1>1, <1>3 DEF EnqueueProjectDetails
  <1>4. ASSUME NEW u \in Tabs, CloseDialog(u)
        PROVE  FALSE
    BY <1>4 DEF CloseDialog, Builder
  <1>5. ASSUME NEW u \in Tabs, Reload(u)
        PROVE  Reload(t)
    BY <1>1, <1>5 DEF Reload
  <1>6. ASSUME NEW u \in Tabs, NEW l \in Loops, Step(u, l)
        PROVE  UNCHANGED isPolling
    <2>1. ~ NoticeAbort(u, l)
      BY DEF NoticeAbort, KeepInv, Keeps, Manned
    <2> QED
      BY <1>6, <2>1 DEF Step, Poll, TakeDetails, TakeUnknown, TakeTransactions
  <1>7. ASSUME NEW u \in Tabs, NEW l \in Loops,
               SendPatch(u, l) \/ NetworkError(u, l) \/ Answered(u, l)
        PROVE  UNCHANGED isPolling
    BY <1>7 DEF SendPatch, NetworkError, Answered, Receive, ReceiveOk, ReceiveRefusal,
                ReceiveError
  <1>8. ASSUME NEW u \in Tabs,
               \/ \E x \in Txns : SendTransaction(u, x)
               \/ Unmount(u)
               \/ \E v \in 0..MaxVersion : LoadData(u, v)
        PROVE  UNCHANGED isPolling
    BY <1>8 DEF SendTransaction, Unmount, LoadData, queueVars
  <1> QED
    BY <1>2, <1>3, <1>4, <1>5, <1>6, <1>7, <1>8 DEF PQNext, Use

-----------------------------------------------------------------------------
(* What is kept. *)

\* As long as polling ends with the page only, the loop of a tab has, or will take,
\* all that is unanswered, in the order of the edits and with the details it needs.
THEOREM KeepInvariant == PQSpec /\ PollsOn => []KeepInv
PROOF
  <1>1. PQInit => KeepInv
    BY KeepInit
  <1>2. KeepInv /\ [PQNext]_pqVars /\ [\A t \in Tabs : StopsByReload(t)]_pqVars => KeepInv'
    BY KeepNext
  <1> QED
    BY <1>1, <1>2, PTL DEF PQSpec, PollsOn

\* In a browser that has no dialogs and one project, whatever is reloaded, unmounted
\* and opened again, polling ends with the page only.
THEOREM BuilderPollsOn ==
  ASSUME Builder
  PROVE  PQSpec => PollsOn
PROOF
  <1>1. PQInit => KeepInv
    BY KeepInit
  <1>2. KeepInv /\ [PQNext]_pqVars =>
          KeepInv' /\ [\A t \in Tabs : StopsByReload(t)]_pqVars
    BY KeepNext, BuilderStops
  <1> QED
    BY <1>1, <1>2, PTL DEF PQSpec, PollsOn

\* What the invariant says about a tab that is looked at.
LEMMA KeptEdits ==
  ASSUME KeepInv
  PROVE  NoEditLost /\ IdleMeansSaved /\ SavedInOrder
PROOF
  <1>1. ASSUME NEW t \in Tabs, ~Halted(t), NEW x \in Pending(t)
        PROVE  \/ Carries(queue[t], x)
               \/ \E l \in Loops : ~loop[t][l].aborted /\ Carries(loop[t][l].batch, x)
    <2>1. Keeps(t) /\ controller[t] \in Loops \cup {NoLoop}
      BY KeepTyped DEF PQTypeOK
    <2>2. edits[t] # <<>>
      BY <1>1 DEF Pending, ToSet
    <2>3. controller[t] \in Loops
      BY <2>1, <2>2 DEF Keeps, Manned
    <2>4. loop[t][controller[t]].pc # "off" /\ ~loop[t][controller[t]].aborted
      BY <1>1, <2>1, <2>3 DEF Halted, Keeps, Manned
    <2> QED
      BY <1>1, <2>1, <2>3, <2>4 DEF Keeps, Carried
  <1>2. IdleMeansSaved /\ SavedInOrder
    BY DEF KeepInv, Keeps, IdleMeansSaved, SavedInOrder, SavedBefore
  <1> QED
    BY <1>1, <1>2 DEF NoEditLost

\* And about the command a loop has in hand.
LEMMA KeptDetails ==
  ASSUME KeepInv
  PROVE  DetailsPrecedeTransactions
PROOF
  <1> SUFFICES ASSUME NEW t \in Tabs, NEW l \in Loops, loop[t][l].pc = "batch",
                      Head(loop[t][l].batch).type = "transactions"
               PROVE  loop[t][l].details[Head(loop[t][l].batch).project] # Unknown
    BY DEF DetailsPrecedeTransactions
  <1>1. Keeps(t) /\ loop[t][l].batch \in Seq(Commands) /\ loop[t][l].batch # <<>>
    BY KeepTyped, InHandTyped
  <1>2. Supplied(loop[t][l].batch, KnownTo(loop[t][l]))
    BY <1>1 DEF Keeps, Equipped
  <1>3. Head(loop[t][l].batch).project \in KnownTo(loop[t][l])
    <2>1. 1 \in DOMAIN loop[t][l].batch /\ Head(loop[t][l].batch) = loop[t][l].batch[1]
      BY <1>1
    <2>2. \A a \in DOMAIN loop[t][l].batch : ~ (a < 1)
      BY <1>1
    <2> QED
      BY <1>2, <2>1, <2>2 DEF Supplied
  <1> QED
    BY <1>3 DEF KnownTo

\* When a loop takes the details of a project that was opened again, "we can be sure
\* that all transactions for the command.projectId is already synchronized" (comment
\* of pollQueue): no other loop is still sending some.  It takes a tab whose polling
\* ends with its page; a dialog closed and opened again has two loops.
DetailsAfterSync ==
  \A t \in Tabs : \A l, k \in Loops :
    LET lp == loop[t][l]
        other == loop[t][k]
    IN
    /\ lp.pc = "batch" /\ ~lp.aborted /\ Head(lp.batch).type = "setDetails"
    /\ other.pc \in {"send", "wait"}
    => Head(other.batch).project # Head(lp.batch).project

\* And about two loops of a tab: there are none.
LEMMA KeptAlone ==
  ASSUME KeepInv
  PROVE  DetailsAfterSync
PROOF
  <1> SUFFICES ASSUME NEW t \in Tabs, NEW l \in Loops, NEW k \in Loops,
                      loop[t][l].pc = "batch", loop[t][k].pc \in {"send", "wait"}
               PROVE  FALSE
    BY DEF DetailsAfterSync
  <1>1. Manned(t)
    BY DEF KeepInv, Keeps
  <1>2. l = controller[t] /\ k = controller[t]
    BY <1>1 DEF Manned
  <1> QED
    BY <1>2

\* As long as polling ends with the page only, an unanswered edit is queued or with
\* a loop that will send it, whatever was opened, retried or taken meanwhile, unless
\* a fatal error halted the queue.
THEOREM EditsAreKept == PQSpec /\ PollsOn => []NoEditLost
PROOF BY KeptEdits, KeepInvariant, PTL

\* As long as polling ends with the page only, idle is never shown over an edit that
\* has not been answered.
THEOREM IdleIsTrue == PQSpec /\ PollsOn => []IdleMeansSaved
PROOF BY KeptEdits, KeepInvariant, PTL

\* As long as polling ends with the page only, an edit is told saved only when all
\* that the user did before it has been answered.
THEOREM SavesInOrder == PQSpec /\ PollsOn => []SavedInOrder
PROOF BY KeptEdits, KeepInvariant, PTL

\* As long as polling ends with the page only, "Project details not found" cannot
\* happen.
THEOREM DetailsAreKnown == PQSpec /\ PollsOn => []DetailsPrecedeTransactions
PROOF BY KeptDetails, KeepInvariant, PTL

\* As long as polling ends with the page only, the details of a project are handled
\* after its transactions, as pollQueue takes it.
THEOREM DetailsComeLast == PQSpec /\ PollsOn => []DetailsAfterSync
PROOF BY KeptAlone, KeepInvariant, PTL

\* So a builder tab keeps all edits of its page until they are answered, in their
\* order, and says idle when they are, without a condition on its behaviour.
THEOREM BuilderKeeps ==
  ASSUME Builder
  PROVE  PQSpec => [](NoEditLost /\ IdleMeansSaved /\ SavedInOrder /\ DetailsPrecedeTransactions)
PROOF
  <1>1. KeepInv => NoEditLost /\ IdleMeansSaved /\ SavedInOrder /\ DetailsPrecedeTransactions
    BY KeptEdits, KeptDetails
  <1> QED
    BY <1>1, BuilderPollsOn, KeepInvariant, PTL

-----------------------------------------------------------------------------
(* Nobody overwrites what he has not seen.                                 *)
(*                                                                         *)
(* The row is given to these operators as H, what authors saw as f, so     *)
(* that they can be asked about a state and the next one.                  *)

Histories == [Projects -> Seq(SUBSET Txns)]
Bases == [Txns -> SUBSET Txns]
Versions == [Projects -> Nat \cup {Unknown}]

\* What version v of a project contains.
Upto(H, p, v) == {x \in Txns : \E k \in DOMAIN H[p] : k <= v /\ x \in H[p][k]}

\* What somebody has seen who comes after a command.
Brings(H, c) == IF c.type = "setDetails" THEN Upto(H, c.project, c.version) ELSE ToSet(c.transactions)

\* No details of p come between places a and b.
Open(cs, a, b, p) ==
  \A c \in DOMAIN cs : a < c /\ c < b => ~ (cs[c].type = "setDetails" /\ cs[c].project = p)

\* Whoever has seen seenBy has seen what comes before place b of a list, of project
\* p and since its last details, and the version known to the loop if these are
\* not in the list.
Covers(H, seenBy, cs, d, b, p) ==
  /\ \A a \in DOMAIN cs :
       a < b /\ cs[a].project = p /\ Open(cs, a, b, p) => Brings(H, cs[a]) \subseteq seenBy
  /\ Open(cs, 0, b, p) => Upto(H, p, d[p]) \subseteq seenBy

\* Each was made by somebody who had seen those before it.
Ordered(f, ts) == \A i, j \in DOMAIN ts : i < j => ts[i] \in f[ts[j]]

\* The commands cs of a loop that knows the versions d, and of the page pg that
\* shows what is in seenBy.
Sound(H, f, seenBy, pg, cs, d) ==
  /\ \A b \in DOMAIN cs : cs[b].type = "setDetails" => cs[b].version <= Len(H[cs[b].project])
  /\ \A b \in DOMAIN cs : cs[b].type = "transactions" =>
       /\ Ordered(f, cs[b].transactions)
       /\ \A x \in ToSet(cs[b].transactions) : Covers(H, f[x], cs, d, b, cs[b].project)
  /\ pg.phase = "open" => Covers(H, seenBy, cs, d, Len(cs) + 1, pg.project)

\* The types of a command.
LEMMA CommandShape ==
  ASSUME NEW cs \in Seq(Commands), NEW b \in DOMAIN cs
  PROVE  /\ cs[b] \in Commands /\ cs[b].project \in Projects
         /\ cs[b].type \in {"setDetails", "transactions"}
         /\ cs[b].type = "setDetails" => cs[b].version \in Nat
         /\ cs[b].type = "transactions" =>
              cs[b].transactions \in Seq(Txns) /\ ToSet(cs[b].transactions) \subseteq Txns
PROOF
  <1>1. cs[b] \in Commands
    OBVIOUS
  <1>2. CASE cs[b] \in [type : {"setDetails"}, project : Projects, version : Nat]
    BY <1>1, <1>2
  <1>3. CASE cs[b] \in [type : {"transactions"}, project : Projects, transactions : Seq(Txns)]
    <2>1. cs[b].transactions \in Seq(Txns) /\ cs[b].type = "transactions" /\ cs[b].project \in Projects
      BY <1>3
    <2> QED
      BY <1>1, <2>1 DEF ToSet
  <1> QED
    BY <1>1, <1>2, <1>3 DEF Commands

\* What a place needs depends on what comes before it only.
LEMMA CoversPrefix ==
  ASSUME NEW H, NEW seenBy, NEW cs, NEW ds, NEW d, NEW b \in Nat, NEW p,
         \A a \in Nat : a < b => (a \in DOMAIN cs <=> a \in DOMAIN ds),
         \A a \in DOMAIN cs : a < b => cs[a] = ds[a],
         DOMAIN cs \subseteq Nat, DOMAIN ds \subseteq Nat,
         Covers(H, seenBy, cs, d, b, p)
  PROVE  Covers(H, seenBy, ds, d, b, p)
PROOF
  <1>1. \A a \in DOMAIN cs : a < b => a \in DOMAIN ds /\ cs[a] = ds[a]
    OBVIOUS
  <1>2. \A a \in DOMAIN ds : a < b => a \in DOMAIN cs /\ cs[a] = ds[a]
    OBVIOUS
  <1>3. \A a : Open(ds, a, b, p) => Open(cs, a, b, p)
    BY <1>1, <1>2 DEF Open
  <1> QED
    BY <1>1, <1>2, <1>3 DEF Covers

\* What was seen of the versions there were is not changed by what is saved later.
Grows(H, G) ==
  \A p \in Projects :
    /\ Len(H[p]) <= Len(G[p])
    /\ \A i \in DOMAIN H[p] : G[p][i] = H[p][i]

\* Versions there are stay what they are.
LEMMA UptoStays ==
  ASSUME NEW H \in Histories, NEW G \in Histories, Grows(H, G),
         NEW p \in Projects, NEW v \in Int, v <= Len(H[p])
  PROVE  Upto(G, p, v) = Upto(H, p, v)
PROOF
  <1>1. H[p] \in Seq(SUBSET Txns) /\ G[p] \in Seq(SUBSET Txns)
    BY DEF Histories
  <1>2. \A k \in DOMAIN H[p] : k \in DOMAIN G[p] /\ G[p][k] = H[p][k]
    BY <1>1 DEF Grows
  <1>3. \A k \in DOMAIN G[p] : k <= v => k \in DOMAIN H[p] /\ G[p][k] = H[p][k]
    BY <1>1, <1>2
  <1> QED
    BY <1>2, <1>3 DEF Upto

\* The server may save meanwhile, and others edit.
LEMMA SoundStays ==
  ASSUME NEW H \in Histories, NEW G \in Histories, Grows(H, G),
         NEW f \in Bases, NEW g \in Bases, NEW seenBy, NEW pg, NEW cs \in Seq(Commands),
         NEW d \in Versions, \A p \in Projects : d[p] <= Len(H[p]),
         \A x \in Txns : Carries(cs, x) => g[x] = f[x],
         pg.phase = "open" => pg.project \in Projects,
         Sound(H, f, seenBy, pg, cs, d)
  PROVE  Sound(G, g, seenBy, pg, cs, d)
PROOF
  <1>1. \A p \in Projects : H[p] \in Seq(SUBSET Txns) /\ d[p] \in Int /\ Len(H[p]) \in Nat /\ Len(G[p]) \in Nat
    BY DEF Histories, Versions, Unknown
  <1>2. \A p \in Projects : Upto(G, p, d[p]) = Upto(H, p, d[p])
    BY <1>1, UptoStays
  <1>3. ASSUME NEW b \in DOMAIN cs
        PROVE  /\ Brings(G, cs[b]) = Brings(H, cs[b])
               /\ cs[b].type = "setDetails" => cs[b].version <= Len(G[cs[b].project])
    <2>1. cs[b].project \in Projects /\ (cs[b].type = "setDetails" => cs[b].version \in Nat /\ cs[b].version <= Len(H[cs[b].project]))
      BY CommandShape DEF Sound
    <2>2. cs[b].type = "setDetails" => Upto(G, cs[b].project, cs[b].version) = Upto(H, cs[b].project, cs[b].version)
      BY <2>1, UptoStays
    <2> QED
      BY <1>1, <2>1, <2>2 DEF Brings, Grows
  <1>4. \A S, b : \A p \in Projects : Covers(H, S, cs, d, b, p) => Covers(G, S, cs, d, b, p)
    BY <1>2, <1>3 DEF Covers
  <1>5. ASSUME NEW b \in DOMAIN cs, cs[b].type = "transactions"
        PROVE  /\ Ordered(g, cs[b].transactions)
               /\ \A x \in ToSet(cs[b].transactions) : Covers(G, g[x], cs, d, b, cs[b].project)
    <2>1. /\ cs[b].transactions \in Seq(Txns) /\ ToSet(cs[b].transactions) \subseteq Txns /\ cs[b].project \in Projects
          /\ \A x \in ToSet(cs[b].transactions) : g[x] = f[x]
      BY <1>5, CommandShape DEF Carries, ToSet
    <2>2. \A j \in DOMAIN cs[b].transactions : cs[b].transactions[j] \in ToSet(cs[b].transactions)
      BY DEF ToSet
    <2> QED
      BY <1>4, <1>5, <2>1, <2>2 DEF Sound, Ordered
  <1> QED
    BY <1>3, <1>4, <1>5 DEF Sound

-----------------------------------------------------------------------------
(* How the line of commands of a loop and its queue changes.               *)

\* A list with an edit of p more: it is in the last command, if that is of
\* transactions of p, or in one of its own.
Joins(old, new, n, p, x) ==
  /\ \A i \in DOMAIN old : i # n => new[i] = old[i]
  /\ \/ /\ Len(new) = n + 1
        /\ n > 0 => new[n] = old[n]
        /\ new[n + 1] = Transactions(p, <<x>>)
     \/ /\ Len(new) = n /\ n > 0
        /\ old[n].type = "transactions" /\ old[n].project = p
        /\ new[n].type = "transactions" /\ new[n].project = p
        /\ new[n].transactions = old[n].transactions \o <<x>>

\* An edit joins the end of the line, wherever the queue starts.
LEMMA EditLine ==
  ASSUME NEW b \in Seq(Commands), NEW q \in Seq(Commands), NEW p \in Projects, NEW x \in Txns
  PROVE  /\ b \o q \in Seq(Commands)
         /\ b \o Enqueue(q, Transactions(p, <<x>>)) \in Seq(Commands)
         /\ Joins(b \o q, b \o Enqueue(q, Transactions(p, <<x>>)), Len(b \o q), p, x)
PROOF
  <1> DEFINE old == b \o q
             new == b \o Enqueue(q, Transactions(p, <<x>>))
             n == Len(old)
  <1>0. old = b \o q /\ new = b \o Enqueue(q, Transactions(p, <<x>>)) /\ n = Len(old)
    OBVIOUS
  <1> HIDE DEF old, new, n
  <1> DEFINE c == Transactions(p, <<x>>)
             m == Len(q)
             q2 == Enqueue(q, c)
  <1>1. c \in Commands /\ c.type = "transactions" /\ c.project = p /\ c.transactions = <<x>>
    <2>1. c \in Commands
      BY CommandsTyped
    <2>2. c.type = "transactions" /\ c.project = p /\ c.transactions = <<x>>
      BY DEF Transactions
    <2> QED
      BY <2>1, <2>2
  <1> HIDE DEF c
  <1>2. q2 \in Seq(Commands)
    BY <1>1, EnqueueTyped
  <1>3. \/ /\ Len(q2) = m + 1 /\ q2[m + 1] = c /\ \A i \in DOMAIN q : q2[i] = q[i]
        \/ /\ Len(q2) = m /\ m > 0 /\ \A i \in DOMAIN q : i # m => q2[i] = q[i]
           /\ q[m].type = "transactions" /\ q[m].project = p
           /\ q2[m].type = "transactions" /\ q2[m].project = p
           /\ q2[m].transactions = q[m].transactions \o <<x>>
    <2>1. CASE m > 0 /\ q[m].type = "transactions" /\ q[m].project = p
      <3> DEFINE last == [q[m] EXCEPT !.transactions = @ \o c.transactions]
      <3>0. c.type = "transactions" /\ c.project = p /\ c.transactions = <<x>>
        BY <1>1
      <3>1. m \in DOMAIN q /\ q[m] \in Commands
        BY <2>1
      <3>2. q[m] \in [type : {"transactions"}, project : Projects, transactions : Seq(Txns)]
        BY <2>1, <3>1 DEF Commands
      <3>3. /\ last.type = "transactions" /\ last.project = p
            /\ last.transactions = q[m].transactions \o <<x>>
        BY <2>1, <3>0, <3>2
      <3>4. q2 = [q EXCEPT ![m] = last]
        BY <2>1, <3>0 DEF Enqueue
      <3> HIDE DEF last
      <3>5. Len(q2) = m /\ q2[m] = last /\ \A i \in DOMAIN q : i # m => q2[i] = q[i]
        BY <3>1, <3>4
      <3> QED
        BY <2>1, <3>3, <3>5
    <2>2. CASE ~ (m > 0 /\ q[m].type = "transactions" /\ q[m].project = p)
      <3>1. q2 = Append(q, c)
        BY <1>1, <2>2 DEF Enqueue
      <3>2. Len(q2) = m + 1 /\ q2[m + 1] = c /\ \A i \in DOMAIN q : q2[i] = q[i]
        <4> HIDE DEF q2
        <4> QED
          BY <1>1, <3>1
      <3> HIDE DEF q2
      <3> QED
        BY <3>2
    <2> QED
      BY <2>1, <2>2
  <1> HIDE DEF q2
  <1>4. DOMAIN q = 1..m /\ m \in Nat /\ Len(b) \in Nat /\ Len(q2) \in Nat /\ DOMAIN q2 = 1..Len(q2)
    BY <1>2
  <1>5. /\ old \in Seq(Commands) /\ n = Len(b) + m /\ n \in Nat /\ DOMAIN old = 1..n
        /\ \A i \in 1..Len(b) : old[i] = b[i]
        /\ \A i \in 1..m : old[Len(b) + i] = q[i]
    BY <1>0, <1>4
  <1>6. /\ new \in Seq(Commands) /\ Len(new) = Len(b) + Len(q2)
        /\ \A i \in 1..Len(b) : new[i] = b[i]
        /\ \A i \in 1..Len(q2) : new[Len(b) + i] = q2[i]
    BY <1>0, <1>2, <1>4 DEF q2, c
  <1> DEFINE k == Len(b)
             m2 == Len(q2)
  <1>7. /\ k \in Nat /\ m \in Nat /\ m2 \in Nat /\ n = k + m /\ Len(new) = k + m2
        /\ DOMAIN old = 1..n /\ DOMAIN q = 1..m
        /\ \A i \in 1..k : old[i] = b[i] /\ new[i] = b[i]
        /\ \A i \in 1..m : old[k + i] = q[i]
        /\ \A i \in 1..m2 : new[k + i] = q2[i]
        /\ old \in Seq(Commands) /\ new \in Seq(Commands)
    BY <1>4, <1>5, <1>6
  <1> HIDE DEF k, m, m2
  <1> SUFFICES Joins(old, new, n, p, x)
    BY <1>7 DEF old, new, n
  \* Two concatenations with the same beginning differ where their ends do.
  <1>10. ASSUME m2 >= m, NEW i \in 1..n, \A j \in 1..m : i = k + j => q2[j] = q[j]
         PROVE  new[i] = old[i]
    <2>1. CASE i \in 1..k
      BY <1>7, <2>1
    <2>2. CASE i \notin 1..k
      <3> DEFINE j == i - k
      <3>1. j \in 1..m /\ j \in 1..m2 /\ i = k + j
        BY <1>7, <1>10, <2>2
      <3> HIDE DEF j
      <3> QED
        BY <1>7, <1>10, <3>1
    <2> QED
      BY <2>1, <2>2
  <1>8. CASE m2 = m + 1 /\ q2[m + 1] = c /\ \A i \in DOMAIN q : q2[i] = q[i]
    <2>1. Len(new) = n + 1 /\ new[n + 1] = c
      <3>1. m + 1 \in 1..m2 /\ k + (m + 1) = n + 1
        BY <1>7, <1>8
      <3> QED
        BY <1>7, <1>8, <3>1
    <2>2. \A i \in 1..n : new[i] = old[i]
      <3>1. m2 >= m
        BY <1>7, <1>8
      <3> QED
        BY <1>7, <1>8, <1>10, <3>1
    <2>3. n > 0 => new[n] = old[n]
      <3>1. n > 0 => n \in 1..n
        BY <1>7
      <3> QED
        BY <2>2, <3>1
    <2> QED
      BY <1>7, <2>1, <2>2, <2>3 DEF c, Joins
  <1>9. CASE /\ m2 = m /\ m > 0 /\ \A i \in DOMAIN q : i # m => q2[i] = q[i]
             /\ q[m].type = "transactions" /\ q[m].project = p
             /\ q2[m].type = "transactions" /\ q2[m].project = p
             /\ q2[m].transactions = q[m].transactions \o <<x>>
    <2>1. Len(new) = n /\ n > 0 /\ new[n] = q2[m] /\ old[n] = q[m]
      <3>1. m \in 1..m /\ m \in 1..m2 /\ k + m = n /\ n > 0
        BY <1>7, <1>9
      <3> QED
        BY <1>7, <1>9, <3>1
    <2>2. \A i \in 1..n : i # n => new[i] = old[i]
      <3>1. m2 >= m
        BY <1>7, <1>9
      <3> QED
        BY <1>7, <1>9, <1>10, <3>1
    <2> QED
      BY <1>7, <1>9, <2>1, <2>2 DEF Joins
  <1> QED
    BY <1>3, <1>8, <1>9 DEF m, m2

\* An edit of what the page shows is on top of what comes before it in the line.
LEMMA EditSound ==
  ASSUME NEW H \in Histories, NEW f \in Bases, NEW seenBy \in SUBSET Txns, NEW d \in Versions,
         NEW old \in Seq(Commands), NEW new \in Seq(Commands), NEW p \in Projects, NEW x \in Txns,
         NEW g, g = [f EXCEPT ![x] = seenBy],
         ~ Carries(old, x),
         NEW n, n = Len(old), Joins(old, new, n, p, x),
         NEW pg, pg.phase = "open", pg.project = p,
         Sound(H, f, seenBy, pg, old, d)
  PROVE  Sound(H, g, seenBy \cup {x}, pg, new, d)
PROOF
  <1>0. /\ \A i \in DOMAIN old : i # n => new[i] = old[i]
        /\ \/ /\ Len(new) = n + 1
              /\ n > 0 => new[n] = old[n]
              /\ new[n + 1] = Transactions(p, <<x>>)
           \/ /\ Len(new) = n /\ n > 0
              /\ old[n].type = "transactions" /\ old[n].project = p
              /\ new[n].type = "transactions" /\ new[n].project = p
              /\ new[n].transactions = old[n].transactions \o <<x>>
    BY DEF Joins
  <1> USE <1>0
  <1>1. /\ n \in Nat /\ DOMAIN old = 1..n /\ g[x] = seenBy
        /\ \A y \in Txns : y # x => g[y] = f[y]
        /\ \A b \in DOMAIN old : old[b].type = "transactions" =>
             \A y \in ToSet(old[b].transactions) : y \in Txns /\ y # x
    BY CommandShape DEF Bases, Carries, ToSet
  \* What does not change.
  <1>2. ASSUME NEW b \in DOMAIN old, old[b].type = "transactions"
        PROVE  /\ Ordered(g, old[b].transactions)
               /\ \A y \in ToSet(old[b].transactions) : Covers(H, g[y], old, d, b, old[b].project)
    <2>1. \A j \in DOMAIN old[b].transactions : old[b].transactions[j] \in ToSet(old[b].transactions)
      BY DEF ToSet
    <2>2. \A y \in ToSet(old[b].transactions) : g[y] = f[y]
      BY <1>1, <1>2
    <2> QED
      BY <1>2, <2>1, <2>2 DEF Sound, Ordered
  <1>3. Covers(H, seenBy, old, d, n + 1, p)
    BY DEF Sound
  <1>4. CASE /\ Len(new) = n + 1
             /\ n > 0 => new[n] = old[n]
             /\ new[n + 1] = Transactions(p, <<x>>)
    <2>1. /\ DOMAIN new = 1..(n + 1) /\ \A i \in 1..n : new[i] = old[i]
          /\ new[n + 1].type = "transactions" /\ new[n + 1].project = p
          /\ new[n + 1].transactions = <<x>>
      <3>1. Len(new) = n + 1 /\ DOMAIN new = 1..(n + 1)
        BY <1>1, <1>4
      <3>2. \A i \in 1..n : new[i] = old[i]
        BY <1>1, <1>4
      <3>3. /\ new[n + 1].type = "transactions" /\ new[n + 1].project = p
            /\ new[n + 1].transactions = <<x>>
        BY <1>4 DEF Transactions
      <3> QED
        BY <3>1, <3>2, <3>3
    <2>2. /\ \A a \in Nat : a < n + 1 => (a \in DOMAIN old <=> a \in DOMAIN new)
          /\ \A a \in DOMAIN old : a < n + 1 => old[a] = new[a]
      BY <1>1, <2>1
    <2>3. \A S, q : \A b \in 1..(n + 1) : Covers(H, S, old, d, b, q) => Covers(H, S, new, d, b, q)
      <3> SUFFICES ASSUME NEW S, NEW q, NEW b \in 1..(n + 1), Covers(H, S, old, d, b, q)
                   PROVE  Covers(H, S, new, d, b, q)
        OBVIOUS
      <3>1. DOMAIN old \subseteq Nat /\ DOMAIN new \subseteq Nat
        BY <1>1, <2>1
      <3>2. /\ b \in Nat
            /\ \A a \in Nat : a < b => (a \in DOMAIN old <=> a \in DOMAIN new)
            /\ \A a \in DOMAIN old : a < b => old[a] = new[a]
        BY <1>1, <2>2, <3>1
      <3> QED
        BY <3>1, <3>2, CoversPrefix
    <2> DEFINE one == <<x>>
    <2>4. ToSet(one) = {x} /\ Ordered(g, one)
      BY DEF ToSet, Ordered
    <2>5. ASSUME NEW b \in DOMAIN new, new[b].type = "transactions"
          PROVE  /\ Ordered(g, new[b].transactions)
                 /\ \A y \in ToSet(new[b].transactions) : Covers(H, g[y], new, d, b, new[b].project)
      <3>1. CASE b = n + 1
        <4>1. Covers(H, seenBy, new, d, n + 1, p) /\ g[x] = seenBy
          BY <1>1, <1>3, <2>3
        <4>2. new[b].transactions = one /\ new[b].project = p
          BY <2>1, <3>1
        <4> HIDE DEF one
        <4> QED
          <5>1. Ordered(g, new[b].transactions)
            BY <2>4, <4>2
          <5>2. ASSUME NEW y \in ToSet(new[b].transactions)
                PROVE  Covers(H, g[y], new, d, b, new[b].project)
            <6>1. y = x
              BY <2>4, <4>2, <5>2
            <6> QED
              BY <3>1, <4>1, <4>2, <6>1
          <5> QED
            BY <5>1, <5>2
      <3>2. CASE b # n + 1
        <4>1. b \in 1..n /\ b \in DOMAIN old /\ new[b] = old[b] /\ old[b].type = "transactions"
          BY <1>1, <2>1, <2>5, <3>2
        <4>2. b \in 1..(n + 1)
          BY <1>1, <4>1
        <4> QED
          BY <1>2, <2>3, <4>1, <4>2
      <3> QED
        BY <3>1, <3>2
    <2>6. Covers(H, seenBy \cup {x}, new, d, n + 2, p)
      <3>1. \A a \in Nat : Open(new, a, n + 2, p) => Open(old, a, n + 1, p)
        BY <1>1, <2>1 DEF Open
      <3>2. ASSUME NEW a \in DOMAIN new, a < n + 2, new[a].project = p, Open(new, a, n + 2, p)
            PROVE  Brings(H, new[a]) \subseteq seenBy \cup {x}
        <4>1. CASE a = n + 1
          BY <2>1, <2>4, <4>1 DEF Brings
        <4>2. CASE a # n + 1
          <5>1. a \in DOMAIN old /\ a < n + 1 /\ new[a] = old[a] /\ Open(old, a, n + 1, p)
            BY <1>1, <2>1, <3>1, <3>2, <4>2
          <5> QED
            BY <1>3, <3>2, <5>1 DEF Covers
        <4> QED
          BY <4>1, <4>2
      <3> QED
        BY <1>3, <3>1, <3>2 DEF Covers
    <2> QED
      <3>1. \A b \in DOMAIN new : new[b].type = "setDetails" => new[b].version <= Len(H[new[b].project])
        BY <1>1, <2>1 DEF Sound
      <3>2. Len(new) + 1 = n + 2
        BY <1>1, <1>4
      <3> QED
        BY <2>5, <2>6, <3>1, <3>2 DEF Sound
  <1>5. CASE /\ Len(new) = n /\ n > 0
             /\ old[n].type = "transactions" /\ old[n].project = p
             /\ new[n].type = "transactions" /\ new[n].project = p
             /\ new[n].transactions = old[n].transactions \o <<x>>
    <2> DEFINE ts == old[n].transactions
               more == new[n].transactions
    <2>1. /\ DOMAIN new = 1..n /\ n \in DOMAIN old /\ \A i \in 1..(n - 1) : new[i] = old[i]
          /\ ts \in Seq(Txns) /\ more = ts \o <<x>>
      <3>1. n \in DOMAIN old
        BY <1>1, <1>5
      <3>2. ts \in Seq(Txns)
        BY <1>5, <3>1, CommandShape
      <3>3. DOMAIN new = 1..n
        BY <1>1, <1>5
      <3>4. ASSUME NEW i \in 1..(n - 1)
            PROVE  new[i] = old[i]
        <4>1. i \in DOMAIN old /\ i # n
          BY <1>1
        <4> QED
          BY <4>1
      <3>5. more = ts \o <<x>>
        BY <1>5
      <3> HIDE DEF ts, more
      <3> QED
        BY <3>1, <3>2, <3>3, <3>4, <3>5
    <2>2. ToSet(more) = ToSet(ts) \cup {x}
      <3> DEFINE one == <<x>>
      <3>1. ts \in Seq(Txns) /\ one \in Seq(Txns) /\ ToSet(one) = {x} /\ more = ts \o one
        BY <2>1 DEF ToSet
      <3> HIDE DEF ts, more, one
      <3>2. ToSet(ts \o one) = ToSet(ts) \cup ToSet(one)
        BY <3>1, ToSetConcat
      <3> QED
        BY <3>1, <3>2 DEF ToSet
    <2>3. ToSet(ts) \subseteq seenBy
      <3>1. Open(old, n, n + 1, p)
        BY <1>1 DEF Open
      <3> QED
        BY <1>1, <1>3, <1>5, <2>1, <3>1 DEF Covers, Brings
    <2>4. /\ \A a \in Nat : a < n => (a \in DOMAIN old <=> a \in DOMAIN new)
          /\ \A a \in DOMAIN old : a < n => old[a] = new[a]
      BY <1>1, <2>1
    <2>5. \A S, q : \A b \in 1..n : Covers(H, S, old, d, b, q) => Covers(H, S, new, d, b, q)
      <3> SUFFICES ASSUME NEW S, NEW q, NEW b \in 1..n, Covers(H, S, old, d, b, q)
                   PROVE  Covers(H, S, new, d, b, q)
        OBVIOUS
      <3>1. \A a \in Nat : a < b => (a \in DOMAIN old <=> a \in DOMAIN new)
        BY <1>1, <2>1
      <3>2. \A a \in DOMAIN old : a < b => old[a] = new[a]
        BY <1>1, <2>1
      <3>3. DOMAIN old \subseteq Nat /\ DOMAIN new \subseteq Nat /\ b \in Nat
        BY <1>1, <2>1
      <3> QED
        BY <3>1, <3>2, <3>3, CoversPrefix
    <2>6. \A a \in Nat : Open(new, a, n, p) => Open(old, a, n, p)
      BY <1>1, <2>1 DEF Open
    <2>7. \A a \in Nat : Open(new, a, n + 1, p) => Open(old, a, n + 1, p)
      BY <1>1, <1>5, <2>1 DEF Open
    <2>8. \A a \in Nat : Open(old, a, n, p) => Open(old, a, n + 1, p)
      BY <1>1, <1>5 DEF Open
    <2>9. Covers(H, seenBy, new, d, n, p)
      <3>1. ASSUME NEW a \in DOMAIN new, a < n, new[a].project = p, Open(new, a, n, p)
            PROVE  Brings(H, new[a]) \subseteq seenBy
        <4>1. a \in DOMAIN old /\ a < n + 1 /\ new[a] = old[a] /\ Open(old, a, n + 1, p)
          BY <1>1, <2>1, <2>6, <2>8, <3>1
        <4> QED
          BY <1>3, <3>1, <4>1 DEF Covers
      <3> QED
        BY <1>3, <2>6, <2>8, <3>1 DEF Covers
    <2>10. Ordered(g, more)
      <3> SUFFICES ASSUME NEW i \in DOMAIN more, NEW j \in DOMAIN more, i < j
                   PROVE  more[i] \in g[more[j]]
        BY DEF Ordered
      <3>1. i \in DOMAIN ts /\ more[i] = ts[i] /\ ts[i] \in ToSet(ts)
        BY <2>1 DEF ToSet
      <3>2. CASE j \in DOMAIN ts
        <4>1. Ordered(g, ts)
          BY <1>2, <1>5, <2>1
        <4>2. more[j] = ts[j]
          BY <2>1, <3>2
        <4> QED
          BY <3>1, <3>2, <4>1, <4>2 DEF Ordered
      <3>3. CASE j \notin DOMAIN ts
        <4>1. more[j] = x
          BY <2>1, <3>3
        <4> QED
          BY <1>1, <2>3, <3>1, <4>1
      <3> QED
        BY <3>2, <3>3
    <2>11. ASSUME NEW b \in DOMAIN new, new[b].type = "transactions"
           PROVE  /\ Ordered(g, new[b].transactions)
                  /\ \A y \in ToSet(new[b].transactions) : Covers(H, g[y], new, d, b, new[b].project)
      <3>1. CASE b = n
        <4>1. /\ new[b].project = p /\ new[b].transactions = more
              /\ n \in DOMAIN old /\ old[n].type = "transactions" /\ n \in 1..n
          BY <1>1, <1>5, <2>1, <3>1
        <4>2. ASSUME NEW y \in ToSet(ts)
              PROVE  Covers(H, g[y], new, d, n, p)
          <5>1. Covers(H, g[y], old, d, n, p)
            BY <1>2, <1>5, <4>1
          <5> QED
            BY <2>5, <4>1, <5>1
        <4>3. Covers(H, g[x], new, d, n, p)
          BY <1>1, <2>9
        <4> QED
          BY <2>2, <2>10, <3>1, <4>1, <4>2, <4>3
      <3>2. CASE b # n
        BY <1>1, <1>2, <2>1, <2>5, <2>11, <3>2
      <3> QED
        BY <3>1, <3>2
    <2>12. Covers(H, seenBy \cup {x}, new, d, n + 1, p)
      <3>1. ASSUME NEW a \in DOMAIN new, a < n + 1, new[a].project = p, Open(new, a, n + 1, p)
            PROVE  Brings(H, new[a]) \subseteq seenBy \cup {x}
        <4>1. CASE a = n
          BY <1>5, <2>2, <2>3, <4>1 DEF Brings
        <4>2. CASE a # n
          BY <1>1, <1>3, <2>1, <2>7, <3>1, <4>2 DEF Covers
        <4> QED
          BY <4>1, <4>2
      <3> QED
        BY <1>3, <2>7, <3>1 DEF Covers
    <2> QED
      BY <1>1, <1>5, <2>1, <2>11, <2>12 DEF Sound
  <1> QED
    BY <1>4, <1>5

\* Details of what a page shows at the end of the list: who edits it has seen them.
LEMMA NewDetailsSound ==
  ASSUME NEW H \in Histories, NEW f, NEW seenBy, NEW pg, NEW d, NEW cs \in Seq(Commands),
         NEW anyone, NEW other, Sound(H, f, anyone, other, cs, d),
         NEW c \in Commands, c.type = "setDetails",
         c.version <= Len(H[c.project]), Upto(H, c.project, c.version) \subseteq seenBy,
         pg.phase = "open" => pg.project = c.project
  PROVE  Sound(H, f, seenBy, pg, Append(cs, c), d)
PROOF
  <1> DEFINE n == Len(cs)
             new == Append(cs, c)
  <1>1. /\ n \in Nat /\ DOMAIN cs = 1..n /\ Len(new) = n + 1 /\ DOMAIN new = 1..(n + 1)
        /\ new[n + 1] = c /\ \A i \in 1..n : new[i] = cs[i]
    OBVIOUS
  <1> HIDE DEF n, new
  <1>2. ASSUME NEW b \in 1..n, NEW S, NEW p, Covers(H, S, cs, d, b, p)
        PROVE  Covers(H, S, new, d, b, p)
    <2>1. \A a \in Nat : a < b => (a \in DOMAIN cs <=> a \in DOMAIN new)
      BY <1>1
    <2>2. \A a \in DOMAIN cs : a < b => cs[a] = new[a]
      BY <1>1
    <2>3. DOMAIN cs \subseteq Nat /\ DOMAIN new \subseteq Nat /\ b \in Nat
      BY <1>1
    <2> QED
      BY <1>2, <2>1, <2>2, <2>3, CoversPrefix
  <1>3. ASSUME NEW b \in DOMAIN new, new[b].type = "transactions"
        PROVE  /\ Ordered(f, new[b].transactions)
               /\ \A x \in ToSet(new[b].transactions) : Covers(H, f[x], new, d, b, new[b].project)
    <2>1. b \in 1..n /\ b \in DOMAIN cs /\ new[b] = cs[b]
      BY <1>1, <1>3
    <2>2. /\ Ordered(f, cs[b].transactions)
          /\ \A x \in ToSet(cs[b].transactions) : Covers(H, f[x], cs, d, b, cs[b].project)
      BY <1>3, <2>1 DEF Sound
    <2> QED
      BY <1>2, <2>1, <2>2
  <1>4. \A b \in DOMAIN new : new[b].type = "setDetails" => new[b].version <= Len(H[new[b].project])
    BY <1>1 DEF Sound
  <1>5. ASSUME pg.phase = "open"
        PROVE  Covers(H, seenBy, new, d, n + 2, pg.project)
    <2>1. \A a \in Nat : Open(new, a, n + 2, pg.project) => a >= n + 1
      BY <1>1, <1>5 DEF Open
    <2>2. ASSUME NEW a \in DOMAIN new, a < n + 2, Open(new, a, n + 2, pg.project)
          PROVE  Brings(H, new[a]) \subseteq seenBy
      <3>1. a = n + 1
        BY <1>1, <2>1, <2>2
      <3> QED
        BY <1>1, <3>1 DEF Brings
    <2>3. ~ Open(new, 0, n + 2, pg.project)
      BY <1>1, <2>1
    <2> QED
      BY <2>2, <2>3 DEF Covers
  <1> QED
    BY <1>1, <1>3, <1>4, <1>5 DEF Sound, new

\* Transactions taken away from the end leave the others as they were.
LEMMA PrefixSound ==
  ASSUME NEW H, NEW f, NEW seenBy, NEW pg, NEW d,
         NEW b \in Seq(Commands), NEW q \in Seq(Commands),
         \A i \in DOMAIN q : q[i].type = "transactions",
         Sound(H, f, seenBy, pg, b \o q, d)
  PROVE  Sound(H, f, seenBy, pg, b, d)
PROOF
  <1> DEFINE cs == b \o q
             m == Len(b)
             n == Len(cs)
  <1>1. /\ m \in Nat /\ n \in Nat /\ m <= n /\ DOMAIN b = 1..m /\ DOMAIN cs = 1..n
        /\ \A i \in 1..m : cs[i] = b[i]
        /\ \A i \in 1..n : i > m => cs[i].type = "transactions"
    <2>1. /\ m \in Nat /\ n \in Nat /\ n = m + Len(q) /\ Len(q) \in Nat /\ DOMAIN q = 1..Len(q)
          /\ DOMAIN b = 1..m /\ DOMAIN cs = 1..n
          /\ \A i \in 1..m : cs[i] = b[i]
      OBVIOUS
    <2>2. \A i \in 1..n : i > m => cs[i] = q[i - m]
      OBVIOUS
    <2> HIDE DEF cs, m, n
    <2>3. \A i \in 1..n : i > m => i - m \in DOMAIN q
      BY <2>1
    <2> QED
      BY <2>1, <2>2, <2>3
  <1>2. Sound(H, f, seenBy, pg, cs, d)
    OBVIOUS
  <1> HIDE DEF cs, m, n
  <1>3. ASSUME NEW c \in 1..(m + 1), NEW S, NEW p, Covers(H, S, cs, d, c, p)
        PROVE  Covers(H, S, b, d, c, p)
    <2>1. \A a \in Nat : a < c => (a \in DOMAIN cs <=> a \in DOMAIN b)
      BY <1>1
    <2>2. \A a \in DOMAIN cs : a < c => cs[a] = b[a]
      BY <1>1
    <2>3. DOMAIN cs \subseteq Nat /\ DOMAIN b \subseteq Nat /\ c \in Nat
      BY <1>1
    <2> QED
      BY <1>3, <2>1, <2>2, <2>3, CoversPrefix
  <1>4. ASSUME NEW c \in DOMAIN b, b[c].type = "transactions"
        PROVE  /\ Ordered(f, b[c].transactions)
               /\ \A x \in ToSet(b[c].transactions) : Covers(H, f[x], b, d, c, b[c].project)
    <2>1. c \in 1..(m + 1) /\ c \in DOMAIN cs /\ cs[c] = b[c]
      BY <1>1
    <2>2. /\ Ordered(f, cs[c].transactions)
          /\ \A x \in ToSet(cs[c].transactions) : Covers(H, f[x], cs, d, c, cs[c].project)
      BY <1>2, <1>4, <2>1 DEF Sound
    <2> QED
      BY <1>3, <2>1, <2>2
  <1>5. \A c \in DOMAIN b : b[c].type = "setDetails" => b[c].version <= Len(H[b[c].project])
    BY <1>1, <1>2 DEF Sound
  <1>6. ASSUME pg.phase = "open"
        PROVE  Covers(H, seenBy, b, d, m + 1, pg.project)
    <2>1. Covers(H, seenBy, cs, d, n + 1, pg.project)
      BY <1>2, <1>6 DEF Sound, n
    <2>2. \A a \in Nat : Open(cs, a, m + 1, pg.project) => Open(cs, a, n + 1, pg.project)
      BY <1>1 DEF Open
    <2>3. Covers(H, seenBy, cs, d, m + 1, pg.project)
      <3>1. ASSUME NEW a \in DOMAIN cs, a < m + 1, cs[a].project = pg.project, Open(cs, a, m + 1, pg.project)
            PROVE  Brings(H, cs[a]) \subseteq seenBy
        <4>1. a < n + 1 /\ Open(cs, a, n + 1, pg.project)
          BY <1>1, <2>2, <3>1
        <4> QED
          BY <2>1, <3>1, <4>1 DEF Covers
      <3> QED
        BY <2>1, <2>2, <3>1 DEF Covers
    <2>4. m + 1 \in 1..(m + 1)
      BY <1>1
    <2> QED
      BY <1>3, <2>3, <2>4
  <1> QED
    BY <1>4, <1>5, <1>6 DEF Sound, m

\* Done with the first command, a loop knows the version it brought.
LEMMA TailSound ==
  ASSUME NEW H, NEW f, NEW seenBy, NEW pg,
         NEW cs \in Seq(Commands), cs # <<>>, NEW d, NEW e,
         NEW p, p = cs[1].project, \A q \in Projects \ {p} : e[q] = d[q],
         Upto(H, p, e[p]) \subseteq
           IF cs[1].type = "setDetails" THEN Brings(H, cs[1])
                                        ELSE Upto(H, p, d[p]) \cup Brings(H, cs[1]),
         pg.phase = "open" => pg.project \in Projects,
         Sound(H, f, seenBy, pg, cs, d)
  PROVE  Sound(H, f, seenBy, pg, Tail(cs), e)
PROOF
  <1> DEFINE n == Len(cs)
             rest == Tail(cs)
  <1>1. /\ n \in Nat /\ n > 0 /\ DOMAIN cs = 1..n /\ Len(rest) = n - 1 /\ DOMAIN rest = 1..(n - 1)
        /\ \A i \in 1..(n - 1) : rest[i] = cs[i + 1]
    OBVIOUS
  <1> HIDE DEF rest, n
  <1>2. ASSUME NEW b \in 1..n, NEW S, NEW q \in Projects, Covers(H, S, cs, d, b + 1, q)
        PROVE  Covers(H, S, rest, e, b, q)
    <2>1. \A a \in 0..n : Open(rest, a, b, q) => Open(cs, a + 1, b + 1, q)
      <3> SUFFICES ASSUME NEW a \in 0..n, Open(rest, a, b, q),
                          NEW c \in DOMAIN cs, a + 1 < c, c < b + 1
                   PROVE  ~ (cs[c].type = "setDetails" /\ cs[c].project = q)
        BY DEF Open
      <3>1. c - 1 \in DOMAIN rest /\ a < c - 1 /\ c - 1 < b /\ rest[c - 1] = cs[c]
        BY <1>1
      <3> QED
        BY <3>1 DEF Open
    <2>2. ASSUME NEW a \in DOMAIN rest, a < b, rest[a].project = q, Open(rest, a, b, q)
          PROVE  Brings(H, rest[a]) \subseteq S
      <3>1. a + 1 \in DOMAIN cs /\ a + 1 < b + 1 /\ rest[a] = cs[a + 1] /\ a \in 0..n
        BY <1>1, <2>2
      <3> QED
        BY <1>2, <2>1, <2>2, <3>1 DEF Covers
    <2>3. ASSUME Open(rest, 0, b, q)
          PROVE  Upto(H, q, e[q]) \subseteq S
      <3>1. Open(cs, 1, b + 1, q)
        BY <1>1, <2>1, <2>3
      <3>2. ~ (cs[1].type = "setDetails" /\ cs[1].project = q) => Open(cs, 0, b + 1, q)
        <4> SUFFICES ASSUME ~ (cs[1].type = "setDetails" /\ cs[1].project = q),
                            NEW c \in DOMAIN cs, 0 < c, c < b + 1
                     PROVE  ~ (cs[c].type = "setDetails" /\ cs[c].project = q)
          BY DEF Open
        <4> QED
          BY <1>1, <3>1 DEF Open
      <3>3. CASE q = p
        <4>1. 1 \in DOMAIN cs /\ 1 < b + 1
          BY <1>1
        <4>2. Brings(H, cs[1]) \subseteq S
          BY <1>2, <3>1, <3>3, <4>1 DEF Covers
        <4>3. cs[1].type # "setDetails" => Upto(H, p, d[p]) \subseteq S
          BY <1>2, <3>2, <3>3 DEF Covers
        <4> QED
          BY <3>3, <4>2, <4>3
      <3>4. CASE q # p
        BY <1>2, <3>2, <3>4 DEF Covers
      <3> QED
        BY <3>3, <3>4
    <2> QED
      BY <2>2, <2>3 DEF Covers
  <1>3. ASSUME NEW b \in DOMAIN rest, rest[b].type = "transactions"
        PROVE  /\ Ordered(f, rest[b].transactions)
               /\ \A x \in ToSet(rest[b].transactions) : Covers(H, f[x], rest, e, b, rest[b].project)
    <2>1. b \in 1..n /\ b + 1 \in DOMAIN cs /\ rest[b] = cs[b + 1]
      BY <1>1
    <2>2. /\ Ordered(f, cs[b + 1].transactions)
          /\ \A x \in ToSet(cs[b + 1].transactions) : Covers(H, f[x], cs, d, b + 1, cs[b + 1].project)
      BY <1>3, <2>1 DEF Sound
    <2>3. cs[b + 1].project \in Projects
      BY <2>1, CommandShape
    <2> QED
      BY <1>2, <2>1, <2>2, <2>3
  <1>4. \A b \in DOMAIN rest : rest[b].type = "setDetails" => rest[b].version <= Len(H[rest[b].project])
    <2> SUFFICES ASSUME NEW b \in DOMAIN rest, rest[b].type = "setDetails"
                 PROVE  rest[b].version <= Len(H[rest[b].project])
      OBVIOUS
    <2>1. b + 1 \in DOMAIN cs /\ rest[b] = cs[b + 1]
      BY <1>1
    <2> QED
      BY <2>1 DEF Sound
  <1>5. ASSUME pg.phase = "open"
        PROVE  Covers(H, seenBy, rest, e, n, pg.project)
    <2>1. Covers(H, seenBy, cs, d, n + 1, pg.project)
      BY <1>5 DEF Sound, n
    <2>2. n \in 1..n /\ pg.project \in Projects
      BY <1>1, <1>5
    <2> QED
      BY <1>2, <2>1, <2>2
  <1>6. Len(rest) + 1 = n
    BY <1>1
  <1> QED
    BY <1>3, <1>4, <1>5, <1>6 DEF Sound, rest

-----------------------------------------------------------------------------
(* What a tab knows, and how its own steps keep it.                        *)

\* A loop of a tab that shows pg and seenBy, with the queue q before it: the command
\* in hand will be saved over a version that its authors have seen.
LoopInformed(H, f, seenBy, pg, q, lp) ==
  /\ lp.pc = "poll" => lp.batch = <<>>
  /\ \A p \in Projects : lp.details[p] <= Len(H[p])
  /\ lp.pc # "off" /\ ~lp.aborted => Sound(H, f, seenBy, pg, lp.batch \o q, lp.details)
  /\ lp.pc \in {"send", "wait"} =>
       LET command == Head(lp.batch) IN
       /\ Ordered(f, command.transactions)
       /\ \A x \in ToSet(command.transactions) :
            Upto(H, command.project, lp.details[command.project]) \subseteq f[x]

\* What was loaded is a version of the project, and shown.
PageInformed(H, seenBy, pg) ==
  pg.phase = "loaded" =>
    pg.version <= Len(H[pg.project]) /\ Upto(H, pg.project, pg.version) \subseteq seenBy

\* A tab: what it loaded, its queue and its loops.
Informed(H, f, seenBy, pg, q, lps) ==
  /\ PageInformed(H, seenBy, pg)
  /\ Sound(H, f, seenBy, pg, q, NoDetails)
  /\ \A l \in Loops : LoopInformed(H, f, seenBy, pg, q, lps[l])

LEMMA ConcatCarries ==
  ASSUME NEW b \in Seq(Commands), NEW q \in Seq(Commands), NEW x
  PROVE  Carries(b \o q, x) => Carries(b, x) \/ Carries(q, x)
PROOF
  <1> SUFFICES ASSUME NEW i \in DOMAIN (b \o q), InCommand((b \o q)[i], x)
               PROVE  Carries(b, x) \/ Carries(q, x)
    BY DEF Carries, InCommand
  <1>1. i \in 1..(Len(b) + Len(q)) /\ Len(b) \in Nat /\ Len(q) \in Nat
    OBVIOUS
  <1>2. CASE i \in 1..Len(b)
    <2>1. (b \o q)[i] = b[i] /\ i \in DOMAIN b
      BY <1>1, <1>2
    <2> QED
      BY <2>1 DEF Carries, InCommand
  <1>3. CASE i \notin 1..Len(b)
    <2>1. (b \o q)[i] = q[i - Len(b)] /\ i - Len(b) \in DOMAIN q
      BY <1>1, <1>3
    <2> QED
      BY <2>1 DEF Carries, InCommand
  <1> QED
    BY <1>2, <1>3

\* A loop that knows no version promises nothing.
LEMMA NothingKnown ==
  ASSUME NEW H \in Histories
  PROVE  /\ NoDetails \in Versions
         /\ \A p \in Projects : NoDetails[p] <= Len(H[p]) /\ Upto(H, p, NoDetails[p]) = {}
PROOF
  <1>1. ASSUME NEW p \in Projects
        PROVE  NoDetails[p] = -1 /\ H[p] \in Seq(SUBSET Txns) /\ Len(H[p]) \in Nat /\ DOMAIN H[p] = 1..Len(H[p])
    BY DEF NoDetails, Unknown, Histories
  <1>2. NoDetails \in Versions
    BY DEF NoDetails, Versions
  <1>3. ASSUME NEW p \in Projects
        PROVE  NoDetails[p] <= Len(H[p]) /\ Upto(H, p, NoDetails[p]) = {}
    <2>1. \A k \in DOMAIN H[p] : ~ (k <= NoDetails[p])
      BY <1>1
    <2> QED
      BY <1>1, <2>1 DEF Upto
  <1> QED
    BY <1>2, <1>3

\* The types of a loop.
LEMMA LoopShape ==
  ASSUME NEW lp \in SoundLoops
  PROVE  /\ lp.batch \in Seq(Commands) /\ lp.details \in Versions
         /\ lp.pc \in {"off", "poll", "batch", "send", "wait"} /\ lp.aborted \in BOOLEAN
         /\ lp.pc \in {"batch", "send", "wait"} => lp.batch # <<>>
         /\ lp.batch # <<>> => /\ Head(lp.batch) = lp.batch[1] /\ 1 \in DOMAIN lp.batch
                               /\ Head(lp.batch) \in Commands
                               /\ Head(lp.batch).project \in Projects
PROOF
  <1>1. /\ lp.batch \in Seq(Commands) /\ lp.details \in Versions
        /\ lp.pc \in {"off", "poll", "batch", "send", "wait"} /\ lp.aborted \in BOOLEAN
        /\ lp.pc \in {"batch", "send", "wait"} => lp.batch # <<>>
    BY DEF SoundLoops, LoopStates, Versions
  <1>2. ASSUME lp.batch # <<>>
        PROVE  /\ Head(lp.batch) = lp.batch[1] /\ 1 \in DOMAIN lp.batch
               /\ Head(lp.batch) \in Commands
               /\ Head(lp.batch).project \in Projects
    <2>1. Head(lp.batch) = lp.batch[1] /\ 1 \in DOMAIN lp.batch
      BY <1>1, <1>2
    <2> QED
      BY <1>1, <2>1, CommandShape
  <1> QED
    BY <1>1, <1>2

\* The server may save meanwhile, and others edit.
LEMMA InformedStays ==
  ASSUME NEW H \in Histories, NEW G \in Histories, Grows(H, G),
         NEW f \in Bases, NEW g \in Bases, NEW seenBy, NEW pg \in SoundPages,
         NEW q \in Seq(Commands), NEW lps \in [Loops -> SoundLoops],
         \A l \in Loops : Sends(lps[l]),
         \A x \in Txns : CarriedBy(q, lps, x) => g[x] = f[x],
         Informed(H, f, seenBy, pg, q, lps)
  PROVE  Informed(G, g, seenBy, pg, q, lps)
PROOF
  <1>1. /\ pg.phase # "closed" => pg.project \in Projects
        /\ pg.version \in Nat
    BY DEF SoundPages, Pages
  <1>2. \A p \in Projects : Len(H[p]) \in Nat /\ Len(G[p]) \in Nat /\ Len(H[p]) <= Len(G[p])
    BY DEF Histories, Grows
  <1>3. PageInformed(G, seenBy, pg)
    <2> SUFFICES ASSUME pg.phase = "loaded"
                 PROVE  pg.version <= Len(G[pg.project]) /\ Upto(G, pg.project, pg.version) \subseteq seenBy
      BY DEF PageInformed
    <2>1. pg.version <= Len(H[pg.project]) /\ Upto(H, pg.project, pg.version) \subseteq seenBy
      BY DEF Informed, PageInformed
    <2>2. Upto(G, pg.project, pg.version) = Upto(H, pg.project, pg.version)
      BY <1>1, <2>1, UptoStays
    <2> QED
      BY <1>1, <1>2, <2>1, <2>2
  <1>4. \A x \in Txns : Carries(q, x) => g[x] = f[x]
    BY DEF CarriedBy
  <1>5. Sound(G, g, seenBy, pg, q, NoDetails)
    <2>1. Sound(H, f, seenBy, pg, q, NoDetails) /\ (pg.phase = "open" => pg.project \in Projects)
      BY <1>1 DEF Informed
    <2> QED
      BY <1>4, <2>1, NothingKnown, SoundStays
  <1>6. ASSUME NEW l \in Loops
        PROVE  LoopInformed(G, g, seenBy, pg, q, lps[l])
    <2> DEFINE lp == lps[l]
    <2>1. /\ lp.batch \in Seq(Commands) /\ lp.details \in Versions
          /\ lp.pc \in {"off", "poll", "batch", "send", "wait"}
          /\ lp.pc \in {"batch", "send", "wait"} => lp.batch # <<>>
          /\ lp.batch # <<>> => /\ Head(lp.batch) = lp.batch[1] /\ 1 \in DOMAIN lp.batch
                                /\ Head(lp.batch) \in Commands
                                /\ Head(lp.batch).project \in Projects
          /\ Sends(lp)
      BY LoopShape
    <2>2. LoopInformed(H, f, seenBy, pg, q, lp)
      BY DEF Informed
    <2>3. \A x \in Txns : Carries(lp.batch, x) => g[x] = f[x]
      BY DEF CarriedBy
    <2> HIDE DEF lp
    <2>4. \A p \in Projects : lp.details[p] \in Int /\ lp.details[p] <= Len(H[p]) /\ lp.details[p] <= Len(G[p])
      BY <1>2, <2>1, <2>2 DEF LoopInformed, Versions, Unknown
    <2>5. ASSUME lp.pc # "off", ~lp.aborted
          PROVE  Sound(G, g, seenBy, pg, lp.batch \o q, lp.details)
      <3>1. Sound(H, f, seenBy, pg, lp.batch \o q, lp.details) /\ lp.batch \o q \in Seq(Commands)
        BY <2>1, <2>2, <2>5 DEF LoopInformed
      <3>2. \A x \in Txns : Carries(lp.batch \o q, x) => g[x] = f[x]
        BY <1>4, <2>1, <2>3, ConcatCarries
      <3>3. pg.phase = "open" => pg.project \in Projects
        BY <1>1
      <3> QED
        BY <2>1, <2>4, <3>1, <3>2, <3>3, SoundStays
    <2>6. ASSUME lp.pc \in {"send", "wait"}
          PROVE  /\ Ordered(g, Head(lp.batch).transactions)
                 /\ \A x \in ToSet(Head(lp.batch).transactions) :
                      Upto(G, Head(lp.batch).project, lp.details[Head(lp.batch).project]) \subseteq g[x]
      <3> DEFINE c == Head(lp.batch)
                 v == lp.details[c.project]
      <3>1. /\ c = lp.batch[1] /\ 1 \in DOMAIN lp.batch /\ c.project \in Projects
            /\ c.type = "transactions"
        BY <2>1, <2>6 DEF Sends
      <3>2. c.transactions \in Seq(Txns) /\ ToSet(c.transactions) \subseteq Txns
        BY <2>1, <3>1, CommandShape
      <3>3. \A x \in ToSet(c.transactions) : Carries(lp.batch, x)
        BY <3>1 DEF Carries, ToSet
      <3>4. /\ Ordered(f, c.transactions)
            /\ \A x \in ToSet(c.transactions) : Upto(H, c.project, v) \subseteq f[x]
        BY <2>2, <2>6 DEF LoopInformed
      <3>5. Upto(G, c.project, v) = Upto(H, c.project, v)
        BY <2>4, <3>1, UptoStays
      <3> HIDE DEF c, v
      <3>6. \A x \in ToSet(c.transactions) : g[x] = f[x]
        BY <2>3, <3>2, <3>3
      <3>7. \A j \in DOMAIN c.transactions : c.transactions[j] \in ToSet(c.transactions)
        BY DEF ToSet
      <3>8. Ordered(g, c.transactions) /\ \A x \in ToSet(c.transactions) : Upto(G, c.project, v) \subseteq g[x]
        BY <3>4, <3>5, <3>6, <3>7 DEF Ordered
      <3> QED
        BY <3>8 DEF c, v
    <2>7. lp.pc = "poll" => lp.batch = <<>>
      BY <2>2 DEF LoopInformed
    <2> QED
      BY <2>4, <2>5, <2>6, <2>7 DEF LoopInformed, lp
  <1> QED
    BY <1>3, <1>5, <1>6 DEF Informed

LEMMA EmptySound ==
  ASSUME NEW H \in Histories, NEW f, NEW seenBy, NEW pg, pg.phase = "open" => pg.project \in Projects
  PROVE  Sound(H, f, seenBy, pg, <<>>, NoDetails)
PROOF
  <1>1. DOMAIN <<>> = {}
    OBVIOUS
  <1>2. \A p \in Projects : Upto(H, p, NoDetails[p]) = {}
    BY NothingKnown
  <1> QED
    BY <1>1, <1>2 DEF Sound, Covers

LEMMA OffInformed ==
  ASSUME NEW H \in Histories, NEW f, NEW seenBy, NEW pg, NEW q
  PROVE  LoopInformed(H, f, seenBy, pg, q, OffLoop)
PROOF
  <1>1. OffLoop.pc = "off" /\ OffLoop.details = NoDetails
    BY DEF OffLoop
  <1> HIDE DEF OffLoop
  <1> QED
    BY <1>1, NothingKnown DEF LoopInformed

\* Loops go on with what they had, or are told to stop.
GoOn(lps, lps2) ==
  \A l \in Loops :
    /\ lps2[l].pc = lps[l].pc /\ lps2[l].batch = lps[l].batch
    /\ lps2[l].details = lps[l].details
    /\ lps[l].aborted => lps2[l].aborted

\* A page is left, or another is shown: loops go on with what they had, unless they
\* are gone or told to stop.
LEMMA LeaveInformed ==
  ASSUME NEW H \in Histories, NEW f, NEW seenBy, NEW pg, NEW q, NEW lps,
         Informed(H, f, seenBy, pg, q, lps),
         NEW after, NEW next, next.phase # "open", PageInformed(H, after, next),
         NEW lps2, GoOn(lps, lps2)
  PROVE  Informed(H, f, after, next, q, lps2)
PROOF
  <1>1. \A cs, d : Sound(H, f, seenBy, pg, cs, d) => Sound(H, f, after, next, cs, d)
    BY DEF Sound
  <1>2. ASSUME NEW l \in Loops
        PROVE  LoopInformed(H, f, after, next, q, lps2[l])
    <2>1. LoopInformed(H, f, seenBy, pg, q, lps[l])
      BY DEF Informed
    <2> QED
      BY <1>1, <2>1 DEF LoopInformed, GoOn
  <1> QED
    BY <1>1, <1>2 DEF Informed

\* A page that is gone.
LEMMA FreshInformed ==
  ASSUME NEW H \in Histories, NEW f, NEW seenBy, NEW pg, pg.phase = "closed",
         NEW lps, \A l \in Loops : lps[l] = OffLoop
  PROVE  Informed(H, f, seenBy, pg, <<>>, lps)
PROOF
  <1>1. PageInformed(H, seenBy, pg) /\ (pg.phase = "open" => pg.project \in Projects)
    BY DEF PageInformed
  <1>2. Sound(H, f, seenBy, pg, <<>>, NoDetails)
    BY <1>1, EmptySound
  <1>3. \A l \in Loops : LoopInformed(H, f, seenBy, pg, <<>>, lps[l])
    BY OffInformed
  <1> QED
    BY <1>1, <1>2, <1>3 DEF Informed

\* A step of one loop.
LEMMA OneLoopInformed ==
  ASSUME NEW H, NEW f, NEW seenBy, NEW pg, NEW q, NEW lps,
         Informed(H, f, seenBy, pg, q, lps),
         NEW l \in Loops, NEW lps2, \A k \in Loops \ {l} : lps2[k] = lps[k],
         LoopInformed(H, f, seenBy, pg, q, lps2[l])
  PROVE  Informed(H, f, seenBy, pg, q, lps2)
PROOF
  <1>1. \A k \in Loops : LoopInformed(H, f, seenBy, pg, q, lps2[k])
    BY DEF Informed
  <1> QED
    BY <1>1 DEF Informed

\* The line without its first command.
LEMMA LineHead ==
  ASSUME NEW b \in Seq(Commands), b # <<>>, NEW q \in Seq(Commands)
  PROVE  /\ b \o q \in Seq(Commands) /\ b \o q # <<>> /\ 1 \in DOMAIN (b \o q)
         /\ (b \o q)[1] = Head(b) /\ b[1] = Head(b) /\ 1 \in DOMAIN b
         /\ Tail(b \o q) = Tail(b) \o q
         /\ Tail(b) \in Seq(Commands)
PROOF
  <1>1. /\ b \o q \in Seq(Commands) /\ b \o q # <<>> /\ 1 \in DOMAIN (b \o q)
        /\ (b \o q)[1] = Head(b) /\ b[1] = Head(b) /\ 1 \in DOMAIN b
    OBVIOUS
  <1>2. Tail(b) \in Seq(Commands)
    OBVIOUS
  <1>3. Tail(b \o q) = Tail(b) \o q
    <2> DEFINE left == Tail(b \o q)
               right == Tail(b) \o q
    <2>1. /\ left \in Seq(Commands) /\ right \in Seq(Commands)
          /\ Len(left) = Len(b) + Len(q) - 1 /\ Len(right) = Len(b) + Len(q) - 1
      OBVIOUS
    <2>2. ASSUME NEW i \in 1..(Len(b) + Len(q) - 1)
          PROVE  left[i] = right[i]
      <3>1. CASE i <= Len(b) - 1
        BY <3>1
      <3>2. CASE i > Len(b) - 1
        BY <3>2
      <3> QED
        BY <3>1, <3>2
    <2> HIDE DEF left, right
    <2>3. left = right
      BY <2>1, <2>2
    <2> QED
      BY <2>3 DEF left, right
  <1> QED
    BY <1>1, <1>2, <1>3

\* What a loop that was not told to stop has in hand may be sent.
LEMMA StageInformed ==
  ASSUME NEW H, NEW f, NEW seenBy, NEW pg, NEW q \in Seq(Commands), NEW lp \in SoundLoops,
         LoopInformed(H, f, seenBy, pg, q, lp),
         lp.pc \in {"batch", "send", "wait"}, lp.pc = "batch" => ~lp.aborted,
         Head(lp.batch).type = "transactions",
         NEW new, new.pc \in {"send", "wait"}, new.batch = lp.batch,
         new.details = lp.details, new.aborted = lp.aborted
  PROVE  LoopInformed(H, f, seenBy, pg, q, new)
PROOF
  <1> DEFINE c == Head(lp.batch)
             d == lp.details
  <1>1. /\ Ordered(f, c.transactions)
        /\ \A x \in ToSet(c.transactions) : Upto(H, c.project, d[c.project]) \subseteq f[x]
    <2>1. CASE lp.pc \in {"send", "wait"}
      BY <2>1 DEF LoopInformed
    <2>2. CASE lp.pc = "batch"
      <3> DEFINE cs == lp.batch \o q
      <3>1. lp.batch \in Seq(Commands) /\ lp.batch # <<>>
        BY LoopShape
      <3>2. 1 \in DOMAIN cs /\ cs[1] = c
        BY <3>1, LineHead
      <3>3. Sound(H, f, seenBy, pg, cs, d)
        BY <2>2 DEF LoopInformed
      <3> HIDE DEF cs, c, d
      <3>4. /\ Ordered(f, c.transactions)
            /\ \A x \in ToSet(c.transactions) : Covers(H, f[x], cs, d, 1, c.project)
        BY <3>2, <3>3 DEF Sound, c
      <3>5. DOMAIN cs \subseteq Nat /\ Open(cs, 0, 1, c.project)
        <4>1. cs \in Seq(Commands)
          BY <3>1, LineHead DEF cs
        <4> QED
          BY <4>1 DEF Open
      <3> QED
        BY <3>4, <3>5 DEF Covers
    <2> QED
      BY <2>1, <2>2
  <1> QED
    BY <1>1 DEF LoopInformed

\* A loop is done with the command in hand and remembers version v of its project.
DoneWith(old, new, v) ==
  /\ old.pc \in {"batch", "wait"} /\ new.pc \in {"poll", "batch"}
  /\ new.pc = "poll" => new.batch = <<>>
  /\ new.batch = Tail(old.batch) /\ new.aborted = old.aborted
  /\ new.details = [old.details EXCEPT ![Head(old.batch).project] = v]

\* Version v has nothing but what the command brings and, if that was an edit, what the
\* version remembered before has.
Learns(H, lp, v) ==
  LET c == Head(lp.batch) IN
  /\ v <= Len(H[c.project])
  /\ ~lp.aborted => Upto(H, c.project, v) \subseteq
       IF c.type = "setDetails" THEN Brings(H, c)
       ELSE Upto(H, c.project, lp.details[c.project]) \cup Brings(H, c)

\* It goes on to the next command with what it has learned.
LEMMA DoneInformed ==
  ASSUME NEW H, NEW f, NEW seenBy, NEW pg, pg.phase = "open" => pg.project \in Projects,
         NEW q \in Seq(Commands), NEW lp \in SoundLoops,
         LoopInformed(H, f, seenBy, pg, q, lp),
         NEW new, NEW v, DoneWith(lp, new, v), Learns(H, lp, v)
  PROVE  LoopInformed(H, f, seenBy, pg, q, new)
PROOF
  <1>0. /\ v <= Len(H[Head(lp.batch).project])
        /\ ~lp.aborted => Upto(H, Head(lp.batch).project, v) \subseteq
             IF Head(lp.batch).type = "setDetails" THEN Brings(H, Head(lp.batch))
             ELSE Upto(H, Head(lp.batch).project, lp.details[Head(lp.batch).project])
                    \cup Brings(H, Head(lp.batch))
        /\ lp.pc \in {"batch", "wait"}
        /\ new.pc \in {"poll", "batch"} /\ (new.pc = "poll" => new.batch = <<>>)
        /\ new.batch = Tail(lp.batch) /\ new.aborted = lp.aborted
        /\ new.details = [lp.details EXCEPT ![Head(lp.batch).project] = v]
    BY DEF DoneWith, Learns
  <1> USE <1>0
  <1> DEFINE c == Head(lp.batch)
             p == c.project
             d == lp.details
             cs == lp.batch \o q
  <1>1. lp.batch \in Seq(Commands) /\ lp.batch # <<>> /\ d \in Versions /\ p \in Projects
    BY LoopShape
  <1>2. /\ cs \in Seq(Commands) /\ cs # <<>> /\ cs[1] = c
        /\ Tail(cs) = new.batch \o q
    <2> HIDE DEF c, p, d
    <2>1. /\ lp.batch \o q \in Seq(Commands) /\ lp.batch \o q # <<>>
          /\ (lp.batch \o q)[1] = Head(lp.batch)
          /\ Tail(lp.batch \o q) = Tail(lp.batch) \o q
      <3> DEFINE b == lp.batch
      <3>1. b \in Seq(Commands) /\ b # <<>>
        BY <1>1
      <3> HIDE DEF b
      <3>2. /\ b \o q \in Seq(Commands) /\ b \o q # <<>>
            /\ (b \o q)[1] = Head(b)
            /\ Tail(b \o q) = Tail(b) \o q
        BY <3>1, LineHead
      <3> QED
        BY <3>2 DEF b
    <2>2. Tail(lp.batch) = new.batch
      OBVIOUS
    <2> QED
      BY <2>1, <2>2 DEF cs, c
  <1>3. new.details[p] = v /\ \A r \in Projects \ {p} : new.details[r] = d[r]
    BY <1>1 DEF Versions
  <1>4. \A r \in Projects : new.details[r] <= Len(H[r])
    <2>1. \A r \in Projects : d[r] <= Len(H[r])
      BY DEF LoopInformed
    <2> QED
      BY <1>3, <2>1
  <1>5. ASSUME ~lp.aborted
        PROVE  Sound(H, f, seenBy, pg, new.batch \o q, new.details)
    <2>1. Sound(H, f, seenBy, pg, cs, d)
      BY <1>5 DEF LoopInformed
    <2>2. Upto(H, p, new.details[p]) \subseteq
            IF cs[1].type = "setDetails" THEN Brings(H, cs[1])
                                         ELSE Upto(H, p, d[p]) \cup Brings(H, cs[1])
      BY <1>2, <1>3, <1>5
    <2>3. p = cs[1].project
      BY <1>2
    <2> HIDE DEF cs, d, p
    <2>4. Sound(H, f, seenBy, pg, Tail(cs), new.details)
      <3> DEFINE e == new.details
      <3>1. cs \in Seq(Commands) /\ cs # <<>>
        BY <1>2
      <3>2. \A r \in Projects \ {p} : e[r] = d[r]
        BY <1>3
      <3>3. Upto(H, p, e[p]) \subseteq
              IF cs[1].type = "setDetails" THEN Brings(H, cs[1])
                                           ELSE Upto(H, p, d[p]) \cup Brings(H, cs[1])
        BY <2>2
      <3> HIDE DEF e
      <3>4. Sound(H, f, seenBy, pg, Tail(cs), e)
        <4> HIDE <1>0
        <4>1. pg.phase = "open" => pg.project \in Projects
          OBVIOUS
        <4> QED
          BY <2>1, <2>3, <3>1, <3>2, <3>3, <4>1, TailSound
      <3> QED
        BY <3>4 DEF e
    <2> QED
      BY <1>2, <2>4
  <1> QED
    BY <1>4, <1>5 DEF LoopInformed

LEMMA ConcatEmpty ==
  ASSUME NEW b \in Seq(Commands)
  PROVE  b \o <<>> = b /\ <<>> \o b = b
PROOF OBVIOUS

LEMMA ConcatAppend ==
  ASSUME NEW b \in Seq(Commands), NEW q \in Seq(Commands), NEW c \in Commands
  PROVE  b \o Append(q, c) = Append(b \o q, c)
PROOF
  <1> DEFINE left == b \o Append(q, c)
             right == Append(b \o q, c)
  <1>1. /\ left \in Seq(Commands) /\ right \in Seq(Commands)
        /\ Len(left) = Len(b) + Len(q) + 1 /\ Len(right) = Len(b) + Len(q) + 1
    OBVIOUS
  <1>2. ASSUME NEW i \in 1..(Len(b) + Len(q) + 1)
        PROVE  left[i] = right[i]
    <2>1. CASE i <= Len(b)
      BY <2>1
    <2>2. CASE i > Len(b) /\ i <= Len(b) + Len(q)
      BY <2>2
    <2>3. CASE i = Len(b) + Len(q) + 1
      BY <2>3
    <2> QED
      BY <2>1, <2>2, <2>3
  <1> HIDE DEF left, right
  <1>3. left = right
    BY <1>1, <1>2
  <1> QED
    BY <1>3 DEF left, right

\* What a loop sends is in its batch.
LEMMA HeadCarried ==
  ASSUME NEW lp \in SoundLoops, lp.pc \in {"send", "wait"}, Sends(lp),
         NEW x \in ToSet(Head(lp.batch).transactions)
  PROVE  Carries(lp.batch, x)
PROOF
  <1>1. lp.batch \in Seq(Commands) /\ lp.batch # <<>>
    BY DEF SoundLoops, LoopStates
  <1>2. 1 \in DOMAIN lp.batch /\ Head(lp.batch) = lp.batch[1]
    BY <1>1
  <1> QED
    BY <1>2 DEF Carries, Sends, ToSet

\* A loop takes the queue.
LEMMA PollInformed ==
  ASSUME NEW H \in Histories, NEW f, NEW seenBy, NEW pg, pg.phase = "open" => pg.project \in Projects,
         NEW q \in Seq(Commands), NEW lps \in [Loops -> SoundLoops],
         Informed(H, f, seenBy, pg, q, lps),
         NEW l \in Loops, lps[l].pc = "poll",
         (\E k \in Loops \ {l} : lps[k].pc # "off" /\ ~lps[k].aborted) =>
           \A i \in DOMAIN q : q[i].type = "transactions",
         NEW lps2, \A k \in Loops \ {l} : lps2[k] = lps[k],
         lps2[l].pc \in {"poll", "batch"}, lps2[l].pc = "poll" => lps2[l].batch = <<>>,
         lps2[l].batch = q, lps2[l].details = lps[l].details, lps2[l].aborted = lps[l].aborted
  PROVE  Informed(H, f, seenBy, pg, <<>>, lps2)
PROOF
  <1>1. \A k \in Loops : LoopInformed(H, f, seenBy, pg, q, lps[k]) /\ lps[k].batch \in Seq(Commands)
    BY LoopShape DEF Informed
  <1>2. LoopInformed(H, f, seenBy, pg, <<>>, lps2[l])
    <2>1. lps[l].batch = <<>> /\ \A p \in Projects : lps[l].details[p] <= Len(H[p])
      BY <1>1 DEF LoopInformed
    <2>2. ~lps[l].aborted => Sound(H, f, seenBy, pg, q, lps[l].details)
      BY <1>1, <2>1, ConcatEmpty DEF LoopInformed
    <2>3. q \o <<>> = q
      BY ConcatEmpty
    <2> QED
      BY <2>1, <2>2, <2>3 DEF LoopInformed
  <1>3. ASSUME NEW k \in Loops \ {l}
        PROVE  LoopInformed(H, f, seenBy, pg, <<>>, lps2[k])
    <2> DEFINE b == lps[k].batch
               d == lps[k].details
    <2>1. b \in Seq(Commands) /\ b \o <<>> = b
      BY <1>1, ConcatEmpty
    <2>2. ASSUME lps[k].pc # "off", ~lps[k].aborted
          PROVE  Sound(H, f, seenBy, pg, b, d)
      <3>1. Sound(H, f, seenBy, pg, b \o q, d)
        BY <1>1, <2>2 DEF LoopInformed
      <3>2. \A i \in DOMAIN q : q[i].type = "transactions"
        BY <2>2
      <3> HIDE DEF b, d
      <3> QED
        BY <2>1, <3>1, <3>2, PrefixSound
    <2>3. LoopInformed(H, f, seenBy, pg, q, lps[k])
      BY <1>1
    <2>4. lps[k].pc # "off" /\ ~lps[k].aborted => Sound(H, f, seenBy, pg, lps[k].batch \o <<>>, lps[k].details)
      BY <2>1, <2>2
    <2>5. LoopInformed(H, f, seenBy, pg, <<>>, lps[k])
      BY <2>3, <2>4 DEF LoopInformed
    <2> QED
      BY <2>5
  <1>4. PageInformed(H, seenBy, pg) /\ Sound(H, f, seenBy, pg, <<>>, NoDetails)
    BY EmptySound DEF Informed
  <1> QED
    BY <1>2, <1>3, <1>4 DEF Informed

\* The details of what the page pg has loaded, and the page next that shows it.
Shows(pg, next, c) ==
  /\ pg.phase = "loaded" /\ next.phase = "open" /\ next.project = pg.project
  /\ c \in Commands /\ c.type = "setDetails" /\ c.project = pg.project /\ c.version = pg.version

\* A new loop takes all there is; no other was left that is not told to stop.
Begins(lps, lps2, cs) ==
  \E l \in Loops :
    /\ \A k \in Loops \ {l} : lps2[k] = lps[k] /\ (lps[k].pc = "off" \/ lps[k].aborted)
    /\ lps2[l].pc = "batch" /\ lps2[l].batch = cs /\ lps2[l].details = NoDetails

\* A page is opened with what it loaded: its details go to the end of the queue.
LEMMA OpenInformed ==
  ASSUME NEW H \in Histories, NEW f, NEW seenBy, NEW pg, NEW next, NEW c, Shows(pg, next, c),
         NEW q \in Seq(Commands), NEW lps \in [Loops -> SoundLoops],
         Informed(H, f, seenBy, pg, q, lps)
  PROVE  /\ Informed(H, f, seenBy, next, Append(q, c), lps)
         /\ \A lps2 : Begins(lps, lps2, Append(q, c)) => Informed(H, f, seenBy, next, <<>>, lps2)
PROOF
  <1>0. /\ pg.phase = "loaded" /\ next.phase = "open" /\ next.project = pg.project
        /\ c \in Commands /\ c.type = "setDetails" /\ c.project = pg.project /\ c.version = pg.version
    BY DEF Shows
  <1> USE <1>0
  <1>1. \A k \in Loops : LoopInformed(H, f, seenBy, pg, q, lps[k]) /\ lps[k].batch \in Seq(Commands)
    BY LoopShape DEF Informed
  <1>2. c.version <= Len(H[c.project]) /\ Upto(H, c.project, c.version) \subseteq seenBy
    BY DEF Informed, PageInformed
  <1>3. next.phase = "open" => next.project = c.project
    OBVIOUS
  <1>4. ASSUME NEW cs \in Seq(Commands), NEW d, Sound(H, f, seenBy, pg, cs, d)
        PROVE  Sound(H, f, seenBy, next, Append(cs, c), d)
    BY <1>2, <1>3, <1>4, NewDetailsSound
  <1>5. Sound(H, f, seenBy, next, Append(q, c), NoDetails)
    BY <1>4 DEF Informed
  <1>6. PageInformed(H, seenBy, next)
    BY DEF PageInformed
  <1>7. Informed(H, f, seenBy, next, Append(q, c), lps)
    <2>1. ASSUME NEW k \in Loops
          PROVE  LoopInformed(H, f, seenBy, next, Append(q, c), lps[k])
      <3>1. lps[k].batch \o q \in Seq(Commands) /\ lps[k].batch \o Append(q, c) = Append(lps[k].batch \o q, c)
        <4> DEFINE b == lps[k].batch
        <4>1. b \in Seq(Commands)
          BY <1>1
        <4> HIDE DEF b
        <4>2. b \o q \in Seq(Commands) /\ b \o Append(q, c) = Append(b \o q, c)
          BY <4>1, ConcatAppend
        <4> QED
          BY <4>2 DEF b
      <3>2. lps[k].pc # "off" /\ ~lps[k].aborted =>
              Sound(H, f, seenBy, next, lps[k].batch \o Append(q, c), lps[k].details)
        BY <1>1, <1>4, <3>1 DEF LoopInformed
      <3>3. LoopInformed(H, f, seenBy, pg, q, lps[k])
        BY <1>1
      <3> QED
        BY <3>2, <3>3 DEF LoopInformed
    <2> QED
      BY <1>5, <1>6, <2>1 DEF Informed
  <1>8. ASSUME NEW l \in Loops, NEW lps2,
               \A k \in Loops \ {l} : lps2[k] = lps[k] /\ (lps[k].pc = "off" \/ lps[k].aborted),
               lps2[l].pc = "batch", lps2[l].batch = Append(q, c), lps2[l].details = NoDetails
        PROVE  Informed(H, f, seenBy, next, <<>>, lps2)
    <2>1. ASSUME NEW k \in Loops \ {l}
          PROVE  LoopInformed(H, f, seenBy, next, <<>>, lps2[k])
      BY <1>1, <1>8 DEF LoopInformed
    <2>2. Append(q, c) \o <<>> = Append(q, c)
      BY ConcatEmpty
    <2>3. LoopInformed(H, f, seenBy, next, <<>>, lps2[l])
      BY <1>5, <1>8, <2>2, NothingKnown DEF LoopInformed
    <2>4. Sound(H, f, seenBy, next, <<>>, NoDetails)
      <3>1. pg.project \in Projects
        <4>1. c.project \in Projects
          BY DEF Commands
        <4> QED
          BY <4>1
      <3> QED
        BY <3>1, EmptySound
    <2> QED
      BY <1>6, <2>1, <2>3, <2>4 DEF Informed
  <1> QED
    BY <1>7, <1>8 DEF Begins

\* An edit, on top of what the page shows.
LEMMA EditInformed ==
  ASSUME NEW H \in Histories, NEW f \in Bases, NEW seenBy \in SUBSET Txns,
         NEW pg, pg.phase = "open", NEW p \in Projects, pg.project = p,
         NEW q \in Seq(Commands), NEW lps \in [Loops -> SoundLoops], \A l \in Loops : Sends(lps[l]),
         Informed(H, f, seenBy, pg, q, lps),
         NEW x \in Txns, ~ CarriedBy(q, lps, x),
         NEW g, g = [f EXCEPT ![x] = seenBy]
  PROVE  Informed(H, g, seenBy \cup {x}, pg, Enqueue(q, Transactions(p, <<x>>)), lps)
PROOF
  <1> DEFINE q2 == Enqueue(q, Transactions(p, <<x>>))
  <1>1. \A l \in Loops : /\ LoopInformed(H, f, seenBy, pg, q, lps[l])
                         /\ lps[l].batch \in Seq(Commands) /\ lps[l].details \in Versions
    BY LoopShape DEF Informed
  <1>2. ~ Carries(q, x) /\ \A l \in Loops : ~ Carries(lps[l].batch, x)
    BY DEF CarriedBy
  <1>3. ASSUME NEW b \in Seq(Commands), ~ Carries(b, x), NEW d \in Versions,
               Sound(H, f, seenBy, pg, b \o q, d)
        PROVE  Sound(H, g, seenBy \cup {x}, pg, b \o q2, d)
    <2> DEFINE old == b \o q
               new == b \o q2
               n == Len(old)
    <2>1. old \in Seq(Commands) /\ new \in Seq(Commands) /\ Joins(old, new, n, p, x)
      BY EditLine
    <2>2. ~ Carries(old, x)
      BY <1>2, <1>3, ConcatCarries
    <2>3. Sound(H, f, seenBy, pg, old, d) /\ n = Len(old)
      BY <1>3
    <2> HIDE DEF old, new, n
    <2>4. Sound(H, g, seenBy \cup {x}, pg, new, d)
      BY <2>1, <2>2, <2>3, EditSound
    <2> QED
      BY <2>4 DEF new
  <1>4. Sound(H, g, seenBy \cup {x}, pg, q2, NoDetails)
    <2> DEFINE none == <<>>
    <2>1. none \in Seq(Commands) /\ ~ Carries(none, x) /\ none \o q = q
      BY ConcatEmpty DEF Carries
    <2>2. q2 \in Seq(Commands) /\ none \o q2 = q2
      <3>1. Transactions(p, <<x>>) \in Commands
        BY CommandsTyped
      <3>2. q2 \in Seq(Commands)
        BY <3>1, EnqueueTyped
      <3> QED
        BY <3>2, ConcatEmpty
    <2> HIDE DEF q2, none
    <2>3. NoDetails \in Versions /\ Sound(H, f, seenBy, pg, none \o q, NoDetails)
      BY <2>1, NothingKnown DEF Informed
    <2>4. Sound(H, g, seenBy \cup {x}, pg, none \o q2, NoDetails)
      BY <1>3, <2>1, <2>3
    <2> QED
      BY <2>2, <2>4
  <1>5. ASSUME NEW l \in Loops
        PROVE  LoopInformed(H, g, seenBy \cup {x}, pg, q2, lps[l])
    <2> DEFINE lp == lps[l]
    <2>1. LoopInformed(H, f, seenBy, pg, q, lp) /\ lp \in SoundLoops /\ Sends(lp) /\ ~ Carries(lp.batch, x)
          /\ lp.batch \in Seq(Commands) /\ lp.details \in Versions
      BY <1>1, <1>2
    <2> HIDE DEF q2, lp
    <2>2. lp.pc # "off" /\ ~lp.aborted => Sound(H, g, seenBy \cup {x}, pg, lp.batch \o q2, lp.details)
      BY <1>3, <2>1 DEF LoopInformed
    <2>3. ASSUME lp.pc \in {"send", "wait"}
          PROVE  /\ Ordered(g, Head(lp.batch).transactions)
                 /\ \A y \in ToSet(Head(lp.batch).transactions) :
                      Upto(H, Head(lp.batch).project, lp.details[Head(lp.batch).project]) \subseteq g[y]
      <3> DEFINE ts == Head(lp.batch).transactions
      <3>1. \A y \in ToSet(ts) : y # x
        BY <2>1, <2>3, HeadCarried
      <3>2. \A y \in ToSet(ts) : g[y] = f[y]
        BY <3>1 DEF Bases
      <3>3. \A j \in DOMAIN ts : ts[j] \in ToSet(ts)
        BY DEF ToSet
      <3>4. /\ Ordered(f, ts)
            /\ \A y \in ToSet(ts) :
                 Upto(H, Head(lp.batch).project, lp.details[Head(lp.batch).project]) \subseteq f[y]
        BY <2>1, <2>3 DEF LoopInformed
      <3> HIDE DEF ts
      <3>5. /\ Ordered(g, ts)
            /\ \A y \in ToSet(ts) :
                 Upto(H, Head(lp.batch).project, lp.details[Head(lp.batch).project]) \subseteq g[y]
        BY <3>2, <3>3, <3>4 DEF Ordered
      <3> QED
        BY <3>5 DEF ts
    <2>4. LoopInformed(H, g, seenBy \cup {x}, pg, q2, lp)
      BY <2>1, <2>2, <2>3 DEF LoopInformed
    <2> QED
      BY <2>4 DEF lp
  <1>6. PageInformed(H, seenBy \cup {x}, pg)
    BY DEF PageInformed
  <1> HIDE DEF q2
  <1>7. Informed(H, g, seenBy \cup {x}, pg, q2, lps)
    BY <1>4, <1>5, <1>6 DEF Informed
  <1> QED
    BY <1>7 DEF q2

-----------------------------------------------------------------------------
(* The steps of a loop, field by field.                                    *)

\* What else a step does to its loop: it takes the queue, or sends what it has in hand.
Took(old, new, q) ==
  /\ old.pc = "poll" /\ new.pc \in {"poll", "batch"} /\ (new.pc = "poll" => new.batch = <<>>)
  /\ new.batch = q /\ new.details = old.details /\ new.aborted = old.aborted

Staged(old, new) ==
  /\ old.pc \in {"batch", "send", "wait"} /\ (old.pc = "batch" => ~old.aborted)
  /\ Head(old.batch).type = "transactions"
  /\ new.pc \in {"send", "wait"}
  /\ new.batch = old.batch /\ new.details = old.details /\ new.aborted = old.aborted

\* The fields of a loop that is done with a command, takes the queue or tries again.
LEMMA DoneFields ==
  ASSUME NEW lp \in SoundLoops, lp.pc \in {"batch", "wait"}, NEW p, NEW v,
         p = Head(lp.batch).project, NEW new, new = Done([lp EXCEPT !.details[p] = v])
  PROVE  DoneWith(lp, new, v)
PROOF
  <1>1. lp \in [pc : {"off", "poll", "batch", "send", "wait"}, aborted : BOOLEAN,
                details : [Projects -> Nat \cup {Unknown}], batch : Seq(Commands),
                attempts : 0..MaxRetryRecovery, errors : 0..MaxAllowedApiErrors]
    BY DEF SoundLoops, LoopStates
  <1> DEFINE d == [lp.details EXCEPT ![p] = v]
             mid == [lp EXCEPT !.details = d]
  <1>2. [lp EXCEPT !.details[p] = v] = mid
    BY <1>1, Zenon
  <1> HIDE DEF d
  <1>3. /\ mid = [lp EXCEPT !.details = d]
        /\ mid.pc = lp.pc /\ mid.aborted = lp.aborted /\ mid.batch = lp.batch /\ mid.details = d
    BY <1>1
  <1>4. mid \in [pc : {"off", "poll", "batch", "send", "wait"}, aborted : BOOLEAN,
                details : {d}, batch : Seq(Commands),
                attempts : 0..MaxRetryRecovery, errors : 0..MaxAllowedApiErrors]
    BY <1>1
  <1> HIDE DEF mid
  <1>5. new = Done(mid)
    BY <1>2
  <1>6. /\ new.pc = IF Tail(mid.batch) = <<>> THEN "poll" ELSE "batch"
        /\ new.batch = Tail(mid.batch) /\ new.aborted = mid.aborted /\ new.details = mid.details
    BY <1>4, <1>5 DEF Done
  <1> QED
    BY <1>3, <1>6 DEF DoneWith, d

\* The field of a loop that a stage sets.
LEMMA PcFields ==
  ASSUME NEW lp \in LoopStates, NEW s \in {"off", "poll", "batch", "send", "wait"}, NEW new, new = [lp EXCEPT !.pc = s]
  PROVE  new.pc = s /\ new.batch = lp.batch /\ new.details = lp.details /\ new.aborted = lp.aborted
PROOF BY DEF LoopStates

LEMMA TakenFields ==
  ASSUME NEW lp \in LoopStates, NEW q, NEW new, new = Taken(lp, q)
  PROVE  /\ new.pc = IF q = <<>> THEN "poll" ELSE "batch"
         /\ new.batch = q /\ new.details = lp.details /\ new.aborted = lp.aborted
PROOF BY DEF Taken, LoopStates

LEMMA RetryFields ==
  ASSUME NEW lp \in LoopStates, NEW t \in Tabs, NEW l \in Loops, RetryLater(t, l, lp),
         loop \in [Tabs -> [Loops -> LoopStates]]
  PROVE  /\ loop'[t][l].pc = "send" /\ loop'[t][l].batch = lp.batch
         /\ loop'[t][l].details = lp.details /\ loop'[t][l].aborted = lp.aborted
PROOF
  <1> DEFINE new == [lp EXCEPT !.pc = "send", !.attempts = IF @ < MaxRetryRecovery THEN @ + 1 ELSE @]
  <1>1. loop'[t][l] = new
    <2>1. loop' = [loop EXCEPT ![t][l] = new]
      BY DEF RetryLater, SetLoop
    <2> HIDE DEF new
    <2> QED
      BY <2>1
  <1>2. /\ new.pc = "send" /\ new.batch = lp.batch
        /\ new.details = lp.details /\ new.aborted = lp.aborted
    BY DEF LoopStates
  <1> HIDE DEF new
  <1> QED
    BY <1>1, <1>2

\* Where a step sets a loop.
LEMMA SetAt ==
  ASSUME loop \in [Tabs -> [Loops -> LoopStates]], NEW t \in Tabs, NEW l \in Loops, NEW lp, SetLoop(t, l, lp)
  PROVE  /\ loop'[t][l] = lp
         /\ \A k \in Loops \ {l} : loop'[t][k] = loop[t][k]
         /\ \A u \in Tabs \ {t} : loop'[u] = loop[u]
PROOF BY DEF SetLoop

\* All that a step of a loop does to it.
LEMMA LoopMovedBy ==
  ASSUME PQInv, \A u \in Tabs, k \in Loops : Sends(loop[u][k]),
         NEW t \in Tabs, NEW l \in Loops, NEW result,
         \/ Step(t, l) \/ SendPatch(t, l) \/ NetworkError(t, l)
         \/ Receive(t, l, result)
  PROVE  /\ UNCHANGED <<page, controller>>
         /\ \A u \in Tabs \ {t} : loop'[u] = loop[u] /\ queue'[u] = queue[u]
         /\ \A k \in Loops \ {l} : loop'[t][k] = loop[t][k]
         /\ \/ loop'[t][l] = OffLoop /\ queue'[t] = queue[t]
            \/ Took(loop[t][l], loop'[t][l], queue[t]) /\ queue'[t] = <<>>
            \/ Staged(loop[t][l], loop'[t][l]) /\ queue'[t] = queue[t]
            \/ \E v : /\ DoneWith(loop[t][l], loop'[t][l], v) /\ queue'[t] = queue[t]
                      /\ loop[t][l].pc = "batch" =>
                           /\ ~loop[t][l].aborted
                           /\ InHand(t, l).type = "setDetails" /\ v = InHand(t, l).version
                      /\ loop[t][l].pc = "wait" => result.status = "ok" /\ v = result.version
PROOF
  <1> DEFINE lp == loop[t][l]
             new == loop'[t][l]
  <1>1. /\ loop \in [Tabs -> [Loops -> LoopStates]] /\ queue \in [Tabs -> Seq(Commands)]
        /\ lp \in SoundLoops /\ lp \in LoopStates /\ Sends(lp)
    BY SoundLoopsTyped DEF PQInv, PQTypeOK
  <1>2. UNCHANGED <<page, controller>>
    BY DEF Step, Poll, NoticeAbort, TakeDetails, TakeUnknown, TakeTransactions,
           SendPatch, NetworkError, Receive, ReceiveOk, ReceiveRefusal, ReceiveError
  <1>3. \A u \in Tabs \ {t} : queue'[u] = queue[u]
    BY <1>1 DEF Step, Poll, NoticeAbort, TakeDetails, TakeUnknown, TakeTransactions,
           SendPatch, NetworkError, Receive, ReceiveOk, ReceiveRefusal, ReceiveError
  <1>4. \E to : SetLoop(t, l, to)
    BY DEF Step, Poll, NoticeAbort, TakeDetails, TakeUnknown, TakeTransactions,
           SendPatch, NetworkError, Receive, ReceiveOk, ReceiveRefusal, ReceiveError,
           Halt, RetryLater
  <1>5. /\ \A k \in Loops \ {l} : loop'[t][k] = loop[t][k]
        /\ \A u \in Tabs \ {t} : loop'[u] = loop[u]
    BY <1>1, <1>4, SetAt
  <1>6. \A to : SetLoop(t, l, to) => new = to
    BY <1>1, SetAt
  <1> DEFINE Goal == \/ new = OffLoop /\ queue'[t] = queue[t]
                     \/ Took(lp, new, queue[t]) /\ queue'[t] = <<>>
                     \/ Staged(lp, new) /\ queue'[t] = queue[t]
                     \/ \E v : /\ DoneWith(lp, new, v) /\ queue'[t] = queue[t]
                               /\ lp.pc = "batch" =>
                                    /\ ~lp.aborted
                                    /\ InHand(t, l).type = "setDetails" /\ v = InHand(t, l).version
                               /\ lp.pc = "wait" => result.status = "ok" /\ v = result.version
  <1>7. ASSUME Poll(t, l)
        PROVE  Goal
    <2>1. lp.pc = "poll" /\ new = Taken(lp, queue[t]) /\ queue' = [queue EXCEPT ![t] = <<>>]
      BY <1>6, <1>7 DEF Poll
    <2>2. queue'[t] = <<>>
      BY <1>1, <2>1
    <2> HIDE DEF new
    <2>3. Took(lp, new, queue[t])
      BY <1>1, <2>1, TakenFields DEF Took
    <2> QED
      BY <2>2, <2>3 DEF new
  <1>8. ASSUME NoticeAbort(t, l) \/ TakeUnknown(t, l) \/ ReceiveRefusal(t, l, result)
        PROVE  Goal
    BY <1>6, <1>8 DEF NoticeAbort, TakeUnknown, ReceiveRefusal, Halt
  <1>9. ASSUME TakeDetails(t, l)
        PROVE  Goal
    <2> DEFINE p == Head(lp.batch).project
               v == InHand(t, l).version
               to == Done([lp EXCEPT !.details[p] = v])
    <2>1. /\ lp.pc = "batch" /\ ~lp.aborted /\ queue' = queue /\ InHand(t, l).type = "setDetails"
          /\ SetLoop(t, l, OffLoop) \/ SetLoop(t, l, to)
      BY <1>9 DEF TakeDetails, Halt, InHand
    <2>2. new = OffLoop \/ new = to
      BY <1>6, <2>1
    <2>3. ASSUME new = to
          PROVE  DoneWith(lp, new, v)
      BY <1>1, <2>1, <2>3, DoneFields
    <2> QED
      BY <2>1, <2>2, <2>3
  <1>10. ASSUME TakeTransactions(t, l) \/ SendPatch(t, l)
        PROVE  Goal
    <2>1. /\ queue' = queue /\ lp.pc \in {"batch", "send"} /\ (lp.pc = "batch" => ~lp.aborted)
          /\ Head(lp.batch).type = "transactions"
          /\ SetLoop(t, l, [lp EXCEPT !.pc = "send"]) \/ SetLoop(t, l, [lp EXCEPT !.pc = "wait"])
      BY <1>1, <1>10 DEF TakeTransactions, SendPatch, InHand, Sends
    <2>2. new = [lp EXCEPT !.pc = "send"] \/ new = [lp EXCEPT !.pc = "wait"]
      BY <1>6, <2>1
    <2> HIDE DEF new
    <2>3. /\ new.pc \in {"send", "wait"} /\ new.batch = lp.batch /\ new.details = lp.details
          /\ new.aborted = lp.aborted
      BY <1>1, <2>2, PcFields
    <2>4. Staged(lp, new)
      BY <2>1, <2>3 DEF Staged
    <2> QED
      BY <2>1, <2>4 DEF new
  <1>11. ASSUME NEW lp2 \in LoopStates, lp.pc = "wait", RetryLater(t, l, lp2), queue' = queue,
                lp2.batch = lp.batch, lp2.details = lp.details, lp2.aborted = lp.aborted
         PROVE  Goal
    <2>1. Head(lp.batch).type = "transactions"
      BY <1>1, <1>11 DEF Sends
    <2>2. /\ new.pc = "send" /\ new.batch = lp2.batch
          /\ new.details = lp2.details /\ new.aborted = lp2.aborted
      BY <1>1, <1>11, RetryFields
    <2>3. Staged(lp, new)
      BY <1>11, <2>1, <2>2 DEF Staged
    <2> QED
      BY <1>11, <2>3
  <1>12. ASSUME NetworkError(t, l)
        PROVE  Goal
    BY <1>1, <1>11, <1>12 DEF NetworkError
  <1>13. ASSUME ReceiveOk(t, l, result)
         PROVE  Goal
    <2> DEFINE p == Head(lp.batch).project
               v == result.version
               to == Done([lp EXCEPT !.details[p] = v])
    <2>1. lp.pc = "wait" /\ result.status = "ok" /\ queue' = queue /\ SetLoop(t, l, to)
      BY <1>13 DEF ReceiveOk, InHand
    <2>2. new = to
      BY <1>6, <2>1
    <2>3. DoneWith(lp, new, v)
      BY <1>1, <2>1, <2>2, DoneFields
    <2> QED
      BY <2>1, <2>3
  <1>14. ASSUME ReceiveError(t, l, result)
         PROVE  Goal
    <2>1. lp.pc = "wait" /\ queue' = queue
      BY <1>14 DEF ReceiveError
    <2>2. CASE lp.errors < MaxAllowedApiErrors
      <3> DEFINE lp2 == [lp EXCEPT !.errors = @ + 1]
      <3>1. RetryLater(t, l, lp2)
        BY <1>14, <2>2 DEF ReceiveError
      <3>2. lp2 \in SoundLoops /\ lp2 \in LoopStates /\ lp2.batch = lp.batch /\ lp2.details = lp.details /\ lp2.aborted = lp.aborted
        <4>1. lp2.batch = lp.batch /\ lp2.details = lp.details /\ lp2.aborted = lp.aborted
          BY <1>1 DEF LoopStates
        <4>2. lp2 \in SoundLoops
          BY <1>1, <2>2, CountedSound
        <4> QED
          BY <4>1, <4>2 DEF SoundLoops
      <3> HIDE DEF lp2
      <3> QED
        BY <1>11, <2>1, <3>1, <3>2
    <2>3. CASE ~(lp.errors < MaxAllowedApiErrors)
      <3>1. SetLoop(t, l, OffLoop)
        BY <1>14, <2>3 DEF ReceiveError, Halt
      <3> QED
        BY <1>6, <2>1, <3>1
    <2> QED
      BY <2>2, <2>3
  <1> HIDE DEF lp, new
  <1>15. Goal
    BY <1>7, <1>8, <1>9, <1>10, <1>12, <1>13, <1>14 DEF Step, Receive
  <1> QED
    BY <1>2, <1>3, <1>5, <1>15 DEF lp, new

\* What it does to the tab.
LEMMA LoopMoved ==
  ASSUME PQInv, \A u \in Tabs, k \in Loops : Sends(loop[u][k]),
         NEW t \in Tabs, NEW l \in Loops,
         \/ Step(t, l) \/ SendPatch(t, l) \/ NetworkError(t, l)
         \/ \E result : Receive(t, l, result)
  PROVE  /\ UNCHANGED <<page, controller>>
         /\ \A u \in Tabs \ {t} : loop'[u] = loop[u] /\ queue'[u] = queue[u]
         /\ \A k \in Loops \ {l} : loop'[t][k] = loop[t][k]
         /\ \/ loop'[t][l] = OffLoop /\ queue'[t] = queue[t]
            \/ Took(loop[t][l], loop'[t][l], queue[t]) /\ queue'[t] = <<>>
            \/ Staged(loop[t][l], loop'[t][l]) /\ queue'[t] = queue[t]
            \/ \E v : DoneWith(loop[t][l], loop'[t][l], v) /\ queue'[t] = queue[t]
PROOF
  <1>1. PICK result : \/ Step(t, l) \/ SendPatch(t, l) \/ NetworkError(t, l)
                      \/ Receive(t, l, result)
    OBVIOUS
  <1>2. /\ UNCHANGED <<page, controller>>
        /\ \A u \in Tabs \ {t} : loop'[u] = loop[u] /\ queue'[u] = queue[u]
        /\ \A k \in Loops \ {l} : loop'[t][k] = loop[t][k]
        /\ \/ loop'[t][l] = OffLoop /\ queue'[t] = queue[t]
           \/ Took(loop[t][l], loop'[t][l], queue[t]) /\ queue'[t] = <<>>
           \/ Staged(loop[t][l], loop'[t][l]) /\ queue'[t] = queue[t]
           \/ \E v : /\ DoneWith(loop[t][l], loop'[t][l], v) /\ queue'[t] = queue[t]
                     /\ loop[t][l].pc = "batch" =>
                          /\ ~loop[t][l].aborted
                          /\ InHand(t, l).type = "setDetails" /\ v = InHand(t, l).version
                     /\ loop[t][l].pc = "wait" => result.status = "ok" /\ v = result.version
    BY <1>1, LoopMovedBy
  <1> QED
    BY <1>2

-----------------------------------------------------------------------------
(* Nobody is saved without what he has seen.                               *)
(*                                                                         *)
(* The other side of the same: what an author saw is given, here by F for  *)
(* each project, or comes before his edit in the batch or the queue.       *)

\* What the commands cs bring to project p, and what has come up to place b.
Of(cs, p) == {x \in Txns : \E a \in DOMAIN cs : InCommand(cs[a], x) /\ cs[a].project = p}
Until(cs, b, p) ==
  {x \in Txns : \E a \in DOMAIN cs : a <= b /\ InCommand(cs[a], x) /\ cs[a].project = p}

\* What f says the authors of the commands cs saw, they find.
Founded(F, f, cs) ==
  \A b \in DOMAIN cs : \A x \in Txns : InCommand(cs[b], x) =>
    f[x] \subseteq F[cs[b].project] \cup Until(cs, b, cs[b].project)

Plus(F, cs) == [p \in Projects |-> F[p] \cup Of(cs, p)]

\* A loop, and the page pg that shows what is in seenBy.
LoopFounded(F, f, seenBy, pg, q, lp) ==
  lp.pc # "off" =>
    /\ lp.pc = "poll" => lp.batch = <<>>
    /\ Founded(F, f, lp.batch)
    /\ Founded(Plus(F, lp.batch), f, q)
    /\ pg.phase \in {"loaded", "open"} =>
         seenBy \subseteq F[pg.project] \cup Of(lp.batch, pg.project) \cup Of(q, pg.project)

\* A tab with the controller ctl.  Before its first loop it has nothing to save.
TabFounded(F, f, seenBy, pg, ctl, q, lps) ==
  /\ \A l \in Loops : LoopFounded(F, f, seenBy, pg, q, lps[l])
  /\ ctl = NoLoop =>
       /\ q = <<>>
       /\ pg.phase # "open"
       /\ pg.phase = "loaded" => seenBy \subseteq F[pg.project]

\* A list without commands.
LEMMA EmptyFounded ==
  /\ \A p : Of(<<>>, p) = {}
  /\ \A F, f : Founded(F, f, <<>>)
  /\ \A F : \A p \in Projects : Plus(F, <<>>)[p] = F[p]
PROOF BY DEF Of, Founded, Plus

\* More may be given; what others see does not matter.
LEMMA FoundedMore ==
  ASSUME NEW cs \in Seq(Commands), NEW F, NEW G, \A p \in Projects : F[p] \subseteq G[p],
         NEW f, NEW g, \A x \in Txns : Carries(cs, x) => g[x] = f[x],
         Founded(F, f, cs)
  PROVE  Founded(G, g, cs)
PROOF
  <1> SUFFICES ASSUME NEW b \in DOMAIN cs, NEW x \in Txns, InCommand(cs[b], x)
               PROVE  g[x] \subseteq G[cs[b].project] \cup Until(cs, b, cs[b].project)
    BY DEF Founded
  <1>1. g[x] = f[x]
    BY CarriesCommand
  <1>2. cs[b].project \in Projects
    BY CommandShape
  <1>3. f[x] \subseteq F[cs[b].project] \cup Until(cs, b, cs[b].project)
    BY DEF Founded
  <1> QED
    BY <1>1, <1>2, <1>3

\* The first command is done, and given.
LEMMA FoundedTail ==
  ASSUME NEW cs \in Seq(Commands), cs # <<>>, NEW F, NEW G, \A p \in Projects : F[p] \subseteq G[p],
         Head(cs).type = "transactions" => ToSet(Head(cs).transactions) \subseteq G[Head(cs).project],
         NEW f, Founded(F, f, cs)
  PROVE  /\ Founded(G, f, Tail(cs))
         /\ \A p \in Projects : Of(cs, p) \subseteq G[p] \cup Of(Tail(cs), p)
PROOF
  <1> DEFINE rest == Tail(cs)
  <1>1. /\ rest \in Seq(Commands) /\ 1 \in DOMAIN cs /\ Head(cs) = cs[1] /\ DOMAIN cs \subseteq Nat
        /\ \A i \in DOMAIN rest : i \in Nat /\ i + 1 \in DOMAIN cs /\ rest[i] = cs[i + 1]
        /\ \A i \in DOMAIN cs : i # 1 => i - 1 \in DOMAIN rest /\ cs[i] = rest[i - 1]
    OBVIOUS
  <1> HIDE DEF rest
  <1>2. \A x \in Txns : InCommand(cs[1], x) => x \in G[cs[1].project]
    BY <1>1 DEF InCommand
  <1>3. ASSUME NEW b \in DOMAIN rest, NEW x \in Txns, InCommand(rest[b], x)
        PROVE  f[x] \subseteq G[rest[b].project] \cup Until(rest, b, rest[b].project)
    <2> DEFINE p == rest[b].project
    <2>1. p \in Projects /\ b + 1 \in DOMAIN cs /\ cs[b + 1] = rest[b]
      BY <1>1, CommandShape
    <2>2. f[x] \subseteq F[p] \cup Until(cs, b + 1, p)
      BY <1>3, <2>1 DEF Founded
    <2>3. ASSUME NEW y \in Until(cs, b + 1, p)
          PROVE  y \in G[p] \cup Until(rest, b, p)
      <3>1. PICK a \in DOMAIN cs : a <= b + 1 /\ InCommand(cs[a], y) /\ cs[a].project = p
        BY <2>3 DEF Until
      <3>2. y \in Txns
        BY <2>3 DEF Until
      <3>3. CASE a = 1
        BY <1>2, <3>1, <3>2, <3>3
      <3>4. CASE a # 1
        <4>1. a - 1 \in DOMAIN rest /\ cs[a] = rest[a - 1]
          BY <1>1, <3>4
        <4>2. a - 1 <= b
          BY <1>1, <3>1
        <4> QED
          BY <3>1, <3>2, <4>1, <4>2 DEF Until
      <3> QED
        BY <3>3, <3>4
    <2> QED
      BY <2>1, <2>2, <2>3
  <1>4. ASSUME NEW p \in Projects, NEW y \in Of(cs, p)
        PROVE  y \in G[p] \cup Of(rest, p)
    <2>1. PICK a \in DOMAIN cs : InCommand(cs[a], y) /\ cs[a].project = p
      BY <1>4 DEF Of
    <2>2. y \in Txns
      BY <1>4 DEF Of
    <2>3. CASE a = 1
      BY <1>2, <2>1, <2>2, <2>3
    <2>4. CASE a # 1
      <3>1. a - 1 \in DOMAIN rest /\ cs[a] = rest[a - 1]
        BY <1>1, <2>4
      <3> QED
        BY <2>1, <2>2, <3>1 DEF Of
    <2> QED
      BY <2>3, <2>4
  <1> QED
    BY <1>3, <1>4 DEF Founded, rest

\* A command put in line, whose authors find what they saw when it is.
LEMMA FoundedEnqueue ==
  ASSUME NEW q \in Seq(Commands), NEW command \in Commands, NEW F, NEW f, Founded(F, f, q),
         \A x \in Txns : InCommand(command, x) =>
           f[x] \subseteq F[command.project] \cup Of(q, command.project) \cup ToSet(command.transactions)
  PROVE  /\ Founded(F, f, Enqueue(q, command))
         /\ \A p : Of(q, p) \subseteq Of(Enqueue(q, command), p)
         /\ \A x \in Txns : InCommand(command, x) => x \in Of(Enqueue(q, command), command.project)
PROOF
  <1> DEFINE n == Len(q)
             new == Enqueue(q, command)
             p == command.project
  <1>1. DOMAIN q = 1..n /\ n \in Nat
    OBVIOUS
  <1>2. \/ /\ n \in DOMAIN q /\ DOMAIN new = DOMAIN q
           /\ \A i \in DOMAIN q : i # n => new[i] = q[i]
           /\ new[n].type = "transactions" /\ q[n].type = "transactions"
           /\ new[n].project = q[n].project
           /\ command.type = "transactions" /\ command.project = q[n].project
           /\ \A x \in Txns :
                InCommand(new[n], x) <=> InCommand(q[n], x) \/ InCommand(command, x)
        \/ /\ DOMAIN new = DOMAIN q \cup {n + 1} /\ n + 1 \notin DOMAIN q
           /\ new[n + 1] = command
           /\ \A i \in DOMAIN q : new[i] = q[i]
    BY EnqueueShape
  <1> HIDE DEF n, new, p
  <1> DEFINE Fits(k) ==
               /\ DOMAIN new = DOMAIN q \cup {k}
               /\ \A i \in DOMAIN q : i # k => new[i] = q[i]
               /\ new[k].project = p
               /\ \A x \in Txns :
                    InCommand(new[k], x) <=> (k \in DOMAIN q /\ InCommand(q[k], x)) \/ InCommand(command, x)
               /\ k \in DOMAIN q => q[k].project = p
               /\ \A i \in DOMAIN new : i \in Nat /\ i <= k
  <1>10. ASSUME n \in DOMAIN q, DOMAIN new = DOMAIN q,
                \A i \in DOMAIN q : i # n => new[i] = q[i],
                new[n].project = q[n].project, command.project = q[n].project,
                \A x \in Txns :
                  InCommand(new[n], x) <=> InCommand(q[n], x) \/ InCommand(command, x)
         PROVE  \E k : Fits(k)
    <2>1. \A i \in DOMAIN new : i \in Nat /\ i <= n
      BY <1>1, <1>10
    <2>2. DOMAIN new = DOMAIN q \cup {n}
      BY <1>10
    <2>3. Fits(n)
      BY <1>10, <2>1, <2>2 DEF p
    <2> QED
      BY <2>3
  <1>11. ASSUME DOMAIN new = DOMAIN q \cup {n + 1}, n + 1 \notin DOMAIN q,
                new[n + 1] = command,
                \A i \in DOMAIN q : new[i] = q[i]
         PROVE  \E k : Fits(k)
    <2>1. \A i \in DOMAIN new : i \in Nat /\ i <= n + 1
      BY <1>1, <1>11
    <2>2. Fits(n + 1)
      BY <1>11, <2>1 DEF p
    <2> QED
      BY <2>2
  <1>3. PICK last : Fits(last)
    BY <1>2, <1>10, <1>11
  <1>4. \A i \in DOMAIN q : \A x \in Txns :
          InCommand(q[i], x) => i \in DOMAIN new /\ InCommand(new[i], x) /\ new[i].project = q[i].project
    BY <1>3
  <1>5. \A s : Of(q, s) \subseteq Of(new, s)
    BY <1>4 DEF Of
  <1>6. \A x \in Txns : InCommand(command, x) => x \in Of(new, p)
    BY <1>3 DEF Of
  <1>7. Of(new, p) = Until(new, last, p)
    BY <1>3 DEF Of, Until
  <1>8. \A b \in DOMAIN q : \A s : Until(q, b, s) \subseteq Until(new, b, s)
    BY <1>4 DEF Until
  <1>9. ASSUME NEW b \in DOMAIN new, NEW x \in Txns, InCommand(new[b], x)
        PROVE  f[x] \subseteq F[new[b].project] \cup Until(new, b, new[b].project)
    <2>1. ASSUME b \in DOMAIN q, InCommand(q[b], x)
          PROVE  f[x] \subseteq F[new[b].project] \cup Until(new, b, new[b].project)
      <3>1. f[x] \subseteq F[q[b].project] \cup Until(q, b, q[b].project)
        BY <2>1 DEF Founded
      <3> QED
        BY <1>4, <1>8, <2>1, <3>1
    <2>2. ASSUME b = last, InCommand(command, x)
          PROVE  f[x] \subseteq F[new[b].project] \cup Until(new, b, new[b].project)
      <3>1. command.type = "transactions" /\ ToSet(command.transactions) \subseteq Txns
        <4>1. command.transactions \in Seq(Txns)
          BY <2>2 DEF InCommand, Commands
        <4> QED
          BY <2>2, <4>1 DEF InCommand, ToSet
      <3>2. ToSet(command.transactions) \subseteq Of(new, p)
        BY <1>6, <3>1 DEF InCommand
      <3>3. f[x] \subseteq F[p] \cup Of(q, p) \cup ToSet(command.transactions)
        BY <2>2 DEF p
      <3> QED
        BY <1>3, <1>5, <1>7, <2>2, <3>2, <3>3
    <2> QED
      BY <1>3, <1>9, <2>1, <2>2
  <1> QED
    BY <1>5, <1>6, <1>9 DEF Founded, new, p

\* More is given, and others see more.
LEMMA TabFoundedMore ==
  ASSUME NEW F, NEW G, \A p \in Projects : F[p] \subseteq G[p], NEW f, NEW g,
         NEW seenBy, NEW pg, pg.phase # "closed" => pg.project \in Projects, NEW ctl,
         NEW q \in Seq(Commands), NEW lps \in [Loops -> SoundLoops],
         \A x \in Txns : CarriedBy(q, lps, x) => g[x] = f[x],
         TabFounded(F, f, seenBy, pg, ctl, q, lps)
  PROVE  TabFounded(G, g, seenBy, pg, ctl, q, lps)
PROOF
  <1>1. ASSUME NEW l \in Loops
        PROVE  LoopFounded(G, g, seenBy, pg, q, lps[l])
    <2> DEFINE b == lps[l].batch
    <2>1. b \in Seq(Commands)
      BY LoopShape
    <2>2. \A p \in Projects : Plus(F, b)[p] \subseteq Plus(G, b)[p]
      BY DEF Plus
    <2>3. /\ \A x \in Txns : Carries(b, x) => g[x] = f[x]
          /\ \A x \in Txns : Carries(q, x) => g[x] = f[x]
      BY DEF CarriedBy
    <2>4. LoopFounded(F, f, seenBy, pg, q, lps[l])
      BY DEF TabFounded
    <2> HIDE DEF b
    <2>5. Founded(F, f, b) => Founded(G, g, b)
      BY <2>1, <2>3, FoundedMore
    <2>6. Founded(Plus(F, b), f, q) => Founded(Plus(G, b), g, q)
      BY <2>2, <2>3, FoundedMore
    <2>7. pg.phase \in {"loaded", "open"} => F[pg.project] \subseteq G[pg.project]
      OBVIOUS
    <2> QED
      BY <2>4, <2>5, <2>6, <2>7 DEF LoopFounded, b
  <1>2. pg.phase = "loaded" => F[pg.project] \subseteq G[pg.project]
    OBVIOUS
  <1> QED
    BY <1>1, <1>2 DEF TabFounded

\* A step of the loop old; an ok gives what it had in hand.
GivenStep(F, old, new, q, q2) ==
  \/ new = OffLoop /\ q2 = q
  \/ Took(old, new, q) /\ q2 = <<>>
  \/ Staged(old, new) /\ q2 = q
  \/ \E v : /\ DoneWith(old, new, v) /\ q2 = q
            /\ Head(old.batch).type = "transactions" =>
                 ToSet(Head(old.batch).transactions) \subseteq F[Head(old.batch).project]

\* The one loop there is makes it.
LEMMA StepFounded ==
  ASSUME NEW F, NEW f, NEW seenBy, NEW pg, NEW ctl, ctl # NoLoop,
         NEW q \in Seq(Commands), NEW q2, NEW lps \in [Loops -> SoundLoops], NEW lps2, NEW l \in Loops,
         lps[l].pc # "off", \A k \in Loops \ {l} : lps[k].pc = "off" /\ lps2[k] = lps[k],
         TabFounded(F, f, seenBy, pg, ctl, q, lps),
         GivenStep(F, lps[l], lps2[l], q, q2),
         pg.phase # "closed" => pg.project \in Projects
  PROVE  TabFounded(F, f, seenBy, pg, ctl, q2, lps2)
PROOF
  <1> DEFINE lp == lps[l]
             new == lps2[l]
             b == lp.batch
  <1>1. /\ lp \in SoundLoops /\ lp.pc # "off" /\ LoopFounded(F, f, seenBy, pg, q, lp)
        /\ b \in Seq(Commands)
        /\ lp.pc \in {"batch", "send", "wait"} => b # <<>>
    BY LoopShape DEF TabFounded
  <1>2. /\ lp.pc = "poll" => b = <<>>
        /\ Founded(F, f, b)
        /\ Founded(Plus(F, b), f, q)
        /\ pg.phase \in {"loaded", "open"} =>
             seenBy \subseteq F[pg.project] \cup Of(b, pg.project) \cup Of(q, pg.project)
    BY <1>1 DEF LoopFounded
  <1> SUFFICES LoopFounded(F, f, seenBy, pg, q2, new)
    BY DEF TabFounded, LoopFounded
  <1>3. CASE new = OffLoop
    BY <1>3 DEF LoopFounded, OffLoop
  <1>4. CASE Took(lp, new, q) /\ q2 = <<>>
    <2>1. b = <<>> /\ new.batch = q /\ (new.pc = "poll" => new.batch = <<>>)
      BY <1>2, <1>4 DEF Took
    <2>2. \A p \in Projects : Plus(F, b)[p] \subseteq F[p]
      BY <2>1, EmptyFounded
    <2>3. Founded(F, f, q)
      BY <1>2, <2>2, FoundedMore
    <2>4. Founded(Plus(F, q), f, <<>>) /\ Of(b, pg.project) = {} /\ Of(<<>>, pg.project) = {}
      BY <2>1, EmptyFounded
    <2> QED
      BY <1>2, <1>4, <2>1, <2>3, <2>4 DEF LoopFounded
  <1>5. CASE Staged(lp, new) /\ q2 = q
    <2>1. new.batch = b /\ new.pc # "poll"
      BY <1>5 DEF Staged
    <2> QED
      BY <1>2, <1>5, <2>1 DEF LoopFounded
  <1>6. ASSUME NEW v, DoneWith(lp, new, v), q2 = q,
               Head(b).type = "transactions" => ToSet(Head(b).transactions) \subseteq F[Head(b).project]
        PROVE  LoopFounded(F, f, seenBy, pg, q2, new)
    <2>1. b # <<>> /\ new.batch = Tail(b) /\ (new.pc = "poll" => new.batch = <<>>)
      BY <1>1, <1>6 DEF DoneWith
    <2> HIDE DEF b, lp, new
    <2>2. /\ Founded(F, f, Tail(b))
          /\ \A p \in Projects : Of(b, p) \subseteq F[p] \cup Of(Tail(b), p)
      BY <1>1, <1>2, <1>6, <2>1, FoundedTail
    <2>3. \A p \in Projects : Plus(F, b)[p] \subseteq Plus(F, Tail(b))[p]
      BY <2>2 DEF Plus
    <2>4. Founded(Plus(F, Tail(b)), f, q)
      BY <1>2, <2>3, FoundedMore
    <2>5. pg.phase \in {"loaded", "open"} =>
            seenBy \subseteq F[pg.project] \cup Of(Tail(b), pg.project) \cup Of(q, pg.project)
      BY <1>2, <2>2
    <2> QED
      BY <1>6, <2>1, <2>2, <2>4, <2>5 DEF LoopFounded
  <1> QED
    BY <1>3, <1>4, <1>5, <1>6 DEF GivenStep

\* The user makes an edit x of what the page shows.
LEMMA EditFounded ==
  ASSUME NEW F, NEW f \in Bases, NEW g, NEW seenBy \in SUBSET Txns, NEW pg, NEW ctl,
         NEW q \in Seq(Commands), NEW lps \in [Loops -> SoundLoops], NEW x \in Txns,
         pg.phase = "open", pg.project \in Projects,
         ~ CarriedBy(q, lps, x), g = [f EXCEPT ![x] = seenBy],
         TabFounded(F, f, seenBy, pg, ctl, q, lps)
  PROVE  TabFounded(F, g, seenBy \cup {x}, pg, ctl, Enqueue(q, Transactions(pg.project, <<x>>)), lps)
PROOF
  <1> DEFINE p == pg.project
             c == Transactions(p, <<x>>)
             q2 == Enqueue(q, c)
  <1>1. /\ c \in Commands /\ c.type = "transactions" /\ c.project = p /\ c.transactions = <<x>>
        /\ \A y : InCommand(c, y) <=> y = x
    <2>1. /\ c \in Commands /\ c.type = "transactions" /\ c.project = p /\ c.transactions = <<x>>
      BY DEF Transactions, Commands
    <2>2. ToSet(<<x>>) = {x}
      BY DEF ToSet
    <2> QED
      BY <2>1, <2>2 DEF InCommand
  <1>2. g[x] = seenBy /\ \A y \in Txns : CarriedBy(q, lps, y) => g[y] = f[y]
    BY DEF Bases
  <1>3. TabFounded(F, g, seenBy, pg, ctl, q, lps)
    BY <1>2, TabFoundedMore
  <1> HIDE DEF c, p, q2
  <1>4. ASSUME NEW l \in Loops
        PROVE  LoopFounded(F, g, seenBy \cup {x}, pg, q2, lps[l])
    <2> DEFINE b == lps[l].batch
    <2> SUFFICES ASSUME lps[l].pc # "off"
                 PROVE  LoopFounded(F, g, seenBy \cup {x}, pg, q2, lps[l])
      BY DEF LoopFounded
    <2>1. /\ lps[l].pc = "poll" => b = <<>>
          /\ Founded(F, g, b)
          /\ Founded(Plus(F, b), g, q)
          /\ seenBy \subseteq F[p] \cup Of(b, p) \cup Of(q, p)
      BY <1>3 DEF TabFounded, LoopFounded, p
    <2> HIDE DEF b
    <2>2. seenBy \subseteq Plus(F, b)[p] \cup Of(q, p)
      BY <2>1 DEF Plus, p
    <2>3. \A y \in Txns : InCommand(c, y) =>
            g[y] \subseteq Plus(F, b)[c.project] \cup Of(q, c.project) \cup ToSet(c.transactions)
      BY <1>1, <1>2, <2>2
    <2>4. /\ Founded(Plus(F, b), g, q2)
          /\ \A s : Of(q, s) \subseteq Of(q2, s)
          /\ \A y \in Txns : InCommand(c, y) => y \in Of(q2, c.project)
      BY <1>1, <2>1, <2>3, FoundedEnqueue DEF q2
    <2>5. seenBy \cup {x} \subseteq F[p] \cup Of(b, p) \cup Of(q2, p)
      BY <1>1, <2>1, <2>4
    <2> QED
      BY <2>1, <2>4, <2>5 DEF LoopFounded, b, p
  <1> QED
    BY <1>3, <1>4 DEF TabFounded, q2, c, p

\* The details of what the page has loaded are put in line, or taken by the first loop.
LEMMA OpenFounded ==
  ASSUME NEW F, NEW f, NEW seenBy, NEW pg, NEW pg2, NEW ctl, NEW ctl2,
         NEW q \in Seq(Commands), NEW q2, NEW lps \in [Loops -> SoundLoops], NEW lps2, NEW command \in Commands,
         pg.phase = "loaded", pg.project \in Projects, pg2.phase = "open", pg2.project = pg.project,
         command.type = "setDetails",
         TabFounded(F, f, seenBy, pg, ctl, q, lps),
         \/ ctl # NoLoop /\ ctl2 = ctl /\ lps2 = lps /\ q2 = Enqueue(q, command)
         \/ /\ ctl = NoLoop /\ ctl2 # NoLoop /\ q2 = <<>>
            /\ \E l \in Loops : /\ lps2[l].pc = "batch" /\ lps2[l].batch = Enqueue(q, command)
                                /\ \A k \in Loops \ {l} : lps2[k].pc = "off"
  PROVE  TabFounded(F, f, seenBy, pg2, ctl2, q2, lps2)
PROOF
  <1>1. ASSUME NEW G, Founded(G, f, q)
        PROVE  Founded(G, f, Enqueue(q, command)) /\ \A s : Of(q, s) \subseteq Of(Enqueue(q, command), s)
    <2>1. \A x \in Txns : ~ InCommand(command, x)
      BY DEF InCommand
    <2> QED
      BY <1>1, <2>1, FoundedEnqueue
  <1>2. ASSUME ctl # NoLoop, ctl2 = ctl, lps2 = lps, q2 = Enqueue(q, command), NEW l \in Loops
        PROVE  LoopFounded(F, f, seenBy, pg2, q2, lps[l])
    <2>1. LoopFounded(F, f, seenBy, pg, q, lps[l])
      BY DEF TabFounded
    <2>2. Founded(Plus(F, lps[l].batch), f, q) =>
            Founded(Plus(F, lps[l].batch), f, q2) /\ \A s : Of(q, s) \subseteq Of(q2, s)
      BY <1>1, <1>2
    <2> QED
      BY <2>1, <2>2 DEF LoopFounded
  <1>3. ASSUME ctl = NoLoop, q2 = <<>>, NEW l \in Loops, lps2[l].pc = "batch", lps2[l].batch = Enqueue(q, command)
        PROVE  LoopFounded(F, f, seenBy, pg2, q2, lps2[l])
    <2>1. q = <<>> /\ seenBy \subseteq F[pg.project]
      BY <1>3 DEF TabFounded
    <2>2. Founded(F, f, q) /\ Founded(Plus(F, lps2[l].batch), f, q2)
      BY <1>3, <2>1, EmptyFounded
    <2>3. Founded(F, f, lps2[l].batch)
      BY <1>1, <1>3, <2>2
    <2> QED
      BY <1>3, <2>1, <2>2, <2>3 DEF LoopFounded
  <1> QED
    BY <1>2, <1>3 DEF TabFounded, LoopFounded

\* A page that shows nothing, or what is given, has nothing to answer for.
LEMMA ShowFounded ==
  ASSUME NEW F, NEW f, NEW seenBy, NEW seen2, NEW pg, NEW pg2, NEW ctl, NEW q, NEW lps,
         \/ pg2.phase \in {"closed", "loading"}
         \/ pg2.phase = "loaded" /\ seen2 \subseteq F[pg2.project],
         TabFounded(F, f, seenBy, pg, ctl, q, lps)
  PROVE  TabFounded(F, f, seen2, pg2, ctl, q, lps)
PROOF BY DEF TabFounded, LoopFounded

\* A page that is reloaded has neither a loop nor a queue.
LEMMA FreshFounded ==
  ASSUME NEW F, NEW f, NEW seenBy, NEW pg, pg.phase = "closed", NEW ctl, NEW lps,
         \A l \in Loops : lps[l] = OffLoop
  PROVE  TabFounded(F, f, seenBy, pg, ctl, <<>>, lps)
PROOF BY DEF TabFounded, LoopFounded, OffLoop

\* The command in hand has before it what is given, and nothing else.
LEMMA HeadFounded ==
  ASSUME NEW cs \in Seq(Commands), cs # <<>>, Head(cs).type = "transactions",
         NEW F, NEW f, Founded(F, f, cs), NEW x \in Txns, x \in ToSet(Head(cs).transactions)
  PROVE  f[x] \subseteq F[Head(cs).project] \cup ToSet(Head(cs).transactions)
PROOF
  <1>1. 1 \in DOMAIN cs /\ Head(cs) = cs[1] /\ InCommand(cs[1], x)
    BY DEF InCommand
  <1>2. f[x] \subseteq F[cs[1].project] \cup Until(cs, 1, cs[1].project)
    BY <1>1 DEF Founded
  <1>3. \A a \in DOMAIN cs : a <= 1 => a = 1
    OBVIOUS
  <1>4. Until(cs, 1, cs[1].project) \subseteq ToSet(cs[1].transactions)
    BY <1>3 DEF Until, InCommand
  <1> QED
    BY <1>1, <1>2, <1>4
=============================================================================
