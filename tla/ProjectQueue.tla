---------------------------- MODULE ProjectQueue ----------------------------
(***************************************************************************)
(* The single-player save queue of a browser tab: project-queue.ts and     *)
(* command-queue.ts, with the callers that start and stop it               *)
(* (singleplayer-client.ts, sync-client.ts).                               *)
(*                                                                         *)
(* The module state of a tab is one JavaScript runtime's: a command queue, *)
(* the flags isPolling and pollingAbortController, and the poll loops      *)
(* (calls of pollQueue) that are still running.  There may be more than    *)
(* one: stopPolling clears the flags at once, while the loop it aborts     *)
(* looks at its signal only after the next command it takes.               *)
(*                                                                         *)
(* The answers of the server are the environment's; SinglePlayer puts the  *)
(* real server there.                                                      *)
(***************************************************************************)
EXTENDS Integers, Sequences, SequencesExt

CONSTANTS
  Tabs,            \* browser tabs
  Dialogs,         \* the tabs that are a dashboard with a settings dialog
  Projects,        \* projects
  Txns,            \* transaction ids, each used for one edit
  Loops,           \* identities for calls of pollQueue in one tab (bound)
  NoLoop,          \* pollingAbortController is undefined
  NoProject,       \* no project is open in the tab
  NoTxn,           \* $lastTransactionId is undefined
  MaxRetryRecovery,    \* MAX_RETRY_RECOVERY
  MaxAllowedApiErrors, \* MAX_ALLOWED_API_ERRORS
  MaxQueue,        \* bound: commands in the queue when a project is opened
  MaxVersion       \* bound: versions the environment answers with

ASSUME ProjectQueueAssumption ==
  /\ Dialogs \subseteq Tabs
  /\ NoLoop \notin Loops
  /\ NoProject \notin Projects
  /\ NoTxn \notin Txns
  /\ MaxRetryRecovery \in Nat
  /\ MaxAllowedApiErrors \in Nat
  /\ MaxQueue \in Nat
  /\ MaxVersion \in Nat

VARIABLES
  page,              \* what the tab shows: no project, one loading, one open
  queue,             \* projectCommandsQueue
  isPolling,         \* isPolling
  controller,        \* pollingAbortController, named by the loop it aborts
  loop,              \* the calls of pollQueue
  syncStatus,        \* $syncStatus
  committedVersion,  \* $committedVersion
  lastEdit,          \* $lastTransactionId
  outcome,           \* what became of each transaction, as the tab knows it
  edits              \* the transactions of the page in edit order (auxiliary)

queueVars == <<queue, isPolling, controller, loop, syncStatus, committedVersion,
               lastEdit, outcome>>
pqVars == <<page, queueVars, edits>>

-----------------------------------------------------------------------------

Unknown == -1     \* detailsMap has no entry for the project

SetDetails(p, v) == [type |-> "setDetails", project |-> p, version |-> v]
Transactions(p, ts) == [type |-> "transactions", project |-> p, transactions |-> ts]

Commands ==
  [type : {"setDetails"}, project : Projects, version : Nat]
    \cup [type : {"transactions"}, project : Projects, transactions : Seq(Txns)]

LoopStates ==
  [pc       : {"off", "poll", "batch", "send", "wait"},
   aborted  : BOOLEAN,                              \* signal.aborted
   details  : [Projects -> Nat \cup {Unknown}],     \* detailsMap, its versions
   batch    : Seq(Commands),                        \* taken, the head in hand
   attempts : 0..MaxRetryRecovery,                  \* backoff.attempts()
   errors   : 0..MaxAllowedApiErrors]               \* apiErrorCount

NoDetails == [p \in Projects |-> Unknown]

OffLoop == [pc |-> "off", aborted |-> FALSE, details |-> NoDetails,
            batch |-> <<>>, attempts |-> 0, errors |-> 0]

Pages == [phase : {"closed", "loading", "loaded", "open"},
          project : Projects \cup {NoProject},
          version : Nat,                           \* of the loaded build
          client  : Projects \cup {NoProject}]     \* currentProjectId

ClosedPage(client) ==
  [phase |-> "closed", project |-> NoProject, version |-> 0, client |-> client]

\* "lost": the page went away with the transaction still unanswered.
Outcomes == {"fresh", "pending", "saved", "unsaved", "lost"}

PQTypeOK ==
  /\ page \in [Tabs -> Pages]
  /\ queue \in [Tabs -> Seq(Commands)]
  /\ isPolling \in [Tabs -> BOOLEAN]
  /\ controller \in [Tabs -> Loops \cup {NoLoop}]
  /\ loop \in [Tabs -> [Loops -> LoopStates]]
  /\ syncStatus \in [Tabs -> {"idle", "syncing", "recovering", "failed", "fatal"}]
  /\ committedVersion \in [Tabs -> Nat]
  /\ lastEdit \in [Tabs -> Txns \cup {NoTxn}]
  /\ outcome \in [Txns -> Outcomes]
  /\ edits \in [Tabs -> Seq(Txns)]

PQInit ==
  /\ page = [t \in Tabs |-> ClosedPage(NoProject)]
  /\ queue = [t \in Tabs |-> <<>>]
  /\ isPolling = [t \in Tabs |-> FALSE]
  /\ controller = [t \in Tabs |-> NoLoop]
  /\ loop = [t \in Tabs |-> [l \in Loops |-> OffLoop]]
  /\ syncStatus = [t \in Tabs |-> "idle"]
  /\ committedVersion = [t \in Tabs |-> 0]
  /\ lastEdit = [t \in Tabs |-> NoTxn]
  /\ outcome = [x \in Txns |-> "fresh"]
  /\ edits = [t \in Tabs |-> <<>>]

-----------------------------------------------------------------------------
(* command-queue.ts *)

\* Mutant: a transaction that finds nothing to merge with is put in front.
EnqueueInFront(q, command) ==
  IF command.type = "transactions" THEN <<command>> \o q ELSE Append(q, command)

\* Transactions merge with the tail command only, and only of their project.
Enqueue(q, command) ==
  LET n == Len(q) IN
  IF /\ command.type = "transactions"
     /\ n > 0
     /\ q[n].type = "transactions"
     /\ q[n].project = command.project
    THEN [q EXCEPT ![n].transactions = @ \o command.transactions]
    ELSE Append(q, command)

\* pollCommands after a pause: take everything there is, or report idle.
Taken(lp, q) == [lp EXCEPT !.pc = IF q = <<>> THEN "poll" ELSE "batch", !.batch = q]

\* Mutant: idle is reported before the commands taken are done.
EarlyIdle(q) == "idle"

PollStatus(q) == IF q = <<>> THEN "idle" ELSE "syncing"

\* Mutants: the whole batch counts as done; transactions stay in it; detailsMap
\* does not outlive a command.
DoneWithBatch(lp) ==
  [lp EXCEPT !.pc = "poll", !.batch = <<>>, !.attempts = 0, !.errors = 0]

DoneAgain(lp) ==
  LET rest == IF Head(lp.batch).type = "setDetails" THEN Tail(lp.batch) ELSE lp.batch IN
  [lp EXCEPT !.pc = IF rest = <<>> THEN "poll" ELSE "batch",
             !.batch = rest, !.attempts = 0, !.errors = 0]

DoneForgetful(lp) ==
  [lp EXCEPT !.pc = IF Tail(lp.batch) = <<>> THEN "poll" ELSE "batch",
             !.batch = Tail(@), !.details = NoDetails, !.attempts = 0, !.errors = 0]

\* The command in hand is done: the next one of the batch, or a pause.
Done(lp) == [lp EXCEPT !.pc = IF Tail(lp.batch) = <<>> THEN "poll" ELSE "batch",
                       !.batch = Tail(@), !.attempts = 0, !.errors = 0]

\* Promise continuations run before the next task: a loop that has a command to
\* look at does so before a timer, an answer or the user comes in.
Continued(t) == \A l \in Loops : loop[t][l].pc # "batch"

SetLoop(t, l, lp) == loop' = [loop EXCEPT ![t][l] = lp]
SetStatus(t, s) == syncStatus' = [syncStatus EXCEPT ![t] = s]

\* completeTransaction for every transaction of a command: saved says which.
Complete(t, ts, saved) ==
  /\ outcome' = [x \in Txns |->
       IF x \notin ToSet(ts) THEN outcome[x]
       ELSE IF x \in saved THEN "saved" ELSE "unsaved"]
  /\ lastEdit' = [lastEdit EXCEPT ![t] = IF @ \in ToSet(ts) THEN NoTxn ELSE @]

\* Mutant: the polling goes on after a fatal error.
HaltOnce(t, l) == SetLoop(t, l, Done(loop[t][l])) /\ SetStatus(t, "fatal")

\* "fatal": the loop ends, isPolling and the controller stay as they are, and
\* whatever else the loop had taken is gone with it.
Halt(t, l) == SetLoop(t, l, OffLoop) /\ SetStatus(t, "fatal")

\* Mutant: the backoff counts on after MAX_RETRY_RECOVERY.
RetryCounting(t, l, lp) ==
  /\ SetStatus(t, "recovering")
  /\ SetLoop(t, l, [lp EXCEPT !.pc = "send", !.attempts = @ + 1])

\* Mutant: the attempt that failed is waited for again instead of repeated.
RetryWaiting(t, l, lp) ==
  SetStatus(t, "recovering") /\ SetLoop(t, l, [lp EXCEPT !.pc = "wait"])

\* retry() after a failed attempt.
RetryLater(t, l, lp) ==
  /\ SetStatus(t, IF lp.attempts < MaxRetryRecovery THEN "recovering" ELSE "failed")
  /\ SetLoop(t, l, [lp EXCEPT !.pc = "send",
                              !.attempts = IF @ < MaxRetryRecovery THEN @ + 1 ELSE @])

-----------------------------------------------------------------------------
(* Opening and closing a project: sync-client.ts, singleplayer-client.ts *)

\* Mutant: the controller is dropped without abort().
StopPollingQuietly(t) ==
  /\ isPolling' = [isPolling EXCEPT ![t] = FALSE]
  /\ controller' = [controller EXCEPT ![t] = NoLoop]
  /\ UNCHANGED <<queue, loop, syncStatus, committedVersion, lastEdit, outcome>>

\* Mutant: what the loop still has is left to the next one.
StopPollingHandingOver(t) ==
  LET l == controller[t] IN
  /\ isPolling' = [isPolling EXCEPT ![t] = FALSE]
  /\ controller' = [controller EXCEPT ![t] = NoLoop]
  /\ IF l = NoLoop THEN UNCHANGED <<queue, loop>>
     ELSE /\ queue' = [queue EXCEPT ![t] = loop[t][l].batch \o @]
          /\ SetLoop(t, l, [loop[t][l] EXCEPT !.aborted = TRUE])
  /\ UNCHANGED <<syncStatus, committedVersion, lastEdit, outcome>>

\* stopPolling: the loop is told to stop; nobody waits until it has.
StopPolling(t) ==
  /\ isPolling' = [isPolling EXCEPT ![t] = FALSE]
  /\ controller' = [controller EXCEPT ![t] = NoLoop]
  /\ loop' = [loop EXCEPT ![t] =
       [l \in Loops |-> IF l = controller[t] /\ loop[t][l].pc # "off"
                          THEN [loop[t][l] EXCEPT !.aborted = TRUE]
                          ELSE loop[t][l]]]
  /\ UNCHANGED <<queue, syncStatus, committedVersion, lastEdit, outcome>>

\* initializeClientSync: the client of another project is destroyed first.
OpenProject(t, p) ==
  LET other == page[t].client \notin {NoProject, p} IN
  /\ Continued(t)
  /\ page[t].phase = "closed"
  /\ page' = [page EXCEPT ![t] =
       [phase |-> "loading", project |-> p, version |-> 0,
        client |-> IF other THEN NoProject ELSE page[t].client]]
  /\ IF other THEN StopPolling(t) ELSE UNCHANGED queueVars
  /\ UNCHANGED edits

\* loadBuilderData: the build comes with the version it has at that moment.
LoadData(t, v) ==
  /\ Continued(t)
  /\ page[t].phase = "loading"
  /\ page' = [page EXCEPT ![t].phase = "loaded", ![t].version = v]
  /\ UNCHANGED <<queueVars, edits>>

\* onDataLoaded -> enqueueProjectDetails -> startPolling.  A new pollQueue runs
\* up to its first command before startPolling returns.
EnqueueProjectDetails(t) ==
  LET command == SetDetails(page[t].project, page[t].version)
      commands == Enqueue(queue[t], command)
  IN
  /\ Continued(t)
  /\ page[t].phase = "loaded"
  /\ Len(queue[t]) < MaxQueue
  /\ page' = [page EXCEPT ![t].phase = "open", ![t].version = 0,
                          ![t].client = page[t].project]
  /\ \/ /\ controller[t] # NoLoop
        /\ queue' = [queue EXCEPT ![t] = commands]
        /\ UNCHANGED <<isPolling, controller, loop, syncStatus>>
     \/ /\ controller[t] = NoLoop
        /\ ~isPolling[t]
        /\ \E l \in Loops :
             /\ loop[t][l].pc = "off"
             /\ controller' = [controller EXCEPT ![t] = l]
             /\ SetLoop(t, l, Taken(OffLoop, commands))
        /\ isPolling' = [isPolling EXCEPT ![t] = TRUE]
        /\ queue' = [queue EXCEPT ![t] = <<>>]
        /\ SetStatus(t, "syncing")
  /\ UNCHANGED <<committedVersion, lastEdit, outcome, edits>>

\* The user changes the project: ServerSyncStorage.sendTransaction.
SendTransaction(t, x) ==
  /\ Continued(t)
  /\ page[t].phase = "open"
  /\ outcome[x] = "fresh"
  /\ outcome' = [outcome EXCEPT ![x] = "pending"]
  /\ edits' = [edits EXCEPT ![t] = Append(@, x)]
  /\ lastEdit' = [lastEdit EXCEPT ![t] = x]
  /\ SetStatus(t, "syncing")
  /\ queue' = [queue EXCEPT ![t] = Enqueue(@, Transactions(page[t].project, <<x>>))]
  /\ UNCHANGED <<page, isPolling, controller, loop, committedVersion>>

\* The settings dialog of the dashboard closes: destroyClientSync.
CloseDialog(t) ==
  /\ Continued(t)
  /\ t \in Dialogs
  /\ page[t].phase # "closed"
  /\ page' = [page EXCEPT ![t] = ClosedPage(NoProject)]
  /\ StopPolling(t)
  /\ UNCHANGED edits

\* The builder unmounts: its subscriptions end, the queue goes on.  (A dashboard
\* that removes the card of an open dialog does the same: ClientSync has that.)
Unmount(t) ==
  /\ Continued(t)
  /\ t \notin Dialogs
  /\ page[t].phase # "closed"
  /\ page' = [page EXCEPT ![t] = ClosedPage(page[t].client)]
  /\ UNCHANGED <<queueVars, edits>>

\* location.reload(), or the user leaves: the runtime and all it holds are gone.
Reload(t) ==
  /\ Continued(t)
  /\ page' = [page EXCEPT ![t] = ClosedPage(NoProject)]
  /\ queue' = [queue EXCEPT ![t] = <<>>]
  /\ isPolling' = [isPolling EXCEPT ![t] = FALSE]
  /\ controller' = [controller EXCEPT ![t] = NoLoop]
  /\ loop' = [loop EXCEPT ![t] = [l \in Loops |-> OffLoop]]
  /\ SetStatus(t, "idle")
  /\ committedVersion' = [committedVersion EXCEPT ![t] = 0]
  /\ lastEdit' = [lastEdit EXCEPT ![t] = NoTxn]
  /\ outcome' = [x \in Txns |-> IF x \in ToSet(edits[t]) /\ outcome[x] = "pending"
                                  THEN "lost" ELSE outcome[x]]
  /\ edits' = [edits EXCEPT ![t] = <<>>]

-----------------------------------------------------------------------------
(* pollQueue *)

\* pollCommands: dequeueAll after a pause.
Poll(t, l) ==
  /\ Continued(t)
  /\ loop[t][l].pc = "poll"
  /\ SetLoop(t, l, Taken(loop[t][l], queue[t]))
  /\ queue' = [queue EXCEPT ![t] = <<>>]
  /\ SetStatus(t, PollStatus(queue[t]))
  /\ UNCHANGED <<page, isPolling, controller, committedVersion, lastEdit, outcome, edits>>

InHand(t, l) == Head(loop[t][l].batch)

\* if (signal.aborted): checked once a command has been taken off the queue.
\* The batch it came with is dropped, and so is the flag of any newer loop.
NoticeAbort(t, l) ==
  /\ loop[t][l].pc = "batch"
  /\ loop[t][l].aborted
  /\ isPolling' = [isPolling EXCEPT ![t] = FALSE]
  /\ SetLoop(t, l, OffLoop)
  /\ UNCHANGED <<page, queue, controller, syncStatus, committedVersion, lastEdit,
                 outcome, edits>>

\* A project was opened (again): remember its version, unless it is older than
\* the one this loop has reached, when the page shows an outdated project.
TakeDetails(t, l) ==
  LET lp == loop[t][l]
      command == InHand(t, l)
  IN
  /\ lp.pc = "batch"
  /\ ~lp.aborted
  /\ command.type = "setDetails"
  /\ IF command.version < lp.details[command.project]
       THEN Halt(t, l)
       ELSE /\ SetLoop(t, l, Done([lp EXCEPT !.details[command.project] = command.version]))
            /\ UNCHANGED syncStatus
  /\ UNCHANGED <<page, queue, isPolling, controller, committedVersion, lastEdit,
                 outcome, edits>>

\* "Project details not found": the loop returns.
TakeUnknown(t, l) ==
  LET command == InHand(t, l) IN
  /\ loop[t][l].pc = "batch"
  /\ ~loop[t][l].aborted
  /\ command.type = "transactions"
  /\ loop[t][l].details[command.project] = Unknown
  /\ Halt(t, l)
  /\ Complete(t, command.transactions, {})
  /\ UNCHANGED <<page, queue, isPolling, controller, committedVersion, edits>>

TakeTransactions(t, l) ==
  LET command == InHand(t, l) IN
  /\ loop[t][l].pc = "batch"
  /\ ~loop[t][l].aborted
  /\ command.type = "transactions"
  /\ loop[t][l].details[command.project] # Unknown
  /\ SetLoop(t, l, [loop[t][l] EXCEPT !.pc = "send"])
  /\ UNCHANGED <<page, queue, isPolling, controller, syncStatus, committedVersion,
                 lastEdit, outcome, edits>>

\* patchClient.build.patch.mutate, with the version reached so far.
SendPatch(t, l) ==
  /\ loop[t][l].pc = "send"
  /\ SetLoop(t, l, [loop[t][l] EXCEPT !.pc = "wait"])
  /\ UNCHANGED <<page, queue, isPolling, controller, syncStatus, committedVersion,
                 lastEdit, outcome, edits>>

\* The request failed without an answer: try again, for ever.
NetworkError(t, l) ==
  /\ Continued(t)
  /\ loop[t][l].pc = "wait"
  /\ RetryLater(t, l, loop[t][l])
  /\ UNCHANGED <<page, queue, isPolling, controller, committedVersion, lastEdit,
                 outcome, edits>>

\* Mutant: details.version is not moved on.
ReceiveOkUnversioned(t, l, result) ==
  LET command == InHand(t, l) IN
  /\ loop[t][l].pc = "wait"
  /\ result.status = "ok"
  /\ SetLoop(t, l, Done(loop[t][l]))
  /\ committedVersion' = [committedVersion EXCEPT ![t] = result.version]
  /\ Complete(t, command.transactions, ToSet(command.transactions))
  /\ UNCHANGED <<page, queue, isPolling, controller, syncStatus, edits>>

\* Saved: the version moves on, and the next command goes with the new one.
ReceiveOk(t, l, result) ==
  LET lp == loop[t][l]
      command == InHand(t, l)
  IN
  /\ lp.pc = "wait"
  /\ result.status = "ok"
  /\ SetLoop(t, l, Done([lp EXCEPT !.details[command.project] = result.version]))
  /\ committedVersion' = [committedVersion EXCEPT ![t] = result.version]
  /\ Complete(t, command.transactions, ToSet(command.transactions))
  /\ UNCHANGED <<page, queue, isPolling, controller, syncStatus, edits>>

\* version_mismatched (of the build or of the release), authorization_error or
\* partial: only a reload helps.
ReceiveRefusal(t, l, result) ==
  LET command == InHand(t, l) IN
  /\ loop[t][l].pc = "wait"
  /\ result.status \in {"version_mismatched", "outdated", "authorization_error", "partial"}
  /\ Halt(t, l)
  /\ Complete(t, command.transactions,
              IF result.status = "partial" THEN result.accepted ELSE {})
  /\ UNCHANGED <<page, queue, isPolling, controller, committedVersion, edits>>

\* Mutant: apiErrorCount is never increased.
ReceiveErrorUncounted(t, l, result) ==
  /\ loop[t][l].pc = "wait"
  /\ result.status = "error"
  /\ RetryLater(t, l, loop[t][l])
  /\ UNCHANGED <<page, queue, isPolling, controller, committedVersion, lastEdit,
                 outcome, edits>>

\* Any other error is retried MAX_ALLOWED_API_ERRORS times.
ReceiveError(t, l, result) ==
  LET lp == loop[t][l] IN
  /\ lp.pc = "wait"
  /\ result.status = "error"
  /\ IF lp.errors < MaxAllowedApiErrors
       THEN /\ RetryLater(t, l, [lp EXCEPT !.errors = @ + 1])
            /\ UNCHANGED <<lastEdit, outcome>>
       ELSE /\ Halt(t, l)
            /\ Complete(t, InHand(t, l).transactions, {})
  /\ UNCHANGED <<page, queue, isPolling, controller, committedVersion, edits>>

Receive(t, l, result) ==
  /\ Continued(t)
  /\ \/ ReceiveOk(t, l, result)
     \/ ReceiveRefusal(t, l, result)
     \/ ReceiveError(t, l, result)

\* What a loop does by itself, between two answers of the server.
Step(t, l) ==
  \/ Poll(t, l)
  \/ NoticeAbort(t, l)
  \/ TakeDetails(t, l)
  \/ TakeUnknown(t, l)
  \/ TakeTransactions(t, l)

\* What the user and the browser do to a tab.
Use(t) ==
  \/ \E p \in Projects : OpenProject(t, p)
  \/ EnqueueProjectDetails(t)
  \/ \E x \in Txns : SendTransaction(t, x)
  \/ CloseDialog(t)
  \/ Unmount(t)
  \/ Reload(t)

\* A server that answers anything: "ok" moves the version on.
Answers(t, l) ==
  LET command == InHand(t, l) IN
  {[status |-> "ok", version |-> v, accepted |-> {}] :
     v \in (loop[t][l].details[command.project] + 1)..MaxVersion}
  \cup [status : {"version_mismatched", "outdated", "authorization_error", "error"},
        version : {0}, accepted : {{}}]
  \cup [status : {"partial"}, version : {0},
        accepted : SUBSET ToSet(command.transactions)]

Answered(t, l) == /\ loop[t][l].pc = "wait"
                  /\ \E result \in Answers(t, l) : Receive(t, l, result)

PQNext ==
  \E t \in Tabs :
    \/ Use(t)
    \/ \E v \in 0..MaxVersion : LoadData(t, v)
    \/ \E l \in Loops :
         Step(t, l) \/ SendPatch(t, l) \/ NetworkError(t, l) \/ Answered(t, l)

PQSpec == PQInit /\ [][PQNext]_pqVars
-----------------------------------------------------------------------------
(* Properties *)

RunningLoops(t) == {l \in Loops : loop[t][l].pc # "off"}

\* The loop ended on a fatal error: nothing is sent until the page reloads.
Halted(t) == controller[t] # NoLoop /\ loop[t][controller[t]].pc = "off"

Carries(commands, x) ==
  \E i \in DOMAIN commands :
    commands[i].type = "transactions" /\ x \in ToSet(commands[i].transactions)

Pending(t) == {x \in ToSet(edits[t]) : outcome[x] = "pending"}

\* However often a project is opened and closed, at most one loop of a tab is
\* not on its way out, and it is the one stopPolling would abort.
OneLiveLoop ==
  \A t \in Tabs : \A l \in RunningLoops(t) :
    loop[t][l].aborted \/ l = controller[t]

\* However often a dialog closes over a loop that is still sending, an edit is with
\* one loop only, and is not queued for another: no request carries it but those of
\* that loop, which all ask for the same.
SentByOneLoop ==
  \A t \in Tabs : \A l \in Loops : \A x \in Txns : Carries(loop[t][l].batch, x) =>
    /\ ~Carries(queue[t], x)
    /\ \A k \in Loops : Carries(loop[t][k].batch, x) => k = l

\* An edit the tab has not been answered is still queued or in the hands of a
\* loop that will send it; only a halted queue may have dropped it.
NoEditLost ==
  \A t \in Tabs : ~Halted(t) =>
    \A x \in Pending(t) :
      \/ Carries(queue[t], x)
      \/ \E l \in Loops : ~loop[t][l].aborted /\ Carries(loop[t][l].batch, x)

\* "Promisify idle state of the queue for a one-off notification when
\* everything is saved" (isSyncIdle): idle is never shown over unanswered edits.
IdleMeansSaved ==
  \A t \in Tabs : syncStatus[t] = "idle" => Pending(t) = {}

\* A saved answer is never given out of edit order: what the user did before is
\* answered too.
SavedInOrder ==
  \A t \in Tabs : \A i, j \in DOMAIN edits[t] :
    i < j /\ outcome[edits[t][j]] = "saved" => outcome[edits[t][i]] # "pending"

\* The loop always has the details of the project it has transactions of, so
\* "Project details not found" cannot happen while a page stays open.
DetailsPrecedeTransactions ==
  \A t \in Tabs : \A l \in Loops :
    LET lp == loop[t][l] IN
    lp.pc = "batch" /\ ~lp.aborted /\ Head(lp.batch).type = "transactions"
      => lp.details[Head(lp.batch).project] # Unknown

\* completeTransaction is called once per transaction: an answer is final.
AnsweredOnce ==
  [][\A x \in Txns : outcome[x] \in {"saved", "unsaved"} => outcome'[x] = outcome[x]]_pqVars

\* The browser runs timers and continuations, and the network lets an answer
\* through every now and then.
PQFairness ==
  \A t \in Tabs, l \in Loops :
    /\ WF_pqVars(Step(t, l))
    /\ WF_pqVars(SendPatch(t, l))
    /\ SF_pqVars(Answered(t, l))

PQFairSpec == PQSpec /\ PQFairness

\* Every edit is answered in the end, unless the queue halts or the page goes.
EditsAnswered ==
  \A t \in Tabs : \A x \in Txns :
    x \in Pending(t) ~> (x \notin Pending(t) \/ Halted(t))
=============================================================================
