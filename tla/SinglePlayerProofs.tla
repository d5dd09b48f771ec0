------------------------- MODULE SinglePlayerProofs -------------------------
(***************************************************************************)
(* Proofs about SinglePlayer, for any tabs, loops, handlers, projects,     *)
(* edits and faults.  What the queue and the server promise by themselves  *)
(* comes from their own proofs; what is new here is what ties a poll loop, *)
(* the handlers of its requests and the row together.                      *)
(***************************************************************************)
EXTENDS SinglePlayer, TLAPS

Q == INSTANCE ProjectQueueProofs WITH MaxVersion <- 0

S == INSTANCE BuildPatchProofs WITH
       Clients <- Tabs \X Loops, Requests <- {}, MaxVersion <- 0

LEMMA Assumptions == Q!ProjectQueueAssumption /\ S!BuildPatchAssumption
PROOF BY SinglePlayerAssumption DEF Q!ProjectQueueAssumption, S!BuildPatchAssumption

-----------------------------------------------------------------------------
(* The queue and the server the proofs are about are the composition's. *)

USE Assumptions

LEMMA SameOpenProject ==
  ASSUME NEW t, NEW p
  PROVE  Queue!OpenProject(t, p) <=> Q!OpenProject(t, p)
PROOF BY DEF Queue!OpenProject, Q!OpenProject, Queue!Continued, Q!Continued,
             Queue!StopPolling, Q!StopPolling, Queue!queueVars, Q!queueVars

LEMMA SameLoadData ==
  ASSUME NEW t, NEW v
  PROVE  Queue!LoadData(t, v) <=> Q!LoadData(t, v)
PROOF BY DEF Queue!LoadData, Q!LoadData, Queue!Continued, Q!Continued,
             Queue!queueVars, Q!queueVars

LEMMA SameEnqueueProjectDetails ==
  ASSUME NEW t
  PROVE  Queue!EnqueueProjectDetails(t) <=> Q!EnqueueProjectDetails(t)
PROOF BY DEF Queue!EnqueueProjectDetails, Q!EnqueueProjectDetails, Queue!Continued,
             Q!Continued, Queue!SetDetails, Q!SetDetails, Queue!Enqueue, Q!Enqueue,
             Queue!SetLoop, Q!SetLoop, Queue!SetStatus, Q!SetStatus, Queue!Taken,
             Q!Taken, Queue!OffLoop, Q!OffLoop, Queue!NoDetails, Q!NoDetails,
             Queue!Unknown, Q!Unknown

LEMMA SameSendTransaction ==
  ASSUME NEW t, NEW x
  PROVE  Queue!SendTransaction(t, x) <=> Q!SendTransaction(t, x)
PROOF BY DEF Queue!SendTransaction, Q!SendTransaction, Queue!Continued,
             Q!Continued, Queue!SetStatus, Q!SetStatus, Queue!Enqueue, Q!Enqueue,
             Queue!Transactions, Q!Transactions

LEMMA SameCloseDialog ==
  ASSUME NEW t
  PROVE  Queue!CloseDialog(t) <=> Q!CloseDialog(t)
PROOF BY DEF Queue!CloseDialog, Q!CloseDialog, Queue!Continued, Q!Continued,
             Queue!StopPolling, Q!StopPolling, Queue!ClosedPage, Q!ClosedPage

LEMMA SameUnmount ==
  ASSUME NEW t
  PROVE  Queue!Unmount(t) <=> Q!Unmount(t)
PROOF BY DEF Queue!Unmount, Q!Unmount, Queue!Continued, Q!Continued,
             Queue!ClosedPage, Q!ClosedPage, Queue!queueVars, Q!queueVars

LEMMA SameReload ==
  ASSUME NEW t
  PROVE  Queue!Reload(t) <=> Q!Reload(t)
PROOF BY DEF Queue!Reload, Q!Reload, Queue!ToSet, Q!ToSet, Queue!Continued, Q!Continued,
             Queue!ClosedPage, Q!ClosedPage, Queue!SetStatus, Q!SetStatus,
             Queue!OffLoop, Q!OffLoop, Queue!NoDetails, Q!NoDetails, Queue!Unknown,
             Q!Unknown

LEMMA SameStep ==
  ASSUME NEW t, NEW l
  PROVE  Queue!Step(t, l) <=> Q!Step(t, l)
PROOF
  <1>1. Queue!Poll(t, l) <=> Q!Poll(t, l)
    BY DEF Queue!Poll, Q!Poll, Queue!Continued, Q!Continued, Queue!SetLoop,
           Q!SetLoop, Queue!SetStatus, Q!SetStatus, Queue!Taken, Q!Taken,
           Queue!PollStatus, Q!PollStatus
  <1>2. Queue!NoticeAbort(t, l) <=> Q!NoticeAbort(t, l)
    BY DEF Queue!NoticeAbort, Q!NoticeAbort, Queue!SetLoop, Q!SetLoop,
           Queue!OffLoop, Q!OffLoop, Queue!NoDetails, Q!NoDetails,
           Queue!Unknown, Q!Unknown
  <1>3. Queue!TakeDetails(t, l) <=> Q!TakeDetails(t, l)
    BY DEF Queue!TakeDetails, Q!TakeDetails, Queue!Halt, Q!Halt,
           Queue!SetLoop, Q!SetLoop, Queue!SetStatus, Q!SetStatus,
           Queue!OffLoop, Q!OffLoop, Queue!NoDetails, Q!NoDetails,
           Queue!Unknown, Q!Unknown, Queue!Done, Q!Done, Queue!InHand,
           Q!InHand
  <1>4. Queue!TakeUnknown(t, l) <=> Q!TakeUnknown(t, l)
    BY DEF Queue!TakeUnknown, Q!TakeUnknown, Queue!Halt, Q!Halt,
           Queue!SetLoop, Q!SetLoop, Queue!SetStatus, Q!SetStatus,
           Queue!OffLoop, Q!OffLoop, Queue!NoDetails, Q!NoDetails,
           Queue!Unknown, Q!Unknown, Queue!InHand, Q!InHand, Queue!Complete,
           Q!Complete, Queue!ToSet, Q!ToSet
  <1>5. Queue!TakeTransactions(t, l) <=> Q!TakeTransactions(t, l)
    BY DEF Queue!TakeTransactions, Q!TakeTransactions, Queue!SetLoop,
           Q!SetLoop, Queue!InHand, Q!InHand, Queue!Unknown, Q!Unknown
  <1> QED
    BY <1>1, <1>2, <1>3, <1>4, <1>5 DEF Queue!Step, Q!Step

LEMMA SameSendPatch ==
  ASSUME NEW t, NEW l
  PROVE  Queue!SendPatch(t, l) <=> Q!SendPatch(t, l)
PROOF BY DEF Queue!SendPatch, Q!SendPatch, Queue!SetLoop, Q!SetLoop

LEMMA SameNetworkError ==
  ASSUME NEW t, NEW l
  PROVE  Queue!NetworkError(t, l) <=> Q!NetworkError(t, l)
PROOF BY DEF Queue!NetworkError, Q!NetworkError, Queue!Continued, Q!Continued,
             Queue!RetryLater, Q!RetryLater, Queue!SetLoop, Q!SetLoop,
             Queue!SetStatus, Q!SetStatus

LEMMA SameReceive ==
  ASSUME NEW t, NEW l, NEW result
  PROVE  Queue!Receive(t, l, result) <=> Q!Receive(t, l, result)
PROOF
  <1>1. Queue!ReceiveOk(t, l, result) <=> Q!ReceiveOk(t, l, result)
    BY DEF Queue!ReceiveOk, Q!ReceiveOk, Queue!Done, Q!Done, Queue!SetLoop,
           Q!SetLoop, Queue!InHand, Q!InHand, Queue!Complete, Q!Complete,
           Queue!ToSet, Q!ToSet
  <1>2. Queue!ReceiveRefusal(t, l, result) <=> Q!ReceiveRefusal(t, l, result)
    BY DEF Queue!ReceiveRefusal, Q!ReceiveRefusal, Queue!Halt, Q!Halt,
           Queue!SetLoop, Q!SetLoop, Queue!SetStatus, Q!SetStatus,
           Queue!OffLoop, Q!OffLoop, Queue!NoDetails, Q!NoDetails,
           Queue!Unknown, Q!Unknown, Queue!InHand, Q!InHand, Queue!Complete,
           Q!Complete, Queue!ToSet, Q!ToSet
  <1>3. Queue!ReceiveError(t, l, result) <=> Q!ReceiveError(t, l, result)
    BY DEF Queue!ReceiveError, Q!ReceiveError, Queue!Halt, Q!Halt,
           Queue!SetLoop, Q!SetLoop, Queue!SetStatus, Q!SetStatus,
           Queue!OffLoop, Q!OffLoop, Queue!NoDetails, Q!NoDetails,
           Queue!Unknown, Q!Unknown, Queue!InHand, Q!InHand, Queue!Complete,
           Q!Complete, Queue!ToSet, Q!ToSet, Queue!RetryLater, Q!RetryLater
  <1> QED
    BY <1>1, <1>2, <1>3 DEF Queue!Receive, Q!Receive, Queue!Continued, Q!Continued

LEMMA SamePQInit ==
  Queue!PQInit <=> Q!PQInit
PROOF BY DEF Queue!PQInit, Q!PQInit, Queue!ClosedPage, Q!ClosedPage, Queue!OffLoop,
             Q!OffLoop, Queue!NoDetails, Q!NoDetails, Queue!Unknown, Q!Unknown

LEMMA SamePQTypeOK ==
  Queue!PQTypeOK <=> Q!PQTypeOK
PROOF BY DEF Queue!PQTypeOK, Q!PQTypeOK, Queue!Pages, Q!Pages, Queue!Commands,
             Q!Commands, Queue!LoopStates, Q!LoopStates, Queue!Unknown, Q!Unknown,
             Queue!Outcomes, Q!Outcomes

LEMMA SameRequest ==
  ASSUME NEW h, NEW c, NEW p, NEW es, NEW v
  PROVE  Server!Request(h, c, p, es, v) <=> S!Request(h, c, p, es, v)
PROOF BY DEF Server!Request, S!Request, Server!Idle, S!Idle, Server!NoResult,
             S!NoResult

LEMMA SameServe ==
  ASSUME NEW h
  PROVE  Server!Serve(h) <=> S!Serve(h)
PROOF
  <1>1. Server!LoadBuildState(h) <=> S!LoadBuildState(h)
    BY DEF Server!LoadBuildState, S!LoadBuildState
  <1>2. Server!RejectAll(h) <=> S!RejectAll(h)
    BY DEF Server!RejectAll, S!RejectAll, Server!Reply, S!Reply,
           Server!ToSet, S!ToSet
  <1>3. Server!CheckStale(h) <=> S!CheckStale(h)
    BY DEF Server!CheckStale, S!CheckStale, Server!Reply, S!Reply,
           Server!ToSet, S!ToSet, Server!LatestOf, S!LatestOf,
           Server!StatusFor, S!StatusFor
  <1>4. Server!StartPatch(h) <=> S!StartPatch(h)
    BY DEF Server!StartPatch, S!StartPatch, Server!Reply, S!Reply,
           Server!ToSet, S!ToSet, Server!Batch, S!Batch, Server!EarliestOf,
           S!EarliestOf, Server!StepFor, S!StepFor
  <1>5. Server!PatchAssets(h) <=> S!PatchAssets(h)
    BY DEF Server!PatchAssets, S!PatchAssets, Server!Batch, S!Batch,
           Server!EarliestOf, S!EarliestOf, Server!row, S!row
  <1>6. Server!UpdateBuild(h) <=> S!UpdateBuild(h)
    BY DEF Server!UpdateBuild, S!UpdateBuild, Server!Reply, S!Reply,
           Server!ToSet, S!ToSet, Server!Batch, S!Batch, Server!EarliestOf,
           S!EarliestOf, Server!StepFor, S!StepFor, Server!WriteRow,
           S!WriteRow, Server!LatestOf, S!LatestOf, Server!Matches,
           S!Matches, Server!Applied, S!Applied, Server!StatusFor,
           S!StatusFor
  <1>7. Server!LoseRace(h) <=> S!LoseRace(h)
    BY DEF Server!LoseRace, S!LoseRace, Server!Reply, S!Reply, Server!ToSet,
           S!ToSet, Server!Matches, S!Matches
  <1> QED
    BY <1>1, <1>2, <1>3, <1>4, <1>5, <1>6, <1>7 DEF Server!Serve, S!Serve

LEMMA SameFalter ==
  ASSUME NEW h
  PROVE  Server!Falter(h) <=> S!Falter(h)
PROOF BY DEF Server!Falter, S!Falter, Server!TurnAway, S!TurnAway,
             Server!PatchAssetsFails, S!PatchAssetsFails, Server!UpdateBuildFails,
             S!UpdateBuildFails, Server!Throw, S!Throw, Server!Reply, S!Reply,
             Server!LatestOf, S!LatestOf, Server!EarliestOf, S!EarliestOf,
             Server!Batch, S!Batch, Server!WriteRow, S!WriteRow, Server!Matches,
             S!Matches, Server!row, S!row

LEMMA SameRespond ==
  ASSUME NEW h
  PROVE  Server!Respond(h) <=> S!Respond(h)
PROOF BY DEF Server!Respond, S!Respond, Server!Idle, S!Idle

LEMMA SameDisconnect ==
  ASSUME NEW h
  PROVE  Server!Disconnect(h) <=> S!Disconnect(h)
PROOF BY DEF Server!Disconnect, S!Disconnect, Server!Idle, S!Idle

LEMMA SameVanish ==
  ASSUME NEW h
  PROVE  Server!Vanish(h) <=> S!Vanish(h)
PROOF BY DEF Server!Vanish, S!Vanish, Server!Idle, S!Idle

LEMMA SameBPInit ==
  Server!BPInit <=> S!BPInit
PROOF BY DEF Server!BPInit, S!BPInit, Server!Idle, S!Idle

LEMMA SameBPTypeOK ==
  Server!BPTypeOK <=> S!BPTypeOK
PROOF BY DEF Server!BPTypeOK, S!BPTypeOK, Server!Busy, S!Busy, Server!Idle, S!Idle,
             Server!Results, S!Results, Server!Statuses, S!Statuses

-----------------------------------------------------------------------------
(* The inductive invariant.  It ties what a poll loop has in hand, what the *)
(* handlers of its requests have, and what is in the row.                   *)

\* The loop sends, or waits for, what the handler was asked for.
Asks(lp, hd) ==
  LET command == Head(lp.batch) IN
  /\ lp.pc \in {"send", "wait"}
  /\ command.type = "transactions"
  /\ command.transactions = hd.entries
  /\ command.project = hd.project
  /\ lp.details[hd.project] = hd.clientVersion

\* Wherever a transaction of a request still is, it is in the same command, with
\* the same version: also when the connection broke and the loop tries again.
Requested ==
  \A h \in Handlers : handler[h] # S!Idle =>
    \A x \in ToSet(handler[h].entries) :
      /\ Q!InHandOnly(x)
      /\ \A t \in Tabs, l \in Loops :
           Q!Carries(loop[t][l].batch, x) => Asks(loop[t][l], handler[h])

\* So it is when the row has it already, and the version is one without it.
Kept ==
  \A p \in Projects : \A i \in DOMAIN content[p] : \A x \in content[p][i] :
    /\ Q!InHandOnly(x)
    /\ \A t \in Tabs, l \in Loops : Q!Carries(loop[t][l].batch, x) =>
         /\ Q!InHand(t, l).project = p
         /\ loop[t][l].details[p] < i

\* A request asks for a version without its transactions.
Later ==
  \A h \in Handlers : handler[h] # S!Idle =>
    \A x \in ToSet(handler[h].entries), p \in Projects : \A i \in DOMAIN content[p] :
      x \in content[p][i] => p = handler[h].project /\ handler[h].clientVersion < i

SameAttempt(hd, other) ==
  /\ other.entries = hd.entries
  /\ other.project = hd.project
  /\ other.clientVersion = hd.clientVersion

\* Requests with a transaction in common are attempts of one loop at one batch.
Alike ==
  \A h, k \in Handlers :
    handler[h] # S!Idle /\ handler[k] # S!Idle
    /\ ToSet(handler[h].entries) \cap ToSet(handler[k].entries) # {} =>
      SameAttempt(handler[h], handler[k])

\* A handler that would win the compare-and-set has nothing to save that is saved.
Unsaved ==
  \A h \in Handlers :
    LET hd == handler[h] IN
    S!Patching(hd) =>
      /\ hd.remaining \subseteq ToSet(hd.entries)
      /\ hd.clientVersion <= hd.version
      /\ S!Matches(hd) => hd.remaining \cap Saved(hd.project) = {}

\* The version counts the saves.
OneVersion == \A p \in Projects : Len(content[p]) = version[p]

CommitInv ==
  /\ Q!OnceInv
  /\ Q!Stocked
  /\ S!InvFor({})
  /\ OneVersion
  /\ Requested
  /\ Kept
  /\ Later
  /\ Alike
  /\ Unsaved
  /\ CommittedOnce

-----------------------------------------------------------------------------
(* The two sides of a step. *)

LEMMA TabMoves ==
  ASSUME CommitInv, Next
  PROVE  UNCHANGED tabVars \/ \E t \in Tabs : Q!Moves(t)
PROOF
  <1>1. /\ version \in [Projects -> Nat]
        /\ page \in [Tabs -> Q!SoundPages]
        /\ \A h \in Handlers : handler[h] # S!Idle => handler[h].result.version \in Nat
    <2>1. handler \in [Handlers -> S!Busy \cup {S!Idle}] /\ version \in [Projects -> Nat]
      BY DEF CommitInv, S!InvFor, S!BPTypeOK
    <2> QED
      BY <2>1 DEF CommitInv, Q!OnceInv, Q!PQInv, S!Busy, S!Results
  <1>2. ASSUME NEW t \in Tabs, Load(t)
        PROVE  Q!Moves(t)
    <2>1. Q!LoadData(t, version[page[t].project])
      BY <1>2, SameLoadData DEF Load
    <2>2. page[t].project \in Projects
      BY <1>1, <2>1 DEF Q!LoadData, Q!SoundPages
    <2> QED
      BY <1>1, <2>1, <2>2 DEF Q!Moves
  <1>3. ASSUME NEW t \in Tabs, (\E x \in Txns : Edit(t, x)) \/ Act(t) \/ Reload(t)
        PROVE  Q!Moves(t)
    BY <1>3, SameSendTransaction, SameOpenProject, SameEnqueueProjectDetails, SameCloseDialog,
       SameUnmount, SameReload DEF Edit, Act, Reload, Q!Moves, Q!Use
  <1>4. ASSUME NEW t \in Tabs, NEW l \in Loops, NEW h \in Handlers,
               Run(t, l) \/ Send(t, l, h) \/ Answer(t, l, h) \/ Break(t, l, h)
        PROVE  Q!Moves(t)
    <2>1. ASSUME Answer(t, l, h)
          PROVE  handler[h].result.version \in Nat /\ Q!Receive(t, l, handler[h].result)
      BY <1>1, <2>1, SameReceive DEF Answer, Connected, Server!Idle, S!Idle
    <2> QED
      BY <1>4, <2>1, SameStep, SameSendPatch, SameNetworkError DEF Run, Send, Break, Q!Moves
  <1>5. ASSUME NEW t \in Tabs, NEW l \in Loops, Run(t, l)
        PROVE  Q!Moves(t)
    BY <1>5, SameStep DEF Run, Q!Moves
  <1> QED
    BY <1>2, <1>3, <1>4, <1>5 DEF Next, Serve, Falter

\* What a transaction in hand does in any step.
HandsHold ==
  \A x \in Txns : Q!InHandOnly(x) =>
    Q!InHandOnly(x)' /\ \A t \in Tabs, l \in Loops : Q!StaysInHand(t, l, x)

LEMMA TabSide ==
  ASSUME CommitInv, [Next]_vars
  PROVE  Q!OnceInv' /\ Q!Stocked' /\ HandsHold
PROOF
  <1>1. CASE UNCHANGED tabVars
    <2>1. UNCHANGED <<page, queue, isPolling, controller, loop, syncStatus,
                      committedVersion, lastEdit, outcome, edits>>
      BY <1>1 DEF tabVars
    <2>2. Q!OnceInv' /\ Q!Stocked'
      BY <2>1, Q!OnceNext DEF CommitInv, Q!pqVars, Q!queueVars, Q!Stocked, Q!Knows
    <2>3. HandsHold
      BY <2>1 DEF HandsHold, Q!InHandOnly, Q!StaysInHand, Q!InHand
    <2> QED
      BY <2>2, <2>3
  <1>2. ASSUME NEW t \in Tabs, Q!Moves(t)
        PROVE  Q!OnceInv' /\ Q!Stocked' /\ HandsHold
    <2>1. Q!OnceInv /\ Q!PQInv /\ Q!Stocked
      BY DEF CommitInv, Q!OnceInv
    <2> QED
      BY <1>2, <2>1, Q!MovesOnce, Q!MovesStocked, Q!MovesHand DEF HandsHold
  <1> QED
    BY <1>1, <1>2, TabMoves DEF vars

\* The server either keeps the row, while handlers do what they may meanwhile, or
\* one handler saves, or a request is made.
Quiet == UNCHANGED <<version, lastTransactionId, content>> /\ \A h \in Handlers : S!Calm(h)

SaveBy(h) ==
  /\ handler[h] \in S!Busy /\ handler'[h] \in S!Busy
  /\ S!SameRequest(handler[h], handler'[h])
  /\ S!Tells(handler[h], handler'[h])
  /\ S!Saves(handler[h], handler'[h])
  /\ \A k \in Handlers \ {h} : handler'[k] = handler[k]

SentBy(t, l, h) ==
  LET command == Q!InHand(t, l) IN
  /\ Q!SendPatch(t, l)
  /\ S!Request(h, <<t, l>>, command.project, command.transactions,
               loop[t][l].details[command.project])

LEMMA WorkSide ==
  ASSUME S!InvFor({}), NEW h \in Handlers, S!Works(h)
  PROVE  S!InvFor({})' /\ (Quiet \/ SaveBy(h))
PROOF
  <1>1. {} \in SUBSET AssetTxns
    OBVIOUS
  <1>2. S!InvFor({})'
    BY <1>1, S!WorksInv
  <1> QED
    BY <1>2, S!CalmOrSaves DEF Quiet, SaveBy, S!row

LEMMA InPairs == \A t \in Tabs, l \in Loops : <<t, l>> \in Tabs \X Loops
PROOF OBVIOUS

LEMMA SendSide ==
  ASSUME CommitInv, NEW t \in Tabs, NEW l \in Loops, NEW h \in Handlers, SentBy(t, l, h)
  PROVE  S!InvFor({})'
PROOF
  <1> DEFINE lp == loop[t][l]
             command == Head(lp.batch)
  <1>1. lp.pc = "send" /\ lp \in Q!SoundLoops /\ Q!Once(queue[t], loop[t])
        /\ Q!Filled(lp.batch) /\ Q!Knows(lp)
    BY DEF SentBy, Q!SendPatch, CommitInv, Q!OnceInv, Q!PQInv, Q!Stocked
  <1>2. lp.batch \in Seq(Q!Commands) /\ lp.batch # <<>>
        /\ lp.details \in [Projects -> Nat \cup {Q!Unknown}]
    BY <1>1 DEF Q!SoundLoops, Q!LoopStates
  <1>3. command \in Q!Commands /\ command.type = "transactions" /\ command.transactions # <<>>
    BY <1>1, <1>2, Q!TailFilled DEF Q!Once, Q!Sends
  <1>4. command.project \in Projects /\ command.transactions \in Seq(Txns) \ {<<>>}
    BY <1>3 DEF Q!Commands
  <1>5. lp.details[command.project] \in Nat
    BY <1>1, <1>2, <1>4 DEF Q!Knows
  <1>6. {} \in SUBSET AssetTxns /\ <<t, l>> \in Tabs \X Loops
    BY InPairs, Zenon
  <1>7. S!Request(h, <<t, l>>, command.project, command.transactions, lp.details[command.project])
    BY Zenon DEF SentBy, Q!InHand
  <1> HIDE DEF command, lp
  <1> QED
    BY <1>4, <1>5, <1>6, <1>7, S!RequestStep DEF CommitInv

\* What the tabs do by themselves, an answer and a broken connection leave the row
\* alone.
LEMMA QuietSide ==
  ASSUME CommitInv,
         \/ UNCHANGED serverVars
         \/ \E t \in Tabs :
              \/ Reload(t)
              \/ \E l \in Loops, h \in Handlers : Answer(t, l, h) \/ Break(t, l, h)
  PROVE  S!InvFor({})' /\ Quiet
PROOF
  <1> USE DEF CommitInv
  <1>1. {} \in SUBSET AssetTxns /\ S!InvFor({}) /\ S!BPTypeOK
    BY DEF S!InvFor
  <1>2. CASE UNCHANGED serverVars
    <2>1. UNCHANGED <<version, lastTransactionId, content, assets, handler>>
      BY <1>2 DEF serverVars
    <2>2. \A h \in Handlers : S!Calm(h)
      BY <1>1, <2>1, S!StillCalm
    <2>3. S!InvFor({})'
      BY <1>1, <2>1, S!BPNextInv DEF S!bpVars
    <2> QED
      BY <2>1, <2>2, <2>3 DEF Quiet
  <1>3. ASSUME NEW t \in Tabs, Reload(t)
        PROVE  S!InvFor({})' /\ Quiet
    <2> DEFINE G == {h \in Handlers : handler[h] # S!Idle /\ \E l \in Loops : handler[h].client = <<t, l>>}
    <2>1. /\ G \in SUBSET Handlers /\ \A h \in G : handler[h] # S!Idle
          /\ handler' = [h \in Handlers |->
               IF h \in G THEN [handler[h] EXCEPT !.client = NoClient] ELSE handler[h]]
      BY <1>3 DEF Reload, Server!Idle, S!Idle
    <2>2. UNCHANGED <<version, lastTransactionId, content, assets>>
      BY <1>3 DEF Reload
    <2> HIDE DEF G
    <2>3. S!InvFor({})' /\ UNCHANGED S!row /\ \A h \in Handlers : S!Calm(h)
      BY <1>1, <2>1, <2>2, S!ClientsGone
    <2> QED
      BY <2>2, <2>3 DEF Quiet
  <1>4. ASSUME NEW t \in Tabs, NEW l \in Loops, NEW h \in Handlers, Answer(t, l, h)
        PROVE  S!InvFor({})' /\ Quiet
    <2>1. S!Respond(h)
      BY <1>4, SameRespond DEF Answer
    <2>2. \A k \in Handlers : S!Calm(k)
      BY <1>1, <2>1, S!StillCalm DEF S!Respond, S!Calm, S!BPTypeOK
    <2> QED
      BY <1>1, <2>1, <2>2, WorkSide DEF Quiet, S!Respond, S!Works
  <1>5. ASSUME NEW t \in Tabs, NEW l \in Loops, NEW h \in Handlers, Break(t, l, h)
        PROVE  S!InvFor({})' /\ Quiet
    <2>1. S!Disconnect(h)
      BY <1>5, SameDisconnect DEF Break
    <2>2. /\ {h} \in SUBSET Handlers /\ \A k \in {h} : handler[k] # S!Idle
          /\ handler' = [k \in Handlers |->
               IF k \in {h} THEN [handler[k] EXCEPT !.client = NoClient] ELSE handler[k]]
      BY <1>1, <2>1 DEF S!Disconnect, S!BPTypeOK
    <2>3. UNCHANGED <<version, lastTransactionId, content, assets>>
      BY <2>1 DEF S!Disconnect
    <2>4. S!InvFor({})' /\ UNCHANGED S!row /\ \A k \in Handlers : S!Calm(k)
      BY <1>1, <2>2, <2>3, S!ClientsGone
    <2> QED
      BY <2>3, <2>4 DEF Quiet
  <1> QED
    BY <1>2, <1>3, <1>4, <1>5

LEMMA SendMeans ==
  ASSUME NEW t \in Tabs, NEW l \in Loops, NEW h \in Handlers, Send(t, l, h)
  PROVE  SentBy(t, l, h)
PROOF BY SameSendPatch, SameRequest DEF Send, SentBy, Queue!InHand, Q!InHand

LEMMA OwnSide ==
  ASSUME CommitInv, NEW h \in Handlers, Serve(h) \/ Falter(h)
  PROVE  UNCHANGED tabVars /\ S!InvFor({})' /\ (Quiet \/ SaveBy(h))
PROOF
  <1>1. S!Works(h) /\ UNCHANGED tabVars
    BY SameServe, SameVanish, SameFalter DEF Serve, Falter, S!Works
  <1> QED
    BY <1>1, WorkSide DEF CommitInv

LEMMA ServerSide ==
  ASSUME CommitInv, [Next]_vars
  PROVE  /\ S!InvFor({})'
         /\ \/ Quiet
            \/ UNCHANGED tabVars /\ \E h \in Handlers : SaveBy(h)
            \/ \E t \in Tabs, l \in Loops, h \in Handlers : SentBy(t, l, h)
PROOF
  <1>1. ASSUME NEW t \in Tabs, NEW l \in Loops, NEW h \in Handlers, Send(t, l, h)
        PROVE  S!InvFor({})' /\ SentBy(t, l, h)
    BY <1>1, SendMeans, SendSide
  <1>2. ASSUME NEW h \in Handlers, Serve(h) \/ Falter(h)
        PROVE  S!InvFor({})' /\ (Quiet \/ (UNCHANGED tabVars /\ SaveBy(h)))
    BY <1>2, OwnSide
  <1> QED
    BY <1>1, <1>2, QuietSide DEF Next, Load, Edit, Act, Run, vars

-----------------------------------------------------------------------------
(* Each step keeps what ties the two sides together. *)

LEMMA Typed ==
  ASSUME CommitInv
  PROVE  /\ handler \in [Handlers -> S!Busy \cup {S!Idle}]
         /\ version \in [Projects -> Nat]
         /\ content \in [Projects -> Seq(SUBSET Txns)]
         /\ \A h \in Handlers : handler[h] # S!Idle =>
              /\ handler[h] \in S!Busy
              /\ handler[h].project \in Projects
              /\ handler[h].clientVersion \in Nat
              /\ ToSet(handler[h].entries) \subseteq Txns
         /\ \A h \in Handlers : handler[h] \in S!Busy => handler[h] # S!Idle
         /\ \A p \in Projects : \A i \in DOMAIN content[p] : content[p][i] \subseteq Txns
PROOF
  <1>1. /\ handler \in [Handlers -> S!Busy \cup {S!Idle}]
        /\ version \in [Projects -> Nat]
        /\ content \in [Projects -> Seq(SUBSET Txns)]
    BY DEF CommitInv, S!InvFor, S!BPTypeOK
  <1>2. ASSUME NEW hd \in S!Busy
        PROVE  /\ hd # S!Idle
               /\ hd.project \in Projects
               /\ hd.clientVersion \in Nat
               /\ ToSet(hd.entries) \subseteq Txns
    <2>1. hd.pc # S!Idle.pc /\ hd.project \in Projects /\ hd.clientVersion \in Nat
          /\ hd.entries \in Seq(Txns)
      BY DEF S!Busy, S!Idle
    <2> QED
      BY <2>1 DEF ToSet
  <1> QED
    BY <1>1, <1>2

\* What the row has stays in hand, if it is still there.
LEMMA KeptStays ==
  ASSUME CommitInv, HandsHold,
         NEW p \in Projects, NEW i \in DOMAIN content[p], NEW x \in content[p][i]
  PROVE  /\ Q!InHandOnly(x)'
         /\ \A t \in Tabs, l \in Loops : Q!Carries(loop'[t][l].batch, x) =>
              /\ Q!InHand(t, l)'.project = p
              /\ loop'[t][l].details[p] < i
PROOF
  <1>1. x \in Txns /\ Q!InHandOnly(x)
        /\ \A t \in Tabs, l \in Loops : Q!Carries(loop[t][l].batch, x) =>
              Q!InHand(t, l).project = p /\ loop[t][l].details[p] < i
    BY Typed DEF CommitInv, Kept
  <1>2. Q!InHandOnly(x)' /\ \A t \in Tabs, l \in Loops : Q!StaysInHand(t, l, x)
    BY <1>1 DEF HandsHold
  <1> QED
    BY <1>1, <1>2 DEF Q!StaysInHand, Q!InHand

\* While the row stays, nothing can come apart.
LEMMA QuietStep ==
  ASSUME CommitInv, HandsHold, Quiet
  PROVE  OneVersion' /\ Requested' /\ Kept' /\ Later' /\ Alike' /\ Unsaved' /\ CommittedOnce'
PROOF
  <1>1. /\ UNCHANGED <<version, lastTransactionId, content>>
        /\ \A p \in Projects : Len(content[p]) = version[p]
    BY DEF Quiet, CommitInv, OneVersion
  <1>2. ASSUME NEW h \in Handlers, handler'[h] # S!Idle
        PROVE  /\ handler[h] # S!Idle /\ handler[h] \in S!Busy
               /\ S!SameRequest(handler[h], handler'[h])
               /\ S!Patching(handler'[h]) =>
                    S!ProceedsTo(handler[h], handler'[h]) \/ S!Starts(handler[h], handler'[h])
    BY <1>2, Typed DEF Quiet, S!Calm
  <1>3. Requested'
    <2> SUFFICES ASSUME NEW h \in Handlers, handler'[h] # S!Idle,
                        NEW x \in ToSet(handler'[h].entries)
                 PROVE  /\ Q!InHandOnly(x)'
                        /\ \A t \in Tabs, l \in Loops :
                             Q!Carries(loop'[t][l].batch, x) => Asks(loop'[t][l], handler'[h])
      BY DEF Requested
    <2>1. x \in ToSet(handler[h].entries) /\ x \in Txns
      BY <1>2, Typed DEF S!SameRequest
    <2>2. /\ Q!InHandOnly(x)
          /\ \A t \in Tabs, l \in Loops :
               Q!Carries(loop[t][l].batch, x) => Asks(loop[t][l], handler[h])
      BY <1>2, <2>1 DEF CommitInv, Requested
    <2>3. Q!InHandOnly(x)' /\ \A t \in Tabs, l \in Loops : Q!StaysInHand(t, l, x)
      BY <2>1, <2>2 DEF HandsHold
    <2>4. ASSUME NEW t \in Tabs, NEW l \in Loops, Q!Carries(loop'[t][l].batch, x)
          PROVE  Asks(loop'[t][l], handler'[h])
      <3>1. Asks(loop[t][l], handler[h])
            /\ loop'[t][l].batch = loop[t][l].batch
            /\ loop'[t][l].details = loop[t][l].details
            /\ loop'[t][l].pc \in {"send", "wait"}
        BY <2>2, <2>3, <2>4 DEF Q!StaysInHand
      <3> QED
        BY <1>2, <3>1 DEF Asks, S!SameRequest
    <2> QED
      BY <2>3, <2>4
  <1>4. Kept'
    BY <1>1, KeptStays DEF Kept
  <1>5. Later' /\ Alike'
    <2>1. Later /\ Alike
      BY DEF CommitInv
    <2> QED
      <3>1. Later'
        BY <1>1, <1>2, <2>1 DEF Later, S!SameRequest
      <3>2. Alike'
        BY <1>2, <2>1 DEF Alike, S!SameRequest, SameAttempt
      <3> QED
        BY <3>1, <3>2
  <1>6. Unsaved'
    <2> SUFFICES ASSUME NEW h \in Handlers, S!Patching(handler'[h])
                 PROVE  /\ handler'[h].remaining \subseteq ToSet(handler'[h].entries)
                        /\ handler'[h].clientVersion <= handler'[h].version
                        /\ version[handler'[h].project] = handler'[h].version =>
                             handler'[h].remaining \cap Saved(handler'[h].project) = {}
      BY <1>1 DEF Unsaved, S!Matches, Saved
    <2> DEFINE hd == handler[h]
               new == handler'[h]
    <2>1. /\ new # S!Idle /\ hd # S!Idle /\ S!SameRequest(hd, new)
          /\ S!ProceedsTo(hd, new) \/ S!Starts(hd, new)
          /\ hd.project \in Projects /\ hd.clientVersion \in Nat
      BY <1>2, Typed DEF S!Patching, S!Idle
    <2>2. CASE S!ProceedsTo(hd, new)
      BY <2>1, <2>2 DEF CommitInv, Unsaved, S!ProceedsTo, S!SameRequest, S!Matches
    <2>3. CASE S!Starts(hd, new)
      <3>1. /\ new.remaining \subseteq ToSet(hd.entries)
            /\ new.version = hd.clientVersion
        BY <2>3 DEF S!Starts, S!ToSet, ToSet
      <3>2. ASSUME version[hd.project] = new.version,
                   NEW x \in new.remaining, x \in Saved(hd.project)
            PROVE  FALSE
        <4>1. PICK i \in DOMAIN content[hd.project] : x \in content[hd.project][i]
          BY <3>2 DEF Saved, Range
        <4>2. hd.clientVersion < i
          BY <2>1, <3>1, <4>1 DEF CommitInv, Later
        <4>3. i \in 1..Len(content[hd.project])
          BY <2>1, <4>1, Typed
        <4> QED
          BY <1>1, <2>1, <3>1, <3>2, <4>2, <4>3
      <3> QED
        BY <2>1, <3>1, <3>2 DEF S!SameRequest
    <2> QED
      BY <2>1, <2>2, <2>3
  <1> QED
    BY <1>1, <1>3, <1>4, <1>5, <1>6 DEF OneVersion, CommittedOnce, CommitInv

\* What a save does to the row.
LEMMA SaveEffect ==
  ASSUME CommitInv, NEW h \in Handlers, SaveBy(h)
  PROVE  LET hd    == handler[h]
             p     == hd.project
             batch == S!Batch(hd)
         IN  /\ p \in Projects
             /\ hd.version = version[p]
             /\ version' = [version EXCEPT ![p] = @ + 1]
             /\ content' = [content EXCEPT ![p] = Append(@, batch)]
             /\ batch \in SUBSET Txns /\ batch \subseteq hd.remaining
             /\ hd.remaining \subseteq ToSet(hd.entries)
             /\ hd.remaining \cap Saved(p) = {}
             /\ hd.clientVersion <= version[p]
PROOF
  <1> DEFINE hd == handler[h]
             p == hd.project
             batch == S!Batch(hd)
  <1>1. {} \in SUBSET AssetTxns /\ S!InvFor({}) /\ hd \in S!Busy
        /\ hd.pc = "update" /\ S!Matches(hd) /\ S!WriteRow(hd) /\ S!Patching(hd)
    BY DEF CommitInv, SaveBy, S!Saves, S!Patching
  <1>2. /\ p \in Projects /\ batch \in SUBSET Txns
        /\ hd.version = version[p]
        /\ version' = [version EXCEPT ![p] = @ + 1]
        /\ content' = [content EXCEPT ![p] = Append(@, batch)]
    BY <1>1, S!WriteRowEffect
  <1>3. batch \subseteq hd.remaining
    BY <1>1, S!BatchTyped
  <1>4. /\ hd.remaining \subseteq ToSet(hd.entries)
        /\ hd.remaining \cap Saved(p) = {}
        /\ hd.clientVersion <= version[p]
    <2>1. Unsaved
      BY DEF CommitInv
    <2> QED
      BY <1>1, <1>2, <2>1 DEF Unsaved
  <1> QED
    BY <1>2, <1>3, <1>4

\* The same, version by version: those there were, and the new one.
LEMMA SaveAppends ==
  ASSUME CommitInv, NEW h \in Handlers, SaveBy(h)
  PROVE  LET hd == handler[h]
             n  == version[hd.project] + 1
         IN  /\ version'[hd.project] = n
             /\ \A q \in Projects \ {hd.project} : content'[q] = content[q] /\ version'[q] = version[q]
             /\ DOMAIN content'[hd.project] = DOMAIN content[hd.project] \cup {n}
             /\ Len(content'[hd.project]) = n
             /\ content'[hd.project][n] = S!Batch(hd)
             /\ \A i \in DOMAIN content[hd.project] :
                  i < n /\ i # n /\ content'[hd.project][i] = content[hd.project][i]
PROOF
  <1> DEFINE hd == handler[h]
             p == hd.project
             batch == S!Batch(hd)
  <1>1. /\ p \in Projects /\ version[p] \in Nat
        /\ version' = [version EXCEPT ![p] = @ + 1]
        /\ content' = [content EXCEPT ![p] = Append(@, batch)]
        /\ batch \in SUBSET Txns
        /\ version \in [Projects -> Nat] /\ content \in [Projects -> Seq(SUBSET Txns)]
        /\ Len(content[p]) = version[p]
    BY SaveEffect, Typed DEF CommitInv, OneVersion
  <1> HIDE DEF batch, p
  <1>2. /\ version'[p] = version[p] + 1 /\ content'[p] = Append(content[p], batch)
        /\ \A q \in Projects \ {p} : content'[q] = content[q] /\ version'[q] = version[q]
        /\ content[p] \in Seq(SUBSET Txns)
    BY <1>1
  <1> QED
    BY <1>1, <1>2 DEF p, batch

LEMMA SaveStep ==
  ASSUME CommitInv, HandsHold, UNCHANGED tabVars, NEW h \in Handlers, SaveBy(h)
  PROVE  OneVersion' /\ Requested' /\ Kept' /\ Later' /\ Alike' /\ Unsaved' /\ CommittedOnce'
PROOF
  <1> DEFINE hd == handler[h]
             p == hd.project
             n == version[p] + 1
             batch == S!Batch(hd)
  <1>1. /\ p \in Projects /\ version[p] \in Nat
        /\ hd.version = version[p]
        /\ batch \subseteq hd.remaining
        /\ hd.remaining \subseteq ToSet(hd.entries)
        /\ hd.remaining \cap Saved(p) = {}
        /\ hd.clientVersion <= version[p] /\ hd.clientVersion \in Nat
        /\ hd # S!Idle /\ hd \in S!Busy
    BY SaveEffect, Typed DEF SaveBy
  <1>2. /\ version'[p] = n
        /\ \A q \in Projects \ {p} : content'[q] = content[q] /\ version'[q] = version[q]
        /\ DOMAIN content'[p] = DOMAIN content[p] \cup {n}
        /\ Len(content'[p]) = n
        /\ content'[p][n] = batch
        /\ \A i \in DOMAIN content[p] : i < n /\ i # n /\ content'[p][i] = content[p][i]
    BY SaveAppends
  <1>3. /\ UNCHANGED <<page, queue, isPolling, controller, loop, syncStatus,
                       committedVersion, lastEdit, outcome, edits>>
        /\ \A x : Q!InHandOnly(x)' <=> Q!InHandOnly(x)
    BY DEF tabVars, Q!InHandOnly, Q!InHand
  <1>4. ASSUME NEW k \in Handlers, handler'[k] # S!Idle
        PROVE  handler[k] # S!Idle /\ S!SameRequest(handler[k], handler'[k])
    BY <1>1, <1>4 DEF SaveBy, S!SameRequest
  <1>5. OneVersion'
    BY <1>2 DEF OneVersion, CommitInv
  <1>6. Requested'
    <2> SUFFICES ASSUME NEW k \in Handlers, handler'[k] # S!Idle,
                        NEW x \in ToSet(handler'[k].entries)
                 PROVE  /\ Q!InHandOnly(x)'
                        /\ \A t \in Tabs, l \in Loops :
                             Q!Carries(loop'[t][l].batch, x) => Asks(loop'[t][l], handler'[k])
      BY DEF Requested
    <2> QED
      BY <1>3, <1>4 DEF CommitInv, Requested, Asks, S!SameRequest
  \* What is new in the row is the handler's, and so in hand with its version.
  <1>7. ASSUME NEW x \in batch
        PROVE  /\ x \in ToSet(hd.entries) /\ x \notin Saved(p)
               /\ Q!InHandOnly(x)
               /\ \A t \in Tabs, l \in Loops :
                    Q!Carries(loop[t][l].batch, x) => Asks(loop[t][l], hd)
    BY <1>1 DEF CommitInv, Requested
  <1>8. Kept'
    <2> SUFFICES ASSUME NEW q \in Projects, NEW i \in DOMAIN content'[q],
                        NEW x \in content'[q][i]
                 PROVE  /\ Q!InHandOnly(x)
                        /\ \A t \in Tabs, l \in Loops : Q!Carries(loop[t][l].batch, x) =>
                             Q!InHand(t, l).project = q /\ loop[t][l].details[q] < i
      BY <1>3 DEF Kept, Q!InHand
    <2>1. CASE q = p /\ i = n
      <3>1. /\ Q!InHandOnly(x)
            /\ \A t \in Tabs, l \in Loops : Q!Carries(loop[t][l].batch, x) => Asks(loop[t][l], hd)
        BY <1>2, <1>7, <2>1
      <3>2. hd.clientVersion < n /\ hd.project = p
        BY <1>1
      <3> QED
        BY <2>1, <3>1, <3>2 DEF Asks, Q!InHand
    <2>2. CASE ~ (q = p /\ i = n)
      <3>1. i \in DOMAIN content[q] /\ x \in content[q][i]
        BY <1>2, <2>2
      <3> QED
        BY <3>1 DEF CommitInv, Kept
    <2> QED
      BY <2>1, <2>2
  <1>9. Later'
    <2> SUFFICES ASSUME NEW k \in Handlers, handler[k] # S!Idle,
                        NEW x \in ToSet(handler[k].entries),
                        NEW q \in Projects, NEW i \in DOMAIN content'[q], x \in content'[q][i]
                 PROVE  q = handler[k].project /\ handler[k].clientVersion < i
      BY <1>4 DEF Later, S!SameRequest
    <2>1. CASE q = p /\ i = n
      <3>1. x \in batch /\ x \in ToSet(hd.entries)
        BY <1>2, <1>7, <2>1
      <3>2. SameAttempt(hd, handler[k])
        BY <1>1, <3>1 DEF CommitInv, Alike
      <3> QED
        BY <1>1, <2>1, <3>2 DEF SameAttempt
    <2>2. CASE ~ (q = p /\ i = n)
      <3>1. i \in DOMAIN content[q] /\ x \in content[q][i]
        BY <1>2, <2>2
      <3> QED
        BY <3>1 DEF CommitInv, Later
    <2> QED
      BY <2>1, <2>2
  <1>10. Alike'
    BY <1>4 DEF CommitInv, Alike, S!SameRequest, SameAttempt
  <1>11. Unsaved'
    <2> SUFFICES ASSUME NEW k \in Handlers, S!Patching(handler'[k])
                 PROVE  /\ handler'[k].remaining \subseteq ToSet(handler'[k].entries)
                        /\ handler'[k].clientVersion <= handler'[k].version
                        /\ version'[handler'[k].project] = handler'[k].version =>
                             handler'[k].remaining \cap UNION Range(content'[handler'[k].project]) = {}
      BY DEF Unsaved, S!Matches, Saved
    <2>1. CASE k = h
      <3> DEFINE new == handler'[h]
      <3>1. /\ S!SameRequest(hd, new)
            /\ new.version = hd.version + 1
            /\ new.remaining = hd.remaining \ batch
        BY <2>1 DEF SaveBy, S!Saves, S!Patching
      <3>2. UNION Range(content'[p]) \subseteq Saved(p) \cup batch
        BY <1>2 DEF Range, Saved
      <3> QED
        BY <1>1, <2>1, <3>1, <3>2 DEF S!SameRequest
    <2>2. CASE k # h
      <3>1. handler'[k] = handler[k] /\ S!Patching(handler[k])
        BY <2>2 DEF SaveBy
      <3>2. /\ handler[k].remaining \subseteq ToSet(handler[k].entries)
            /\ handler[k].clientVersion <= handler[k].version
            /\ version[handler[k].project] = handler[k].version =>
                 handler[k].remaining \cap Saved(handler[k].project) = {}
        BY <3>1 DEF CommitInv, Unsaved, S!Matches
      <3>3. /\ handler[k].project \in Projects
            /\ handler[k].version <= version[handler[k].project]
        BY <3>1, Typed DEF CommitInv, S!InvFor, S!VersionAsRead, S!Patching, S!Idle
      <3>4. CASE handler[k].project = p
        <4>1. handler[k].version \in Nat
          BY <3>1, Typed DEF S!Patching, S!Idle, S!Busy
        <4> QED
          BY <1>1, <1>2, <3>1, <3>2, <3>3, <3>4, <4>1
      <3>5. CASE handler[k].project # p
        BY <1>2, <3>1, <3>2, <3>3, <3>5 DEF Saved
      <3> QED
        BY <3>4, <3>5
    <2> QED
      BY <2>1, <2>2
  <1>12. CommittedOnce'
    <2> SUFFICES ASSUME NEW q \in Projects, NEW i \in DOMAIN content'[q],
                        NEW j \in DOMAIN content'[q], i # j,
                        NEW x, x \in content'[q][i], x \in content'[q][j]
                 PROVE  FALSE
      BY DEF CommittedOnce
    <2>1. \A a \in DOMAIN content[p] : x \in content[p][a] => x \notin batch
      BY <1>7 DEF Saved, Range
    <2>2. \A a, b \in DOMAIN content[q] :
            a # b => content[q][a] \cap content[q][b] = {}
      BY DEF CommitInv, CommittedOnce
    <2>3. CASE q # p
      BY <1>2, <2>2, <2>3
    <2>4. CASE q = p
      BY <1>2, <2>1, <2>2, <2>4
    <2> QED
      BY <2>3, <2>4
  <1> QED
    BY <1>5, <1>6, <1>8, <1>9, <1>10, <1>11, <1>12

\* A command that is sent is in the hands of one loop, and of no other.
LEMMA SentWaits ==
  ASSUME Q!PQInv, NEW t \in Tabs, NEW l \in Loops, NEW h \in Handlers, SentBy(t, l, h)
  PROVE  /\ loop'[t][l].pc = "wait"
         /\ loop'[t][l].batch = loop[t][l].batch
         /\ loop'[t][l].details = loop[t][l].details
         /\ \A u \in Tabs, k \in Loops : <<u, k>> # <<t, l>> => loop'[u][k] = loop[u][k]
PROOF
  <1> DEFINE new == [loop[t][l] EXCEPT !.pc = "wait"]
  <1>1. loop \in [Tabs -> [Loops -> Q!LoopStates]]
    BY DEF Q!PQInv, Q!SoundLoops
  <1>2. Q!SetLoop(t, l, new)
    BY DEF SentBy, Q!SendPatch
  <1>3. /\ new.pc = "wait" /\ new.batch = loop[t][l].batch
        /\ new.details = loop[t][l].details
    BY <1>1, Q!PcFields
  <1> HIDE DEF new
  <1>4. /\ loop'[t][l] = new
        /\ \A k \in Loops \ {l} : loop'[t][k] = loop[t][k]
        /\ \A u \in Tabs \ {t} : loop'[u] = loop[u]
    BY <1>1, <1>2, Q!SetAt
  <1> QED
    BY <1>3, <1>4

LEMMA SentInHand ==
  ASSUME Q!OnceInv, NEW t \in Tabs, NEW l \in Loops, loop[t][l].pc = "send"
  PROVE  /\ Q!InHand(t, l).type = "transactions"
         /\ Q!InHand(t, l).project \in Projects
         /\ \A x \in ToSet(Q!InHand(t, l).transactions) :
              /\ x \in Txns
              /\ Q!InHandOnly(x)
              /\ Q!Carries(loop[t][l].batch, x)
              /\ \A u \in Tabs, k \in Loops :
                   Q!Carries(loop[u][k].batch, x) => u = t /\ k = l
PROOF
  <1> DEFINE lp == loop[t][l]
             command == Head(lp.batch)
  <1>1. /\ lp \in Q!SoundLoops /\ \A u \in Tabs : Q!Once(queue[u], loop[u])
    BY DEF Q!OnceInv, Q!PQInv
  <1>2. lp.batch \in Seq(Q!Commands) /\ lp.batch # <<>>
    BY <1>1 DEF Q!SoundLoops, Q!LoopStates
  <1>3. /\ command \in Q!Commands /\ command.type = "transactions"
        /\ 1 \in DOMAIN lp.batch /\ command = lp.batch[1]
    BY <1>1, <1>2 DEF Q!Once, Q!Sends
  <1>4. command.transactions \in Seq(Txns) /\ command.project \in Projects
    BY <1>3 DEF Q!Commands
  <1> SUFFICES ASSUME NEW x \in ToSet(command.transactions)
               PROVE  /\ x \in Txns
                      /\ Q!InHandOnly(x)
                      /\ Q!Carries(lp.batch, x)
                      /\ \A u \in Tabs, k \in Loops :
                           Q!Carries(loop[u][k].batch, x) => u = t /\ k = l
    BY <1>3, <1>4 DEF Q!InHand
  <1>5. x \in Txns
    BY <1>4 DEF ToSet
  <1>6. Q!Carries(lp.batch, x) /\ Q!InCommand(command, x)
    BY <1>3 DEF Q!Carries, Q!InCommand, Q!ToSet, ToSet
  <1>7. /\ \A u \in Tabs : Q!CarriedBy(queue[u], loop[u], x) => u = t
        /\ outcome[x] # "fresh"
    BY <1>5, <1>6 DEF Q!OnceInv, Q!CarriedBy
  <1>8. \A u \in Tabs, k \in Loops : Q!Carries(loop[u][k].batch, x) => u = t /\ k = l
    BY <1>1, <1>5, <1>6, <1>7 DEF Q!Once, Q!CarriedBy
  <1>9. \A u \in Tabs : ~ Q!Carries(queue[u], x)
    BY <1>1, <1>5, <1>6, <1>7 DEF Q!Once, Q!CarriedBy
  <1> QED
    BY <1>5, <1>6, <1>7, <1>8, <1>9 DEF Q!InHandOnly, Q!InHand

LEMMA SendStep ==
  ASSUME CommitInv, HandsHold, NEW t \in Tabs, NEW l \in Loops, NEW h \in Handlers,
         SentBy(t, l, h)
  PROVE  OneVersion' /\ Requested' /\ Kept' /\ Later' /\ Alike' /\ Unsaved' /\ CommittedOnce'
PROOF
  <1> DEFINE lp == loop[t][l]
             command == Q!InHand(t, l)
             new == handler'[h]
  <1>1. /\ lp.pc = "send" /\ Q!OnceInv
        /\ UNCHANGED <<version, content>>
        /\ handler[h] = S!Idle
        /\ \A k \in Handlers \ {h} : handler'[k] = handler[k]
        /\ new.entries = command.transactions
        /\ new.project = command.project
        /\ new.clientVersion = lp.details[command.project]
        /\ new.pc = "arrived"
    BY Typed DEF SentBy, CommitInv, Q!SendPatch, S!Request
  <1>2. /\ loop'[t][l].pc = "wait"
        /\ loop'[t][l].batch = lp.batch /\ loop'[t][l].details = lp.details
    BY SentWaits DEF CommitInv, Q!OnceInv
  <1>3. /\ command.type = "transactions" /\ command.project \in Projects
        /\ command = Head(lp.batch)
        /\ \A x \in ToSet(command.transactions) :
              /\ x \in Txns
              /\ Q!InHandOnly(x)
              /\ Q!Carries(lp.batch, x)
              /\ \A u \in Tabs, k \in Loops :
                   Q!Carries(loop[u][k].batch, x) => u = t /\ k = l
    BY <1>1, SentInHand, Zenon DEF Q!InHand
  <1> HIDE DEF lp, command, new
  <1>4. ASSUME NEW k \in Handlers \ {h}, handler[k] # S!Idle, NEW x \in Txns,
               x \in ToSet(handler[k].entries), x \in ToSet(command.transactions)
        PROVE  SameAttempt(handler[k], new)
    <2>1. Asks(lp, handler[k])
      BY <1>3, <1>4 DEF CommitInv, Requested, lp
    <2> QED
      BY <1>1, <1>3, <2>1 DEF Asks, SameAttempt
  <1>5. Requested'
    <2> SUFFICES ASSUME NEW k \in Handlers, handler'[k] # S!Idle,
                        NEW x \in ToSet(handler'[k].entries)
                 PROVE  /\ Q!InHandOnly(x)'
                        /\ \A u \in Tabs, j \in Loops :
                             Q!Carries(loop'[u][j].batch, x) => Asks(loop'[u][j], handler'[k])
      BY DEF Requested
    <2>1. CASE k = h
      <3>1. x \in ToSet(command.transactions)
        BY <1>1, <2>1 DEF new
      <3>2. Q!InHandOnly(x)' /\ \A u \in Tabs, j \in Loops : Q!StaysInHand(u, j, x)
        BY <1>3, <3>1 DEF HandsHold
      <3>3. \A u \in Tabs, j \in Loops : Q!Carries(loop'[u][j].batch, x) => u = t /\ j = l
        BY <1>3, <3>1, <3>2 DEF Q!StaysInHand
      <3>4. Asks(loop'[t][l], new)
        BY <1>1, <1>2, <1>3 DEF Asks
      <3> QED
        BY <2>1, <3>2, <3>3, <3>4 DEF new
    <2>2. CASE k # h
      <3>1. handler'[k] = handler[k] /\ handler[k] # S!Idle /\ x \in ToSet(handler[k].entries)
        BY <1>1, <2>2
      <3>2. /\ x \in Txns /\ Q!InHandOnly(x)
            /\ \A u \in Tabs, j \in Loops :
                 Q!Carries(loop[u][j].batch, x) => Asks(loop[u][j], handler[k])
        BY <3>1, Typed DEF CommitInv, Requested
      <3>3. Q!InHandOnly(x)' /\ \A u \in Tabs, j \in Loops : Q!StaysInHand(u, j, x)
        BY <3>2 DEF HandsHold
      <3> QED
        BY <3>1, <3>2, <3>3 DEF Q!StaysInHand, Asks
    <2> QED
      BY <2>1, <2>2
  <1>6. Kept'
    BY <1>1, KeptStays DEF Kept
  <1>7. Later'
    <2> SUFFICES ASSUME NEW k \in Handlers, handler'[k] # S!Idle,
                        NEW x \in ToSet(handler'[k].entries),
                        NEW q \in Projects, NEW i \in DOMAIN content[q], x \in content[q][i]
                 PROVE  q = handler'[k].project /\ handler'[k].clientVersion < i
      BY <1>1 DEF Later
    <2>1. CASE k = h
      <3>1. Q!Carries(lp.batch, x)
        BY <1>1, <1>3, <2>1 DEF new
      <3>2. command.project = q /\ lp.details[q] < i
        BY <3>1 DEF CommitInv, Kept, lp, command
      <3> QED
        BY <1>1, <2>1, <3>2 DEF new
    <2>2. CASE k # h
      BY <1>1, <2>2 DEF CommitInv, Later
    <2> QED
      BY <2>1, <2>2
  <1>8. Alike'
    <2> SUFFICES ASSUME NEW j \in Handlers, NEW k \in Handlers,
                        handler'[j] # S!Idle, handler'[k] # S!Idle,
                        NEW x, x \in ToSet(handler'[j].entries), x \in ToSet(handler'[k].entries)
                 PROVE  SameAttempt(handler'[j], handler'[k])
      BY DEF Alike, SameAttempt
    <2>1. CASE j # h /\ k # h
      BY <1>1, <2>1 DEF CommitInv, Alike
    <2>2. CASE j = h /\ k # h
      BY <1>1, <1>3, <1>4, <2>2 DEF new, SameAttempt
    <2>3. CASE j # h /\ k = h
      BY <1>1, <1>3, <1>4, <2>3 DEF new
    <2>4. CASE j = h /\ k = h
      BY <2>4 DEF SameAttempt
    <2> QED
      BY <2>1, <2>2, <2>3, <2>4
  <1>9. Unsaved'
    BY <1>1 DEF CommitInv, Unsaved, S!Patching, S!Matches, Saved, new
  <1> QED
    BY <1>1, <1>5, <1>6, <1>7, <1>8, <1>9 DEF CommitInv, OneVersion, CommittedOnce

-----------------------------------------------------------------------------
(* No transaction is applied twice. *)

LEMMA CommitInit ==
  ASSUME Init
  PROVE  CommitInv
PROOF
  <1>1. Q!PQInit /\ S!BPInit
    BY SamePQInit, SameBPInit DEF Init
  <1>2. Q!OnceInv /\ Q!Stocked
    BY <1>1, Q!OnceInit, Q!StockedInit
  <1>3. {} \in SUBSET AssetTxns
    OBVIOUS
  <1>4. S!InvFor({})
    BY <1>1, <1>3, S!BPInitInv
  <1>5. /\ \A h \in Handlers : handler[h] = S!Idle
        /\ \A p \in Projects : content[p] = <<>> /\ version[p] = 0
    BY <1>1 DEF S!BPInit
  <1>6. \A h \in Handlers : ~ S!Patching(handler[h])
    BY <1>5 DEF S!Patching, S!Idle
  <1> QED
    BY <1>2, <1>4, <1>5, <1>6
       DEF CommitInv, OneVersion, Requested, Kept, Later, Alike, Unsaved, CommittedOnce

LEMMA CommitNext ==
  ASSUME CommitInv, [Next]_vars
  PROVE  CommitInv'
PROOF
  <1>1. Q!OnceInv' /\ Q!Stocked' /\ HandsHold
    BY TabSide
  <1>2. S!InvFor({})'
    BY ServerSide
  <1>3. OneVersion' /\ Requested' /\ Kept' /\ Later' /\ Alike' /\ Unsaved' /\ CommittedOnce'
    BY <1>1, ServerSide, QuietStep, SaveStep, SendStep
  <1> QED
    BY <1>1, <1>2, <1>3 DEF CommitInv

\* The bounds and what the properties remember.
AuxTyped ==
  /\ faults \in 0..MaxFaults
  /\ loads \in 0..MaxLoads
  /\ seen \in [Tabs -> SUBSET Txns]
  /\ basis \in [Txns -> SUBSET Txns]

LEMMA AuxNext ==
  ASSUME CommitInv, AuxTyped, [Next]_vars
  PROVE  AuxTyped'
PROOF
  <1> USE SinglePlayerAssumption
  <1>1. CASE UNCHANGED <<seen, basis>>
    <2> DEFINE Counted == /\ faults' = faults \/ (faults < MaxFaults /\ faults' = faults + 1)
                          /\ loads' = loads \/ (loads < MaxLoads /\ loads' = loads + 1)
    <2>1. ASSUME NEW t \in Tabs, Load(t) PROVE Counted
      BY <2>1 DEF Load
    <2>2. ASSUME NEW t \in Tabs, NEW x \in Txns, Edit(t, x) PROVE Counted
      BY <2>2 DEF Edit
    <2>3. ASSUME NEW t \in Tabs, Act(t) \/ \E l \in Loops : Run(t, l) PROVE Counted
      BY <2>3 DEF Act, Run, auxVars
    <2>4. ASSUME NEW t \in Tabs, Reload(t) PROVE Counted
      BY <2>4 DEF Reload
    <2>5. ASSUME NEW t \in Tabs, NEW l \in Loops, NEW h \in Handlers,
                 Send(t, l, h) \/ Answer(t, l, h) \/ Break(t, l, h)
          PROVE  Counted
      BY <2>5 DEF Send, Answer, Break, auxVars
    <2>6. ASSUME NEW h \in Handlers, Serve(h) \/ Falter(h) PROVE Counted
      BY <2>6 DEF Serve, Falter, auxVars
    <2>7. ASSUME UNCHANGED vars PROVE Counted
      BY <2>7 DEF vars, auxVars
    <2> HIDE DEF Counted
    <2>8. Counted
      BY <2>1, <2>2, <2>3, <2>4, <2>5, <2>6, <2>7, Zenon DEF Next
    <2> QED
      BY <1>1, <2>8 DEF AuxTyped, Counted
  <1>2. ASSUME NEW t \in Tabs, Load(t)
        PROVE  AuxTyped'
    <2>1. page[t].project \in Projects
      BY <1>2, SameLoadData DEF Load, Q!LoadData, CommitInv, Q!OnceInv, Q!PQInv, Q!SoundPages
    <2>2. Saved(page[t].project) \subseteq Txns
      BY <2>1, Typed DEF Saved, Range
    <2> QED
      BY <1>2, <2>2 DEF Load, AuxTyped
  <1>3. ASSUME NEW t \in Tabs, NEW x \in Txns, Edit(t, x)
        PROVE  AuxTyped'
    BY <1>3 DEF Edit, AuxTyped
  <1>4. ASSUME NEW t \in Tabs, Reload(t)
        PROVE  AuxTyped'
    BY <1>4 DEF Reload, AuxTyped
  <1> QED
    BY <1>1, <1>2, <1>3, <1>4 DEF vars, auxVars, Next, Act, Run, Send, Answer, Break, Serve, Falter

\* Tabs, server and bounds stay well typed.
THEOREM TypeCorrect == Spec => []TypeOK
PROOF
  <1>1. Init => CommitInv /\ AuxTyped
    BY CommitInit, SinglePlayerAssumption DEF Init, AuxTyped
  <1>2. CommitInv /\ AuxTyped /\ [Next]_vars => (CommitInv /\ AuxTyped)'
    BY CommitNext, AuxNext
  <1>3. CommitInv /\ AuxTyped => TypeOK
    BY SamePQTypeOK, SameBPTypeOK
       DEF CommitInv, Q!OnceInv, Q!PQInv, S!InvFor, AuxTyped, TypeOK
  <1> QED
    BY <1>1, <1>2, <1>3, PTL DEF Spec

\* Whatever is retried, reloaded, answered late or tried by several handlers at once,
\* no transaction is applied to a build twice.
THEOREM AppliedOnce == Spec => []CommittedOnce
PROOF
  <1>1. CommitInv => CommittedOnce
    BY DEF CommitInv
  <1> QED
    BY <1>1, CommitInit, CommitNext, PTL DEF Spec

\* A request for the row's version brings nothing the row has: a transaction is sent
\* again with the version it was first sent with, and what saved it left that behind.
THEOREM TabsAskForNew == Spec => []Server!AskedForNew
PROOF
  <1>1. ASSUME CommitInv, NEW h \in Handlers, handler[h] # S!Idle,
               handler[h].clientVersion = version[handler[h].project],
               NEW n \in DOMAIN content[handler[h].project],
               NEW x \in ToSet(handler[h].entries), x \in content[handler[h].project][n]
        PROVE  FALSE
    <2>1. PICK p \in Projects : handler[h].project = p
      BY <1>1, Typed
    <2>2. handler[h].clientVersion < n
      BY <1>1, <2>1 DEF CommitInv, Later
    <2>3. n <= version[p] /\ version[p] \in Nat /\ n \in Nat
      BY <1>1, <2>1, Typed DEF CommitInv, OneVersion
    <2> QED
      BY <1>1, <2>1, <2>2, <2>3
  <1>2. CommitInv => Server!AskedForNew
    BY <1>1 DEF Server!AskedForNew, Server!Idle, S!Idle, ToSet, Server!ToSet
  <1> QED
    BY <1>2, CommitInit, CommitNext, PTL DEF Spec

-----------------------------------------------------------------------------
(* The connections.  A loop that waits has at most one, and it is for what *)
(* the loop has in hand; who does not wait has none.                       *)

Connections ==
  \A t \in Tabs, l \in Loops, h \in Handlers : Connected(t, l, h) =>
    /\ loop[t][l].pc = "wait"
    /\ Asks(loop[t][l], handler[h])
    /\ \A k \in Handlers : Connected(t, l, k) => k = h

LEMMA LoopsAreClients ==
  \A t \in Tabs, l \in Loops : <<t, l>> # NoClient
PROOF BY SinglePlayerAssumption

\* A step that makes no request makes no connection.
LEMMA NoNewConnection ==
  ASSUME CommitInv, NEW h \in Handlers, Quiet \/ \E k \in Handlers : SaveBy(k),
         NEW t \in Tabs, NEW l \in Loops, Connected(t, l, h)'
  PROVE  Connected(t, l, h) /\ S!SameRequest(handler[h], handler'[h])
PROOF
  <1>1. handler'[h] # S!Idle /\ handler'[h].client = <<t, l>> /\ <<t, l>> # NoClient
    BY SinglePlayerAssumption DEF Connected, Server!Idle, S!Idle
  <1>2. CASE Quiet
    BY <1>1, <1>2, Typed DEF Quiet, S!Calm, S!SameRequest, Connected, Server!Idle, S!Idle
  <1>3. ASSUME NEW k \in Handlers, SaveBy(k)
        PROVE  Connected(t, l, h) /\ S!SameRequest(handler[h], handler'[h])
    BY <1>1, <1>3, Typed DEF SaveBy, S!SameRequest, Connected, Server!Idle, S!Idle
  <1> QED
    BY <1>2, <1>3

\* Who waits goes on waiting for the same, but for what the three steps below do.
LEMMA WaitingLoop ==
  ASSUME Q!PQInv, NEW t \in Tabs, NEW l \in Loops, loop[t][l].pc = "wait",
         \/ \E u \in Tabs :
              \/ \E p \in Projects : Q!OpenProject(u, p)
              \/ \E v : Q!LoadData(u, v)
              \/ Q!EnqueueProjectDetails(u)
              \/ \E x \in Txns : Q!SendTransaction(u, x)
              \/ Q!CloseDialog(u)
              \/ Q!Unmount(u)
              \/ \E k \in Loops : Q!Step(u, k) \/ Q!SendPatch(u, k)
         \/ \E u \in Tabs \ {t} : Q!Reload(u)
         \/ \E u \in Tabs, k \in Loops : <<u, k>> # <<t, l>> /\
              (Q!NetworkError(u, k) \/ \E result : Q!Receive(u, k, result))
  PROVE  /\ loop'[t][l].pc = "wait"
         /\ loop'[t][l].batch = loop[t][l].batch
         /\ loop'[t][l].details = loop[t][l].details
PROOF
  <1>1. loop \in [Tabs -> [Loops -> Q!SoundLoops]] /\ loop[t][l] \in Q!LoopStates
    BY DEF Q!PQInv, Q!SoundLoops
  <1>2. ASSUME NEW u \in Tabs, Q!StopPolling(u)
        PROVE  /\ loop'[t][l].pc = "wait"
               /\ loop'[t][l].batch = loop[t][l].batch
               /\ loop'[t][l].details = loop[t][l].details
    BY <1>1, <1>2 DEF Q!StopPolling, Q!LoopStates
  <1>3. ASSUME NEW u \in Tabs, NEW k \in Loops, NEW lp, Q!SetLoop(u, k, lp), <<u, k>> # <<t, l>>
        PROVE  loop'[t][l] = loop[t][l]
    BY <1>1, <1>3 DEF Q!SetLoop
  <1>4. ASSUME NEW u \in Tabs, NEW k \in Loops, Q!Step(u, k) \/ Q!SendPatch(u, k)
        PROVE  loop'[t][l] = loop[t][l]
    <2>1. <<u, k>> # <<t, l>>
      <3>1. loop[u][k].pc # "wait"
        BY <1>4, Zenon DEF Q!Step, Q!Poll, Q!NoticeAbort, Q!TakeDetails, Q!TakeUnknown,
                    Q!TakeTransactions, Q!SendPatch
      <3> QED
        BY <3>1, Zenon
    <2>2. \E lp : Q!SetLoop(u, k, lp)
      BY <1>4, Zenon DEF Q!Step, Q!Poll, Q!NoticeAbort, Q!TakeDetails, Q!TakeUnknown,
                  Q!TakeTransactions, Q!SendPatch, Q!Halt
    <2> QED
      BY <1>3, <2>1, <2>2
  <1>5. ASSUME NEW u \in Tabs, NEW k \in Loops, <<u, k>> # <<t, l>>,
               Q!NetworkError(u, k) \/ \E result : Q!Receive(u, k, result)
        PROVE  loop'[t][l] = loop[t][l]
    <2>1. \E lp : Q!SetLoop(u, k, lp)
      BY <1>5, Zenon DEF Q!NetworkError, Q!Receive, Q!ReceiveOk, Q!ReceiveRefusal,
                  Q!ReceiveError, Q!RetryLater, Q!Halt
    <2> QED
      BY <1>3, <1>5, <2>1
  <1>6. ASSUME NEW u \in Tabs, Q!EnqueueProjectDetails(u)
        PROVE  loop'[t][l] = loop[t][l]
    <2>1. CASE UNCHANGED loop
      BY <2>1
    <2>2. CASE ~ UNCHANGED loop
      <3>1. PICK k \in Loops : loop[u][k].pc = "off" /\ \E lp : Q!SetLoop(u, k, lp)
        BY <1>6, <2>2, Zenon DEF Q!EnqueueProjectDetails
      <3>2. PICK lp : Q!SetLoop(u, k, lp)
        BY <3>1
      <3>3. <<u, k>> # <<t, l>>
        BY <3>1
      <3> QED
        BY <1>3, <3>2, <3>3
    <2> QED
      BY <2>1, <2>2
  <1>7. ASSUME NEW u \in Tabs \ {t}, Q!Reload(u)
        PROVE  loop'[t][l] = loop[t][l]
    BY <1>1, <1>7 DEF Q!Reload
  <1> QED
    BY <1>2, <1>4, <1>5, <1>6, <1>7
       DEF Q!OpenProject, Q!LoadData, Q!SendTransaction, Q!CloseDialog, Q!Unmount, Q!queueVars

\* It is enough that who is still connected goes on waiting.
LEMMA ConnectionsKept ==
  ASSUME CommitInv, Connections, Quiet \/ \E k \in Handlers : SaveBy(k),
         \A t \in Tabs, l \in Loops, h \in Handlers :
           Connected(t, l, h)' /\ Connected(t, l, h) /\ loop[t][l].pc = "wait" =>
             /\ loop'[t][l].pc = "wait"
             /\ loop'[t][l].batch = loop[t][l].batch
             /\ loop'[t][l].details = loop[t][l].details
  PROVE  Connections'
PROOF
  <1> SUFFICES ASSUME NEW t \in Tabs, NEW l \in Loops, NEW h \in Handlers, Connected(t, l, h)'
               PROVE  /\ loop'[t][l].pc = "wait"
                      /\ Asks(loop'[t][l], handler'[h])
                      /\ \A k \in Handlers : Connected(t, l, k)' => k = h
    BY DEF Connections
  <1>1. Connected(t, l, h) /\ S!SameRequest(handler[h], handler'[h])
    BY NoNewConnection
  <1>2. /\ loop[t][l].pc = "wait" /\ Asks(loop[t][l], handler[h])
        /\ \A k \in Handlers : Connected(t, l, k) => k = h
    BY <1>1 DEF Connections
  <1>3. /\ loop'[t][l].pc = "wait"
        /\ loop'[t][l].batch = loop[t][l].batch
        /\ loop'[t][l].details = loop[t][l].details
    BY <1>1, <1>2
  <1>4. \A k \in Handlers : Connected(t, l, k)' => k = h
    BY <1>2, NoNewConnection
  <1> QED
    BY <1>1, <1>2, <1>3, <1>4 DEF Asks, S!SameRequest

LEMMA ConnectionsNext ==
  ASSUME CommitInv, Connections, [Next]_vars
  PROVE  Connections'
PROOF
  <1>1. Q!PQInv
    BY DEF CommitInv, Q!OnceInv
  <1>2. CASE UNCHANGED vars
    BY <1>2 DEF vars, tabVars, serverVars, Connections, Connected
  <1>3. ASSUME NEW u \in Tabs, Load(u) \/ (\E x \in Txns : Edit(u, x)) \/ Act(u)
        PROVE  Connections'
    <2>1. Quiet
      BY <1>3, QuietSide DEF Load, Edit, Act
    <2>2. \/ \E p \in Projects : Q!OpenProject(u, p)
          \/ \E v : Q!LoadData(u, v)
          \/ Q!EnqueueProjectDetails(u)
          \/ \E x \in Txns : Q!SendTransaction(u, x)
          \/ Q!CloseDialog(u)
          \/ Q!Unmount(u)
      BY <1>3, SameLoadData, SameSendTransaction, SameOpenProject, SameEnqueueProjectDetails,
         SameCloseDialog, SameUnmount DEF Load, Edit, Act
    <2> QED
      BY <1>1, <2>1, <2>2, WaitingLoop, ConnectionsKept
  <1>4. ASSUME NEW u \in Tabs, NEW j \in Loops, Run(u, j)
        PROVE  Connections'
    <2>1. Quiet
      BY <1>4, QuietSide DEF Run
    <2>2. Q!Step(u, j)
      BY <1>4, SameStep DEF Run
    <2> QED
      BY <1>1, <2>1, <2>2, WaitingLoop, ConnectionsKept
  <1>5. ASSUME NEW u \in Tabs, Reload(u)
        PROVE  Connections'
    <2>1. Quiet
      BY <1>5, QuietSide
    <2>2. Q!Reload(u)
      BY <1>5, SameReload DEF Reload
    <2>3. ASSUME NEW l \in Loops, NEW h \in Handlers, Connected(u, l, h)', Connected(u, l, h)
          PROVE  FALSE
      <3>1. /\ handler[h] # Server!Idle /\ handler[h].client = <<u, l>>
            /\ handler'[h].client = <<u, l>>
        BY <2>3 DEF Connected
      <3>2. handler'[h] = [handler[h] EXCEPT !.client = NoClient]
        BY <1>5, <3>1 DEF Reload
      <3>3. handler[h] \in S!Busy
        BY <3>1, Typed DEF Server!Idle, S!Idle
      <3>4. handler'[h].client = NoClient
        BY <3>2, <3>3 DEF S!Busy
      <3> QED
        BY <3>1, <3>4, LoopsAreClients
    <2>4. \A t \in Tabs \ {u}, l \in Loops : loop[t][l].pc = "wait" =>
            /\ loop'[t][l].pc = "wait"
            /\ loop'[t][l].batch = loop[t][l].batch
            /\ loop'[t][l].details = loop[t][l].details
      BY <1>1, <2>2, WaitingLoop
    <2> QED
      BY <2>1, <2>3, <2>4, ConnectionsKept
  <1>6. ASSUME NEW u \in Tabs, NEW j \in Loops, NEW k \in Handlers, Send(u, j, k)
        PROVE  Connections'
    <2> DEFINE lp == loop[u][j]
               command == Q!InHand(u, j)
    <2>1. SentBy(u, j, k)
      BY <1>6, SendMeans
    <2>2. /\ lp.pc = "send"
          /\ handler[k] = S!Idle
          /\ \A h \in Handlers \ {k} : handler'[h] = handler[h]
          /\ handler'[k].client = <<u, j>>
          /\ handler'[k].entries = command.transactions
          /\ handler'[k].project = command.project
          /\ handler'[k].clientVersion = lp.details[command.project]
          /\ handler'[k].pc = "arrived"
      BY <2>1, Typed DEF SentBy, Q!SendPatch, S!Request
    <2>3. /\ loop'[u][j].pc = "wait"
          /\ loop'[u][j].batch = lp.batch /\ loop'[u][j].details = lp.details
          /\ \A t \in Tabs, l \in Loops : <<t, l>> # <<u, j>> => loop'[t][l] = loop[t][l]
      BY <1>1, <2>1, SentWaits
    <2>4. command.type = "transactions" /\ command = Head(lp.batch)
      BY <2>2, SentInHand DEF CommitInv, Q!InHand
    <2> HIDE DEF lp, command
    <2>5. \A h \in Handlers : ~ Connected(u, j, h)
      BY <2>2 DEF Connections, lp
    <2> SUFFICES ASSUME NEW t \in Tabs, NEW l \in Loops, NEW h \in Handlers, Connected(t, l, h)'
                 PROVE  /\ loop'[t][l].pc = "wait"
                        /\ Asks(loop'[t][l], handler'[h])
                        /\ \A i \in Handlers : Connected(t, l, i)' => i = h
      BY DEF Connections
    <2>6. CASE h = k
      <3>1. t = u /\ l = j
        BY <2>2, <2>6 DEF Connected
      <3>2. Asks(loop'[u][j], handler'[k])
        BY <2>2, <2>3, <2>4 DEF Asks
      <3>3. \A i \in Handlers : Connected(u, j, i)' => i = k
        BY <2>2, <2>5 DEF Connected
      <3> QED
        BY <2>3, <2>6, <3>1, <3>2, <3>3
    <2>7. CASE h # k
      <3>1. handler'[h] = handler[h] /\ Connected(t, l, h)
        BY <2>2, <2>7 DEF Connected
      <3>2. <<t, l>> # <<u, j>>
        BY <2>5, <3>1
      <3>3. \A i \in Handlers : Connected(t, l, i)' => Connected(t, l, i)
        BY <2>2, <3>2 DEF Connected
      <3> QED
        BY <2>3, <3>1, <3>2, <3>3 DEF Connections
    <2> QED
      BY <2>6, <2>7
  <1>7. ASSUME NEW u \in Tabs, NEW j \in Loops, NEW k \in Handlers,
               Answer(u, j, k) \/ Break(u, j, k)
        PROVE  Connections'
    <2>1. Quiet /\ Connected(u, j, k)
      BY <1>7, QuietSide DEF Answer, Break
    <2>2. Q!NetworkError(u, j) \/ \E result : Q!Receive(u, j, result)
      BY <1>7, SameNetworkError, SameReceive DEF Answer, Break
    <2>3. ~ Connected(u, j, k)'
      <3>1. S!Respond(k) \/ S!Disconnect(k)
        BY <1>7, SameRespond, SameDisconnect DEF Answer, Break
      <3>2. handler[k] \in S!Busy
        BY <2>1, Typed DEF Connected, Server!Idle, S!Idle
      <3>3. handler'[k] = S!Idle \/ handler'[k].client = NoClient
        BY <3>1, <3>2, Typed DEF S!Respond, S!Disconnect, S!Busy
      <3> QED
        BY <3>3, LoopsAreClients DEF Connected, Server!Idle, S!Idle
    <2>4. \A t \in Tabs, l \in Loops, h \in Handlers :
            Connected(t, l, h)' /\ Connected(t, l, h) => <<t, l>> # <<u, j>>
      BY <2>1, <2>3 DEF Connections
    <2>5. \A t \in Tabs, l \in Loops : loop[t][l].pc = "wait" /\ <<t, l>> # <<u, j>> =>
            /\ loop'[t][l].pc = "wait"
            /\ loop'[t][l].batch = loop[t][l].batch
            /\ loop'[t][l].details = loop[t][l].details
      BY <1>1, <2>2, WaitingLoop
    <2> QED
      BY <2>1, <2>4, <2>5, ConnectionsKept
  <1>8. ASSUME NEW k \in Handlers, Serve(k) \/ Falter(k)
        PROVE  Connections'
    <2>1. UNCHANGED loop /\ (Quiet \/ SaveBy(k))
      BY <1>8, OwnSide DEF tabVars
    <2> QED
      BY <2>1, ConnectionsKept
  <1> QED
    BY <1>2, <1>3, <1>4, <1>5, <1>6, <1>7, <1>8 DEF Next

-----------------------------------------------------------------------------
(* Answers tell the truth, if no entry of a request can fail by itself.  (If *)
(* one can, a batch may be saved in part and its retry answered ok.)          *)

Plain == Cyclic = {} /\ Restricted = {}

\* A set, what the row has, has all of these entries or none.
Whole(es, has) == ToSet(es) \cap has # {} => ToSet(es) \subseteq has

\* What the row has after a step.
SavedAfter(p) == UNION Range(content'[p])

\* So it is with every request, and with what loops have in hand; and handlers
\* save all of a request at once.
AllOrNothing ==
  /\ \A h \in Handlers : handler[h] # S!Idle => Whole(handler[h].entries, Saved(handler[h].project))
  /\ \A t \in Tabs, l \in Loops : loop[t][l].pc \in {"send", "wait"} =>
       Whole(Q!InHand(t, l).transactions, Saved(Q!InHand(t, l).project))
  /\ \A h \in Handlers : S!Patching(handler[h]) =>
       /\ handler[h].mode = "batch"
       /\ handler[h].remaining = ToSet(handler[h].entries)
       /\ handler[h].failed = {}

\* An ok means that the row has the request.
TrueAnswers ==
  \A h \in Handlers : handler[h].pc = "replied" =>
    /\ handler[h].result.status # "partial"
    /\ handler[h].result.status = "ok" =>
         ToSet(handler[h].entries) \subseteq Saved(handler[h].project)

LastIsSaved ==
  \A p \in Projects : lastTransactionId[p] \in Txns => lastTransactionId[p] \in Saved(p)

SavedInv ==
  /\ CommitInv
  /\ Connections
  /\ AllOrNothing
  /\ TrueAnswers
  /\ LastIsSaved
  /\ SavedIsCommitted

LEMMA InSaved ==
  \A p, x : /\ x \in Saved(p) <=> \E i \in DOMAIN content[p] : x \in content[p][i]
            /\ x \in SavedAfter(p) <=> \E i \in DOMAIN content'[p] : x \in content'[p][i]
PROOF BY DEF Saved, SavedAfter, Range

LEMMA SaveAdds ==
  ASSUME CommitInv, NEW h \in Handlers, SaveBy(h)
  PROVE  /\ SavedAfter(handler[h].project) = Saved(handler[h].project) \cup S!Batch(handler[h])
         /\ \A q \in Projects \ {handler[h].project} : SavedAfter(q) = Saved(q)
PROOF
  <1> DEFINE p == handler[h].project
  <1>1. PICK n : /\ \A q \in Projects \ {p} : content'[q] = content[q]
                 /\ DOMAIN content'[p] = DOMAIN content[p] \cup {n}
                 /\ content'[p][n] = S!Batch(handler[h])
                 /\ \A i \in DOMAIN content[p] : content'[p][i] = content[p][i]
    BY SaveAppends
  <1>2. \A x : x \in SavedAfter(p) <=> x \in Saved(p) \/ x \in S!Batch(handler[h])
    BY <1>1, InSaved
  <1>3. \A q \in Projects \ {p} : SavedAfter(q) = Saved(q)
    BY <1>1 DEF Saved, SavedAfter
  <1> QED
    BY <1>2, <1>3

\* The row only grows, by what a handler saves.
LEMMA SavedGrows ==
  ASSUME CommitInv, [Next]_vars
  PROVE  \A p \in Projects : Saved(p) \subseteq SavedAfter(p)
PROOF
  <1>1. ASSUME NEW h \in Handlers, SaveBy(h), NEW p \in Projects
        PROVE  Saved(p) \subseteq SavedAfter(p)
    BY <1>1, SaveAdds
  <1>2. ASSUME UNCHANGED content, NEW p \in Projects
        PROVE  Saved(p) \subseteq SavedAfter(p)
    BY <1>2 DEF SavedAfter, Saved
  <1> QED
    BY <1>1, <1>2, ServerSide DEF Quiet, SentBy, S!Request

\* What a loop sends is in its batch.
LEMMA HeadCarried ==
  ASSUME NEW lp \in Q!SoundLoops, lp.pc \in {"send", "wait"}, Q!Sends(lp),
         NEW x \in ToSet(Head(lp.batch).transactions)
  PROVE  Q!Carries(lp.batch, x)
PROOF BY Q!HeadCarried DEF ToSet, Q!ToSet

LEMMA SoundSends ==
  ASSUME Q!OnceInv, NEW t \in Tabs, NEW l \in Loops
  PROVE  loop[t][l] \in Q!SoundLoops /\ Q!Sends(loop[t][l])
PROOF BY DEF Q!OnceInv, Q!PQInv, Q!Once

\* A handler's answer stays true, and a new one is.
LEMMA TellsTheTruth ==
  ASSUME Plain, SavedInv, [Next]_vars, NEW h \in Handlers,
         handler[h] \in S!Busy, handler'[h].pc = "replied",
         S!SameRequest(handler[h], handler'[h]),
         S!Tells(handler[h], handler'[h])
  PROVE  /\ handler'[h].result.status # "partial"
         /\ handler'[h].result.status = "ok" =>
              ToSet(handler'[h].entries) \subseteq SavedAfter(handler'[h].project)
PROOF
  <1> DEFINE hd == handler[h]
             new == handler'[h]
             p == hd.project
  <1>1. /\ p \in Projects /\ ToSet(hd.entries) \subseteq Txns /\ hd # S!Idle
        /\ new.entries = hd.entries /\ new.project = p
        /\ Saved(p) \subseteq SavedAfter(p)
        /\ content \in [Projects -> Seq(SUBSET Txns)]
    BY Typed, SavedGrows DEF SavedInv, S!SameRequest
  <1>2. SUFFICES ASSUME new.result.status \in {"ok", "partial"}
                 PROVE  new.result.status = "ok" /\ ToSet(hd.entries) \subseteq SavedAfter(p)
    BY <1>1
  <1>3. CASE hd.pc = "replied" /\ new.result = hd.result
    BY <1>1, <1>2, <1>3 DEF SavedAfter, Saved, SavedInv, TrueAnswers
  <1>4. CASE /\ new.result.status = "ok"
             /\ lastTransactionId[p] \in S!ToSet(hd.entries)
    <2>1. lastTransactionId[p] \in ToSet(hd.entries)
      BY <1>4 DEF S!ToSet, ToSet
    <2>2. lastTransactionId[p] \in Saved(p)
      BY <1>1, <2>1 DEF SavedAfter, Saved, SavedInv, LastIsSaved
    <2>3. Whole(hd.entries, Saved(p))
      BY <1>1 DEF SavedAfter, Saved, SavedInv, AllOrNothing
    <2> QED
      BY <1>1, <1>4, <2>1, <2>2, <2>3 DEF Whole
  <1>5. CASE /\ S!Saves(hd, new)
             /\ hd.remaining \subseteq S!Batch(hd)
             /\ new.result.status = S!StatusFor(hd.failed)
    <2>1. /\ S!Patching(hd) /\ content' = [content EXCEPT ![p] = Append(hd.content, S!Batch(hd))]
      BY <1>5 DEF S!Saves, S!Patching, S!WriteRow
    <2>2. hd.remaining = ToSet(hd.entries) /\ hd.failed = {}
      BY <2>1 DEF SavedAfter, Saved, SavedInv, AllOrNothing
    <2>3. new.result.status = "ok"
      BY <1>5, <2>2 DEF S!StatusFor
    <2>4. S!Batch(hd) \subseteq SavedAfter(p)
      <3> DEFINE c == hd.content
                 b == S!Batch(hd)
      <3>1. c \in Seq(SUBSET Txns)
        BY DEF S!Busy
      <3>2. content'[p] = Append(c, b)
        BY <1>1, <2>1
      <3> HIDE DEF b, c
      <3>3. Len(c) + 1 \in DOMAIN content'[p] /\ content'[p][Len(c) + 1] = b
        BY <3>1, <3>2
      <3> QED
        BY <3>3 DEF SavedAfter, Saved, Range, b
    <2> QED
      BY <1>5, <2>2, <2>3, <2>4
  <1>6. S!ToSet(hd.entries) \cap (Cyclic \cup Restricted) = {}
    BY DEF Plain
  <1> QED
    BY <1>2, <1>3, <1>4, <1>5, <1>6 DEF S!Tells

\* What a loop has in hand, and the row has, it had in hand and stays whole.
LEMMA LoopsStayWhole ==
  ASSUME SavedInv, [Next]_vars, UNCHANGED content,
         NEW t \in Tabs, NEW l \in Loops, loop'[t][l].pc \in {"send", "wait"}
  PROVE  Whole(Head(loop'[t][l].batch).transactions, SavedAfter(Head(loop'[t][l].batch).project))
PROOF
  <1> DEFINE command == Head(loop'[t][l].batch)
  <1>1. Q!OnceInv' /\ HandsHold
    BY TabSide DEF SavedInv
  <1>2. loop'[t][l] \in Q!SoundLoops /\ Q!Sends(loop'[t][l])
    BY <1>1 DEF Q!OnceInv, Q!PQInv, Q!Once
  <1>3. command.project \in Projects
    <2>1. loop'[t][l].batch \in Seq(Q!Commands) /\ loop'[t][l].batch # <<>>
      BY <1>2 DEF Q!SoundLoops, Q!LoopStates
    <2>2. command \in Q!Commands
      BY <2>1
    <2> QED
      BY <2>2 DEF Q!Commands
  <1> SUFFICES ASSUME NEW x, x \in ToSet(command.transactions), x \in Saved(command.project)
               PROVE  ToSet(command.transactions) \subseteq Saved(command.project)
    BY DEF SavedAfter, Whole, Saved, Q!InHand
  <1>4. Q!Carries(loop'[t][l].batch, x)
    BY <1>2, HeadCarried
  <1>5. x \in Txns /\ Q!InHandOnly(x)
    BY <1>3, Typed DEF SavedAfter, Saved, Range, SavedInv, CommitInv, Kept
  <1>6. Q!StaysInHand(t, l, x)
    BY <1>1, <1>5 DEF HandsHold
  <1>7. /\ loop'[t][l].batch = loop[t][l].batch
        /\ loop[t][l].pc \in {"send", "wait"}
    BY <1>4, <1>5, <1>6 DEF Q!StaysInHand, Q!InHandOnly
  <1> QED
    BY <1>7 DEF SavedAfter, Saved, SavedInv, AllOrNothing, Whole, Q!InHand

LEMMA WholeQuietly ==
  ASSUME Plain, SavedInv, [Next]_vars, Quiet
  PROVE  AllOrNothing' /\ TrueAnswers' /\ LastIsSaved'
PROOF
  <1>1. UNCHANGED <<version, lastTransactionId, content>> /\ CommitInv
    BY DEF Quiet, SavedInv
  <1>2. ASSUME NEW h \in Handlers, handler'[h] # S!Idle
        PROVE  /\ handler[h] # S!Idle /\ handler[h] \in S!Busy
               /\ S!SameRequest(handler[h], handler'[h])
               /\ S!Tells(handler[h], handler'[h])
               /\ S!Patching(handler'[h]) =>
                    S!ProceedsTo(handler[h], handler'[h]) \/ S!Starts(handler[h], handler'[h])
    BY <1>1, <1>2, Typed DEF Quiet, S!Calm
  <1>3. ASSUME NEW h \in Handlers, handler'[h] # S!Idle
        PROVE  Whole(handler'[h].entries, SavedAfter(handler'[h].project))
    BY <1>1, <1>2, <1>3 DEF SavedAfter, SavedInv, AllOrNothing, Whole, Saved, S!SameRequest
  <1>4. ASSUME NEW h \in Handlers, S!Patching(handler'[h])
        PROVE  /\ handler'[h].mode = "batch"
               /\ handler'[h].remaining = ToSet(handler'[h].entries)
               /\ handler'[h].failed = {}
    <2>1. /\ S!SameRequest(handler[h], handler'[h])
          /\ S!ProceedsTo(handler[h], handler'[h]) \/ S!Starts(handler[h], handler'[h])
      BY <1>2, <1>4 DEF S!Patching, S!Idle
    <2>2. CASE S!ProceedsTo(handler[h], handler'[h])
      BY <2>1, <2>2 DEF SavedAfter, Saved, SavedInv, AllOrNothing, S!ProceedsTo, S!SameRequest
    <2>3. CASE S!Starts(handler[h], handler'[h])
      <3>1. S!ToSet(handler[h].entries) = ToSet(handler[h].entries)
        BY DEF S!ToSet, ToSet
      <3> QED
        BY <2>1, <2>3, <3>1 DEF Plain, S!Starts, S!SameRequest
    <2> QED
      BY <2>1, <2>2, <2>3
  <1>5. AllOrNothing'
    BY <1>1, <1>3, <1>4, LoopsStayWhole DEF SavedAfter, Saved, AllOrNothing, Q!InHand
  <1>6. TrueAnswers'
    <2> SUFFICES ASSUME NEW h \in Handlers, handler'[h].pc = "replied"
                 PROVE  /\ handler'[h].result.status # "partial"
                        /\ handler'[h].result.status = "ok" =>
                             ToSet(handler'[h].entries) \subseteq SavedAfter(handler'[h].project)
      BY DEF SavedAfter, Saved, TrueAnswers
    <2>1. handler'[h] # S!Idle
      BY DEF S!Idle
    <2> QED
      BY <1>2, <2>1, TellsTheTruth
  <1> QED
    BY <1>1, <1>5, <1>6 DEF SavedAfter, SavedInv, LastIsSaved, Saved

LEMMA WholeSave ==
  ASSUME Plain, SavedInv, [Next]_vars, UNCHANGED tabVars, NEW h \in Handlers, SaveBy(h)
  PROVE  AllOrNothing' /\ TrueAnswers' /\ LastIsSaved'
PROOF
  <1> DEFINE hd == handler[h]
             p == hd.project
             es == ToSet(hd.entries)
  <1>1. /\ CommitInv /\ hd # S!Idle /\ hd \in S!Busy
        /\ S!Patching(hd) /\ p \in Projects
    BY SaveEffect, Typed DEF SavedInv, SaveBy, S!Saves, S!Patching
  <1>2. /\ hd.mode = "batch" /\ hd.remaining = es /\ S!Batch(hd) = es
    BY <1>1 DEF SavedAfter, Saved, SavedInv, AllOrNothing, S!Batch
  <1>3. /\ SavedAfter(p) = Saved(p) \cup es
        /\ \A q \in Projects \ {p} : SavedAfter(q) = Saved(q)
    BY <1>1, <1>2, SaveAdds
  <1>4. ASSUME NEW k \in Handlers, handler'[k] # S!Idle
        PROVE  /\ handler[k] # S!Idle /\ handler[k] \in S!Busy
               /\ handler[k].project \in Projects
               /\ S!SameRequest(handler[k], handler'[k])
    BY <1>1, <1>4, Typed DEF SaveBy, S!SameRequest
  <1>5. ASSUME NEW k \in Handlers, handler'[k] # S!Idle
        PROVE  Whole(handler'[k].entries, SavedAfter(handler'[k].project))
    <2>1. /\ Whole(handler[k].entries, Saved(handler[k].project))
          /\ handler[k].project \in Projects
          /\ handler'[k].entries = handler[k].entries
          /\ handler'[k].project = handler[k].project
      BY <1>4, <1>5 DEF SavedAfter, Saved, SavedInv, AllOrNothing, S!SameRequest
    <2>2. es \cap ToSet(handler[k].entries) # {} => SameAttempt(hd, handler[k])
      BY <1>1, <1>4, <1>5 DEF CommitInv, Alike
    <2> QED
      BY <1>3, <2>1, <2>2 DEF Whole, SameAttempt
  <1>6. ASSUME NEW t \in Tabs, NEW l \in Loops, loop[t][l].pc \in {"send", "wait"}
        PROVE  Whole(Head(loop'[t][l].batch).transactions, SavedAfter(Head(loop'[t][l].batch).project))
    <2> DEFINE command == Q!InHand(t, l)
    <2>1. /\ loop[t][l] \in Q!SoundLoops /\ Q!Sends(loop[t][l])
          /\ Whole(command.transactions, Saved(command.project))
      BY <1>1, <1>6, SoundSends DEF SavedAfter, Saved, SavedInv, CommitInv, AllOrNothing
    <2>2. ASSUME NEW x \in es, x \in ToSet(command.transactions)
          PROVE  command.transactions = hd.entries /\ command.project = p
      <3>1. Q!Carries(loop[t][l].batch, x)
        BY <1>6, <2>1, <2>2, HeadCarried DEF Q!InHand
      <3>2. Asks(loop[t][l], hd)
        BY <1>1, <3>1 DEF CommitInv, Requested
      <3> QED
        BY <3>2 DEF Asks, Q!InHand
    <2>3. command.project \in Projects
      <3>1. loop[t][l].batch \in Seq(Q!Commands) /\ loop[t][l].batch # <<>>
        BY <1>6, <2>1 DEF Q!SoundLoops, Q!LoopStates
      <3> QED
        BY <3>1 DEF Q!Commands, Q!InHand
    <2>4. Head(loop'[t][l].batch) = command
      BY DEF tabVars, Q!InHand
    <2> HIDE DEF command
    <2>5. ASSUME NEW x, x \in ToSet(command.transactions), x \in SavedAfter(command.project)
          PROVE  ToSet(command.transactions) \subseteq SavedAfter(command.project)
      <3>1. CASE x \in Saved(command.project)
        BY <1>3, <2>1, <2>3, <2>5, <3>1 DEF Whole
      <3>2. CASE x \in es
        BY <1>3, <2>2, <2>5, <3>2
      <3> QED
        BY <1>3, <2>3, <2>5, <3>1, <3>2
    <2> QED
      BY <2>4, <2>5 DEF Whole, command
  <1>7. ASSUME NEW k \in Handlers, S!Patching(handler'[k])
        PROVE  /\ handler'[k].mode = "batch"
               /\ handler'[k].remaining = ToSet(handler'[k].entries)
               /\ handler'[k].failed = {}
    <2>1. k # h
      BY <1>2, <1>7 DEF SaveBy, S!Saves, S!Patching
    <2> QED
      BY <1>7, <2>1 DEF SavedAfter, Saved, SaveBy, SavedInv, AllOrNothing
  <1>8. AllOrNothing'
    BY <1>5, <1>6, <1>7 DEF SavedAfter, Saved, AllOrNothing, tabVars, Q!InHand
  <1>9. TrueAnswers'
    <2> SUFFICES ASSUME NEW k \in Handlers, handler'[k].pc = "replied"
                 PROVE  /\ handler'[k].result.status # "partial"
                        /\ handler'[k].result.status = "ok" =>
                             ToSet(handler'[k].entries) \subseteq SavedAfter(handler'[k].project)
      BY DEF SavedAfter, Saved, TrueAnswers
    <2>1. handler'[k] # S!Idle
      BY DEF S!Idle
    <2>2. CASE k = h
      BY <1>1, <2>2, TellsTheTruth DEF SaveBy
    <2>3. CASE k # h
      BY <1>3, <1>4, <2>1, <2>3 DEF SavedAfter, Saved, SaveBy, SavedInv, TrueAnswers
    <2> QED
      BY <2>2, <2>3
  <1>10. LastIsSaved'
    <2>1. \E x \in S!LatestOf(hd.entries, S!Batch(hd)) :
            lastTransactionId' = [lastTransactionId EXCEPT ![p] = x]
      BY DEF SaveBy, S!Saves, S!WriteRow
    <2>2. S!LatestOf(hd.entries, S!Batch(hd)) \subseteq es
      BY <1>1, <1>2, S!EntriesTyped DEF S!Busy
    <2>3. /\ lastTransactionId'[p] \in es
          /\ \A q \in Projects \ {p} : lastTransactionId'[q] = lastTransactionId[q]
      BY <1>1, <2>1, <2>2 DEF CommitInv, S!InvFor, S!BPTypeOK
    <2> QED
      BY <1>3, <2>3 DEF SavedAfter, Saved, LastIsSaved, SavedInv
  <1> QED
    BY <1>8, <1>9, <1>10

LEMMA WholeSend ==
  ASSUME Plain, SavedInv, [Next]_vars,
         NEW t \in Tabs, NEW l \in Loops, NEW h \in Handlers, SentBy(t, l, h)
  PROVE  AllOrNothing' /\ TrueAnswers' /\ LastIsSaved'
PROOF
  <1> DEFINE command == Q!InHand(t, l)
  <1>1. /\ UNCHANGED <<content, lastTransactionId>>
        /\ loop[t][l].pc = "send"
        /\ \A k \in Handlers \ {h} : handler'[k] = handler[k]
        /\ handler'[h].entries = command.transactions
        /\ handler'[h].project = command.project
        /\ handler'[h].pc = "arrived"
    BY Typed DEF SavedInv, SentBy, Q!SendPatch, S!Request
  <1>2. Whole(handler'[h].entries, SavedAfter(handler'[h].project))
    BY <1>1 DEF SavedAfter, SavedInv, AllOrNothing, Whole, Saved
  <1>3. \A k \in Handlers \ {h} : handler[k] # S!Idle =>
          Whole(handler'[k].entries, SavedAfter(handler'[k].project))
    BY <1>1 DEF SavedAfter, SavedInv, AllOrNothing, Whole, Saved
  <1>4. \A k \in Handlers : S!Patching(handler'[k]) => k # h
    <2>1. ~ S!Patching(handler'[h])
      BY <1>1 DEF S!Patching
    <2> QED
      BY <2>1
  <1>5. AllOrNothing'
    BY <1>1, <1>2, <1>3, <1>4, LoopsStayWhole, Zenon
       DEF SavedAfter, Saved, SavedInv, AllOrNothing, Q!InHand
  <1> QED
    BY <1>1, <1>5 DEF SavedAfter, SavedInv, TrueAnswers, LastIsSaved, Saved

\* Only an ok, or a partial answer, makes a transaction "saved".
LEMMA NewlySaved ==
  ASSUME SavedInv, [Next]_vars, NEW x \in Txns, outcome'[x] = "saved", outcome[x] # "saved"
  PROVE  \E t \in Tabs, l \in Loops, h \in Handlers :
           /\ Answer(t, l, h)
           /\ \/ handler[h].result.status = "partial"
              \/ handler[h].result.status = "ok" /\ x \in ToSet(Q!InHand(t, l).transactions)
PROOF
  <1>1. outcome \in [Txns -> Q!Outcomes]
    BY DEF SavedInv, CommitInv, Q!OnceInv, Q!PQInv, Q!PQTypeOK
  <1>2. ASSUME NEW t \in Tabs, Load(t) \/ (\E y \in Txns : Edit(t, y)) \/ Act(t) \/ Reload(t)
        PROVE  FALSE
    <2>1. \/ \E v : Q!LoadData(t, v)
          \/ \E y \in Txns : Q!SendTransaction(t, y)
          \/ \E p \in Projects : Q!OpenProject(t, p)
          \/ Q!EnqueueProjectDetails(t)
          \/ Q!CloseDialog(t)
          \/ Q!Unmount(t)
          \/ Q!Reload(t)
      BY <1>2, SameLoadData, SameSendTransaction, SameOpenProject, SameEnqueueProjectDetails,
         SameCloseDialog, SameUnmount, SameReload DEF Load, Edit, Act, Reload
    <2>2. CASE \E y \in Txns : Q!SendTransaction(t, y)
      BY <1>1, <2>2 DEF Q!SendTransaction
    <2>3. CASE Q!Reload(t)
      BY <1>1, <2>3 DEF Q!Reload
    <2> QED
      BY <2>1, <2>2, <2>3 DEF Q!LoadData, Q!OpenProject, Q!EnqueueProjectDetails,
         Q!CloseDialog, Q!Unmount, Q!StopPolling, Q!queueVars
  <1>3. ASSUME NEW t \in Tabs, NEW l \in Loops, NEW h \in Handlers,
               Run(t, l) \/ Send(t, l, h) \/ Break(t, l, h)
        PROVE  FALSE
    <2>1. Q!Step(t, l) \/ Q!SendPatch(t, l) \/ Q!NetworkError(t, l)
      BY <1>3, SameStep, SameSendPatch, SameNetworkError DEF Run, Send, Break
    <2>2. CASE Q!TakeUnknown(t, l)
      BY <1>1, <2>2 DEF Q!TakeUnknown, Q!Complete
    <2> QED
      BY <2>1, <2>2 DEF Q!Step, Q!Poll, Q!NoticeAbort, Q!TakeDetails, Q!TakeTransactions,
         Q!SendPatch, Q!NetworkError
  <1>4. ASSUME NEW t \in Tabs, NEW l \in Loops, Run(t, l)
        PROVE  FALSE
    <2>1. Q!Step(t, l)
      BY <1>4, SameStep DEF Run
    <2>2. CASE Q!TakeUnknown(t, l)
      BY <1>1, <2>2 DEF Q!TakeUnknown, Q!Complete
    <2> QED
      BY <2>1, <2>2 DEF Q!Step, Q!Poll, Q!NoticeAbort, Q!TakeDetails, Q!TakeTransactions
  <1>5. ASSUME NEW t \in Tabs, NEW l \in Loops, NEW h \in Handlers, Answer(t, l, h)
        PROVE  \/ handler[h].result.status = "partial"
               \/ handler[h].result.status = "ok" /\ x \in ToSet(Q!InHand(t, l).transactions)
    <2> DEFINE result == handler[h].result
    <2>1. Q!Receive(t, l, result)
      BY <1>5, SameReceive DEF Answer
    <2>2. Q!ToSet(Q!InHand(t, l).transactions) = ToSet(Q!InHand(t, l).transactions)
      BY DEF Q!ToSet, ToSet
    <2>3. CASE Q!ReceiveOk(t, l, result)
      BY <1>1, <2>2, <2>3 DEF Q!ReceiveOk, Q!Complete
    <2>4. CASE Q!ReceiveRefusal(t, l, result)
      BY <1>1, <2>4 DEF Q!ReceiveRefusal, Q!Complete
    <2>5. CASE Q!ReceiveError(t, l, result)
      BY <1>1, <2>5 DEF Q!ReceiveError, Q!Complete
    <2> QED
      BY <2>1, <2>3, <2>4, <2>5 DEF Q!Receive
  <1> QED
    BY <1>2, <1>3, <1>4, <1>5 DEF Next, Serve, Falter, vars, tabVars

LEMMA SavedNext ==
  ASSUME Plain, SavedInv, [Next]_vars
  PROVE  SavedInv'
PROOF
  <1>1. CommitInv /\ CommitInv' /\ Connections'
    BY CommitNext, ConnectionsNext DEF SavedInv
  <1>2. AllOrNothing' /\ TrueAnswers' /\ LastIsSaved'
    BY <1>1, ServerSide, WholeQuietly, WholeSave, WholeSend
  <1>3. SavedIsCommitted'
    <2> SUFFICES ASSUME NEW x \in Txns, outcome'[x] = "saved"
                 PROVE  \E p \in Projects : x \in SavedAfter(p)
      BY DEF SavedAfter, Saved, SavedIsCommitted
    <2>1. CASE outcome[x] = "saved"
      BY <1>1, <2>1, SavedGrows DEF SavedAfter, Saved, SavedInv, SavedIsCommitted
    <2>2. CASE outcome[x] # "saved"
      <3>1. PICK t \in Tabs, l \in Loops, h \in Handlers :
              /\ Answer(t, l, h)
              /\ \/ handler[h].result.status = "partial"
                 \/ handler[h].result.status = "ok" /\ x \in ToSet(Q!InHand(t, l).transactions)
        BY <2>2, NewlySaved
      <3>2. handler[h].pc = "replied" /\ Connected(t, l, h)
        BY <3>1 DEF Answer
      <3>3. Asks(loop[t][l], handler[h]) /\ handler[h].project \in Projects
        BY <1>1, <3>2, Typed DEF SavedInv, Connections, Connected, Server!Idle, S!Idle
      <3>4. x \in ToSet(handler[h].entries)
            /\ ToSet(handler[h].entries) \subseteq Saved(handler[h].project)
        BY <3>1, <3>2, <3>3 DEF SavedAfter, Saved, SavedInv, TrueAnswers, Asks, Q!InHand
      <3> QED
        BY <1>1, <3>3, <3>4, SavedGrows
    <2> QED
      BY <2>1, <2>2
  <1> QED
    BY <1>1, <1>2, <1>3 DEF SavedInv

LEMMA SavedInit ==
  ASSUME Init
  PROVE  SavedInv
PROOF
  <1>1. CommitInv
    BY CommitInit
  <1>2. /\ Q!PQInit /\ S!BPInit
    BY SamePQInit, SameBPInit DEF Init
  <1>3. /\ \A h \in Handlers : handler[h] = S!Idle
        /\ \A t \in Tabs, l \in Loops : loop[t][l].pc = "off"
        /\ \A x \in Txns : outcome[x] = "fresh"
        /\ \A p \in Projects : lastTransactionId[p] = NoTxn
    BY <1>2 DEF S!BPInit, Q!PQInit, Q!OffLoop
  <1>4. \A h \in Handlers : ~ S!Patching(handler[h]) /\ handler[h].pc # "replied"
    BY <1>3 DEF S!Patching, S!Idle
  <1> QED
    BY <1>1, <1>3, <1>4, SinglePlayerAssumption
       DEF SavedAfter, Saved, SavedInv, Connections, Connected, Server!Idle, S!Idle, AllOrNothing, TrueAnswers,
           LastIsSaved, SavedIsCommitted

\* completeTransaction(id, true) tells the truth: when no entry of a patch can fail by
\* itself, a transaction the tab takes for saved is in the row, whichever attempt put
\* it there and whichever was answered.
THEOREM SavedIsInRow == Cyclic = {} /\ Restricted = {} => (Spec => []SavedIsCommitted)
PROOF
  <1> SUFFICES ASSUME Plain PROVE Spec => []SavedIsCommitted
    BY DEF Plain
  <1>1. Init => SavedInv
    BY SavedInit
  <1>2. SavedInv /\ [Next]_vars => SavedInv'
    BY SavedNext
  <1>3. SavedInv => SavedIsCommitted
    BY DEF SavedInv
  <1> QED
    BY <1>1, <1>2, <1>3, PTL DEF Spec

-----------------------------------------------------------------------------
(* What a builder tab stops, and what it leaves in its queue.              *)

\* A tab leaves the others alone.
LEMMA OtherTabs ==
  ASSUME Q!OnceInv, NEW t \in Tabs, Q!Moves(t), NEW u \in Tabs \ {t}
  PROVE  page'[u] = page[u] /\ controller'[u] = controller[u] /\ queue'[u] = queue[u] /\ loop'[u] = loop[u]
PROOF
  <1>1. /\ page \in [Tabs -> Q!SoundPages] /\ controller \in [Tabs -> Loops \cup {NoLoop}]
        /\ queue \in [Tabs -> Seq(Q!Commands)] /\ loop \in [Tabs -> [Loops -> Q!SoundLoops]]
        /\ \A v \in Tabs, k \in Loops : Q!Sends(loop[v][k])
    BY SoundSends DEF Q!OnceInv, Q!PQInv, Q!PQTypeOK
  <1>2. CASE Q!Use(t)
    BY <1>1, <1>2 DEF Q!Use, Q!OpenProject, Q!StopPolling, Q!queueVars, Q!EnqueueProjectDetails, Q!SetLoop,
       Q!SendTransaction, Q!CloseDialog, Q!Unmount, Q!Reload
  <1>3. CASE \E v \in Nat : Q!LoadData(t, v)
    BY <1>1, <1>3 DEF Q!LoadData, Q!queueVars
  <1>4. ASSUME NEW l \in Loops,
               \/ Q!Step(t, l) \/ Q!SendPatch(t, l) \/ Q!NetworkError(t, l)
               \/ \E result : Q!Receive(t, l, result)
        PROVE  page'[u] = page[u] /\ controller'[u] = controller[u] /\ queue'[u] = queue[u] /\ loop'[u] = loop[u]
    BY <1>1, <1>4, Q!LoopMoved DEF Q!OnceInv
  <1> QED
    BY <1>2, <1>3, <1>4 DEF Q!Moves

OnlyTransactions(q) == \A i \in DOMAIN q : q[i].type = "transactions"

\* A dialog polls while it shows its project, so that a new loop takes the details;
\* the loop of a builder is never told to stop.
HandedDialog(t) == /\ page[t].phase # "open" => controller[t] = NoLoop
                   /\ OnlyTransactions(queue[t])
HandedBuilder(t) == /\ \A l \in Loops : ~loop[t][l].aborted
                    /\ page[t].client = NoProject => controller[t] = NoLoop
Handed == /\ \A t \in Dialogs : HandedDialog(t)
          /\ \A t \in Tabs \ Dialogs : HandedBuilder(t)

\* A builder shows one project; another one is another page.
BuilderStays ==
  \A t \in Tabs \ Dialogs :
    page[t].phase = "closed" /\ page'[t].phase = "loading" /\ page[t].client # NoProject =>
      page'[t].project = page[t].client

\* An edit adds no details to a queue.
LEMMA EnqueueOnly ==
  ASSUME NEW q \in Seq(Q!Commands), NEW p \in Projects, NEW x \in Txns, OnlyTransactions(q)
  PROVE  OnlyTransactions(Q!Enqueue(q, Q!Transactions(p, <<x>>)))
PROOF
  <1> DEFINE new == Q!Enqueue(q, Q!Transactions(p, <<x>>))
             none == <<>>
             n == Len(q)
  <1>1. none \in Seq(Q!Commands) /\ none \o q = q
    BY Q!ConcatEmpty
  <1>2. new \in Seq(Q!Commands) /\ none \o new = new
    <2>1. Q!Transactions(p, <<x>>) \in Q!Commands
      BY Q!CommandsTyped
    <2>2. new \in Seq(Q!Commands)
      BY <2>1, Q!EnqueueTyped
    <2> QED
      BY <2>2, Q!ConcatEmpty
  <1>3. none \in Seq(Q!Commands) /\ Q!Joins(none \o q, none \o new, Len(none \o q), p, x)
    <2>1. none \in Seq(Q!Commands)
      BY <1>1
    <2> HIDE DEF none
    <2> QED
      BY <2>1, Q!EditLine
  <1>4. Q!Joins(q, new, n, p, x)
    BY <1>1, <1>2, <1>3
  <1>5. Q!Transactions(p, <<x>>).type = "transactions"
    BY DEF Q!Transactions
  <1> DEFINE c == Q!Transactions(p, <<x>>)
  <1>6. n \in Nat /\ DOMAIN q = 1..n /\ DOMAIN new = 1..Len(new) /\ Len(new) \in Nat
    BY <1>2
  <1> HIDE DEF new, none, n, c
  <1>7. /\ \A i \in DOMAIN q : i # n => new[i] = q[i]
        /\ \/ /\ Len(new) = n + 1
              /\ n > 0 => new[n] = q[n]
              /\ new[n + 1] = c
           \/ /\ Len(new) = n /\ n > 0 /\ new[n].type = "transactions"
    BY <1>4 DEF Q!Joins, c
  <1>8. \A i \in DOMAIN new : new[i].type = "transactions"
    <2>1. \A i \in DOMAIN q : q[i].type = "transactions"
      BY DEF OnlyTransactions
    <2>2. \A i \in DOMAIN new : i \in DOMAIN q /\ i # n => new[i].type = "transactions"
      BY <1>7, <2>1
    <2>3. CASE /\ Len(new) = n + 1
               /\ n > 0 => new[n] = q[n]
               /\ new[n + 1] = c
      <3>1. new[n + 1].type = "transactions" /\ (n > 0 => new[n].type = "transactions")
        <4>1. c.type = "transactions"
          BY <1>5 DEF c
        <4>2. n > 0 => n \in DOMAIN q
          BY <1>6
        <4> QED
          BY <2>1, <2>3, <4>1, <4>2
      <3>2. \A i \in DOMAIN new : i = n + 1 \/ (i = n /\ n > 0) \/ (i \in DOMAIN q /\ i # n)
        BY <1>6, <2>3
      <3> QED
        BY <2>2, <3>1, <3>2
    <2>4. CASE Len(new) = n /\ n > 0 /\ new[n].type = "transactions"
      <3>1. \A i \in DOMAIN new : i = n \/ (i \in DOMAIN q /\ i # n)
        BY <1>6, <2>4
      <3> QED
        BY <2>2, <2>4, <3>1
    <2> QED
      BY <1>7, <2>3, <2>4
  <1> QED
    BY <1>8 DEF OnlyTransactions, new

\* A loop that is told to stop is left, and any other goes on.
LEMMA StoppedLoop ==
  ASSUME Q!PQInv, NEW t \in Tabs, Q!StopPolling(t)
  PROVE  /\ controller'[t] = NoLoop /\ queue' = queue
         /\ Q!GoOn(loop[t], loop'[t])
PROOF
  <1>1. loop \in [Tabs -> [Loops -> Q!LoopStates]] /\ controller \in [Tabs -> Loops \cup {NoLoop}]
    BY Q!SoundLoopsTyped DEF Q!PQInv, Q!PQTypeOK
  <1>2. controller'[t] = NoLoop /\ queue' = queue
    BY <1>1 DEF Q!StopPolling
  <1>3. ASSUME NEW l \in Loops
        PROVE  /\ loop'[t][l].pc = loop[t][l].pc /\ loop'[t][l].batch = loop[t][l].batch
               /\ loop'[t][l].details = loop[t][l].details
               /\ loop[t][l].aborted => loop'[t][l].aborted
    <2>1. loop'[t][l] = [loop[t][l] EXCEPT !.aborted = TRUE] \/ loop'[t][l] = loop[t][l]
      BY <1>1 DEF Q!StopPolling
    <2> DEFINE lp == loop[t][l]
    <2>2. lp \in Q!LoopStates
      BY <1>1
    <2> HIDE DEF lp
    <2>3. LET new == [lp EXCEPT !.aborted = TRUE]
          IN  new.pc = lp.pc /\ new.batch = lp.batch /\ new.details = lp.details /\ new.aborted = TRUE
      BY <2>2 DEF Q!LoopStates
    <2> QED
      BY <2>1, <2>3 DEF lp
  <1> QED
    BY <1>2, <1>3 DEF Q!GoOn

\* Tabs hand their queue to one loop in the next state too.
LEMMA HandedNext ==
  ASSUME CommitInv, Handed, [Next]_vars, BuilderStays
  PROVE  Handed'
PROOF
  <1>0. /\ Q!OnceInv /\ Q!PQInv
        /\ page \in [Tabs -> Q!SoundPages] /\ controller \in [Tabs -> Loops \cup {NoLoop}]
        /\ queue \in [Tabs -> Seq(Q!Commands)] /\ loop \in [Tabs -> [Loops -> Q!SoundLoops]]
        /\ \A v \in Tabs, k \in Loops : Q!Sends(loop[v][k])
        /\ page \in [Tabs -> Q!Pages]
    BY SoundSends DEF CommitInv, Q!OnceInv, Q!PQInv, Q!PQTypeOK
  <1>1. CASE UNCHANGED tabVars
    BY <1>1 DEF tabVars, Handed, HandedDialog, HandedBuilder
  <1>2. ASSUME NEW t \in Tabs, Q!Moves(t)
        PROVE  Handed'
    <2>1. \A u \in Tabs \ {t} : page'[u] = page[u] /\ controller'[u] = controller[u] /\ queue'[u] = queue[u] /\ loop'[u] = loop[u]
      BY <1>0, <1>2, OtherTabs
    <2> SUFFICES /\ t \in Dialogs => HandedDialog(t)'
                 /\ t \notin Dialogs => HandedBuilder(t)'
      <3>1. Dialogs \subseteq Tabs
        BY SinglePlayerAssumption
      <3>2. \A u \in Dialogs \ {t} : HandedDialog(u)'
        BY <2>1, <3>1 DEF Handed, HandedDialog
      <3>3. \A u \in Tabs \ (Dialogs \cup {t}) : HandedBuilder(u)'
        BY <2>1 DEF Handed, HandedBuilder
      <3> QED
        BY <3>2, <3>3 DEF Handed
    <2>2. /\ t \in Dialogs => HandedDialog(t)
          /\ t \notin Dialogs => HandedBuilder(t)
      BY DEF Handed
    <2>3. CASE \E p \in Projects : Q!OpenProject(t, p)
      <3> PICK p \in Projects : Q!OpenProject(t, p)
        BY <2>3
      <3> DEFINE other == page[t].client \notin {NoProject, p}
      <3>1. /\ page[t].phase = "closed"
            /\ page'[t].phase = "loading" /\ page'[t].project = p
            /\ page'[t].client = IF other THEN NoProject ELSE page[t].client
            /\ IF other THEN Q!StopPolling(t) ELSE UNCHANGED <<queue, controller, loop>>
        BY <1>0 DEF Q!OpenProject, Q!queueVars
      <3>2. CASE t \in Dialogs
        <4>1. HandedDialog(t)
          BY <2>2, <3>2
        <4>2. controller'[t] = NoLoop /\ queue'[t] = queue[t]
          BY <1>0, <3>1, <4>1, StoppedLoop DEF HandedDialog
        <4> QED
          BY <3>2, <4>1, <4>2 DEF HandedDialog
      <3>3. CASE t \notin Dialogs
        <4>1. ~ other
          BY <3>1, <3>3 DEF BuilderStays
        <4> QED
          BY <2>2, <3>1, <3>3, <4>1 DEF HandedBuilder
      <3> QED
        BY <3>2, <3>3
    <2>4. CASE Q!EnqueueProjectDetails(t)
      <3>1. /\ page[t].phase = "loaded" /\ page'[t].phase = "open" /\ page'[t].client = page[t].project
            /\ page[t].project \in Projects
        BY <1>0, <2>4 DEF Q!EnqueueProjectDetails, Q!Pages, Q!SoundPages
      <3>2. CASE t \in Dialogs
        <4>1. controller[t] = NoLoop
          BY <2>2, <3>1, <3>2 DEF HandedDialog
        <4>2. queue'[t] = <<>>
          BY <1>0, <2>4, <4>1 DEF Q!EnqueueProjectDetails
        <4> QED
          BY <3>1, <3>2, <4>2 DEF HandedDialog, OnlyTransactions
      <3>3. CASE t \notin Dialogs
        <4>1. page'[t].client # NoProject
          BY <3>1, SinglePlayerAssumption
        <4>2. ASSUME NEW k \in Loops
              PROVE  ~loop'[t][k].aborted
          <5>1. ~loop[t][k].aborted
            BY <2>2, <3>3 DEF HandedBuilder
          <5>2. \/ loop' = loop
                \/ \E l \in Loops : \E to : Q!SetLoop(t, l, Q!Taken(Q!OffLoop, to))
            BY <2>4 DEF Q!EnqueueProjectDetails
          <5>3. \A to : ~Q!Taken(Q!OffLoop, to).aborted
            BY Q!OffLoopSound, Q!TakenFields DEF Q!SoundLoops
          <5>4. loop \in [Tabs -> [Loops -> Q!LoopStates]]
            BY <1>0, Q!SoundLoopsTyped
          <5>5. ASSUME NEW l \in Loops, NEW to, Q!SetLoop(t, l, Q!Taken(Q!OffLoop, to))
                PROVE  ~loop'[t][k].aborted
            <6>1. loop'[t][l] = Q!Taken(Q!OffLoop, to) /\ \A j \in Loops \ {l} : loop'[t][j] = loop[t][j]
              BY <5>4, <5>5, Q!SetAt
            <6> QED
              BY <5>1, <5>3, <6>1
          <5> QED
            BY <5>1, <5>2, <5>5
        <4> QED
          BY <3>3, <4>1, <4>2 DEF HandedBuilder
      <3> QED
        BY <3>2, <3>3
    <2>5. CASE \E x \in Txns : Q!SendTransaction(t, x)
      <3> PICK x \in Txns : Q!SendTransaction(t, x)
        BY <2>5
      <3> DEFINE q2 == Q!Enqueue(queue[t], Q!Transactions(page[t].project, <<x>>))
      <3>1. /\ page' = page /\ controller' = controller /\ loop' = loop /\ page[t].phase = "open"
            /\ queue' = [queue EXCEPT ![t] = q2] /\ page[t].project \in Projects
        BY <1>0 DEF Q!SendTransaction, Q!SoundPages
      <3>2. queue'[t] = q2
        BY <1>0, <3>1
      <3>3. OnlyTransactions(queue[t]) => OnlyTransactions(q2)
        BY <1>0, <3>1, EnqueueOnly
      <3> HIDE DEF q2
      <3> QED
        BY <2>2, <3>1, <3>2, <3>3 DEF HandedDialog, HandedBuilder
    <2>6. CASE Q!CloseDialog(t)
      <3>1. t \in Dialogs /\ controller'[t] = NoLoop /\ queue' = queue
        BY <1>0, <2>6, StoppedLoop DEF Q!CloseDialog
      <3> QED
        BY <2>2, <3>1 DEF HandedDialog
    <2>7. CASE Q!Unmount(t)
      <3>1. /\ t \notin Dialogs /\ page'[t] = Q!ClosedPage(page[t].client)
            /\ UNCHANGED <<queue, controller, loop>>
        BY <1>0, <2>7 DEF Q!Unmount, Q!queueVars
      <3>2. page'[t].client = page[t].client
        BY <3>1 DEF Q!ClosedPage
      <3> QED
        BY <2>2, <3>1, <3>2 DEF HandedBuilder
    <2>8. CASE Q!Reload(t)
      <3>1. controller'[t] = NoLoop /\ queue'[t] = <<>> /\ \A l \in Loops : loop'[t][l] = Q!OffLoop
        BY <1>0, <2>8 DEF Q!Reload
      <3> QED
        BY <3>1, Q!OffLoopSound DEF HandedDialog, HandedBuilder, OnlyTransactions
    <2>9. CASE \E v \in Nat : Q!LoadData(t, v)
      <3> PICK v \in Nat : Q!LoadData(t, v)
        BY <2>9
      <3>1. page[t].phase = "loading" /\ page' = [page EXCEPT ![t].phase = "loaded", ![t].version = v]
            /\ UNCHANGED <<queue, controller, loop>>
        BY DEF Q!LoadData, Q!queueVars
      <3>2. page'[t].phase = "loaded" /\ page'[t].client = page[t].client
        BY <1>0, <3>1 DEF Q!Pages
      <3> QED
        BY <2>2, <3>1, <3>2 DEF HandedDialog, HandedBuilder
    <2>10. ASSUME NEW l \in Loops,
                  \/ Q!Step(t, l) \/ Q!SendPatch(t, l) \/ Q!NetworkError(t, l)
                  \/ \E result : Q!Receive(t, l, result)
           PROVE  /\ t \in Dialogs => HandedDialog(t)'
                  /\ t \notin Dialogs => HandedBuilder(t)'
      <3>1. /\ UNCHANGED <<page, controller>>
            /\ \A k \in Loops \ {l} : loop'[t][k] = loop[t][k]
            /\ queue'[t] \in {queue[t], <<>>}
            /\ loop'[t][l] = Q!OffLoop \/ loop'[t][l].aborted = loop[t][l].aborted
        <4>1. /\ UNCHANGED <<page, controller>>
              /\ \A k \in Loops \ {l} : loop'[t][k] = loop[t][k]
              /\ \/ loop'[t][l] = Q!OffLoop /\ queue'[t] = queue[t]
                 \/ Q!Took(loop[t][l], loop'[t][l], queue[t]) /\ queue'[t] = <<>>
                 \/ Q!Staged(loop[t][l], loop'[t][l]) /\ queue'[t] = queue[t]
                 \/ \E v : Q!DoneWith(loop[t][l], loop'[t][l], v) /\ queue'[t] = queue[t]
          BY <1>0, <2>10, Q!LoopMoved
        <4> QED
          BY <4>1 DEF Q!Took, Q!Staged, Q!DoneWith
      <3>2. \A k \in Loops : loop'[t][k].aborted => loop[t][k].aborted
        BY <3>1, Q!OffLoopSound
      <3>3. OnlyTransactions(queue[t]) => OnlyTransactions(queue'[t])
        BY <3>1 DEF OnlyTransactions
      <3> QED
        BY <2>2, <3>1, <3>2, <3>3 DEF HandedDialog, HandedBuilder
    <2> QED
      BY <1>2, <2>3, <2>4, <2>5, <2>6, <2>7, <2>8, <2>9, <2>10 DEF Q!Moves, Q!Use
  <1> QED
    BY <1>1, <1>2, TabMoves DEF vars

-----------------------------------------------------------------------------
(* All tabs, in a step of the whole.                                       *)

\* Every tab edits what it has seen.
Informing == \A t \in Tabs : Q!Informed(content, basis, seen[t], page[t], queue[t], loop[t])

\* What version v of p does not have and top has is of the entries es.
Own(H, p, v, es, top) == \A k \in DOMAIN H[p] : v < k /\ k <= top => H[p][k] \subseteq ToSet(es)

\* An answer ok tells of a version that has but the entries of the request more.
OkOwn ==
  \A h \in Handlers :
    LET hd == handler[h] IN
    hd # S!Idle /\ hd.pc = "replied" /\ hd.result.status = "ok" =>
      /\ hd.result.version <= version[hd.project]
      /\ Own(content, hd.project, hd.clientVersion, hd.entries, hd.result.version)

\* The row only grows.
LEMMA GrowsNext ==
  ASSUME CommitInv, [Next]_vars
  PROVE  content \in Q!Histories /\ content' \in Q!Histories /\ Q!Grows(content, content')
PROOF
  <1>1. content \in Q!Histories
    BY Typed DEF Q!Histories
  <1>2. content' \in Q!Histories
    <2>1. CommitInv'
      BY CommitNext
    <2> QED
      BY <2>1 DEF CommitInv, S!InvFor, S!BPTypeOK, Q!Histories
  <1>3. CASE content' = content
    BY <1>1, <1>3 DEF Q!Grows, Q!Histories
  <1>4. ASSUME NEW h \in Handlers, SaveBy(h)
        PROVE  Q!Grows(content, content')
    <2> DEFINE p == handler[h].project
               n == version[p] + 1
    <2>1. /\ p \in Projects /\ content' = [content EXCEPT ![p] = Append(@, S!Batch(handler[h]))]
      BY <1>4, SaveEffect
    <2> DEFINE batch == S!Batch(handler[h])
    <2> HIDE DEF batch, p
    <2>2. ASSUME NEW q \in Projects
          PROVE  Len(content[q]) <= Len(content'[q]) /\ \A i \in DOMAIN content[q] : content'[q][i] = content[q][i]
      <3>1. content[q] \in Seq(SUBSET Txns)
        BY <1>1 DEF Q!Histories
      <3>2. content'[q] = IF q = p THEN Append(content[q], batch) ELSE content[q]
        BY <1>1, <2>1 DEF Q!Histories, batch
      <3> QED
        BY <3>1, <3>2
    <2> QED
      BY <2>2 DEF Q!Grows
  <1> QED
    BY <1>1, <1>2, <1>3, <1>4, ServerSide DEF Quiet, SentBy, S!Request

\* What the steps of a tab do to the row: nothing.
LEMMA TabSteps ==
  ASSUME CommitInv, [Next]_vars
  PROVE  \/ UNCHANGED <<page, controller, queue, loop, seen, basis>>
         \/ \E t \in Tabs :
              /\ content' = content /\ version' = version
              /\ \A u \in Tabs \ {t} : seen'[u] = seen[u] \/ seen \notin [Tabs -> SUBSET Txns]
              /\ \/ Load(t)
                 \/ \E x \in Txns : Edit(t, x)
                 \/ Act(t)
                 \/ Reload(t)
                 \/ \E l \in Loops :
                      \/ Run(t, l)
                      \/ \E h \in Handlers : Send(t, l, h) \/ Answer(t, l, h) \/ Break(t, l, h)
PROOF
  <1>1. CASE UNCHANGED vars
    BY <1>1 DEF vars, tabVars, auxVars
  <1>2. CASE \E h \in Handlers : Serve(h) \/ Falter(h)
    BY <1>2 DEF Serve, Falter, tabVars, auxVars
  <1>3. ASSUME NEW t \in Tabs,
               \/ Load(t)
               \/ \E x \in Txns : Edit(t, x)
               \/ Act(t)
               \/ Reload(t)
               \/ \E l \in Loops :
                    \/ Run(t, l)
                    \/ \E h \in Handlers : Send(t, l, h) \/ Answer(t, l, h) \/ Break(t, l, h)
        PROVE  /\ content' = content /\ version' = version
               /\ \A u \in Tabs \ {t} : seen'[u] = seen[u] \/ seen \notin [Tabs -> SUBSET Txns]
    <2>1. content' = content /\ version' = version
      <3>1. CASE Load(t) \/ (\E x \in Txns : Edit(t, x)) \/ Act(t) \/ Reload(t) \/ \E l \in Loops : Run(t, l)
        BY <3>1 DEF Load, Edit, Act, Reload, Run, serverVars
      <3>2. ASSUME NEW l \in Loops, NEW h \in Handlers, Send(t, l, h) \/ Answer(t, l, h) \/ Break(t, l, h)
            PROVE  content' = content /\ version' = version
        BY <3>2 DEF Send, Answer, Break, Server!Request, Server!Respond, Server!Disconnect
      <3> QED
        BY <1>3, <3>1, <3>2
    <2>2. seen' = seen \/ \E xs : seen' = [seen EXCEPT ![t] = xs]
      <3>1. CASE Act(t) \/ \E l \in Loops : Run(t, l) \/ \E h \in Handlers : Send(t, l, h) \/ Answer(t, l, h) \/ Break(t, l, h)
        BY <3>1 DEF Act, Run, Send, Answer, Break, auxVars
      <3>2. CASE Load(t) \/ (\E x \in Txns : Edit(t, x)) \/ Reload(t)
        BY <3>2 DEF Load, Edit, Reload
      <3> QED
        BY <1>3, <3>1, <3>2
    <2> QED
      BY <2>1, <2>2
  <1> QED
    BY <1>1, <1>2, <1>3 DEF Next

\* A loop takes the queue before one that is not told to stop only in a dialog.
LEMMA TakesAlone ==
  ASSUME CommitInv, Handed, NEW t \in Tabs, NEW l \in Loops, NEW k \in Loops \ {l},
         loop[t][l].pc # "off", loop[t][k].pc # "off", ~loop[t][k].aborted
  PROVE  OnlyTransactions(queue[t])
PROOF
  <1>1. loop[t][l].aborted
    BY DEF CommitInv, Q!OnceInv, Q!PQInv, Q!OneLiveLoop, Q!RunningLoops
  <1>2. t \in Dialogs
    BY <1>1 DEF Handed, HandedBuilder
  <1> QED
    BY <1>2 DEF Handed, HandedDialog

\* The types of a tab.
LEMMA TabShape ==
  ASSUME CommitInv, AuxTyped, NEW t \in Tabs
  PROVE  /\ content \in Q!Histories /\ basis \in Q!Bases /\ seen[t] \in SUBSET Txns
         /\ page[t] \in Q!SoundPages /\ (page[t].phase # "closed" => page[t].project \in Projects)
         /\ queue[t] \in Seq(Q!Commands) /\ loop[t] \in [Loops -> Q!SoundLoops]
         /\ \A l \in Loops : Q!Sends(loop[t][l])
PROOF
  <1>1. /\ page \in [Tabs -> Q!SoundPages] /\ queue \in [Tabs -> Seq(Q!Commands)]
        /\ loop \in [Tabs -> [Loops -> Q!SoundLoops]]
        /\ \A l \in Loops : Q!Sends(loop[t][l])
    BY SoundSends DEF CommitInv, Q!OnceInv, Q!PQInv, Q!PQTypeOK
  <1>2. content \in Q!Histories /\ basis \in Q!Bases /\ seen[t] \in SUBSET Txns
    BY Typed DEF AuxTyped, Q!Histories, Q!Bases
  <1> QED
    BY <1>1, <1>2 DEF Q!SoundPages

\* A step of a loop, an ok among them, if that tells of what the loop may know.
LEMMA LoopInforms ==
  ASSUME CommitInv, AuxTyped, Handed, Informing,
         NEW t \in Tabs, NEW l \in Loops, NEW result,
         \/ Q!Step(t, l) \/ Q!SendPatch(t, l) \/ Q!NetworkError(t, l)
         \/ Q!Receive(t, l, result),
         loop[t][l].pc = "wait" /\ result.status = "ok" =>
           /\ result.version <= Len(content[Q!InHand(t, l).project])
           /\ Q!Upto(content, Q!InHand(t, l).project, result.version) \subseteq
                Q!Upto(content, Q!InHand(t, l).project, loop[t][l].details[Q!InHand(t, l).project])
                  \cup ToSet(Q!InHand(t, l).transactions)
  PROVE  Q!Informed(content, basis, seen[t], page[t], queue'[t], loop'[t])
PROOF
  <1> DEFINE H == content
             f == basis
             s == seen[t]
             pg == page[t]
             q == queue[t]
             lps == loop[t]
             lps2 == loop'[t]
             lp == loop[t][l]
             new == loop'[t][l]
             q2 == queue'[t]
  <1>1. /\ H \in Q!Histories /\ f \in Q!Bases /\ s \in SUBSET Txns
        /\ (pg.phase = "open" => pg.project \in Projects)
        /\ q \in Seq(Q!Commands) /\ lps \in [Loops -> Q!SoundLoops]
        /\ lp \in Q!SoundLoops /\ Q!Sends(lp)
    BY TabShape
  <1>2. /\ \A k \in Loops \ {l} : loop'[t][k] = loop[t][k]
        /\ \/ loop'[t][l] = Q!OffLoop /\ queue'[t] = queue[t]
           \/ Q!Took(loop[t][l], loop'[t][l], queue[t]) /\ queue'[t] = <<>>
           \/ Q!Staged(loop[t][l], loop'[t][l]) /\ queue'[t] = queue[t]
           \/ \E v : /\ Q!DoneWith(loop[t][l], loop'[t][l], v) /\ queue'[t] = queue[t]
                     /\ loop[t][l].pc = "batch" =>
                          /\ ~loop[t][l].aborted
                          /\ Q!InHand(t, l).type = "setDetails" /\ v = Q!InHand(t, l).version
                     /\ loop[t][l].pc = "wait" => result.status = "ok" /\ v = result.version
    <2>1. Q!PQInv /\ \A u \in Tabs, k \in Loops : Q!Sends(loop[u][k])
      BY SoundSends DEF CommitInv, Q!OnceInv
    <2> QED
      BY <2>1, Q!LoopMovedBy
  <1>3. Q!Informed(H, f, s, pg, q, lps)
    BY DEF Informing
  <1>4. Q!LoopInformed(H, f, s, pg, q, lp) /\ lp = lps[l] /\ new = lps2[l]
    BY <1>3 DEF Q!Informed
  <1>5. \A k \in Loops \ {l} : lps2[k] = lps[k]
    BY <1>2, Zenon
  <1>6. Q!InHand(t, l) = Head(lp.batch)
    BY DEF Q!InHand
  <1>7. loop[t][l].pc = "wait" /\ result.status = "ok" =>
           /\ result.version <= Len(H[Head(lp.batch).project])
           /\ Q!Upto(H, Head(lp.batch).project, result.version) \subseteq
                Q!Upto(H, Head(lp.batch).project, lp.details[Head(lp.batch).project])
                  \cup ToSet(Head(lp.batch).transactions)
    BY <1>6, Zenon
  <1>8. \A k \in Loops \ {l} : lp.pc # "off" /\ lps[k].pc # "off" /\ ~lps[k].aborted => OnlyTransactions(q)
    BY TakesAlone
  <1> DEFINE c == Head(lp.batch)
  <1>9. \/ new = Q!OffLoop /\ q2 = q
        \/ Q!Took(lp, new, q) /\ q2 = <<>>
        \/ Q!Staged(lp, new) /\ q2 = q
        \/ \E v : /\ Q!DoneWith(lp, new, v) /\ q2 = q
                  /\ lp.pc = "batch" => ~lp.aborted /\ c.type = "setDetails" /\ v = c.version
                  /\ lp.pc = "wait" => result.status = "ok" /\ v = result.version
    BY <1>2, <1>6, Zenon
  <1>10. lp.pc = "wait" /\ result.status = "ok" =>
           /\ result.version <= Len(H[c.project])
           /\ Q!Upto(H, c.project, result.version) \subseteq
                Q!Upto(H, c.project, lp.details[c.project]) \cup ToSet(c.transactions)
    BY <1>7
  <1> HIDE DEF H, f, s, pg, q, lps, lps2, lp, new, q2, c
  <1>11. CASE new = Q!OffLoop /\ q2 = q
    <2>1. Q!LoopInformed(H, f, s, pg, q, lps2[l])
      BY <1>1, <1>4, <1>11, Q!OffInformed
    <2> QED
      BY <1>3, <1>5, <1>11, <2>1, Q!OneLoopInformed DEF H, f, s, pg, q, lps2, q2
  <1>12. CASE Q!Took(lp, new, q) /\ q2 = <<>>
    <2>1. /\ lps[l].pc = "poll"
          /\ lps2[l].pc \in {"poll", "batch"} /\ (lps2[l].pc = "poll" => lps2[l].batch = <<>>)
          /\ lps2[l].batch = q /\ lps2[l].details = lps[l].details /\ lps2[l].aborted = lps[l].aborted
      BY <1>4, <1>12 DEF Q!Took
    <2>2. (\E k \in Loops \ {l} : lps[k].pc # "off" /\ ~lps[k].aborted) =>
            \A i \in DOMAIN q : q[i].type = "transactions"
      BY <1>4, <1>8, <2>1 DEF OnlyTransactions
    <2>3. Q!Informed(H, f, s, pg, <<>>, lps2)
      BY <1>1, <1>3, <1>5, <2>1, <2>2, Q!PollInformed
    <2> QED
      BY <1>12, <2>3 DEF H, f, s, pg, lps2, q2
  <1>13. CASE Q!Staged(lp, new) /\ q2 = q
    <2>1. Q!LoopInformed(H, f, s, pg, q, new)
      BY <1>1, <1>4, <1>13, Q!StageInformed DEF Q!Staged
    <2>2. Q!LoopInformed(H, f, s, pg, q, lps2[l])
      BY <1>4, <2>1
    <2> QED
      BY <1>3, <1>5, <1>13, <2>2, Q!OneLoopInformed DEF H, f, s, pg, q, lps2, q2
  <1>14. ASSUME NEW v, Q!DoneWith(lp, new, v), q2 = q,
                lp.pc = "batch" => ~lp.aborted /\ c.type = "setDetails" /\ v = c.version,
                lp.pc = "wait" => result.status = "ok" /\ v = result.version
         PROVE  Q!Informed(content, basis, seen[t], page[t], queue'[t], loop'[t])
    <2>0. lp.pc \in {"batch", "wait"}
      BY <1>14 DEF Q!DoneWith
    <2> DEFINE Known == /\ v <= Len(H[c.project])
                        /\ Q!Upto(H, c.project, v) \subseteq
                             IF c.type = "setDetails" THEN Q!Brings(H, c)
                             ELSE Q!Upto(H, c.project, lp.details[c.project]) \cup Q!Brings(H, c)
    <2>1. ASSUME lp.pc = "batch"
          PROVE  Known
      <3>1. /\ lp.batch \in Seq(Q!Commands) /\ lp.batch # <<>> /\ lp.details \in Q!Versions
        BY <1>1, <2>1, Q!LoopShape
      <3> DEFINE cs == lp.batch \o q
      <3>2. 1 \in DOMAIN cs /\ cs[1] = c
        <4> DEFINE b == lp.batch
        <4>1. b \in Seq(Q!Commands) /\ b # <<>>
          BY <3>1
        <4> HIDE DEF b
        <4>2. 1 \in DOMAIN (b \o q) /\ (b \o q)[1] = Head(b)
          BY <1>1, <4>1, Q!LineHead
        <4> QED
          BY <4>2 DEF b, c
      <3>3. Q!Sound(H, f, s, pg, cs, lp.details)
        BY <1>4, <1>14, <2>1 DEF Q!LoopInformed
      <3> HIDE DEF cs
      <3>4. v <= Len(H[c.project])
        BY <1>14, <2>1, <3>2, <3>3 DEF Q!Sound
      <3>5. Q!Upto(H, c.project, v) \subseteq
              IF c.type = "setDetails" THEN Q!Brings(H, c)
              ELSE Q!Upto(H, c.project, lp.details[c.project]) \cup Q!Brings(H, c)
        BY <1>14, <2>1 DEF Q!Brings
      <3> QED
        BY <3>4, <3>5
    <2>2. ASSUME lp.pc = "wait"
          PROVE  Known
      <3>1. c.type = "transactions"
        BY <1>1, <2>2 DEF Q!Sends, c
      <3>2. v <= Len(H[c.project])
        BY <1>10, <1>14, <2>2
      <3>3. Q!Upto(H, c.project, v) \subseteq
              IF c.type = "setDetails" THEN Q!Brings(H, c)
              ELSE Q!Upto(H, c.project, lp.details[c.project]) \cup Q!Brings(H, c)
        BY <1>10, <1>14, <2>2, <3>1 DEF Q!Brings, ToSet, Q!ToSet
      <3> QED
        BY <3>2, <3>3
    <2>3. Known
      BY <2>0, <2>1, <2>2
    <2>4. Q!LoopInformed(H, f, s, pg, q, new)
      <3>1. Q!Learns(H, lp, v)
        BY <2>3 DEF c, Q!Learns
      <3> QED
        BY <1>1, <1>4, <1>14, <3>1, Q!DoneInformed
    <2>5. Q!LoopInformed(H, f, s, pg, q, lps2[l])
      BY <1>4, <2>4
    <2> QED
      BY <1>3, <1>5, <1>14, <2>5, Q!OneLoopInformed DEF H, f, s, pg, q, lps2, q2
  <1> QED
    BY <1>9, <1>11, <1>12, <1>13, <1>14

\* A page loads the row.
LEMMA LoadInforms ==
  ASSUME CommitInv, AuxTyped, Informing, NEW t \in Tabs, Load(t)
  PROVE  Q!Informed(content, basis, seen'[t], page'[t], queue'[t], loop'[t])
PROOF
  <1> DEFINE p == page[t].project
  <1>1. /\ page[t].phase = "loading" /\ page' = [page EXCEPT ![t].phase = "loaded", ![t].version = version[p]]
        /\ queue' = queue /\ loop' = loop /\ seen' = [seen EXCEPT ![t] = Saved(p)]
    BY SameLoadData DEF Load, Q!LoadData, Q!queueVars
  <1>2. page \in [Tabs -> Q!Pages] /\ p \in Projects /\ seen \in [Tabs -> SUBSET Txns]
    BY <1>1, TabShape DEF CommitInv, Q!OnceInv, Q!PQInv, Q!PQTypeOK, AuxTyped
  <1>3. /\ page'[t].phase = "loaded" /\ page'[t].version = version[p] /\ page'[t].project = p
        /\ seen'[t] = Saved(p)
    BY <1>1, <1>2 DEF Q!Pages
  <1>4. version[p] <= Len(content[p])
    BY <1>2, Typed DEF CommitInv, OneVersion
  <1>5. Q!Upto(content, p, version[p]) \subseteq Saved(p)
    BY InSaved DEF Q!Upto
  <1> HIDE DEF p
  <1>6. Q!PageInformed(content, seen'[t], page'[t]) /\ page'[t].phase # "open"
    BY <1>3, <1>4, <1>5 DEF Q!PageInformed
  <1>7. Q!Informed(content, basis, seen[t], page[t], queue[t], loop[t])
    BY DEF Informing
  <1>8. Q!GoOn(loop[t], loop'[t]) /\ content \in Q!Histories
    BY <1>1, TabShape DEF Q!GoOn
  <1> QED
    BY <1>1, <1>6, <1>7, <1>8, Q!LeaveInformed

\* A page that is not shown any more, or not yet.
LEMMA LeaveInforms ==
  ASSUME CommitInv, AuxTyped, Informing, NEW t \in Tabs, page'[t].phase \in {"closed", "loading"},
         \/ queue' = queue /\ loop' = loop
         \/ Q!StopPolling(t)
  PROVE  Q!Informed(content, basis, seen[t], page'[t], queue'[t], loop'[t])
PROOF
  <1> DEFINE lps == loop[t]
             lps2 == loop'[t]
             next == page'[t]
             s == seen[t]
             pg == page[t]
  <1>1. /\ queue' = queue
        /\ Q!GoOn(lps, lps2)
    <2>1. Q!PQInv
      BY DEF CommitInv, Q!OnceInv
    <2>2. CASE queue' = queue /\ loop' = loop
      BY <2>2 DEF Q!GoOn
    <2>3. CASE Q!StopPolling(t)
      BY <2>1, <2>3, StoppedLoop
    <2> QED
      BY <2>2, <2>3
  <1>2. Q!Informed(content, basis, s, pg, queue[t], lps)
    BY DEF Informing
  <1>3. next.phase # "open" /\ Q!PageInformed(content, s, next) /\ content \in Q!Histories
    BY TabShape DEF Q!PageInformed
  <1> HIDE DEF lps, lps2, next, s, pg
  <1>4. Q!Informed(content, basis, s, next, queue[t], lps2)
    BY <1>1, <1>2, <1>3, Q!LeaveInformed
  <1> QED
    BY <1>1, <1>4 DEF lps2, next, s

\* It is opened, its details queued, and a loop begun if there is none.
LEMMA OpenInforms ==
  ASSUME CommitInv, AuxTyped, Informing, NEW t \in Tabs, Q!EnqueueProjectDetails(t)
  PROVE  Q!Informed(content, basis, seen[t], page'[t], queue'[t], loop'[t])
PROOF
  <1> DEFINE c == Q!SetDetails(page[t].project, page[t].version)
             H == content
             s == seen[t]
             pg == page[t]
             next == page'[t]
             q == queue[t]
             lps == loop[t]
             lps2 == loop'[t]
  <1>0. /\ page \in [Tabs -> Q!Pages] /\ queue \in [Tabs -> Seq(Q!Commands)]
        /\ loop \in [Tabs -> [Loops -> Q!SoundLoops]] /\ loop \in [Tabs -> [Loops -> Q!LoopStates]]
    BY Q!SoundLoopsTyped DEF CommitInv, Q!OnceInv, Q!PQInv, Q!PQTypeOK
  <1>1. /\ H \in Q!Histories /\ pg.phase = "loaded" /\ pg.project \in Projects /\ pg.version \in Nat
        /\ q \in Seq(Q!Commands) /\ lps \in [Loops -> Q!SoundLoops]
    BY <1>0, TabShape DEF Q!EnqueueProjectDetails, Q!Pages
  <1>2. c \in Q!Commands /\ c.type = "setDetails" /\ c.project = pg.project /\ c.version = pg.version
    <2>1. c \in Q!Commands
      BY <1>1, Q!CommandsTyped
    <2>2. c.type = "setDetails" /\ c.project = pg.project /\ c.version = pg.version
      BY DEF Q!SetDetails
    <2> QED
      BY <2>1, <2>2
  <1>3. Q!Enqueue(q, c) = Append(q, c)
    BY <1>2 DEF Q!Enqueue
  <1>4. next.phase = "open" /\ next.project = pg.project
    BY <1>0 DEF Q!EnqueueProjectDetails, Q!Pages
  <1>5. Q!Informed(H, basis, s, pg, q, lps)
    BY DEF Informing
  <1>6. \/ queue'[t] = Append(q, c) /\ lps2 = lps
        \/ \E l \in Loops :
             /\ \A k \in Loops \ {l} : lps2[k] = lps[k] /\ (lps[k].pc = "off" \/ lps[k].aborted)
             /\ lps2[l].pc = "batch" /\ lps2[l].batch = Append(q, c) /\ lps2[l].details = Q!NoDetails
             /\ queue'[t] = <<>>
    <2>1. CASE controller[t] # NoLoop /\ queue' = [queue EXCEPT ![t] = Q!Enqueue(queue[t], c)] /\ loop' = loop
      BY <1>0, <1>3, <2>1
    <2>2. ASSUME NEW l \in Loops, controller[t] = NoLoop, queue' = [queue EXCEPT ![t] = <<>>],
                 Q!SetLoop(t, l, Q!Taken(Q!OffLoop, Q!Enqueue(queue[t], c)))
          PROVE  /\ \A k \in Loops \ {l} : lps2[k] = lps[k] /\ (lps[k].pc = "off" \/ lps[k].aborted)
                 /\ lps2[l].pc = "batch" /\ lps2[l].batch = Append(q, c) /\ lps2[l].details = Q!NoDetails
                 /\ queue'[t] = <<>>
      <3> DEFINE q2 == Append(q, c)
                 to == Q!Taken(Q!OffLoop, q2)
      <3>1. Q!SetLoop(t, l, to)
        BY <1>3, <2>2
      <3>2. q2 # <<>>
        BY <1>1
      <3> HIDE DEF q2
      <3>3. to.pc = "batch" /\ to.batch = q2 /\ to.details = Q!NoDetails
        <4>1. Q!OffLoop.details = Q!NoDetails /\ Q!OffLoop \in Q!LoopStates
          BY Q!OffLoopSound DEF Q!OffLoop, Q!SoundLoops
        <4> HIDE DEF to
        <4>2. to = Q!Taken(Q!OffLoop, q2)
          BY DEF to
        <4> HIDE DEF Q!OffLoop
        <4> QED
          BY <3>2, <4>1, <4>2, Q!TakenFields
      <3> HIDE DEF to
      <3>4. loop'[t][l] = to /\ \A k \in Loops \ {l} : loop'[t][k] = loop[t][k]
        BY <1>0, <3>1, Q!SetAt
      <3>5. \A k \in Loops : loop[t][k].pc = "off" \/ loop[t][k].aborted
        <4>1. NoLoop \notin Loops
          BY SinglePlayerAssumption
        <4> QED
          BY <2>2, <4>1 DEF CommitInv, Q!OnceInv, Q!PQInv, Q!OneLiveLoop, Q!RunningLoops
      <3>6. queue'[t] = <<>>
        BY <1>0, <2>2
      <3> QED
        BY <3>3, <3>4, <3>5, <3>6 DEF q2
    <2>3. \/ controller[t] # NoLoop /\ queue' = [queue EXCEPT ![t] = Q!Enqueue(queue[t], c)] /\ loop' = loop
          \/ \E l \in Loops :
               /\ controller[t] = NoLoop /\ queue' = [queue EXCEPT ![t] = <<>>]
               /\ Q!SetLoop(t, l, Q!Taken(Q!OffLoop, Q!Enqueue(queue[t], c)))
      BY DEF Q!EnqueueProjectDetails
    <2> HIDE DEF c, q, lps, lps2
    <2> QED
      BY <2>1, <2>2, <2>3
  <1> HIDE DEF c, H, s, pg, next, q, lps, lps2
  <1>7. /\ Q!Informed(H, basis, s, next, Append(q, c), lps)
        /\ \A to : Q!Begins(lps, to, Append(q, c)) => Q!Informed(H, basis, s, next, <<>>, to)
    <2>1. Q!Shows(pg, next, c)
      BY <1>1, <1>2, <1>4 DEF Q!Shows
    <2> QED
      BY <1>1, <1>5, <2>1, Q!OpenInformed
  <1>8. Q!Informed(H, basis, s, next, queue'[t], lps2)
    <2>1. (queue'[t] = Append(q, c) /\ lps2 = lps) \/ (Q!Begins(lps, lps2, Append(q, c)) /\ queue'[t] = <<>>)
      BY <1>6 DEF Q!Begins
    <2> QED
      BY <1>7, <2>1
  <1> QED
    BY <1>8 DEF H, s, next, lps2

\* It is edited.
LEMMA EditInforms ==
  ASSUME CommitInv, AuxTyped, Informing, NEW t \in Tabs, NEW x \in Txns, Edit(t, x)
  PROVE  /\ Q!Informed(content, basis', seen'[t], page'[t], queue'[t], loop'[t])
         /\ \A u \in Tabs : ~ Q!CarriedBy(queue[u], loop[u], x)
         /\ basis' = [basis EXCEPT ![x] = seen[t]]
PROOF
  <1> DEFINE p == page[t].project
             q == queue[t]
             q2 == Q!Enqueue(q, Q!Transactions(p, <<x>>))
             pg == page[t]
             lps == loop[t]
             s == seen[t]
  <1>1. /\ page[t].phase = "open" /\ outcome[x] = "fresh"
        /\ queue' = [queue EXCEPT ![t] = q2] /\ page' = page /\ loop' = loop
        /\ basis' = [basis EXCEPT ![x] = seen[t]] /\ seen' = [seen EXCEPT ![t] = @ \cup {x}]
    BY SameSendTransaction DEF Edit, Q!SendTransaction
  <1>2. queue \in [Tabs -> Seq(Q!Commands)] /\ seen \in [Tabs -> SUBSET Txns] /\ p \in Projects
    BY <1>1, TabShape DEF AuxTyped, CommitInv, Q!OnceInv, Q!PQInv, Q!PQTypeOK
  <1>3. \A u \in Tabs : ~ Q!CarriedBy(queue[u], loop[u], x)
    BY <1>1 DEF CommitInv, Q!OnceInv
  <1>4. queue'[t] = q2 /\ seen'[t] = s \cup {x}
    <2> HIDE DEF q2
    <2> QED
      BY <1>1, <1>2
  <1>5. /\ content \in Q!Histories /\ basis \in Q!Bases /\ s \in SUBSET Txns
        /\ q \in Seq(Q!Commands) /\ lps \in [Loops -> Q!SoundLoops]
        /\ \A l \in Loops : Q!Sends(lps[l])
    BY TabShape
  <1>6. Q!Informed(content, basis, s, pg, q, lps) /\ ~ Q!CarriedBy(q, lps, x) /\ pg.phase = "open" /\ pg.project = p
    BY <1>1, <1>3 DEF Informing
  <1>7. basis' = [basis EXCEPT ![x] = s]
    BY <1>1
  <1> HIDE DEF p, q, pg, lps, s
  <1>8. Q!Informed(content, basis', s \cup {x}, pg, q2, lps)
    BY <1>2, <1>5, <1>6, <1>7, Q!EditInformed
  <1>9. page'[t] = pg /\ loop'[t] = lps
    BY <1>1 DEF pg, lps
  <1> QED
    BY <1>1, <1>3, <1>4, <1>8, <1>9

\* What an answer ok brings: the version it tells of has nothing but what the loop
\* remembered and the edits in hand.
LEMMA AnswerBrings ==
  ASSUME CommitInv, Connections, OkOwn, NEW t \in Tabs, NEW l \in Loops, NEW h \in Handlers, Answer(t, l, h),
         handler[h].result.status = "ok"
  PROVE  /\ handler[h].result.version <= Len(content[Q!InHand(t, l).project])
         /\ Q!Upto(content, Q!InHand(t, l).project, handler[h].result.version) \subseteq
              Q!Upto(content, Q!InHand(t, l).project, loop[t][l].details[Q!InHand(t, l).project])
                \cup ToSet(Q!InHand(t, l).transactions)
PROOF
  <1> DEFINE hd == handler[h]
             p == hd.project
             c == Q!InHand(t, l)
             d == loop[t][l].details
  <1>1. Connected(t, l, h) /\ hd.pc = "replied" /\ hd # S!Idle
    BY DEF Answer, Connected, Server!Idle, S!Idle
  <1>2. /\ c.transactions = hd.entries /\ c.project = p /\ d[p] = hd.clientVersion
    BY <1>1 DEF Connections, Asks, Q!InHand
  <1>3. hd.result.version <= version[p] /\ Own(content, p, hd.clientVersion, hd.entries, hd.result.version)
    BY <1>1 DEF OkOwn
  <1>4. p \in Projects /\ hd.clientVersion \in Nat /\ content[p] \in Seq(SUBSET Txns) /\ Len(content[p]) = version[p]
        /\ hd.result.version \in Nat
    <2>1. hd \in S!Busy /\ p \in Projects /\ hd.clientVersion \in Nat /\ content[p] \in Seq(SUBSET Txns)
      BY <1>1, Typed
    <2>2. hd.result.version \in Nat
      BY <2>1 DEF S!Busy, S!Results
    <2> QED
      BY <2>1, <2>2 DEF CommitInv, OneVersion
  <1> HIDE DEF hd, p, c, d
  <1>5. Q!Upto(content, p, hd.result.version) \subseteq Q!Upto(content, p, d[p]) \cup ToSet(c.transactions)
    <2> SUFFICES ASSUME NEW x \in Txns, NEW k \in DOMAIN content[p], k <= hd.result.version, x \in content[p][k],
                        ~ (k <= hd.clientVersion)
                 PROVE  x \in ToSet(hd.entries)
      BY <1>2 DEF Q!Upto
    <2>1. hd.clientVersion < k
      BY <1>4
    <2> QED
      BY <1>3, <2>1 DEF Own
  <1> QED
    BY <1>2, <1>3, <1>4, <1>5 DEF hd, c, d

\* Tabs stay informed.
LEMMA InformingNext ==
  ASSUME CommitInv, Connections, AuxTyped, Handed, Informing, OkOwn, [Next]_vars
  PROVE  Informing'
PROOF
  <1>0. /\ content \in Q!Histories /\ content' \in Q!Histories /\ Q!Grows(content, content')
        /\ basis \in Q!Bases /\ basis' \in Q!Bases /\ seen \in [Tabs -> SUBSET Txns]
    BY GrowsNext, AuxNext DEF AuxTyped, Q!Bases
  <1>1. ASSUME NEW u \in Tabs, page'[u] = page[u], queue'[u] = queue[u], loop'[u] = loop[u], seen'[u] = seen[u],
               \A x \in Txns : Q!CarriedBy(queue[u], loop[u], x) => basis'[x] = basis[x]
        PROVE  Q!Informed(content', basis', seen'[u], page'[u], queue'[u], loop'[u])
    <2> DEFINE H == content
               G == content'
               f == basis
               g == basis'
               s == seen[u]
               pg == page[u]
               q == queue[u]
               lps == loop[u]
    <2>1. /\ pg \in Q!SoundPages /\ q \in Seq(Q!Commands) /\ lps \in [Loops -> Q!SoundLoops]
          /\ \A l \in Loops : Q!Sends(lps[l])
      BY TabShape
    <2>2. /\ H \in Q!Histories /\ G \in Q!Histories /\ Q!Grows(H, G) /\ f \in Q!Bases /\ g \in Q!Bases
      BY <1>0
    <2>3. Q!Informed(H, f, s, pg, q, lps) /\ \A x \in Txns : Q!CarriedBy(q, lps, x) => g[x] = f[x]
      BY <1>1 DEF Informing
    <2> HIDE DEF H, G, f, g, s, pg, q, lps
    <2>4. Q!Informed(G, g, s, pg, q, lps)
      BY <2>1, <2>2, <2>3, Q!InformedStays
    <2> QED
      BY <1>1, <2>4 DEF G, g, s, pg, q, lps
  <1>2. ASSUME NEW t \in Tabs, content' = content, Q!Moves(t),
               Q!Informed(content, basis', seen'[t], page'[t], queue'[t], loop'[t]),
               \A u \in Tabs \ {t} : seen'[u] = seen[u],
               \A u \in Tabs \ {t}, x \in Txns : Q!CarriedBy(queue[u], loop[u], x) => basis'[x] = basis[x]
        PROVE  Informing'
    <2>1. Q!Informed(content', basis', seen'[t], page'[t], queue'[t], loop'[t])
      BY <1>2
    <2>2. ASSUME NEW u \in Tabs \ {t}
          PROVE  Q!Informed(content', basis', seen'[u], page'[u], queue'[u], loop'[u])
      <3>1. page'[u] = page[u] /\ queue'[u] = queue[u] /\ loop'[u] = loop[u]
        BY <1>2, OtherTabs DEF CommitInv
      <3> QED
        BY <1>1, <1>2, <3>1
    <2> QED
      BY <2>1, <2>2 DEF Informing
  <1>3. CASE UNCHANGED <<page, controller, queue, loop, seen, basis>>
    <2>1. \A u \in Tabs : Q!Informed(content', basis', seen'[u], page'[u], queue'[u], loop'[u])
      BY <1>1, <1>3
    <2> QED
      BY <2>1 DEF Informing
  <1>4. ASSUME NEW t \in Tabs, content' = content, Load(t)
        PROVE  Informing'
    <2>1. Q!Moves(t)
      <3>1. Q!LoadData(t, version[page[t].project]) /\ version[page[t].project] \in Nat
        <4>1. Q!LoadData(t, version[page[t].project]) /\ page[t].project \in Projects
          BY <1>4, SameLoadData, TabShape DEF Load, Q!LoadData
        <4> QED
          BY <4>1, Typed
      <3> QED
        BY <3>1 DEF Q!Moves
    <2>2. basis' = basis /\ \A u \in Tabs \ {t} : seen'[u] = seen[u]
      BY <1>0, <1>4 DEF Load
    <2>3. Q!Informed(content, basis', seen'[t], page'[t], queue'[t], loop'[t])
      BY <1>4, <2>2, LoadInforms
    <2> QED
      BY <1>2, <1>4, <2>1, <2>2, <2>3
  <1>5. ASSUME NEW t \in Tabs, content' = content, NEW x \in Txns, Edit(t, x)
        PROVE  Informing'
    <2>1. Q!Moves(t)
      BY <1>5, SameSendTransaction DEF Edit, Q!Moves, Q!Use
    <2>2. /\ Q!Informed(content, basis', seen'[t], page'[t], queue'[t], loop'[t])
          /\ \A u \in Tabs : ~ Q!CarriedBy(queue[u], loop[u], x)
          /\ basis' = [basis EXCEPT ![x] = seen[t]]
      BY <1>5, EditInforms
    <2>3. \A u \in Tabs \ {t} : seen'[u] = seen[u]
      BY <1>0, <1>5 DEF Edit
    <2>4. \A u \in Tabs \ {t}, y \in Txns : Q!CarriedBy(queue[u], loop[u], y) => basis'[y] = basis[y]
      BY <1>0, <2>2 DEF Q!Bases
    <2> QED
      BY <1>2, <1>5, <2>1, <2>2, <2>3, <2>4
  <1>6. ASSUME NEW t \in Tabs, content' = content, Act(t)
        PROVE  Informing'
    <2>1. Q!Moves(t) /\ UNCHANGED <<seen, basis>>
      BY <1>6, SameOpenProject, SameEnqueueProjectDetails, SameCloseDialog, SameUnmount DEF Act, Q!Moves, Q!Use, auxVars
    <2>2. Q!Informed(content, basis, seen[t], page'[t], queue'[t], loop'[t])
      <3>1. CASE Q!EnqueueProjectDetails(t)
        BY <3>1, OpenInforms
      <3>2. CASE (\E p \in Projects : Q!OpenProject(t, p)) \/ Q!CloseDialog(t) \/ Q!Unmount(t)
        <4>1. page \in [Tabs -> Q!Pages]
          BY DEF CommitInv, Q!OnceInv, Q!PQInv, Q!PQTypeOK
        <4>2. page'[t].phase \in {"closed", "loading"} /\ ((queue' = queue /\ loop' = loop) \/ Q!StopPolling(t))
          BY <3>2, <4>1 DEF Q!OpenProject, Q!CloseDialog, Q!Unmount, Q!ClosedPage, Q!queueVars
        <4> QED
          BY <4>2, LeaveInforms
      <3> QED
        BY <1>6, <3>1, <3>2, SameOpenProject, SameEnqueueProjectDetails, SameCloseDialog, SameUnmount DEF Act
    <2> QED
      BY <1>2, <1>6, <2>1, <2>2
  <1>7. ASSUME NEW t \in Tabs, content' = content, Reload(t)
        PROVE  Informing'
    <2>1. Q!Moves(t) /\ basis' = basis
      BY <1>7, SameReload DEF Reload, Q!Moves, Q!Use
    <2>2. \A u \in Tabs \ {t} : seen'[u] = seen[u]
      BY <1>0, <1>7 DEF Reload
    <2>3. page'[t].phase = "closed" /\ queue'[t] = <<>> /\ \A l \in Loops : loop'[t][l] = Q!OffLoop
      <3>1. Q!Reload(t)
        BY <1>7, SameReload DEF Reload
      <3>2. page \in [Tabs -> Q!Pages] /\ queue \in [Tabs -> Seq(Q!Commands)] /\ loop \in [Tabs -> [Loops -> Q!SoundLoops]]
        BY DEF CommitInv, Q!OnceInv, Q!PQInv, Q!PQTypeOK
      <3> QED
        BY <3>1, <3>2 DEF Q!Reload, Q!ClosedPage
    <2>4. Q!Informed(content, basis, seen'[t], page'[t], queue'[t], loop'[t])
      BY <1>0, <2>3, Q!FreshInformed
    <2> QED
      BY <1>2, <1>7, <2>1, <2>2, <2>4
  <1>8. ASSUME NEW t \in Tabs, content' = content, NEW l \in Loops, NEW result,
               Q!Step(t, l) \/ Q!SendPatch(t, l) \/ Q!NetworkError(t, l) \/ Q!Receive(t, l, result),
               loop[t][l].pc = "wait" /\ result.status = "ok" =>
                 /\ result.version <= Len(content[Q!InHand(t, l).project])
                 /\ Q!Upto(content, Q!InHand(t, l).project, result.version) \subseteq
                      Q!Upto(content, Q!InHand(t, l).project, loop[t][l].details[Q!InHand(t, l).project])
                        \cup ToSet(Q!InHand(t, l).transactions),
               UNCHANGED <<seen, basis>>, Q!Moves(t)
        PROVE  Informing'
    <2>1. Q!Informed(content, basis, seen[t], page[t], queue'[t], loop'[t])
      BY <1>8, LoopInforms
    <2>2. page' = page
      <3>1. Q!PQInv /\ \A u \in Tabs, k \in Loops : Q!Sends(loop[u][k])
        BY SoundSends DEF CommitInv, Q!OnceInv
      <3>2. UNCHANGED <<page, controller>>
        BY <1>8, <3>1, Q!LoopMovedBy
      <3> QED
        BY <3>2
    <2> QED
      BY <1>2, <1>8, <2>1, <2>2
  <1>9. ASSUME NEW t \in Tabs, content' = content, NEW l \in Loops,
               Run(t, l) \/ \E h \in Handlers : Send(t, l, h) \/ Break(t, l, h)
        PROVE  Informing'
    <2> DEFINE result == [status |-> "error", version |-> 0]
    <2>1. Q!Step(t, l) \/ Q!SendPatch(t, l) \/ Q!NetworkError(t, l)
      BY <1>9, SameStep, SameSendPatch, SameNetworkError DEF Run, Send, Break
    <2>2. Q!Moves(t) /\ UNCHANGED <<seen, basis>>
      <3>1. Q!Moves(t)
        BY <2>1 DEF Q!Moves
      <3> QED
        BY <1>9, <3>1 DEF Run, Send, Break, auxVars
    <2>3. result.status # "ok"
      OBVIOUS
    <2> HIDE DEF result
    <2> QED
      BY <1>8, <1>9, <2>1, <2>2, <2>3
  <1>10. ASSUME NEW t \in Tabs, content' = content, NEW l \in Loops, NEW h \in Handlers, Answer(t, l, h)
         PROVE  Informing'
    <2> DEFINE result == handler[h].result
    <2>1. Q!Receive(t, l, result) /\ UNCHANGED <<seen, basis>>
      BY <1>10, SameReceive DEF Answer, auxVars
    <2>2. result.version \in Nat
      <3>1. handler[h] # S!Idle
        BY <1>10 DEF Answer, Connected, Server!Idle, S!Idle
      <3>2. handler[h] \in S!Busy
        BY <3>1, Typed
      <3> QED
        BY <3>2 DEF S!Busy, S!Results
    <2>3. Q!Moves(t)
      BY <2>1, <2>2 DEF Q!Moves
    <2>4. loop[t][l].pc = "wait" /\ result.status = "ok" =>
            /\ result.version <= Len(content[Q!InHand(t, l).project])
            /\ Q!Upto(content, Q!InHand(t, l).project, result.version) \subseteq
                 Q!Upto(content, Q!InHand(t, l).project, loop[t][l].details[Q!InHand(t, l).project])
                   \cup ToSet(Q!InHand(t, l).transactions)
      BY <1>10, AnswerBrings
    <2> HIDE DEF result
    <2> QED
      BY <1>8, <1>10, <2>1, <2>3, <2>4
  <1> QED
    BY <1>3, <1>4, <1>5, <1>6, <1>7, <1>9, <1>10, TabSteps

-----------------------------------------------------------------------------
(* The server saves what the tabs sent.                                    *)

\* What an author saw is settled when the edit is made.
LEMMA BasisStays ==
  ASSUME AuxTyped, [Next]_vars, NEW x \in Txns, Q!InHandOnly(x)
  PROVE  basis'[x] = basis[x]
PROOF
  <1>1. CASE UNCHANGED basis
    BY <1>1
  <1>2. ASSUME NEW t \in Tabs, NEW y \in Txns, Edit(t, y)
        PROVE  basis'[x] = basis[x]
    <2>1. outcome[y] = "fresh"
      BY <1>2, SameSendTransaction DEF Edit, Q!SendTransaction
    <2>2. x # y
      BY <2>1 DEF Q!InHandOnly
    <2> QED
      BY <1>2, <2>2 DEF Edit, AuxTyped
  <1> QED
    BY <1>1, <1>2 DEF vars, auxVars, Next, Load, Act, Reload, Run, Send, Answer, Break, Serve, Falter

\* So it is for what a handler has or the row has.
LEMMA BasisSettled ==
  ASSUME CommitInv, AuxTyped, [Next]_vars
  PROVE  /\ \A h \in Handlers : handler[h] # S!Idle =>
              \A x \in ToSet(handler[h].entries) : x \in Txns /\ basis'[x] = basis[x]
         /\ \A p \in Projects : \A x \in Saved(p) : x \in Txns /\ Q!InHandOnly(x) /\ basis'[x] = basis[x]
PROOF
  <1>1. ASSUME NEW h \in Handlers, handler[h] # S!Idle, NEW x \in ToSet(handler[h].entries)
        PROVE  x \in Txns /\ basis'[x] = basis[x]
    <2>1. x \in Txns
      BY <1>1, Typed
    <2>2. Q!InHandOnly(x)
      BY <1>1 DEF CommitInv, Requested
    <2> QED
      BY <2>1, <2>2, BasisStays
  <1>2. ASSUME NEW p \in Projects, NEW x \in Saved(p)
        PROVE  x \in Txns /\ Q!InHandOnly(x) /\ basis'[x] = basis[x]
    <2>1. PICK i \in DOMAIN content[p] : x \in content[p][i]
      BY <1>2, InSaved
    <2>2. x \in Txns
      BY <2>1, Typed
    <2>3. Q!InHandOnly(x)
      BY <2>1 DEF CommitInv, Kept
    <2> QED
      BY <2>2, <2>3, BasisStays
  <1> QED
    BY <1>1, <1>2

\* A loop that sends, or waits for, what was in hand before had it so before.
LEMMA LoopKeeps ==
  ASSUME CommitInv, [Next]_vars, NEW t \in Tabs, NEW l \in Loops, loop'[t][l].pc \in {"send", "wait"},
         NEW x \in Txns, x \in ToSet(Head(loop'[t][l].batch).transactions), Q!InHandOnly(x)
  PROVE  /\ loop'[t][l].batch = loop[t][l].batch
         /\ loop'[t][l].details = loop[t][l].details
         /\ loop[t][l].pc \in {"send", "wait"}
PROOF
  <1>1. Q!OnceInv' /\ HandsHold
    BY TabSide
  <1>2. loop'[t][l] \in Q!SoundLoops /\ Q!Sends(loop'[t][l])
    BY <1>1 DEF Q!OnceInv, Q!PQInv, Q!Once
  <1>3. Q!Carries(loop'[t][l].batch, x)
    BY <1>2, HeadCarried
  <1>4. Q!StaysInHand(t, l, x)
    BY <1>1 DEF HandsHold
  <1> QED
    BY <1>3, <1>4 DEF Q!StaysInHand, Q!InHandOnly

\* The row remembers an edit of the save.
LEMMA SaveLast ==
  ASSUME CommitInv, NEW h \in Handlers, SaveBy(h)
  PROVE  /\ lastTransactionId'[handler[h].project] \in S!Batch(handler[h])
         /\ \A q \in Projects \ {handler[h].project} : lastTransactionId'[q] = lastTransactionId[q]
PROOF
  <1> DEFINE hd == handler[h]
             p == hd.project
  <1>1. p \in Projects /\ hd.entries \in Seq(Txns)
    BY SaveEffect, Typed DEF SaveBy, S!Busy
  <1>2. PICK x \in S!LatestOf(hd.entries, S!Batch(hd)) :
          lastTransactionId' = [lastTransactionId EXCEPT ![p] = x]
    BY DEF SaveBy, S!Saves, S!WriteRow
  <1>3. S!LatestOf(hd.entries, S!Batch(hd)) \subseteq S!Batch(hd)
    BY <1>1, S!EntriesTyped
  <1> QED
    BY <1>1, <1>2, <1>3 DEF CommitInv, S!InvFor, S!BPTypeOK

LEMMA LastStaysSaved ==
  ASSUME CommitInv, LastIsSaved, [Next]_vars
  PROVE  LastIsSaved'
PROOF
  <1>1. CASE UNCHANGED <<lastTransactionId, content>>
    BY <1>1 DEF LastIsSaved, Saved
  <1>2. ASSUME NEW h \in Handlers, SaveBy(h)
        PROVE  LastIsSaved'
    BY <1>2, SaveLast, SaveAdds DEF LastIsSaved, Saved, SavedAfter
  <1> QED
    BY <1>1, <1>2, ServerSide DEF Quiet, SentBy, S!Request

LEMMA OwnStays ==
  ASSUME NEW H \in Q!Histories, NEW G \in Q!Histories, Q!Grows(H, G),
         NEW p \in Projects, NEW v, NEW es, NEW top \in Int, top <= Len(H[p]), Own(H, p, v, es, top)
  PROVE  Own(G, p, v, es, top)
PROOF
  <1>1. H[p] \in Seq(SUBSET Txns) /\ G[p] \in Seq(SUBSET Txns)
    BY DEF Q!Histories
  <1>2. \A k \in DOMAIN G[p] : k <= top => k \in DOMAIN H[p] /\ G[p][k] = H[p][k]
    BY <1>1 DEF Q!Grows
  <1> QED
    BY <1>2 DEF Own

\* A save adds what its handler saves.
LEMMA OwnGrows ==
  ASSUME CommitInv, NEW h \in Handlers, SaveBy(h), NEW v,
         Own(content, handler[h].project, v, handler[h].entries, version[handler[h].project])
  PROVE  Own(content', handler[h].project, v, handler[h].entries, version'[handler[h].project])
PROOF
  <1> DEFINE p == handler[h].project
             es == handler[h].entries
             n == version[p] + 1
             batch == S!Batch(handler[h])
  <1>1. p \in Projects /\ batch \subseteq ToSet(es)
    BY SaveEffect
  <1>2. /\ DOMAIN content'[p] = DOMAIN content[p] \cup {n} /\ content'[p][n] = batch
        /\ \A i \in DOMAIN content[p] : i < n /\ content'[p][i] = content[p][i]
    BY SaveAppends
  <1>3. \A i \in DOMAIN content[p] : i <= version[p]
    BY <1>1, Typed DEF CommitInv, OneVersion
  <1> HIDE DEF p, es, n, batch
  <1> QED
    BY <1>1, <1>2, <1>3 DEF Own, p, es

\* And nothing to other projects.
LEMMA OwnElsewhere ==
  ASSUME CommitInv, NEW h \in Handlers, SaveBy(h), NEW q \in Projects \ {handler[h].project}, NEW v, NEW es, NEW top,
         Own(content, q, v, es, top)
  PROVE  Own(content', q, v, es, top)
PROOF BY SaveAppends DEF Own

\* The entries of a request were made by who had seen the version it is for, and
\* the entries before them.
HandlerSees ==
  \A h \in Handlers :
    LET hd == handler[h] IN
    handler[h] # S!Idle =>
      /\ hd.clientVersion <= version[hd.project]
      /\ Q!Ordered(basis, hd.entries)
      /\ \A x \in ToSet(hd.entries) : Q!Upto(content, hd.project, hd.clientVersion) \subseteq basis[x]

\* When the row remembers an entry of a request, what it has since the version of
\* the request is of the request.
HandlerOwn ==
  \A h \in Handlers :
    LET hd == handler[h] IN
    handler[h] # S!Idle /\ lastTransactionId[hd.project] \in ToSet(hd.entries) =>
      Own(content, hd.project, hd.clientVersion, hd.entries, version[hd.project])

\* So it is for what a loop has in hand.
LoopOwn ==
  \A t \in Tabs, l \in Loops :
    LET c == Q!InHand(t, l) IN
    loop[t][l].pc \in {"send", "wait"} /\ lastTransactionId[c.project] \in ToSet(c.transactions) =>
      Own(content, c.project, loop[t][l].details[c.project], c.transactions, version[c.project])

\* And for a handler that would win the compare-and-set; what it has to save was made
\* by who had seen all of the row.
MatchOwn ==
  \A h \in Handlers :
    LET hd == handler[h] IN
    S!Patching(hd) /\ S!Matches(hd) =>
      /\ Own(content, hd.project, hd.clientVersion, hd.entries, version[hd.project])
      /\ \A x \in hd.remaining : Saved(hd.project) \subseteq basis[x]

\* A handler has its request since the step before, or from a loop in this step.
LEMMA RequestsStay ==
  ASSUME CommitInv, [Next]_vars, NEW h \in Handlers, handler'[h] # S!Idle
  PROVE  \/ handler[h] # S!Idle /\ S!SameRequest(handler[h], handler'[h])
         \/ \E t \in Tabs, l \in Loops : SentBy(t, l, h)
PROOF
  <1>1. CASE Quiet
    BY <1>1, Typed DEF Quiet, S!Calm
  <1>2. ASSUME NEW k \in Handlers, SaveBy(k)
        PROVE  handler[h] # S!Idle /\ S!SameRequest(handler[h], handler'[h])
    BY <1>2, Typed DEF SaveBy, S!SameRequest
  <1>3. ASSUME NEW t \in Tabs, NEW l \in Loops, NEW k \in Handlers, SentBy(t, l, k), k # h
        PROVE  handler[h] # S!Idle /\ S!SameRequest(handler[h], handler'[h])
    <2>1. handler'[h] = handler[h]
      BY <1>3, Typed DEF SentBy, S!Request
    <2> QED
      BY <2>1 DEF S!SameRequest
  <1> QED
    BY <1>1, <1>2, <1>3, ServerSide

\* What a loop sends.
LEMMA SentShape ==
  ASSUME CommitInv, NEW t \in Tabs, NEW l \in Loops, NEW h \in Handlers, SentBy(t, l, h)
  PROVE  /\ loop[t][l].pc = "send"
         /\ UNCHANGED <<version, lastTransactionId, content>>
         /\ handler'[h].entries = Q!InHand(t, l).transactions
         /\ handler'[h].project = Q!InHand(t, l).project
         /\ handler'[h].clientVersion = loop[t][l].details[Q!InHand(t, l).project]
         /\ handler'[h].pc = "arrived"
         /\ \A k \in Handlers \ {h} : handler'[k] = handler[k]
         /\ Q!InHand(t, l).project \in Projects
PROOF
  <1>1. loop[t][l].pc = "send" /\ Q!OnceInv
    BY DEF SentBy, Q!SendPatch, CommitInv
  <1> QED
    BY <1>1, SentInHand, Typed DEF SentBy, S!Request

LEMMA VersionsGrow ==
  ASSUME CommitInv, [Next]_vars
  PROVE  \A p \in Projects : /\ version[p] \in Nat /\ version'[p] \in Nat /\ version[p] <= version'[p]
                             /\ Len(content[p]) = version[p] /\ Len(content'[p]) = version'[p]
PROOF
  <1>1. CommitInv' /\ Q!Grows(content, content')
    BY CommitNext, GrowsNext
  <1>2. version' \in [Projects -> Nat] /\ \A p \in Projects : Len(content'[p]) = version'[p]
    BY <1>1 DEF CommitInv, OneVersion, S!InvFor, S!BPTypeOK
  <1> QED
    BY <1>1, <1>2, Typed DEF CommitInv, OneVersion, Q!Grows

LEMMA HandlerSeesNext ==
  ASSUME CommitInv, AuxTyped, Informing, HandlerSees, [Next]_vars
  PROVE  HandlerSees'
PROOF
  <1> SUFFICES ASSUME NEW h \in Handlers, handler'[h] # S!Idle
               PROVE  LET hd == handler'[h] IN
                      /\ hd.clientVersion <= version'[hd.project]
                      /\ Q!Ordered(basis', hd.entries)
                      /\ \A x \in ToSet(hd.entries) : Q!Upto(content', hd.project, hd.clientVersion) \subseteq basis'[x]
    BY DEF HandlerSees
  <1> DEFINE new == handler'[h]
  <1>1. content \in Q!Histories /\ content' \in Q!Histories /\ Q!Grows(content, content')
    BY GrowsNext
  <1>2. CASE handler[h] # S!Idle /\ S!SameRequest(handler[h], new)
    <2> DEFINE hd == handler[h]
               p == hd.project
               v == hd.clientVersion
               es == hd.entries
    <2>1. new.project = p /\ new.clientVersion = v /\ new.entries = es
      BY <1>2 DEF S!SameRequest
    <2>2. p \in Projects /\ v \in Nat
      BY <1>2, Typed
    <2>3. v <= version[p] /\ Q!Ordered(basis, es) /\ \A x \in ToSet(es) : Q!Upto(content, p, v) \subseteq basis[x]
      BY <1>2 DEF HandlerSees
    <2>4. \A x \in ToSet(es) : basis'[x] = basis[x]
      BY <1>2, BasisSettled
    <2> HIDE DEF new, hd, p, v, es
    <2>5. v <= version'[p] /\ v <= Len(content[p])
      <3>1. version[p] \in Nat /\ version'[p] \in Nat /\ version[p] <= version'[p] /\ Len(content[p]) = version[p]
        BY <2>2, VersionsGrow
      <3> QED
        BY <2>2, <2>3, <3>1
    <2>6. Q!Upto(content', p, v) = Q!Upto(content, p, v)
      BY <1>1, <2>2, <2>5, Q!UptoStays
    <2>7. Q!Ordered(basis', es)
      <3>1. \A j \in DOMAIN es : es[j] \in ToSet(es)
        BY DEF ToSet
      <3> QED
        BY <2>3, <2>4, <3>1 DEF Q!Ordered
    <2> QED
      BY <2>1, <2>3, <2>4, <2>5, <2>6, <2>7 DEF new
  <1>3. ASSUME NEW t \in Tabs, NEW l \in Loops, SentBy(t, l, h)
        PROVE  /\ new.clientVersion <= version'[new.project]
               /\ Q!Ordered(basis', new.entries)
               /\ \A x \in ToSet(new.entries) : Q!Upto(content', new.project, new.clientVersion) \subseteq basis'[x]
    <2> DEFINE c == Q!InHand(t, l)
               d == loop[t][l].details
    <2>1. /\ loop[t][l].pc = "send" /\ UNCHANGED <<version, content>>
          /\ new.entries = c.transactions /\ new.project = c.project /\ new.clientVersion = d[c.project]
          /\ c.project \in Projects
      BY <1>3, SentShape
    <2>2. Q!LoopInformed(content, basis, seen[t], page[t], queue[t], loop[t][l])
      BY DEF Informing, Q!Informed
    <2>3. /\ d[c.project] <= version[c.project]
          /\ Q!Ordered(basis, c.transactions)
          /\ \A x \in ToSet(c.transactions) : Q!Upto(content, c.project, d[c.project]) \subseteq basis[x]
      <3>1. /\ d[c.project] <= Len(content[c.project])
            /\ Q!Ordered(basis, c.transactions)
            /\ \A x \in Q!ToSet(c.transactions) : Q!Upto(content, c.project, d[c.project]) \subseteq basis[x]
        BY <2>1, <2>2, Zenon DEF Q!LoopInformed, Q!InHand
      <3>2. Len(content[c.project]) = version[c.project]
        BY <2>1 DEF CommitInv, OneVersion
      <3>3. ToSet(c.transactions) = Q!ToSet(c.transactions)
        BY DEF ToSet, Q!ToSet
      <3> QED
        BY <3>1, <3>2, <3>3, Zenon
    <2>4. \A x \in ToSet(c.transactions) : basis'[x] = basis[x]
      <3>1. \A x \in ToSet(c.transactions) : x \in Txns /\ Q!InHandOnly(x)
        BY <2>1, SentInHand, Zenon DEF CommitInv
      <3> QED
        BY <3>1, BasisStays
    <2> HIDE DEF new, c, d
    <2>5. Q!Ordered(basis', c.transactions)
      <3>1. \A j \in DOMAIN c.transactions : c.transactions[j] \in ToSet(c.transactions)
        BY DEF ToSet
      <3> QED
        BY <2>3, <2>4, <3>1 DEF Q!Ordered
    <2> QED
      BY <2>1, <2>3, <2>4, <2>5
  <1> QED
    BY <1>2, <1>3, RequestsStay

LEMMA HandTyped ==
  ASSUME NEW lp \in Q!SoundLoops, Q!Sends(lp), lp.pc \in {"send", "wait"}
  PROVE  Head(lp.batch).project \in Projects /\ ToSet(Head(lp.batch).transactions) \subseteq Txns
PROOF
  <1>1. lp.batch \in Seq(Q!Commands) /\ lp.batch # <<>>
    BY DEF Q!SoundLoops, Q!LoopStates
  <1>2. Head(lp.batch) \in Q!Commands /\ Head(lp.batch).type = "transactions"
    BY <1>1 DEF Q!Sends
  <1>3. Head(lp.batch).project \in Projects /\ Head(lp.batch).transactions \in Seq(Txns)
    BY <1>2 DEF Q!Commands
  <1> QED
    BY <1>3 DEF ToSet

\* Who saves an edit of a request, or of what a loop has in hand, does it for that.
LEMMA SaveOwn ==
  ASSUME CommitInv, MatchOwn, NEW h \in Handlers, SaveBy(h)
  PROVE  LET hd == handler[h] IN
         /\ hd.project \in Projects
         /\ lastTransactionId'[hd.project] \in ToSet(hd.entries)
         /\ Own(content', hd.project, hd.clientVersion, hd.entries, version'[hd.project])
PROOF
  <1> DEFINE hd == handler[h]
  <1>1. hd.project \in Projects /\ S!Batch(hd) \subseteq ToSet(hd.entries)
    BY SaveEffect
  <1>2. lastTransactionId'[hd.project] \in S!Batch(hd)
    BY SaveLast
  <1>3. S!Patching(hd) /\ S!Matches(hd)
    BY DEF SaveBy, S!Saves, S!Patching
  <1>4. Own(content, hd.project, hd.clientVersion, hd.entries, version[hd.project])
    BY <1>3 DEF MatchOwn
  <1> QED
    BY <1>1, <1>2, <1>4, OwnGrows

LEMMA HandlerOwnNext ==
  ASSUME CommitInv, HandlerOwn, LoopOwn, MatchOwn, [Next]_vars
  PROVE  HandlerOwn'
PROOF
  <1> SUFFICES ASSUME NEW h \in Handlers, handler'[h] # S!Idle,
                      lastTransactionId'[handler'[h].project] \in ToSet(handler'[h].entries)
               PROVE  Own(content', handler'[h].project, handler'[h].clientVersion, handler'[h].entries,
                          version'[handler'[h].project])
    BY DEF HandlerOwn
  <1>1. CASE handler[h] # S!Idle /\ S!SameRequest(handler[h], handler'[h])
    <2> DEFINE hd == handler[h]
               q == hd.project
    <2>1. handler'[h].project = q /\ handler'[h].clientVersion = hd.clientVersion /\ handler'[h].entries = hd.entries
      BY <1>1 DEF S!SameRequest
    <2>2. q \in Projects
      BY <1>1, Typed
    <2>3. CASE UNCHANGED <<version, lastTransactionId, content>>
      BY <1>1, <2>1, <2>3 DEF HandlerOwn
    <2>4. ASSUME NEW k \in Handlers, SaveBy(k)
          PROVE  Own(content', q, hd.clientVersion, hd.entries, version'[q])
      <3>1. CASE q # handler[k].project
        <4>1. lastTransactionId'[q] = lastTransactionId[q] /\ version'[q] = version[q]
          BY <2>2, <2>4, <3>1, SaveLast, SaveAppends
        <4>2. Own(content, q, hd.clientVersion, hd.entries, version[q])
          BY <1>1, <2>1, <4>1 DEF HandlerOwn
        <4> QED
          BY <2>2, <2>4, <3>1, <4>1, <4>2, OwnElsewhere
      <3>2. CASE q = handler[k].project
        <4>1. handler[k] # S!Idle
          BY <2>4, Typed DEF SaveBy
        <4>2. lastTransactionId'[q] \in ToSet(handler[k].entries)
          BY <2>4, <3>2, SaveOwn
        <4>3. SameAttempt(handler[k], hd)
          BY <1>1, <2>1, <4>1, <4>2 DEF CommitInv, Alike
        <4> QED
          BY <2>4, <3>2, <4>3, SaveOwn DEF SameAttempt
      <3> QED
        BY <3>1, <3>2
    <2> QED
      BY <2>1, <2>3, <2>4, ServerSide DEF Quiet, SentBy, S!Request
  <1>2. ASSUME NEW t \in Tabs, NEW l \in Loops, SentBy(t, l, h)
        PROVE  Own(content', handler'[h].project, handler'[h].clientVersion, handler'[h].entries,
                   version'[handler'[h].project])
    <2> DEFINE c == Q!InHand(t, l)
    <2>1. /\ loop[t][l].pc = "send" /\ UNCHANGED <<version, lastTransactionId, content>>
          /\ handler'[h].entries = c.transactions /\ handler'[h].project = c.project
          /\ handler'[h].clientVersion = loop[t][l].details[c.project]
      BY <1>2, SentShape
    <2>2. Own(content, c.project, loop[t][l].details[c.project], c.transactions, version[c.project])
      <3>1. lastTransactionId[c.project] \in ToSet(c.transactions)
        BY <2>1
      <3> QED
        BY <2>1, <3>1, Zenon DEF LoopOwn
    <2> HIDE DEF c
    <2> QED
      BY <2>1, <2>2
  <1> QED
    BY <1>1, <1>2, RequestsStay

LEMMA LoopOwnNext ==
  ASSUME CommitInv, LastIsSaved, LoopOwn, MatchOwn, [Next]_vars
  PROVE  LoopOwn'
PROOF
  <1> SUFFICES ASSUME NEW t \in Tabs, NEW l \in Loops, loop'[t][l].pc \in {"send", "wait"},
                      NEW c, c = Q!InHand(t, l)',
                      lastTransactionId'[c.project] \in ToSet(c.transactions)
               PROVE  Own(content', c.project, loop'[t][l].details[c.project], c.transactions, version'[c.project])
    BY DEF LoopOwn
  <1>1. loop'[t][l] \in Q!SoundLoops /\ Q!Sends(loop'[t][l])
    <2>1. Q!OnceInv'
      BY TabSide
    <2> QED
      BY <2>1 DEF Q!OnceInv, Q!PQInv, Q!Once
  <1>2. c.project \in Projects /\ ToSet(c.transactions) \subseteq Txns
    BY <1>1, HandTyped DEF Q!InHand
  <1>3. CASE UNCHANGED <<version, lastTransactionId, content>>
    <2> DEFINE x == lastTransactionId[c.project]
    <2>1. x \in ToSet(c.transactions) /\ x \in Txns /\ x \in Saved(c.project)
      BY <1>2, <1>3 DEF LastIsSaved
    <2>2. Q!InHandOnly(x)
      <3>1. \A y \in Saved(c.project) : Q!InHandOnly(y)
        BY <1>2, InSaved DEF CommitInv, Kept
      <3> QED
        BY <2>1, <3>1
    <2> HIDE DEF x
    <2>3. /\ loop'[t][l].batch = loop[t][l].batch
          /\ loop'[t][l].details = loop[t][l].details
          /\ loop[t][l].pc \in {"send", "wait"}
      BY <2>1, <2>2, LoopKeeps DEF Q!InHand
    <2>4. c = Q!InHand(t, l)
      BY <2>3 DEF Q!InHand
    <2> QED
      BY <1>3, <2>3, <2>4 DEF LoopOwn
  <1>4. ASSUME UNCHANGED tabVars, NEW k \in Handlers, SaveBy(k)
        PROVE  Own(content', c.project, loop'[t][l].details[c.project], c.transactions, version'[c.project])
    <2>1. loop'[t][l] = loop[t][l] /\ c = Q!InHand(t, l)
      BY <1>4 DEF tabVars, Q!InHand
    <2>2. CASE c.project # handler[k].project
      <3>1. lastTransactionId'[c.project] = lastTransactionId[c.project] /\ version'[c.project] = version[c.project]
        <4>1. c.project \in Projects \ {handler[k].project}
          BY <1>2, <2>2
        <4> QED
          BY <1>4, <4>1, SaveLast, SaveAppends, Zenon
      <3>2. Own(content, c.project, loop[t][l].details[c.project], c.transactions, version[c.project])
        <4>1. /\ loop[t][l].pc \in {"send", "wait"}
              /\ lastTransactionId[c.project] \in ToSet(c.transactions)
          BY <2>1, <3>1
        <4> QED
          BY <2>1, <4>1, Zenon DEF LoopOwn
      <3> QED
        BY <1>2, <1>4, <2>1, <2>2, <3>1, <3>2, OwnElsewhere
    <2>3. CASE c.project = handler[k].project
      <3> DEFINE x == lastTransactionId'[c.project]
                 hd == handler[k]
      <3>1. hd # S!Idle /\ x \in ToSet(hd.entries) /\ x \in ToSet(c.transactions)
        <4>1. hd # S!Idle
          BY <1>4, Typed DEF SaveBy
        <4>2. lastTransactionId'[hd.project] \in ToSet(hd.entries)
          BY <1>4, SaveOwn
        <4> QED
          BY <2>3, <4>1, <4>2
      <3>2. Q!Carries(loop[t][l].batch, x)
        BY <1>1, <2>1, <3>1, HeadCarried DEF Q!InHand
      <3>3. Asks(loop[t][l], hd)
        BY <3>1, <3>2 DEF CommitInv, Requested
      <3>4. c.transactions = hd.entries /\ loop[t][l].details[c.project] = hd.clientVersion
        BY <2>1, <2>3, <3>3 DEF Asks, Q!InHand
      <3>5. Own(content', hd.project, hd.clientVersion, hd.entries, version'[hd.project])
        BY <1>4, SaveOwn
      <3> QED
        BY <2>1, <2>3, <3>4, <3>5
    <2> QED
      BY <2>2, <2>3
  <1>5. UNCHANGED <<version, lastTransactionId, content>>
        \/ (UNCHANGED tabVars /\ \E k \in Handlers : SaveBy(k))
    BY ServerSide, Zenon DEF Quiet, SentBy, S!Request
  <1> QED
    BY <1>3, <1>4, <1>5

\* All of the row is what its last version contains.
LEMMA AllOfIt ==
  ASSUME CommitInv, NEW p \in Projects
  PROVE  Saved(p) \subseteq Q!Upto(content, p, version[p])
PROOF
  <1>1. content[p] \in Seq(SUBSET Txns) /\ Len(content[p]) = version[p]
    BY Typed DEF CommitInv, OneVersion
  <1>2. \A i \in DOMAIN content[p] : i <= version[p] /\ content[p][i] \subseteq Txns
    BY <1>1
  <1> QED
    BY <1>2, InSaved DEF Q!Upto

\* The entry that is saved next was made before those that are left.
LEMMA EarliestSeen ==
  ASSUME NEW hd \in S!Busy, hd.mode = "entries", hd.remaining \subseteq ToSet(hd.entries),
         NEW f, Q!Ordered(f, hd.entries), NEW x \in hd.remaining, x \notin S!Batch(hd)
  PROVE  S!Batch(hd) \subseteq f[x]
PROOF
  <1> DEFINE es == hd.entries
             rest == hd.remaining
  <1>1. es \in Seq(Txns) /\ S!Batch(hd) = S!EarliestOf(es, rest)
    BY DEF S!Busy, S!Batch
  <1>2. PICK j \in DOMAIN es : x = es[j]
    BY DEF ToSet
  <1> HIDE DEF es, rest
  <1> SUFFICES ASSUME NEW b \in S!EarliestOf(es, rest)
               PROVE  b \in f[x]
    BY <1>1
  <1>3. PICK i \in DOMAIN es : b = es[i] /\ es[i] \in rest /\ \A k \in 1..(i-1) : es[k] \notin rest
    BY DEF S!EarliestOf
  <1>4. i \in Nat /\ j \in Nat /\ j >= 1 /\ i >= 1
    BY <1>1
  <1>5. j # i
    BY <1>1, <1>2, <1>3
  <1>6. ~ (j < i)
    <2>1. es[j] \in rest
      BY <1>2 DEF rest
    <2> QED
      BY <1>3, <1>4, <2>1
  <1>7. i < j
    BY <1>4, <1>5, <1>6
  <1> QED
    BY <1>2, <1>3, <1>7 DEF Q!Ordered, es

LEMMA MatchOwnNext ==
  ASSUME CommitInv, AuxTyped, HandlerSees, MatchOwn, [Next]_vars
  PROVE  MatchOwn'
PROOF
  <1> SUFFICES ASSUME NEW h \in Handlers, S!Patching(handler'[h]),
                      version'[handler'[h].project] = handler'[h].version
               PROVE  /\ Own(content', handler'[h].project, handler'[h].clientVersion, handler'[h].entries,
                             version'[handler'[h].project])
                      /\ \A x \in handler'[h].remaining : SavedAfter(handler'[h].project) \subseteq basis'[x]
    BY DEF MatchOwn, S!Matches, SavedAfter, Saved, S!Patching
  <1> DEFINE hd == handler[h]
             new == handler'[h]
             p == hd.project
             Goal == /\ Own(content', new.project, new.clientVersion, new.entries, version'[new.project])
                     /\ \A x \in new.remaining : SavedAfter(new.project) \subseteq basis'[x]
  <1>0. new # S!Idle /\ new.pc # "arrived"
    BY DEF S!Patching, S!Idle
  <1>1. ASSUME hd # S!Idle, S!SameRequest(hd, new), UNCHANGED <<version, content>>, S!ProceedsTo(hd, new)
        PROVE  Goal
    <2>1. /\ new.project = p /\ new.clientVersion = hd.clientVersion /\ new.entries = hd.entries
          /\ new.remaining = hd.remaining /\ new.version = hd.version
          /\ SavedAfter(p) = Saved(p)
      BY <1>1 DEF S!SameRequest, S!ProceedsTo, SavedAfter, Saved
    <2>2. S!Patching(hd) /\ S!Matches(hd)
      BY <1>1, <2>1 DEF S!ProceedsTo, S!Matches
    <2>3. /\ Own(content, p, hd.clientVersion, hd.entries, version[p])
          /\ \A x \in hd.remaining : Saved(p) \subseteq basis[x]
      BY <2>2 DEF MatchOwn
    <2>4. \A x \in hd.remaining : basis'[x] = basis[x]
      <3>1. hd.remaining \subseteq ToSet(hd.entries)
        BY <2>2 DEF CommitInv, Unsaved
      <3> QED
        BY <1>1, <3>1, BasisSettled
    <2> HIDE DEF hd, new, p
    <2> QED
      BY <1>1, <2>1, <2>3, <2>4
  <1>2. ASSUME hd # S!Idle, S!SameRequest(hd, new), UNCHANGED <<version, content>>, S!Starts(hd, new)
        PROVE  Goal
    <2>1. /\ new.project = p /\ new.clientVersion = hd.clientVersion /\ new.entries = hd.entries
          /\ new.version = hd.clientVersion
          /\ SavedAfter(p) = Saved(p) /\ p \in Projects /\ hd.clientVersion \in Nat
      BY <1>1, <1>2, Typed DEF S!SameRequest, S!Starts, SavedAfter, Saved
    <2>2. new.remaining \subseteq ToSet(hd.entries)
      BY <1>2 DEF S!Starts, S!ToSet, ToSet
    <2>3. version[p] = hd.clientVersion
      BY <1>2, <2>1
    <2>4. content[p] \in Seq(SUBSET Txns)
      BY <2>1, Typed
    <2>5. \A x \in ToSet(hd.entries) : Saved(p) \subseteq basis[x] /\ basis'[x] = basis[x]
      BY <1>2, <2>1, <2>3, AllOfIt, BasisSettled DEF HandlerSees
    <2> HIDE DEF hd, new, p
    <2>6. Own(content, p, version[p], hd.entries, version[p])
      <3>1. version[p] \in Nat
        BY <2>1, <2>3
      <3> QED
        BY <2>4, <3>1 DEF Own
    <2> QED
      BY <1>2, <2>1, <2>2, <2>3, <2>5, <2>6
  <1>3. ASSUME Quiet
        PROVE  Goal
    <2>1. /\ hd # S!Idle /\ S!SameRequest(hd, new) /\ UNCHANGED <<version, content>>
          /\ S!ProceedsTo(hd, new) \/ S!Starts(hd, new)
      BY <1>0, <1>3, Typed DEF Quiet, S!Calm
    <2> QED
      BY <1>1, <1>2, <2>1
  <1>4. ASSUME new = hd, UNCHANGED <<version, content>>
        PROVE  Goal
    <2>1. hd # S!Idle /\ S!SameRequest(hd, new) /\ S!ProceedsTo(hd, new)
      BY <1>0, <1>4 DEF S!SameRequest, S!ProceedsTo
    <2> QED
      BY <1>1, <1>4, <2>1
  <1>5. ASSUME NEW t \in Tabs, NEW l \in Loops, NEW k \in Handlers, SentBy(t, l, k)
        PROVE  Goal
    <2>1. h # k /\ new = hd /\ UNCHANGED <<version, content>>
      BY <1>0, <1>5, SentShape
    <2> QED
      BY <1>4, <2>1
  <1>6. ASSUME SaveBy(h)
        PROVE  Goal
    <2>1. /\ new.project = p /\ new.clientVersion = hd.clientVersion /\ new.entries = hd.entries
          /\ hd # S!Idle /\ hd \in S!Busy
      BY <1>6, Typed DEF SaveBy, S!SameRequest
    <2>2. Own(content', p, hd.clientVersion, hd.entries, version'[p])
      BY <1>6, SaveOwn
    <2>3. /\ new.remaining = hd.remaining \ S!Batch(hd) /\ new.remaining # {}
          /\ S!Patching(hd) /\ S!Matches(hd)
      BY <1>6 DEF SaveBy, S!Saves, S!Patching
    <2>4. hd.mode = "entries"
      BY <2>1, <2>3 DEF S!Batch, S!Busy
    <2>5. hd.remaining \subseteq ToSet(hd.entries) /\ SavedAfter(p) = Saved(p) \cup S!Batch(hd)
      BY <1>6, SaveEffect, SaveAdds
    <2>6. Q!Ordered(basis, hd.entries) /\ \A x \in hd.remaining : Saved(p) \subseteq basis[x]
      BY <2>1, <2>3 DEF HandlerSees, MatchOwn
    <2>7. \A x \in new.remaining : S!Batch(hd) \subseteq basis[x]
      BY <2>1, <2>3, <2>4, <2>5, <2>6, EarliestSeen
    <2>8. \A x \in new.remaining : basis'[x] = basis[x]
      BY <2>1, <2>3, <2>5, BasisSettled
    <2> HIDE DEF hd, new, p
    <2> QED
      BY <2>1, <2>2, <2>3, <2>5, <2>6, <2>7, <2>8
  <1>7. ASSUME NEW k \in Handlers \ {h}, SaveBy(k)
        PROVE  Goal
    <2>1. new = hd /\ hd # S!Idle /\ hd \in S!Busy /\ p \in Projects /\ S!Patching(hd)
      BY <1>0, <1>7, Typed DEF SaveBy
    <2>2. CASE p = handler[k].project
      <3>1. version'[p] = version[p] + 1 /\ version[p] \in Nat
        BY <1>7, <2>1, <2>2, SaveAppends, Typed
      <3>2. hd.version <= version[p]
        BY <2>1 DEF CommitInv, S!InvFor, S!VersionAsRead, S!Patching
      <3>3. hd.version = version[p] + 1
        BY <2>1, <3>1
      <3> QED
        BY <3>1, <3>2, <3>3
    <2>3. CASE p # handler[k].project
      <3>1. version'[p] = version[p] /\ SavedAfter(p) = Saved(p)
        BY <1>7, <2>1, <2>3, SaveAppends, SaveAdds
      <3>2. S!Matches(hd)
        BY <2>1, <3>1 DEF S!Matches
      <3>3. /\ Own(content, p, hd.clientVersion, hd.entries, version[p])
            /\ \A x \in hd.remaining : Saved(p) \subseteq basis[x]
        BY <2>1, <3>2 DEF MatchOwn
      <3>4. Own(content', p, hd.clientVersion, hd.entries, version[p])
        BY <1>7, <2>1, <2>3, <3>3, OwnElsewhere
      <3>5. \A x \in hd.remaining : basis'[x] = basis[x]
        <4>1. hd.remaining \subseteq ToSet(hd.entries)
          BY <2>1 DEF CommitInv, Unsaved
        <4> QED
          BY <2>1, <4>1, BasisSettled
      <3> HIDE DEF hd, new, p
      <3> QED
        BY <2>1, <3>1, <3>3, <3>4, <3>5 DEF p
    <2> QED
      BY <2>2, <2>3
  <1>8. ASSUME NEW k \in Handlers, SaveBy(k)
        PROVE  Goal
    <2>1. CASE k = h
      <3>1. SaveBy(h)
        BY <1>8, <2>1
      <3> QED
        BY <1>6, <3>1
    <2>2. CASE k # h
      BY <1>7, <1>8, <2>2
    <2> QED
      BY <2>1, <2>2
  <1>9. Quiet \/ (\E k \in Handlers : SaveBy(k)) \/ \E t \in Tabs, l \in Loops, k \in Handlers : SentBy(t, l, k)
    BY ServerSide
  <1>10. Goal
    <2> HIDE DEF Goal
    <2> QED
      BY <1>3, <1>5, <1>8, <1>9
  <1> QED
    BY <1>10

LEMMA OkOwnNext ==
  ASSUME CommitInv, HandlerOwn, MatchOwn, OkOwn, [Next]_vars
  PROVE  OkOwn'
PROOF
  <1> SUFFICES ASSUME NEW h \in Handlers, handler'[h] # S!Idle, handler'[h].pc = "replied",
                      handler'[h].result.status = "ok"
               PROVE  /\ handler'[h].result.version <= version'[handler'[h].project]
                      /\ Own(content', handler'[h].project, handler'[h].clientVersion, handler'[h].entries,
                             handler'[h].result.version)
    BY DEF OkOwn
  <1> DEFINE hd == handler[h]
             new == handler'[h]
             p == hd.project
             top == new.result.version
             Goal == top <= version'[p] /\ Own(content', p, hd.clientVersion, hd.entries, top)
  <1>1. hd # S!Idle /\ S!SameRequest(hd, new)
    <2>1. \A t \in Tabs, l \in Loops : ~ SentBy(t, l, h)
      BY SentShape
    <2> QED
      BY <2>1, RequestsStay
  <1>2. /\ new.project = p /\ new.clientVersion = hd.clientVersion /\ new.entries = hd.entries
        /\ p \in Projects /\ hd \in S!Busy
    BY <1>1, Typed DEF S!SameRequest
  <1>3. /\ version[p] \in Nat /\ version'[p] \in Nat /\ version[p] <= version'[p] /\ Len(content[p]) = version[p]
        /\ content \in Q!Histories /\ content' \in Q!Histories /\ Q!Grows(content, content')
    BY <1>2, VersionsGrow, GrowsNext
  <1>4. ASSUME hd.pc = "replied", new.result = hd.result
        PROVE  Goal
    <2>1. top \in Nat
      BY <1>2, <1>4 DEF S!Busy, S!Results
    <2>2. top <= version[p] /\ Own(content, p, hd.clientVersion, hd.entries, top)
      BY <1>1, <1>4 DEF OkOwn
    <2> HIDE DEF hd, p, top
    <2>3. top <= version'[p] /\ top <= Len(content[p]) /\ top \in Int
      BY <1>3, <2>1, <2>2
    <2> QED
      BY <1>2, <1>3, <2>2, <2>3, OwnStays
  <1>5. ASSUME hd.pc = "authorizing", lastTransactionId[p] \in S!ToSet(hd.entries), top = hd.version
        PROVE  Goal
    <2>1. top \in Nat /\ top <= version[p]
      BY <1>2, <1>5 DEF S!Busy, CommitInv, S!InvFor, S!VersionAsRead
    <2>2. lastTransactionId[p] \in ToSet(hd.entries)
      BY <1>5 DEF S!ToSet, ToSet
    <2>3. Own(content, p, hd.clientVersion, hd.entries, version[p])
      BY <1>1, <2>2 DEF HandlerOwn
    <2>4. content[p] \in Seq(SUBSET Txns)
      BY <1>2, Typed
    <2> HIDE DEF hd, p, top
    <2>5. Own(content, p, hd.clientVersion, hd.entries, top)
      <3>1. \A k \in DOMAIN content[p] : k <= top => k <= version[p]
        BY <1>3, <2>1, <2>4
      <3> QED
        BY <2>3, <3>1 DEF Own
    <2>6. top <= version'[p] /\ top <= Len(content[p]) /\ top \in Int
      BY <1>3, <2>1
    <2> QED
      BY <1>2, <1>3, <2>5, <2>6, OwnStays
  <1>6. ASSUME SaveBy(h), top = hd.version + 1
        PROVE  Goal
    <2>1. Own(content', p, hd.clientVersion, hd.entries, version'[p])
      BY <1>6, SaveOwn
    <2>2. version'[p] = version[p] + 1 /\ hd.version = version[p]
      BY <1>6, SaveAppends, SaveEffect
    <2> HIDE DEF hd, p, top
    <2> QED
      BY <1>3, <1>6, <2>1, <2>2
  <1>7. ASSUME Quiet, S!Saves(hd, new)
        PROVE  FALSE
    <2>1. version' = [version EXCEPT ![p] = hd.version + 1] /\ version[p] = hd.version /\ version' = version
      BY <1>7 DEF S!Saves, S!WriteRow, S!Matches, Quiet
    <2>2. version \in [Projects -> Nat]
      BY Typed
    <2> HIDE DEF hd, p
    <2>3. version'[p] = hd.version + 1
      BY <1>2, <2>1, <2>2
    <2> QED
      BY <1>3, <2>1, <2>3
  <1>8. ASSUME S!Tells(hd, new), S!Saves(hd, new) => SaveBy(h)
        PROVE  Goal
    <2>1. \/ hd.pc = "replied" /\ new.result = hd.result
          \/ hd.pc = "authorizing" /\ lastTransactionId[p] \in S!ToSet(hd.entries) /\ top = hd.version
          \/ S!Saves(hd, new) /\ top = hd.version + 1
      BY <1>8 DEF S!Tells
    <2> HIDE DEF Goal
    <2> QED
      BY <1>4, <1>5, <1>6, <1>8, <2>1
  <1>9. ASSUME Quiet
        PROVE  Goal
    <2>1. S!Tells(hd, new)
      BY <1>9 DEF Quiet, S!Calm
    <2> HIDE DEF Goal
    <2> QED
      BY <1>7, <1>8, <1>9, <2>1
  <1>10. ASSUME new = hd
         PROVE  Goal
    BY <1>4, <1>10
  <1>11. ASSUME NEW k \in Handlers, SaveBy(k)
         PROVE  Goal
    <2>1. CASE k = h
      <3>1. SaveBy(h) /\ S!Tells(hd, new)
        BY <1>11, <2>1 DEF SaveBy
      <3> HIDE DEF Goal
      <3> QED
        BY <1>8, <3>1
    <2>2. CASE k # h
      <3>1. new = hd
        BY <1>11, <2>2 DEF SaveBy
      <3> HIDE DEF Goal
      <3> QED
        BY <1>10, <3>1
    <2> QED
      BY <2>1, <2>2
  <1>12. ASSUME NEW t \in Tabs, NEW l \in Loops, NEW k \in Handlers, SentBy(t, l, k)
         PROVE  Goal
    <2>1. new = hd
      BY <1>12, SentShape
    <2> HIDE DEF Goal
    <2> QED
      BY <1>10, <2>1
  <1>13. Goal
    <2>1. Quiet \/ (\E k \in Handlers : SaveBy(k)) \/ \E t \in Tabs, l \in Loops, k \in Handlers : SentBy(t, l, k)
      BY ServerSide
    <2> HIDE DEF Goal
    <2> QED
      BY <1>9, <1>11, <1>12, <2>1
  <1> QED
    BY <1>2, <1>13

LEMMA NoBlindWriteNext ==
  ASSUME CommitInv, AuxTyped, MatchOwn, NoBlindWrite, [Next]_vars
  PROVE  NoBlindWrite'
PROOF
  <1>0. \A p \in Projects : \A i \in DOMAIN content[p] : \A x \in content[p][i] : basis'[x] = basis[x]
    BY BasisSettled, InSaved
  <1>1. CASE content' = content
    BY <1>0, <1>1 DEF NoBlindWrite
  <1>2. ASSUME NEW h \in Handlers, SaveBy(h)
        PROVE  NoBlindWrite'
    <2> DEFINE p == handler[h].project
               hd == handler[h]
               batch == S!Batch(hd)
               n == version[p] + 1
    <2>1. /\ p \in Projects /\ batch \subseteq hd.remaining /\ hd.remaining \subseteq ToSet(hd.entries)
      BY <1>2, SaveEffect
    <2>2. /\ \A q \in Projects \ {p} : content'[q] = content[q]
          /\ DOMAIN content'[p] = DOMAIN content[p] \cup {n} /\ content'[p][n] = batch
          /\ \A i \in DOMAIN content[p] : i < n /\ i # n /\ content'[p][i] = content[p][i]
      BY <1>2, SaveAppends
    <2>3. \A x \in batch : Saved(p) \subseteq basis[x] /\ basis'[x] = basis[x]
      <3>1. S!Patching(hd) /\ S!Matches(hd) /\ hd # S!Idle
        BY <1>2, Typed DEF SaveBy, S!Saves, S!Patching
      <3> QED
        BY <2>1, <3>1, BasisSettled DEF MatchOwn
    <2>4. content \in [Projects -> Seq(SUBSET Txns)] /\ version[p] \in Nat /\ DOMAIN content[p] = 1..version[p]
      BY <2>1, Typed DEF CommitInv, OneVersion
    <2> SUFFICES ASSUME NEW q \in Projects, NEW i \in DOMAIN content'[q], NEW x \in content'[q][i],
                        NEW k \in 1..(i-1), NEW y \in content'[q][k]
                 PROVE  y \in basis'[x]
      BY DEF NoBlindWrite
    <2> HIDE DEF p, hd, batch, n
    <2>5. ASSUME i \in DOMAIN content[q], content'[q][i] = content[q][i], content'[q][k] = content[q][k]
          PROVE  y \in basis'[x]
      <3>1. UNION {content[q][j] : j \in 1..(i-1)} \subseteq basis[x] /\ basis'[x] = basis[x]
        BY <1>0, <2>5 DEF NoBlindWrite
      <3>2. y \in UNION {content[q][j] : j \in 1..(i-1)}
        BY <2>5
      <3> QED
        BY <3>1, <3>2
    <2>6. CASE q # p
      BY <2>2, <2>5, <2>6
    <2>7. CASE q = p /\ i # n
      <3>1. i \in DOMAIN content[p] /\ content'[p][i] = content[p][i]
        BY <2>2, <2>7
      <3>2. k \in DOMAIN content[p]
        BY <2>4, <3>1
      <3> QED
        BY <2>2, <2>5, <2>7, <3>1, <3>2
    <2>8. CASE q = p /\ i = n
      <3>1. k \in DOMAIN content[p] /\ content'[p][k] = content[p][k]
        BY <2>2, <2>4, <2>8 DEF n
      <3>2. y \in Saved(p)
        BY <2>8, <3>1, InSaved
      <3>3. x \in batch
        BY <2>2, <2>8
      <3> QED
        BY <2>3, <3>2, <3>3
    <2> QED
      BY <2>6, <2>7, <2>8
  <1> QED
    BY <1>1, <1>2, ServerSide DEF Quiet, SentBy, S!Request

-----------------------------------------------------------------------------
(* Nothing is overwritten blindly.                                         *)

\* The inductive invariant.
SeenInv ==
  /\ CommitInv
  /\ Connections
  /\ AuxTyped
  /\ Handed
  /\ Informing
  /\ LastIsSaved
  /\ HandlerSees
  /\ HandlerOwn
  /\ LoopOwn
  /\ MatchOwn
  /\ OkOwn
  /\ NoBlindWrite

LEMMA SeenInit ==
  ASSUME Init
  PROVE  SeenInv
PROOF
  <1>1. CommitInv /\ SavedInv
    BY CommitInit, SavedInit
  <1>2. AuxTyped
    BY SinglePlayerAssumption DEF Init, AuxTyped
  <1>3. Q!PQInit /\ S!BPInit
    BY SamePQInit, SameBPInit DEF Init
  <1>4. Handed
    BY <1>3 DEF Q!PQInit, Q!ClosedPage, Q!OffLoop, Handed, HandedDialog, HandedBuilder, OnlyTransactions
  <1>5. Informing
    <2>1. content \in Q!Histories
      BY <1>1, Typed DEF Q!Histories
    <2>2. ASSUME NEW t \in Tabs
          PROVE  page[t].phase = "closed" /\ queue[t] = <<>> /\ \A l \in Loops : loop[t][l] = Q!OffLoop
      BY <1>3 DEF Q!PQInit, Q!ClosedPage
    <2>3. ASSUME NEW t \in Tabs
          PROVE  Q!Informed(content, basis, seen[t], page[t], queue[t], loop[t])
      BY <2>1, <2>2, Q!FreshInformed
    <2> QED
      BY <2>3 DEF Informing
  <1>6. /\ \A h \in Handlers : handler[h] = S!Idle /\ ~ S!Patching(handler[h])
        /\ \A t \in Tabs, l \in Loops : loop[t][l].pc = "off"
        /\ \A p \in Projects : content[p] = <<>>
    BY <1>3 DEF S!BPInit, Q!PQInit, Q!OffLoop, S!Patching, S!Idle
  <1> QED
    BY <1>1, <1>2, <1>4, <1>5, <1>6
       DEF SeenInv, SavedInv, HandlerSees, HandlerOwn, LoopOwn, MatchOwn, OkOwn, NoBlindWrite

LEMMA SeenNext ==
  ASSUME SeenInv, [Next]_vars, BuilderStays
  PROVE  SeenInv'
PROOF
  <1>1. CommitInv' /\ Connections' /\ AuxTyped' /\ Handed' /\ LastIsSaved'
    BY CommitNext, ConnectionsNext, AuxNext, HandedNext, LastStaysSaved DEF SeenInv
  <1>2. Informing'
    BY InformingNext DEF SeenInv
  <1>3. HandlerSees' /\ HandlerOwn' /\ LoopOwn' /\ MatchOwn' /\ OkOwn'
    BY HandlerSeesNext, HandlerOwnNext, LoopOwnNext, MatchOwnNext, OkOwnNext DEF SeenInv
  <1>4. NoBlindWrite'
    BY NoBlindWriteNext DEF SeenInv
  <1> QED
    BY <1>1, <1>2, <1>3, <1>4 DEF SeenInv

\* The page of a builder is at the host of its project: another project is another page.
BuildersStay == [][BuilderStays]_vars

\* Two tabs never overwrite each other blindly, while a builder's page keeps its
\* project: whoever made a saved edit had seen everything the row had before it.
THEOREM NothingOverwrittenBlindly == Spec /\ BuildersStay => []NoBlindWrite
PROOF
  <1>1. SeenInv /\ [Next]_vars /\ [BuilderStays]_vars => SeenInv'
    <2>1. UNCHANGED vars => BuilderStays
      BY DEF vars, tabVars, BuilderStays
    <2> QED
      BY <2>1, SeenNext
  <1>2. SeenInv => NoBlindWrite
    BY DEF SeenInv
  <1> QED
    BY <1>1, <1>2, SeenInit, PTL DEF Spec, BuildersStay

\* With one project there is no other to leave it for.
LEMMA OneProjectStays ==
  ASSUME \A p, q \in Projects : p = q, CommitInv, [Next]_vars
  PROVE  BuilderStays
PROOF
  <1>1. CommitInv'
    BY CommitNext
  <1>2. \A t \in Tabs : page[t].client \in Projects \cup {NoProject}
    BY DEF CommitInv, Q!OnceInv, Q!PQInv, Q!PQTypeOK, Q!Pages
  <1>3. \A t \in Tabs : page'[t].phase # "closed" => page'[t].project \in Projects
    BY <1>1 DEF CommitInv, Q!OnceInv, Q!PQInv, Q!SoundPages
  <1> QED
    BY <1>2, <1>3 DEF BuilderStays

\* So with one project, without that assumption, two tabs never overwrite each other
\* blindly (NoBlindWrite).
THEOREM OneProjectNeverOverwrittenBlindly ==
  (\A p, q \in Projects : p = q) => (Spec => []NoBlindWrite)
PROOF
  <1> SUFFICES ASSUME \A p, q \in Projects : p = q
               PROVE  Spec => []NoBlindWrite
    OBVIOUS
  <1>1. SeenInv /\ [Next]_vars => SeenInv'
    <2> SUFFICES ASSUME SeenInv, [Next]_vars
                 PROVE  SeenInv'
      OBVIOUS
    <2>1. BuilderStays
      BY OneProjectStays DEF SeenInv
    <2> QED
      BY <2>1, SeenNext
  <1>2. SeenInv => NoBlindWrite
    BY DEF SeenInv
  <1> QED
    BY <1>1, <1>2, SeenInit, PTL DEF Spec

-----------------------------------------------------------------------------
(* Nobody is saved without what he has seen.                               *)
(*                                                                         *)
(* The other side of NoBlindWrite.  What the author of an edit saw is in   *)
(* the row, or comes before it in his own queue, his own batch, or the     *)
(* request it is in; and what a queue sends is saved as a whole, or it     *)
(* halts.                                                                  *)

\* What the row of a project has, and what the server never takes.
Granted(p) == Saved(p) \cup Cyclic \cup Restricted
Grants == [p \in Projects |-> Granted(p)]

\* Every builder builds on what it has seen.
Building ==
  \A t \in Tabs \ Dialogs :
    Q!TabFounded(Grants, basis, seen[t], page[t], controller[t], queue[t], loop[t])

\* What is granted stays.
LEMMA GrantsGrow ==
  ASSUME CommitInv, [Next]_vars, NEW p \in Projects
  PROVE  /\ Grants[p] = Granted(p)
         /\ Granted(p) \subseteq SavedAfter(p) \cup Cyclic \cup Restricted
         /\ Grants'[p] = SavedAfter(p) \cup Cyclic \cup Restricted
         /\ Granted(p)' = SavedAfter(p) \cup Cyclic \cup Restricted
PROOF
  <1>1. Saved(p) \subseteq SavedAfter(p)
    BY SavedGrows
  <1> QED
    BY <1>1 DEF Grants, Granted, Saved, SavedAfter

\* A builder has one loop at most, the one stopPolling would abort.
LEMMA BuilderLoop ==
  ASSUME CommitInv, Handed, NEW t \in Tabs \ Dialogs, NEW l \in Loops, loop[t][l].pc # "off"
  PROVE  controller[t] = l /\ controller[t] # NoLoop /\ \A k \in Loops \ {l} : loop[t][k].pc = "off"
PROOF
  <1>1. \A k \in Loops : ~loop[t][k].aborted
    BY DEF Handed, HandedBuilder
  <1>2. \A k \in Loops : loop[t][k].pc # "off" => k = controller[t]
    BY <1>1 DEF CommitInv, Q!OnceInv, Q!PQInv, Q!OneLiveLoop, Q!RunningLoops
  <1> QED
    BY <1>2, SinglePlayerAssumption

\* A step of a loop; an ok grants what it had in hand.
LEMMA LoopBuilds ==
  ASSUME CommitInv, AuxTyped, Handed, Building,
         NEW t \in Tabs \ Dialogs, NEW l \in Loops, NEW result,
         \/ Q!Step(t, l) \/ Q!SendPatch(t, l) \/ Q!NetworkError(t, l)
         \/ Q!Receive(t, l, result),
         loop[t][l].pc = "wait" /\ result.status = "ok" =>
           ToSet(Q!InHand(t, l).transactions) \subseteq Granted(Q!InHand(t, l).project)
  PROVE  Q!TabFounded(Grants, basis, seen[t], page[t], controller[t], queue'[t], loop'[t])
PROOF
  <1> DEFINE F == Grants
             f == basis
             s == seen[t]
             pg == page[t]
             ctl == controller[t]
             q == queue[t]
             q2 == queue'[t]
             lps == loop[t]
             lps2 == loop'[t]
  <1>1. /\ (pg.phase # "closed" => pg.project \in Projects)
        /\ q \in Seq(Q!Commands) /\ lps \in [Loops -> Q!SoundLoops]
        /\ lps[l] \in Q!SoundLoops /\ Q!Sends(lps[l])
    BY TabShape
  <1>2. lps[l].pc # "off"
    BY Zenon DEF Q!Step, Q!Poll, Q!NoticeAbort, Q!TakeDetails, Q!TakeUnknown, Q!TakeTransactions,
       Q!SendPatch, Q!NetworkError, Q!Receive, Q!ReceiveOk, Q!ReceiveRefusal, Q!ReceiveError
  <1>3. ctl # NoLoop /\ \A k \in Loops \ {l} : lps[k].pc = "off"
    BY <1>2, BuilderLoop
  <1>4. /\ \A k \in Loops \ {l} : lps2[k] = lps[k]
        /\ \/ lps2[l] = Q!OffLoop /\ q2 = q
           \/ Q!Took(lps[l], lps2[l], q) /\ q2 = <<>>
           \/ Q!Staged(lps[l], lps2[l]) /\ q2 = q
           \/ \E v : /\ Q!DoneWith(lps[l], lps2[l], v) /\ q2 = q
                     /\ lps[l].pc = "batch" =>
                          /\ ~lps[l].aborted
                          /\ Q!InHand(t, l).type = "setDetails" /\ v = Q!InHand(t, l).version
                     /\ lps[l].pc = "wait" => result.status = "ok" /\ v = result.version
    <2>1. Q!PQInv /\ \A u \in Tabs, k \in Loops : Q!Sends(loop[u][k])
      BY SoundSends DEF CommitInv, Q!OnceInv
    <2> QED
      BY <2>1, Q!LoopMovedBy
  <1>5. ASSUME NEW v, Q!DoneWith(lps[l], lps2[l], v),
               lps[l].pc = "batch" => Q!InHand(t, l).type = "setDetails",
               lps[l].pc = "wait" => result.status = "ok",
               Head(lps[l].batch).type = "transactions"
        PROVE  Q!ToSet(Head(lps[l].batch).transactions) \subseteq F[Head(lps[l].batch).project]
    <2>1. lps[l].pc = "wait" /\ result.status = "ok"
      BY <1>5 DEF Q!DoneWith, Q!InHand
    <2>2. ToSet(Head(lps[l].batch).transactions) \subseteq Granted(Head(lps[l].batch).project)
      BY <2>1 DEF Q!InHand
    <2>3. Head(lps[l].batch).project \in Projects
      BY <1>1, <2>1, HandTyped
    <2> QED
      BY <2>2, <2>3 DEF Grants, ToSet, Q!ToSet
  <1>6. Q!TabFounded(F, f, s, pg, ctl, q, lps)
    BY DEF Building
  <1>7. Q!GivenStep(F, lps[l], lps2[l], q, q2)
    <2> HIDE DEF F, q, q2, lps, lps2
    <2> QED
      BY <1>4, <1>5 DEF Q!GivenStep
  <1> HIDE DEF F, f, s, pg, ctl, q, q2, lps, lps2
  <1>8. Q!TabFounded(F, f, s, pg, ctl, q2, lps2)
    BY <1>1, <1>2, <1>3, <1>4, <1>6, <1>7, Q!StepFounded
  <1> QED
    BY <1>8 DEF F, f, s, pg, ctl, q2, lps2

\* What an answer ok grants is what the loop has in hand.
LEMMA AnswerGrants ==
  ASSUME CommitInv, Connections, NEW t \in Tabs, NEW l \in Loops, NEW h \in Handlers, Answer(t, l, h)
  PROVE  /\ handler[h] # S!Idle /\ handler[h].pc = "replied"
         /\ Q!InHand(t, l).transactions = handler[h].entries
         /\ Q!InHand(t, l).project = handler[h].project
         /\ ToSet(handler[h].entries) \subseteq ToSet(edits[t])
PROOF
  <1>1. Connected(t, l, h) /\ handler[h].pc = "replied" /\ handler[h] # S!Idle
    BY DEF Answer, Connected, Server!Idle, S!Idle
  <1>2. /\ Q!InHand(t, l).transactions = handler[h].entries
        /\ Q!InHand(t, l).project = handler[h].project
        /\ loop[t][l].pc = "wait"
    BY <1>1 DEF Connections, Asks, Q!InHand
  <1>3. ASSUME NEW x \in ToSet(handler[h].entries)
        PROVE  x \in ToSet(edits[t])
    <2>1. x \in Txns /\ loop[t][l] \in Q!SoundLoops /\ Q!Sends(loop[t][l])
      BY <1>1, <1>3, Typed, SoundSends DEF CommitInv
    <2>2. x \in ToSet(Head(loop[t][l].batch).transactions)
      BY <1>2, <1>3 DEF Q!InHand
    <2>3. Q!Carries(loop[t][l].batch, x)
      BY <1>2, <2>1, <2>2, HeadCarried
    <2>4. x \in Q!ToSet(edits[t])
      BY <2>1, <2>3 DEF CommitInv, Q!OnceInv, Q!CarriedBy
    <2> QED
      BY <2>4 DEF ToSet, Q!ToSet
  <1> QED
    BY <1>1, <1>2, <1>3

\* An answer ok to an edit of a builder tells what is granted.
OkGiven ==
  \A h \in Handlers, t \in Tabs \ Dialogs :
    LET hd == handler[h] IN
    /\ hd # S!Idle
    /\ hd.pc = "replied"
    /\ hd.result.status = "ok"
    /\ ToSet(hd.entries) \cap ToSet(edits[t]) # {}
    => ToSet(hd.entries) \subseteq Granted(hd.project)

\* A builder opens what it has loaded.
LEMMA OpenBuilds ==
  ASSUME CommitInv, AuxTyped, Handed, Building, NEW t \in Tabs \ Dialogs, Q!EnqueueProjectDetails(t)
  PROVE  Q!TabFounded(Grants, basis, seen[t], page'[t], controller'[t], queue'[t], loop'[t])
PROOF
  <1> DEFINE c == Q!SetDetails(page[t].project, page[t].version)
             F == Grants
             s == seen[t]
             pg == page[t]
             next == page'[t]
             ctl == controller[t]
             ctl2 == controller'[t]
             q == queue[t]
             q2 == queue'[t]
             lps == loop[t]
             lps2 == loop'[t]
  <1>0. /\ page \in [Tabs -> Q!Pages] /\ queue \in [Tabs -> Seq(Q!Commands)]
        /\ loop \in [Tabs -> [Loops -> Q!SoundLoops]] /\ loop \in [Tabs -> [Loops -> Q!LoopStates]]
        /\ controller \in [Tabs -> Loops \cup {NoLoop}]
    BY Q!SoundLoopsTyped DEF CommitInv, Q!OnceInv, Q!PQInv, Q!PQTypeOK
  <1>1. /\ pg.phase = "loaded" /\ pg.project \in Projects /\ pg.version \in Nat
        /\ q \in Seq(Q!Commands) /\ lps \in [Loops -> Q!SoundLoops]
    BY <1>0, TabShape DEF Q!EnqueueProjectDetails, Q!Pages
  <1>2. c \in Q!Commands /\ c.type = "setDetails"
    <2>1. c \in Q!Commands
      BY <1>1, Q!CommandsTyped
    <2>2. c.type = "setDetails"
      BY DEF Q!SetDetails
    <2> QED
      BY <2>1, <2>2
  <1>3. next.phase = "open" /\ next.project = pg.project
    BY <1>0 DEF Q!EnqueueProjectDetails, Q!Pages
  <1>4. Q!TabFounded(F, basis, s, pg, ctl, q, lps)
    BY DEF Building
  <1>5. \/ ctl # NoLoop /\ ctl2 = ctl /\ lps2 = lps /\ q2 = Q!Enqueue(q, c)
        \/ /\ ctl = NoLoop /\ ctl2 # NoLoop /\ q2 = <<>>
           /\ \E l \in Loops : /\ lps2[l].pc = "batch" /\ lps2[l].batch = Q!Enqueue(q, c)
                               /\ \A k \in Loops \ {l} : lps2[k].pc = "off"
    <2>1. CASE controller[t] # NoLoop /\ queue' = [queue EXCEPT ![t] = Q!Enqueue(queue[t], c)]
               /\ loop' = loop /\ controller' = controller
      <3> HIDE DEF c
      <3> QED
        BY <1>0, <2>1
    <2>2. ASSUME NEW l \in Loops, controller[t] = NoLoop, queue' = [queue EXCEPT ![t] = <<>>],
                 controller' = [controller EXCEPT ![t] = l],
                 Q!SetLoop(t, l, Q!Taken(Q!OffLoop, Q!Enqueue(queue[t], c)))
          PROVE  /\ ctl = NoLoop /\ ctl2 # NoLoop /\ q2 = <<>>
                 /\ lps2[l].pc = "batch" /\ lps2[l].batch = Q!Enqueue(q, c)
                 /\ \A k \in Loops \ {l} : lps2[k].pc = "off"
      <3> DEFINE cs == Q!Enqueue(q, c)
                 to == Q!Taken(Q!OffLoop, cs)
      <3>1. cs # <<>>
        <4>1. cs = Append(q, c)
          BY <1>2 DEF Q!Enqueue
        <4> HIDE DEF cs, c
        <4> QED
          BY <1>1, <4>1
      <3>2. Q!SetLoop(t, l, to)
        BY <2>2
      <3> HIDE DEF cs
      <3>3. to.pc = "batch" /\ to.batch = cs
        <4>1. Q!OffLoop \in Q!LoopStates
          BY Q!OffLoopSound DEF Q!SoundLoops
        <4> HIDE DEF to
        <4>2. to = Q!Taken(Q!OffLoop, cs)
          BY DEF to
        <4> HIDE DEF Q!OffLoop
        <4> QED
          BY <3>1, <4>1, <4>2, Q!TakenFields
      <3> HIDE DEF to
      <3>4. loop'[t][l] = to /\ \A k \in Loops \ {l} : loop'[t][k] = loop[t][k]
        BY <1>0, <3>2, Q!SetAt
      <3>5. \A k \in Loops : loop[t][k].pc = "off"
        <4>1. NoLoop \notin Loops
          BY SinglePlayerAssumption
        <4>2. \A k \in Loops : loop[t][k].pc = "off" \/ loop[t][k].aborted
          BY <2>2, <4>1 DEF CommitInv, Q!OnceInv, Q!PQInv, Q!OneLiveLoop, Q!RunningLoops
        <4> QED
          BY <4>2 DEF Handed, HandedBuilder
      <3>6. q2 = <<>> /\ ctl2 = l /\ l # NoLoop
        BY <1>0, <2>2, SinglePlayerAssumption
      <3> QED
        BY <2>2, <3>3, <3>4, <3>5, <3>6 DEF cs
    <2>3. \/ controller[t] # NoLoop /\ queue' = [queue EXCEPT ![t] = Q!Enqueue(queue[t], c)]
             /\ loop' = loop /\ controller' = controller
          \/ \E l \in Loops :
               /\ controller[t] = NoLoop /\ queue' = [queue EXCEPT ![t] = <<>>]
               /\ controller' = [controller EXCEPT ![t] = l]
               /\ Q!SetLoop(t, l, Q!Taken(Q!OffLoop, Q!Enqueue(queue[t], c)))
      BY DEF Q!EnqueueProjectDetails
    <2> HIDE DEF c, q, q2, lps, lps2, ctl, ctl2
    <2> QED
      BY <2>1, <2>2, <2>3
  <1> HIDE DEF c, F, s, pg, next, ctl, ctl2, q, q2, lps, lps2
  <1>6. Q!TabFounded(F, basis, s, next, ctl2, q2, lps2)
    BY <1>1, <1>2, <1>3, <1>4, <1>5, Q!OpenFounded
  <1> QED
    BY <1>6 DEF F, s, next, ctl2, q2, lps2

\* It is edited.
LEMMA EditBuilds ==
  ASSUME CommitInv, AuxTyped, Building, NEW t \in Tabs \ Dialogs, NEW x \in Txns, Edit(t, x)
  PROVE  Q!TabFounded(Grants, basis', seen'[t], page'[t], controller'[t], queue'[t], loop'[t])
PROOF
  <1> DEFINE p == page[t].project
             q == queue[t]
             q2 == Q!Enqueue(q, Q!Transactions(p, <<x>>))
             pg == page[t]
             ctl == controller[t]
             lps == loop[t]
             s == seen[t]
             F == Grants
             f == basis
             g == basis'
  <1>1. /\ page[t].phase = "open" /\ outcome[x] = "fresh"
        /\ queue' = [queue EXCEPT ![t] = q2] /\ page' = page /\ loop' = loop /\ controller' = controller
        /\ basis' = [basis EXCEPT ![x] = seen[t]] /\ seen' = [seen EXCEPT ![t] = @ \cup {x}]
    BY SameSendTransaction DEF Edit, Q!SendTransaction
  <1>2. queue \in [Tabs -> Seq(Q!Commands)] /\ seen \in [Tabs -> SUBSET Txns] /\ p \in Projects
    BY <1>1, TabShape DEF AuxTyped, CommitInv, Q!OnceInv, Q!PQInv, Q!PQTypeOK
  <1>3. queue'[t] = q2 /\ seen'[t] = s \cup {x}
    <2> HIDE DEF q2
    <2> QED
      BY <1>1, <1>2
  <1>4. f \in Q!Bases /\ s \in SUBSET Txns /\ q \in Seq(Q!Commands) /\ lps \in [Loops -> Q!SoundLoops]
    BY TabShape
  <1>5. /\ Q!TabFounded(F, f, s, pg, ctl, q, lps) /\ ~ Q!CarriedBy(q, lps, x)
        /\ pg.phase = "open" /\ pg.project \in Projects
    BY <1>1, <1>2 DEF Building, CommitInv, Q!OnceInv
  <1>6. g = [f EXCEPT ![x] = s] /\ q2 = Q!Enqueue(q, Q!Transactions(pg.project, <<x>>))
    BY <1>1
  <1>7. page'[t] = pg /\ loop'[t] = lps /\ controller'[t] = ctl
    BY <1>1
  <1> HIDE DEF p, q, q2, pg, ctl, lps, s, F, f, g
  <1>8. Q!TabFounded(F, g, s \cup {x}, pg, ctl, q2, lps)
    BY <1>4, <1>5, <1>6, Q!EditFounded
  <1> QED
    BY <1>3, <1>7, <1>8 DEF F, g

\* It shows something else, or nothing.
LEMMA ShowBuilds ==
  ASSUME CommitInv, AuxTyped, Building, NEW t \in Tabs \ Dialogs,
         page'[t].phase \in {"closed", "loading"}
           \/ (page'[t].phase = "loaded" /\ page'[t].project \in Projects
                 /\ seen'[t] \subseteq Saved(page'[t].project)),
         controller' = controller, queue' = queue, loop' = loop
  PROVE  Q!TabFounded(Grants, basis, seen'[t], page'[t], controller'[t], queue'[t], loop'[t])
PROOF
  <1> DEFINE s == seen[t]
             s2 == seen'[t]
             pg == page[t]
             next == page'[t]
             F == Grants
  <1>1. Q!TabFounded(F, basis, s, pg, controller[t], queue[t], loop[t])
    BY DEF Building
  <1>2. next.phase \in {"closed", "loading"} \/ (next.phase = "loaded" /\ s2 \subseteq F[next.project])
    BY DEF Grants, Granted
  <1> HIDE DEF s, s2, pg, next, F
  <1>3. Q!TabFounded(F, basis, s2, next, controller[t], queue[t], loop[t])
    BY <1>1, <1>2, Q!ShowFounded
  <1> QED
    BY <1>3 DEF F, s2, next

\* Builders stay founded.
LEMMA BuildingNext ==
  ASSUME CommitInv, Connections, AuxTyped, Handed, Building, OkGiven, [Next]_vars, BuilderStays
  PROVE  Building'
PROOF
  <1>0. /\ basis \in Q!Bases /\ seen \in [Tabs -> SUBSET Txns]
        /\ \A p \in Projects : Grants[p] \subseteq Grants'[p]
    BY GrantsGrow DEF AuxTyped, Q!Bases
  <1>1. ASSUME NEW u \in Tabs \ Dialogs, page'[u] = page[u], controller'[u] = controller[u],
               queue'[u] = queue[u], loop'[u] = loop[u], seen'[u] = seen[u],
               \A x \in Txns : Q!CarriedBy(queue[u], loop[u], x) => basis'[x] = basis[x]
        PROVE  Q!TabFounded(Grants', basis', seen'[u], page'[u], controller'[u], queue'[u], loop'[u])
    <2> DEFINE F == Grants
               G == Grants'
               f == basis
               g == basis'
               s == seen[u]
               pg == page[u]
               ctl == controller[u]
               q == queue[u]
               lps == loop[u]
    <2>1. /\ pg.phase # "closed" => pg.project \in Projects
          /\ q \in Seq(Q!Commands) /\ lps \in [Loops -> Q!SoundLoops]
      BY TabShape
    <2>2. /\ \A p \in Projects : F[p] \subseteq G[p]
          /\ \A x \in Txns : Q!CarriedBy(q, lps, x) => g[x] = f[x]
          /\ Q!TabFounded(F, f, s, pg, ctl, q, lps)
      BY <1>0, <1>1 DEF Building
    <2> HIDE DEF F, G, f, g, s, pg, ctl, q, lps
    <2>3. Q!TabFounded(G, g, s, pg, ctl, q, lps)
      BY <2>1, <2>2, Q!TabFoundedMore
    <2> QED
      BY <1>1, <2>3 DEF G, g, s, pg, ctl, q, lps
  <1>2. ASSUME NEW t \in Tabs, content' = content, Q!Moves(t),
               t \notin Dialogs =>
                 Q!TabFounded(Grants, basis', seen'[t], page'[t], controller'[t], queue'[t], loop'[t]),
               \A u \in Tabs \ {t} : seen'[u] = seen[u],
               \A u \in Tabs \ {t}, x \in Txns : Q!CarriedBy(queue[u], loop[u], x) => basis'[x] = basis[x]
        PROVE  Building'
    <2>1. Grants' = Grants
      BY <1>2 DEF Grants, Granted, Saved
    <2>2. ASSUME NEW u \in Tabs \ Dialogs, u # t
          PROVE  Q!TabFounded(Grants', basis', seen'[u], page'[u], controller'[u], queue'[u], loop'[u])
      <3>1. page'[u] = page[u] /\ controller'[u] = controller[u] /\ queue'[u] = queue[u] /\ loop'[u] = loop[u]
        BY <1>2, <2>2, OtherTabs DEF CommitInv
      <3> QED
        BY <1>1, <1>2, <2>2, <3>1
    <2>3. t \notin Dialogs =>
            Q!TabFounded(Grants', basis', seen'[t], page'[t], controller'[t], queue'[t], loop'[t])
      BY <1>2, <2>1
    <2> QED
      BY <2>2, <2>3 DEF Building
  <1>3. CASE UNCHANGED <<page, controller, queue, loop, seen, basis>>
    <2>1. \A u \in Tabs \ Dialogs :
            Q!TabFounded(Grants', basis', seen'[u], page'[u], controller'[u], queue'[u], loop'[u])
      BY <1>1, <1>3
    <2> QED
      BY <2>1 DEF Building
  <1>4. ASSUME NEW t \in Tabs, content' = content, Load(t)
        PROVE  Building'
    <2>1. Q!LoadData(t, version[page[t].project]) /\ page[t].project \in Projects
      BY <1>4, SameLoadData, TabShape DEF Load, Q!LoadData
    <2>2. Q!Moves(t)
      <3>1. version[page[t].project] \in Nat
        BY <2>1, Typed
      <3> QED
        BY <2>1, <3>1 DEF Q!Moves
    <2>3. basis' = basis /\ \A u \in Tabs \ {t} : seen'[u] = seen[u]
      BY <1>0, <1>4 DEF Load
    <2>4. page'[t].phase = "loaded" /\ page'[t].project = page[t].project
      BY <2>1 DEF Q!LoadData, CommitInv, Q!OnceInv, Q!PQInv, Q!PQTypeOK, Q!Pages
    <2>5. seen'[t] = Saved(page[t].project) /\ controller' = controller /\ queue' = queue /\ loop' = loop
      BY <1>0, <1>4, <2>1 DEF Load, Q!LoadData, Q!queueVars
    <2>6. t \notin Dialogs =>
            Q!TabFounded(Grants, basis', seen'[t], page'[t], controller'[t], queue'[t], loop'[t])
      BY <2>1, <2>3, <2>4, <2>5, ShowBuilds
    <2> QED
      BY <1>2, <1>4, <2>2, <2>3, <2>6
  <1>5. ASSUME NEW t \in Tabs, content' = content, NEW x \in Txns, Edit(t, x)
        PROVE  Building'
    <2>1. Q!Moves(t)
      BY <1>5, SameSendTransaction DEF Edit, Q!Moves, Q!Use
    <2>2. t \notin Dialogs =>
            Q!TabFounded(Grants, basis', seen'[t], page'[t], controller'[t], queue'[t], loop'[t])
      BY <1>5, EditBuilds
    <2>3. \A u \in Tabs \ {t} : seen'[u] = seen[u]
      BY <1>0, <1>5 DEF Edit
    <2>4. (\A u \in Tabs : ~ Q!CarriedBy(queue[u], loop[u], x)) /\ basis' = [basis EXCEPT ![x] = seen[t]]
      BY <1>5, SameSendTransaction DEF Edit, Q!SendTransaction, CommitInv, Q!OnceInv
    <2>5. \A u \in Tabs \ {t}, y \in Txns : Q!CarriedBy(queue[u], loop[u], y) => basis'[y] = basis[y]
      BY <1>0, <2>4 DEF Q!Bases
    <2> QED
      BY <1>2, <1>5, <2>1, <2>2, <2>3, <2>5
  <1>6. ASSUME NEW t \in Tabs, content' = content, Act(t)
        PROVE  Building'
    <2>1. Q!Moves(t) /\ UNCHANGED <<seen, basis>>
      BY <1>6, SameOpenProject, SameEnqueueProjectDetails, SameCloseDialog, SameUnmount DEF Act, Q!Moves, Q!Use, auxVars
    <2>2. ASSUME t \notin Dialogs
          PROVE  Q!TabFounded(Grants, basis, seen'[t], page'[t], controller'[t], queue'[t], loop'[t])
      <3>1. page \in [Tabs -> Q!Pages]
        BY DEF CommitInv, Q!OnceInv, Q!PQInv, Q!PQTypeOK
      <3>2. CASE Q!EnqueueProjectDetails(t)
        BY <2>1, <2>2, <3>2, OpenBuilds
      <3>3. ASSUME NEW p \in Projects, Q!OpenProject(t, p)
            PROVE  Q!TabFounded(Grants, basis, seen'[t], page'[t], controller'[t], queue'[t], loop'[t])
        <4>1. /\ page[t].phase = "closed" /\ page'[t].phase = "loading" /\ page'[t].project = p
          BY <3>1, <3>3 DEF Q!OpenProject
        <4>2. page[t].client \in {NoProject, p}
          BY <2>2, <4>1 DEF BuilderStays
        <4>3. controller' = controller /\ queue' = queue /\ loop' = loop
          BY <3>3, <4>2 DEF Q!OpenProject, Q!queueVars
        <4> QED
          BY <2>2, <4>1, <4>3, ShowBuilds
      <3>4. CASE Q!CloseDialog(t)
        BY <2>2, <3>4 DEF Q!CloseDialog
      <3>5. CASE Q!Unmount(t)
        <4>1. page'[t].phase = "closed" /\ controller' = controller /\ queue' = queue /\ loop' = loop
          BY <3>1, <3>5 DEF Q!Unmount, Q!ClosedPage, Q!queueVars
        <4> QED
          BY <2>2, <4>1, ShowBuilds
      <3> QED
        BY <1>6, <3>2, <3>3, <3>4, <3>5, SameOpenProject, SameEnqueueProjectDetails, SameCloseDialog,
           SameUnmount DEF Act
    <2> QED
      BY <1>2, <1>6, <2>1, <2>2
  <1>7. ASSUME NEW t \in Tabs, content' = content, Reload(t)
        PROVE  Building'
    <2>1. Q!Moves(t) /\ basis' = basis
      BY <1>7, SameReload DEF Reload, Q!Moves, Q!Use
    <2>2. \A u \in Tabs \ {t} : seen'[u] = seen[u]
      BY <1>0, <1>7 DEF Reload
    <2>3. page'[t].phase = "closed" /\ queue'[t] = <<>> /\ \A l \in Loops : loop'[t][l] = Q!OffLoop
      <3>1. Q!Reload(t)
        BY <1>7, SameReload DEF Reload
      <3>2. page \in [Tabs -> Q!Pages] /\ queue \in [Tabs -> Seq(Q!Commands)] /\ loop \in [Tabs -> [Loops -> Q!SoundLoops]]
        BY DEF CommitInv, Q!OnceInv, Q!PQInv, Q!PQTypeOK
      <3> QED
        BY <3>1, <3>2 DEF Q!Reload, Q!ClosedPage
    <2>4. Q!TabFounded(Grants, basis', seen'[t], page'[t], controller'[t], queue'[t], loop'[t])
      BY <2>3, Q!FreshFounded
    <2> QED
      BY <1>2, <1>7, <2>1, <2>2, <2>4
  <1>8. ASSUME NEW t \in Tabs, content' = content, NEW l \in Loops, NEW result,
               Q!Step(t, l) \/ Q!SendPatch(t, l) \/ Q!NetworkError(t, l) \/ Q!Receive(t, l, result),
               t \notin Dialogs /\ loop[t][l].pc = "wait" /\ result.status = "ok" =>
                 ToSet(Q!InHand(t, l).transactions) \subseteq Granted(Q!InHand(t, l).project),
               UNCHANGED <<seen, basis>>, Q!Moves(t)
        PROVE  Building'
    <2>1. t \notin Dialogs =>
            Q!TabFounded(Grants, basis, seen[t], page[t], controller[t], queue'[t], loop'[t])
      BY <1>8, LoopBuilds
    <2>2. page' = page /\ controller' = controller
      <3>1. Q!PQInv /\ \A u \in Tabs, k \in Loops : Q!Sends(loop[u][k])
        BY SoundSends DEF CommitInv, Q!OnceInv
      <3>2. UNCHANGED <<page, controller>>
        BY <1>8, <3>1, Q!LoopMovedBy
      <3> QED
        BY <3>2
    <2> QED
      BY <1>2, <1>8, <2>1, <2>2
  <1>9. ASSUME NEW t \in Tabs, content' = content, NEW l \in Loops,
               Run(t, l) \/ \E h \in Handlers : Send(t, l, h) \/ Break(t, l, h)
        PROVE  Building'
    <2> DEFINE result == [status |-> "error", version |-> 0]
    <2>1. Q!Step(t, l) \/ Q!SendPatch(t, l) \/ Q!NetworkError(t, l)
      BY <1>9, SameStep, SameSendPatch, SameNetworkError DEF Run, Send, Break
    <2>2. Q!Moves(t) /\ UNCHANGED <<seen, basis>>
      <3>1. Q!Moves(t)
        BY <2>1 DEF Q!Moves
      <3> QED
        BY <1>9, <3>1 DEF Run, Send, Break, auxVars
    <2>3. result.status # "ok"
      OBVIOUS
    <2> HIDE DEF result
    <2> QED
      BY <1>8, <1>9, <2>1, <2>2, <2>3
  <1>10. ASSUME NEW t \in Tabs, content' = content, NEW l \in Loops, NEW h \in Handlers, Answer(t, l, h)
         PROVE  Building'
    <2> DEFINE result == handler[h].result
    <2>1. Q!Receive(t, l, result) /\ UNCHANGED <<seen, basis>>
      BY <1>10, SameReceive DEF Answer, auxVars
    <2>2. /\ handler[h] # S!Idle /\ handler[h].pc = "replied"
          /\ Q!InHand(t, l).transactions = handler[h].entries
          /\ Q!InHand(t, l).project = handler[h].project
          /\ ToSet(handler[h].entries) \subseteq ToSet(edits[t])
      BY <1>10, AnswerGrants
    <2>3. result.version \in Nat
      BY <2>2, Typed DEF S!Busy, S!Results
    <2>4. Q!Moves(t)
      BY <2>1, <2>3 DEF Q!Moves
    <2>5. t \notin Dialogs /\ result.status = "ok" =>
            ToSet(handler[h].entries) \subseteq Granted(handler[h].project)
      BY <2>2 DEF OkGiven
    <2>6. t \notin Dialogs /\ loop[t][l].pc = "wait" /\ result.status = "ok" =>
            ToSet(Q!InHand(t, l).transactions) \subseteq Granted(Q!InHand(t, l).project)
      BY <2>2, <2>5
    <2> HIDE DEF result
    <2> QED
      BY <1>8, <1>10, <2>1, <2>4, <2>6
  <1> QED
    BY <1>3, <1>4, <1>5, <1>6, <1>7, <1>9, <1>10, TabSteps

\* An edit that was not made yet has not been seen, and of two edits one author at
\* most saw the other's.
FreshUnseen ==
  \A x \in Txns : outcome[x] = "fresh" =>
    (\A t \in Tabs : x \notin seen[t]) /\ \A y \in Txns : x \notin basis[y]

OneWay == \A x \in Txns, y \in Txns : y \in basis[x] => x \notin basis[y]

LEMMA FreshNext ==
  ASSUME CommitInv, AuxTyped, FreshUnseen, OneWay, [Next]_vars
  PROVE  FreshUnseen' /\ OneWay'
PROOF
  <1>1. \A x \in Txns : outcome'[x] = "fresh" => outcome[x] = "fresh"
    BY TabMoves, Q!MadeStays DEF vars, tabVars
  <1>2. seen \in [Tabs -> SUBSET Txns] /\ basis \in [Txns -> SUBSET Txns]
    BY DEF AuxTyped
  <1>3. CASE UNCHANGED <<seen, basis>>
    BY <1>1, <1>3 DEF FreshUnseen, OneWay
  <1>4. ASSUME NEW t \in Tabs, Load(t)
        PROVE  FreshUnseen' /\ OneWay'
    <2>1. page[t].project \in Projects
      BY <1>4, SameLoadData, TabShape DEF Load, Q!LoadData
    <2>2. \A x \in Saved(page[t].project) : outcome[x] # "fresh"
      BY <2>1, BasisSettled DEF Q!InHandOnly
    <2>3. seen' = [seen EXCEPT ![t] = Saved(page[t].project)] /\ basis' = basis
      BY <1>4 DEF Load
    <2>4. FreshUnseen'
      BY <1>1, <1>2, <2>2, <2>3 DEF FreshUnseen
    <2> QED
      BY <2>3, <2>4 DEF OneWay
  <1>5. ASSUME NEW t \in Tabs, Reload(t)
        PROVE  FreshUnseen' /\ OneWay'
    <2>1. seen' = [seen EXCEPT ![t] = {}] /\ basis' = basis
      BY <1>5 DEF Reload
    <2> QED
      BY <1>1, <1>2, <2>1 DEF FreshUnseen, OneWay
  <1>6. ASSUME NEW t \in Tabs, NEW z \in Txns, Edit(t, z)
        PROVE  FreshUnseen' /\ OneWay'
    <2>1. /\ outcome[z] = "fresh" /\ outcome' = [outcome EXCEPT ![z] = "pending"]
          /\ basis' = [basis EXCEPT ![z] = seen[t]] /\ seen' = [seen EXCEPT ![t] = @ \cup {z}]
      BY <1>6, SameSendTransaction DEF Edit, Q!SendTransaction
    <2>2. outcome'[z] # "fresh"
      BY <2>1 DEF CommitInv, Q!OnceInv, Q!PQInv, Q!PQTypeOK
    <2>3. (\A u \in Tabs : z \notin seen[u]) /\ \A y \in Txns : z \notin basis[y]
      BY <2>1 DEF FreshUnseen
    <2>4. /\ \A u \in Tabs : seen'[u] \subseteq seen[u] \cup {z}
          /\ basis'[z] = seen[t] /\ \A y \in Txns \ {z} : basis'[y] = basis[y]
      BY <1>2, <2>1
    <2>5. FreshUnseen'
      BY <1>1, <2>2, <2>4 DEF FreshUnseen
    <2>6. OneWay'
      BY <2>3, <2>4 DEF OneWay
    <2> QED
      BY <2>5, <2>6
  <1> QED
    BY <1>3, <1>4, <1>5, <1>6 DEF vars, auxVars, Next, Act, Run, Send, Answer, Break, Serve, Falter

\* Whose an edit is that is in a request, or in the row, was so before.
LEMMA OwnerStays ==
  ASSUME CommitInv, [Next]_vars, NEW t \in Tabs
  PROVE  /\ \A x \in Txns : outcome[x] # "fresh" /\ x \in ToSet(edits'[t]) => x \in ToSet(edits[t])
         /\ ToSet(edits'[t]) # {} => ToSet(edits[t]) \subseteq ToSet(edits'[t])
         /\ ToSet(edits'[t]) \subseteq Txns
PROOF
  <1>1. Q!PQTypeOK /\ Q!PQTypeOK'
    BY CommitNext DEF CommitInv, Q!OnceInv, Q!PQInv
  <1>2. edits'[t] \in Seq(Txns)
    BY <1>1 DEF Q!PQTypeOK
  <1>3. \/ edits'[t] = edits[t]
        \/ Q!ToSet(edits'[t]) = {}
        \/ /\ Q!ToSet(edits[t]) \subseteq Q!ToSet(edits'[t])
           /\ \A x \in Q!ToSet(edits'[t]) : x \in Q!ToSet(edits[t]) \/ outcome[x] = "fresh"
    <2>1. CASE UNCHANGED tabVars
      BY <2>1 DEF tabVars
    <2>2. ASSUME NEW u \in Tabs, Q!Moves(u)
          PROVE  \/ Q!ToSet(edits'[t]) = {}
                 \/ /\ Q!ToSet(edits[t]) \subseteq Q!ToSet(edits'[t])
                    /\ \A x \in Q!ToSet(edits'[t]) : x \in Q!ToSet(edits[t]) \/ outcome[x] = "fresh"
      BY <1>1, <2>2, Q!EditsKeep
    <2> QED
      BY <2>1, <2>2, TabMoves DEF vars
  <1>4. \A es : ToSet(es) = Q!ToSet(es)
    BY DEF ToSet, Q!ToSet
  <1>5. ToSet(edits'[t]) \subseteq Txns
    BY <1>2 DEF ToSet
  <1> QED
    BY <1>3, <1>4, <1>5

\* So a builder's are the edits of a request all, or none of them, and all stay his.
LEMMA RequestOwner ==
  ASSUME CommitInv, [Next]_vars, NEW t \in Tabs, NEW h \in Handlers, handler[h] # S!Idle,
         ToSet(handler[h].entries) \cap ToSet(edits'[t]) # {}
  PROVE  /\ ToSet(handler[h].entries) \cap ToSet(edits[t]) # {}
         /\ ToSet(edits[t]) \subseteq ToSet(edits'[t])
PROOF
  <1>1. \A x \in ToSet(handler[h].entries) : x \in Txns /\ outcome[x] # "fresh"
    BY Typed DEF CommitInv, Requested, Q!InHandOnly
  <1> QED
    BY <1>1, OwnerStays

\* The entries of a request of a builder are all his, and who made them saw what is
\* granted or entries of the same request.
HandlerFounded ==
  \A h \in Handlers, t \in Tabs \ Dialogs :
    LET hd == handler[h] IN
    hd # S!Idle /\ ToSet(hd.entries) \cap ToSet(edits[t]) # {} =>
      /\ ToSet(hd.entries) \subseteq ToSet(edits[t])
      /\ \A x \in ToSet(hd.entries) : basis[x] \subseteq Granted(hd.project) \cup ToSet(hd.entries)

LEMMA SentFounded ==
  ASSUME CommitInv, Building, NEW t \in Tabs \ Dialogs, NEW l \in Loops, loop[t][l].pc = "send",
         NEW x \in ToSet(Q!InHand(t, l).transactions)
  PROVE  basis[x] \subseteq Granted(Q!InHand(t, l).project) \cup ToSet(Q!InHand(t, l).transactions)
PROOF
  <1> DEFINE cs == loop[t][l].batch
             F == Grants
  <1>1. loop[t][l] \in Q!SoundLoops /\ Q!Sends(loop[t][l])
    BY SoundSends DEF CommitInv
  <1>2. cs \in Seq(Q!Commands) /\ cs # <<>> /\ Head(cs).type = "transactions"
    BY <1>1 DEF Q!Sends, Q!SoundLoops, Q!LoopStates
  <1>3. Head(cs).project \in Projects /\ x \in Txns
    BY <1>1, HandTyped DEF Q!InHand
  <1>4. Q!Founded(F, basis, cs)
    BY DEF Building, Q!TabFounded, Q!LoopFounded
  <1>5. x \in Q!ToSet(Head(cs).transactions)
    BY DEF Q!InHand, ToSet, Q!ToSet
  <1>6. Q!InHand(t, l) = Head(cs)
    BY DEF Q!InHand
  <1> HIDE DEF cs, F
  <1>7. basis[x] \subseteq F[Head(cs).project] \cup Q!ToSet(Head(cs).transactions)
    BY <1>2, <1>3, <1>4, <1>5, Q!HeadFounded
  <1>8. F[Head(cs).project] = Granted(Head(cs).project)
    BY <1>3 DEF F, Grants
  <1> QED
    BY <1>6, <1>7, <1>8 DEF ToSet, Q!ToSet

\* What a loop sends is its tab's.
LEMMA SentOwner ==
  ASSUME CommitInv, NEW t \in Tabs, NEW l \in Loops, loop[t][l].pc = "send"
  PROVE  /\ ToSet(Q!InHand(t, l).transactions) \subseteq ToSet(edits[t])
         /\ \A u \in Tabs : ToSet(Q!InHand(t, l).transactions) \cap ToSet(edits[u]) # {} => u = t
         /\ \A x \in ToSet(Q!InHand(t, l).transactions) : x \in Txns /\ Q!InHandOnly(x)
PROOF
  <1>1. \A x \in ToSet(Q!InHand(t, l).transactions) :
          x \in Txns /\ Q!InHandOnly(x) /\ Q!Carries(loop[t][l].batch, x)
    BY SentInHand, Zenon DEF CommitInv
  <1>2. ASSUME NEW x \in ToSet(Q!InHand(t, l).transactions)
        PROVE  x \in Q!ToSet(edits[t]) /\ \A u \in Tabs : x \in Q!ToSet(edits[u]) => u = t
    <2>1. x \in Txns /\ Q!CarriedBy(queue[t], loop[t], x)
      BY <1>1, <1>2 DEF Q!CarriedBy
    <2> QED
      BY <2>1 DEF CommitInv, Q!OnceInv
  <1>3. \A es : ToSet(es) = Q!ToSet(es)
    BY DEF ToSet, Q!ToSet
  <1> QED
    BY <1>1, <1>2, <1>3

\* What it will have, and what the server never takes.
GrantedAfter(p) == SavedAfter(p) \cup Cyclic \cup Restricted

LEMMA HandlerFoundedNext ==
  ASSUME CommitInv, AuxTyped, Building, HandlerFounded, [Next]_vars
  PROVE  HandlerFounded'
PROOF
  <1> SUFFICES ASSUME NEW h \in Handlers, NEW t \in Tabs \ Dialogs, handler'[h] # S!Idle,
                      ToSet(handler'[h].entries) \cap ToSet(edits'[t]) # {}
               PROVE  /\ ToSet(handler'[h].entries) \subseteq ToSet(edits'[t])
                      /\ \A x \in ToSet(handler'[h].entries) :
                           basis'[x] \subseteq GrantedAfter(handler'[h].project) \cup ToSet(handler'[h].entries)
    BY DEF HandlerFounded, Granted, GrantedAfter, Saved, SavedAfter
  <1> DEFINE hd == handler[h]
             new == handler'[h]
  <1>1. CASE hd # S!Idle /\ S!SameRequest(hd, new)
    <2>1. new.entries = hd.entries /\ new.project = hd.project /\ hd.project \in Projects
      BY <1>1, Typed DEF S!SameRequest
    <2>2. ToSet(hd.entries) \cap ToSet(edits[t]) # {} /\ ToSet(edits[t]) \subseteq ToSet(edits'[t])
      BY <1>1, <2>1, RequestOwner
    <2>3. /\ ToSet(hd.entries) \subseteq ToSet(edits[t])
          /\ \A x \in ToSet(hd.entries) : basis[x] \subseteq Granted(hd.project) \cup ToSet(hd.entries)
      BY <1>1, <2>2 DEF HandlerFounded
    <2>4. \A x \in ToSet(hd.entries) : basis'[x] = basis[x]
      BY <1>1, BasisSettled
    <2>5. Granted(hd.project) \subseteq GrantedAfter(hd.project)
      BY <2>1, GrantsGrow DEF GrantedAfter
    <2> QED
      BY <2>1, <2>2, <2>3, <2>4, <2>5
  <1>2. ASSUME NEW u \in Tabs, NEW l \in Loops, SentBy(u, l, h)
        PROVE  /\ ToSet(new.entries) \subseteq ToSet(edits'[t])
               /\ \A x \in ToSet(new.entries) :
                    basis'[x] \subseteq GrantedAfter(new.project) \cup ToSet(new.entries)
    <2> DEFINE c == Q!InHand(u, l)
    <2>1. /\ loop[u][l].pc = "send" /\ new.entries = c.transactions /\ new.project = c.project
          /\ c.project \in Projects
      BY <1>2, SentShape
    <2>2. /\ ToSet(c.transactions) \subseteq ToSet(edits[u])
          /\ \A v \in Tabs : ToSet(c.transactions) \cap ToSet(edits[v]) # {} => v = u
          /\ \A x \in ToSet(c.transactions) : x \in Txns /\ Q!InHandOnly(x)
      BY <2>1, SentOwner, Zenon
    <2> HIDE DEF c
    <2>3. ToSet(c.transactions) \cap ToSet(edits[t]) # {} /\ ToSet(edits[t]) \subseteq ToSet(edits'[t])
      <3>1. \A x \in ToSet(c.transactions) : x \in Txns /\ outcome[x] # "fresh"
        BY <2>2 DEF Q!InHandOnly
      <3>2. ToSet(c.transactions) \cap ToSet(edits'[t]) # {}
        BY <2>1
      <3> QED
        BY <3>1, <3>2, OwnerStays
    <2>4. u = t
      BY <2>2, <2>3
    <2>5. \A x \in ToSet(c.transactions) : basis[x] \subseteq Granted(c.project) \cup ToSet(c.transactions)
      BY <2>1, <2>4, SentFounded DEF c
    <2>6. \A x \in ToSet(c.transactions) : basis'[x] = basis[x]
      BY <2>2, BasisStays
    <2>7. Granted(c.project) \subseteq GrantedAfter(c.project)
      BY <2>1, GrantsGrow DEF GrantedAfter
    <2> QED
      BY <2>1, <2>2, <2>3, <2>4, <2>5, <2>6, <2>7
  <1> QED
    BY <1>1, <1>2, RequestsStay

\* What a handler that patches has left out is granted.
PatchRest ==
  \A h \in Handlers :
    LET hd == handler[h] IN
    S!Patching(hd) => ToSet(hd.entries) \ hd.remaining \subseteq Granted(hd.project)

LEMMA PatchRestNext ==
  ASSUME CommitInv, PatchRest, [Next]_vars
  PROVE  PatchRest'
PROOF
  <1> SUFFICES ASSUME NEW h \in Handlers, S!Patching(handler'[h])
               PROVE  ToSet(handler'[h].entries) \ handler'[h].remaining
                        \subseteq GrantedAfter(handler'[h].project)
    BY DEF PatchRest, Granted, GrantedAfter, Saved, SavedAfter, S!Patching
  <1> DEFINE hd == handler[h]
             new == handler'[h]
             p == hd.project
             Goal == ToSet(new.entries) \ new.remaining \subseteq GrantedAfter(new.project)
  <1>0. new # S!Idle /\ new.pc # "arrived"
    BY DEF S!Patching, S!Idle
  <1>1. ASSUME hd # S!Idle, S!SameRequest(hd, new), S!ProceedsTo(hd, new)
        PROVE  Goal
    <2>1. /\ new.project = p /\ new.entries = hd.entries /\ new.remaining = hd.remaining
          /\ S!Patching(hd) /\ p \in Projects
      BY <1>1, Typed DEF S!SameRequest, S!ProceedsTo
    <2>2. ToSet(hd.entries) \ hd.remaining \subseteq Granted(p)
      BY <2>1 DEF PatchRest
    <2>3. Granted(p) \subseteq GrantedAfter(p)
      BY <2>1, GrantsGrow DEF GrantedAfter
    <2> QED
      BY <2>1, <2>2, <2>3
  <1>2. ASSUME S!SameRequest(hd, new), S!Starts(hd, new)
        PROVE  Goal
    BY <1>2 DEF S!SameRequest, S!Starts, S!ToSet, ToSet, GrantedAfter
  <1>3. ASSUME Quiet
        PROVE  Goal
    <2>1. /\ hd # S!Idle /\ S!SameRequest(hd, new)
          /\ S!ProceedsTo(hd, new) \/ S!Starts(hd, new)
      BY <1>0, <1>3, Typed DEF Quiet, S!Calm
    <2> QED
      BY <1>1, <1>2, <2>1
  <1>4. ASSUME new = hd
        PROVE  Goal
    <2>1. hd # S!Idle /\ S!SameRequest(hd, new) /\ S!ProceedsTo(hd, new)
      BY <1>0, <1>4 DEF S!SameRequest, S!ProceedsTo
    <2> QED
      BY <1>1, <2>1
  <1>5. ASSUME NEW t \in Tabs, NEW l \in Loops, NEW k \in Handlers, SentBy(t, l, k)
        PROVE  Goal
    <2>1. new = hd
      BY <1>0, <1>5, SentShape
    <2> QED
      BY <1>4, <2>1
  <1>6. ASSUME SaveBy(h)
        PROVE  Goal
    <2>1. /\ new.project = p /\ new.entries = hd.entries /\ p \in Projects
          /\ new.remaining = hd.remaining \ S!Batch(hd) /\ S!Patching(hd)
      BY <1>6, SaveEffect DEF SaveBy, S!SameRequest, S!Saves, S!Patching
    <2>2. ToSet(hd.entries) \ hd.remaining \subseteq Granted(p)
      BY <2>1 DEF PatchRest
    <2>3. Granted(p) \subseteq GrantedAfter(p) /\ S!Batch(hd) \subseteq GrantedAfter(p)
      BY <1>6, <2>1, GrantsGrow, SaveAdds DEF GrantedAfter
    <2> HIDE DEF hd, new, p
    <2> QED
      BY <2>1, <2>2, <2>3
  <1>7. ASSUME NEW k \in Handlers, SaveBy(k)
        PROVE  Goal
    <2>1. CASE k = h
      <3>1. SaveBy(h)
        BY <1>7, <2>1
      <3> QED
        BY <1>6, <3>1
    <2>2. CASE k # h
      <3>1. new = hd
        BY <1>7, <2>2 DEF SaveBy
      <3> QED
        BY <1>4, <3>1
    <2> QED
      BY <2>1, <2>2
  <1>8. Quiet \/ (\E k \in Handlers : SaveBy(k)) \/ \E t \in Tabs, l \in Loops, k \in Handlers : SentBy(t, l, k)
    BY ServerSide
  <1>9. Goal
    <2> HIDE DEF Goal
    <2> QED
      BY <1>3, <1>5, <1>7, <1>8
  <1> QED
    BY <1>9

\* When the last entry of a request of a builder is in the row, the rest is granted.
LEMMA LastGrants ==
  ASSUME CommitInv, HandlerSees, HandlerFounded, LastIsSaved, NoMissingBase,
         NEW h \in Handlers, NEW t \in Tabs \ Dialogs, handler[h] # S!Idle,
         ToSet(handler[h].entries) \cap ToSet(edits[t]) # {},
         lastTransactionId[handler[h].project] = handler[h].entries[Len(handler[h].entries)]
  PROVE  ToSet(handler[h].entries) \subseteq Granted(handler[h].project)
PROOF
  <1> DEFINE hd == handler[h]
             p == hd.project
             es == hd.entries
             z == es[Len(es)]
  <1>1. p \in Projects /\ es \in Seq(Txns) /\ es # <<>>
    BY Typed DEF S!Busy
  <1>2. Q!Ordered(basis, es) /\ ToSet(es) \subseteq ToSet(edits[t])
    BY DEF HandlerSees, HandlerFounded
  <1>3. lastTransactionId[p] = z
    OBVIOUS
  <1> HIDE DEF hd, p, es
  <1>4. Len(es) \in DOMAIN es /\ DOMAIN es = 1..Len(es) /\ Len(es) \in Nat /\ z \in Txns
    BY <1>1
  <1>5. z \in ToSet(edits[t])
    BY <1>2, <1>4 DEF ToSet
  <1> HIDE DEF z
  <1>6. z \in Saved(p)
    BY <1>1, <1>3, <1>4 DEF LastIsSaved
  <1>7. PICK i \in DOMAIN content[p] : z \in content[p][i]
    BY <1>6, InSaved
  <1>8. basis[z] \ (Cyclic \cup Restricted) \subseteq UNION {content[p][k] : k \in 1..i}
    BY <1>1, <1>5, <1>7 DEF NoMissingBase
  <1>9. UNION {content[p][k] : k \in 1..i} \subseteq Saved(p)
    <2>1. content[p] \in Seq(SUBSET Txns)
      BY <1>1, Typed
    <2>2. \A k \in 1..i : k \in DOMAIN content[p]
      BY <1>7, <2>1
    <2> QED
      BY <2>2, InSaved
  <1>10. ASSUME NEW x \in ToSet(es)
         PROVE  x \in Granted(p)
    <2>1. PICK j \in DOMAIN es : x = es[j]
      BY DEF ToSet
    <2>2. CASE j = Len(es)
      BY <1>6, <2>1, <2>2 DEF z, Granted
    <2>3. CASE j # Len(es)
      <3>1. j < Len(es)
        BY <1>4, <2>3
      <3>2. x \in basis[z]
        BY <1>2, <1>4, <2>1, <3>1 DEF Q!Ordered, z
      <3> QED
        BY <1>8, <1>9, <3>2 DEF Granted
    <2> QED
      BY <2>2, <2>3
  <1> QED
    BY <1>10 DEF hd, p, es

LEMMA OkGivenNext ==
  ASSUME CommitInv, HandlerSees, HandlerFounded, LastIsSaved, NoMissingBase, PatchRest, OkGiven, [Next]_vars
  PROVE  OkGiven'
PROOF
  <1> SUFFICES ASSUME NEW h \in Handlers, NEW t \in Tabs \ Dialogs, handler'[h] # S!Idle,
                      handler'[h].pc = "replied", handler'[h].result.status = "ok",
                      ToSet(handler'[h].entries) \cap ToSet(edits'[t]) # {}
               PROVE  ToSet(handler'[h].entries) \subseteq GrantedAfter(handler'[h].project)
    BY DEF OkGiven, Granted, GrantedAfter, Saved, SavedAfter
  <1> DEFINE hd == handler[h]
             new == handler'[h]
             p == hd.project
             Goal == ToSet(hd.entries) \subseteq GrantedAfter(p)
  <1>1. hd # S!Idle /\ S!SameRequest(hd, new)
    <2>1. \A u \in Tabs, l \in Loops : ~ SentBy(u, l, h)
      BY SentShape
    <2> QED
      BY <2>1, RequestsStay
  <1>2. new.project = p /\ new.entries = hd.entries /\ p \in Projects
    BY <1>1, Typed DEF S!SameRequest
  <1>3. ToSet(hd.entries) \cap ToSet(edits[t]) # {}
    BY <1>1, <1>2, RequestOwner
  <1>4. Granted(p) \subseteq GrantedAfter(p)
    BY <1>2, GrantsGrow DEF GrantedAfter
  <1>5. ASSUME hd.pc = "replied", new.result = hd.result
        PROVE  Goal
    <2>1. ToSet(hd.entries) \subseteq Granted(p)
      BY <1>1, <1>3, <1>5 DEF OkGiven
    <2> QED
      BY <1>4, <2>1
  <1>6. ASSUME lastTransactionId[p] = hd.entries[Len(hd.entries)]
        PROVE  Goal
    <2>1. ToSet(hd.entries) \subseteq Granted(p)
      BY <1>1, <1>3, <1>6, LastGrants
    <2> QED
      BY <1>4, <2>1
  <1>7. ASSUME SaveBy(h), hd.remaining \subseteq S!Batch(hd)
        PROVE  Goal
    <2>1. S!Patching(hd)
      BY <1>7 DEF SaveBy, S!Saves, S!Patching
    <2>2. ToSet(hd.entries) \ hd.remaining \subseteq Granted(p)
      BY <2>1 DEF PatchRest
    <2>3. S!Batch(hd) \subseteq GrantedAfter(p)
      BY <1>7, SaveAdds DEF GrantedAfter
    <2> QED
      BY <1>4, <1>7, <2>2, <2>3
  <1>8. ASSUME Quiet, S!Saves(hd, new)
        PROVE  FALSE
    <2>1. version' = [version EXCEPT ![p] = hd.version + 1] /\ version[p] = hd.version /\ version' = version
      BY <1>8 DEF S!Saves, S!WriteRow, S!Matches, Quiet
    <2>2. version \in [Projects -> Nat]
      BY Typed
    <2> HIDE DEF hd, p
    <2>3. version'[p] = hd.version + 1 /\ version[p] \in Nat
      BY <1>2, <2>1, <2>2
    <2> QED
      BY <2>1, <2>3
  <1>9. ASSUME S!Tells(hd, new), S!Saves(hd, new) => SaveBy(h)
        PROVE  Goal
    <2>1. \/ hd.pc = "replied" /\ new.result = hd.result
          \/ lastTransactionId[p] = hd.entries[Len(hd.entries)]
          \/ S!Saves(hd, new) /\ hd.remaining \subseteq S!Batch(hd)
      BY <1>9 DEF S!Tells
    <2> HIDE DEF Goal
    <2> QED
      BY <1>5, <1>6, <1>7, <1>9, <2>1
  <1>10. ASSUME Quiet
         PROVE  Goal
    <2>1. S!Tells(hd, new)
      BY <1>10 DEF Quiet, S!Calm
    <2> HIDE DEF Goal
    <2> QED
      BY <1>8, <1>9, <1>10, <2>1
  <1>11. ASSUME new = hd
         PROVE  Goal
    BY <1>5, <1>11
  <1>12. ASSUME NEW k \in Handlers, SaveBy(k)
         PROVE  Goal
    <2>1. CASE k = h
      <3>1. SaveBy(h) /\ S!Tells(hd, new)
        BY <1>12, <2>1 DEF SaveBy
      <3> HIDE DEF Goal
      <3> QED
        BY <1>9, <3>1
    <2>2. CASE k # h
      <3>1. new = hd
        BY <1>12, <2>2 DEF SaveBy
      <3> HIDE DEF Goal
      <3> QED
        BY <1>11, <3>1
    <2> QED
      BY <2>1, <2>2
  <1>13. ASSUME NEW u \in Tabs, NEW l \in Loops, NEW k \in Handlers, SentBy(u, l, k)
         PROVE  Goal
    <2>1. new = hd
      BY <1>13, SentShape
    <2> HIDE DEF Goal
    <2> QED
      BY <1>11, <2>1
  <1>14. Goal
    <2>1. Quiet \/ (\E k \in Handlers : SaveBy(k)) \/ \E u \in Tabs, l \in Loops, k \in Handlers : SentBy(u, l, k)
      BY ServerSide
    <2> HIDE DEF Goal
    <2> QED
      BY <1>10, <1>12, <1>13, <2>1
  <1> QED
    BY <1>2, <1>14

\* What the author of an edit that is saved now saw is in the row, or comes into it
\* with the same save.
LEMMA SaveFounded ==
  ASSUME CommitInv, AuxTyped, HandlerSees, HandlerFounded, PatchRest, OneWay,
         NEW h \in Handlers, NEW t \in Tabs \ Dialogs, SaveBy(h),
         NEW x \in S!Batch(handler[h]), x \in ToSet(edits[t])
  PROVE  basis[x] \ (Cyclic \cup Restricted) \subseteq Saved(handler[h].project) \cup S!Batch(handler[h])
PROOF
  <1> DEFINE hd == handler[h]
             p == hd.project
             batch == S!Batch(hd)
  <1>1. /\ hd \in S!Busy /\ hd # S!Idle /\ S!Patching(hd)
        /\ batch \in SUBSET Txns /\ batch \subseteq hd.remaining /\ hd.remaining \subseteq ToSet(hd.entries)
    BY SaveEffect, Typed DEF SaveBy, S!Saves, S!Patching
  <1>2. Q!Ordered(basis, hd.entries)
    BY <1>1 DEF HandlerSees
  <1>3. x \in ToSet(hd.entries) \cap ToSet(edits[t])
    BY <1>1
  <1>4. basis[x] \subseteq Granted(p) \cup ToSet(hd.entries)
    BY <1>1, <1>3 DEF HandlerFounded
  <1>5. ToSet(hd.entries) \ hd.remaining \subseteq Granted(p)
    BY <1>1 DEF PatchRest
  <1>6. ASSUME NEW y \in basis[x], y \in hd.remaining, y \notin batch
        PROVE  FALSE
    <2>1. hd.mode = "entries"
      BY <1>1, <1>6 DEF S!Batch, S!Busy
    <2>2. batch \subseteq basis[y]
      BY <1>1, <1>2, <1>6, <2>1, EarliestSeen
    <2>3. x \in Txns /\ y \in Txns /\ x \in basis[y]
      <3>1. hd.remaining \subseteq Txns
        BY <1>1, Typed
      <3> QED
        BY <1>1, <1>6, <2>2, <3>1
    <2> QED
      BY <1>6, <2>3 DEF OneWay
  <1> HIDE DEF hd, p, batch
  <1>7. basis[x] \ (Cyclic \cup Restricted) \subseteq Saved(p) \cup batch
    BY <1>4, <1>5, <1>6 DEF Granted
  <1> QED
    BY <1>7 DEF hd, p, batch

LEMMA NoMissingBaseNext ==
  ASSUME CommitInv, AuxTyped, HandlerSees, HandlerFounded, PatchRest, OneWay, NoMissingBase, [Next]_vars
  PROVE  NoMissingBase'
PROOF
  <1> SUFFICES ASSUME NEW p \in Projects, NEW i \in DOMAIN content'[p], NEW x \in content'[p][i],
                      NEW t \in Tabs \ Dialogs, x \in ToSet(edits'[t])
               PROVE  basis'[x] \ (Cyclic \cup Restricted) \subseteq UNION {content'[p][k] : k \in 1..i}
    BY DEF NoMissingBase
  <1>1. content[p] \in Seq(SUBSET Txns) /\ Len(content[p]) = version[p] /\ version[p] \in Nat
    BY Typed DEF CommitInv, OneVersion
  <1>2. ASSUME i \in DOMAIN content[p], \A k \in DOMAIN content[p] : content'[p][k] = content[p][k]
        PROVE  basis'[x] \ (Cyclic \cup Restricted) \subseteq UNION {content'[p][k] : k \in 1..i}
    <2>1. x \in content[p][i] /\ x \in Saved(p)
      BY <1>2, InSaved
    <2>2. x \in Txns /\ outcome[x] # "fresh" /\ basis'[x] = basis[x]
      BY <2>1, BasisSettled DEF Q!InHandOnly
    <2>3. x \in ToSet(edits[t])
      BY <2>2, OwnerStays
    <2>4. basis[x] \ (Cyclic \cup Restricted) \subseteq UNION {content[p][k] : k \in 1..i}
      BY <1>2, <2>1, <2>3 DEF NoMissingBase
    <2>5. \A k \in 1..i : content'[p][k] = content[p][k]
      BY <1>1, <1>2
    <2> QED
      BY <2>2, <2>4, <2>5
  <1>3. CASE content' = content
    BY <1>2, <1>3
  <1>4. ASSUME NEW h \in Handlers, SaveBy(h)
        PROVE  basis'[x] \ (Cyclic \cup Restricted) \subseteq UNION {content'[p][k] : k \in 1..i}
    <2> DEFINE hd == handler[h]
               batch == S!Batch(hd)
               n == version[p] + 1
    <2>1. CASE p # hd.project
      <3>1. content'[p] = content[p]
        BY <1>4, <2>1, SaveAppends
      <3> QED
        BY <1>2, <3>1
    <2>2. CASE p = hd.project
      <3>1. /\ DOMAIN content'[p] = DOMAIN content[p] \cup {n} /\ content'[p][n] = batch
            /\ \A k \in DOMAIN content[p] : content'[p][k] = content[p][k]
        BY <1>4, <2>2, SaveAppends
      <3>2. CASE i \in DOMAIN content[p]
        BY <1>2, <3>1, <3>2
      <3>3. CASE i = n
        <4>1. x \in batch
          BY <3>1, <3>3
        <4>2. batch \subseteq ToSet(hd.entries) /\ hd # S!Idle
          BY <1>4, SaveEffect, Typed DEF SaveBy
        <4>3. x \in Txns /\ outcome[x] # "fresh" /\ basis'[x] = basis[x]
          BY <4>1, <4>2, BasisSettled DEF CommitInv, Requested, Q!InHandOnly
        <4>4. x \in ToSet(edits[t])
          BY <4>3, OwnerStays
        <4>5. basis[x] \ (Cyclic \cup Restricted) \subseteq Saved(p) \cup batch
          BY <1>4, <2>2, <4>1, <4>4, SaveFounded
        <4> HIDE DEF batch, hd
        <4>6. \A y \in Saved(p) \cup batch : \E k \in 1..n : y \in content'[p][k]
          <5>1. \A k \in DOMAIN content[p] : k \in 1..n
            BY <1>1 DEF n
          <5>2. n \in 1..n
            BY <1>1 DEF n
          <5> QED
            BY <3>1, <5>1, <5>2, InSaved
        <4> QED
          BY <3>3, <4>3, <4>5, <4>6
      <3> QED
        BY <3>1, <3>2, <3>3
    <2> QED
      BY <2>1, <2>2
  <1> QED
    BY <1>3, <1>4, ServerSide DEF Quiet, SentBy, S!Request

-----------------------------------------------------------------------------
(* No earlier edit is missing under a saved one.                           *)

\* The inductive invariant.
BaseInv ==
  /\ SeenInv
  /\ Building
  /\ FreshUnseen
  /\ OneWay
  /\ HandlerFounded
  /\ PatchRest
  /\ OkGiven
  /\ NoMissingBase

LEMMA BaseInit ==
  ASSUME Init
  PROVE  BaseInv
PROOF
  <1>1. SeenInv
    BY SeenInit
  <1>2. Q!PQInit /\ S!BPInit /\ seen = [t \in Tabs |-> {}] /\ basis = [x \in Txns |-> {}]
    BY SamePQInit, SameBPInit DEF Init
  <1>3. Building
    <2>1. ASSUME NEW t \in Tabs \ Dialogs
          PROVE  page[t].phase = "closed" /\ queue[t] = <<>> /\ \A l \in Loops : loop[t][l] = Q!OffLoop
      BY <1>2 DEF Q!PQInit, Q!ClosedPage
    <2>2. ASSUME NEW t \in Tabs \ Dialogs
          PROVE  Q!TabFounded(Grants, basis, seen[t], page[t], controller[t], queue[t], loop[t])
      BY <2>1, <2>2, Q!FreshFounded
    <2> QED
      BY <2>2 DEF Building
  <1>4. FreshUnseen /\ OneWay
    BY <1>2 DEF FreshUnseen, OneWay
  <1>5. /\ \A h \in Handlers : handler[h] = S!Idle /\ ~ S!Patching(handler[h])
        /\ \A p \in Projects : content[p] = <<>>
    BY <1>2 DEF S!BPInit, S!Patching, S!Idle
  <1>6. HandlerFounded /\ PatchRest /\ OkGiven /\ NoMissingBase
    BY <1>5 DEF HandlerFounded, PatchRest, OkGiven, NoMissingBase
  <1> QED
    BY <1>1, <1>3, <1>4, <1>6 DEF BaseInv

LEMMA BaseNext ==
  ASSUME BaseInv, [Next]_vars, BuilderStays
  PROVE  BaseInv'
PROOF
  <1>1. SeenInv'
    BY SeenNext DEF BaseInv
  <1>2. Building' /\ FreshUnseen' /\ OneWay'
    BY BuildingNext, FreshNext DEF BaseInv, SeenInv
  <1>3. HandlerFounded' /\ PatchRest'
    BY HandlerFoundedNext, PatchRestNext DEF BaseInv, SeenInv
  <1>4. OkGiven' /\ NoMissingBase'
    BY OkGivenNext, NoMissingBaseNext DEF BaseInv, SeenInv
  <1> QED
    BY <1>1, <1>2, <1>3, <1>4 DEF BaseInv

\* While a builder's page keeps its project, no edit of its is saved without what it
\* was made on: batches that fail, requests that are retried and pages that are
\* reloaded leave no hole under a later edit.
THEOREM NothingMissing == Spec /\ BuildersStay => []NoMissingBase
PROOF
  <1>1. BaseInv /\ [Next]_vars /\ [BuilderStays]_vars => BaseInv'
    <2>1. UNCHANGED vars => BuilderStays
      BY DEF vars, tabVars, BuilderStays
    <2> QED
      BY <2>1, BaseNext
  <1>2. BaseInv => NoMissingBase
    BY DEF BaseInv
  <1> QED
    BY <1>1, <1>2, BaseInit, PTL DEF Spec, BuildersStay

\* So with one project, without that assumption, no saved edit of a builder misses
\* what it was made on (NoMissingBase).
THEOREM OneProjectNothingMissing ==
  (\A p, q \in Projects : p = q) => (Spec => []NoMissingBase)
PROOF
  <1> SUFFICES ASSUME \A p, q \in Projects : p = q
               PROVE  Spec => []NoMissingBase
    OBVIOUS
  <1>1. BaseInv /\ [Next]_vars => BaseInv'
    <2> SUFFICES ASSUME BaseInv, [Next]_vars
                 PROVE  BaseInv'
      OBVIOUS
    <2>1. BuilderStays
      BY OneProjectStays DEF BaseInv, SeenInv
    <2> QED
      BY <2>1, BaseNext
  <1>2. BaseInv => NoMissingBase
    BY DEF BaseInv
  <1> QED
    BY <1>1, <1>2, BaseInit, PTL DEF Spec
=============================================================================
