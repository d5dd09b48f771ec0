---------------------------- MODULE SinglePlayer ----------------------------
(***************************************************************************)
(* Single-player saving as a whole: the queues of several browser tabs     *)
(* (ProjectQueue), one server with one row per project (BuildPatch), and   *)
(* the connections between them.                                           *)
(*                                                                         *)
(* A connection is a handler whose client is a poll loop, <<tab, loop>>.   *)
(* It can break at any moment: the loop then retries the same batch with   *)
(* the same version, while the first request may still be running.         *)
(***************************************************************************)
EXTENDS Integers, Sequences, SequencesExt

CONSTANTS Tabs, Dialogs, Projects, Txns, Loops, NoLoop, NoProject, NoTxn,
          MaxRetryRecovery, MaxAllowedApiErrors, MaxQueue,   \* see ProjectQueue
          Handlers, Cyclic, Restricted, AssetTxns, NoClient, \* see BuildPatch
          MaxFaults, \* bound: broken connections, server failures and reloads
          MaxLoads   \* bound: times a project is loaded, all tabs together

ASSUME SinglePlayerAssumption ==
  /\ Dialogs \subseteq Tabs
  /\ NoLoop \notin Loops
  /\ NoProject \notin Projects
  /\ NoTxn \notin Txns
  /\ NoClient \notin Tabs \X Loops
  /\ {MaxRetryRecovery, MaxAllowedApiErrors, MaxQueue, MaxFaults, MaxLoads} \subseteq Nat

VARIABLES page, queue, isPolling, controller, loop, syncStatus,
          committedVersion, lastEdit, outcome, edits,              \* ProjectQueue
          version, lastTransactionId, content, assets, handler,    \* BuildPatch
          faults,   \* faults so far
          loads,    \* loads so far
          seen,     \* what the page of a tab shows, as transactions (auxiliary)
          basis     \* what its author saw when making an edit (auxiliary)

Queue == INSTANCE ProjectQueue WITH MaxVersion <- 0

Server == INSTANCE BuildPatch WITH
            Clients <- Tabs \X Loops, Requests <- {}, MaxVersion <- 0

tabVars == <<page, queue, isPolling, controller, loop, syncStatus,
             committedVersion, lastEdit, outcome, edits>>
serverVars == <<version, lastTransactionId, content, assets, handler>>
auxVars == <<faults, loads, seen, basis>>
vars == <<tabVars, serverVars, auxVars>>

Init ==
  /\ Queue!PQInit
  /\ Server!BPInit
  /\ faults = 0
  /\ loads = 0
  /\ seen = [t \in Tabs |-> {}]
  /\ basis = [x \in Txns |-> {}]

Saved(p) == UNION Range(content[p])

-----------------------------------------------------------------------------

\* loadBuilderData reads the row: its version and what that version contains.
Load(t) ==
  /\ loads < MaxLoads
  /\ loads' = loads + 1
  /\ Queue!LoadData(t, version[page[t].project])
  /\ seen' = [seen EXCEPT ![t] = Saved(page[t].project)]
  /\ UNCHANGED <<serverVars, faults, basis>>

Edit(t, x) ==
  /\ Queue!SendTransaction(t, x)
  /\ basis' = [basis EXCEPT ![x] = seen[t]]
  /\ seen' = [seen EXCEPT ![t] = @ \cup {x}]
  /\ UNCHANGED <<serverVars, faults, loads>>

\* The user's other steps.
Act(t) ==
  /\ \/ \E p \in Projects : Queue!OpenProject(t, p)
     \/ Queue!EnqueueProjectDetails(t)
     \/ Queue!CloseDialog(t)
     \/ Queue!Unmount(t)
  /\ UNCHANGED <<serverVars, auxVars>>

\* A poll loop by itself.
Run(t, l) == Queue!Step(t, l) /\ UNCHANGED <<serverVars, auxVars>>

\* The page goes, and its connections with it; their requests do not.
Reload(t) ==
  /\ faults < MaxFaults
  /\ faults' = faults + 1
  /\ Queue!Reload(t)
  /\ handler' = [h \in Handlers |->
       IF handler[h] # Server!Idle /\ \E l \in Loops : handler[h].client = <<t, l>>
         THEN [handler[h] EXCEPT !.client = NoClient] ELSE handler[h]]
  /\ seen' = [seen EXCEPT ![t] = {}]
  /\ UNCHANGED <<version, lastTransactionId, content, assets, loads, basis>>

Send(t, l, h) ==
  LET command == Queue!InHand(t, l) IN
  /\ Queue!SendPatch(t, l)
  /\ Server!Request(h, <<t, l>>, command.project, command.transactions,
                    loop[t][l].details[command.project])
  /\ UNCHANGED auxVars

Connected(t, l, h) == handler[h] # Server!Idle /\ handler[h].client = <<t, l>>

Answer(t, l, h) ==
  /\ Connected(t, l, h)
  /\ handler[h].pc = "replied"
  /\ Queue!Receive(t, l, handler[h].result)
  /\ Server!Respond(h)
  /\ UNCHANGED auxVars

\* The request, or its answer, does not get through.
Break(t, l, h) ==
  /\ faults < MaxFaults
  /\ faults' = faults + 1
  /\ Connected(t, l, h)
  /\ Queue!NetworkError(t, l)
  /\ Server!Disconnect(h)
  /\ UNCHANGED <<loads, seen, basis>>

Serve(h) ==
  /\ Server!Serve(h) \/ Server!Vanish(h)
  /\ UNCHANGED <<tabVars, auxVars>>

Falter(h) ==
  /\ faults < MaxFaults
  /\ faults' = faults + 1
  /\ Server!Falter(h)
  /\ UNCHANGED <<tabVars, loads, seen, basis>>

Next ==
  \/ \E t \in Tabs :
       \/ Load(t)
       \/ \E x \in Txns : Edit(t, x)
       \/ Act(t)
       \/ Reload(t)
       \/ \E l \in Loops :
            \/ Run(t, l)
            \/ \E h \in Handlers : Send(t, l, h) \/ Answer(t, l, h) \/ Break(t, l, h)
  \/ \E h \in Handlers : Serve(h) \/ Falter(h)

Spec == Init /\ [][Next]_vars

-----------------------------------------------------------------------------
(* Properties *)

TypeOK ==
  /\ Queue!PQTypeOK
  /\ Server!BPTypeOK
  /\ faults \in 0..MaxFaults
  /\ loads \in 0..MaxLoads
  /\ seen \in [Tabs -> SUBSET Txns]
  /\ basis \in [Txns -> SUBSET Txns]

\* Retries, concurrent handlers of one batch and reloads included, no
\* transaction is applied to the build twice.
CommittedOnce ==
  \A p \in Projects : \A i, j \in DOMAIN content[p] :
    i # j => content[p][i] \cap content[p][j] = {}

\* completeTransaction(id, true) tells the truth: the transaction is in the row,
\* also when "retrying a transaction already saved by the server" (test of
\* build-patch.ts) was what got the ok.
SavedIsCommitted ==
  \A x \in Txns : outcome[x] = "saved" => \E p \in Projects : x \in Saved(p)

\* A saved edit finds everything its author saw (but for what the server refused
\* to take): no earlier edit of the page is missing under it.  The author is not a
\* dialog, whose edits an aborted loop may drop.
NoMissingBase ==
  \A p \in Projects : \A i \in DOMAIN content[p] : \A x \in content[p][i] :
    (\E t \in Tabs \ Dialogs : x \in ToSet(edits[t])) =>
    basis[x] \ (Cyclic \cup Restricted) \subseteq UNION {content[p][k] : k \in 1..i}

\* A saved edit finds nothing its author did not see: two tabs never overwrite
\* each other blindly.
NoBlindWrite ==
  \A p \in Projects : \A i \in DOMAIN content[p] : \A x \in content[p][i] :
    UNION {content[p][k] : k \in 1..(i-1)} \subseteq basis[x]

\* Nobody is told to reload for nothing: when a queue halts and nothing has failed,
\* the row holds an edit that the page did not show when the edit in hand was made,
\* or the page was opened at a version the row has left behind.  A dialog opened
\* again over edits the last one left queued is the exception: its new loop halts
\* because it does not know their project.
HaltMeansStale ==
  [][\A t \in Tabs, l \in Loops :
       LET command == Queue!InHand(t, l)
           leftOver == /\ t \in Dialogs
                       /\ command.type = "transactions"
                       /\ loop[t][l].details[command.project] = Queue!Unknown
       IN
       /\ syncStatus'[t] = "fatal" /\ loop[t][l].pc # "off" /\ loop'[t][l].pc = "off"
       /\ faults = 0 /\ ~leftOver
       =>
         IF command.type = "setDetails"
           THEN command.version < version[command.project]
           ELSE ~ (Saved(command.project) \subseteq
                     basis[Head(command.transactions)] \cup ToSet(command.transactions))]_vars

\* Timers and continuations of the browser run, its requests get out, the server
\* works on what it has and its answers come back.  Only the faults, bounded by
\* MaxFaults, may get in between, and the user, who is under no obligation.
Fairness ==
  /\ \A t \in Tabs, l \in Loops :
       /\ WF_vars(Run(t, l))
       /\ WF_vars(\E h \in Handlers : Send(t, l, h))
       /\ WF_vars(\E h \in Handlers : Answer(t, l, h))
  /\ \A h \in Handlers : WF_vars(Serve(h))

FairSpec == Spec /\ Fairness

\* Every edit is answered in the end, whatever fails on the way, unless the queue
\* halts or the page goes: no retry waits for a request that is gone, no handler
\* is stuck behind another.
EditsSettle ==
  \A t \in Tabs : \A x \in Txns :
    x \in Queue!Pending(t) ~> (x \notin Queue!Pending(t) \/ Queue!Halted(t))
=============================================================================
