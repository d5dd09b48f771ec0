--------------------------- MODULE MultiplayerSync ---------------------------
(***************************************************************************)
(* Multiplayer saving: the retry tracker of a page                         *)
(* (multiplayer-retry-tracker.ts), the emitter that drives it              *)
(* (multiplayer-sync.ts), its WebSocket (websocket-emitter.ts), and the    *)
(* relay at the other end, which is not part of the repository.            *)
(*                                                                         *)
(* A connection delivers in order and may break at any moment, with        *)
(* whatever is on its way.  The socket reconnects by itself, keeps what is *)
(* sent meanwhile and sends that first when it is open again.              *)
(*                                                                         *)
(* actorId and clientSeq name an apply exactly as its transaction id does, *)
(* so the two maps of pending applies are one.  Time is left out: a timer  *)
(* that is set may fire.  Of the other pages only what the relay sequences *)
(* for them is seen here: their broadcasts never find an entry in the      *)
(* tracker, but the acks that cover them cover what is ours as well.       *)
(***************************************************************************)
EXTENDS Integers, Sequences, FiniteSets, SequencesExt

CONSTANTS
  MaxEdits,       \* bound: edits of the page, told apart by their clientSeq
  Others,         \* transactions of other pages
  MaxCopies,      \* bound: of an apply and its answers while its timer fires
  MaxEvents       \* bound: broken connections, applies turned away, reloads and
                  \* edits of others

ASSUME MultiplayerAssumption ==
  /\ MaxEdits \in Nat /\ MaxCopies \in Nat /\ MaxEvents \in Nat
  /\ (1..MaxEdits) \cap Others = {}

Txns == 1..MaxEdits

VARIABLES
  socket,      \* ws: none before connect(buildId), then PartySocket's state
  buffer,      \* applies the socket keeps while it is not open
  up, down,    \* what is on its way to the relay and back
  pending,     \* the keys of pendingByTransactionId
  seq,         \* entry.seq of each pending apply, 0 when undefined
  timer,       \* the applies whose retryTimer is set
  lastAckSeq,
  stopped,
  syncStatus,  \* $syncStatus
  clientSeq,   \* of the last edit
  fate,        \* what became of each transaction, as the page knows it
  log,         \* the relay: transactions in the order it sequenced them
  persisted,   \* the relay: how far the log was handed to build.patch
  saved,       \* the relay: transactions the build holds
  refused,     \* the relay: transactions dropped, rejected or failed
  events,      \* how many of MaxEvents there were
  turnedAway,  \* applies answered rate_limited or persistence_backlog_full
  lost,        \* applies that went with a connection, unsequenced (auxiliary)
  missed       \* refusals that did not reach their author (auxiliary)

socketVars == <<socket, buffer, up, down>>
trackerVars == <<pending, seq, timer, lastAckSeq, stopped, syncStatus, clientSeq, fate>>
relayVars == <<log, persisted, saved, refused>>
faultVars == <<events, turnedAway, lost, missed>>
vars == <<socketVars, trackerVars, relayVars, faultVars>>

-----------------------------------------------------------------------------

\* The messages of multiplayer-protocol that matter to the tracker.  rejected and
\* failed take the same branch.
Broadcast(x, n) == [type |-> "broadcast", txn |-> x, seq |-> n]
Applied(x, n, status) ==
  [type |-> "applied", txn |-> x, seq |-> n, status |-> status]
Ack(n) == [type |-> "ack", seq |-> n]
Error(x) == [type |-> "error", txn |-> x]
Reload == [type |-> "reload"]

Seqs == Nat

Messages ==
  [type : {"broadcast"}, txn : Txns \cup Others, seq : Seqs]
    \cup [type : {"applied"}, txn : Txns, seq : Seqs,
          status : {"dropped", "failed", "settled"}]
    \cup [type : {"ack"}, seq : Seqs]
    \cup [type : {"error"}, txn : Txns]
    \cup {Reload}

\* "reloaded" and "closed": pending when the relay asked for a reload, or when
\* the page closed.  "ignored": made after a reload.
Fates == {"fresh", "pending", "durable", "refused", "reloaded", "closed", "ignored"}

Init ==
  /\ socket = "none"
  /\ buffer = <<>>
  /\ up = <<>>
  /\ down = <<>>
  /\ pending = {}
  /\ seq = [x \in Txns |-> 0]
  /\ timer = {}
  /\ lastAckSeq = 0
  /\ stopped = FALSE
  /\ syncStatus = "idle"
  /\ clientSeq = 0
  /\ fate = [x \in Txns |-> "fresh"]
  /\ log = <<>>
  /\ persisted = 0
  /\ saved = {}
  /\ refused = {}
  /\ events = 0
  /\ turnedAway = {}
  /\ lost = {}
  /\ missed = {}

\* One of the events that are bounded.
Event == events < MaxEvents /\ events' = events + 1

-----------------------------------------------------------------------------
(* The socket *)

\* ws.send: on its way when the socket is open, kept when it is not.
SendApplies(xs) ==
  /\ up' = IF socket = "open" THEN up \o xs ELSE up
  /\ buffer' = IF socket = "connecting" THEN buffer \o xs
                                           ELSE buffer
  /\ UNCHANGED <<socket, down>>

\* connect(buildId), once the data of the project are loaded.
Connect ==
  /\ socket = "none"
  /\ socket' = "connecting"
  /\ UNCHANGED <<buffer, up, down, trackerVars, relayVars, faultVars>>

\* Edits in the order they were made, which is the order of their clientSeq.
InOrder(xs) ==
  CHOOSE s \in [1..Cardinality(xs) -> xs] :
    /\ ToSet(s) = xs
    /\ \A i, j \in DOMAIN s : i < j => s[i] < s[j]

\* Mutants: nothing is sent again; the latest edit comes first.
ReconnectQuietly == <<>>

ReconnectBackwards == Reverse(InOrder(pending))

\* handleReconnect: what every open of the socket sends again, in the order of the
\* Map, which keeps the order its entries were set in.
Reconnect == InOrder(pending)

\* The socket sends what it kept, then tells its listeners that it is open.
Open ==
  /\ socket = "connecting"
  /\ socket' = "open"
  /\ up' = buffer \o Reconnect
  /\ buffer' = <<>>
  /\ UNCHANGED <<down, trackerVars, relayVars, faultVars>>

\* What was on its way goes with the connection; the timers of the tracker run on.
Break ==
  /\ Event
  /\ socket = "open"
  /\ socket' = "connecting"
  /\ up' = <<>>
  /\ down' = <<>>
  /\ lost' = lost \cup (ToSet(up) \ ToSet(log))
  /\ missed' = missed \cup (refused \cap pending)
  /\ UNCHANGED <<buffer, trackerVars, relayVars, turnedAway>>

-----------------------------------------------------------------------------
(* The tracker and its emitter *)

\* Mutant: the status is left as it is.
SyncStatusAsBefore == syncStatus' = syncStatus

\* updateUnsaved, which ends every handler.
UpdateUnsaved ==
  syncStatus' = IF pending' = {} THEN "idle" ELSE "syncing"

\* Mutant: the timer of a settled apply runs on.
DeleteEntry(gone, why) ==
  /\ pending' = pending \ gone
  /\ seq' = [x \in Txns |-> IF x \in gone THEN 0 ELSE seq[x]]
  /\ fate' = [x \in Txns |-> IF x \in gone THEN why ELSE fate[x]]
  /\ UNCHANGED timer

\* deletePending, with its timer, for all of gone.
Delete(gone, why) ==
  /\ pending' = pending \ gone
  /\ seq' = [x \in Txns |-> IF x \in gone THEN 0 ELSE seq[x]]
  /\ timer' = timer \ gone
  /\ fate' = [x \in Txns |-> IF x \in gone THEN why ELSE fate[x]]

\* The handler found nothing to do with an entry.
NoEntry == UNCHANGED <<pending, seq, timer, fate>>

\* emit of a transaction of the server object.
Edit(x) ==
  /\ socket \in {"connecting", "open"}
  /\ x = clientSeq + 1
  /\ clientSeq' = x
  /\ IF stopped
       THEN /\ fate' = [fate EXCEPT ![x] = "ignored"]
            /\ UNCHANGED <<pending, socketVars>>
       ELSE /\ fate' = [fate EXCEPT ![x] = "pending"]
            /\ pending' = pending \cup {x}
            /\ SendApplies(<<x>>)
  /\ UpdateUnsaved
  /\ UNCHANGED <<seq, timer, lastAckSeq, stopped, relayVars, faultVars>>

\* The copies of an apply and the answers to it that are under way.
UnderWay(x) ==
  Len(SelectSeq(up \o buffer, LAMBDA y : y = x))
    + Len(SelectSeq(down, LAMBDA m : m.type \in {"broadcast", "applied", "error"} /\ m.txn = x))

\* The retry timer of an entry.  It is set again only when the apply is known to
\* be sequenced.
RetryTimer(x) ==
  /\ x \in timer
  /\ x \in pending
  /\ UnderWay(x) < MaxCopies
  /\ SendApplies(<<x>>)
  /\ timer' = IF seq[x] = 0 THEN timer \ {x} ELSE timer
  /\ UNCHANGED <<pending, seq, lastAckSeq, stopped, syncStatus, clientSeq, fate,
                 relayVars, faultVars>>

\* handleBroadcast and handleApplied(settled): the apply has a place in the log.
\* It is durable when that place was acked before, else an ack is awaited.
Sequenced(x, n) ==
  IF x \notin pending THEN NoEntry
  ELSE IF lastAckSeq >= n THEN Delete({x}, "durable")
  ELSE /\ seq' = [seq EXCEPT ![x] = n]
       /\ timer' = timer \cup {x}
       /\ UNCHANGED <<pending, fate>>

\* Mutant: settled is taken for durable.
SettledIsDurable(m) ==
  IF m.txn \notin pending THEN NoEntry
  ELSE Delete({m.txn}, IF m.status = "settled" THEN "durable" ELSE "refused")

HandleApplied(m) ==
  IF m.status = "settled" THEN Sequenced(m.txn, m.seq)
  ELSE IF m.txn \in pending THEN Delete({m.txn}, "refused")
  ELSE NoEntry

\* Mutant: an entry without seq counts as acked.
AckedUnsequenced(n) == {x \in pending : seq[x] <= n}

\* The entries an ack up to n settles.
AckedEntries(n) == {x \in pending : seq[x] # 0 /\ seq[x] <= n}

HandleAck(n) ==
  LET last == IF n >= lastAckSeq THEN n ELSE lastAckSeq IN
  /\ lastAckSeq' = last
  /\ Delete(AckedEntries(last), "durable")

\* handleErrorMessage: the apply is sent again after a while.
HandleError(x) ==
  /\ timer' = IF x \in pending THEN timer \cup {x} ELSE timer
  /\ UNCHANGED <<pending, seq, fate>>

\* handleReload: the tracker stops for good; onReload replaces the data.
HandleReload ==
  /\ stopped' = TRUE
  /\ Delete(pending, "reloaded")

\* A message of the relay arrives.
Receive ==
  /\ down # <<>>
  /\ LET m == Head(down) IN
       /\ CASE m.type = "broadcast" -> Sequenced(m.txn, m.seq)
            [] m.type = "applied"   -> HandleApplied(m)
            [] m.type = "ack"       -> HandleAck(m.seq)
            [] m.type = "error"     -> HandleError(m.txn)
            [] m.type = "reload"    -> HandleReload
       /\ m.type # "ack" => UNCHANGED lastAckSeq
       /\ m.type # "reload" => UNCHANGED stopped
  /\ UpdateUnsaved
  /\ down' = Tail(down)
  /\ UNCHANGED <<socket, buffer, up, clientSeq, relayVars, faultVars>>

\* close: the page goes to another project.  What it sent is still delivered.
Close ==
  /\ socket \in {"connecting", "open"}
  /\ socket' = "closed"
  /\ buffer' = <<>>
  /\ down' = <<>>
  /\ stopped' = TRUE
  /\ Delete(pending, "closed")
  /\ UpdateUnsaved
  /\ UNCHANGED <<up, lastAckSeq, clientSeq, relayVars, faultVars>>

-----------------------------------------------------------------------------
(* The relay, as its messages and what the tracker does with them tell of it *)

Position(x) == CHOOSE n \in 1..Len(log) : log[n] = x

Tell(ms) == IF socket = "open" THEN down \o ms ELSE down

\* An apply it has seen is answered with what became of it: "Already sequenced
\* earlier", and the ack once more when that was acked.
RelayRepeats(x) ==
  /\ x \in ToSet(log) \cup refused
  /\ down' = Tell(IF x \in refused THEN <<Applied(x, 0, "failed")>>
                     ELSE IF Position(x) > persisted
                       THEN <<Applied(x, Position(x), "settled")>>
                     ELSE <<Applied(x, Position(x), "settled"), Ack(persisted)>>)
  /\ UNCHANGED <<relayVars, events, turnedAway>>

RelaySequences(x) ==
  /\ x \notin ToSet(log) \cup refused
  /\ log' = Append(log, x)
  /\ down' = Tell(<<Broadcast(x, Len(log'))>>)
  /\ UNCHANGED <<persisted, saved, refused, events, turnedAway>>

RelayDrops(x) ==
  /\ x \notin ToSet(log) \cup refused
  /\ refused' = refused \cup {x}
  /\ down' = Tell(<<Applied(x, 0, "dropped")>>)
  /\ UNCHANGED <<log, persisted, saved, events, turnedAway>>

RelayTurnsAway(x) ==
  /\ x \notin ToSet(log) \cup refused \cup turnedAway
  /\ Event
  /\ turnedAway' = turnedAway \cup {x}
  /\ down' = Tell(<<Error(x)>>)
  /\ UNCHANGED relayVars

RelayReceives ==
  /\ up # <<>>
  /\ LET x == Head(up) IN
       \/ RelayRepeats(x)
       \/ RelaySequences(x)
       \/ RelayDrops(x)
       \/ RelayTurnsAway(x)
  /\ up' = Tail(up)
  /\ UNCHANGED <<socket, buffer, trackerVars, lost, missed>>

\* The edit of another page.
RelaySequencesOther(x) ==
  /\ x \notin ToSet(log)
  /\ Event
  /\ log' = Append(log, x)
  /\ down' = Tell(<<Broadcast(x, Len(log'))>>)
  /\ UNCHANGED <<socket, buffer, up, trackerVars, persisted, saved, refused, turnedAway,
                 lost, missed>>

\* build.patch takes the next entry of the log, and everyone is told how far the
\* log is durable.
RelaySaves ==
  /\ persisted < Len(log)
  /\ persisted' = persisted + 1
  /\ saved' = saved \cup {log[persisted']}
  /\ down' = Tell(<<Ack(persisted')>>)
  /\ UNCHANGED <<socket, buffer, up, trackerVars, log, refused, faultVars>>

\* build.patch rejects the entry or fails on it; its author is told.
RelayFails ==
  /\ persisted < Len(log)
  /\ persisted' = persisted + 1
  /\ LET x == log[persisted'] IN
       /\ refused' = refused \cup {x}
       /\ down' = IF x \in Txns THEN Tell(<<Applied(x, persisted', "failed")>>) ELSE down
       /\ missed' = IF socket = "open" THEN missed ELSE missed \cup {x}
  /\ UNCHANGED <<socket, buffer, up, trackerVars, log, saved, events, turnedAway,
                 lost>>

\* The build was changed by someone else, or cannot be saved: what is not saved is
\* given up, and everyone is told to reload.
RelayReloads ==
  /\ Event
  /\ LET gone == ToSet(SubSeq(log, persisted + 1, Len(log))) IN
       /\ refused' = refused \cup gone
       /\ missed' = IF socket = "open" THEN missed ELSE missed \cup gone
  /\ persisted' = Len(log)
  /\ down' = Tell(<<Reload>>)
  /\ UNCHANGED <<socket, buffer, up, trackerVars, log, saved, turnedAway, lost>>

-----------------------------------------------------------------------------

Next ==
  \/ Connect \/ Open \/ Break \/ Close
  \/ Receive
  \/ \E x \in Txns : Edit(x) \/ RetryTimer(x)
  \/ RelayReceives
  \/ \E x \in Others : RelaySequencesOther(x)
  \/ RelaySaves \/ RelayFails \/ RelayReloads

\* The socket reconnects, timers fire, messages arrive and the relay works on what
\* it has.  Broken connections, refusals of service and reloads are bounded.
Fairness ==
  /\ WF_vars(Open)
  /\ WF_vars(Receive)
  /\ WF_vars(RelayReceives)
  /\ \A x \in Txns : WF_vars(RetryTimer(x))
  /\ WF_vars(RelaySaves \/ RelayFails)

Spec == Init /\ [][Next]_vars
FairSpec == Spec /\ Fairness

-----------------------------------------------------------------------------
(* Properties *)

TypeOK ==
  /\ socket \in {"none", "connecting", "open", "closed"}
  /\ buffer \in Seq(Txns)
  /\ up \in Seq(Txns)
  /\ down \in Seq(Messages)
  /\ pending \subseteq Txns
  /\ seq \in [Txns -> Seqs]
  /\ timer \subseteq pending
  /\ lastAckSeq \in Seqs
  /\ stopped \in BOOLEAN
  /\ syncStatus \in {"idle", "syncing"}
  /\ clientSeq \in 0..MaxEdits
  /\ fate \in [Txns -> Fates]
  /\ log \in Seq(Txns \cup Others)
  /\ persisted \in 0..Len(log)
  /\ saved \cup refused \cup missed \subseteq ToSet(log) \cup Txns
  /\ events \in 0..MaxEvents
  /\ turnedAway \subseteq Txns
  /\ lost \subseteq Txns

\* An apply is reported durable only when the build holds it, although acks are
\* cumulative and may overtake the broadcast of what they acknowledge.  The one
\* exception: the relay refused it and that answer went with a connection; the
\* next ack of anything later then passes for an ack of this one.
DurableMeansSaved ==
  \A x \in Txns : fate[x] = "durable" => x \in saved \cup missed

\* "keeps unsaved state until all local applies are durable" (test of
\* multiplayer-sync.ts), for a tracker that has not been stopped: over an idle
\* status the page can be left without losing an edit nobody told the user of.
IdleMeansSaved ==
  syncStatus = "idle" /\ ~ stopped =>
    \A x \in 1..clientSeq : x \in saved \cup missed \/ fate[x] = "refused"

\* The relay sequences the edits of a page in the order they were made, through
\* buffers, reconnects and retries.  An edit overtakes an earlier one only when
\* that one was refused or turned away, or when it was lost with a connection and
\* the later one waited in the socket's buffer, which goes first (it was not lost
\* as well, or its retry timer fired in between).
OvertakesOnlyDetained ==
  \A x, y \in Txns :
    /\ x < y
    /\ y \in ToSet(log)
    /\ x \in ToSet(log) => Position(y) < Position(x)
    => x \in turnedAway \cup refused \cup (IF y \in lost \ turnedAway THEN {} ELSE lost)

\* Whatever connections break and whatever the relay turns away, every edit is
\* answered in the end: reconnects and timers leave no apply behind.
EditsSettle ==
  \A x \in Txns : fate[x] = "pending" ~> fate[x] # "pending"
=============================================================================
