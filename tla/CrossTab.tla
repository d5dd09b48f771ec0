------------------------------ MODULE CrossTab ------------------------------
(***************************************************************************)
(* Polling for notifications by several tabs (shared/polly): the election  *)
(* of a leader over a BroadcastChannel (cross-tab-manager.ts), the polling *)
(* manager the leader keeps (polling-manager.ts) and its polling client    *)
(* (polling-client.ts), as startSubscription of subscription.tsx uses      *)
(* them: every tab subscribes to the same topics once and never            *)
(* unsubscribes before it stops.                                           *)
(*                                                                         *)
(* The data of the topics change together and are a version number.  The   *)
(* channel delivers what one tab posts in order, to every tab that lived   *)
(* when it was posted.  Time is left out: a timer that is set may fire,    *)
(* and a watchdog fires of itself only when no leader is left; it may also *)
(* fire although there is one, whose heartbeats are late.                  *)
(***************************************************************************)
EXTENDS Integers, Sequences, FiniteSets, SequencesExt

CONSTANTS
  Tabs,         \* tab ids: numbers, as ids are only compared
  TopicOrder,   \* the topics in the order startSubscription subscribes to them
  MaxVersions,  \* bound: changes of the data on the server
  MaxQueue,     \* bound: messages of a kind under way while their timer fires
  MaxFaults     \* bound: crashes, late heartbeats, failed polls, refreshes, hidings

ASSUME CrossTabAssumption ==
  /\ Tabs \subseteq Nat /\ IsFiniteSet(Tabs)
  /\ TopicOrder \in Seq(STRING) /\ TopicOrder # <<>>
  /\ MaxVersions \in Nat /\ MaxQueue \in Nat /\ MaxFaults \in Nat

Topics == ToSet(TopicOrder)

VARIABLES
  phase,      \* new, live, or gone (destroyed or crashed)
  isLeader,
  watchdog,   \* watchdogTimerId is set
  fetch,      \* pending of the leader's polling client
  stray,      \* fetches under way of polling clients that were stopped
  timer,      \* timerId of the leader's polling client is set
  hidden,     \* document.visibilityState
  snapshots,  \* per topic what was dispatched last, None after a clear
  shown,      \* per topic what the listener was told last (auxiliary)
  inbox,      \* inbox[t][s]: what s posted and t has not handled yet
  version,    \* the server's data
  faults      \* how many of MaxFaults there were

vars == <<phase, isLeader, watchdog, fetch, stray, timer, hidden, snapshots, shown,
          inbox, version, faults>>

-----------------------------------------------------------------------------

None == -1
Versions == 0..MaxVersions
NoData == [x \in Topics |-> None]

\* A request: for which topics, and the version at the time it was sent.  The
\* answer holds any version from then on.
Request(topics) == [topics |-> topics, since |-> version]
NoFetch == [topics |-> {}, since |-> None]
Requests == [topics : (SUBSET Topics) \ {{}}, since : Versions]

Heartbeat(t) == [kind |-> "heartbeat", leaderId |-> t]
Abdicate(t) == [kind |-> "abdicate", leaderId |-> t]
Data(topics, v) == [kind |-> "data", topics |-> topics, version |-> v]
TopicSync == [kind |-> "topic-sync"]

Messages ==
  {Heartbeat(t) : t \in Tabs} \cup {Abdicate(t) : t \in Tabs} \cup {TopicSync}
    \cup {Data(topics, v) : topics \in SUBSET Topics, v \in Versions}

Live == {t \in Tabs : phase[t] = "live"}
Leaders == {t \in Live : isLeader[t]}

Init ==
  /\ phase = [t \in Tabs |-> "new"]
  /\ isLeader = [t \in Tabs |-> FALSE]
  /\ watchdog = [t \in Tabs |-> FALSE]
  /\ fetch = [t \in Tabs |-> NoFetch]
  /\ stray = [t \in Tabs |-> {}]
  /\ timer = [t \in Tabs |-> FALSE]
  /\ hidden = [t \in Tabs |-> FALSE]
  /\ snapshots = [t \in Tabs |-> NoData]
  /\ shown = [t \in Tabs |-> NoData]
  /\ inbox = [t \in Tabs |-> [s \in Tabs |-> <<>>]]
  /\ version = 0
  /\ faults = 0

Fault == faults < MaxFaults /\ faults' = faults + 1

-----------------------------------------------------------------------------
(* The channel and the listeners *)

\* post: the messages ms of tab t, in the inboxes box.
Post(box, t, ms) ==
  [u \in Tabs |-> IF u \in Live \ {t} THEN [box[u] EXCEPT ![t] = @ \o ms] ELSE box[u]]

UnderWay(t, u, kind) == Len(SelectSeq(inbox[u][t], LAMBDA m : m.kind = kind))

\* The timers of t are slow compared with the channel: what they posted last, and
\* what was answered to it, has arrived.
Delivered(t, kind) ==
  \A u \in Live \ {t} : UnderWay(t, u, kind) + UnderWay(u, t, kind) < MaxQueue

\* The snapshots a dispatch of version v of some topics leaves: dispatchLocally.
Dispatched(t, topics, v) ==
  [x \in Topics |-> IF x \in topics THEN v ELSE snapshots[t][x]]

\* dispatchLocally tells a listener only what differs from its snapshot.
DispatchLocally(t, topics, v) ==
  /\ snapshots' = [snapshots EXCEPT ![t] = Dispatched(t, topics, v)]
  /\ shown' = [shown EXCEPT ![t] =
       [x \in Topics |-> IF x \in topics /\ snapshots[t][x] # v THEN v ELSE @[x]]]

-----------------------------------------------------------------------------
(* Leadership *)

\* poll: a request unless one is under way.
Poll(t, topics) ==
  fetch' = IF fetch[t] = NoFetch THEN [fetch EXCEPT ![t] = Request(topics)] ELSE fetch

\* becomeLeader, for a tab that is not.  The inner manager sends its first request
\* when it has its first topic; the refreshes for the others find that one under
\* way.
BecomeLeader(t) ==
  /\ isLeader' = [isLeader EXCEPT ![t] = TRUE]
  /\ watchdog' = [watchdog EXCEPT ![t] = FALSE]
  /\ snapshots' = [snapshots EXCEPT ![t] = NoData]
  /\ fetch' = [fetch EXCEPT ![t] = Request({Head(TopicOrder)})]

\* Mutants: the tab that resigns goes on polling, or does not watch for heartbeats.
ResignPolling(t) ==
  /\ isLeader' = [isLeader EXCEPT ![t] = FALSE]
  /\ watchdog' = [watchdog EXCEPT ![t] = TRUE]
  /\ UNCHANGED <<fetch, stray, timer>>

ResignUnwatched(t) ==
  /\ isLeader' = [isLeader EXCEPT ![t] = FALSE]
  /\ watchdog' = watchdog
  /\ fetch' = [fetch EXCEPT ![t] = NoFetch]
  /\ stray' = [stray EXCEPT ![t] = @ \cup ({fetch[t]} \ {NoFetch})]
  /\ timer' = [timer EXCEPT ![t] = FALSE]

\* resignLeadership and resetWatchdog.  The request under way is not aborted.
Resign(t) ==
  /\ isLeader' = [isLeader EXCEPT ![t] = FALSE]
  /\ watchdog' = [watchdog EXCEPT ![t] = TRUE]
  /\ fetch' = [fetch EXCEPT ![t] = NoFetch]
  /\ stray' = [stray EXCEPT ![t] = @ \cup ({fetch[t]} \ {NoFetch})]
  /\ timer' = [timer EXCEPT ![t] = FALSE]

\* startSubscription: the new tab claims leadership, then subscribes.
Start(t) ==
  /\ phase[t] = "new"
  /\ phase' = [phase EXCEPT ![t] = "live"]
  /\ BecomeLeader(t)
  /\ inbox' = Post(inbox, t, <<Heartbeat(t)>>)
  /\ UNCHANGED <<stray, timer, hidden, shown, version, faults>>

\* The heartbeat interval of a leader.
HeartbeatTimer(t) ==
  /\ t \in Leaders
  /\ Delivered(t, "heartbeat")
  /\ inbox' = Post(inbox, t, <<Heartbeat(t)>>)
  /\ UNCHANGED <<phase, isLeader, watchdog, fetch, stray, timer, hidden, snapshots,
                 shown, version, faults>>

TakeOver(t) ==
  /\ t \in Live
  /\ watchdog[t]
  /\ BecomeLeader(t)
  /\ inbox' = Post(inbox, t, <<Heartbeat(t)>>)
  /\ UNCHANGED <<phase, stray, timer, hidden, shown, version>>

\* The watchdog fires: nobody is there to send heartbeats, and none is under way.
WatchdogFires(t) ==
  /\ Leaders = {}
  /\ \A s \in Tabs : inbox[t][s] = <<>>
  /\ TakeOver(t)
  /\ UNCHANGED faults

\* The heartbeats of a leader come later than heartbeatTimeout.
WatchdogFiresEarly(t) == Fault /\ TakeOver(t)

-----------------------------------------------------------------------------
(* onMessage *)

\* Mutant: a leader does not give way.
HeartbeatIgnored(t, m, box) ==
  /\ inbox' = box
  /\ watchdog' = [watchdog EXCEPT ![t] = ~ isLeader[t]]
  /\ UNCHANGED <<isLeader, fetch, stray, timer, snapshots, shown>>

\* The lower id wins; the winner asserts itself.
HandleHeartbeat(t, m, box) ==
  \/ /\ isLeader[t] /\ m.leaderId < t
     /\ Resign(t)
     /\ inbox' = box
     /\ UNCHANGED <<snapshots, shown>>
  \/ /\ isLeader[t] /\ m.leaderId > t
     /\ inbox' = Post(box, t, <<Heartbeat(t)>>)
     /\ UNCHANGED <<isLeader, watchdog, fetch, stray, timer, snapshots, shown>>
  \/ /\ ~ isLeader[t]
     /\ watchdog' = [watchdog EXCEPT ![t] = TRUE]
     /\ inbox' = box
     /\ UNCHANGED <<isLeader, fetch, stray, timer, snapshots, shown>>

\* Every follower claims at once what the leader left.
HandleAbdicate(t, box) ==
  IF isLeader[t]
    THEN /\ inbox' = box
         /\ UNCHANGED <<isLeader, watchdog, fetch, stray, timer, snapshots, shown>>
    ELSE /\ BecomeLeader(t)
         /\ inbox' = Post(box, t, <<Heartbeat(t)>>)
         /\ UNCHANGED <<stray, timer, shown>>

HandleData(t, m, box) ==
  /\ IF isLeader[t] THEN UNCHANGED <<snapshots, shown>>
                    ELSE DispatchLocally(t, m.topics, m.version)
  /\ inbox' = box
  /\ UNCHANGED <<isLeader, watchdog, fetch, stray, timer>>

\* All tabs have the same topics: what is left of topic-sync is the refresh.
HandleTopicSync(t, box) ==
  /\ IF isLeader[t] THEN Poll(t, Topics) ELSE UNCHANGED fetch
  /\ inbox' = box
  /\ UNCHANGED <<isLeader, watchdog, stray, timer, snapshots, shown>>

OnMessage(t, s) ==
  /\ t \in Live
  /\ inbox[t][s] # <<>>
  /\ LET m == Head(inbox[t][s])
         box == [inbox EXCEPT ![t][s] = Tail(@)] IN
       \/ m.kind = "heartbeat" /\ HandleHeartbeat(t, m, box)
       \/ m.kind = "abdicate" /\ HandleAbdicate(t, box)
       \/ m.kind = "data" /\ HandleData(t, m, box)
       \/ m.kind = "topic-sync" /\ HandleTopicSync(t, box)
  /\ UNCHANGED <<phase, hidden, version, faults>>

-----------------------------------------------------------------------------
(* The polling client of a leader *)

\* wrappedFetcher has its answer: every tab is sent it, the listeners are told.
Answered(t, request) ==
  \E v \in request.since..version :
    /\ inbox' = Post(inbox, t, <<Data(request.topics, v)>>)
    /\ DispatchLocally(t, request.topics, v)

\* The request of the leader's client is answered; the next poll is scheduled.
FetchDone(t) ==
  /\ t \in Live
  /\ fetch[t] # NoFetch
  /\ Answered(t, fetch[t])
  /\ fetch' = [fetch EXCEPT ![t] = NoFetch]
  /\ timer' = [timer EXCEPT ![t] = TRUE]
  /\ UNCHANGED <<phase, isLeader, watchdog, stray, hidden, version, faults>>

\* A request of a stopped client is answered: it posts all the same.
StrayDone(t) ==
  /\ t \in Live
  /\ \E request \in stray[t] :
       /\ Answered(t, request)
       /\ stray' = [stray EXCEPT ![t] = @ \ {request}]
  /\ UNCHANGED <<phase, isLeader, watchdog, fetch, timer, hidden, version, faults>>

\* Mutant: polling ends with the first failure.
GiveUp(t) == timer' = timer

\* The next attempt is scheduled after the backoff.
ScheduleRetry(t) == timer' = [timer EXCEPT ![t] = TRUE]

FetchFails(t) ==
  /\ Fault
  /\ t \in Live
  /\ fetch[t] # NoFetch
  /\ fetch' = [fetch EXCEPT ![t] = NoFetch]
  /\ ScheduleRetry(t)
  /\ UNCHANGED <<phase, isLeader, watchdog, stray, hidden, snapshots, shown, inbox, version>>

\* The interval is over: a poll for all topics.
PollTimer(t) ==
  /\ t \in Live
  /\ timer[t]
  /\ Delivered(t, "data")
  /\ timer' = [timer EXCEPT ![t] = FALSE]
  /\ Poll(t, Topics)
  /\ UNCHANGED <<phase, isLeader, watchdog, stray, hidden, snapshots, shown, inbox,
                 version, faults>>

\* refreshNotifications: at once by the leader, else through it.
Refresh(t) ==
  /\ Fault
  /\ t \in Live
  /\ IF isLeader[t]
       THEN Poll(t, Topics) /\ UNCHANGED inbox
       ELSE inbox' = Post(inbox, t, <<TopicSync>>) /\ UNCHANGED fetch
  /\ UNCHANGED <<phase, isLeader, watchdog, stray, timer, hidden, snapshots, shown, version>>

\* handleVisibilityChange: the poll that was scheduled is cancelled.  One under way
\* goes on, and schedules the next when it is done.
Hide(t) ==
  /\ Fault
  /\ t \in Live /\ ~ hidden[t]
  /\ hidden' = [hidden EXCEPT ![t] = TRUE]
  /\ timer' = [timer EXCEPT ![t] = FALSE]
  /\ UNCHANGED <<phase, isLeader, watchdog, fetch, stray, snapshots, shown, inbox, version>>

Show(t) ==
  /\ t \in Live /\ hidden[t]
  /\ hidden' = [hidden EXCEPT ![t] = FALSE]
  /\ IF isLeader[t] THEN Poll(t, Topics) ELSE UNCHANGED fetch
  /\ UNCHANGED <<phase, isLeader, watchdog, stray, timer, snapshots, shown, inbox,
                 version, faults>>

-----------------------------------------------------------------------------
(* The end of a tab *)

\* What is left of it: nothing it does reaches anyone.
Leave(t) ==
  /\ phase' = [phase EXCEPT ![t] = "gone"]
  /\ isLeader' = [isLeader EXCEPT ![t] = FALSE]
  /\ watchdog' = [watchdog EXCEPT ![t] = FALSE]
  /\ fetch' = [fetch EXCEPT ![t] = NoFetch]
  /\ stray' = [stray EXCEPT ![t] = {}]
  /\ timer' = [timer EXCEPT ![t] = FALSE]
  /\ snapshots' = [snapshots EXCEPT ![t] = NoData]
  /\ UNCHANGED <<hidden, shown, version>>

\* Nobody reads the messages for a tab that is gone.
Emptied(t, box) == [box EXCEPT ![t] = [s \in Tabs |-> <<>>]]

\* destroy: stopSubscription.
Destroy(t) ==
  /\ t \in Live
  /\ Leave(t)
  /\ inbox' = Emptied(t, IF isLeader[t] THEN Post(inbox, t, <<Abdicate(t)>>) ELSE inbox)
  /\ UNCHANGED faults

\* The tab is closed or dies.
Crash(t) ==
  /\ Fault
  /\ t \in Live
  /\ Leave(t)
  /\ inbox' = Emptied(t, inbox)

\* The data change on the server.
Change ==
  /\ version < MaxVersions
  /\ version' = version + 1
  /\ UNCHANGED <<phase, isLeader, watchdog, fetch, stray, timer, hidden, snapshots,
                 shown, inbox, faults>>

-----------------------------------------------------------------------------

Next ==
  \/ \E t \in Tabs :
       \/ Start(t) \/ HeartbeatTimer(t) \/ WatchdogFires(t) \/ WatchdogFiresEarly(t)
       \/ \E s \in Tabs : OnMessage(t, s)
       \/ FetchDone(t) \/ StrayDone(t) \/ FetchFails(t) \/ PollTimer(t)
       \/ Refresh(t) \/ Hide(t) \/ Show(t) \/ Destroy(t) \/ Crash(t)
  \/ Change

\* Timers fire, requests are answered and messages arrive; a tab may stay hidden.
Fairness ==
  \A t \in Tabs :
    /\ WF_vars(HeartbeatTimer(t))
    /\ WF_vars(WatchdogFires(t))
    /\ \A s \in Tabs : WF_vars(OnMessage(t, s))
    /\ WF_vars(FetchDone(t))
    /\ WF_vars(StrayDone(t))
    /\ WF_vars(PollTimer(t))

Spec == Init /\ [][Next]_vars
FairSpec == Spec /\ Fairness

-----------------------------------------------------------------------------
(* Properties *)

TypeOK ==
  /\ phase \in [Tabs -> {"new", "live", "gone"}]
  /\ isLeader \in [Tabs -> BOOLEAN]
  /\ watchdog \in [Tabs -> BOOLEAN]
  /\ fetch \in [Tabs -> Requests \cup {NoFetch}]
  /\ stray \in [Tabs -> SUBSET Requests]
  /\ timer \in [Tabs -> BOOLEAN]
  /\ hidden \in [Tabs -> BOOLEAN]
  /\ snapshots \in [Tabs -> [Topics -> Versions \cup {None}]]
  /\ shown \in [Tabs -> [Topics -> Versions \cup {None}]]
  /\ inbox \in [Tabs -> [Tabs -> Seq(Messages)]]
  /\ version \in Versions
  /\ faults \in 0..MaxFaults
  /\ \A t \in Tabs : ~ isLeader[t] => fetch[t] = NoFetch /\ ~ timer[t]

\* "If a follower stops hearing heartbeats it promotes itself": through elections,
\* abdications and crashes no tab is ever left without a way to do so.
FollowersWatch == \A t \in Live : isLeader[t] # watchdog[t]

\* Only one tab polls: when tabs stop coming and going, one leader is left of all
\* who claimed leadership, whatever they claimed it for.
OneLeaderRemains == <>[](Live # {} => Cardinality(Leaders) = 1)

\* What the server holds reaches the listeners of every tab, across elections,
\* crashes of the leader, failed polls and answers to requests of former leaders,
\* as long as no leader is hidden.
ListenersCatchUp ==
  \A t \in Tabs, x \in Topics :
    <>[](t \in Live /\ (\A l \in Leaders : ~ hidden[l]) => shown[t][x] = version)

\* "Adding a subscription for a *new* topic triggers an immediate refresh so the
\* subscriber gets data without waiting for the next interval" (polling-manager.ts):
\* no topic is still without data when the next poll is an interval away.
NoTopicWaits ==
  \A t \in Leaders : timer[t] /\ fetch[t] = NoFetch =>
    \A x \in Topics : snapshots[t][x] # None
=============================================================================
