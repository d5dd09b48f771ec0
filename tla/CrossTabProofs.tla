--------------------------- MODULE CrossTabProofs ---------------------------
(***************************************************************************)
(* Proofs about CrossTab, for any tabs, topics, versions and faults: the   *)
(* state is well typed, a stopped polling client has nothing under way and *)
(* no timer, and every live tab either leads or watches for heartbeats.    *)
(***************************************************************************)
EXTENDS CrossTab, TLAPS

USE CrossTabAssumption

CTInv == TypeOK /\ FollowersWatch

-----------------------------------------------------------------------------
(* Messages, requests and inboxes. *)

\* The first topic is a topic.
LEMMA FirstTopic == Head(TopicOrder) \in Topics
PROOF
  <1>1. TopicOrder \in Seq(STRING) /\ TopicOrder # <<>>
    OBVIOUS
  <1>2. 1 \in DOMAIN TopicOrder /\ Head(TopicOrder) = TopicOrder[1]
    BY <1>1
  <1> QED
    BY <1>2 DEF Topics, ToSet

\* What a message of each kind carries.
LEMMA MessageTyped ==
  ASSUME NEW m \in Messages
  PROVE  /\ m.kind \in {"heartbeat", "abdicate", "data", "topic-sync"}
         /\ m.kind = "heartbeat" => m.leaderId \in Tabs
         /\ m.kind = "data" => m.topics \in SUBSET Topics /\ m.version \in Versions
PROOF BY DEF Messages, Heartbeat, Abdicate, Data, TopicSync

\* What tabs post are messages.
LEMMA PostedTyped ==
  /\ \A t \in Tabs : <<Heartbeat(t)>> \in Seq(Messages) /\ <<Abdicate(t)>> \in Seq(Messages)
  /\ <<TopicSync>> \in Seq(Messages)
  /\ \A topics \in SUBSET Topics, v \in Versions : <<Data(topics, v)>> \in Seq(Messages)
PROOF
  <1>1. \A t \in Tabs : Heartbeat(t) \in Messages /\ Abdicate(t) \in Messages
    BY DEF Messages
  <1>2. TopicSync \in Messages
    BY DEF Messages
  <1>3. \A topics \in SUBSET Topics, v \in Versions : Data(topics, v) \in Messages
    BY DEF Messages
  <1> QED
    BY <1>1, <1>2, <1>3

Inboxes == [Tabs -> [Tabs -> Seq(Messages)]]

\* Posting messages, and the end of a tab, keep the inboxes inboxes.
LEMMA PostTyped ==
  ASSUME NEW box \in Inboxes, NEW t \in Tabs, NEW ms \in Seq(Messages)
  PROVE  Post(box, t, ms) \in Inboxes
PROOF
  <1> SUFFICES ASSUME NEW u \in Tabs
               PROVE  [box[u] EXCEPT ![t] = @ \o ms] \in [Tabs -> Seq(Messages)]
    BY DEF Post, Inboxes
  <1>1. box[u] \in [Tabs -> Seq(Messages)] /\ box[u][t] \o ms \in Seq(Messages)
    BY DEF Inboxes
  <1> QED
    BY <1>1

LEMMA EmptiedTyped ==
  ASSUME NEW box \in Inboxes, NEW t \in Tabs
  PROVE  Emptied(t, box) \in Inboxes
PROOF
  <1>1. [s \in Tabs |-> <<>>] \in [Tabs -> Seq(Messages)]
    OBVIOUS
  <1> QED
    BY <1>1 DEF Emptied, Inboxes

\* Handling a message takes it from its inbox.
LEMMA TakeTyped ==
  ASSUME TypeOK, NEW t \in Tabs, NEW s \in Tabs, inbox[t][s] # <<>>
  PROVE  /\ Head(inbox[t][s]) \in Messages
         /\ [inbox EXCEPT ![t][s] = Tail(@)] \in Inboxes
PROOF
  <1>1. inbox[t][s] \in Seq(Messages) /\ inbox[t] \in [Tabs -> Seq(Messages)]
    BY DEF TypeOK
  <1>2. Head(inbox[t][s]) \in Messages /\ Tail(inbox[t][s]) \in Seq(Messages)
    BY <1>1
  <1>3. [inbox[t] EXCEPT ![s] = Tail(inbox[t][s])] \in [Tabs -> Seq(Messages)]
    BY <1>1, <1>2
  <1> QED
    BY <1>2, <1>3 DEF TypeOK, Inboxes

\* A request is one, and its answer comes with a version of the server.
LEMMA RequestTyped ==
  ASSUME TypeOK
  PROVE  /\ \A topics \in (SUBSET Topics) \ {{}} : Request(topics) \in Requests
         /\ Topics # {}
         /\ \A r \in Requests : r.topics \in SUBSET Topics /\ r.since..version \subseteq Versions
PROOF
  <1>1. version \in Nat /\ version <= MaxVersions
    BY DEF TypeOK, Versions
  <1>2. \A r \in Requests : r.topics \in SUBSET Topics /\ r.since \in Nat
    BY DEF Requests, Versions
  <1>3. \A r \in Requests : r.since..version \subseteq Versions
    BY <1>1, <1>2 DEF Versions
  <1> QED
    BY <1>2, <1>3, FirstTopic DEF Request, Requests, TypeOK

Snapshots == [Topics -> Versions \cup {None}]

\* A dispatch leaves versions.
LEMMA DispatchTyped ==
  ASSUME TypeOK, NEW t \in Tabs, NEW topics \in SUBSET Topics, NEW v \in Versions,
         DispatchLocally(t, topics, v)
  PROVE  snapshots' \in [Tabs -> Snapshots] /\ shown' \in [Tabs -> Snapshots]
PROOF
  <1>1. snapshots \in [Tabs -> Snapshots] /\ shown \in [Tabs -> Snapshots]
    BY DEF TypeOK, Snapshots
  <1>2. Dispatched(t, topics, v) \in Snapshots
    BY <1>1 DEF Dispatched, Snapshots
  <1>3. [x \in Topics |-> IF x \in topics /\ snapshots[t][x] # v THEN v ELSE shown[t][x]]
          \in Snapshots
    BY <1>1 DEF Snapshots
  <1> HIDE DEF Snapshots
  <1> QED
    BY <1>1, <1>2, <1>3 DEF DispatchLocally

-----------------------------------------------------------------------------
(* Leadership *)

\* What is known of the tabs whose state a step does not change, put together with
\* what it does to tab t.
Roles ==
  /\ isLeader \in [Tabs -> BOOLEAN]
  /\ watchdog \in [Tabs -> BOOLEAN]
  /\ fetch \in [Tabs -> Requests \cup {NoFetch}]
  /\ stray \in [Tabs -> SUBSET Requests]
  /\ timer \in [Tabs -> BOOLEAN]
  /\ \A t \in Tabs : ~ isLeader[t] => fetch[t] = NoFetch /\ ~ timer[t]
  /\ FollowersWatch

LEMMA CTInvRoles ==
  CTInv => Roles
PROOF BY DEF CTInv, TypeOK, Roles

LEMMA LiveTabs == Live \subseteq Tabs
PROOF BY DEF Live

\* A tab that leads starts with one request and no watchdog.
LEMMA BecomeLeaderStep ==
  ASSUME CTInv, NEW t \in Tabs, BecomeLeader(t), UNCHANGED <<stray, timer>>,
         Live' \subseteq Live \cup {t}
  PROVE  Roles' /\ snapshots' \in [Tabs -> Snapshots]
PROOF
  <1>1. Request({Head(TopicOrder)}) \in Requests
    BY RequestTyped, FirstTopic DEF CTInv
  <1>2. snapshots \in [Tabs -> Snapshots] /\ NoData \in Snapshots
    BY DEF CTInv, TypeOK, Snapshots, NoData
  <1>3. snapshots' \in [Tabs -> Snapshots]
    BY <1>2 DEF BecomeLeader
  <1>4. Roles
    BY CTInvRoles
  <1> HIDE DEF Snapshots
  <1>5. FollowersWatch'
    BY <1>4, LiveTabs DEF Roles, BecomeLeader, FollowersWatch
  <1> QED
    BY <1>1, <1>3, <1>4, <1>5 DEF Roles, BecomeLeader

\* A tab that resigns has no client any more, and watches.
LEMMA ResignStep ==
  ASSUME CTInv, NEW t \in Tabs, Resign(t), Live' = Live
  PROVE  Roles'
PROOF
  <1>1. Roles
    BY CTInvRoles
  <1>2. stray' \in [Tabs -> SUBSET Requests]
    <2>1. stray[t] \cup ({fetch[t]} \ {NoFetch}) \in SUBSET Requests
      BY <1>1 DEF Roles
    <2> QED
      BY <1>1, <2>1 DEF Roles, Resign
  <1>3. /\ isLeader' \in [Tabs -> BOOLEAN] /\ watchdog' \in [Tabs -> BOOLEAN]
        /\ ~ isLeader'[t] /\ watchdog'[t]
        /\ \A u \in Tabs \ {t} : isLeader'[u] = isLeader[u] /\ watchdog'[u] = watchdog[u]
    BY <1>1 DEF Roles, Resign
  <1>4. FollowersWatch'
    BY <1>1, <1>3, LiveTabs DEF Roles, FollowersWatch
  <1>5. /\ fetch' \in [Tabs -> Requests \cup {NoFetch}] /\ timer' \in [Tabs -> BOOLEAN]
        /\ \A u \in Tabs : ~ isLeader'[u] => fetch'[u] = NoFetch /\ ~ timer'[u]
    BY <1>1, <1>3 DEF Roles, Resign
  <1> QED
    BY <1>2, <1>3, <1>4, <1>5 DEF Roles

\* A leader that asks for a poll has at most one request under way.
LEMMA PollStep ==
  ASSUME CTInv, NEW t \in Tabs, Poll(t, Topics), isLeader[t],
         UNCHANGED <<isLeader, watchdog, stray>>,
         \/ UNCHANGED timer
         \/ timer' = [timer EXCEPT ![t] = FALSE],
         Live' = Live
  PROVE  Roles'
PROOF
  <1>1. Roles
    BY CTInvRoles
  <1>2. Request(Topics) \in Requests
    BY RequestTyped DEF CTInv
  <1> QED
    BY <1>1, <1>2, LiveTabs DEF Roles, Poll, FollowersWatch

\* A step puts its parts together.
LEMMA Assembled ==
  ASSUME Roles',
         phase' \in [Tabs -> {"new", "live", "gone"}],
         hidden' \in [Tabs -> BOOLEAN],
         snapshots' \in [Tabs -> Snapshots],
         shown' \in [Tabs -> Snapshots],
         inbox' \in Inboxes,
         version' \in Versions,
         faults' \in 0..MaxFaults
  PROVE  CTInv'
PROOF BY DEF Roles, CTInv, TypeOK, Snapshots, Inboxes

\* The parts of the invariant.
LEMMA Parts ==
  ASSUME CTInv
  PROVE  /\ Roles
         /\ phase \in [Tabs -> {"new", "live", "gone"}]
         /\ hidden \in [Tabs -> BOOLEAN]
         /\ snapshots \in [Tabs -> Snapshots]
         /\ shown \in [Tabs -> Snapshots]
         /\ inbox \in Inboxes
         /\ version \in Versions
         /\ faults \in 0..MaxFaults
PROOF BY CTInvRoles DEF CTInv, TypeOK, Snapshots, Inboxes

\* One fault more is within the bound.
LEMMA FaultTyped ==
  ASSUME faults \in 0..MaxFaults, Fault
  PROVE  faults' \in 0..MaxFaults
PROOF BY DEF Fault

-----------------------------------------------------------------------------
(* One lemma per action. *)

LEMMA CTInitInv ==
  Init => CTInv
PROOF
  <1> SUFFICES ASSUME Init PROVE CTInv
    OBVIOUS
  <1>1. [s \in Tabs |-> <<>>] \in [Tabs -> Seq(Messages)]
    OBVIOUS
  <1>2. NoData \in [Topics -> Versions \cup {None}]
    BY DEF NoData
  <1>3. 0 \in Versions /\ 0 \in 0..MaxFaults
    BY DEF Versions
  <1>4. TypeOK
    BY <1>1, <1>2, <1>3 DEF Init, TypeOK
  <1>5. FollowersWatch
    BY DEF Init, FollowersWatch, Live
  <1> QED
    BY <1>4, <1>5 DEF CTInv

LEMMA StartStep ==
  ASSUME CTInv, NEW t \in Tabs, Start(t)
  PROVE  CTInv'
PROOF
  <1>1. phase' \in [Tabs -> {"new", "live", "gone"}] /\ Live' \subseteq Live \cup {t}
    BY Parts DEF Start, Live
  <1>2. Roles' /\ snapshots' \in [Tabs -> Snapshots]
    BY <1>1, BecomeLeaderStep DEF Start
  <1>3. inbox' \in Inboxes
    BY Parts, PostTyped, PostedTyped DEF Start
  <1> QED
    BY <1>1, <1>2, <1>3, Parts, Assembled DEF Start

\* Nothing but the messages of the channel, the listeners or the data change.
LEMMA QuietStep ==
  ASSUME CTInv, UNCHANGED <<phase, isLeader, watchdog, fetch, stray, timer>>,
         hidden' \in [Tabs -> BOOLEAN],
         snapshots' \in [Tabs -> Snapshots],
         shown' \in [Tabs -> Snapshots],
         inbox' \in Inboxes,
         version' \in Versions,
         faults' \in 0..MaxFaults
  PROVE  CTInv'
PROOF
  <1>1. Roles'
    BY Parts DEF Roles, FollowersWatch, Live
  <1> QED
    BY <1>1, Parts, Assembled

LEMMA HeartbeatTimerStep ==
  ASSUME CTInv, NEW t \in Tabs, HeartbeatTimer(t)
  PROVE  CTInv'
PROOF
  <1>1. inbox' \in Inboxes
    BY Parts, PostTyped, PostedTyped DEF HeartbeatTimer
  <1> QED
    BY <1>1, Parts, QuietStep DEF HeartbeatTimer

LEMMA TakeOverStep ==
  ASSUME CTInv, NEW t \in Tabs, TakeOver(t), faults' \in 0..MaxFaults
  PROVE  CTInv'
PROOF
  <1>1. Live' = Live
    BY DEF TakeOver, Live
  <1>2. Roles' /\ snapshots' \in [Tabs -> Snapshots]
    BY <1>1, BecomeLeaderStep DEF TakeOver
  <1>3. inbox' \in Inboxes
    BY Parts, PostTyped, PostedTyped DEF TakeOver
  <1> QED
    BY <1>2, <1>3, Parts, Assembled DEF TakeOver

LEMMA OnMessageStep ==
  ASSUME CTInv, NEW t \in Tabs, NEW s \in Tabs, OnMessage(t, s)
  PROVE  CTInv'
PROOF
  <1> DEFINE m == Head(inbox[t][s])
             box == [inbox EXCEPT ![t][s] = Tail(@)]
  <1>1. m \in Messages /\ box \in Inboxes
    BY TakeTyped DEF OnMessage, CTInv
  <1>2. \/ m.kind = "heartbeat" /\ HandleHeartbeat(t, m, box)
        \/ m.kind = "abdicate" /\ HandleAbdicate(t, box)
        \/ m.kind = "data" /\ HandleData(t, m, box)
        \/ m.kind = "topic-sync" /\ HandleTopicSync(t, box)
    BY DEF OnMessage
  <1>3. UNCHANGED <<phase, hidden, version, faults>> /\ Live' = Live /\ t \in Live
    BY DEF OnMessage, Live
  <1> HIDE DEF m, box
  <1>4. /\ phase' \in [Tabs -> {"new", "live", "gone"}]
        /\ hidden' \in [Tabs -> BOOLEAN]
        /\ version' \in Versions
        /\ faults' \in 0..MaxFaults
    BY <1>3, Parts
  <1>5. Post(box, t, <<Heartbeat(t)>>) \in Inboxes
    BY <1>1, PostTyped, PostedTyped
  <1>6. CASE HandleHeartbeat(t, m, box)
    <2>1. CASE Resign(t) /\ inbox' = box /\ UNCHANGED <<snapshots, shown>>
      <3>1. Roles'
        BY <1>3, <2>1, ResignStep
      <3> QED
        BY <1>1, <1>4, <2>1, <3>1, Parts, Assembled
    <2>2. CASE inbox' = Post(box, t, <<Heartbeat(t)>>)
               /\ UNCHANGED <<isLeader, watchdog, fetch, stray, timer, snapshots, shown>>
      BY <1>3, <1>4, <1>5, <2>2, Parts, QuietStep
    <2>3. CASE ~ isLeader[t] /\ watchdog' = [watchdog EXCEPT ![t] = TRUE] /\ inbox' = box
               /\ UNCHANGED <<isLeader, fetch, stray, timer, snapshots, shown>>
      <3>1. Roles'
        BY <1>3, <2>3, Parts, LiveTabs DEF Roles, FollowersWatch
      <3> QED
        BY <1>1, <1>4, <2>3, <3>1, Parts, Assembled
    <2> QED
      BY <1>6, <2>1, <2>2, <2>3 DEF HandleHeartbeat
  <1>7. CASE HandleAbdicate(t, box)
    <2>1. CASE isLeader[t]
      BY <1>1, <1>3, <1>4, <1>7, <2>1, Parts, QuietStep DEF HandleAbdicate
    <2>2. CASE ~ isLeader[t]
      <3>1. BecomeLeader(t) /\ UNCHANGED <<stray, timer, shown>>
            /\ inbox' = Post(box, t, <<Heartbeat(t)>>)
        BY <1>7, <2>2 DEF HandleAbdicate
      <3>2. Roles' /\ snapshots' \in [Tabs -> Snapshots]
        BY <1>3, <3>1, BecomeLeaderStep
      <3> QED
        BY <1>4, <1>5, <3>1, <3>2, Parts, Assembled
    <2> QED
      BY <2>1, <2>2
  <1>8. CASE m.kind = "data" /\ HandleData(t, m, box)
    <2>1. m.topics \in SUBSET Topics /\ m.version \in Versions
      BY <1>1, <1>8, MessageTyped
    <2>2. snapshots' \in [Tabs -> Snapshots] /\ shown' \in [Tabs -> Snapshots]
      BY <1>8, <2>1, Parts, DispatchTyped DEF HandleData, CTInv
    <2> QED
      BY <1>1, <1>3, <1>4, <1>8, <2>2, QuietStep DEF HandleData
  <1>9. CASE HandleTopicSync(t, box)
    <2>1. CASE isLeader[t]
      <3>1. Roles'
        BY <1>3, <1>9, <2>1, PollStep DEF HandleTopicSync
      <3> QED
        BY <1>1, <1>4, <1>9, <3>1, Parts, Assembled DEF HandleTopicSync
    <2>2. CASE ~ isLeader[t]
      BY <1>1, <1>3, <1>4, <1>9, <2>2, Parts, QuietStep DEF HandleTopicSync
    <2> QED
      BY <2>1, <2>2
  <1> QED
    BY <1>2, <1>6, <1>7, <1>8, <1>9

\* An answer is posted and dispatched.
LEMMA AnsweredTyped ==
  ASSUME CTInv, NEW t \in Tabs, NEW request \in Requests, Answered(t, request)
  PROVE  /\ inbox' \in Inboxes
         /\ snapshots' \in [Tabs -> Snapshots]
         /\ shown' \in [Tabs -> Snapshots]
PROOF
  <1>1. PICK v \in request.since..version :
          /\ inbox' = Post(inbox, t, <<Data(request.topics, v)>>)
          /\ DispatchLocally(t, request.topics, v)
    BY DEF Answered
  <1>2. v \in Versions /\ request.topics \in SUBSET Topics
    BY RequestTyped DEF CTInv
  <1>3. inbox' \in Inboxes
    BY <1>1, <1>2, Parts, PostTyped, PostedTyped
  <1> QED
    BY <1>1, <1>2, <1>3, DispatchTyped DEF CTInv

LEMMA FetchDoneStep ==
  ASSUME CTInv, NEW t \in Tabs, FetchDone(t)
  PROVE  CTInv'
PROOF
  <1>1. fetch[t] \in Requests /\ Answered(t, fetch[t])
    BY Parts DEF FetchDone, Roles
  <1>2. Live' = Live
    BY DEF FetchDone, Live
  <1>3. Roles'
    BY <1>2, Parts DEF FetchDone, Roles, FollowersWatch
  <1> QED
    BY <1>1, <1>3, Parts, AnsweredTyped, Assembled DEF FetchDone

LEMMA StrayDoneStep ==
  ASSUME CTInv, NEW t \in Tabs, StrayDone(t)
  PROVE  CTInv'
PROOF
  <1>1. PICK request \in stray[t] :
          Answered(t, request) /\ stray' = [stray EXCEPT ![t] = @ \ {request}]
    BY DEF StrayDone
  <1>2. request \in Requests
    BY Parts DEF Roles
  <1>3. Live' = Live
    BY DEF StrayDone, Live
  <1>4. Roles'
    BY <1>1, <1>3, Parts DEF StrayDone, Roles, FollowersWatch
  <1> QED
    BY <1>1, <1>2, <1>4, Parts, AnsweredTyped, Assembled DEF StrayDone

LEMMA FetchFailsStep ==
  ASSUME CTInv, NEW t \in Tabs, FetchFails(t)
  PROVE  CTInv'
PROOF
  <1>1. Live' = Live
    BY DEF FetchFails, Live
  <1>2. Roles'
    BY <1>1, Parts DEF FetchFails, ScheduleRetry, Roles, FollowersWatch
  <1> QED
    BY <1>2, Parts, FaultTyped, Assembled DEF FetchFails

LEMMA PollTimerStep ==
  ASSUME CTInv, NEW t \in Tabs, PollTimer(t)
  PROVE  CTInv'
PROOF
  <1>1. Live' = Live
    BY DEF PollTimer, Live
  <1>2. isLeader[t]
    BY Parts DEF PollTimer, Roles
  <1>3. Roles'
    BY <1>1, <1>2, PollStep DEF PollTimer
  <1> QED
    BY <1>3, Parts, Assembled DEF PollTimer

LEMMA RefreshStep ==
  ASSUME CTInv, NEW t \in Tabs, Refresh(t)
  PROVE  CTInv'
PROOF
  <1>1. Live' = Live /\ faults' \in 0..MaxFaults
    BY Parts, FaultTyped DEF Refresh, Live
  <1>2. CASE isLeader[t]
    <2>1. Roles'
      BY <1>1, <1>2, PollStep DEF Refresh
    <2> QED
      BY <1>1, <1>2, <2>1, Parts, Assembled DEF Refresh
  <1>3. CASE ~ isLeader[t]
    <2>1. inbox' \in Inboxes
      BY <1>3, Parts, PostTyped, PostedTyped DEF Refresh
    <2> QED
      BY <1>1, <1>3, <2>1, Parts, QuietStep DEF Refresh
  <1> QED
    BY <1>2, <1>3

LEMMA HideStep ==
  ASSUME CTInv, NEW t \in Tabs, Hide(t)
  PROVE  CTInv'
PROOF
  <1>1. Live' = Live
    BY DEF Hide, Live
  <1>2. Roles'
    BY <1>1, Parts DEF Hide, Roles, FollowersWatch
  <1>3. hidden' \in [Tabs -> BOOLEAN]
    BY Parts DEF Hide
  <1> QED
    BY <1>2, <1>3, Parts, FaultTyped, Assembled DEF Hide

LEMMA ShowStep ==
  ASSUME CTInv, NEW t \in Tabs, Show(t)
  PROVE  CTInv'
PROOF
  <1>1. Live' = Live
    BY DEF Show, Live
  <1>2. hidden' \in [Tabs -> BOOLEAN]
    BY Parts DEF Show
  <1>3. CASE isLeader[t]
    <2>1. Roles'
      BY <1>1, <1>3, PollStep DEF Show
    <2> QED
      BY <1>2, <2>1, Parts, Assembled DEF Show
  <1>4. CASE ~ isLeader[t]
    BY <1>2, <1>4, Parts, QuietStep DEF Show
  <1> QED
    BY <1>3, <1>4

\* What a tab that goes leaves: it neither leads nor watches.
LEMMA LeaveStep ==
  ASSUME CTInv, NEW t \in Tabs, t \in Live, Leave(t),
         inbox' \in Inboxes, faults' \in 0..MaxFaults
  PROVE  CTInv'
PROOF
  <1>1. phase' \in [Tabs -> {"new", "live", "gone"}] /\ Live' = Live \ {t}
    BY Parts DEF Leave, Live
  <1>2. Roles'
    BY <1>1, Parts DEF Leave, Roles, FollowersWatch
  <1>3. snapshots' \in [Tabs -> Snapshots]
    <2>1. NoData \in Snapshots
      BY DEF NoData, Snapshots
    <2> HIDE DEF Snapshots
    <2> QED
      BY <2>1, Parts DEF Leave
  <1> QED
    BY <1>1, <1>2, <1>3, Parts, Assembled DEF Leave

LEMMA EndStep ==
  ASSUME CTInv, NEW t \in Tabs, Destroy(t) \/ Crash(t)
  PROVE  CTInv'
PROOF
  <1>1. CASE Destroy(t)
    <2>1. Post(inbox, t, <<Abdicate(t)>>) \in Inboxes /\ inbox \in Inboxes
      BY Parts, PostTyped, PostedTyped
    <2>2. inbox' \in Inboxes
      BY <1>1, <2>1, EmptiedTyped DEF Destroy
    <2> QED
      BY <1>1, <2>2, Parts, LeaveStep DEF Destroy
  <1>2. CASE Crash(t)
    BY <1>2, Parts, EmptiedTyped, FaultTyped, LeaveStep DEF Crash
  <1> QED
    BY <1>1, <1>2

LEMMA ChangeStep ==
  ASSUME CTInv, Change
  PROVE  CTInv'
PROOF
  <1>1. version' \in Versions
    BY Parts DEF Change, Versions
  <1> QED
    BY <1>1, Parts, QuietStep DEF Change

-----------------------------------------------------------------------------

LEMMA CTNextInv ==
  CTInv /\ [Next]_vars => CTInv'
PROOF
  <1> SUFFICES ASSUME CTInv, [Next]_vars
               PROVE  CTInv'
    OBVIOUS
  <1>1. CASE UNCHANGED vars
    BY <1>1, Parts, QuietStep DEF vars
  <1>2. CASE Change
    BY <1>2, ChangeStep
  <1>3. ASSUME NEW t \in Tabs,
               \/ Start(t) \/ HeartbeatTimer(t) \/ WatchdogFires(t) \/ WatchdogFiresEarly(t)
               \/ \E s \in Tabs : OnMessage(t, s)
               \/ FetchDone(t) \/ StrayDone(t) \/ FetchFails(t) \/ PollTimer(t)
               \/ Refresh(t) \/ Hide(t) \/ Show(t) \/ Destroy(t) \/ Crash(t)
        PROVE  CTInv'
    <2>1. CASE WatchdogFires(t) \/ WatchdogFiresEarly(t)
      BY <2>1, Parts, FaultTyped, TakeOverStep DEF WatchdogFires, WatchdogFiresEarly
    <2>2. CASE \E s \in Tabs : OnMessage(t, s)
      BY <2>2, OnMessageStep
    <2> QED
      BY <1>3, <2>1, <2>2, StartStep, HeartbeatTimerStep, FetchDoneStep, StrayDoneStep,
         FetchFailsStep, PollTimerStep, RefreshStep, HideStep, ShowStep, EndStep
  <1> QED
    BY <1>1, <1>2, <1>3 DEF Next

\* The inductive invariant.
THEOREM CTInvariant == Spec => []CTInv
PROOF BY CTInitInv, CTNextInv, PTL DEF Spec

\* Every variable stays in its type, and only a leader polls: a tab that does not
\* lead has no request of its client under way and no timer.
THEOREM CTTypeCorrect == Spec => []TypeOK
PROOF
  <1>1. CTInv => TypeOK
    BY DEF CTInv
  <1> QED
    BY <1>1, CTInvariant, PTL

\* However many tabs claim leadership, resign, abdicate or crash, every live tab
\* leads or has a watchdog: none is left that would never hear of a dead leader.
THEOREM NoTabUnwatched == Spec => []FollowersWatch
PROOF
  <1>1. CTInv => FollowersWatch
    BY DEF CTInv
  <1> QED
    BY <1>1, CTInvariant, PTL
=============================================================================
