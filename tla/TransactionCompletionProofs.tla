--------------------- MODULE TransactionCompletionProofs ---------------------
(***************************************************************************)
(* Proofs about TransactionCompletion: those who wait for a save do not    *)
(* disturb the queue, so that what is proved of the queue alone holds of   *)
(* the queue with its callers, each call stays well typed, and those who   *)
(* are called in a tab that keeps its edits are called in time.            *)
(***************************************************************************)
EXTENDS TransactionCompletion, ProjectQueueProofs

\* A step of the queue with its callers is a step of the queue, or leaves it alone.
LEMMA CompletionStep ==
  TCNext => PQNext \/ UNCHANGED pqVars
PROOF BY DEF TCNext, PQNext, Use, OnNextTransactionComplete, TimeOut

\* Registering callbacks, settling them and their timers are invisible to the save
\* queue: with any callers it behaves as ProjectQueue says.
THEOREM CallersRefineQueue == TCSpec => PQSpec
PROOF
  <1>1. TCInit => PQInit
    BY DEF TCInit
  <1>2. [TCNext]_tcVars => [PQNext]_pqVars
    BY CompletionStep DEF tcVars
  <1> QED
    BY <1>1, <1>2, PTL DEF TCSpec, PQSpec

\* However often projects are opened and closed, with callers waiting, at most one
\* loop of a tab is not on its way out.
THEOREM OneLoopWithCallers == TCSpec => []OneLiveLoop
PROOF BY CallersRefineQueue, OneLoopAtATime, PTL

\* With callers at the queue too, a transaction that was answered, as saved or as
\* lost, is never answered again: a callback that was told of it was told the truth.
THEOREM FinalWithCallers == TCSpec => AnsweredOnce
PROOF BY CallersRefineQueue, AnswersAreFinal, PTL

-----------------------------------------------------------------------------
(* Type correctness *)

\* A call that is answered stays a call.
LEMMA SettledTyped ==
  ASSUME NEW call \in CallerStates
  PROVE  Settled(call) \in CallerStates
PROOF
  <1>1. NoCaller \in CallerStates
    BY DEF NoCaller, CallerStates
  <1>2. [call EXCEPT !.state = "called"] \in CallerStates
    BY DEF CallerStates
  <1> QED
    BY <1>1, <1>2 DEF Settled

\* So does one that hears of the next transaction.
LEMMA RegisteredTyped ==
  ASSUME TCTypeOK, PQTypeOK', NEW t \in Tabs
  PROVE  Registered(t) \in [Callers -> CallerStates]
PROOF
  <1> SUFFICES ASSUME NEW k \in Callers, lastEdit'[t] \notin {NoTxn, lastEdit[t]}
               PROVE  [caller[t][k] EXCEPT !.state = "waiting", !.txn = lastEdit'[t]]
                        \in CallerStates
    BY DEF Registered, TCTypeOK
  <1>1. caller[t][k] \in CallerStates
    BY DEF TCTypeOK
  <1>2. lastEdit'[t] \in Txns \cup {NoTxn}
    BY DEF PQTypeOK
  <1> QED
    BY <1>1, <1>2 DEF CallerStates

\* The transactions of a page that wait for an answer are transactions.
LEMMA PendingTyped ==
  ASSUME PQTypeOK, NEW t \in Tabs
  PROVE  Pending(t) \in SUBSET Txns
PROOF BY DEF PQTypeOK, Pending, ToSet

\* What a step does to the calls.
LEMMA CallersTyped ==
  ASSUME TCTypeOK, PQTypeOK', TCNext
  PROVE  caller' \in [Tabs -> [Callers -> CallerStates]]
PROOF
  <1> DEFINE Calls == [Callers -> CallerStates]
  <1> USE DEF TCTypeOK
  <1>1. PICK t \in Tabs :
          \/ UNCHANGED caller
          \/ caller' = [caller EXCEPT ![t] = Registered(t)]
          \/ caller' = [caller EXCEPT ![t] = Completed(t)]
          \/ \E k \in Callers : OnNextTransactionComplete(t, k) \/ TimeOut(t, k)
          \/ caller' = [caller EXCEPT ![t] = [k \in Callers |-> NoCaller]]
    BY DEF TCNext
  <1>2. NoCaller \in CallerStates
    BY DEF NoCaller, CallerStates
  <1>3. ASSUME NEW calls \in Calls, caller' = [caller EXCEPT ![t] = calls]
        PROVE  caller' \in [Tabs -> Calls]
    <2> HIDE DEF Calls
    <2> QED
      BY <1>3, caller \in [Tabs -> Calls] DEF Calls
  <1>4. ASSUME NEW k \in Callers, NEW call \in CallerStates,
               caller' = [caller EXCEPT ![t][k] = call]
        PROVE  caller' \in [Tabs -> Calls]
    <2>1. [caller[t] EXCEPT ![k] = call] \in Calls
      OBVIOUS
    <2> QED
      BY <1>3, <1>4, <2>1
  <1>5. Completed(t) \in Calls
    BY SettledTyped DEF Completed
  <1>6. ASSUME NEW k \in Callers, OnNextTransactionComplete(t, k)
        PROVE  caller' \in [Tabs -> Calls]
    <2>1. lastEdit[t] \in Txns \cup {NoTxn}
      BY DEF PQTypeOK
    <2>2. [state  |-> IF CurrentTransaction(t) = NoTxn THEN "listening" ELSE "waiting",
           txn    |-> CurrentTransaction(t),
           before |-> Pending(t)] \in CallerStates
      BY <2>1, PendingTyped DEF CurrentTransaction, CallerStates
    <2> QED
      BY <1>4, <1>6, <2>2 DEF OnNextTransactionComplete
  <1> QED
    BY <1>1, <1>2, <1>3, <1>4, <1>5, <1>6, RegisteredTyped DEF TimeOut

\* The state of the queue and of those who wait for it is well typed: a call waits
\* for a transaction of the program, or for none, and nothing else gets in there.
THEOREM TCTypeCorrect == TCSpec => []TCTypeOK
PROOF
  <1>1. TCSpec => []PQTypeOK
    BY CallersRefineQueue, PQTypeCorrect, PTL
  <1>2. TCInit => TCTypeOK
    <2>1. PQInit => PQTypeOK
      BY PQInitInv DEF PQInv
    <2>2. NoCaller \in CallerStates
      BY DEF NoCaller, CallerStates
    <2> QED
      BY <2>1, <2>2 DEF TCInit, TCTypeOK
  <1>3. TCTypeOK /\ PQTypeOK' /\ [TCNext]_tcVars => TCTypeOK'
    BY CallersTyped DEF TCTypeOK, tcVars
  <1> QED
    BY <1>1, <1>2, <1>3, PTL DEF TCSpec

-----------------------------------------------------------------------------
(* Called in time *)

\* What a call that waits, or was called, is about.  Whoever waits for a transaction
\* made it or an earlier one: all that was unanswered when it asked comes before.
Awaits(t, k) ==
  LET call == caller[t][k] IN
  /\ call.state # "none" => call.before \subseteq ToSet(edits[t])
  /\ call.state \in {"waiting", "called"} => call.txn \in ToSet(edits[t])
  /\ call.state = "waiting" =>
       /\ outcome[call.txn] = "pending"
       /\ \A y \in call.before \cap Pending(t) :
            y = call.txn \/ Before(edits[t], y, call.txn)
  /\ call.state = "listening" => Pending(t) = {} /\ call.before = {}
  /\ call.state = "called" =>
       outcome[call.txn] = "saved" /\ call.before \cap Pending(t) = {}

\* The inductive invariant.
CallInv == TCTypeOK /\ \A t \in Tabs, k \in Callers : Awaits(t, k)

\* A queue step that a tab has no part in, or that answers none of its edits.
LEMMA AwaitsStill ==
  ASSUME NEW t \in Tabs, NEW k \in Callers, Awaits(t, k),
         caller'[t][k] = caller[t][k], edits'[t] = edits[t],
         \A x \in ToSet(edits[t]) : outcome'[x] = outcome[x]
  PROVE  Awaits(t, k)'
PROOF
  <1>1. Pending(t)' = Pending(t)
    BY DEF Pending
  <1> QED
    BY <1>1 DEF Awaits

\* A call that is not made has nothing to keep.
LEMMA AwaitsNone ==
  ASSUME NEW t \in Tabs, NEW k \in Callers, caller'[t][k] = NoCaller
  PROVE  Awaits(t, k)'
PROOF BY DEF Awaits, NoCaller

\* The edits of a tab are answered by its own steps only.
LEMMA OthersUnanswered ==
  ASSUME OnceInv, NEW t \in Tabs, NEW u \in Tabs \ {t},
         \A x \in Txns : outcome'[x] # outcome[x] =>
           x \in ToSet(edits[u]) \/ outcome[x] = "fresh"
  PROVE  \A x \in ToSet(edits[t]) : outcome'[x] = outcome[x]
PROOF
  <1>1. ToSet(edits[t]) \subseteq Txns
    BY DEF OnceInv, PQInv, PQTypeOK, ToSet
  <1> QED
    BY <1>1 DEF OnceInv

\* A loop answers what was unanswered, for good or bad, and leaves the edits alone.
LEMMA LoopAnswers ==
  ASSUME OnceInv, NEW t \in Tabs, NEW l \in Loops,
         Step(t, l) \/ SendPatch(t, l) \/ NetworkError(t, l) \/ Answered(t, l)
  PROVE  /\ UNCHANGED edits
         /\ \A x \in Txns : outcome'[x] # outcome[x] =>
              /\ x \in ToSet(edits[t]) /\ outcome[x] = "pending"
              /\ outcome'[x] \in {"saved", "unsaved"}
PROOF
  <1>1. PQInv /\ Sends(loop[t][l])
    BY DEF OnceInv, Once
  <1>2. ASSUME NEW saved, loop[t][l].pc \in {"batch", "wait"},
               InHand(t, l).type = "transactions",
               Complete(t, InHand(t, l).transactions, saved)
        PROVE  \A x \in Txns : outcome'[x] # outcome[x] =>
                 /\ x \in ToSet(edits[t]) /\ outcome[x] = "pending"
                 /\ outcome'[x] \in {"saved", "unsaved"}
    <2>1. /\ loop[t][l].batch # <<>> /\ loop[t][l].batch \in Seq(Commands)
          /\ Head(loop[t][l].batch) = InHand(t, l)
      BY <1>1, <1>2, InHandTyped DEF SoundLoops, LoopStates, InHand
    <2>2. \A x \in Txns : InCommand(InHand(t, l), x) => Carries(loop[t][l].batch, x)
      BY <2>1, TailCarries DEF OnceInv, Once
    <2>3. \A x \in Txns : Carries(loop[t][l].batch, x) =>
            x \in ToSet(edits[t]) /\ outcome[x] = "pending"
      BY DEF OnceInv, CarriedBy
    <2> QED
      BY <1>2, <2>2, <2>3 DEF Complete, InCommand
  <1>3. CASE Step(t, l) \/ SendPatch(t, l) \/ NetworkError(t, l)
    <2>1. CASE TakeUnknown(t, l)
      BY <1>2, <2>1 DEF TakeUnknown
    <2>2. CASE Poll(t, l) \/ NoticeAbort(t, l) \/ TakeDetails(t, l) \/ TakeTransactions(t, l)
      BY <2>2 DEF Poll, NoticeAbort, TakeDetails, TakeTransactions
    <2>3. CASE SendPatch(t, l) \/ NetworkError(t, l)
      BY <2>3 DEF SendPatch, NetworkError
    <2> QED
      BY <1>3, <2>1, <2>2, <2>3 DEF Step
  <1>4. ASSUME NEW result, Receive(t, l, result), loop[t][l].pc = "wait"
        PROVE  /\ UNCHANGED edits
               /\ \A x \in Txns : outcome'[x] # outcome[x] =>
                    /\ x \in ToSet(edits[t]) /\ outcome[x] = "pending"
                    /\ outcome'[x] \in {"saved", "unsaved"}
    <2>1. InHand(t, l).type = "transactions"
      BY <1>1, <1>4 DEF Sends, InHand
    <2>2. /\ UNCHANGED edits
          /\ \/ UNCHANGED outcome
             \/ \E saved : Complete(t, InHand(t, l).transactions, saved)
      BY <1>4 DEF Receive, ReceiveOk, ReceiveRefusal, ReceiveError
    <2> QED
      BY <1>2, <1>4, <2>1, <2>2
  <1> QED
    BY <1>3, <1>4 DEF Answered

\* Whoever waits for a transaction that is saved is called, and finds nothing it
\* saw before unanswered.
LEMMA CompletedCalls ==
  ASSUME CallInv, KeepInv, KeepInv', NEW t \in Tabs, NEW k \in Callers,
         UNCHANGED edits,
         \A x \in Txns : outcome'[x] # outcome[x] =>
           /\ x \in ToSet(edits[t]) /\ outcome[x] = "pending"
           /\ outcome'[x] \in {"saved", "unsaved"},
         caller' = [caller EXCEPT ![t] = Completed(t)]
  PROVE  Awaits(t, k)'
PROOF
  <1> DEFINE call == caller[t][k]
  <1>1. /\ caller \in [Tabs -> [Callers -> CallerStates]] /\ Awaits(t, k)
        /\ ToSet(edits[t]) \subseteq Txns /\ outcome' \in [Txns -> Outcomes]
        /\ outcome \in [Txns -> Outcomes]
    BY KeepTyped DEF CallInv, TCTypeOK, KeepInv, OnceInv, PQInv, PQTypeOK
  <1>2. caller'[t][k] = IF call.state = "waiting" THEN Settled(call) ELSE call
    BY <1>1 DEF Completed
  <1>3. Pending(t)' \subseteq Pending(t)
    BY <1>1 DEF Pending
  <1>4. CASE call.state # "waiting"
    <2>1. caller'[t][k] = call
      BY <1>2, <1>4
    <2>2. call.state = "called" => outcome'[call.txn] = "saved"
      BY <1>1 DEF Awaits
    <2> QED
      BY <1>1, <1>3, <1>4, <2>1, <2>2 DEF Awaits
  <1>5. CASE call.state = "waiting"
    <2>1. /\ call.txn \in ToSet(edits[t]) /\ call.txn \in Txns
          /\ outcome[call.txn] = "pending"
          /\ call.before \subseteq ToSet(edits[t])
          /\ \A y \in call.before \cap Pending(t) :
               y = call.txn \/ Before(edits[t], y, call.txn)
      BY <1>1, <1>5 DEF Awaits
    <2>2. CASE outcome'[call.txn] = "saved"
      <3>1. caller'[t][k] = [call EXCEPT !.state = "called"]
        BY <1>2, <1>5, <2>2 DEF Settled
      <3>2. call \in CallerStates
        BY <1>1
      <3>3. /\ caller'[t][k].state = "called" /\ caller'[t][k].txn = call.txn
            /\ caller'[t][k].before = call.before
        BY <3>1, <3>2 DEF CallerStates
      <3>4. ASSUME NEW y \in call.before, y \in Pending(t)'
            PROVE  FALSE
        <4>1. outcome'[y] = "pending" /\ y \in Pending(t)
          BY <1>3, <3>4 DEF Pending
        <4>2. Before(edits[t], y, call.txn)
          BY <2>1, <2>2, <4>1
        <4>3. SavedBefore(t)'
          BY DEF KeepInv, Keeps
        <4> QED
          BY <2>2, <4>1, <4>2, <4>3 DEF SavedBefore, Before
      <3> QED
        BY <2>1, <2>2, <3>3, <3>4 DEF Awaits
    <2>3. CASE outcome'[call.txn] = "unsaved"
      BY <1>2, <1>5, <2>3, AwaitsNone DEF Settled
    <2>4. CASE outcome'[call.txn] = "pending"
      <3>1. caller'[t][k] = call
        BY <1>2, <1>5, <2>4 DEF Settled
      <3> QED
        BY <1>3, <1>5, <2>1, <2>4, <3>1 DEF Awaits
    <2> QED
      BY <2>1, <2>2, <2>3, <2>4
  <1> QED
    BY <1>4, <1>5

\* A new edit comes after all that those who wait know of; who listened waits for it.
LEMMA RegisteredCalls ==
  ASSUME CallInv, KeepInv, NEW t \in Tabs, NEW k \in Callers, NEW x \in Txns,
         SendTransaction(t, x),
         caller' = [caller EXCEPT ![t] = Registered(t)]
  PROVE  Awaits(t, k)'
PROOF
  <1> DEFINE call == caller[t][k]
  <1>1. /\ caller \in [Tabs -> [Callers -> CallerStates]] /\ Awaits(t, k)
        /\ edits[t] \in Seq(Txns) /\ ToSet(edits[t]) \subseteq Txns /\ PQTypeOK /\ OnceInv
        /\ Keeps(t)
    BY KeepTyped DEF CallInv, TCTypeOK
  <1>2. /\ edits'[t] = Append(edits[t], x) /\ outcome[x] = "fresh" /\ outcome'[x] = "pending"
        /\ \A y \in Txns \ {x} : outcome'[y] = outcome[y]
        /\ lastEdit'[t] = x
    BY <1>1 DEF SendTransaction, PQTypeOK
  <1>3. x \notin ToSet(edits[t]) /\ ToSet(edits'[t]) = ToSet(edits[t]) \cup {x}
    BY <1>1, <1>2, ToSetAppend DEF OnceInv
  <1>4. \A y, z \in Txns : Before(edits[t], y, z) => Before(edits'[t], y, z)
    BY <1>1, <1>2, BeforeAppend
  <1>5. Pending(t)' = Pending(t) \cup {x}
    BY <1>1, <1>2, <1>3 DEF Pending
  <1>6. x # NoTxn /\ x # lastEdit[t]
    BY <1>1, <1>2, ProjectQueueAssumption DEF Keeps, LastIsPending
  <1>7. caller'[t][k] = IF call.state = "listening"
                          THEN [call EXCEPT !.state = "waiting", !.txn = x] ELSE call
    BY <1>1, <1>2, <1>6 DEF Registered
  <1>8. CASE call.state = "listening"
    <2>1. caller'[t][k] = [call EXCEPT !.state = "waiting", !.txn = x] /\ call \in CallerStates
      BY <1>1, <1>7, <1>8
    <2>2. /\ caller'[t][k].state = "waiting" /\ caller'[t][k].txn = x
          /\ caller'[t][k].before = call.before
      <3> HIDE DEF call
      <3> QED
        BY <2>1 DEF CallerStates
    <2>3. call.before = {}
      BY <1>1, <1>8 DEF Awaits
    <2> QED
      BY <1>2, <1>3, <2>2, <2>3 DEF Awaits
  <1>9. CASE call.state # "listening"
    <2>1. caller'[t][k] = call
      BY <1>7, <1>9
    <2>2. call.state # "none" => call.before \subseteq ToSet(edits[t])
      BY <1>1 DEF Awaits
    <2>3. call.state # "none" => call.before \cap Pending(t)' = call.before \cap Pending(t)
      BY <1>3, <1>5, <2>2
    <2>4. call.state \in {"waiting", "called"} =>
            /\ call.txn \in ToSet(edits[t]) /\ call.txn \in Txns
            /\ outcome'[call.txn] = outcome[call.txn]
      BY <1>1, <1>2, <1>3 DEF Awaits
    <2>5. \A y \in call.before \cap Pending(t) : y \in Txns
      BY <1>1 DEF Pending
    <2> QED
      BY <1>1, <1>3, <1>4, <1>9, <2>1, <2>2, <2>3, <2>4, <2>5 DEF Awaits
  <1> QED
    BY <1>8, <1>9

\* Who asks waits for the last edit, which is unanswered, or for none where all is
\* answered.
LEMMA AskedCalls ==
  ASSUME CallInv, KeepInv, NEW t \in Tabs, NEW k \in Callers,
         OnNextTransactionComplete(t, k)
  PROVE  Awaits(t, k)'
PROOF
  <1> DEFINE es == edits[t]
             call == [state  |-> IF lastEdit[t] = NoTxn THEN "listening" ELSE "waiting",
                      txn    |-> lastEdit[t],
                      before |-> Pending(t)]
  <1>1. /\ caller \in [Tabs -> [Callers -> CallerStates]]
        /\ es \in Seq(Txns) /\ Keeps(t) /\ PQTypeOK
    BY KeepTyped DEF CallInv, TCTypeOK
  <1>2. caller'[t][k] = call /\ UNCHANGED pqVars
    BY <1>1 DEF OnNextTransactionComplete, CurrentTransaction
  <1>3. UNCHANGED <<edits, outcome>> /\ Pending(t)' = Pending(t)
    BY <1>2 DEF pqVars, queueVars, Pending
  <1>4. CASE lastEdit[t] = NoTxn
    <2>1. Pending(t) = {}
      BY <1>1, <1>4 DEF Keeps, LastIsPending
    <2> QED
      BY <1>2, <1>3, <1>4, <2>1 DEF Awaits
  <1>5. CASE lastEdit[t] # NoTxn
    <2>1. es # <<>> /\ es[Len(es)] = lastEdit[t] /\ outcome[lastEdit[t]] = "pending"
      BY <1>1, <1>5 DEF Keeps, LastIsPending
    <2>2. /\ Len(es) \in DOMAIN es
          /\ \A i \in DOMAIN es : i = Len(es) \/ i < Len(es)
      BY <1>1, <2>1
    <2>3. lastEdit[t] \in ToSet(es)
      BY <2>1, <2>2 DEF ToSet
    <2>4. ASSUME NEW y \in Pending(t), y # lastEdit[t]
          PROVE  Before(es, y, lastEdit[t])
      <3>1. PICK i \in DOMAIN es : es[i] = y
        BY DEF Pending, ToSet
      <3> QED
        BY <2>1, <2>2, <2>4, <3>1 DEF Before
    <2>5. Pending(t) \subseteq ToSet(es)
      BY DEF Pending
    <2> QED
      BY <1>2, <1>3, <1>5, <2>1, <2>3, <2>4, <2>5 DEF Awaits
  <1> QED
    BY <1>4, <1>5

LEMMA CallNext ==
  ASSUME CallInv, KeepInv, KeepInv', [TCNext]_tcVars
  PROVE  CallInv'
PROOF
  <1>1. /\ caller \in [Tabs -> [Callers -> CallerStates]] /\ PQTypeOK /\ PQTypeOK'
        /\ OnceInv
    BY DEF KeepInv, OnceInv, PQInv, CallInv, TCTypeOK
  <1>2. TCTypeOK'
    BY <1>1, CallersTyped DEF TCTypeOK, tcVars
  <1> SUFFICES ASSUME NEW u \in Tabs, NEW j \in Callers PROVE Awaits(u, j)'
    BY <1>2 DEF CallInv
  <1>3. Awaits(u, j)
    BY DEF CallInv
  <1>4. CASE UNCHANGED <<edits, outcome>> /\ caller'[u][j] = caller[u][j]
    BY <1>3, <1>4, AwaitsStill
  <1>5. ASSUME NEW t \in Tabs, NEW x \in Txns, SendTransaction(t, x),
               caller' = [caller EXCEPT ![t] = Registered(t)]
        PROVE  Awaits(u, j)'
    <2>1. CASE t = u
      BY <1>5, <2>1, RegisteredCalls
    <2>2. CASE t # u
      <3>1. /\ caller'[u][j] = caller[u][j] /\ edits'[u] = edits[u]
            /\ \A y \in Txns : outcome'[y] # outcome[y] => outcome[y] = "fresh"
        BY <1>1, <1>5, <2>2 DEF SendTransaction, PQTypeOK
      <3>2. \A y \in ToSet(edits[u]) : outcome'[y] = outcome[y]
        BY <1>1, <2>2, <3>1, OthersUnanswered
      <3> QED
        BY <1>3, <3>1, <3>2, AwaitsStill
    <2> QED
      BY <2>1, <2>2
  <1>6. ASSUME NEW t \in Tabs, NEW l \in Loops,
               Step(t, l) \/ SendPatch(t, l) \/ NetworkError(t, l) \/ Answered(t, l),
               caller' = [caller EXCEPT ![t] = Completed(t)]
        PROVE  Awaits(u, j)'
    <2>1. /\ UNCHANGED edits
          /\ \A x \in Txns : outcome'[x] # outcome[x] =>
               /\ x \in ToSet(edits[t]) /\ outcome[x] = "pending"
               /\ outcome'[x] \in {"saved", "unsaved"}
      BY <1>1, <1>6, LoopAnswers
    <2>2. CASE t = u
      BY <1>6, <2>1, <2>2, CompletedCalls
    <2>3. CASE t # u
      <3>1. caller'[u][j] = caller[u][j]
        BY <1>1, <1>6, <2>3
      <3>2. \A y \in ToSet(edits[u]) : outcome'[y] = outcome[y]
        BY <1>1, <2>1, <2>3, OthersUnanswered
      <3> QED
        BY <1>3, <2>1, <3>1, <3>2, AwaitsStill
    <2> QED
      BY <2>2, <2>3
  <1>7. ASSUME NEW t \in Tabs, NEW k \in Callers,
               OnNextTransactionComplete(t, k) \/ TimeOut(t, k)
        PROVE  Awaits(u, j)'
    <2>1. UNCHANGED <<edits, outcome>>
      BY <1>7 DEF OnNextTransactionComplete, TimeOut, pqVars, queueVars
    <2>2. CASE u = t /\ j = k
      <3>1. CASE TimeOut(t, k)
        BY <1>1, <2>2, <3>1, AwaitsNone DEF TimeOut
      <3> QED
        BY <1>7, <2>2, <3>1, AskedCalls
    <2>3. CASE ~ (u = t /\ j = k)
      <3>1. caller'[u][j] = caller[u][j]
        BY <1>1, <1>7, <2>3 DEF OnNextTransactionComplete, TimeOut
      <3> QED
        BY <1>4, <2>1, <3>1
    <2> QED
      BY <2>2, <2>3
  <1>8. ASSUME NEW t \in Tabs, Reload(t),
               caller' = [caller EXCEPT ![t] = [k \in Callers |-> NoCaller]]
        PROVE  Awaits(u, j)'
    <2>1. CASE t = u
      BY <1>1, <1>8, <2>1, AwaitsNone
    <2>2. CASE t # u
      <3>1. /\ caller'[u][j] = caller[u][j] /\ edits'[u] = edits[u]
            /\ \A y \in Txns : outcome'[y] # outcome[y] => y \in ToSet(edits[t])
        BY <1>1, <1>8, <2>2 DEF Reload, PQTypeOK
      <3>2. \A y \in ToSet(edits[u]) : outcome'[y] = outcome[y]
        BY <1>1, <2>2, <3>1, OthersUnanswered
      <3> QED
        BY <1>3, <3>1, <3>2, AwaitsStill
    <2> QED
      BY <2>1, <2>2
  <1>9. ASSUME NEW t \in Tabs, UNCHANGED caller,
               \/ \E p \in Projects : OpenProject(t, p)
               \/ \E v \in 0..MaxVersion : LoadData(t, v)
               \/ EnqueueProjectDetails(t)
               \/ CloseDialog(t)
               \/ Unmount(t)
        PROVE  Awaits(u, j)'
    <2>1. UNCHANGED <<edits, outcome>>
      BY <1>9 DEF OpenProject, LoadData, EnqueueProjectDetails, CloseDialog, Unmount,
                  StopPolling, queueVars
    <2> QED
      BY <1>4, <1>9, <2>1
  <1>10. CASE UNCHANGED tcVars
    <2>1. UNCHANGED <<edits, outcome>> /\ caller'[u][j] = caller[u][j]
      BY <1>10 DEF tcVars, pqVars, queueVars
    <2> QED
      BY <1>4, <2>1
  <1> QED
    BY <1>5, <1>6, <1>7, <1>8, <1>9, <1>10 DEF TCNext

LEMMA CallInit ==
  TCInit => CallInv
PROOF
  <1>1. PQInit => PQTypeOK
    BY PQInitInv DEF PQInv
  <1>2. NoCaller \in CallerStates
    BY DEF NoCaller, CallerStates
  <1>3. TCInit => TCTypeOK
    BY <1>1, <1>2 DEF TCInit, TCTypeOK
  <1>4. TCInit => \A t \in Tabs, k \in Callers : Awaits(t, k)
    BY DEF TCInit, Awaits, NoCaller
  <1> QED
    BY <1>3, <1>4 DEF CallInv

\* As long as polling ends with the page only, what a call waits for is unanswered,
\* and everything it knew of comes before.
THEOREM CallInvariant == TCSpec /\ PollsOn => []CallInv
PROOF
  <1>1. TCSpec /\ PollsOn => []KeepInv
    BY CallersRefineQueue, KeepInvariant, PTL
  <1>2. CallInv /\ KeepInv /\ KeepInv' /\ [TCNext]_tcVars => CallInv'
    BY CallNext
  <1> QED
    BY <1>1, <1>2, CallInit, PTL DEF TCSpec

\* As long as polling ends with the page only, who is called was told the truth: all
\* that was unanswered when it asked has been answered, and what it waited for is in
\* the database.
THEOREM CalledInTime == TCSpec /\ PollsOn => []ConfirmedWhenCalled
PROOF
  <1>1. CallInv => ConfirmedWhenCalled
    BY DEF CallInv, Awaits, ConfirmedWhenCalled
  <1> QED
    BY <1>1, CallInvariant, PTL

\* As long as polling ends with the page only, nobody waits for what has been
\* answered, and nobody listens for a next edit while one is unanswered.
THEOREM NobodyWaitsInVain == TCSpec /\ PollsOn => []WaitsForUnanswered
PROOF
  <1>1. CallInv => WaitsForUnanswered
    BY DEF CallInv, Awaits, WaitsForUnanswered
  <1> QED
    BY <1>1, CallInvariant, PTL

\* So in a builder tab, which polls until its page goes, callbacks come in time, and
\* the queue keeps what it promises with callers as without.
THEOREM BuilderCalls ==
  ASSUME Builder
  PROVE  TCSpec => [](/\ ConfirmedWhenCalled /\ WaitsForUnanswered
                      /\ NoEditLost /\ IdleMeansSaved /\ SavedInOrder
                      /\ DetailsPrecedeTransactions)
PROOF
  <1>1. TCSpec => PollsOn
    BY CallersRefineQueue, BuilderPollsOn, PTL
  <1>2. TCSpec => [](/\ NoEditLost /\ IdleMeansSaved /\ SavedInOrder
                     /\ DetailsPrecedeTransactions)
    BY CallersRefineQueue, BuilderKeeps, PTL
  <1> QED
    BY <1>1, <1>2, CalledInTime, NobodyWaitsInVain, PTL
=============================================================================
