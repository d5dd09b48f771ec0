------------------------ MODULE TransactionCompletion ------------------------
(***************************************************************************)
(* Those who wait for a save: transaction-completion.ts on top of the save *)
(* queue.  Asset dialogs and uploads call onNextTransactionComplete after  *)
(* an edit, "wait for server to confirm transaction, then invalidate       *)
(* cache", and are called when the transaction that was the last one then, *)
(* or the next one when none was outstanding, is saved.                    *)
(*                                                                         *)
(* A caller is one such call.  The entries of callbacks for a transaction  *)
(* are the callers that wait for it; what a caller asked for is settled    *)
(* once, whichever of its two timers or answers comes first.               *)
(***************************************************************************)
EXTENDS ProjectQueue

CONSTANT Callers  \* bound: calls of onNextTransactionComplete of one tab that wait

VARIABLE caller   \* what each is about

tcVars == <<pqVars, caller>>

CallerStates ==
  [state  : {"none", "listening", "waiting", "called"},
   txn    : Txns \cup {NoTxn},  \* the transaction it waits for
   before : SUBSET Txns]        \* what was unanswered when it asked (auxiliary)

\* Not made yet, settled without being called, or gone with its page.
NoCaller == [state |-> "none", txn |-> NoTxn, before |-> {}]

TCInit == PQInit /\ caller = [t \in Tabs |-> [k \in Callers |-> NoCaller]]

-----------------------------------------------------------------------------

\* Mutant: listens for the next transaction even when one is outstanding.
ListenForNext(t) == NoCaller.txn

\* register with the current $lastTransactionId, else listen.
CurrentTransaction(t) == lastEdit[t]

OnNextTransactionComplete(t, k) ==
  /\ Continued(t)
  /\ page[t].phase = "open"
  /\ caller[t][k].state = "none"
  /\ caller' = [caller EXCEPT ![t][k] =
       [state  |-> IF CurrentTransaction(t) = NoTxn THEN "listening" ELSE "waiting",
        txn    |-> CurrentTransaction(t),
        before |-> Pending(t)]]
  /\ UNCHANGED pqVars

\* $lastTransactionId changes under a listener: it waits for that one.
Registered(t) ==
  [k \in Callers |->
     IF caller[t][k].state = "listening" /\ lastEdit'[t] \notin {NoTxn, lastEdit[t]}
       THEN [caller[t][k] EXCEPT !.state = "waiting", !.txn = lastEdit'[t]]
       ELSE caller[t][k]]

\* Mutant: a caller is called whatever the answer was.
CalledAnyway(call) ==
  IF outcome'[call.txn] \in {"saved", "unsaved"} THEN [call EXCEPT !.state = "called"]
  ELSE call

\* settle: the callback is for success only.
Settled(call) ==
  CASE outcome'[call.txn] = "saved"   -> [call EXCEPT !.state = "called"]
    [] outcome'[call.txn] = "unsaved" -> NoCaller
    [] OTHER                          -> call

\* completeTransaction for the transactions a step answers.
Completed(t) ==
  [k \in Callers |-> IF caller[t][k].state = "waiting" THEN Settled(caller[t][k])
                                                      ELSE caller[t][k]]

\* The 60 s timer of a call.
TimeOut(t, k) ==
  /\ Continued(t)
  /\ caller[t][k].state \in {"listening", "waiting"}
  /\ caller' = [caller EXCEPT ![t][k] = NoCaller]
  /\ UNCHANGED pqVars

TCNext ==
  \E t \in Tabs :
    \/ /\ \/ \E p \in Projects : OpenProject(t, p)
          \/ \E v \in 0..MaxVersion : LoadData(t, v)
          \/ EnqueueProjectDetails(t)
          \/ CloseDialog(t)
          \/ Unmount(t)
       /\ UNCHANGED caller
    \/ \E x \in Txns : SendTransaction(t, x) /\ caller' = [caller EXCEPT ![t] = Registered(t)]
    \/ \E l \in Loops :
         /\ Step(t, l) \/ SendPatch(t, l) \/ NetworkError(t, l) \/ Answered(t, l)
         /\ caller' = [caller EXCEPT ![t] = Completed(t)]
    \/ \E k \in Callers : OnNextTransactionComplete(t, k) \/ TimeOut(t, k)
    \/ Reload(t) /\ caller' = [caller EXCEPT ![t] = [k \in Callers |-> NoCaller]]

TCSpec == TCInit /\ [][TCNext]_tcVars

\* The fairness of the queue; no timer is needed.
TCFairSpec == TCSpec /\ PQFairness

-----------------------------------------------------------------------------
(* Properties *)

TCTypeOK ==
  /\ PQTypeOK
  /\ caller \in [Tabs -> [Callers -> CallerStates]]

\* "Wait for server to confirm transaction" (delete-assets.ts): when a caller is
\* called, everything that was unanswered when it asked has been answered, and the
\* transaction it waited for is saved, also when that was not its own.
ConfirmedWhenCalled ==
  \A t \in Tabs, k \in Callers :
    caller[t][k].state = "called" =>
      /\ outcome[caller[t][k].txn] = "saved"
      /\ caller[t][k].before \cap Pending(t) = {}

\* No caller waits for something that was answered already, and none listens for a
\* next transaction while one is outstanding: who made an edit waits for it or for
\* a later one.
WaitsForUnanswered ==
  \A t \in Tabs, k \in Callers :
    /\ caller[t][k].state = "waiting" => outcome[caller[t][k].txn] = "pending"
    /\ caller[t][k].state = "listening" => Pending(t) = {}
=============================================================================
