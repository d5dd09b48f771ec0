------------------------------ MODULE BuildLog ------------------------------
(***************************************************************************)
(* What the database promises to everybody who saves a project build: the  *)
(* build row is a log of batches of transactions that only grows, one      *)
(* batch per version.  A version number therefore names one state of the   *)
(* build for ever, which is what lets a browser send "the version I have"  *)
(* instead of the state it has.                                            *)
(***************************************************************************)
EXTENDS Naturals, Sequences

CONSTANTS Projects,  \* projects, each with one development build
          Txns       \* transaction ids

VARIABLES version,   \* [Projects -> Nat], Build.version
          log        \* [Projects -> Seq(SUBSET Txns)], what the build contains

logVars == <<version, log>>

LogInit ==
  /\ version = [p \in Projects |-> 0]
  /\ log = [p \in Projects |-> <<>>]

\* One saved batch: appended to the log, and the version moves by one with it.
Save(p, batch) ==
  /\ log' = [log EXCEPT ![p] = Append(@, batch)]
  /\ version' = [version EXCEPT ![p] = @ + 1]

LogNext == \E p \in Projects, batch \in SUBSET Txns : Save(p, batch)

LogSpec == LogInit /\ [][LogNext]_logVars
=============================================================================
