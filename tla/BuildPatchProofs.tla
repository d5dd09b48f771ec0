-------------------------- MODULE BuildPatchProofs --------------------------
(***************************************************************************)
(* Proofs about BuildPatch, for any projects, transactions, clients and    *)
(* number of concurrent requests: its state is well typed, the row is an   *)
(* append-only log of batches (the module implements BuildLog), and the    *)
(* assets of a saved transaction are in place.                             *)
(***************************************************************************)
EXTENDS BuildPatch, TLAPS

USE BuildPatchAssumption

-----------------------------------------------------------------------------
(* The operators on entries and batches stay within the transactions. *)

\* What comes earliest or latest in a list of entries is one of the set asked
\* about, and a transaction.
LEMMA EntriesTyped ==
  ASSUME NEW es \in Seq(Txns), NEW S
  PROVE  /\ ToSet(es) \subseteq Txns
         /\ EarliestOf(es, S) \subseteq Txns \cap S
         /\ LatestOf(es, S) \subseteq Txns \cap S
PROOF
  <1>1. \A i \in DOMAIN es : es[i] \in Txns
    OBVIOUS
  <1> QED
    BY <1>1 DEF ToSet, EarliestOf, LatestOf

\* patchLoadedBuild is called with authorized entries that are not yet applied.
LEMMA BatchTyped ==
  ASSUME NEW hd \in Busy
  PROVE  Batch(hd) \subseteq hd.remaining /\ Batch(hd) \in SUBSET Txns
PROOF
  <1>1. hd.remaining \in SUBSET Txns /\ hd.entries \in Seq(Txns)
    BY DEF Busy
  <1> QED
    BY <1>1, EntriesTyped DEF Batch

\* The next step of a handler is one of the two it can take.
LEMMA StepForTyped ==
  ASSUME NEW batch
  PROVE  /\ StepFor(batch) \in {"assets", "update"}
         /\ StepFor(batch) = "update" => batch \cap AssetTxns = {}
PROOF BY DEF StepFor

\* A handler that is not idle is a running request.
LEMMA BusyWhenStarted ==
  ASSUME BPTypeOK, NEW h \in Handlers, handler[h].pc # "idle"
  PROVE  handler[h] \in Busy
PROOF BY DEF BPTypeOK, Idle

\* Answering a request leaves every other handler alone, and this one typed.
LEMMA ReplyTyped ==
  ASSUME BPTypeOK, NEW h \in Handlers, handler[h] \in Busy,
         NEW status \in Statuses, NEW v \in Nat, NEW accepted \in SUBSET Txns,
         Reply(h, status, v, accepted)
  PROVE  /\ handler' \in [Handlers -> Busy \cup {Idle}]
         /\ handler'[h].pc = "replied"
         /\ \A k \in Handlers \ {h} : handler'[k] = handler[k]
PROOF
  <1> DEFINE hd == [handler[h] EXCEPT !.pc = "replied", !.version = 0, !.content = <<>>,
                      !.mode = "batch", !.remaining = {}, !.failed = {},
                      !.result = [status |-> status, version |-> v, accepted |-> accepted]]
  <1>1. hd \in Busy /\ hd.pc = "replied"
    <2>1. [status |-> status, version |-> v, accepted |-> accepted] \in Results
      BY DEF Results
    <2>2. <<>> \in Seq(SUBSET Txns) /\ {} \in SUBSET Txns /\ 0 \in Nat
      OBVIOUS
    <2> QED
      BY <2>1, <2>2 DEF Busy
  <1>2. handler' = [handler EXCEPT ![h] = hd]
    BY DEF Reply
  <1> HIDE DEF hd
  <1> QED
    BY <1>1, <1>2 DEF BPTypeOK

\* The same as a new state of the answering handler.
LEMMA ReplyEffect ==
  ASSUME BPTypeOK, NEW h \in Handlers, handler[h].pc # "idle",
         NEW status \in Statuses, NEW v \in Nat, NEW accepted \in SUBSET Txns,
         Reply(h, status, v, accepted)
  PROVE  \E hd \in Busy : hd.pc = "replied" /\ handler' = [handler EXCEPT ![h] = hd]
PROOF
  <1> DEFINE hd == handler'[h]
  <1>1. handler[h] \in Busy
    BY BusyWhenStarted
  <1>2. /\ handler' \in [Handlers -> Busy \cup {Idle}]
        /\ hd.pc = "replied"
        /\ \A k \in Handlers \ {h} : handler'[k] = handler[k]
    BY <1>1, ReplyTyped
  <1>3. hd \in Busy /\ handler' = [handler EXCEPT ![h] = hd]
    BY <1>2 DEF BPTypeOK, Idle
  <1> QED
    BY <1>2, <1>3

-----------------------------------------------------------------------------
(* The inductive invariant, one lemma per kind of step.  It says of any set A *)
(* of transactions with assets that their assets are in place: BPInv is the   *)
(* case of all of them, and InvFor({}) is what is left when somebody else     *)
(* deletes assets: what every handler believes about the row.                 *)

Present(A) ==
  \A p \in Projects : \A i \in DOMAIN content[p] : content[p][i] \cap A \subseteq assets[p]

InPlace(A, hd) ==
  hd.pc = "update" => Batch(hd) \cap A \subseteq assets[hd.project]

InvFor(A) ==
  /\ BPTypeOK
  /\ Present(A)
  /\ \A h \in Handlers : VersionAsRead(handler[h]) /\ InPlace(A, handler[h])

LEMMA InvForAll ==
  (BPInv <=> InvFor(AssetTxns)) /\ (BPInv' <=> InvFor(AssetTxns)')
PROOF BY DEF BPInv, InvFor, AssetsBeforeBuild, Present, AssetsInPlace, InPlace

LEMMA BPInitInv ==
  ASSUME NEW A \in SUBSET AssetTxns, BPInit
  PROVE  InvFor(A)
PROOF
  <1>1. <<>> \in Seq(SUBSET Txns) /\ {} \in SUBSET Txns
    OBVIOUS
  <1>2. BPTypeOK
    BY <1>1 DEF BPInit, BPTypeOK
  <1>3. Present(A)
    BY DEF BPInit, Present
  <1>4. \A h \in Handlers : VersionAsRead(handler[h]) /\ InPlace(A, handler[h])
    BY DEF BPInit, Idle, VersionAsRead, InPlace
  <1> QED
    BY <1>2, <1>3, <1>4 DEF InvFor

\* A step of one handler that leaves the row alone and removes no asset keeps
\* the invariant when the handler's new state satisfies its part.
LEMMA HandlerStep ==
  ASSUME NEW A \in SUBSET AssetTxns, InvFor(A),
         NEW h \in Handlers, NEW hd \in Busy \cup {Idle},
         handler' = [handler EXCEPT ![h] = hd],
         UNCHANGED row,
         assets' \in [Projects -> SUBSET Txns],
         \A p \in Projects : assets[p] \subseteq assets'[p],
         VersionAsRead(hd),
         hd.pc = "update" => Batch(hd) \cap A \subseteq assets'[hd.project]
  PROVE  InvFor(A)'
PROOF
  <1>1. BPTypeOK'
    BY DEF InvFor, BPTypeOK, row
  <1>2. Present(A)'
    <2> SUFFICES ASSUME NEW p \in Projects, NEW i \in DOMAIN content[p]
                 PROVE  content[p][i] \cap A \subseteq assets'[p]
      BY DEF Present, row
    <2> QED
      BY DEF InvFor, Present
  <1>3. ASSUME NEW k \in Handlers
        PROVE  VersionAsRead(handler[k])' /\ InPlace(A, handler[k])'
    <2>1. CASE k = h
      <3>1. handler'[k] = hd
        BY <2>1 DEF InvFor, BPTypeOK
      <3> QED
        BY <3>1 DEF VersionAsRead, InPlace, Matches, row
    <2>2. CASE k # h
      <3>1. handler'[k] = handler[k]
        BY <2>2 DEF InvFor, BPTypeOK
      <3>2. VersionAsRead(handler[k]) /\ InPlace(A, handler[k])
        BY DEF InvFor
      <3>3. handler[k].pc = "update" => handler[k].project \in Projects
        BY BusyWhenStarted DEF InvFor, Busy
      <3>4. VersionAsRead(handler[k])'
        BY <3>1, <3>2 DEF VersionAsRead, Matches, row
      <3>5. InPlace(A, handler[k])'
        BY <3>1, <3>2, <3>3 DEF InPlace
      <3> QED
        BY <3>4, <3>5
    <2> QED
      BY <2>1, <2>2
  <1> QED
    BY <1>1, <1>2, <1>3 DEF InvFor

\* An answer that leaves the row alone.
LEMMA ReplyStep ==
  ASSUME NEW A \in SUBSET AssetTxns, InvFor(A),
         NEW h \in Handlers, handler[h].pc # "idle",
         NEW status \in Statuses, NEW v \in Nat, NEW accepted \in SUBSET Txns,
         Reply(h, status, v, accepted),
         UNCHANGED row,
         assets' \in [Projects -> SUBSET Txns],
         \A p \in Projects : assets[p] \subseteq assets'[p]
  PROVE  InvFor(A)'
PROOF
  <1>1. PICK hd \in Busy : hd.pc = "replied" /\ handler' = [handler EXCEPT ![h] = hd]
    BY ReplyEffect DEF InvFor
  <1>2. VersionAsRead(hd)
    BY <1>1 DEF VersionAsRead
  <1> QED
    BY <1>1, <1>2, HandlerStep

\* An answer that changes nothing in the database.
LEMMA QuietReplyStep ==
  ASSUME NEW A \in SUBSET AssetTxns, InvFor(A),
         NEW h \in Handlers, handler[h].pc # "idle",
         NEW status \in Statuses, NEW v \in Nat, NEW accepted \in SUBSET Txns,
         Reply(h, status, v, accepted),
         UNCHANGED <<version, lastTransactionId, content, assets>>
  PROVE  InvFor(A)'
PROOF
  <1>1. assets' \in [Projects -> SUBSET Txns] /\ UNCHANGED row
    BY DEF InvFor, BPTypeOK, row
  <1>2. \A p \in Projects : assets[p] \subseteq assets'[p]
    OBVIOUS
  <1> QED
    BY <1>1, <1>2, ReplyStep

LEMMA RequestStep ==
  ASSUME NEW A \in SUBSET AssetTxns, InvFor(A),
         NEW h \in Handlers, NEW c \in Clients, NEW p \in Projects,
         NEW es \in Seq(Txns) \ {<<>>}, NEW v \in Nat, Request(h, c, p, es, v)
  PROVE  InvFor(A)'
PROOF
  <1> DEFINE hd == [pc |-> "arrived", client |-> c, project |-> p, entries |-> es,
                    clientVersion |-> v, version |-> 0, content |-> <<>>,
                    mode |-> "batch", remaining |-> {}, failed |-> {},
                    result |-> NoResult]
  <1>1. hd \in Busy
    BY DEF Busy, NoResult, Results, Statuses
  <1>2. handler' = [handler EXCEPT ![h] = hd]
    BY DEF Request
  <1>3. VersionAsRead(hd) /\ hd.pc = "arrived"
    BY DEF VersionAsRead
  <1>4. UNCHANGED <<row, assets>>
    BY DEF Request, row
  <1> HIDE DEF hd
  <1> QED
    BY <1>1, <1>2, <1>3, <1>4, HandlerStep DEF InvFor, BPTypeOK

\* loadBuildState reads the current version.
LEMMA LoadBuildStateStep ==
  ASSUME NEW A \in SUBSET AssetTxns, InvFor(A),
         NEW h \in Handlers, LoadBuildState(h)
  PROVE  InvFor(A)'
PROOF
  <1> DEFINE hd == [handler[h] EXCEPT !.pc = "authorizing",
                                      !.version = version[handler[h].project]]
  <1>1. handler[h] \in Busy
    BY BusyWhenStarted DEF InvFor, LoadBuildState
  <1>2. handler[h].project \in Projects /\ version[handler[h].project] \in Nat
    BY <1>1 DEF Busy, InvFor, BPTypeOK
  <1>3. /\ hd \in Busy /\ hd.pc = "authorizing"
        /\ hd.version = version[hd.project]
    BY <1>1, <1>2 DEF Busy
  <1>4. handler' = [handler EXCEPT ![h] = hd]
    BY <1>1 DEF LoadBuildState, Busy
  <1>5. VersionAsRead(hd)
    BY <1>2, <1>3 DEF VersionAsRead, Busy
  <1>6. UNCHANGED <<row, assets>>
    BY DEF LoadBuildState, row
  <1> HIDE DEF hd
  <1> QED
    BY <1>3, <1>4, <1>5, <1>6, HandlerStep DEF InvFor, BPTypeOK

LEMMA RejectAllStep ==
  ASSUME NEW A \in SUBSET AssetTxns, InvFor(A),
         NEW h \in Handlers, RejectAll(h)
  PROVE  InvFor(A)'
PROOF
  <1>1. handler[h] \in Busy /\ handler[h].pc # "idle"
    BY BusyWhenStarted DEF InvFor, RejectAll
  <1>2. handler[h].version \in Nat /\ "partial" \in Statuses /\ {} \in SUBSET Txns
    BY <1>1 DEF Busy, Statuses
  <1>3. /\ Reply(h, "partial", handler[h].version, {})
        /\ UNCHANGED <<version, lastTransactionId, content, assets>>
    BY DEF RejectAll
  <1> QED
    BY <1>1, <1>2, <1>3, QuietReplyStep

LEMMA CheckStaleStep ==
  ASSUME NEW A \in SUBSET AssetTxns, InvFor(A),
         NEW h \in Handlers, CheckStale(h)
  PROVE  InvFor(A)'
PROOF
  <1>1. handler[h] \in Busy /\ handler[h].pc # "idle"
    BY BusyWhenStarted DEF InvFor, CheckStale
  <1>2. handler[h].version \in Nat /\ ToSet(handler[h].entries) \subseteq Txns
    BY <1>1, EntriesTyped DEF Busy
  <1>3. UNCHANGED <<version, lastTransactionId, content, assets>>
    BY DEF CheckStale
  <1>4. PICK rejected \in SUBSET (ToSet(handler[h].entries) \cap Restricted) :
          \/ Reply(h, StatusFor(rejected), handler[h].version,
                   ToSet(handler[h].entries) \ rejected)
          \/ Reply(h, "version_mismatched", 0, {})
    BY DEF CheckStale
  <1>5. StatusFor(rejected) \in Statuses /\ "version_mismatched" \in Statuses
    BY DEF StatusFor, Statuses
  <1>6. CASE Reply(h, StatusFor(rejected), handler[h].version,
                   ToSet(handler[h].entries) \ rejected)
    <2>1. ToSet(handler[h].entries) \ rejected \in SUBSET Txns
      BY <1>2
    <2> QED
      BY <1>1, <1>2, <1>3, <1>5, <1>6, <2>1, QuietReplyStep
  <1>7. CASE Reply(h, "version_mismatched", 0, {})
    <2>1. 0 \in Nat /\ {} \in SUBSET Txns
      OBVIOUS
    <2> QED
      BY <1>1, <1>3, <1>5, <1>7, <2>1, QuietReplyStep
  <1> QED
    BY <1>4, <1>6, <1>7

\* The columns read now are those of the version read before, if the row still
\* has it.
LEMMA StartPatchStep ==
  ASSUME NEW A \in SUBSET AssetTxns, InvFor(A),
         NEW h \in Handlers, StartPatch(h)
  PROVE  InvFor(A)'
PROOF
  <1>1. handler[h] \in Busy /\ handler[h].pc = "authorizing"
    BY BusyWhenStarted DEF InvFor, StartPatch
  <1>2. /\ handler[h].version \in Nat
        /\ handler[h].project \in Projects
        /\ ToSet(handler[h].entries) \subseteq Txns
    BY <1>1, EntriesTyped DEF Busy
  <1>3. UNCHANGED <<row, assets>>
    BY DEF StartPatch, row
  <1>4. PICK rejected \in SUBSET (ToSet(handler[h].entries) \cap Restricted) :
          LET authorized == ToSet(handler[h].entries) \ rejected
              started == [handler[h] EXCEPT
                !.content = content[handler[h].project],
                !.mode = IF authorized \cap Cyclic = {} THEN "batch" ELSE "entries",
                !.remaining = authorized \ Cyclic,
                !.failed = rejected \cup (authorized \cap Cyclic)]
          IN IF started.remaining = {}
               THEN Reply(h, "partial", handler[h].version, {})
               ELSE handler' = [handler EXCEPT ![h] =
                      [started EXCEPT !.pc = StepFor(Batch(started))]]
    BY DEF StartPatch
  <1> DEFINE authorized == ToSet(handler[h].entries) \ rejected
             started == [handler[h] EXCEPT
                !.content = content[handler[h].project],
                !.mode = IF authorized \cap Cyclic = {} THEN "batch" ELSE "entries",
                !.remaining = authorized \ Cyclic,
                !.failed = rejected \cup (authorized \cap Cyclic)]
             hd == [started EXCEPT !.pc = StepFor(Batch(started))]
  <1>5. CASE started.remaining = {}
    <2>1. Reply(h, "partial", handler[h].version, {})
      BY <1>4, <1>5
    <2>2. "partial" \in Statuses /\ {} \in SUBSET Txns /\ handler[h].pc # "idle"
      BY <1>1 DEF Statuses
    <2>3. UNCHANGED <<version, lastTransactionId, content, assets>>
      BY DEF StartPatch
    <2> HIDE DEF authorized, started, hd
    <2> QED
      BY <1>2, <2>1, <2>2, <2>3, QuietReplyStep
  <1>6. CASE started.remaining # {}
    <2>1. handler' = [handler EXCEPT ![h] = hd]
      BY <1>4, <1>6
    <2>2. content[handler[h].project] \in Seq(SUBSET Txns)
      BY <1>2 DEF InvFor, BPTypeOK
    <2>3. /\ started \in Busy
          /\ started.content = content[started.project]
          /\ started.version = handler[h].version
          /\ started.project = handler[h].project
      <3> DEFINE rest == authorized \ Cyclic
                 failed == rejected \cup (authorized \cap Cyclic)
                 mode == IF authorized \cap Cyclic = {} THEN "batch" ELSE "entries"
      <3>1. rest \in SUBSET Txns /\ failed \in SUBSET Txns /\ mode \in {"batch", "entries"}
        BY <1>2
      <3>2. started = [handler[h] EXCEPT !.content = content[handler[h].project],
                         !.mode = mode, !.remaining = rest, !.failed = failed]
        OBVIOUS
      <3> HIDE DEF rest, failed, mode, started
      <3> QED
        BY <1>1, <1>2, <2>2, <3>1, <3>2 DEF Busy
    <2> DEFINE step == StepFor(Batch(started))
    <2>4. step \in {"assets", "update"} /\ (step = "update" => Batch(started) \cap A = {})
      BY StepForTyped
    <2>5. hd = [started EXCEPT !.pc = step]
      OBVIOUS
    <2> HIDE DEF started, step, hd, authorized
    <2>6. /\ hd \in Busy
          /\ hd.pc = step
          /\ hd.content = started.content
          /\ hd.version = started.version
          /\ hd.project = started.project
          /\ hd.mode = started.mode
          /\ hd.entries = started.entries
          /\ hd.remaining = started.remaining
      BY <2>3, <2>4, <2>5 DEF Busy
    <2>7. Batch(hd) = Batch(started)
      BY <2>6 DEF Batch
    <2>8. handler[h].version <= version[handler[h].project]
      BY <1>1 DEF InvFor, VersionAsRead
    <2>9. VersionAsRead(hd)
      BY <2>3, <2>6, <2>8 DEF VersionAsRead
    <2> QED
      BY <1>3, <2>1, <2>4, <2>6, <2>7, <2>9, HandlerStep DEF InvFor, BPTypeOK
  <1> QED
    BY <1>5, <1>6

LEMMA PatchAssetsStep ==
  ASSUME NEW A \in SUBSET AssetTxns, InvFor(A),
         NEW h \in Handlers, PatchAssets(h)
  PROVE  InvFor(A)'
PROOF
  <1> DEFINE batch == Batch(handler[h])
             p == handler[h].project
             hd == [handler[h] EXCEPT !.pc = "update"]
  <1>1. handler[h] \in Busy /\ handler[h].pc = "assets"
    BY BusyWhenStarted DEF InvFor, PatchAssets
  <1>2. p \in Projects /\ batch \in SUBSET Txns
    BY <1>1, BatchTyped DEF Busy
  <1>3. /\ handler' = [handler EXCEPT ![h] = hd]
        /\ assets' = [assets EXCEPT ![p] = @ \cup (batch \cap AssetTxns)]
        /\ UNCHANGED row
    BY <1>1 DEF PatchAssets, Busy
  <1>4. /\ hd \in Busy
        /\ hd.project = p
        /\ hd.mode = handler[h].mode
        /\ hd.entries = handler[h].entries
        /\ hd.remaining = handler[h].remaining
        /\ VersionAsRead(hd)
    <2>1. VersionAsRead(handler[h])
      BY DEF InvFor
    <2> QED
      BY <1>1, <2>1 DEF Busy, VersionAsRead, Matches
  <1>5. Batch(hd) = batch
    BY <1>4 DEF Batch
  <1> HIDE DEF hd, batch, p
  <1>6. assets \in [Projects -> SUBSET Txns]
    BY DEF InvFor, BPTypeOK
  <1>7. /\ assets' \in [Projects -> SUBSET Txns]
        /\ \A q \in Projects : assets[q] \subseteq assets'[q]
        /\ batch \cap A \subseteq assets'[p]
    BY <1>2, <1>3, <1>6
  <1> QED
    BY <1>3, <1>4, <1>5, <1>7, HandlerStep

LEMMA PatchAssetsFailsStep ==
  ASSUME NEW A \in SUBSET AssetTxns, InvFor(A),
         NEW h \in Handlers, PatchAssetsFails(h)
  PROVE  InvFor(A)'
PROOF
  <1>1. handler[h] \in Busy /\ handler[h].pc # "idle"
    BY BusyWhenStarted DEF InvFor, PatchAssetsFails
  <1>2. handler[h].project \in Projects /\ Batch(handler[h]) \in SUBSET Txns
    BY <1>1, BatchTyped DEF Busy
  <1>3. PICK done \in SUBSET (Batch(handler[h]) \cap AssetTxns) :
          assets' = [assets EXCEPT ![handler[h].project] = @ \cup done]
    BY DEF PatchAssetsFails
  <1>4. assets \in [Projects -> SUBSET Txns]
    BY DEF InvFor, BPTypeOK
  <1>5. /\ assets' \in [Projects -> SUBSET Txns]
        /\ \A q \in Projects : assets[q] \subseteq assets'[q]
    BY <1>2, <1>3, <1>4
  <1>6. /\ Reply(h, "error", 0, {}) /\ UNCHANGED row
        /\ "error" \in Statuses /\ 0 \in Nat /\ {} \in SUBSET Txns
    BY DEF PatchAssetsFails, Statuses
  <1> QED
    BY <1>1, <1>5, <1>6, ReplyStep

LEMMA LoseRaceStep ==
  ASSUME NEW A \in SUBSET AssetTxns, InvFor(A),
         NEW h \in Handlers, LoseRace(h)
  PROVE  InvFor(A)'
PROOF
  <1>1. /\ Reply(h, "version_mismatched", 0, {})
        /\ handler[h].pc # "idle"
        /\ UNCHANGED <<version, lastTransactionId, content, assets>>
    BY DEF LoseRace
  <1>2. "version_mismatched" \in Statuses /\ 0 \in Nat /\ {} \in SUBSET Txns
    BY DEF Statuses
  <1> QED
    BY <1>1, <1>2, QuietReplyStep

\* Answers given before the row is written: no use of what was read, if anything.
LEMMA RefuseStep ==
  ASSUME NEW A \in SUBSET AssetTxns, InvFor(A),
         NEW h \in Handlers, TurnAway(h) \/ Throw(h)
  PROVE  InvFor(A)'
PROOF
  <1>1. PICK status \in {"error", "authorization_error", "outdated"} :
          /\ Reply(h, status, 0, {})
          /\ handler[h].pc # "idle"
          /\ UNCHANGED <<version, lastTransactionId, content, assets>>
    BY DEF TurnAway, Throw
  <1>2. status \in Statuses /\ 0 \in Nat /\ {} \in SUBSET Txns
    BY DEF Statuses
  <1> QED
    BY <1>1, <1>2, QuietReplyStep

\* A slot becomes free when its request was answered or is gone.
LEMMA FreeStep ==
  ASSUME NEW A \in SUBSET AssetTxns, InvFor(A),
         NEW h \in Handlers, Respond(h) \/ Vanish(h)
  PROVE  InvFor(A)'
PROOF
  <1>1. /\ handler' = [handler EXCEPT ![h] = Idle]
        /\ UNCHANGED <<version, lastTransactionId, content, assets>>
    BY DEF Respond, Vanish
  <1>2. Idle \in Busy \cup {Idle} /\ VersionAsRead(Idle) /\ Idle.pc # "update"
    BY DEF Idle, VersionAsRead
  <1>3. /\ UNCHANGED row
        /\ assets' \in [Projects -> SUBSET Txns]
        /\ \A p \in Projects : assets[p] \subseteq assets'[p]
    BY <1>1 DEF row, InvFor, BPTypeOK
  <1> QED
    BY <1>1, <1>2, <1>3, HandlerStep

\* Losing its client changes nothing in what a request does.
LEMMA DisconnectStep ==
  ASSUME NEW A \in SUBSET AssetTxns, InvFor(A),
         NEW h \in Handlers, Disconnect(h)
  PROVE  InvFor(A)'
PROOF
  <1> DEFINE hd == [handler[h] EXCEPT !.client = NoClient]
  <1>1. handler[h] \in Busy
    BY DEF Disconnect, InvFor, BPTypeOK
  <1>2. /\ handler' = [handler EXCEPT ![h] = hd]
        /\ UNCHANGED <<version, lastTransactionId, content, assets>>
    BY DEF Disconnect
  <1>3. /\ hd \in Busy
        /\ hd.pc = handler[h].pc
        /\ hd.project = handler[h].project
        /\ hd.mode = handler[h].mode
        /\ hd.entries = handler[h].entries
        /\ hd.remaining = handler[h].remaining
        /\ hd.version = handler[h].version
        /\ hd.content = handler[h].content
    BY <1>1 DEF Busy
  <1> HIDE DEF hd
  <1>4. Batch(hd) = Batch(handler[h])
    BY <1>3 DEF Batch
  <1>5. VersionAsRead(hd)
    BY <1>3 DEF InvFor, VersionAsRead, Matches
  <1>6. hd.pc = "update" => Batch(hd) \cap A \subseteq assets'[hd.project]
    BY <1>2, <1>3, <1>4 DEF InvFor, InPlace
  <1>7. /\ UNCHANGED row
        /\ assets' \in [Projects -> SUBSET Txns]
        /\ \A p \in Projects : assets[p] \subseteq assets'[p]
    BY <1>2 DEF row, InvFor, BPTypeOK
  <1> QED
    BY <1>2, <1>3, <1>5, <1>6, <1>7, HandlerStep

-----------------------------------------------------------------------------
(* Saving.  The handler that wins the compare-and-set appends its batch to *)
(* the columns the row has; every other handler is left behind by it.       *)

LEMMA WriteRowEffect ==
  ASSUME NEW A \in SUBSET AssetTxns, InvFor(A),
         NEW h \in Handlers, handler[h].pc = "update",
         Matches(handler[h]), WriteRow(handler[h])
  PROVE  LET p     == handler[h].project
             batch == Batch(handler[h])
         IN  /\ p \in Projects /\ batch \in SUBSET Txns
             /\ handler[h].version = version[p] /\ handler[h].content = content[p]
             /\ version' = [version EXCEPT ![p] = @ + 1]
             /\ content' = [content EXCEPT ![p] = Append(@, batch)]
             /\ batch \cap A \subseteq assets[p]
             /\ lastTransactionId' \in [Projects -> Txns \cup {NoTxn}]
             /\ UNCHANGED assets
PROOF
  <1>1. handler[h] \in Busy
    BY BusyWhenStarted DEF InvFor
  <1> DEFINE p == handler[h].project
             batch == Batch(handler[h])
  <1>2. p \in Projects /\ batch \in SUBSET Txns
    BY <1>1, BatchTyped DEF Busy
  <1>3. /\ version \in [Projects -> Nat]
        /\ content \in [Projects -> Seq(SUBSET Txns)]
        /\ lastTransactionId \in [Projects -> Txns \cup {NoTxn}]
    BY DEF InvFor, BPTypeOK
  <1>4. handler[h].version = version[p] /\ handler[h].content = content[p]
    BY DEF InvFor, VersionAsRead, Matches
  <1>5. batch \cap A \subseteq assets[p]
    BY DEF InvFor, InPlace
  <1>6. PICK t \in LatestOf(handler[h].entries, batch) :
          lastTransactionId' = [lastTransactionId EXCEPT ![p] = t]
    BY DEF WriteRow
  <1>7. t \in Txns
    BY <1>1, EntriesTyped DEF Busy
  <1>8. lastTransactionId' \in [Projects -> Txns \cup {NoTxn}]
    BY <1>2, <1>3, <1>6, <1>7
  <1>9. /\ version' = [version EXCEPT ![p] = @ + 1]
        /\ content' = [content EXCEPT ![p] = Append(@, batch)]
        /\ UNCHANGED assets
    BY <1>2, <1>3, <1>4 DEF WriteRow
  <1> HIDE DEF batch
  <1> QED
    BY <1>2, <1>4, <1>5, <1>8, <1>9 DEF batch

\* Whatever the winner does next, with the row it has just written as its
\* current build or with an answer, the invariant holds.
LEMMA SaveStep ==
  ASSUME NEW A \in SUBSET AssetTxns, InvFor(A),
         NEW h \in Handlers, handler[h].pc = "update",
         Matches(handler[h]), WriteRow(handler[h]),
         NEW hd \in Busy,
         handler' = [handler EXCEPT ![h] = hd],
         \/ hd.pc = "replied"
         \/ /\ hd.pc \in {"assets", "update"}
            /\ hd.project = handler[h].project
            /\ hd.version = handler[h].version + 1
            /\ hd.content = Append(handler[h].content, Batch(handler[h])),
         hd.pc = "update" => Batch(hd) \cap A = {}
  PROVE  InvFor(A)'
PROOF
  <1> DEFINE p == handler[h].project
             batch == Batch(handler[h])
  <1>1. /\ p \in Projects /\ batch \in SUBSET Txns
        /\ handler[h].version = version[p] /\ handler[h].content = content[p]
        /\ version' = [version EXCEPT ![p] = @ + 1]
        /\ content' = [content EXCEPT ![p] = Append(@, batch)]
        /\ batch \cap A \subseteq assets[p]
        /\ lastTransactionId' \in [Projects -> Txns \cup {NoTxn}]
        /\ UNCHANGED assets
    BY WriteRowEffect
  <1>2. /\ version \in [Projects -> Nat]
        /\ content \in [Projects -> Seq(SUBSET Txns)]
        /\ assets \in [Projects -> SUBSET Txns]
        /\ handler \in [Handlers -> Busy \cup {Idle}]
    BY DEF InvFor, BPTypeOK
  <1> HIDE DEF p, batch
  <1>3. Append(content[p], batch) \in Seq(SUBSET Txns)
    BY <1>1, <1>2
  <1>4. BPTypeOK'
    BY <1>1, <1>2, <1>3 DEF BPTypeOK
  <1>5. /\ version'[p] = version[p] + 1
        /\ content'[p] = Append(content[p], batch)
        /\ \A q \in Projects \ {p} : version'[q] = version[q] /\ content'[q] = content[q]
    BY <1>1, <1>2
  <1>6. Present(A)'
    <2> SUFFICES ASSUME NEW q \in Projects, NEW i \in DOMAIN content'[q]
                 PROVE  content'[q][i] \cap A \subseteq assets[q]
      BY <1>1 DEF Present
    <2>1. Present(A)
      BY DEF InvFor
    <2>2. CASE q # p
      BY <1>5, <2>1, <2>2 DEF Present
    <2>3. CASE q = p
      <3>1. content[p] \in Seq(SUBSET Txns)
        BY <1>1, <1>2
      <3>2. CASE i = Len(content[p]) + 1
        BY <1>1, <1>5, <2>3, <3>1, <3>2
      <3>3. CASE i # Len(content[p]) + 1
        <4>1. i \in DOMAIN content[p] /\ content'[q][i] = content[p][i]
          BY <1>1, <1>5, <2>3, <3>1, <3>3
        <4> QED
          BY <1>1, <2>1, <2>3, <4>1 DEF Present
      <3> QED
        BY <3>2, <3>3
    <2> QED
      BY <2>2, <2>3
  <1>7. ASSUME NEW k \in Handlers
        PROVE  VersionAsRead(handler[k])' /\ InPlace(A, handler[k])'
    <2>1. CASE k = h
      <3>1. handler'[k] = hd
        BY <1>2, <2>1
      <3>2. CASE hd.pc = "replied"
        BY <3>1, <3>2 DEF VersionAsRead, InPlace
      <3>3. CASE hd.pc # "replied"
        <4>1. hd.project = p /\ hd.version = version'[p] /\ hd.content = content'[p]
          BY <1>1, <1>5, <3>3 DEF p, batch
        <4>2. version'[p] <= version'[p]
          BY <1>1, <1>4 DEF BPTypeOK
        <4>3. VersionAsRead(handler[k])'
          BY <3>1, <4>1, <4>2 DEF VersionAsRead
        <4>4. InPlace(A, handler[k])'
          BY <3>1 DEF InPlace, Batch
        <4> QED
          BY <4>3, <4>4
      <3> QED
        BY <3>2, <3>3
    <2>2. CASE k # h
      <3>1. handler'[k] = handler[k]
        BY <1>2, <2>2
      <3>2. VersionAsRead(handler[k]) /\ InPlace(A, handler[k])
        BY DEF InvFor
      <3>3. handler[k].pc \in {"authorizing", "assets", "update"} =>
              handler[k].project \in Projects /\ handler[k].version \in Nat
        BY <1>2, BusyWhenStarted DEF InvFor, Busy
      <3>4. VersionAsRead(handler[k])'
        BY <1>1, <1>2, <1>5, <3>1, <3>2, <3>3 DEF VersionAsRead, Matches
      <3>5. InPlace(A, handler[k])'
        BY <1>1, <3>1, <3>2 DEF InPlace, Batch
      <3> QED
        BY <3>4, <3>5
    <2> QED
      BY <2>1, <2>2
  <1> QED
    BY <1>4, <1>6, <1>7 DEF InvFor

LEMMA UpdateBuildFailsStep ==
  ASSUME NEW A \in SUBSET AssetTxns, InvFor(A),
         NEW h \in Handlers, UpdateBuildFails(h)
  PROVE  InvFor(A)'
PROOF
  <1>1. /\ handler[h].pc = "update" /\ Matches(handler[h]) /\ WriteRow(handler[h])
        /\ Reply(h, "error", 0, {})
    BY DEF UpdateBuildFails
  <1>2. "error" \in Statuses /\ 0 \in Nat /\ {} \in SUBSET Txns
    BY DEF Statuses
  <1>3. PICK hd \in Busy : hd.pc = "replied" /\ handler' = [handler EXCEPT ![h] = hd]
    BY <1>1, <1>2, ReplyEffect DEF InvFor
  <1> QED
    BY <1>1, <1>3, SaveStep

LEMMA UpdateBuildStep ==
  ASSUME NEW A \in SUBSET AssetTxns, InvFor(A),
         NEW h \in Handlers, UpdateBuild(h)
  PROVE  InvFor(A)'
PROOF
  <1> DEFINE hd0 == handler[h]
             rest == hd0.remaining \ Batch(hd0)
             next == [hd0 EXCEPT !.version = @ + 1,
                                 !.content = Append(@, Batch(hd0)),
                                 !.remaining = rest]
             hd == [next EXCEPT !.pc = StepFor(Batch(next))]
  <1>1. hd0.pc = "update" /\ Matches(hd0) /\ WriteRow(hd0)
    BY DEF UpdateBuild
  <1>2. hd0 \in Busy /\ Batch(hd0) \in SUBSET Txns
    BY <1>1, BusyWhenStarted, BatchTyped DEF InvFor
  <1>3. CASE rest = {}
    <2>1. Reply(h, StatusFor(hd0.failed), hd0.version + 1, Applied(hd0))
      BY <1>3 DEF UpdateBuild
    <2>2. /\ StatusFor(hd0.failed) \in Statuses
          /\ hd0.version + 1 \in Nat
          /\ Applied(hd0) \in SUBSET Txns
      <3>1. StatusFor(hd0.failed) \in Statuses
        BY DEF StatusFor, Statuses
      <3>2. hd0.version \in Nat /\ ToSet(hd0.entries) \subseteq Txns
        BY <1>2, EntriesTyped DEF Busy
      <3> HIDE DEF hd0
      <3> QED
        BY <3>1, <3>2 DEF Applied
    <2>3. PICK r \in Busy : r.pc = "replied" /\ handler' = [handler EXCEPT ![h] = r]
      BY <1>1, <2>1, <2>2, ReplyEffect DEF InvFor
    <2> QED
      BY <1>1, <2>3, SaveStep
  <1>4. CASE rest # {}
    <2>1. handler' = [handler EXCEPT ![h] = hd]
      BY <1>4 DEF UpdateBuild
    <2> DEFINE written == Append(hd0.content, Batch(hd0))
               step == StepFor(Batch(next))
    <2>2. written \in Seq(SUBSET Txns) /\ rest \in SUBSET Txns /\ hd0.version + 1 \in Nat
      BY <1>2 DEF Busy
    <2>3. next = [hd0 EXCEPT !.version = hd0.version + 1, !.content = written,
                             !.remaining = rest]
      BY <1>2 DEF Busy
    <2>4. step \in {"assets", "update"} /\ (step = "update" => Batch(next) \cap A = {})
      BY StepForTyped
    <2>5. hd = [next EXCEPT !.pc = step]
      OBVIOUS
    <2> HIDE DEF rest, written, next, step, hd
    <2>6. /\ next \in Busy
          /\ next.version = hd0.version + 1
          /\ next.content = written
          /\ next.project = hd0.project
      BY <1>2, <2>2, <2>3 DEF Busy
    <2>7. /\ hd \in Busy /\ hd.pc = step
          /\ hd.version = next.version /\ hd.content = next.content
          /\ hd.project = next.project /\ hd.mode = next.mode
          /\ hd.entries = next.entries /\ hd.remaining = next.remaining
      BY <2>4, <2>5, <2>6 DEF Busy
    <2>8. Batch(hd) = Batch(next)
      BY <2>7 DEF Batch
    <2> QED
      BY <1>1, <2>1, <2>4, <2>6, <2>7, <2>8, SaveStep DEF written
  <1> QED
    BY <1>3, <1>4

-----------------------------------------------------------------------------
(* What a step of a handler means for the request it works on.  BPNext is  *)
(* requests and these steps, and so is the server of SinglePlayer.         *)

Works(h) == Serve(h) \/ Falter(h) \/ Respond(h) \/ Vanish(h) \/ Disconnect(h)

LEMMA WorksInv ==
  ASSUME NEW A \in SUBSET AssetTxns, InvFor(A), NEW h \in Handlers, Works(h)
  PROVE  InvFor(A)'
PROOF
  <1>1. CASE Serve(h)
    BY <1>1, LoadBuildStateStep, RejectAllStep, CheckStaleStep, StartPatchStep,
       PatchAssetsStep, UpdateBuildStep, LoseRaceStep DEF Serve
  <1>2. CASE Falter(h)
    BY <1>2, PatchAssetsFailsStep, UpdateBuildFailsStep, RefuseStep DEF Falter
  <1> QED
    BY <1>1, <1>2, FreeStep, DisconnectStep DEF Works

\* A handler works for one request until it is idle again.
SameRequest(hd, new) ==
  /\ new.entries = hd.entries
  /\ new.project = hd.project
  /\ new.clientVersion = hd.clientVersion
  /\ new.client \in {hd.client, NoClient}

\* It has read the row's columns, and knows what of the request it will save.
Patching(hd) == hd.pc \in {"assets", "update"}

\* It starts to: what it will not save was refused or cannot be applied.
Starts(hd, new) ==
  /\ hd.pc = "authorizing"
  /\ hd.clientVersion = hd.version
  /\ Patching(new)
  /\ new.version = hd.version
  /\ new.remaining \subseteq ToSet(hd.entries)
  /\ ToSet(hd.entries) \ new.remaining \subseteq Cyclic \cup Restricted
  /\ new.mode = "batch" \/ ToSet(hd.entries) \cap Cyclic # {}
  /\ new.failed \subseteq Cyclic \cup Restricted

\* It goes on with what it had to save.
ProceedsTo(hd, new) ==
  /\ Patching(hd) /\ Patching(new)
  /\ new.version = hd.version
  /\ new.remaining = hd.remaining
  /\ new.mode = hd.mode
  /\ new.failed = hd.failed

\* It saves the next part of it.
Saves(hd, new) ==
  /\ hd.pc = "update"
  /\ Matches(hd)
  /\ WriteRow(hd)
  /\ new.pc = "replied" \/
       /\ Patching(new)
       /\ new.version = hd.version + 1
       /\ new.remaining = hd.remaining \ Batch(hd)
       /\ new.remaining # {}
       /\ new.mode = hd.mode
       /\ new.failed = hd.failed

\* Answers that tell the client something was saved.
Tells(hd, new) ==
  new.pc = "replied" /\ new.result.status \in {"ok", "partial"} =>
    \/ hd.pc = "replied" /\ new.result = hd.result
    \/ /\ hd.pc = "authorizing"
       /\ new.result.status = "ok"
       /\ lastTransactionId[hd.project] \in ToSet(hd.entries)
       /\ lastTransactionId[hd.project] = hd.entries[Len(hd.entries)]
       /\ new.result.version = hd.version
       /\ UNCHANGED row
    \/ /\ Saves(hd, new)
       /\ hd.remaining \subseteq Batch(hd)
       /\ new.result.status = StatusFor(hd.failed)
       /\ new.result.version = hd.version + 1
    \/ /\ new.result.status = "partial"
       /\ ToSet(hd.entries) \cap (Cyclic \cup Restricted) # {}

\* A step of the handler's own, in these words.
Progress(h) ==
  LET hd == handler[h]
      new == handler'[h]
  IN  /\ \A k \in Handlers \ {h} : handler'[k] = handler[k]
      /\ \/ new = Idle /\ UNCHANGED row
         \/ /\ hd \in Busy /\ new \in Busy
            /\ SameRequest(hd, new)
            /\ Tells(hd, new)
            /\ \/ UNCHANGED row /\ (Patching(new) => ProceedsTo(hd, new) \/ Starts(hd, new))
               \/ Saves(hd, new)

\* An answer belongs to the request, whatever it says.
LEMMA ReplyShape ==
  ASSUME BPTypeOK, NEW h \in Handlers, handler[h].pc # "idle",
         NEW status \in Statuses, NEW v \in Nat, NEW accepted \in SUBSET Txns,
         Reply(h, status, v, accepted)
  PROVE  /\ \A k \in Handlers \ {h} : handler'[k] = handler[k]
         /\ handler[h] \in Busy /\ handler'[h] \in Busy
         /\ handler'[h].pc = "replied"
         /\ SameRequest(handler[h], handler'[h])
         /\ handler'[h].result = [status |-> status, version |-> v, accepted |-> accepted]
PROOF
  <1> DEFINE r == [status |-> status, version |-> v, accepted |-> accepted]
             hd == [handler[h] EXCEPT !.pc = "replied", !.version = 0, !.content = <<>>,
                      !.mode = "batch", !.remaining = {}, !.failed = {}, !.result = r]
  <1>1. handler[h] \in Busy
    BY BusyWhenStarted
  <1>2. /\ handler' \in [Handlers -> Busy \cup {Idle}]
        /\ handler'[h].pc = "replied"
        /\ \A k \in Handlers \ {h} : handler'[k] = handler[k]
    BY <1>1, ReplyTyped
  <1>3. handler'[h] = hd
    BY DEF Reply, BPTypeOK
  <1>4. handler'[h] \in Busy
    BY <1>2 DEF Idle
  <1>5. hd.entries = handler[h].entries /\ hd.project = handler[h].project
        /\ hd.clientVersion = handler[h].clientVersion /\ hd.result = r
        /\ hd.client = handler[h].client
    <2> HIDE DEF r
    <2> QED
      BY <1>1 DEF Busy
  <1> QED
    BY <1>1, <1>2, <1>3, <1>4, <1>5 DEF SameRequest

\* An answer that says nothing was saved, when nothing is.
LEMMA QuietProgress ==
  ASSUME BPTypeOK, NEW h \in Handlers, handler[h].pc # "idle",
         NEW status \in Statuses \ {"ok", "partial"}, Reply(h, status, 0, {}),
         UNCHANGED row
  PROVE  Progress(h)
PROOF
  <1>1. 0 \in Nat /\ {} \in SUBSET Txns /\ status \in Statuses
    OBVIOUS
  <1>2. /\ \A k \in Handlers \ {h} : handler'[k] = handler[k]
        /\ handler[h] \in Busy /\ handler'[h] \in Busy
        /\ handler'[h].pc = "replied"
        /\ SameRequest(handler[h], handler'[h])
        /\ handler'[h].result = [status |-> status, version |-> 0, accepted |-> {}]
    BY <1>1, ReplyShape, ZenonT(60)
  <1>3. handler'[h].result.status = status
    BY <1>2
  <1> QED
    BY <1>2, <1>3 DEF Progress, Tells, Patching

\* What comes last of all the entries is the last entry.
LEMMA LatestIsLast ==
  ASSUME NEW es \in Seq(Txns), NEW y \in LatestOf(es, ToSet(es))
  PROVE  y = es[Len(es)]
PROOF
  <1>1. PICK i \in DOMAIN es : y = es[i] /\ \A k \in (i+1)..Len(es) : es[k] \notin ToSet(es)
    BY DEF LatestOf
  <1>2. \A k \in DOMAIN es : es[k] \in ToSet(es)
    BY DEF ToSet
  <1>3. i \in 1..Len(es) /\ Len(es) \in Nat
    BY <1>1
  <1>4. CASE i # Len(es)
    BY <1>1, <1>2, <1>3, <1>4
  <1> QED
    BY <1>1, <1>4

LEMMA WorksProgress ==
  ASSUME InvFor({}), NEW h \in Handlers, Works(h)
  PROVE  Progress(h)
PROOF
  <1> DEFINE hd == handler[h]
             new == handler'[h]
  <1>1. BPTypeOK /\ handler \in [Handlers -> Busy \cup {Idle}]
    BY DEF InvFor, BPTypeOK
  <1>2. hd.pc # "idle" => hd \in Busy /\ hd.entries \in Seq(Txns) /\ ToSet(hd.entries) \subseteq Txns
                          /\ ToSet(hd.entries) # {}
    <2> SUFFICES ASSUME hd.pc # "idle"
                 PROVE  hd \in Busy /\ hd.entries \in Seq(Txns) /\ ToSet(hd.entries) \subseteq Txns
                        /\ ToSet(hd.entries) # {}
      OBVIOUS
    <2>1. hd \in Busy
      BY <1>1, BusyWhenStarted
    <2>2. hd.entries \in Seq(Txns) /\ hd.entries # <<>>
      BY <2>1 DEF Busy
    <2>3. 1 \in DOMAIN hd.entries
      BY <2>2
    <2>4. ToSet(hd.entries) # {}
      BY <2>3 DEF ToSet
    <2> QED
      BY <2>1, <2>2, <2>4, EntriesTyped
  <1>3. CASE LoadBuildState(h)
    <2>1. hd \in Busy /\ new = [hd EXCEPT !.pc = "authorizing", !.version = version[hd.project]]
      BY <1>1, <1>2, <1>3 DEF LoadBuildState
    <2>2. version[hd.project] \in Nat
      BY <1>1, <2>1 DEF BPTypeOK, Busy
    <2>3. new \in Busy /\ SameRequest(hd, new) /\ new.pc = "authorizing"
      BY <2>1, <2>2 DEF SameRequest, Busy
    <2>4. UNCHANGED row /\ \A k \in Handlers \ {h} : handler'[k] = handler[k]
      BY <1>1, <1>3 DEF LoadBuildState, row
    <2> QED
      BY <2>1, <2>3, <2>4 DEF Progress, Tells, Patching
  <1>4. CASE RejectAll(h)
    <2>1. /\ hd.version \in Nat /\ hd.pc = "authorizing" /\ hd \in Busy
          /\ "partial" \in Statuses /\ {} \in SUBSET Txns
      BY <1>2, <1>4 DEF RejectAll, Busy, Statuses
    <2>2. Reply(h, "partial", hd.version, {}) /\ UNCHANGED row
      BY <1>4 DEF RejectAll, row
    <2>3. ToSet(hd.entries) \cap (Cyclic \cup Restricted) # {}
      BY <1>2, <1>4, <2>1 DEF RejectAll
    <2>4. /\ \A k \in Handlers \ {h} : handler'[k] = handler[k]
          /\ hd \in Busy /\ new \in Busy
          /\ new.pc = "replied"
          /\ SameRequest(hd, new)
          /\ new.result = [status |-> "partial", version |-> hd.version, accepted |-> {}]
      BY <1>1, <2>1, <2>2, ReplyShape
    <2>5. new.result.status = "partial"
      BY <2>4
    <2> QED
      BY <2>2, <2>3, <2>4, <2>5 DEF Progress, Tells, Patching
  <1>5. CASE CheckStale(h)
    <2>1. hd.version \in Nat /\ hd.pc = "authorizing" /\ ToSet(hd.entries) \subseteq Txns
      BY <1>2, <1>5 DEF CheckStale, Busy
    <2>2. UNCHANGED row
      BY <1>5 DEF CheckStale, row
    <2>3. PICK rejected \in SUBSET (ToSet(hd.entries) \cap Restricted) :
            \/ /\ lastTransactionId[hd.project] \in LatestOf(hd.entries, ToSet(hd.entries) \ rejected)
               /\ Reply(h, StatusFor(rejected), hd.version, ToSet(hd.entries) \ rejected)
            \/ Reply(h, "version_mismatched", 0, {})
      BY <1>5 DEF CheckStale
    <2>4. CASE Reply(h, "version_mismatched", 0, {})
      <3>1. "version_mismatched" \in Statuses \ {"ok", "partial"}
        BY DEF Statuses
      <3> QED
        BY <1>1, <2>1, <2>2, <2>4, <3>1, QuietProgress
    <2>5. CASE /\ lastTransactionId[hd.project] \in LatestOf(hd.entries, ToSet(hd.entries) \ rejected)
               /\ Reply(h, StatusFor(rejected), hd.version, ToSet(hd.entries) \ rejected)
      <3>1. StatusFor(rejected) \in Statuses /\ ToSet(hd.entries) \ rejected \in SUBSET Txns
        BY <2>1 DEF StatusFor, Statuses
      <3>2. /\ \A k \in Handlers \ {h} : handler'[k] = handler[k]
            /\ hd \in Busy /\ new \in Busy
            /\ new.pc = "replied"
            /\ SameRequest(hd, new)
            /\ new.result = [status |-> StatusFor(rejected), version |-> hd.version,
                             accepted |-> ToSet(hd.entries) \ rejected]
        BY <1>1, <2>1, <2>5, <3>1, ReplyShape
      <3>3. new.result.status = StatusFor(rejected) /\ new.result.version = hd.version
        BY <3>2
      <3>4. LatestOf(hd.entries, ToSet(hd.entries) \ rejected) \subseteq ToSet(hd.entries)
        BY <1>2, <2>1, EntriesTyped
      <3>5. StatusFor(rejected) = "partial" => ToSet(hd.entries) \cap (Cyclic \cup Restricted) # {}
        BY DEF StatusFor
      <3>6. StatusFor(rejected) \in {"ok", "partial"}
        BY DEF StatusFor
      <3>7. StatusFor(rejected) = "ok" => lastTransactionId[hd.project] = hd.entries[Len(hd.entries)]
        <4> SUFFICES ASSUME StatusFor(rejected) = "ok"
                     PROVE  lastTransactionId[hd.project] = hd.entries[Len(hd.entries)]
          OBVIOUS
        <4>1. ToSet(hd.entries) \ rejected = ToSet(hd.entries)
          BY DEF StatusFor
        <4> QED
          BY <1>2, <2>1, <2>5, <4>1, LatestIsLast
      <3>8. Tells(hd, new)
        BY <2>1, <2>2, <2>5, <3>3, <3>4, <3>5, <3>6, <3>7 DEF Tells
      <3> QED
        BY <2>2, <3>2, <3>8 DEF Progress, Patching
    <2> QED
      BY <2>3, <2>4, <2>5
  <1>6. CASE StartPatch(h)
    <2>1. /\ hd.version \in Nat /\ hd.pc = "authorizing" /\ hd.clientVersion = hd.version
          /\ hd \in Busy /\ hd.project \in Projects
          /\ ToSet(hd.entries) \subseteq Txns
      BY <1>2, <1>6 DEF StartPatch, Busy
    <2>2. UNCHANGED row
      BY <1>6 DEF StartPatch, row
    <2>3. PICK rejected \in SUBSET (ToSet(hd.entries) \cap Restricted) :
            LET authorized == ToSet(hd.entries) \ rejected
                started == [hd EXCEPT
                  !.content = content[hd.project],
                  !.mode = IF authorized \cap Cyclic = {} THEN "batch" ELSE "entries",
                  !.remaining = authorized \ Cyclic,
                  !.failed = rejected \cup (authorized \cap Cyclic)]
            IN /\ authorized # {}
               /\ IF started.remaining = {}
                    THEN Reply(h, "partial", hd.version, {})
                    ELSE handler' = [handler EXCEPT ![h] =
                           [started EXCEPT !.pc = StepFor(Batch(started))]]
      BY <1>6 DEF StartPatch
    <2> DEFINE authorized == ToSet(hd.entries) \ rejected
               rest == authorized \ Cyclic
               failed == rejected \cup (authorized \cap Cyclic)
               mode == IF authorized \cap Cyclic = {} THEN "batch" ELSE "entries"
               started == [hd EXCEPT !.content = content[hd.project],
                             !.mode = mode, !.remaining = rest, !.failed = failed]
    <2>4. rest \in SUBSET Txns /\ failed \in SUBSET Txns /\ mode \in {"batch", "entries"}
      BY <2>1
    <2>5. content[hd.project] \in Seq(SUBSET Txns)
      BY <1>1, <2>1 DEF BPTypeOK
    <2>6. started.remaining = rest
      BY <2>1 DEF Busy
    <2>7. CASE rest = {}
      <3>1. Reply(h, "partial", hd.version, {}) /\ "partial" \in Statuses /\ {} \in SUBSET Txns
        BY <2>3, <2>6, <2>7 DEF Statuses
      <3>2. /\ \A k \in Handlers \ {h} : handler'[k] = handler[k]
            /\ hd \in Busy /\ new \in Busy
            /\ new.pc = "replied"
            /\ SameRequest(hd, new)
            /\ new.result = [status |-> "partial", version |-> hd.version, accepted |-> {}]
        BY <1>1, <2>1, <3>1, ReplyShape
      <3>3. new.result.status = "partial"
        BY <3>2
      <3>4. ToSet(hd.entries) \cap (Cyclic \cup Restricted) # {}
        BY <2>3, <2>7
      <3> QED
        BY <2>2, <3>2, <3>3, <3>4 DEF Progress, Tells, Patching
    <2>8. CASE rest # {}
      <3> DEFINE step == StepFor(Batch(started))
      <3>1. handler' = [handler EXCEPT ![h] = [started EXCEPT !.pc = step]]
        BY <2>3, <2>6, <2>8
      <3>2. step \in {"assets", "update"}
        BY StepForTyped
      <3>3. rest \subseteq ToSet(hd.entries) /\ ToSet(hd.entries) \ rest \subseteq Cyclic \cup Restricted
            /\ failed \subseteq Cyclic \cup Restricted
            /\ (mode = "batch" \/ ToSet(hd.entries) \cap Cyclic # {})
        OBVIOUS
      <3> HIDE DEF step, rest, failed, mode, authorized
      <3>4. new = [started EXCEPT !.pc = step] /\ \A k \in Handlers \ {h} : handler'[k] = handler[k]
        BY <1>1, <3>1
      <3>5. started \in Busy /\ started.mode = mode /\ started.remaining = rest
            /\ started.failed = failed /\ started.version = hd.version
            /\ SameRequest(hd, started)
        BY <2>1, <2>4, <2>5 DEF Busy, SameRequest
      <3> HIDE DEF started
      <3>6. /\ new \in Busy /\ new.pc = step
            /\ new.mode = mode /\ new.remaining = rest /\ new.failed = failed
            /\ new.version = hd.version
            /\ SameRequest(hd, new)
        BY <3>2, <3>4, <3>5 DEF Busy, SameRequest
      <3>7. Starts(hd, new) /\ Tells(hd, new)
        BY <2>1, <3>2, <3>3, <3>6 DEF Starts, Tells, Patching
      <3> QED
        BY <2>1, <2>2, <3>4, <3>6, <3>7 DEF Progress
    <2> QED
      BY <2>7, <2>8
  <1>7. CASE PatchAssets(h) \/ Disconnect(h)
    <2>1. hd \in Busy /\ new \in {[hd EXCEPT !.pc = "update"], [hd EXCEPT !.client = NoClient]}
          /\ (new = [hd EXCEPT !.client = NoClient] \/ hd.pc = "assets")
          /\ \A k \in Handlers \ {h} : handler'[k] = handler[k]
      BY <1>1, <1>2, <1>7 DEF PatchAssets, Disconnect
    <2>2. /\ new \in Busy /\ SameRequest(hd, new)
          /\ new.pc = hd.pc \/ (hd.pc = "assets" /\ new.pc = "update")
          /\ new.result = hd.result /\ new.version = hd.version /\ new.remaining = hd.remaining
          /\ new.mode = hd.mode /\ new.failed = hd.failed
      <3>0. hd \in Busy
        BY <2>1
      <3> HIDE DEF hd, new
      <3>1. CASE new = [hd EXCEPT !.client = NoClient]
        BY <3>0, <3>1 DEF SameRequest, Busy
      <3>2. CASE new = [hd EXCEPT !.pc = "update"] /\ hd.pc = "assets"
        BY <2>1, <3>2 DEF SameRequest, Busy
      <3> QED
        BY <2>1, <3>1, <3>2
    <2>3. UNCHANGED row
      BY <1>7 DEF PatchAssets, Disconnect, row
    <2> QED
      BY <2>1, <2>2, <2>3 DEF Progress, Tells, Patching, ProceedsTo
  <1>8. CASE UpdateBuild(h)
    <2> DEFINE rest == hd.remaining \ Batch(hd)
               next == [hd EXCEPT !.version = @ + 1,
                                  !.content = Append(@, Batch(hd)),
                                  !.remaining = rest]
               step == StepFor(Batch(next))
    <2>1. /\ hd.pc = "update" /\ Matches(hd) /\ WriteRow(hd)
          /\ hd \in Busy /\ hd.version \in Nat /\ hd.version + 1 \in Nat
          /\ ToSet(hd.entries) \subseteq Txns
          /\ Batch(hd) \in SUBSET Txns
      BY <1>2, <1>8, BatchTyped DEF UpdateBuild, Busy
    <2>2. CASE rest = {}
      <3>1. Reply(h, StatusFor(hd.failed), hd.version + 1, Applied(hd))
        BY <1>8, <2>2 DEF UpdateBuild
      <3>2. StatusFor(hd.failed) \in Statuses /\ Applied(hd) \in SUBSET Txns
        <4>1. StatusFor(hd.failed) \in Statuses
          BY DEF StatusFor, Statuses
        <4> HIDE DEF hd
        <4> QED
          BY <2>1, <4>1 DEF Applied
      <3>3. /\ \A k \in Handlers \ {h} : handler'[k] = handler[k]
            /\ hd \in Busy /\ new \in Busy
            /\ new.pc = "replied"
            /\ SameRequest(hd, new)
            /\ new.result = [status |-> StatusFor(hd.failed), version |-> hd.version + 1,
                             accepted |-> Applied(hd)]
        BY <1>1, <2>1, <3>1, <3>2, ReplyShape
      <3>4. new.result.status = StatusFor(hd.failed) /\ new.result.version = hd.version + 1
        BY <3>3
      <3>5. Saves(hd, new) /\ hd.remaining \subseteq Batch(hd)
        BY <2>1, <2>2, <3>3 DEF Saves
      <3>6. Tells(hd, new)
        BY <3>4, <3>5 DEF Tells
      <3> QED
        BY <3>3, <3>5, <3>6 DEF Progress
    <2>3. CASE rest # {}
      <3>1. handler' = [handler EXCEPT ![h] = [next EXCEPT !.pc = step]]
        BY <1>8, <2>3 DEF UpdateBuild
      <3>2. step \in {"assets", "update"}
        BY StepForTyped
      <3> DEFINE written == Append(hd.content, Batch(hd))
      <3>3. written \in Seq(SUBSET Txns) /\ rest \in SUBSET Txns
        BY <2>1 DEF Busy
      <3>4. next = [hd EXCEPT !.version = hd.version + 1, !.content = written,
                              !.remaining = rest]
        BY <2>1 DEF Busy
      <3> HIDE DEF step, written, next
      <3>5. new = [next EXCEPT !.pc = step] /\ \A k \in Handlers \ {h} : handler'[k] = handler[k]
        BY <1>1, <3>1
      <3>6. /\ next \in Busy /\ next.version = hd.version + 1 /\ next.remaining = rest
            /\ next.mode = hd.mode /\ next.failed = hd.failed
            /\ SameRequest(hd, next)
        BY <2>1, <3>3, <3>4 DEF Busy, SameRequest
      <3>7. /\ new \in Busy /\ new.pc = step
            /\ new.version = hd.version + 1 /\ new.remaining = rest
            /\ new.mode = hd.mode /\ new.failed = hd.failed
            /\ SameRequest(hd, new)
        BY <3>2, <3>5, <3>6 DEF Busy, SameRequest
      <3>8. Saves(hd, new) /\ Tells(hd, new)
        BY <2>1, <2>3, <3>2, <3>7 DEF Saves, Tells, Patching
      <3> QED
        BY <2>1, <3>5, <3>7, <3>8 DEF Progress
    <2> QED
      BY <2>2, <2>3
  <1>9. CASE UpdateBuildFails(h)
    <2>1. /\ hd.pc = "update" /\ Matches(hd) /\ WriteRow(hd) /\ Reply(h, "error", 0, {})
          /\ "error" \in Statuses /\ 0 \in Nat /\ {} \in SUBSET Txns
      BY <1>9 DEF UpdateBuildFails, Statuses
    <2>2. /\ \A k \in Handlers \ {h} : handler'[k] = handler[k]
          /\ hd \in Busy /\ new \in Busy
          /\ new.pc = "replied"
          /\ SameRequest(hd, new)
          /\ new.result = [status |-> "error", version |-> 0, accepted |-> {}]
      BY <1>1, <2>1, ReplyShape
    <2>3. new.result.status = "error"
      BY <2>2
    <2> QED
      BY <2>1, <2>2, <2>3 DEF Progress, Tells, Saves
  <1>10. CASE LoseRace(h) \/ PatchAssetsFails(h) \/ TurnAway(h) \/ Throw(h)
    <2>1. PICK status \in {"version_mismatched", "error", "authorization_error", "outdated"} :
            Reply(h, status, 0, {})
      BY <1>10 DEF LoseRace, PatchAssetsFails, TurnAway, Throw
    <2>2. status \in Statuses \ {"ok", "partial"} /\ UNCHANGED row /\ hd.pc # "idle"
      BY <1>10 DEF Statuses, LoseRace, PatchAssetsFails, TurnAway, Throw, row
    <2> QED
      BY <1>1, <2>1, <2>2, QuietProgress
  <1>11. CASE Respond(h) \/ Vanish(h)
    BY <1>1, <1>11 DEF Respond, Vanish, Progress, row
  <1> QED
    BY <1>3, <1>4, <1>5, <1>6, <1>7, <1>8, <1>9, <1>10, <1>11 DEF Works, Serve, Falter

\* What a handler may turn into while the row stays.
Calm(h) ==
  LET hd == handler[h]
      new == handler'[h]
  IN  \/ new = Idle
      \/ /\ hd \in Busy /\ new \in Busy
         /\ SameRequest(hd, new)
         /\ Tells(hd, new)
         /\ Patching(new) => ProceedsTo(hd, new) \/ Starts(hd, new)

LEMMA StillCalm ==
  ASSUME BPTypeOK, NEW h \in Handlers, handler'[h] = handler[h]
  PROVE  Calm(h)
PROOF
  <1>1. handler[h] \in Busy \cup {Idle}
    BY DEF BPTypeOK
  <1> QED
    BY <1>1 DEF Calm, SameRequest, Tells, ProceedsTo

\* A handler saves, and all others stay, or the row does.
LEMMA CalmOrSaves ==
  ASSUME InvFor({}), NEW h \in Handlers, Works(h)
  PROVE  \/ UNCHANGED row /\ \A k \in Handlers : Calm(k)
         \/ /\ handler[h] \in Busy /\ handler'[h] \in Busy
            /\ SameRequest(handler[h], handler'[h])
            /\ Tells(handler[h], handler'[h])
            /\ Saves(handler[h], handler'[h])
            /\ \A k \in Handlers \ {h} : handler'[k] = handler[k]
PROOF
  <1>1. Progress(h) /\ BPTypeOK
    BY WorksProgress DEF InvFor
  <1>2. \A k \in Handlers \ {h} : handler'[k] = handler[k] /\ Calm(k)
    BY <1>1, StillCalm DEF Progress
  <1> QED
    BY <1>1, <1>2 DEF Progress, Calm

\* A page that goes takes its connections with it, and nothing of what the server
\* has in hand.
LEMMA ClientsGone ==
  ASSUME NEW A \in SUBSET AssetTxns, InvFor(A), NEW G \in SUBSET Handlers,
         \A h \in G : handler[h] # Idle,
         handler' = [h \in Handlers |-> IF h \in G THEN [handler[h] EXCEPT !.client = NoClient]
                                        ELSE handler[h]],
         UNCHANGED <<version, lastTransactionId, content, assets>>
  PROVE  InvFor(A)' /\ UNCHANGED row /\ \A h \in Handlers : Calm(h)
PROOF
  <1>1. BPTypeOK /\ handler \in [Handlers -> Busy \cup {Idle}]
    BY DEF InvFor, BPTypeOK
  <1>2. ASSUME NEW h \in Handlers
        PROVE  /\ handler'[h] \in Busy \cup {Idle}
               /\ Calm(h)
               /\ VersionAsRead(handler[h])' /\ InPlace(A, handler[h])'
    <2>1. VersionAsRead(handler[h]) /\ InPlace(A, handler[h])
      BY DEF InvFor
    <2>2. CASE h \notin G
      <3>1. handler'[h] = handler[h]
        BY <2>2
      <3> QED
        BY <1>1, <2>1, <3>1, StillCalm DEF VersionAsRead, InPlace, Matches
    <2>3. CASE h \in G
      <3> DEFINE hd == handler[h]
                 gone == [hd EXCEPT !.client = NoClient]
      <3>1. hd \in Busy /\ handler'[h] = gone
        BY <1>1, <2>3
      <3>2. gone \in Busy
        BY <3>1 DEF Busy
      <3>3. /\ gone.entries = hd.entries /\ gone.project = hd.project
            /\ gone.clientVersion = hd.clientVersion /\ gone.pc = hd.pc
            /\ gone.client = NoClient
            /\ gone.result = hd.result /\ gone.version = hd.version
            /\ gone.content = hd.content
            /\ gone.remaining = hd.remaining /\ gone.mode = hd.mode /\ gone.failed = hd.failed
        BY <3>1 DEF Busy
      <3> HIDE DEF gone
      <3>4. Calm(h)
        BY <3>1, <3>2, <3>3 DEF Calm, SameRequest, Tells, ProceedsTo, Patching
      <3>5. /\ gone.pc \in {"authorizing", "assets", "update"} => gone.version <= version[gone.project]
            /\ gone.pc \in {"assets", "update"} /\ version[gone.project] = gone.version =>
                 gone.content = content[gone.project]
        BY <2>1, <3>3 DEF VersionAsRead, Matches
      <3>6. Batch(gone) = Batch(hd)
        BY <3>3 DEF Batch
      <3>7. gone.pc = "update" => Batch(gone) \cap A \subseteq assets[gone.project]
        BY <2>1, <3>3, <3>6 DEF InPlace
      <3> QED
        <4>1. handler[h]' = gone /\ version' = version /\ content' = content /\ assets' = assets
          BY <3>1
        <4>2. VersionAsRead(handler[h])'
          BY <3>5, <4>1 DEF VersionAsRead, Matches
        <4>4. InPlace(A, handler[h])'
          BY <3>7, <4>1 DEF InPlace
        <4> QED
          BY <3>1, <3>2, <3>4, <4>2, <4>4
    <2> QED
      BY <2>2, <2>3
  <1>3. BPTypeOK' /\ Present(A)' /\ UNCHANGED row
    BY <1>1, <1>2 DEF InvFor, BPTypeOK, Present, row
  <1> QED
    BY <1>2, <1>3 DEF InvFor

-----------------------------------------------------------------------------
(* The theorems. *)

\* One step per action of the module.
LEMMA BPNextInv ==
  ASSUME NEW A \in SUBSET AssetTxns, InvFor(A), [BPNext]_bpVars
  PROVE  InvFor(A)'
PROOF
  <1>1. CASE UNCHANGED bpVars
    BY <1>1 DEF bpVars, InvFor, BPTypeOK, Present, VersionAsRead, InPlace, Matches, Batch
  <1>2. CASE BPNext
    <2>1. PICK h \in Handlers :
            \/ \E c \in Clients, p \in Projects, es \in Requests :
                 \E v \in 0..version[p] : v < MaxVersion /\ Request(h, c, p, es, v)
            \/ Serve(h)
            \/ Falter(h)
            \/ Respond(h)
            \/ Disconnect(h)
            \/ Vanish(h)
      BY <1>2 DEF BPNext
    <2>2. CASE \E c \in Clients, p \in Projects, es \in Requests :
                 \E v \in 0..version[p] : v < MaxVersion /\ Request(h, c, p, es, v)
      <3>1. PICK c \in Clients, p \in Projects, es \in Requests :
              \E v \in 0..version[p] : v < MaxVersion /\ Request(h, c, p, es, v)
        BY <2>2
      <3>2. PICK v \in 0..version[p] : Request(h, c, p, es, v)
        BY <3>1
      <3>3. es \in Seq(Txns) \ {<<>>} /\ v \in Nat
        BY DEF InvFor, BPTypeOK
      <3> QED
        BY <3>2, <3>3, RequestStep
    <2> QED
      BY <2>1, <2>2, WorksInv DEF Works
  <1> QED
    BY <1>1, <1>2

\* The inductive invariant: what every handler believes about the row is true
\* for as long as its compare-and-set can succeed.
THEOREM BPInvariant == BPSpec => []BPInv
PROOF
  <1>1. BPInit => BPInv
    BY BPInitInv, InvForAll
  <1>2. BPInv /\ [BPNext]_bpVars => BPInv'
    BY BPNextInv, InvForAll
  <1> QED
    BY <1>1, <1>2, PTL DEF BPSpec

\* Every variable stays in its type, for any number of requests in the server.
THEOREM BPTypeCorrect == BPSpec => []BPTypeOK
PROOF
  <1>1. BPInv => BPTypeOK
    BY DEF BPInv
  <1> QED
    BY <1>1, BPInvariant, PTL

\* The assets of a saved transaction are in the asset tables, whatever other
\* requests did meanwhile and whichever of them failed.
THEOREM AssetsCorrect == BPSpec => []AssetsBeforeBuild
PROOF
  <1>1. BPInv => AssetsBeforeBuild
    BY DEF BPInv
  <1> QED
    BY <1>1, BPInvariant, PTL

\* The update that wins the compare-and-set is a Save of the log.
LEMMA WriteIsSave ==
  ASSUME InvFor({}), NEW h \in Handlers, handler[h].pc = "update",
         Matches(handler[h]), WriteRow(handler[h])
  PROVE  Log!LogNext
PROOF
  <1>1. PICK p \in Projects, batch \in SUBSET Txns :
          /\ version' = [version EXCEPT ![p] = @ + 1]
          /\ content' = [content EXCEPT ![p] = Append(@, batch)]
    BY WriteRowEffect
  <1> QED
    BY <1>1 DEF Log!LogNext, Log!Save

\* Every other step leaves the log as it is.
LEMMA StepImplementsLog ==
  InvFor({}) /\ [BPNext]_bpVars => [Log!LogNext]_(Log!logVars)
PROOF
  <1> SUFFICES ASSUME InvFor({}), [BPNext]_bpVars
               PROVE  Log!LogNext \/ UNCHANGED <<version, content>>
    BY DEF Log!logVars
  <1>1. CASE UNCHANGED bpVars
    BY <1>1 DEF bpVars
  <1>2. CASE BPNext
    <2>1. PICK h \in Handlers :
            \/ \E c \in Clients, p \in Projects, es \in Requests :
                 \E v \in 0..version[p] : v < MaxVersion /\ Request(h, c, p, es, v)
            \/ Serve(h)
            \/ Falter(h)
            \/ Respond(h)
            \/ Disconnect(h)
            \/ Vanish(h)
      BY <1>2 DEF BPNext
    <2>2. CASE UpdateBuild(h) \/ UpdateBuildFails(h)
      BY <2>2, WriteIsSave DEF UpdateBuild, UpdateBuildFails
    <2>3. CASE ~(UpdateBuild(h) \/ UpdateBuildFails(h))
      BY <2>1, <2>3 DEF Serve, Falter, Request, LoadBuildState, RejectAll, CheckStale,
                        StartPatch, PatchAssets, PatchAssetsFails, LoseRace, TurnAway,
                        Throw, Respond, Disconnect, Vanish, row
    <2> QED
      BY <2>2, <2>3
  <1> QED
    BY <1>1, <1>2

\* The row is an append-only log of batches with one version each, although the
\* columns are read, computed and written outside any transaction: no save ever
\* drops what another one wrote.
THEOREM ImplementsLog == BPSpec => BuildLogSpec
PROOF
  <1>1. BPInit => Log!LogInit
    BY DEF BPInit, Log!LogInit
  <1>2. BPInv => InvFor({})
    BY DEF BPInv, InvFor, Present, InPlace
  <1>3. BPInv /\ [BPNext]_bpVars => [Log!LogNext]_(Log!logVars)
    BY <1>2, StepImplementsLog
  <1> QED
    BY <1>1, <1>3, BPInvariant, PTL DEF BPSpec, BuildLogSpec, Log!LogSpec
=============================================================================
