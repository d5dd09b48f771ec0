------------------------ MODULE MultiplayerSyncProofs ------------------------
(***************************************************************************)
(* Proofs about MultiplayerSync, for any number of edits and faults: what  *)
(* the page is told is durable was saved, an idle status hides no edit,    *)
(* and edits reach the log in the order they were made.                    *)
(***************************************************************************)
EXTENDS MultiplayerSync, FiniteSetTheorems, WellFoundedInduction, TLAPS

USE MultiplayerAssumption

-----------------------------------------------------------------------------
(* The inductive invariant. *)

Made == 1..clientSeq

\* The relay sequences a transaction once, and what it worked on it saved or refused.
LogFits ==
  /\ \A i, j \in 1..Len(log) : log[i] = log[j] => i = j
  /\ \A n \in 1..persisted : log[n] \in saved \cup refused

\* Nothing is under way or known of an edit that was not made.
OnlyMade ==
  /\ ToSet(up) \cup ToSet(buffer) \cup pending \cup lost \subseteq Made
  /\ (ToSet(log) \cup refused) \cap Txns \subseteq Made

\* What the socket keeps and carries, and what a stopped tracker still holds.
SocketFits ==
  /\ socket \in {"none", "connecting"} => up = <<>>
  /\ socket \in {"none", "open"} => buffer = <<>>
  /\ socket = "none" => clientSeq = 0
  /\ socket = "closed" => stopped
  /\ stopped => pending = {}

\* What a message on its way to the page says is so.
TrueMessage(m) ==
  /\ m.type = "broadcast" => m.seq \in 1..Len(log) /\ log[m.seq] = m.txn
  /\ m.type = "applied" =>
       IF m.status = "settled" THEN m.seq \in 1..Len(log) /\ log[m.seq] = m.txn
                               ELSE m.txn \in refused
  /\ m.type = "ack" => m.seq <= persisted
  /\ m.type = "error" => m.txn \in turnedAway

\* So is what the tracker has learnt: a place in the log, how far it is acked, and
\* whose timer is set.
TrackerFits ==
  /\ \A x \in Txns : seq[x] # 0 => seq[x] \in 1..Len(log) /\ log[seq[x]] = x
  /\ lastAckSeq <= persisted
  /\ timer \subseteq ToSet(log) \cup turnedAway
  /\ syncStatus = IF pending = {} THEN "idle" ELSE "syncing"

MessagesTrue == \A m \in ToSet(down) : TrueMessage(m)

\* m takes x from the tracker without calling it durable.
Refusal(m, x) ==
  \/ m.type = "reload"
  \/ m.type = "applied" /\ m.txn = x /\ m.status # "settled"

\* No ack has covered place n, nor will one before x is taken.
Warned(n, x) ==
  /\ lastAckSeq < n
  /\ \E i \in DOMAIN down :
       /\ Refusal(down[i], x)
       /\ \A j \in DOMAIN down : j < i /\ down[j].type = "ack" => down[j].seq < n

\* A pending apply that was refused in the log is told so before any ack covers its
\* place, unless a connection took that answer.
RefusalsFirst ==
  \A n \in 1..Len(log) : log[n] \in (refused \cap pending) \ missed => Warned(n, log[n])

\* An edit that left the tracker was sequenced or refused.
EditsAccounted ==
  ~stopped => \A x \in Made :
    /\ x \in pending \/ fate[x] \in {"durable", "refused"}
    /\ x \in pending \cup ToSet(log) \cup refused

\* An edit the relay has neither refused nor turned away and no connection has taken
\* is in its log or on its way there.
EditsOnTheirWay ==
  ~stopped => \A x \in Made :
    x \in ToSet(log) \cup ToSet(up) \cup ToSet(buffer) \cup lost \cup turnedAway \cup refused

\* Every y in s comes after an x.
Leads(s, x, y) ==
  \A j \in DOMAIN s : s[j] = y => \E i \in DOMAIN s : i < j /\ s[i] = x

\* On their way and in the log, x comes before y.
Before(x, y) ==
  /\ Leads(log, x, y)
  /\ x \in ToSet(log) \/ Leads(up, x, y)
  /\ x \in ToSet(log) \cup ToSet(up) \/ Leads(buffer, x, y)

\* x may come after y.
Detained(x, y) ==
  x \in turnedAway \cup refused \cup (IF y \in lost \ turnedAway THEN {} ELSE lost)

InTheirOrder == \A x, y \in Txns : x < y /\ ~Detained(x, y) => Before(x, y)

MSInv ==
  /\ TypeOK
  /\ LogFits
  /\ OnlyMade
  /\ SocketFits
  /\ TrackerFits
  /\ MessagesTrue
  /\ RefusalsFirst
  /\ EditsAccounted
  /\ EditsOnTheirWay
  /\ InTheirOrder
  /\ DurableMeansSaved

-----------------------------------------------------------------------------
(* Sequences. *)

LEMMA ToSetTyped ==
  ASSUME NEW S, NEW s \in Seq(S)
  PROVE  ToSet(s) \subseteq S /\ DOMAIN s = 1..Len(s)
PROOF BY DEF ToSet

LEMMA SeqWider ==
  ASSUME NEW S, NEW T, S \subseteq T, NEW s \in Seq(S)
  PROVE  s \in Seq(T)
PROOF
  <1>1. Len(s) \in Nat /\ s \in [1..Len(s) -> T]
    OBVIOUS
  <1> QED
    BY <1>1

LEMMA ToSetEmpty == ToSet(<<>>) = {}
PROOF BY DEF ToSet

\* The elements and positions of a concatenation.
LEMMA ConcatElements ==
  ASSUME NEW S, NEW s \in Seq(S), NEW t \in Seq(S)
  PROVE  /\ s \o t \in Seq(S)
         /\ Len(s \o t) = Len(s) + Len(t)
         /\ \A i \in DOMAIN s : i \in DOMAIN (s \o t) /\ (s \o t)[i] = s[i]
         /\ \A i \in DOMAIN t : Len(s) + i \in DOMAIN (s \o t) /\ (s \o t)[Len(s) + i] = t[i]
         /\ \A i \in DOMAIN (s \o t) :
              \/ i \in DOMAIN s /\ (s \o t)[i] = s[i]
              \/ i - Len(s) \in DOMAIN t /\ (s \o t)[i] = t[i - Len(s)]
         /\ ToSet(s \o t) = ToSet(s) \cup ToSet(t)
PROOF
  <1>1. s \o t \in Seq(S) /\ Len(s \o t) = Len(s) + Len(t)
    OBVIOUS
  <1>2. \A i \in DOMAIN s : i \in DOMAIN (s \o t) /\ (s \o t)[i] = s[i]
    OBVIOUS
  <1>3. \A i \in DOMAIN t : Len(s) + i \in DOMAIN (s \o t) /\ (s \o t)[Len(s) + i] = t[i]
    OBVIOUS
  <1>4. \A i \in DOMAIN (s \o t) :
          \/ i \in DOMAIN s /\ (s \o t)[i] = s[i]
          \/ i - Len(s) \in DOMAIN t /\ (s \o t)[i] = t[i - Len(s)]
    OBVIOUS
  <1>5. ToSet(s \o t) \subseteq ToSet(s) \cup ToSet(t)
    BY <1>4 DEF ToSet
  <1>6. ToSet(s) \subseteq ToSet(s \o t)
    BY <1>2 DEF ToSet
  <1>7. ToSet(t) \subseteq ToSet(s \o t)
    BY <1>3 DEF ToSet
  <1> QED
    BY <1>1, <1>2, <1>3, <1>4, <1>5, <1>6, <1>7

LEMMA AppendElements ==
  ASSUME NEW S, NEW s \in Seq(S), NEW e \in S
  PROVE  /\ Append(s, e) \in Seq(S)
         /\ Append(s, e) = s \o <<e>>
         /\ Len(Append(s, e)) = Len(s) + 1
         /\ \A i \in DOMAIN s : i \in DOMAIN Append(s, e) /\ Append(s, e)[i] = s[i]
         /\ Append(s, e)[Len(s) + 1] = e
         /\ \A i \in DOMAIN Append(s, e) : i \in DOMAIN s \/ i = Len(s) + 1
         /\ ToSet(Append(s, e)) = ToSet(s) \cup {e}
PROOF
  <1>1. /\ Append(s, e) \in Seq(S) /\ Append(s, e) = s \o <<e>>
        /\ Len(Append(s, e)) = Len(s) + 1
    OBVIOUS
  <1>2. \A i \in DOMAIN s : i \in DOMAIN Append(s, e) /\ Append(s, e)[i] = s[i]
    OBVIOUS
  <1>3. Len(s) + 1 \in DOMAIN Append(s, e) /\ Append(s, e)[Len(s) + 1] = e
    OBVIOUS
  <1>4. \A i \in DOMAIN Append(s, e) : i \in DOMAIN s \/ i = Len(s) + 1
    OBVIOUS
  <1>5. ToSet(Append(s, e)) = ToSet(s) \cup {e}
    BY <1>2, <1>3, <1>4 DEF ToSet
  <1> QED
    BY <1>1, <1>2, <1>3, <1>4, <1>5

LEMMA TailElements ==
  ASSUME NEW S, NEW s \in Seq(S), s # <<>>
  PROVE  /\ Head(s) \in S /\ Tail(s) \in Seq(S)
         /\ Head(s) = s[1] /\ 1 \in DOMAIN s
         /\ \A i \in DOMAIN Tail(s) : i + 1 \in DOMAIN s /\ Tail(s)[i] = s[i+1]
         /\ \A i \in DOMAIN s : i # 1 => i - 1 \in DOMAIN Tail(s) /\ Tail(s)[i-1] = s[i]
         /\ ToSet(s) = {Head(s)} \cup ToSet(Tail(s))
PROOF
  <1>1. /\ Head(s) \in S /\ Tail(s) \in Seq(S)
        /\ Head(s) = s[1] /\ 1 \in DOMAIN s
    OBVIOUS
  <1>2. \A i \in DOMAIN Tail(s) : i + 1 \in DOMAIN s /\ Tail(s)[i] = s[i+1]
    OBVIOUS
  <1>3. \A i \in DOMAIN s : i # 1 => i - 1 \in DOMAIN Tail(s) /\ Tail(s)[i-1] = s[i]
    OBVIOUS
  <1>4. ToSet(s) \subseteq {Head(s)} \cup ToSet(Tail(s))
    BY <1>1, <1>3 DEF ToSet
  <1>5. {Head(s)} \cup ToSet(Tail(s)) \subseteq ToSet(s)
    BY <1>1, <1>2 DEF ToSet
  <1> QED
    BY <1>1, <1>2, <1>3, <1>4, <1>5

\* Who leads in s leads in s \o t, if it is in s or leads in t.
LEMMA LeadsConcat ==
  ASSUME NEW S, NEW s \in Seq(S), NEW t \in Seq(S), NEW x, NEW y,
         Leads(s, x, y), x \in ToSet(s) \/ Leads(t, x, y)
  PROVE  Leads(s \o t, x, y)
PROOF
  <1> DEFINE u == s \o t
  <1>1. /\ \A i \in DOMAIN s : i \in DOMAIN u /\ u[i] = s[i]
        /\ \A i \in DOMAIN t : Len(s) + i \in DOMAIN u /\ u[Len(s) + i] = t[i]
        /\ \A i \in DOMAIN u : (i \in DOMAIN s /\ u[i] = s[i])
                              \/ (i - Len(s) \in DOMAIN t /\ u[i] = t[i - Len(s)])
    BY ConcatElements
  <1>2. /\ DOMAIN s = 1..Len(s) /\ DOMAIN t = 1..Len(t) /\ DOMAIN u \subseteq Int
        /\ Len(s) \in Nat
    OBVIOUS
  <1> HIDE DEF u
  <1> SUFFICES ASSUME NEW j \in DOMAIN u, u[j] = y
               PROVE  \E i \in DOMAIN u : i < j /\ u[i] = x
    BY DEF Leads, u
  <1>3. CASE j \in DOMAIN s /\ u[j] = s[j]
    <2>1. PICK i \in DOMAIN s : i < j /\ s[i] = x
      BY <1>3 DEF Leads
    <2> QED
      BY <1>1, <2>1
  <1>4. CASE j \notin DOMAIN s /\ j - Len(s) \in DOMAIN t /\ u[j] = t[j - Len(s)]
    <2>1. CASE x \in ToSet(s)
      <3>1. PICK i \in DOMAIN s : s[i] = x
        BY <2>1 DEF ToSet
      <3>2. i < j
        BY <1>2, <1>4
      <3> QED
        BY <1>1, <3>1, <3>2
    <2>2. CASE Leads(t, x, y)
      <3>1. PICK i \in DOMAIN t : i < j - Len(s) /\ t[i] = x
        BY <1>4, <2>2 DEF Leads
      <3>2. Len(s) + i < j
        BY <1>2, <3>1
      <3> QED
        BY <1>1, <3>1, <3>2
    <2> QED
      BY <2>1, <2>2
  <1> QED
    BY <1>1, <1>3, <1>4

\* Who leads in s leads in its tail, unless it was the head.
LEMMA LeadsTail ==
  ASSUME NEW S, NEW s \in Seq(S), s # <<>>, NEW x, NEW y,
         Leads(s, x, y), Head(s) # x
  PROVE  Leads(Tail(s), x, y)
PROOF
  <1> SUFFICES ASSUME NEW j \in DOMAIN Tail(s), Tail(s)[j] = y
               PROVE  \E i \in DOMAIN Tail(s) : i < j /\ Tail(s)[i] = x
    BY DEF Leads
  <1>1. j + 1 \in DOMAIN s /\ s[j+1] = y /\ j \in Int
    BY TailElements
  <1>2. PICK i \in DOMAIN s : i < j + 1 /\ s[i] = x
    BY <1>1 DEF Leads
  <1>3. i # 1 /\ i \in Int
    BY <1>2, TailElements
  <1>4. i - 1 \in DOMAIN Tail(s) /\ Tail(s)[i-1] = x /\ i - 1 < j
    BY <1>1, <1>2, <1>3, TailElements
  <1> QED
    BY <1>4

\* Nothing has to come before what is not there.
LEMMA LeadsNone ==
  ASSUME NEW S, NEW s \in Seq(S), NEW x, NEW y, y \notin ToSet(s)
  PROVE  Leads(s, x, y)
PROOF BY DEF Leads, ToSet

-----------------------------------------------------------------------------
(* The order in which pending applies are sent again. *)

\* A set of numbers up to n has a listing in order.
Listing(xs, s) ==
  /\ s \in [1..Cardinality(xs) -> xs]
  /\ ToSet(s) = xs
  /\ \A i, j \in DOMAIN s : i < j => s[i] < s[j]

Listed(n) == \A xs \in SUBSET (1..n) : \E s : Listing(xs, s)

\* With all sets up to n - 1 those up to n have one: n comes last.
LEMMA ListedNext ==
  ASSUME NEW n \in Nat, n # 0, Listed(n - 1)
  PROVE  Listed(n)
PROOF
  <1> SUFFICES ASSUME NEW xs \in SUBSET (1..n)
               PROVE  \E s : Listing(xs, s)
    BY DEF Listed
  <1> DEFINE ys == xs \ {n}
  <1>1. ys \in SUBSET (1..(n-1))
    OBVIOUS
  <1>2. IsFiniteSet(ys) /\ Cardinality(ys) \in Nat
    <2>1. IsFiniteSet(1..(n-1))
      BY FS_Interval
    <2>2. IsFiniteSet(ys)
      BY <1>1, <2>1, FS_Subset
    <2> QED
      BY <2>2, FS_CardinalityType
  <1>3. PICK s : Listing(ys, s)
    BY <1>1 DEF Listed
  <1>4. CASE n \notin xs
    <2>1. ys = xs
      BY <1>4
    <2> QED
      BY <1>3, <2>1
  <1>5. CASE n \in xs
    <2> DEFINE k == Cardinality(ys)
               t == [i \in 1..(k+1) |-> IF i = k + 1 THEN n ELSE s[i]]
    <2>1. xs = ys \cup {n} /\ Cardinality(xs) = k + 1
      <3>1. xs = ys \cup {n} /\ n \notin ys
        BY <1>5
      <3> QED
        BY <1>2, <3>1, FS_AddElement
    <2>2. /\ DOMAIN s = 1..k
          /\ \A i \in 1..k : s[i] \in ys
          /\ \A i, j \in 1..k : i < j => s[i] < s[j]
      BY <1>3 DEF Listing
    <2>3. \A y \in ys : y \in 1..(n-1) /\ \E i \in 1..k : s[i] = y
      BY <1>1, <1>3, <2>2 DEF Listing, ToSet
    <2>4. k \in Nat
      BY <1>2
    <2> HIDE DEF k
    <2>5. t \in [1..(k+1) -> xs] /\ DOMAIN t = 1..(k+1)
      BY <2>1, <2>2, <2>4
    <2>6. t[k+1] = n /\ \A i \in 1..k : t[i] = s[i]
      BY <2>4
    <2>7. \A x \in xs : \E i \in 1..(k+1) : t[i] = x
      <3>1. \A y \in ys : \E i \in 1..(k+1) : t[i] = y
        BY <2>3, <2>4, <2>6
      <3>2. \E i \in 1..(k+1) : t[i] = n
        BY <2>4, <2>6
      <3> QED
        BY <2>1, <3>1, <3>2
    <2>8. ASSUME NEW i \in 1..(k+1), NEW j \in 1..(k+1), i < j  PROVE t[i] < t[j]
      <3>1. i \in 1..k /\ t[i] = s[i] /\ s[i] \in 1..(n-1)
        <4>1. i \in 1..k
          BY <2>4, <2>8
        <4> QED
          BY <2>2, <2>3, <2>6, <4>1
      <3>2. CASE j = k + 1
        BY <2>6, <3>1, <3>2
      <3>3. CASE j # k + 1
        BY <2>2, <2>4, <2>6, <2>8, <3>1, <3>3
      <3> QED
        BY <3>2, <3>3
    <2> HIDE DEF t
    <2>9. ToSet(t) = xs
      BY <2>5, <2>7 DEF ToSet
    <2>10. Listing(xs, t)
      BY <2>1, <2>5, <2>8, <2>9 DEF Listing
    <2> QED
      BY <2>10
  <1> QED
    BY <1>4, <1>5

\* There is no least n that lacks one.
LEMMA AllListed == \A n \in Nat : Listed(n)
PROOF
  <1> DEFINE B == {n \in Nat : ~Listed(n)}
             R == OpToRel(<, Nat)
  <1> SUFFICES ASSUME B # {}  PROVE FALSE
    OBVIOUS
  <1>1. IsWellFoundedOn(R, Nat)
    BY NatLessThanWellFounded
  <1>2. B \subseteq Nat
    OBVIOUS
  <1> HIDE DEF R
  <1>3. PICK n \in B : \A m \in B : ~(<<m, n>> \in R)
    BY <1>1, <1>2, WFMin
  <1>4. \A m \in Nat : m < n => <<m, n>> \in R
    BY <1>2, <1>3 DEF R, OpToRel
  <1>5. n \in Nat /\ ~Listed(n)
    OBVIOUS
  <1>6. \A m \in Nat : m < n => Listed(m)
    BY <1>3, <1>4
  <1> HIDE DEF B
  <1>7. CASE n = 0
    <2>1. \A xs \in SUBSET (1..0) : xs = {}
      OBVIOUS
    <2>2. Cardinality({}) = 0
      BY FS_EmptySet
    <2>3. <<>> \in [1..0 -> {}] /\ ToSet(<<>>) = {} /\ DOMAIN <<>> = {}
      BY DEF ToSet
    <2>4. Listing({}, <<>>)
      BY <2>2, <2>3 DEF Listing
    <2> QED
      BY <1>5, <1>7, <2>1, <2>4 DEF Listed
  <1>8. CASE n # 0
    <2>1. n - 1 \in Nat /\ n - 1 < n
      BY <1>5, <1>8
    <2> QED
      BY <1>5, <1>6, <1>8, <2>1, ListedNext
  <1> QED
    BY <1>7, <1>8

\* Applies are sent again in the order they were made, each of them.
LEMMA InOrderListed ==
  ASSUME NEW n \in Nat, NEW xs \in SUBSET (1..n)
  PROVE  /\ InOrder(xs) \in Seq(xs)
         /\ ToSet(InOrder(xs)) = xs
         /\ \A i, j \in DOMAIN InOrder(xs) : i < j => InOrder(xs)[i] < InOrder(xs)[j]
PROOF
  <1>1. PICK s : Listing(xs, s)
    BY AllListed DEF Listed
  <1>2. /\ InOrder(xs) \in [1..Cardinality(xs) -> xs]
        /\ ToSet(InOrder(xs)) = xs
        /\ \A i, j \in DOMAIN InOrder(xs) : i < j => InOrder(xs)[i] < InOrder(xs)[j]
    BY <1>1 DEF Listing, InOrder
  <1>3. Cardinality(xs) \in Nat
    <2>1. IsFiniteSet(1..n)
      BY FS_Interval
    <2>2. IsFiniteSet(xs)
      BY <2>1, FS_Subset
    <2> QED
      BY <2>2, FS_CardinalityType
  <1> QED
    BY <1>2, <1>3

-----------------------------------------------------------------------------
(* The initial state, and what does not change. *)

LEMMA MSInit == Init => MSInv
PROOF
  <1> SUFFICES ASSUME Init  PROVE MSInv
    OBVIOUS
  <1>1. /\ up = <<>> /\ buffer = <<>> /\ down = <<>> /\ log = <<>>
        /\ pending = {} /\ timer = {} /\ saved = {} /\ refused = {}
        /\ turnedAway = {} /\ lost = {} /\ missed = {}
        /\ lastAckSeq = 0 /\ persisted = 0 /\ clientSeq = 0 /\ events = 0
        /\ socket = "none" /\ stopped = FALSE /\ syncStatus = "idle"
        /\ seq = [x \in Txns |-> 0] /\ fate = [x \in Txns |-> "fresh"]
    BY DEF Init
  <1>2. TypeOK
    <2>1. seq \in [Txns -> Seqs] /\ fate \in [Txns -> Fates]
      BY <1>1 DEF Seqs, Fates
    <2>2. /\ up \in Seq(Txns) /\ buffer \in Seq(Txns) /\ down \in Seq(Messages)
          /\ log \in Seq(Txns \cup Others) /\ persisted \in 0..Len(log)
      BY <1>1
    <2>3. lastAckSeq \in Seqs /\ clientSeq \in 0..MaxEdits /\ events \in 0..MaxEvents
      BY <1>1 DEF Seqs
    <2>4. /\ socket \in {"none", "connecting", "open", "closed"}
          /\ stopped \in BOOLEAN /\ syncStatus \in {"idle", "syncing"}
      BY <1>1
    <2>5. /\ pending \subseteq Txns /\ timer \subseteq pending
          /\ saved \cup refused \cup missed \subseteq ToSet(log) \cup Txns
          /\ turnedAway \subseteq Txns /\ lost \subseteq Txns
      BY <1>1
    <2> QED
      BY <2>1, <2>2, <2>3, <2>4, <2>5 DEF TypeOK
  <1>3. \A x, y : Leads(<<>>, x, y)
    BY DEF Leads
  <1>4. LogFits /\ OnlyMade /\ SocketFits /\ TrackerFits
    BY <1>1, ToSetEmpty DEF LogFits, OnlyMade, SocketFits, TrackerFits
  <1>5. MessagesTrue /\ RefusalsFirst /\ DurableMeansSaved
    BY <1>1, ToSetEmpty DEF MessagesTrue, RefusalsFirst, DurableMeansSaved
  <1>6. EditsAccounted /\ EditsOnTheirWay
    BY <1>1 DEF EditsAccounted, EditsOnTheirWay, Made
  <1>7. InTheirOrder
    BY <1>1, <1>3 DEF InTheirOrder, Before
  <1> QED
    BY <1>2, <1>4, <1>5, <1>6, <1>7 DEF MSInv

\* The relay only adds: to the log, and to what it refused, worked on or turned away.
RelayGrows ==
  /\ log' \in Seq(Txns \cup Others)
  /\ Len(log) <= Len(log')
  /\ \A i \in 1..Len(log) : log'[i] = log[i]
  /\ refused \subseteq refused'
  /\ persisted <= persisted' /\ persisted' \in Nat
  /\ turnedAway \subseteq turnedAway'

LEMMA RelayStays ==
  ASSUME MSInv, UNCHANGED <<log, refused, persisted, turnedAway>>
  PROVE  RelayGrows
PROOF
  <1>1. log \in Seq(Txns \cup Others) /\ persisted \in Nat
    BY DEF MSInv, TypeOK
  <1> QED
    BY <1>1 DEF RelayGrows

LEMMA LogKept ==
  ASSUME MSInv, RelayGrows
  PROVE  ToSet(log) \subseteq ToSet(log')
PROOF
  <1>1. log \in Seq(Txns \cup Others) /\ log' \in Seq(Txns \cup Others)
    BY DEF MSInv, TypeOK, RelayGrows
  <1>2. DOMAIN log = 1..Len(log) /\ DOMAIN log' = 1..Len(log')
    BY <1>1
  <1>3. \A i \in DOMAIN log : i \in DOMAIN log' /\ log'[i] = log[i]
    BY <1>1, <1>2 DEF RelayGrows
  <1> QED
    BY <1>3 DEF ToSet

\* What a message of each kind carries.
LEMMA MessageTyped ==
  ASSUME NEW m \in Messages
  PROVE  /\ m.type \in {"broadcast", "applied", "ack", "error", "reload"}
         /\ m.type = "broadcast" => m.txn \in Txns \cup Others /\ m.seq \in Nat
         /\ m.type = "applied" => m.txn \in Txns /\ m.seq \in Nat
         /\ m.type = "ack" => m.seq \in Nat
         /\ m.type = "error" => m.txn \in Txns
PROOF BY DEF Messages, Reload, Seqs

\* The messages of the relay are of these kinds.
LEMMA MessagesMade ==
  /\ \A x \in Txns \cup Others, n \in Nat :
       LET m == Broadcast(x, n) IN
       m \in Messages /\ m.type = "broadcast" /\ m.txn = x /\ m.seq = n
  /\ \A x \in Txns, n \in Nat, st \in {"dropped", "failed", "settled"} :
       LET m == Applied(x, n, st) IN
       m \in Messages /\ m.type = "applied" /\ m.txn = x /\ m.seq = n /\ m.status = st
  /\ \A n \in Nat : LET m == Ack(n) IN m \in Messages /\ m.type = "ack" /\ m.seq = n
  /\ \A x \in Txns : LET m == Error(x) IN m \in Messages /\ m.type = "error" /\ m.txn = x
  /\ Reload \in Messages /\ Reload.type = "reload"
PROOF BY DEF Messages, Seqs, Broadcast, Applied, Ack, Error, Reload

\* A sequence of one message.
LEMMA OneMessage ==
  ASSUME NEW m \in Messages
  PROVE  <<m>> \in Seq(Messages) /\ ToSet(<<m>>) = {m}
PROOF BY DEF ToSet

\* What was true stays true while the relay only adds.
LEMMA TruthStays ==
  ASSUME MSInv, RelayGrows, NEW m \in Messages, TrueMessage(m)
  PROVE  TrueMessage(m)'
PROOF
  <1>1. Len(log) \in Nat /\ Len(log') \in Nat /\ persisted \in Nat /\ persisted' \in Nat
    BY DEF MSInv, TypeOK, RelayGrows
  <1>2. \A n \in 1..Len(log) : n \in 1..Len(log') /\ log'[n] = log[n]
    BY <1>1 DEF RelayGrows
  <1>3. m.type = "ack" => m.seq \in Nat
    BY MessageTyped
  <1> QED
    BY <1>1, <1>2, <1>3 DEF RelayGrows, TrueMessage

\* The relay tells the page what is true.
LEMMA TellTrue ==
  ASSUME MSInv, RelayGrows, NEW ms \in Seq(Messages), down' = Tell(ms) \/ down' = down,
         \A m \in ToSet(ms) : TrueMessage(m)'
  PROVE  down' \in Seq(Messages) /\ MessagesTrue'
PROOF
  <1>1. down \in Seq(Messages) /\ down' \in Seq(Messages)
    <2>1. down \in Seq(Messages)
      BY DEF MSInv, TypeOK
    <2>2. down \o ms \in Seq(Messages)
      BY <2>1
    <2> QED
      BY <2>1, <2>2 DEF Tell
  <1>2. \A m \in ToSet(down) : TrueMessage(m)'
    BY <1>1, ToSetTyped, TruthStays DEF MSInv, MessagesTrue
  <1>3. ToSet(down') \subseteq ToSet(down) \cup ToSet(ms)
    <2>1. ToSet(down \o ms) = ToSet(down) \cup ToSet(ms)
      BY <1>1, ConcatElements
    <2> QED
      BY <2>1 DEF Tell
  <1> QED
    BY <1>1, <1>2, <1>3 DEF MessagesTrue

\* A warning stays ahead of what the relay tells later.
LEMMA WarningStays ==
  ASSUME MSInv, NEW ms \in Seq(Messages), down' = Tell(ms) \/ down' = down,
         UNCHANGED lastAckSeq, NEW n \in Nat, NEW x, Warned(n, x)
  PROVE  Warned(n, x)'
PROOF
  <1>1. down \in Seq(Messages)
    BY DEF MSInv, TypeOK
  <1>2. CASE down' = down
    BY <1>2 DEF Warned
  <1>3. CASE down' = down \o ms
    <2>1. PICK i \in DOMAIN down :
            /\ Refusal(down[i], x)
            /\ \A j \in DOMAIN down : j < i /\ down[j].type = "ack" => down[j].seq < n
      BY DEF Warned
    <2>2. DOMAIN down = 1..Len(down) /\ DOMAIN down' = 1..Len(down') /\ Len(down) \in Nat
      BY <1>1, <1>3
    <2>3. \A k \in DOMAIN down : k \in DOMAIN down' /\ down'[k] = down[k]
      BY <1>1, <1>3, ConcatElements
    <2>4. \A j \in DOMAIN down' : j < i => j \in DOMAIN down
      BY <2>1, <2>2
    <2>5. lastAckSeq' < n
      BY DEF Warned
    <2>6. i \in DOMAIN down' /\ Refusal(down'[i], x)
      BY <2>1, <2>3
    <2>7. \A j \in DOMAIN down' : j < i /\ down'[j].type = "ack" => down'[j].seq < n
      BY <2>1, <2>3, <2>4
    <2> QED
      BY <2>5, <2>6, <2>7 DEF Warned
  <1> QED
    BY <1>2, <1>3 DEF Tell

\* No refusal comes to the page's knowledge too late when nothing new is refused.
LEMMA RefusalsStay ==
  ASSUME MSInv, NEW ms \in Seq(Messages), down' = Tell(ms) \/ down' = down,
         UNCHANGED <<lastAckSeq, log>>,
         (refused' \cap pending') \ missed' \subseteq (refused \cap pending) \ missed
  PROVE  RefusalsFirst'
PROOF
  <1>1. Len(log) \in Nat
    BY DEF MSInv, TypeOK
  <1>2. ASSUME NEW n \in 1..Len(log), log[n] \in (refused' \cap pending') \ missed'
        PROVE  Warned(n, log[n])'
    <2>1. Warned(n, log[n])
      BY <1>2 DEF MSInv, RefusalsFirst
    <2> DEFINE x == log[n]
    <2>2. Warned(n, x)'
      BY <2>1, WarningStays
    <2> QED
      BY <2>2
  <1> QED
    BY <1>2 DEF RefusalsFirst

\* The order stays as it is while nothing moves, is refused, turned away or lost.
LEMMA OrderStays ==
  ASSUME MSInv, UNCHANGED <<log, up, buffer, lost>>,
         refused \subseteq refused', turnedAway \subseteq turnedAway'
  PROVE  InTheirOrder'
PROOF
  <1>1. \A x, y \in Txns : Detained(x, y) => Detained(x, y)'
    BY DEF Detained
  <1>2. \A x, y \in Txns : Before(x, y) => Before(x, y)'
    BY DEF Before, Leads
  <1> QED
    BY <1>1, <1>2 DEF MSInv, InTheirOrder

-----------------------------------------------------------------------------
(* A message arrives at the page. *)

\* What the tracker may do with a message: give some applies up and learn what is so.
Digests(m) ==
  /\ pending' \subseteq pending
  /\ \A x \in Txns \ (pending \ pending') : fate'[x] = fate[x]
  /\ \A x \in pending \ pending' :
       /\ fate'[x] = "durable" => x \in saved \cup missed
       /\ ~stopped' => fate'[x] \in {"durable", "refused"} /\ x \in ToSet(log) \cup refused
  /\ \A x \in Txns : seq'[x] # 0 => seq'[x] \in 1..Len(log) /\ log[seq'[x]] = x
  /\ timer' \subseteq timer \cup ToSet(log) \cup turnedAway
  /\ \/ lastAckSeq' = lastAckSeq
     \/ m.type = "ack" /\ lastAckSeq' = m.seq
  /\ \A x \in pending' : ~Refusal(m, x)
  /\ stopped => stopped'
  /\ stopped' /\ ~stopped => pending' = {}
  /\ seq' \in [Txns -> Seqs] /\ fate' \in [Txns -> Fates] /\ timer' \subseteq pending'
  /\ stopped' \in BOOLEAN

\* The message at hand is one of those that are true.
LEMMA HeadTrue ==
  ASSUME MSInv, down # <<>>
  PROVE  Head(down) \in Messages /\ TrueMessage(Head(down))
PROOF
  <1>1. down \in Seq(Messages)
    BY DEF MSInv, TypeOK
  <1>2. Head(down) \in Messages /\ Head(down) \in ToSet(down)
    BY <1>1, TailElements
  <1> QED
    BY <1>2 DEF MSInv, MessagesTrue

\* Warnings move up by one, and the one at hand takes its apply.
LEMMA WarningsMoveUp ==
  ASSUME MSInv, down # <<>>, down' = Tail(down), NEW n \in Nat, NEW x, Warned(n, x),
         \/ lastAckSeq' = lastAckSeq
         \/ Head(down).type = "ack" /\ lastAckSeq' = Head(down).seq,
         ~Refusal(Head(down), x)
  PROVE  Warned(n, x)'
PROOF
  <1>1. down \in Seq(Messages)
    BY DEF MSInv, TypeOK
  <1>2. PICK i \in DOMAIN down :
          /\ Refusal(down[i], x)
          /\ \A j \in DOMAIN down : j < i /\ down[j].type = "ack" => down[j].seq < n
    BY DEF Warned
  <1>3. /\ Head(down) = down[1] /\ 1 \in DOMAIN down /\ i \in Nat
        /\ \A k \in DOMAIN Tail(down) :
             k \in Nat /\ k + 1 \in DOMAIN down /\ Tail(down)[k] = down[k+1]
        /\ \A k \in DOMAIN down :
             k # 1 => k - 1 \in DOMAIN Tail(down) /\ Tail(down)[k-1] = down[k]
    <2>1. i \in Nat /\ \A k \in DOMAIN Tail(down) : k \in Nat
      BY <1>1
    <2> QED
      BY <1>1, <2>1, TailElements
  <1>4. i # 1 /\ 1 < i
    BY <1>1, <1>2, <1>3
  <1>5. lastAckSeq' < n
    BY <1>2, <1>3, <1>4 DEF Warned
  <1>6. i - 1 \in DOMAIN down' /\ Refusal(down'[i-1], x)
    BY <1>2, <1>3, <1>4
  <1>7. \A j \in DOMAIN down' : j < i - 1 /\ down'[j].type = "ack" => down'[j].seq < n
    BY <1>2, <1>3
  <1> QED
    BY <1>5, <1>6, <1>7 DEF Warned

LEMMA MSDigest ==
  ASSUME MSInv, down # <<>>, Digests(Head(down)), UpdateUnsaved, down' = Tail(down),
         UNCHANGED <<socket, buffer, up, clientSeq, relayVars, faultVars>>
  PROVE  MSInv'
PROOF
  <1> DEFINE m == Head(down)
  <1>1. m \in Messages /\ TrueMessage(m)
    BY HeadTrue
  <1>2. UNCHANGED <<log, persisted, saved, refused, events, turnedAway, lost, missed>>
    BY DEF relayVars, faultVars
  <1>3. down \in Seq(Messages) /\ down' \in Seq(Messages)
        /\ ToSet(down') \subseteq ToSet(down)
    <2>1. down \in Seq(Messages)
      BY DEF MSInv, TypeOK
    <2> QED
      BY <2>1, TailElements
  <1>4. lastAckSeq' <= persisted /\ lastAckSeq' \in Nat
    <2>1. lastAckSeq <= persisted /\ lastAckSeq \in Nat
      BY DEF MSInv, TypeOK, TrackerFits, Seqs
    <2>2. m.type = "ack" => m.seq <= persisted /\ m.seq \in Nat
      BY <1>1, MessageTyped DEF TrueMessage
    <2> QED
      BY <2>1, <2>2 DEF Digests
  <1>5. TypeOK'
    BY <1>2, <1>3, <1>4 DEF MSInv, TypeOK, Digests, UpdateUnsaved, Seqs
  <1>6. LogFits' /\ OnlyMade'
    BY <1>2 DEF MSInv, LogFits, OnlyMade, Made, Digests
  <1>7. SocketFits'
    BY DEF MSInv, SocketFits, Digests
  <1>8. TrackerFits'
    BY <1>2, <1>4 DEF MSInv, TrackerFits, Digests, UpdateUnsaved
  <1>9. MessagesTrue'
    BY <1>2, <1>3 DEF MSInv, MessagesTrue, TrueMessage
  <1>10. RefusalsFirst'
    <2>1. ASSUME NEW n \in 1..Len(log), log[n] \in (refused \cap pending') \ missed
          PROVE  Warned(n, log[n])'
      <3> DEFINE x == log[n]
      <3>1. Warned(n, x) /\ ~Refusal(m, x)
        BY <2>1 DEF MSInv, RefusalsFirst, Digests
      <3>2. \/ lastAckSeq' = lastAckSeq
            \/ Head(down).type = "ack" /\ lastAckSeq' = Head(down).seq
        BY DEF Digests
      <3>3. n \in Nat
        BY <2>1
      <3>4. PICK y : y = x
        OBVIOUS
      <3>5. Warned(n, y)'
        BY <3>1, <3>2, <3>3, <3>4, WarningsMoveUp
      <3> QED
        BY <1>2, <3>4, <3>5
    <2> QED
      BY <1>2, <2>1 DEF RefusalsFirst
  <1>11. EditsAccounted'
    <2> SUFFICES ASSUME ~stopped', NEW x \in Made
                 PROVE  /\ x \in pending' \/ fate'[x] \in {"durable", "refused"}
                        /\ x \in pending' \cup ToSet(log) \cup refused
      BY <1>2 DEF EditsAccounted, Made
    <2>1. ~stopped /\ x \in Txns
      BY DEF Digests, Made, Txns, MSInv, TypeOK
    <2>2. /\ x \in pending \/ fate[x] \in {"durable", "refused"}
          /\ x \in pending \cup ToSet(log) \cup refused
      BY <2>1 DEF MSInv, EditsAccounted
    <2>3. CASE x \in pending \ pending'
      BY <2>3 DEF Digests
    <2>4. CASE x \notin pending \ pending'
      BY <2>1, <2>2, <2>4 DEF Digests
    <2> QED
      BY <2>3, <2>4
  <1>12. EditsOnTheirWay'
    BY <1>2 DEF MSInv, EditsOnTheirWay, Digests, Made
  <1>13. InTheirOrder'
    BY <1>2, OrderStays
  <1>14. DurableMeansSaved'
    BY <1>2 DEF MSInv, DurableMeansSaved, Digests
  <1> QED
    BY <1>5, <1>6, <1>7, <1>8, <1>9, <1>10, <1>11, <1>12, <1>13, <1>14 DEF MSInv

\* What an ack covers was saved, unless a connection took the refusal of it.
LEMMA CoveredIsSaved ==
  ASSUME MSInv, NEW x \in pending, NEW n \in 1..Len(log), log[n] = x,
         \/ n <= lastAckSeq
         \/ down # <<>> /\ Head(down).type = "ack" /\ n <= Head(down).seq
  PROVE  x \in saved \cup missed
PROOF
  <1>1. n <= persisted
    <2>1. lastAckSeq <= persisted /\ lastAckSeq \in Nat /\ persisted \in Nat /\ n \in Nat
      BY DEF MSInv, TypeOK, TrackerFits, Seqs
    <2>2. ASSUME down # <<>>, Head(down).type = "ack"
          PROVE  Head(down).seq <= persisted /\ Head(down).seq \in Nat
      BY <2>2, HeadTrue, MessageTyped DEF TrueMessage
    <2> QED
      BY <2>1, <2>2
  <1>2. x \in saved \cup refused
    BY <1>1 DEF MSInv, LogFits, TypeOK
  <1>3. ASSUME x \in refused, x \notin missed  PROVE FALSE
    <2>1. Warned(n, x)
      BY <1>3 DEF MSInv, RefusalsFirst
    <2>2. ~(n <= lastAckSeq)
      BY <2>1 DEF Warned, MSInv, TypeOK, Seqs
    <2>3. down # <<>> /\ Head(down).type = "ack" /\ n <= Head(down).seq
      BY <2>2
    <2>4. down \in Seq(Messages) /\ Head(down) \in Messages /\ Head(down).seq \in Nat
      BY <2>3, HeadTrue, MessageTyped DEF MSInv, TypeOK
    <2>5. PICK i \in DOMAIN down :
            /\ Refusal(down[i], x)
            /\ \A j \in DOMAIN down : j < i /\ down[j].type = "ack" => down[j].seq < n
      BY <2>1 DEF Warned
    <2>6. Head(down) = down[1] /\ 1 \in DOMAIN down /\ i \in Nat /\ i >= 1
      BY <2>3, <2>4
    <2>7. i # 1
      BY <2>3, <2>5, <2>6 DEF Refusal
    <2>8. Head(down).seq < n
      BY <2>3, <2>5, <2>6, <2>7
    <2> QED
      BY <2>3, <2>4, <2>8
  <1> QED
    BY <1>2, <1>3

\* Each handler digests its message.
LEMMA SequencedDigests ==
  ASSUME MSInv, NEW x, NEW n \in 1..Len(log), log[n] = x, Sequenced(x, n),
         UNCHANGED <<lastAckSeq, stopped>>,
         NEW m, \A y : ~Refusal(m, y)
  PROVE  Digests(m)
PROOF
  <1>0. /\ pending \subseteq Txns /\ timer \subseteq pending /\ stopped \in BOOLEAN
        /\ seq \in [Txns -> Seqs] /\ fate \in [Txns -> Fates]
        /\ \A y \in Txns : seq[y] # 0 => seq[y] \in 1..Len(log) /\ log[seq[y]] = y
        /\ log \in Seq(Txns \cup Others) /\ lastAckSeq \in Nat
    BY DEF MSInv, TypeOK, TrackerFits, Seqs
  <1>1. CASE x \notin pending
    BY <1>0, <1>1 DEF Sequenced, NoEntry, Digests
  <1>2. CASE x \in pending /\ lastAckSeq >= n
    <2>1. Delete({x}, "durable")
      BY <1>2 DEF Sequenced
    <2>2. x \in saved \cup missed
      BY <1>0, <1>2, CoveredIsSaved
    <2>3. x \in ToSet(log)
      BY <1>0 DEF ToSet
    <2>4. seq' \in [Txns -> Seqs] /\ fate' \in [Txns -> Fates]
      BY <1>0, <2>1 DEF Delete, Seqs, Fates
    <2>5. \A y \in Txns : seq'[y] # 0 => seq'[y] \in 1..Len(log) /\ log[seq'[y]] = y
      BY <1>0, <2>1 DEF Delete
    <2>6. /\ \A y \in Txns \ (pending \ pending') : fate'[y] = fate[y]
          /\ \A y \in pending \ pending' : y = x
          /\ pending' \subseteq pending /\ timer' \subseteq timer /\ timer' \subseteq pending'
          /\ fate'[x] = "durable"
      BY <1>0, <1>2, <2>1 DEF Delete
    <2> QED
      BY <1>0, <2>2, <2>3, <2>4, <2>5, <2>6 DEF Digests
  <1>3. CASE x \in pending /\ ~(lastAckSeq >= n)
    <2>1. /\ seq' = [seq EXCEPT ![x] = n]
          /\ timer' = timer \cup {x}
          /\ UNCHANGED <<pending, fate>>
      BY <1>3 DEF Sequenced
    <2>2. x \in ToSet(log)
      BY <1>0 DEF ToSet
    <2>3. seq' \in [Txns -> Seqs]
          /\ \A y \in Txns : seq'[y] # 0 => seq'[y] \in 1..Len(log) /\ log[seq'[y]] = y
      BY <1>0, <1>3, <2>1 DEF Seqs
    <2> QED
      BY <1>0, <1>3, <2>1, <2>2, <2>3 DEF Digests
  <1> QED
    BY <1>1, <1>2, <1>3

LEMMA AppliedDigests ==
  ASSUME MSInv, NEW m \in Messages, m.type = "applied", TrueMessage(m), HandleApplied(m),
         UNCHANGED <<lastAckSeq, stopped>>
  PROVE  Digests(m)
PROOF
  <1>0. /\ pending \subseteq Txns /\ timer \subseteq pending /\ stopped \in BOOLEAN
        /\ seq \in [Txns -> Seqs] /\ fate \in [Txns -> Fates]
        /\ \A y \in Txns : seq[y] # 0 => seq[y] \in 1..Len(log) /\ log[seq[y]] = y
    BY DEF MSInv, TypeOK, TrackerFits
  <1>1. CASE m.status = "settled"
    <2>1. m.seq \in 1..Len(log) /\ log[m.seq] = m.txn /\ Sequenced(m.txn, m.seq)
      BY <1>1 DEF TrueMessage, HandleApplied
    <2>2. \A y : ~Refusal(m, y)
      BY <1>1 DEF Refusal
    <2> QED
      BY <2>1, <2>2, SequencedDigests
  <1>2. CASE m.status # "settled" /\ m.txn \in pending
    <2>1. Delete({m.txn}, "refused") /\ m.txn \in refused
      BY <1>2 DEF TrueMessage, HandleApplied
    <2>2. seq' \in [Txns -> Seqs] /\ fate' \in [Txns -> Fates]
      BY <1>0, <2>1 DEF Delete, Seqs, Fates
    <2>3. \A y \in Txns : seq'[y] # 0 => seq'[y] \in 1..Len(log) /\ log[seq'[y]] = y
      BY <1>0, <2>1 DEF Delete
    <2>4. /\ \A y \in Txns \ (pending \ pending') : fate'[y] = fate[y]
          /\ \A y \in pending \ pending' : y = m.txn
          /\ pending' = pending \ {m.txn}
          /\ timer' \subseteq timer /\ timer' \subseteq pending'
          /\ fate'[m.txn] = "refused"
      BY <1>0, <1>2, <2>1 DEF Delete
    <2>5. \A y \in pending' : ~Refusal(m, y)
      BY <2>4 DEF Refusal
    <2> QED
      BY <1>0, <2>1, <2>2, <2>3, <2>4, <2>5 DEF Digests
  <1>3. CASE m.status # "settled" /\ m.txn \notin pending
    <2>1. NoEntry
      BY <1>3 DEF HandleApplied
    <2>2. \A y \in pending' : ~Refusal(m, y)
      BY <1>3, <2>1 DEF Refusal, NoEntry
    <2> QED
      BY <1>0, <2>1, <2>2 DEF Digests, NoEntry
  <1> QED
    BY <1>1, <1>2, <1>3

LEMMA AckDigests ==
  ASSUME MSInv, down # <<>>, Head(down).type = "ack", HandleAck(Head(down).seq),
         UNCHANGED stopped
  PROVE  Digests(Head(down))
PROOF
  <1> DEFINE m == Head(down)
             last == IF m.seq >= lastAckSeq THEN m.seq ELSE lastAckSeq
             gone == AckedEntries(last)
  <1>0. /\ pending \subseteq Txns /\ timer \subseteq pending /\ stopped \in BOOLEAN
        /\ seq \in [Txns -> Seqs] /\ fate \in [Txns -> Fates]
        /\ \A y \in Txns : seq[y] # 0 => seq[y] \in 1..Len(log) /\ log[seq[y]] = y
        /\ log \in Seq(Txns \cup Others)
    BY DEF MSInv, TypeOK, TrackerFits
  <1>1. lastAckSeq' = last /\ Delete(gone, "durable")
    BY DEF HandleAck
  <1>2. \A y \in gone : y \in pending /\ seq[y] \in 1..Len(log) /\ log[seq[y]] = y
                        /\ seq[y] <= last
    BY <1>0 DEF AckedEntries
  <1>3. last = lastAckSeq \/ last = m.seq
    OBVIOUS
  <1>4. \A y \in gone : y \in saved \cup missed /\ y \in ToSet(log)
    <2>1. ASSUME NEW y \in gone  PROVE y \in saved \cup missed
      <3>1. PICK n \in 1..Len(log) : n = seq[y] /\ log[n] = y /\ n <= last /\ y \in pending
        BY <1>2
      <3> QED
        BY <1>3, <3>1, CoveredIsSaved
    <2> QED
      BY <1>0, <1>2, <2>1 DEF ToSet
  <1> HIDE DEF last, gone
  <1>5. seq' \in [Txns -> Seqs] /\ fate' \in [Txns -> Fates]
    BY <1>0, <1>1 DEF Delete, Seqs, Fates
  <1>6. \A y \in Txns : seq'[y] # 0 => seq'[y] \in 1..Len(log) /\ log[seq'[y]] = y
    BY <1>0, <1>1 DEF Delete
  <1>7. /\ pending' = pending \ gone /\ pending \ pending' = gone
        /\ \A y \in Txns \ gone : fate'[y] = fate[y]
        /\ \A y \in gone : fate'[y] = "durable"
        /\ timer' \subseteq timer /\ timer' \subseteq pending'
    BY <1>0, <1>1, <1>2 DEF Delete
  <1>8. \A y : ~Refusal(m, y)
    BY DEF Refusal
  <1> QED
    BY <1>0, <1>1, <1>3, <1>4, <1>5, <1>6, <1>7, <1>8 DEF Digests

LEMMA ErrorDigests ==
  ASSUME MSInv, NEW m \in Messages, m.type = "error", TrueMessage(m), HandleError(m.txn),
         UNCHANGED <<lastAckSeq, stopped>>
  PROVE  Digests(m)
PROOF BY DEF MSInv, TypeOK, TrackerFits, TrueMessage, HandleError, Digests, Refusal

LEMMA ReloadDigests ==
  ASSUME MSInv, NEW m \in Messages, m.type = "reload", HandleReload, UNCHANGED lastAckSeq
  PROVE  Digests(m)
PROOF
  <1>0. /\ pending \subseteq Txns /\ timer \subseteq pending
        /\ seq \in [Txns -> Seqs] /\ fate \in [Txns -> Fates]
        /\ \A y \in Txns : seq[y] # 0 => seq[y] \in 1..Len(log) /\ log[seq[y]] = y
    BY DEF MSInv, TypeOK, TrackerFits
  <1>1. stopped' = TRUE /\ Delete(pending, "reloaded")
    BY DEF HandleReload
  <1>2. seq' \in [Txns -> Seqs] /\ fate' \in [Txns -> Fates]
    BY <1>0, <1>1 DEF Delete, Seqs, Fates
  <1>3. \A y \in Txns : seq'[y] # 0 => seq'[y] \in 1..Len(log) /\ log[seq'[y]] = y
    BY <1>0, <1>1 DEF Delete
  <1>4. /\ pending' = {} /\ timer' = {}
        /\ \A y \in Txns \ pending : fate'[y] = fate[y]
        /\ \A y \in pending : fate'[y] = "reloaded"
    BY <1>0, <1>1 DEF Delete
  <1> QED
    BY <1>0, <1>1, <1>2, <1>3, <1>4 DEF Digests

LEMMA MSReceive == ASSUME MSInv, Receive  PROVE MSInv'
PROOF
  <1> DEFINE m == Head(down)
  <1>1. /\ down # <<>> /\ UpdateUnsaved /\ down' = Tail(down)
        /\ UNCHANGED <<socket, buffer, up, clientSeq, relayVars, faultVars>>
        /\ m.type # "ack" => UNCHANGED lastAckSeq
        /\ m.type # "reload" => UNCHANGED stopped
    BY DEF Receive
  <1>2. m \in Messages /\ TrueMessage(m)
    BY <1>1, HeadTrue
  <1>3. Digests(m)
    <2>1. CASE m.type = "broadcast"
      <3>1. Sequenced(m.txn, m.seq) /\ UNCHANGED <<lastAckSeq, stopped>>
        BY <1>1, <2>1 DEF Receive
      <3>2. m.seq \in 1..Len(log) /\ log[m.seq] = m.txn
        BY <1>2, <2>1 DEF TrueMessage
      <3>3. \A y : ~Refusal(m, y)
        BY <2>1 DEF Refusal
      <3> QED
        BY <3>1, <3>2, <3>3, SequencedDigests
    <2>2. CASE m.type = "applied"
      <3>1. HandleApplied(m) /\ UNCHANGED <<lastAckSeq, stopped>>
        BY <1>1, <2>2 DEF Receive
      <3> QED
        BY <1>2, <2>2, <3>1, AppliedDigests
    <2>3. CASE m.type = "ack"
      <3>1. HandleAck(m.seq) /\ UNCHANGED stopped
        BY <1>1, <2>3 DEF Receive
      <3> QED
        BY <1>1, <2>3, <3>1, AckDigests
    <2>4. CASE m.type = "error"
      <3>1. HandleError(m.txn) /\ UNCHANGED <<lastAckSeq, stopped>>
        BY <1>1, <2>4 DEF Receive
      <3> QED
        BY <1>2, <2>4, <3>1, ErrorDigests
    <2>5. CASE m.type = "reload"
      <3>1. HandleReload /\ UNCHANGED lastAckSeq
        BY <1>1, <2>5 DEF Receive
      <3> QED
        BY <1>2, <2>5, <3>1, ReloadDigests
    <2> QED
      BY <1>2, <2>1, <2>2, <2>3, <2>4, <2>5, MessageTyped
  <1> QED
    BY <1>1, <1>3, MSDigest

-----------------------------------------------------------------------------
(* The page connects, sends and loses its connection. *)

\* The state's sequences and sets, and the edits made so far.
LEMMA StateTyped ==
  ASSUME MSInv
  PROVE  /\ up \in Seq(Txns) /\ buffer \in Seq(Txns) /\ down \in Seq(Messages)
         /\ log \in Seq(Txns \cup Others) /\ Len(log) \in Nat
         /\ ToSet(up) \subseteq Txns /\ ToSet(buffer) \subseteq Txns
         /\ pending \subseteq Txns /\ timer \subseteq pending
         /\ clientSeq \in Nat /\ Made \subseteq Txns
         /\ persisted \in Nat /\ persisted <= Len(log)
         /\ lastAckSeq \in Nat /\ lastAckSeq <= persisted
PROOF
  <1>1. /\ up \in Seq(Txns) /\ buffer \in Seq(Txns) /\ down \in Seq(Messages)
        /\ log \in Seq(Txns \cup Others) /\ pending \subseteq Txns /\ timer \subseteq pending
        /\ clientSeq \in 0..MaxEdits /\ persisted \in 0..Len(log) /\ lastAckSeq \in Nat
        /\ lastAckSeq <= persisted
    BY DEF MSInv, TypeOK, TrackerFits, Seqs
  <1>2. ToSet(up) \subseteq Txns /\ ToSet(buffer) \subseteq Txns
    BY <1>1, ToSetTyped
  <1>3. Made \subseteq Txns
    BY <1>1 DEF Made, Txns
  <1> QED
    BY <1>1, <1>2, <1>3

LEMMA MSConnect == ASSUME MSInv, Connect  PROVE MSInv'
PROOF
  <1>1. /\ socket = "none" /\ socket' = "connecting"
        /\ UNCHANGED <<buffer, up, down, pending, seq, timer, lastAckSeq, stopped,
                       syncStatus, clientSeq, fate, log, persisted, saved, refused,
                       events, turnedAway, lost, missed>>
    BY DEF Connect, trackerVars, relayVars, faultVars
  <1>2. TypeOK' /\ LogFits' /\ OnlyMade' /\ SocketFits' /\ TrackerFits'
    BY <1>1 DEF MSInv, TypeOK, LogFits, OnlyMade, SocketFits, TrackerFits, Made
  <1>3. MessagesTrue' /\ RefusalsFirst'
    BY <1>1 DEF MSInv, MessagesTrue, TrueMessage, RefusalsFirst, Warned, Refusal
  <1>4. EditsAccounted' /\ EditsOnTheirWay' /\ DurableMeansSaved'
    BY <1>1 DEF MSInv, EditsAccounted, EditsOnTheirWay, DurableMeansSaved, Made
  <1>5. InTheirOrder'
    BY <1>1, OrderStays
  <1> QED
    BY <1>2, <1>3, <1>4, <1>5 DEF MSInv

\* Pending applies are listed in the order they were made: who is not detained comes
\* before a later one, unless it is in the log already.
LEMMA PendingInOrder ==
  ASSUME MSInv, NEW x \in Txns, NEW y \in Txns, x < y, x \notin refused,
         x \notin ToSet(log)
  PROVE  Leads(InOrder(pending), x, y)
PROOF
  <1>1. clientSeq \in Nat /\ pending \in SUBSET (1..clientSeq)
    BY StateTyped DEF MSInv, OnlyMade, Made
  <1>2. /\ InOrder(pending) \in Seq(pending)
        /\ ToSet(InOrder(pending)) = pending
        /\ \A i, j \in DOMAIN InOrder(pending) :
             i < j => InOrder(pending)[i] < InOrder(pending)[j]
    BY <1>1, InOrderListed
  <1>3. CASE y \notin pending
    BY <1>2, <1>3, LeadsNone
  <1>4. CASE y \in pending
    <2>1. ~stopped /\ x \in Made
      BY <1>1, <1>4 DEF MSInv, SocketFits, Made, Txns
    <2>2. x \in pending
      BY <2>1 DEF MSInv, EditsAccounted
    <2>3. PICK i \in DOMAIN InOrder(pending) : InOrder(pending)[i] = x
      BY <1>2, <2>2 DEF ToSet
    <2>4. \A j \in DOMAIN InOrder(pending) : InOrder(pending)[j] = y => i < j
      <3>1. DOMAIN InOrder(pending) \subseteq Int
        BY <1>2
      <3>2. ASSUME NEW j \in DOMAIN InOrder(pending), InOrder(pending)[j] = y, ~(i < j)
            PROVE  FALSE
        <4>1. CASE i = j
          BY <2>3, <3>2, <4>1 DEF Txns
        <4>2. CASE j < i
          BY <1>2, <2>3, <3>2, <4>2 DEF Txns
        <4> QED
          BY <3>1, <3>2, <4>1, <4>2
      <3> QED
        BY <3>2
    <2> QED
      BY <2>3, <2>4 DEF Leads
  <1> QED
    BY <1>3, <1>4

LEMMA MSOpen == ASSUME MSInv, Open  PROVE MSInv'
PROOF
  <1> DEFINE again == InOrder(pending)
  <1>1. /\ socket = "connecting" /\ socket' = "open"
        /\ up' = buffer \o again /\ buffer' = <<>>
        /\ UNCHANGED <<down, pending, seq, timer, lastAckSeq, stopped,
                       syncStatus, clientSeq, fate, log, persisted, saved, refused,
                       events, turnedAway, lost, missed>>
    BY DEF Open, Reconnect, trackerVars, relayVars, faultVars
  <1>2. up = <<>> /\ ToSet(up) = {} /\ ToSet(buffer') = {}
    BY <1>1, ToSetEmpty DEF MSInv, SocketFits
  <1>3. again \in Seq(Txns) /\ ToSet(again) = pending /\ buffer \in Seq(Txns)
    <2>1. clientSeq \in Nat /\ pending \in SUBSET (1..clientSeq) /\ pending \subseteq Txns
      BY StateTyped DEF MSInv, OnlyMade, Made
    <2>2. again \in Seq(pending) /\ ToSet(again) = pending
      BY <2>1, InOrderListed
    <2>3. again \in Seq(Txns)
      BY <2>1, <2>2, SeqWider
    <2> QED
      BY <2>2, <2>3, StateTyped
  <1> HIDE DEF again
  <1>4. up' \in Seq(Txns) /\ ToSet(up') = ToSet(buffer) \cup pending
    BY <1>1, <1>3, ConcatElements
  <1>5. TypeOK'
    BY <1>1, <1>4 DEF MSInv, TypeOK
  <1>6. LogFits' /\ OnlyMade' /\ SocketFits' /\ TrackerFits'
    BY <1>1, <1>2, <1>4 DEF MSInv, LogFits, OnlyMade, SocketFits, TrackerFits, Made
  <1>7. MessagesTrue' /\ RefusalsFirst'
    BY <1>1 DEF MSInv, MessagesTrue, TrueMessage, RefusalsFirst, Warned, Refusal
  <1>8. EditsAccounted' /\ EditsOnTheirWay' /\ DurableMeansSaved'
    BY <1>1, <1>2, <1>4 DEF MSInv, EditsAccounted, EditsOnTheirWay, DurableMeansSaved, Made
  <1>9. InTheirOrder'
    <2>1. ASSUME NEW x \in Txns, NEW y \in Txns, x < y, ~Detained(x, y)'
          PROVE  Before(x, y)'
      <3>1. Before(x, y) /\ x \notin refused
        BY <1>1, <2>1 DEF MSInv, InTheirOrder, Detained
      <3>2. CASE x \in ToSet(log)
        BY <1>1, <3>1, <3>2 DEF Before
      <3>3. CASE x \notin ToSet(log)
        <4>1. Leads(buffer, x, y)
          BY <1>2, <3>1, <3>3 DEF Before
        <4>2. Leads(again, x, y)
          BY <2>1, <3>1, <3>3, PendingInOrder DEF again
        <4>3. Leads(buffer \o again, x, y)
          BY <1>3, <4>1, <4>2, LeadsConcat
        <4>4. Leads(log, x, y)
          BY <3>1 DEF Before
        <4> QED
          BY <1>1, <4>3, <4>4 DEF Before, Leads
      <3> QED
        BY <3>2, <3>3
    <2> QED
      BY <2>1 DEF InTheirOrder
  <1> QED
    BY <1>5, <1>6, <1>7, <1>8, <1>9 DEF MSInv

LEMMA MSBreak == ASSUME MSInv, Break  PROVE MSInv'
PROOF
  <1>1. /\ events < MaxEvents /\ events' = events + 1
        /\ socket = "open" /\ socket' = "connecting"
        /\ up' = <<>> /\ down' = <<>>
        /\ lost' = lost \cup (ToSet(up) \ ToSet(log))
        /\ missed' = missed \cup (refused \cap pending)
        /\ UNCHANGED <<buffer, pending, seq, timer, lastAckSeq, stopped,
                       syncStatus, clientSeq, fate, log, persisted, saved, refused,
                       turnedAway>>
    BY DEF Break, Event, trackerVars, relayVars
  <1>2. buffer = <<>> /\ ToSet(<<>>) = {} /\ \A x, y : Leads(<<>>, x, y)
    BY <1>1, ToSetEmpty DEF MSInv, SocketFits, Leads
  <1>3. TypeOK'
    <2>1. events' \in 0..MaxEvents
      BY <1>1 DEF MSInv, TypeOK
    <2>2. up' \in Seq(Txns) /\ down' \in Seq(Messages)
      BY <1>1
    <2>3. lost' \subseteq Txns /\ missed' \subseteq missed \cup Txns
      BY <1>1, StateTyped DEF MSInv, TypeOK
    <2> QED
      BY <1>1, <2>1, <2>2, <2>3 DEF MSInv, TypeOK
  <1>4. LogFits' /\ OnlyMade' /\ SocketFits' /\ TrackerFits'
    BY <1>1, <1>2 DEF MSInv, LogFits, OnlyMade, SocketFits, TrackerFits, Made
  <1>5. MessagesTrue' /\ RefusalsFirst'
    BY <1>1, <1>2 DEF MessagesTrue, RefusalsFirst
  <1>6. EditsAccounted' /\ EditsOnTheirWay' /\ DurableMeansSaved'
    BY <1>1, <1>2 DEF MSInv, EditsAccounted, EditsOnTheirWay, DurableMeansSaved, Made
  <1>7. InTheirOrder'
    <2>1. ASSUME NEW x \in Txns, NEW y \in Txns, x < y, ~Detained(x, y)'
          PROVE  Leads(log, x, y)
      <3>1. CASE y \in lost' \ lost
        <4>1. y \notin ToSet(log)
          BY <1>1, <3>1
        <4> QED
          BY <4>1, StateTyped, LeadsNone
      <3>2. CASE y \notin lost' \ lost
        <4>1. ~Detained(x, y)
          BY <1>1, <2>1, <3>2 DEF Detained
        <4> QED
          BY <2>1, <4>1 DEF MSInv, InTheirOrder, Before
      <3> QED
        BY <3>1, <3>2
    <2> QED
      BY <1>1, <1>2, <2>1 DEF InTheirOrder, Before, Leads
  <1> QED
    BY <1>3, <1>4, <1>5, <1>6, <1>7 DEF MSInv

LEMMA MSClose == ASSUME MSInv, Close  PROVE MSInv'
PROOF
  <1>1. /\ socket' = "closed" /\ buffer' = <<>> /\ down' = <<>> /\ stopped' = TRUE
        /\ Delete(pending, "closed") /\ UpdateUnsaved
        /\ UNCHANGED <<up, lastAckSeq, clientSeq, log, persisted, saved, refused,
                       events, turnedAway, lost, missed>>
    BY DEF Close, relayVars, faultVars
  <1>2. ToSet(<<>>) = {} /\ \A x, y : Leads(<<>>, x, y)
    BY ToSetEmpty DEF Leads
  <1>3. /\ pending' = {} /\ timer' = {} /\ syncStatus' = "idle"
        /\ seq' \in [Txns -> Seqs] /\ fate' \in [Txns -> Fates]
        /\ \A x \in Txns : seq'[x] # 0 => seq'[x] \in 1..Len(log) /\ log[seq'[x]] = x
        /\ \A x \in Txns : fate'[x] = "durable" => fate[x] = "durable"
    <2>1. pending' = {} /\ timer' = {} /\ syncStatus' = "idle"
      BY <1>1, StateTyped DEF Delete, UpdateUnsaved
    <2>2. seq' \in [Txns -> Seqs] /\ fate' \in [Txns -> Fates]
      BY <1>1 DEF Delete, MSInv, TypeOK, Seqs, Fates
    <2>3. /\ \A x \in Txns : seq'[x] # 0 => seq'[x] \in 1..Len(log) /\ log[seq'[x]] = x
          /\ \A x \in Txns : fate'[x] = "durable" => fate[x] = "durable"
      BY <1>1 DEF Delete, MSInv, TrackerFits
    <2> QED
      BY <2>1, <2>2, <2>3
  <1>4. TypeOK'
    <2>1. buffer' \in Seq(Txns) /\ down' \in Seq(Messages)
      BY <1>1
    <2> QED
      BY <1>1, <1>3, <2>1 DEF MSInv, TypeOK
  <1>5. LogFits' /\ OnlyMade' /\ SocketFits' /\ TrackerFits'
    BY <1>1, <1>2, <1>3 DEF MSInv, LogFits, OnlyMade, SocketFits, TrackerFits, Made
  <1>6. MessagesTrue' /\ RefusalsFirst' /\ EditsAccounted' /\ EditsOnTheirWay'
    BY <1>1, <1>2, <1>3 DEF MessagesTrue, RefusalsFirst, EditsAccounted, EditsOnTheirWay
  <1>7. InTheirOrder'
    BY <1>1, <1>2 DEF MSInv, InTheirOrder, Detained, Before, Leads
  <1>8. DurableMeansSaved'
    BY <1>1, <1>3 DEF MSInv, DurableMeansSaved
  <1> QED
    BY <1>4, <1>5, <1>6, <1>7, <1>8 DEF MSInv

\* One apply is sent: it goes behind all that is under way.
LEMMA SendOne ==
  ASSUME MSInv, NEW e \in Txns, socket \in {"connecting", "open"}, SendApplies(<<e>>)
  PROVE  /\ up' \in Seq(Txns) /\ buffer' \in Seq(Txns)
         /\ UNCHANGED <<socket, down>>
         /\ socket = "connecting" => up' = up
         /\ socket = "open" => buffer' = buffer
         /\ ToSet(up') \cup ToSet(buffer') = ToSet(up) \cup ToSet(buffer) \cup {e}
PROOF
  <1>1. /\ up \in Seq(Txns) /\ buffer \in Seq(Txns) /\ <<e>> \in Seq(Txns)
        /\ ToSet(<<e>>) = {e}
    BY StateTyped DEF ToSet
  <1>2. /\ up \o <<e>> \in Seq(Txns) /\ ToSet(up \o <<e>>) = ToSet(up) \cup {e}
        /\ buffer \o <<e>> \in Seq(Txns) /\ ToSet(buffer \o <<e>>) = ToSet(buffer) \cup {e}
    <2>1. ASSUME NEW s \in Seq(Txns)
          PROVE  s \o <<e>> \in Seq(Txns) /\ ToSet(s \o <<e>>) = ToSet(s) \cup {e}
      <3>1. /\ Append(s, e) \in Seq(Txns) /\ Append(s, e) = s \o <<e>>
            /\ ToSet(Append(s, e)) = ToSet(s) \cup {e}
        BY AppendElements
      <3> QED
        BY <3>1
    <2> QED
      BY <1>1, <2>1
  <1>3. CASE socket = "open"
    BY <1>1, <1>2, <1>3 DEF SendApplies
  <1>4. CASE socket = "connecting"
    BY <1>1, <1>2, <1>4 DEF SendApplies
  <1> QED
    BY <1>3, <1>4

LEMMA SentInOrder ==
  ASSUME MSInv, NEW e \in Txns, socket \in {"connecting", "open"}, SendApplies(<<e>>),
         UNCHANGED <<log, lost, refused, turnedAway>>,
         \A x \in Txns : x < e /\ ~Detained(x, e) =>
           x \in ToSet(log) \cup ToSet(up) \cup ToSet(buffer)
  PROVE  InTheirOrder'
PROOF
  <1>1. /\ up \in Seq(Txns) /\ buffer \in Seq(Txns) /\ <<e>> \in Seq(Txns)
        /\ ToSet(<<e>>) = {e}
    BY StateTyped DEF ToSet
  <1> SUFFICES ASSUME NEW x \in Txns, NEW y \in Txns, x < y, ~Detained(x, y)'
               PROVE  Before(x, y)'
    BY DEF InTheirOrder
  <1>2. ~Detained(x, y) /\ Before(x, y)
    BY DEF MSInv, InTheirOrder, Detained
  <1>3. x \in ToSet(log) \cup ToSet(up) \cup ToSet(buffer) \/ Leads(<<e>>, x, y)
    <2>1. CASE y = e
      BY <1>2, <2>1
    <2>2. CASE y # e
      BY <1>1, <2>2, LeadsNone
    <2> QED
      BY <2>1, <2>2
  <1>4. CASE x \in ToSet(log)
    BY <1>2, <1>4 DEF Before, Leads
  <1>5. CASE x \notin ToSet(log) /\ socket = "open"
    <2>1. buffer = <<>> /\ ToSet(buffer) = {} /\ buffer' = <<>> /\ up' = up \o <<e>>
      BY <1>5, ToSetEmpty DEF MSInv, SocketFits, SendApplies
    <2>2. Leads(up, x, y)
      BY <1>2, <1>5 DEF Before
    <2>3. Leads(up \o <<e>>, x, y)
      BY <1>1, <1>3, <1>5, <2>1, <2>2, LeadsConcat
    <2> QED
      BY <1>2, <2>1, <2>3 DEF Before, Leads
  <1>6. CASE x \notin ToSet(log) /\ socket = "connecting"
    <2>1. up = <<>> /\ ToSet(up) = {} /\ up' = up /\ buffer' = buffer \o <<e>>
      BY <1>6, ToSetEmpty DEF MSInv, SocketFits, SendApplies
    <2>2. Leads(buffer, x, y)
      BY <1>2, <1>6, <2>1 DEF Before
    <2>3. Leads(buffer \o <<e>>, x, y)
      BY <1>1, <1>3, <1>6, <2>1, <2>2, LeadsConcat
    <2> QED
      BY <1>2, <2>1, <2>3 DEF Before, Leads
  <1> QED
    BY <1>4, <1>5, <1>6

LEMMA MSEdit == ASSUME MSInv, NEW e \in Txns, Edit(e)  PROVE MSInv'
PROOF
  <1>1. /\ socket \in {"connecting", "open"} /\ e = clientSeq + 1 /\ clientSeq' = e
        /\ UpdateUnsaved
        /\ UNCHANGED <<seq, timer, lastAckSeq, stopped, log, persisted, saved, refused,
                       events, turnedAway, lost, missed>>
    BY DEF Edit, relayVars, faultVars
  <1>2. /\ clientSeq \in Nat /\ Made' = Made \cup {e} /\ e \notin Made
        /\ clientSeq' \in 0..MaxEdits
    BY <1>1, StateTyped DEF Made, Txns
  <1>3. /\ e \notin ToSet(up) \cup ToSet(buffer) \cup pending \cup lost \cup refused
        /\ e \notin ToSet(log)
    BY <1>2 DEF MSInv, OnlyMade
  <1>4. CASE stopped
    <2>1. fate' = [fate EXCEPT ![e] = "ignored"]
          /\ UNCHANGED <<pending, socket, buffer, up, down>>
      BY <1>4 DEF Edit, socketVars
    <2>2. fate' \in [Txns -> Fates] /\ \A x \in Txns : fate'[x] = "durable" => fate[x] = "durable"
      BY <2>1 DEF MSInv, TypeOK, Fates
    <2>3. TypeOK'
      BY <1>1, <1>2, <2>1, <2>2 DEF MSInv, TypeOK, UpdateUnsaved
    <2>4. LogFits' /\ OnlyMade' /\ SocketFits' /\ TrackerFits'
      BY <1>1, <1>2, <2>1 DEF MSInv, LogFits, OnlyMade, SocketFits, TrackerFits, UpdateUnsaved
    <2>5. MessagesTrue' /\ RefusalsFirst'
      BY <1>1, <2>1 DEF MSInv, MessagesTrue, TrueMessage, RefusalsFirst, Warned, Refusal
    <2>6. EditsAccounted' /\ EditsOnTheirWay' /\ DurableMeansSaved'
      BY <1>1, <1>4, <2>2 DEF MSInv, EditsAccounted, EditsOnTheirWay, DurableMeansSaved
    <2>7. InTheirOrder'
      BY <1>1, <2>1, OrderStays
    <2> QED
      BY <2>3, <2>4, <2>5, <2>6, <2>7 DEF MSInv
  <1>5. CASE ~stopped
    <2>1. /\ fate' = [fate EXCEPT ![e] = "pending"]
          /\ pending' = pending \cup {e}
          /\ SendApplies(<<e>>)
      BY <1>5 DEF Edit
    <2>2. /\ up' \in Seq(Txns) /\ buffer' \in Seq(Txns)
          /\ UNCHANGED <<socket, down>>
          /\ socket = "connecting" => up' = up
          /\ socket = "open" => buffer' = buffer
          /\ ToSet(up') \cup ToSet(buffer') = ToSet(up) \cup ToSet(buffer) \cup {e}
      BY <1>1, <2>1, SendOne
    <2>3. /\ fate' \in [Txns -> Fates]
          /\ fate'[e] = "pending" /\ \A x \in Txns \ {e} : fate'[x] = fate[x]
      BY <2>1 DEF MSInv, TypeOK, Fates
    <2>4. TypeOK'
      BY <1>1, <1>2, <2>1, <2>2, <2>3 DEF MSInv, TypeOK, UpdateUnsaved
    <2>5. LogFits' /\ OnlyMade'
      BY <1>1, <1>2, <2>1, <2>2 DEF MSInv, LogFits, OnlyMade
    <2>6. SocketFits' /\ TrackerFits'
      BY <1>1, <1>5, <2>1, <2>2 DEF MSInv, SocketFits, TrackerFits, UpdateUnsaved
    <2>7. MessagesTrue'
      BY <1>1, <2>2 DEF MSInv, MessagesTrue, TrueMessage
    <2>8. RefusalsFirst'
      BY <1>1, <1>3, <2>1, <2>2 DEF MSInv, RefusalsFirst, Warned, Refusal
    <2>9. EditsAccounted'
      <3>1. \A x \in Made : x \in Txns \ {e}
        BY <1>2, StateTyped
      <3> QED
        BY <1>1, <1>2, <1>5, <2>1, <2>3, <3>1 DEF MSInv, EditsAccounted
    <2>10. EditsOnTheirWay'
      BY <1>1, <1>2, <1>5, <2>2 DEF MSInv, EditsOnTheirWay
    <2>11. DurableMeansSaved'
      BY <1>1, <2>3 DEF MSInv, DurableMeansSaved
    <2>12. InTheirOrder'
      <3>1. ASSUME NEW x \in Txns, x < e, ~Detained(x, e)
            PROVE  x \in ToSet(log) \cup ToSet(up) \cup ToSet(buffer)
        <4>1. x \in Made
          BY <1>1, <1>2, <3>1 DEF Made, Txns
        <4>2. x \notin turnedAway \cup refused \cup lost
          BY <1>3, <3>1 DEF Detained
        <4> QED
          BY <1>5, <4>1, <4>2 DEF MSInv, EditsOnTheirWay
      <3> QED
        BY <1>1, <2>1, <3>1, SentInOrder
    <2> QED
      BY <2>4, <2>5, <2>6, <2>7, <2>8, <2>9, <2>10, <2>11, <2>12 DEF MSInv
  <1> QED
    BY <1>4, <1>5

LEMMA MSRetryTimer == ASSUME MSInv, NEW e \in Txns, RetryTimer(e)  PROVE MSInv'
PROOF
  <1>1. /\ e \in timer /\ e \in pending
        /\ SendApplies(<<e>>)
        /\ timer' \subseteq timer
        /\ UNCHANGED <<pending, seq, lastAckSeq, stopped, syncStatus, clientSeq, fate,
                       log, persisted, saved, refused, events, turnedAway, lost, missed>>
    BY DEF RetryTimer, relayVars, faultVars
  <1>2. e \in Made /\ ~stopped /\ socket \in {"connecting", "open"}
    <2>1. e \in Made /\ ~stopped
      BY <1>1 DEF MSInv, OnlyMade, SocketFits
    <2>2. socket \in {"none", "connecting", "open", "closed"} /\ clientSeq # 0
      BY <2>1 DEF Made, MSInv, TypeOK
    <2> QED
      BY <2>1, <2>2 DEF MSInv, SocketFits
  <1>3. /\ up' \in Seq(Txns) /\ buffer' \in Seq(Txns)
        /\ UNCHANGED <<socket, down>>
        /\ socket = "connecting" => up' = up
        /\ socket = "open" => buffer' = buffer
        /\ ToSet(up') \cup ToSet(buffer') = ToSet(up) \cup ToSet(buffer) \cup {e}
    BY <1>1, <1>2, SendOne
  <1>4. TypeOK'
    BY <1>1, <1>3 DEF MSInv, TypeOK
  <1>5. LogFits' /\ OnlyMade'
    BY <1>1, <1>2, <1>3 DEF MSInv, LogFits, OnlyMade, Made
  <1>6. SocketFits' /\ TrackerFits'
    BY <1>1, <1>2, <1>3 DEF MSInv, SocketFits, TrackerFits
  <1>7. MessagesTrue' /\ RefusalsFirst'
    BY <1>1, <1>3 DEF MSInv, MessagesTrue, TrueMessage, RefusalsFirst, Warned, Refusal
  <1>8. EditsAccounted' /\ EditsOnTheirWay' /\ DurableMeansSaved'
    BY <1>1, <1>3 DEF MSInv, EditsAccounted, EditsOnTheirWay, DurableMeansSaved, Made
  <1>9. InTheirOrder'
    <2>1. ASSUME NEW x \in Txns, x < e, ~Detained(x, e)
          PROVE  x \in ToSet(log) \cup ToSet(up) \cup ToSet(buffer)
      <3>1. x \in Made
        BY <1>2, <2>1, StateTyped DEF Made, Txns
      <3>2. CASE x \notin lost
        BY <1>2, <2>1, <3>1, <3>2 DEF Detained, MSInv, EditsOnTheirWay
      <3>3. CASE x \in lost
        <4>1. e \in lost \ turnedAway
          BY <2>1, <3>3 DEF Detained
        <4>2. e \in ToSet(log)
          BY <1>1, <4>1 DEF MSInv, TrackerFits
        <4>3. Leads(log, x, e)
          BY <2>1 DEF MSInv, InTheirOrder, Before
        <4> QED
          BY <4>2, <4>3 DEF Leads, ToSet
      <3> QED
        BY <3>2, <3>3
    <2> QED
      BY <1>1, <1>2, <2>1, SentInOrder
  <1> QED
    BY <1>4, <1>5, <1>6, <1>7, <1>8, <1>9 DEF MSInv

-----------------------------------------------------------------------------
(* The relay works on what it received. *)

\* What is left of the invariant once the log, the order and the refusals are in
\* place after a step of the relay.
LEMMA RelayTells ==
  ASSUME MSInv, RelayGrows, NEW ms \in Seq(Messages), down' = Tell(ms) \/ down' = down,
         \A m \in ToSet(ms) : TrueMessage(m)',
         UNCHANGED <<socket, buffer, trackerVars, lost>>,
         up' = up \/ (up # <<>> /\ up' = Tail(up)),
         ToSet(up) \subseteq ToSet(up') \cup ToSet(log') \cup refused' \cup turnedAway',
         (ToSet(log') \cup refused') \cap Txns \subseteq Made,
         saved \subseteq saved', missed \subseteq missed',
         saved' \cup refused' \cup missed' \subseteq ToSet(log') \cup Txns,
         persisted' <= Len(log'), turnedAway' \subseteq Txns, events' \in 0..MaxEvents,
         LogFits', RefusalsFirst', InTheirOrder'
  PROVE  MSInv'
PROOF
  <1>1. /\ up' \in Seq(Txns) /\ ToSet(up') \subseteq ToSet(up)
        /\ up # <<>> \/ up' = up
    <2>1. up \in Seq(Txns)
      BY StateTyped
    <2>2. CASE up' = up
      BY <2>1, <2>2
    <2>3. CASE up # <<>> /\ up' = Tail(up)
      BY <2>1, <2>3, TailElements
    <2> QED
      BY <2>2, <2>3
  <1>2. down' \in Seq(Messages) /\ MessagesTrue'
    BY TellTrue
  <1>3. ToSet(log) \subseteq ToSet(log') /\ log' \in Seq(Txns \cup Others) /\ Len(log') \in Nat
    BY LogKept DEF RelayGrows
  <1>4. UNCHANGED <<pending, seq, timer, lastAckSeq, stopped, syncStatus, clientSeq, fate>>
    BY DEF trackerVars
  <1>5. TypeOK'
    <2>1. persisted' \in 0..Len(log')
      BY <1>3 DEF RelayGrows
    <2> QED
      BY <1>1, <1>2, <1>3, <1>4, <2>1 DEF MSInv, TypeOK
  <1>6. OnlyMade'
    BY <1>1, <1>4 DEF MSInv, OnlyMade, Made
  <1>7. SocketFits'
    BY <1>1, <1>4 DEF MSInv, SocketFits
  <1>8. TrackerFits'
    <2>1. lastAckSeq <= persisted'
      BY StateTyped DEF RelayGrows
    <2>2. \A x \in Txns : seq[x] # 0 => seq[x] \in 1..Len(log') /\ log'[seq[x]] = x
      <3>1. Len(log) \in Nat /\ Len(log) <= Len(log')
        BY StateTyped DEF RelayGrows
      <3> QED
        BY <1>3, <3>1 DEF MSInv, TrackerFits, RelayGrows
    <2> QED
      BY <1>3, <1>4, <2>1, <2>2 DEF MSInv, TrackerFits, RelayGrows
  <1>9. EditsAccounted'
    BY <1>3, <1>4 DEF MSInv, EditsAccounted, Made, RelayGrows
  <1>10. EditsOnTheirWay'
    BY <1>3, <1>4 DEF MSInv, EditsOnTheirWay, Made, RelayGrows
  <1>11. DurableMeansSaved'
    BY <1>4 DEF MSInv, DurableMeansSaved
  <1> QED
    BY <1>2, <1>5, <1>6, <1>7, <1>8, <1>9, <1>10, <1>11 DEF MSInv

\* A refusal comes in time when what is newly refused is warned of, or its author
\* cannot be reached.
LEMMA RefusalsGrow ==
  ASSUME MSInv, RelayGrows, NEW ms \in Seq(Messages), down' = Tell(ms) \/ down' = down,
         UNCHANGED <<lastAckSeq, pending>>, missed \subseteq missed',
         \A x \in (refused' \cap pending) \ missed' : \A n \in 1..Len(log') :
           log'[n] = x => (n \in 1..Len(log) /\ x \in refused) \/ Warned(n, x)'
  PROVE  RefusalsFirst'
PROOF
  <1>1. Len(log) \in Nat /\ Len(log') \in Nat
    BY StateTyped DEF RelayGrows
  <1>2. ASSUME NEW n \in 1..Len(log'), NEW x, x = log'[n],
               x \in (refused' \cap pending') \ missed'
        PROVE  Warned(n, x)'
    <2>1. CASE n \in 1..Len(log) /\ x \in refused
      <3>1. log[n] = x
        BY <1>2, <2>1 DEF RelayGrows
      <3>2. Warned(n, x)
        BY <1>2, <2>1, <3>1 DEF MSInv, RefusalsFirst
      <3>3. n \in Nat
        BY <2>1
      <3> QED
        BY <3>2, <3>3, WarningStays
    <2> QED
      BY <1>2, <2>1
  <1>3. ASSUME NEW n \in 1..Len(log'), log'[n] \in (refused' \cap pending') \ missed'
        PROVE  Warned(n, log[n])'
    <2>1. PICK x : x = log'[n]
      OBVIOUS
    <2>2. Warned(n, x)'
      BY <1>2, <1>3, <2>1
    <2> QED
      BY <2>1, <2>2
  <1> QED
    BY <1>3 DEF RefusalsFirst

\* A refusal told now goes ahead of every ack of what is not worked on yet.
LEMMA WarnedNow ==
  ASSUME MSInv, socket = "open", NEW m \in Messages, NEW x, Refusal(m, x),
         down' = Tell(<<m>>), UNCHANGED lastAckSeq, NEW n \in Nat, n > persisted
  PROVE  Warned(n, x)'
PROOF
  <1>1. /\ down \in Seq(Messages) /\ persisted \in Nat /\ lastAckSeq \in Nat
        /\ lastAckSeq <= persisted
    BY StateTyped
  <1>2. down' = Append(down, m) /\ Len(down) \in Nat /\ DOMAIN down = 1..Len(down)
    BY <1>1 DEF Tell
  <1>3. /\ \A j \in DOMAIN down : j \in DOMAIN down' /\ down'[j] = down[j]
        /\ down'[Len(down) + 1] = m /\ DOMAIN down' = 1..(Len(down) + 1)
        /\ \A j \in DOMAIN down' : j \in DOMAIN down \/ j = Len(down) + 1
    <2>1. /\ \A j \in 1..Len(down) : Append(down, m)[j] = down[j]
          /\ Append(down, m)[Len(down) + 1] = m
      BY <1>1
    <2>2. DOMAIN Append(down, m) = 1..(Len(down) + 1)
      BY <1>1
    <2> QED
      BY <1>2, <2>1, <2>2
  <1>4. \A j \in DOMAIN down : down[j].type = "ack" => down[j].seq < n
    <2>1. ASSUME NEW j \in DOMAIN down, down[j].type = "ack"
          PROVE  down[j].seq <= persisted /\ down[j].seq \in Nat
      <3>1. down[j] \in Messages /\ TrueMessage(down[j])
        BY <1>1 DEF MSInv, MessagesTrue, ToSet
      <3> QED
        BY <2>1, <3>1, MessageTyped DEF TrueMessage
    <2> QED
      BY <1>1, <2>1
  <1>5. \A j \in DOMAIN down' :
          j < Len(down) + 1 /\ down'[j].type = "ack" => down'[j].seq < n
    BY <1>2, <1>3, <1>4
  <1>6. Len(down) + 1 \in DOMAIN down' /\ Refusal(down'[Len(down) + 1], x)
    BY <1>2, <1>3
  <1>7. lastAckSeq' < n
    BY <1>1
  <1>8. PICK i : i = Len(down) + 1
    OBVIOUS
  <1>9. /\ i \in DOMAIN down' /\ Refusal(down'[i], x)
        /\ \A j \in DOMAIN down' : j < i /\ down'[j].type = "ack" => down'[j].seq < n
    BY <1>5, <1>6, <1>8
  <1> QED
    BY <1>7, <1>9 DEF Warned

\* The order stays when the relay takes an apply that it knows or will not sequence.
LEMMA OrderReceived ==
  ASSUME MSInv, RelayGrows, up # <<>>, up' = Tail(up), UNCHANGED <<log, buffer, lost>>,
         Head(up) \in ToSet(log) \cup refused' \cup turnedAway'
  PROVE  InTheirOrder'
PROOF
  <1>1. up \in Seq(Txns) /\ ToSet(up) = {Head(up)} \cup ToSet(up')
    BY StateTyped, TailElements
  <1>2. ASSUME NEW x \in Txns, NEW y \in Txns, x < y, ~Detained(x, y)'
        PROVE  Before(x, y)'
    <2>1. Before(x, y) /\ x \notin refused' \cup turnedAway'
      BY <1>2 DEF MSInv, InTheirOrder, Detained, RelayGrows
    <2>2. x \in ToSet(log) \/ Leads(Tail(up), x, y)
      BY <1>1, <2>1, LeadsTail DEF Before
    <2>3. x \in ToSet(log) \cup ToSet(up') \/ Leads(buffer, x, y)
      BY <1>1, <2>1 DEF Before
    <2>4. Leads(log, x, y)
      BY <2>1 DEF Before
    <2> QED
      BY <2>2, <2>3, <2>4 DEF Before, Leads
  <1> QED
    BY <1>2 DEF InTheirOrder

\* The log with one more transaction.
LEMMA LogAppended ==
  ASSUME MSInv, NEW a \in Txns \cup Others, a \notin ToSet(log), log' = Append(log, a),
         UNCHANGED <<persisted, saved, refused>>, turnedAway \subseteq turnedAway'
  PROVE  /\ RelayGrows /\ LogFits'
         /\ ToSet(log') = ToSet(log) \cup {a}
         /\ Len(log') = Len(log) + 1 /\ log'[Len(log')] = a
PROOF
  <1>1. log \in Seq(Txns \cup Others) /\ Len(log) \in Nat /\ persisted \in Nat
        /\ persisted <= Len(log) /\ DOMAIN log = 1..Len(log)
    BY StateTyped
  <1>2. /\ log' \in Seq(Txns \cup Others) /\ Len(log') = Len(log) + 1
        /\ \A i \in 1..Len(log) : log'[i] = log[i]
        /\ log'[Len(log) + 1] = a
        /\ ToSet(log') = ToSet(log) \cup {a}
    <2>1. ToSet(Append(log, a)) = ToSet(log) \cup {a}
      BY <1>1, AppendElements
    <2>2. /\ Append(log, a) \in Seq(Txns \cup Others)
          /\ Len(Append(log, a)) = Len(log) + 1
          /\ \A i \in 1..Len(log) : Append(log, a)[i] = log[i]
          /\ Append(log, a)[Len(log) + 1] = a
      BY <1>1
    <2> QED
      BY <2>1, <2>2
  <1>3. RelayGrows
    BY <1>1, <1>2 DEF RelayGrows
  <1>4. \A i \in 1..Len(log) : log[i] # a
    BY <1>1 DEF ToSet
  <1>5. \A i, j \in 1..Len(log') : log'[i] = log'[j] => i = j
    <2>1. \A i \in 1..Len(log') : i \in 1..Len(log) \/ i = Len(log) + 1
      BY <1>1, <1>2
    <2> QED
      BY <1>2, <1>4, <2>1 DEF MSInv, LogFits
  <1>6. \A n \in 1..persisted : log'[n] \in saved \cup refused
    <2>1. \A n \in 1..persisted : n \in 1..Len(log)
      BY <1>1
    <2> QED
      BY <1>2, <2>1 DEF MSInv, LogFits
  <1> QED
    BY <1>2, <1>3, <1>5, <1>6 DEF LogFits

LEMMA MSRepeats ==
  ASSUME MSInv, up # <<>>, RelayRepeats(Head(up)), up' = Tail(up),
         UNCHANGED <<socket, buffer, trackerVars, lost, missed>>
  PROVE  MSInv'
PROOF
  <1> DEFINE a == Head(up)
             ms == IF a \in refused THEN <<Applied(a, 0, "failed")>>
                   ELSE IF Position(a) > persisted
                     THEN <<Applied(a, Position(a), "settled")>>
                   ELSE <<Applied(a, Position(a), "settled"), Ack(persisted)>>
  <1>1. /\ a \in ToSet(log) \cup refused /\ down' = Tell(ms)
        /\ UNCHANGED <<log, persisted, saved, refused, events, turnedAway>>
    BY DEF RelayRepeats, relayVars
  <1>2. a \in Txns /\ ToSet(up) = {a} \cup ToSet(up')
    BY StateTyped, TailElements
  <1>3. RelayGrows
    BY <1>1, RelayStays
  <1>4. ms \in Seq(Messages) /\ \A m \in ToSet(ms) : TrueMessage(m)'
    <2>1. CASE a \in refused
      <3>1. PICK m1 \in Messages :
              /\ m1 = Applied(a, 0, "failed")
              /\ m1.type = "applied" /\ m1.txn = a /\ m1.status = "failed"
        BY <1>2, MessagesMade
      <3>2. TrueMessage(m1)'
        BY <1>1, <2>1, <3>1 DEF TrueMessage
      <3>3. ms = <<m1>>
        BY <2>1, <3>1
      <3> HIDE DEF ms
      <3> QED
        BY <3>1, <3>2, <3>3, OneMessage
    <2>2. CASE a \notin refused
      <3>1. Position(a) \in 1..Len(log) /\ log[Position(a)] = a
        <4>1. \E n \in 1..Len(log) : log[n] = a
          BY <1>1, <2>2, StateTyped DEF ToSet
        <4> QED
          BY <4>1 DEF Position
      <3>2. PICK m1 \in Messages :
              /\ m1 = Applied(a, Position(a), "settled")
              /\ m1.type = "applied" /\ m1.status = "settled"
              /\ m1.txn = a /\ m1.seq = Position(a)
        BY <1>2, <3>1, StateTyped, MessagesMade
      <3>3. PICK m2 \in Messages : m2 = Ack(persisted) /\ m2.type = "ack" /\ m2.seq = persisted
        BY StateTyped, MessagesMade
      <3>4. TrueMessage(m1)' /\ TrueMessage(m2)'
        <4>1. m1.seq \in 1..Len(log) /\ log[m1.seq] = m1.txn
          BY <3>1, <3>2
        <4> QED
          BY <1>1, <3>2, <3>3, <4>1, StateTyped DEF TrueMessage
      <3>5. ms = <<m1>> \/ ms = <<m1, m2>>
        BY <2>2, <3>2, <3>3
      <3>6. /\ <<m1>> \in Seq(Messages) /\ ToSet(<<m1>>) = {m1}
            /\ <<m1, m2>> \in Seq(Messages) /\ ToSet(<<m1, m2>>) = {m1, m2}
        BY DEF ToSet
      <3> HIDE DEF ms
      <3> QED
        BY <3>4, <3>5, <3>6
    <2> QED
      BY <2>1, <2>2
  <1> HIDE DEF ms
  <1>5. RefusalsFirst'
    BY <1>1, <1>4, RefusalsStay DEF trackerVars
  <1>6. InTheirOrder'
    BY <1>1, <1>3, OrderReceived
  <1>7. LogFits'
    BY <1>1 DEF MSInv, LogFits
  <1>8. /\ (ToSet(log) \cup refused) \cap Txns \subseteq Made
        /\ saved \cup refused \cup missed \subseteq ToSet(log) \cup Txns
        /\ persisted <= Len(log) /\ turnedAway \subseteq Txns /\ events \in 0..MaxEvents
    BY StateTyped DEF MSInv, OnlyMade, TypeOK
  <1> QED
    BY <1>1, <1>2, <1>3, <1>4, <1>5, <1>6, <1>7, <1>8, RelayTells

LEMMA MSSequences ==
  ASSUME MSInv, up # <<>>, RelaySequences(Head(up)), up' = Tail(up),
         UNCHANGED <<socket, buffer, trackerVars, lost, missed>>
  PROVE  MSInv'
PROOF
  <1> DEFINE a == Head(up)
             m == Broadcast(a, Len(log'))
  <1>1. /\ a \notin ToSet(log) \cup refused /\ down' = Tell(<<m>>)
        /\ log' = Append(log, a)
        /\ UNCHANGED <<persisted, saved, refused, events, turnedAway>>
    BY DEF RelaySequences
  <1>2. a \in Txns /\ up \in Seq(Txns) /\ ToSet(up) = {a} \cup ToSet(up')
    BY StateTyped, TailElements
  <1>3. /\ RelayGrows /\ LogFits'
        /\ ToSet(log') = ToSet(log) \cup {a}
        /\ Len(log') = Len(log) + 1 /\ log'[Len(log')] = a
    BY <1>1, <1>2, LogAppended
  <1>4. <<m>> \in Seq(Messages) /\ \A k \in ToSet(<<m>>) : TrueMessage(k)'
    <2>1. Len(log') \in 1..Len(log') /\ Len(log') \in Nat
      BY <1>3, StateTyped
    <2>2. PICK k \in Messages :
            k = m /\ k.type = "broadcast" /\ k.txn = a /\ k.seq = Len(log')
      BY <1>2, <2>1, MessagesMade
    <2>3. TrueMessage(k)'
      BY <1>3, <2>1, <2>2 DEF TrueMessage
    <2> HIDE DEF m
    <2> QED
      BY <2>2, <2>3, OneMessage
  <1> HIDE DEF m
  <1>5. RefusalsFirst'
    <2>1. \A n \in 1..Len(log') : n \in 1..Len(log) \/ log'[n] = a
      <3>1. \A n \in 1..Len(log') : n \in 1..Len(log) \/ n = Len(log')
        BY <1>3, StateTyped
      <3> QED
        BY <1>3, <3>1
    <2>2. \A x \in (refused' \cap pending) \ missed' : \A n \in 1..Len(log') :
            log'[n] = x => n \in 1..Len(log) /\ x \in refused
      BY <1>1, <2>1
    <2> QED
      BY <1>1, <1>3, <1>4, <2>2, RefusalsGrow DEF trackerVars
  <1>6. InTheirOrder'
    <2>1. ASSUME NEW x \in Txns, NEW y \in Txns, x < y, ~Detained(x, y)'
          PROVE  Before(x, y)'
      <3>1. Before(x, y)
        BY <1>1, <2>1 DEF MSInv, InTheirOrder, Detained
      <3>2. x \in ToSet(log) \/ Leads(<<a>>, x, y)
        <4>1. CASE y = a
          <5>1. 1 \in DOMAIN up /\ up[1] = y /\ \A i \in DOMAIN up : ~(i < 1)
            BY <1>2, <4>1
          <5>2. ~Leads(up, x, y)
            BY <5>1 DEF Leads
          <5> QED
            BY <3>1, <5>2 DEF Before
        <4>2. CASE y # a
          BY <4>2 DEF Leads
        <4> QED
          BY <4>1, <4>2
      <3>3. Leads(log', x, y)
        <4>1. log \in Seq(Txns \cup Others) /\ <<a>> \in Seq(Txns \cup Others)
              /\ log' = log \o <<a>>
          BY <1>1, <1>2, StateTyped
        <4>2. Leads(log \o <<a>>, x, y)
          BY <3>1, <3>2, <4>1, LeadsConcat DEF Before
        <4> QED
          BY <4>1, <4>2
      <3>4. x \in ToSet(log') \/ Leads(Tail(up), x, y)
        BY <1>2, <1>3, <3>1, LeadsTail DEF Before
      <3>5. x \in ToSet(log') \cup ToSet(up') \/ Leads(buffer, x, y)
        BY <1>2, <1>3, <3>1 DEF Before
      <3> QED
        BY <3>3, <3>4, <3>5 DEF Before, Leads
    <2> QED
      BY <2>1 DEF InTheirOrder
  <1>7. /\ (ToSet(log') \cup refused) \cap Txns \subseteq Made
        /\ saved \cup refused \cup missed \subseteq ToSet(log') \cup Txns
        /\ persisted <= Len(log') /\ turnedAway \subseteq Txns /\ events \in 0..MaxEvents
    BY <1>2, <1>3, StateTyped DEF MSInv, OnlyMade, TypeOK
  <1> QED
    BY <1>1, <1>2, <1>3, <1>4, <1>5, <1>6, <1>7, RelayTells

LEMMA MSDrops ==
  ASSUME MSInv, up # <<>>, RelayDrops(Head(up)), up' = Tail(up),
         UNCHANGED <<socket, buffer, trackerVars, lost, missed>>
  PROVE  MSInv'
PROOF
  <1> DEFINE a == Head(up)
             m == Applied(a, 0, "dropped")
  <1>1. /\ a \notin ToSet(log) \cup refused /\ down' = Tell(<<m>>)
        /\ refused' = refused \cup {a}
        /\ UNCHANGED <<log, persisted, saved, events, turnedAway>>
    BY DEF RelayDrops
  <1>2. a \in Txns /\ a \in Made /\ ToSet(up) = {a} \cup ToSet(up')
    <2>1. a \in Txns /\ ToSet(up) = {a} \cup ToSet(up')
      BY StateTyped, TailElements
    <2> QED
      BY <2>1 DEF MSInv, OnlyMade
  <1>3. RelayGrows /\ LogFits'
    BY <1>1, StateTyped DEF RelayGrows, MSInv, LogFits
  <1>4. <<m>> \in Seq(Messages) /\ \A k \in ToSet(<<m>>) : TrueMessage(k)'
    <2>1. PICK k \in Messages :
            k = m /\ k.type = "applied" /\ k.txn = a /\ k.status = "dropped"
      BY <1>2, MessagesMade
    <2>2. TrueMessage(k)'
      BY <1>1, <2>1 DEF TrueMessage
    <2> HIDE DEF m
    <2> QED
      BY <2>1, <2>2, OneMessage
  <1> HIDE DEF m
  <1>5. RefusalsFirst'
    <2>1. \A n \in 1..Len(log) : log[n] # a
      BY <1>1, StateTyped DEF ToSet
    <2>2. \A x \in (refused' \cap pending) \ missed' : \A n \in 1..Len(log') :
            log'[n] = x => n \in 1..Len(log) /\ x \in refused
      BY <1>1, <2>1
    <2> QED
      BY <1>1, <1>3, <1>4, <2>2, RefusalsGrow DEF trackerVars
  <1>6. InTheirOrder'
    BY <1>1, <1>3, OrderReceived
  <1>7. /\ (ToSet(log) \cup refused') \cap Txns \subseteq Made
        /\ saved \cup refused' \cup missed \subseteq ToSet(log) \cup Txns
        /\ persisted <= Len(log) /\ turnedAway \subseteq Txns /\ events \in 0..MaxEvents
    BY <1>1, <1>2, StateTyped DEF MSInv, OnlyMade, TypeOK
  <1> QED
    BY <1>1, <1>2, <1>3, <1>4, <1>5, <1>6, <1>7, RelayTells

LEMMA MSTurnsAway ==
  ASSUME MSInv, up # <<>>, RelayTurnsAway(Head(up)), up' = Tail(up),
         UNCHANGED <<socket, buffer, trackerVars, lost, missed>>
  PROVE  MSInv'
PROOF
  <1> DEFINE a == Head(up)
             m == Error(a)
  <1>1. /\ down' = Tell(<<m>>) /\ turnedAway' = turnedAway \cup {a}
        /\ events < MaxEvents /\ events' = events + 1
        /\ UNCHANGED <<log, persisted, saved, refused>>
    BY DEF RelayTurnsAway, Event, relayVars
  <1>2. a \in Txns /\ ToSet(up) = {a} \cup ToSet(up')
    BY StateTyped, TailElements
  <1>3. RelayGrows /\ LogFits'
    BY <1>1, StateTyped DEF RelayGrows, MSInv, LogFits
  <1>4. <<m>> \in Seq(Messages) /\ \A k \in ToSet(<<m>>) : TrueMessage(k)'
    <2>1. PICK k \in Messages : k = m /\ k.type = "error" /\ k.txn = a
      BY <1>2, MessagesMade
    <2>2. TrueMessage(k)'
      BY <1>1, <2>1 DEF TrueMessage
    <2> HIDE DEF m
    <2> QED
      BY <2>1, <2>2, OneMessage
  <1> HIDE DEF m
  <1>5. RefusalsFirst'
    BY <1>1, <1>4, RefusalsStay DEF trackerVars
  <1>6. InTheirOrder'
    BY <1>1, <1>3, OrderReceived
  <1>7. /\ (ToSet(log) \cup refused) \cap Txns \subseteq Made
        /\ saved \cup refused \cup missed \subseteq ToSet(log) \cup Txns
        /\ persisted <= Len(log) /\ turnedAway' \subseteq Txns /\ events' \in 0..MaxEvents
    BY <1>1, <1>2, StateTyped DEF MSInv, OnlyMade, TypeOK
  <1> QED
    BY <1>1, <1>2, <1>3, <1>4, <1>5, <1>6, <1>7, RelayTells

LEMMA MSRelayReceives == ASSUME MSInv, RelayReceives  PROVE MSInv'
PROOF
  <1>1. /\ up # <<>> /\ up' = Tail(up)
        /\ UNCHANGED <<socket, buffer, trackerVars, lost, missed>>
        /\ \/ RelayRepeats(Head(up)) \/ RelaySequences(Head(up))
           \/ RelayDrops(Head(up)) \/ RelayTurnsAway(Head(up))
    BY DEF RelayReceives
  <1> QED
    BY <1>1, MSRepeats, MSSequences, MSDrops, MSTurnsAway

LEMMA MSSequencesOther ==
  ASSUME MSInv, NEW a \in Others, RelaySequencesOther(a)
  PROVE  MSInv'
PROOF
  <1> DEFINE m == Broadcast(a, Len(log'))
  <1>1. /\ a \notin ToSet(log) /\ down' = Tell(<<m>>) /\ log' = Append(log, a)
        /\ events < MaxEvents /\ events' = events + 1
        /\ UNCHANGED <<socket, buffer, up, trackerVars, persisted, saved, refused,
                       turnedAway, lost, missed>>
    BY DEF RelaySequencesOther, Event
  <1>2. a \notin Txns
    BY DEF Txns
  <1>3. /\ RelayGrows /\ LogFits'
        /\ ToSet(log') = ToSet(log) \cup {a}
        /\ Len(log') = Len(log) + 1 /\ log'[Len(log')] = a
    BY <1>1, LogAppended
  <1>4. <<m>> \in Seq(Messages) /\ \A k \in ToSet(<<m>>) : TrueMessage(k)'
    <2>1. Len(log') \in 1..Len(log') /\ Len(log') \in Nat
      BY <1>3, StateTyped
    <2>2. PICK k \in Messages :
            k = m /\ k.type = "broadcast" /\ k.txn = a /\ k.seq = Len(log')
      BY <2>1, MessagesMade
    <2>3. TrueMessage(k)'
      BY <1>3, <2>1, <2>2 DEF TrueMessage
    <2> HIDE DEF m
    <2> QED
      BY <2>2, <2>3, OneMessage
  <1> HIDE DEF m
  <1>5. RefusalsFirst'
    <2>1. \A n \in 1..Len(log') : n \in 1..Len(log) \/ log'[n] = a
      <3>1. \A n \in 1..Len(log') : n \in 1..Len(log) \/ n = Len(log')
        BY <1>3, StateTyped
      <3> QED
        BY <1>3, <3>1
    <2>2. a \notin pending
      BY <1>2, StateTyped
    <2>3. \A x \in (refused' \cap pending) \ missed' : \A n \in 1..Len(log') :
            log'[n] = x => n \in 1..Len(log) /\ x \in refused
      BY <1>1, <2>1, <2>2
    <2> QED
      BY <1>1, <1>3, <1>4, <2>3, RefusalsGrow DEF trackerVars
  <1>6. InTheirOrder'
    <2>1. ASSUME NEW x \in Txns, NEW y \in Txns, x < y, ~Detained(x, y)'
          PROVE  Before(x, y)'
      <3>1. Before(x, y)
        BY <1>1, <2>1 DEF MSInv, InTheirOrder, Detained
      <3>2. Leads(log', x, y)
        <4>1. log \in Seq(Txns \cup Others) /\ <<a>> \in Seq(Txns \cup Others)
              /\ log' = log \o <<a>>
          BY <1>1, StateTyped
        <4>2. Leads(<<a>>, x, y)
          BY <1>2 DEF Leads
        <4>3. Leads(log \o <<a>>, x, y)
          BY <3>1, <4>1, <4>2, LeadsConcat DEF Before
        <4> QED
          BY <4>1, <4>3
      <3> QED
        BY <1>1, <1>3, <3>1, <3>2 DEF Before, Leads
    <2> QED
      BY <2>1 DEF InTheirOrder
  <1>7. /\ (ToSet(log') \cup refused) \cap Txns \subseteq Made
        /\ saved \cup refused \cup missed \subseteq ToSet(log') \cup Txns
        /\ persisted <= Len(log') /\ turnedAway \subseteq Txns /\ events' \in 0..MaxEvents
    BY <1>1, <1>2, <1>3, StateTyped DEF MSInv, OnlyMade, TypeOK
  <1> QED
    BY <1>1, <1>3, <1>4, <1>5, <1>6, <1>7, RelayTells

\* The next entry of the log is worked on.
LEMMA NextOfLog ==
  ASSUME MSInv, persisted < Len(log)
  PROVE  /\ persisted + 1 \in 1..Len(log)
         /\ log[persisted + 1] \in ToSet(log) /\ log[persisted + 1] \in Txns \cup Others
         /\ \A n \in 1..Len(log) : log[n] = log[persisted + 1] => n > persisted
PROOF
  <1>1. persisted + 1 \in 1..Len(log) /\ persisted \in Nat
    BY StateTyped
  <1>2. log[persisted + 1] \in ToSet(log) /\ log[persisted + 1] \in Txns \cup Others
    BY <1>1, StateTyped DEF ToSet
  <1>3. \A n \in 1..Len(log) : log[n] = log[persisted + 1] => n > persisted
    BY <1>1 DEF MSInv, LogFits
  <1> QED
    BY <1>1, <1>2, <1>3

LEMMA MSSaves == ASSUME MSInv, RelaySaves  PROVE MSInv'
PROOF
  <1> DEFINE a == log[persisted + 1]
             m == Ack(persisted + 1)
  <1>1. /\ persisted < Len(log) /\ persisted' = persisted + 1 /\ saved' = saved \cup {a}
        /\ down' = Tell(<<m>>)
        /\ UNCHANGED <<socket, buffer, up, trackerVars, log, refused, events, turnedAway,
                       lost, missed>>
    BY DEF RelaySaves, faultVars
  <1>2. persisted \in Nat /\ persisted + 1 \in 1..Len(log) /\ a \in ToSet(log)
    BY <1>1, StateTyped, NextOfLog
  <1>3. RelayGrows
    BY <1>1, <1>2, StateTyped DEF RelayGrows
  <1>4. <<m>> \in Seq(Messages) /\ \A k \in ToSet(<<m>>) : TrueMessage(k)'
    <2>1. PICK k \in Messages : k = m /\ k.type = "ack" /\ k.seq = persisted + 1
      BY <1>2, MessagesMade
    <2>2. TrueMessage(k)'
      BY <1>1, <1>2, <2>1 DEF TrueMessage
    <2> HIDE DEF m
    <2> QED
      BY <2>1, <2>2, OneMessage
  <1> HIDE DEF m
  <1>5. LogFits'
    <2>1. \A n \in 1..persisted' : n \in 1..persisted \/ n = persisted + 1
      BY <1>1, <1>2
    <2> QED
      BY <1>1, <2>1 DEF MSInv, LogFits
  <1> HIDE DEF a
  <1>6. RefusalsFirst'
    BY <1>1, <1>4, RefusalsStay DEF trackerVars
  <1>7. InTheirOrder'
    BY <1>1, OrderStays
  <1>8. /\ (ToSet(log) \cup refused) \cap Txns \subseteq Made
        /\ saved' \cup refused \cup missed \subseteq ToSet(log) \cup Txns
        /\ persisted' <= Len(log) /\ turnedAway \subseteq Txns /\ events \in 0..MaxEvents
    BY <1>1, <1>2, StateTyped DEF MSInv, OnlyMade, TypeOK
  <1> QED
    BY <1>1, <1>3, <1>4, <1>5, <1>6, <1>7, <1>8, RelayTells

LEMMA MSFails == ASSUME MSInv, RelayFails  PROVE MSInv'
PROOF
  <1>1. PICK a, ms :
          /\ persisted < Len(log) /\ persisted' = persisted + 1 /\ a = log[persisted + 1]
          /\ refused' = refused \cup {a}
          /\ ms = <<Applied(a, persisted + 1, "failed")>>
          /\ down' = IF a \in Txns THEN Tell(ms) ELSE down
          /\ missed' = IF socket = "open" THEN missed ELSE missed \cup {a}
          /\ UNCHANGED <<socket, buffer, up, trackerVars, log, saved, events, turnedAway,
                         lost>>
    BY DEF RelayFails
  <1>2. /\ persisted \in Nat /\ persisted + 1 \in 1..Len(log)
        /\ a \in ToSet(log) /\ a \in Txns \cup Others
        /\ \A n \in 1..Len(log) : log[n] = a => n > persisted
    BY <1>1, StateTyped, NextOfLog
  <1>3. RelayGrows
    BY <1>1, <1>2, StateTyped DEF RelayGrows
  <1>4. LogFits'
    <2>1. \A n \in 1..persisted' : n \in 1..persisted \/ n = persisted + 1
      BY <1>1, <1>2
    <2> QED
      BY <1>1, <2>1 DEF MSInv, LogFits
  <1>5. InTheirOrder'
    BY <1>1, OrderStays
  <1>6. /\ (ToSet(log) \cup refused') \cap Txns \subseteq Made
        /\ saved \cup refused' \cup missed' \subseteq ToSet(log) \cup Txns
        /\ persisted' <= Len(log) /\ turnedAway \subseteq Txns /\ events \in 0..MaxEvents
        /\ missed \subseteq missed'
    BY <1>1, <1>2, StateTyped DEF MSInv, OnlyMade, TypeOK
  <1>7. CASE a \in Txns
    <2>1. PICK m \in Messages :
            /\ m = Applied(a, persisted + 1, "failed")
            /\ m.type = "applied" /\ m.txn = a /\ m.status = "failed"
      BY <1>2, <1>7, MessagesMade
    <2>2. TrueMessage(m)' /\ Refusal(m, a)
      BY <1>1, <2>1 DEF TrueMessage, Refusal
    <2>3. ms = <<m>> /\ ms \in Seq(Messages) /\ ToSet(ms) = {m} /\ down' = Tell(<<m>>)
      BY <1>1, <1>7, <2>1, OneMessage
    <2>4. \A x \in (refused' \cap pending) \ missed' : \A n \in 1..Len(log') :
            log'[n] = x => (n \in 1..Len(log) /\ x \in refused) \/ Warned(n, x)'
      <3> SUFFICES ASSUME NEW x \in (refused' \cap pending) \ missed', x \notin refused,
                          NEW n \in 1..Len(log), log[n] = x
                   PROVE  Warned(n, x)'
        BY <1>1
      <3>1. x = a /\ socket = "open"
        BY <1>1
      <3>2. n > persisted /\ n \in Nat
        BY <1>2, <3>1
      <3> QED
        BY <1>1, <2>2, <2>3, <3>1, <3>2, WarnedNow DEF trackerVars
    <2>5. RefusalsFirst'
      BY <1>1, <1>3, <1>6, <2>3, <2>4, RefusalsGrow DEF trackerVars
    <2> QED
      BY <1>1, <1>3, <1>4, <1>5, <1>6, <2>2, <2>3, <2>5, RelayTells
  <1>8. CASE a \notin Txns
    <2>1. down' = down /\ <<>> \in Seq(Messages) /\ ToSet(<<>>) = {}
      BY <1>1, <1>8, ToSetEmpty
    <2>2. \A x \in (refused' \cap pending) \ missed' : \A n \in 1..Len(log') :
            log'[n] = x => n \in 1..Len(log) /\ x \in refused
      BY <1>1, <1>8, StateTyped
    <2>3. RefusalsFirst'
      BY <1>1, <1>3, <1>6, <2>1, <2>2, RefusalsGrow DEF trackerVars
    <2> QED
      BY <1>1, <1>3, <1>4, <1>5, <1>6, <2>1, <2>3, RelayTells
  <1> QED
    BY <1>7, <1>8

LEMMA MSReloads == ASSUME MSInv, RelayReloads  PROVE MSInv'
PROOF
  <1>1. PICK gone :
          /\ gone = ToSet(SubSeq(log, persisted + 1, Len(log)))
          /\ refused' = refused \cup gone
          /\ missed' = IF socket = "open" THEN missed ELSE missed \cup gone
          /\ persisted' = Len(log) /\ down' = Tell(<<Reload>>)
          /\ events < MaxEvents /\ events' = events + 1
          /\ UNCHANGED <<socket, buffer, up, trackerVars, log, saved, turnedAway, lost>>
    BY DEF RelayReloads, Event
  <1>2. /\ persisted \in Nat /\ persisted <= Len(log) /\ Len(log) \in Nat
        /\ log \in Seq(Txns \cup Others) /\ DOMAIN log = 1..Len(log)
    BY StateTyped
  <1>3. gone = {log[k] : k \in (persisted + 1)..Len(log)}
    <2> DEFINE s == SubSeq(log, persisted + 1, Len(log))
    <2>1. /\ DOMAIN s = 1..(Len(log) - persisted)
          /\ \A i \in 1..(Len(log) - persisted) : s[i] = log[persisted + i]
      BY <1>2
    <2>2. gone = {s[i] : i \in DOMAIN s}
      BY <1>1 DEF ToSet
    <2> HIDE DEF s
    <2>3. gone \subseteq {log[k] : k \in (persisted + 1)..Len(log)}
      BY <1>2, <2>1, <2>2
    <2>4. ASSUME NEW k \in (persisted + 1)..Len(log)  PROVE log[k] \in gone
      <3>1. k - persisted \in 1..(Len(log) - persisted) /\ persisted + (k - persisted) = k
        BY <1>2
      <3> QED
        BY <2>1, <2>2, <3>1
    <2> QED
      BY <2>3, <2>4
  <1>4. gone \subseteq ToSet(log)
    BY <1>2, <1>3 DEF ToSet
  <1>5. RelayGrows
    BY <1>1, <1>2 DEF RelayGrows
  <1>6. LogFits'
    <2>1. \A n \in 1..persisted' : n \in 1..persisted \/ log[n] \in gone
      BY <1>1, <1>2, <1>3
    <2> QED
      BY <1>1, <2>1 DEF MSInv, LogFits
  <1>7. InTheirOrder'
    BY <1>1, OrderStays
  <1>8. /\ (ToSet(log) \cup refused') \cap Txns \subseteq Made
        /\ saved \cup refused' \cup missed' \subseteq ToSet(log) \cup Txns
        /\ persisted' <= Len(log) /\ turnedAway \subseteq Txns /\ events' \in 0..MaxEvents
        /\ missed \subseteq missed'
    BY <1>1, <1>2, <1>4, StateTyped DEF MSInv, OnlyMade, TypeOK
  <1>9. PICK m \in Messages : m = Reload /\ m.type = "reload"
    BY MessagesMade
  <1>10. TrueMessage(m)' /\ \A x : Refusal(m, x)
    BY <1>9 DEF TrueMessage, Refusal
  <1>11. <<m>> \in Seq(Messages) /\ ToSet(<<m>>) = {m} /\ down' = Tell(<<m>>)
    BY <1>1, <1>9, OneMessage
  <1>12. RefusalsFirst'
    <2>1. \A x \in (refused' \cap pending) \ missed' : \A n \in 1..Len(log') :
            log'[n] = x => (n \in 1..Len(log) /\ x \in refused) \/ Warned(n, x)'
      <3> SUFFICES ASSUME NEW x \in (refused' \cap pending) \ missed', x \notin refused,
                          NEW n \in 1..Len(log), log[n] = x
                   PROVE  Warned(n, x)'
        BY <1>1
      <3>1. x \in gone /\ socket = "open"
        BY <1>1
      <3>2. PICK k \in (persisted + 1)..Len(log) : log[k] = x
        BY <1>3, <3>1
      <3>3. n = k
        BY <1>2, <3>2 DEF MSInv, LogFits
      <3>4. n > persisted /\ n \in Nat
        BY <1>2, <3>3
      <3> QED
        BY <1>1, <1>10, <1>11, <3>1, <3>4, WarnedNow DEF trackerVars
    <2> QED
      BY <1>1, <1>5, <1>8, <1>11, <2>1, RefusalsGrow DEF trackerVars
  <1> QED
    BY <1>1, <1>5, <1>6, <1>7, <1>8, <1>10, <1>11, <1>12, RelayTells

-----------------------------------------------------------------------------
(* The theorems. *)

LEMMA MSNext == ASSUME MSInv, [Next]_vars  PROVE MSInv'
PROOF
  <1>1. CASE Connect
    BY <1>1, MSConnect
  <1>2. CASE Open
    BY <1>2, MSOpen
  <1>3. CASE Break
    BY <1>3, MSBreak
  <1>4. CASE Close
    BY <1>4, MSClose
  <1>5. CASE Receive
    BY <1>5, MSReceive
  <1>6. CASE \E x \in Txns : Edit(x) \/ RetryTimer(x)
    BY <1>6, MSEdit, MSRetryTimer
  <1>7. CASE RelayReceives
    BY <1>7, MSRelayReceives
  <1>8. CASE \E x \in Others : RelaySequencesOther(x)
    BY <1>8, MSSequencesOther
  <1>9. CASE RelaySaves
    BY <1>9, MSSaves
  <1>10. CASE RelayFails
    BY <1>10, MSFails
  <1>11. CASE RelayReloads
    BY <1>11, MSReloads
  <1>12. CASE UNCHANGED vars
    <2>1. UNCHANGED <<socket, buffer, up, down, pending, seq, timer, lastAckSeq, stopped,
                      syncStatus, clientSeq, fate, log, persisted, saved, refused, events,
                      turnedAway, lost, missed>>
      BY <1>12 DEF vars, socketVars, trackerVars, relayVars, faultVars
    <2>2. TypeOK' /\ LogFits' /\ OnlyMade' /\ SocketFits' /\ TrackerFits'
      BY <2>1 DEF MSInv, TypeOK, LogFits, OnlyMade, SocketFits, TrackerFits, Made
    <2>3. MessagesTrue' /\ RefusalsFirst'
      BY <2>1 DEF MSInv, MessagesTrue, TrueMessage, RefusalsFirst, Warned, Refusal
    <2>4. EditsAccounted' /\ EditsOnTheirWay' /\ DurableMeansSaved'
      BY <2>1 DEF MSInv, EditsAccounted, EditsOnTheirWay, DurableMeansSaved, Made
    <2>5. InTheirOrder'
      BY <2>1, OrderStays
    <2> QED
      BY <2>2, <2>3, <2>4, <2>5 DEF MSInv
  <1> QED
    BY <1>1, <1>2, <1>3, <1>4, <1>5, <1>6, <1>7, <1>8, <1>9, <1>10, <1>11, <1>12 DEF Next

LEMMA MultiplayerInvariant == Spec => []MSInv
PROOF BY MSInit, MSNext, PTL DEF Spec

\* The state is of its type: in particular only a pending apply has a retry timer.
THEOREM MultiplayerTyped == Spec => []TypeOK
PROOF
  <1>1. MSInv => TypeOK
    BY DEF MSInv
  <1> QED
    BY <1>1, MultiplayerInvariant, PTL

\* Whatever the network loses, repeats or delays, an edit is reported durable only when
\* the build holds it, or when its refusal went with a connection.
THEOREM DurableIsSaved == Spec => []DurableMeansSaved
PROOF
  <1>1. MSInv => DurableMeansSaved
    BY DEF MSInv
  <1> QED
    BY <1>1, MultiplayerInvariant, PTL

\* While the page may be left without a warning, no edit of it is unsaved and unknown
\* to have been refused.
THEOREM IdleHidesNoEdit == Spec => []IdleMeansSaved
PROOF
  <1>1. ASSUME MSInv  PROVE IdleMeansSaved
    <2> SUFFICES ASSUME syncStatus = "idle", ~stopped, NEW x \in 1..clientSeq
                 PROVE  x \in saved \cup missed \/ fate[x] = "refused"
      BY DEF IdleMeansSaved
    <2>1. pending = {} /\ x \in Made /\ x \in Txns
      BY <1>1, StateTyped DEF MSInv, TrackerFits, Made
    <2>2. fate[x] \in {"durable", "refused"}
      BY <1>1, <2>1 DEF MSInv, EditsAccounted
    <2> QED
      BY <1>1, <2>1, <2>2 DEF MSInv, DurableMeansSaved
  <1> QED
    BY <1>1, MultiplayerInvariant, PTL

\* The log holds the edits of the page in the order they were made, but for those that
\* were refused, turned away or lost on the way.
THEOREM LogKeepsOrder == Spec => []OvertakesOnlyDetained
PROOF
  <1>1. ASSUME MSInv  PROVE OvertakesOnlyDetained
    <2> SUFFICES ASSUME NEW x \in Txns, NEW y \in Txns, x < y, y \in ToSet(log),
                        x \in ToSet(log) => Position(y) < Position(x), ~Detained(x, y)
                 PROVE  FALSE
      BY DEF OvertakesOnlyDetained, Detained
    <2>1. Leads(log, x, y)
      BY <1>1 DEF MSInv, InTheirOrder, Before
    <2>2. log \in Seq(Txns \cup Others) /\ DOMAIN log = 1..Len(log) /\ Len(log) \in Nat
      BY <1>1, StateTyped
    <2>3. PICK j \in 1..Len(log) : log[j] = y
      BY <2>2 DEF ToSet
    <2>4. PICK i \in 1..Len(log) : i < j /\ log[i] = x
      BY <2>1, <2>2, <2>3 DEF Leads
    <2>5. Position(y) = j /\ Position(x) = i
      BY <1>1, <2>3, <2>4 DEF Position, MSInv, LogFits
    <2>6. x \in ToSet(log)
      BY <2>2, <2>4 DEF ToSet
    <2> QED
      BY <2>2, <2>3, <2>4, <2>5, <2>6
  <1> QED
    BY <1>1, MultiplayerInvariant, PTL
==============================================================================
