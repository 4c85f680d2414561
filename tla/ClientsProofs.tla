---------------------------- MODULE ClientsProofs ----------------------------
(***************************************************************************)
(* What two clients promise, proved for constants of any size: the         *)
(* messages of a phone (PhoneMessaging, which this module extends: any     *)
(* texts, receipts and messages that arrive, and any number of             *)
(* transports, locks and faults) and the screen of a tab (LocalUi: any     *)
(* vaults, conversations, messages and texts, and any number of locks,     *)
(* opened conversations and lost answers).                                 *)
(***************************************************************************)
EXTENDS PhoneMessaging, FiniteSetTheorems, TLAPS

CONSTANTS Vault, Conversation, Item, Owner, UiText, None, MaxEpochs, MaxSelects, MaxLosses

VARIABLES
  \* LocalUi
  vault, uiSession, quick, stored, view, mine, csrf, uiEpoch, contacts, selected, screen,
  optimistic, syncing, sending, pending, selects, uiLosses

Ui == INSTANCE LocalUi WITH
  Text <- UiText, session <- uiSession, epoch <- uiEpoch, losses <- uiLosses

-----------------------------------------------------------------------------
(***************************************************************************)
(* The messages of a phone.                                                *)
(***************************************************************************)
\* What the proofs ask of the constants: a text is told from a receipt.
Sizes ==
  /\ MaxTors \in Nat /\ MaxTors # 0 /\ MaxStops \in Nat /\ MaxFaults \in Nat
  /\ Text \cap Receipt = {}

(* The inductive invariant.                                                *)

\* A transport runs only while the vault is open; a session is begun after a lock.
Running ==
  /\ tor # 0 => open
  /\ session <= epoch /\ (~open => session < epoch)

\* The texts that have left a queue q of those the user sent, which are s.
Left(q, s) == Len(s) - Len(q)

\* The queue is the end of what was sent, no text twice.
IsRest(q, s) ==
  /\ Len(q) <= Len(s)
  /\ \A i \in 1 .. Len(q) : q[i] = s[Left(q, s) + i]
  /\ \A i, j \in 1 .. Len(s) : s[i] = s[j] => i = j

\* All that have left the queue were accepted; and of those a peer has, or an attempt
\* was made for, none is behind the first that has not left.
Ordered(q, s, accepted, reached) ==
  /\ \A i \in 1 .. Left(q, s) : s[i] \in accepted
  /\ \A m \in Text \cap reached : \E i \in 1 .. Len(s) : s[i] = m /\ i <= Left(q, s) + 1

Ids == {x.id : x \in attempts}
InOrder == Ordered(outbox, sent, Accepted, Accepted \union Ids)

SentHasStatus == \A i \in 1 .. Len(sent) : status[sent[i]] # "none"

\* What an attempt has, in each of its states.
AttemptsStand ==
  \A x \in attempts :
    /\ x.epoch <= epoch
    /\ x.at = "accepted" => x.id \in Accepted
    /\ x.at = "posting" /\ x.epoch = epoch => open /\ mode = "HYBRID_TOR_RELAY"

ArrivedAreFinite == IsFiniteSet(inbox) /\ IsFiniteSet(mailbox)

IInv ==
  /\ TypeOK /\ Running
  /\ IsRest(outbox, sent) /\ InOrder /\ SentHasStatus
  /\ AttemptsStand /\ ArrivedAreFinite /\ ShownOnce

-----------------------------------------------------------------------------
(* Queues.                                                                 *)

LEMMA ToSetFacts ==
  ASSUME NEW S, NEW q \in Seq(S)
  PROVE  /\ ToSet(q) = {q[i] : i \in 1 .. Len(q)}
         /\ ToSet(q) \subseteq S
BY DEF ToSet

\* The end of a queue.
LEMMA RestFacts ==
  ASSUME NEW S, NEW q \in Seq(S), NEW n \in 0 .. Len(q)
  PROVE  LET r == SubSeq(q, n + 1, Len(q)) IN
         /\ r \in Seq(S) /\ Len(r) = Len(q) - n
         /\ \A i \in 1 .. Len(r) : r[i] = q[n + i]
OBVIOUS

LEMMA ConcatFacts ==
  ASSUME NEW S, NEW q \in Seq(S), NEW r \in Seq(S)
  PROVE  /\ q \o r \in Seq(S)
         /\ ToSet(q \o r) = ToSet(q) \union ToSet(r)
<1>1. /\ q \o r \in Seq(S) /\ Len(q \o r) = Len(q) + Len(r)
      /\ \A i \in 1 .. Len(q) : (q \o r)[i] = q[i]
      /\ \A i \in 1 .. Len(r) : (q \o r)[Len(q) + i] = r[i]
  OBVIOUS
<1>2. ToSet(q) = {q[i] : i \in 1 .. Len(q)} /\ ToSet(r) = {r[i] : i \in 1 .. Len(r)}
  BY ToSetFacts
<1>3. ToSet(q \o r) = {(q \o r)[i] : i \in 1 .. Len(q \o r)}
  BY <1>1, ToSetFacts
<1>4. ASSUME NEW x \in ToSet(q \o r) PROVE x \in ToSet(q) \union ToSet(r)
  <2>1. PICK i \in 1 .. Len(q) + Len(r) : x = (q \o r)[i]
    BY <1>1, <1>3, <1>4
  <2>2. CASE i \in 1 .. Len(q)
    BY <1>1, <1>2, <2>1, <2>2
  <2>3. CASE i \notin 1 .. Len(q)
    <3>1. i - Len(q) \in 1 .. Len(r) /\ Len(q) + (i - Len(q)) = i
      BY <2>3
    <3>2. x = r[i - Len(q)]
      BY <1>1, <2>1, <3>1
    <3>3. QED
      BY <1>2, <3>1, <3>2
  <2>4. QED
    BY <2>2, <2>3
<1>5. ASSUME NEW x \in ToSet(q) PROVE x \in ToSet(q \o r)
  <2>1. PICK i \in 1 .. Len(q) : x = q[i]
    BY <1>2, <1>5
  <2>2. i \in 1 .. Len(q \o r) /\ x = (q \o r)[i]
    BY <1>1, <2>1
  <2>3. QED
    BY <1>3, <2>2
<1>6. ASSUME NEW x \in ToSet(r) PROVE x \in ToSet(q \o r)
  <2>1. PICK i \in 1 .. Len(r) : x = r[i]
    BY <1>2, <1>6
  <2>2. Len(q) + i \in 1 .. Len(q \o r) /\ x = (q \o r)[Len(q) + i]
    BY <1>1, <2>1
  <2>3. QED
    BY <1>3, <2>2
<1>7. QED
  BY <1>1, <1>4, <1>5, <1>6

\* What is deleted is gone, and nothing else.
LEMMA WithoutFacts ==
  ASSUME NEW S, NEW q \in Seq(S), NEW x
  PROVE  /\ Without(q, x) \in Seq(S)
         /\ \A y \in ToSet(q) : y # x => y \in ToSet(Without(q, x))
         /\ x \notin ToSet(q) => Without(q, x) = q
<1>1. CASE x \notin ToSet(q)
  BY <1>1 DEF Without
<1>2. CASE x \in ToSet(q)
  <2> DEFINE i == CHOOSE j \in DOMAIN q : q[j] = x
             before == SubSeq(q, 1, i - 1)
             after == SubSeq(q, i + 1, Len(q))
  <2>1. i \in 1 .. Len(q) /\ q[i] = x
    BY <1>2 DEF ToSet
  <2>2. Without(q, x) = before \o after
    BY <1>2 DEF Without
  <2> HIDE DEF i
  <2>3. /\ before \in Seq(S) /\ Len(before) = i - 1
        /\ \A j \in 1 .. i - 1 : before[j] = q[j]
    BY <2>1
  <2>4. /\ after \in Seq(S) /\ Len(after) = Len(q) - i
        /\ \A j \in 1 .. Len(q) - i : after[j] = q[i + j]
    BY <2>1
  <2> HIDE DEF before, after
  <2>5. Without(q, x) \in Seq(S) /\ ToSet(Without(q, x)) = ToSet(before) \union ToSet(after)
    BY <2>2, <2>3, <2>4, ConcatFacts
  <2>6. ASSUME NEW y \in ToSet(q), y # x PROVE y \in ToSet(before) \union ToSet(after)
    <3>1. PICK j \in 1 .. Len(q) : y = q[j]
      BY <2>6, ToSetFacts
    <3>2. CASE j < i
      <4>1. j \in 1 .. Len(before) /\ before[j] = y
        BY <2>1, <2>3, <3>1, <3>2
      <4>2. QED
        BY <2>3, <4>1, ToSetFacts
    <3>3. CASE j > i
      <4>1. j - i \in 1 .. Len(after) /\ after[j - i] = y
        BY <2>1, <2>4, <3>1, <3>3
      <4>2. QED
        BY <2>4, <4>1, ToSetFacts
    <3>4. QED
      BY <2>1, <2>6, <3>1, <3>2, <3>3
  <2>7. QED
    BY <1>2, <2>5, <2>6
<1>3. QED
  BY <1>1, <1>2

\* The first of a queue that has it once is deleted.
LEMMA WithoutFirst ==
  ASSUME NEW S, NEW q \in Seq(S), Len(q) # 0,
         \A i, j \in 1 .. Len(q) : q[i] = q[j] => i = j
  PROVE  Without(q, q[1]) = SubSeq(q, 2, Len(q))
<1> DEFINE i == CHOOSE j \in DOMAIN q : q[j] = q[1]
<1>1. 1 \in DOMAIN q /\ DOMAIN q = 1 .. Len(q)
  OBVIOUS
<1>2. i \in DOMAIN q /\ q[i] = q[1]
  BY <1>1
<1>3. i = 1
  BY <1>1, <1>2
<1>4. q[1] \in ToSet(q)
  BY <1>1 DEF ToSet
<1>5. Without(q, q[1]) = SubSeq(q, 1, i - 1) \o SubSeq(q, i + 1, Len(q))
  BY <1>4 DEF Without
<1> HIDE DEF i
<1>6. Without(q, q[1]) = SubSeq(q, 1, 0) \o SubSeq(q, 2, Len(q))
  BY <1>3, <1>5
<1>7. SubSeq(q, 1, 0) = <<>> /\ SubSeq(q, 2, Len(q)) \in Seq(S)
  OBVIOUS
<1>8. QED
  BY <1>6, <1>7

-----------------------------------------------------------------------------
(* Attempts.                                                               *)

At == {"queued", "sent", "accepted", "failed", "posting", "posted", "refused"}

\* One attempt at a time for an envelope that is held back.
AttemptsType ==
  /\ held \subseteq Outgoing /\ attempts \subseteq Attempt
  /\ {x.id : x \in attempts} \subseteq held
  /\ \A x, y \in attempts : x.id = y.id => x = y

\* An attempt keeps what it began with.
Same(x, y) ==
  /\ x.id = y.id /\ x.tor = y.tor /\ x.hybrid = y.hybrid
  /\ x.session = y.session /\ x.epoch = y.epoch

LEMMA AttemptAt ==
  ASSUME NEW x \in Attempt, NEW at \in At
  PROVE  LET y == [x EXCEPT !.at = at] IN y \in Attempt /\ y.at = at /\ Same(y, x)
BY DEF Attempt, At, Same

LEMMA Moved ==
  ASSUME AttemptsType, NEW x \in attempts, NEW at \in At,
         attempts' = (attempts \ {x}) \union {[x EXCEPT !.at = at]}, held' = held
  PROVE  /\ AttemptsType'
         /\ \A y \in attempts' : y \in attempts \/ (y.at = at /\ Same(y, x))
<1> DEFINE z == [x EXCEPT !.at = at]
<1>1. x \in Attempt
  BY DEF AttemptsType
<1>2. z \in Attempt /\ z.at = at /\ Same(z, x)
  BY <1>1, AttemptAt
<1>3. attempts' = (attempts \ {x}) \union {z}
  OBVIOUS
<1> HIDE DEF z
<1>4. \A y \in attempts' : y \in attempts \/ (y.at = at /\ Same(y, x))
  BY <1>2, <1>3
<1>5. AttemptsType'
  BY <1>2, <1>3 DEF AttemptsType, Same
<1>6. QED
  BY <1>4, <1>5

\* A transport that ends, or whose sockets close, fails what runs.
LEMMA Failed ==
  ASSUME AttemptsType, NEW old \in SUBSET attempts, NEW P \in SUBSET attempts,
         attempts' = {IF x \in P THEN [x EXCEPT !.at = "failed"] ELSE x : x \in old}, held' = held
  PROVE  /\ AttemptsType'
         /\ \A y \in attempts' :
              y \in attempts \/ (y.at = "failed" /\ \E x \in attempts : Same(y, x))
<1> DEFINE f(x) == IF x \in P THEN [x EXCEPT !.at = "failed"] ELSE x
<1>1. ASSUME NEW x \in old
      PROVE  /\ f(x) \in Attempt /\ Same(f(x), x)
             /\ f(x) = x \/ f(x).at = "failed"
  <2>1. x \in Attempt
    BY DEF AttemptsType
  <2>2. LET y == [x EXCEPT !.at = "failed"] IN y \in Attempt /\ y.at = "failed" /\ Same(y, x)
    BY <2>1, AttemptAt DEF At
  <2>3. QED
    BY <2>1, <2>2 DEF Same
<1>2. attempts' = {f(x) : x \in old}
  OBVIOUS
<1> HIDE DEF f
<1>3. \A y \in attempts' :
        y \in attempts \/ (y.at = "failed" /\ \E x \in attempts : Same(y, x))
  BY <1>1, <1>2
<1>4. attempts' \subseteq Attempt
  BY <1>1, <1>2
<1>5. \A y \in attempts' : \E x \in old : y = f(x) /\ y.id = x.id
  BY <1>1, <1>2 DEF Same
<1>6. {x.id : x \in attempts'} \subseteq held'
  BY <1>5 DEF AttemptsType
<1>7. \A y, z \in attempts' : y.id = z.id => y = z
  BY <1>5 DEF AttemptsType
<1>8. QED
  BY <1>3, <1>4, <1>6, <1>7 DEF AttemptsType

LEMMA ClosedFacts ==
  ASSUME AttemptsType, NEW t, attempts' = Closed(attempts, t) \/ attempts' = attempts, held' = held
  PROVE  /\ AttemptsType'
         /\ \A y \in attempts' :
              y \in attempts \/ (y.at = "failed" /\ \E x \in attempts : Same(y, x))
<1> DEFINE old == {y \in attempts : ~(y.tor = t /\ y.at = "queued")}
           P == {x \in attempts : x.tor = t /\ x.at = "sent"}
<1>1. CASE attempts' = attempts
  BY <1>1 DEF AttemptsType
<1>2. CASE attempts' = Closed(attempts, t)
  <2>1. attempts' = {IF x \in P THEN [x EXCEPT !.at = "failed"] ELSE x : x \in old}
    BY <1>2 DEF Closed
  <2>2. old \in SUBSET attempts /\ P \in SUBSET attempts
    OBVIOUS
  <2> HIDE DEF old, P
  <2>3. QED
    BY <2>1, <2>2, Failed
<1>3. QED
  BY <1>1, <1>2

\* A flush over Tor makes one attempt at most, for the head of the queue.
LEMMA Tried ==
  ASSUME Sizes, TypeOK, NEW q \in Seq(Outgoing), TryDirect(q)
  PROVE  /\ AttemptsType'
         /\ \A y \in attempts' :
              y \in attempts \/ (/\ Len(q) # 0 /\ y.id = q[1] /\ y.epoch = epoch
                                 /\ y.at \in {"queued", "failed"})
<1> DEFINE ids == {q[i] : i \in {j \in Heads(q) : MayBegin(q[j])}}
<1>1. AttemptsType
  BY DEF TypeOK, AttemptsType
<1>2. held' = held \union ids /\ attempts' = attempts \union {Begun(id) : id \in ids}
  BY DEF TryDirect
<1>3. \A id \in ids : Len(q) # 0 /\ id = q[1] /\ MayBegin(id) /\ id \in Outgoing
  BY DEF Heads
<1> HIDE DEF ids
<1>4. \A id \in ids : /\ Begun(id) \in Attempt /\ Begun(id).id = id /\ Begun(id).epoch = epoch
                      /\ Begun(id).at \in {"queued", "failed"}
  BY <1>3 DEF Begun, Attempt, TypeOK
<1>5. AttemptsType'
  <2>1. \A id \in ids : id \notin held
    BY <1>3 DEF MayBegin
  <2>2. QED
    BY <1>1, <1>2, <1>3, <1>4, <2>1 DEF AttemptsType
<1>6. QED
  BY <1>2, <1>3, <1>4, <1>5

LEMMA Completed ==
  ASSUME AttemptsType, NEW x \in attempts, attempts' = attempts \ {x}, held' = held \ {x.id}
  PROVE  AttemptsType'
BY DEF AttemptsType

-----------------------------------------------------------------------------
(* A flush of the texts.                                                   *)

\* Of the queue q the first n have left, accepted; the relay has perhaps one more.
LEMMA Flushed ==
  ASSUME Sizes, TypeOK, NEW q \in Seq(Text), FlushTexts(q)
  PROVE  /\ AttemptsType'
         /\ \A y \in attempts' :
              y \in attempts \/ (/\ Len(q) # 0 /\ y.id = q[1] /\ y.epoch = epoch
                                 /\ y.at \in {"queued", "failed"})
         /\ faults' \in 0 .. MaxFaults
         /\ \E n \in 0 .. Len(q), k \in 0 .. Len(q) :
              /\ outbox' = SubSeq(q, n + 1, Len(q))
              /\ relayHas' = relayHas \union First(q, k)
              /\ n <= k /\ k <= n + 1
              /\ mode # "RELAY_ONLY" => n = 0
              /\ attempts' # attempts => n = 0
<1>1. AttemptsType /\ faults \in 0 .. MaxFaults
  BY DEF TypeOK, AttemptsType
<1>2. CASE mode # "RELAY_ONLY"
  <2>1. TryDirect(q) /\ outbox' = q /\ relayHas' = relayHas /\ faults' = faults
    BY <1>2 DEF FlushTexts
  <2>2. q \in Seq(Outgoing)
    BY DEF Outgoing
  <2>3. q = SubSeq(q, 0 + 1, Len(q)) /\ First(q, 0) = {}
    BY DEF First
  <2>4. 0 \in 0 .. Len(q)
    OBVIOUS
  <2>5. QED
    BY <1>1, <2>1, <2>2, <2>3, <2>4, Tried
<1>3. CASE mode = "RELAY_ONLY"
  <2>1. PICK n \in 0 .. Len(q) :
           /\ outbox' = SubSeq(q, n + 1, Len(q))
           /\ \/ n = Len(q) /\ relayHas' = relayHas \union First(q, n) /\ UNCHANGED faults
              \/ /\ n < Len(q) /\ Fault
                 /\ relayHas' \in {relayHas \union First(q, k) : k \in n .. n + 1}
           /\ UNCHANGED <<held, attempts>>
    BY <1>3 DEF FlushTexts
  <2>2. PICK k \in 0 .. Len(q) : relayHas' = relayHas \union First(q, k) /\ n <= k /\ k <= n + 1
    BY <2>1
  <2>3. faults' \in 0 .. MaxFaults
    BY <1>1, <2>1 DEF Fault, Sizes
  <2>4. AttemptsType'
    BY <1>1, <2>1 DEF AttemptsType
  <2>5. QED
    BY <1>3, <2>1, <2>2, <2>3, <2>4
<1>4. QED
  BY <1>2, <1>3

-----------------------------------------------------------------------------
(* What is consumed.                                                       *)

\* Each new message has its receipt queued.
LEMMA Consumed ==
  ASSUME Sizes, TypeOK, NEW es \in SUBSET Arrival, IsFiniteSet(es), Consume(es)
  PROVE  /\ controls' \in Seq(Receipt)
         /\ ToSet(controls') = ToSet(controls) \union {[of |-> e] : e \in Fresh(es) \cap Incoming}
<1> DEFINE new == Fresh(es) \cap Incoming
           receipts == {[of |-> e] : e \in new}
<1>1. IsFiniteSet(new)
  <2>1. new \subseteq es
    BY DEF Fresh
  <2>2. QED
    BY <2>1, FS_Subset
<1>2. receipts \subseteq Receipt
  BY DEF Receipt
<1>3. IsFiniteSet(receipts)
  <2> DEFINE f == [e \in new |-> [of |-> e]]
  <2>1. f \in Surjection(new, receipts)
    BY DEF Surjection
  <2>2. QED
    BY <1>1, <2>1, FS_Surjection
<1>4. Cardinality(receipts) \in Nat
  BY <1>3, FS_CardinalityType
<1>5. PICK order \in [1 .. Cardinality(receipts) -> receipts] :
        ToSet(order) = receipts /\ controls' = controls \o order
  BY DEF Consume
<1> HIDE DEF receipts
<1>6. order \in Seq(Receipt) /\ controls \in Seq(Receipt)
  <2>1. order \in [1 .. Cardinality(receipts) -> Receipt]
    BY <1>2, <1>5
  <2>2. order \in Seq(Receipt)
    BY <1>4, <2>1
  <2>3. QED
    BY <2>2 DEF TypeOK
<1>7. controls' \in Seq(Receipt) /\ ToSet(controls') = ToSet(controls) \union receipts
  BY <1>5, <1>6, ConcatFacts
<1>8. QED
  BY <1>7 DEF receipts

Status == {"none", "queued", "sent", "delivered"}

LEMMA FlushStatus ==
  ASSUME TypeOK, NEW q
  PROVE  /\ StatusAfterFlush(q) \in [Text -> Status]
         /\ \A m \in Text : StatusAfterFlush(q)[m] = "none" => status[m] = "none" /\ m \notin ToSet(q)
BY DEF StatusAfterFlush, TypeOK, Status

LEMMA ConsumeType ==
  ASSUME Sizes, TypeOK, NEW es \in SUBSET Arrival, IsFiniteSet(es), Consume(es)
  PROVE  /\ processed' \subseteq Arrival /\ shown' \in [Incoming -> Nat]
         /\ controls' \in Seq(Receipt)
         /\ status' \in [Text -> Status]
         /\ \A m \in Text : status'[m] = "none" => StatusAfterFlush(outbox)[m] = "none"
<1>1. processed' \subseteq Arrival /\ shown' \in [Incoming -> Nat]
  BY DEF Consume, TypeOK
<1>2. StatusAfterFlush(outbox) \in [Text -> Status]
  BY FlushStatus
<1>3. status' = [m \in Text |->
                   IF [of |-> m] \in Fresh(es) /\ StatusAfterFlush(outbox)[m] \in {"queued", "sent"}
                   THEN "delivered" ELSE StatusAfterFlush(outbox)[m]]
  BY DEF Consume
<1>4. /\ status' \in [Text -> Status]
      /\ \A m \in Text : status'[m] = "none" => StatusAfterFlush(outbox)[m] = "none"
  BY <1>2, <1>3 DEF Status
<1>5. QED
  BY <1>1, <1>4, Consumed

-----------------------------------------------------------------------------
(* Types.                                                                  *)
TypeInv == TypeOK /\ Running /\ ArrivedAreFinite

Typed ==
  /\ mode \in Mode /\ open \in BOOLEAN /\ session \in 0 .. MaxStops /\ epoch \in 0 .. MaxStops
  /\ tor \in 0 .. MaxTors /\ tors \in tor .. MaxTors /\ live \in BOOLEAN
  /\ live => open /\ tor # 0
  /\ outbox \in Seq(Text) /\ sent \in Seq(Text) /\ controls \in Seq(Receipt)
  /\ status \in [Text -> Status]
  /\ inbox \subseteq Arrival /\ mailbox \subseteq Arrival /\ processed \subseteq Arrival
  /\ shown \in [Incoming -> Nat]
  /\ peerHas \subseteq Outgoing /\ relayHas \subseteq Outgoing
  /\ faults \in 0 .. MaxFaults

LEMMA Split == TypeOK <=> Typed /\ AttemptsType
BY DEF TypeOK, Typed, AttemptsType, Status

LEMMA SplitNext == TypeOK' <=> Typed' /\ AttemptsType'
BY DEF TypeOK, Typed, AttemptsType, Status

\* What an action leaves alone keeps its type.
LEMMA AttemptsKept ==
  ASSUME AttemptsType, held' = held, attempts' = attempts PROVE AttemptsType'
BY DEF AttemptsType

LEMMA Faulted ==
  ASSUME Sizes, faults \in 0 .. MaxFaults, Fault \/ faults' = faults
  PROVE  faults' \in 0 .. MaxFaults
BY DEF Fault, Sizes

LEMMA TransportType ==
  ASSUME Sizes, TypeInv,
         \/ StartTor \/ TorReady \/ TorEnds \/ NetworkChanges \/ Lock \/ Unlock
         \/ \E m \in Mode : SetMode(m)
  PROVE  TypeInv'
<1>1. Typed /\ Running /\ ArrivedAreFinite /\ AttemptsType
  BY Split DEF TypeInv
<1> SUFFICES Typed' /\ AttemptsType' /\ Running' /\ ArrivedAreFinite'
  BY SplitNext DEF TypeInv
<1>2. CASE StartTor
  <2>1. AttemptsType'
    BY <1>1, <1>2, AttemptsKept DEF StartTor
  <2>2. Typed'
    BY <1>1, <1>2 DEF StartTor, queues, arrivals, others, Typed, Sizes
  <2>3. QED
    BY <1>1, <1>2, <2>1, <2>2 DEF StartTor, arrivals, Running, ArrivedAreFinite
<1>3. CASE TorReady
  <2>1. AttemptsType'
    BY <1>1, <1>3, AttemptsKept DEF TorReady
  <2>2. Typed'
    BY <1>1, <1>3 DEF TorReady, queues, arrivals, others, Typed, Running
  <2>3. QED
    BY <1>1, <1>3, <2>1, <2>2 DEF TorReady, arrivals, Running, ArrivedAreFinite
<1>4. CASE TorEnds
  <2>1. AttemptsType'
    BY <1>1, <1>4, ClosedFacts DEF TorEnds
  <2>2. faults' \in 0 .. MaxFaults
    BY <1>1, <1>4, Faulted DEF TorEnds, Typed
  <2>3. Typed'
    <3>1. tor' \in 0 .. MaxTors /\ tors' \in tor' .. MaxTors /\ live' = FALSE
      BY <1>1, <1>4 DEF TorEnds, Typed, Sizes
    <3>2. QED
      BY <1>1, <1>4, <2>2, <3>1 DEF TorEnds, queues, arrivals, others, Typed
  <2>4. QED
    BY <1>1, <1>4, <2>1, <2>3 DEF TorEnds, arrivals, Running, ArrivedAreFinite
<1>5. CASE NetworkChanges
  <2> DEFINE P == {x \in attempts : x.at = "sent"}
  <2>1. attempts' = {IF x \in P THEN [x EXCEPT !.at = "failed"] ELSE x : x \in attempts}
    BY <1>5 DEF NetworkChanges
  <2>2. P \in SUBSET attempts /\ held' = held
    BY <1>5 DEF NetworkChanges
  <2> HIDE DEF P
  <2>3. AttemptsType'
    BY <1>1, <2>1, <2>2, Failed
  <2>4. faults' \in 0 .. MaxFaults
    BY <1>1, <1>5, Faulted DEF NetworkChanges, Typed
  <2>5. Typed'
    BY <1>1, <1>5, <2>4 DEF NetworkChanges, phone, queues, arrivals, others, Typed
  <2>6. QED
    BY <1>1, <1>5, <2>3, <2>5 DEF NetworkChanges, phone, arrivals, Running, ArrivedAreFinite
<1>6. ASSUME StopDirect, held' = held, epoch < MaxStops
      PROVE  /\ AttemptsType' /\ epoch' \in 0 .. MaxStops /\ epoch' = epoch + 1 /\ epoch \in Nat
             /\ tor' = 0 /\ live' = FALSE
  <2>1. AttemptsType'
    BY <1>1, <1>6, ClosedFacts DEF StopDirect
  <2>2. QED
    BY <1>1, <1>6, <2>1 DEF StopDirect, EpochAfterStop, Sizes, Typed
<1>7. CASE Lock
  <2>1. StopDirect /\ held' = held /\ epoch < MaxStops
    BY <1>7 DEF Lock
  <2>2. Typed'
    <3>1. tor' \in 0 .. MaxTors /\ tors' \in tor' .. MaxTors /\ live' = FALSE
      BY <1>1, <1>6, <1>7, <2>1 DEF Lock, Sizes, Typed
    <3>2. QED
      BY <1>1, <1>6, <1>7, <2>1, <3>1 DEF Lock, queues, arrivals, others, Typed
  <2>3. session < epoch'
    BY <1>1, <1>6, <2>1 DEF Running, Typed
  <2>4. QED
    BY <1>1, <1>6, <1>7, <2>1, <2>2, <2>3 DEF Lock, arrivals, Running, ArrivedAreFinite, Typed
<1>8. ASSUME NEW m \in Mode, SetMode(m)
      PROVE  Typed' /\ AttemptsType' /\ Running' /\ ArrivedAreFinite'
  <2>1. StopDirect /\ held' = held /\ epoch < MaxStops
    BY <1>8 DEF SetMode
  <2>2. Typed'
    BY <1>1, <1>6, <1>8, <2>1 DEF SetMode, queues, arrivals, others, Sizes, Typed
  <2>3. session <= epoch' /\ open' = open /\ open
    BY <1>1, <1>6, <1>8, <2>1 DEF Running, SetMode, Typed
  <2>4. QED
    BY <1>1, <1>6, <1>8, <2>1, <2>2, <2>3 DEF SetMode, arrivals, Running, ArrivedAreFinite
<1>9. CASE Unlock
  <2>1. session' \in 0 .. MaxStops /\ session' <= epoch
    BY <1>1, <1>9 DEF Unlock, Running, Sizes, Typed
  <2>2. AttemptsType'
    BY <1>1, <1>9, AttemptsKept DEF Unlock
  <2>3. Typed'
    BY <1>1, <1>9, <2>1 DEF Unlock, queues, arrivals, others, Typed, Running
  <2>4. QED
    BY <1>1, <1>9, <2>1, <2>2, <2>3 DEF Unlock, arrivals, Running, ArrivedAreFinite
<1>10. QED
  BY <1>2, <1>3, <1>4, <1>5, <1>7, <1>8, <1>9

-----------------------------------------------------------------------------
\* An attempt passes from one state to another.
Step(x) ==
  Transmit(x) \/ PeerAccepts(x) \/ PeerIsAway(x) \/ FallBack(x) \/ Post(x) \/ RelayAccepts(x)

\* Where it comes to, and what may make it come there.
LEMMA StepFacts ==
  ASSUME NEW x \in attempts, Step(x)
  PROVE  /\ UNCHANGED <<phone, held, queues, arrivals, sent>>
         /\ Fault \/ faults' = faults
         /\ peerHas' \in {peerHas, peerHas \union {x.id}}
         /\ relayHas' \in {relayHas, relayHas \union {x.id}}
         /\ x.at \in {"queued", "sent", "failed", "posting", "posted"}
         /\ peerHas' # peerHas \/ relayHas' # relayHas => x.at \in {"sent", "posted"}
         /\ \E at \in At :
              /\ attempts' = (attempts \ {x}) \union {[x EXCEPT !.at = at]}
              /\ at = "accepted" => x.id \in peerHas' \union relayHas'
              /\ at = "posting" => open /\ mode = "HYBRID_TOR_RELAY"
              /\ at = "posted" => x.at = "posting" /\ epoch = x.epoch
<1>1. CASE Transmit(x)
  <2>1. "sent" \in At
    BY DEF At
  <2>2. QED
    BY <1>1, <2>1 DEF Transmit, others
<1>2. CASE PeerAccepts(x)
  <2>1. "accepted" \in At /\ "failed" \in At
    BY DEF At
  <2>2. QED
    BY <1>2, <2>1 DEF PeerAccepts
<1>3. CASE PeerIsAway(x)
  <2>1. "failed" \in At
    BY DEF At
  <2>2. QED
    BY <1>3, <2>1 DEF PeerIsAway, others
<1>4. CASE FallBack(x)
  <2>1. "posting" \in At /\ "refused" \in At
    BY DEF At
  <2>2. QED
    BY <1>4, <2>1 DEF FallBack, others
<1>5. CASE Post(x)
  <2>1. "posted" \in At /\ "refused" \in At
    BY DEF At
  <2>2. QED
    BY <1>5, <2>1 DEF Post, others
<1>6. CASE RelayAccepts(x)
  <2>1. "accepted" \in At /\ "refused" \in At
    BY DEF At
  <2>2. QED
    BY <1>6, <2>1 DEF RelayAccepts
<1>7. QED
  BY <1>1, <1>2, <1>3, <1>4, <1>5, <1>6 DEF Step

LEMMA StepType ==
  ASSUME Sizes, TypeInv, NEW x \in attempts, Step(x)
  PROVE  TypeInv'
<1>1. Typed /\ Running /\ ArrivedAreFinite /\ AttemptsType
  BY Split DEF TypeInv
<1>2. /\ UNCHANGED <<phone, held, queues, arrivals, sent>>
      /\ Fault \/ faults' = faults
      /\ peerHas' \in {peerHas, peerHas \union {x.id}}
      /\ relayHas' \in {relayHas, relayHas \union {x.id}}
  BY StepFacts
<1>3. AttemptsType'
  <2>1. PICK at \in At : attempts' = (attempts \ {x}) \union {[x EXCEPT !.at = at]}
    BY StepFacts
  <2>2. QED
    BY <1>1, <1>2, <2>1, Moved
<1>4. x.id \in Outgoing
  BY <1>1 DEF AttemptsType, Attempt
<1>5. faults' \in 0 .. MaxFaults
  BY <1>1, <1>2, Faulted DEF Typed
<1>6. Typed'
  BY <1>1, <1>2, <1>4, <1>5 DEF phone, queues, arrivals, Typed
<1>7. QED
  BY <1>1, <1>2, <1>3, <1>6, SplitNext DEF phone, arrivals, Running, ArrivedAreFinite, TypeInv

\* What a completed attempt takes from the queues.
LEMMA CompleteQueues ==
  ASSUME Typed, NEW x \in attempts, Complete(x)
  PROVE  /\ outbox' \in Seq(Text) /\ controls' \in Seq(Receipt)
         /\ status' \in [Text -> Status]
         /\ \A m \in Text : status'[m] = "none" => status[m] = "none"
         /\ \A r \in ToSet(controls) : r # x.id \/ ~Counts(x) => r \in ToSet(controls')
<1>1. CASE Counts(x)
  <2>1. /\ outbox' = Without(outbox, x.id) /\ controls' = Without(controls, x.id)
        /\ status' = [m \in Text |-> IF m = x.id /\ status[m] = "queued" THEN "sent" ELSE status[m]]
    BY <1>1 DEF Complete
  <2>2. /\ outbox \in Seq(Text) /\ controls \in Seq(Receipt)
    BY DEF Typed
  <2>3. /\ status' \in [Text -> Status]
        /\ \A m \in Text : status'[m] = "none" => status[m] = "none"
    BY <2>1 DEF Typed, Status
  <2>4. QED
    BY <1>1, <2>1, <2>2, <2>3, WithoutFacts
<1>2. CASE ~Counts(x)
  BY <1>2 DEF Complete, queues, Typed
<1>3. QED
  BY <1>1, <1>2

LEMMA CompleteType ==
  ASSUME Sizes, TypeInv, NEW x \in attempts, Complete(x)
  PROVE  TypeInv'
<1>1. Typed /\ Running /\ ArrivedAreFinite /\ AttemptsType
  BY Split DEF TypeInv
<1>2. /\ attempts' = attempts \ {x} /\ held' = held \ {x.id}
      /\ UNCHANGED <<phone, arrivals, others, sent, faults>>
  BY DEF Complete
<1>3. AttemptsType'
  BY <1>1, <1>2, Completed
<1>4. Typed'
  BY <1>1, <1>2, CompleteQueues DEF phone, arrivals, others, Typed
<1>5. QED
  BY <1>1, <1>2, <1>3, <1>4, SplitNext DEF phone, arrivals, Running, ArrivedAreFinite, TypeInv

\* What a flush leaves of the types.
LEMMA FlushType ==
  ASSUME Sizes, TypeOK, NEW q \in Seq(Text), FlushTexts(q)
  PROVE  /\ AttemptsType' /\ outbox' \in Seq(Text) /\ relayHas' \subseteq Outgoing
         /\ faults' \in 0 .. MaxFaults
<1>1. PICK n \in 0 .. Len(q), k \in 0 .. Len(q) :
        outbox' = SubSeq(q, n + 1, Len(q)) /\ relayHas' = relayHas \union First(q, k)
  BY Flushed
<1>2. First(q, k) \subseteq Outgoing
  <2>1. \A i \in 1 .. k : q[i] \in Text
    OBVIOUS
  <2>2. QED
    BY <2>1 DEF First, Outgoing
<1>3. outbox' \in Seq(Text)
  BY <1>1, RestFacts
<1>4. relayHas \subseteq Outgoing
  BY Split DEF Typed
<1>5. QED
  BY <1>1, <1>2, <1>3, <1>4, Flushed

LEMMA SendType ==
  ASSUME Sizes, TypeInv, NEW m \in Text, Send(m)
  PROVE  TypeInv'
<1>1. Typed /\ TypeOK /\ Running /\ ArrivedAreFinite
  BY Split DEF TypeInv
<1> DEFINE q == Append(outbox, m)
<1>2. q \in Seq(Text) /\ Append(sent, m) \in Seq(Text)
  BY <1>1 DEF Typed
<1>3. /\ FlushTexts(q) /\ status' = StatusAfterFlush(q) /\ sent' = Append(sent, m)
      /\ UNCHANGED <<phone, controls, arrivals, peerHas>>
  BY DEF Send
<1> HIDE DEF q
<1>4. AttemptsType' /\ outbox' \in Seq(Text) /\ relayHas' \subseteq Outgoing /\ faults' \in 0 .. MaxFaults
  BY <1>1, <1>2, <1>3, FlushType
<1>5. status' \in [Text -> Status]
  BY <1>1, <1>3, FlushStatus
<1>6. Typed'
  BY <1>1, <1>2, <1>3, <1>4, <1>5 DEF phone, arrivals, Typed
<1>7. QED
  BY <1>1, <1>3, <1>4, <1>6, SplitNext DEF phone, arrivals, Running, ArrivedAreFinite, TypeInv

\* What a flush of the receipts does.
LEMMA ControlsFlushed ==
  ASSUME Sizes, TypeOK, FlushControls
  PROVE  /\ AttemptsType' /\ controls' \in Seq(Receipt) /\ relayHas' \subseteq Outgoing
         /\ faults' \in 0 .. MaxFaults
         /\ relayHas \subseteq relayHas' /\ relayHas' \subseteq relayHas \union Receipt
         /\ ToSet(controls) \subseteq ToSet(controls') \union relayHas'
         /\ \A y \in attempts' :
              y \in attempts \/ (y.id \in Receipt /\ y.epoch = epoch /\ y.at \in {"queued", "failed"})
<1>1. /\ Typed /\ AttemptsType /\ controls \in Seq(Receipt) /\ controls \in Seq(Outgoing)
      /\ Receipt \subseteq Outgoing
  BY Split DEF Typed, Outgoing
<1>2. CASE mode # "RELAY_ONLY"
  <2>1. TryDirect(controls) /\ UNCHANGED <<controls, relayHas, faults>>
    BY <1>2 DEF FlushControls
  <2>2. /\ AttemptsType'
        /\ \A y \in attempts' :
             y \in attempts \/ (/\ Len(controls) # 0 /\ y.id = controls[1] /\ y.epoch = epoch
                                /\ y.at \in {"queued", "failed"})
    BY <1>1, <2>1, Tried
  <2>3. Len(controls) # 0 => controls[1] \in Receipt
    BY <1>1
  <2>4. QED
    BY <1>1, <2>1, <2>2, <2>3 DEF Typed
<1>3. CASE mode = "RELAY_ONLY"
  <2>1. /\ controls # <<>> /\ relayHas' = relayHas \union {Head(controls)}
        /\ \/ controls' = Tail(controls) /\ UNCHANGED faults
           \/ Fault /\ UNCHANGED controls
        /\ UNCHANGED <<held, attempts>>
    BY <1>3 DEF FlushControls
  <2>2. /\ Tail(controls) \in Seq(Receipt) /\ Head(controls) \in Receipt /\ Head(controls) = controls[1]
        /\ Len(controls) \in Nat /\ Len(Tail(controls)) = Len(controls) - 1
        /\ \A i \in 1 .. Len(controls) - 1 : Tail(controls)[i] = controls[i + 1]
    BY <1>1, <2>1
  <2>3. ASSUME NEW y \in ToSet(controls) PROVE y = Head(controls) \/ y \in ToSet(Tail(controls))
    <3>1. PICK i \in 1 .. Len(controls) : y = controls[i]
      BY <1>1, <2>3, ToSetFacts
    <3>2. CASE i = 1
      BY <2>2, <3>1, <3>2
    <3>3. CASE i # 1
      <4>1. i - 1 \in 1 .. Len(Tail(controls)) /\ Tail(controls)[i - 1] = y
        BY <2>2, <3>1, <3>3
      <4>2. ToSet(Tail(controls)) = {Tail(controls)[j] : j \in 1 .. Len(Tail(controls))}
        BY ONLY <2>2, ToSetFacts
      <4>3. QED
        BY <4>1, <4>2
    <3>4. QED
      BY <3>2, <3>3
  <2>4. faults' \in 0 .. MaxFaults
    BY <1>1, <2>1, Faulted DEF Typed
  <2>5. AttemptsType'
    BY <1>1, <2>1, AttemptsKept
  <2>6. controls' \in Seq(Receipt) /\ relayHas' \subseteq Outgoing
    BY <1>1, <2>1, <2>2 DEF Typed
  <2>7. ToSet(controls) \subseteq ToSet(controls') \union relayHas'
    BY <2>1, <2>3
  <2>8. relayHas \subseteq relayHas' /\ relayHas' \subseteq relayHas \union Receipt
    BY <2>1, <2>2
  <2>9. QED
    BY <2>1, <2>4, <2>5, <2>6, <2>7, <2>8
<1>4. QED
  BY <1>2, <1>3

LEMMA FlushControlsType ==
  ASSUME Sizes, TypeInv, FlushControls
  PROVE  TypeInv'
<1>1. Typed /\ TypeOK /\ Running /\ ArrivedAreFinite
  BY Split DEF TypeInv
<1>2. UNCHANGED <<phone, outbox, status, arrivals, peerHas, sent>>
  BY DEF FlushControls
<1>3. /\ AttemptsType' /\ controls' \in Seq(Receipt) /\ relayHas' \subseteq Outgoing
      /\ faults' \in 0 .. MaxFaults
  BY <1>1, ControlsFlushed
<1>4. Typed'
  BY <1>1, <1>2, <1>3 DEF phone, arrivals, Typed
<1>5. QED
  BY <1>1, <1>2, <1>3, <1>4, SplitNext DEF phone, arrivals, Running, ArrivedAreFinite, TypeInv

LEMMA PeerSendsType ==
  ASSUME Sizes, TypeInv, NEW e \in Arrival, PeerSends(e)
  PROVE  TypeInv'
<1>1. Typed /\ Running /\ ArrivedAreFinite /\ AttemptsType
  BY Split DEF TypeInv
<1>2. /\ Fault \/ faults' = faults
      /\ inbox' \in {inbox, inbox \union {e}} /\ mailbox' \in {mailbox, mailbox \union {e}}
      /\ UNCHANGED <<phone, held, attempts, queues, processed, shown, others, sent>>
  BY DEF PeerSends
<1>3. faults' \in 0 .. MaxFaults
  BY <1>1, <1>2, Faulted DEF Typed
<1>4. AttemptsType'
  BY <1>1, <1>2, AttemptsKept
<1>5. Typed'
  BY <1>1, <1>2, <1>3 DEF phone, queues, others, Typed
<1>6. ArrivedAreFinite'
  BY <1>1, <1>2, FS_AddElement DEF ArrivedAreFinite
<1>7. QED
  BY <1>1, <1>2, <1>4, <1>5, <1>6, SplitNext DEF phone, Running, TypeInv

\* A sync flushes, and consumes what has arrived in one place, or nothing.
LEMMA SyncFacts ==
  ASSUME Sizes, TypeInv, Sync
  PROVE  /\ open /\ FlushTexts(outbox)
         /\ UNCHANGED <<phone, peerHas, sent>>
         /\ \/ Consume(inbox) /\ inbox' = {} /\ mailbox' = mailbox
            \/ Consume(mailbox) /\ mailbox' \in {mailbox, {}} /\ inbox' = inbox
            \/ status' = StatusAfterFlush(outbox) /\ UNCHANGED <<controls, arrivals>>
<1>1. open /\ FlushTexts(outbox) /\ UNCHANGED <<phone, peerHas, sent>>
  BY DEF Sync
<1>2. \/ Consume(inbox) /\ inbox' = {} /\ UNCHANGED mailbox
      \/ Consume(mailbox) /\ mailbox' \in {mailbox, {}} /\ UNCHANGED inbox
      \/ status' = StatusAfterFlush(outbox) /\ UNCHANGED <<controls, arrivals>>
  BY DEF Sync
<1>3. QED
  BY <1>1, <1>2

LEMMA SyncType ==
  ASSUME Sizes, TypeInv, Sync
  PROVE  TypeInv'
<1>1. /\ Typed /\ TypeOK /\ Running /\ ArrivedAreFinite
      /\ outbox \in Seq(Text) /\ inbox \in SUBSET Arrival /\ mailbox \in SUBSET Arrival
  BY Split DEF TypeInv, Typed
<1>2. FlushTexts(outbox) /\ UNCHANGED <<phone, peerHas, sent>>
  BY SyncFacts
<1>3. AttemptsType' /\ outbox' \in Seq(Text) /\ relayHas' \subseteq Outgoing /\ faults' \in 0 .. MaxFaults
  BY <1>1, <1>2, FlushType
<1>4. /\ inbox' \in {inbox, {}} /\ mailbox' \in {mailbox, {}}
      /\ processed' \subseteq Arrival /\ shown' \in [Incoming -> Nat]
      /\ controls' \in Seq(Receipt) /\ status' \in [Text -> Status]
  <2>1. CASE Consume(inbox) /\ inbox' = {} /\ mailbox' = mailbox
    BY <1>1, <2>1, ConsumeType DEF ArrivedAreFinite
  <2>2. CASE Consume(mailbox) /\ mailbox' \in {mailbox, {}} /\ inbox' = inbox
    BY <1>1, <2>2, ConsumeType DEF ArrivedAreFinite
  <2>3. CASE status' = StatusAfterFlush(outbox) /\ UNCHANGED <<controls, arrivals>>
    BY <1>1, <2>3, FlushStatus DEF arrivals, Typed
  <2>4. QED
    BY <2>1, <2>2, <2>3, SyncFacts
<1>5. Typed'
  BY <1>1, <1>2, <1>3, <1>4 DEF phone, Typed
<1>6. ArrivedAreFinite'
  BY <1>1, <1>4, FS_EmptySet DEF ArrivedAreFinite
<1>7. QED
  BY <1>1, <1>2, <1>3, <1>5, <1>6, SplitNext DEF phone, Running, TypeInv

LEMMA TypeStep ==
  ASSUME Sizes, TypeInv, [Next]_vars
  PROVE  TypeInv'
<1>1. CASE UNCHANGED vars
  BY <1>1 DEF vars, phone, queues, arrivals, others, TypeInv, TypeOK, Running, ArrivedAreFinite
<1>2. CASE \E m \in Text : Send(m)
  BY <1>2, SendType
<1>3. CASE \E x \in attempts : Step(x) \/ Complete(x)
  BY <1>3, StepType, CompleteType
<1>4. CASE \E e \in Arrival : PeerSends(e)
  BY <1>4, PeerSendsType
<1>5. QED
  BY <1>1, <1>2, <1>3, <1>4, TransportType, FlushControlsType, SyncType DEF Next, Step

-----------------------------------------------------------------------------
(* The order of the texts.                                                 *)

\* The first n of the queue leave it, accepted; the next one may be reached.
LEMMA Advance ==
  ASSUME NEW q \in Seq(Text), NEW s \in Seq(Text), IsRest(q, s),
         NEW acc, NEW all, Ordered(q, s, acc, all),
         NEW n \in 0 .. Len(q), NEW k \in 0 .. Len(q), k <= n + 1,
         NEW acc2, NEW all2, acc \subseteq acc2, First(q, n) \subseteq acc2,
         Text \cap all2 \subseteq all \union First(q, k)
  PROVE  IsRest(SubSeq(q, n + 1, Len(q)), s) /\ Ordered(SubSeq(q, n + 1, Len(q)), s, acc2, all2)
<1> DEFINE r == SubSeq(q, n + 1, Len(q))
<1>1. /\ r \in Seq(Text) /\ Len(r) = Len(q) - n
      /\ \A i \in 1 .. Len(r) : r[i] = q[n + i]
  BY RestFacts
<1>2. Len(q) \in Nat /\ Len(s) \in Nat /\ Len(q) <= Len(s)
  BY DEF IsRest
<1> HIDE DEF r
<1>3. Left(r, s) = Left(q, s) + n /\ Left(q, s) \in Nat /\ Left(q, s) = Len(s) - Len(q)
  BY <1>1, <1>2 DEF Left
<1>4. IsRest(r, s)
  <2>1. ASSUME NEW i \in 1 .. Len(r) PROVE r[i] = s[Left(r, s) + i]
    <3>1. n + i \in 1 .. Len(q) /\ Left(q, s) + (n + i) = Left(r, s) + i
      BY <1>1, <1>2, <1>3
    <3>2. q[n + i] = s[Left(q, s) + (n + i)]
      BY <3>1 DEF IsRest
    <3>3. QED
      BY <1>1, <3>1, <3>2
  <2>2. \A i, j \in 1 .. Len(s) : s[i] = s[j] => i = j
    BY DEF IsRest
  <2>3. Len(r) <= Len(s)
    BY <1>1, <1>2
  <2>4. QED
    BY <2>1, <2>2, <2>3 DEF IsRest
<1>5. ASSUME NEW j \in 1 .. Len(q)
      PROVE  Left(q, s) + j \in 1 .. Len(s) /\ s[Left(q, s) + j] = q[j]
  BY <1>2, <1>3 DEF IsRest
<1>6. ASSUME NEW i \in 1 .. Left(r, s) PROVE s[i] \in acc2
  <2>1. CASE i <= Left(q, s)
    BY <1>3, <2>1 DEF Ordered
  <2>2. CASE i > Left(q, s)
    <3>1. i - Left(q, s) \in 1 .. n /\ i - Left(q, s) \in 1 .. Len(q)
          /\ Left(q, s) + (i - Left(q, s)) = i
      BY <1>2, <1>3, <2>2
    <3>2. s[i] = q[i - Left(q, s)]
      BY <1>5, <3>1
    <3>3. QED
      BY <3>1, <3>2 DEF First
  <2>3. QED
    BY <1>3, <2>1, <2>2
<1>7. ASSUME NEW m \in Text \cap all2
      PROVE  \E i \in 1 .. Len(s) : s[i] = m /\ i <= Left(r, s) + 1
  <2>1. CASE m \in all
    <3>1. PICK i \in 1 .. Len(s) : s[i] = m /\ i <= Left(q, s) + 1
      BY <2>1 DEF Ordered
    <3>2. QED
      BY <1>3, <3>1
  <2>2. CASE m \in First(q, k)
    <3>1. PICK j \in 1 .. k : m = q[j]
      BY <2>2 DEF First
    <3>2. Left(q, s) + j \in 1 .. Len(s) /\ s[Left(q, s) + j] = m /\ Left(q, s) + j <= Left(r, s) + 1
      BY <1>3, <1>5, <3>1
    <3>3. QED
      BY <3>2
  <2>3. QED
    BY <2>1, <2>2
<1>8. QED
  BY <1>4, <1>6, <1>7 DEF Ordered, r

\* A new text is the last one, of what was sent and of the queue.
LEMMA Appended ==
  ASSUME NEW q \in Seq(Text), NEW s \in Seq(Text), IsRest(q, s),
         NEW acc, NEW all, Ordered(q, s, acc, all),
         NEW m \in Text, \A i \in 1 .. Len(s) : s[i] # m
  PROVE  IsRest(Append(q, m), Append(s, m)) /\ Ordered(Append(q, m), Append(s, m), acc, all)
<1> DEFINE r == Append(q, m)
           t == Append(s, m)
<1>1. /\ Len(q) \in Nat /\ Len(s) \in Nat /\ Len(q) <= Len(s)
      /\ Len(r) = Len(q) + 1 /\ Len(t) = Len(s) + 1
      /\ \A i \in 1 .. Len(q) : r[i] = q[i]
      /\ \A i \in 1 .. Len(s) : t[i] = s[i]
      /\ r[Len(q) + 1] = m /\ t[Len(s) + 1] = m
  BY DEF IsRest
<1> HIDE DEF r, t
<1>2. Left(r, t) = Left(q, s) /\ Left(q, s) \in 0 .. Len(s) /\ Left(q, s) = Len(s) - Len(q)
  BY <1>1 DEF Left
<1>3. IsRest(r, t)
  <2>1. ASSUME NEW i \in 1 .. Len(r) PROVE r[i] = t[Left(r, t) + i]
    <3>1. CASE i \in 1 .. Len(q)
      <4>1. Left(q, s) + i \in 1 .. Len(s) /\ q[i] = s[Left(q, s) + i]
        BY <1>1, <1>2, <3>1 DEF IsRest
      <4>2. QED
        BY <1>1, <1>2, <3>1, <4>1
    <3>2. CASE i = Len(q) + 1
      <4>1. Left(r, t) + i = Len(s) + 1
        BY <1>1, <1>2, <3>2
      <4>2. QED
        BY <1>1, <3>2, <4>1
    <3>3. QED
      BY <1>1, <3>1, <3>2
  <2>2. ASSUME NEW i \in 1 .. Len(t), NEW j \in 1 .. Len(t), t[i] = t[j] PROVE i = j
    <3>1. CASE i \in 1 .. Len(s) /\ j \in 1 .. Len(s)
      BY <1>1, <2>2, <3>1 DEF IsRest
    <3>2. CASE ~(i \in 1 .. Len(s) /\ j \in 1 .. Len(s))
      BY <1>1, <2>2, <3>2
    <3>3. QED
      BY <3>1, <3>2
  <2>3. QED
    BY <1>1, <2>1, <2>2 DEF IsRest
<1>4. Ordered(r, t, acc, all)
  <2>1. ASSUME NEW i \in 1 .. Left(r, t) PROVE t[i] \in acc
    BY <1>1, <1>2, SMTT(30) DEF Ordered
  <2>2. ASSUME NEW x \in Text \cap all
        PROVE  \E i \in 1 .. Len(t) : t[i] = x /\ i <= Left(r, t) + 1
    <3>1. PICK i \in 1 .. Len(s) : s[i] = x /\ i <= Left(q, s) + 1
      BY DEF Ordered
    <3>2. QED
      BY <1>1, <1>2, <3>1
  <2>3. QED
    BY <2>1, <2>2 DEF Ordered
<1>5. QED
  BY <1>3, <1>4 DEF r, t

\* The texts that leave the phone are the first that are left.
LEMMA OrderImplied ==
  ASSUME TypeOK, IsRest(outbox, sent), InOrder
  PROVE  LeavesInOrder
<1>1. /\ sent \in Seq(Text) /\ outbox \in Seq(Text) /\ Len(sent) \in Nat /\ Len(outbox) \in Nat
      /\ DOMAIN sent = 1 .. Len(sent) /\ Len(outbox) <= Len(sent)
  BY DEF TypeOK, IsRest
<1>2. /\ \A i \in 1 .. Left(outbox, sent) : sent[i] \in Accepted
      /\ \A m \in Text \cap (Accepted \union Ids) :
           \E i \in 1 .. Len(sent) : sent[i] = m /\ i <= Left(outbox, sent) + 1
      /\ \A i, j \in 1 .. Len(sent) : sent[i] = sent[j] => i = j
      /\ Left(outbox, sent) = Len(sent) - Len(outbox)
  BY DEF InOrder, Ordered, IsRest, Left
<1>3. ASSUME NEW i \in DOMAIN sent, sent[i] \in Accepted, NEW j \in 1 .. i
      PROVE  sent[j] \in Accepted
  <2>1. i <= Left(outbox, sent) + 1
    BY <1>1, <1>2, <1>3
  <2>2. QED
    BY <1>1, <1>2, <1>3, <2>1
<1>4. ASSUME NEW i \in DOMAIN sent PROVE sent[i] \in Accepted \union ToSet(outbox)
  <2>1. CASE i <= Left(outbox, sent)
    BY <1>1, <1>2, <2>1
  <2>2. CASE i > Left(outbox, sent)
    <3>1. /\ i - Left(outbox, sent) \in 1 .. Len(outbox)
          /\ Left(outbox, sent) + (i - Left(outbox, sent)) = i
      BY <1>1, <1>2, <2>2
    <3>2. outbox[i - Left(outbox, sent)] = sent[i]
      BY <3>1 DEF IsRest
    <3>3. QED
      BY <1>1, <3>1, <3>2 DEF ToSet
  <2>3. QED
    BY <1>1, <1>2, <2>1, <2>2
<1>5. QED
  BY <1>3, <1>4 DEF LeavesInOrder

-----------------------------------------------------------------------------
(* The steps.                                                              *)
OrderInv == IsRest(outbox, sent) /\ InOrder /\ SentHasStatus /\ AttemptsStand

LEMMA OrderKept ==
  ASSUME IsRest(outbox, sent), InOrder, outbox' = outbox, sent' = sent,
         Accepted \subseteq Accepted',
         Text \cap (Accepted' \union Ids') \subseteq Accepted \union Ids
  PROVE  IsRest(outbox, sent)' /\ InOrder'
BY DEF IsRest, InOrder, Ordered, Left

\* The queue q of the texts s is flushed.
LEMMA OrderFlushed ==
  ASSUME Sizes, TypeOK, NEW q \in Seq(Text), NEW s \in Seq(Text), IsRest(q, s),
         Ordered(q, s, Accepted, Accepted \union Ids),
         FlushTexts(q), sent' = s, peerHas' = peerHas
  PROVE  IsRest(outbox, sent)' /\ InOrder' /\ Accepted \subseteq Accepted'
<1>1. PICK n \in 0 .. Len(q), k \in 0 .. Len(q) :
        /\ outbox' = SubSeq(q, n + 1, Len(q))
        /\ relayHas' = relayHas \union First(q, k)
        /\ n <= k /\ k <= n + 1
        /\ attempts' # attempts => n = 0
  BY Flushed
<1>2. \A y \in attempts' : y \in attempts \/ (Len(q) # 0 /\ y.id = q[1])
  BY Flushed
<1>3. Len(q) \in Nat
  OBVIOUS
<1>4. First(q, n) \subseteq First(q, k)
  BY <1>1 DEF First
<1>5. Accepted' = Accepted \union First(q, k)
  BY <1>1 DEF Accepted
<1>6. PICK l \in 0 .. Len(q) :
        l <= n + 1 /\ First(q, k) \subseteq First(q, l) /\ Ids' \subseteq Ids \union First(q, l)
  <2>1. CASE attempts' = attempts
    BY <1>1, <2>1 DEF Ids
  <2>2. CASE attempts' # attempts /\ Len(q) = 0
    BY <1>1, <1>2, <2>2 DEF Ids
  <2>3. CASE attempts' # attempts /\ Len(q) # 0
    <3>1. n = 0 /\ 1 \in 0 .. Len(q) /\ First(q, k) \subseteq First(q, 1)
      BY <1>1, <1>3, <2>3 DEF First
    <3>2. q[1] \in First(q, 1)
      BY DEF First
    <3>3. Ids' \subseteq Ids \union First(q, 1)
      BY <1>2, <3>2 DEF Ids
    <3>4. QED
      BY <3>1, <3>3
  <2>4. QED
    BY <2>1, <2>2, <2>3
<1>7. IsRest(SubSeq(q, n + 1, Len(q)), s)
      /\ Ordered(SubSeq(q, n + 1, Len(q)), s, Accepted', Accepted' \union Ids')
  <2>1. /\ Accepted \subseteq Accepted' /\ First(q, n) \subseteq Accepted'
        /\ Text \cap (Accepted' \union Ids') \subseteq (Accepted \union Ids) \union First(q, l)
    BY <1>4, <1>5, <1>6
  <2> DEFINE acc2 == Accepted'
             all2 == Accepted' \union Ids'
             all == Accepted \union Ids
  <2>2. /\ Ordered(q, s, Accepted, all) /\ Accepted \subseteq acc2 /\ First(q, n) \subseteq acc2
        /\ Text \cap all2 \subseteq all \union First(q, l) /\ l <= n + 1
    BY <1>6, <2>1
  <2> HIDE DEF acc2, all2, all
  <2>3. IsRest(SubSeq(q, n + 1, Len(q)), s) /\ Ordered(SubSeq(q, n + 1, Len(q)), s, acc2, all2)
    BY <2>2, Advance
  <2>4. QED
    BY <2>3 DEF acc2, all2
<1>8. QED
  BY <1>1, <1>5, <1>7 DEF IsRest, InOrder, Ordered, Left

LEMMA StatusKept ==
  ASSUME Typed, SentHasStatus, sent' = sent,
         \A m \in Text : status'[m] = "none" => status[m] = "none"
  PROVE  SentHasStatus'
<1>1. sent \in Seq(Text)
  BY DEF Typed
<1>2. \A i \in 1 .. Len(sent) : sent[i] \in Text
  BY <1>1
<1>3. QED
  BY <1>2 DEF SentHasStatus

\* What an attempt has, it keeps: what is new has it.
LEMMA StandKept ==
  ASSUME Typed, AttemptsType, AttemptsStand, Accepted \subseteq Accepted',
         epoch' \in Nat, epoch' >= epoch, epoch' = epoch => mode' = mode /\ (open => open'),
         \A y \in attempts' :
           \/ \E x \in attempts : Same(y, x) /\ (y.at = x.at \/ y.at = "failed")
           \/ /\ y.epoch <= epoch' /\ (y.at = "accepted" => y.id \in Accepted')
              /\ y.at = "posting" => open' /\ mode' = "HYBRID_TOR_RELAY"
  PROVE  AttemptsStand'
<1> SUFFICES ASSUME NEW y \in attempts'
             PROVE  /\ y.epoch <= epoch'
                    /\ y.at = "accepted" => y.id \in Accepted'
                    /\ y.at = "posting" /\ y.epoch = epoch' => open' /\ mode' = "HYBRID_TOR_RELAY"
  BY DEF AttemptsStand
<1>1. CASE \E x \in attempts : Same(y, x) /\ (y.at = x.at \/ y.at = "failed")
  <2>1. PICK x \in attempts : Same(y, x) /\ (y.at = x.at \/ y.at = "failed")
    BY <1>1
  <2>2. /\ x.epoch \in Nat /\ epoch \in Nat
        /\ x.epoch <= epoch /\ (x.at = "accepted" => x.id \in Accepted)
        /\ x.at = "posting" /\ x.epoch = epoch => open /\ mode = "HYBRID_TOR_RELAY"
    BY DEF AttemptsStand, AttemptsType, Attempt, Typed
  <2>3. y.epoch = x.epoch /\ y.id = x.id
    BY <2>1 DEF Same
  <2>4. y.at = "posting" \/ y.at = "accepted" => y.at = x.at
    BY <2>1
  <2>5. x.epoch = epoch' => epoch' = epoch
    BY <2>2
  <2>6. y.epoch <= epoch'
    BY <2>2, <2>3
  <2>7. QED
    BY <2>2, <2>3, <2>4, <2>5, <2>6
<1>2. QED
  BY <1>1

\* An attempt that was there, as it was or failed.
Old(y) == \E x \in attempts : Same(y, x) /\ (y.at = x.at \/ y.at = "failed")

LEMMA OldFacts ==
  ASSUME NEW y, y \in attempts \/ (y.at = "failed" /\ \E x \in attempts : Same(y, x))
  PROVE  Old(y) /\ y.id \in Ids
BY DEF Old, Same, Ids

LEMMA TransportOrder ==
  ASSUME Sizes, TypeInv, OrderInv,
         \/ StartTor \/ TorReady \/ TorEnds \/ NetworkChanges \/ Lock \/ Unlock
         \/ \E m \in Mode : SetMode(m)
  PROVE  OrderInv'
<1>1. /\ Typed /\ AttemptsType
      /\ IsRest(outbox, sent) /\ InOrder /\ SentHasStatus /\ AttemptsStand
  BY Split DEF TypeInv, OrderInv
<1>2. UNCHANGED <<held, queues, others, sent>>
  BY DEF StartTor, TorReady, TorEnds, NetworkChanges, Lock, Unlock, SetMode
<1>3. \/ attempts' = attempts
      \/ attempts' = Closed(attempts, tor)
      \/ attempts' = {IF x.at = "sent" THEN [x EXCEPT !.at = "failed"] ELSE x : x \in attempts}
  BY DEF StartTor, TorReady, TorEnds, NetworkChanges, Lock, Unlock, SetMode, StopDirect
<1>4. \A y \in attempts' :
        y \in attempts \/ (y.at = "failed" /\ \E x \in attempts : Same(y, x))
  <2>1. CASE attempts' = {IF x.at = "sent" THEN [x EXCEPT !.at = "failed"] ELSE x : x \in attempts}
    <3> DEFINE P == {x \in attempts : x.at = "sent"}
    <3>1. attempts' = {IF x \in P THEN [x EXCEPT !.at = "failed"] ELSE x : x \in attempts}
      BY <2>1
    <3>2. P \in SUBSET attempts
      OBVIOUS
    <3> HIDE DEF P
    <3>3. QED
      BY <1>1, <1>2, <3>1, <3>2, Failed
  <2>2. CASE attempts' = Closed(attempts, tor) \/ attempts' = attempts
    BY <1>1, <1>2, <2>2, ClosedFacts
  <2>3. QED
    BY <1>3, <2>1, <2>2
<1>5. \A y \in attempts' : Old(y) /\ y.id \in Ids
  BY <1>4, OldFacts
<1>6. /\ epoch' \in Nat /\ epoch' >= epoch
      /\ epoch' = epoch => mode' = mode /\ (open => open')
  <2>1. epoch \in Nat
    BY <1>1 DEF Typed
  <2>2. \/ epoch' = epoch /\ mode' = mode /\ (open' = open \/ open')
        \/ epoch' = epoch + 1
    BY DEF StartTor, TorReady, TorEnds, NetworkChanges, Lock, Unlock, SetMode, StopDirect,
           EpochAfterStop, phone
  <2>3. QED
    BY <2>1, <2>2
<1>7. Accepted' = Accepted /\ outbox' = outbox /\ sent' = sent /\ status' = status
  BY <1>2 DEF others, queues, Accepted
<1>8. Ids' \subseteq Ids
  BY <1>5 DEF Ids
<1>9. IsRest(outbox, sent)' /\ InOrder'
  BY <1>1, <1>7, <1>8, OrderKept
<1>10. SentHasStatus'
  BY <1>1, <1>7, StatusKept
<1>11. AttemptsStand'
  BY <1>1, <1>5, <1>6, <1>7, StandKept DEF Old
<1>12. QED
  BY <1>9, <1>10, <1>11 DEF OrderInv

LEMMA StepOrder ==
  ASSUME Sizes, TypeInv, OrderInv, NEW x \in attempts, Step(x)
  PROVE  OrderInv'
<1>1. /\ Typed /\ AttemptsType
      /\ IsRest(outbox, sent) /\ InOrder /\ SentHasStatus /\ AttemptsStand
  BY Split DEF TypeInv, OrderInv
<1>2. /\ UNCHANGED <<phone, held, queues, arrivals, sent>>
      /\ peerHas' \in {peerHas, peerHas \union {x.id}}
      /\ relayHas' \in {relayHas, relayHas \union {x.id}}
  BY StepFacts
<1>3. PICK at \in At :
        /\ attempts' = (attempts \ {x}) \union {[x EXCEPT !.at = at]}
        /\ at = "accepted" => x.id \in peerHas' \union relayHas'
        /\ at = "posting" => open /\ mode = "HYBRID_TOR_RELAY"
  BY StepFacts
<1>4. \A y \in attempts' : y \in attempts \/ (y.at = at /\ Same(y, x))
  BY <1>1, <1>2, <1>3, Moved
<1>5. /\ Accepted \subseteq Accepted' /\ Accepted' \subseteq Accepted \union {x.id}
      /\ outbox' = outbox /\ sent' = sent /\ status' = status
      /\ open' = open /\ mode' = mode /\ epoch' = epoch
  BY <1>2 DEF queues, phone, Accepted
<1>6. x.id \in Ids /\ Ids' \subseteq Ids
  BY <1>4 DEF Ids, Same
<1>7. IsRest(outbox, sent)' /\ InOrder'
  BY <1>1, <1>5, <1>6, OrderKept
<1>8. SentHasStatus'
  BY <1>1, <1>5, StatusKept
<1>9. AttemptsStand'
  <2>1. epoch \in Nat /\ x.epoch <= epoch
    BY <1>1 DEF Typed, AttemptsStand
  <2>2. ASSUME NEW y \in attempts'
        PROVE  \/ \E z \in attempts : Same(y, z) /\ (y.at = z.at \/ y.at = "failed")
               \/ /\ y.epoch <= epoch' /\ (y.at = "accepted" => y.id \in Accepted')
                  /\ y.at = "posting" => open' /\ mode' = "HYBRID_TOR_RELAY"
    <3>1. CASE y \in attempts
      BY <3>1 DEF Same
    <3>2. CASE y.at = at /\ Same(y, x)
      BY <1>3, <1>5, <2>1, <3>2 DEF Same, Accepted
    <3>3. QED
      BY <1>4, <3>1, <3>2
  <2>3. epoch' \in Nat /\ epoch' >= epoch
    BY <1>5, <2>1
  <2>4. QED
    BY <1>1, <1>5, <2>2, <2>3, StandKept
<1>10. QED
  BY <1>7, <1>8, <1>9 DEF OrderInv

\* An accepted text that completes is the first of the queue, if it is there.
LEMMA CompleteOrder ==
  ASSUME Sizes, TypeInv, OrderInv, NEW x \in attempts, Complete(x)
  PROVE  OrderInv'
<1>1. /\ Typed /\ AttemptsType
      /\ IsRest(outbox, sent) /\ InOrder /\ SentHasStatus /\ AttemptsStand
  BY Split DEF TypeInv, OrderInv
<1>2. /\ attempts' = attempts \ {x} /\ held' = held \ {x.id}
      /\ UNCHANGED <<phone, arrivals, others, sent, faults>>
  BY DEF Complete
<1>3. /\ Accepted' = Accepted /\ Ids' \subseteq Ids /\ sent' = sent
      /\ open' = open /\ mode' = mode /\ epoch' = epoch
  BY <1>2 DEF others, phone, Accepted, Ids
<1>4. outbox \in Seq(Text) /\ sent \in Seq(Text) /\ Len(outbox) \in Nat /\ Len(sent) \in Nat
      /\ Len(outbox) <= Len(sent)
  BY <1>1 DEF Typed, IsRest
<1>5. IsRest(outbox, sent)' /\ InOrder'
  <2>1. CASE outbox' = outbox
    BY <1>1, <1>3, <2>1, OrderKept
  <2>2. CASE outbox' # outbox
    <3>1. Counts(x) /\ outbox' = Without(outbox, x.id)
      BY <2>2 DEF Complete, queues
    <3>2. x.id \in ToSet(outbox)
      BY <1>4, <2>2, <3>1, WithoutFacts
    <3>3. PICK j \in 1 .. Len(outbox) : outbox[j] = x.id
      BY <1>4, <3>2, ToSetFacts
    <3>4. x.id \in Text /\ x.id \in Accepted
      BY <1>1, <1>4, <3>1, <3>3 DEF Counts, AttemptsStand
    <3>5. PICK i \in 1 .. Len(sent) : sent[i] = x.id /\ i <= Left(outbox, sent) + 1
      BY <1>1, <3>4 DEF InOrder, Ordered
    <3>6. /\ Left(outbox, sent) = Len(sent) - Len(outbox)
          /\ Left(outbox, sent) + j \in 1 .. Len(sent) /\ sent[Left(outbox, sent) + j] = x.id
      BY <1>1, <1>4, <3>3 DEF IsRest, Left
    <3>7. i = Left(outbox, sent) + j
      BY <1>1, <3>5, <3>6 DEF IsRest
    <3>8. j = 1
      BY <1>4, <3>5, <3>6, <3>7
    <3>9. \A a, b \in 1 .. Len(outbox) : outbox[a] = outbox[b] => a = b
      <4>1. SUFFICES ASSUME NEW a \in 1 .. Len(outbox), NEW b \in 1 .. Len(outbox),
                            outbox[a] = outbox[b]
                     PROVE  a = b
        OBVIOUS
      <4>2. /\ Left(outbox, sent) + a \in 1 .. Len(sent) /\ Left(outbox, sent) + b \in 1 .. Len(sent)
            /\ sent[Left(outbox, sent) + a] = outbox[a] /\ sent[Left(outbox, sent) + b] = outbox[b]
        BY <1>1, <1>4, <3>6 DEF IsRest
      <4>3. Left(outbox, sent) + a = Left(outbox, sent) + b
        BY <1>1, <4>1, <4>2 DEF IsRest
      <4>4. QED
        BY <1>4, <3>6, <4>3
    <3>10. outbox' = SubSeq(outbox, 1 + 1, Len(outbox))
      <4>1. Len(outbox) # 0 /\ x.id = outbox[1]
        BY <1>4, <3>3, <3>8
      <4>2. Without(outbox, outbox[1]) = SubSeq(outbox, 2, Len(outbox))
        BY <1>4, <3>9, <4>1, WithoutFirst
      <4>3. QED
        BY <3>1, <4>1, <4>2
    <3> DEFINE all == Accepted \union Ids
               all2 == Accepted' \union Ids'
    <3>11. /\ 1 \in 0 .. Len(outbox) /\ First(outbox, 1) \subseteq Accepted
           /\ Ordered(outbox, sent, Accepted, all)
           /\ Text \cap all2 \subseteq all \union First(outbox, 1)
      BY <1>1, <1>3, <3>3, <3>4, <3>8 DEF First, InOrder
    <3> HIDE DEF all, all2
    <3>12. /\ IsRest(SubSeq(outbox, 1 + 1, Len(outbox)), sent)
           /\ Ordered(SubSeq(outbox, 1 + 1, Len(outbox)), sent, Accepted, all2)
      BY <1>1, <1>4, <3>11, Advance
    <3>13. QED
      BY <1>3, <3>10, <3>12 DEF IsRest, InOrder, Ordered, Left, all2
  <2>3. QED
    BY <2>1, <2>2
<1>6. SentHasStatus'
  BY <1>1, <1>3, StatusKept, CompleteQueues
<1>7. AttemptsStand'
  <2>1. \A y \in attempts' : \E z \in attempts : Same(y, z) /\ (y.at = z.at \/ y.at = "failed")
    BY <1>2 DEF Same
  <2>2. epoch' \in Nat /\ epoch' >= epoch
    BY <1>1, <1>3 DEF Typed
  <2>3. QED
    BY <1>1, <1>3, <2>1, <2>2, StandKept
<1>8. QED
  BY <1>5, <1>6, <1>7 DEF OrderInv

\* An attempt that a flush begins has nothing yet.
LEMMA BegunStands ==
  ASSUME Typed, AttemptsType, AttemptsStand, Accepted \subseteq Accepted', UNCHANGED phone,
         \A y \in attempts' :
           y \in attempts \/ (y.epoch = epoch /\ y.at \in {"queued", "failed"})
  PROVE  AttemptsStand'
<1>1. epoch \in Nat /\ epoch' = epoch /\ mode' = mode /\ open' = open
  BY DEF Typed, phone
<1>2. ASSUME NEW y \in attempts'
      PROVE  \/ \E z \in attempts : Same(y, z) /\ (y.at = z.at \/ y.at = "failed")
             \/ /\ y.epoch <= epoch' /\ (y.at = "accepted" => y.id \in Accepted')
                /\ y.at = "posting" => open' /\ mode' = "HYBRID_TOR_RELAY"
  BY <1>1, <1>2 DEF Same
<1>3. epoch' \in Nat /\ epoch' >= epoch
  BY <1>1
<1>4. QED
  BY <1>1, <1>2, <1>3, StandKept

LEMMA SendOrder ==
  ASSUME Sizes, TypeInv, OrderInv, NEW m \in Text, Send(m)
  PROVE  OrderInv'
<1>1. /\ Typed /\ TypeOK /\ AttemptsType
      /\ IsRest(outbox, sent) /\ InOrder /\ SentHasStatus /\ AttemptsStand
  BY Split DEF TypeInv, OrderInv
<1> DEFINE q == Append(outbox, m)
           s == Append(sent, m)
           all == Accepted \union Ids
<1>2. /\ outbox \in Seq(Text) /\ sent \in Seq(Text)
      /\ q \in Seq(Text) /\ s \in Seq(Text) /\ ToSet(q) = {q[i] : i \in 1 .. Len(q)}
      /\ Len(q) = Len(outbox) + 1 /\ q[Len(q)] = m /\ Len(q) \in 1 .. Len(q)
      /\ \A i \in 1 .. Len(outbox) : q[i] = outbox[i]
      /\ Len(s) = Len(sent) + 1 /\ s[Len(s)] = m /\ Len(sent) \in Nat
      /\ \A i \in 1 .. Len(sent) : s[i] = sent[i] /\ sent[i] \in Text
  <2>1. outbox \in Seq(Text) /\ sent \in Seq(Text)
    BY <1>1 DEF Typed
  <2>2. q \in Seq(Text) /\ s \in Seq(Text)
    BY <2>1
  <2>3. ToSet(q) = {q[i] : i \in 1 .. Len(q)}
    BY <2>2, ToSetFacts
  <2>4. QED
    BY <2>1, <2>2, <2>3
<1>3. /\ FlushTexts(q) /\ sent' = s /\ status[m] = "none" /\ status' = StatusAfterFlush(q)
      /\ UNCHANGED <<phone, controls, arrivals, peerHas>>
  BY DEF Send
<1>4. \A i \in 1 .. Len(sent) : sent[i] # m
  BY <1>1, <1>3 DEF SentHasStatus
<1>5. Ordered(outbox, sent, Accepted, all)
  BY <1>1 DEF InOrder
<1> HIDE DEF all
<1>6. IsRest(q, s) /\ Ordered(q, s, Accepted, all)
  BY <1>1, <1>2, <1>4, <1>5, Appended
<1> HIDE DEF q, s
<1>7. IsRest(outbox, sent)' /\ InOrder' /\ Accepted \subseteq Accepted'
  BY <1>1, <1>2, <1>3, <1>6, OrderFlushed DEF all
<1>8. SentHasStatus'
  <2>1. \A t \in Text : status'[t] = "none" => status[t] = "none" /\ t \notin ToSet(q)
    BY <1>1, <1>3, FlushStatus
  <2>2. ASSUME NEW i \in 1 .. Len(s) PROVE status'[s[i]] # "none"
    <3>1. CASE i \in 1 .. Len(sent)
      BY <1>1, <1>2, <2>1, <3>1 DEF SentHasStatus
    <3>2. CASE i = Len(s)
      <4>1. s[i] = m /\ m \in ToSet(q)
        BY <1>2, <3>2
      <4>2. QED
        BY <2>1, <4>1
    <3>3. QED
      BY <1>2, <3>1, <3>2
  <2>3. QED
    BY <1>3, <2>2 DEF SentHasStatus
<1>9. AttemptsStand'
  <2>1. \A y \in attempts' :
          y \in attempts \/ (y.epoch = epoch /\ y.at \in {"queued", "failed"})
    BY <1>1, <1>2, <1>3, Flushed
  <2>2. QED
    BY <1>1, <1>3, <1>7, <2>1, BegunStands
<1>10. QED
  BY <1>7, <1>8, <1>9 DEF OrderInv

LEMMA FlushControlsOrder ==
  ASSUME Sizes, TypeInv, OrderInv, FlushControls
  PROVE  OrderInv'
<1>1. /\ Typed /\ TypeOK /\ AttemptsType
      /\ IsRest(outbox, sent) /\ InOrder /\ SentHasStatus /\ AttemptsStand
  BY Split DEF TypeInv, OrderInv
<1>2. UNCHANGED <<phone, outbox, status, arrivals, peerHas, sent>>
  BY DEF FlushControls
<1>3. /\ relayHas \subseteq relayHas' /\ relayHas' \subseteq relayHas \union Receipt
      /\ \A y \in attempts' :
           y \in attempts \/ (y.id \in Receipt /\ y.epoch = epoch /\ y.at \in {"queued", "failed"})
  BY <1>1, ControlsFlushed
<1>4. /\ Accepted \subseteq Accepted' /\ Accepted' \subseteq Accepted \union Receipt
      /\ Ids' \subseteq Ids \union Receipt
  BY <1>2, <1>3 DEF Accepted, Ids
<1>5. Text \cap (Accepted' \union Ids') \subseteq Accepted \union Ids
  BY <1>4 DEF Sizes
<1>6. IsRest(outbox, sent)' /\ InOrder'
  BY <1>1, <1>2, <1>4, <1>5, OrderKept
<1>7. SentHasStatus'
  BY <1>1, <1>2, StatusKept
<1>8. AttemptsStand'
  BY <1>1, <1>2, <1>3, <1>4, BegunStands
<1>9. QED
  BY <1>6, <1>7, <1>8 DEF OrderInv

LEMMA PeerSendsOrder ==
  ASSUME Sizes, TypeInv, OrderInv, NEW e \in Arrival, PeerSends(e)
  PROVE  OrderInv'
<1>1. UNCHANGED <<phone, attempts, queues, others, sent>>
  BY DEF PeerSends
<1>2. QED
  BY <1>1 DEF phone, queues, others, OrderInv, IsRest, InOrder, Ordered, Left, Accepted, Ids,
              SentHasStatus, AttemptsStand

LEMMA SyncOrder ==
  ASSUME Sizes, TypeInv, OrderInv, Sync
  PROVE  OrderInv'
<1>1. /\ Typed /\ TypeOK /\ AttemptsType /\ ArrivedAreFinite
      /\ IsRest(outbox, sent) /\ InOrder /\ SentHasStatus /\ AttemptsStand
      /\ outbox \in Seq(Text) /\ sent \in Seq(Text)
      /\ inbox \in SUBSET Arrival /\ mailbox \in SUBSET Arrival
  BY Split DEF TypeInv, OrderInv, Typed
<1>2. FlushTexts(outbox) /\ UNCHANGED <<phone, peerHas, sent>>
  BY SyncFacts
<1>3. IsRest(outbox, sent)' /\ InOrder' /\ Accepted \subseteq Accepted'
  BY <1>1, <1>2, OrderFlushed DEF InOrder
<1>4. SentHasStatus'
  <2>1. \A m \in Text : status'[m] = "none" => StatusAfterFlush(outbox)[m] = "none"
    <3>1. CASE Consume(inbox)
      BY <1>1, <3>1, ConsumeType DEF ArrivedAreFinite
    <3>2. CASE Consume(mailbox)
      BY <1>1, <3>2, ConsumeType DEF ArrivedAreFinite
    <3>3. QED
      BY <3>1, <3>2, SyncFacts
  <2>2. \A m \in Text : status'[m] = "none" => status[m] = "none"
    BY <1>1, <2>1, FlushStatus
  <2>3. QED
    BY <1>1, <1>2, <2>2, StatusKept
<1>5. AttemptsStand'
  <2>1. \A y \in attempts' :
          y \in attempts \/ (y.epoch = epoch /\ y.at \in {"queued", "failed"})
    BY <1>1, <1>2, Flushed
  <2>2. QED
    BY <1>1, <1>2, <1>3, <2>1, BegunStands
<1>6. QED
  BY <1>3, <1>4, <1>5 DEF OrderInv

LEMMA OrderStep ==
  ASSUME Sizes, TypeInv, OrderInv, [Next]_vars
  PROVE  OrderInv'
<1>1. CASE UNCHANGED vars
  BY <1>1 DEF vars, phone, queues, others, OrderInv, IsRest, InOrder, Ordered, Left, Accepted, Ids,
              SentHasStatus, AttemptsStand
<1>2. CASE \E m \in Text : Send(m)
  BY <1>2, SendOrder
<1>3. CASE \E x \in attempts : Step(x) \/ Complete(x)
  BY <1>3, StepOrder, CompleteOrder
<1>4. CASE \E e \in Arrival : PeerSends(e)
  BY <1>4, PeerSendsOrder
<1>5. QED
  BY <1>1, <1>2, <1>3, <1>4, TransportOrder, FlushControlsOrder, SyncOrder DEF Next, Step

-----------------------------------------------------------------------------
(* What arrives.                                                           *)

LEMMA ShownKept ==
  ASSUME ShownOnce, UNCHANGED <<processed, shown>>,
         ToSet(controls) \union Accepted \subseteq ToSet(controls') \union Accepted'
  PROVE  ShownOnce'
BY DEF ShownOnce

\* What is new is shown, and its receipt is queued; what is not changes nothing.
LEMMA ConsumeShown ==
  ASSUME Sizes, TypeOK, ShownOnce, NEW es \in SUBSET Arrival, IsFiniteSet(es), Consume(es),
         Accepted \subseteq Accepted'
  PROVE  ShownOnce'
<1>1. ToSet(controls') = ToSet(controls) \union {[of |-> e] : e \in Fresh(es) \cap Incoming}
  BY Consumed
<1>2. /\ processed' = processed \union es
      /\ shown' = [e \in Incoming |-> shown[e] + IF e \in Fresh(es) THEN 1 ELSE 0]
  BY DEF Consume
<1>3. ASSUME NEW e \in Incoming
      PROVE  /\ shown'[e] <= 1 /\ ((shown'[e] = 1) = (e \in processed'))
             /\ e \in processed' => [of |-> e] \in ToSet(controls') \union Accepted'
  <2>1. /\ shown[e] \in Nat /\ shown[e] <= 1 /\ ((shown[e] = 1) = (e \in processed))
        /\ e \in processed => [of |-> e] \in ToSet(controls) \union Accepted
    BY DEF ShownOnce, TypeOK
  <2>2. CASE e \in es /\ e \notin processed
    <3>1. e \in Fresh(es) \cap Incoming
      BY <2>2 DEF Fresh
    <3>2. shown'[e] = 1
      BY <1>2, <2>1, <2>2, <3>1
    <3>3. [of |-> e] \in ToSet(controls')
      BY <1>1, <3>1
    <3>4. e \in processed'
      BY <1>2, <2>2
    <3>5. QED
      BY <3>2, <3>3, <3>4
  <2>3. CASE e \in processed \/ e \notin es
    <3>1. e \notin Fresh(es) /\ (e \in processed' <=> e \in processed)
      BY <1>2, <2>3 DEF Fresh
    <3>2. shown'[e] = shown[e]
      BY <1>2, <2>1, <3>1
    <3>3. QED
      BY <1>1, <2>1, <3>1, <3>2
  <2>4. QED
    BY <2>2, <2>3
<1>4. QED
  BY <1>3 DEF ShownOnce

LEMMA ShownStep ==
  ASSUME Sizes, TypeInv, OrderInv, ShownOnce, [Next]_vars
  PROVE  ShownOnce'
<1>1. /\ TypeOK /\ Typed /\ ArrivedAreFinite /\ AttemptsStand
      /\ outbox \in Seq(Text) /\ inbox \in SUBSET Arrival /\ mailbox \in SUBSET Arrival
  BY Split DEF TypeInv, Typed, OrderInv
<1>2. CASE \/ UNCHANGED vars \/ StartTor \/ TorReady \/ TorEnds \/ NetworkChanges \/ Lock \/ Unlock
           \/ \E m \in Mode : SetMode(m)
  <2>1. UNCHANGED <<controls, processed, shown, others>>
    BY <1>2 DEF vars, queues, arrivals, StartTor, TorReady, TorEnds, NetworkChanges, Lock, Unlock, SetMode
  <2>2. QED
    BY <2>1, ShownKept DEF others, Accepted
<1>3. ASSUME NEW m \in Text, Send(m) PROVE ShownOnce'
  <2>1. Append(outbox, m) \in Seq(Text)
    BY <1>1
  <2>2. FlushTexts(Append(outbox, m)) /\ UNCHANGED <<controls, arrivals, peerHas>>
    BY <1>3 DEF Send
  <2>3. relayHas \subseteq relayHas'
    BY <1>1, <2>1, <2>2, Flushed
  <2>4. QED
    BY <2>2, <2>3, ShownKept DEF arrivals, Accepted
<1>4. CASE FlushControls
  <2>1. UNCHANGED <<arrivals, peerHas>>
    BY <1>4 DEF FlushControls
  <2>2. relayHas \subseteq relayHas' /\ ToSet(controls) \subseteq ToSet(controls') \union relayHas'
    BY <1>1, <1>4, ControlsFlushed
  <2>3. QED
    BY <2>1, <2>2, ShownKept DEF arrivals, Accepted
<1>5. ASSUME NEW x \in attempts, Step(x) PROVE ShownOnce'
  <2>1. /\ UNCHANGED <<queues, arrivals>>
        /\ peerHas \subseteq peerHas' /\ relayHas \subseteq relayHas'
    BY <1>5, StepFacts
  <2>2. QED
    BY <2>1, ShownKept DEF queues, arrivals, Accepted
<1>6. ASSUME NEW x \in attempts, Complete(x) PROVE ShownOnce'
  <2>1. UNCHANGED <<arrivals, others>>
    BY <1>6 DEF Complete
  <2>2. \A r \in ToSet(controls) : r # x.id \/ ~Counts(x) => r \in ToSet(controls')
    BY <1>1, <1>6, CompleteQueues
  <2>3. Counts(x) => x.id \in Accepted
    BY <1>1 DEF Counts, AttemptsStand
  <2>4. Accepted' = Accepted
    BY <2>1 DEF others, Accepted
  <2>5. ToSet(controls) \union Accepted \subseteq ToSet(controls') \union Accepted'
    BY <2>2, <2>3, <2>4
  <2>6. QED
    BY <2>1, <2>5, ShownKept DEF arrivals
<1>7. ASSUME NEW e \in Arrival, PeerSends(e) PROVE ShownOnce'
  <2>1. UNCHANGED <<queues, processed, shown, others>>
    BY <1>7 DEF PeerSends
  <2>2. QED
    BY <2>1, ShownKept DEF queues, others, Accepted
<1>8. CASE Sync
  <2>1. FlushTexts(outbox) /\ UNCHANGED <<phone, peerHas, sent>>
    BY <1>8, SyncFacts
  <2>2. relayHas \subseteq relayHas'
    BY <1>1, <2>1, Flushed
  <2>3. Accepted \subseteq Accepted'
    BY <2>1, <2>2 DEF Accepted
  <2>4. CASE Consume(inbox)
    BY <1>1, <2>3, <2>4, ConsumeShown DEF ArrivedAreFinite
  <2>5. CASE Consume(mailbox)
    BY <1>1, <2>3, <2>5, ConsumeShown DEF ArrivedAreFinite
  <2>6. CASE UNCHANGED <<controls, arrivals>>
    BY <2>3, <2>6, ShownKept DEF arrivals
  <2>7. QED
    BY <1>8, <2>4, <2>5, <2>6, SyncFacts
<1>9. QED
  BY <1>2, <1>3, <1>4, <1>5, <1>6, <1>7, <1>8 DEF Next, Step

-----------------------------------------------------------------------------
(* The theorems.                                                           *)

LEMMA InitInv == ASSUME Sizes, Init PROVE IInv
<1>1. /\ outbox = <<>> /\ sent = <<>> /\ controls = <<>> /\ attempts = {} /\ held = {}
      /\ inbox = {} /\ mailbox = {} /\ processed = {} /\ peerHas = {} /\ relayHas = {}
      /\ session = 0 /\ epoch = 0 /\ tor = 1 /\ tors = 1 /\ open = TRUE
  BY DEF Init
<1>2. Len(outbox) = 0 /\ Len(sent) = 0 /\ outbox \in Seq(Text) /\ sent \in Seq(Text)
      /\ controls \in Seq(Receipt)
  BY <1>1
<1>3. AttemptsType /\ Ids = {} /\ Accepted = {}
  BY <1>1 DEF AttemptsType, Ids, Accepted
<1>4. 1 \in 0 .. MaxTors /\ 1 \in 1 .. MaxTors /\ 0 \in 0 .. MaxStops /\ 0 \in 0 .. MaxFaults
  BY DEF Sizes
<1>5. Typed
  BY <1>1, <1>2, <1>4 DEF Init, Typed, Mode, Status
<1>6. Running
  BY <1>1 DEF Running
<1>7. IsRest(outbox, sent) /\ InOrder /\ SentHasStatus /\ AttemptsStand
  BY <1>1, <1>2, <1>3 DEF IsRest, InOrder, Ordered, Left, SentHasStatus, AttemptsStand
<1>8. ArrivedAreFinite
  BY <1>1, FS_EmptySet DEF ArrivedAreFinite
<1>9. ShownOnce
  BY <1>1 DEF Init, ShownOnce
<1>10. QED
  BY <1>3, <1>5, <1>6, <1>7, <1>8, <1>9, Split DEF IInv

LEMMA InvStep == ASSUME Sizes, IInv, [Next]_vars PROVE IInv'
<1>1. TypeInv /\ OrderInv /\ ShownOnce
  BY DEF IInv, TypeInv, OrderInv
<1>2. TypeInv' /\ OrderInv' /\ ShownOnce'
  BY <1>1, TypeStep, OrderStep, ShownStep
<1>3. QED
  BY <1>2 DEF IInv, TypeInv, OrderInv

\* The invariant of the phone's queues, attempts and arrivals (NativeEngine.java).
THEOREM Invariant == ASSUME Sizes PROVE Spec => []IInv
BY InitInv, InvStep, PTL DEF Spec

\* The phone's state has its types; a live transport belongs to an open vault, and no
\* envelope has two attempts (torJobs).
THEOREM TypeCorrect == ASSUME Sizes PROVE Spec => []TypeOK
<1>1. IInv => TypeOK
  BY DEF IInv
<1>2. QED
  BY <1>1, Invariant, PTL

\* Texts leave the phone in the order they were written, through locks, changes of mode,
\* transports that end and answers that are lost; and none leaves the queue before the
\* peer or the relay has it (sendPersisted, flush, relayFallback).
THEOREM Order == ASSUME Sizes PROVE Spec => []LeavesInOrder
<1>1. IInv => LeavesInOrder
  BY OrderImplied DEF IInv
<1>2. QED
  BY <1>1, Invariant, PTL

\* A message of the peer is shown once, and its receipt is not lost (consumeIncoming).
THEOREM Once == ASSUME Sizes PROVE Spec => []ShownOnce
<1>1. IInv => ShownOnce
  BY DEF IInv
<1>2. QED
  BY <1>1, Invariant, PTL

LEMMA Asked == ASSUME Sizes, IInv, [Next]_vars PROVE AskedRightly
<1>1. Typed /\ TypeOK /\ AttemptsType /\ AttemptsStand /\ TypeInv /\ outbox \in Seq(Text)
  BY Split DEF IInv, Typed, TypeInv
<1> SUFFICES ASSUME NEW y \in attempts' \ attempts, y.at = "posted"
             PROVE  open /\ mode = "HYBRID_TOR_RELAY"
  BY DEF AskedRightly
<1>2. ASSUME NEW x \in attempts, Step(x) PROVE open /\ mode = "HYBRID_TOR_RELAY"
  <2>1. PICK at \in At :
          /\ attempts' = (attempts \ {x}) \union {[x EXCEPT !.at = at]}
          /\ at = "posted" => x.at = "posting" /\ epoch = x.epoch
    BY <1>2, StepFacts
  <2>2. held' = held
    BY <1>2, StepFacts
  <2>3. y.at = at
    BY <1>1, <2>1, <2>2, Moved
  <2>4. QED
    BY <1>1, <2>1, <2>3 DEF AttemptsStand
<1>3. CASE UNCHANGED vars \/ StartTor \/ TorReady \/ Unlock \/ \E e \in Arrival : PeerSends(e)
  <2>1. attempts' = attempts
    BY <1>3 DEF vars, StartTor, TorReady, Unlock, PeerSends
  <2>2. QED
    BY <2>1
<1>4. CASE TorEnds \/ Lock \/ \E m \in Mode : SetMode(m)
  <2>1. held' = held /\ (attempts' = attempts \/ attempts' = Closed(attempts, tor))
    BY <1>4 DEF TorEnds, Lock, SetMode, StopDirect
  <2>2. y.at = "failed"
    BY <1>1, <2>1, ClosedFacts
  <2>3. QED
    BY <2>2
<1>5. CASE NetworkChanges
  <2>1. /\ held' = held
        /\ attempts' = {IF x.at = "sent" THEN [x EXCEPT !.at = "failed"] ELSE x : x \in attempts}
    BY <1>5 DEF NetworkChanges
  <2> DEFINE P == {x \in attempts : x.at = "sent"}
  <2>2. attempts' = {IF x \in P THEN [x EXCEPT !.at = "failed"] ELSE x : x \in attempts}
    BY <2>1
  <2>3. P \in SUBSET attempts
    OBVIOUS
  <2> HIDE DEF P
  <2>4. y.at = "failed"
    BY <1>1, <2>1, <2>2, <2>3, Failed
  <2>5. QED
    BY <2>4
<1>6. ASSUME NEW m \in Text, Send(m) PROVE FALSE
  <2>1. Append(outbox, m) \in Seq(Text) /\ FlushTexts(Append(outbox, m))
    BY <1>1, <1>6 DEF Send
  <2>2. y.at \in {"queued", "failed"}
    BY <1>1, <2>1, Flushed
  <2>3. QED
    BY <2>2
<1>7. CASE Sync
  <2>1. y.at \in {"queued", "failed"}
    BY <1>1, <1>7, SyncFacts, Flushed
  <2>2. QED
    BY <2>1
<1>8. CASE FlushControls
  <2>1. y.at \in {"queued", "failed"}
    BY <1>1, <1>8, ControlsFlushed
  <2>2. QED
    BY <2>1
<1>9. ASSUME NEW x \in attempts, Complete(x) PROVE FALSE
  BY <1>9 DEF Complete
<1>10. QED
  BY <1>2, <1>3, <1>4, <1>5, <1>6, <1>7, <1>8, <1>9 DEF Next, Step

\* A request to the relay begins only while the vault is open in hybrid mode, though the
\* step before it asks for the epoch alone (relayFallback).
THEOREM Allowed == ASSUME Sizes PROVE Spec => RelayOnlyIfAllowed
<1>1. ASSUME IInv, [Next]_vars PROVE [AskedRightly]_vars
  BY <1>1, Asked
<1>2. QED
  BY <1>1, Invariant, PTL DEF Spec, RelayOnlyIfAllowed

-----------------------------------------------------------------------------
(***************************************************************************)
(* The screen of a tab.                                                    *)
(***************************************************************************)
\* What the proofs ask of the constants: each conversation is in a vault, texts are
\* items, and None is neither a vault nor a conversation.
UiSizes ==
  /\ MaxEpochs \in Nat /\ MaxSelects \in Nat /\ MaxLosses \in Nat
  /\ Owner \in [Conversation -> Vault] /\ UiText \subseteq Item
  /\ None \notin Vault /\ None \notin Conversation

(* The inductive invariant.                                                *)

\* What a request of each kind is about; none is of an epoch to come.
WellFormed ==
  \A r \in pending :
    /\ r.epoch <= uiEpoch
    /\ r.kind \in {"load", "send"} => r.about \in Conversation
    /\ r.kind = "sync" => r.about \in Conversation \union {None}
    /\ r.kind = "send" => r.text \in UiText
    /\ r.kind = "open" => r.about \in Vault
    /\ r.kind = "contacts" => r.data \subseteq Conversation

\* busy: one lock or opening of a vault at a time, and the epoch is its own.
OneChange ==
  \A r, s \in pending :
    r.kind \in {"lock", "open"} /\ s.kind \in {"lock", "open"} => r = s /\ r.epoch = uiEpoch

\* What an answer tells of the messages of a conversation is in the database.
AnswersAreStored ==
  \A r \in pending : r.at = "ok" =>
    /\ r.kind \in {"sync", "load"} => \A i \in r.data : <<r.about, i>> \in stored
    /\ r.kind = "send" => <<r.about, r.text>> \in stored

OptimisticIsStored == \A o \in optimistic : o.id = "stored" => <<o.about, o.text>> \in stored

ScreenIsStored ==
  \A s \in screen : selected # None /\ (s[1] = "stored" => <<selected, s[2]>> \in stored)

\* The conversations the tab has, or will have when it handles an answer of this epoch.
Lists(r) == r.kind = "contacts" /\ r.at = "ok" /\ r.epoch = uiEpoch
Listed ==
  contacts \union ({selected} \ {None}) \union UNION {r.data : r \in {q \in pending : Lists(q)}}

\* They are of the vault the daemon has open, which is the one the tab has opened.
ListedBelong == \A c \in Listed : Owner[c] = vault /\ Owner[c] = mine

\* A lock that may still be served finds none.
LockFindsNone == \A l \in pending : l.kind = "lock" /\ l.at = "asked" => Listed = {}

\* Contacts that were asked for in this epoch will be those of the vault the tab has opened,
\* or be refused: no vault is opened before the answer.
AskedOfMine ==
  \A r \in pending : r.kind = "contacts" /\ r.at = "asked" /\ r.epoch = uiEpoch =>
    /\ vault \in {mine, None}
    /\ vault = None => \A o \in pending : ~(o.kind = "open" /\ o.at = "asked")

UiIInv ==
  /\ Ui!TypeOK /\ WellFormed /\ OneChange
  /\ AnswersAreStored /\ OptimisticIsStored /\ ScreenIsStored
  /\ ListedBelong /\ LockFindsNone /\ AskedOfMine

-----------------------------------------------------------------------------
(* Requests and answers.                                                   *)

\* An answer keeps what its request was about.
LEMMA AnswerFacts ==
  ASSUME NEW r \in Ui!Request, NEW at \in {"ok", "failed"}, NEW data \in SUBSET (Item \union Conversation)
  PROVE  LET q == [r EXCEPT !.at = at, !.data = data] IN
         /\ q \in Ui!Request
         /\ q.kind = r.kind /\ q.epoch = r.epoch /\ q.about = r.about /\ q.text = r.text
         /\ q.at = at /\ q.data = data
BY DEF Ui!Request

LEMMA AskFacts ==
  ASSUME UiSizes, Ui!TypeOK, NEW kind \in Ui!Kind, NEW c \in Ui!About, NEW t \in UiText \union {None},
         NEW e \in 0 .. MaxEpochs
  PROVE  LET q == Ui!Ask(kind, c, t, e) IN
         /\ q \in Ui!Request
         /\ q.kind = kind /\ q.epoch = e /\ q.about = c /\ q.text = t
         /\ q.at = "asked" /\ q.data = {}
<1>1. csrf \in 0 .. MaxEpochs
  BY DEF Ui!TypeOK
<1>2. QED
  BY <1>1 DEF Ui!Ask, Ui!Request

\* The kinds of request and the conversations the tab asks about.
LEMMA Abouts ==
  ASSUME Ui!TypeOK
  PROVE  /\ selected \in Ui!About /\ None \in Ui!About /\ Conversation \subseteq Ui!About /\ Vault \subseteq Ui!About
         /\ uiEpoch \in 0 .. MaxEpochs
BY DEF Ui!TypeOK, Ui!About

\* What the daemon answers names conversations and messages.
LEMMA DataFacts ==
  ASSUME UiSizes, Ui!TypeOK, NEW r \in pending
  PROVE  /\ Ui!Data(r) \in SUBSET (Item \union Conversation)
         /\ r.kind \in {"sync", "load"} => \A i \in Ui!Data(r) : <<r.about, i>> \in stored
         /\ r.kind = "contacts" => \A c \in Ui!Data(r) : c \in Conversation /\ Owner[c] = vault
<1>1. CASE r.kind \in {"sync", "load"}
  BY <1>1 DEF Ui!Data, Ui!Rows
<1>2. CASE r.kind = "contacts"
  BY <1>2 DEF Ui!Data
<1>3. CASE r.kind \notin {"sync", "load", "contacts"}
  BY <1>3 DEF Ui!Data
<1>4. QED
  BY <1>1, <1>2, <1>3

\* What a daemon serves is answered with no more than that.
LEMMA ServeFacts ==
  ASSUME UiSizes, Ui!TypeOK, NEW r \in pending, Ui!Serve(r)
  PROVE  \E data \in SUBSET (Item \union Conversation) :
           /\ pending' = (pending \ {r}) \union {[r EXCEPT !.at = "ok", !.data = data]}
           /\ r.kind \in {"sync", "load"} => \A i \in data : <<r.about, i>> \in stored
           /\ r.kind = "contacts" => \A c \in data : c \in Conversation /\ Owner[c] = vault
<1> DEFINE data == IF r.about = None /\ r.kind = "sync" THEN {} ELSE Ui!Data(r)
<1>1. pending' = (pending \ {r}) \union {[r EXCEPT !.at = "ok", !.data = data]}
  BY DEF Ui!Serve, Ui!Answered
<1>2. /\ data \in SUBSET (Item \union Conversation)
      /\ r.kind \in {"sync", "load"} => \A i \in data : <<r.about, i>> \in stored
      /\ r.kind = "contacts" => \A c \in data : c \in Conversation /\ Owner[c] = vault
  BY DataFacts
<1> HIDE DEF data
<1>3. QED
  BY <1>1, <1>2

-----------------------------------------------------------------------------
(* Types.                                                                  *)
UiTypeInv == Ui!TypeOK /\ WellFormed /\ AnswersAreStored

\* The list that is shown is of the type of the screen.
LEMMA ShowType ==
  ASSUME UiSizes, Ui!TypeOK, NEW c \in Conversation, NEW items \in SUBSET Item, Ui!Show(c, items)
  PROVE  /\ optimistic' \subseteq optimistic
         /\ screen' \subseteq {"stored", "local"} \X Item
BY DEF Ui!Show, Ui!TypeOK, UiSizes

\* The messages in an answer are messages.
LEMMA DataType ==
  ASSUME UiTypeInv, NEW r \in pending, r.at = "ok", r.kind \in {"sync", "load"}
  PROVE  r.data \in SUBSET Item
<1>1. \A i \in r.data : <<r.about, i>> \in stored
  BY DEF UiTypeInv, AnswersAreStored
<1>2. QED
  BY <1>1 DEF UiTypeInv, Ui!TypeOK

LEMMA UiTypeStep == ASSUME UiSizes, UiTypeInv, [Ui!Next]_(Ui!vars) PROVE Ui!TypeOK'
<1>0. Ui!TypeOK /\ WellFormed /\ pending \subseteq Ui!Request
  BY DEF UiTypeInv, Ui!TypeOK
<1>1. CASE UNCHANGED Ui!vars
  BY <1>0, <1>1 DEF Ui!TypeOK, Ui!vars, Ui!daemon, Ui!tab, Ui!lists, Ui!counts
<1>2. ASSUME NEW c \in Conversation, NEW i \in Item, Ui!Arrive(c, i) PROVE Ui!TypeOK'
  BY <1>0, <1>2 DEF Ui!Arrive, Ui!TypeOK, Ui!tab, Ui!lists, Ui!counts
<1>3. ASSUME NEW r \in pending, NEW at \in {"ok", "failed"},
             NEW data \in SUBSET (Item \union Conversation),
             pending' = (pending \ {r}) \union {[r EXCEPT !.at = at, !.data = data]}
      PROVE  pending' \subseteq Ui!Request
  <2>1. r \in Ui!Request
    BY <1>0
  <2>2. [r EXCEPT !.at = at, !.data = data] \in Ui!Request
    BY <1>3, <2>1, AnswerFacts
  <2>3. QED
    BY <1>0, <1>3, <2>2
<1>4. ASSUME NEW r \in pending, Ui!Serve(r) PROVE Ui!TypeOK'
  <2>1. pending' \subseteq Ui!Request
    BY <1>0, <1>3, <1>4, ServeFacts
  <2>2. stored' \subseteq Conversation \X Item
    BY <1>0, <1>4 DEF Ui!Serve, Ui!Executed, WellFormed, Ui!TypeOK, UiSizes
  <2>3. vault' \in Vault \union {None}
    <3>1. CASE r.kind = "open"
      BY <1>0, <1>4, <3>1 DEF Ui!Serve, Ui!Executed, WellFormed
    <3>2. CASE r.kind # "open"
      BY <1>0, <1>4, <3>2 DEF Ui!Serve, Ui!Executed, Ui!TypeOK
    <3>3. QED
      BY <3>1, <3>2
  <2>4. uiSession' \in 0 .. MaxEpochs
    BY <1>0, <1>4 DEF Ui!Serve, Ui!Executed, Ui!TypeOK, UiSizes
  <2>5. quick' \in BOOLEAN
    BY <1>4 DEF Ui!Serve, Ui!Executed
  <2>6. QED
    BY <1>0, <1>4, <2>1, <2>2, <2>3, <2>4, <2>5 DEF Ui!Serve, Ui!TypeOK, Ui!tab, Ui!lists,
       Ui!counts
<1>5. ASSUME NEW r \in pending, Ui!Refuse(r) PROVE Ui!TypeOK'
  BY <1>0, <1>3, <1>5 DEF Ui!Refuse, Ui!Answered, Ui!TypeOK, Ui!daemon, Ui!tab, Ui!lists,
     Ui!counts
<1>6. ASSUME NEW r \in pending, Ui!Loss(r) PROVE Ui!TypeOK'
  <2>1. pending' \subseteq Ui!Request
    BY <1>3, <1>6 DEF Ui!Loss, Ui!Answered
  <2>2. uiLosses' \in 0 .. MaxLosses
    BY <1>0, <1>6 DEF Ui!Loss, Ui!TypeOK, UiSizes
  <2>3. QED
    BY <1>0, <1>6, <2>1, <2>2 DEF Ui!Loss, Ui!TypeOK, Ui!daemon, Ui!tab, Ui!lists
<1>7. ASSUME NEW c \in Conversation, Ui!Select(c) PROVE Ui!TypeOK'
  <2>1. Ui!Ask("load", c, None, uiEpoch) \in Ui!Request
    BY <1>0, AskFacts, Abouts DEF Ui!Kind
  <2>2. selects' \in 0 .. MaxSelects
    BY <1>0, <1>7 DEF Ui!Select, Ui!TypeOK, UiSizes
  <2>3. QED
    BY <1>0, <1>7, <2>1, <2>2 DEF Ui!Select, Ui!TypeOK, Ui!daemon, Ui!tab
<1>8. ASSUME Ui!Poll PROVE Ui!TypeOK'
  <2>1. Ui!Ask("sync", selected, None, uiEpoch) \in Ui!Request
    BY <1>0, AskFacts, Abouts DEF Ui!Kind
  <2>2. QED
    BY <1>0, <1>8, <2>1 DEF Ui!Poll, Ui!TypeOK, Ui!daemon, Ui!tab, Ui!counts
<1>9. ASSUME NEW t \in UiText, Ui!Submit(t) PROVE Ui!TypeOK'
  <2>1. Ui!Ask("send", selected, t, uiEpoch) \in Ui!Request
    BY <1>0, AskFacts, Abouts DEF Ui!Kind
  <2>2. selected \in Conversation /\ t \in Item
    BY <1>0, <1>9 DEF Ui!Submit, Ui!TypeOK, UiSizes
  <2>3. QED
    BY <1>0, <1>9, <2>1, <2>2 DEF Ui!Submit, Ui!TypeOK, Ui!daemon, Ui!tab, Ui!counts
<1>10. ASSUME Ui!Lock PROVE Ui!TypeOK'
  <2>1. uiEpoch + 1 \in 0 .. MaxEpochs
    BY <1>0, <1>10 DEF Ui!Lock, Ui!TypeOK, UiSizes
  <2>2. Ui!Ask("lock", None, None, uiEpoch + 1) \in Ui!Request
    BY <1>0, <2>1, AskFacts, Abouts DEF Ui!Kind
  <2>3. QED
    BY <1>0, <1>10, <2>1, <2>2 DEF Ui!Lock, Ui!TypeOK, Ui!daemon, Ui!counts
<1>11. ASSUME NEW v \in Vault, Ui!Open(v) PROVE Ui!TypeOK'
  <2>1. uiEpoch + 1 \in 0 .. MaxEpochs
    BY <1>0, <1>11 DEF Ui!Open, Ui!TypeOK, UiSizes
  <2>2. Ui!Ask("open", v, None, uiEpoch + 1) \in Ui!Request
    BY <1>0, <2>1, AskFacts, Abouts DEF Ui!Kind
  <2>3. QED
    BY <1>0, <1>11, <2>1, <2>2 DEF Ui!Open, Ui!TypeOK, Ui!daemon, Ui!counts, Ui!lists
<1>12. ASSUME Ui!QuickLock PROVE Ui!TypeOK'
  <2>1. Ui!Ask("quick", None, None, uiEpoch) \in Ui!Request
    BY <1>0, AskFacts, Abouts DEF Ui!Kind
  <2>2. uiLosses' \in 0 .. MaxLosses
    BY <1>0, <1>12 DEF Ui!QuickLock, Ui!TypeOK, UiSizes
  <2>3. QED
    BY <1>0, <1>12, <2>1, <2>2 DEF Ui!QuickLock, Ui!TypeOK, Ui!daemon, Ui!tab, Ui!lists
<1>13. ASSUME Ui!EnterPin PROVE Ui!TypeOK'
  <2>1. Ui!Ask("pin", None, None, uiEpoch) \in Ui!Request
    BY <1>0, AskFacts, Abouts DEF Ui!Kind
  <2>2. QED
    BY <1>0, <1>13, <2>1 DEF Ui!EnterPin, Ui!TypeOK, Ui!daemon, Ui!tab, Ui!lists, Ui!counts
<1>14. ASSUME NEW c \in Conversation PROVE Ui!Ask("load", c, None, uiEpoch) \in Ui!Request
  BY <1>0, AskFacts, Abouts DEF Ui!Kind
<1>15. ASSUME NEW r \in pending, Ui!HandleSync(r) PROVE Ui!TypeOK'
  <2>1. syncing' \subseteq 0 .. MaxEpochs
    BY <1>0, <1>15 DEF Ui!HandleSync, Ui!SyncDone, Ui!TypeOK
  <2>2. CASE r.at = "ok" /\ Ui!Fresh(r) /\ Ui!Asks(r, selected)
    <3>1. selected \in Conversation /\ r.data \in SUBSET Item
      BY <1>0, <1>15, <2>2, DataType DEF Ui!HandleSync, Ui!Asks, Ui!TypeOK
    <3>2. Ui!Show(selected, r.data) /\ pending' \subseteq pending
      BY <1>15, <2>2 DEF Ui!HandleSync, Ui!Consume
    <3>3. /\ optimistic' \subseteq optimistic /\ screen' \subseteq {"stored", "local"} \X Item
      BY <1>0, <3>1, <3>2, ShowType
    <3>4. QED
      BY <1>0, <1>15, <2>1, <3>2, <3>3 DEF Ui!HandleSync, Ui!TypeOK, Ui!daemon, Ui!tab, Ui!counts
  <2>3. CASE ~(r.at = "ok" /\ Ui!Fresh(r) /\ Ui!Asks(r, selected))
    <3>1. pending' \subseteq Ui!Request
      BY <1>0, <1>14, <1>15, <2>3 DEF Ui!HandleSync, Ui!Consume, Ui!TypeOK
    <3>2. QED
      BY <1>0, <1>15, <2>1, <2>3, <3>1 DEF Ui!HandleSync, Ui!TypeOK, Ui!daemon, Ui!tab, Ui!counts
  <2>4. QED
    BY <2>2, <2>3
<1>16. ASSUME NEW r \in pending, Ui!HandleLoad(r) PROVE Ui!TypeOK'
  <2>1. pending' \subseteq pending
    BY <1>16 DEF Ui!HandleLoad, Ui!Consume
  <2>2. CASE r.at = "ok" /\ Ui!Fresh(r) /\ Ui!Asks(r, selected)
    <3>1. selected \in Conversation /\ r.data \in SUBSET Item
      BY <1>0, <1>16, <2>2, DataType DEF Ui!HandleLoad, Ui!Asks, Ui!TypeOK
    <3>2. Ui!Show(selected, r.data)
      BY <1>16, <2>2 DEF Ui!HandleLoad
    <3>3. /\ optimistic' \subseteq optimistic /\ screen' \subseteq {"stored", "local"} \X Item
      BY <1>0, <3>1, <3>2, ShowType
    <3>4. QED
      BY <1>0, <1>16, <2>1, <3>3 DEF Ui!HandleLoad, Ui!TypeOK, Ui!daemon, Ui!tab, Ui!counts
  <2>3. CASE ~(r.at = "ok" /\ Ui!Fresh(r) /\ Ui!Asks(r, selected))
    BY <1>0, <1>16, <2>1, <2>3 DEF Ui!HandleLoad, Ui!TypeOK, Ui!daemon, Ui!tab, Ui!counts
  <2>4. QED
    BY <2>2, <2>3
<1>17. ASSUME NEW r \in pending, Ui!HandleContacts(r) PROVE Ui!TypeOK'
  <2>1. r.data \subseteq Conversation
    BY <1>0, <1>17 DEF Ui!HandleContacts, WellFormed
  <2>2. QED
    BY <1>0, <1>17, <2>1 DEF Ui!HandleContacts, Ui!Consume, Ui!TypeOK, Ui!daemon, Ui!tab,
       Ui!counts
<1>18. ASSUME NEW r \in pending, Ui!HandleSend(r) PROVE Ui!TypeOK'
  <2> DEFINE local == [text |-> r.text, about |-> r.about, id |-> "local"]
  <2>1. r.about \in Conversation /\ r.text \in UiText /\ r.text \in Item
    BY <1>0, <1>18 DEF Ui!HandleSend, WellFormed, UiSizes
  <2>2. optimistic' \subseteq optimistic \union {[local EXCEPT !.id = "stored"]}
    BY <1>18 DEF Ui!HandleSend
  <2>3. screen' \subseteq screen \union {<<"stored", r.text>>}
    BY <1>18 DEF Ui!HandleSend
  <2>4. pending' \subseteq Ui!Request
    BY <1>0, <1>14, <1>18, <2>1 DEF Ui!HandleSend, Ui!Consume
  <2>5. sending' \in BOOLEAN
    BY <1>18 DEF Ui!HandleSend
  <2>6. optimistic' \subseteq [text : UiText, about : Conversation, id : {"stored", "local"}]
    BY <1>0, <2>1, <2>2 DEF Ui!TypeOK
  <2>7. screen' \subseteq {"stored", "local"} \X Item
    BY <1>0, <2>1, <2>3 DEF Ui!TypeOK
  <2>8. QED
    BY <1>0, <1>18, <2>4, <2>5, <2>6, <2>7 DEF Ui!HandleSend, Ui!TypeOK, Ui!daemon, Ui!tab,
       Ui!counts
<1>19. ASSUME NEW r \in pending, Ui!Bootstrap(r)
       PROVE  /\ view' \in {"locked", "unlocked", "quick"} /\ mine' \in Vault \union {None}
              /\ pending' \subseteq Ui!Request
  <2>1. Ui!Ask("contacts", None, None, uiEpoch) \in Ui!Request
    BY <1>0, AskFacts, Abouts DEF Ui!Kind
  <2>2. QED
    BY <1>0, <1>19, <2>1 DEF Ui!Bootstrap, Ui!State, Ui!Consume, Ui!TypeOK
<1>20. ASSUME NEW r \in pending, Ui!HandleLock(r) PROVE Ui!TypeOK'
  <2>1. CASE r.at = "ok"
    BY <1>0, <1>19, <1>20, <2>1 DEF Ui!HandleLock, Ui!TypeOK, Ui!daemon, Ui!counts
  <2>2. CASE r.at # "ok"
    BY <1>0, <1>20, <2>2 DEF Ui!HandleLock, Ui!Consume, Ui!TypeOK, Ui!daemon, Ui!counts
  <2>3. QED
    BY <2>1, <2>2
<1>21. ASSUME NEW r \in pending, Ui!HandleOpen(r) PROVE Ui!TypeOK'
  <2>1. CASE r.at = "ok"
    BY <1>0, <1>19, <1>21, <2>1 DEF Ui!HandleOpen, Ui!TypeOK, Ui!daemon, Ui!counts, Ui!lists
  <2>2. CASE r.at # "ok"
    BY <1>0, <1>21, <2>2 DEF Ui!HandleOpen, Ui!Consume, Ui!TypeOK, Ui!daemon, Ui!counts, Ui!lists
  <2>3. QED
    BY <2>1, <2>2
<1>22. ASSUME NEW r \in pending, Ui!HandleQuick(r) PROVE Ui!TypeOK'
  BY <1>0, <1>22 DEF Ui!HandleQuick, Ui!Consume, Ui!TypeOK, Ui!daemon, Ui!counts, Ui!lists
<1>23. QED
  BY <1>1, <1>2, <1>4, <1>5, <1>6, <1>7, <1>8, <1>9, <1>10, <1>11, <1>12, <1>13, <1>15, <1>16,
     <1>17, <1>18, <1>20, <1>21, <1>22 DEF Ui!Next, Ui!Handle

-----------------------------------------------------------------------------
(* What any step that leaves the vault alone keeps.                        *)

LEMMA ListedSmaller ==
  ASSUME contacts' \subseteq Listed, selected' \in Listed \union {None},
         \A r \in pending' :
           r.kind = "contacts" /\ r.at = "ok" /\ r.epoch = uiEpoch' => r.data \subseteq Listed
  PROVE  Listed' \subseteq Listed
<1>1. Listed' = contacts' \union ({selected'} \ {None})
                \union UNION {r.data : r \in {q \in pending' : q.kind = "contacts" /\ q.at = "ok"
                                                              /\ q.epoch = uiEpoch'}}
  BY DEF Listed, Lists
<1>2. QED
  BY <1>1

LEMMA ListedHas ==
  /\ contacts \subseteq Listed
  /\ selected \in Listed \union {None}
  /\ \A r \in pending : Lists(r) => r.data \subseteq Listed
BY DEF Listed

LEMMA ListedKept ==
  ASSUME UiIInv, Listed' \subseteq Listed, vault' = vault, mine' \in {mine, vault},
         \A l \in pending' : l.kind = "lock" /\ l.at = "asked" => l \in pending
  PROVE  ListedBelong' /\ LockFindsNone'
BY DEF UiIInv, ListedBelong, LockFindsNone

LEMMA AskedKept ==
  ASSUME UiIInv, vault' = vault, uiEpoch' = uiEpoch, mine' \in {mine, vault},
         \A r \in pending' : r.at = "asked" /\ r.kind \in {"contacts", "open"} =>
           r \in pending \/ (r.kind = "contacts" /\ vault = mine' /\ vault # None)
  PROVE  AskedOfMine'
<1> SUFFICES ASSUME NEW r \in pending', r.kind = "contacts", r.at = "asked", r.epoch = uiEpoch'
             PROVE  /\ vault' \in {mine', None}
                    /\ vault' = None => \A o \in pending' : ~(o.kind = "open" /\ o.at = "asked")
  BY DEF AskedOfMine
<1>1. CASE r \in pending
  BY <1>1 DEF UiIInv, AskedOfMine
<1>2. CASE vault = mine' /\ vault # None
  BY <1>2
<1>3. QED
  BY <1>1, <1>2

\* The three together, for a step that changes neither the vault nor the epoch.
LEMMA Undisturbed ==
  ASSUME UiIInv, vault' = vault, uiEpoch' = uiEpoch, mine' \in {mine, vault},
         contacts' \subseteq Listed, selected' \in Listed \union {None},
         \A r \in pending' :
           /\ r.at = "asked" /\ r.kind \in {"lock", "open"} => r \in pending
           /\ r.at = "asked" /\ r.kind = "contacts" =>
                r \in pending \/ (vault = mine' /\ vault # None)
           /\ r.at = "ok" /\ r.kind = "contacts" => r \in pending \/ r.epoch # uiEpoch
  PROVE  ListedBelong' /\ LockFindsNone' /\ AskedOfMine'
<1>1. Listed' \subseteq Listed
  BY ListedSmaller, ListedHas DEF Lists
<1>2. QED
  BY <1>1, ListedKept, AskedKept

\* Requests that are dropped, and others that are asked, stay of their form.
LEMMA FormKept ==
  ASSUME UiIInv, uiEpoch' = uiEpoch,
         \A r \in pending' :
           \/ r \in pending
           \/ \E s \in pending : /\ r.kind = s.kind /\ r.epoch = s.epoch /\ r.about = s.about
                                 /\ r.text = s.text /\ s \notin pending'
                                 /\ r.kind = "contacts" => r.data \subseteq Conversation
                                 /\ \A q \in pending' : q = r \/ q \in pending
           \/ /\ r.kind \notin {"lock", "open"} /\ r.epoch = uiEpoch /\ r.data = {}
              /\ r.kind \in {"load", "send"} => r.about \in Conversation
              /\ r.kind = "sync" => r.about \in Conversation \union {None}
              /\ r.kind = "send" => r.text \in UiText
  PROVE  WellFormed' /\ OneChange'
<1>1. WellFormed /\ OneChange /\ uiEpoch \in Nat
  BY DEF UiIInv, Ui!TypeOK
<1>2. WellFormed'
  BY <1>1 DEF WellFormed
<1>3. OneChange'
  BY <1>1 DEF OneChange
<1>4. QED
  BY <1>2, <1>3

\* Rows are only ever added, so what tells of them stays true.
LEMMA StoredKept ==
  ASSUME UiIInv, stored \subseteq stored',
         \A r \in pending' : r.at = "ok" =>
           \/ r \in pending
           \/ /\ r.kind \in {"sync", "load"} => \A i \in r.data : <<r.about, i>> \in stored
              /\ r.kind = "send" => <<r.about, r.text>> \in stored'
  PROVE  AnswersAreStored'
BY DEF UiIInv, AnswersAreStored

LEMMA ScreenKept ==
  ASSUME UiIInv, stored \subseteq stored', optimistic' \subseteq optimistic, screen' \subseteq screen,
         selected' = selected \/ screen' = {}
  PROVE  OptimisticIsStored' /\ ScreenIsStored'
BY DEF UiIInv, OptimisticIsStored, ScreenIsStored

-----------------------------------------------------------------------------
(* The steps of the daemon.                                                *)

\* A request that is answered: served, refused, or lost.
LEMMA Answering ==
  ASSUME UiSizes, UiIInv, NEW r \in pending, Ui!Serve(r) \/ Ui!Refuse(r) \/ Ui!Loss(r)
  PROVE  \E q \in Ui!Request :
           /\ pending' = (pending \ {r}) \union {q}
           /\ q.kind = r.kind /\ q.epoch = r.epoch /\ q.about = r.about /\ q.text = r.text
           /\ q.at \in {"ok", "failed"} /\ (q.at = "ok" => Ui!Serve(r))
           /\ q.kind \in {"sync", "load"} => \A i \in q.data : <<r.about, i>> \in stored
           /\ q.kind = "contacts" => \A c \in q.data : c \in Conversation /\ Owner[c] = vault
<1>1. Ui!TypeOK /\ r \in Ui!Request
  BY DEF UiIInv, Ui!TypeOK
<1>2. CASE Ui!Serve(r)
  <2>1. PICK data \in SUBSET (Item \union Conversation) :
           /\ pending' = (pending \ {r}) \union {[r EXCEPT !.at = "ok", !.data = data]}
           /\ r.kind \in {"sync", "load"} => \A i \in data : <<r.about, i>> \in stored
           /\ r.kind = "contacts" => \A c \in data : c \in Conversation /\ Owner[c] = vault
    BY <1>1, <1>2, ServeFacts
  <2> DEFINE q == [r EXCEPT !.at = "ok", !.data = data]
  <2>2. /\ q \in Ui!Request
        /\ q.kind = r.kind /\ q.epoch = r.epoch /\ q.about = r.about /\ q.text = r.text
        /\ q.at = "ok" /\ q.data = data
    BY <1>1, AnswerFacts
  <2> HIDE DEF q
  <2>3. pending' = (pending \ {r}) \union {q}
    BY <2>1 DEF q
  <2>4. QED
    BY <1>2, <2>1, <2>2, <2>3
<1>3. CASE Ui!Refuse(r) \/ Ui!Loss(r)
  <2> DEFINE q == [r EXCEPT !.at = "failed", !.data = {}]
  <2>1. /\ q \in Ui!Request
        /\ q.kind = r.kind /\ q.epoch = r.epoch /\ q.about = r.about /\ q.text = r.text
        /\ q.at = "failed" /\ q.data = {}
    BY <1>1, AnswerFacts
  <2>2. pending' = (pending \ {r}) \union {q}
    BY <1>3 DEF Ui!Refuse, Ui!Loss, Ui!Answered
  <2> HIDE DEF q
  <2>3. QED
    BY <2>1, <2>2
<1>4. QED
  BY <1>2, <1>3

LEMMA ServeStep == ASSUME UiSizes, UiIInv, NEW r \in pending, Ui!Serve(r) PROVE UiIInv'
<1> DEFINE Form(q) ==
      /\ pending' = (pending \ {r}) \union {q}
      /\ q.kind = r.kind /\ q.epoch = r.epoch /\ q.about = r.about /\ q.text = r.text
      /\ q.at \in {"ok", "failed"}
      /\ q.kind \in {"sync", "load"} => \A i \in q.data : <<r.about, i>> \in stored
      /\ q.kind = "contacts" => \A c \in q.data : c \in Conversation /\ Owner[c] = vault
<1>1. PICK q \in Ui!Request : Form(q)
  BY Answering
<1>2. /\ uiEpoch' = uiEpoch /\ mine' = mine /\ contacts' = contacts /\ selected' = selected
      /\ screen' = screen /\ optimistic' = optimistic /\ stored \subseteq stored'
      /\ r.at = "asked" /\ Ui!InTurn(r) /\ Ui!Admitted(r)
  BY DEF Ui!Serve, Ui!Executed, Ui!tab, Ui!lists
<1>3. Ui!TypeOK'
  BY UiTypeStep DEF UiIInv, UiTypeInv, Ui!Next
<1>4. q # r /\ (q \in pending => q.at # "asked")
  BY <1>1, <1>2
<1>5. WellFormed' /\ OneChange'
  <2>1. CASE q \in pending
    BY <1>1, <1>2, <2>1, FormKept
  <2>2. CASE q \notin pending
    BY <1>1, <1>2, <1>4, <2>2, FormKept
  <2>3. QED
    BY <2>1, <2>2
<1>6. q.kind = "send" => <<q.about, q.text>> \in stored'
  BY <1>1 DEF Ui!Serve, Ui!Executed
<1>7. AnswersAreStored'
  BY <1>1, <1>2, <1>6, StoredKept
<1>8. OptimisticIsStored' /\ ScreenIsStored'
  BY <1>2, ScreenKept
<1>9. Listed \subseteq Conversation
  BY DEF Listed, Lists, UiIInv, Ui!TypeOK, WellFormed
<1>10. \A p \in pending' : p.at = "asked" => p \in pending /\ p # r
  BY <1>1
<1>11. CASE r.kind \notin {"lock", "open"}
  <2>1. vault' = vault /\ vault # None
    BY <1>2, <1>11 DEF Ui!Serve, Ui!Executed, Ui!Admitted
  <2>2. AskedOfMine'
    BY <1>2, <1>10, <2>1, AskedKept
  <2>3. CASE r.kind = "contacts" /\ r.epoch = uiEpoch
    <3>1. vault = mine
      BY <1>2, <2>1, <2>3 DEF UiIInv, AskedOfMine
    <3>2. Listed' \subseteq Listed \union q.data
      BY <1>1, <1>2 DEF Listed, Lists
    <3>3. ListedBelong'
      BY <1>1, <1>2, <2>1, <2>3, <3>1, <3>2 DEF UiIInv, ListedBelong
    <3>4. ASSUME NEW l \in pending, l.kind = "lock", l.at = "asked" PROVE FALSE
      <4>1. l.epoch = uiEpoch /\ uiEpoch \in Nat
        BY <3>4 DEF UiIInv, OneChange, Ui!TypeOK
      <4>2. l # r
        BY <2>3, <3>4
      <4>3. QED
        BY <1>2, <2>3, <3>4, <4>1, <4>2 DEF Ui!InTurn
    <3>5. LockFindsNone'
      BY <1>10, <3>4 DEF LockFindsNone
    <3>6. QED
      BY <1>3, <1>5, <1>7, <1>8, <2>2, <3>3, <3>5 DEF UiIInv
  <2>4. CASE ~(r.kind = "contacts" /\ r.epoch = uiEpoch)
    <3>1. Listed' \subseteq Listed
      BY <1>1, <1>2, <2>4 DEF Listed, Lists
    <3>2. ListedBelong' /\ LockFindsNone'
      BY <1>2, <1>10, <2>1, <3>1, ListedKept
    <3>3. QED
      BY <1>3, <1>5, <1>7, <1>8, <2>2, <3>2 DEF UiIInv
  <2>5. QED
    BY <2>3, <2>4
<1>12. ASSUME r.kind \in {"lock", "open"}, Listed = {}, AskedOfMine' PROVE UiIInv'
  <2>1. Listed' \subseteq Listed
    BY <1>1, <1>2, <1>12 DEF Listed, Lists
  <2>2. ListedBelong' /\ LockFindsNone'
    BY <1>12, <2>1 DEF ListedBelong, LockFindsNone
  <2>3. QED
    BY <1>3, <1>5, <1>7, <1>8, <1>12, <2>2 DEF UiIInv
<1>13. CASE r.kind = "lock"
  <2>1. Listed = {}
    BY <1>2, <1>13 DEF UiIInv, LockFindsNone
  <2>2. vault' = None
    BY <1>13 DEF Ui!Serve, Ui!Executed
  <2>3. \A o \in pending' : ~(o.kind = "open" /\ o.at = "asked")
    BY <1>10, <1>13 DEF UiIInv, OneChange
  <2>4. AskedOfMine'
    BY <2>2, <2>3 DEF AskedOfMine
  <2>5. QED
    BY <1>12, <1>13, <2>1, <2>4
<1>14. CASE r.kind = "open"
  <2>1. vault = None
    BY <1>2, <1>14 DEF Ui!Admitted
  <2>2. Listed = {}
    BY <1>9, <2>1 DEF UiIInv, ListedBelong, UiSizes
  <2>3. \A p \in pending' : ~(p.kind = "contacts" /\ p.at = "asked" /\ p.epoch = uiEpoch')
    BY <1>2, <1>10, <1>14, <2>1 DEF UiIInv, AskedOfMine
  <2>4. AskedOfMine'
    BY <2>3 DEF AskedOfMine
  <2>5. QED
    BY <1>12, <1>14, <2>2, <2>4
<1>15. QED
  BY <1>11, <1>13, <1>14

LEMMA FailStep == ASSUME UiSizes, UiIInv, NEW r \in pending, Ui!Refuse(r) \/ Ui!Loss(r) PROVE UiIInv'
<1>1. Ui!TypeOK'
  BY UiTypeStep DEF UiIInv, UiTypeInv, Ui!Next
<1> DEFINE q == [r EXCEPT !.at = "failed", !.data = {}]
<1>2. /\ q \in Ui!Request
      /\ q.kind = r.kind /\ q.epoch = r.epoch /\ q.about = r.about /\ q.text = r.text
      /\ q.at = "failed" /\ q.data = {}
  <2>1. r \in Ui!Request
    BY DEF UiIInv, Ui!TypeOK
  <2>2. QED
    BY <2>1, AnswerFacts
<1>3. pending' = (pending \ {r}) \union {q}
  BY DEF Ui!Refuse, Ui!Loss, Ui!Answered
<1> HIDE DEF q
<1>4. /\ uiEpoch' = uiEpoch /\ mine' = mine /\ contacts' = contacts /\ selected' = selected
      /\ screen' = screen /\ optimistic' = optimistic /\ stored' = stored /\ vault' = vault
      /\ r.at # "failed"
  BY DEF Ui!Refuse, Ui!Loss, Ui!daemon, Ui!tab, Ui!lists
<1>5. WellFormed' /\ OneChange'
  BY <1>2, <1>3, <1>4, FormKept
<1>6. AnswersAreStored' /\ OptimisticIsStored' /\ ScreenIsStored'
  BY <1>2, <1>3, <1>4, StoredKept, ScreenKept
<1>7. ListedBelong' /\ LockFindsNone' /\ AskedOfMine'
  BY <1>2, <1>3, <1>4, Undisturbed, ListedHas
<1>8. QED
  BY <1>1, <1>5, <1>6, <1>7 DEF UiIInv

LEMMA ArriveStep == ASSUME UiSizes, UiIInv, NEW c \in Conversation, NEW i \in Item, Ui!Arrive(c, i) PROVE UiIInv'
<1>1. Ui!TypeOK'
  BY UiTypeStep DEF UiIInv, UiTypeInv, Ui!Next
<1>2. /\ uiEpoch' = uiEpoch /\ mine' = mine /\ contacts' = contacts /\ selected' = selected
      /\ screen' = screen /\ optimistic' = optimistic /\ stored \subseteq stored' /\ vault' = vault
      /\ pending' = pending
  BY DEF Ui!Arrive, Ui!tab, Ui!lists
<1>3. WellFormed' /\ OneChange'
  BY <1>2 DEF UiIInv, WellFormed, OneChange
<1>4. AnswersAreStored' /\ OptimisticIsStored' /\ ScreenIsStored'
  BY <1>2, StoredKept, ScreenKept
<1>5. ListedBelong' /\ LockFindsNone' /\ AskedOfMine'
  BY <1>2, Undisturbed, ListedHas
<1>6. QED
  BY <1>1, <1>3, <1>4, <1>5 DEF UiIInv

-----------------------------------------------------------------------------
(* The steps of the tab: what it asks.                                     *)

\* A request other than those that change the vault or ask for contacts.
LEMMA AskingStep ==
  ASSUME UiSizes, UiIInv, Ui!TypeOK', NEW q,
         pending' = pending \union {q}, q.kind \in {"load", "sync", "send", "quick", "pin"},
         q.at = "asked", q.epoch = uiEpoch, q.data = {},
         q.kind \in {"load", "send"} => q.about \in Conversation,
         q.kind = "sync" => q.about \in Conversation \union {None},
         q.kind = "send" => q.text \in UiText,
         uiEpoch' = uiEpoch, mine' = mine, vault' = vault, stored' = stored, contacts' = contacts,
         selected' \in contacts \union {selected},
         OptimisticIsStored', ScreenIsStored'
  PROVE  UiIInv'
<1>1. WellFormed' /\ OneChange'
  BY FormKept
<1>2. AnswersAreStored'
  BY StoredKept
<1>3. ListedBelong' /\ LockFindsNone' /\ AskedOfMine'
  BY Undisturbed, ListedHas
<1>4. QED
  BY <1>1, <1>2, <1>3 DEF UiIInv

LEMMA AskSteps ==
  ASSUME UiSizes, UiIInv,
         \/ \E c \in Conversation : Ui!Select(c)
         \/ Ui!Poll
         \/ \E t \in UiText : Ui!Submit(t)
         \/ Ui!QuickLock
         \/ Ui!EnterPin
  PROVE  UiIInv'
<1>1. Ui!TypeOK' /\ Ui!TypeOK
  BY UiTypeStep DEF UiIInv, UiTypeInv, Ui!Next
<1>2. ASSUME NEW c \in Conversation, Ui!Select(c) PROVE UiIInv'
  <2> DEFINE q == Ui!Ask("load", c, None, uiEpoch)
  <2>1. q.kind = "load" /\ q.epoch = uiEpoch /\ q.about = c /\ q.at = "asked" /\ q.data = {}
    <3>1. c \in Ui!About /\ None \in UiText \union {None} /\ "load" \in Ui!Kind
      BY <1>1, Abouts DEF Ui!Kind
    <3>2. QED
      BY <1>1, <3>1, AskFacts, Abouts
  <2>2. pending' = pending \union {q}
    BY <1>2 DEF Ui!Select
  <2> HIDE DEF q
  <2>3. /\ uiEpoch' = uiEpoch /\ mine' = mine /\ vault' = vault /\ stored' = stored
        /\ contacts' = contacts /\ selected' \in contacts \union {selected}
        /\ optimistic' = optimistic /\ screen' = {}
    BY <1>2 DEF Ui!Select, Ui!daemon, Ui!tab
  <2>4. OptimisticIsStored' /\ ScreenIsStored'
    BY <2>3, ScreenKept
  <2>5. QED
    BY <1>1, <2>1, <2>2, <2>3, <2>4, AskingStep
<1>3. ASSUME Ui!Poll PROVE UiIInv'
  <2> DEFINE q == Ui!Ask("sync", selected, None, uiEpoch)
  <2>1. q.kind = "sync" /\ q.epoch = uiEpoch /\ q.about = selected /\ q.at = "asked" /\ q.data = {}
    <3>1. "sync" \in Ui!Kind /\ selected \in Ui!About /\ None \in UiText \union {None}
      BY <1>1, Abouts DEF Ui!Kind
    <3>2. uiEpoch \in 0 .. MaxEpochs
      BY <1>1, Abouts
    <3>3. QED
      BY <1>1, <3>1, <3>2, AskFacts
  <2>2. pending' = pending \union {q}
    BY <1>3 DEF Ui!Poll
  <2> HIDE DEF q
  <2>3. /\ uiEpoch' = uiEpoch /\ mine' = mine /\ vault' = vault /\ stored' = stored
        /\ contacts' = contacts /\ selected' = selected
        /\ optimistic' = optimistic /\ screen' = screen
    BY <1>3 DEF Ui!Poll, Ui!daemon, Ui!tab
  <2>4. OptimisticIsStored' /\ ScreenIsStored' /\ selected \in Conversation \union {None}
    BY <1>1, <2>3, ScreenKept DEF Ui!TypeOK
  <2>5. QED
    BY <1>1, <2>1, <2>2, <2>3, <2>4, AskingStep
<1>4. ASSUME NEW t \in UiText, Ui!Submit(t) PROVE UiIInv'
  <2> DEFINE q == Ui!Ask("send", selected, t, uiEpoch)
  <2>1. /\ q.kind = "send" /\ q.epoch = uiEpoch /\ q.about = selected /\ q.text = t
        /\ q.at = "asked" /\ q.data = {}
    <3>1. t \in UiText \union {None} /\ "send" \in Ui!Kind
      BY DEF Ui!Kind
    <3>2. QED
      BY <1>1, <3>1, AskFacts, Abouts
  <2>2. pending' = pending \union {q}
    BY <1>4 DEF Ui!Submit
  <2> HIDE DEF q
  <2>3. /\ uiEpoch' = uiEpoch /\ mine' = mine /\ vault' = vault /\ stored' = stored
        /\ contacts' = contacts /\ selected' = selected /\ selected # None
        /\ optimistic' = optimistic \union {[text |-> t, about |-> selected, id |-> "local"]}
        /\ screen' = screen \union {<<"local", t>>}
    BY <1>4 DEF Ui!Submit, Ui!daemon, Ui!tab
  <2>4. OptimisticIsStored'
    BY <2>3 DEF UiIInv, OptimisticIsStored
  <2>5. ScreenIsStored'
    BY <2>3 DEF UiIInv, ScreenIsStored
  <2>6. selected \in Conversation
    BY <1>1, <2>3 DEF Ui!TypeOK
  <2>7. QED
    BY <1>1, <2>1, <2>2, <2>3, <2>4, <2>5, <2>6, AskingStep
<1>5. ASSUME Ui!QuickLock \/ Ui!EnterPin PROVE UiIInv'
  <2>1. PICK k \in {"quick", "pin"} : pending' = pending \union {Ui!Ask(k, None, None, uiEpoch)}
    BY <1>5 DEF Ui!QuickLock, Ui!EnterPin
  <2> DEFINE q == Ui!Ask(k, None, None, uiEpoch)
  <2>2. q.kind = k /\ q.epoch = uiEpoch /\ q.at = "asked" /\ q.data = {}
    BY <1>1, AskFacts, Abouts DEF Ui!Kind
  <2>3. pending' = pending \union {q}
    BY <2>1
  <2> HIDE DEF q
  <2>4. /\ uiEpoch' = uiEpoch /\ mine' = mine /\ vault' = vault /\ stored' = stored
        /\ contacts' = contacts /\ selected' = selected
        /\ optimistic' = optimistic /\ screen' = screen
    BY <1>5 DEF Ui!QuickLock, Ui!EnterPin, Ui!daemon, Ui!tab, Ui!lists
  <2>5. OptimisticIsStored' /\ ScreenIsStored'
    BY <2>4, ScreenKept
  <2>6. QED
    BY <1>1, <2>2, <2>3, <2>4, <2>5, AskingStep
<1>6. QED
  BY <1>2, <1>3, <1>4, <1>5

\* A lock or the opening of a vault begins an epoch: what was asked before it is of
\* another, and what the tab shows is cleared or stays of the vault that is open.
LEMMA ChangeStep ==
  ASSUME UiSizes, UiIInv, Ui!Lock \/ \E v \in Vault : Ui!Open(v)
  PROVE  UiIInv'
<1>1. Ui!TypeOK' /\ Ui!TypeOK /\ uiEpoch \in Nat
  BY UiTypeStep DEF UiIInv, UiTypeInv, Ui!Next, Ui!TypeOK
<1>2. PICK k \in {"lock", "open"}, v \in Vault \union {None} :
        /\ pending' = pending \union {Ui!Ask(k, v, None, uiEpoch + 1)}
        /\ k = "open" => v \in Vault
        /\ k = "lock" => contacts' = {} /\ selected' = None /\ screen' = {} /\ optimistic' = {}
        /\ k = "open" => /\ contacts' = contacts /\ selected' = selected
                         /\ screen' = screen /\ optimistic' = optimistic
        /\ uiEpoch' = uiEpoch + 1 /\ mine' = mine /\ vault' = vault /\ stored' = stored /\ Ui!Idle
  <2>1. CASE Ui!Lock
    BY <2>1 DEF Ui!Lock, Ui!daemon
  <2>2. ASSUME NEW v \in Vault, Ui!Open(v)
        PROVE  /\ pending' = pending \union {Ui!Ask("open", v, None, uiEpoch + 1)}
               /\ contacts' = contacts /\ selected' = selected
               /\ screen' = screen /\ optimistic' = optimistic
               /\ uiEpoch' = uiEpoch + 1 /\ mine' = mine /\ vault' = vault /\ stored' = stored /\ Ui!Idle
    BY <2>2 DEF Ui!Open, Ui!daemon, Ui!lists
  <2>3. QED
    BY <2>1, <2>2
<1> DEFINE q == Ui!Ask(k, v, None, uiEpoch + 1)
<1>3. uiEpoch + 1 \in 0 .. MaxEpochs
  BY <1>1, <1>2 DEF Ui!TypeOK
<1>4. q.kind = k /\ q.epoch = uiEpoch + 1 /\ q.about = v /\ q.at = "asked" /\ q.data = {}
  BY <1>1, <1>3, AskFacts DEF Ui!Kind, Ui!About
<1>5. pending' = pending \union {q}
  BY <1>2
<1> HIDE DEF q
<1>6. \A r \in pending : r.epoch <= uiEpoch /\ r.epoch \in Nat /\ r.kind \notin {"lock", "open"}
  BY <1>1, <1>2 DEF UiIInv, WellFormed, Ui!Idle, Ui!TypeOK, Ui!Request
<1>7. WellFormed'
  BY <1>1, <1>2, <1>4, <1>5, <1>6 DEF UiIInv, WellFormed
<1>8. OneChange'
  BY <1>2, <1>4, <1>5, <1>6 DEF OneChange
<1>9. AnswersAreStored' /\ OptimisticIsStored' /\ ScreenIsStored'
  BY <1>2, <1>4, <1>5, StoredKept, ScreenKept
<1>10. \A r \in pending' : r.kind = "contacts" => r.epoch # uiEpoch'
  BY <1>1, <1>2, <1>4, <1>5, <1>6
<1>11. Listed' = contacts' \union ({selected'} \ {None})
  BY <1>10 DEF Listed, Lists
<1>12. Listed' \subseteq Listed /\ (k = "lock" => Listed' = {})
  BY <1>2, <1>11, ListedHas
<1>13. ListedBelong' /\ LockFindsNone'
  BY <1>2, <1>4, <1>5, <1>6, <1>12 DEF UiIInv, ListedBelong, LockFindsNone
<1>14. AskedOfMine'
  BY <1>10 DEF AskedOfMine
<1>15. QED
  BY <1>1, <1>7, <1>8, <1>9, <1>13, <1>14 DEF UiIInv

-----------------------------------------------------------------------------
(* The steps of the tab: what it does with the answers.                    *)

\* An answer is done with; messages, or the contacts of the vault that is open, are asked for.
LEMMA ConsumeStep ==
  ASSUME UiSizes, UiIInv, Ui!TypeOK', NEW r \in pending, NEW Q, pending' = (pending \ {r}) \union Q,
         \A q \in Q : /\ q.at = "asked" /\ q.epoch = uiEpoch /\ q.data = {}
                      /\ \/ q.kind = "load" /\ q.about \in Conversation
                         \/ q.kind = "contacts" /\ vault = mine' /\ vault # None,
         uiEpoch' = uiEpoch, mine' \in {mine, vault}, vault' = vault, stored' = stored,
         contacts' \subseteq Listed, selected' \in {selected, None},
         OptimisticIsStored', ScreenIsStored'
  PROVE  UiIInv'
<1>1. WellFormed' /\ OneChange'
  BY FormKept
<1>2. AnswersAreStored'
  BY StoredKept
<1>3. ListedBelong' /\ LockFindsNone' /\ AskedOfMine'
  BY Undisturbed, ListedHas
<1>4. QED
  BY <1>1, <1>2, <1>3 DEF UiIInv

\* What is shown of an answer is in the database.
LEMMA ShowStored ==
  ASSUME UiIInv, NEW r \in pending, r.at = "ok", r.kind \in {"sync", "load"},
         r.about = selected, selected # None, Ui!Show(selected, r.data),
         stored' = stored, selected' = selected
  PROVE  OptimisticIsStored' /\ ScreenIsStored'
<1> DEFINE left == {o \in optimistic : ~(o.id = "stored" /\ o.text \in r.data)}
<1>1. /\ optimistic' = left
      /\ screen' = {<<"stored", i>> : i \in r.data}
                     \union {<<o.id, o.text>> : o \in {x \in left : x.about = selected}}
  BY DEF Ui!Show
<1>2. \A i \in r.data : <<selected, i>> \in stored
  BY DEF UiIInv, AnswersAreStored
<1>3. \A o \in left : o.id = "stored" => <<o.about, o.text>> \in stored
  BY DEF UiIInv, OptimisticIsStored
<1>4. OptimisticIsStored'
  BY <1>1, <1>3 DEF OptimisticIsStored
<1>5. ScreenIsStored'
  <2> SUFFICES ASSUME NEW s \in screen'
               PROVE  s[1] = "stored" => <<selected, s[2]>> \in stored
    BY DEF ScreenIsStored
  <2>1. CASE \E i \in r.data : s = <<"stored", i>>
    BY <1>2, <2>1
  <2>2. CASE \E o \in left : o.about = selected /\ s = <<o.id, o.text>>
    BY <1>3, <2>2
  <2>3. QED
    BY <1>1, <2>1, <2>2
<1>6. QED
  BY <1>4, <1>5

LEMMA ShowSteps ==
  ASSUME UiSizes, UiIInv, NEW r \in pending, Ui!HandleSync(r) \/ Ui!HandleLoad(r)
  PROVE  UiIInv'
<1>1. Ui!TypeOK' /\ Ui!TypeOK
  BY UiTypeStep DEF UiIInv, UiTypeInv, Ui!Next, Ui!Handle
<1> DEFINE Q == {Ui!Ask("load", c, None, uiEpoch) :
                   c \in {d \in {selected} \ {None} : r.at = "ok" /\ Ui!Fresh(r)}}
<1>2. \A c \in Conversation : LET q == Ui!Ask("load", c, None, uiEpoch) IN
        q.kind = "load" /\ q.epoch = uiEpoch /\ q.about = c /\ q.at = "asked" /\ q.data = {}
  BY <1>1, AskFacts, Abouts DEF Ui!Kind
<1>3. \A q \in Q : /\ q.at = "asked" /\ q.epoch = uiEpoch /\ q.data = {}
                   /\ q.kind = "load" /\ q.about \in Conversation
  BY <1>1, <1>2 DEF Ui!TypeOK
<1>4. pending' = (pending \ {r}) \union {} \/ pending' = (pending \ {r}) \union Q
  BY DEF Ui!HandleSync, Ui!HandleLoad, Ui!Consume
<1> HIDE DEF Q
<1>5. /\ uiEpoch' = uiEpoch /\ mine' = mine /\ vault' = vault /\ stored' = stored
      /\ contacts' = contacts /\ selected' = selected /\ r.kind \in {"sync", "load"}
  BY DEF Ui!HandleSync, Ui!HandleLoad, Ui!daemon, Ui!tab
<1>6. OptimisticIsStored' /\ ScreenIsStored'
  <2>1. CASE r.at = "ok" /\ Ui!Fresh(r) /\ Ui!Asks(r, selected)
    BY <1>5, <2>1, ShowStored DEF Ui!HandleSync, Ui!HandleLoad, Ui!Asks
  <2>2. CASE ~(r.at = "ok" /\ Ui!Fresh(r) /\ Ui!Asks(r, selected))
    BY <1>5, <2>2, ScreenKept DEF Ui!HandleSync, Ui!HandleLoad
  <2>3. QED
    BY <2>1, <2>2
<1>7. QED
  BY <1>1, <1>3, <1>4, <1>5, <1>6, ConsumeStep, ListedHas

LEMMA ContactsStep == ASSUME UiSizes, UiIInv, NEW r \in pending, Ui!HandleContacts(r) PROVE UiIInv'
<1>1. Ui!TypeOK' /\ Ui!TypeOK
  BY UiTypeStep DEF UiIInv, UiTypeInv, Ui!Next, Ui!Handle
<1>2. /\ uiEpoch' = uiEpoch /\ mine' = mine /\ vault' = vault /\ stored' = stored
      /\ selected' = selected /\ screen' = screen /\ optimistic' = optimistic
      /\ pending' = (pending \ {r}) \union {}
  BY DEF Ui!HandleContacts, Ui!daemon, Ui!tab, Ui!Consume
<1>3. contacts' \subseteq Listed
  BY ListedHas DEF Ui!HandleContacts, Ui!Fresh, Lists
<1>4. OptimisticIsStored' /\ ScreenIsStored'
  BY <1>2, ScreenKept
<1>5. PICK Q : Q = {} /\ pending' = (pending \ {r}) \union Q
  BY <1>2
<1>6. QED
  BY <1>1, <1>2, <1>3, <1>4, <1>5, ConsumeStep

LEMMA SendStep == ASSUME UiSizes, UiIInv, NEW r \in pending, Ui!HandleSend(r) PROVE UiIInv'
<1>1. Ui!TypeOK' /\ Ui!TypeOK
  BY UiTypeStep DEF UiIInv, UiTypeInv, Ui!Next, Ui!Handle
<1> DEFINE local == [text |-> r.text, about |-> r.about, id |-> "local"]
           q == Ui!Ask("load", r.about, None, uiEpoch)
<1>2. r.about \in Conversation /\ r.kind = "send"
  BY DEF Ui!HandleSend, UiIInv, WellFormed
<1>3. q.kind = "load" /\ q.epoch = uiEpoch /\ q.about = r.about /\ q.at = "asked" /\ q.data = {}
  <2>1. r.about \in Ui!About /\ None \in UiText \union {None} /\ "load" \in Ui!Kind
    BY <1>1, <1>2, Abouts DEF Ui!Kind
  <2>2. QED
    BY <1>1, <2>1, AskFacts, Abouts
<1>4. pending' = (pending \ {r}) \union {} \/ pending' = (pending \ {r}) \union {q}
  BY DEF Ui!HandleSend, Ui!Consume
<1> HIDE DEF q
<1>5. /\ uiEpoch' = uiEpoch /\ mine' = mine /\ vault' = vault /\ stored' = stored
      /\ contacts' = contacts /\ selected' = selected
  BY DEF Ui!HandleSend, Ui!daemon, Ui!tab
<1>6. OptimisticIsStored' /\ ScreenIsStored'
  <2>1. CASE r.at = "ok"
    <3>1. <<r.about, r.text>> \in stored
      BY <1>2, <2>1 DEF UiIInv, AnswersAreStored
    <3>2. optimistic' \subseteq optimistic \union {[local EXCEPT !.id = "stored"]}
      BY <2>1 DEF Ui!HandleSend
    <3>3. OptimisticIsStored'
      BY <1>5, <3>1, <3>2 DEF UiIInv, OptimisticIsStored
    <3>4. \/ screen' = screen
          \/ /\ selected = r.about /\ <<"local", r.text>> \in screen
             /\ screen' = (screen \ {<<"local", r.text>>}) \union {<<"stored", r.text>>}
      BY <2>1 DEF Ui!HandleSend
    <3>5. ScreenIsStored'
      BY <1>5, <3>1, <3>4 DEF UiIInv, ScreenIsStored
    <3>6. QED
      BY <3>3, <3>5
  <2>2. CASE r.at # "ok"
    <3>1. optimistic' \subseteq optimistic /\ screen' \subseteq screen
      BY <2>2 DEF Ui!HandleSend
    <3>2. QED
      BY <1>5, <3>1, ScreenKept
  <2>3. QED
    BY <2>1, <2>2
<1>7. QED
  BY <1>1, <1>2, <1>3, <1>4, <1>5, <1>6, ConsumeStep, ListedHas, ZenonT(60)

LEMMA BootstrapSteps ==
  ASSUME UiSizes, UiIInv, NEW r \in pending, Ui!HandleLock(r) \/ Ui!HandleOpen(r) \/ Ui!HandleQuick(r)
  PROVE  UiIInv'
<1>1. Ui!TypeOK' /\ Ui!TypeOK
  BY UiTypeStep DEF UiIInv, UiTypeInv, Ui!Next, Ui!Handle
<1>2. /\ uiEpoch' = uiEpoch /\ vault' = vault /\ stored' = stored
      /\ optimistic' \subseteq optimistic /\ screen' \subseteq screen
      /\ selected' = selected \/ (selected' = None /\ screen' = {})
      /\ contacts' \subseteq contacts
  BY DEF Ui!HandleLock, Ui!HandleOpen, Ui!HandleQuick, Ui!daemon, Ui!lists
<1>3. OptimisticIsStored' /\ ScreenIsStored'
  BY <1>2, ScreenKept
<1>4. CASE Ui!Bootstrap(r)
  <2> DEFINE q == Ui!Ask("contacts", None, None, uiEpoch)
             Q == {q : x \in {y \in {1} : Ui!State = "unlocked"}}
  <2>1. q.kind = "contacts" /\ q.epoch = uiEpoch /\ q.at = "asked" /\ q.data = {}
    <3>1. None \in Ui!About /\ None \in UiText \union {None} /\ "contacts" \in Ui!Kind
      BY <1>1, Abouts DEF Ui!Kind
    <3>2. QED
      BY <1>1, <3>1, AskFacts, Abouts
  <2>2. pending' = (pending \ {r}) \union Q /\ mine' = vault
    BY <1>4 DEF Ui!Bootstrap, Ui!Consume
  <2>3. Q # {} => vault # None
    BY DEF Ui!State
  <2>4. \A p \in Q : p = q
    OBVIOUS
  <2> HIDE DEF q, Q
  <2>5. QED
    BY <1>1, <1>2, <1>3, <2>1, <2>2, <2>3, <2>4, ConsumeStep, ListedHas
<1>5. CASE pending' = (pending \ {r}) \union {} /\ mine' = mine
  <2>1. PICK Q : Q = {} /\ pending' = (pending \ {r}) \union Q
    BY <1>5
  <2>2. QED
    BY <1>1, <1>2, <1>3, <1>5, <2>1, ConsumeStep, ListedHas
<1>6. QED
  BY <1>4, <1>5 DEF Ui!HandleLock, Ui!HandleOpen, Ui!HandleQuick, Ui!Consume

-----------------------------------------------------------------------------
LEMMA UiInitInv == ASSUME UiSizes, Ui!Init PROVE UiIInv
<1>1. Ui!TypeOK
  <2>1. 0 \in 0 .. MaxEpochs /\ 0 \in 0 .. MaxSelects /\ 0 \in 0 .. MaxLosses
    BY DEF UiSizes
  <2>2. QED
    BY <2>1 DEF Ui!Init, Ui!TypeOK
<1>2. Listed = {}
  BY DEF Ui!Init, Listed, Lists
<1>3. QED
  BY <1>1, <1>2 DEF Ui!Init, UiIInv, WellFormed, OneChange, AnswersAreStored, OptimisticIsStored,
     ScreenIsStored, ListedBelong, LockFindsNone, AskedOfMine

LEMMA UiInvStep == ASSUME UiSizes, UiIInv, [Ui!Next]_(Ui!vars) PROVE UiIInv'
<1>1. CASE UNCHANGED Ui!vars
  BY <1>1 DEF Ui!vars, Ui!daemon, Ui!tab, Ui!lists, Ui!counts, UiIInv, Ui!TypeOK, WellFormed,
     OneChange, AnswersAreStored, OptimisticIsStored, ScreenIsStored, Listed, Lists, ListedBelong,
     LockFindsNone, AskedOfMine
<1>2. CASE Ui!Next
  BY <1>2, ServeStep, FailStep, ArriveStep, AskSteps, ChangeStep, ShowSteps, ContactsStep,
     SendStep, BootstrapSteps DEF Ui!Next, Ui!Handle
<1>3. QED
  BY <1>1, <1>2

\* The invariant holds of every reachable state.
THEOREM UiInvariant == ASSUME UiSizes PROVE Ui!Spec => []UiIInv
<1>1. Ui!Init => UiIInv
  BY UiInitInv
<1>2. UiIInv /\ [Ui!Next]_(Ui!vars) => UiIInv'
  BY UiInvStep
<1>3. QED
  BY <1>1, <1>2, PTL DEF Ui!Spec

\* Every variable of the tab, the daemon and the requests between them has its type.
THEOREM UiTypeCorrect == ASSUME UiSizes PROVE Ui!Spec => []Ui!TypeOK
<1>1. UiIInv => Ui!TypeOK
  BY DEF UiIInv
<1>2. QED
  BY <1>1, UiInvariant, PTL

LEMMA Implied == UiIInv => Ui!ScreenBelongs
BY ListedHas DEF UiIInv, ListedBelong, ScreenIsStored, Ui!ScreenBelongs

\* While a vault is on the screen, all that is shown is of that vault, whatever answers
\* come late from the one opened before it (App.tsx:691-699, 824-845, 847-880).
THEOREM Belongs == ASSUME UiSizes PROVE Ui!Spec => []Ui!ScreenBelongs
BY Implied, UiInvariant, PTL
=============================================================================
