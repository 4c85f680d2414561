---------------------------- MODULE VaultsProofs ----------------------------
(***************************************************************************)
(* Theorems about module VaultBackup, for vaults that open without the     *)
(* relay: any number of copies, of edits, of requests and of faults.       *)
(* Random values are taken to be fresh: IdsLeft says that there is one to  *)
(* take.  And, after them, that the parts of MCVaults keep what they       *)
(* promise when a behaviour runs one of them beside the others.            *)
(***************************************************************************)
EXTENDS MCVaults, TLAPS

(* The inductive invariant.                                                *)

Slots(c) == 1 .. Len(uploads[c])
Sent(c, i) == uploads[c][i].body

\* A vault that opens without the relay never asks it for the version.
StaysExternal == present \subseteq external

\* Snapshots wait in the order they were taken, behind the one upload that runs.
Ordered ==
  \A c \in Copy : \A i \in Slots(c) :
    /\ Sent(c, i).content \subseteq content[c]
    /\ \A j \in Slots(c) : i <= j => Sent(c, i).content \subseteq Sent(c, j).content
    /\ i > 1 => uploads[c][i].at = "queued"

\* Whoever believes the backup to be at version v has seen what is in it.
Knows(v, S) ==
  /\ v <= backup.version
  /\ v = backup.version => backup.content \subseteq S

CopiesKnow ==
  \A c \in Copy : Knows(version[c], content[c]) /\ Knows(saved[c], content[c])

UploadKnows(c, u) ==
  /\ u.at \in {"queued", "sent"} => Knows(version[c], u.body.content)
  /\ u.at = "sent" => u.body.version = version[c] + 1
  /\ u.at \in {"ok", "saving"} =>
       Knows(u.body.version, u.body.content) /\ u.body.content \subseteq backup.content
  /\ u.at = "saving" => version[c] = u.body.version
UploadsKnow == \A c \in Copy : \A i \in Slots(c) : UploadKnows(c, uploads[c][i])

\* A request that is still to arrive replaces nothing its writer has not seen.
InTime(m) ==
  /\ m.version <= backup.version + 1
  /\ m.version = backup.version + 1 => backup.content \subseteq m.content
LateKnows == \A m \in late : InTime(m)

\* A nonce names one body: one upload, and whatever the relay or the network has of it.
OneSlot ==
  \A c, d \in Copy : \A i \in Slots(c), j \in Slots(d) :
    Sent(c, i).nonce = Sent(d, j).nonce => c = d /\ i = j
SlotIsBody ==
  \A c \in Copy : \A i \in Slots(c) :
    /\ Sent(c, i).nonce \in Ids
    /\ \A m \in late \union {backup} :
         m.nonce = Sent(c, i).nonce => m = Sent(c, i) /\ uploads[c][i].at # "queued"
OneBody ==
  \A m \in late : /\ m.nonce \in Ids
                  /\ \A x \in late \union {backup} : x.nonce = m.nonce => x = m

Order == Ordered /\ CopiesKnow /\ UploadsKnow /\ LateKnows
Nonces == OneSlot /\ SlotIsBody /\ OneBody
IInv == TypeOK /\ StaysExternal /\ Order /\ Nonces

\* Some random value is in no snapshot, and some is no copy's token.
IdsLeft ==
  /\ \E i \in Ids : i \notin {m.nonce : m \in Bodies}
  /\ \E i \in Ids : i \notin {m.instance : m \in Bodies} \union {lock} \union
                              {instance[c] : c \in Copy}

-----------------------------------------------------------------------------
(* Sequences of uploads.                                                   *)

LEMMA Replacing ==
  ASSUME NEW S, NEW s \in Seq(S), s # <<>>, NEW u \in S
  PROVE  /\ <<u>> \o Tail(s) \in Seq(S)
         /\ Len(<<u>> \o Tail(s)) = Len(s)
         /\ (<<u>> \o Tail(s))[1] = u
         /\ \A i \in 1 .. Len(s) : i # 1 => (<<u>> \o Tail(s))[i] = s[i]
OBVIOUS

LEMMA Dropping ==
  ASSUME NEW S, NEW s \in Seq(S), s # <<>>
  PROVE  /\ Tail(s) \in Seq(S)
         /\ Len(s) \in Nat /\ Len(s) >= 1
         /\ Len(Tail(s)) = Len(s) - 1
         /\ \A i \in 1 .. Len(s) - 1 : Tail(s)[i] = s[i + 1]
         /\ Head(s) = s[1] /\ s[1] \in S
OBVIOUS

LEMMA Appending ==
  ASSUME NEW S, NEW s \in Seq(S), NEW u \in S
  PROVE  /\ Append(s, u) \in Seq(S)
         /\ Len(Append(s, u)) = Len(s) + 1
         /\ Append(s, u)[Len(s) + 1] = u
         /\ \A i \in 1 .. Len(s) : Append(s, u)[i] = s[i]
OBVIOUS

\* Frames: what a step does to the uploads, one copy's and the others'.
OthersSame(c) == \A d \in Copy : d # c => uploads'[d] = uploads[d]
Appended(c, u) ==
  /\ uploads' \in [Copy -> Seq(Upload)]
  /\ Len(uploads'[c]) = Len(uploads[c]) + 1
  /\ uploads'[c][Len(uploads[c]) + 1] = u
  /\ \A i \in Slots(c) : uploads'[c][i] = uploads[c][i]
  /\ OthersSame(c)
Replaced(c, u) ==
  /\ uploads' \in [Copy -> Seq(Upload)]
  /\ Len(uploads[c]) >= 1 /\ Len(uploads'[c]) = Len(uploads[c])
  /\ uploads'[c][1] = u
  /\ \A i \in Slots(c) : i # 1 => uploads'[c][i] = uploads[c][i]
  /\ OthersSame(c)
Dropped(c) ==
  /\ uploads' \in [Copy -> Seq(Upload)]
  /\ Len(uploads[c]) >= 1 /\ Len(uploads'[c]) = Len(uploads[c]) - 1
  /\ \A i \in 1 .. Len(uploads[c]) - 1 : uploads'[c][i] = uploads[c][i + 1]
  /\ OthersSame(c)

LEMMA Lengths ==
  ASSUME TypeOK
  PROVE  \A c \in Copy : /\ Len(uploads[c]) \in Nat
                         /\ \A i \in Slots(c) : uploads[c][i] \in Upload
BY DEF TypeOK, Slots

LEMMA HeadIsFirst ==
  ASSUME TypeOK, NEW c \in Copy, NEW p, Upcoming(c, p)
  PROVE  /\ Head(uploads[c]) = uploads[c][1] /\ uploads[c][1] \in Upload
         /\ uploads[c][1].at = p /\ 1 \in Slots(c) /\ Len(uploads[c]) >= 1
<1>1. uploads[c] \in Seq(Upload) /\ uploads[c] # <<>>
  BY DEF TypeOK, Upcoming
<1>2. QED
  BY <1>1, Dropping DEF Upcoming, Slots

LEMMA StepHeadReplaces ==
  ASSUME TypeOK, NEW c \in Copy, NEW p, Upcoming(c, p), NEW u \in Upload, StepHead(c, u)
  PROVE  Replaced(c, u)
<1>1. uploads[c] \in Seq(Upload) /\ uploads[c] # <<>>
  BY DEF TypeOK, Upcoming
<1>2. uploads' = [uploads EXCEPT ![c] = <<u>> \o Tail(uploads[c])]
  BY DEF StepHead
<1>3. uploads'[c] = <<u>> \o Tail(uploads[c]) /\ uploads' \in [Copy -> Seq(Upload)]
      /\ OthersSame(c)
  BY <1>1, <1>2, Replacing DEF TypeOK, OthersSame
<1>4. QED
  BY <1>1, <1>3, Replacing, HeadIsFirst DEF Replaced, Slots

LEMMA SettleDrops ==
  ASSUME TypeOK, NEW c \in Copy, NEW p, Upcoming(c, p), NEW failed \in BOOLEAN,
         Settle(c, failed)
  PROVE  /\ Dropped(c)
         /\ request' \in [Copy -> {"none", "sync", "on", "off", "wait"}]
         /\ dirty' \subseteq Copy
<1>1. uploads[c] \in Seq(Upload) /\ uploads[c] # <<>>
  BY DEF TypeOK, Upcoming
<1>2. uploads' = [uploads EXCEPT ![c] = Tail(uploads[c])]
  BY DEF Settle
<1>3. uploads'[c] = Tail(uploads[c]) /\ uploads' \in [Copy -> Seq(Upload)]
      /\ OthersSame(c)
  BY <1>1, <1>2, Dropping DEF TypeOK, OthersSame
<1>4. Dropped(c)
  BY <1>1, <1>3, Dropping DEF Dropped
<1>5. request' \in [Copy -> {"none", "sync", "on", "off", "wait"}]
  BY DEF TypeOK, Settle
<1>6. dirty' \subseteq Copy
  BY DEF TypeOK, Settle
<1>7. QED
  BY <1>4, <1>5, <1>6

\* A snapshot is encrypted with a value no other has.
Snapshot(c, u) ==
  /\ u \in Upload
  /\ u.at = "queued"
  /\ u.body.content = content[c]
  /\ u.body.nonce \in Ids
  /\ u.body.nonce \notin {m.nonce : m \in Bodies}

LEMMA SyncAppends ==
  ASSUME TypeOK, IdsLeft, NEW c \in Copy, NEW by \in {"timer", "request"},
         SyncBackup(c, by)
  PROVE  /\ \E u : Snapshot(c, u) /\ Appended(c, u)
         /\ instance' \in [Copy -> Ids \union {NoId}]
<1> DEFINE mark == IF instance[c] = NoId THEN FreshInstance ELSE instance[c]
           body  == [content |-> content[c], instance |-> mark,
                     proof |-> Registration \in content[c],
                     nonce |-> FreshNonce, version |-> 0]
           u     == [body |-> body, at |-> "queued", by |-> by]
<1>1. FreshNonce \in Ids /\ FreshNonce \notin {m.nonce : m \in Bodies}
  BY Zenon DEF IdsLeft, FreshNonce
<1>2. FreshInstance \in Ids
  BY Zenon DEF IdsLeft, FreshInstance
<1>3. mark \in Ids \union {NoId}
  BY <1>2 DEF TypeOK
<1>4. body \in Body
  BY <1>1, <1>3 DEF TypeOK, Body
<1>5. u \in Upload
  BY <1>4 DEF Upload, Progress
<1>6. Snapshot(c, u)
  BY <1>1, <1>5 DEF Snapshot
<1>7. /\ instance' = [instance EXCEPT ![c] = mark]
      /\ uploads' = [uploads EXCEPT ![c] = Append(uploads[c], u)]
  BY DEF SyncBackup
<1>8. uploads[c] \in Seq(Upload)
  BY DEF TypeOK
<1> HIDE DEF mark, body, u
<1>9. uploads'[c] = Append(uploads[c], u) /\ uploads' \in [Copy -> Seq(Upload)]
      /\ OthersSame(c)
  BY <1>5, <1>7, <1>8, Appending DEF TypeOK, OthersSame
<1>10. Appended(c, u)
  BY <1>5, <1>8, <1>9, Appending DEF Appended, Slots
<1>11. instance' \in [Copy -> Ids \union {NoId}]
  BY <1>3, <1>7 DEF TypeOK
<1>12. QED
  BY <1>6, <1>10, <1>11

\* Where the uploads after a step come from.
LEMMA AppendedSlots ==
  ASSUME TypeOK, NEW c \in Copy, NEW u, Appended(c, u)
  PROVE  \A d \in Copy : \A i \in Slots(d)' :
           \/ i \in Slots(d) /\ uploads'[d][i] = uploads[d][i]
           \/ d = c /\ i = Len(uploads[c]) + 1 /\ uploads'[d][i] = u
BY Lengths DEF Appended, OthersSame, Slots

LEMMA ReplacedSlots ==
  ASSUME TypeOK, NEW c \in Copy, NEW u, Replaced(c, u)
  PROVE  \A d \in Copy :
           /\ Slots(d)' = Slots(d)
           /\ \A i \in Slots(d) : \/ uploads'[d][i] = uploads[d][i] /\ (d # c \/ i # 1)
                                  \/ d = c /\ i = 1 /\ uploads'[d][i] = u
BY Lengths DEF Replaced, OthersSame, Slots

LEMMA DroppedSlots ==
  ASSUME TypeOK, NEW c \in Copy, Dropped(c)
  PROVE  \A d \in Copy : \A i \in Slots(d)' :
           \/ d # c /\ i \in Slots(d) /\ uploads'[d][i] = uploads[d][i]
           \/ d = c /\ i + 1 \in Slots(c) /\ i \in Nat /\ uploads'[c][i] = uploads[c][i + 1]
BY Lengths DEF Dropped, OthersSame, Slots

-----------------------------------------------------------------------------
(* What the steps keep, by what they do to the uploads.                    *)

\* Nothing is uploaded, and a copy saves the version it believes in, or grows.
LEMMA QuietStep ==
  ASSUME IInv, uploads' = uploads, version' = version, backup' = backup, late' = late,
         \A d \in Copy : saved'[d] \in {saved[d], version[d]},
         \A d \in Copy : content[d] \subseteq content'[d]
  PROVE  Order' /\ Nonces'
<1>1. Ordered'
  BY DEF IInv, Order, Ordered, Slots, Sent
<1>2. CopiesKnow'
  BY DEF IInv, Order, CopiesKnow, Knows
<1>3. UploadsKnow' /\ LateKnows'
  BY DEF IInv, Order, UploadsKnow, UploadKnows, Knows, LateKnows, InTime, Slots, Sent
<1>4. Nonces'
  BY SMTT(30) DEF IInv, Nonces, OneSlot, SlotIsBody, OneBody, Slots, Sent
<1>5. QED
  BY <1>1, <1>2, <1>3, <1>4 DEF Order

\* A copy puts a new snapshot behind its uploads.
LEMMA AppendStep ==
  ASSUME IInv, NEW c \in Copy, NEW u, Snapshot(c, u), Appended(c, u),
         content' = content, version' = version, saved' = saved, backup' = backup, late' = late
  PROVE  Order' /\ Nonces'
<1>1. \A d \in Copy : \A i \in Slots(d)' :
        \/ i \in Slots(d) /\ uploads'[d][i] = uploads[d][i]
        \/ d = c /\ i = Len(uploads[c]) + 1 /\ uploads'[d][i] = u
  BY AppendedSlots DEF IInv
<1>2. Len(uploads[c]) \in Nat
  BY Lengths DEF IInv
<1>3. Ordered'
  <2>1. \A d \in Copy : \A i \in Slots(d)' : Sent(d, i)'.content \subseteq content[d]
    BY <1>1 DEF IInv, Order, Ordered, Sent, Snapshot
  <2>2. ASSUME NEW d \in Copy, NEW i \in Slots(d)', NEW j \in Slots(d)', i <= j
        PROVE  Sent(d, i)'.content \subseteq Sent(d, j)'.content
    <3>1. CASE j \in Slots(d) /\ uploads'[d][j] = uploads[d][j]
      <4>1. i \in Slots(d) /\ uploads'[d][i] = uploads[d][i]
        BY <1>1, <1>2, <2>2, <3>1 DEF Slots
      <4>2. QED
        BY <2>2, <3>1, <4>1 DEF IInv, Order, Ordered, Sent
    <3>2. CASE d = c /\ uploads'[d][j] = u
      BY <2>1, <2>2, <3>2 DEF Sent, Snapshot
    <3>3. QED
      BY <1>1, <2>2, <3>1, <3>2
  <2>3. \A d \in Copy : \A i \in Slots(d)' : i > 1 => uploads'[d][i].at = "queued"
    BY <1>1 DEF IInv, Order, Ordered, Snapshot
  <2>4. QED
    BY <2>1, <2>2, <2>3 DEF Ordered
<1>4. CopiesKnow' /\ LateKnows'
  BY DEF IInv, Order, CopiesKnow, Knows, LateKnows, InTime
<1>5. UploadsKnow'
  <2>1. UploadKnows(c, u)
    BY DEF IInv, Order, CopiesKnow, UploadKnows, Snapshot
  <2>2. ASSUME NEW d \in Copy, NEW i \in Slots(d)'
        PROVE  UploadKnows(d, uploads'[d][i])
    BY <1>1, <2>1 DEF IInv, Order, UploadsKnow
  <2>3. QED
    BY <2>2 DEF UploadsKnow, UploadKnows, Knows
<1>6. \A m \in Bodies : m.nonce # u.body.nonce
  BY DEF Snapshot
<1>7. \A d \in Copy : \A i \in Slots(d) : Sent(d, i) \in Bodies
  BY Lengths DEF IInv, TypeOK, Bodies, Running, Slots, Sent
<1>8. OneSlot'
  <2>1. ASSUME NEW d \in Copy, NEW e \in Copy, NEW i \in Slots(d)', NEW j \in Slots(e)',
               Sent(d, i)'.nonce = Sent(e, j)'.nonce
        PROVE  d = e /\ i = j
    <3>1. CASE i \in Slots(d) /\ j \in Slots(e) /\ uploads'[d][i] = uploads[d][i]
               /\ uploads'[e][j] = uploads[e][j]
      BY <2>1, <3>1 DEF IInv, Nonces, OneSlot, Sent
    <3>2. CASE i \in Slots(d) /\ uploads'[d][i] = uploads[d][i] /\ uploads'[e][j] = u
      BY <1>6, <1>7, <2>1, <3>2 DEF Sent
    <3>3. CASE j \in Slots(e) /\ uploads'[e][j] = uploads[e][j] /\ uploads'[d][i] = u
      BY <1>6, <1>7, <2>1, <3>3 DEF Sent
    <3>4. QED
      BY <1>1, <2>1, <3>1, <3>2, <3>3
  <2>2. QED
    BY <2>1 DEF OneSlot
<1>9. SlotIsBody'
  <2>1. \A m \in late \union {backup} : m.nonce # u.body.nonce
    BY <1>6 DEF Bodies
  <2>2. \A d \in Copy : \A i \in Slots(d)' :
          /\ Sent(d, i)'.nonce \in Ids
          /\ \A m \in late \union {backup} : m.nonce = Sent(d, i)'.nonce =>
               m = Sent(d, i)' /\ uploads'[d][i].at # "queued"
    BY <1>1, <2>1 DEF IInv, Nonces, SlotIsBody, Sent, Snapshot
  <2>3. QED
    BY <2>2 DEF SlotIsBody
<1>10. OneBody'
  BY DEF IInv, Nonces, OneBody
<1>11. QED
  BY <1>3, <1>4, <1>5, <1>8, <1>9, <1>10 DEF Order, Nonces

\* The running upload of a copy is over.
LEMMA DropStep ==
  ASSUME IInv, NEW c \in Copy, Dropped(c),
         content' = content, version' = version, backup' = backup, late' = late,
         \A d \in Copy : saved'[d] \in {saved[d], version[d]}
  PROVE  Order' /\ Nonces'
<1>1. \A d \in Copy : \A i \in Slots(d)' :
        \/ d # c /\ i \in Slots(d) /\ uploads'[d][i] = uploads[d][i]
        \/ d = c /\ i + 1 \in Slots(c) /\ i \in Nat /\ uploads'[c][i] = uploads[c][i + 1]
  BY DroppedSlots DEF IInv
<1>2. Ordered'
  <2>1. ASSUME NEW d \in Copy, d # c PROVE Slots(d)' = Slots(d) /\ uploads'[d] = uploads[d]
    BY <2>1 DEF Dropped, OthersSame, Slots
  <2>2. ASSUME NEW i \in Slots(c)'
        PROVE  /\ Sent(c, i)'.content \subseteq content[c]
               /\ \A j \in Slots(c)' : i <= j => Sent(c, i)'.content \subseteq Sent(c, j)'.content
               /\ i > 1 => uploads'[c][i].at = "queued"
    BY <1>1 DEF IInv, Order, Ordered, Sent
  <2>3. ASSUME NEW d \in Copy, NEW i \in Slots(d)'
        PROVE  /\ Sent(d, i)'.content \subseteq content[d]
               /\ \A j \in Slots(d)' : i <= j => Sent(d, i)'.content \subseteq Sent(d, j)'.content
               /\ i > 1 => uploads'[d][i].at = "queued"
    BY <2>1, <2>2 DEF IInv, Order, Ordered, Sent
  <2>4. QED
    BY <2>3 DEF Ordered
<1>3. CopiesKnow' /\ LateKnows'
  BY DEF IInv, Order, CopiesKnow, Knows, LateKnows, InTime
<1>4. UploadsKnow'
  <2>1. ASSUME NEW d \in Copy, NEW i \in Slots(d)'
        PROVE  UploadKnows(d, uploads'[d][i])
    BY <1>1 DEF IInv, Order, UploadsKnow
  <2>2. QED
    BY <2>1 DEF UploadsKnow, UploadKnows, Knows
<1>5. OneSlot'
  <2>1. ASSUME NEW d \in Copy, NEW e \in Copy, NEW i \in Slots(d)', NEW j \in Slots(e)',
               Sent(d, i)'.nonce = Sent(e, j)'.nonce
        PROVE  d = e /\ i = j
    <3>1. i \in Nat /\ j \in Nat
      BY <1>1, <2>1, Lengths DEF IInv, Slots
    <3>2. PICK k \in Slots(d) : /\ uploads'[d][i] = uploads[d][k]
                                /\ (d # c /\ k = i) \/ (d = c /\ k = i + 1)
      BY <1>1, <2>1, <3>1
    <3>3. PICK n \in Slots(e) : /\ uploads'[e][j] = uploads[e][n]
                                /\ (e # c /\ n = j) \/ (e = c /\ n = j + 1)
      BY <1>1, <2>1, <3>1
    <3>4. Sent(d, k).nonce = Sent(e, n).nonce
      BY <2>1, <3>2, <3>3 DEF Sent
    <3>5. d = e /\ k = n
      BY <3>4 DEF IInv, Nonces, OneSlot
    <3>6. QED
      BY <3>1, <3>2, <3>3, <3>5
  <2>2. QED
    BY <2>1 DEF OneSlot
<1>6. SlotIsBody' /\ OneBody'
  BY <1>1 DEF IInv, Nonces, SlotIsBody, OneBody, Sent
<1>7. QED
  BY <1>2, <1>3, <1>4, <1>5, <1>6 DEF Order, Nonces

\* The running upload of a copy goes on: the snapshot and its nonce are the same.
LEMMA ReplaceStep ==
  ASSUME IInv, NEW c \in Copy, NEW u, Replaced(c, u), content' = content,
         u.body.content = Sent(c, 1).content, u.body.nonce = Sent(c, 1).nonce
  PROVE  Ordered' /\ OneSlot'
<1>1. \A d \in Copy :
        /\ Slots(d)' = Slots(d)
        /\ \A i \in Slots(d) : \/ uploads'[d][i] = uploads[d][i] /\ (d # c \/ i # 1)
                               \/ d = c /\ i = 1 /\ uploads'[d][i] = u
  BY ReplacedSlots DEF IInv
<1>2. \A d \in Copy : \A i \in Slots(d) :
        /\ uploads'[d][i].body.content = uploads[d][i].body.content
        /\ uploads'[d][i].body.nonce = uploads[d][i].body.nonce
        /\ i > 1 => uploads'[d][i].at = uploads[d][i].at
  BY <1>1 DEF Sent
<1>3. Ordered'
  <2>1. ASSUME NEW d \in Copy, NEW i \in Slots(d)
        PROVE  /\ Sent(d, i)'.content \subseteq content'[d]
               /\ \A j \in Slots(d) : i <= j => Sent(d, i)'.content \subseteq Sent(d, j)'.content
               /\ i > 1 => uploads'[d][i].at = "queued"
    BY <1>2 DEF IInv, Order, Ordered, Sent
  <2>2. QED
    BY <1>1, <2>1 DEF Ordered
<1>4. OneSlot'
  <2>1. \A d, e \in Copy : \A i \in Slots(d), j \in Slots(e) :
          Sent(d, i)'.nonce = Sent(e, j)'.nonce => d = e /\ i = j
    BY <1>2 DEF IInv, Nonces, OneSlot, Sent
  <2>2. QED
    BY <1>1, <2>1 DEF OneSlot
<1>5. QED
  BY <1>3, <1>4

\* It is signed under the next version and sent.
LEMMA BeginStep ==
  ASSUME IInv, NEW c \in Copy, Upcoming(c, "queued"), NEW u, Replaced(c, u),
         u.at = "sent", u.body = [uploads[c][1].body EXCEPT !.version = version[c] + 1],
         content' = content, version' = version, saved' = saved, backup' = backup, late' = late
  PROVE  Order' /\ Nonces'
<1>1. uploads[c][1] \in Upload /\ uploads[c][1].at = "queued" /\ 1 \in Slots(c)
  BY HeadIsFirst DEF IInv
<1>2. /\ u.body.content = Sent(c, 1).content /\ u.body.nonce = Sent(c, 1).nonce
      /\ u.body.version = version[c] + 1
  BY <1>1 DEF Sent, Upload, Body
<1>3. Ordered' /\ OneSlot'
  BY <1>2, ReplaceStep
<1>4. \A d \in Copy :
        /\ Slots(d)' = Slots(d)
        /\ \A i \in Slots(d) : \/ uploads'[d][i] = uploads[d][i] /\ (d # c \/ i # 1)
                               \/ d = c /\ i = 1 /\ uploads'[d][i] = u
  BY ReplacedSlots DEF IInv
<1>5. CopiesKnow' /\ LateKnows' /\ OneBody'
  BY DEF IInv, Order, Nonces, CopiesKnow, Knows, LateKnows, InTime, OneBody
<1>6. UploadsKnow'
  <2>1. UploadKnows(c, u)
    BY <1>1, <1>2 DEF IInv, Order, UploadsKnow, UploadKnows, Sent
  <2>2. \A d \in Copy : \A i \in Slots(d)' : UploadKnows(d, uploads'[d][i])
    BY <1>4, <2>1 DEF IInv, Order, UploadsKnow
  <2>3. QED
    BY <2>2 DEF UploadsKnow, UploadKnows, Knows
<1>7. SlotIsBody'
  <2>1. \A m \in late \union {backup} : m.nonce # u.body.nonce
    BY <1>1, <1>2 DEF IInv, Nonces, SlotIsBody
  <2>2. u.body.nonce \in Ids
    BY <1>1, <1>2 DEF IInv, Nonces, SlotIsBody
  <2>3. ASSUME NEW d \in Copy, NEW i \in Slots(d)
        PROVE  /\ Sent(d, i)'.nonce \in Ids
               /\ \A m \in late \union {backup} : m.nonce = Sent(d, i)'.nonce =>
                    m = Sent(d, i)' /\ uploads'[d][i].at # "queued"
    <3>1. CASE uploads'[d][i] = uploads[d][i]
      BY <3>1 DEF IInv, Nonces, SlotIsBody, Sent
    <3>2. CASE uploads'[d][i] = u
      BY <2>1, <2>2, <3>2 DEF Sent
    <3>3. QED
      BY <1>4, <3>1, <3>2
  <2>4. QED
    BY <1>4, <2>3 DEF SlotIsBody
<1>8. QED
  BY <1>3, <1>5, <1>6, <1>7 DEF Order, Nonces

\* Its answer is received: the copy believes in the version the answer confirms.
LEMMA AnsweredStep ==
  ASSUME IInv, NEW c \in Copy, Upcoming(c, "ok"), NEW u, Replaced(c, u),
         u.at = "saving", u.body = uploads[c][1].body,
         version' = [version EXCEPT ![c] = uploads[c][1].body.version],
         content' = content, saved' = saved, backup' = backup, late' = late
  PROVE  Order' /\ Nonces'
<1>1. uploads[c][1] \in Upload /\ uploads[c][1].at = "ok" /\ 1 \in Slots(c)
  BY HeadIsFirst DEF IInv
<1>2. Ordered' /\ OneSlot'
  BY ReplaceStep DEF Sent
<1>3. \A d \in Copy :
        /\ Slots(d)' = Slots(d)
        /\ \A i \in Slots(d) : \/ uploads'[d][i] = uploads[d][i] /\ (d # c \/ i # 1)
                               \/ d = c /\ i = 1 /\ uploads'[d][i] = u
  BY ReplacedSlots DEF IInv
<1>4. /\ version'[c] = u.body.version
      /\ \A d \in Copy : d # c => version'[d] = version[d]
  BY DEF IInv, TypeOK
<1>5. Knows(u.body.version, u.body.content) /\ u.body.content \subseteq backup.content
  BY <1>1 DEF IInv, Order, UploadsKnow, UploadKnows
<1>6. u.body.content \subseteq content[c]
  BY <1>1 DEF IInv, Order, Ordered, Sent
<1>7. CopiesKnow'
  BY <1>4, <1>5, <1>6 DEF IInv, Order, CopiesKnow, Knows
<1>8. LateKnows' /\ OneBody'
  BY DEF IInv, Order, Nonces, LateKnows, InTime, OneBody
<1>9. UploadsKnow'
  <2>1. ASSUME NEW i \in Slots(c), i # 1
        PROVE  /\ uploads[c][i].at = "queued" /\ Knows(version'[c], Sent(c, i).content)
               /\ uploads'[c][i] = uploads[c][i]
    <3>1. i > 1 /\ 1 <= i
      BY <2>1, Lengths DEF IInv, Slots
    <3>2. u.body.content \subseteq Sent(c, i).content /\ uploads[c][i].at = "queued"
      BY <1>1, <3>1 DEF IInv, Order, Ordered, Sent
    <3>3. QED
      BY <1>3, <1>4, <1>5, <2>1, <3>2 DEF Knows
  <2>2. \A i \in Slots(c) : UploadKnows(c, uploads[c][i])'
    BY <1>3, <1>4, <1>5, <2>1 DEF UploadKnows, Knows, Sent
  <2>3. \A d \in Copy : d # c => \A i \in Slots(d) : UploadKnows(d, uploads[d][i])'
    BY <1>3, <1>4 DEF IInv, Order, UploadsKnow, UploadKnows, Knows
  <2>4. QED
    BY <1>3, <2>2, <2>3 DEF UploadsKnow
<1>10. SlotIsBody'
  <2>1. \A d \in Copy : \A i \in Slots(d)' :
          Sent(d, i)' = Sent(d, i) /\ (uploads'[d][i].at = "queued" => uploads[d][i].at = "queued")
    BY <1>3 DEF Sent
  <2>2. QED
    BY <1>3, <2>1 DEF IInv, Nonces, SlotIsBody
<1>11. QED
  BY <1>2, <1>7, <1>8, <1>9, <1>10 DEF Order, Nonces

\* A request that has been sent is in time.
LEMMA SentInTime ==
  ASSUME IInv, NEW c \in Copy, NEW p \in {"sent", "ok"}, Upcoming(c, p)
  PROVE  uploads[c][1].body \in Body /\ InTime(uploads[c][1].body)
<1>1. uploads[c][1] \in Upload /\ uploads[c][1].at = p /\ 1 \in Slots(c)
  BY HeadIsFirst DEF IInv
<1>2. UploadKnows(c, uploads[c][1])
  BY <1>1 DEF IInv, Order, UploadsKnow
<1>3. /\ version[c] \in Nat /\ backup.version \in Nat /\ uploads[c][1].body.version \in Nat
      /\ uploads[c][1].body \in Body
  BY <1>1 DEF IInv, TypeOK, Body, Upload
<1>4. QED
  BY <1>1, <1>2, <1>3 DEF UploadKnows, Knows, InTime

\* It is given up, or its request repeated: the request may arrive later.
LEMMA LooseStep ==
  ASSUME IInv, NEW c \in Copy, NEW p \in {"sent", "ok"}, Upcoming(c, p), NEW u, Replaced(c, u),
         u.at \in {"refused", p}, u.body = uploads[c][1].body,
         late' \subseteq late \union {uploads[c][1].body},
         content' = content, version' = version, saved' = saved, backup' = backup
  PROVE  Order' /\ Nonces'
<1>1. uploads[c][1] \in Upload /\ uploads[c][1].at = p /\ 1 \in Slots(c)
  BY HeadIsFirst DEF IInv
<1>2. Ordered' /\ OneSlot'
  BY ReplaceStep DEF Sent
<1>3. \A d \in Copy :
        /\ Slots(d)' = Slots(d)
        /\ \A i \in Slots(d) : \/ uploads'[d][i] = uploads[d][i] /\ (d # c \/ i # 1)
                               \/ d = c /\ i = 1 /\ uploads'[d][i] = u
  BY ReplacedSlots DEF IInv
<1>4. CopiesKnow'
  BY DEF IInv, Order, CopiesKnow, Knows
<1>5. UploadKnows(c, uploads[c][1])
  BY <1>1 DEF IInv, Order, UploadsKnow
<1>6. LateKnows'
  <2>1. InTime(uploads[c][1].body)
    BY SentInTime
  <2>2. QED
    BY <2>1 DEF IInv, Order, LateKnows, InTime
<1>7. UploadsKnow'
  <2>1. UploadKnows(c, u)
    BY <1>1, <1>5 DEF UploadKnows
  <2>2. \A d \in Copy : \A i \in Slots(d)' : UploadKnows(d, uploads'[d][i])
    BY <1>3, <2>1 DEF IInv, Order, UploadsKnow
  <2>3. QED
    BY <2>2 DEF UploadsKnow, UploadKnows, Knows
<1>8. \A d \in Copy : \A i \in Slots(d) :
        Sent(d, i)' = Sent(d, i) /\ (uploads'[d][i].at = "queued" => uploads[d][i].at = "queued")
  BY <1>1, <1>3 DEF Sent
<1>9. SlotIsBody'
  <2>1. ASSUME NEW d \in Copy, NEW i \in Slots(d), NEW m \in late' \union {backup},
               m.nonce = Sent(d, i).nonce
        PROVE  m = Sent(d, i) /\ uploads[d][i].at # "queued"
    <3>1. CASE m \in late \union {backup}
      BY <2>1, <3>1 DEF IInv, Nonces, SlotIsBody
    <3>2. CASE m = Sent(c, 1)
      <4>1. d = c /\ i = 1
        BY <1>1, <2>1, <3>2 DEF IInv, Nonces, OneSlot
      <4>2. QED
        BY <1>1, <3>2, <4>1
    <3>3. QED
      BY <2>1, <3>1, <3>2 DEF Sent
  <2>2. \A d \in Copy : \A i \in Slots(d) : Sent(d, i).nonce \in Ids
    BY DEF IInv, Nonces, SlotIsBody
  <2>3. QED
    BY <1>3, <1>8, <2>1, <2>2 DEF SlotIsBody
<1>10. OneBody'
  <2>1. /\ Sent(c, 1).nonce \in Ids
        /\ \A m \in late \union {backup} : m.nonce = Sent(c, 1).nonce => m = Sent(c, 1)
    BY <1>1 DEF IInv, Nonces, SlotIsBody
  <2>2. QED
    BY <2>1 DEF IInv, Nonces, OneBody, Sent
<1>11. QED
  BY <1>2, <1>4, <1>6, <1>7, <1>9, <1>10 DEF Order, Nonces

\* A request that is in time replaces nothing its writer has not seen.
Written(m) ==
  backup' = m /\ m.version = backup.version + 1 /\ backup.content \subseteq m.content

LEMMA PutWrites ==
  ASSUME TypeOK, NEW m \in Body, InTime(m), Put(m)
  PROVE  /\ \/ Written(m)
            \/ backup' = backup /\ (Accepts(m) => backup.nonce = m.nonce)
         /\ backup' \in Body /\ lock' \in Ids \union {NoId}
<1>1. backup.version \in Nat /\ m.version \in Nat /\ m.instance \in Ids \union {NoId}
  BY DEF TypeOK, Body
<1>2. CASE Accepts(m) /\ ~Identical(m)
  <2>1. backup' = m /\ lock' = IF m.proof THEN m.instance ELSE lock
    BY <1>2 DEF Put
  <2>2. m.version = backup.version + 1
    BY <1>2, Zenon DEF Accepts, InTurn
  <2>3. Written(m)
    BY <2>1, <2>2 DEF InTime, Written
  <2>4. lock' \in Ids \union {NoId}
    <3>1. lock' = m.instance \/ lock' = lock
      BY <2>1, Zenon
    <3>2. QED
      BY <1>1, <3>1 DEF TypeOK
  <2>5. backup' \in Body
    BY <2>1, Zenon
  <2>6. QED
    BY <2>3, <2>4, <2>5, Zenon
<1>3. CASE ~(Accepts(m) /\ ~Identical(m))
  BY <1>3 DEF TypeOK, Put, Identical, relay
<1>4. QED
  BY <1>2, <1>3

LEMMA WritesKeep ==
  ASSUME TypeOK, NEW m \in Body, Written(m) \/ backup' = backup
  PROVE  /\ \A v \in Nat : \A S \in SUBSET Edit : Knows(v, S) =>
                v <= backup'.version /\ (v = backup'.version => backup'.content \subseteq S)
         /\ \A x \in Body : InTime(x) =>
                /\ x.version <= backup'.version + 1
                /\ x.version = backup'.version + 1 => backup'.content \subseteq x.content
         /\ backup.content \subseteq backup'.content
<1>1. /\ backup.version \in Nat /\ m.version \in Nat
      /\ \A x \in Body : x.version \in Nat
  BY DEF TypeOK, Body
<1>2. QED
  BY <1>1 DEF Knows, InTime, Written

\* The parts of the invariant about versions survive a request of a copy or of the network.
LEMMA WritesOrder ==
  ASSUME IInv, NEW m \in Body, Written(m) \/ backup' = backup,
         late' \subseteq late, version' = version, saved' = saved, content' = content
  PROVE  /\ CopiesKnow' /\ LateKnows'
         /\ \A c \in Copy : \A i \in Slots(c) : UploadKnows(c, uploads[c][i]) =>
              \A w : w = uploads[c][i] => UploadKnows(c, w)'
<1>1. /\ version \in [Copy -> Nat] /\ saved \in [Copy -> Nat]
      /\ content \in [Copy -> SUBSET Edit] /\ late \subseteq Body
  BY DEF IInv, TypeOK
<1>2. CopiesKnow'
  BY <1>1, WritesKeep DEF IInv, Order, CopiesKnow, Knows
<1>3. LateKnows'
  <2>1. \A x \in late : InTime(x)
    BY DEF IInv, Order, LateKnows
  <2>2. \A x \in late : x.version <= backup'.version + 1
                         /\ (x.version = backup'.version + 1 => backup'.content \subseteq x.content)
    BY <1>1, <2>1, WritesKeep DEF IInv
  <2>3. QED
    BY <2>2 DEF LateKnows, InTime
<1>4. ASSUME NEW c \in Copy, NEW i \in Slots(c), UploadKnows(c, uploads[c][i]),
             NEW w, w = uploads[c][i]
      PROVE  UploadKnows(c, w)'
  <2>1. /\ uploads[c][i].body.version \in Nat /\ uploads[c][i].body.content \in SUBSET Edit
        /\ version[c] \in Nat
    BY <1>1, Lengths DEF IInv, Upload, Body
  <2>2. /\ \A v \in Nat : \A S \in SUBSET Edit : Knows(v, S) =>
               v <= backup'.version /\ (v = backup'.version => backup'.content \subseteq S)
        /\ backup.content \subseteq backup'.content
    BY WritesKeep DEF IInv
  <2>3. Knows(version[c], uploads[c][i].body.content) =>
          version[c] <= backup'.version
          /\ (version[c] = backup'.version => backup'.content \subseteq uploads[c][i].body.content)
    BY <2>1, <2>2
  <2>4. Knows(uploads[c][i].body.version, uploads[c][i].body.content) =>
          uploads[c][i].body.version <= backup'.version
          /\ (uploads[c][i].body.version = backup'.version =>
                 backup'.content \subseteq uploads[c][i].body.content)
    BY <2>1, <2>2
  <2>5. uploads[c][i].body.content \subseteq backup.content =>
          uploads[c][i].body.content \subseteq backup'.content
    BY <2>2
  <2>6. QED
    BY <1>4, <2>3, <2>4, <2>5 DEF UploadKnows, Knows
<1>5. QED
  BY <1>2, <1>3, <1>4

\* The relay decides about a copy's request.
LEMMA PutStep ==
  ASSUME IInv, NEW c \in Copy, Upcoming(c, "sent"), Put(uploads[c][1].body),
         NEW u, Replaced(c, u), u.body = uploads[c][1].body,
         u.at = IF Accepts(uploads[c][1].body) THEN "ok" ELSE "refused",
         content' = content, version' = version, saved' = saved, late' = late
  PROVE  Order' /\ Nonces'
<1> DEFINE body == uploads[c][1].body
<1>1. uploads[c][1] \in Upload /\ uploads[c][1].at = "sent" /\ 1 \in Slots(c)
  BY HeadIsFirst DEF IInv
<1>2. body \in Body /\ InTime(body)
  BY SentInTime
<1>3. \/ Written(body)
      \/ backup' = backup /\ (Accepts(body) => backup.nonce = body.nonce)
  BY <1>2, PutWrites DEF IInv
<1>4. Ordered' /\ OneSlot'
  BY ReplaceStep DEF Sent
<1>5. \A d \in Copy :
        /\ Slots(d)' = Slots(d)
        /\ \A i \in Slots(d) : \/ uploads'[d][i] = uploads[d][i] /\ (d # c \/ i # 1)
                               \/ d = c /\ i = 1 /\ uploads'[d][i] = u
  BY ReplacedSlots DEF IInv
<1>6. /\ CopiesKnow' /\ LateKnows'
      /\ \A d \in Copy : \A i \in Slots(d) : UploadKnows(d, uploads[d][i]) =>
           \A w : w = uploads[d][i] => UploadKnows(d, w)'
  BY <1>2, <1>3, WritesOrder
<1>7. UploadsKnow'
  <2>1. Accepts(body) => backup' = body
    <3>1. backup.nonce = body.nonce => backup = body
      BY <1>1 DEF IInv, Nonces, SlotIsBody, Sent
    <3>2. QED
      BY <1>3, <3>1 DEF Written
  <2>2. body.version \in Nat
    BY <1>2 DEF Body
  <2>3. UploadKnows(c, u)'
    BY <2>1, <2>2 DEF UploadKnows, Knows
  <2>4. ASSUME NEW d \in Copy, NEW i \in Slots(d)
        PROVE  UploadKnows(d, uploads[d][i])'
    <3>1. CASE uploads'[d][i] = uploads[d][i]
      <4>1. UploadKnows(d, uploads[d][i])
        BY DEF IInv, Order, UploadsKnow
      <4>2. QED
        BY <1>6, <3>1, <4>1
    <3>2. CASE d = c /\ uploads'[d][i] = u
      BY <2>3, <3>2
    <3>3. QED
      BY <1>5, <3>1, <3>2
  <2>5. QED
    BY <1>5, <2>4 DEF UploadsKnow
<1>8. \A d \in Copy : \A i \in Slots(d) :
        /\ uploads'[d][i].body = uploads[d][i].body
        /\ uploads'[d][i].at = "queued" => uploads[d][i].at = "queued"
  BY <1>1, <1>5
<1>9. SlotIsBody'
  <2>1. ASSUME NEW d \in Copy, NEW i \in Slots(d), NEW m \in late \union {backup'},
               m.nonce = Sent(d, i).nonce
        PROVE  m = Sent(d, i) /\ uploads[d][i].at # "queued"
    <3>1. CASE m \in late \union {backup}
      BY <2>1, <3>1 DEF IInv, Nonces, SlotIsBody
    <3>2. CASE m = body
      <4>1. d = c /\ i = 1
        BY <1>1, <2>1, <3>2 DEF IInv, Nonces, OneSlot, Sent
      <4>2. QED
        BY <1>1, <3>2, <4>1 DEF Sent
    <3>3. QED
      BY <1>3, <2>1, <3>1, <3>2 DEF Written
  <2>2. \A d \in Copy : \A i \in Slots(d) : Sent(d, i).nonce \in Ids
    BY DEF IInv, Nonces, SlotIsBody
  <2>3. ASSUME NEW d \in Copy, NEW i \in Slots(d)
        PROVE  /\ Sent(d, i)'.nonce \in Ids
               /\ \A m \in late \union {backup'} : m.nonce = Sent(d, i)'.nonce =>
                    m = Sent(d, i)' /\ uploads'[d][i].at # "queued"
    BY <1>8, <2>1, <2>2 DEF Sent
  <2>4. QED
    BY <1>5, <2>3 DEF SlotIsBody
<1>10. OneBody'
  <2>1. \A m \in late \union {backup} : m.nonce = body.nonce => m = body
    BY <1>1 DEF IInv, Nonces, SlotIsBody, Sent
  <2>2. QED
    BY <1>3, <2>1 DEF IInv, Nonces, OneBody, Written
<1>11. QED
  BY <1>4, <1>6, <1>7, <1>9, <1>10 DEF Order, Nonces

\* Or about one that nobody waits for any more.
LEMMA ArriveStep ==
  ASSUME IInv, NEW m \in late, Put(m), late' = late \ {m},
         content' = content, version' = version, saved' = saved, uploads' = uploads
  PROVE  Order' /\ Nonces'
<1>1. m \in Body /\ InTime(m)
  BY DEF IInv, Order, TypeOK, LateKnows
<1>2. Written(m) \/ backup' = backup
  BY <1>1, PutWrites DEF IInv
<1>3. /\ CopiesKnow' /\ LateKnows'
      /\ \A d \in Copy : \A i \in Slots(d) : UploadKnows(d, uploads[d][i]) =>
           \A w : w = uploads[d][i] => UploadKnows(d, w)'
  BY <1>1, <1>2, WritesOrder
<1>4. Ordered' /\ OneSlot'
  BY DEF IInv, Order, Nonces, Ordered, OneSlot, Slots, Sent
<1>5. UploadsKnow'
  <2>1. ASSUME NEW d \in Copy, NEW i \in Slots(d)
        PROVE  UploadKnows(d, uploads[d][i])'
    <3>1. UploadKnows(d, uploads[d][i])
      BY DEF IInv, Order, UploadsKnow
    <3>2. QED
      BY <1>3, <3>1
  <2>2. QED
    BY <2>1 DEF UploadsKnow, Slots
<1>6. backup' \in late \union {backup}
  BY <1>2 DEF Written
<1>7. SlotIsBody' /\ OneBody'
  BY <1>6 DEF IInv, Nonces, SlotIsBody, OneBody, Slots, Sent
<1>8. QED
  BY <1>3, <1>4, <1>5, <1>7 DEF Order, Nonces

\* A daemon ends, and its uploads with it: of the request that runs the relay may hear.
LEMMA CrashStep ==
  ASSUME IInv, NEW c \in Copy, uploads' = [uploads EXCEPT ![c] = <<>>],
         version' = [version EXCEPT ![c] = saved[c]],
         late' = IF Upcoming(c, "sent") THEN late \union {Head(uploads[c]).body} ELSE late,
         content' = content, saved' = saved, backup' = backup
  PROVE  Order' /\ Nonces'
<1>1. /\ uploads'[c] = <<>> /\ Slots(c)' = {}
      /\ \A d \in Copy : d # c => uploads'[d] = uploads[d] /\ Slots(d)' = Slots(d)
      /\ version'[c] = saved[c]
      /\ \A d \in Copy : d # c => version'[d] = version[d]
  BY DEF IInv, TypeOK, Slots
<1>2. Ordered'
  BY <1>1 DEF IInv, Order, Ordered, Sent
<1>3. CopiesKnow'
  BY <1>1 DEF IInv, Order, CopiesKnow, Knows
<1>4. UploadsKnow'
  BY <1>1 DEF IInv, Order, UploadsKnow, UploadKnows, Knows
<1>5. OneSlot'
  BY <1>1 DEF IInv, Nonces, OneSlot, Sent
<1>6. CASE ~Upcoming(c, "sent")
  BY <1>1, <1>2, <1>3, <1>4, <1>5, <1>6 DEF IInv, Order, Nonces, LateKnows, InTime, SlotIsBody,
     OneBody, Sent
<1>7. CASE Upcoming(c, "sent")
  <2>1. Head(uploads[c]).body = Sent(c, 1) /\ 1 \in Slots(c)
    BY <1>7, HeadIsFirst DEF IInv, Sent
  <2>2. InTime(Sent(c, 1))
    BY <1>7, SentInTime DEF Sent
  <2>3. LateKnows'
    BY <1>7, <2>1, <2>2 DEF IInv, Order, LateKnows, InTime
  <2>4. /\ Sent(c, 1).nonce \in Ids
        /\ \A m \in late \union {backup} : m.nonce = Sent(c, 1).nonce => m = Sent(c, 1)
    BY <2>1 DEF IInv, Nonces, SlotIsBody
  <2>5. OneBody'
    BY <1>7, <2>1, <2>4 DEF IInv, Nonces, OneBody
  <2>6. \A d \in Copy : d # c => \A i \in Slots(d) : Sent(d, i).nonce # Sent(c, 1).nonce
    BY <2>1 DEF IInv, Nonces, OneSlot
  <2>7. SlotIsBody'
    BY <1>1, <1>7, <2>1, <2>6 DEF IInv, Nonces, SlotIsBody, Sent
  <2>8. QED
    BY <1>2, <1>3, <1>4, <1>5, <2>3, <2>5, <2>7 DEF Order, Nonces
<1>8. QED
  BY <1>6, <1>7

\* A copy is replaced by what the relay has.
LEMMA RestoreStep ==
  ASSUME IInv, NEW c \in Copy, uploads[c] = <<>>,
         content' = [content EXCEPT ![c] = backup.content],
         version' = [version EXCEPT ![c] = backup.version],
         saved' = [saved EXCEPT ![c] = backup.version],
         uploads' = uploads, backup' = backup, late' = late
  PROVE  Order' /\ Nonces'
<1>1. /\ Slots(c) = {} /\ backup.version \in Nat
      /\ content'[c] = backup.content /\ version'[c] = backup.version
      /\ saved'[c] = backup.version
      /\ \A d \in Copy : d # c => /\ content'[d] = content[d] /\ version'[d] = version[d]
                                /\ saved'[d] = saved[d]
  BY DEF IInv, TypeOK, Slots, Body
<1>2. \A d \in Copy : Slots(d)' = Slots(d)
  BY DEF Slots
<1>3. Ordered'
  BY <1>1, <1>2 DEF IInv, Order, Ordered, Sent
<1>4. CopiesKnow'
  BY <1>1 DEF IInv, Order, CopiesKnow, Knows
<1>5. UploadsKnow'
  BY <1>1, <1>2 DEF IInv, Order, UploadsKnow, UploadKnows, Knows
<1>6. LateKnows' /\ Nonces'
  BY DEF IInv, Order, Nonces, LateKnows, InTime, OneSlot, SlotIsBody, OneBody, Slots, Sent
<1>7. QED
  BY <1>3, <1>4, <1>5, <1>6 DEF Order

-----------------------------------------------------------------------------
(* Types.                                                                  *)

LEMMA Counters ==
  ASSUME TypeOK
  PROVE  /\ Requested => requests' \in Nat
         /\ Failure => failures' \in Nat
         /\ Loss => losses' \in Nat
BY DEF TypeOK, Requested, Failure, Loss

LEMMA UserTypes ==
  ASSUME TypeOK, IdsLeft, NEW c \in Copy, UserStep(c)
  PROVE  TypeOK'
<1>1. ASSUME NEW e \in Edit, MakeEdit(c, e) PROVE TypeOK'
  BY <1>1 DEF TypeOK, MakeEdit, relay, bounds
<1>2. ASSUME NEW r \in {"sync", "on", "off"}, Ask(c, r) PROVE TypeOK'
  BY <1>2, Counters DEF TypeOK, Ask, copies, relay
<1>3. CASE ConfirmShard7Saved(c)
  BY <1>3 DEF TypeOK, ConfirmShard7Saved, daemon, relay, bounds
<1>4. CASE Lock(c)
  <2>1. /\ instance' \in [Copy -> Ids \union {NoId}] /\ uploads' \in [Copy -> Seq(Upload)]
        /\ request' \in [Copy -> {"none", "sync", "on", "off", "wait"}]
    <3>1. CASE c \in cloud
      <4>1. SyncBackup(c, "request") /\ request' = [request EXCEPT ![c] = "wait"]
        BY <1>4, <3>1 DEF Lock
      <4>2. QED
        BY <4>1, SyncAppends DEF TypeOK, Appended
    <3>2. CASE c \notin cloud
      BY <1>4, <3>2 DEF TypeOK, Lock
    <3>3. QED
      BY <3>1, <3>2
  <2>2. QED
    BY <1>4, <2>1, Counters DEF TypeOK, Lock, relay
<1>5. CASE Unlock(c)
  <2>1. version' \in [Copy -> Nat] /\ saved' \in [Copy -> Nat]
    BY <1>5 DEF TypeOK, Unlock, Body
  <2>2. QED
    BY <1>5, <2>1 DEF TypeOK, Unlock, relay, bounds
<1>6. CASE Restore(c)
  <2>1. backup.version \in Nat /\ backup.content \in SUBSET Edit
    BY DEF TypeOK, Body
  <2>2. QED
    BY <1>6, <2>1, Counters DEF TypeOK, Restore, RestoreAs, relay
<1>7. QED
  BY <1>1, <1>2, <1>3, <1>4, <1>5, <1>6 DEF UserStep

LEMMA ServeTypes ==
  ASSUME TypeOK, IdsLeft, NEW c \in Copy, ServeStep(c)
  PROVE  TypeOK'
<1>1. CASE SyncByHand(c)
  <2>1. /\ instance' \in [Copy -> Ids \union {NoId}] /\ uploads' \in [Copy -> Seq(Upload)]
        /\ request' \in [Copy -> {"none", "sync", "on", "off", "wait"}]
    <3>1. CASE c \in cloud
      <4>1. SyncBackup(c, "request") /\ request' = [request EXCEPT ![c] = "wait"]
        BY <1>1, <3>1 DEF SyncByHand
      <4>2. QED
        BY <4>1, SyncAppends DEF TypeOK, Appended
    <3>2. CASE c \notin cloud
      BY <1>1, <3>2 DEF TypeOK, SyncByHand
    <3>3. QED
      BY <3>1, <3>2
  <2>2. QED
    BY <1>1, <2>1 DEF TypeOK, SyncByHand, relay, bounds
<1>2. CASE SetCloudBackup(c)
  <2>1. cloud' \subseteq Copy /\ dirty' \subseteq Copy
    BY <1>2 DEF TypeOK, SetCloudBackup
  <2>2. QED
    BY <1>2, <2>1 DEF TypeOK, SetCloudBackup, relay, bounds
<1>3. QED
  BY <1>1, <1>2 DEF ServeStep

LEMMA UploadTypes ==
  ASSUME IInv, IdsLeft, NEW c \in Copy, UploadStep(c)
  PROVE  TypeOK'
<1> USE DEF IInv
<1>1. CASE Timer(c)
  <2>1. instance' \in [Copy -> Ids \union {NoId}] /\ uploads' \in [Copy -> Seq(Upload)]
    BY <1>1, SyncAppends DEF Timer, Appended
  <2>2. QED
    BY <1>1, <2>1 DEF TypeOK, Timer, relay, bounds
<1>2. CASE Begin(c)
  <2>1. /\ uploads' \in [Copy -> Seq(Upload)] /\ dirty' \subseteq Copy
        /\ request' \in [Copy -> {"none", "sync", "on", "off", "wait"}]
    <3>1. CASE c \in cloud
      <4>1. Head(uploads[c]) \in Upload /\ version[c] + 1 \in Nat
        BY <1>2, HeadIsFirst DEF Begin, TypeOK
      <4>2. [Head(uploads[c]) EXCEPT !.at = "sent", !.body.version = NextVersion(c)] \in Upload
        BY <4>1 DEF Upload, Body, Progress, NextVersion
      <4>3. QED
        BY <1>2, <3>1, <4>2, StepHeadReplaces DEF Begin, Replaced, TypeOK
    <3>2. CASE c \notin cloud
      BY <1>2, <3>2, SettleDrops DEF Begin, Dropped
    <3>3. QED
      BY <3>1, <3>2
  <2>2. QED
    BY <1>2, <2>1 DEF TypeOK, Begin, copies, relay, bounds
<1>3. CASE PutHead(c)
  <2>1. Head(uploads[c]) = uploads[c][1] /\ uploads[c][1] \in Upload
    BY <1>3, HeadIsFirst DEF PutHead
  <2>2. uploads[c][1].body \in Body /\ InTime(uploads[c][1].body)
    BY <1>3, SentInTime DEF PutHead
  <2>3. backup' \in Body /\ lock' \in Ids \union {NoId}
    BY <1>3, <2>1, <2>2, PutWrites DEF PutHead
  <2>4. [Head(uploads[c]) EXCEPT !.at = IF Accepts(Head(uploads[c]).body) THEN "ok" ELSE "refused"]
          \in Upload
    BY <2>1 DEF Upload, Progress
  <2>5. uploads' \in [Copy -> Seq(Upload)]
    BY <1>3, <2>4, StepHeadReplaces DEF PutHead, Replaced
  <2>6. QED
    BY <1>3, <2>3, <2>5 DEF TypeOK, PutHead, copies, bounds
<1>4. CASE Answered(c)
  <2>1. Head(uploads[c]) \in Upload
    BY <1>4, HeadIsFirst DEF Answered
  <2>2. [Head(uploads[c]) EXCEPT !.at = "saving"] \in Upload
        /\ Head(uploads[c]).body.version \in Nat
    BY <2>1 DEF Upload, Progress, Body
  <2>3. uploads' \in [Copy -> Seq(Upload)]
    BY <1>4, <2>2, StepHeadReplaces DEF Answered, Replaced
  <2>4. QED
    BY <1>4, <2>2, <2>3 DEF TypeOK, Answered, relay, bounds
<1>5. CASE SaveConfig(c)
  <2>1. /\ uploads' \in [Copy -> Seq(Upload)] /\ dirty' \subseteq Copy
        /\ request' \in [Copy -> {"none", "sync", "on", "off", "wait"}]
    BY <1>5, SettleDrops DEF SaveConfig, Dropped
  <2>2. QED
    BY <1>5, <2>1 DEF TypeOK, SaveConfig, relay, bounds
<1>6. CASE Refused(c)
  <2>1. /\ uploads' \in [Copy -> Seq(Upload)] /\ dirty' \subseteq Copy
        /\ request' \in [Copy -> {"none", "sync", "on", "off", "wait"}]
    BY <1>6, SettleDrops DEF Refused, Dropped
  <2>2. QED
    BY <1>6, <2>1 DEF TypeOK, Refused, copies, relay, bounds
<1>7. QED
  BY <1>1, <1>2, <1>3, <1>4, <1>5, <1>6 DEF UploadStep

LEMMA FaultTypes ==
  ASSUME TypeOK, NEW c \in Copy, FaultStep(c)
  PROVE  TypeOK'
<1>1. ASSUME NEW p, Upcoming(c, p)
      PROVE  /\ [Head(uploads[c]) EXCEPT !.at = "refused"] \in Upload
             /\ Head(uploads[c]).body \in Body
  <2>1. Head(uploads[c]) \in Upload
    BY <1>1, HeadIsFirst
  <2>2. QED
    BY <2>1 DEF Upload, Progress
<1>2. ASSUME NEW p, Upcoming(c, p), StepHead(c, [Head(uploads[c]) EXCEPT !.at = "refused"])
      PROVE  uploads' \in [Copy -> Seq(Upload)]
  BY <1>1, <1>2, StepHeadReplaces DEF Replaced
<1>3. CASE Unreached(c)
  BY <1>2, <1>3, Counters DEF TypeOK, Unreached, copies, relay
<1>4. CASE TimeOut(c)
  BY <1>1, <1>2, <1>4, Counters DEF TypeOK, TimeOut, copies, relay
<1>5. CASE AnswerLost(c)
  <2>1. uploads' \in [Copy -> Seq(Upload)] /\ late' \subseteq Body
    BY <1>1, <1>2, <1>5 DEF TypeOK, AnswerLost
  <2>2. QED
    BY <1>5, <2>1, Counters DEF TypeOK, AnswerLost, copies, relay
<1>6. CASE Crash(c)
  <2>1. late' \subseteq Body
    BY <1>1, <1>6 DEF TypeOK, Crash
  <2>2. uploads' \in [Copy -> Seq(Upload)] /\ version' \in [Copy -> Nat]
    BY <1>6 DEF TypeOK, Crash
  <2>3. QED
    BY <1>6, <2>1, <2>2, Counters DEF TypeOK, Crash, relay
<1>7. QED
  BY <1>3, <1>4, <1>5, <1>6 DEF FaultStep

-----------------------------------------------------------------------------
(* The invariant, action by action.                                        *)

LEMMA UserKeeps ==
  ASSUME IInv, IdsLeft, NEW c \in Copy, UserStep(c)
  PROVE  IInv'
<1> USE DEF copies, daemon, relay, bounds
<1>1. TypeOK'
  BY UserTypes DEF IInv
<1>2. StaysExternal'
  BY DEF IInv, StaysExternal, UserStep, MakeEdit, Ask, ConfirmShard7Saved, Lock, Unlock, Restore,
     RestoreAs
<1>  SUFFICES Order' /\ Nonces'
  BY <1>1, <1>2 DEF IInv
<1>3. version \in [Copy -> Nat] /\ saved \in [Copy -> Nat] /\ content \in [Copy -> SUBSET Edit]
  BY DEF IInv, TypeOK
<1>4. ASSUME NEW e \in Edit, MakeEdit(c, e) PROVE Order' /\ Nonces'
  BY <1>3, <1>4, QuietStep DEF MakeEdit
<1>5. ASSUME NEW r \in {"sync", "on", "off"}, Ask(c, r) PROVE Order' /\ Nonces'
  BY <1>5, QuietStep DEF Ask
<1>6. CASE ConfirmShard7Saved(c)
  BY <1>3, <1>6, QuietStep DEF ConfirmShard7Saved
<1>7. CASE Lock(c)
  <2>1. CASE c \in cloud
    <3>1. PICK u : Snapshot(c, u) /\ Appended(c, u)
      BY <1>7, <2>1, SyncAppends DEF IInv, Lock
    <3>2. QED
      BY <1>7, <3>1, AppendStep DEF Lock
  <2>2. CASE c \notin cloud
    BY <1>7, <2>2, QuietStep DEF Lock
  <2>3. QED
    BY <2>1, <2>2
<1>8. CASE Unlock(c)
  <2>1. c \in external
    BY <1>8 DEF IInv, StaysExternal, Unlock
  <2>2. QED
    BY <1>8, <2>1, QuietStep DEF Unlock
<1>9. CASE Restore(c)
  BY <1>9, RestoreStep DEF Restore, RestoreAs
<1>10. QED
  BY <1>4, <1>5, <1>6, <1>7, <1>8, <1>9 DEF UserStep

LEMMA ServeKeeps ==
  ASSUME IInv, IdsLeft, NEW c \in Copy, ServeStep(c)
  PROVE  IInv'
<1> USE DEF copies, daemon, relay, bounds
<1>1. TypeOK'
  BY ServeTypes DEF IInv
<1>2. StaysExternal'
  BY DEF IInv, StaysExternal, ServeStep, SyncByHand, SetCloudBackup
<1>  SUFFICES Order' /\ Nonces'
  BY <1>1, <1>2 DEF IInv
<1>3. version \in [Copy -> Nat] /\ saved \in [Copy -> Nat]
  BY DEF IInv, TypeOK
<1>4. CASE SyncByHand(c)
  <2>1. CASE c \in cloud
    <3>1. PICK u : Snapshot(c, u) /\ Appended(c, u)
      BY <1>4, <2>1, SyncAppends DEF IInv, SyncByHand
    <3>2. QED
      BY <1>4, <3>1, AppendStep DEF SyncByHand
  <2>2. CASE c \notin cloud
    BY <1>4, <2>2, QuietStep DEF SyncByHand
  <2>3. QED
    BY <2>1, <2>2
<1>5. CASE SetCloudBackup(c)
  BY <1>3, <1>5, QuietStep DEF SetCloudBackup
<1>6. QED
  BY <1>4, <1>5 DEF ServeStep

LEMMA UploadKeeps ==
  ASSUME IInv, IdsLeft, NEW c \in Copy, UploadStep(c)
  PROVE  IInv'
<1> USE DEF copies, daemon, relay, bounds
<1>1. TypeOK'
  BY UploadTypes
<1>2. StaysExternal'
  BY DEF IInv, StaysExternal, UploadStep, Timer, Begin, PutHead, Answered, SaveConfig, Refused
<1>  SUFFICES Order' /\ Nonces'
  BY <1>1, <1>2 DEF IInv
<1>3. version \in [Copy -> Nat] /\ saved \in [Copy -> Nat] /\ TypeOK
  BY DEF IInv, TypeOK
<1>4. CASE Timer(c)
  <2>1. PICK u : Snapshot(c, u) /\ Appended(c, u)
    BY <1>3, <1>4, SyncAppends DEF Timer
  <2>2. QED
    BY <1>4, <2>1, AppendStep DEF Timer
<1>5. CASE Begin(c)
  <2>1. CASE c \in cloud
    <3>1. Head(uploads[c]) = uploads[c][1] /\ uploads[c][1] \in Upload
      BY <1>3, <1>5, HeadIsFirst DEF Begin
    <3> DEFINE u == [Head(uploads[c]) EXCEPT !.at = "sent", !.body.version = NextVersion(c)]
    <3>2. u.at = "sent" /\ u.body = [uploads[c][1].body EXCEPT !.version = version[c] + 1]
      BY <3>1 DEF Upload, NextVersion
    <3>3. u \in Upload
      <4>1. Head(uploads[c]) \in Upload /\ version[c] + 1 \in Nat
        BY <1>3, <3>1
      <4>2. QED
        BY <4>1 DEF Upload, Body, Progress, NextVersion
    <3>4. Replaced(c, u)
      BY <1>3, <1>5, <2>1, <3>3, StepHeadReplaces DEF Begin
    <3> HIDE DEF u
    <3>5. QED
      BY <1>5, <3>2, <3>4, BeginStep DEF Begin
  <2>2. CASE c \notin cloud
    BY <1>3, <1>5, <2>2, SettleDrops, DropStep DEF Begin
  <2>3. QED
    BY <2>1, <2>2
<1>6. CASE PutHead(c)
  <2>1. Head(uploads[c]) = uploads[c][1] /\ uploads[c][1] \in Upload
    BY <1>3, <1>6, HeadIsFirst DEF PutHead
  <2> DEFINE u == [Head(uploads[c]) EXCEPT
                     !.at = IF Accepts(Head(uploads[c]).body) THEN "ok" ELSE "refused"]
  <2>2. /\ u \in Upload /\ u.body = uploads[c][1].body
        /\ u.at = IF Accepts(uploads[c][1].body) THEN "ok" ELSE "refused"
    BY <2>1 DEF Upload, Progress
  <2>3. Replaced(c, u)
    BY <1>3, <1>6, <2>2, StepHeadReplaces DEF PutHead
  <2> HIDE DEF u
  <2>4. QED
    BY <1>6, <2>1, <2>2, <2>3, PutStep DEF PutHead
<1>7. CASE Answered(c)
  <2>1. Head(uploads[c]) = uploads[c][1] /\ uploads[c][1] \in Upload
    BY <1>3, <1>7, HeadIsFirst DEF Answered
  <2> DEFINE u == [Head(uploads[c]) EXCEPT !.at = "saving"]
  <2>2. u \in Upload /\ u.body = uploads[c][1].body /\ u.at = "saving"
    BY <2>1 DEF Upload, Progress
  <2>3. Replaced(c, u)
    BY <1>3, <1>7, <2>2, StepHeadReplaces DEF Answered
  <2> HIDE DEF u
  <2>4. QED
    BY <1>7, <2>1, <2>2, <2>3, AnsweredStep DEF Answered
<1>8. CASE SaveConfig(c)
  BY <1>3, <1>8, SettleDrops, DropStep DEF SaveConfig
<1>9. CASE Refused(c)
  BY <1>3, <1>9, SettleDrops, DropStep DEF Refused
<1>10. QED
  BY <1>4, <1>5, <1>6, <1>7, <1>8, <1>9 DEF UploadStep

LEMMA FaultKeeps ==
  ASSUME IInv, NEW c \in Copy, FaultStep(c)
  PROVE  IInv'
<1> USE DEF copies, daemon, relay, bounds
<1>1. TypeOK'
  BY FaultTypes DEF IInv
<1>2. StaysExternal'
  BY DEF IInv, StaysExternal, FaultStep, Unreached, TimeOut, AnswerLost, Crash
<1>  SUFFICES Order' /\ Nonces'
  BY <1>1, <1>2 DEF IInv
<1>3. TypeOK
  BY DEF IInv
<1> DEFINE u == [Head(uploads[c]) EXCEPT !.at = "refused"]
<1>4. ASSUME NEW p, Upcoming(c, p)
      PROVE  /\ Head(uploads[c]) = uploads[c][1] /\ uploads[c][1] \in Upload
             /\ uploads[c][1].at = p
             /\ u \in Upload /\ u.at = "refused" /\ u.body = uploads[c][1].body
             /\ StepHead(c, u) => Replaced(c, u)
  <2>1. /\ Head(uploads[c]) = uploads[c][1] /\ uploads[c][1] \in Upload
        /\ uploads[c][1].at = p
    BY <1>3, <1>4, HeadIsFirst
  <2>2. u \in Upload /\ u.at = "refused" /\ u.body = uploads[c][1].body
    BY <2>1 DEF Upload, Progress
  <2>3. StepHead(c, u) => Replaced(c, u)
    BY <1>3, <1>4, <2>2, StepHeadReplaces
  <2>4. QED
    BY <2>1, <2>2, <2>3
<1>5. CASE Unreached(c)
  <2>1. Upcoming(c, "sent") /\ StepHead(c, u)
    BY <1>5 DEF Unreached
  <2> HIDE DEF u
  <2>2. QED
    BY <1>4, <1>5, <2>1, LooseStep DEF Unreached
<1>6. CASE TimeOut(c)
  <2>1. Upcoming(c, "sent") /\ StepHead(c, u)
    BY <1>6 DEF TimeOut
  <2> HIDE DEF u
  <2>2. QED
    BY <1>4, <1>6, <2>1, LooseStep DEF TimeOut
<1>7. CASE AnswerLost(c)
  <2>1. Upcoming(c, "ok")
    BY <1>7 DEF AnswerLost
  <2>2. CASE StepHead(c, u) /\ UNCHANGED late
    <3> HIDE DEF u
    <3>1. QED
      BY <1>4, <1>7, <2>1, <2>2, LooseStep DEF AnswerLost
  <2>3. CASE late' = late \union {Head(uploads[c]).body} /\ UNCHANGED uploads
    <3>1. Replaced(c, uploads[c][1])
      BY <1>3, <2>1, <2>3, HeadIsFirst DEF Replaced, OthersSame, TypeOK
    <3>2. QED
      BY <1>4, <1>7, <2>1, <2>3, <3>1, LooseStep DEF AnswerLost
  <2>4. QED
    BY <1>7, <2>2, <2>3 DEF AnswerLost
<1>8. CASE Crash(c)
  BY <1>8, CrashStep DEF Crash
<1>9. QED
  BY <1>5, <1>6, <1>7, <1>8 DEF FaultStep

LEMMA ArriveKeeps ==
  ASSUME IInv, NEW m \in late, ArriveLate(m)
  PROVE  IInv'
<1> USE DEF copies, daemon, bounds
<1>1. m \in Body /\ InTime(m)
  BY DEF IInv, Order, TypeOK, LateKnows
<1>2. backup' \in Body /\ lock' \in Ids \union {NoId}
  BY <1>1, PutWrites DEF IInv, ArriveLate
<1>3. TypeOK'
  BY <1>2 DEF IInv, TypeOK, ArriveLate
<1>4. StaysExternal'
  BY DEF IInv, StaysExternal, ArriveLate
<1>5. Order' /\ Nonces'
  BY ArriveStep DEF ArriveLate
<1>6. QED
  BY <1>3, <1>4, <1>5 DEF IInv

\* What changes nothing keeps the invariant.
LEMMA InvariantStays ==
  ASSUME IInv, UNCHANGED vars
  PROVE  IInv'
<1>1. TypeOK' /\ StaysExternal'
  BY DEF IInv, vars, copies, daemon, relay, bounds, TypeOK, StaysExternal
<1>2. Order' /\ Nonces'
  BY QuietStep DEF IInv, TypeOK, vars, copies, daemon, relay
<1>3. QED
  BY <1>1, <1>2 DEF IInv

LEMMA InvariantStep ==
  ASSUME IInv, IdsLeft, [Next]_vars
  PROVE  IInv'
<1>1. CASE UNCHANGED vars
  BY <1>1, InvariantStays
<1>2. CASE Next
  BY <1>2, UserKeeps, ServeKeeps, UploadKeeps, FaultKeeps, ArriveKeeps DEF Next
<1>3. QED
  BY <1>1, <1>2

LEMMA InvariantInit ==
  ASSUME ~RelayBound, Init
  PROVE  IInv
<1>1. /\ backup = [content |-> {}, instance |-> NoId, proof |-> FALSE, nonce |-> NoId,
                   version |-> 0]
      /\ version = [c \in Copy |-> 0] /\ saved = version
      /\ external = {Original} /\ cloud = {}
  BY DEF Init, FirstBackup
<1>2. TypeOK
  BY <1>1, BackupAssumption DEF Init, TypeOK, Body
<1>3. StaysExternal
  BY <1>1 DEF Init, StaysExternal
<1>4. \A c \in Copy : Slots(c) = {}
  BY DEF Init, Slots
<1>5. Order
  BY <1>1, <1>4 DEF Init, Order, Ordered, CopiesKnow, Knows, UploadsKnow, LateKnows
<1>6. Nonces
  BY <1>4 DEF Init, Nonces, OneSlot, SlotIsBody, OneBody
<1>7. QED
  BY <1>2, <1>3, <1>5, <1>6 DEF IInv

-----------------------------------------------------------------------------
(* The theorems.                                                           *)

\* The invariant of a vault that opens without the relay: who believes in a version has
\* seen its content, in the database, in the file, in what waits and in what is still on
\* its way (secure-vault.ts, vault-backup.ts).
THEOREM Invariant ==
  ASSUME ~RelayBound
  PROVE  Spec /\ []IdsLeft => []IInv
<1>1. Init => IInv
  BY InvariantInit
<1>2. IInv /\ IdsLeft /\ [Next]_vars => IInv'
  BY InvariantStep
<1>3. QED
  BY <1>1, <1>2, PTL DEF Spec

\* The variables keep their types: versions only ever come from the relay or from an
\* answer.
THEOREM TypeCorrect ==
  ASSUME ~RelayBound
  PROVE  Spec /\ []IdsLeft => []TypeOK
<1>1. IInv => TypeOK
  BY DEF IInv
<1>2. QED
  BY <1>1, Invariant, PTL

LEMMA InvariantKeeps ==
  ASSUME IInv
  PROVE  CopiesKept
<1>1. CurrentIsComplete
  BY DEF IInv, TypeOK, Order, CopiesKnow, Knows, CurrentIsComplete
<1>2. ReportedIsKept
  <2>1. ASSUME NEW c \in Copy, NEW u \in Running(c), u.at \in {"ok", "saving"}
        PROVE  u.body.content \subseteq backup.content
    <3>1. uploads[c] \in Seq(Upload)
      BY DEF IInv, TypeOK
    <3>2. PICK i \in Slots(c) : u = uploads[c][i]
      BY <3>1 DEF Running, Slots
    <3>3. UploadKnows(c, u)
      BY <3>2 DEF IInv, Order, UploadsKnow
    <3>4. QED
      BY <2>1, <3>3 DEF UploadKnows
  <2>2. QED
    BY <2>1 DEF ReportedIsKept
<1>3. QED
  BY <1>1, <1>2 DEF CopiesKept

\* What a copy replaces it has seen, and what it has been told is kept is in the backup:
\* for any number of copies, whatever requests are lost, late or repeated
\* (secure-vault.ts syncBackup, vault-backup.ts).
THEOREM Kept ==
  ASSUME ~RelayBound
  PROVE  Spec /\ []IdsLeft => []CopiesKept
<1>1. IInv => CopiesKept
  BY InvariantKeeps
<1>2. QED
  BY <1>1, Invariant, PTL

\* Only a request that is in time changes the backup.
LEMMA BackupSteps ==
  ASSUME IInv, [Next]_vars
  PROVE  backup' = backup \/ \E m \in Body : Written(m)
<1> USE DEF copies, daemon, relay, bounds
<1>1. CASE UNCHANGED vars
  BY <1>1 DEF vars
<1>2. ASSUME NEW c \in Copy, UserStep(c) PROVE backup' = backup
  BY <1>2 DEF UserStep, MakeEdit, Ask, ConfirmShard7Saved, Lock, Unlock, Restore, RestoreAs
<1>3. ASSUME NEW c \in Copy, ServeStep(c) PROVE backup' = backup
  BY <1>3 DEF ServeStep, SyncByHand, SetCloudBackup
<1>4. ASSUME NEW c \in Copy, FaultStep(c) PROVE backup' = backup
  BY <1>4 DEF FaultStep, Unreached, TimeOut, AnswerLost, Crash
<1>5. ASSUME NEW c \in Copy, UploadStep(c)
      PROVE  backup' = backup \/ \E m \in Body : Written(m)
  <2>1. CASE PutHead(c)
    <3>1. Head(uploads[c]) = uploads[c][1]
      BY <2>1, HeadIsFirst DEF IInv, PutHead
    <3>2. uploads[c][1].body \in Body /\ InTime(uploads[c][1].body)
      BY <2>1, SentInTime DEF PutHead
    <3>3. Written(uploads[c][1].body) \/ backup' = backup
      BY <2>1, <3>1, <3>2, PutWrites DEF IInv, PutHead
    <3>4. QED
      BY <3>2, <3>3
  <2>2. CASE Timer(c) \/ Begin(c) \/ Answered(c) \/ SaveConfig(c) \/ Refused(c)
    BY <2>2 DEF Timer, Begin, Answered, SaveConfig, Refused
  <2>3. QED
    BY <1>5, <2>1, <2>2 DEF UploadStep
<1>6. ASSUME NEW m \in late, ArriveLate(m)
      PROVE  backup' = backup \/ \E x \in Body : Written(x)
  <2>1. m \in Body /\ InTime(m)
    BY DEF IInv, Order, TypeOK, LateKnows
  <2>2. Written(m) \/ backup' = backup
    BY <1>6, <2>1, PutWrites DEF IInv, ArriveLate
  <2>3. QED
    BY <2>1, <2>2
<1>7. QED
  BY <1>1, <1>2, <1>3, <1>4, <1>5, <1>6 DEF Next

\* The backup is the register it promises to be: every step of copies, relay and network
\* replaces it by something that contains it, under the next number, or leaves it alone
\* (vault-backup.ts put, secure-vault.ts syncBackup and restoreSecure).
THEOREM Refinement ==
  ASSUME ~RelayBound
  PROVE  Spec /\ []IdsLeft => ImplementsRegister
<1>1. Init => Register!Init
  BY DEF Init, FirstBackup, Register!Init
<1>2. IInv /\ [Next]_vars => [Register!Next]_Register!rvars
  <2>1. SUFFICES ASSUME IInv, [Next]_vars
                 PROVE  [Register!Next]_Register!rvars
    OBVIOUS
  <2>2. CASE backup' = backup
    BY <2>2 DEF Register!rvars
  <2>3. ASSUME NEW m \in Body, Written(m)
        PROVE  Register!Next
    <3>1. m.content \in SUBSET Edit
      BY DEF Body
    <3>2. Register!Replace(m.content)
      BY <2>3 DEF Written, Register!Replace
    <3>3. QED
      BY <3>1, <3>2 DEF Register!Next
  <2>4. QED
    BY <2>1, <2>2, <2>3, BackupSteps
<1>3. QED
  BY <1>1, <1>2, Invariant, PTL DEF Spec, ImplementsRegister, Register!Spec

-----------------------------------------------------------------------------
\* The proofs of the parts, for the constants and the variables of MCVaults.
PhoneP == INSTANCE PhoneVaultProofs WITH
  Password <- {p1, p2}, First <- p1, MaxWrites <- 1, MaxShards <- 2, MaxUploads <- 3,
  MaxFaults <- 1,
  root <- phoneRoot, stage <- phoneStage, row <- phoneRow, capsules <- phoneCapsules,
  open <- phoneOpen, late <- overdue, job <- phoneJob, lost <- phoneLost, faults <- phoneFaults

PartsP == INSTANCE VaultPartsProofs WITH
  Password <- {p1, p2}, First <- p1, AtRelay <- TRUE, MaxGenerations <- 3, MaxEdits <- 2,
  MaxFaults <- 1, MaxLosses <- 1,
  open <- unlocked, edits <- changes, losses <- lostAnswers,
  Id <- {v1, v2}, Remote <- {v2}, InFile <- {v2}, MaxVaults <- 3, MaxLocks <- 2, MaxSaves <- 2,
  MaxRecreates <- 1, MaxCrashes <- 1,
  wrote <- wroteTo, tally <- counts,
  Vault <- {v1, v2}, Builtin <- reg, Lan <- lan, Own <- {own}, Tunnel <- {tunnel},
  Domain <- {domain}, MaxActing <- 2, MaxSessions <- 2, MaxRoutes <- 0, MaxChanges <- 2

\* The same for a phone whose route changes.
RoutingP == INSTANCE VaultPartsProofs WITH
  Password <- {p1, p2}, First <- p1, AtRelay <- TRUE, MaxGenerations <- 3, MaxEdits <- 2,
  MaxFaults <- 1, MaxLosses <- 1,
  open <- unlocked, edits <- changes, losses <- lostAnswers,
  Id <- {v1, v2}, Remote <- {v2}, InFile <- {v2}, MaxVaults <- 3, MaxLocks <- 2, MaxSaves <- 2,
  MaxRecreates <- 1, MaxCrashes <- 1,
  wrote <- wroteTo, tally <- counts,
  Vault <- {v1, v2}, Builtin <- reg, Lan <- lan, Own <- {own}, Tunnel <- {tunnel},
  Domain <- {domain}, MaxActing <- 1, MaxSessions <- 1, MaxRoutes <- 2, MaxChanges <- 0

-----------------------------------------------------------------------------
(* An instance of a component and that of its proofs are the same.         *)

LEMMA RotationSame ==
  /\ Rotation!Init = PartsP!Init
  /\ [Rotation!Next]_(Rotation!vars) = [PartsP!Next]_(PartsP!vars)
  /\ Rotation!TypeOK = PartsP!TypeOK
  /\ Rotation!NothingLost = PartsP!NothingLost
<1> USE DEF
        Rotation!disk, PartsP!disk, Rotation!user, PartsP!user, Rotation!history, PartsP!history,
        Rotation!counts, PartsP!counts, Rotation!vars, PartsP!vars, Rotation!NoDir, PartsP!NoDir,
        Rotation!Dir, PartsP!Dir, Rotation!NoRow, PartsP!NoRow, Rotation!Row, PartsP!Row,
        Rotation!RelayHolds, PartsP!RelayHolds, Rotation!Idle, PartsP!Idle, Rotation!Step,
        PartsP!Step, Rotation!TypeOK, PartsP!TypeOK, Rotation!Init, PartsP!Init, Rotation!Opens,
        PartsP!Opens, Rotation!Ready, PartsP!Ready, Rotation!Write, PartsP!Write,
        Rotation!SaveCapsule, PartsP!SaveCapsule, Rotation!Accepted, PartsP!Accepted,
        Rotation!Backed, PartsP!Backed, Rotation!BackUp, PartsP!BackUp, Rotation!ExportStorage,
        PartsP!ExportStorage, Rotation!Lock, PartsP!Lock, Rotation!Unlock, PartsP!Unlock,
        Rotation!Begin, PartsP!Begin, Rotation!NewCapsule, PartsP!NewCapsule, Rotation!Provision,
        PartsP!Provision, Rotation!RotationSteps, PartsP!RotationSteps, Rotation!SwitchSteps,
        PartsP!SwitchSteps, Rotation!ChangeAtRelay, PartsP!ChangeAtRelay, Rotation!ChangeWithFile,
        PartsP!ChangeWithFile, Rotation!Restore, PartsP!Restore, Rotation!ImportStorage,
        PartsP!ImportStorage, Rotation!At, PartsP!At, Rotation!Done, PartsP!Done,
        Rotation!SyncOld, PartsP!SyncOld, Rotation!NewRow, PartsP!NewRow, Rotation!PutNew,
        PartsP!PutNew, Rotation!DeleteOld, PartsP!DeleteOld, Rotation!Kept, PartsP!Kept,
        Rotation!MoveAside, PartsP!MoveAside, Rotation!Switch, PartsP!Switch, Rotation!UnlockNew,
        PartsP!UnlockNew, Rotation!Answer, PartsP!Answer, Rotation!Fault, PartsP!Fault,
        Rotation!Loss, PartsP!Loss, Rotation!Fail, PartsP!Fail, Rotation!LoseRequest,
        PartsP!LoseRequest, Rotation!LoseAnswer, PartsP!LoseAnswer, Rotation!Crash, PartsP!Crash,
        Rotation!Next, PartsP!Next, Rotation!Readable, PartsP!Readable, Rotation!Unsaved,
        PartsP!Unsaved, Rotation!NothingLost, PartsP!NothingLost
<1>1. Rotation!Init = PartsP!Init
  OBVIOUS
<1>2. [Rotation!Next]_(Rotation!vars) = [PartsP!Next]_(PartsP!vars)
  OBVIOUS
<1>3. Rotation!TypeOK = PartsP!TypeOK
  OBVIOUS
<1>4. Rotation!NothingLost = PartsP!NothingLost
  OBVIOUS
<1>5. QED
  BY <1>1, <1>2, <1>3, <1>4

LEMMA PhoneSame ==
  /\ Phone!Init = PhoneP!Init
  /\ [Phone!Next]_(Phone!vars) = [PhoneP!Next]_(PhoneP!vars)
  /\ Phone!TypeOK = PhoneP!TypeOK
  /\ Phone!NothingLost = PhoneP!NothingLost
  /\ Phone!CleanIsUploaded = PhoneP!CleanIsUploaded
<1> USE DEF
        Phone!disk, PhoneP!disk, Phone!memory, PhoneP!memory, Phone!net, PhoneP!net,
        Phone!history, PhoneP!history, Phone!vars, PhoneP!vars, Phone!Never, PhoneP!Never,
        Phone!NoDir, PhoneP!NoDir, Phone!Dir, PhoneP!Dir, Phone!NoRow, PhoneP!NoRow, Phone!Row,
        PhoneP!Row, Phone!Prepared, PhoneP!Prepared, Phone!NoUpload, PhoneP!NoUpload, Phone!Idle,
        PhoneP!Idle, Phone!Step, PhoneP!Step, Phone!TypeOK, PhoneP!TypeOK, Phone!Init,
        PhoneP!Init, Phone!Ready, PhoneP!Ready, Phone!Staled, PhoneP!Staled, Phone!Write,
        PhoneP!Write, Phone!WriteQuietly, PhoneP!WriteQuietly, Phone!Drained, PhoneP!Drained,
        Phone!SetCloud, PhoneP!SetCloud, Phone!SaveSegment, PhoneP!SaveSegment, Phone!Fault,
        PhoneP!Fault, Phone!Snapshot, PhoneP!Snapshot, Phone!Skips, PhoneP!Skips, Phone!RunBackup,
        PhoneP!RunBackup, Phone!Numbered, PhoneP!Numbered, Phone!BeginUpload, PhoneP!BeginUpload,
        Phone!Accepts, PhoneP!Accepts, Phone!Stored, PhoneP!Stored, Phone!RowAfter,
        PhoneP!RowAfter, Phone!ServeUpload, PhoneP!ServeUpload, Phone!ServeLate, PhoneP!ServeLate,
        Phone!GivenUp, PhoneP!GivenUp, Phone!LoseUpload, PhoneP!LoseUpload, Phone!Unchanged,
        PhoneP!Unchanged, Phone!Recorded, PhoneP!Recorded, Phone!EndUpload, PhoneP!EndUpload,
        Phone!Reschedule, PhoneP!Reschedule, Phone!LockSteps, PhoneP!LockSteps, Phone!CommitSteps,
        PhoneP!CommitSteps, Phone!RecoverSteps, PhoneP!RecoverSteps, Phone!Begin, PhoneP!Begin,
        Phone!Sync, PhoneP!Sync, Phone!Lock, PhoneP!Lock, Phone!ChangePassword,
        PhoneP!ChangePassword, Phone!Opens, PhoneP!Opens, Phone!Opened, PhoneP!Opened,
        Phone!Unlock, PhoneP!Unlock, Phone!Doing, PhoneP!Doing, Phone!Advance, PhoneP!Advance,
        Phone!Stop, PhoneP!Stop, Phone!ContinueWith, PhoneP!ContinueWith, Phone!Drain,
        PhoneP!Drain, Phone!Upload, PhoneP!Upload, Phone!CopyTree, PhoneP!CopyTree, Phone!Put,
        PhoneP!Put, Phone!Deletes, PhoneP!Deletes, Phone!Delete, PhoneP!Delete, Phone!Undo,
        PhoneP!Undo, Phone!Journal, PhoneP!Journal, Phone!Aside, PhoneP!Aside, Phone!Switch,
        PhoneP!Switch, Phone!Settle, PhoneP!Settle, Phone!Open, PhoneP!Open, Phone!Answer,
        PhoneP!Answer, Phone!Crash, PhoneP!Crash, Phone!Next, PhoneP!Next, Phone!Recovered,
        PhoneP!Recovered, Phone!Unsaved, PhoneP!Unsaved, Phone!NothingLost, PhoneP!NothingLost,
        Phone!CleanIsUploaded, PhoneP!CleanIsUploaded
<1>1. Phone!Init = PhoneP!Init
  OBVIOUS
<1>2. [Phone!Next]_(Phone!vars) = [PhoneP!Next]_(PhoneP!vars)
  OBVIOUS
<1>3. Phone!TypeOK = PhoneP!TypeOK
  OBVIOUS
<1>4. Phone!NothingLost = PhoneP!NothingLost
  OBVIOUS
<1>5. Phone!CleanIsUploaded = PhoneP!CleanIsUploaded
  OBVIOUS
<1>6. QED
  BY <1>1, <1>2, <1>3, <1>4, <1>5

LEMMA SetupSame ==
  /\ Setup!Init = PartsP!Setup!Init
  /\ [Setup!Next]_(Setup!vars) = [PartsP!Setup!Next]_(PartsP!Setup!vars)
  /\ Setup!TypeOK = PartsP!Setup!TypeOK
  /\ Setup!SetupKept = PartsP!Setup!SetupKept
<1> USE DEF
        Setup!Legacy, PartsP!Setup!Legacy, Setup!Handle, PartsP!Setup!Handle, Setup!disk,
        PartsP!Setup!disk, Setup!engine, PartsP!Setup!engine, Setup!activity,
        PartsP!Setup!activity, Setup!history, PartsP!Setup!history, Setup!vars, PartsP!Setup!vars,
        Setup!Unused, PartsP!Setup!Unused, Setup!Idle, PartsP!Setup!Idle, Setup!Fresh,
        PartsP!Setup!Fresh, Setup!TypeOK, PartsP!Setup!TypeOK, Setup!Init, PartsP!Setup!Init,
        Setup!Counted, PartsP!Setup!Counted, Setup!Known, PartsP!Setup!Known, Setup!Candidates,
        PartsP!Setup!Candidates, Setup!Allocated, PartsP!Setup!Allocated, Setup!Select,
        PartsP!Setup!Select, Setup!Exists, PartsP!Setup!Exists, Setup!Adopt, PartsP!Setup!Adopt,
        Setup!AtGate, PartsP!Setup!AtGate, Setup!Create, PartsP!Setup!Create, Setup!Restore,
        PartsP!Setup!Restore, Setup!Open, PartsP!Setup!Open, Setup!Import, PartsP!Setup!Import,
        Setup!Write, PartsP!Setup!Write, Setup!LockVault, PartsP!Setup!LockVault, Setup!Lock,
        PartsP!Setup!Lock, Setup!Choose, PartsP!Setup!Choose, Setup!InSession,
        PartsP!Setup!InSession, Setup!Save, PartsP!Setup!Save, Setup!Told, PartsP!Setup!Told,
        Setup!Cancel, PartsP!Setup!Cancel, Setup!Pick, PartsP!Setup!Pick, Setup!Export,
        PartsP!Setup!Export, Setup!WriteFails, PartsP!Setup!WriteFails, Setup!Confirm,
        PartsP!Setup!Confirm, Setup!ConfirmsSaved, PartsP!Setup!ConfirmsSaved, Setup!FileSaved,
        PartsP!Setup!FileSaved, Setup!Hear, PartsP!Setup!Hear, Setup!Saved, PartsP!Setup!Saved,
        Setup!Recreate, PartsP!Setup!Recreate, Setup!Dies, PartsP!Setup!Dies, Setup!Crash,
        PartsP!Setup!Crash, Setup!CrashInConfirm, PartsP!Setup!CrashInConfirm, Setup!Next,
        PartsP!Setup!Next, Setup!ListedHasSegment, PartsP!Setup!ListedHasSegment,
        Setup!WrittenCanBeOpened, PartsP!Setup!WrittenCanBeOpened, Setup!SetupKept,
        PartsP!Setup!SetupKept
<1>1. Setup!Init = PartsP!Setup!Init
  OBVIOUS
<1>2. [Setup!Next]_(Setup!vars) = [PartsP!Setup!Next]_(PartsP!Setup!vars)
  OBVIOUS
<1>3. Setup!TypeOK = PartsP!Setup!TypeOK
  OBVIOUS
<1>4. Setup!SetupKept = PartsP!Setup!SetupKept
  OBVIOUS
<1>5. QED
  BY <1>1, <1>2, <1>3, <1>4

LEMMA LinkSame ==
  /\ Link!Init = PartsP!Link!Init
  /\ [Link!Next]_(Link!vars) = [PartsP!Link!Next]_(PartsP!Link!vars)
  /\ Link!TypeOK = PartsP!Link!TypeOK
  /\ Link!LinkBelongs = PartsP!Link!LinkBelongs
<1> USE DEF
        Link!user, PartsP!Link!user, Link!route, PartsP!Link!route, Link!push, PartsP!Link!push,
        Link!retry, PartsP!Link!retry, Link!device, PartsP!Link!device, Link!direct,
        PartsP!Link!direct, Link!vars, PartsP!Link!vars, Link!Mode, PartsP!Link!Mode, Link!Route,
        PartsP!Link!Route, Link!Network, PartsP!Link!Network, Link!Counted, PartsP!Link!Counted,
        Link!TypeOK, PartsP!Link!TypeOK, Link!Init, PartsP!Link!Init, Link!Open, PartsP!Link!Open,
        Link!Direct, PartsP!Link!Direct, Link!Posts, PartsP!Link!Posts, Link!Changed,
        PartsP!Link!Changed, Link!NoCallback, PartsP!Link!NoCallback, Link!StopDirect,
        PartsP!Link!StopDirect, Link!EnsureTor, PartsP!Link!EnsureTor, Link!Available,
        PartsP!Link!Available, Link!Lost, PartsP!Link!Lost, Link!Capabilities,
        PartsP!Link!Capabilities, Link!StopPush, PartsP!Link!StopPush, Link!ClearAuth,
        PartsP!Link!ClearAuth, Link!Authenticate, PartsP!Link!Authenticate, Link!Listen,
        PartsP!Link!Listen, Link!EnsurePush, PartsP!Link!EnsurePush, Link!ScheduleReconnect,
        PartsP!Link!ScheduleReconnect, Link!Connect, PartsP!Link!Connect, Link!Reconnect,
        PartsP!Link!Reconnect, Link!TimePasses, PartsP!Link!TimePasses, Link!Renew,
        PartsP!Link!Renew, Link!Refused, PartsP!Link!Refused, Link!SocketEnds,
        PartsP!Link!SocketEnds, Link!Act, PartsP!Link!Act, Link!Task, PartsP!Link!Task,
        Link!Relisten, PartsP!Link!Relisten, Link!NetworkChanged, PartsP!Link!NetworkChanged,
        Link!Ready, PartsP!Link!Ready, Link!Retry, PartsP!Link!Retry, Link!Tick, PartsP!Link!Tick,
        Link!ServiceStarts, PartsP!Link!ServiceStarts, Link!ServiceEnds, PartsP!Link!ServiceEnds,
        Link!DeliveryStopped, PartsP!Link!DeliveryStopped, Link!Unlock, PartsP!Link!Unlock,
        Link!Lock, PartsP!Link!Lock, Link!QuickLock, PartsP!Link!QuickLock, Link!QuickUnlock,
        PartsP!Link!QuickUnlock, Link!SetMode, PartsP!Link!SetMode, Link!Trusted,
        PartsP!Link!Trusted, Link!TokenAfter, PartsP!Link!TokenAfter, Link!Configure,
        PartsP!Link!Configure, Link!ChooseRoute, PartsP!Link!ChooseRoute, Link!Discover,
        PartsP!Link!Discover, Link!LookupFails, PartsP!Link!LookupFails, Link!Found,
        PartsP!Link!Found, Link!Next, PartsP!Link!Next, Link!LinkBelongs, PartsP!Link!LinkBelongs
<1>1. Link!Init = PartsP!Link!Init
  OBVIOUS
<1>2. [Link!Next]_(Link!vars) = [PartsP!Link!Next]_(PartsP!Link!vars)
  OBVIOUS
<1>3. Link!TypeOK = PartsP!Link!TypeOK
  OBVIOUS
<1>4. Link!LinkBelongs = PartsP!Link!LinkBelongs
  OBVIOUS
<1>5. QED
  BY <1>1, <1>2, <1>3, <1>4

LEMMA RoutingSame ==
  /\ Routing!Init = RoutingP!Link!Init
  /\ [Routing!Next]_(Routing!vars) = [RoutingP!Link!Next]_(RoutingP!Link!vars)
  /\ Routing!TypeOK = RoutingP!Link!TypeOK
  /\ Routing!LinkBelongs = RoutingP!Link!LinkBelongs
<1> USE DEF
        Routing!user, RoutingP!Link!user, Routing!route, RoutingP!Link!route, Routing!push,
        RoutingP!Link!push, Routing!retry, RoutingP!Link!retry, Routing!device,
        RoutingP!Link!device, Routing!direct, RoutingP!Link!direct, Routing!vars,
        RoutingP!Link!vars, Routing!Mode, RoutingP!Link!Mode, Routing!Route, RoutingP!Link!Route,
        Routing!Network, RoutingP!Link!Network, Routing!Counted, RoutingP!Link!Counted,
        Routing!TypeOK, RoutingP!Link!TypeOK, Routing!Init, RoutingP!Link!Init, Routing!Open,
        RoutingP!Link!Open, Routing!Direct, RoutingP!Link!Direct, Routing!Posts,
        RoutingP!Link!Posts, Routing!Changed, RoutingP!Link!Changed, Routing!NoCallback,
        RoutingP!Link!NoCallback, Routing!StopDirect, RoutingP!Link!StopDirect, Routing!EnsureTor,
        RoutingP!Link!EnsureTor, Routing!Available, RoutingP!Link!Available, Routing!Lost,
        RoutingP!Link!Lost, Routing!Capabilities, RoutingP!Link!Capabilities, Routing!StopPush,
        RoutingP!Link!StopPush, Routing!ClearAuth, RoutingP!Link!ClearAuth, Routing!Authenticate,
        RoutingP!Link!Authenticate, Routing!Listen, RoutingP!Link!Listen, Routing!EnsurePush,
        RoutingP!Link!EnsurePush, Routing!ScheduleReconnect, RoutingP!Link!ScheduleReconnect,
        Routing!Connect, RoutingP!Link!Connect, Routing!Reconnect, RoutingP!Link!Reconnect,
        Routing!TimePasses, RoutingP!Link!TimePasses, Routing!Renew, RoutingP!Link!Renew,
        Routing!Refused, RoutingP!Link!Refused, Routing!SocketEnds, RoutingP!Link!SocketEnds,
        Routing!Act, RoutingP!Link!Act, Routing!Task, RoutingP!Link!Task, Routing!Relisten,
        RoutingP!Link!Relisten, Routing!NetworkChanged, RoutingP!Link!NetworkChanged,
        Routing!Ready, RoutingP!Link!Ready, Routing!Retry, RoutingP!Link!Retry, Routing!Tick,
        RoutingP!Link!Tick, Routing!ServiceStarts, RoutingP!Link!ServiceStarts,
        Routing!ServiceEnds, RoutingP!Link!ServiceEnds, Routing!DeliveryStopped,
        RoutingP!Link!DeliveryStopped, Routing!Unlock, RoutingP!Link!Unlock, Routing!Lock,
        RoutingP!Link!Lock, Routing!QuickLock, RoutingP!Link!QuickLock, Routing!QuickUnlock,
        RoutingP!Link!QuickUnlock, Routing!SetMode, RoutingP!Link!SetMode, Routing!Trusted,
        RoutingP!Link!Trusted, Routing!TokenAfter, RoutingP!Link!TokenAfter, Routing!Configure,
        RoutingP!Link!Configure, Routing!ChooseRoute, RoutingP!Link!ChooseRoute, Routing!Discover,
        RoutingP!Link!Discover, Routing!LookupFails, RoutingP!Link!LookupFails, Routing!Found,
        RoutingP!Link!Found, Routing!Next, RoutingP!Link!Next, Routing!LinkBelongs,
        RoutingP!Link!LinkBelongs
<1>1. Routing!Init = RoutingP!Link!Init
  OBVIOUS
<1>2. [Routing!Next]_(Routing!vars) = [RoutingP!Link!Next]_(RoutingP!Link!vars)
  OBVIOUS
<1>3. Routing!TypeOK = RoutingP!Link!TypeOK
  OBVIOUS
<1>4. Routing!LinkBelongs = RoutingP!Link!LinkBelongs
  OBVIOUS
<1>5. QED
  BY <1>1, <1>2, <1>3, <1>4

-----------------------------------------------------------------------------
(***************************************************************************)
(* The parts side by side.                                                 *)
(***************************************************************************)
\* The constants stand for different things where the code tells them apart: None is no
\* vault and no route, and the routes of the user's own are not those that are discovered.
Apart ==
  /\ None \notin {v1, v2} /\ None \notin {reg, lan, own, tunnel, domain}
  /\ {lan, own} \cap {reg, tunnel, domain} = {}

LEMMA SizesHold ==
  ASSUME Apart
  PROVE  /\ PhoneP!PhoneSizes /\ PartsP!RotationSizes /\ PartsP!SetupSizes
         /\ PartsP!LinkSizes /\ RoutingP!LinkSizes
<1>1. PhoneP!PhoneSizes
  BY DEF PhoneP!PhoneSizes
<1>2. PartsP!RotationSizes
  BY DEF PartsP!RotationSizes
<1>3. PartsP!SetupSizes
  BY DEF Apart, PartsP!SetupSizes
<1>4. PartsP!LinkSizes
  BY DEF Apart, PartsP!LinkSizes, PartsP!Link!Route
<1>5. RoutingP!LinkSizes
  BY DEF Apart, RoutingP!LinkSizes, RoutingP!Link!Route
<1>6. QED
  BY <1>1, <1>2, <1>3, <1>4, <1>5

PartNames == {"backup", "rotation", "phone", "setup", "link", "routing"}

\* Each part has its invariant; that of the link is of the bounds it runs with.
VaultsInv ==
  /\ part \in PartNames
  /\ PartsP!RotationInv /\ PhoneP!PhoneInv /\ PartsP!SetupInv
  /\ part = "link" => PartsP!LinkInv
  /\ part = "routing" => RoutingP!LinkInv

LEMMA VaultsInitInv == ASSUME Apart, VaultsInit PROVE VaultsInv
<1>1. PartsP!RotationInv
  BY SizesHold, RotationSame, PartsP!RotationInitInv DEF VaultsInit
<1>2. PhoneP!PhoneInv
  BY SizesHold, PhoneSame, PhoneP!PhoneInitInv DEF VaultsInit
<1>3. PartsP!SetupInv
  BY SizesHold, SetupSame, PartsP!SetupInitInv DEF VaultsInit
<1>4. PartsP!LinkInv
  BY SizesHold, LinkSame, PartsP!LinkInitInv DEF VaultsInit
<1>5. RoutingP!LinkInv
  <2>1. Link!Init => RoutingP!Link!Init
    BY DEF Link!Init, RoutingP!Link!Init
  <2>2. QED
    BY <2>1, SizesHold, RoutingP!LinkInitInv DEF VaultsInit
<1>6. QED
  BY <1>1, <1>2, <1>3, <1>4, <1>5 DEF VaultsInv, VaultsInit, PartNames

\* A step is one of the part that runs, and leaves the others as they are.
LEMMA StepOfPart ==
  ASSUME [VaultsNext]_allVars
  PROVE  /\ part' = part
         /\ [Next]_vars /\ (part # "backup" => UNCHANGED vars)
         /\ [Rotation!Next]_(Rotation!vars) /\ [Phone!Next]_(Phone!vars)
         /\ [Setup!Next]_(Setup!vars)
         /\ part = "link" => [Link!Next]_(Link!vars)
         /\ part = "routing" => [Routing!Next]_(Routing!vars)
         /\ part \notin {"link", "routing"} => UNCHANGED linkVars
<1> USE DEF BackupStep, RotationStep, PhoneStep, SetupStep, LinkStep, RoutingStep
<1>1. VaultsNext \/ UNCHANGED allVars
  OBVIOUS
<1>2. part' = part
  BY <1>1 DEF VaultsNext, Alone, allVars
<1>3. (Next \/ UNCHANGED backupVars) /\ (part # "backup" => UNCHANGED backupVars)
  BY <1>1 DEF VaultsNext, Alone, allVars
<1>4. Rotation!Next \/ UNCHANGED rotationVars
  BY <1>1 DEF VaultsNext, allVars
<1>5. Phone!Next \/ UNCHANGED phoneVars
  BY <1>1 DEF VaultsNext, allVars
<1>6. Setup!Next \/ UNCHANGED setupVars
  BY <1>1 DEF VaultsNext, allVars
<1>7. /\ part = "link" => Link!Next \/ UNCHANGED linkVars
      /\ part = "routing" => Routing!Next \/ UNCHANGED linkVars
      /\ part \notin {"link", "routing"} => UNCHANGED linkVars
  BY <1>1 DEF VaultsNext, Alone, allVars
<1>8. UNCHANGED backupVars => UNCHANGED vars
  BY DEF backupVars
<1>9. UNCHANGED rotationVars => UNCHANGED Rotation!vars
  BY DEF rotationVars, Rotation!disk, Rotation!user, Rotation!history, Rotation!counts,
     Rotation!vars
<1>10. UNCHANGED phoneVars => UNCHANGED Phone!vars
  BY DEF phoneVars, Phone!disk, Phone!memory, Phone!net, Phone!history, Phone!vars
<1>11. UNCHANGED setupVars => UNCHANGED Setup!vars
  BY DEF setupVars, Setup!disk, Setup!engine, Setup!activity, Setup!history, Setup!vars
<1>12. UNCHANGED linkVars => UNCHANGED Link!vars
  BY DEF linkVars, Link!user, Link!route, Link!push, Link!retry, Link!device, Link!direct,
     Link!vars
<1>13. UNCHANGED linkVars => UNCHANGED Routing!vars
  BY DEF linkVars, Routing!user, Routing!route, Routing!push, Routing!retry, Routing!device,
     Routing!direct, Routing!vars
<1>14. [Next]_vars /\ (part # "backup" => UNCHANGED vars)
  BY <1>3, <1>8
<1>15. [Rotation!Next]_(Rotation!vars) /\ [Phone!Next]_(Phone!vars) /\ [Setup!Next]_(Setup!vars)
  BY <1>4, <1>5, <1>6, <1>9, <1>10, <1>11
<1>16. /\ part = "link" => [Link!Next]_(Link!vars)
       /\ part = "routing" => [Routing!Next]_(Routing!vars)
  BY <1>7, <1>12, <1>13
<1>17. QED
  BY <1>2, <1>7, <1>14, <1>15, <1>16

LEMMA VaultsInvStep == ASSUME Apart, VaultsInv, [VaultsNext]_allVars PROVE VaultsInv'
<1>1. PartsP!RotationInv'
  BY SizesHold, StepOfPart, RotationSame, PartsP!RotationStep DEF VaultsInv
<1>2. PhoneP!PhoneInv'
  BY SizesHold, StepOfPart, PhoneSame, PhoneP!PhoneStep DEF VaultsInv
<1>3. PartsP!SetupInv'
  BY SizesHold, StepOfPart, SetupSame, PartsP!SetupStep DEF VaultsInv
<1>4. (part = "link" => PartsP!LinkInv)'
  BY SizesHold, StepOfPart, LinkSame, PartsP!LinkStep DEF VaultsInv
<1>5. (part = "routing" => RoutingP!LinkInv)'
  BY SizesHold, StepOfPart, RoutingSame, RoutingP!LinkStep DEF VaultsInv
<1>6. (part \in PartNames)'
  BY StepOfPart DEF VaultsInv
<1>7. QED
  BY <1>1, <1>2, <1>3, <1>4, <1>5, <1>6 DEF VaultsInv

LEMMA VaultsInvariant == ASSUME Apart PROVE VaultsSpec => []VaultsInv
BY VaultsInitInv, VaultsInvStep, PTL DEF VaultsSpec

-----------------------------------------------------------------------------
(* The theorems about the parts side by side.                              *)

\* Every part's state has its type, whichever runs.
THEOREM TypesOfVaults ==
  ASSUME Apart, ~RelayBound
  PROVE  VaultsSpec /\ [](part = "backup" => IdsLeft) => []VaultsType
<1>1. VaultsInit => IInv
  BY InvariantInit DEF VaultsInit
<1>2. IInv /\ (part = "backup" => IdsLeft) /\ [VaultsNext]_allVars => IInv'
  <2>1. SUFFICES ASSUME IInv, part = "backup" => IdsLeft, [VaultsNext]_allVars
                 PROVE  IInv'
    OBVIOUS
  <2>2. CASE part = "backup"
    BY <2>1, <2>2, StepOfPart, InvariantStep
  <2>3. CASE part # "backup"
    <3>1. UNCHANGED vars
      BY <2>1, <2>3, StepOfPart
    <3>2. QED
      BY <2>1, <3>1, InvariantStays
  <2>4. QED
    BY <2>2, <2>3
<1>3. ASSUME VaultsInv, IInv PROVE VaultsType
  <2>1. TypeOK
    BY <1>3 DEF IInv
  <2>2. Rotation!TypeOK /\ Phone!TypeOK /\ Setup!TypeOK
    BY <1>3, SizesHold, RotationSame, PhoneSame, SetupSame, PartsP!RotationImplied,
       PhoneP!PhoneImplied, PartsP!SetupImplied DEF VaultsInv
  <2>3. part = "link" => Link!TypeOK
    BY <1>3, SizesHold, LinkSame, PartsP!LinkImplied DEF VaultsInv
  <2>4. part = "routing" => Routing!TypeOK
    BY <1>3, SizesHold, RoutingSame, RoutingP!LinkImplied DEF VaultsInv
  <2>5. part \in PartNames
    BY <1>3 DEF VaultsInv
  <2>6. QED
    BY <2>1, <2>2, <2>3, <2>4, <2>5 DEF VaultsType, PartNames
<1>4. QED
  BY <1>1, <1>2, <1>3, VaultsInvariant, PTL DEF VaultsSpec

\* Wherever a change of password or of a key file, a failure or a crash leaves a desktop's
\* vault or a phone's, all its user has written can still be opened (secure-vault.ts,
\* NativeVault.java).
THEOREM NothingIsLost == ASSUME Apart PROVE VaultsSpec => []NothingLost
<1>1. ASSUME VaultsInv PROVE NothingLost
  <2>1. Rotation!NothingLost
    BY <1>1, SizesHold, RotationSame, PartsP!RotationImplied DEF VaultsInv
  <2>2. Phone!NothingLost
    BY <1>1, SizesHold, PhoneSame, PhoneP!PhoneImplied DEF VaultsInv
  <2>3. QED
    BY <2>1, <2>2 DEF NothingLost
<1>2. QED
  BY <1>1, VaultsInvariant, PTL

\* A vault that is listed has its segment, and what was written in one can be opened
\* (NativeVaultCatalog.java, VaultGate.tsx).
THEOREM SetupStays == ASSUME Apart PROVE VaultsSpec => []SetupKept
<1>1. ASSUME VaultsInv PROVE SetupKept
  BY <1>1, SizesHold, SetupSame, PartsP!SetupImplied DEF VaultsInv, SetupKept
<1>2. QED
  BY <1>1, VaultsInvariant, PTL

\* On the phone, changes during an upload are not taken for uploaded (NativeVault.java).
THEOREM CleanMeansUploaded == ASSUME Apart PROVE VaultsSpec => []CleanIsUploaded
<1>1. ASSUME VaultsInv PROVE CleanIsUploaded
  BY <1>1, SizesHold, PhoneSame, PhoneP!PhoneImplied DEF VaultsInv, CleanIsUploaded
<1>2. QED
  BY <1>1, VaultsInvariant, PTL

\* No upload of the phone replaces a backup by an older one, until one it gave up outlives
\* the row it was for (NativeVault.java, vault-backup.ts).
THEOREM BackupGoesForward == ASSUME Apart PROVE VaultsSpec => BackupNeverOlder
<1>1. VaultsSpec => PhoneP!Spec
  <2>1. VaultsInit => PhoneP!Init
    BY PhoneSame DEF VaultsInit
  <2>2. [VaultsNext]_allVars => [PhoneP!Next]_(PhoneP!vars)
    BY StepOfPart, PhoneSame
  <2>3. QED
    BY <2>1, <2>2, PTL DEF VaultsSpec, PhoneP!Spec
<1>2. PhoneP!Spec => PhoneP!BackupNeverOlder
  BY SizesHold, PhoneP!PhoneBacksUpForward
<1>3. PhoneP!BackupNeverOlder => BackupNeverOlder
  BY PTL DEF BackupNeverOlder, Phone!BackupNeverOlder, PhoneP!BackupNeverOlder, Phone!disk,
     Phone!memory, Phone!net, Phone!history, Phone!vars, PhoneP!disk, PhoneP!memory, PhoneP!net,
     PhoneP!history, PhoneP!vars, Phone!NoRow, PhoneP!NoRow
<1>4. QED
  BY <1>1, <1>2, <1>3, PTL

\* What a phone uses of its relay belongs to the open vault and the current route, and a
\* route its user chose is left by the user alone (NativeEngine.java).
THEOREM LinkStays == ASSUME Apart PROVE VaultsSpec => LinkKept
<1> DEFINE Belongs == part \in {"link", "routing"} => Link!LinkBelongs
           Stands  == origin' # origin /\ origin \in {lan} \union {own}
                        => (count.routes)' # count.routes
<1>1. ASSUME VaultsInv PROVE Belongs
  <2>1. part = "link" => Link!LinkBelongs
    BY <1>1, SizesHold, LinkSame, PartsP!LinkImplied DEF VaultsInv
  <2>2. part = "routing" => Routing!LinkBelongs
    BY <1>1, SizesHold, RoutingSame, RoutingP!LinkImplied DEF VaultsInv
  <2>3. Routing!LinkBelongs => Link!LinkBelongs
    BY DEF Link!LinkBelongs, Routing!LinkBelongs
  <2>4. QED
    BY <2>1, <2>2, <2>3
<1>2. ASSUME VaultsInv, [VaultsNext]_allVars PROVE [Stands]_(Link!vars)
  <2>1. CASE part = "link"
    BY <1>2, <2>1, SizesHold, StepOfPart, LinkSame, PartsP!RouteChange DEF VaultsInv
  <2>2. CASE part = "routing"
    BY <1>2, <2>2, SizesHold, StepOfPart, RoutingSame, RoutingP!RouteChange DEF VaultsInv
  <2>3. CASE part \notin {"link", "routing"}
    BY <1>2, <2>3, StepOfPart DEF linkVars
  <2>4. QED
    BY <2>1, <2>2, <2>3
<1>3. QED
  BY <1>1, <1>2, VaultsInvariant, PTL DEF VaultsSpec, LinkKept, Link!RouteStands
=============================================================================
