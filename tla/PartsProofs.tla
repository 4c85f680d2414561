---------------------------- MODULE PartsProofs ----------------------------
(***************************************************************************)
(* What four parts of the services promise, proved for constants of any    *)
(* size: Activation, which this module extends, and Contacts, VoiceNotes   *)
(* and Attachments, whose variables have the names MCServices gives them.  *)
(***************************************************************************)
EXTENDS Activation, Sequences, WellFoundedInduction, TLAPS

CONSTANTS
  User, Phone, Asking, MaxKeys, MaxCrashes,
  Conversation, None, MaxNotes, MaxLocks,
  Attachment, Chunks, MaxBatch, MaxFaults, MaxRestores

VARIABLES
  \* Contacts
  asked, permission, ack, acking, acked, free, bundle, doing, pairs, remote,
  conversation, private, mail, crashes,
  \* VoiceNotes
  chat, noteView, closed, noteCsrf, note, recorder, recording, cancelled, pointer, heldLong,
  pressed, chunks, uploading, posted, dropped, overlap,
  \* Attachments
  upload, blob, attachment, expired, queue, file, fetching, backup, restored, fileFaults, restores

Contacts == INSTANCE Contacts WITH request <- asked, session <- pairs

Notes == INSTANCE VoiceNotes WITH
  selected <- chat, view <- noteView, csrf <- noteCsrf, held <- heldLong, upload <- uploading

Files == INSTANCE Attachments WITH
  row <- attachment, doing <- fetching, faults <- fileFaults

-----------------------------------------------------------------------------
\* A set of numbers that is not empty has a least one.
LEMMA LeastOf ==
  ASSUME NEW S \in SUBSET Nat, S # {}
  PROVE  \E x \in S : \A y \in S : x <= y
<1>1. PICK x \in S : \A y \in S : ~ (<<y, x>> \in OpToRel(<, Nat))
  BY NatLessThanWellFounded, WFMin, Zenon
<1>2. ASSUME NEW y \in S PROVE x <= y
  <2>1. x \in Nat /\ y \in Nat
    OBVIOUS
  <2>2. y < x => <<y, x>> \in OpToRel(<, Nat)
    BY <2>1, Zenon DEF OpToRel
  <2>3. ~ (y < x)
    BY <1>1, <2>2, Zenon
  <2>4. QED
    BY <2>1, <2>3
<1>3. QED
  BY <1>2

(***************************************************************************)
(* Activation.                                                             *)
(***************************************************************************)
\* What the proofs ask of the constants: bounds are numbers, and what stands for the
\* absence of a device or a name is none.
Sizes ==
  /\ MaxClaims \in Nat /\ MaxAttempts \in Nat /\ MaxLosses \in Nat
  /\ NoName \notin Name /\ NoDevice \notin Device

(* The inductive invariant.                                                *)

\* A claim is handed out once, for one name: request_id is a primary key.
ClaimsDiffer ==
  \A n \in Name :
    /\ row[n].id <= issued
    /\ \A m \in Name : row[n].id = row[m].id /\ row[n].id # 0 => n = m

\* An account is made of a claim, and of no other than its own.
OwnedIsClaimed == \A n \in Name : owner[n] # NoDevice => row[n].id # 0

\* device_id is a primary key: a device has one account at most.
OneAccount ==
  \A n, m \in Name : owner[n] = owner[m] /\ owner[n] # NoDevice => n = m

\* An answer that is on its way to a device names the account the relay made for it.
AnswersAgree ==
  \A d \in Device :
    call[d].at = "activated" => call[d].device = d /\ owner[call[d].name] = d

IInv ==
  /\ TypeOK
  /\ ClaimsDiffer /\ OwnedIsClaimed /\ OneAccount /\ AnswersAgree
  /\ AccountsAgree

-----------------------------------------------------------------------------
(* Types.                                                                  *)
Row == [id : 0 .. MaxClaims, activated : BOOLEAN, expired : BOOLEAN, attempts : 0 .. MaxAttempts]
Late == [device : Device, id : 1 .. MaxClaims, code : BOOLEAN]

\* What a daemon that waits has asked, or been answered.
LEMMA Waiting ==
  ASSUME TypeOK, NEW d \in Device
  PROVE  /\ call[d].at = "apply" => call[d].name \in Name
         /\ call[d].at = "applied" => call[d].claim \in Claim
         /\ call[d].at = "activate" => call[d].id \in 1 .. MaxClaims /\ call[d].code \in BOOLEAN
         /\ call[d].at = "activated" => call[d].name \in Name /\ call[d].device \in Device
         /\ call[d].at = "idle" => call[d] = Idle
<1>1. call[d] \in Call
  BY DEF TypeOK
<1>2. QED
  BY <1>1 DEF Call, Idle

\* An attempt leaves rows of their type, and gives accounts to devices.
LEMMA AttemptType ==
  ASSUME Sizes, TypeOK, NEW id \in 1 .. MaxClaims, NEW d \in Device, NEW code \in BOOLEAN,
         Attempt(id, d, code)
  PROVE  row' \in [Name -> Row] /\ owner' \in [Name -> Device \union {NoDevice}]
<1>1. ASSUME NEW n \in Name PROVE RowAfter(n, d, code) \in Row
  <2>1. row[n] \in Row
    BY DEF TypeOK, Row
  <2>2. MayActivate(n) => row[n].attempts + 1 \in 0 .. MaxAttempts
    BY <2>1 DEF MayActivate, Row, Sizes
  <2>3. QED
    BY <2>1, <2>2 DEF RowAfter, Activates, Row
<1>2. row \in [Name -> Row]
  BY DEF TypeOK, Row
<1>3. row' \in [Name -> Row]
  BY <1>1, <1>2 DEF Attempt
<1>4. owner' \in [Name -> Device \union {NoDevice}]
  BY DEF Attempt, TypeOK
<1>5. QED
  BY <1>3, <1>4

LEMMA TypeStep == ASSUME Sizes, TypeOK, [Next]_vars PROVE TypeOK'
<1> USE DEF Sizes
<1>1. CASE UNCHANGED vars
  BY <1>1 DEF TypeOK, vars
<1>2. ASSUME NEW d \in Device, NEW n \in Name, SelfActivate(d, n) PROVE TypeOK'
  <2>1. claim[d].name = n => claim[d].id \in 1 .. MaxClaims
    BY DEF TypeOK, Claim, Unclaimed
  <2>2. call'[d] \in Call
    BY <1>2, <2>1 DEF SelfActivate, Call, TypeOK
  <2>3. QED
    BY <1>2, <2>2 DEF SelfActivate, TypeOK, relay, daemon
<1>3. ASSUME NEW d \in Device, NEW id \in 1 .. MaxClaims, NEW code \in BOOLEAN,
             TypeCode(d, id, code)
      PROVE  TypeOK'
  <2>1. call'[d] \in Call
    BY <1>3 DEF TypeCode, Call, TypeOK
  <2>2. QED
    BY <1>3, <2>1 DEF TypeCode, TypeOK, relay, daemon
<1>4. ASSUME NEW d \in Device, SaveClaim(d) PROVE TypeOK'
  <2>1. call[d].claim \in Claim /\ call[d].claim.id \in 1 .. MaxClaims
    BY <1>4, Waiting DEF SaveClaim, Claim
  <2>2. call'[d] \in Call
    BY <1>4, <2>1 DEF SaveClaim, Call, TypeOK
  <2>3. QED
    BY <1>4, <2>1, <2>2 DEF SaveClaim, TypeOK, relay
<1>5. ASSUME NEW d \in Device, CompleteRegistration(d) PROVE TypeOK'
  <2>1. call[d].name \in Name
    BY <1>5, Waiting DEF CompleteRegistration
  <2>2. Idle \in Call
    BY DEF Call
  <2>3. QED
    BY <1>5, <2>1, <2>2 DEF CompleteRegistration, TypeOK, relay, daemon
<1>6. ASSUME NEW d \in Device, GiveUp(d) PROVE TypeOK'
  <2>1. late' \subseteq Late
    BY <1>6, Waiting DEF GiveUp, TypeOK, Late
  <2>2. Idle \in Call
    BY DEF Call
  <2>3. losses' \in 0 .. MaxLosses
    BY <1>6 DEF GiveUp, TypeOK
  <2>4. QED
    BY <1>6, <2>1, <2>2, <2>3 DEF GiveUp, TypeOK, relay, daemon, Late
<1>7. ASSUME NEW d \in Device, ApplyAccess(d) PROVE TypeOK'
  <2>1. call[d].name \in Name
    BY <1>7, Waiting DEF ApplyAccess
  <2>2. Idle \in Call
    BY DEF Call
  <2>3. CASE MayIssue(call[d].name)
    <3>1. issued + 1 \in 1 .. MaxClaims
      BY <1>7, <2>3 DEF ApplyAccess, TypeOK
    <3>2. [at |-> "applied", claim |-> [name |-> call[d].name, id |-> issued + 1]] \in Call
      BY <2>1, <3>1 DEF Call, Claim
    <3>3. FreshRow(issued + 1) \in Row
      BY <3>1 DEF FreshRow, Row
    <3>4. QED
      BY <1>7, <2>1, <2>3, <3>1, <3>2, <3>3 DEF ApplyAccess, TypeOK, daemon, Row
  <2>4. CASE ~MayIssue(call[d].name)
    BY <1>7, <2>2, <2>4 DEF ApplyAccess, TypeOK, daemon
  <2>5. QED
    BY <2>3, <2>4
<1>8. ASSUME NEW d \in Device, Activate(d) PROVE TypeOK'
  <2>1. call[d].id \in 1 .. MaxClaims /\ call[d].code \in BOOLEAN
    BY <1>8, Waiting DEF Activate
  <2>2. Granted(call[d].id, d, call[d].code) \subseteq Call /\ Idle \in Call
    BY DEF Granted, Named, Call
  <2>3. call' \in [Device -> Call]
    BY <1>8, <2>2 DEF Activate, TypeOK
  <2>4. QED
    BY <1>8, <2>1, <2>3, AttemptType DEF Activate, TypeOK, daemon, Row
<1>9. ASSUME NEW r \in late, LateActivate(r) PROVE TypeOK'
  <2>1. r \in Late
    BY DEF TypeOK, Late
  <2>2. r.id \in 1 .. MaxClaims /\ r.device \in Device /\ r.code \in BOOLEAN
    BY <2>1 DEF Late
  <2>3. QED
    BY <1>9, <2>2, AttemptType DEF LateActivate, TypeOK, daemon, Row
<1>10. ASSUME NEW n \in Name, Expire(n) PROVE TypeOK'
  BY <1>10, ZenonT(60) DEF Expire, TypeOK, daemon
<1>11. QED
  BY <1>1, <1>2, <1>3, <1>4, <1>5, <1>6, <1>7, <1>8, <1>9, <1>10 DEF Next

LEMMA InitInv == ASSUME Sizes, Init PROVE IInv
<1>1. TypeOK
  BY DEF Sizes, Init, TypeOK, FreshRow, Call
<1>2. QED
  BY <1>1 DEF Sizes, Init, IInv, ClaimsDiffer, OwnedIsClaimed, OneAccount, AnswersAgree,
              AccountsAgree, FreshRow, Idle
-----------------------------------------------------------------------------
(* The steps.                                                              *)

\* What an attempt with a claim does: the one name it is for gets the device, if it had none.
LEMMA AttemptStep ==
  ASSUME Sizes, IInv, NEW id \in 1 .. MaxClaims, NEW d \in Device, NEW code \in BOOLEAN,
         Attempt(id, d, code)
  PROVE  /\ \A n \in Name : row'[n].id = row[n].id
         /\ \A n \in Name : owner[n] # NoDevice => owner'[n] = owner[n]
         /\ \A n \in Name : owner'[n] # owner[n] =>
              /\ n \in Named(id) /\ Activates(n, d, code) /\ owner'[n] = d
         /\ \A n, m \in Named(id) : n = m
<1>1. \A n \in Name : row[n] \in Row
  BY DEF IInv, TypeOK, Row
<1>2. \A n \in Name : row'[n].id = row[n].id
  BY <1>1 DEF Attempt, RowAfter, Row
<1>3. \A n \in Name : owner'[n] = IF n \in Named(id) /\ Activates(n, d, code) THEN d ELSE owner[n]
  BY DEF Attempt
<1>4. \A n, m \in Named(id) : n = m
  BY DEF Named, IInv, ClaimsDiffer
<1>5. QED
  BY <1>2, <1>3, <1>4 DEF Activates

\* So the relay's part of the invariant stands, whoever's attempt it was.
LEMMA AttemptKeeps ==
  ASSUME Sizes, IInv, NEW id \in 1 .. MaxClaims, NEW d \in Device, NEW code \in BOOLEAN,
         Attempt(id, d, code), issued' = issued
  PROVE  ClaimsDiffer' /\ OwnedIsClaimed' /\ OneAccount'
<1>1. ClaimsDiffer'
  BY AttemptStep DEF IInv, ClaimsDiffer
<1>2. OwnedIsClaimed'
  <2> SUFFICES ASSUME NEW n \in Name, owner'[n] # NoDevice PROVE row'[n].id # 0
    BY DEF OwnedIsClaimed
  <2>1. CASE owner[n] # NoDevice
    BY <2>1, AttemptStep DEF IInv, OwnedIsClaimed
  <2>2. CASE owner[n] = NoDevice
    <3>1. n \in Named(id)
      BY <2>2, AttemptStep
    <3>2. row[n].id = id /\ id # 0
      BY <3>1 DEF Named
    <3>3. QED
      BY <3>2, AttemptStep
  <2>3. QED
    BY <2>1, <2>2
<1>3. OneAccount'
  <2> SUFFICES ASSUME NEW n \in Name, NEW m \in Name, owner'[n] = owner'[m], owner'[n] # NoDevice
               PROVE  n = m
    BY DEF OneAccount
  <2>1. CASE owner'[n] = owner[n] /\ owner'[m] = owner[m]
    BY <2>1 DEF IInv, OneAccount
  <2>2. CASE owner'[n] # owner[n]
    <3>1. n \in Named(id) /\ owner'[n] = d /\ ~HasAccount(d)
      BY <2>2, AttemptStep DEF Activates
    <3>2. m \in Named(id)
      BY <3>1, AttemptStep, ZenonT(60) DEF HasAccount
    <3>3. QED
      BY <3>1, <3>2, AttemptStep
  <2>3. CASE owner'[m] # owner[m]
    <3>1. m \in Named(id) /\ owner'[m] = d /\ ~HasAccount(d)
      BY <2>3, AttemptStep DEF Activates
    <3>2. n \in Named(id)
      BY <3>1, AttemptStep DEF HasAccount
    <3>3. QED
      BY <3>1, <3>2, AttemptStep
  <2>4. QED
    BY <2>1, <2>2, <2>3
<1>4. QED
  BY <1>1, <1>2, <1>3

\* The account a device is answered is its own, after the attempt that answers it.
LEMMA GrantedAgrees ==
  ASSUME Sizes, IInv, NEW id \in 1 .. MaxClaims, NEW d \in Device, NEW code \in BOOLEAN,
         Attempt(id, d, code), NEW answer \in Granted(id, d, code)
  PROVE  answer.device = d /\ owner'[answer.name] = d
<1>1. PICK n \in Named(id) : /\ Activates(n, d, code) \/ Repeats(n, d, code)
                             /\ answer = [at |-> "activated", name |-> n, device |-> d]
  BY DEF Granted
<1>2. n \in Name
  BY DEF Named
<1>3. owner'[n] = d
  BY <1>1, <1>2 DEF Attempt, Repeats
<1>4. QED
  BY <1>1, <1>3

LEMMA InvStep == ASSUME Sizes, IInv, [Next]_vars PROVE IInv'
<1>1. TypeOK'
  BY TypeStep DEF IInv
<1>2. CASE UNCHANGED vars
  BY <1>1, <1>2 DEF vars, IInv, ClaimsDiffer, OwnedIsClaimed, OneAccount, AnswersAgree, AccountsAgree
<1>3. ASSUME NEW d \in Device, row' = row, owner' = owner, issued' = issued, account' = account,
             \A e \in Device \ {d} : call'[e] = call[e], call'[d].at # "activated"
      PROVE  IInv'
  <2>1. AnswersAgree'
    BY <1>3 DEF IInv, AnswersAgree
  <2>2. QED
    BY <1>1, <1>3, <2>1 DEF IInv, ClaimsDiffer, OwnedIsClaimed, OneAccount, AccountsAgree
<1>4. ASSUME NEW d \in Device, NEW n \in Name, SelfActivate(d, n) PROVE IInv'
  BY <1>3, <1>4 DEF SelfActivate, IInv, TypeOK, relay, daemon
<1>5. ASSUME NEW d \in Device, NEW id \in 1 .. MaxClaims, NEW code \in BOOLEAN,
             TypeCode(d, id, code)
      PROVE  IInv'
  BY <1>3, <1>5 DEF TypeCode, IInv, TypeOK, relay, daemon
<1>6. ASSUME NEW d \in Device, SaveClaim(d) PROVE IInv'
  BY <1>3, <1>6 DEF SaveClaim, IInv, TypeOK, relay
<1>7. ASSUME NEW d \in Device, CompleteRegistration(d) PROVE IInv'
  <2>1. call[d].device = d /\ owner[call[d].name] = d
    BY <1>7 DEF CompleteRegistration, IInv, AnswersAgree
  <2>2. AccountsAgree'
    BY <1>7, <2>1 DEF CompleteRegistration, IInv, AccountsAgree, TypeOK, relay, daemon
  <2>3. AnswersAgree'
    BY <1>7 DEF CompleteRegistration, IInv, AnswersAgree, TypeOK, relay, Idle
  <2>4. QED
    BY <1>1, <1>7, <2>2, <2>3
       DEF CompleteRegistration, relay, IInv, ClaimsDiffer, OwnedIsClaimed, OneAccount
<1>8. ASSUME NEW d \in Device, GiveUp(d) PROVE IInv'
  BY <1>3, <1>8 DEF GiveUp, IInv, TypeOK, relay, daemon, Idle
<1>9. ASSUME NEW d \in Device, ApplyAccess(d) PROVE IInv'
  <2>1. CASE MayIssue(call[d].name)
    <3> DEFINE n == call[d].name
    <3>1. n \in Name
      BY <1>9, Waiting DEF ApplyAccess, IInv
    <3>2. /\ issued' = issued + 1 /\ issued \in Nat
          /\ row' = [row EXCEPT ![n] = FreshRow(issued + 1)]
          /\ owner' = owner /\ account' = account
      BY <1>9, <2>1 DEF ApplyAccess, IInv, TypeOK, daemon
    <3>3. row'[n].id = issued + 1 /\ \A m \in Name \ {n} : row'[m] = row[m]
      BY <3>1, <3>2 DEF IInv, TypeOK, FreshRow
    <3>4. \A m \in Name : row[m].id \in Nat
      BY DEF Sizes, IInv, TypeOK
    <3>5. ClaimsDiffer'
      BY <3>2, <3>3, <3>4 DEF IInv, ClaimsDiffer
    <3>6. OwnedIsClaimed'
      BY <2>1, <3>2, <3>3 DEF IInv, OwnedIsClaimed, MayIssue
    <3>7. AnswersAgree'
      BY <1>9, <2>1, <3>2 DEF ApplyAccess, IInv, AnswersAgree, TypeOK
    <3>8. QED
      BY <1>1, <3>2, <3>5, <3>6, <3>7 DEF IInv, OneAccount, AccountsAgree
  <2>2. CASE ~MayIssue(call[d].name)
    BY <1>3, <1>9, <2>2 DEF ApplyAccess, IInv, TypeOK, daemon, Idle
  <2>3. QED
    BY <2>1, <2>2
<1>10. ASSUME NEW d \in Device, NEW id \in 1 .. MaxClaims, NEW code \in BOOLEAN,
              Attempt(id, d, code), issued' = issued, account' = account,
              NEW e \in Device,
              \A f \in Device \ {e} : call'[f] = call[f],
              call'[e] = call[e] \/ (e = d /\ call'[e] \in {Idle} \union Granted(id, d, code))
       PROVE  IInv'
  <2>1. \A n \in Name : owner[n] \in Device => owner'[n] = owner[n]
    BY <1>10, AttemptStep DEF Sizes
  <2>2. AnswersAgree'
    <3> SUFFICES ASSUME NEW f \in Device, call'[f].at = "activated"
                 PROVE  call'[f].device = f /\ owner'[call'[f].name] = f
      BY DEF AnswersAgree
    <3>1. CASE call'[f] = call[f]
      BY <2>1, <3>1, Waiting DEF IInv, AnswersAgree
    <3>2. CASE f = d /\ call'[f] \in Granted(id, d, code)
      BY <1>10, <3>2, GrantedAgrees
    <3>3. QED
      BY <1>10, <3>1, <3>2 DEF Idle
  <2>3. AccountsAgree'
    BY <1>10, <2>1 DEF IInv, AccountsAgree, TypeOK
  <2>4. QED
    BY <1>1, <1>10, <2>2, <2>3, AttemptKeeps DEF IInv
<1>11. ASSUME NEW d \in Device, Activate(d) PROVE IInv'
  <2> DEFINE id == call[d].id
             code == call[d].code
  <2>1. id \in 1 .. MaxClaims /\ code \in BOOLEAN
    BY <1>11, Waiting DEF Activate, IInv
  <2>2. /\ Attempt(id, d, code) /\ issued' = issued /\ account' = account
        /\ \A f \in Device \ {d} : call'[f] = call[f]
        /\ call'[d] \in {Idle} \union Granted(id, d, code)
    BY <1>11 DEF Activate, IInv, TypeOK, daemon
  <2> HIDE DEF id, code
  <2>3. QED
    BY <1>10, <2>1, <2>2
<1>12. ASSUME NEW r \in late, LateActivate(r) PROVE IInv'
  <2>1. r \in Late
    BY DEF IInv, TypeOK, Late
  <2>2. r.id \in 1 .. MaxClaims /\ r.device \in Device /\ r.code \in BOOLEAN
    BY <2>1 DEF Late
  <2>3. Attempt(r.id, r.device, r.code) /\ issued' = issued /\ account' = account /\ call' = call
    BY <1>12 DEF LateActivate, daemon
  <2>4. QED
    BY <1>10, <2>2, <2>3
<1>13. ASSUME NEW n \in Name, Expire(n) PROVE IInv'
  <2>1. \A m \in Name : row[m] \in Row
    BY DEF IInv, TypeOK, Row
  <2>2. \A m \in Name : row'[m].id = row[m].id
    BY <1>13, <2>1 DEF Expire, Row, IInv, TypeOK
  <2>3. ClaimsDiffer' /\ OwnedIsClaimed'
    BY <1>13, <2>2 DEF Expire, IInv, ClaimsDiffer, OwnedIsClaimed
  <2>4. QED
    BY <1>1, <1>13, <2>3 DEF Expire, daemon, IInv, OneAccount, AnswersAgree, AccountsAgree
<1>14. QED
  BY <1>2, <1>4, <1>5, <1>6, <1>7, <1>8, <1>9, <1>11, <1>12, <1>13 DEF Next

-----------------------------------------------------------------------------
\* The invariant holds of every reachable state.
THEOREM Invariant == ASSUME Sizes PROVE Spec => []IInv
<1>1. Init => IInv
  BY InitInv
<1>2. IInv /\ [Next]_vars => IInv'
  BY InvStep
<1>3. QED
  BY <1>1, <1>2, PTL DEF Spec

\* Every variable has its type.
THEOREM TypeCorrect == ASSUME Sizes PROVE Spec => []TypeOK
<1>1. IInv => TypeOK
  BY DEF IInv
<1>2. QED
  BY <1>1, Invariant, PTL

\* A device that believes it has an account has the one the relay made for it, whatever
\* answers were lost, activations repeated and codes typed in (auth.ts:221-241).
THEOREM Agree == ASSUME Sizes PROVE Spec => []AccountsAgree
<1>1. IInv => AccountsAgree
  BY DEF IInv
<1>2. QED
  BY <1>1, Invariant, PTL

\* An account stays with its device and its claim, and is the only one of that device
\* (auth.ts:173-178, 282-300).
THEOREM Stays == ASSUME Sizes PROVE Spec => AccountIsKept
<1> DEFINE Kept == \A n \in Name : owner[n] # NoDevice =>
                     /\ owner'[n] = owner[n] /\ row'[n].id = row[n].id
                     /\ \A m \in Name \ {n} : owner'[m] # owner[n]
<1>1. ASSUME IInv, [Next]_vars PROVE Kept
  <2>1. OneAccount'
    BY <1>1, InvStep DEF IInv
  <2>2. ASSUME NEW n \in Name, owner[n] # NoDevice
        PROVE  owner'[n] = owner[n] /\ row'[n].id = row[n].id
    <3>1. CASE row' = row /\ owner' = owner
      BY <3>1
    <3>2. ASSUME NEW d \in Device, ApplyAccess(d)
          PROVE  owner'[n] = owner[n] /\ row'[n].id = row[n].id
      BY <1>1, <2>2, <3>2 DEF ApplyAccess, MayIssue, IInv, TypeOK
    <3>3. ASSUME NEW d \in Device, Activate(d)
          PROVE  owner'[n] = owner[n] /\ row'[n].id = row[n].id
      <4>1. call[d].id \in 1 .. MaxClaims /\ call[d].code \in BOOLEAN
        BY <1>1, <3>3, Waiting DEF Activate, IInv
      <4>2. QED
        BY <1>1, <2>2, <3>3, <4>1, AttemptStep DEF Activate
    <3>4. ASSUME NEW r \in late, LateActivate(r)
          PROVE  owner'[n] = owner[n] /\ row'[n].id = row[n].id
      <4>1. r \in Late
        BY <1>1 DEF IInv, TypeOK, Late
      <4>2. r.id \in 1 .. MaxClaims /\ r.device \in Device /\ r.code \in BOOLEAN
        BY <4>1 DEF Late
      <4>3. QED
        BY <1>1, <2>2, <3>4, <4>2, AttemptStep DEF LateActivate
    <3>5. ASSUME NEW m \in Name, Expire(m)
          PROVE  owner'[n] = owner[n] /\ row'[n].id = row[n].id
      BY <1>1, <3>5 DEF Expire, IInv, TypeOK
    <3>6. QED
      BY <1>1, <3>1, <3>2, <3>3, <3>4, <3>5
         DEF Next, SelfActivate, TypeCode, SaveClaim, CompleteRegistration, GiveUp, relay, vars
  <2>3. QED
    BY <2>1, <2>2 DEF OneAccount
<1>2. IInv /\ [Next]_vars => [Kept]_vars
  BY <1>1
<1>3. QED
  BY <1>2, Invariant, PTL DEF Spec, AccountIsKept

(***************************************************************************)
(* Contacts.                                                               *)
(***************************************************************************)
ContactSizes ==
  MaxKeys \in Nat /\ MaxCrashes \in Nat /\ Asking \subseteq User \X User

\* Where a classical prekey k of v may be once it is asked for.
Bundled(u, v, k) ==
  bundle[u] # Contacts!Idle /\ bundle[u].of = v /\ bundle[u].keys["classical"] = k
Brought(u, v, k) ==
  doing[u].at = "answer" /\ doing[u].peer = v /\ doing[u].keys["classical"] = k
Begun(u, v, k) ==
  pairs[<<u, v>>].at = "new" /\ pairs[<<u, v>>].keys["classical"] = k
Sent(m, v, k) == m.to = v /\ m.keys["classical"] = k

\* One transaction at most holds a prekey, and only one that is free.
HeldOnce ==
  \A v \in User, k \in Contacts!Key :
    \A u \in User : Bundled(u, v, k) =>
      k \in free[v]["classical"] /\ \A w \in User : Bundled(w, v, k) => w = u

\* A prekey that was handed out is with one asker, in one session or in one message.
HandedOnce ==
  \A v \in User, k \in Contacts!Key :
    /\ \A u \in User : Brought(u, v, k) =>
         /\ k \notin free[v]["classical"]
         /\ \A w \in User : (Brought(w, v, k) => w = u) /\ ~Begun(w, v, k)
         /\ \A m \in mail : ~Sent(m, v, k)
    /\ \A u \in User : Begun(u, v, k) =>
         /\ k \notin free[v]["classical"]
         /\ \A w \in User : Begun(w, v, k) => w = u
         /\ \A m \in mail : ~Sent(m, v, k)
    /\ \A m \in mail : Sent(m, v, k) =>
         /\ k \notin free[v]["classical"]
         /\ \A n \in mail : Sent(n, v, k) => n = m

\* The owner keeps the private half as long as someone may need it.
StillPrivate ==
  \A v \in User, k \in Contacts!Key :
    (\/ k \in free[v]["classical"]
     \/ \E u \in User : Brought(u, v, k) \/ Begun(u, v, k)
     \/ \E m \in mail : Sent(m, v, k))
      => k \in private[v]

\* An acknowledgement that is kept was given.
AcksGiven == ack \subseteq acked

ContactsInv ==
  /\ Contacts!TypeOK /\ HeldOnce /\ HandedOnce /\ StillPrivate /\ AcksGiven

-----------------------------------------------------------------------------
(* Types.                                                                  *)

Bundle == [at : {"taken one", "taken both"}, of : User, keys : Contacts!Keys]
Doing == [at : {"bundle"}, peer : User] \union
         [at : {"answer", "session", "remote"}, peer : User, keys : Contacts!Keys]

LEMMA SmallestKey ==
  ASSUME ContactSizes, NEW S \in SUBSET Contacts!Key, S # {}
  PROVE  \E x \in S : \A y \in S : x <= y
<1>1. S \in SUBSET Nat
  BY DEF Contacts!Key, ContactSizes
<1>2. QED
  BY <1>1, LeastOf

LEMMA KeyFacts ==
  ASSUME ContactSizes
  PROVE  Contacts!NoKey \notin Contacts!Key
BY DEF Contacts!Key, Contacts!NoKey, ContactSizes

LEMMA TakeFacts ==
  ASSUME ContactSizes, Contacts!TypeOK, NEW v \in User, NEW kind \in Contacts!Kind
  PROVE  \/ Contacts!Take(v, kind) = Contacts!NoKey
         \/ Contacts!Take(v, kind) \in free[v][kind] /\ Contacts!Take(v, kind) \in Contacts!Key
              /\ Contacts!Take(v, kind) \notin Contacts!Held(v, kind)
<1>0. free \in [User -> [Contacts!Kind -> SUBSET Contacts!Key]]
  BY DEF Contacts!TypeOK
<1>1. free[v][kind] \in SUBSET Contacts!Key
  BY <1>0
<1>2. Contacts!Candidates(v, kind) \in SUBSET Contacts!Key
  BY <1>1 DEF Contacts!Candidates
<1>3. CASE Contacts!Candidates(v, kind) = {}
  BY <1>3 DEF Contacts!Take
<1>4. CASE Contacts!Candidates(v, kind) # {}
  <2>1. \E k \in Contacts!Candidates(v, kind) : \A j \in Contacts!Candidates(v, kind) : k <= j
    BY <1>2, <1>4, SmallestKey
  <2>2. Contacts!Take(v, kind) \in Contacts!Candidates(v, kind)
    BY <1>4, <2>1 DEF Contacts!Take
  <2>3. QED
    BY <1>2, <2>2 DEF Contacts!Candidates
<1>5. QED
  BY <1>3, <1>4

LEMMA IdleAt == Contacts!Idle.at = "idle"
BY DEF Contacts!Idle

LEMMA ContactsTyped ==
  ASSUME Contacts!TypeOK
  PROVE  /\ \A u \in User : bundle[u] # Contacts!Idle => bundle[u] \in Bundle /\ bundle[u].at # "idle"
         /\ \A u \in User : bundle[u].at # "idle" => bundle[u] \in Bundle
         /\ \A u \in User : doing[u] # Contacts!Idle => doing[u] \in Doing /\ doing[u].at # "idle"
         /\ \A u \in User : doing[u].at # "idle" => doing[u] \in Doing
         /\ \A u \in User : doing[u].at \notin {"idle", "bundle"} => doing[u].keys \in Contacts!Keys
         /\ \A u \in User : doing[u] \in Doing => doing[u].peer \in User
         /\ \A u, v \in User : pairs[<<u, v>>] \in [at : {"none", "new", "used"}, keys : Contacts!Keys]
<1>1. ASSUME NEW u \in User PROVE bundle[u] \in Bundle \union {Contacts!Idle}
  BY DEF Contacts!TypeOK, Bundle
<1>2. ASSUME NEW u \in User PROVE doing[u] \in Doing \union {Contacts!Idle}
  BY DEF Contacts!TypeOK, Doing
<1>3. Contacts!Idle.at = "idle"
  BY DEF Contacts!Idle
<1>4. \A x \in Bundle : x.at # "idle"
  BY DEF Bundle
<1>5. \A x \in Doing : x.at # "idle" /\ x.peer \in User /\ (x.at # "bundle" => x.keys \in Contacts!Keys)
  BY DEF Doing
<1>6. \A u, v \in User : pairs[<<u, v>>] \in [at : {"none", "new", "used"}, keys : Contacts!Keys]
  BY DEF Contacts!TypeOK
<1>7. QED
  BY <1>1, <1>2, <1>3, <1>4, <1>5, <1>6

LEMMA ContactsTypeInit == ASSUME ContactSizes, Contacts!Init PROVE Contacts!TypeOK
<1> USE DEF Contacts!Init, ContactSizes
<1>1. [k \in Contacts!Kind |-> Contacts!Key] \in [Contacts!Kind -> SUBSET Contacts!Key]
  OBVIOUS
<1>2. Contacts!NoSession \in [at : {"none", "new", "used"}, keys : Contacts!Keys]
  BY DEF Contacts!NoSession, Contacts!NoKeys, Contacts!Keys
<1>3. free \in [User -> [Contacts!Kind -> SUBSET Contacts!Key]]
  BY <1>1
<1>4. pairs \in [User \X User -> [at : {"none", "new", "used"}, keys : Contacts!Keys]]
  BY <1>2
<1>5. crashes \in 0 .. MaxCrashes /\ private \in [User -> SUBSET Contacts!Key]
  OBVIOUS
<1>6. asked \in [Asking -> {"none", "pending", "expired", "accepted", "rejected"}]
  OBVIOUS
<1>7. bundle \in [User -> {Contacts!Idle}] /\ doing \in [User -> {Contacts!Idle}]
  OBVIOUS
<1>8. /\ permission = {} /\ ack = {} /\ acking = {} /\ acked = {} /\ remote = {} /\ conversation = {}
      /\ mail = {}
  OBVIOUS
<1>9. QED
  BY <1>3, <1>4, <1>5, <1>6, <1>7, <1>8 DEF Contacts!TypeOK

\* The daemon's step is one of its type.
LEMMA DoingTyped ==
  ASSUME Contacts!TypeOK, NEW u \in User, NEW x \in Doing \union {Contacts!Idle},
         doing' = [doing EXCEPT ![u] = x]
  PROVE  doing' \in [User -> Doing \union {Contacts!Idle}]
BY DEF Contacts!TypeOK, Doing

LEMMA BundleTyped ==
  ASSUME Contacts!TypeOK, NEW u \in User, NEW x \in Bundle \union {Contacts!Idle},
         bundle' = [bundle EXCEPT ![u] = x]
  PROVE  bundle' \in [User -> Bundle \union {Contacts!Idle}]
BY DEF Contacts!TypeOK, Bundle

\* Who may ask whom, who has agreed, and who knows whom.
AgreedTyped ==
  /\ asked \in [Asking -> {"none", "pending", "expired", "accepted", "rejected"}]
  /\ permission \subseteq SUBSET User
  /\ ack \subseteq User \X User /\ acking \subseteq User \X User /\ acked \subseteq User \X User
  /\ remote \subseteq User \X User /\ conversation \subseteq User \X User
  /\ crashes \in 0 .. MaxCrashes

LEMMA TypeParts ==
  Contacts!TypeOK <=>
    /\ AgreedTyped
    /\ free \in [User -> [Contacts!Kind -> SUBSET Contacts!Key]]
    /\ bundle \in [User -> Bundle \union {Contacts!Idle}]
    /\ doing \in [User -> Doing \union {Contacts!Idle}]
    /\ pairs \in [User \X User -> [at : {"none", "new", "used"}, keys : Contacts!Keys]]
    /\ private \in [User -> SUBSET Contacts!Key]
    /\ mail \subseteq [from : User, to : User, keys : Contacts!Keys]
BY DEF Contacts!TypeOK, AgreedTyped, Bundle, Doing

LEMMA TypePartsNext ==
  ASSUME AgreedTyped',
         free' \in [User -> [Contacts!Kind -> SUBSET Contacts!Key]],
         bundle' \in [User -> Bundle \union {Contacts!Idle}],
         doing' \in [User -> Doing \union {Contacts!Idle}],
         pairs' \in [User \X User -> [at : {"none", "new", "used"}, keys : Contacts!Keys]],
         private' \in [User -> SUBSET Contacts!Key],
         mail' \subseteq [from : User, to : User, keys : Contacts!Keys]
  PROVE  Contacts!TypeOK'
BY DEF Contacts!TypeOK, AgreedTyped, Bundle, Doing

LEMMA ContactsTypeStep ==
  ASSUME ContactSizes, Contacts!TypeOK, [Contacts!Next]_(Contacts!vars)
  PROVE  Contacts!TypeOK'
<1> USE DEF Contacts!requests, Contacts!keys, Contacts!local
<1>0. CASE UNCHANGED Contacts!vars
  BY <1>0, TypeParts, TypePartsNext DEF Contacts!vars, AgreedTyped
<1>1. ASSUME NEW p \in Asking, Contacts!Ask(p) \/ Contacts!Expire(p) \/ Contacts!Reject(p)
      PROVE  Contacts!TypeOK'
  BY <1>1, TypeParts, TypePartsNext DEF Contacts!Ask, Contacts!Expire, Contacts!Reject, AgreedTyped
<1>2. ASSUME NEW p \in Asking, Contacts!Accept(p) PROVE Contacts!TypeOK'
  <2>1. {p[1], p[2]} \in SUBSET User
    BY DEF ContactSizes
  <2>2. QED
    BY <1>2, <2>1, TypeParts, TypePartsNext DEF Contacts!Accept, AgreedTyped
<1>3. ASSUME NEW u \in User, NEW v \in User, Contacts!InsertAck(u, v) PROVE Contacts!TypeOK'
  BY <1>3, TypeParts, TypePartsNext DEF Contacts!InsertAck, AgreedTyped
<1>4. ASSUME NEW u \in User, NEW v \in User, Contacts!CommitAck(u, v) PROVE Contacts!TypeOK'
  <2>1. asked' \in [Asking -> {"none", "pending", "expired", "accepted", "rejected"}]
    BY <1>4, TypeParts, ZenonT(60) DEF Contacts!CommitAck, AgreedTyped
  <2>2. ack' \subseteq User \X User /\ acking' \subseteq User \X User /\ acked' \subseteq User \X User
    BY <1>4, TypeParts DEF Contacts!CommitAck, AgreedTyped
  <2>3. UNCHANGED <<permission, free, bundle, doing, pairs, remote, conversation, private, mail, crashes>>
    BY <1>4 DEF Contacts!CommitAck
  <2>4. QED
    BY <2>1, <2>2, <2>3, TypeParts, TypePartsNext DEF AgreedTyped
<1>5. ASSUME NEW u \in User, NEW v \in User, Contacts!FetchBundle(u, v) PROVE Contacts!TypeOK'
  <2>1. [at |-> "bundle", peer |-> v] \in Doing
    BY DEF Doing
  <2>2. QED
    BY <1>5, <2>1, TypeParts, TypePartsNext, DoingTyped DEF Contacts!FetchBundle, AgreedTyped
<1>6. ASSUME NEW u \in User, NEW v \in User, Contacts!SendFirst(u, v) PROVE Contacts!TypeOK'
  <2>1. pairs[<<u, v>>].keys \in Contacts!Keys
    BY ContactsTyped
  <2>2. [pairs[<<u, v>>] EXCEPT !.at = "used"] \in [at : {"none", "new", "used"}, keys : Contacts!Keys]
    BY ContactsTyped
  <2>3. QED
    BY <1>6, <2>1, <2>2, TypeParts, TypePartsNext DEF Contacts!SendFirst, AgreedTyped
<1>7. ASSUME NEW u \in User, Contacts!TakeClassical(u) PROVE Contacts!TypeOK'
  <2>1. doing[u] \in Doing /\ doing[u].peer \in User
    BY <1>7, ContactsTyped DEF Contacts!TakeClassical
  <2>2. Contacts!Take(doing[u].peer, "classical") \in Contacts!Key \union {Contacts!NoKey}
    BY <2>1, TakeFacts DEF Contacts!Kind
  <2>3. [Contacts!NoKeys EXCEPT !["classical"] = Contacts!Take(doing[u].peer, "classical")]
          \in Contacts!Keys
    BY <2>2 DEF Contacts!NoKeys, Contacts!Keys
  <2>4. [at |-> "taken one", of |-> doing[u].peer,
         keys |-> [Contacts!NoKeys EXCEPT !["classical"] = Contacts!Take(doing[u].peer, "classical")]]
          \in Bundle
    BY <2>1, <2>3 DEF Bundle
  <2>5. bundle' \in [User -> Bundle \union {Contacts!Idle}] /\ doing' \in [User -> Doing \union {Contacts!Idle}]
    BY <1>7, <2>4, TypeParts, TypePartsNext, BundleTyped, DoingTyped DEF Contacts!TakeClassical
  <2>6. QED
    BY <1>7, <2>5, TypeParts, TypePartsNext DEF Contacts!TakeClassical, AgreedTyped
<1>8. ASSUME NEW u \in User, Contacts!TakePq(u) PROVE Contacts!TypeOK'
  <2>1. bundle[u] \in Bundle
    BY <1>8, ContactsTyped DEF Contacts!TakePq
  <2>2. Contacts!Take(bundle[u].of, "pq") \in Contacts!Key \union {Contacts!NoKey}
    BY <2>1, TakeFacts DEF Contacts!Kind, Bundle
  <2> DEFINE t == Contacts!Take(bundle[u].of, "pq")
             new == [bundle[u] EXCEPT !.at = "taken both", !.keys = [@ EXCEPT !["pq"] = t]]
  <2>3. [bundle[u].keys EXCEPT !["pq"] = t] \in Contacts!Keys
    BY <2>1, <2>2 DEF Bundle, Contacts!Keys
  <2>4. new \in Bundle
    BY <2>1, <2>3 DEF Bundle
  <2>5. bundle' = [bundle EXCEPT ![u] = new]
    BY <1>8, <2>1 DEF Contacts!TakePq
  <2>6. bundle' \in [User -> Bundle \union {Contacts!Idle}]
    BY <2>4, <2>5, TypeParts
  <2>7. QED
    BY <1>8, <2>6, TypeParts, TypePartsNext DEF Contacts!TakePq, AgreedTyped
<1>9. ASSUME NEW u \in User, Contacts!CommitBundle(u) PROVE Contacts!TypeOK'
  <2>1. bundle[u] \in Bundle /\ bundle[u].of \in User /\ bundle[u].keys \in Contacts!Keys
    BY <1>9, ContactsTyped DEF Contacts!CommitBundle, Bundle
  <2>2. [at |-> "answer", peer |-> bundle[u].of, keys |-> bundle[u].keys] \in Doing
    BY <2>1 DEF Doing
  <2>3. bundle' \in [User -> Bundle \union {Contacts!Idle}] /\ doing' \in [User -> Doing \union {Contacts!Idle}]
    BY <1>9, <2>2, TypeParts, TypePartsNext, BundleTyped, DoingTyped DEF Contacts!CommitBundle
  <2>4. free' = [free EXCEPT ![bundle[u].of] =
                   [k \in Contacts!Kind |-> free[bundle[u].of][k] \ {bundle[u].keys[k]}]]
    BY <1>9 DEF Contacts!CommitBundle
  <2>5. free \in [User -> [Contacts!Kind -> SUBSET Contacts!Key]]
    BY TypeParts
  <2>6. [k \in Contacts!Kind |-> free[bundle[u].of][k] \ {bundle[u].keys[k]}]
          \in [Contacts!Kind -> SUBSET Contacts!Key]
    BY <2>1, <2>5
  <2>7. free' \in [User -> [Contacts!Kind -> SUBSET Contacts!Key]]
    BY <2>4, <2>5, <2>6
  <2>8. QED
    BY <1>9, <2>3, <2>7, TypeParts, TypePartsNext DEF Contacts!CommitBundle, AgreedTyped
<1>10. ASSUME NEW u \in User, Contacts!RollBack(u) PROVE Contacts!TypeOK'
  <2>1. bundle' \in [User -> Bundle \union {Contacts!Idle}] /\ doing' \in [User -> Doing \union {Contacts!Idle}]
    BY <1>10, TypeParts, TypePartsNext, BundleTyped, DoingTyped DEF Contacts!RollBack
  <2>2. QED
    BY <1>10, <2>1, TypeParts, TypePartsNext DEF Contacts!RollBack, AgreedTyped, ContactSizes
<1>11. ASSUME NEW u \in User, Contacts!Establish(u) PROVE Contacts!TypeOK'
  <2>1. doing[u] \in Doing /\ doing[u].peer \in User /\ doing[u].keys \in Contacts!Keys
    BY <1>11, ContactsTyped DEF Contacts!Establish
  <2>2. [doing[u] EXCEPT !.at = "session"] \in Doing
    BY <1>11, <2>1 DEF Doing, Contacts!Establish
  <2>3. doing' \in [User -> Doing \union {Contacts!Idle}]
    BY <1>11, <2>2, TypeParts, TypePartsNext DEF Contacts!Establish
  <2>4. pairs' \in [User \X User -> [at : {"none", "new", "used"}, keys : Contacts!Keys]]
    BY <1>11, <2>1, TypeParts, TypePartsNext DEF Contacts!Establish
  <2>5. QED
    BY <1>11, <2>3, <2>4, TypeParts, TypePartsNext DEF Contacts!Establish, AgreedTyped
<1>12. ASSUME NEW u \in User, Contacts!SaveRemote(u) PROVE Contacts!TypeOK'
  <2>1. doing[u] \in Doing /\ doing[u].peer \in User
    BY <1>12, ContactsTyped DEF Contacts!SaveRemote
  <2>2. [doing[u] EXCEPT !.at = "remote"] \in Doing
    BY <1>12, <2>1 DEF Doing, Contacts!SaveRemote
  <2>3. doing' \in [User -> Doing \union {Contacts!Idle}]
    BY <1>12, <2>2, TypeParts, TypePartsNext DEF Contacts!SaveRemote
  <2>4. QED
    BY <1>12, <2>1, <2>3, TypeParts, TypePartsNext DEF Contacts!SaveRemote, AgreedTyped
<1>13. ASSUME NEW u \in User, Contacts!FinishContact(u) PROVE Contacts!TypeOK'
  <2>1. doing[u] \in Doing /\ doing[u].peer \in User
    BY <1>13, ContactsTyped DEF Contacts!FinishContact
  <2>2. doing' \in [User -> Doing \union {Contacts!Idle}]
    BY <1>13, TypeParts, TypePartsNext DEF Contacts!FinishContact
  <2>3. QED
    BY <1>13, <2>1, <2>2, TypeParts, TypePartsNext DEF Contacts!FinishContact, AgreedTyped
<1>14. ASSUME NEW u \in User, Contacts!Crash(u) PROVE Contacts!TypeOK'
  BY <1>14, TypeParts, TypePartsNext DEF Contacts!Crash, AgreedTyped, ContactSizes
<1>15. ASSUME NEW m \in mail, Contacts!Receive(m) PROVE Contacts!TypeOK'
  <2>1. m.from \in User /\ m.to \in User
    BY TypeParts
  <2>2. [pairs[<<m.to, m.from>>] EXCEPT !.at = "used"] \in [at : {"none", "new", "used"}, keys : Contacts!Keys]
    BY <2>1, ContactsTyped
  <2>3. QED
    BY <1>15, <2>1, <2>2, TypeParts, TypePartsNext DEF Contacts!Receive, AgreedTyped
<1>16. QED
  BY <1>0, <1>1, <1>2, <1>3, <1>4, <1>5, <1>6, <1>7, <1>8, <1>9, <1>10, <1>11, <1>12, <1>13, <1>14,
     <1>15 DEF Contacts!Next

-----------------------------------------------------------------------------
(* Where the prekeys are.                                                  *)

KeysRight == HeldOnce /\ HandedOnce /\ StillPrivate

LEMMA ContactsInitInv == ASSUME ContactSizes, Contacts!Init PROVE ContactsInv
<1>1. Contacts!TypeOK
  BY ContactsTypeInit
<1>2. /\ \A u \in User : bundle[u] = Contacts!Idle /\ doing[u].at = "idle"
      /\ \A u, v \in User : pairs[<<u, v>>].at = "none"
      /\ mail = {}
  BY DEF Contacts!Init, Contacts!Idle, Contacts!NoSession
<1>3. /\ \A u, v \in User, k \in Contacts!Key : ~Bundled(u, v, k) /\ ~Brought(u, v, k) /\ ~Begun(u, v, k)
      /\ \A m \in mail : FALSE
  BY <1>2 DEF Bundled, Brought, Begun
<1>4. HeldOnce
  BY <1>3 DEF HeldOnce
<1>5. HandedOnce
  BY <1>3 DEF HandedOnce
<1>6. StillPrivate
  BY DEF Contacts!Init, StillPrivate
<1>7. AcksGiven
  BY DEF Contacts!Init, AcksGiven
<1>8. QED
  BY <1>1, <1>4, <1>5, <1>6, <1>7 DEF ContactsInv

\* A step by which no prekey moves, but an answer may be given up.
LEMMA KeysStay ==
  ASSUME KeysRight, UNCHANGED <<free, bundle, private, pairs, mail>>,
         \A u, v \in User, k \in Contacts!Key : Brought(u, v, k)' => Brought(u, v, k)
  PROVE  KeysRight'
<1>1. \A u, v \in User, k \in Contacts!Key : /\ Bundled(u, v, k)' <=> Bundled(u, v, k)
                                             /\ Begun(u, v, k)' <=> Begun(u, v, k)
  BY DEF Bundled, Begun
<1>2. HeldOnce'
  BY <1>1 DEF KeysRight, HeldOnce
<1>3. HandedOnce'
  BY <1>1 DEF KeysRight, HandedOnce, Sent
<1>4. StillPrivate'
  BY <1>1 DEF KeysRight, StillPrivate, Sent
<1>5. QED
  BY <1>2, <1>3, <1>4 DEF KeysRight

LEMMA KeysStep ==
  ASSUME ContactSizes, Contacts!TypeOK, KeysRight, [Contacts!Next]_(Contacts!vars)
  PROVE  KeysRight'
<1> USE DEF Contacts!requests, Contacts!keys, Contacts!local
<1>0. CASE UNCHANGED Contacts!vars
  BY <1>0, KeysStay DEF Contacts!vars, Brought
<1>1. ASSUME NEW p \in Asking, Contacts!Ask(p) \/ Contacts!Expire(p) \/ Contacts!Accept(p) \/ Contacts!Reject(p)
      PROVE  KeysRight'
  BY <1>1, KeysStay DEF Contacts!Ask, Contacts!Expire, Contacts!Accept, Contacts!Reject, Brought
<1>2. ASSUME NEW u \in User, NEW v \in User, Contacts!InsertAck(u, v) \/ Contacts!CommitAck(u, v)
      PROVE  KeysRight'
  BY <1>2, KeysStay DEF Contacts!InsertAck, Contacts!CommitAck, Brought
<1>3. ASSUME NEW u \in User, NEW v \in User, Contacts!FetchBundle(u, v) PROVE KeysRight'
  BY <1>3, KeysStay, TypeParts DEF Contacts!FetchBundle, Brought
<1>4. ASSUME NEW u \in User, Contacts!SaveRemote(u) PROVE KeysRight'
  <2>1. doing' = [doing EXCEPT ![u].at = "remote"] /\ doing[u].at = "session" /\ doing[u] \in Doing
    BY <1>4, ContactsTyped DEF Contacts!SaveRemote
  <2>2. doing'[u].at = "remote" /\ \A w \in User : w # u => doing'[w] = doing[w]
    BY <2>1, TypeParts DEF Doing
  <2>3. QED
    BY <1>4, <2>2, KeysStay DEF Contacts!SaveRemote, Brought
<1>5. ASSUME NEW u \in User, Contacts!FinishContact(u) \/ Contacts!Crash(u) PROVE KeysRight'
  <2>1. doing'[u].at = "idle" /\ \A w \in User : w # u => doing'[w] = doing[w]
    BY <1>5, TypeParts DEF Contacts!FinishContact, Contacts!Crash, Contacts!Idle
  <2>2. QED
    BY <1>5, <2>1, KeysStay DEF Contacts!FinishContact, Contacts!Crash, Brought
<1>6. ASSUME NEW u \in User, Contacts!TakeClassical(u) PROVE KeysRight'
  <2>1. /\ doing[u].at = "bundle" /\ doing[u] \in Doing /\ doing[u].peer \in User
        /\ UNCHANGED <<free, private, pairs, mail>>
    BY <1>6, ContactsTyped DEF Contacts!TakeClassical
  <2>2. CASE doing' = [doing EXCEPT ![u] = Contacts!Idle] /\ UNCHANGED bundle
    <3>1. doing'[u].at = "idle" /\ \A w \in User : w # u => doing'[w] = doing[w]
      BY <2>2, TypeParts DEF Contacts!Idle
    <3>2. QED
      BY <2>1, <2>2, <3>1, KeysStay DEF Brought
  <2>3. CASE doing' # [doing EXCEPT ![u] = Contacts!Idle] \/ ~UNCHANGED bundle
    <3> DEFINE v == doing[u].peer
               t == Contacts!Take(v, "classical")
               new == [at |-> "taken one", of |-> v, keys |-> [Contacts!NoKeys EXCEPT !["classical"] = t]]
    <3>1. bundle' = [bundle EXCEPT ![u] = new] /\ UNCHANGED doing
      BY <1>6, <2>3 DEF Contacts!TakeClassical
    <3>2. new.at = "taken one" /\ new.of = v /\ new.keys["classical"] = t
      BY DEF Contacts!NoKeys, Contacts!Kind
    <3>3. t = Contacts!NoKey \/ (t \in free[v]["classical"] /\ t \notin Contacts!Held(v, "classical"))
      BY <2>1, TakeFacts DEF Contacts!Kind
    <3>4. bundle'[u] = new /\ \A w \in User : w # u => bundle'[w] = bundle[w]
      BY <3>1, TypeParts
    <3> HIDE DEF new, t
    <3>5. \A w, x \in User, k \in Contacts!Key : Bundled(w, x, k)' =>
            \/ w # u /\ Bundled(w, x, k)
            \/ w = u /\ x = v /\ k = t
      BY <3>2, <3>4 DEF Bundled
    <3>6. \A w \in User : Bundled(w, v, t) => t \in Contacts!Held(v, "classical")
      BY DEF Bundled, Contacts!Held
    <3>7. \A k \in Contacts!Key : k = t => t \in free[v]["classical"] /\ \A w \in User : ~Bundled(w, v, t)
      BY <3>3, <3>6, KeyFacts
    <3>8. HeldOnce'
      BY <2>1, <3>5, <3>7 DEF KeysRight, HeldOnce
    <3>9. \A w, x \in User, k \in Contacts!Key : /\ Brought(w, x, k)' <=> Brought(w, x, k)
                                                 /\ Begun(w, x, k)' <=> Begun(w, x, k)
      BY <2>1, <3>1 DEF Brought, Begun
    <3>10. UNCHANGED <<free, private, mail>>
      BY <2>1
    <3>11. HandedOnce'
      BY <3>9, <3>10 DEF KeysRight, HandedOnce, Sent
    <3>12. StillPrivate'
      BY <3>9, <3>10 DEF KeysRight, StillPrivate, Sent
    <3>13. QED
      BY <3>8, <3>11, <3>12 DEF KeysRight
  <2>4. QED
    BY <2>2, <2>3
<1>7. ASSUME NEW u \in User, Contacts!TakePq(u) PROVE KeysRight'
  <2>1. /\ bundle[u] \in Bundle /\ UNCHANGED <<free, private, pairs, mail, doing>>
        /\ bundle[u].at = "taken one"
    BY <1>7, ContactsTyped DEF Contacts!TakePq
  <2>2. /\ bundle'[u].of = bundle[u].of /\ bundle'[u].keys["classical"] = bundle[u].keys["classical"]
        /\ \A w \in User : w # u => bundle'[w] = bundle[w]
    BY <1>7, <2>1, TypeParts DEF Contacts!TakePq, Bundle, Contacts!Keys, Contacts!Kind
  <2>3. bundle[u] # Contacts!Idle
    BY <2>1, IdleAt
  <2>4. \A w, x \in User, k \in Contacts!Key : Bundled(w, x, k)' => Bundled(w, x, k)
    BY <2>2, <2>3 DEF Bundled
  <2>5. HeldOnce'
    BY <2>1, <2>4 DEF KeysRight, HeldOnce
  <2>6. \A w, x \in User, k \in Contacts!Key : /\ Brought(w, x, k)' <=> Brought(w, x, k)
                                               /\ Begun(w, x, k)' <=> Begun(w, x, k)
    BY <2>1 DEF Brought, Begun
  <2>7. UNCHANGED <<free, private, mail>>
    BY <2>1
  <2>8. HandedOnce'
    BY <2>6, <2>7 DEF KeysRight, HandedOnce, Sent
  <2>9. StillPrivate'
    BY <2>6, <2>7 DEF KeysRight, StillPrivate, Sent
  <2>10. QED
    BY <2>5, <2>8, <2>9 DEF KeysRight
<1>8. ASSUME NEW u \in User, Contacts!CommitBundle(u) PROVE KeysRight'
  <2> DEFINE v == bundle[u].of
             t == bundle[u].keys["classical"]
  <2>1. /\ bundle[u] \in Bundle /\ v \in User /\ UNCHANGED <<private, pairs, mail>>
        /\ bundle[u].at = "taken both"
    BY <1>8, ContactsTyped DEF Contacts!CommitBundle, Bundle
  <2>2. bundle'[u] = Contacts!Idle /\ \A w \in User : w # u => bundle'[w] = bundle[w]
    BY <1>8, TypeParts DEF Contacts!CommitBundle
  <2>3. \A x \in User : free'[x]["classical"] =
          IF x = v THEN free[x]["classical"] \ {t} ELSE free[x]["classical"]
    BY <1>8, <2>1, TypeParts DEF Contacts!CommitBundle, Contacts!Kind
  <2>4. \A w \in User : \/ doing'[w] = doing[w]
                        \/ w = u /\ doing'[w].peer = v /\ doing'[w].keys = bundle[u].keys
    BY <1>8, TypeParts DEF Contacts!CommitBundle
  <2>5. bundle[u] # Contacts!Idle
    BY <2>1, IdleAt
  <2>6. \A k \in Contacts!Key : k = t => Bundled(u, v, k)
    BY <2>5 DEF Bundled
  <2>7. \A w, x \in User, k \in Contacts!Key : Bundled(w, x, k)' => w # u /\ Bundled(w, x, k)
    BY <2>2 DEF Bundled
  <2>8. \A w, x \in User, k \in Contacts!Key : Brought(w, x, k)' =>
          \/ Brought(w, x, k)
          \/ w = u /\ x = v /\ k = t
    BY <2>4 DEF Brought
  <2>9. \A w, x \in User, k \in Contacts!Key : Begun(w, x, k)' <=> Begun(w, x, k)
    BY <2>1 DEF Begun
  <2>10. \A m : \A x \in User, k \in Contacts!Key : Sent(m, x, k)' <=> Sent(m, x, k)
    BY DEF Sent
  <2>11. \A k \in Contacts!Key : k = t =>
           /\ k \in free[v]["classical"] /\ \A w \in User : Bundled(w, v, k) => w = u
           /\ \A w \in User : ~Brought(w, v, k) /\ ~Begun(w, v, k)
           /\ \A m \in mail : ~Sent(m, v, k)
    BY <2>1, <2>6 DEF KeysRight, HeldOnce, HandedOnce
  <2> HIDE DEF v, t
  <2>12. HeldOnce'
    <3>1. SUFFICES ASSUME NEW x \in User, NEW k \in Contacts!Key, NEW w \in User, Bundled(w, x, k)'
                   PROVE  /\ k \in free'[x]["classical"]
                          /\ \A y \in User : Bundled(y, x, k)' => y = w
      BY DEF HeldOnce
    <3>2. w # u /\ Bundled(w, x, k)
      BY <2>7, <3>1
    <3>3. k \in free[x]["classical"] /\ \A y \in User : Bundled(y, x, k) => y = w
      BY <3>2 DEF KeysRight, HeldOnce
    <3>4. ~(x = v /\ k = t)
      BY <2>11, <3>2
    <3>5. QED
      BY <2>3, <2>7, <3>3, <3>4
  <2>13. HandedOnce'
    <3>1. \A x \in User, k \in Contacts!Key : k \notin free[x]["classical"] => k \notin free'[x]["classical"]
      BY <2>3
    <3>2. \A k \in Contacts!Key : k = t => k \notin free'[v]["classical"]
      BY <2>1, <2>3
    <3>3. SUFFICES ASSUME NEW x \in User, NEW k \in Contacts!Key
                   PROVE  (/\ \A w \in User : Brought(w, x, k) =>
                                /\ k \notin free[x]["classical"]
                                /\ \A y \in User : (Brought(y, x, k) => y = w) /\ ~Begun(y, x, k)
                                /\ \A m \in mail : ~Sent(m, x, k)
                           /\ \A w \in User : Begun(w, x, k) =>
                                /\ k \notin free[x]["classical"]
                                /\ \A y \in User : Begun(y, x, k) => y = w
                                /\ \A m \in mail : ~Sent(m, x, k)
                           /\ \A m \in mail : Sent(m, x, k) =>
                                /\ k \notin free[x]["classical"]
                                /\ \A n \in mail : Sent(n, x, k) => n = m)'
      BY DEF HandedOnce
    <3>4. CASE x = v /\ k = t
      BY <2>1, <2>8, <2>9, <2>10, <2>11, <3>2, <3>4
    <3>5. CASE ~(x = v /\ k = t)
      <4>1. \A w \in User : (Brought(w, x, k)' => Brought(w, x, k)) /\ (Begun(w, x, k)' <=> Begun(w, x, k))
        BY <2>8, <2>9, <3>5
      <4>2. \A m : Sent(m, x, k)' <=> Sent(m, x, k)
        BY <2>10
      <4>3. mail' = mail
        BY <2>1
      <4>4. k \notin free[x]["classical"] => k \notin free'[x]["classical"]
        BY <3>1
      <4>5. /\ \A w \in User : Brought(w, x, k) =>
                 /\ k \notin free[x]["classical"]
                 /\ \A y \in User : (Brought(y, x, k) => y = w) /\ ~Begun(y, x, k)
                 /\ \A m \in mail : ~Sent(m, x, k)
            /\ \A w \in User : Begun(w, x, k) =>
                 /\ k \notin free[x]["classical"]
                 /\ \A y \in User : Begun(y, x, k) => y = w
                 /\ \A m \in mail : ~Sent(m, x, k)
            /\ \A m \in mail : Sent(m, x, k) =>
                 /\ k \notin free[x]["classical"]
                 /\ \A n \in mail : Sent(n, x, k) => n = m
        BY DEF KeysRight, HandedOnce
      <4>6. QED
        BY <4>1, <4>2, <4>3, <4>4, <4>5
    <3>6. QED
      BY <3>4, <3>5
  <2>14. StillPrivate'
    <3>1. \A x \in User, k \in Contacts!Key : k \in free'[x]["classical"] => k \in free[x]["classical"]
      BY <2>3
    <3>2. QED
      <4>1. SUFFICES ASSUME NEW x \in User, NEW k \in Contacts!Key,
                            \/ k \in free'[x]["classical"]
                            \/ \E w \in User : Brought(w, x, k)' \/ Begun(w, x, k)'
                            \/ \E m \in mail' : Sent(m, x, k)'
                     PROVE  k \in private'[x]
        BY DEF StillPrivate
      <4>2. \/ k \in free[x]["classical"]
            \/ \E w \in User : Brought(w, x, k) \/ Begun(w, x, k)
            \/ \E m \in mail : Sent(m, x, k)
        BY <2>1, <2>8, <2>9, <2>10, <2>11, <3>1, <4>1
      <4>3. k \in private[x]
        BY <4>2 DEF KeysRight, StillPrivate
      <4>4. QED
        BY <2>1, <4>3
  <2>15. QED
    BY <2>12, <2>13, <2>14 DEF KeysRight
<1>9. ASSUME NEW u \in User, Contacts!RollBack(u) PROVE KeysRight'
  <2>1. bundle'[u] = Contacts!Idle /\ UNCHANGED <<free, private, pairs, mail>>
          /\ \A w \in User : w # u => bundle'[w] = bundle[w]
    BY <1>9, TypeParts DEF Contacts!RollBack
  <2>2. \A w \in User : doing'[w] = doing[w] \/ doing'[w].at = "idle"
    BY <1>9, TypeParts DEF Contacts!RollBack, Contacts!Idle
  <2>3. \A w, x \in User, k \in Contacts!Key : /\ Bundled(w, x, k)' => Bundled(w, x, k)
                                               /\ Brought(w, x, k)' => Brought(w, x, k)
                                               /\ Begun(w, x, k)' <=> Begun(w, x, k)
    BY <2>1, <2>2 DEF Bundled, Brought, Begun
  <2>4. HeldOnce'
    BY <2>1, <2>3 DEF KeysRight, HeldOnce
  <2>5. HandedOnce'
    BY <2>1, <2>3 DEF KeysRight, HandedOnce, Sent
  <2>6. StillPrivate'
    BY <2>1, <2>3 DEF KeysRight, StillPrivate, Sent
  <2>7. QED
    BY <2>4, <2>5, <2>6 DEF KeysRight
<1>10. ASSUME NEW u \in User, Contacts!Establish(u) PROVE KeysRight'
  <2> DEFINE v == doing[u].peer
  <2>1. /\ doing[u] \in Doing /\ v \in User /\ doing[u].at = "answer"
        /\ UNCHANGED <<free, bundle, private, mail>>
    BY <1>10, ContactsTyped DEF Contacts!Establish
  <2>2. doing'[u].at = "session" /\ \A w \in User : w # u => doing'[w] = doing[w]
    BY <1>10, <2>1, TypeParts DEF Contacts!Establish, Doing
  <2>3. /\ pairs'[<<u, v>>].keys = doing[u].keys
        /\ \A w, x \in User : <<w, x>> # <<u, v>> => pairs'[<<w, x>>] = pairs[<<w, x>>]
    BY <1>10, <2>1, TypeParts DEF Contacts!Establish
  <2>4. \A w, x \in User, k \in Contacts!Key : Begun(w, x, k)' =>
          \/ Begun(w, x, k)
          \/ w = u /\ x = v /\ Brought(u, v, k)
    BY <2>1, <2>3 DEF Begun, Brought
  <2>5. \A w, x \in User, k \in Contacts!Key : Brought(w, x, k)' => w # u /\ Brought(w, x, k)
    BY <2>2 DEF Brought
  <2>6. \A w, x \in User, k \in Contacts!Key : Bundled(w, x, k)' <=> Bundled(w, x, k)
    BY <2>1 DEF Bundled
  <2> HIDE DEF v
  <2>7. HeldOnce'
    BY <2>1, <2>6 DEF KeysRight, HeldOnce
  <2>8. HandedOnce'
    BY <2>1, <2>4, <2>5 DEF KeysRight, HandedOnce, Sent
  <2>9. StillPrivate'
    BY <2>1, <2>4, <2>5 DEF KeysRight, StillPrivate, Sent
  <2>10. QED
    BY <2>7, <2>8, <2>9 DEF KeysRight
<1>11. ASSUME NEW u \in User, NEW v \in User, Contacts!SendFirst(u, v) PROVE KeysRight'
  <2> DEFINE new == [from |-> u, to |-> v, keys |-> pairs[<<u, v>>].keys]
  <2>1. /\ pairs[<<u, v>>].at = "new" /\ mail' = mail \union {new}
        /\ UNCHANGED <<free, bundle, private, doing>>
    BY <1>11 DEF Contacts!SendFirst
  <2>2. /\ pairs'[<<u, v>>].at = "used"
        /\ \A w, x \in User : <<w, x>> # <<u, v>> => pairs'[<<w, x>>] = pairs[<<w, x>>]
    BY <1>11, TypeParts DEF Contacts!SendFirst
  <2>3. \A x \in User, k \in Contacts!Key : Sent(new, x, k) => x = v /\ Begun(u, v, k)
    BY <2>1 DEF Sent, Begun
  <2>4. \A w, x \in User, k \in Contacts!Key : Begun(w, x, k)' => Begun(w, x, k) /\ <<w, x>> # <<u, v>>
    BY <2>2 DEF Begun
  <2>5. \A w, x \in User, k \in Contacts!Key : /\ Bundled(w, x, k)' <=> Bundled(w, x, k)
                                               /\ Brought(w, x, k)' <=> Brought(w, x, k)
    BY <2>1 DEF Bundled, Brought
  <2>6. \A m : \A x \in User, k \in Contacts!Key : Sent(m, x, k)' <=> Sent(m, x, k)
    BY DEF Sent
  <2> HIDE DEF new
  <2>7. HeldOnce'
    BY <2>1, <2>5 DEF KeysRight, HeldOnce
  <2>8. HandedOnce'
    BY <2>1, <2>3, <2>4, <2>5, <2>6 DEF KeysRight, HandedOnce
  <2>9. StillPrivate'
    BY <2>1, <2>3, <2>4, <2>5, <2>6 DEF KeysRight, StillPrivate
  <2>10. QED
    BY <2>7, <2>8, <2>9 DEF KeysRight
<1>12. ASSUME NEW m \in mail, Contacts!Receive(m) PROVE KeysRight'
  <2> DEFINE v == m.to
             t == m.keys["classical"]
  <2>1. /\ v \in User /\ m.from \in User /\ mail' = mail \ {m}
        /\ UNCHANGED <<free, bundle, doing>>
    BY <1>12, TypeParts DEF Contacts!Receive
  <2>2. \A x \in User : private'[x] = IF x = v THEN private[x] \ {t} ELSE private[x]
    BY <1>12, <2>1, TypeParts DEF Contacts!Receive
  <2>3. \A w, x \in User : pairs'[<<w, x>>].at = "used" \/ pairs'[<<w, x>>] = pairs[<<w, x>>]
    BY <1>12, <2>1, TypeParts DEF Contacts!Receive
  <2>4. \A w, x \in User, k \in Contacts!Key : Begun(w, x, k)' => Begun(w, x, k)
    BY <2>3 DEF Begun
  <2>5. \A w, x \in User, k \in Contacts!Key : /\ Bundled(w, x, k)' <=> Bundled(w, x, k)
                                               /\ Brought(w, x, k)' <=> Brought(w, x, k)
    BY <2>1 DEF Bundled, Brought
  <2>6. \A n : \A x \in User, k \in Contacts!Key : Sent(n, x, k)' <=> Sent(n, x, k)
    BY DEF Sent
  <2>7. \A k \in Contacts!Key : k = t => Sent(m, v, k)
    BY DEF Sent
  <2> HIDE DEF v, t
  <2>8. \A k \in Contacts!Key : k = t =>
          /\ k \notin free[v]["classical"]
          /\ \A w \in User : ~Brought(w, v, k) /\ ~Begun(w, v, k)
          /\ \A n \in mail : Sent(n, v, k) => n = m
    BY <2>1, <2>7 DEF KeysRight, HandedOnce
  <2>9. HeldOnce'
    BY <2>1, <2>5 DEF KeysRight, HeldOnce
  <2>10. HandedOnce'
    BY <2>1, <2>4, <2>5, <2>6 DEF KeysRight, HandedOnce
  <2>11. StillPrivate'
    <3>1. SUFFICES ASSUME NEW x \in User, NEW k \in Contacts!Key,
                          \/ k \in free'[x]["classical"]
                          \/ \E w \in User : Brought(w, x, k)' \/ Begun(w, x, k)'
                          \/ \E n \in mail' : Sent(n, x, k)'
                   PROVE  k \in private'[x]
      BY DEF StillPrivate
    <3>2. \/ k \in free[x]["classical"]
          \/ \E w \in User : Brought(w, x, k) \/ Begun(w, x, k)
          \/ \E n \in mail : n # m /\ Sent(n, x, k)
      BY <2>1, <2>4, <2>5, <2>6, <3>1
    <3>3. k \in private[x]
      BY <3>2 DEF KeysRight, StillPrivate
    <3>4. ~(x = v /\ k = t)
      BY <2>8, <3>2
    <3>5. QED
      BY <2>2, <3>3, <3>4
  <2>12. QED
    BY <2>9, <2>10, <2>11 DEF KeysRight
<1>13. QED
  BY <1>0, <1>1, <1>2, <1>3, <1>4, <1>5, <1>6, <1>7, <1>8, <1>9, <1>10, <1>11, <1>12
  DEF Contacts!Next

LEMMA ContactsInvStep ==
  ASSUME ContactSizes, ContactsInv, [Contacts!Next]_(Contacts!vars)
  PROVE  ContactsInv'
<1>1. Contacts!TypeOK'
  BY ContactsTypeStep DEF ContactsInv
<1>2. KeysRight'
  BY KeysStep DEF ContactsInv, KeysRight
<1>3. AcksGiven'
  BY ZenonT(60) DEF ContactsInv, AcksGiven, Contacts!Next, Contacts!vars, Contacts!requests, Contacts!Ask,
         Contacts!Expire, Contacts!Accept, Contacts!Reject, Contacts!InsertAck, Contacts!CommitAck,
         Contacts!TakeClassical, Contacts!TakePq, Contacts!CommitBundle, Contacts!RollBack,
         Contacts!FetchBundle, Contacts!Establish, Contacts!SaveRemote, Contacts!FinishContact,
         Contacts!SendFirst, Contacts!Receive, Contacts!Crash
<1>4. QED
  BY <1>1, <1>2, <1>3 DEF ContactsInv, KeysRight

-----------------------------------------------------------------------------
LEMMA OpensImplied == ASSUME ContactSizes, ContactsInv PROVE Contacts!FirstMessageOpens
<1>1. SUFFICES ASSUME NEW m \in mail PROVE Contacts!CanOpen(m)
  BY DEF Contacts!FirstMessageOpens
<1>2. m.to \in User /\ m.keys["classical"] \in Contacts!Key \union {Contacts!NoKey}
  BY TypeParts DEF ContactsInv, Contacts!Keys, Contacts!Kind
<1>3. m.keys["classical"] \in Contacts!Key => Sent(m, m.to, m.keys["classical"])
  BY DEF Sent
<1>4. QED
  BY <1>2, <1>3 DEF ContactsInv, StillPrivate, Contacts!CanOpen

LEMMA Standing ==
  ASSUME ContactSizes, ContactsInv, [Contacts!Next]_(Contacts!vars)
  PROVE  Contacts!StandingDecisions
<1>1. SUFFICES ASSUME NEW p \in Asking, asked[p] = "accepted"
               PROVE  \/ asked'[p] = "accepted"
                      \/ asked'[p] = "none" /\ {p, <<p[2], p[1]>>} \subseteq acked'
  BY DEF Contacts!StandingDecisions
<1>2. asked \in [Asking -> {"none", "pending", "expired", "accepted", "rejected"}]
  BY TypeParts DEF ContactsInv, AgreedTyped
<1>3. ASSUME NEW q \in Asking, Contacts!Ask(q) \/ Contacts!Expire(q) \/ Contacts!Accept(q) \/ Contacts!Reject(q)
      PROVE  asked'[p] = "accepted"
  BY <1>1, <1>2, <1>3 DEF Contacts!Ask, Contacts!Expire, Contacts!Accept, Contacts!Reject, Contacts!AsksAnew
<1>4. ASSUME NEW u \in User, NEW v \in User, Contacts!CommitAck(u, v), asked'[p] # "accepted"
      PROVE  asked'[p] = "none" /\ {p, <<p[2], p[1]>>} \subseteq acked'
  <2>1. <<v, u>> \in ack /\ {p[1], p[2]} = {u, v} /\ asked'[p] = "none"
    BY <1>1, <1>2, <1>4 DEF Contacts!CommitAck
  <2>2. <<u, v>> \in acked' /\ <<v, u>> \in acked'
    BY <1>4, <2>1 DEF Contacts!CommitAck, ContactsInv, AcksGiven
  <2>3. p = <<p[1], p[2]>>
    BY DEF ContactSizes
  <2>4. p \in {<<u, v>>, <<v, u>>} /\ <<p[2], p[1]>> \in {<<u, v>>, <<v, u>>}
    BY <2>1, <2>3
  <2>5. QED
    BY <2>1, <2>2, <2>4
<1>5. asked' = asked \/ (\E q \in Asking : Contacts!Ask(q) \/ Contacts!Expire(q) \/ Contacts!Accept(q)
                                             \/ Contacts!Reject(q))
                     \/ \E u, v \in User : Contacts!CommitAck(u, v)
  BY DEF Contacts!Next, Contacts!vars, Contacts!requests, Contacts!InsertAck,
         Contacts!TakeClassical, Contacts!TakePq, Contacts!CommitBundle, Contacts!RollBack,
         Contacts!FetchBundle, Contacts!Establish, Contacts!SaveRemote, Contacts!FinishContact,
         Contacts!SendFirst, Contacts!Receive, Contacts!Crash
<1>6. QED
  BY <1>1, <1>3, <1>4, <1>5

\* Every variable has its type.
THEOREM ContactsTyping == ASSUME ContactSizes PROVE Contacts!Spec => []Contacts!TypeOK
<1>1. ContactsInv => Contacts!TypeOK
  BY DEF ContactsInv
<1>2. QED
  BY <1>1, ContactsInitInv, ContactsInvStep, PTL DEF Contacts!Spec

\* No two bundles share a one-time prekey, and its owner keeps the private half until the
\* first message is opened (prekeys.ts:230-259, signal-store.ts:296).
THEOREM Opens == ASSUME ContactSizes PROVE Contacts!Spec => []Contacts!FirstMessageOpens
BY OpensImplied, ContactsInitInv, ContactsInvStep, PTL DEF Contacts!Spec

\* What a recipient has accepted stands until both sides have confirmed the exchange
\* (conversations.ts:40-42, blind-dropbox.ts:19-21).
THEOREM Decisions == ASSUME ContactSizes PROVE Contacts!Spec => Contacts!DecisionStands
<1>1. ASSUME ContactsInv, [Contacts!Next]_(Contacts!vars)
      PROVE  [Contacts!StandingDecisions]_(Contacts!vars)
  BY <1>1, Standing
<1>2. QED
  BY <1>1, ContactsInitInv, ContactsInvStep, PTL DEF Contacts!Spec, Contacts!DecisionStands

(***************************************************************************)
(* Voice notes.                                                            *)
(***************************************************************************)
NoteSizes == MaxNotes \in Nat /\ MaxLocks \in Nat

\* What the button and the upload hold.
PointerTyped ==
  /\ pointer \in [at : {"up", "armed", "held"}, about : Conversation \union {None}, epoch : 0 .. MaxLocks]
  /\ pointer.at = "armed" => pointer.about \in Conversation
UploadTyped ==
  /\ uploading \in [at : {"none", "encrypt", "send"}, to : Conversation \union {None},
                    audio : SUBSET (1 .. MaxNotes), epoch : 0 .. MaxLocks]
  /\ uploading.audio # {} => uploading.to \in Conversation

\* One recording at a time: all but the last are over, and the one that is not has the
\* recorder once it has the microphone.
OneAtATime ==
  /\ ~overlap => \A n \in 1 .. Len(note) : n # Len(note) => note[n].at = "over"
  /\ \A n \in 1 .. Len(note) : note[n].at \in {"recording", "stopping"} => n = recorder

\* The sound that is kept is the recorder's, and one who is cancelled stays so while he records.
SoundIsRecorders ==
  /\ recorder <= Len(note) /\ chunks \subseteq {recorder} /\ 0 \notin chunks
  /\ ~overlap => \A n \in dropped : note[n].at # "over" => cancelled

\* What is sent is over, and was recorded where and when it is said to be.
IsOf(p, n) ==
  /\ n \in 1 .. Len(note) /\ note[n].at = "over"
  /\ note[n].about = p.to /\ note[n].epoch = p.epoch /\ n \notin dropped
SentInPlace ==
  /\ \A n \in uploading.audio : IsOf(uploading, n)
  /\ \A p \in posted : \A n \in p.audio : IsOf(p, n)

\* A session that is about to be locked can still be counted.
RestTyped ==
  /\ chat \in Conversation \union {None} /\ noteView \in {"unlocked", "quick", "locked"}
  /\ noteCsrf \in 0 .. MaxLocks /\ recorder \in Nat
  /\ closed \in BOOLEAN /\ recording \in BOOLEAN /\ cancelled \in BOOLEAN
  /\ heldLong \in BOOLEAN /\ pressed \in BOOLEAN /\ overlap \in BOOLEAN
  /\ noteView = "locked" /\ ~closed => noteCsrf < MaxLocks
PostedTyped == \A p \in posted : p.to \in Conversation /\ p.audio \subseteq 1 .. MaxNotes

NotesInv ==
  /\ Notes!TypeOK /\ RestTyped /\ PointerTyped /\ UploadTyped /\ dropped \subseteq 1 .. Len(note)
  /\ Len(note) <= MaxNotes
  /\ OneAtATime /\ SoundIsRecorders /\ SentInPlace

Recorded == [at : {"asking", "recording", "stopping", "over"}, about : Conversation,
             hold : BOOLEAN, epoch : 0 .. MaxLocks]

-----------------------------------------------------------------------------
(* What a step does to the notes.                                          *)

\* A recording that is asked for is a note more; the others go on, and one that is
\* over stays as it is.
NotesKept ==
  /\ note' \in Seq(Recorded) /\ Len(note') \in Nat /\ Len(note) <= Len(note') /\ Len(note') <= MaxNotes
  /\ \A n \in 1 .. Len(note) :
       /\ note'[n].about = note[n].about /\ note'[n].epoch = note[n].epoch
       /\ note[n].at = "over" => note'[n].at = "over"

LEMMA NotesTyped ==
  ASSUME NoteSizes, NotesInv
  PROVE  /\ note \in Seq(Recorded) /\ Len(note) \in Nat
         /\ \A n \in 1 .. Len(note) : note[n] \in Recorded /\ n \in 1 .. MaxNotes
<1>1. note \in Seq(Recorded)
  BY DEF NotesInv, Notes!TypeOK, Recorded
<1>2. Len(note) \in Nat /\ Len(note) <= MaxNotes /\ MaxNotes \in Nat
  BY <1>1 DEF NotesInv, NoteSizes
<1>3. \A n \in 1 .. Len(note) : note[n] \in Recorded
  BY <1>1
<1>4. \A n \in 1 .. Len(note) : n \in 1 .. MaxNotes
  BY <1>2
<1>5. QED
  BY <1>1, <1>2, <1>3, <1>4

LEMMA GoesFacts ==
  ASSUME NoteSizes, NotesInv, NEW n \in 1 .. Len(note),
         NEW state \in {"asking", "recording", "stopping", "over"},
         note[n].at # "over", Notes!Goes(n, state)
  PROVE  /\ NotesKept /\ Len(note') = Len(note)
         /\ note'[n].at = state
         /\ \A k \in 1 .. Len(note) : k # n => note'[k] = note[k]
<1>1. note' = [note EXCEPT ![n].at = state]
  BY DEF Notes!Goes
<1>2. note \in Seq(Recorded) /\ Len(note) \in Nat /\ Len(note) <= MaxNotes
  BY NotesTyped DEF NotesInv
<1>3. [note[n] EXCEPT !.at = state] \in Recorded
  BY NotesTyped DEF Recorded
<1>4. note' \in Seq(Recorded) /\ Len(note') = Len(note)
  BY <1>1, <1>2, <1>3
<1>5. \A k \in 1 .. Len(note) :
        note'[k] = IF k = n THEN [note[n] EXCEPT !.at = state] ELSE note[k]
  BY <1>1, <1>2
<1>6. QED
  BY <1>2, <1>4, <1>5, NotesTyped DEF NotesKept, Recorded

LEMMA AppendFacts ==
  ASSUME NoteSizes, NotesInv, NEW new \in Recorded, Len(note) < MaxNotes,
         note' = Append(note, new)
  PROVE  /\ NotesKept /\ Len(note') = Len(note) + 1
         /\ note'[Len(note) + 1] = new
         /\ \A k \in 1 .. Len(note) : note'[k] = note[k]
<1>1. note \in Seq(Recorded) /\ Len(note) \in Nat
  BY NotesTyped
<1>2. /\ note' \in Seq(Recorded) /\ Len(note') = Len(note) + 1
      /\ note'[Len(note) + 1] = new
      /\ \A k \in 1 .. Len(note) : note'[k] = note[k]
  BY <1>1
<1>3. QED
  BY <1>1, <1>2, NotesTyped DEF NotesKept, NoteSizes

\* What was sent stays where it is while the user cancels only what still records.
LEMMA SentStays ==
  ASSUME NoteSizes, NotesInv, NotesKept,
         \/ dropped' = dropped
         \/ \A n \in dropped' : n \in dropped \/ (n \in 1 .. Len(note) /\ note[n].at # "over")
  PROVE  \A p : \A n : IsOf(p, n) => IsOf(p, n)'
<1>1. SUFFICES ASSUME NEW p, NEW n, IsOf(p, n) PROVE IsOf(p, n)'
  OBVIOUS
<1>2. n \in 1 .. Len(note) /\ note[n].at = "over"
  BY <1>1 DEF IsOf
<1>3. n \in 1 .. Len(note')
  BY <1>2, NotesTyped DEF NotesKept
<1>4. QED
  BY <1>1, <1>2, <1>3 DEF IsOf, NotesKept

-----------------------------------------------------------------------------
(* Steps.                                                                  *)

\* Asking for a recording: nothing, or one more note, while all that were are over
\* unless two overlap from now on.
LEMMA StartStep ==
  ASSUME NoteSizes, NotesInv, ~overlap, NEW c \in Conversation, NEW e \in 0 .. MaxLocks,
         NEW h \in BOOLEAN, Notes!Start(c, e, h)
  PROVE  /\ NotesKept /\ dropped' = dropped /\ recorder' = recorder /\ recording' = recording
         /\ chunks' = chunks /\ cancelled' \in BOOLEAN /\ overlap' \in BOOLEAN
         /\ OneAtATime' /\ SoundIsRecorders'
<1>1. CASE uploading.at # "none"
  <2>1. UNCHANGED <<note, recorder, recording, cancelled, chunks, dropped, overlap>>
    BY <1>1 DEF Notes!Start, Notes!audio
  <2>2. NotesKept
    BY <2>1, NotesTyped DEF NotesKept, NotesInv
  <2>3. OneAtATime' /\ SoundIsRecorders'
    BY <2>1 DEF NotesInv, OneAtATime, SoundIsRecorders
  <2>4. QED
    BY <2>1, <2>2, <2>3 DEF NotesInv, Notes!TypeOK
<1>2. CASE uploading.at = "none"
  <2> DEFINE new == [at |-> "asking", about |-> c, hold |-> h, epoch |-> e]
  <2>1. /\ Len(note) < MaxNotes /\ note' = Append(note, new)
        /\ cancelled' = FALSE /\ overlap' = (overlap \/ Notes!Notes("over") # 1 .. Len(note))
        /\ UNCHANGED <<recorder, recording, chunks, dropped>>
    BY <1>2 DEF Notes!Start
  <2>2. new \in Recorded
    BY DEF Recorded
  <2> HIDE DEF new
  <2>3. /\ NotesKept /\ Len(note') = Len(note) + 1 /\ note'[Len(note) + 1] = new
        /\ \A k \in 1 .. Len(note) : note'[k] = note[k]
    BY <2>1, <2>2, AppendFacts
  <2>4. new.at = "asking"
    BY DEF new
  <2>5. Len(note) \in Nat
    BY NotesTyped
  <2>6. ~overlap' => \A n \in 1 .. Len(note) : note[n].at = "over"
    BY <2>1 DEF Notes!Notes
  <2>7. OneAtATime'
    BY <2>1, <2>3, <2>4, <2>5, <2>6 DEF OneAtATime, NotesInv
  <2>8. dropped \subseteq 1 .. Len(note)
    BY DEF NotesInv
  <2>9. SoundIsRecorders'
    <3>1. recorder' <= Len(note') /\ chunks' \subseteq {recorder'} /\ 0 \notin chunks'
      BY <2>1, <2>3, <2>5 DEF NotesInv, SoundIsRecorders, Notes!TypeOK, NoteSizes
    <3>2. ~overlap' => \A n \in dropped' : note'[n].at # "over" => cancelled'
      BY <2>1, <2>3, <2>6, <2>8
    <3>3. QED
      BY <3>1, <3>2 DEF SoundIsRecorders
  <2>10. overlap' \in BOOLEAN
    BY <2>1 DEF NotesInv, Notes!TypeOK
  <2>11. QED
    BY <2>1, <2>3, <2>7, <2>9, <2>10
<1>3. QED
  BY <1>1, <1>2

\* Stopping: the recorder's note, if it records, is about to be over.
LEMMA StopStep ==
  ASSUME NoteSizes, NotesInv, Notes!Stop
  PROVE  /\ NotesKept /\ Len(note') = Len(note)
         /\ \A n \in 1 .. Len(note) :
              \/ note'[n] = note[n]
              \/ n = recorder /\ note[n].at = "recording" /\ note'[n].at = "stopping"
<1>1. CASE recorder \in Notes!Notes("recording")
  <2>1. recorder \in 1 .. Len(note) /\ note[recorder].at = "recording"
    BY <1>1 DEF Notes!Notes
  <2>2. Notes!Goes(recorder, "stopping")
    BY <1>1 DEF Notes!Stop
  <2>3. QED
    BY <2>1, <2>2, GoesFacts
<1>2. CASE recorder \notin Notes!Notes("recording")
  <2>1. note' = note
    BY <1>2 DEF Notes!Stop
  <2>2. QED
    BY <2>1, NotesTyped DEF NotesKept, NotesInv
<1>3. QED
  BY <1>1, <1>2

\* A step that does not touch the notes.
LEMMA NotesRest ==
  ASSUME NoteSizes, NotesInv,
         UNCHANGED <<note, recorder, cancelled, chunks, dropped, overlap>>
  PROVE  NotesKept /\ OneAtATime' /\ SoundIsRecorders' /\ (dropped \subseteq 1 .. Len(note))'
<1>1. NotesKept
  BY NotesTyped DEF NotesKept, NotesInv
<1>2. QED
  BY <1>1 DEF NotesInv, OneAtATime, SoundIsRecorders

\* Stopping disturbs nothing that is over.
LEMMA StopKeeps ==
  ASSUME NoteSizes, NotesInv, Notes!Stop, UNCHANGED <<recorder, chunks, overlap>>,
         \/ UNCHANGED <<dropped, cancelled>>
         \/ cancelled' = TRUE /\ dropped' \subseteq 1 .. Len(note)
  PROVE  NotesKept /\ OneAtATime' /\ SoundIsRecorders' /\ (dropped \subseteq 1 .. Len(note))'
<1>1. /\ NotesKept /\ Len(note') = Len(note)
      /\ \A n \in 1 .. Len(note) :
           \/ note'[n] = note[n]
           \/ n = recorder /\ note[n].at = "recording" /\ note'[n].at = "stopping"
  BY StopStep
<1>2. Len(note) \in Nat /\ dropped \subseteq 1 .. Len(note)
  BY NotesTyped DEF NotesInv
<1>3. OneAtATime'
  BY <1>1, <1>2 DEF OneAtATime, NotesInv
<1>4. SoundIsRecorders'
  <2>1. recorder' <= Len(note') /\ chunks' \subseteq {recorder'} /\ 0 \notin chunks'
    BY <1>1 DEF SoundIsRecorders, NotesInv
  <2>2. ASSUME ~overlap', NEW n \in dropped', note'[n].at # "over" PROVE cancelled'
    <3>1. CASE cancelled' = TRUE
      BY <3>1
    <3>2. CASE UNCHANGED <<dropped, cancelled>>
      <4>1. n \in dropped /\ n \in 1 .. Len(note) /\ note[n].at # "over"
        BY <1>1, <1>2, <2>2, <3>2
      <4>2. QED
        BY <2>2, <3>2, <4>1 DEF SoundIsRecorders, NotesInv
    <3>3. QED
      BY <3>1, <3>2
  <2>3. QED
    BY <2>1, <2>2 DEF SoundIsRecorders
<1>5. QED
  BY <1>1, <1>2, <1>3, <1>4

LEMMA NoteParts ==
  ASSUME NoteSizes, NotesInv
  PROVE  RestTyped /\ PostedTyped /\ chunks \subseteq 1 .. MaxNotes /\ dropped \subseteq 1 .. MaxNotes
BY DEF NotesInv, Notes!TypeOK, RestTyped, PostedTyped, NoteSizes, Notes!Note

LEMMA Assembled ==
  ASSUME NoteSizes, NotesKept, OneAtATime', SoundIsRecorders', (dropped \subseteq 1 .. Len(note))',
         RestTyped', PostedTyped', PointerTyped', UploadTyped', SentInPlace'
  PROVE  NotesInv'
<1>1. Len(note') \in Nat /\ Len(note') <= MaxNotes /\ note' \in Seq(Recorded)
  BY DEF NotesKept
<1>2. recorder' \in 0 .. MaxNotes
  BY <1>1 DEF SoundIsRecorders, NoteSizes, RestTyped
<1>3. chunks' \subseteq 1 .. MaxNotes
  BY <1>2 DEF SoundIsRecorders, NoteSizes
<1>4. dropped' \subseteq 1 .. MaxNotes
  BY <1>1 DEF NoteSizes
<1>5. Notes!TypeOK'
  <2>1. pointer'.at \in {"up", "armed", "held"} /\ uploading'.at \in {"none", "encrypt", "send"}
    BY DEF PointerTyped, UploadTyped
  <2>2. QED
    BY <1>1, <1>2, <1>3, <1>4, <2>1 DEF Notes!TypeOK, RestTyped, PostedTyped, Recorded, Notes!Note
<1>6. QED
  BY <1>1, <1>5 DEF NotesInv

LEMMA NotesInitInv == ASSUME NoteSizes, Notes!Init PROVE NotesInv
<1> USE DEF Notes!Init, NoteSizes, Notes!Released, Notes!NoUpload
<1>0. note \in Seq(Recorded) /\ Len(note) = 0
  OBVIOUS
<1>1. Notes!TypeOK
  <2>1. {closed, recording, cancelled, heldLong, pressed, overlap} \subseteq BOOLEAN
    OBVIOUS
  <2>2. QED
    BY <1>0, <2>1 DEF Notes!TypeOK, Notes!Note, Recorded
<1>2. PointerTyped /\ UploadTyped /\ PostedTyped
  BY DEF PointerTyped, UploadTyped, PostedTyped
<1>2a. RestTyped
  <2>1. chat \in Conversation \union {None} /\ noteView \in {"unlocked", "quick", "locked"}
    OBVIOUS
  <2>2. noteCsrf \in 0 .. MaxLocks /\ recorder \in Nat
    OBVIOUS
  <2>3. /\ closed \in BOOLEAN /\ recording \in BOOLEAN /\ cancelled \in BOOLEAN
        /\ heldLong \in BOOLEAN /\ pressed \in BOOLEAN /\ overlap \in BOOLEAN
    OBVIOUS
  <2>4. noteView # "locked"
    OBVIOUS
  <2>5. QED
    BY <2>1, <2>2, <2>3, <2>4 DEF RestTyped
<1>3. OneAtATime /\ SoundIsRecorders /\ SentInPlace
  BY DEF OneAtATime, SoundIsRecorders, SentInPlace
<1>4. QED
  BY <1>0, <1>1, <1>2, <1>2a, <1>3 DEF NotesInv

\* A step of the user's or the daemon's that starts no recording and ends none.
LEMMA QuietStep ==
  ASSUME NoteSizes, NotesInv,
         UNCHANGED <<note, recorder, cancelled, chunks, dropped, overlap>>,
         RestTyped', PointerTyped', UploadTyped', PostedTyped',
         \A n \in uploading'.audio : n \in uploading.audio /\ uploading'.to = uploading.to
                                       /\ uploading'.epoch = uploading.epoch,
         \A p \in posted' : p \in posted \/ \A n \in p.audio : IsOf(p, n)
  PROVE  NotesInv'
<1>1. NotesKept /\ OneAtATime' /\ SoundIsRecorders' /\ (dropped \subseteq 1 .. Len(note))'
  BY NotesRest
<1>2. SentInPlace'
  BY DEF SentInPlace, IsOf, NotesInv
<1>3. QED
  BY <1>1, <1>2, Assembled

\* A step that changes the notes and sends nothing.
LEMMA AudioStep ==
  ASSUME NoteSizes, NotesInv, NotesKept, OneAtATime', SoundIsRecorders', (dropped \subseteq 1 .. Len(note))',
         \/ dropped' = dropped
         \/ \A n \in dropped' : n \in dropped \/ (n \in 1 .. Len(note) /\ note[n].at # "over"),
         RestTyped', PointerTyped', UNCHANGED <<uploading, posted>>
  PROVE  NotesInv'
<1>1. SentInPlace'
  BY SentStays DEF SentInPlace, NotesInv
<1>2. UploadTyped' /\ PostedTyped'
  BY NoteParts DEF UploadTyped, PostedTyped, NotesInv
<1>3. QED
  BY <1>1, <1>2, Assembled

LEMMA NotesInvStep == ASSUME NoteSizes, NotesInv, [Notes!Next]_(Notes!vars) PROVE NotesInv'
<1> USE DEF Notes!session, Notes!audio, Notes!button, Notes!sending
<1>t. RestTyped /\ PostedTyped /\ PointerTyped /\ UploadTyped
  BY NoteParts DEF NotesInv
<1>0. CASE UNCHANGED Notes!vars
  BY <1>0, <1>t, QuietStep DEF Notes!vars, RestTyped, PostedTyped, PointerTyped, UploadTyped
<1>1. ASSUME ~overlap, NEW n \in Notes!Note, Notes!Grant(n) PROVE NotesInv'
  <2>1. n \in 1 .. Len(note) /\ note[n].at = "asking"
    BY <1>1 DEF Notes!Grant, Notes!Notes
  <2>2. PICK state \in {"over", "recording"} : Notes!Goes(n, state) /\
          \/ state = "over" /\ UNCHANGED <<recorder, recording, chunks>>
          \/ state = "recording" /\ recorder' = n /\ recording' = TRUE /\ chunks' = {}
    BY <1>1 DEF Notes!Grant, Notes!ChunksOf
  <2>3. /\ NotesKept /\ Len(note') = Len(note) /\ note'[n].at = state
        /\ \A k \in 1 .. Len(note) : k # n => note'[k] = note[k]
    BY <2>1, <2>2, GoesFacts
  <2>4. UNCHANGED <<chat, noteView, closed, noteCsrf, cancelled, dropped, overlap, pointer, heldLong,
                    pressed, uploading, posted>>
    BY <1>1 DEF Notes!Grant
  <2>5. OneAtATime'
    BY <1>1, <2>1, <2>2, <2>3, <2>4 DEF OneAtATime, NotesInv
  <2>6. SoundIsRecorders'
    BY <1>1, <2>1, <2>2, <2>3, <2>4 DEF SoundIsRecorders, NotesInv
  <2>7. RestTyped' /\ PointerTyped'
    <3>1. RestTyped'
      <4>1. recording' \in BOOLEAN
        BY <1>t, <2>2 DEF RestTyped
      <4>2. recorder' \in Nat
        BY <1>t, <2>1, <2>2, NotesTyped DEF RestTyped
      <4>3. QED
        BY <1>t, <2>4, <4>1, <4>2 DEF RestTyped
    <3>2. PointerTyped'
      BY <1>t, <2>1, <2>2, <2>4, NotesTyped DEF PointerTyped
    <3>3. QED
      BY <3>1, <3>2
  <2>8. (dropped \subseteq 1 .. Len(note))'
    BY <2>3, <2>4 DEF NotesInv
  <2>9. QED
    BY <2>3, <2>4, <2>5, <2>6, <2>7, <2>8, AudioStep
<1>2. ASSUME ~overlap, NEW n \in Notes!Note, Notes!Deny(n) PROVE NotesInv'
  <2>1. n \in 1 .. Len(note) /\ note[n].at = "asking" /\ Notes!Goes(n, "over")
    BY <1>2 DEF Notes!Deny, Notes!Notes
  <2>3. /\ NotesKept /\ Len(note') = Len(note) /\ note'[n].at = "over"
        /\ \A k \in 1 .. Len(note) : k # n => note'[k] = note[k]
    BY <2>1, GoesFacts
  <2>4. UNCHANGED <<chat, noteView, closed, noteCsrf, recorder, recording, cancelled, chunks, dropped,
                    overlap, pointer, heldLong, pressed, uploading, posted>>
    BY <1>2 DEF Notes!Deny
  <2>5. OneAtATime' /\ SoundIsRecorders'
    BY <2>1, <2>3, <2>4 DEF OneAtATime, SoundIsRecorders, NotesInv
  <2>7. RestTyped' /\ PointerTyped'
    BY <1>t, <2>4 DEF RestTyped, PointerTyped
  <2>8. (dropped \subseteq 1 .. Len(note))'
    BY <2>3, <2>4 DEF NotesInv
  <2>9. QED
    BY <2>3, <2>4, <2>5, <2>7, <2>8, AudioStep
<1>3. ASSUME ~overlap, NEW n \in Notes!Note, Notes!TrackEnds(n) PROVE NotesInv'
  <2>1. n \in 1 .. Len(note) /\ note[n].at = "recording" /\ Notes!Goes(n, "stopping")
    BY <1>3 DEF Notes!TrackEnds, Notes!Notes
  <2>3. /\ NotesKept /\ Len(note') = Len(note) /\ note'[n].at = "stopping"
        /\ \A k \in 1 .. Len(note) : k # n => note'[k] = note[k]
    BY <2>1, GoesFacts
  <2>4. UNCHANGED <<chat, noteView, closed, noteCsrf, recorder, recording, cancelled, chunks, dropped,
                    overlap, pointer, heldLong, pressed, uploading, posted>>
    BY <1>3 DEF Notes!TrackEnds
  <2>5. OneAtATime' /\ SoundIsRecorders'
    BY <2>1, <2>3, <2>4 DEF OneAtATime, SoundIsRecorders, NotesInv
  <2>7. RestTyped' /\ PointerTyped'
    BY <1>t, <2>4 DEF RestTyped, PointerTyped
  <2>8. (dropped \subseteq 1 .. Len(note))'
    BY <2>3, <2>4 DEF NotesInv
  <2>9. QED
    BY <2>3, <2>4, <2>5, <2>7, <2>8, AudioStep
<1>4. ASSUME ~overlap, NEW n \in Notes!Note, Notes!OnStop(n) PROVE NotesInv'
  <2>1. n \in 1 .. Len(note) /\ note[n].at = "stopping" /\ Notes!Goes(n, "over")
    BY <1>4 DEF Notes!OnStop, Notes!Notes
  <2>2. n = recorder
    BY <2>1 DEF NotesInv, OneAtATime
  <2>3. /\ NotesKept /\ Len(note') = Len(note) /\ note'[n].at = "over"
        /\ \A k \in 1 .. Len(note) : k # n => note'[k] = note[k]
    BY <2>1, GoesFacts
  <2>4. /\ UNCHANGED <<chat, noteView, closed, noteCsrf, recorder, cancelled, dropped, overlap, pointer,
                       heldLong, pressed, posted>>
        /\ recording' = FALSE
    BY <1>4 DEF Notes!OnStop
  <2>5. chunks' \subseteq {n} /\ chunks' \subseteq chunks \union {n}
    BY <1>4, <2>2 DEF Notes!OnStop, NotesInv, SoundIsRecorders
  <2>6. OneAtATime' /\ SoundIsRecorders'
    <3>1. OneAtATime'
      BY <2>1, <2>2, <2>3, <2>4 DEF OneAtATime, NotesInv
    <3>2. recorder' <= Len(note') /\ chunks' \subseteq {recorder'} /\ 0 \notin chunks'
      BY <2>1, <2>2, <2>3, <2>4, <2>5, NotesTyped DEF SoundIsRecorders, NotesInv
    <3>3. ~overlap' => \A k \in dropped' : note'[k].at # "over" => cancelled'
      BY <2>1, <2>3, <2>4 DEF SoundIsRecorders, NotesInv
    <3>4. QED
      BY <3>1, <3>2, <3>3 DEF SoundIsRecorders
  <2>7. RestTyped' /\ PointerTyped' /\ PostedTyped'
    BY <1>t, <2>4, ZenonT(60) DEF RestTyped, PointerTyped, PostedTyped
  <2>8. \A p : \A k : IsOf(p, k) => IsOf(p, k)'
    BY <2>3, <2>4, SentStays
  <2>9. \A p \in posted' : \A k \in p.audio : IsOf(p, k)'
    BY <2>4, <2>8 DEF NotesInv, SentInPlace
  <2>10. CASE UNCHANGED uploading
    <3>1. UploadTyped' /\ SentInPlace'
      BY <1>t, <2>8, <2>9, <2>10 DEF UploadTyped, SentInPlace, NotesInv
    <3>2. QED
      BY <2>3, <2>4, <2>6, <2>7, <3>1, Assembled DEF NotesInv
  <2>11. CASE /\ ~cancelled
              /\ uploading' = [at |-> "encrypt", to |-> note[n].about, audio |-> chunks',
                               epoch |-> note[n].epoch]
    <3>1. note[n] \in Recorded /\ n \in 1 .. MaxNotes
      BY <2>1, NotesTyped
    <3>2. UploadTyped'
      BY <2>5, <2>11, <3>1 DEF UploadTyped, Recorded
    <3>3. n \notin dropped
      BY <1>4, <2>1, <2>11 DEF NotesInv, SoundIsRecorders
    <3>4. \A k \in uploading'.audio : k = n
      BY <2>5, <2>11
    <3>5. /\ n \in 1 .. Len(note') /\ note'[n].at = "over" /\ n \notin dropped'
          /\ note'[n].about = uploading'.to /\ note'[n].epoch = uploading'.epoch
      BY <2>1, <2>3, <2>4, <2>11, <3>3 DEF NotesKept
    <3>6. SentInPlace'
      BY <2>9, <3>4, <3>5 DEF SentInPlace, IsOf
    <3>7. QED
      BY <2>3, <2>4, <2>6, <2>7, <3>2, <3>6, Assembled DEF NotesInv
  <2>12. QED
    BY <1>4, <2>10, <2>11 DEF Notes!OnStop
<1>5. ASSUME NEW c \in Conversation, Notes!Select(c) PROVE NotesInv'
  BY <1>5, <1>t, QuietStep DEF Notes!Select, RestTyped, PostedTyped, PointerTyped, UploadTyped
<1>6. ASSUME Notes!Back PROVE NotesInv'
  <2>1. /\ Notes!Stop /\ cancelled' = TRUE /\ pressed' = FALSE
        /\ dropped' = dropped \union Notes!Notes("recording") \union Notes!Notes("stopping")
        /\ UNCHANGED <<chat, noteView, closed, noteCsrf, recorder, recording, chunks, overlap, pointer,
                       heldLong, uploading, posted>>
    BY <1>6 DEF Notes!Back
  <2>2. \A n \in dropped' : n \in dropped \/ (n \in 1 .. Len(note) /\ note[n].at # "over")
    <3>1. \A n \in Notes!Notes("recording") \union Notes!Notes("stopping") :
            n \in 1 .. Len(note) /\ note[n].at # "over"
      BY DEF Notes!Notes
    <3>2. dropped' = dropped \union Notes!Notes("recording") \union Notes!Notes("stopping")
      BY <2>1
    <3>3. QED
      BY <3>1, <3>2
  <2>3. dropped' \subseteq 1 .. Len(note)
    BY <2>2 DEF NotesInv
  <2>4. NotesKept /\ OneAtATime' /\ SoundIsRecorders' /\ (dropped \subseteq 1 .. Len(note))'
    BY <2>1, <2>3, StopKeeps
  <2>5. RestTyped' /\ PointerTyped'
    BY <1>t, <2>1 DEF RestTyped, PointerTyped
  <2>6. QED
    BY <2>1, <2>2, <2>4, <2>5, AudioStep
<1>7. ASSUME Notes!Down PROVE NotesInv'
  BY <1>7, <1>t, QuietStep DEF Notes!Down, Notes!Shown, RestTyped, PostedTyped, PointerTyped, UploadTyped
<1>8. ASSUME ~overlap, Notes!HoldFires PROVE NotesInv'
  <2>1. /\ Notes!Start(pointer.about, pointer.epoch, TRUE) /\ heldLong' = TRUE /\ pressed' = TRUE
        /\ pointer.at = "armed"
        /\ UNCHANGED <<chat, noteView, closed, noteCsrf, uploading, posted>>
    BY <1>8 DEF Notes!HoldFires
  <2>2. pointer.about \in Conversation /\ pointer.epoch \in 0 .. MaxLocks
    BY <1>t, <2>1 DEF PointerTyped
  <2>3. /\ NotesKept /\ dropped' = dropped /\ recorder' = recorder /\ recording' = recording
        /\ cancelled' \in BOOLEAN /\ overlap' \in BOOLEAN
        /\ OneAtATime' /\ SoundIsRecorders'
    BY <1>8, <2>1, <2>2, StartStep
  <2>4. PointerTyped'
    BY <1>8, <1>t, <2>2 DEF Notes!HoldFires, PointerTyped, Notes!Released, NoteSizes
  <2>5. RestTyped'
    BY <1>t, <2>1, <2>3 DEF RestTyped
  <2>6. (dropped \subseteq 1 .. Len(note))'
    BY <2>3, NotesTyped DEF NotesInv, NotesKept
  <2>7. QED
    BY <2>1, <2>3, <2>4, <2>5, <2>6, AudioStep
<1>9. ASSUME Notes!Up PROVE NotesInv'
  <2>1. /\ pointer' = Notes!Released /\ pressed' = FALSE /\ (Notes!Stop \/ UNCHANGED note)
        /\ UNCHANGED <<chat, noteView, closed, noteCsrf, recorder, recording, cancelled, chunks, dropped,
                       overlap, heldLong, uploading, posted>>
    BY <1>9 DEF Notes!Up
  <2>2. NotesKept /\ OneAtATime' /\ SoundIsRecorders' /\ (dropped \subseteq 1 .. Len(note))'
    BY <2>1, StopKeeps, NotesRest
  <2>3. RestTyped' /\ PointerTyped'
    <3>1. RestTyped'
      BY <1>t, <2>1 DEF RestTyped
    <3>2. PointerTyped'
      BY <1>t, <2>1 DEF PointerTyped, Notes!Released, NoteSizes
    <3>3. QED
      BY <3>1, <3>2
  <2>4. QED
    BY <2>1, <2>2, <2>3, AudioStep
<1>10. ASSUME ~overlap, Notes!Click PROVE NotesInv'
  <2>1. /\ heldLong' = FALSE /\ chat \in Conversation
        /\ UNCHANGED <<chat, noteView, closed, noteCsrf, pointer, pressed, uploading, posted>>
    BY <1>10, <1>t DEF Notes!Click, Notes!Shown, RestTyped
  <2>2. \/ UNCHANGED <<note, recorder, recording, cancelled, chunks, dropped, overlap>>
        \/ Notes!Stop /\ UNCHANGED <<recorder, recording, cancelled, chunks, dropped, overlap>>
        \/ Notes!Start(chat, noteCsrf, FALSE)
    BY <1>10, <1>t DEF Notes!Click, RestTyped
  <2>3. PointerTyped'
    BY <1>t, <2>1 DEF PointerTyped
  <2>4. CASE Notes!Start(chat, noteCsrf, FALSE)
    <3>1. /\ NotesKept /\ dropped' = dropped /\ recorder' = recorder /\ recording' = recording
          /\ cancelled' \in BOOLEAN /\ overlap' \in BOOLEAN
          /\ OneAtATime' /\ SoundIsRecorders'
      BY <1>10, <1>t, <2>1, <2>4, StartStep DEF RestTyped
    <3>2. RestTyped'
      BY <1>t, <2>1, <3>1 DEF RestTyped
    <3>3. (dropped \subseteq 1 .. Len(note))'
      BY <3>1, NotesTyped DEF NotesInv, NotesKept
    <3>4. QED
      BY <2>1, <2>3, <3>1, <3>2, <3>3, AudioStep
  <2>5. CASE /\ Notes!Stop \/ UNCHANGED note
             /\ UNCHANGED <<recorder, recording, cancelled, chunks, dropped, overlap>>
    <3>1. NotesKept /\ OneAtATime' /\ SoundIsRecorders' /\ (dropped \subseteq 1 .. Len(note))'
      BY <2>5, StopKeeps, NotesRest
    <3>2. RestTyped'
      BY <1>t, <2>1, <2>5 DEF RestTyped
    <3>3. QED
      BY <2>1, <2>3, <2>5, <3>1, <3>2, AudioStep
  <2>6. QED
    BY <2>2, <2>4, <2>5
<1>11. ASSUME Notes!PickFile PROVE NotesInv'
  <2>1. /\ uploading' = [Notes!NoUpload EXCEPT !.at = "encrypt", !.epoch = noteCsrf]
        /\ UNCHANGED <<note, recorder, recording, cancelled, chunks, dropped, overlap, chat, noteView,
                       closed, noteCsrf, pointer, heldLong, pressed, posted>>
    BY <1>11 DEF Notes!PickFile
  <2>2. RestTyped' /\ PointerTyped' /\ PostedTyped'
    BY <1>t, <2>1 DEF RestTyped, PointerTyped, PostedTyped
  <2>3. uploading'.audio = {} /\ UploadTyped'
    BY <1>t, <2>1 DEF Notes!NoUpload, RestTyped, UploadTyped
  <2>4. QED
    BY <2>1, <2>2, <2>3, QuietStep
<1>12. ASSUME Notes!UploadStep PROVE NotesInv'
  <2>1. UNCHANGED <<note, recorder, recording, cancelled, chunks, dropped, overlap, chat, noteView,
                    closed, noteCsrf, pointer, heldLong, pressed>>
    BY <1>12 DEF Notes!UploadStep
  <2>2. RestTyped' /\ PointerTyped'
    BY <1>t, <2>1 DEF RestTyped, PointerTyped
  <2>3. CASE uploading.at = "encrypt"
    <3>1. uploading' = [uploading EXCEPT !.at = "send"] /\ posted' = posted
      BY <1>12, <2>3 DEF Notes!UploadStep
    <3>2. UploadTyped' /\ PostedTyped'
      BY <1>t, <3>1 DEF UploadTyped, PostedTyped
    <3>3. uploading'.audio = uploading.audio /\ uploading'.to = uploading.to
            /\ uploading'.epoch = uploading.epoch
      BY <1>t, <3>1 DEF UploadTyped
    <3>4. QED
      BY <2>1, <2>2, <3>1, <3>2, <3>3, QuietStep
  <2>4. CASE uploading.at # "encrypt"
    <3>1. /\ uploading' = Notes!NoUpload
          /\ posted' = posted \union {[uploading EXCEPT !.epoch = noteCsrf] : n \in uploading.audio}
          /\ uploading.epoch = noteCsrf
      BY <1>12, <2>4 DEF Notes!UploadStep
    <3>2. [uploading EXCEPT !.epoch = noteCsrf] = uploading
      BY <1>t, <3>1 DEF UploadTyped
    <3>3. \A p \in posted' : p \in posted \/ (p = uploading /\ uploading.audio # {})
      <4>1. \A p \in {[uploading EXCEPT !.epoch = noteCsrf] : n \in uploading.audio} :
              p = uploading /\ uploading.audio # {}
        BY <3>2
      <4>2. posted' = posted \union {[uploading EXCEPT !.epoch = noteCsrf] : n \in uploading.audio}
        BY <3>1
      <4>3. QED
        BY <4>1, <4>2
    <3>4. UploadTyped' /\ PostedTyped'
      BY <1>t, <3>1, <3>3 DEF UploadTyped, PostedTyped, Notes!NoUpload, NoteSizes
    <3>5. \A p \in posted' : p \in posted \/ \A n \in p.audio : IsOf(p, n)
      BY <3>3 DEF NotesInv, SentInPlace
    <3>6. uploading'.audio = {}
      BY <3>1 DEF Notes!NoUpload
    <3>7. QED
      BY <2>1, <2>2, <3>4, <3>5, <3>6, QuietStep
  <2>5. QED
    BY <2>3, <2>4
<1>13. ASSUME Notes!UploadFails PROVE NotesInv'
  BY <1>13, <1>t, QuietStep
  DEF Notes!UploadFails, Notes!NoUpload, RestTyped, PostedTyped, PointerTyped, UploadTyped, NoteSizes
<1>14. ASSUME Notes!Lock PROVE NotesInv'
  <2>1. /\ Notes!Stop /\ noteView' = "locked" /\ chat' = None /\ noteCsrf < MaxLocks
        /\ pointer' \in {pointer, Notes!Released}
        /\ UNCHANGED <<closed, noteCsrf, recorder, recording, cancelled, chunks, dropped, overlap,
                       heldLong, pressed, uploading, posted>>
    BY <1>14 DEF Notes!Lock, Notes!Gone
  <2>2. NotesKept /\ OneAtATime' /\ SoundIsRecorders' /\ (dropped \subseteq 1 .. Len(note))'
    BY <2>1, StopKeeps
  <2>3. RestTyped' /\ PointerTyped'
    <3>1. RestTyped'
      BY <1>t, <2>1 DEF RestTyped
    <3>2. PointerTyped'
      BY <1>t, <2>1 DEF PointerTyped, Notes!Released, NoteSizes
    <3>3. QED
      BY <3>1, <3>2
  <2>4. QED
    BY <2>1, <2>2, <2>3, AudioStep
<1>15. ASSUME Notes!LockServed PROVE NotesInv'
  BY <1>15, <1>t, QuietStep DEF Notes!LockServed, RestTyped, PostedTyped, PointerTyped, UploadTyped, NoteSizes
<1>16. ASSUME Notes!QuickLock PROVE NotesInv'
  BY <1>16, <1>t, QuietStep
  DEF Notes!QuickLock, Notes!Gone, Notes!Released, RestTyped, PostedTyped, PointerTyped, UploadTyped, NoteSizes
<1>17. ASSUME Notes!Unlock PROVE NotesInv'
  <2>1. /\ noteView' = "unlocked" /\ closed' = FALSE
        /\ UNCHANGED <<note, recorder, recording, cancelled, chunks, dropped, overlap, chat, noteCsrf,
                       pointer, heldLong, pressed, uploading, posted>>
    BY <1>17 DEF Notes!Unlock
  <2>2. RestTyped'
    BY <1>t, <2>1 DEF RestTyped
  <2>3. PostedTyped' /\ PointerTyped' /\ UploadTyped'
    BY <1>t, <2>1 DEF PostedTyped, PointerTyped, UploadTyped
  <2>4. QED
    BY <2>1, <2>2, <2>3, QuietStep
<1>18. QED
  BY <1>0, <1>1, <1>2, <1>3, <1>4, <1>5, <1>6, <1>7, <1>8, <1>9, <1>10, <1>11, <1>12, <1>13, <1>14,
     <1>15, <1>16, <1>17 DEF Notes!Next

LEMMA NotesImplied == ASSUME NotesInv PROVE Notes!TypeOK /\ Notes!NotesInPlace
<1>1. SentInPlace
  BY DEF NotesInv
<1>2. Notes!NotesInPlace
  BY <1>1 DEF SentInPlace, IsOf, Notes!NotesInPlace
<1>3. QED
  BY <1>2 DEF NotesInv

\* Every variable has its type.
THEOREM NotesTyping == ASSUME NoteSizes PROVE Notes!Spec => []Notes!TypeOK
BY NotesImplied, NotesInitInv, NotesInvStep, PTL DEF Notes!Spec

\* A voice note goes to the conversation it was begun in, in the session it was begun in,
\* and one that is cancelled goes nowhere (App.tsx:1071-1104).
THEOREM NotesPlaced == ASSUME NoteSizes PROVE Notes!Spec => []Notes!NotesInPlace
BY NotesImplied, NotesInitInv, NotesInvStep, PTL DEF Notes!Spec

(***************************************************************************)
(* Attachments.                                                            *)
(***************************************************************************)
FileSizes == Chunks \in Nat /\ MaxBatch \in Nat /\ MaxFaults \in Nat /\ MaxRestores \in Nat

Members(q) == {q[i] : i \in 1 .. Len(q)}
Once(q) == \A i, j \in 1 .. Len(q) : q[i] = q[j] => i = j
Fetching == {"chunk", "fetched", "cached", "committed"}

\* A download is of a message that has arrived, whose row waits for its file.
DownloadsWait ==
  /\ \A a \in Members(queue) : attachment[a] = "waiting"
  /\ \A a \in Members(backup.queue) : backup.row[a] = "waiting"
  /\ \A a \in Attachment : attachment[a] # "none" \/ backup.row[a] # "none" => upload[a] = "sent"
  /\ fetching.at \in Fetching =>
       \A a \in Members(fetching.batch) : upload[a] = "sent"

\* The sender's message leaves when every chunk is there.
SentIsWhole == \A a \in Attachment : upload[a] = "cached" => blob[a] = Chunks

\* A step of a download follows those before it.
StepsFollow ==
  /\ fetching.at = "cached" => Head(fetching.batch) \in file
  /\ fetching.at = "committed" => Head(fetching.batch) \notin Members(queue)

\* The snapshot is as whole as what it was taken of.
BackupIsReadable == \A a \in Attachment \ expired : backup.row[a] = "ready" => a \in backup.file

\* A download that is queued can be done, unless a restore has brought it back.
Obtainable == \A a \in Members(queue) : a \in restored \/ blob[a] = Chunks

Batches == {b \in Seq(Attachment) : Len(b) >= 1}
Steps == [at : {"chunk"}, batch : Batches, n : 0 .. Chunks]
           \union [at : {"fetched", "cached", "committed"}, batch : Batches]
           \union [at : {"unlinked"}, message : Attachment]
           \union {Files!Idle}

FilesTyped ==
  /\ upload \in [Attachment -> {"new", "chunks", "cached", "sent", "failed"}]
  /\ blob \in [Attachment -> 0 .. Files!NoBlob]
  /\ attachment \in Files!Rows /\ expired \subseteq Attachment /\ file \subseteq Attachment
  /\ queue \in Seq(Attachment) /\ fetching \in Steps
  /\ backup.row \in Files!Rows /\ backup.queue \in Seq(Attachment) /\ backup.file \subseteq Attachment
  /\ restored \subseteq Attachment
  /\ fileFaults \in 0 .. MaxFaults /\ restores \in 0 .. MaxRestores

FilesInv ==
  /\ FilesTyped /\ Once(queue) /\ Once(backup.queue)
  /\ DownloadsWait /\ SentIsWhole /\ StepsFollow /\ BackupIsReadable
  /\ Files!ReadyIsReadable /\ Obtainable

-----------------------------------------------------------------------------
(* Sequences.                                                              *)

\* What is true of the first and of one more is true of all: an induction the provers
\* can follow, from the least number that is not in D.
LEMMA AllOf ==
  ASSUME NEW D, 0 \in D, NEW m \in Nat, \A n \in 0 .. m : n # 0 /\ n - 1 \in D => n \in D
  PROVE  \A n \in 0 .. m : n \in D
<1> DEFINE B == {n \in 0 .. m : n \notin D}
<1>1. SUFFICES ASSUME B # {} PROVE FALSE
  OBVIOUS
<1>2. B \in SUBSET Nat
  OBVIOUS
<1>3. PICK x \in B : \A y \in B : x <= y
  BY <1>1, <1>2, LeastOf
<1>4. x \in Nat /\ x # 0 /\ x <= m /\ x \notin D
  BY <1>3
<1>5. x - 1 \notin B
  BY <1>3, <1>4
<1>6. x - 1 \in 0 .. m
  BY <1>4
<1>7. x - 1 \in D
  BY <1>5, <1>6
<1>8. QED
  BY <1>4, <1>7

\* What upTo of Without is.
Runs(f, q, S) ==
  f = [n \in 0 .. Len(q) |->
         IF n = 0 THEN <<>>
         ELSE IF q[n] \in S THEN f[n - 1] ELSE Append(f[n - 1], q[n])]

\* It exists: its equation has a solution.
LEMMA WithoutRuns ==
  ASSUME NEW q, Len(q) \in Nat, NEW S
  PROVE  \E f : Files!Without(q, S) = f[Len(q)] /\ Runs(f, q, S)
<1> DEFINE E(f, n) == IF n = 0 THEN <<>>
                      ELSE IF q[n] \in S THEN f[n - 1] ELSE Append(f[n - 1], q[n])
           Solves(f, m) == f = [n \in 0 .. m |-> E(f, n)]
           D == {m \in 0 .. Len(q) : \E f : Solves(f, m)}
<1>1. 0 \in D
  <2>1. Solves([n \in 0 .. 0 |-> <<>>], 0)
    OBVIOUS
  <2>2. 0 \in 0 .. Len(q)
    OBVIOUS
  <2> HIDE DEF Solves
  <2>3. QED
    BY <2>1, <2>2
<1>2. ASSUME NEW m \in 0 .. Len(q), m # 0, m - 1 \in D PROVE m \in D
  <2>1. PICK f : Solves(f, m - 1)
    BY <1>2
  <2> DEFINE g == [n \in 0 .. m |-> IF n = m THEN E(f, m) ELSE f[n]]
  <2>2. ASSUME NEW n \in 0 .. m PROVE g[n] = E(g, n)
    <3>1. n # 0 => g[n - 1] = f[n - 1]
      BY <1>2
    <3>2. E(g, n) = E(f, n)
      BY <3>1
    <3>3. n # m => n \in 0 .. (m - 1)
      BY <1>2
    <3>4. n # m => f[n] = E(f, n)
      <4> HIDE DEF E
      <4>1. QED
        BY <2>1, <3>3
    <3>5. QED
      BY <3>2, <3>4
  <2>3. g = [n \in 0 .. m |-> g[n]]
    OBVIOUS
  <2>4. Solves(g, m)
    BY <2>2, <2>3
  <2>5. QED
    BY <2>4
<1>3. Len(q) \in D
  <2> HIDE DEF D
  <2>1. \A n \in 0 .. Len(q) : n \in D
    BY <1>1, <1>2, AllOf
  <2>2. QED
    BY <2>1
<1>4. \E f : Solves(f, Len(q))
  BY <1>3
<1>5. QED
  BY <1>4 DEF Files!Without, Runs

LEMMA WithoutFacts ==
  ASSUME NEW A, NEW q \in Seq(A), Once(q), NEW S
  PROVE  /\ Files!Without(q, S) \in Seq(A) /\ Once(Files!Without(q, S))
         /\ \A a \in Members(Files!Without(q, S)) : a \in Members(q) /\ a \notin S
<1>0. Len(q) \in Nat
  OBVIOUS
<1>1. PICK f : Files!Without(q, S) = f[Len(q)] /\ Runs(f, q, S)
  BY <1>0, WithoutRuns
<1> DEFINE Right(n) == /\ f[n] \in Seq(A) /\ Once(f[n])
                       /\ \A i \in 1 .. Len(f[n]) : \E j \in 1 .. n : f[n][i] = q[j] /\ q[j] \notin S
           D == {n \in 0 .. Len(q) : Right(n)}
<1>2. Right(0)
  <2>1. f[0] = <<>>
    BY <1>0, <1>1 DEF Runs
  <2>2. QED
    BY <2>1 DEF Once
<1>3. ASSUME NEW n \in 0 .. Len(q), n # 0, Right(n - 1) PROVE Right(n)
  <2>1. f[n] = IF q[n] \in S THEN f[n - 1] ELSE Append(f[n - 1], q[n])
    BY <1>1, <1>3 DEF Runs
  <2>2. CASE q[n] \in S
    BY <1>3, <2>1, <2>2
  <2>3. CASE q[n] \notin S
    <3> DEFINE s == f[n - 1]
    <3>1. s \in Seq(A) /\ q[n] \in A /\ n \in 1 .. Len(q)
      BY <1>3
    <3>2. f[n] = Append(s, q[n])
      BY <2>1, <2>3
    <3>a. Once(s) /\ \A i \in 1 .. Len(s) : \E j \in 1 .. n - 1 : s[i] = q[j] /\ q[j] \notin S
      BY <1>3
    <3> HIDE DEF s
    <3>3. /\ f[n] \in Seq(A) /\ Len(f[n]) = Len(s) + 1 /\ f[n][Len(s) + 1] = q[n] /\ Len(s) \in Nat
          /\ \A i \in 1 .. Len(s) : f[n][i] = s[i]
      BY <3>1, <3>2
    <3>4. ASSUME NEW i \in 1 .. Len(s) PROVE s[i] # q[n]
      <4>1. PICK j \in 1 .. n - 1 : s[i] = q[j]
        BY <3>a
      <4>2. j \in 1 .. Len(q) /\ j # n
        BY <1>3, <3>1
      <4>3. QED
        BY <3>1, <4>1, <4>2 DEF Once
    <3>5. Once(f[n])
      BY <3>3, <3>4, <3>a DEF Once
    <3>6. \A i \in 1 .. Len(f[n]) : \E j \in 1 .. n : f[n][i] = q[j] /\ q[j] \notin S
      <4>1. ASSUME NEW i \in 1 .. Len(s) PROVE \E j \in 1 .. n : f[n][i] = q[j] /\ q[j] \notin S
        <5>1. PICK j \in 1 .. n - 1 : s[i] = q[j] /\ q[j] \notin S
          BY <3>a
        <5>2. j \in 1 .. n
          BY <1>3
        <5>3. QED
          BY <3>3, <5>1, <5>2
      <4>2. n \in 1 .. n
        BY <1>3
      <4>3. QED
        BY <2>3, <3>3, <4>1, <4>2
    <3>7. QED
      BY <3>3, <3>5, <3>6
  <2>4. QED
    BY <2>2, <2>3
<1>4. Right(Len(q))
  <2>1. 0 \in D /\ \A n \in 0 .. Len(q) : n # 0 /\ n - 1 \in D => n \in D
    BY <1>2, <1>3, <1>0
  <2> HIDE DEF D
  <2>2. \A n \in 0 .. Len(q) : n \in D
    BY <1>0, <2>1, AllOf
  <2>3. Len(q) \in D
    BY <1>0, <2>2
  <2>4. QED
    BY <2>3 DEF D
<1>5. QED
  BY <1>0, <1>1, <1>4 DEF Members

LEMMA InterfaceOf ==
  ASSUME NEW A, NEW q \in Seq(A)
  PROVE  Files!ToSet(q) = Members(q) /\ (Files!IsInjective(q) <=> Once(q))
BY DEF Files!ToSet, Members, Files!IsInjective, Once

LEMMA AppendOnce ==
  ASSUME NEW A, NEW q \in Seq(A), Once(q), NEW a \in A, a \notin Members(q)
  PROVE  /\ Append(q, a) \in Seq(A) /\ Once(Append(q, a))
         /\ Members(Append(q, a)) = Members(q) \union {a}
<1>1. /\ Append(q, a) \in Seq(A) /\ Len(Append(q, a)) = Len(q) + 1 /\ Len(q) \in Nat
      /\ Append(q, a)[Len(q) + 1] = a
      /\ \A i \in 1 .. Len(q) : Append(q, a)[i] = q[i]
  OBVIOUS
<1>2. \A i \in 1 .. Len(q) : q[i] # a
  BY DEF Members
<1>3. Once(Append(q, a))
  BY <1>1, <1>2 DEF Once
<1>4. Members(Append(q, a)) = Members(q) \union {a}
  <2>1. 1 .. Len(q) + 1 = 1 .. Len(q) \union {Len(q) + 1}
    BY <1>1
  <2>2. QED
    BY <1>1, <2>1 DEF Members
<1>5. QED
  BY <1>1, <1>3, <1>4

-----------------------------------------------------------------------------
(* Downloads.                                                              *)

\* What a daemon that is at something is at.
LEMMA StepsTyped ==
  ASSUME NEW x \in Steps
  PROVE  /\ x.at \in {"chunk", "fetched", "cached", "committed"} =>
              /\ x.batch \in Seq(Attachment) /\ Len(x.batch) >= 1 /\ Len(x.batch) \in Nat
              /\ Head(x.batch) \in Attachment /\ Head(x.batch) \in Members(x.batch)
         /\ x.at = "chunk" => x \in [at : {"chunk"}, batch : Batches, n : 0 .. Chunks]
         /\ x.at \in {"fetched", "cached", "committed"} =>
              x \in [at : {"fetched", "cached", "committed"}, batch : Batches]
         /\ x.at = "unlinked" => x.message \in Attachment
         /\ x = Files!Idle <=> x.at = "idle"
<1>1. \A b \in Batches : /\ b \in Seq(Attachment) /\ Len(b) >= 1 /\ Len(b) \in Nat
                         /\ Head(b) \in Attachment /\ Head(b) \in Members(b)
  BY DEF Batches, Members
<1>2. Files!Idle.at = "idle"
  BY DEF Files!Idle
<1>3. QED
  BY <1>1, <1>2 DEF Steps

LEMMA NotWorking ==
  Files!Idle \in Steps /\ Files!Idle.at = "idle" /\ "idle" \notin Fetching
BY DEF Steps, Files!Idle, Fetching

\* What is tried is queued.
LEMMA BatchFacts ==
  ASSUME FileSizes, FilesInv
  PROVE  /\ Files!Batch \in Seq(Attachment)
         /\ \A a \in Members(Files!Batch) : a \in Members(queue)
<1> DEFINE q == Files!Without(queue, expired)
<1>1. q \in Seq(Attachment) /\ \A a \in Members(q) : a \in Members(queue)
  BY WithoutFacts DEF FilesInv, FilesTyped
<1>2. Files!Batch = Files!FirstOf(q)
  BY DEF Files!Batch, Files!Lasting
<1> HIDE DEF q
<1> DEFINE m == IF Len(q) < MaxBatch THEN Len(q) ELSE MaxBatch
<1>3. m \in Nat /\ m <= Len(q) /\ Len(q) \in Nat
  BY <1>1 DEF FileSizes
<1>4. Files!Batch = SubSeq(q, 1, m)
  BY <1>2 DEF Files!FirstOf
<1> HIDE DEF m
<1>5. /\ SubSeq(q, 1, m) \in Seq(Attachment) /\ Len(SubSeq(q, 1, m)) = m
      /\ \A i \in 1 .. m : SubSeq(q, 1, m)[i] = q[i] /\ i \in 1 .. Len(q)
  BY <1>1, <1>3
<1>6. QED
  BY <1>1, <1>4, <1>5 DEF Members

\* After a download the next of its batch is tried.
LEMMA AfterOneFacts ==
  ASSUME FileSizes, FilesInv, fetching.at \in {"chunk", "committed"}
  PROVE  /\ Files!AfterOne \in Steps /\ Files!AfterOne.at \in {"idle", "chunk"}
         /\ Files!AfterOne.at = "chunk" =>
              \A a \in Members(Files!AfterOne.batch) : a \in Members(fetching.batch)
<1> DEFINE b == fetching.batch
<1>1. b \in Seq(Attachment) /\ Len(b) >= 1 /\ Len(b) \in Nat
  BY StepsTyped DEF FilesInv, FilesTyped
<1>2. CASE Len(b) = 1
  <2>1. Files!AfterOne = Files!Idle
    BY <1>2 DEF Files!AfterOne
  <2>2. QED
    BY <2>1, NotWorking
<1>3. CASE Len(b) # 1
  <2>1. Files!AfterOne = [at |-> "chunk", batch |-> Tail(b), n |-> 0]
    BY <1>3 DEF Files!AfterOne
  <2> HIDE DEF b
  <2>2. /\ Tail(b) \in Seq(Attachment) /\ Len(Tail(b)) = Len(b) - 1
        /\ \A i \in 1 .. Len(b) - 1 : Tail(b)[i] = b[i + 1]
    BY <1>1
  <2>3. Tail(b) \in Batches
    BY <1>1, <1>3, <2>2 DEF Batches
  <2>4. \A a \in Members(Tail(b)) : a \in Members(b)
    BY <1>1, <2>2 DEF Members
  <2>5. Files!AfterOne \in Steps
    BY <2>1, <2>3 DEF Steps, FileSizes
  <2>6. QED
    BY <2>1, <2>4, <2>5 DEF b
<1>4. QED
  BY <1>2, <1>3

\* A step that only changes what the daemon is at.
LEMMA FetchOnly ==
  ASSUME FileSizes, FilesInv,
         UNCHANGED <<upload, blob, attachment, queue, file, expired, backup, restored, restores>>,
         fileFaults' \in 0 .. MaxFaults, fetching' \in Steps,
         fetching'.at \in Fetching =>
           \A a \in Members(fetching'.batch) :
             a \in Members(queue) \/ (fetching.at \in Fetching /\ a \in Members(fetching.batch)),
         StepsFollow'
  PROVE  FilesInv'
<1>1. FilesTyped'
  BY DEF FilesInv, FilesTyped
<1>2. \A a \in Members(queue) : a \in Attachment
  BY DEF FilesInv, FilesTyped, Members
<1>3. \A a \in Members(queue) : upload[a] = "sent"
  BY <1>2 DEF FilesInv, DownloadsWait
<1>4. DownloadsWait'
  <2>1. /\ \A a \in Members(queue) : attachment[a] = "waiting"
        /\ \A a \in Members(backup.queue) : backup.row[a] = "waiting"
        /\ \A a \in Attachment : attachment[a] # "none" \/ backup.row[a] # "none" => upload[a] = "sent"
        /\ fetching.at \in Fetching => \A a \in Members(fetching.batch) : upload[a] = "sent"
    BY DEF FilesInv, DownloadsWait
  <2>2. fetching'.at \in Fetching => \A a \in Members(fetching'.batch) : upload[a] = "sent"
    BY <1>3, <2>1
  <2>3. /\ attachment' = attachment /\ queue' = queue /\ backup' = backup /\ upload' = upload
    OBVIOUS
  <2>4. QED
    BY <2>1, <2>2, <2>3 DEF DownloadsWait, Members
<1>5. SentIsWhole' /\ BackupIsReadable' /\ Files!ReadyIsReadable' /\ Obtainable'
  BY DEF FilesInv, SentIsWhole, BackupIsReadable, Files!ReadyIsReadable, Obtainable, Members
<1>6. QED
  BY <1>1, <1>4, <1>5 DEF FilesInv, Once

-----------------------------------------------------------------------------
LEMMA FilesInitInv == ASSUME FileSizes, Files!Init PROVE FilesInv
<1> USE DEF Files!Init, FileSizes
<1>1. Members(queue) = {} /\ Members(backup.queue) = {} /\ Once(queue) /\ Once(backup.queue)
  BY DEF Members, Once
<1>2. fetching \in Steps /\ fetching.at = "idle"
  BY NotWorking
<1>3. FilesTyped
  BY <1>2 DEF FilesTyped, Files!Rows, Files!NoBlob
<1>4. DownloadsWait /\ StepsFollow
  BY <1>1, <1>2, NotWorking DEF DownloadsWait, StepsFollow
<1>5. SentIsWhole /\ BackupIsReadable /\ Files!ReadyIsReadable /\ Obtainable
  BY <1>1 DEF SentIsWhole, BackupIsReadable, Files!ReadyIsReadable, Obtainable
<1>6. QED
  BY <1>1, <1>3, <1>4, <1>5 DEF FilesInv

LEMMA FilesImplied == ASSUME FileSizes, FilesInv PROVE Files!TypeOK /\ Files!AttachmentsKept
<1>1. FilesTyped /\ Once(queue) /\ Obtainable /\ Files!ReadyIsReadable
  BY DEF FilesInv
<1>2. Files!ToSet(queue) = Members(queue) /\ Files!IsInjective(queue)
  BY <1>1, InterfaceOf DEF FilesTyped
<1>3. fetching \in [at : {"chunk"}, batch : Seq(Attachment), n : 0 .. Chunks]
                 \union [at : {"fetched", "cached", "committed"}, batch : Seq(Attachment)]
                 \union [at : {"unlinked"}, message : Attachment]
                 \union {Files!Idle}
  BY <1>1 DEF FilesTyped, Steps, Batches
<1>4. Files!TypeOK
  BY <1>1, <1>2, <1>3 DEF FilesTyped, Files!TypeOK
<1>5. Files!QueuedIsObtainable
  BY <1>1, <1>2 DEF Obtainable, Files!QueuedIsObtainable
<1>6. QED
  BY <1>1, <1>4, <1>5 DEF Files!AttachmentsKept

LEMMA FilesInvStep == ASSUME FileSizes, FilesInv, [Files!Next]_(Files!vars) PROVE FilesInv'
<1> USE DEF Files!local, Files!counts
<1>t. /\ FilesTyped /\ Once(queue) /\ Once(backup.queue)
      /\ DownloadsWait /\ SentIsWhole /\ StepsFollow /\ BackupIsReadable
      /\ Files!ReadyIsReadable /\ Obtainable
  BY DEF FilesInv
<1>m. \A a \in Members(queue) : a \in Attachment /\ upload[a] = "sent"
  BY <1>t DEF FilesTyped, Members, DownloadsWait
<1>b. /\ fetching \in Steps
      /\ fetching.at \in Fetching => /\ Head(fetching.batch) \in Attachment
                                     /\ upload[Head(fetching.batch)] = "sent"
  BY <1>t, StepsTyped DEF FilesTyped, Fetching, DownloadsWait
<1>0. CASE UNCHANGED Files!vars
  <2>1. UNCHANGED <<upload, blob, attachment, queue, file, expired, backup, restored, restores>>
    BY <1>0 DEF Files!vars
  <2>2. fileFaults' = fileFaults /\ fetching' = fetching
    BY <1>0 DEF Files!vars
  <2>3. StepsFollow'
    BY <1>t, <2>1, <2>2 DEF StepsFollow, Members
  <2>4. QED
    BY <1>t, <2>1, <2>2, <2>3, FetchOnly DEF FilesTyped
<1>1. ASSUME NEW a \in Attachment,
             Files!Upload(a) \/ Files!UploadChunk(a) \/ Files!FinishUpload(a) \/ Files!UploadFails(a)
      PROVE  FilesInv'
  <2>1. /\ UNCHANGED <<attachment, queue, file, expired, fetching, backup, restored, restores>>
        /\ upload[a] \in {"new", "chunks"}
        /\ fileFaults' \in 0 .. MaxFaults
    BY <1>1, <1>t DEF Files!Upload, Files!UploadChunk, Files!FinishUpload, Files!UploadFails, FilesTyped,
       FileSizes
  <2>2. /\ blob' \in [Attachment -> 0 .. Files!NoBlob]
        /\ upload' \in [Attachment -> {"new", "chunks", "cached", "sent", "failed"}]
    <3>1. blob[a] \in 0 .. Chunks + 1 /\ blob \in [Attachment -> 0 .. Chunks + 1] /\ Chunks \in Nat
      BY <1>t DEF FilesTyped, Files!NoBlob, FileSizes
    <3>2. \E n \in 0 .. Chunks + 1 : blob' = [blob EXCEPT ![a] = n]
      <4>1. CASE Files!UploadChunk(a)
        <5>1. blob' = [blob EXCEPT ![a] = blob[a] + 1] /\ blob[a] < Chunks
          BY <4>1 DEF Files!UploadChunk, Files!MoreChunks
        <5>2. blob[a] + 1 \in 0 .. Chunks + 1
          BY <3>1, <5>1
        <5>3. QED
          BY <5>1, <5>2
      <4>2. CASE Files!Upload(a)
        <5>1. blob' = [blob EXCEPT ![a] = 0] /\ 0 \in 0 .. Chunks + 1
          BY <3>1, <4>2 DEF Files!Upload
        <5>2. QED
          BY <5>1
      <4>3. CASE Files!FinishUpload(a) \/ Files!UploadFails(a)
        <5>1. blob' = blob /\ blob = [blob EXCEPT ![a] = blob[a]]
          BY <3>1, <4>3 DEF Files!FinishUpload, Files!UploadFails
        <5>2. QED
          BY <3>1, <5>1
      <4>4. QED
        BY <1>1, <4>1, <4>2, <4>3
    <3>3. upload' \in [Attachment -> {"new", "chunks", "cached", "sent", "failed"}]
      BY <1>1, <1>t DEF Files!Upload, Files!UploadChunk, Files!FinishUpload, Files!UploadFails, FilesTyped
    <3>4. QED
      BY <3>1, <3>2, <3>3 DEF Files!NoBlob
  <2>3. /\ \A x \in Attachment : x # a => upload'[x] = upload[x] /\ blob'[x] = blob[x]
        /\ upload'[a] # "sent" /\ (upload'[a] = "cached" => blob'[a] = Chunks)
    BY <1>1, <1>t DEF Files!Upload, Files!UploadChunk, Files!FinishUpload, Files!UploadFails, FilesTyped
  <2>4. FilesTyped'
    BY <1>t, <2>1, <2>2 DEF FilesTyped
  <2>5. DownloadsWait'
    <3>1. \A x \in Attachment : upload[x] = "sent" => upload'[x] = "sent"
      BY <2>1, <2>3
    <3>2. fetching.at \in Fetching => \A x \in Members(fetching.batch) : x \in Attachment
      BY <1>b, StepsTyped DEF Members, Fetching
    <3>3. QED
      BY <1>t, <2>1, <3>1, <3>2 DEF DownloadsWait, Members
  <2>6. SentIsWhole'
    BY <1>t, <2>3 DEF SentIsWhole
  <2>7. Obtainable'
    BY <1>t, <1>m, <2>1, <2>3 DEF Obtainable, Members
  <2>8. StepsFollow' /\ BackupIsReadable' /\ Files!ReadyIsReadable' /\ Once(queue)' /\ Once(backup.queue)'
    BY <1>t, <2>1 DEF StepsFollow, BackupIsReadable, Files!ReadyIsReadable, Once, Members
  <2>9. QED
    BY <2>4, <2>5, <2>6, <2>7, <2>8 DEF FilesInv
<1>2. ASSUME NEW a \in Attachment, Files!Receive(a) PROVE FilesInv'
  <2>1. /\ UNCHANGED <<blob, file, expired, fetching, backup, restored, fileFaults, restores>>
        /\ upload[a] = "cached" /\ fetching = Files!Idle
        /\ upload' = [upload EXCEPT ![a] = "sent"]
        /\ attachment' = [attachment EXCEPT ![a] = "waiting"]
        /\ queue' = Append(queue, a)
    BY <1>2 DEF Files!Receive
  <2>2. a \notin Members(queue) /\ blob[a] = Chunks
    BY <1>m, <1>t, <2>1 DEF SentIsWhole
  <2>3. queue' \in Seq(Attachment) /\ Once(queue') /\ Members(queue') = Members(queue) \union {a}
    BY <1>t, <2>1, <2>2, AppendOnce DEF FilesTyped
  <2>4. FilesTyped'
    BY <1>t, <2>1, <2>3 DEF FilesTyped, Files!Rows
  <2>5. fetching'.at \notin Fetching
    BY <2>1, NotWorking
  <2>6. DownloadsWait'
    <3>1. \A x \in Members(queue') : attachment'[x] = "waiting"
      BY <1>t, <1>m, <2>1, <2>3 DEF DownloadsWait, FilesTyped, Files!Rows
    <3>2. \A x \in Attachment : attachment'[x] # "none" \/ backup.row[x] # "none" => upload'[x] = "sent"
      BY <1>t, <2>1 DEF DownloadsWait, FilesTyped, Files!Rows
    <3>3. QED
      BY <1>t, <2>1, <2>5, <3>1, <3>2 DEF DownloadsWait, Members
  <2>7. StepsFollow'
    BY <2>5 DEF StepsFollow, Fetching
  <2>8. SentIsWhole' /\ BackupIsReadable' /\ Once(backup.queue)'
    BY <1>t, <2>1 DEF SentIsWhole, BackupIsReadable, FilesTyped, Once
  <2>9. Files!ReadyIsReadable'
    BY <1>t, <2>1 DEF Files!ReadyIsReadable, FilesTyped, Files!Rows
  <2>10. Obtainable'
    <3>1. \A x \in Members(queue') : x \in restored \/ blob[x] = Chunks
      BY <1>t, <2>2, <2>3 DEF Obtainable
    <3>2. QED
      BY <2>1, <3>1 DEF Obtainable, Members
  <2>11. Once(queue)'
    BY <2>3 DEF Once
  <2>12. QED
    BY <2>4, <2>6, <2>7, <2>8, <2>9, <2>10, <2>11 DEF FilesInv
<1>3. ASSUME Files!StartDownloads PROVE FilesInv'
  <2>1. /\ fetching = Files!Idle /\ Files!Batch # <<>>
        /\ fetching' = [at |-> "chunk", batch |-> Files!Batch, n |-> 0]
        /\ UNCHANGED <<upload, blob, attachment, queue, file, expired, backup, restored, fileFaults, restores>>
    BY <1>3 DEF Files!StartDownloads
  <2>2. Files!Batch \in Batches
    BY <2>1, BatchFacts DEF Batches
  <2>3. fetching' \in Steps
    BY <2>1, <2>2 DEF Steps, FileSizes
  <2>4. fetching'.at = "chunk" /\ \A x \in Members(fetching'.batch) : x \in Members(queue)
    BY <2>1, BatchFacts
  <2>5. StepsFollow'
    BY <2>4 DEF StepsFollow
  <2>6. QED
    BY <1>t, <2>1, <2>3, <2>4, <2>5, FetchOnly DEF FilesTyped
<1>4. ASSUME Files!DownloadChunk PROVE FilesInv'
  <2>1. /\ fetching.at = "chunk" /\ fetching.n < Chunks
        /\ fetching' = [fetching EXCEPT !.n = @ + 1] \/ fetching' = Files!AfterOne
        /\ UNCHANGED <<upload, blob, attachment, queue, file, expired, backup, restored, fileFaults, restores>>
    BY <1>4 DEF Files!DownloadChunk
  <2>2. CASE fetching' = [fetching EXCEPT !.n = @ + 1]
    <3>1. fetching \in [at : {"chunk"}, batch : Batches, n : 0 .. Chunks]
      BY <1>b, <2>1, StepsTyped
    <3>2. /\ fetching' \in [at : {"chunk"}, batch : Batches, n : 0 .. Chunks]
          /\ fetching'.batch = fetching.batch /\ fetching'.at = "chunk"
      BY <2>1, <2>2, <3>1 DEF FileSizes
    <3>3. StepsFollow'
      BY <3>2 DEF StepsFollow
    <3>4. fetching' \in Steps /\ fetching.at \in Fetching
      BY <2>1, <3>2 DEF Steps, Fetching
    <3>5. QED
      BY <1>t, <2>1, <3>2, <3>3, <3>4, FetchOnly DEF FilesTyped
  <2>3. CASE fetching' = Files!AfterOne
    <3>1. /\ fetching' \in Steps /\ fetching'.at \in {"idle", "chunk"} /\ fetching.at \in Fetching
          /\ fetching'.at \in Fetching => \A a \in Members(fetching'.batch) : a \in Members(fetching.batch)
      BY <2>1, <2>3, AfterOneFacts DEF Fetching
    <3>2. StepsFollow'
      BY <3>1 DEF StepsFollow
    <3>3. QED
      BY <1>t, <2>1, <3>1, <3>2, FetchOnly DEF FilesTyped
  <2>4. QED
    BY <2>1, <2>2, <2>3
<1>5. ASSUME Files!FinishChunks PROVE FilesInv'
  <2>1. /\ fetching.at = "chunk" /\ fetching' = [at |-> "fetched", batch |-> fetching.batch]
        /\ UNCHANGED <<upload, blob, attachment, queue, file, expired, backup, restored, fileFaults, restores>>
    BY <1>5 DEF Files!FinishChunks, Files!Fetched
  <2>2. fetching.batch \in Batches
    BY <1>b, <2>1, StepsTyped DEF Batches
  <2>3. fetching' \in Steps
    BY <2>1, <2>2 DEF Steps
  <2>4. fetching'.at = "fetched" /\ fetching'.batch = fetching.batch /\ fetching.at \in Fetching
    BY <2>1 DEF Fetching
  <2>5. StepsFollow'
    BY <2>4 DEF StepsFollow
  <2>6. QED
    BY <1>t, <2>1, <2>3, <2>4, <2>5, FetchOnly DEF FilesTyped
<1>6. ASSUME Files!RequestFails \/ Files!Crash PROVE FilesInv'
  <2>1. /\ UNCHANGED <<upload, blob, attachment, queue, file, expired, backup, restored, restores>>
        /\ fileFaults' \in 0 .. MaxFaults
    BY <1>6, <1>t DEF Files!RequestFails, Files!Crash, FilesTyped, FileSizes
  <2>2. \/ fetching' = Files!Idle
        \/ fetching' = Files!AfterOne /\ fetching.at \in {"chunk", "committed"}
    BY <1>6 DEF Files!RequestFails, Files!Crash
  <2>3. /\ fetching' \in Steps /\ fetching'.at \in {"idle", "chunk"}
        /\ fetching'.at \in Fetching =>
             fetching.at \in Fetching /\ \A a \in Members(fetching'.batch) : a \in Members(fetching.batch)
    BY <2>2, AfterOneFacts, NotWorking DEF Fetching
  <2>4. StepsFollow'
    BY <2>3 DEF StepsFollow
  <2>5. QED
    BY <2>1, <2>3, <2>4, FetchOnly
<1>7. ASSUME Files!CacheFile PROVE FilesInv'
  <2>1. /\ fetching.at = "fetched" /\ file' = file \union {Head(fetching.batch)}
        /\ fetching' = [fetching EXCEPT !.at = "cached"]
        /\ UNCHANGED <<upload, blob, attachment, queue, expired, backup, restored, fileFaults, restores>>
    BY <1>7 DEF Files!CacheFile, Files!Current
  <2>2. fetching \in [at : {"fetched", "cached", "committed"}, batch : Batches]
    BY <1>b, <2>1, StepsTyped
  <2>3. /\ fetching' \in [at : {"fetched", "cached", "committed"}, batch : Batches]
        /\ fetching'.at = "cached" /\ fetching'.batch = fetching.batch
    BY <2>1, <2>2
  <2>4. fetching' \in Steps /\ fetching.at \in Fetching
    BY <2>1, <2>3 DEF Steps, Fetching
  <2>5. FilesTyped'
    BY <1>t, <1>b, <2>1, <2>4 DEF FilesTyped
  <2>6. DownloadsWait'
    BY <1>t, <2>1, <2>3, <2>4 DEF DownloadsWait, Members
  <2>7. StepsFollow'
    BY <2>1, <2>3 DEF StepsFollow
  <2>8. /\ SentIsWhole' /\ BackupIsReadable' /\ Files!ReadyIsReadable' /\ Obtainable'
        /\ Once(queue)' /\ Once(backup.queue)'
    BY <1>t, <2>1 DEF SentIsWhole, BackupIsReadable, Files!ReadyIsReadable, Obtainable, Once, Members
  <2>9. QED
    BY <2>5, <2>6, <2>7, <2>8 DEF FilesInv
<1>8. ASSUME Files!CommitDownload PROVE FilesInv'
  <2> DEFINE c == Head(fetching.batch)
  <2>1. /\ fetching.at = "cached" /\ attachment' = [attachment EXCEPT ![c] = "ready"]
        /\ queue' = Files!Without(queue, {c}) /\ fetching' = [fetching EXCEPT !.at = "committed"]
        /\ UNCHANGED <<upload, blob, file, expired, backup, restored, fileFaults, restores>>
    BY <1>8 DEF Files!CommitDownload, Files!Current
  <2>2. fetching \in [at : {"fetched", "cached", "committed"}, batch : Batches]
    BY <1>b, <2>1, StepsTyped
  <2>3. /\ fetching' \in [at : {"fetched", "cached", "committed"}, batch : Batches]
        /\ fetching'.at = "committed" /\ fetching'.batch = fetching.batch
    BY <2>1, <2>2
  <2>4. fetching' \in Steps /\ fetching.at \in Fetching /\ c \in Attachment /\ upload[c] = "sent"
    BY <1>b, <2>1, <2>3 DEF Steps, Fetching
  <2>5. c \in file
    BY <1>t, <2>1 DEF StepsFollow
  <2>6. Head(fetching'.batch) = c
    BY <2>3
  <2> HIDE DEF c
  <2>7. /\ queue' \in Seq(Attachment) /\ Once(queue')
        /\ \A a \in Members(queue') : a \in Members(queue) /\ a # c
    BY <1>t, <2>1, WithoutFacts DEF FilesTyped
  <2>8. /\ attachment' \in Files!Rows /\ attachment'[c] = "ready"
        /\ \A a \in Attachment : a # c => attachment'[a] = attachment[a]
    BY <1>t, <2>1, <2>4 DEF FilesTyped, Files!Rows
  <2>9. FilesTyped'
    BY <1>t, <2>1, <2>4, <2>7, <2>8 DEF FilesTyped
  <2>10. DownloadsWait'
    <3>1. \A a \in Members(queue') : attachment'[a] = "waiting"
      BY <1>t, <1>m, <2>7, <2>8 DEF DownloadsWait
    <3>2. \A a \in Attachment : attachment'[a] # "none" \/ backup.row[a] # "none" => upload[a] = "sent"
      BY <1>t, <2>4, <2>8 DEF DownloadsWait
    <3>3. QED
      <4>1. fetching.at \in Fetching => \A a \in Members(fetching.batch) : upload[a] = "sent"
        BY <1>t DEF DownloadsWait
      <4>2. \A a \in Members(fetching'.batch) : upload'[a] = "sent"
        BY <2>1, <2>3, <2>4, <4>1
      <4>3. backup' = backup /\ upload' = upload
        BY <2>1
      <4>4. \A a \in Members(backup.queue) : backup.row[a] = "waiting"
        BY <1>t DEF DownloadsWait
      <4>5. QED
        BY <3>1, <3>2, <4>2, <4>3, <4>4 DEF DownloadsWait, Members
  <2>11. StepsFollow'
    BY <2>3, <2>6, <2>7 DEF StepsFollow, Members
  <2>12. SentIsWhole' /\ BackupIsReadable' /\ Once(backup.queue)'
    BY <1>t, <2>1 DEF SentIsWhole, BackupIsReadable, Once
  <2>13. Files!ReadyIsReadable'
    BY <1>t, <2>1, <2>5, <2>8 DEF Files!ReadyIsReadable
  <2>14. Obtainable'
    <3>1. \A a \in Members(queue') : a \in restored \/ blob[a] = Chunks
      BY <1>t, <2>7 DEF Obtainable
    <3>2. QED
      BY <2>1, <3>1 DEF Obtainable, Members
  <2>15. Once(queue)'
    BY <2>7 DEF Once
  <2>16. QED
    BY <2>9, <2>10, <2>11, <2>12, <2>13, <2>14, <2>15 DEF FilesInv
<1>9. ASSUME Files!DeleteBlob PROVE FilesInv'
  <2> DEFINE c == Head(fetching.batch)
  <2>1. /\ fetching.at = "committed" /\ blob' = [blob EXCEPT ![c] = Files!NoBlob]
        /\ fetching' = Files!AfterOne
        /\ UNCHANGED <<upload, attachment, queue, file, expired, backup, restored, fileFaults, restores>>
    BY <1>9 DEF Files!DeleteBlob, Files!Current, Files!MayFree
  <2>2. /\ fetching.at \in Fetching /\ c \in Attachment /\ upload[c] = "sent"
        /\ c \notin Members(queue)
    BY <1>b, <1>t, <2>1 DEF Fetching, StepsFollow
  <2>3. /\ fetching' \in Steps /\ fetching'.at \in {"idle", "chunk"}
        /\ fetching'.at \in Fetching => \A a \in Members(fetching'.batch) : a \in Members(fetching.batch)
    BY <2>1, AfterOneFacts DEF Fetching
  <2> HIDE DEF c
  <2>4. /\ blob' \in [Attachment -> 0 .. Files!NoBlob]
        /\ \A a \in Attachment : a # c => blob'[a] = blob[a]
    BY <1>t, <2>1, <2>2 DEF FilesTyped, FileSizes, Files!NoBlob
  <2>5. FilesTyped'
    BY <1>t, <2>1, <2>3, <2>4 DEF FilesTyped
  <2>6. DownloadsWait'
    BY <1>t, <2>1, <2>2, <2>3, ZenonT(60) DEF DownloadsWait, Members
  <2>7. StepsFollow'
    BY <2>3 DEF StepsFollow
  <2>8. SentIsWhole'
    BY <1>t, <2>1, <2>2, <2>4 DEF SentIsWhole
  <2>9. Obtainable'
    <3>1. \A a \in Members(queue) : a \in restored \/ blob'[a] = Chunks
      BY <1>t, <1>m, <2>2, <2>4 DEF Obtainable
    <3>2. QED
      BY <2>1, <3>1 DEF Obtainable, Members
  <2>10. BackupIsReadable' /\ Files!ReadyIsReadable' /\ Once(queue)' /\ Once(backup.queue)'
    BY <1>t, <2>1 DEF BackupIsReadable, Files!ReadyIsReadable, Once
  <2>11. QED
    BY <2>5, <2>6, <2>7, <2>8, <2>9, <2>10 DEF FilesInv
<1>10. ASSUME NEW a \in Attachment, Files!Expire(a) PROVE FilesInv'
  <2>1. /\ expired' = expired \union {a}
        /\ UNCHANGED <<upload, blob, attachment, queue, file, fetching, backup, restored, fileFaults, restores>>
    BY <1>10 DEF Files!Expire
  <2>2. FilesTyped'
    BY <1>t, <2>1 DEF FilesTyped
  <2>3. DownloadsWait' /\ StepsFollow'
    BY <1>t, <2>1 DEF DownloadsWait, StepsFollow, Members
  <2>4. SentIsWhole' /\ BackupIsReadable' /\ Files!ReadyIsReadable' /\ Obtainable'
    BY <1>t, <2>1 DEF SentIsWhole, BackupIsReadable, Files!ReadyIsReadable, Obtainable, Members
  <2>5. Once(queue)' /\ Once(backup.queue)'
    BY <1>t, <2>1 DEF Once
  <2>6. QED
    BY <2>2, <2>3, <2>4, <2>5 DEF FilesInv
<1>11. ASSUME NEW a \in Attachment, Files!UnlinkFile(a) PROVE FilesInv'
  <2>1. /\ a \in expired /\ file' \in {file, file \ {a}}
        /\ fetching' = [at |-> "unlinked", message |-> a]
        /\ UNCHANGED <<upload, blob, attachment, queue, expired, backup, restored, fileFaults, restores>>
    BY <1>11 DEF Files!UnlinkFile
  <2>2. fetching' \in Steps /\ fetching'.at = "unlinked"
    BY <2>1 DEF Steps
  <2>3. FilesTyped'
    BY <1>t, <2>1, <2>2 DEF FilesTyped
  <2>4. DownloadsWait' /\ StepsFollow'
    BY <1>t, <2>1, <2>2 DEF DownloadsWait, StepsFollow, Members, Fetching
  <2>5. Files!ReadyIsReadable'
    BY <1>t, <2>1 DEF Files!ReadyIsReadable
  <2>6. SentIsWhole' /\ BackupIsReadable' /\ Obtainable' /\ Once(queue)' /\ Once(backup.queue)'
    BY <1>t, <2>1 DEF SentIsWhole, BackupIsReadable, Obtainable, Members, Once
  <2>7. QED
    BY <2>3, <2>4, <2>5, <2>6 DEF FilesInv
<1>12. ASSUME Files!DeleteMessage PROVE FilesInv'
  <2> DEFINE c == fetching.message
  <2>1. /\ fetching.at = "unlinked" /\ attachment' = [attachment EXCEPT ![c] = "none"]
        /\ queue' = Files!Without(queue, {c}) /\ fetching' = Files!Idle
        /\ UNCHANGED <<upload, blob, file, expired, backup, restored, fileFaults, restores>>
    BY <1>12 DEF Files!DeleteMessage
  <2>2. c \in Attachment
    BY <1>b, <2>1, StepsTyped
  <2>3. fetching' \in Steps /\ fetching'.at = "idle"
    BY <2>1, NotWorking
  <2> HIDE DEF c
  <2>4. /\ queue' \in Seq(Attachment) /\ Once(queue')
        /\ \A a \in Members(queue') : a \in Members(queue) /\ a # c
    BY <1>t, <2>1, WithoutFacts DEF FilesTyped
  <2>5. /\ attachment' \in Files!Rows /\ attachment'[c] = "none"
        /\ \A a \in Attachment : a # c => attachment'[a] = attachment[a]
    BY <1>t, <2>1, <2>2 DEF FilesTyped, Files!Rows
  <2>6. FilesTyped'
    BY <1>t, <2>1, <2>3, <2>4, <2>5 DEF FilesTyped
  <2>7. DownloadsWait'
    <3>1. \A a \in Members(queue') : attachment'[a] = "waiting"
      BY <1>t, <1>m, <2>4, <2>5 DEF DownloadsWait
    <3>2. \A a \in Attachment : attachment'[a] # "none" \/ backup.row[a] # "none" => upload[a] = "sent"
      BY <1>t, <2>5 DEF DownloadsWait
    <3>3. QED
      <4>1. fetching'.at \notin Fetching
        BY <2>3 DEF Fetching
      <4>2. backup' = backup /\ upload' = upload
        BY <2>1
      <4>3. \A a \in Members(backup.queue) : backup.row[a] = "waiting"
        BY <1>t DEF DownloadsWait
      <4>4. QED
        BY <3>1, <3>2, <4>1, <4>2, <4>3 DEF DownloadsWait, Members
  <2>8. StepsFollow'
    BY <2>3 DEF StepsFollow
  <2>9. SentIsWhole' /\ BackupIsReadable' /\ Once(backup.queue)'
    BY <1>t, <2>1 DEF SentIsWhole, BackupIsReadable, Once
  <2>10. Files!ReadyIsReadable'
    BY <1>t, <2>1, <2>5 DEF Files!ReadyIsReadable
  <2>11. Obtainable'
    <3>1. \A a \in Members(queue') : a \in restored \/ blob[a] = Chunks
      BY <1>t, <2>4 DEF Obtainable
    <3>2. QED
      BY <2>1, <3>1 DEF Obtainable, Members
  <2>12. Once(queue)'
    BY <2>4 DEF Once
  <2>13. QED
    BY <2>6, <2>7, <2>8, <2>9, <2>10, <2>11, <2>12 DEF FilesInv
<1>13. ASSUME Files!BackUp PROVE FilesInv'
  <2>1. /\ backup' = [row |-> attachment, queue |-> queue, file |-> file]
        /\ UNCHANGED <<upload, blob, attachment, queue, file, expired, fetching, restored, fileFaults, restores>>
    BY <1>13 DEF Files!BackUp
  <2>2. backup'.row = attachment /\ backup'.queue = queue /\ backup'.file = file
    BY <2>1
  <2>3. FilesTyped'
    BY <1>t, <2>1, <2>2 DEF FilesTyped
  <2>4. DownloadsWait'
    BY <1>t, <2>1, <2>2 DEF DownloadsWait, Members
  <2>5. BackupIsReadable'
    BY <1>t, <2>1, <2>2 DEF BackupIsReadable, Files!ReadyIsReadable
  <2>6. StepsFollow' /\ SentIsWhole' /\ Files!ReadyIsReadable' /\ Obtainable'
    BY <1>t, <2>1 DEF StepsFollow, SentIsWhole, Files!ReadyIsReadable, Obtainable, Members
  <2>7. Once(queue)' /\ Once(backup.queue)'
    BY <1>t, <2>1, <2>2 DEF Once
  <2>8. QED
    BY <2>3, <2>4, <2>5, <2>6, <2>7 DEF FilesInv
<1>14. ASSUME Files!Restore PROVE FilesInv'
  <2>1. /\ attachment' = backup.row /\ queue' = backup.queue /\ file' = backup.file
        /\ restored' = restored \union Files!ToSet(backup.queue)
        /\ restores < MaxRestores /\ restores' = restores + 1
        /\ fetching = Files!Idle
        /\ UNCHANGED <<upload, blob, expired, fetching, backup, fileFaults>>
    BY <1>14 DEF Files!Restore
  <2>2. Files!ToSet(backup.queue) = Members(backup.queue)
    BY <1>t, InterfaceOf DEF FilesTyped
  <2>3. \A a \in Members(backup.queue) : a \in Attachment
    BY <1>t DEF FilesTyped, Members
  <2>4. fetching'.at = "idle"
    BY <2>1, NotWorking
  <2>5. FilesTyped'
    <3>1. restored' \subseteq Attachment
      BY <1>t, <2>1, <2>2, <2>3 DEF FilesTyped
    <3>2. restores' \in 0 .. MaxRestores
      BY <1>t, <2>1 DEF FilesTyped, FileSizes
    <3>3. QED
      BY <1>t, <2>1, <3>1, <3>2 DEF FilesTyped
  <2>6. DownloadsWait'
    BY <1>t, <2>1, <2>4 DEF DownloadsWait, Members, Fetching
  <2>7. StepsFollow'
    BY <2>4 DEF StepsFollow
  <2>8. SentIsWhole' /\ BackupIsReadable'
    BY <1>t, <2>1 DEF SentIsWhole, BackupIsReadable
  <2>9. Files!ReadyIsReadable'
    BY <1>t, <2>1 DEF BackupIsReadable, Files!ReadyIsReadable
  <2>10. Obtainable'
    BY <2>1, <2>2 DEF Obtainable, Members
  <2>11. Once(queue)' /\ Once(backup.queue)'
    BY <1>t, <2>1 DEF Once
  <2>12. QED
    BY <2>5, <2>6, <2>7, <2>8, <2>9, <2>10, <2>11 DEF FilesInv
<1>15. QED
  BY <1>0, <1>1, <1>2, <1>3, <1>4, <1>5, <1>6, <1>7, <1>8, <1>9, <1>10, <1>11, <1>12, <1>13, <1>14
  DEF Files!Next

\* Every variable has its type.
THEOREM FilesTyping == ASSUME FileSizes PROVE Files!Spec => []Files!TypeOK
BY FilesImplied, FilesInitInv, FilesInvStep, PTL DEF Files!Spec

\* An attachment shown as ready has its file, and one that is queued can be downloaded,
\* whatever crashes or is restored (attachments.ts:230-245, disappearing.ts:28-46).
THEOREM FilesKept == ASSUME FileSizes PROVE Files!Spec => []Files!AttachmentsKept
BY FilesImplied, FilesInitInv, FilesInvStep, PTL DEF Files!Spec
=============================================================================
