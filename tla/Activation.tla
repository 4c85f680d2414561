----------------------------- MODULE Activation -----------------------------
(***************************************************************************)
(* Getting an account: selfActivate and activateIdentity of                *)
(* apps/local-daemon/src/server.ts with completeRegistration of            *)
(* signal-store.ts, and the routes apply and activate of                   *)
(* apps/relay-server/src/auth.ts.  A device asks for a name, keeps the     *)
(* claim it is given, and turns it into an account; each answer may be     *)
(* lost, and a request nobody waits for any more may still arrive.         *)
(***************************************************************************)
EXTENDS Naturals, FiniteSets

CONSTANTS
  Device, Name,
  NoDevice, NoName,
  MaxClaims,    \* bound on claims the relay hands out
  MaxAttempts,  \* five in the code
  MaxLosses     \* bound on answers lost, crashes, and typed-in codes

\* request_id and activation code are drawn together: one number stands for both.
Claim == [name : Name, id : 1 .. MaxClaims]
Unclaimed == [name |-> NoName, id |-> 0]

\* What a daemon waits for.  "code" says whether it sends the right code.
Idle == [at |-> "idle"]
Call == [at : {"apply"}, name : Name]
          \union [at : {"applied"}, claim : Claim]
          \union [at : {"activate"}, id : 1 .. MaxClaims, code : BOOLEAN]
          \union [at : {"activated"}, name : Name, device : Device]
          \union {Idle}

VARIABLES
  row,     \* access_requests by name: the claim's id (0: none), status, expiry, attempts
  owner,   \* users and device_identity_keys: the device of a name's account
  claim,   \* access_claim of a device
  account, \* name under which a device is registered in its own database
  call,    \* the request a daemon serves
  late,    \* activations whose caller has given up, which may still arrive
  issued,  \* claims handed out
  losses

vars == <<row, owner, claim, account, call, late, issued, losses>>
relay == <<row, owner, issued>>
daemon == <<claim, account>>

TypeOK ==
  /\ row \in [Name -> [id : 0 .. MaxClaims, activated : BOOLEAN, expired : BOOLEAN,
                       attempts : 0 .. MaxAttempts]]
  /\ owner \in [Name -> Device \union {NoDevice}]
  /\ claim \in [Device -> Claim \union {Unclaimed}]
  /\ account \in [Device -> Name \union {NoName}]
  /\ call \in [Device -> Call]
  /\ late \subseteq [device : Device, id : 1 .. MaxClaims, code : BOOLEAN]
  /\ issued \in 0 .. MaxClaims
  /\ losses \in 0 .. MaxLosses

FreshRow(id) == [id |-> id, activated |-> FALSE, expired |-> FALSE, attempts |-> 0]

Init ==
  /\ row = [n \in Name |-> FreshRow(0)]
  /\ owner = [n \in Name |-> NoDevice]
  /\ claim = [d \in Device |-> Unclaimed]
  /\ account = [d \in Device |-> NoName]
  /\ call = [d \in Device |-> Idle]
  /\ late = {}
  /\ issued = 0
  /\ losses = 0

(***************************************************************************)
(* The daemon.                                                             *)
(***************************************************************************)
\* A saved claim is used again only for the name it was given for.
SelfActivate(d, n) ==
  /\ call[d] = Idle /\ account[d] = NoName
  /\ call' = [call EXCEPT ![d] =
       IF claim[d].name = n THEN [at |-> "activate", id |-> claim[d].id, code |-> TRUE]
                            ELSE [at |-> "apply", name |-> n]]
  /\ UNCHANGED <<relay, daemon, late, losses>>

\* A user types a request's id and a code, right or wrong, by hand.
TypeCode(d, id, code) ==
  /\ call[d] = Idle /\ account[d] = NoName
  /\ losses < MaxLosses /\ id <= issued
  /\ call' = [call EXCEPT ![d] = [at |-> "activate", id |-> id, code |-> code]]
  /\ losses' = losses + 1
  /\ UNCHANGED <<relay, daemon, late>>

\* The claim is saved before it is used, in place of an older one.
SaveClaim(d) ==
  /\ call[d].at = "applied"
  /\ claim' = [claim EXCEPT ![d] = call[d].claim]
  /\ call' = [call EXCEPT ![d] = [at |-> "activate", id |-> call[d].claim.id, code |-> TRUE]]
  /\ UNCHANGED <<relay, account, late, losses>>

\* An answer that names another device is refused: local_device_id_mismatch.
AcceptsAnswer(d, answer) == answer.device = d

CompleteRegistration(d) ==
  /\ call[d].at = "activated"
  /\ IF AcceptsAnswer(d, call[d])
       THEN /\ account' = [account EXCEPT ![d] = call[d].name]
            /\ claim' = [claim EXCEPT ![d] = Unclaimed]
       ELSE UNCHANGED daemon
  /\ call' = [call EXCEPT ![d] = Idle]
  /\ UNCHANGED <<relay, late, losses>>

\* A request times out, its answer is lost, or the daemon stops.
GiveUp(d) ==
  /\ call[d] # Idle /\ losses < MaxLosses
  /\ late' = late \union
       (IF call[d].at = "activate"
          THEN {[device |-> d, id |-> call[d].id, code |-> call[d].code]} ELSE {})
  /\ call' = [call EXCEPT ![d] = Idle]
  /\ losses' = losses + 1
  /\ UNCHANGED <<relay, daemon>>

(***************************************************************************)
(* The relay.                                                              *)
(***************************************************************************)
\* A claim is handed out for a name without an account and without a claim
\* that is still good.
MayIssue(n) ==
  /\ owner[n] = NoDevice
  /\ row[n].id = 0 \/ (~row[n].activated /\ row[n].expired)

ApplyAccess(d) ==
  /\ call[d].at = "apply"
  /\ LET n == call[d].name IN
     IF MayIssue(n)
       THEN /\ issued < MaxClaims
            /\ issued' = issued + 1
            /\ row' = [row EXCEPT ![n] = FreshRow(issued + 1)]
            /\ call' = [call EXCEPT ![d] = [at |-> "applied",
                                            claim |-> [name |-> n, id |-> issued + 1]]]
       ELSE /\ call' = [call EXCEPT ![d] = Idle]
            /\ UNCHANGED <<issued, row>>
  /\ UNCHANGED <<owner, daemon, late, losses>>

\* An activation of request id by device d is one transaction on the locked row.
Named(id) == {n \in Name : row[n].id = id}

FaultyMayActivate(n) == ~row[n].activated /\ ~row[n].expired
MayActivate(n) == ~row[n].activated /\ ~row[n].expired /\ row[n].attempts < MaxAttempts

\* device_id is the primary key of device_identity_keys.
HasAccount(d) == \E n \in Name : owner[n] = d

Activates(n, d, code) ==
  MayActivate(n) /\ code /\ owner[n] = NoDevice /\ ~HasAccount(d)

\* The retry of a completed activation answers the account it made, to the device
\* it was made for only.
Repeats(n, d, code) == row[n].activated /\ code /\ owner[n] = d

\* The account an answer names, and its device; none when it is an error.
FaultyGranted(id, d, code) ==
  {[at |-> "activated", name |-> n, device |-> d] : n \in
     {m \in Named(id) : Activates(m, d, code) \/ (row[m].activated /\ code)}}
Granted(id, d, code) ==
  {[at |-> "activated", name |-> n, device |-> d] : n \in
     {m \in Named(id) : Activates(m, d, code) \/ Repeats(m, d, code)}}

\* A wrong code costs an attempt; an insert that fails takes its attempt with it.
RowAfter(n, d, code) ==
  IF Activates(n, d, code) THEN [row[n] EXCEPT !.activated = TRUE, !.attempts = @ + 1]
  ELSE IF MayActivate(n) /\ ~code THEN [row[n] EXCEPT !.attempts = @ + 1]
  ELSE row[n]

Attempt(id, d, code) ==
  /\ row' = [n \in Name |-> IF n \in Named(id) THEN RowAfter(n, d, code) ELSE row[n]]
  /\ owner' = [n \in Name |->
                 IF n \in Named(id) /\ Activates(n, d, code) THEN d ELSE owner[n]]

Activate(d) ==
  /\ call[d].at = "activate"
  /\ Attempt(call[d].id, d, call[d].code)
  /\ \E answer \in IF Granted(call[d].id, d, call[d].code) = {} THEN {Idle}
                   ELSE Granted(call[d].id, d, call[d].code) :
       call' = [call EXCEPT ![d] = answer]
  /\ UNCHANGED <<daemon, late, issued, losses>>

LateActivate(r) ==
  /\ r \in late
  /\ Attempt(r.id, r.device, r.code)
  /\ late' = late \ {r}
  /\ UNCHANGED <<daemon, call, issued, losses>>

\* Ten minutes pass.
Expire(n) ==
  /\ row[n].id # 0 /\ ~row[n].expired
  /\ row' = [row EXCEPT ![n].expired = TRUE]
  /\ UNCHANGED <<owner, daemon, call, late, issued, losses>>

Next ==
  \/ \E d \in Device :
       \/ \E n \in Name : SelfActivate(d, n)
       \/ \E id \in 1 .. MaxClaims, code \in BOOLEAN : TypeCode(d, id, code)
       \/ SaveClaim(d) \/ CompleteRegistration(d) \/ GiveUp(d)
       \/ ApplyAccess(d) \/ Activate(d)
  \/ \E r \in late : LateActivate(r)
  \/ \E n \in Name : Expire(n)

Spec == Init /\ [][Next]_vars

(***************************************************************************)
(* Properties.                                                             *)
(***************************************************************************)
\* A device that believes it has an account has the one the relay made for it:
\* no lost answer, repeated activation or code used twice gives a device the
\* account of another (auth.ts:221-241, signal-store.ts:181-185).
AccountsAgree ==
  \A d \in Device : account[d] # NoName => owner[account[d]] = d

\* An account stays with its device and its claim: a name that has one is never
\* claimed anew, and no activation that arrives late makes a second account for
\* a device (auth.ts:173-178, 282-300).
AccountIsKept ==
  [][\A n \in Name : owner[n] # NoDevice =>
       /\ owner'[n] = owner[n] /\ row'[n].id = row[n].id
       /\ \A m \in Name \ {n} : owner'[m] # owner[n]]_vars

\* An account the relay has made for a device that has not heard of it can still
\* be fetched: the device holds the claim that a retry has to show
\* (auth.ts:221-223, "A retry with the same device key and code returns the
\* existing account"; signal-store.ts:187-188, "retrying activation is safe").
RetryIsPossible ==
  \A n \in Name : LET d == owner[n] IN
    d # NoDevice /\ account[d] = NoName /\ call[d] = Idle
      => claim[d] = [name |-> n, id |-> row[n].id]
=============================================================================
