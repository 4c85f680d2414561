------------------------------ MODULE Contacts ------------------------------
(***************************************************************************)
(* How two users come to write to each other: requests, permissions and    *)
(* exchange acknowledgements of apps/relay-server/src/conversations.ts and *)
(* blind-dropbox.ts, the bundles of prekeys.ts, and the sessions, contacts *)
(* and prekeys a daemon keeps (addContactAndSession and syncMessages of    *)
(* apps/local-daemon/src/messages.ts, signal-store.ts, signal-adapter.ts). *)
(*                                                                         *)
(* A daemon does one thing at a time and may stop between any two writes;  *)
(* transactions of the relay run beside each other and hold rows locked.   *)
(***************************************************************************)
EXTENDS Naturals, FiniteSets

CONSTANTS
  User,
  Phone,      \* users of the Android client, which alone confirms exchanges
  Asking,     \* pairs <<u, v>> of users of whom u may ask v
  MaxKeys,    \* one-time prekeys of a kind that a user publishes, 100 in the code
  MaxCrashes  \* bound on crashes, answers lost and transactions rolled back

VARIABLES
  request,     \* connection_requests: the status, "expired" for a pending one out of date
  permission,  \* conversation_permissions
  ack, acking, \* contact_exchange_acks: rows, and transactions that insert one
  acked,       \* history: the acknowledgements there have been
  free,        \* one-time prekeys of the relay not consumed, by user and kind
  bundle,      \* the bundle transaction a user's request runs on the relay
  doing,       \* what a user's daemon is at
  session,     \* signal_sessions: the prekeys a session began with
  remote,      \* remote_contacts: who knows whom
  conversation,
  private,     \* signal_prekeys: private halves of classical one-time prekeys
  mail,        \* the first messages of sessions, pending at the relay
  crashes

requests == <<request, permission, ack, acking, acked>>
keys == <<free, bundle>>
local == <<session, remote, conversation, private>>
vars == <<requests, keys, doing, local, mail, crashes>>

Kind == {"classical", "pq"}
Key == 1 .. MaxKeys
NoKey == 0  \* the classical one is left out, the PQ one is the last resort
Keys == [Kind -> Key \union {NoKey}]
NoKeys == [k \in Kind |-> NoKey]
Idle == [at |-> "idle"]
NoSession == [at |-> "none", keys |-> NoKeys]

TypeOK ==
  /\ request \in [Asking -> {"none", "pending", "expired", "accepted", "rejected"}]
  /\ permission \subseteq SUBSET User
  /\ ack \subseteq User \X User /\ acking \subseteq User \X User /\ acked \subseteq User \X User
  /\ free \in [User -> [Kind -> SUBSET Key]]
  /\ bundle \in [User -> [at : {"taken one", "taken both"}, of : User, keys : Keys] \union {Idle}]
  /\ doing \in [User -> [at : {"bundle"}, peer : User]
                          \union [at : {"answer", "session", "remote"}, peer : User, keys : Keys]
                          \union {Idle}]
  /\ session \in [User \X User -> [at : {"none", "new", "used"}, keys : Keys]]
  /\ remote \subseteq User \X User /\ conversation \subseteq User \X User
  /\ private \in [User -> SUBSET Key]
  /\ mail \subseteq [from : User, to : User, keys : Keys]
  /\ crashes \in 0 .. MaxCrashes

\* Every account is activated with all its prekeys.
Init ==
  /\ request = [p \in Asking |-> "none"] /\ permission = {}
  /\ ack = {} /\ acking = {} /\ acked = {}
  /\ free = [u \in User |-> [k \in Kind |-> Key]]
  /\ bundle = [u \in User |-> Idle] /\ doing = [u \in User |-> Idle]
  /\ session = [p \in User \X User |-> NoSession]
  /\ remote = {} /\ conversation = {} /\ private = [u \in User |-> Key]
  /\ mail = {} /\ crashes = 0

(***************************************************************************)
(* Requests.                                                               *)
(***************************************************************************)
\* A request that exists is asked anew only when it was rejected.
FaultyAsksAnew(status) == status # "pending"
AsksAnew(status) == status \in {"none", "rejected"}

Ask(p) ==
  /\ AsksAnew(request[p])
  /\ request' = [request EXCEPT ![p] = "pending"]
  /\ UNCHANGED <<permission, ack, acking, acked, keys, doing, local, mail, crashes>>

Expire(p) ==
  /\ request[p] = "pending"
  /\ request' = [request EXCEPT ![p] = "expired"]
  /\ UNCHANGED <<permission, ack, acking, acked, keys, doing, local, mail, crashes>>

Accept(p) ==
  /\ request[p] = "pending"
  /\ request' = [request EXCEPT ![p] = "accepted"]
  /\ permission' = permission \union {{p[1], p[2]}}
  /\ UNCHANGED <<ack, acking, acked, keys, doing, local, mail, crashes>>

\* A rejection may come too late.
Reject(p) ==
  /\ request[p] \in {"pending", "expired"}
  /\ request' = [request EXCEPT ![p] = "rejected"]
  /\ UNCHANGED <<permission, ack, acking, acked, keys, doing, local, mail, crashes>>

\* exchange-ack of u for v inserts its row, which only this transaction sees.
InsertAck(u, v) ==
  /\ u \in Phone /\ <<u, v>> \in remote /\ {u, v} \in permission
  /\ acking' = acking \union {<<u, v>>}
  /\ UNCHANGED <<request, permission, ack, acked, keys, doing, local, mail, crashes>>

\* It looks for the peer's row among those committed, and deletes what the two
\* acknowledgements make needless.
CommitAck(u, v) ==
  /\ <<u, v>> \in acking
  /\ acking' = acking \ {<<u, v>>}
  /\ acked' = acked \union {<<u, v>>}
  /\ IF <<v, u>> \in ack
       THEN /\ request' = [p \in Asking |->
                 IF {p[1], p[2]} = {u, v} /\ request[p] = "accepted" THEN "none" ELSE request[p]]
            /\ ack' = ack \ {<<u, v>>, <<v, u>>}
       ELSE ack' = ack \union {<<u, v>>} /\ UNCHANGED request
  /\ UNCHANGED <<permission, keys, doing, local, mail, crashes>>

(***************************************************************************)
(* Bundles: one transaction takes the first one-time prekey of either kind *)
(* that no other has consumed or holds locked.                             *)
(***************************************************************************)
Held(v, kind) == {bundle[u].keys[kind] : u \in {w \in User : bundle[w] # Idle /\ bundle[w].of = v}}
FaultyCandidates(v, kind) == free[v][kind]
Candidates(v, kind) == free[v][kind] \ Held(v, kind)
Take(v, kind) ==
  IF Candidates(v, kind) = {} THEN NoKey
  ELSE CHOOSE k \in Candidates(v, kind) : \A j \in Candidates(v, kind) : k <= j

\* Without permission the answer is 403, and the daemon gives up.
TakeClassical(u) ==
  /\ doing[u].at = "bundle" /\ bundle[u] = Idle
  /\ LET v == doing[u].peer IN
     IF {u, v} \in permission
       THEN /\ bundle' = [bundle EXCEPT ![u] =
                 [at |-> "taken one", of |-> v,
                  keys |-> [NoKeys EXCEPT !["classical"] = Take(v, "classical")]]]
            /\ UNCHANGED doing
       ELSE doing' = [doing EXCEPT ![u] = Idle] /\ UNCHANGED bundle
  /\ UNCHANGED <<requests, free, local, mail, crashes>>

TakePq(u) ==
  /\ bundle[u].at = "taken one"
  /\ bundle' = [bundle EXCEPT ![u].at = "taken both",
                              ![u].keys["pq"] = Take(bundle[u].of, "pq")]
  /\ UNCHANGED <<requests, free, doing, local, mail, crashes>>

WaitsFor(u) == doing[u] = [at |-> "bundle", peer |-> bundle[u].of]

CommitBundle(u) ==
  /\ bundle[u].at = "taken both"
  /\ free' = [free EXCEPT ![bundle[u].of] = [k \in Kind |-> @[k] \ {bundle[u].keys[k]}]]
  /\ bundle' = [bundle EXCEPT ![u] = Idle]
  /\ doing' = IF WaitsFor(u)
                THEN [doing EXCEPT ![u] = [at |-> "answer", peer |-> bundle[u].of,
                                           keys |-> bundle[u].keys]]
                ELSE doing
  /\ UNCHANGED <<requests, local, mail, crashes>>

\* The transaction fails and gives back what it held.
RollBack(u) ==
  /\ bundle[u] # Idle /\ crashes < MaxCrashes
  /\ bundle' = [bundle EXCEPT ![u] = Idle]
  /\ doing' = IF WaitsFor(u) THEN [doing EXCEPT ![u] = Idle] ELSE doing
  /\ crashes' = crashes + 1
  /\ UNCHANGED <<requests, free, local, mail>>

(***************************************************************************)
(* The daemon.                                                             *)
(***************************************************************************)
\* addContactAndSession of a user, or a message of a sender who is no contact yet.
FetchBundle(u, v) ==
  /\ u # v /\ doing[u] = Idle
  /\ \/ <<u, v>> \notin remote
     \/ session[<<u, v>>].at = "none"
  /\ doing' = [doing EXCEPT ![u] = [at |-> "bundle", peer |-> v]]
  /\ UNCHANGED <<requests, keys, local, mail, crashes>>

\* establishSession replaces the session; the contact's rows follow one by one.
Establish(u) ==
  /\ doing[u].at = "answer"
  /\ session' = [session EXCEPT ![<<u, doing[u].peer>>] =
                   [at |-> "new", keys |-> doing[u].keys]]
  /\ doing' = [doing EXCEPT ![u].at = "session"]
  /\ UNCHANGED <<requests, keys, remote, conversation, private, mail, crashes>>

SaveRemote(u) ==
  /\ doing[u].at = "session"
  /\ remote' = remote \union {<<u, doing[u].peer>>}
  /\ doing' = [doing EXCEPT ![u].at = "remote"]
  /\ UNCHANGED <<requests, keys, session, conversation, private, mail, crashes>>

\* The last write names the contact; a contact a user has added has a conversation
\* then, a sender's comes with his message.
FinishContact(u) ==
  /\ doing[u].at = "remote"
  /\ \/ conversation' = conversation \union {<<u, doing[u].peer>>}
     \/ UNCHANGED conversation
  /\ doing' = [doing EXCEPT ![u] = Idle]
  /\ UNCHANGED <<requests, keys, session, remote, private, mail, crashes>>

\* The first message of a session carries the prekeys it began with.
SendFirst(u, v) ==
  /\ doing[u] = Idle /\ <<u, v>> \in conversation
  /\ session[<<u, v>>].at = "new"
  /\ mail' = mail \union {[from |-> u, to |-> v, keys |-> session[<<u, v>>].keys]}
  /\ session' = [session EXCEPT ![<<u, v>>].at = "used"]
  /\ UNCHANGED <<requests, keys, doing, remote, conversation, private, crashes>>

\* Opening it uses the classical key up; a PQ key is kept.  The session is the
\* sender's from now on.
CanOpen(m) == m.keys["classical"] \in private[m.to] \union {NoKey}

Receive(m) ==
  /\ doing[m.to] = Idle /\ <<m.to, m.from>> \in remote
  /\ CanOpen(m)
  /\ mail' = mail \ {m}
  /\ private' = [private EXCEPT ![m.to] = @ \ {m.keys["classical"]}]
  /\ session' = [session EXCEPT ![<<m.to, m.from>>].at = "used"]
  /\ conversation' = conversation \union {<<m.to, m.from>>}
  /\ UNCHANGED <<requests, keys, doing, remote, crashes>>

\* The daemon stops, or gives up an answer.
Crash(u) ==
  /\ doing[u] # Idle /\ crashes < MaxCrashes
  /\ doing' = [doing EXCEPT ![u] = Idle]
  /\ crashes' = crashes + 1
  /\ UNCHANGED <<requests, keys, local, mail>>

Next ==
  \/ \E p \in Asking : Ask(p) \/ Expire(p) \/ Accept(p) \/ Reject(p)
  \/ \E u, v \in User : InsertAck(u, v) \/ CommitAck(u, v) \/ FetchBundle(u, v) \/ SendFirst(u, v)
  \/ \E u \in User : \/ TakeClassical(u) \/ TakePq(u) \/ CommitBundle(u) \/ RollBack(u)
                     \/ Establish(u) \/ SaveRemote(u) \/ FinishContact(u) \/ Crash(u)
  \/ \E m \in mail : Receive(m)

Spec == Init /\ [][Next]_vars

(***************************************************************************)
(* Properties.                                                             *)
(***************************************************************************)
\* The owner of the prekeys a session began with can open its first message: no two
\* bundles share a one-time key, though requests of several users run at once, fail
\* halfway, or take the last key (prekeys.ts:230-259, signal-store.ts:296).
FirstMessageOpens == \A m \in mail : CanOpen(m)

\* What the recipient has accepted is not asked again, and its record goes only when
\* either side has confirmed the exchange (conversations.ts:40-42,
\* blind-dropbox.ts:19-21).
StandingDecisions ==
  \A p \in Asking : request[p] = "accepted" =>
    \/ request'[p] = "accepted"
    \/ request'[p] = "none" /\ {p, <<p[2], p[1]>>} \subseteq acked'
DecisionStands == [][StandingDecisions]_vars
=============================================================================
