---------------------------- MODULE RelaySession ----------------------------
(***************************************************************************)
(* A daemon's session with the relay: the token cache, its refresh, and    *)
(* the push socket of apps/local-daemon/src/relay-client.ts; challenge,    *)
(* respond and the token check of apps/relay-server/src/auth.ts; and the   *)
(* registry of sockets of ws-handler.ts.                                   *)
(*                                                                         *)
(* Authentications run beside each other and beside locks: a lock or a     *)
(* change of route begins a new generation, but what an older one has      *)
(* begun goes on.  Every authentication yields at most one token, which    *)
(* has its number.                                                         *)
(***************************************************************************)
EXTENDS Naturals, FiniteSets

CONSTANTS
  MaxAuths,    \* bound on authentications
  MaxSockets,  \* bound on sockets opened
  MaxLoops,    \* bound on calls of watch that start to connect
  MaxClears,   \* bound on locks, unlocks and changes of transport
  MaxLosses    \* bound on requests and sockets lost, and on tokens that end

ASSUME SessionAssumption ==
  {MaxAuths, MaxSockets, MaxLoops, MaxClears, MaxLosses} \subseteq Nat

Auth == 1 .. MaxAuths
Socket == 1 .. MaxSockets
Loop == 1 .. MaxLoops

VARIABLES
  locked,      \* the vault is
  generation,  \* counts clearSession
  token,       \* cachedToken, 0: none
  refreshing,  \* the authentication whose promise callers share, 0: none
  auth,        \* every authentication: how far it is, its generation
  watching,
  loop,        \* what a chain of connects waits for: a timer, a token, its socket
  timer,       \* the loop whose timer this.reconnect holds
  socket,      \* this.socket, 0: none
  link,        \* every socket: its two ends and the generation that opened it
  pushed,      \* generations whose sockets brought the envelopes in this.pushed
  request,     \* one request, and the token it goes with
  challenge,   \* activeChallenges of the device: whose it is, 0: none
  valid,       \* sessions of the relay
  registry,    \* clients of the relay: the device's socket, 0: none
  losses

relay == <<challenge, valid, registry>>
session == <<locked, generation, watching, pushed>>
vars == <<session, token, refreshing, auth, loop, timer, socket, link, request, relay, losses>>

NoRequest == [at |-> "none", n |-> 0, prepared |-> FALSE, again |-> FALSE]
Quiet == [at |-> "none", n |-> 0]
Unopened == [client |-> "none", relay |-> "none", generation |-> 0, token |-> 0]

TypeOK ==
  /\ locked \in BOOLEAN /\ watching \in BOOLEAN
  /\ generation \in 0 .. MaxClears /\ losses \in 0 .. MaxLosses
  /\ {token, refreshing, challenge} \subseteq 0 .. MaxAuths
  /\ auth \in [Auth -> [at : {"unused", "asking", "signed", "granted", "over"},
                        generation : 0 .. MaxClears]]
  /\ loop \in [Loop -> [at : {"none", "timer", "token", "socket"}, n : 0 .. MaxAuths + MaxSockets]]
  /\ timer \in 0 .. MaxLoops
  /\ {socket, registry} \subseteq 0 .. MaxSockets
  /\ link \in [Socket -> [client : {"none", "live", "ended", "over"},
                          relay : {"none", "checked", "open", "closing", "closed"},
                          generation : 0 .. MaxClears, token : 0 .. MaxAuths]]
  /\ pushed \subseteq 0 .. MaxClears
  /\ request \in [at : {"none", "token", "ready", "sent"}, n : 0 .. MaxAuths,
                  prepared : BOOLEAN, again : BOOLEAN]
  /\ valid \subseteq Auth

Init ==
  /\ locked = FALSE /\ generation = 0 /\ token = 0 /\ refreshing = 0
  /\ auth = [f \in Auth |-> [at |-> "unused", generation |-> 0]]
  /\ watching = FALSE /\ timer = 0 /\ socket = 0 /\ pushed = {}
  /\ loop = [l \in Loop |-> Quiet] /\ link = [s \in Socket |-> Unopened]
  /\ request = NoRequest
  /\ challenge = 0 /\ valid = {} /\ registry = 0 /\ losses = 0

First(S) == CHOOSE x \in S : \A y \in S : x <= y
NewAuths == {f \in Auth : auth[f].at = "unused"}
NewLoops == {l \in Loop : loop[l] = Quiet}
Opened == Cardinality({s \in Socket : link[s] # Unopened})

(***************************************************************************)
(* The daemon's token.                                                     *)
(***************************************************************************)
\* getToken, when none is cached: the promise of the running refresh, or of a new one.
AwaitToken ==
  IF refreshing # 0
    THEN UNCHANGED <<refreshing, auth>>
    ELSE /\ NewAuths # {}
         /\ refreshing' = First(NewAuths)
         /\ auth' = [auth EXCEPT ![First(NewAuths)] =
                       [at |-> "asking", generation |-> generation]]

\* The loops W, one after the other, each open a socket with token n.
OpenSockets(W, n) ==
  LET number(l) == Opened + Cardinality({m \in W : m <= l}) IN
  /\ Opened + Cardinality(W) <= MaxSockets
  /\ loop' = [l \in Loop |-> IF l \in W THEN [at |-> "socket", n |-> number(l)] ELSE loop[l]]
  /\ link' = [s \in Socket |-> IF \E l \in W : number(l) = s
                THEN [client |-> "live", relay |-> "none",
                      generation |-> generation, token |-> n]
                ELSE link[s]]
  /\ socket' = IF W = {} THEN socket ELSE Opened + Cardinality(W)

\* connect of a loop that still watches.
Connect(l) ==
  IF token # 0
    THEN OpenSockets({l}, token) /\ UNCHANGED <<refreshing, auth>>
    ELSE /\ AwaitToken
         /\ loop' = [loop EXCEPT ![l] = [at |-> "token", n |-> refreshing']]
         /\ UNCHANGED <<socket, link>>

Watch ==
  /\ ~locked /\ ~watching /\ NewLoops # {}
  /\ watching' = TRUE
  /\ Connect(First(NewLoops))
  /\ UNCHANGED <<locked, generation, pushed, token, timer, request, relay, losses>>

TimerFires(l) ==
  /\ loop[l].at = "timer"
  /\ IF watching /\ ~locked
       THEN Connect(l)
       ELSE /\ loop' = [loop EXCEPT ![l] = Quiet]
            /\ UNCHANGED <<refreshing, auth, socket, link>>
  /\ UNCHANGED <<session, token, timer, request, relay, losses>>

\* Loops W have failed: each sets a timer while the client watches.
TryLater(W) ==
  /\ loop' = [l \in Loop |-> IF l \notin W THEN loop[l]
                             ELSE IF watching THEN [at |-> "timer", n |-> 0] ELSE Quiet]
  /\ timer' = IF W # {} /\ watching THEN CHOOSE l \in W : \A m \in W : m <= l ELSE timer

WaitingFor(f) == {l \in Loop : loop[l] = [at |-> "token", n |-> f]}

\* The promise of f fails, and with it the callers that share it.
Fail(f) ==
  /\ auth' = [auth EXCEPT ![f].at = "over"]
  /\ refreshing' = IF refreshing = f THEN 0 ELSE refreshing
  /\ TryLater(WaitingFor(f))
  /\ request' = IF request.at = "token" /\ request.n = f THEN NoRequest ELSE request
  /\ UNCHANGED <<session, token, socket, link, registry>>

LoseAuth(f) ==
  /\ auth[f].at \in {"asking", "signed", "granted"} /\ losses < MaxLosses
  /\ losses' = losses + 1
  /\ Fail(f)
  /\ UNCHANGED <<challenge, valid>>

\* A token that comes after a lock is dropped.
FaultyIsWanted(f) == ~locked
IsWanted(f) == ~locked /\ auth[f].generation = generation

\* authenticateFresh ends and its callers go on: loops open a socket each, a
\* request is sent.
Granted(f) ==
  /\ auth[f].at = "granted"
  /\ IF ~IsWanted(f)
       THEN Fail(f)
       ELSE /\ token' = f
            /\ refreshing' = IF refreshing = f THEN 0 ELSE refreshing
            /\ auth' = [auth EXCEPT ![f].at = "over"]
            /\ IF watching
                 THEN OpenSockets(WaitingFor(f), f)
                 ELSE /\ loop' = [l \in Loop |-> IF l \in WaitingFor(f) THEN Quiet ELSE loop[l]]
                      /\ UNCHANGED <<socket, link>>
            /\ request' = IF request.at = "token" /\ request.n = f
                            THEN [request EXCEPT !.at = IF request.prepared THEN "ready"
                                                                            ELSE "sent"]
                            ELSE request
            /\ UNCHANGED <<session, timer, registry>>
  /\ UNCHANGED <<challenge, valid, losses>>

(***************************************************************************)
(* Requests: one that the queue of the daemon holds back locks for, or one *)
(* prepared for the Tor fallback, which runs beside it.                    *)
(***************************************************************************)
NeedToken(r, t) ==
  IF t # 0
    THEN /\ request' = [r EXCEPT !.at = IF r.prepared THEN "ready" ELSE "sent", !.n = t]
         /\ UNCHANGED <<refreshing, auth>>
    ELSE /\ AwaitToken
         /\ request' = [r EXCEPT !.at = "token", !.n = refreshing']

StartRequest(prepared) ==
  /\ request = NoRequest /\ ~locked
  /\ NeedToken([NoRequest EXCEPT !.prepared = prepared], token)
  /\ UNCHANGED <<session, token, loop, timer, socket, link, relay, losses>>

SendPrepared ==
  /\ request.at = "ready"
  /\ request' = [request EXCEPT !.at = "sent"]
  /\ UNCHANGED <<session, token, refreshing, auth, loop, timer, socket, link, relay, losses>>

\* What a 401 for a request sent with token n leaves of the cached one.
FaultyTokenAfter401(n) == 0
TokenAfter401(n) == IF token = n THEN 0 ELSE token

RequestAnswered ==
  /\ request.at = "sent"
  /\ IF request.n \in valid
       THEN request' = NoRequest /\ UNCHANGED <<token, refreshing, auth>>
       ELSE IF request.prepared \/ request.again
         THEN /\ request' = NoRequest
              /\ token' = IF request.prepared THEN TokenAfter401(request.n) ELSE token
              /\ UNCHANGED <<refreshing, auth>>
         ELSE /\ token' = TokenAfter401(request.n)
              /\ NeedToken([request EXCEPT !.again = TRUE], token')
  /\ UNCHANGED <<session, loop, timer, socket, link, relay, losses>>

(***************************************************************************)
(* clearSession, by a lock, an unlock or a change of transport: only what  *)
(* the queue does not hold is under way.                                   *)
(***************************************************************************)
Clear ==
  /\ generation < MaxClears
  /\ request.at = "none" \/ request.prepared
  /\ generation' = generation + 1
  /\ pushed' = {} /\ watching' = FALSE /\ token' = 0 /\ refreshing' = 0
  /\ loop' = [l \in Loop |-> IF l = timer /\ loop[l].at = "timer" THEN Quiet ELSE loop[l]]
  /\ socket' = 0
  /\ link' = [s \in Socket |-> IF s = socket /\ link[s].client = "live"
                THEN [link[s] EXCEPT !.client = "ended"] ELSE link[s]]
  /\ request' = IF request.at = "ready" THEN NoRequest ELSE request
  /\ UNCHANGED <<auth, timer, relay, losses>>

Lock == ~locked /\ locked' = TRUE /\ Clear
Unlock == locked /\ locked' = FALSE /\ Clear
ChangeTransport == ~locked /\ UNCHANGED locked /\ Clear

(***************************************************************************)
(* The relay's tokens.                                                     *)
(***************************************************************************)
GetChallenge(f) ==
  /\ auth[f].at = "asking"
  /\ challenge' = f
  /\ auth' = [auth EXCEPT ![f].at = "signed"]
  /\ UNCHANGED <<session, token, refreshing, loop, timer, socket, link, request, valid,
                 registry, losses>>

\* Any answer consumes the challenge, whoever's it is.
Respond(f) ==
  /\ auth[f].at = "signed"
  /\ challenge' = 0
  /\ IF challenge = f
       THEN /\ valid' = valid \union {f}
            /\ auth' = [auth EXCEPT ![f].at = "granted"]
            /\ UNCHANGED <<session, token, refreshing, loop, timer, socket, link, request,
                           registry>>
       ELSE Fail(f) /\ UNCHANGED valid
  /\ UNCHANGED losses

\* Another copy of the vault claims the device and its sessions are deleted, or one
\* expires, which the daemon then knows too.
SessionEnds(n, known) ==
  /\ n \in valid /\ losses < MaxLosses
  /\ valid' = valid \ {n}
  /\ token' = IF known /\ token = n THEN 0 ELSE token
  /\ losses' = losses + 1
  /\ UNCHANGED <<session, refreshing, auth, loop, timer, socket, link, request, challenge,
                 registry>>

(***************************************************************************)
(* Sockets.  The relay answers an upgrade in two steps, and each side      *)
(* hears of an end by itself.                                              *)
(***************************************************************************)
CheckUpgrade(s) ==
  /\ link[s].client # "none" /\ link[s].relay = "none"
  /\ link' = [link EXCEPT ![s].relay = IF link[s].token \in valid THEN "checked" ELSE "closed"]
  /\ UNCHANGED <<session, token, refreshing, auth, loop, timer, socket, request, relay, losses>>

Register(s) ==
  /\ link[s].relay = "checked"
  /\ registry' = s
  /\ link' = [t \in Socket |->
       CASE t = s -> [link[s] EXCEPT !.relay = "open"]
         [] t = registry /\ link[t].relay = "open" -> [link[t] EXCEPT !.relay = "closing"]
         [] OTHER -> link[t]]
  /\ UNCHANGED <<session, token, refreshing, auth, loop, timer, socket, request, challenge,
                 valid, losses>>

\* A ping finds the token gone.
PingFails(s) ==
  /\ link[s].relay = "open" /\ link[s].token \notin valid
  /\ link' = [link EXCEPT ![s].relay = "closing"]
  /\ UNCHANGED <<session, token, refreshing, auth, loop, timer, socket, request, relay, losses>>

LoseSocket(s) ==
  /\ link[s].client = "live" /\ losses < MaxLosses
  /\ link' = [link EXCEPT ![s].client = "ended"]
  /\ losses' = losses + 1
  /\ UNCHANGED <<session, token, refreshing, auth, loop, timer, socket, request, relay>>

\* The registry once the relay has heard that s is closed.
FaultyRegistryAfter(s) == 0
RegistryAfter(s) == IF registry = s THEN 0 ELSE registry

RelayHearsClose(s) ==
  /\ \/ link[s].relay = "closing"
     \/ link[s].relay = "open" /\ link[s].client \in {"ended", "over"}
  /\ link' = [link EXCEPT ![s].relay = "closed"]
  /\ registry' = RegistryAfter(s)
  /\ UNCHANGED <<session, token, refreshing, auth, loop, timer, socket, request, challenge,
                 valid, losses>>

\* Any socket's close starts a timer while the client watches.
ClientHearsClose(s) ==
  /\ \/ link[s].client = "ended"
     \/ link[s].client = "live" /\ link[s].relay \in {"closing", "closed"}
  /\ link' = [link EXCEPT ![s].client = "over"]
  /\ socket' = IF socket = s THEN 0 ELSE socket
  /\ TryLater({l \in Loop : loop[l] = [at |-> "socket", n |-> s]})
  /\ UNCHANGED <<session, token, refreshing, auth, request, relay, losses>>

\* A socket that is not this.socket any more brings nothing.
MayPush(s) == socket = s

\* An envelope on the socket reaches the client, perhaps after it gave the socket up.
Push(s) ==
  /\ link[s].relay \in {"open", "closing"} /\ link[s].client \in {"live", "ended"}
  /\ MayPush(s)
  /\ pushed' = pushed \union {link[s].generation}
  /\ UNCHANGED <<locked, generation, watching, token, refreshing, auth, loop, timer, socket,
                 link, request, relay, losses>>

TakePushed ==
  /\ pushed # {} /\ ~locked
  /\ pushed' = {}
  /\ UNCHANGED <<locked, generation, watching, token, refreshing, auth, loop, timer, socket,
                 link, request, relay, losses>>

Next ==
  \/ Watch \/ SendPrepared \/ RequestAnswered \/ TakePushed
  \/ Lock \/ Unlock \/ ChangeTransport
  \/ \E prepared \in BOOLEAN : StartRequest(prepared)
  \/ \E l \in Loop : TimerFires(l)
  \/ \E f \in Auth : GetChallenge(f) \/ Respond(f) \/ Granted(f) \/ LoseAuth(f)
  \/ \E n \in Auth, known \in BOOLEAN : SessionEnds(n, known)
  \/ \E s \in Socket : \/ CheckUpgrade(s) \/ Register(s) \/ PingFails(s) \/ LoseSocket(s)
                       \/ RelayHearsClose(s) \/ ClientHearsClose(s) \/ Push(s)

Spec == Init /\ [][Next]_vars

(***************************************************************************)
(* Properties.                                                             *)
(***************************************************************************)
\* Nothing of an earlier session reaches this one: a locked vault holds no token, an
\* open one none that was asked for before its last lock or change of transport,
\* however late the answers of older authentications come, and no envelope that an
\* earlier session's socket brings (relay-client.ts:38, 52, 91, 130-131).
SessionIsCurrent ==
  /\ token # 0 => ~locked /\ auth[token].generation = generation
  /\ pushed \subseteq {generation}

\* A token the relay still accepts is given up only by clearSession: neither a 401
\* for a request sent with an older token nor an older authentication that ends late
\* takes it away (relay-client.ts:152, 165).
GoodTokenKept ==
  [][(token \in valid /\ token' # token => generation' # generation \/ ~(token \in valid'))]_vars

\* The relay reaches the device by the socket registered last: the end of one it
\* replaced, which may be heard after, does not unregister it (ws-handler.ts:61, 102).
RegistryTracksLatest == \A s \in Socket : link[s].relay = "open" => registry = s
=============================================================================
