----------------------------- MODULE PhoneLink -----------------------------
(***************************************************************************)
(* A phone's link with its relay (NativeEngine.java): the route to it, the *)
(* token and the push socket it is used with, and what makes and breaks    *)
(* them - the user's requests, a discovery of the relay, the network, the  *)
(* foreground service.                                                     *)
(*                                                                         *)
(* A request of the user takes the engine's monitor, its traffic with the  *)
(* relay included; so does each task of the one background thread.  The    *)
(* lookup of a discovery is made outside it, and the callbacks of a socket *)
(* never take it.  The messages that come are left to PhoneMessaging.      *)
(***************************************************************************)
EXTENDS Naturals, Sequences

CONSTANTS
  Vault,
  Builtin,     \* the relay of the build
  Lan,         \* a route of the fixed list
  Own,         \* other routes a user may choose
  Tunnel,      \* routes under trycloudflare.com
  Domain,      \* other routes a discovery may find
  None,
  MaxActing,   \* bound on listeners that act at a time
  MaxSessions, \* bound on vaults opened
  MaxRoutes,   \* bound on routes chosen by the user, and on lookups
  MaxChanges   \* bound on changes of mode, network and service

VARIABLES
  mode,        \* transportMode
  vault,       \* the open vault
  quick,       \* quickLocked
  origin,      \* relay.origin
  discovered,  \* discoveredOrigin
  previous,    \* previousInternetOrigin
  lookup,      \* the route a running discovery began from
  token,       \* accessToken: whose it is, and which relay gave it
  pushSocket,  \* the push socket: for which vault, with which relay
  acting,      \* how many listeners have read that their socket is pushSocket
  waiting,     \* reconnectAt has not come
  reconnect,   \* reconnectTask is scheduled
  tor,         \* there is an onion transport
  running,     \* the foreground service runs
  network,     \* the default network of the phone
  callback,    \* networkCallback, 0: none; and what its handover has heard
  online,      \* networkAvailable
  posted,      \* tasks of the background thread
  count        \* what the bounds count

user == <<mode, vault, quick>>
route == <<origin, discovered, previous, lookup>>
push == <<token, pushSocket>>
retry == <<waiting, reconnect>>
device == <<running, network>>
direct == <<tor, callback>>
vars == <<user, route, push, acting, retry, device, direct, online, posted, count>>

Mode == {"DIRECT_TOR_P2P", "HYBRID_TOR_RELAY", "RELAY_ONLY"}
Route == {Builtin, Lan} \union Own \union Tunnel \union Domain
Network == {1, 2}
Counted(what, max) == count[what] < max /\ count' = [count EXCEPT ![what] = @ + 1]

TypeOK ==
  /\ mode \in Mode /\ vault \in Vault \union {None} /\ quick \in BOOLEAN
  /\ quick => vault # None
  /\ origin \in Route /\ {discovered, previous, lookup} \subseteq Route \union {None}
  /\ token = None \/ token \in [of : Vault, from : Route]
  /\ pushSocket = None \/ pushSocket \in [of : Vault, from : Route, live : BOOLEAN]
  /\ acting \in 0 .. MaxActing
  /\ {waiting, reconnect, tor, running, online} \subseteq BOOLEAN
  /\ network \in Network \union {0}
  /\ callback.current \in Network \union {0} /\ callback.number \in Nat
  /\ callback.current # 0 => callback.on
  /\ callback.on => tor
  /\ \A i \in 1 .. Len(posted) : posted[i].does \in {"changed", "retry", "stop"}

Init ==
  /\ mode = "HYBRID_TOR_RELAY" /\ vault = None /\ quick = FALSE
  /\ origin = Builtin /\ discovered = None /\ previous = None /\ lookup = None
  /\ token = None /\ pushSocket = None /\ acting = 0
  /\ waiting = FALSE /\ reconnect = FALSE
  /\ tor = FALSE /\ running = FALSE /\ network = 1
  /\ callback = [number |-> 0, on |-> FALSE, current |-> 0, validated |-> FALSE, seen |-> FALSE]
  /\ online = TRUE /\ posted = <<>>
  /\ count = [sessions |-> 0, routes |-> 0, lookups |-> 0, changes |-> 0]

Open == vault # None /\ ~quick
Direct == mode = "DIRECT_TOR_P2P"

-----------------------------------------------------------------------------
(* The onion transport and the callback for the network.                   *)

Posts(task) == posted' = Append(posted, task)
Changed(n, up) == [does |-> "changed", of |-> n, up |-> up]

NoCallback == [callback EXCEPT !.on = FALSE, !.current = 0, !.validated = FALSE, !.seen = FALSE]
StopDirect == tor' = FALSE /\ callback' = NoCallback

\* ensureTor in a mode that has it, from a callback there is or not: registerConnectivity is
\* told at once of the network there is.
EnsureTor(from, queue) ==
  /\ tor' = TRUE
  /\ IF from.on \/ ~running THEN callback' = from /\ posted' = queue
     ELSE LET n == from.number + 1 IN
          /\ callback' = [NoCallback EXCEPT !.number = n, !.on = TRUE, !.current = network]
          /\ posted' = IF network = 0 THEN queue ELSE Append(queue, Changed(n, TRUE))

\* NetworkHandover: onAvailable of another network, onLost, and a validation that comes back.
Available(n) ==
  /\ n # network /\ Counted("changes", MaxChanges)
  /\ network' = n
  /\ IF ~callback.on THEN UNCHANGED <<callback, posted>>
     ELSE /\ callback' = [callback EXCEPT !.current = n, !.validated = FALSE, !.seen = FALSE]
          /\ Posts(Changed(callback.number, TRUE))
  /\ UNCHANGED <<user, route, push, retry, running, tor, online, acting>>

Lost ==
  /\ network # 0 /\ Counted("changes", MaxChanges)
  /\ network' = 0
  /\ IF ~callback.on THEN UNCHANGED <<callback, posted>>
     ELSE /\ callback' = [callback EXCEPT !.current = 0, !.validated = FALSE]
          /\ Posts(Changed(callback.number, FALSE))
  /\ UNCHANGED <<user, route, push, retry, running, tor, online, acting>>

Capabilities(valid) ==
  /\ callback.current # 0 /\ Counted("changes", MaxChanges)
  /\ callback' = [callback EXCEPT !.seen = TRUE, !.validated = valid]
  /\ IF callback.seen /\ valid /\ ~callback.validated
     THEN Posts(Changed(callback.number, TRUE)) ELSE UNCHANGED posted
  /\ UNCHANGED <<user, route, push, retry, device, tor, online, acting>>

-----------------------------------------------------------------------------
(* The token and the push socket.                                          *)

\* What is cancelled is heard of no more, unless its listener acts already.
StopPush == pushSocket' = None
ClearAuth == token' = None /\ StopPush

\* authenticate: with another token the socket of the last one is given up.
Authenticate == token' = [of |-> vault, from |-> origin] /\ StopPush

\* relay.events: a socket that fails at once may do so before it is pushSocket.
Listen(t) == \E live \in BOOLEAN : pushSocket' = [of |-> t.of, from |-> t.from, live |-> live]

\* ensurePush.
EnsurePush(wait) ==
  \/ ~online /\ UNCHANGED push
  \/ token # None /\ (pushSocket # None \/ wait) /\ UNCHANGED push
  \/ online /\ token # None /\ pushSocket = None /\ ~wait /\ Listen(token) /\ UNCHANGED token
  \/ online /\ wait /\ Authenticate
  \/ /\ online /\ ~wait
     /\ token' = [of |-> vault, from |-> origin] /\ Listen(token')

ScheduleReconnect(up) == waiting' = TRUE /\ reconnect' = up

\* A poll of the user interface, or foreground, whose failure is tried again.
Connect ==
  /\ Open /\ ~Direct
  /\ \/ EnsurePush(waiting) /\ UNCHANGED retry
     \/ ScheduleReconnect(online) /\ UNCHANGED push
  /\ UNCHANGED <<user, route, device, direct, online, acting, posted, count>>

Reconnect ==
  /\ reconnect /\ ~waiting /\ lookup = None
  /\ \/ /\ reconnect' = FALSE /\ UNCHANGED waiting
        /\ IF Open /\ ~Direct THEN EnsurePush(FALSE) ELSE UNCHANGED push
     \/ Open /\ ~Direct /\ ScheduleReconnect(online) /\ UNCHANGED push
  /\ UNCHANGED <<user, route, device, direct, online, acting, posted, count>>

TimePasses ==
  /\ waiting
  /\ waiting' = FALSE
  /\ UNCHANGED <<user, route, push, reconnect, device, direct, online, acting, posted, count>>

\* request, for a token that is missing, expired or refused.
Renew ==
  /\ Open /\ ~Direct
  /\ Authenticate
  /\ UNCHANGED <<user, route, retry, device, direct, online, acting, posted, count>>

\* relayFallback: a 401.
Refused ==
  /\ Open /\ mode = "HYBRID_TOR_RELAY" /\ token # None
  /\ token' = None
  /\ UNCHANGED <<user, route, pushSocket, retry, device, direct, online, acting, posted, count>>

\* onFailure, onClosed: whether the socket is pushSocket is read here...
SocketEnds ==
  /\ pushSocket # None /\ acting < MaxActing
  /\ pushSocket.live /\ pushSocket' = [pushSocket EXCEPT !.live = FALSE]
  /\ acting' = acting + 1
  /\ UNCHANGED <<user, route, token, retry, device, direct, online, posted, count>>

\* ...and acted on here, whatever has become of it, by a thread without the monitor.
Act ==
  /\ acting > 0 /\ acting' = acting - 1
  /\ pushSocket' = None
  /\ ScheduleReconnect(online)
  /\ UNCHANGED <<user, route, token, device, direct, online, posted, count>>

-----------------------------------------------------------------------------
(* Tasks of the background thread, which a lookup keeps busy.              *)

Task(name) == lookup = None /\ posted # <<>> /\ Head(posted).does = name

\* A socket in place of the one there is, with another token or the one there is.
Relisten ==
  /\ \/ token # None /\ UNCHANGED token
     \/ token' = [of |-> vault, from |-> origin]
  /\ Listen(token')

NetworkChanged ==
  /\ Task("changed")
  /\ LET up == Head(posted).up IN
     IF callback.number # Head(posted).of \/ ~callback.on \/ ~Open \/ ~running
     THEN posted' = Tail(posted) /\ UNCHANGED <<push, retry, direct, online>>
     ELSE /\ online' = up
          /\ IF ~up
             THEN /\ StopPush /\ waiting' = FALSE /\ reconnect' = FALSE
                  /\ posted' = Tail(posted)
                  /\ UNCHANGED <<token, direct>>
             ELSE /\ IF mode = "RELAY_ONLY" THEN posted' = Tail(posted) /\ UNCHANGED direct
                     ELSE EnsureTor(callback, Tail(posted))
                  /\ \/ waiting' = FALSE /\ reconnect' = FALSE
                        /\ IF Direct THEN StopPush /\ UNCHANGED token ELSE Relisten
                     \/ ~Direct /\ StopPush /\ ScheduleReconnect(TRUE) /\ UNCHANGED token
  /\ UNCHANGED <<user, route, acting, device, count>>

\* queueTorRetry: the onion service is ready; the tick that follows is Tick.
Ready ==
  /\ tor /\ Counted("changes", MaxChanges)
  /\ \A i \in 1 .. Len(posted) : posted[i].does # "retry"
  /\ Posts([does |-> "retry", of |-> vault])
  /\ UNCHANGED <<user, route, push, retry, device, direct, online, acting>>

Retry ==
  /\ Task("retry")
  /\ posted' = Tail(posted)
  /\ waiting' = (waiting /\ ~(Open /\ vault = Head(posted).of))
  /\ UNCHANGED <<user, route, push, reconnect, device, direct, online, acting, count>>

\* transportTick, up to what it asks of the relay.
Tick ==
  /\ Open /\ lookup = None /\ mode # "RELAY_ONLY"
  /\ EnsureTor(callback, posted)
  /\ UNCHANGED <<user, route, push, retry, device, online, acting, count>>

\* The service starts while the vault is open, and is stopped by a lock or by Android.
ServiceStarts ==
  /\ ~running /\ Open
  /\ running' = TRUE
  /\ UNCHANGED <<user, route, push, retry, network, direct, online, acting, posted, count>>

ServiceEnds ==
  /\ running /\ Counted("changes", MaxChanges)
  /\ running' = FALSE
  /\ Posts([does |-> "stop"])
  /\ UNCHANGED <<user, route, push, retry, network, direct, online, acting>>

DeliveryStopped ==
  /\ Task("stop")
  /\ posted' = Tail(posted)
  /\ IF running THEN UNCHANGED direct ELSE StopDirect
  /\ UNCHANGED <<user, route, push, retry, device, online, acting, count>>

-----------------------------------------------------------------------------
(* The user's requests, and the route.                                     *)

\* adoptVault: each vault has its mode.
Unlock(v) ==
  /\ vault = None /\ Counted("sessions", MaxSessions)
  /\ vault' = v /\ quick' = FALSE /\ mode' \in Mode
  /\ StopDirect /\ ClearAuth
  /\ reconnect' = FALSE
  /\ UNCHANGED <<route, waiting, device, online, acting, posted>>

Lock ==
  /\ vault # None
  /\ vault' = None /\ quick' = FALSE
  /\ StopDirect /\ ClearAuth
  /\ UNCHANGED <<mode, route, retry, device, online, acting, posted, count>>

\* The socket is kept.
QuickLock ==
  /\ Open /\ Counted("changes", MaxChanges)
  /\ quick' = TRUE
  /\ StopDirect
  /\ UNCHANGED <<mode, vault, route, push, retry, device, online, acting, posted>>

QuickUnlock ==
  /\ quick /\ quick' = FALSE
  /\ UNCHANGED <<mode, vault, route, push, retry, device, direct, online, acting, posted, count>>

\* So it is when the mode is set, and what the mode allows is started anew.
SetMode(m) ==
  /\ Open /\ m # mode /\ Counted("changes", MaxChanges)
  /\ mode' = m
  /\ IF m = "RELAY_ONLY" THEN StopDirect /\ UNCHANGED posted ELSE EnsureTor(NoCallback, posted)
  /\ UNCHANGED <<vault, quick, route, push, retry, device, online, acting>>

Trusted(r, found, before) == r \in {Builtin, Lan, found, before}

\* configure, when discovery has found what it has: an open vault keeps to trusted routes.
FaultyTokenAfter == token
TokenAfter == None
Configure(r, found) ==
  LET before == IF origin \in Tunnel THEN origin ELSE previous IN
  /\ previous' = before
  /\ IF vault = None \/ (Trusted(origin, found, before) /\ Trusted(r, found, before))
     THEN origin' = r /\ token' = TokenAfter /\ StopPush
     ELSE UNCHANGED <<origin, push>>

ChooseRoute(r) ==
  /\ ~quick /\ Counted("routes", MaxRoutes)
  /\ Configure(r, discovered)
  /\ UNCHANGED <<user, discovered, lookup, retry, device, direct, online, acting, posted>>

\* discoverRelay: "LAN and manually selected custom relay origins stay user-controlled."
Discover ==
  /\ lookup = None /\ ~Direct /\ ~quick /\ Counted("lookups", MaxRoutes)
  /\ origin \in {Builtin, discovered} \union Tunnel
  /\ lookup' = origin
  /\ UNCHANGED <<user, origin, discovered, previous, push, retry, device, direct, online, acting,
                 posted>>

LookupFails ==
  /\ lookup # None /\ lookup' = None
  /\ UNCHANGED <<user, origin, discovered, previous, push, retry, device, direct, online, acting,
                 posted, count>>

Found(r) ==
  /\ lookup # None /\ lookup' = None
  /\ IF quick \/ origin # lookup
     THEN UNCHANGED <<origin, discovered, previous, push>>
     ELSE /\ discovered' = r
          /\ IF r # origin THEN Configure(r, r) ELSE UNCHANGED <<origin, previous, push>>
  /\ UNCHANGED <<user, retry, device, direct, online, acting, posted, count>>

Next ==
  \/ \E n \in Network : Available(n)
  \/ Lost \/ \E valid \in BOOLEAN : Capabilities(valid)
  \/ Connect \/ Reconnect \/ TimePasses \/ Renew \/ Refused
  \/ SocketEnds \/ Act
  \/ NetworkChanged \/ Ready \/ Retry \/ Tick
  \/ ServiceStarts \/ ServiceEnds \/ DeliveryStopped
  \/ \E v \in Vault : Unlock(v)
  \/ Lock \/ QuickLock \/ QuickUnlock
  \/ \E m \in Mode : SetMode(m)
  \/ \E r \in Route : ChooseRoute(r)
  \/ Discover \/ LookupFails
  \/ \E r \in Tunnel \union Domain : Found(r)

Spec == Init /\ [][Next]_vars

-----------------------------------------------------------------------------
(* Properties.                                                             *)

\* What the engine goes on using was made for the vault that is open and by the relay of the
\* route it has: nothing of either outlasts a lock, a switch of vaults, a discovery or a
\* callback that comes late.
LinkBelongs ==
  /\ token # None => token.of = vault /\ token.from = origin
  /\ pushSocket # None => pushSocket.of = vault /\ pushSocket.from = origin

\* "LAN and manually selected custom relay origins stay user-controlled." (NativeEngine.java:325):
\* a route the user chose, even while a lookup runs, is left only by the user's choice.
RouteStands ==
  [][origin' # origin /\ origin \in {Lan} \union Own => (count.routes)' # count.routes]_vars
=============================================================================
