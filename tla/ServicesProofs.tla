--------------------------- MODULE ServicesProofs ---------------------------
(***************************************************************************)
(* Theorems about module RelaySession, for any number of authentications,  *)
(* sockets, loops, locks and losses; and, after them, that the parts of    *)
(* MCServices whose theorems are proved in modules of their own keep what  *)
(* they promise when they are run side by side, as the configurations do.  *)
(***************************************************************************)
EXTENDS MCServices, FiniteSetTheorems, WellFoundedInduction, TLAPS

(* Facts about the constants and the helpers.                              *)

LEMMA Bounds ==
  /\ MaxAuths \in Nat /\ MaxSockets \in Nat /\ MaxLoops \in Nat
  /\ MaxClears \in Nat /\ MaxLosses \in Nat
BY SessionAssumption

\* A set of numbers that is not empty has a smallest member.
LEMMA SmallestExists ==
  ASSUME NEW S \in SUBSET Nat, S # {}
  PROVE  \E x \in S : \A y \in S : x <= y
<1>1. PICK x \in S : \A y \in S : ~ (<<y, x>> \in OpToRel(<, Nat))
  BY NatLessThanWellFounded, WFMin, Zenon
<1>2. ASSUME NEW y \in S PROVE x <= y
  <2>1. x \in Nat /\ y \in Nat
    OBVIOUS
  <2>2. y < x => <<y, x>> \in OpToRel(<, Nat)
    BY <2>1, Zenon DEF OpToRel
  <2>3. ~ (y < x)
    BY <1>1, <2>2, Zenon
  <2>4. QED
    BY <2>1, <2>3
<1>3. QED
  BY <1>2

LEMMA FirstIsIn ==
  ASSUME NEW S \in SUBSET Nat, S # {}
  PROVE  First(S) \in S
BY SmallestExists DEF First

LEMMA NewLoop == NewLoops # {} => First(NewLoops) \in Loop
<1>1. NewLoops \in SUBSET Nat
  BY Bounds DEF NewLoops, Loop
<1>2. QED
  BY <1>1, FirstIsIn DEF NewLoops

\* A set of loops that is not empty has a last member.
LEMMA LastExists ==
  ASSUME NEW W \in SUBSET Loop, W # {}
  PROVE  \E l \in W : \A m \in W : m <= l
<1> DEFINE T == {MaxLoops - l : l \in W}
<1>1. \A l \in W : l \in Nat /\ l <= MaxLoops
  BY Bounds DEF Loop
<1>2. T \in SUBSET Nat /\ T # {}
  BY <1>1, Bounds
<1>3. PICK x \in T : \A y \in T : x <= y
  BY <1>2, SmallestExists
<1>4. PICK l \in W : x = MaxLoops - l
  BY <1>3
<1>5. \A m \in W : MaxLoops - l <= MaxLoops - m
  BY <1>3, <1>4
<1>6. QED
  BY <1>1, <1>5, Bounds

\* Loops and sockets are counted.
LEMMA Counting ==
  /\ \A W \in SUBSET Loop : IsFiniteSet(W) /\ Cardinality(W) \in Nat
                              /\ (Cardinality(W) = 0 <=> W = {})
  /\ \A S \in SUBSET Socket : Cardinality(S) \in Nat
<1>1. 1 \in Int /\ MaxLoops \in Int /\ MaxSockets \in Int
  BY Bounds
<1>2. IsFiniteSet(Loop) /\ IsFiniteSet(Socket)
  BY <1>1, FS_Interval, Zenon DEF Loop, Socket
<1>3. ASSUME NEW W \in SUBSET Loop
      PROVE  IsFiniteSet(W) /\ Cardinality(W) \in Nat /\ (Cardinality(W) = 0 <=> W = {})
  <2>1. IsFiniteSet(W)
    BY <1>2, FS_Subset
  <2>2. QED
    BY <2>1, FS_CardinalityType, FS_EmptySet
<1>4. ASSUME NEW S \in SUBSET Socket
      PROVE  Cardinality(S) \in Nat
  <2>1. IsFiniteSet(S)
    BY <1>2, FS_Subset
  <2>2. QED
    BY <2>1, FS_CardinalityType
<1>5. QED
  BY <1>3, <1>4

-----------------------------------------------------------------------------
(* Types.                                                                  *)
Auths == [Auth -> [at : {"unused", "asking", "signed", "granted", "over"},
                   generation : 0 .. MaxClears]]
Loops == [Loop -> [at : {"none", "timer", "token", "socket"}, n : 0 .. MaxAuths + MaxSockets]]
Links == [Socket -> [client : {"none", "live", "ended", "over"},
                     relay : {"none", "checked", "open", "closing", "closed"},
                     generation : 0 .. MaxClears, token : 0 .. MaxAuths]]
Requests == [at : {"none", "token", "ready", "sent"}, n : 0 .. MaxAuths,
             prepared : BOOLEAN, again : BOOLEAN]

LEMMA TypeOKDef ==
  TypeOK <=>
    /\ locked \in BOOLEAN /\ watching \in BOOLEAN
    /\ generation \in 0 .. MaxClears /\ losses \in 0 .. MaxLosses
    /\ token \in 0 .. MaxAuths /\ refreshing \in 0 .. MaxAuths /\ challenge \in 0 .. MaxAuths
    /\ auth \in Auths /\ loop \in Loops /\ timer \in 0 .. MaxLoops
    /\ socket \in 0 .. MaxSockets /\ registry \in 0 .. MaxSockets
    /\ link \in Links /\ pushed \subseteq 0 .. MaxClears
    /\ request \in Requests /\ valid \subseteq Auth
BY DEF TypeOK, Auths, Loops, Links, Requests

\* What a call of getToken without a cached token does.
Asks(f) ==
  /\ f \in Auth /\ auth[f].at = "unused"
  /\ refreshing = 0 /\ refreshing' = f
  /\ auth' = [auth EXCEPT ![f] = [at |-> "asking", generation |-> generation]]

LEMMA Asking ==
  ASSUME TypeOK, AwaitToken
  PROVE  /\ (refreshing # 0 /\ UNCHANGED <<refreshing, auth>>) \/ \E f \in Auth : Asks(f)
         /\ refreshing' \in 0 .. MaxAuths /\ auth' \in Auths
<1>1. CASE refreshing # 0
  BY <1>1, TypeOKDef DEF AwaitToken
<1>2. CASE refreshing = 0
  <2>1. NewAuths \in SUBSET Nat /\ NewAuths # {}
    BY <1>2, Bounds DEF AwaitToken, NewAuths, Auth
  <2>2. First(NewAuths) \in NewAuths
    BY <2>1, FirstIsIn
  <2>3. Asks(First(NewAuths))
    BY <1>2, <2>2 DEF AwaitToken, Asks, NewAuths
  <2>4. First(NewAuths) \in Auth
    BY <2>2 DEF NewAuths
  <2>5. refreshing' \in 0 .. MaxAuths /\ auth' \in Auths
    BY <2>3, <2>4, TypeOKDef, Bounds DEF Asks, Auths, Auth
  <2>6. QED
    BY <2>3, <2>4, <2>5
<1>3. QED
  BY <1>1, <1>2

\* Sockets that are opened are of the present generation, and the last of them is the
\* client's.
LEMMA Opening ==
  ASSUME TypeOK, NEW W \in SUBSET Loop, NEW n \in 0 .. MaxAuths, OpenSockets(W, n)
  PROVE  /\ loop' \in Loops /\ link' \in Links /\ socket' \in 0 .. MaxSockets
         /\ \A s \in Socket : link'[s].relay = "open" => link[s].relay = "open"
         /\ socket' # 0 => \/ socket' = socket /\ link' = link
                           \/ link'[socket'].generation = generation
<1> DEFINE upTo(l) == {m \in W : m <= l}
           number(l) == Opened + Cardinality(upTo(l))
<1>1. Opened \in Nat
  BY Counting DEF Opened
<1>2. ASSUME NEW l \in W PROVE number(l) \in 1 .. MaxSockets
  <2>1. upTo(l) \in SUBSET W /\ upTo(l) \in SUBSET Loop
    OBVIOUS
  <2>2. l <= l
    BY Bounds DEF Loop
  <2>3. upTo(l) # {}
    BY <2>2
  <2>4. IsFiniteSet(W) /\ Cardinality(W) \in Nat
    BY Counting
  <2>5. Cardinality(upTo(l)) <= Cardinality(W)
    BY <2>1, <2>4, FS_Subset
  <2>6. Cardinality(upTo(l)) \in Nat /\ Cardinality(upTo(l)) # 0
    BY <2>1, <2>3, Counting
  <2>7. Opened + Cardinality(W) <= MaxSockets
    BY DEF OpenSockets
  <2> HIDE DEF upTo
  <2>8. QED
    BY <1>1, <2>4, <2>5, <2>6, <2>7, Bounds
<1>3. loop' = [l \in Loop |-> IF l \in W THEN [at |-> "socket", n |-> number(l)] ELSE loop[l]]
  BY DEF OpenSockets
<1>4. link' = [s \in Socket |-> IF \E l \in W : number(l) = s
                THEN [client |-> "live", relay |-> "none", generation |-> generation, token |-> n]
                ELSE link[s]]
  BY DEF OpenSockets
<1>5. socket' = IF W = {} THEN socket ELSE Opened + Cardinality(W)
  BY DEF OpenSockets
<1>6. ASSUME W # {}
      PROVE  \E l \in W : number(l) = Opened + Cardinality(W)
  <2>1. PICK l \in W : \A m \in W : m <= l
    BY <1>6, LastExists
  <2>2. upTo(l) = W
    BY <2>1
  <2>3. QED
    BY <2>2
<1> HIDE DEF number
<1>7. loop' \in Loops
  BY <1>2, <1>3, TypeOKDef, Bounds DEF Loops
<1>8. link' \in Links
  BY <1>4, TypeOKDef DEF Links
<1>9. socket' \in 0 .. MaxSockets
  BY <1>2, <1>5, <1>6, TypeOKDef, Bounds
<1>10. \A s \in Socket : link'[s].relay = "open" => link[s].relay = "open"
  BY <1>4
<1>11. CASE W = {}
  <2>1. socket' = socket
    BY <1>5, <1>11
  <2>2. link' = [s \in Socket |-> link[s]]
    BY <1>4, <1>11
  <2>3. link' = link
    BY <2>2, TypeOKDef DEF Links
  <2>4. QED
    BY <1>7, <1>8, <1>9, <1>10, <2>1, <2>3
<1>12. CASE W # {}
  <2>1. PICK l \in W : number(l) = socket'
    BY <1>5, <1>6, <1>12
  <2>2. socket' \in Socket
    BY <1>2, <2>1 DEF Socket
  <2>3. link'[socket'].generation = generation
    BY <1>4, <2>1, <2>2
  <2>4. QED
    BY <1>7, <1>8, <1>9, <1>10, <2>3
<1>13. QED
  BY <1>11, <1>12

\* A loop that connects opens a socket or waits for a token.
LEMMA Connecting ==
  ASSUME TypeOK, NEW l \in Loop, Connect(l)
  PROVE  /\ loop' \in Loops /\ link' \in Links /\ socket' \in 0 .. MaxSockets
         /\ refreshing' \in 0 .. MaxAuths /\ auth' \in Auths
         /\ \A s \in Socket : link'[s].relay = "open" => link[s].relay = "open"
         /\ socket' # 0 => \/ socket' = socket /\ link' = link
                           \/ link'[socket'].generation = generation
         /\ \/ UNCHANGED <<refreshing, auth>>
            \/ token = 0 /\ \E f \in Auth : Asks(f)
<1>1. CASE token # 0
  <2>1. OpenSockets({l}, token) /\ UNCHANGED <<refreshing, auth>>
    BY <1>1 DEF Connect
  <2>2. {l} \in SUBSET Loop /\ token \in 0 .. MaxAuths
    BY TypeOKDef
  <2>3. refreshing' \in 0 .. MaxAuths /\ auth' \in Auths
    BY <2>1, TypeOKDef
  <2> HIDE DEF Connect
  <2>4. QED
    BY <2>1, <2>2, <2>3, Opening
<1>2. CASE token = 0
  <2>1. /\ AwaitToken
        /\ loop' = [loop EXCEPT ![l] = [at |-> "token", n |-> refreshing']]
        /\ UNCHANGED <<socket, link>>
    BY <1>2 DEF Connect
  <2>2. refreshing' \in 0 .. MaxAuths /\ auth' \in Auths
    BY <2>1, Asking
  <2>3. UNCHANGED <<refreshing, auth>> \/ \E f \in Auth : Asks(f)
    BY <2>1, Asking
  <2>4. loop' \in Loops
    BY <2>1, <2>2, TypeOKDef, Bounds DEF Loops
  <2>5. QED
    BY <1>2, <2>1, <2>2, <2>3, <2>4, TypeOKDef
<1>3. QED
  BY <1>1, <1>2

\* Loops that fail have a timer or are over.
LEMMA TryingLater ==
  ASSUME TypeOK, NEW W \in SUBSET Loop, TryLater(W)
  PROVE  loop' \in Loops /\ timer' \in 0 .. MaxLoops
<1>1. loop' \in Loops
  BY TypeOKDef, Bounds DEF TryLater, Loops, Quiet
<1>2. CASE W # {} /\ watching
  <2>1. \E l \in W : \A m \in W : m <= l
    BY <1>2, LastExists
  <2>2. timer' = CHOOSE l \in W : \A m \in W : m <= l
    BY <1>2 DEF TryLater
  <2>3. timer' \in W
    BY <2>1, <2>2
  <2>4. QED
    BY <1>1, <2>3, Bounds DEF Loop
<1>3. CASE ~ (W # {} /\ watching)
  BY <1>1, <1>3, TypeOKDef DEF TryLater
<1>4. QED
  BY <1>2, <1>3

\* An authentication that fails is over.
LEMMA Failing ==
  ASSUME TypeOK, NEW f \in Auth, Fail(f)
  PROVE  /\ auth' = [auth EXCEPT ![f].at = "over"]
         /\ refreshing' = IF refreshing = f THEN 0 ELSE refreshing
         /\ UNCHANGED <<session, token, socket, link, registry>>
         /\ auth' \in Auths /\ refreshing' \in 0 .. MaxAuths /\ request' \in Requests
         /\ loop' \in Loops /\ timer' \in 0 .. MaxLoops
<1>1. WaitingFor(f) \in SUBSET Loop
  BY DEF WaitingFor
<1>2. loop' \in Loops /\ timer' \in 0 .. MaxLoops
  BY <1>1, TryingLater DEF Fail
<1>3. request' \in Requests
  BY TypeOKDef, Bounds DEF Fail, Requests, NoRequest
<1>4. auth' \in Auths /\ refreshing' \in 0 .. MaxAuths
  BY TypeOKDef, Bounds DEF Fail, Auths
<1>5. QED
  BY <1>2, <1>3, <1>4 DEF Fail

\* A request is sent with the token there is, or waits for one.
LEMMA Needing ==
  ASSUME TypeOK, NEW r \in Requests, NEW t \in 0 .. MaxAuths, NeedToken(r, t)
  PROVE  /\ request' \in Requests /\ refreshing' \in 0 .. MaxAuths /\ auth' \in Auths
         /\ \/ UNCHANGED <<refreshing, auth>>
            \/ t = 0 /\ \E f \in Auth : Asks(f)
<1>1. CASE t # 0
  <2>1. /\ request' = [r EXCEPT !.at = IF r.prepared THEN "ready" ELSE "sent", !.n = t]
        /\ UNCHANGED <<refreshing, auth>>
    BY <1>1 DEF NeedToken
  <2>2. request' \in Requests
    BY <2>1 DEF Requests
  <2>3. QED
    BY <2>1, <2>2, TypeOKDef
<1>2. CASE t = 0
  <2>1. AwaitToken /\ request' = [r EXCEPT !.at = "token", !.n = refreshing']
    BY <1>2 DEF NeedToken
  <2>2. refreshing' \in 0 .. MaxAuths /\ auth' \in Auths
    BY <2>1, Asking
  <2>3. UNCHANGED <<refreshing, auth>> \/ \E f \in Auth : Asks(f)
    BY <2>1, Asking
  <2>4. request' \in Requests
    BY <2>1, <2>2 DEF Requests
  <2>5. QED
    BY <1>2, <2>2, <2>3, <2>4
<1>3. QED
  BY <1>1, <1>2

-----------------------------------------------------------------------------
(* The inductive invariant.                                                *)

\* The cached token is of this generation; the authentication it came from is over.
TokenIsCurrent ==
  token # 0 => /\ ~locked /\ token \in Auth
               /\ auth[token].generation = generation /\ auth[token].at = "over"

\* Of this generation the one authentication under way is the one callers share.
OneRefresh ==
  \A f \in Auth :
    auth[f].at \in {"asking", "signed", "granted"} /\ auth[f].generation = generation
      => refreshing = f

\* It is begun only when no token is cached.
RefreshAlone == refreshing # 0 => token = 0

GenerationsPast == \A f \in Auth : auth[f].generation <= generation

\* The client's socket, and what it brings, is of this generation.
SocketIsCurrent ==
  /\ socket # 0 => link[socket].generation = generation
  /\ pushed \subseteq {generation}

TokenInv == TokenIsCurrent /\ OneRefresh /\ RefreshAlone /\ GenerationsPast

IInv == TypeOK /\ TokenInv /\ SocketIsCurrent /\ RegistryTracksLatest

LEMMA InitHolds == Init => IInv
<1> SUFFICES ASSUME Init PROVE IInv
  OBVIOUS
<1>1. TypeOK
  <2>1. auth \in Auths
    BY Bounds DEF Init, Auths
  <2>2. loop \in Loops
    BY Bounds DEF Init, Loops, Quiet
  <2>3. link \in Links
    BY Bounds DEF Init, Links, Unopened
  <2>4. request \in Requests
    BY Bounds DEF Init, Requests, NoRequest
  <2>5. 0 \in 0 .. MaxClears /\ 0 \in 0 .. MaxLosses /\ 0 \in 0 .. MaxAuths
        /\ 0 \in 0 .. MaxLoops /\ 0 \in 0 .. MaxSockets
    BY Bounds
  <2>6. /\ locked = FALSE /\ watching = FALSE /\ generation = 0 /\ losses = 0 /\ token = 0
        /\ refreshing = 0 /\ challenge = 0 /\ timer = 0 /\ socket = 0 /\ registry = 0
        /\ pushed = {} /\ valid = {}
    BY DEF Init
  <2>7. QED
    BY <2>1, <2>2, <2>3, <2>4, <2>5, <2>6, TypeOKDef
<1>2. TokenInv /\ SocketIsCurrent
  BY DEF Init, TokenInv, TokenIsCurrent, OneRefresh, RefreshAlone, GenerationsPast,
         SocketIsCurrent
<1>3. RegistryTracksLatest
  BY DEF Init, RegistryTracksLatest, Unopened
<1>4. QED
  BY <1>1, <1>2, <1>3 DEF IInv

-----------------------------------------------------------------------------
(* Every step keeps the types.                                             *)
LEMMA TypeOKNext ==
  TypeOK' <=>
    /\ locked' \in BOOLEAN /\ watching' \in BOOLEAN
    /\ generation' \in 0 .. MaxClears /\ losses' \in 0 .. MaxLosses
    /\ token' \in 0 .. MaxAuths /\ refreshing' \in 0 .. MaxAuths /\ challenge' \in 0 .. MaxAuths
    /\ auth' \in Auths /\ loop' \in Loops /\ timer' \in 0 .. MaxLoops
    /\ socket' \in 0 .. MaxSockets /\ registry' \in 0 .. MaxSockets
    /\ link' \in Links /\ pushed' \subseteq 0 .. MaxClears
    /\ request' \in Requests /\ valid' \subseteq Auth
BY DEF TypeOK, Auths, Loops, Links, Requests

\* What a request's answer leaves of the cached token.
LEMMA After401 ==
  ASSUME TypeOK, NEW n
  PROVE  TokenAfter401(n) \in {0, token} /\ (token # n => TokenAfter401(n) = token)
BY DEF TokenAfter401

LEMMA TypesKept == TypeOK /\ [Next]_vars => TypeOK'
<1> SUFFICES ASSUME TypeOK, [Next]_vars PROVE TypeOK'
  OBVIOUS
<1> USE TypeOKDef
<1>1. ASSUME Watch PROVE TypeOK'
  <2>1. First(NewLoops) \in Loop /\ Connect(First(NewLoops))
    BY <1>1, NewLoop DEF Watch
  <2>2. QED
    BY <1>1, <2>1, Connecting, TypeOKNext DEF Watch, relay
<1>2. ASSUME NEW l \in Loop, TimerFires(l) PROVE TypeOK'
  <2>1. CASE watching /\ ~locked
    BY <1>2, <2>1, Connecting, TypeOKNext DEF TimerFires, relay, session
  <2>2. CASE ~ (watching /\ ~locked)
    <3>1. loop' = [loop EXCEPT ![l] = Quiet] /\ UNCHANGED <<refreshing, auth, socket, link>>
      BY <1>2, <2>2 DEF TimerFires
    <3>2. loop' \in Loops
      BY <3>1, Bounds DEF Loops, Quiet
    <3>3. QED
      BY <1>2, <3>1, <3>2, TypeOKNext DEF TimerFires, relay, session
  <2>3. QED
    BY <2>1, <2>2
<1>3. ASSUME NEW f \in Auth, LoseAuth(f) PROVE TypeOK'
  <2>1. losses' \in 0 .. MaxLosses
    BY <1>3, Bounds DEF LoseAuth
  <2>2. Fail(f)
    BY <1>3 DEF LoseAuth
  <2>3. QED
    BY <1>3, <2>1, <2>2, Failing, TypeOKNext DEF LoseAuth, session
<1>4. ASSUME NEW f \in Auth, Granted(f) PROVE TypeOK'
  <2>1. UNCHANGED <<challenge, valid, losses>>
    BY <1>4 DEF Granted
  <2>2. CASE ~ IsWanted(f)
    <3>1. Fail(f)
      BY <1>4, <2>2 DEF Granted
    <3>2. QED
      BY <2>1, <3>1, Failing, TypeOKNext DEF session
  <2>3. CASE IsWanted(f)
    <3>1. /\ token' = f /\ refreshing' = (IF refreshing = f THEN 0 ELSE refreshing)
          /\ auth' = [auth EXCEPT ![f].at = "over"]
          /\ UNCHANGED <<session, timer, registry>>
      BY <1>4, <2>3 DEF Granted
    <3>2. auth' \in Auths
      BY <3>1 DEF Auths
    <3>3. f \in 0 .. MaxAuths
      BY Bounds DEF Auth
    <3>4. request' \in Requests
      <4>1. request' = (IF request.at = "token" /\ request.n = f
              THEN [request EXCEPT !.at = IF request.prepared THEN "ready" ELSE "sent"]
              ELSE request)
        BY <1>4, <2>3 DEF Granted
      <4>2. QED
        BY <4>1 DEF Requests
    <3>5. loop' \in Loops /\ link' \in Links /\ socket' \in 0 .. MaxSockets
      <4>1. WaitingFor(f) \in SUBSET Loop
        BY DEF WaitingFor
      <4>2. CASE watching
        <5>1. OpenSockets(WaitingFor(f), f)
          BY <1>4, <2>3, <4>2 DEF Granted
        <5>2. QED
          BY <3>3, <4>1, <5>1, Opening
      <4>3. CASE ~ watching
        <5>1. /\ loop' = [l \in Loop |-> IF l \in WaitingFor(f) THEN Quiet ELSE loop[l]]
              /\ UNCHANGED <<socket, link>>
          BY <1>4, <2>3, <4>3 DEF Granted
        <5>2. QED
          BY <5>1, Bounds DEF Loops, Quiet
      <4>4. QED
        BY <4>2, <4>3
    <3>6. refreshing' \in 0 .. MaxAuths
      BY <3>1, Bounds
    <3>7. QED
      BY <2>1, <3>1, <3>2, <3>3, <3>4, <3>5, <3>6, TypeOKNext DEF session
  <2>4. QED
    BY <2>2, <2>3
<1>5. ASSUME NEW prepared \in BOOLEAN, StartRequest(prepared) PROVE TypeOK'
  <2>1. [NoRequest EXCEPT !.prepared = prepared] \in Requests
    <3>1. NoRequest \in Requests
      BY Bounds DEF NoRequest, Requests
    <3>2. QED
      BY <3>1 DEF Requests
  <2>2. NeedToken([NoRequest EXCEPT !.prepared = prepared], token)
    BY <1>5 DEF StartRequest
  <2>3. request' \in Requests /\ refreshing' \in 0 .. MaxAuths /\ auth' \in Auths
    BY <2>1, <2>2, Needing
  <2>4. QED
    BY <1>5, <2>3, TypeOKNext DEF StartRequest, session, relay
<1>6. ASSUME SendPrepared PROVE TypeOK'
  <2>1. request' \in Requests
    BY <1>6 DEF SendPrepared, Requests
  <2>2. QED
    BY <1>6, <2>1, TypeOKNext DEF SendPrepared, session, relay
<1>7. ASSUME RequestAnswered PROVE TypeOK'
  <2>1. token' \in 0 .. MaxAuths
    BY <1>7, After401, Bounds DEF RequestAnswered
  <2>2. request' \in Requests /\ refreshing' \in 0 .. MaxAuths /\ auth' \in Auths
    <3>1. NoRequest \in Requests
      BY Bounds DEF NoRequest, Requests
    <3>2. CASE request' = NoRequest /\ UNCHANGED <<refreshing, auth>>
      BY <3>1, <3>2
    <3>3. CASE NeedToken([request EXCEPT !.again = TRUE], token')
      <4>1. [request EXCEPT !.again = TRUE] \in Requests
        BY DEF Requests
      <4>2. QED
        BY <2>1, <3>3, <4>1, Needing
    <3>4. QED
      BY <1>7, <3>2, <3>3 DEF RequestAnswered
  <2>3. QED
    BY <1>7, <2>1, <2>2, TypeOKNext DEF RequestAnswered, session, relay
<1>8. ASSUME Clear, locked' \in BOOLEAN PROVE TypeOK'
  <2>1. generation' \in 0 .. MaxClears
    BY <1>8, Bounds DEF Clear
  <2>2. loop' \in Loops
    BY <1>8, Bounds DEF Clear, Loops, Quiet
  <2>3. link' \in Links
    BY <1>8 DEF Clear, Links
  <2>4. request' \in Requests
    BY <1>8, Bounds DEF Clear, Requests, NoRequest
  <2>5. 0 \in 0 .. MaxAuths /\ 0 \in 0 .. MaxSockets
    BY Bounds
  <2>6. /\ token' = 0 /\ refreshing' = 0 /\ socket' = 0 /\ pushed' = {} /\ watching' = FALSE
        /\ UNCHANGED <<auth, timer, relay, losses>>
    BY <1>8 DEF Clear
  <2>7. QED
    BY <1>8, <2>1, <2>2, <2>3, <2>4, <2>5, <2>6, TypeOKNext DEF relay
<1>9. ASSUME Lock \/ Unlock \/ ChangeTransport PROVE TypeOK'
  BY <1>8, <1>9 DEF Lock, Unlock, ChangeTransport
<1>10. ASSUME NEW f \in Auth, GetChallenge(f) PROVE TypeOK'
  <2>1. auth' \in Auths
    BY <1>10 DEF GetChallenge, Auths
  <2>2. challenge' \in 0 .. MaxAuths
    BY <1>10, Bounds DEF GetChallenge, Auth
  <2>3. QED
    BY <1>10, <2>1, <2>2, TypeOKNext DEF GetChallenge, session
<1>11. ASSUME NEW f \in Auth, Respond(f) PROVE TypeOK'
  <2>1. challenge' \in 0 .. MaxAuths /\ losses' = losses
    BY <1>11, Bounds DEF Respond
  <2>2. CASE challenge = f
    <3>1. /\ valid' = valid \union {f} /\ auth' = [auth EXCEPT ![f].at = "granted"]
          /\ UNCHANGED <<session, token, refreshing, loop, timer, socket, link, request, registry>>
      BY <1>11, <2>2 DEF Respond
    <3>2. auth' \in Auths
      BY <3>1 DEF Auths
    <3>3. QED
      BY <2>1, <3>1, <3>2, TypeOKNext DEF session
  <2>3. CASE challenge # f
    <3>1. Fail(f) /\ UNCHANGED valid
      BY <1>11, <2>3 DEF Respond
    <3>2. QED
      BY <2>1, <3>1, Failing, TypeOKNext DEF session
  <2>4. QED
    BY <2>2, <2>3
<1>12. ASSUME NEW n \in Auth, NEW known \in BOOLEAN, SessionEnds(n, known) PROVE TypeOK'
  <2>1. token' \in 0 .. MaxAuths /\ losses' \in 0 .. MaxLosses
    BY <1>12, Bounds DEF SessionEnds
  <2>2. QED
    BY <1>12, <2>1, TypeOKNext DEF SessionEnds, session
<1>13. ASSUME NEW s \in Socket, CheckUpgrade(s) PROVE TypeOK'
  <2>1. link' \in Links
    BY <1>13 DEF CheckUpgrade, Links
  <2>2. QED
    BY <1>13, <2>1, TypeOKNext DEF CheckUpgrade, session, relay
<1>14. ASSUME NEW s \in Socket, Register(s) PROVE TypeOK'
  <2>1. link' \in Links
    BY <1>14 DEF Register, Links
  <2>2. registry' \in 0 .. MaxSockets
    BY <1>14, Bounds DEF Register, Socket
  <2>3. QED
    BY <1>14, <2>1, <2>2, TypeOKNext DEF Register, session
<1>15. ASSUME NEW s \in Socket, PingFails(s) PROVE TypeOK'
  <2>1. link' \in Links
    BY <1>15 DEF PingFails, Links
  <2>2. QED
    BY <1>15, <2>1, TypeOKNext DEF PingFails, session, relay
<1>16. ASSUME NEW s \in Socket, LoseSocket(s) PROVE TypeOK'
  <2>1. link' \in Links
    BY <1>16 DEF LoseSocket, Links
  <2>2. losses' \in 0 .. MaxLosses
    BY <1>16, Bounds DEF LoseSocket
  <2>3. QED
    BY <1>16, <2>1, <2>2, TypeOKNext DEF LoseSocket, session, relay
<1>17. ASSUME NEW s \in Socket, RelayHearsClose(s) PROVE TypeOK'
  <2>1. link' \in Links
    BY <1>17 DEF RelayHearsClose, Links
  <2>2. registry' \in 0 .. MaxSockets
    BY <1>17, Bounds DEF RelayHearsClose, RegistryAfter
  <2>3. QED
    BY <1>17, <2>1, <2>2, TypeOKNext DEF RelayHearsClose, session
<1>18. ASSUME NEW s \in Socket, ClientHearsClose(s) PROVE TypeOK'
  <2>1. link' \in Links
    BY <1>18 DEF ClientHearsClose, Links
  <2>2. socket' \in 0 .. MaxSockets
    BY <1>18, Bounds DEF ClientHearsClose
  <2>3. {l \in Loop : loop[l] = [at |-> "socket", n |-> s]} \in SUBSET Loop
    OBVIOUS
  <2>4. TryLater({l \in Loop : loop[l] = [at |-> "socket", n |-> s]})
    BY <1>18 DEF ClientHearsClose
  <2>5. loop' \in Loops /\ timer' \in 0 .. MaxLoops
    BY <2>3, <2>4, TryingLater
  <2>6. QED
    BY <1>18, <2>1, <2>2, <2>5, TypeOKNext DEF ClientHearsClose, session, relay
<1>19. ASSUME NEW s \in Socket, Push(s) PROVE TypeOK'
  <2>1. link[s].generation \in 0 .. MaxClears
    BY DEF Links
  <2>2. QED
    BY <1>19, <2>1, TypeOKNext DEF Push, relay
<1>20. ASSUME TakePushed PROVE TypeOK'
  BY <1>20, TypeOKNext DEF TakePushed, relay
<1>21. ASSUME UNCHANGED vars PROVE TypeOK'
  BY <1>21, TypeOKNext DEF vars, session, relay
<1>22. QED
  BY <1>1, <1>2, <1>3, <1>4, <1>5, <1>6, <1>7, <1>9, <1>10, <1>11, <1>12, <1>13, <1>14,
     <1>15, <1>16, <1>17, <1>18, <1>19, <1>20, <1>21 DEF Next

-----------------------------------------------------------------------------
(* Every step keeps the token's part of the invariant.                     *)

\* An authentication that begins, moves on or ends.
LEMMA TokenFrames ==
  ASSUME TypeOK, TokenInv, UNCHANGED <<locked, generation>>
  PROVE  /\ token' = token /\ UNCHANGED <<refreshing, auth>> => TokenInv'
         /\ token' = 0 /\ UNCHANGED <<refreshing, auth>> => TokenInv'
         /\ \A f \in Auth : token' = 0 /\ Asks(f) => TokenInv'
         /\ \A f \in Auth : /\ token' = token /\ auth' = [auth EXCEPT ![f].at = "over"]
                            /\ refreshing' = IF refreshing = f THEN 0 ELSE refreshing
                            => TokenInv'
<1> USE TypeOKDef DEF TokenInv
<1>1. ASSUME token' = token, UNCHANGED <<refreshing, auth>> PROVE TokenInv'
  BY <1>1 DEF TokenIsCurrent, OneRefresh, RefreshAlone, GenerationsPast
<1>2. ASSUME token' = 0, UNCHANGED <<refreshing, auth>> PROVE TokenInv'
  BY <1>2 DEF TokenIsCurrent, OneRefresh, RefreshAlone, GenerationsPast
<1>3. ASSUME NEW f \in Auth, token' = 0, Asks(f) PROVE TokenInv'
  <2>1. OneRefresh'
    BY <1>3, Bounds DEF OneRefresh, Asks, Auths, Auth
  <2>2. GenerationsPast'
    BY <1>3 DEF GenerationsPast, Asks, Auths
  <2>3. TokenIsCurrent' /\ RefreshAlone'
    BY <1>3 DEF TokenIsCurrent, RefreshAlone
  <2>4. QED
    BY <2>1, <2>2, <2>3
<1>4. ASSUME NEW f \in Auth, token' = token, auth' = [auth EXCEPT ![f].at = "over"],
             refreshing' = IF refreshing = f THEN 0 ELSE refreshing
      PROVE  TokenInv'
  <2>1. \A g \in Auth : /\ auth'[g].generation = auth[g].generation
                        /\ auth'[g].at = IF g = f THEN "over" ELSE auth[g].at
    BY <1>4 DEF Auths
  <2>2. OneRefresh'
    BY <1>4, <2>1 DEF OneRefresh
  <2>3. TokenIsCurrent' /\ RefreshAlone' /\ GenerationsPast'
    BY <1>4, <2>1 DEF TokenIsCurrent, RefreshAlone, GenerationsPast
  <2>4. QED
    BY <2>2, <2>3
<1>5. QED
  BY <1>1, <1>2, <1>3, <1>4

LEMMA TokenInvKept == TypeOK /\ TokenInv /\ [Next]_vars => TokenInv'
<1> SUFFICES ASSUME TypeOK, TokenInv, [Next]_vars PROVE TokenInv'
  OBVIOUS
<1>1. ASSUME Watch PROVE TokenInv'
  <2>1. First(NewLoops) \in Loop
    BY <1>1, NewLoop DEF Watch
  <2>2. Connect(First(NewLoops)) /\ UNCHANGED <<locked, generation, token>>
    BY <1>1 DEF Watch
  <2>3. QED
    BY <2>1, <2>2, Connecting, TokenFrames
<1>2. ASSUME NEW l \in Loop, TimerFires(l) PROVE TokenInv'
  <2>1. UNCHANGED <<locked, generation, token>>
    BY <1>2 DEF TimerFires, session
  <2>2. Connect(l) \/ UNCHANGED <<refreshing, auth>>
    BY <1>2 DEF TimerFires
  <2>3. QED
    BY <2>1, <2>2, Connecting, TokenFrames
<1>3. ASSUME NEW f \in Auth, Fail(f) PROVE TokenInv'
  BY <1>3, Failing, TokenFrames DEF session
<1>4. ASSUME NEW f \in Auth, Granted(f) PROVE TokenInv'
  <2>1. CASE ~ IsWanted(f)
    BY <1>3, <1>4, <2>1 DEF Granted
  <2>2. CASE IsWanted(f)
    <3>1. /\ token' = f /\ refreshing' = (IF refreshing = f THEN 0 ELSE refreshing)
          /\ auth' = [auth EXCEPT ![f].at = "over"]
          /\ UNCHANGED <<locked, generation>>
      BY <1>4, <2>2 DEF Granted, session
    <3>2. ~ locked /\ auth[f].generation = generation /\ auth[f].at = "granted"
      BY <1>4, <2>2 DEF Granted, IsWanted
    <3>3. refreshing = f
      BY <3>2 DEF TokenInv, OneRefresh
    <3>4. \A g \in Auth : /\ auth'[g].generation = auth[g].generation
                          /\ auth'[g].at = IF g = f THEN "over" ELSE auth[g].at
      BY <3>1, TypeOKDef DEF Auths
    <3>5. OneRefresh'
      BY <3>1, <3>3, <3>4 DEF OneRefresh, TokenInv
    <3>6. TokenIsCurrent' /\ RefreshAlone' /\ GenerationsPast'
      BY <3>1, <3>2, <3>3, <3>4 DEF TokenIsCurrent, RefreshAlone, GenerationsPast, TokenInv
    <3>7. QED
      BY <3>5, <3>6 DEF TokenInv
  <2>3. QED
    BY <2>1, <2>2
<1>5. ASSUME NEW prepared \in BOOLEAN, StartRequest(prepared) PROVE TokenInv'
  <2>1. [NoRequest EXCEPT !.prepared = prepared] \in Requests
    <3>1. NoRequest \in Requests
      BY Bounds DEF NoRequest, Requests
    <3>2. QED
      BY <3>1 DEF Requests
  <2>2. /\ NeedToken([NoRequest EXCEPT !.prepared = prepared], token)
        /\ UNCHANGED <<locked, generation, token>>
    BY <1>5 DEF StartRequest, session
  <2>3. QED
    BY <2>1, <2>2, TypeOKDef, Needing, TokenFrames
<1>6. ASSUME RequestAnswered PROVE TokenInv'
  <2>1. UNCHANGED <<locked, generation>> /\ token' \in {0, token}
    BY <1>6, After401 DEF RequestAnswered, session
  <2>2. CASE UNCHANGED <<refreshing, auth>>
    BY <2>1, <2>2, TokenFrames
  <2>3. CASE NeedToken([request EXCEPT !.again = TRUE], token')
    <3>1. [request EXCEPT !.again = TRUE] \in Requests
      BY TypeOKDef DEF Requests
    <3>2. token' \in 0 .. MaxAuths
      BY <2>1, TypeOKDef, Bounds
    <3>3. QED
      BY <2>1, <2>3, <3>1, <3>2, Needing, TokenFrames
  <2>4. QED
    BY <1>6, <2>2, <2>3 DEF RequestAnswered
<1>7. ASSUME Clear PROVE TokenInv'
  <2>1. token' = 0 /\ refreshing' = 0 /\ generation' = generation + 1 /\ auth' = auth
    BY <1>7 DEF Clear
  <2>2. \A f \in Auth : auth[f].generation <= generation /\ auth[f].generation \in Nat
    BY TypeOKDef, Bounds DEF TokenInv, GenerationsPast, Auths
  <2>3. generation \in Nat
    BY TypeOKDef, Bounds
  <2>4. OneRefresh' /\ GenerationsPast'
    BY <2>1, <2>2, <2>3 DEF OneRefresh, GenerationsPast
  <2>5. TokenIsCurrent' /\ RefreshAlone'
    BY <2>1 DEF TokenIsCurrent, RefreshAlone
  <2>6. QED
    BY <2>4, <2>5 DEF TokenInv
<1>8. ASSUME NEW f \in Auth, NEW x \in {"signed", "granted"},
             auth[f].at \in {"asking", "signed"}, auth' = [auth EXCEPT ![f].at = x],
             UNCHANGED <<locked, generation, token, refreshing>>
      PROVE  TokenInv'
  <2>1. \A g \in Auth : /\ auth'[g].generation = auth[g].generation
                        /\ auth'[g].at = IF g = f THEN x ELSE auth[g].at
    BY <1>8, TypeOKDef DEF Auths
  <2>2. OneRefresh'
    BY <1>8, <2>1 DEF OneRefresh, TokenInv
  <2>3. TokenIsCurrent' /\ RefreshAlone' /\ GenerationsPast'
    BY <1>8, <2>1 DEF TokenIsCurrent, RefreshAlone, GenerationsPast, TokenInv
  <2>4. QED
    BY <2>2, <2>3 DEF TokenInv
<1>9. ASSUME NEW f \in Auth, GetChallenge(f) PROVE TokenInv'
  BY <1>8, <1>9 DEF GetChallenge, session
<1>10. ASSUME NEW f \in Auth, Respond(f) PROVE TokenInv'
  BY <1>3, <1>8, <1>10 DEF Respond, session
<1>11. ASSUME NEW n \in Auth, NEW known \in BOOLEAN, SessionEnds(n, known) PROVE TokenInv'
  BY <1>11, TokenFrames DEF SessionEnds, session
<1>12. ASSUME UNCHANGED <<locked, generation, token, refreshing, auth>> PROVE TokenInv'
  BY <1>12, TokenFrames
<1>13. ASSUME NEW s \in Socket,
              \/ CheckUpgrade(s) \/ Register(s) \/ PingFails(s) \/ LoseSocket(s)
              \/ RelayHearsClose(s) \/ ClientHearsClose(s) \/ Push(s)
       PROVE  TokenInv'
  BY <1>12, <1>13 DEF CheckUpgrade, Register, PingFails, LoseSocket, RelayHearsClose,
                      ClientHearsClose, Push, session
<1>14. ASSUME SendPrepared \/ TakePushed \/ UNCHANGED vars PROVE TokenInv'
  BY <1>12, <1>14 DEF SendPrepared, TakePushed, vars, session
<1>15. QED
  BY <1>1, <1>2, <1>3, <1>4, <1>5, <1>6, <1>7, <1>9, <1>10, <1>11, <1>13, <1>14
     DEF Next, Lock, Unlock, ChangeTransport, LoseAuth

-----------------------------------------------------------------------------
(* Every step keeps the sockets' part.                                     *)

\* Steps that leave the client's socket and generation as they are, or open a socket.
LEMMA SocketFrames ==
  ASSUME TypeOK, SocketIsCurrent, generation' = generation, pushed' = pushed,
         \/ socket' \in {0, socket} /\ \A s \in Socket : link'[s].generation = link[s].generation
         \/ socket' # 0 => \/ socket' = socket /\ link' = link
                           \/ link'[socket'].generation = generation
  PROVE  SocketIsCurrent'
<1>1. socket # 0 => socket \in Socket
  BY TypeOKDef, Bounds DEF Socket
<1>2. QED
  BY <1>1 DEF SocketIsCurrent

LEMMA SocketKept == TypeOK /\ SocketIsCurrent /\ [Next]_vars => SocketIsCurrent'
<1> SUFFICES ASSUME TypeOK, SocketIsCurrent, [Next]_vars PROVE SocketIsCurrent'
  OBVIOUS
<1>1. ASSUME Watch PROVE SocketIsCurrent'
  <2>1. First(NewLoops) \in Loop
    BY <1>1, NewLoop DEF Watch
  <2>2. Connect(First(NewLoops)) /\ UNCHANGED <<generation, pushed>>
    BY <1>1 DEF Watch
  <2>3. QED
    BY <2>1, <2>2, Connecting, SocketFrames
<1>2. ASSUME NEW l \in Loop, TimerFires(l) PROVE SocketIsCurrent'
  <2>1. UNCHANGED <<generation, pushed>>
    BY <1>2 DEF TimerFires, session
  <2>2. Connect(l) \/ UNCHANGED <<socket, link>>
    BY <1>2 DEF TimerFires
  <2>3. QED
    BY <2>1, <2>2, Connecting, SocketFrames
<1>3. ASSUME NEW f \in Auth, Fail(f) PROVE SocketIsCurrent'
  BY <1>3, Failing, SocketFrames DEF session
<1>4. ASSUME NEW f \in Auth, Granted(f) PROVE SocketIsCurrent'
  <2>1. CASE ~ IsWanted(f)
    BY <1>3, <1>4, <2>1 DEF Granted
  <2>2. CASE IsWanted(f)
    <3>1. UNCHANGED <<generation, pushed>>
      BY <1>4, <2>2 DEF Granted, session
    <3>2. WaitingFor(f) \in SUBSET Loop /\ f \in 0 .. MaxAuths
      BY Bounds DEF WaitingFor, Auth
    <3>3. OpenSockets(WaitingFor(f), f) \/ UNCHANGED <<socket, link>>
      BY <1>4, <2>2 DEF Granted
    <3>4. QED
      BY <3>1, <3>2, <3>3, Opening, SocketFrames
  <2>3. QED
    BY <2>1, <2>2
<1>5. ASSUME Clear PROVE SocketIsCurrent'
  BY <1>5 DEF Clear, SocketIsCurrent
<1>6. ASSUME UNCHANGED <<generation, pushed>>, socket' \in {0, socket},
             \A s \in Socket : link'[s].generation = link[s].generation
      PROVE  SocketIsCurrent'
  BY <1>6, SocketFrames
<1>7. ASSUME NEW f \in Auth, Respond(f) PROVE SocketIsCurrent'
  BY <1>3, <1>6, <1>7 DEF Respond, session
<1>8. ASSUME NEW s \in Socket, Push(s) PROVE SocketIsCurrent'
  <2>1. socket = s /\ s # 0
    BY <1>8 DEF Push, MayPush, Socket
  <2>2. QED
    BY <1>8, <2>1 DEF Push, SocketIsCurrent
<1>9. ASSUME TakePushed PROVE SocketIsCurrent'
  BY <1>9 DEF TakePushed, SocketIsCurrent
<1>10. ASSUME NEW s \in Socket,
              \/ CheckUpgrade(s) \/ Register(s) \/ PingFails(s) \/ LoseSocket(s)
              \/ RelayHearsClose(s) \/ ClientHearsClose(s)
       PROVE  SocketIsCurrent'
  <2>1. UNCHANGED <<generation, pushed>> /\ socket' \in {0, socket}
    BY <1>10 DEF CheckUpgrade, Register, PingFails, LoseSocket, RelayHearsClose,
                 ClientHearsClose, session
  <2>2. \A t \in Socket : link'[t].generation = link[t].generation
    BY <1>10, TypeOKDef DEF CheckUpgrade, Register, PingFails, LoseSocket, RelayHearsClose,
                            ClientHearsClose, Links
  <2>3. QED
    BY <1>6, <2>1, <2>2
<1>11. ASSUME UNCHANGED <<generation, pushed, socket, link>> PROVE SocketIsCurrent'
  BY <1>11 DEF SocketIsCurrent
<1>12. ASSUME \/ SendPrepared \/ RequestAnswered \/ UNCHANGED vars
              \/ \E prepared \in BOOLEAN : StartRequest(prepared)
              \/ \E f \in Auth : GetChallenge(f)
              \/ \E n \in Auth, known \in BOOLEAN : SessionEnds(n, known)
       PROVE  SocketIsCurrent'
  BY <1>11, <1>12 DEF SendPrepared, RequestAnswered, StartRequest, GetChallenge, SessionEnds,
                      vars, session
<1>13. QED
  BY <1>1, <1>2, <1>3, <1>4, <1>5, <1>7, <1>8, <1>9, <1>10, <1>12
     DEF Next, Lock, Unlock, ChangeTransport, LoseAuth

LEMMA RegistryKept == TypeOK /\ RegistryTracksLatest /\ [Next]_vars => RegistryTracksLatest'
<1> SUFFICES ASSUME TypeOK, RegistryTracksLatest, [Next]_vars PROVE RegistryTracksLatest'
  OBVIOUS
<1>1. ASSUME registry' = registry,
             \A s \in Socket : link'[s].relay = "open" => link[s].relay = "open"
      PROVE  RegistryTracksLatest'
  BY <1>1 DEF RegistryTracksLatest
<1>2. ASSUME Watch PROVE RegistryTracksLatest'
  <2>1. First(NewLoops) \in Loop
    BY <1>2, NewLoop DEF Watch
  <2>2. Connect(First(NewLoops)) /\ registry' = registry
    BY <1>2 DEF Watch, relay
  <2>3. QED
    BY <1>1, <2>1, <2>2, Connecting
<1>3. ASSUME NEW l \in Loop, TimerFires(l) PROVE RegistryTracksLatest'
  <2>1. registry' = registry /\ (Connect(l) \/ link' = link)
    BY <1>3 DEF TimerFires, relay
  <2>2. QED
    BY <1>1, <2>1, Connecting
<1>4. ASSUME NEW f \in Auth, Fail(f) PROVE RegistryTracksLatest'
  BY <1>1, <1>4, Failing
<1>5. ASSUME NEW f \in Auth, Granted(f) PROVE RegistryTracksLatest'
  <2>1. CASE ~ IsWanted(f)
    BY <1>4, <1>5, <2>1 DEF Granted
  <2>2. CASE IsWanted(f)
    <3>1. registry' = registry
      BY <1>5, <2>2 DEF Granted
    <3>2. WaitingFor(f) \in SUBSET Loop /\ f \in 0 .. MaxAuths
      BY Bounds DEF WaitingFor, Auth
    <3>3. OpenSockets(WaitingFor(f), f) \/ link' = link
      BY <1>5, <2>2 DEF Granted
    <3>4. QED
      BY <1>1, <3>1, <3>2, <3>3, Opening
  <2>3. QED
    BY <2>1, <2>2
<1>6. ASSUME Clear PROVE RegistryTracksLatest'
  <2>1. \A s \in Socket : link'[s].relay = link[s].relay
    BY <1>6, TypeOKDef DEF Clear, Links
  <2>2. QED
    BY <1>1, <1>6, <2>1 DEF Clear, relay
<1>7. ASSUME NEW f \in Auth, Respond(f) PROVE RegistryTracksLatest'
  BY <1>1, <1>4, <1>7 DEF Respond
<1>8. ASSUME NEW s \in Socket, Register(s) PROVE RegistryTracksLatest'
  BY <1>8, TypeOKDef DEF Register, RegistryTracksLatest, Links
<1>9. ASSUME NEW s \in Socket, RelayHearsClose(s) PROVE RegistryTracksLatest'
  BY <1>9, TypeOKDef DEF RelayHearsClose, RegistryAfter, RegistryTracksLatest, Links
<1>10. ASSUME NEW s \in Socket,
              CheckUpgrade(s) \/ PingFails(s) \/ LoseSocket(s) \/ ClientHearsClose(s)
       PROVE  RegistryTracksLatest'
  <2>1. registry' = registry
    BY <1>10 DEF CheckUpgrade, PingFails, LoseSocket, ClientHearsClose, relay
  <2>2. \A t \in Socket : link'[t].relay = "open" => link[t].relay = "open"
    BY <1>10, TypeOKDef DEF CheckUpgrade, PingFails, LoseSocket, ClientHearsClose, Links
  <2>3. QED
    BY <1>1, <2>1, <2>2
<1>11. ASSUME \/ SendPrepared \/ RequestAnswered \/ TakePushed \/ UNCHANGED vars
              \/ \E prepared \in BOOLEAN : StartRequest(prepared)
              \/ \E f \in Auth : GetChallenge(f)
              \/ \E n \in Auth, known \in BOOLEAN : SessionEnds(n, known)
              \/ \E s \in Socket : Push(s)
       PROVE  RegistryTracksLatest'
  BY <1>1, <1>11 DEF SendPrepared, RequestAnswered, TakePushed, StartRequest, GetChallenge,
                     SessionEnds, Push, vars, relay
<1>12. QED
  BY <1>2, <1>3, <1>4, <1>5, <1>6, <1>7, <1>8, <1>9, <1>10, <1>11
     DEF Next, Lock, Unlock, ChangeTransport, LoseAuth

-----------------------------------------------------------------------------
(* The theorems.                                                           *)

\* The inductive invariant of a device's session: the cached token, the authentication
\* callers share and the client's socket are of the present generation, and a token is
\* asked for only when none is cached (relay-client.ts:128-135).
THEOREM Invariant == Spec => []IInv
<1>1. Init => IInv
  BY InitHolds
<1>2. IInv /\ [Next]_vars => IInv'
  BY TypesKept, TokenInvKept, SocketKept, RegistryKept DEF IInv
<1>3. QED
  BY <1>1, <1>2, PTL DEF Spec

\* The state keeps its type (relay-client.ts, auth.ts, ws-handler.ts).
THEOREM TypeCorrect == Spec => []TypeOK
<1>1. IInv => TypeOK
  BY DEF IInv
<1>2. QED
  BY <1>1, Invariant, PTL

\* Nothing of an earlier session reaches this one (relay-client.ts:38, 52, 91, 130-131).
THEOREM Current == Spec => []SessionIsCurrent
<1>1. IInv => SessionIsCurrent
  BY DEF IInv, TokenInv, TokenIsCurrent, SocketIsCurrent, SessionIsCurrent
<1>2. QED
  BY <1>1, Invariant, PTL

\* The relay reaches the device by the socket registered last (ws-handler.ts:61, 102).
THEOREM Registry == Spec => []RegistryTracksLatest
<1>1. IInv => RegistryTracksLatest
  BY DEF IInv
<1>2. QED
  BY <1>1, Invariant, PTL

\* A token the relay accepts is given up by clearSession alone (relay-client.ts:152, 165).
\* An authentication that grants another one would have been begun beside it.
THEOREM TokenKept == Spec => GoodTokenKept
<1> DEFINE Kept == token \in valid /\ token' # token
                     => generation' # generation \/ ~(token \in valid')
<1>1. ASSUME IInv, [Next]_vars PROVE Kept
  <2> SUFFICES ASSUME token \in valid, token' # token
               PROVE  generation' # generation \/ ~(token \in valid')
    OBVIOUS
  <2>1. token # 0
    BY <1>1, TypeOKDef, Bounds DEF IInv, Auth
  <2>2. ASSUME NEW f \in Auth, Granted(f), IsWanted(f) PROVE FALSE
    <3>1. refreshing = f
      BY <1>1, <2>2 DEF Granted, IsWanted, IInv, TokenInv, OneRefresh
    <3>2. f # 0
      BY Bounds DEF Auth
    <3>3. QED
      BY <1>1, <2>1, <3>1, <3>2 DEF IInv, TokenInv, RefreshAlone
  <2>3. ASSUME NEW f \in Auth, Fail(f) PROVE FALSE
    BY <2>3 DEF Fail
  <2>4. ASSUME RequestAnswered PROVE FALSE
    <3>1. CASE request.n \in valid
      BY <2>4, <3>1 DEF RequestAnswered
    <3>2. CASE request.n \notin valid
      BY <2>4, <3>2 DEF RequestAnswered, TokenAfter401
    <3>3. QED
      BY <3>1, <3>2
  <2>5. ASSUME NEW n \in Auth, NEW known \in BOOLEAN, SessionEnds(n, known)
        PROVE  ~ (token \in valid')
    BY <2>5 DEF SessionEnds
  <2>6. ASSUME Clear PROVE generation' # generation
    <3>1. generation \in Nat
      BY <1>1, TypeOKDef, Bounds DEF IInv
    <3>2. QED
      BY <2>6, <3>1 DEF Clear
  <2>7. ASSUME token' = token PROVE FALSE
    BY <2>7
  <2>8. QED
    BY <1>1, <2>2, <2>3, <2>4, <2>5, <2>6, <2>7
       DEF Next, Watch, SendPrepared, TakePushed, Lock, Unlock, ChangeTransport, StartRequest,
           TimerFires, GetChallenge, Respond, Granted, LoseAuth, CheckUpgrade, Register,
           PingFails, LoseSocket, RelayHearsClose, ClientHearsClose, Push, vars
<1>2. IInv /\ [Next]_vars => [Kept]_vars
  BY <1>1
<1>3. QED
  BY <1>2, Invariant, PTL DEF Spec, GoodTokenKept

-----------------------------------------------------------------------------
\* The proofs of the parts, for the constants and the variables of MCServices.
PartsP == INSTANCE PartsProofs WITH
  Device <- {a, b}, Name <- {n1, n2}, MaxClaims <- 3, MaxAttempts <- 2,
  MaxLosses <- 2, losses <- actLosses,
  User <- {a, b, c}, Phone <- {}, Asking <- {<<a, b>>, <<c, b>>}, MaxKeys <- 1, MaxCrashes <- 1,
  Conversation <- {c1, c2}, MaxNotes <- 2, MaxLocks <- 1,
  Attachment <- {a1, a2}, Chunks <- 2, MaxBatch <- 2, MaxFaults <- 2, MaxRestores <- 1

\* The same for two phones.
PhonesP == INSTANCE PartsProofs WITH
  Device <- {a, b}, Name <- {n1, n2}, MaxClaims <- 3, MaxAttempts <- 2,
  MaxLosses <- 2, losses <- actLosses,
  User <- {a, b}, Phone <- {a, b}, Asking <- {<<a, b>>, <<b, a>>}, MaxKeys <- 1, MaxCrashes <- 1,
  Conversation <- {c1, c2}, MaxNotes <- 2, MaxLocks <- 1,
  Attachment <- {a1, a2}, Chunks <- 2, MaxBatch <- 2, MaxFaults <- 2, MaxRestores <- 1

\* A phone that sends texts, and a tab that reads.
TextsP == INSTANCE ClientsProofs WITH
  Text <- {t1, t2}, Reported <- {}, Incoming <- {}, MaxTors <- 2, MaxStops <- 2, MaxFaults <- 2,
  session <- native,
  Vault <- {v1, v2}, Conversation <- {c1, c2}, Item <- {m1}, UiText <- {}, Owner <- OneEach,
  MaxEpochs <- 3, MaxSelects <- 2, MaxLosses <- 0

\* A phone to which a message and a receipt come, and a tab that loses an answer.
ArrivalsP == INSTANCE ClientsProofs WITH
  Text <- {t1}, Reported <- {t1}, Incoming <- {m1}, MaxTors <- 2, MaxStops <- 1, MaxFaults <- 1,
  session <- native,
  Vault <- {v1, v2}, Conversation <- {c1, c2}, Item <- {m1}, UiText <- {}, Owner <- OneEach,
  MaxEpochs <- 3, MaxSelects <- 1, MaxLosses <- 1

\* A tab in which the user writes.
WritingP == INSTANCE ClientsProofs WITH
  Text <- {t1, t2}, Reported <- {}, Incoming <- {}, MaxTors <- 2, MaxStops <- 2, MaxFaults <- 2,
  session <- native,
  Vault <- {v1, v2}, Conversation <- {c1, c2}, Item <- {m1, t1}, UiText <- {t1}, Owner <- OneEach,
  MaxEpochs <- 3, MaxSelects <- 1, MaxLosses <- 0

-----------------------------------------------------------------------------
(***************************************************************************)
(* The parts side by side.                                                 *)
(***************************************************************************)
(* An instance of a component and that of its proofs are the same.         *)

LEMMA AccountsSame ==
  /\ Accounts!Init = PartsP!Init
  /\ [Accounts!Next]_(Accounts!vars) = [PartsP!Next]_(PartsP!vars)
  /\ Accounts!TypeOK = PartsP!TypeOK
  /\ Accounts!AccountsAgree = PartsP!AccountsAgree
<1> USE DEF
        Accounts!Claim, PartsP!Claim, Accounts!Unclaimed, PartsP!Unclaimed, Accounts!Idle,
        PartsP!Idle, Accounts!Call, PartsP!Call, Accounts!vars, PartsP!vars, Accounts!relay,
        PartsP!relay, Accounts!daemon, PartsP!daemon, Accounts!TypeOK, PartsP!TypeOK,
        Accounts!FreshRow, PartsP!FreshRow, Accounts!Init, PartsP!Init, Accounts!SelfActivate,
        PartsP!SelfActivate, Accounts!TypeCode, PartsP!TypeCode, Accounts!SaveClaim,
        PartsP!SaveClaim, Accounts!AcceptsAnswer, PartsP!AcceptsAnswer,
        Accounts!CompleteRegistration, PartsP!CompleteRegistration, Accounts!GiveUp,
        PartsP!GiveUp, Accounts!MayIssue, PartsP!MayIssue, Accounts!ApplyAccess,
        PartsP!ApplyAccess, Accounts!Named, PartsP!Named, Accounts!MayActivate,
        PartsP!MayActivate, Accounts!HasAccount, PartsP!HasAccount, Accounts!Activates,
        PartsP!Activates, Accounts!Repeats, PartsP!Repeats, Accounts!Granted, PartsP!Granted,
        Accounts!RowAfter, PartsP!RowAfter, Accounts!Attempt, PartsP!Attempt, Accounts!Activate,
        PartsP!Activate, Accounts!LateActivate, PartsP!LateActivate, Accounts!Expire,
        PartsP!Expire, Accounts!Next, PartsP!Next, Accounts!AccountsAgree, PartsP!AccountsAgree
<1>1. Accounts!Init = PartsP!Init
  OBVIOUS
<1>2. [Accounts!Next]_(Accounts!vars) = [PartsP!Next]_(PartsP!vars)
  OBVIOUS
<1>3. Accounts!TypeOK = PartsP!TypeOK
  OBVIOUS
<1>4. Accounts!AccountsAgree = PartsP!AccountsAgree
  OBVIOUS
<1>5. QED
  BY <1>1, <1>2, <1>3, <1>4

LEMMA StrangersSame ==
  /\ Strangers!Init = PartsP!Contacts!Init
  /\ [Strangers!Next]_(Strangers!vars) = [PartsP!Contacts!Next]_(PartsP!Contacts!vars)
  /\ Strangers!TypeOK = PartsP!Contacts!TypeOK
  /\ Strangers!FirstMessageOpens = PartsP!Contacts!FirstMessageOpens
  /\ Strangers!StandingDecisions = PartsP!Contacts!StandingDecisions
<1> USE DEF
        Strangers!requests, PartsP!Contacts!requests, Strangers!keys, PartsP!Contacts!keys,
        Strangers!local, PartsP!Contacts!local, Strangers!vars, PartsP!Contacts!vars,
        Strangers!Kind, PartsP!Contacts!Kind, Strangers!Key, PartsP!Contacts!Key, Strangers!NoKey,
        PartsP!Contacts!NoKey, Strangers!Keys, PartsP!Contacts!Keys, Strangers!NoKeys,
        PartsP!Contacts!NoKeys, Strangers!Idle, PartsP!Contacts!Idle, Strangers!NoSession,
        PartsP!Contacts!NoSession, Strangers!TypeOK, PartsP!Contacts!TypeOK, Strangers!Init,
        PartsP!Contacts!Init, Strangers!AsksAnew, PartsP!Contacts!AsksAnew, Strangers!Ask,
        PartsP!Contacts!Ask, Strangers!Expire, PartsP!Contacts!Expire, Strangers!Accept,
        PartsP!Contacts!Accept, Strangers!Reject, PartsP!Contacts!Reject, Strangers!InsertAck,
        PartsP!Contacts!InsertAck, Strangers!CommitAck, PartsP!Contacts!CommitAck, Strangers!Held,
        PartsP!Contacts!Held, Strangers!Candidates, PartsP!Contacts!Candidates, Strangers!Take,
        PartsP!Contacts!Take, Strangers!TakeClassical, PartsP!Contacts!TakeClassical,
        Strangers!TakePq, PartsP!Contacts!TakePq, Strangers!WaitsFor, PartsP!Contacts!WaitsFor,
        Strangers!CommitBundle, PartsP!Contacts!CommitBundle, Strangers!RollBack,
        PartsP!Contacts!RollBack, Strangers!FetchBundle, PartsP!Contacts!FetchBundle,
        Strangers!Establish, PartsP!Contacts!Establish, Strangers!SaveRemote,
        PartsP!Contacts!SaveRemote, Strangers!FinishContact, PartsP!Contacts!FinishContact,
        Strangers!SendFirst, PartsP!Contacts!SendFirst, Strangers!CanOpen,
        PartsP!Contacts!CanOpen, Strangers!Receive, PartsP!Contacts!Receive, Strangers!Crash,
        PartsP!Contacts!Crash, Strangers!Next, PartsP!Contacts!Next, Strangers!FirstMessageOpens,
        PartsP!Contacts!FirstMessageOpens, Strangers!StandingDecisions,
        PartsP!Contacts!StandingDecisions
<1>1. Strangers!Init = PartsP!Contacts!Init
  OBVIOUS
<1>2. [Strangers!Next]_(Strangers!vars) = [PartsP!Contacts!Next]_(PartsP!Contacts!vars)
  OBVIOUS
<1>3. Strangers!TypeOK = PartsP!Contacts!TypeOK
  OBVIOUS
<1>4. Strangers!FirstMessageOpens = PartsP!Contacts!FirstMessageOpens
  OBVIOUS
<1>5. Strangers!StandingDecisions = PartsP!Contacts!StandingDecisions
  OBVIOUS
<1>6. QED
  BY <1>1, <1>2, <1>3, <1>4, <1>5

LEMMA PhonesSame ==
  /\ Phones!Init = PhonesP!Contacts!Init
  /\ [Phones!Next]_(Phones!vars) = [PhonesP!Contacts!Next]_(PhonesP!Contacts!vars)
  /\ Phones!TypeOK = PhonesP!Contacts!TypeOK
  /\ Phones!FirstMessageOpens = PhonesP!Contacts!FirstMessageOpens
  /\ Phones!StandingDecisions = PhonesP!Contacts!StandingDecisions
<1> USE DEF
        Phones!requests, PhonesP!Contacts!requests, Phones!keys, PhonesP!Contacts!keys,
        Phones!local, PhonesP!Contacts!local, Phones!vars, PhonesP!Contacts!vars, Phones!Kind,
        PhonesP!Contacts!Kind, Phones!Key, PhonesP!Contacts!Key, Phones!NoKey,
        PhonesP!Contacts!NoKey, Phones!Keys, PhonesP!Contacts!Keys, Phones!NoKeys,
        PhonesP!Contacts!NoKeys, Phones!Idle, PhonesP!Contacts!Idle, Phones!NoSession,
        PhonesP!Contacts!NoSession, Phones!TypeOK, PhonesP!Contacts!TypeOK, Phones!Init,
        PhonesP!Contacts!Init, Phones!AsksAnew, PhonesP!Contacts!AsksAnew, Phones!Ask,
        PhonesP!Contacts!Ask, Phones!Expire, PhonesP!Contacts!Expire, Phones!Accept,
        PhonesP!Contacts!Accept, Phones!Reject, PhonesP!Contacts!Reject, Phones!InsertAck,
        PhonesP!Contacts!InsertAck, Phones!CommitAck, PhonesP!Contacts!CommitAck, Phones!Held,
        PhonesP!Contacts!Held, Phones!Candidates, PhonesP!Contacts!Candidates, Phones!Take,
        PhonesP!Contacts!Take, Phones!TakeClassical, PhonesP!Contacts!TakeClassical,
        Phones!TakePq, PhonesP!Contacts!TakePq, Phones!WaitsFor, PhonesP!Contacts!WaitsFor,
        Phones!CommitBundle, PhonesP!Contacts!CommitBundle, Phones!RollBack,
        PhonesP!Contacts!RollBack, Phones!FetchBundle, PhonesP!Contacts!FetchBundle,
        Phones!Establish, PhonesP!Contacts!Establish, Phones!SaveRemote,
        PhonesP!Contacts!SaveRemote, Phones!FinishContact, PhonesP!Contacts!FinishContact,
        Phones!SendFirst, PhonesP!Contacts!SendFirst, Phones!CanOpen, PhonesP!Contacts!CanOpen,
        Phones!Receive, PhonesP!Contacts!Receive, Phones!Crash, PhonesP!Contacts!Crash,
        Phones!Next, PhonesP!Contacts!Next, Phones!FirstMessageOpens,
        PhonesP!Contacts!FirstMessageOpens, Phones!StandingDecisions,
        PhonesP!Contacts!StandingDecisions
<1>1. Phones!Init = PhonesP!Contacts!Init
  OBVIOUS
<1>2. [Phones!Next]_(Phones!vars) = [PhonesP!Contacts!Next]_(PhonesP!Contacts!vars)
  OBVIOUS
<1>3. Phones!TypeOK = PhonesP!Contacts!TypeOK
  OBVIOUS
<1>4. Phones!FirstMessageOpens = PhonesP!Contacts!FirstMessageOpens
  OBVIOUS
<1>5. Phones!StandingDecisions = PhonesP!Contacts!StandingDecisions
  OBVIOUS
<1>6. QED
  BY <1>1, <1>2, <1>3, <1>4, <1>5

LEMMA NotesSame ==
  /\ VoiceNotes!Init = PartsP!Notes!Init
  /\ [VoiceNotes!Next]_(VoiceNotes!vars) = [PartsP!Notes!Next]_(PartsP!Notes!vars)
  /\ VoiceNotes!TypeOK = PartsP!Notes!TypeOK
  /\ VoiceNotes!NotesInPlace = PartsP!Notes!NotesInPlace
<1> USE DEF
        VoiceNotes!session, PartsP!Notes!session, VoiceNotes!audio, PartsP!Notes!audio,
        VoiceNotes!button, PartsP!Notes!button, VoiceNotes!sending, PartsP!Notes!sending,
        VoiceNotes!vars, PartsP!Notes!vars, VoiceNotes!NoUpload, PartsP!Notes!NoUpload,
        VoiceNotes!Released, PartsP!Notes!Released, VoiceNotes!Note, PartsP!Notes!Note,
        VoiceNotes!TypeOK, PartsP!Notes!TypeOK, VoiceNotes!Init, PartsP!Notes!Init,
        VoiceNotes!Notes, PartsP!Notes!Notes, VoiceNotes!Goes, PartsP!Notes!Goes,
        VoiceNotes!Start, PartsP!Notes!Start, VoiceNotes!Stop, PartsP!Notes!Stop,
        VoiceNotes!ChunksOf, PartsP!Notes!ChunksOf, VoiceNotes!Grant, PartsP!Notes!Grant,
        VoiceNotes!Deny, PartsP!Notes!Deny, VoiceNotes!TrackEnds, PartsP!Notes!TrackEnds,
        VoiceNotes!OnStop, PartsP!Notes!OnStop, VoiceNotes!Back, PartsP!Notes!Back,
        VoiceNotes!Shown, PartsP!Notes!Shown, VoiceNotes!Down, PartsP!Notes!Down,
        VoiceNotes!HoldFires, PartsP!Notes!HoldFires, VoiceNotes!Up, PartsP!Notes!Up,
        VoiceNotes!Click, PartsP!Notes!Click, VoiceNotes!PickFile, PartsP!Notes!PickFile,
        VoiceNotes!UploadStep, PartsP!Notes!UploadStep, VoiceNotes!UploadFails,
        PartsP!Notes!UploadFails, VoiceNotes!Select, PartsP!Notes!Select, VoiceNotes!Gone,
        PartsP!Notes!Gone, VoiceNotes!Lock, PartsP!Notes!Lock, VoiceNotes!LockServed,
        PartsP!Notes!LockServed, VoiceNotes!QuickLock, PartsP!Notes!QuickLock, VoiceNotes!Unlock,
        PartsP!Notes!Unlock, VoiceNotes!Next, PartsP!Notes!Next, VoiceNotes!NotesInPlace,
        PartsP!Notes!NotesInPlace
<1>1. VoiceNotes!Init = PartsP!Notes!Init
  OBVIOUS
<1>2. [VoiceNotes!Next]_(VoiceNotes!vars) = [PartsP!Notes!Next]_(PartsP!Notes!vars)
  OBVIOUS
<1>3. VoiceNotes!TypeOK = PartsP!Notes!TypeOK
  OBVIOUS
<1>4. VoiceNotes!NotesInPlace = PartsP!Notes!NotesInPlace
  OBVIOUS
<1>5. QED
  BY <1>1, <1>2, <1>3, <1>4

LEMMA FilesSame ==
  /\ Files!Init = PartsP!Files!Init
  /\ [Files!Next]_(Files!vars) = [PartsP!Files!Next]_(PartsP!Files!vars)
  /\ Files!TypeOK = PartsP!Files!TypeOK
  /\ Files!AttachmentsKept = PartsP!Files!AttachmentsKept
<1> USE DEF
        Files!local, PartsP!Files!local, Files!counts, PartsP!Files!counts, Files!vars,
        PartsP!Files!vars, Files!NoBlob, PartsP!Files!NoBlob, Files!Idle, PartsP!Files!Idle,
        Files!Rows, PartsP!Files!Rows, Files!Without, PartsP!Files!Without, Files!TypeOK,
        PartsP!Files!TypeOK, Files!Init, PartsP!Files!Init, Files!Upload, PartsP!Files!Upload,
        Files!MoreChunks, PartsP!Files!MoreChunks, Files!UploadChunk, PartsP!Files!UploadChunk,
        Files!FinishUpload, PartsP!Files!FinishUpload, Files!UploadFails,
        PartsP!Files!UploadFails, Files!Receive, PartsP!Files!Receive, Files!FirstOf,
        PartsP!Files!FirstOf, Files!Lasting, PartsP!Files!Lasting, Files!Batch,
        PartsP!Files!Batch, Files!StartDownloads, PartsP!Files!StartDownloads, Files!Current,
        PartsP!Files!Current, Files!AfterOne, PartsP!Files!AfterOne, Files!DownloadChunk,
        PartsP!Files!DownloadChunk, Files!Fetched, PartsP!Files!Fetched, Files!FinishChunks,
        PartsP!Files!FinishChunks, Files!CacheFile, PartsP!Files!CacheFile, Files!CommitDownload,
        PartsP!Files!CommitDownload, Files!MayFree, PartsP!Files!MayFree, Files!DeleteBlob,
        PartsP!Files!DeleteBlob, Files!RequestFails, PartsP!Files!RequestFails, Files!Crash,
        PartsP!Files!Crash, Files!Expire, PartsP!Files!Expire, Files!UnlinkFile,
        PartsP!Files!UnlinkFile, Files!DeleteMessage, PartsP!Files!DeleteMessage, Files!BackUp,
        PartsP!Files!BackUp, Files!Restore, PartsP!Files!Restore, Files!Next, PartsP!Files!Next,
        Files!ReadyIsReadable, PartsP!Files!ReadyIsReadable, Files!QueuedIsObtainable,
        PartsP!Files!QueuedIsObtainable, Files!AttachmentsKept, PartsP!Files!AttachmentsKept,
        Files!ToSet, PartsP!Files!ToSet, Files!IsInjective, PartsP!Files!IsInjective
<1>1. Files!Init = PartsP!Files!Init
  OBVIOUS
<1>2. [Files!Next]_(Files!vars) = [PartsP!Files!Next]_(PartsP!Files!vars)
  OBVIOUS
<1>3. Files!TypeOK = PartsP!Files!TypeOK
  OBVIOUS
<1>4. Files!AttachmentsKept = PartsP!Files!AttachmentsKept
  OBVIOUS
<1>5. QED
  BY <1>1, <1>2, <1>3, <1>4

LEMMA ReadingSame ==
  /\ Reading!Init = TextsP!Ui!Init
  /\ [Reading!Next]_(Reading!vars) = [TextsP!Ui!Next]_(TextsP!Ui!vars)
  /\ Reading!TypeOK = TextsP!Ui!TypeOK
  /\ Reading!ScreenBelongs = TextsP!Ui!ScreenBelongs
<1> USE DEF
        Reading!daemon, TextsP!Ui!daemon, Reading!tab, TextsP!Ui!tab, Reading!lists,
        TextsP!Ui!lists, Reading!counts, TextsP!Ui!counts, Reading!vars, TextsP!Ui!vars,
        Reading!Kind, TextsP!Ui!Kind, Reading!About, TextsP!Ui!About, Reading!Request,
        TextsP!Ui!Request, Reading!TypeOK, TextsP!Ui!TypeOK, Reading!Init, TextsP!Ui!Init,
        Reading!Rows, TextsP!Ui!Rows, Reading!Arrive, TextsP!Ui!Arrive, Reading!Reading,
        TextsP!Ui!Reading, Reading!Admitted, TextsP!Ui!Admitted, Reading!Answered,
        TextsP!Ui!Answered, Reading!Data, TextsP!Ui!Data, Reading!Executed, TextsP!Ui!Executed,
        Reading!Possible, TextsP!Ui!Possible, Reading!Asks, TextsP!Ui!Asks, Reading!InTurn,
        TextsP!Ui!InTurn, Reading!Serve, TextsP!Ui!Serve, Reading!Refuse, TextsP!Ui!Refuse,
        Reading!Loss, TextsP!Ui!Loss, Reading!Ask, TextsP!Ui!Ask, Reading!Select,
        TextsP!Ui!Select, Reading!Poll, TextsP!Ui!Poll, Reading!Submit, TextsP!Ui!Submit,
        Reading!Idle, TextsP!Ui!Idle, Reading!Lock, TextsP!Ui!Lock, Reading!Open, TextsP!Ui!Open,
        Reading!QuickLock, TextsP!Ui!QuickLock, Reading!EnterPin, TextsP!Ui!EnterPin,
        Reading!Fresh, TextsP!Ui!Fresh, Reading!Show, TextsP!Ui!Show, Reading!Handled,
        TextsP!Ui!Handled, Reading!Consume, TextsP!Ui!Consume, Reading!SyncDone,
        TextsP!Ui!SyncDone, Reading!HandleSync, TextsP!Ui!HandleSync, Reading!HandleLoad,
        TextsP!Ui!HandleLoad, Reading!HandleContacts, TextsP!Ui!HandleContacts,
        Reading!HandleSend, TextsP!Ui!HandleSend, Reading!State, TextsP!Ui!State,
        Reading!Bootstrap, TextsP!Ui!Bootstrap, Reading!HandleLock, TextsP!Ui!HandleLock,
        Reading!HandleOpen, TextsP!Ui!HandleOpen, Reading!HandleQuick, TextsP!Ui!HandleQuick,
        Reading!Handle, TextsP!Ui!Handle, Reading!Next, TextsP!Ui!Next, Reading!ScreenBelongs,
        TextsP!Ui!ScreenBelongs
<1>1. Reading!Init = TextsP!Ui!Init
  OBVIOUS
<1>2. [Reading!Next]_(Reading!vars) = [TextsP!Ui!Next]_(TextsP!Ui!vars)
  OBVIOUS
<1>3. Reading!TypeOK = TextsP!Ui!TypeOK
  OBVIOUS
<1>4. Reading!ScreenBelongs = TextsP!Ui!ScreenBelongs
  OBVIOUS
<1>5. QED
  BY <1>1, <1>2, <1>3, <1>4

LEMMA LosingSame ==
  /\ Losing!Init = ArrivalsP!Ui!Init
  /\ [Losing!Next]_(Losing!vars) = [ArrivalsP!Ui!Next]_(ArrivalsP!Ui!vars)
  /\ Losing!TypeOK = ArrivalsP!Ui!TypeOK
  /\ Losing!ScreenBelongs = ArrivalsP!Ui!ScreenBelongs
<1> USE DEF
        Losing!daemon, ArrivalsP!Ui!daemon, Losing!tab, ArrivalsP!Ui!tab, Losing!lists,
        ArrivalsP!Ui!lists, Losing!counts, ArrivalsP!Ui!counts, Losing!vars, ArrivalsP!Ui!vars,
        Losing!Kind, ArrivalsP!Ui!Kind, Losing!About, ArrivalsP!Ui!About, Losing!Request,
        ArrivalsP!Ui!Request, Losing!TypeOK, ArrivalsP!Ui!TypeOK, Losing!Init, ArrivalsP!Ui!Init,
        Losing!Rows, ArrivalsP!Ui!Rows, Losing!Arrive, ArrivalsP!Ui!Arrive, Losing!Reading,
        ArrivalsP!Ui!Reading, Losing!Admitted, ArrivalsP!Ui!Admitted, Losing!Answered,
        ArrivalsP!Ui!Answered, Losing!Data, ArrivalsP!Ui!Data, Losing!Executed,
        ArrivalsP!Ui!Executed, Losing!Possible, ArrivalsP!Ui!Possible, Losing!Asks,
        ArrivalsP!Ui!Asks, Losing!InTurn, ArrivalsP!Ui!InTurn, Losing!Serve, ArrivalsP!Ui!Serve,
        Losing!Refuse, ArrivalsP!Ui!Refuse, Losing!Loss, ArrivalsP!Ui!Loss, Losing!Ask,
        ArrivalsP!Ui!Ask, Losing!Select, ArrivalsP!Ui!Select, Losing!Poll, ArrivalsP!Ui!Poll,
        Losing!Submit, ArrivalsP!Ui!Submit, Losing!Idle, ArrivalsP!Ui!Idle, Losing!Lock,
        ArrivalsP!Ui!Lock, Losing!Open, ArrivalsP!Ui!Open, Losing!QuickLock,
        ArrivalsP!Ui!QuickLock, Losing!EnterPin, ArrivalsP!Ui!EnterPin, Losing!Fresh,
        ArrivalsP!Ui!Fresh, Losing!Show, ArrivalsP!Ui!Show, Losing!Handled, ArrivalsP!Ui!Handled,
        Losing!Consume, ArrivalsP!Ui!Consume, Losing!SyncDone, ArrivalsP!Ui!SyncDone,
        Losing!HandleSync, ArrivalsP!Ui!HandleSync, Losing!HandleLoad, ArrivalsP!Ui!HandleLoad,
        Losing!HandleContacts, ArrivalsP!Ui!HandleContacts, Losing!HandleSend,
        ArrivalsP!Ui!HandleSend, Losing!State, ArrivalsP!Ui!State, Losing!Bootstrap,
        ArrivalsP!Ui!Bootstrap, Losing!HandleLock, ArrivalsP!Ui!HandleLock, Losing!HandleOpen,
        ArrivalsP!Ui!HandleOpen, Losing!HandleQuick, ArrivalsP!Ui!HandleQuick, Losing!Handle,
        ArrivalsP!Ui!Handle, Losing!Next, ArrivalsP!Ui!Next, Losing!ScreenBelongs,
        ArrivalsP!Ui!ScreenBelongs
<1>1. Losing!Init = ArrivalsP!Ui!Init
  OBVIOUS
<1>2. [Losing!Next]_(Losing!vars) = [ArrivalsP!Ui!Next]_(ArrivalsP!Ui!vars)
  OBVIOUS
<1>3. Losing!TypeOK = ArrivalsP!Ui!TypeOK
  OBVIOUS
<1>4. Losing!ScreenBelongs = ArrivalsP!Ui!ScreenBelongs
  OBVIOUS
<1>5. QED
  BY <1>1, <1>2, <1>3, <1>4

LEMMA WritingSame ==
  /\ Writing!Init = WritingP!Ui!Init
  /\ [Writing!Next]_(Writing!vars) = [WritingP!Ui!Next]_(WritingP!Ui!vars)
  /\ Writing!TypeOK = WritingP!Ui!TypeOK
  /\ Writing!ScreenBelongs = WritingP!Ui!ScreenBelongs
<1> USE DEF
        Writing!daemon, WritingP!Ui!daemon, Writing!tab, WritingP!Ui!tab, Writing!lists,
        WritingP!Ui!lists, Writing!counts, WritingP!Ui!counts, Writing!vars, WritingP!Ui!vars,
        Writing!Kind, WritingP!Ui!Kind, Writing!About, WritingP!Ui!About, Writing!Request,
        WritingP!Ui!Request, Writing!TypeOK, WritingP!Ui!TypeOK, Writing!Init, WritingP!Ui!Init,
        Writing!Rows, WritingP!Ui!Rows, Writing!Arrive, WritingP!Ui!Arrive, Writing!Reading,
        WritingP!Ui!Reading, Writing!Admitted, WritingP!Ui!Admitted, Writing!Answered,
        WritingP!Ui!Answered, Writing!Data, WritingP!Ui!Data, Writing!Executed,
        WritingP!Ui!Executed, Writing!Possible, WritingP!Ui!Possible, Writing!Asks,
        WritingP!Ui!Asks, Writing!InTurn, WritingP!Ui!InTurn, Writing!Serve, WritingP!Ui!Serve,
        Writing!Refuse, WritingP!Ui!Refuse, Writing!Loss, WritingP!Ui!Loss, Writing!Ask,
        WritingP!Ui!Ask, Writing!Select, WritingP!Ui!Select, Writing!Poll, WritingP!Ui!Poll,
        Writing!Submit, WritingP!Ui!Submit, Writing!Idle, WritingP!Ui!Idle, Writing!Lock,
        WritingP!Ui!Lock, Writing!Open, WritingP!Ui!Open, Writing!QuickLock,
        WritingP!Ui!QuickLock, Writing!EnterPin, WritingP!Ui!EnterPin, Writing!Fresh,
        WritingP!Ui!Fresh, Writing!Show, WritingP!Ui!Show, Writing!Handled, WritingP!Ui!Handled,
        Writing!Consume, WritingP!Ui!Consume, Writing!SyncDone, WritingP!Ui!SyncDone,
        Writing!HandleSync, WritingP!Ui!HandleSync, Writing!HandleLoad, WritingP!Ui!HandleLoad,
        Writing!HandleContacts, WritingP!Ui!HandleContacts, Writing!HandleSend,
        WritingP!Ui!HandleSend, Writing!State, WritingP!Ui!State, Writing!Bootstrap,
        WritingP!Ui!Bootstrap, Writing!HandleLock, WritingP!Ui!HandleLock, Writing!HandleOpen,
        WritingP!Ui!HandleOpen, Writing!HandleQuick, WritingP!Ui!HandleQuick, Writing!Handle,
        WritingP!Ui!Handle, Writing!Next, WritingP!Ui!Next, Writing!ScreenBelongs,
        WritingP!Ui!ScreenBelongs
<1>1. Writing!Init = WritingP!Ui!Init
  OBVIOUS
<1>2. [Writing!Next]_(Writing!vars) = [WritingP!Ui!Next]_(WritingP!Ui!vars)
  OBVIOUS
<1>3. Writing!TypeOK = WritingP!Ui!TypeOK
  OBVIOUS
<1>4. Writing!ScreenBelongs = WritingP!Ui!ScreenBelongs
  OBVIOUS
<1>5. QED
  BY <1>1, <1>2, <1>3, <1>4, SMTT(30)

LEMMA TextsSame ==
  /\ Texts!Init = TextsP!Init
  /\ [Texts!Next]_(Texts!vars) = [TextsP!Next]_(TextsP!vars)
  /\ Texts!TypeOK = TextsP!TypeOK
  /\ Texts!LeavesInOrder = TextsP!LeavesInOrder
  /\ Texts!AskedRightly = TextsP!AskedRightly
<1> USE DEF
        Texts!phone, TextsP!phone, Texts!queues, TextsP!queues, Texts!arrivals, TextsP!arrivals,
        Texts!others, TextsP!others, Texts!vars, TextsP!vars, Texts!Mode, TextsP!Mode,
        Texts!Receipt, TextsP!Receipt, Texts!Outgoing, TextsP!Outgoing, Texts!Arrival,
        TextsP!Arrival, Texts!Attempt, TextsP!Attempt, Texts!ToSet, TextsP!ToSet, Texts!Without,
        TextsP!Without, Texts!TypeOK, TextsP!TypeOK, Texts!Init, TextsP!Init, Texts!Fault,
        TextsP!Fault, Texts!Closed, TextsP!Closed, Texts!EpochAfterStop, TextsP!EpochAfterStop,
        Texts!StopDirect, TextsP!StopDirect, Texts!StartTor, TextsP!StartTor, Texts!TorReady,
        TextsP!TorReady, Texts!TorEnds, TextsP!TorEnds, Texts!NetworkChanges,
        TextsP!NetworkChanges, Texts!SetMode, TextsP!SetMode, Texts!Lock, TextsP!Lock,
        Texts!Unlock, TextsP!Unlock, Texts!Begun, TextsP!Begun, Texts!MayBegin, TextsP!MayBegin,
        Texts!Heads, TextsP!Heads, Texts!TryDirect, TextsP!TryDirect, Texts!First, TextsP!First,
        Texts!FlushTexts, TextsP!FlushTexts, Texts!StatusAfterFlush, TextsP!StatusAfterFlush,
        Texts!Send, TextsP!Send, Texts!FlushControls, TextsP!FlushControls, Texts!Transmit,
        TextsP!Transmit, Texts!PeerAccepts, TextsP!PeerAccepts, Texts!PeerIsAway,
        TextsP!PeerIsAway, Texts!FallBack, TextsP!FallBack, Texts!Post, TextsP!Post,
        Texts!RelayAccepts, TextsP!RelayAccepts, Texts!Counts, TextsP!Counts, Texts!Complete,
        TextsP!Complete, Texts!PeerSends, TextsP!PeerSends, Texts!Fresh, TextsP!Fresh,
        Texts!Consume, TextsP!Consume, Texts!Sync, TextsP!Sync, Texts!Next, TextsP!Next,
        Texts!Accepted, TextsP!Accepted, Texts!LeavesInOrder, TextsP!LeavesInOrder,
        Texts!AskedRightly, TextsP!AskedRightly, Texts!Cardinality, TextsP!Cardinality,
        Texts!IsFiniteSet, TextsP!IsFiniteSet
<1>1. Texts!Init = TextsP!Init
  OBVIOUS
<1>2. [Texts!Next]_(Texts!vars) = [TextsP!Next]_(TextsP!vars)
  OBVIOUS
<1>3. Texts!TypeOK = TextsP!TypeOK
  BY ZenonT(60)
<1>4. Texts!LeavesInOrder = TextsP!LeavesInOrder
  BY ZenonT(60)
<1>5. Texts!AskedRightly = TextsP!AskedRightly
  BY ZenonT(60)
<1>6. QED
  BY <1>1, <1>2, <1>3, <1>4, <1>5, SMTT(30)

LEMMA ArrivalsSame ==
  /\ Arrivals!Init = ArrivalsP!Init
  /\ [Arrivals!Next]_(Arrivals!vars) = [ArrivalsP!Next]_(ArrivalsP!vars)
  /\ Arrivals!TypeOK = ArrivalsP!TypeOK
  /\ Arrivals!LeavesInOrder = ArrivalsP!LeavesInOrder
  /\ Arrivals!ShownOnce = ArrivalsP!ShownOnce
  /\ Arrivals!AskedRightly = ArrivalsP!AskedRightly
<1> USE DEF
        Arrivals!phone, ArrivalsP!phone, Arrivals!queues, ArrivalsP!queues, Arrivals!arrivals,
        ArrivalsP!arrivals, Arrivals!others, ArrivalsP!others, Arrivals!vars, ArrivalsP!vars,
        Arrivals!Mode, ArrivalsP!Mode, Arrivals!Receipt, ArrivalsP!Receipt, Arrivals!Outgoing,
        ArrivalsP!Outgoing, Arrivals!Arrival, ArrivalsP!Arrival, Arrivals!Attempt,
        ArrivalsP!Attempt, Arrivals!ToSet, ArrivalsP!ToSet, Arrivals!Without, ArrivalsP!Without,
        Arrivals!TypeOK, ArrivalsP!TypeOK, Arrivals!Init, ArrivalsP!Init, Arrivals!Fault,
        ArrivalsP!Fault, Arrivals!Closed, ArrivalsP!Closed, Arrivals!EpochAfterStop,
        ArrivalsP!EpochAfterStop, Arrivals!StopDirect, ArrivalsP!StopDirect, Arrivals!StartTor,
        ArrivalsP!StartTor, Arrivals!TorReady, ArrivalsP!TorReady, Arrivals!TorEnds,
        ArrivalsP!TorEnds, Arrivals!NetworkChanges, ArrivalsP!NetworkChanges, Arrivals!SetMode,
        ArrivalsP!SetMode, Arrivals!Lock, ArrivalsP!Lock, Arrivals!Unlock, ArrivalsP!Unlock,
        Arrivals!Begun, ArrivalsP!Begun, Arrivals!MayBegin, ArrivalsP!MayBegin, Arrivals!Heads,
        ArrivalsP!Heads, Arrivals!TryDirect, ArrivalsP!TryDirect, Arrivals!First, ArrivalsP!First,
        Arrivals!FlushTexts, ArrivalsP!FlushTexts, Arrivals!StatusAfterFlush,
        ArrivalsP!StatusAfterFlush, Arrivals!Send, ArrivalsP!Send, Arrivals!FlushControls,
        ArrivalsP!FlushControls, Arrivals!Transmit, ArrivalsP!Transmit, Arrivals!PeerAccepts,
        ArrivalsP!PeerAccepts, Arrivals!PeerIsAway, ArrivalsP!PeerIsAway, Arrivals!FallBack,
        ArrivalsP!FallBack, Arrivals!Post, ArrivalsP!Post, Arrivals!RelayAccepts,
        ArrivalsP!RelayAccepts, Arrivals!Counts, ArrivalsP!Counts, Arrivals!Complete,
        ArrivalsP!Complete, Arrivals!PeerSends, ArrivalsP!PeerSends, Arrivals!Fresh,
        ArrivalsP!Fresh, Arrivals!Consume, ArrivalsP!Consume, Arrivals!Sync, ArrivalsP!Sync,
        Arrivals!Next, ArrivalsP!Next, Arrivals!Accepted, ArrivalsP!Accepted,
        Arrivals!LeavesInOrder, ArrivalsP!LeavesInOrder, Arrivals!AskedRightly,
        ArrivalsP!AskedRightly, Arrivals!ShownOnce, ArrivalsP!ShownOnce, Arrivals!Cardinality,
        ArrivalsP!Cardinality, Arrivals!IsFiniteSet, ArrivalsP!IsFiniteSet
<1>1. Arrivals!Init = ArrivalsP!Init
  OBVIOUS
<1>2. [Arrivals!Next]_(Arrivals!vars) = [ArrivalsP!Next]_(ArrivalsP!vars)
  OBVIOUS
<1>3. Arrivals!TypeOK = ArrivalsP!TypeOK
  OBVIOUS
<1>4. Arrivals!LeavesInOrder = ArrivalsP!LeavesInOrder
  OBVIOUS
<1>5. Arrivals!ShownOnce = ArrivalsP!ShownOnce
  OBVIOUS
<1>6. Arrivals!AskedRightly = ArrivalsP!AskedRightly
  OBVIOUS
<1>7. QED
  BY <1>1, <1>2, <1>3, <1>4, <1>5, <1>6, SMTT(30)

-----------------------------------------------------------------------------
(* The parts side by side.                                                 *)

\* What stands for none is none, and a text is told from a receipt.
Apart ==
  /\ NoName \notin {n1, n2} /\ NoDevice \notin {a, b}
  /\ None \notin {v1, v2} /\ None \notin {c1, c2}
  /\ t1 # [of |-> m1]

LEMMA SizesHold ==
  ASSUME Apart
  PROVE  /\ PartsP!Sizes /\ PartsP!ContactSizes /\ PhonesP!ContactSizes
         /\ PartsP!NoteSizes /\ PartsP!FileSizes
         /\ TextsP!UiSizes /\ ArrivalsP!UiSizes /\ WritingP!UiSizes
         /\ TextsP!Sizes /\ ArrivalsP!Sizes
<1>1. PartsP!Sizes
  BY DEF Apart, PartsP!Sizes
<1>2. OneEach \in [{c1, c2} -> {v1, v2}]
  BY DEF OneEach
<1>3. TextsP!UiSizes /\ ArrivalsP!UiSizes /\ WritingP!UiSizes
  BY <1>2 DEF Apart, TextsP!UiSizes, ArrivalsP!UiSizes, WritingP!UiSizes
<1>4. TextsP!Sizes
  BY DEF TextsP!Sizes, TextsP!Receipt
<1>5. ArrivalsP!Sizes
  BY DEF Apart, ArrivalsP!Sizes, ArrivalsP!Receipt
<1>6. PartsP!ContactSizes /\ PhonesP!ContactSizes /\ PartsP!NoteSizes /\ PartsP!FileSizes
  BY DEF PartsP!ContactSizes, PhonesP!ContactSizes, PartsP!NoteSizes, PartsP!FileSizes
<1>7. QED
  BY <1>1, <1>3, <1>4, <1>5, <1>6

PartNames ==
  {"session", "accounts", "strangers", "phones", "files", "reading", "losing", "writing",
   "texts", "arrivals", "notes"}

\* Each part has its invariant, while it is the one that runs.
ServicesInv ==
  /\ IInv /\ PartsP!IInv
  /\ part # "phones" => PartsP!ContactsInv
  /\ part = "phones" => PhonesP!ContactsInv
  /\ PartsP!FilesInv /\ PartsP!NotesInv
  /\ part = "reading" => TextsP!UiIInv
  /\ part = "losing" => ArrivalsP!UiIInv
  /\ part = "writing" => WritingP!UiIInv
  /\ part = "texts" => TextsP!IInv
  /\ part = "arrivals" => ArrivalsP!IInv

LEMMA ServicesInitInv == ASSUME Apart, ServicesInit PROVE ServicesInv
<1>1. IInv /\ PartsP!IInv
  BY SizesHold, AccountsSame, PartsP!InitInv, InitHolds DEF ServicesInit
<1>2. part = "reading" => TextsP!UiIInv
  BY SizesHold, ReadingSame, TextsP!UiInitInv DEF ServicesInit
<1>3. part = "losing" => ArrivalsP!UiIInv
  <2>1. Reading!Init => ArrivalsP!Ui!Init
    BY DEF Reading!Init, ArrivalsP!Ui!Init
  <2>2. QED
    BY <2>1, SizesHold, ArrivalsP!UiInitInv DEF ServicesInit
<1>4. part = "writing" => WritingP!UiIInv
  BY SizesHold, WritingSame, WritingP!UiInitInv DEF ServicesInit
<1>5. part = "texts" => TextsP!IInv
  BY SizesHold, TextsSame, TextsP!InitInv DEF ServicesInit
<1>6. part = "arrivals" => ArrivalsP!IInv
  BY SizesHold, ArrivalsSame, ArrivalsP!InitInv DEF ServicesInit
<1>7. part # "phones" => PartsP!ContactsInv
  BY SizesHold, StrangersSame, PartsP!ContactsInitInv DEF ServicesInit
<1>8. part = "phones" => PhonesP!ContactsInv
  BY SizesHold, PhonesSame, PhonesP!ContactsInitInv DEF ServicesInit
<1>9. PartsP!FilesInv /\ PartsP!NotesInv
  BY SizesHold, FilesSame, NotesSame, PartsP!FilesInitInv, PartsP!NotesInitInv DEF ServicesInit
<1>10. QED
  BY <1>1, <1>2, <1>3, <1>4, <1>5, <1>6, <1>7, <1>8, <1>9 DEF ServicesInv

\* A step is one of the part that runs, and leaves the others as they are.
LEMMA StepOfPart ==
  ASSUME [ServicesNext]_allVars
  PROVE  /\ part' = part
         /\ [Next]_vars /\ [Accounts!Next]_(Accounts!vars)
         /\ part # "phones" => [Strangers!Next]_(Strangers!vars)
         /\ part = "phones" => [Phones!Next]_(Phones!vars)
         /\ [Files!Next]_(Files!vars) /\ [VoiceNotes!Next]_(VoiceNotes!vars)
         /\ part = "reading" => [Reading!Next]_(Reading!vars)
         /\ part = "losing" => [Losing!Next]_(Losing!vars)
         /\ part = "writing" => [Writing!Next]_(Writing!vars)
         /\ part = "texts" => [Texts!Next]_(Texts!vars)
         /\ part = "arrivals" => [Arrivals!Next]_(Arrivals!vars)
<1>1. ServicesNext \/ UNCHANGED allVars
  OBVIOUS
<1>2. part' = part
  BY <1>1 DEF ServicesNext, SessionStep, AccountStep, StrangerStep, PhoneStep, FileStep, ReadStep,
     LoseStep, WriteStep, TextStep, ArrivalStep, NoteStep, Alone, allVars
<1>3. Accounts!Next \/ UNCHANGED accountVars
  BY <1>1 DEF ServicesNext, SessionStep, AccountStep, StrangerStep, PhoneStep, FileStep, ReadStep,
     LoseStep, WriteStep, TextStep, ArrivalStep, NoteStep, allVars
<1>4. /\ part = "reading" => Reading!Next \/ UNCHANGED uiVars
      /\ part = "losing" => Losing!Next \/ UNCHANGED uiVars
      /\ part = "writing" => Writing!Next \/ UNCHANGED uiVars
  BY <1>1 DEF ServicesNext, SessionStep, AccountStep, StrangerStep, PhoneStep, FileStep, ReadStep,
     LoseStep, WriteStep, TextStep, ArrivalStep, NoteStep, Alone, allVars
<1>5. /\ part = "texts" => Texts!Next \/ UNCHANGED phoneVars
      /\ part = "arrivals" => Arrivals!Next \/ UNCHANGED phoneVars
  BY <1>1 DEF ServicesNext, SessionStep, AccountStep, StrangerStep, PhoneStep, FileStep, ReadStep,
     LoseStep, WriteStep, TextStep, ArrivalStep, NoteStep, Alone, allVars
<1>6. UNCHANGED accountVars => UNCHANGED Accounts!vars
  BY DEF accountVars, Accounts!vars
<1>7. UNCHANGED uiVars => UNCHANGED <<Reading!vars, Losing!vars, Writing!vars>>
  BY DEF uiVars, Reading!vars, Reading!daemon, Reading!tab, Reading!lists, Reading!counts,
     Losing!vars, Losing!daemon, Losing!tab, Losing!lists, Losing!counts, Writing!vars,
     Writing!daemon, Writing!tab, Writing!lists, Writing!counts
<1>8. UNCHANGED phoneVars => UNCHANGED <<Texts!vars, Arrivals!vars>>
  BY DEF phoneVars, Texts!vars, Texts!phone, Texts!queues, Texts!arrivals, Texts!others,
     Arrivals!vars, Arrivals!phone, Arrivals!queues, Arrivals!arrivals, Arrivals!others
<1>9. Next \/ UNCHANGED sessionVars
  BY <1>1 DEF ServicesNext, SessionStep, AccountStep, StrangerStep, PhoneStep, FileStep, ReadStep,
     LoseStep, WriteStep, TextStep, ArrivalStep, NoteStep, Alone, allVars
<1>10. Files!Next \/ UNCHANGED fileVars
  BY <1>1 DEF ServicesNext, SessionStep, AccountStep, StrangerStep, PhoneStep, FileStep, ReadStep,
     LoseStep, WriteStep, TextStep, ArrivalStep, NoteStep, Alone, allVars
<1>11. VoiceNotes!Next \/ UNCHANGED noteVars
  BY <1>1 DEF ServicesNext, SessionStep, AccountStep, StrangerStep, PhoneStep, FileStep, ReadStep,
     LoseStep, WriteStep, TextStep, ArrivalStep, NoteStep, Alone, allVars
<1>12. /\ part # "phones" => Strangers!Next \/ UNCHANGED contactVars
       /\ part = "phones" => Phones!Next \/ UNCHANGED contactVars
  BY <1>1 DEF ServicesNext, SessionStep, AccountStep, StrangerStep, PhoneStep, FileStep, ReadStep,
     LoseStep, WriteStep, TextStep, ArrivalStep, NoteStep, Alone, allVars
<1>13. UNCHANGED sessionVars => UNCHANGED vars
  BY DEF sessionVars
<1>14. UNCHANGED fileVars => UNCHANGED Files!vars
  BY DEF fileVars, Files!vars, Files!local, Files!counts
<1>15. UNCHANGED noteVars => UNCHANGED VoiceNotes!vars
  BY DEF noteVars, VoiceNotes!vars, VoiceNotes!session, VoiceNotes!audio, VoiceNotes!button,
     VoiceNotes!sending
<1>16. UNCHANGED contactVars => UNCHANGED <<Strangers!vars, Phones!vars>>
  BY DEF contactVars, Strangers!vars, Strangers!requests, Strangers!keys, Strangers!local,
     Phones!vars, Phones!requests, Phones!keys, Phones!local
<1>17. [Next]_vars /\ [Files!Next]_(Files!vars) /\ [VoiceNotes!Next]_(VoiceNotes!vars)
  BY <1>9, <1>10, <1>11, <1>13, <1>14, <1>15
<1>18. /\ part # "phones" => [Strangers!Next]_(Strangers!vars)
       /\ part = "phones" => [Phones!Next]_(Phones!vars)
  BY <1>12, <1>16
<1>19. QED
  BY <1>2, <1>3, <1>4, <1>5, <1>6, <1>7, <1>8, <1>17, <1>18

LEMMA ServicesInvStep == ASSUME Apart, ServicesInv, [ServicesNext]_allVars PROVE ServicesInv'
<1>1. PartsP!IInv'
  BY SizesHold, StepOfPart, AccountsSame, PartsP!InvStep DEF ServicesInv
<1>2. (part = "reading" => TextsP!UiIInv)'
  BY SizesHold, StepOfPart, ReadingSame, TextsP!UiInvStep DEF ServicesInv
<1>3. (part = "losing" => ArrivalsP!UiIInv)'
  BY SizesHold, StepOfPart, LosingSame, ArrivalsP!UiInvStep DEF ServicesInv
<1>4. (part = "writing" => WritingP!UiIInv)'
  BY SizesHold, StepOfPart, WritingSame, WritingP!UiInvStep DEF ServicesInv
<1>5. (part = "texts" => TextsP!IInv)'
  BY SizesHold, StepOfPart, TextsSame, TextsP!InvStep DEF ServicesInv
<1>6. (part = "arrivals" => ArrivalsP!IInv)'
  BY SizesHold, StepOfPart, ArrivalsSame, ArrivalsP!InvStep DEF ServicesInv
<1>7. IInv'
  <2>1. IInv /\ [Next]_vars
    BY StepOfPart DEF ServicesInv
  <2>2. QED
    BY <2>1, TypesKept, TokenInvKept, SocketKept, RegistryKept DEF IInv
<1>8. (part # "phones" => PartsP!ContactsInv)'
  BY SizesHold, StepOfPart, StrangersSame, PartsP!ContactsInvStep DEF ServicesInv
<1>9. (part = "phones" => PhonesP!ContactsInv)'
  BY SizesHold, StepOfPart, PhonesSame, PhonesP!ContactsInvStep DEF ServicesInv
<1>10. PartsP!FilesInv'
  BY SizesHold, StepOfPart, FilesSame, PartsP!FilesInvStep DEF ServicesInv
<1>11. PartsP!NotesInv'
  BY SizesHold, StepOfPart, NotesSame, PartsP!NotesInvStep DEF ServicesInv
<1>12. QED
  BY <1>1, <1>2, <1>3, <1>4, <1>5, <1>6, <1>7, <1>8, <1>9, <1>10, <1>11 DEF ServicesInv

LEMMA ServicesInvariant == ASSUME Apart PROVE ServicesSpec => []ServicesInv
BY ServicesInitInv, ServicesInvStep, PTL DEF ServicesSpec

-----------------------------------------------------------------------------
(* The theorems.                                                           *)

\* Every part's state has its type, whichever runs.
THEOREM TypesOfServices == ASSUME Apart PROVE ServicesSpec => []ServicesType
<1>1. ASSUME ServicesInv, part \in PartNames PROVE ServicesType
  <2>1. TypeOK /\ Accounts!TypeOK
    BY <1>1, AccountsSame DEF ServicesInv, IInv, PartsP!IInv
  <2>2. part = "strangers" => Strangers!TypeOK
    BY <1>1, StrangersSame DEF ServicesInv, PartsP!ContactsInv
  <2>3. part = "phones" => Phones!TypeOK
    BY <1>1, PhonesSame DEF ServicesInv, PhonesP!ContactsInv
  <2>4. Files!TypeOK /\ VoiceNotes!TypeOK
    BY <1>1, SizesHold, FilesSame, NotesSame, PartsP!FilesImplied, PartsP!NotesImplied DEF
       ServicesInv
  <2>5. /\ part = "reading" => Reading!TypeOK
        /\ part = "losing" => Losing!TypeOK
        /\ part = "writing" => Writing!TypeOK
    BY <1>1, ReadingSame, LosingSame, WritingSame DEF ServicesInv, TextsP!UiIInv,
       ArrivalsP!UiIInv, WritingP!UiIInv
  <2>6. part = "texts" => Texts!TypeOK
    BY <1>1, TextsSame DEF ServicesInv, TextsP!IInv
  <2>7. part = "arrivals" => Arrivals!TypeOK
    BY <1>1, ArrivalsSame DEF ServicesInv, ArrivalsP!IInv
  <2>8. QED
    BY <1>1, <2>1, <2>2, <2>3, <2>4, <2>5, <2>6, <2>7 DEF ServicesType, PartNames
<1>2. ServicesInit => part \in PartNames
  BY DEF ServicesInit, PartNames
<1>3. part \in PartNames /\ [ServicesNext]_allVars => (part \in PartNames)'
  BY StepOfPart
<1>4. QED
  BY <1>1, <1>2, <1>3, ServicesInvariant, PTL DEF ServicesSpec

\* The first message of a session can be opened by its recipient: no one-time prekey is
\* handed out twice (prekeys.ts), among strangers and between phones.
THEOREM FirstOpens == ASSUME Apart PROVE ServicesSpec => []FirstMessageOpens
<1>1. ASSUME ServicesInv PROVE FirstMessageOpens
  <2>1. part = "strangers" => Strangers!FirstMessageOpens
    BY <1>1, SizesHold, StrangersSame, PartsP!OpensImplied DEF ServicesInv
  <2>2. part = "phones" => Phones!FirstMessageOpens
    BY <1>1, SizesHold, PhonesSame, PhonesP!OpensImplied DEF ServicesInv
  <2>3. QED
    BY <2>1, <2>2 DEF FirstMessageOpens
<1>2. QED
  BY <1>1, ServicesInvariant, PTL

\* What a recipient has accepted is not asked again until both sides have confirmed the
\* exchange (conversations.ts, blind-dropbox.ts).
THEOREM DecisionsStand == ASSUME Apart PROVE ServicesSpec => DecisionStands
<1> DEFINE Stands == IF part = "phones" THEN Phones!StandingDecisions
                                         ELSE Strangers!StandingDecisions
<1>1. ASSUME ServicesInv, [ServicesNext]_allVars PROVE Stands
  <2>1. CASE part = "phones"
    BY <1>1, <2>1, SizesHold, StepOfPart, PhonesSame, PhonesP!Standing DEF ServicesInv
  <2>2. CASE part # "phones"
    BY <1>1, <2>2, SizesHold, StepOfPart, StrangersSame, PartsP!Standing DEF ServicesInv
  <2>3. QED
    BY <2>1, <2>2
<1>2. ASSUME ServicesInv, [ServicesNext]_allVars PROVE [Stands]_allVars
  BY <1>1, <1>2
<1>3. QED
  BY <1>2, ServicesInvariant, PTL DEF ServicesSpec, DecisionStands

\* An attachment shown can be opened, and one that is queued can be downloaded
\* (attachments.ts, disappearing.ts).
THEOREM FilesStay == ASSUME Apart PROVE ServicesSpec => []AttachmentsKept
<1>1. ASSUME ServicesInv PROVE AttachmentsKept
  BY <1>1, SizesHold, FilesSame, PartsP!FilesImplied DEF ServicesInv, AttachmentsKept
<1>2. QED
  BY <1>1, ServicesInvariant, PTL

\* A voice note goes to the conversation it was begun in (App.tsx).
THEOREM NotesStay == ASSUME Apart PROVE ServicesSpec => []NotesInPlace
<1>1. ASSUME ServicesInv PROVE NotesInPlace
  BY <1>1, NotesSame, PartsP!NotesImplied DEF ServicesInv, NotesInPlace
<1>2. QED
  BY <1>1, ServicesInvariant, PTL

\* A device and the relay agree on its account, and an account stays with its device
\* and its claim (auth.ts, server.ts), whatever runs beside.
THEOREM AccountsStay == ASSUME Apart PROVE ServicesSpec => AccountsKept
<1>1. ServicesInv => (part = "accounts" => Accounts!AccountsAgree)
  BY AccountsSame DEF ServicesInv, PartsP!IInv
<1>2. ServicesSpec => Accounts!Spec
  <2>1. ServicesInit => Accounts!Init
    BY DEF ServicesInit
  <2>2. [ServicesNext]_allVars => [Accounts!Next]_(Accounts!vars)
    BY StepOfPart
  <2>3. QED
    BY <2>1, <2>2, PTL DEF ServicesSpec, Accounts!Spec
<1>3. Accounts!Spec => PartsP!Spec
  <2>1. Accounts!Init => PartsP!Init
    BY AccountsSame
  <2>2. [Accounts!Next]_(Accounts!vars) => [PartsP!Next]_(PartsP!vars)
    BY AccountsSame
  <2>3. QED
    BY <2>1, <2>2, PTL DEF Accounts!Spec, PartsP!Spec
<1>4. PartsP!Spec => PartsP!AccountIsKept
  BY SizesHold, PartsP!Stays
<1>5. PartsP!AccountIsKept => Accounts!AccountIsKept
  BY PTL DEF Accounts!AccountIsKept, PartsP!AccountIsKept, Accounts!vars, PartsP!vars
<1>6. QED
  BY <1>1, <1>2, <1>3, <1>4, <1>5, ServicesInvariant, PTL DEF AccountsKept

\* The screen of a tab shows nothing of another vault than the one that is open
\* (App.tsx), when it reads, when an answer is lost and when the user writes.
THEOREM ScreenIsOwn == ASSUME Apart PROVE ServicesSpec => []ScreenBelongs
<1>1. ASSUME ServicesInv PROVE ScreenBelongs
  <2>1. part = "reading" => Reading!ScreenBelongs
    BY <1>1, ReadingSame, SizesHold, TextsP!Implied DEF ServicesInv
  <2>2. part = "losing" => Losing!ScreenBelongs
    BY <1>1, LosingSame, SizesHold, ArrivalsP!Implied DEF ServicesInv
  <2>3. part = "writing" => Writing!ScreenBelongs
    BY <1>1, WritingSame, SizesHold, WritingP!Implied DEF ServicesInv
  <2>4. QED
    BY <2>1, <2>2, <2>3 DEF ScreenBelongs
<1>2. QED
  BY <1>1, ServicesInvariant, PTL

\* The texts of a phone leave it in the order they were written (NativeEngine.java).
THEOREM TextsInOrder == ASSUME Apart PROVE ServicesSpec => []LeavesInOrder
<1>1. ASSUME ServicesInv PROVE LeavesInOrder
  <2>1. part = "texts" => Texts!LeavesInOrder
    BY <1>1, TextsSame, TextsP!OrderImplied DEF ServicesInv, TextsP!IInv
  <2>2. part = "arrivals" => Arrivals!LeavesInOrder
    BY <1>1, ArrivalsSame, ArrivalsP!OrderImplied DEF ServicesInv, ArrivalsP!IInv
  <2>3. QED
    BY <2>1, <2>2 DEF LeavesInOrder
<1>2. QED
  BY <1>1, ServicesInvariant, PTL

\* A message that reaches a phone twice is shown once, and its receipt is not forgotten
\* (NativeEngine.java, consumeIncoming).
THEOREM ArrivalsOnce == ASSUME Apart PROVE ServicesSpec => []ShownOnce
<1>1. ServicesInv => ShownOnce
  BY ArrivalsSame DEF ServicesInv, ArrivalsP!IInv, ShownOnce
<1>2. QED
  BY <1>1, ServicesInvariant, PTL

\* The relay is asked only by a phone that is open, in a mode that allows it
\* (NativeEngine.java, relayFallback).
THEOREM RelayIfAllowed == ASSUME Apart PROVE ServicesSpec => RelayOnlyIfAllowed
<1> DEFINE Rightly == IF part = "arrivals" THEN Arrivals!AskedRightly ELSE Texts!AskedRightly
<1>1. ASSUME ServicesInv, [ServicesNext]_allVars PROVE Rightly
  <2>1. CASE part = "arrivals"
    BY <1>1, <2>1, SizesHold, StepOfPart, ArrivalsSame, ArrivalsP!Asked DEF ServicesInv
  <2>2. CASE part = "texts"
    BY <1>1, <2>2, SizesHold, StepOfPart, TextsSame, TextsP!Asked DEF ServicesInv
  <2>3. CASE part \notin {"arrivals", "texts"}
    <3>1. attempts' = attempts
      BY <1>1, <2>3 DEF ServicesNext, SessionStep, AccountStep, StrangerStep, PhoneStep, FileStep,
         ReadStep, LoseStep, WriteStep, TextStep, ArrivalStep, NoteStep, Alone, allVars, phoneVars
    <3>2. QED
      BY <2>3, <3>1 DEF Texts!AskedRightly
  <2>4. QED
    BY <2>1, <2>2, <2>3
<1>2. ASSUME ServicesInv, [ServicesNext]_allVars PROVE [Rightly]_allVars
  BY <1>1, <1>2
<1>3. QED
  BY <1>2, ServicesInvariant, PTL DEF ServicesSpec, RelayOnlyIfAllowed
=============================================================================
