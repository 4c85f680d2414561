--------------------------- MODULE PhoneMessaging ---------------------------
(***************************************************************************)
(* Messages of the native Android client: NativeEngine.java with its onion *)
(* transport, TorOnionTransport.java.                                      *)
(*                                                                         *)
(* A request of the user, a tick of the timer and an envelope that arrives *)
(* over the onion service take the engine's monitor one after another.  An *)
(* attempt to deliver an envelope runs outside it: a task in the pool of   *)
(* the transport it was given to, in hybrid mode then a request to the     *)
(* relay, and at last a step that takes the monitor.  Meanwhile the user   *)
(* may lock, change the mode, or the transport may end; the attempt has    *)
(* kept the vault, the transport and the epoch it began with.              *)
(*                                                                         *)
(* The phone has one peer, which accepts what reaches it and sends each    *)
(* envelope over the onion service, the relay or both, any number of       *)
(* times.                                                                  *)
(***************************************************************************)
EXTENDS Naturals, Sequences, FiniteSets

CONSTANTS
  Text,         \* messages of the user
  Reported,     \* those the peer sends receipts for
  Incoming,     \* messages of the peer
  MaxTors,      \* bound on transports started
  MaxStops,     \* bound on locks and changes of mode
  MaxFaults     \* bound on transports that end, requests that fail or lose answers, and copies

VARIABLES
  mode,       \* transportMode
  open,       \* the vault is unlocked, and not locked with a PIN
  session,    \* the NativeVault: another one after every unlock
  epoch,      \* transportEpoch
  tor,        \* the transport: its number, 0 when there is none
  live,       \* it has a circuit
  held,       \* torJobs: envelopes an attempt was made for
  attempts,   \* attempts that run
  outbox,     \* message_outbox: texts in the order they were sent
  controls,   \* control_outbox: receipts in the order they were queued
  status,     \* messages.status of a text
  inbox,      \* tor_inbox: what arrived over the onion service
  mailbox,    \* what the relay holds for the phone
  processed,  \* processed_envelope_ids
  shown,      \* the rows of a message of the peer
  peerHas,    \* what the peer has accepted
  relayHas,   \* what the relay has accepted for the peer
  sent,       \* history: the texts in the order the user sent them
  tors, faults

phone == <<mode, open, session, epoch, tor, live, tors>>
queues == <<outbox, controls, status>>
arrivals == <<inbox, mailbox, processed, shown>>
others == <<peerHas, relayHas>>
vars == <<phone, held, attempts, queues, arrivals, others, sent, faults>>

Mode == {"DIRECT_TOR_P2P", "HYBRID_TOR_RELAY", "RELAY_ONLY"}
Receipt == [of : Incoming]
Outgoing == Text \union Receipt
\* A receipt of the peer: it names the text it has stored.
Arrival == Incoming \union [of : Reported]
Attempt == [id : Outgoing, tor : 0 .. MaxTors, hybrid : BOOLEAN, session : 0 .. MaxStops,
            epoch : 0 .. MaxStops, at : {"queued", "sent", "accepted", "failed", "posting", "posted",
                               "refused"}]
ToSet(s) == {s[i] : i \in DOMAIN s}
\* The row of an envelope is deleted; its id is the key of its table.
Without(s, x) ==
  IF x \notin ToSet(s) THEN s
  ELSE LET i == CHOOSE j \in DOMAIN s : s[j] = x
       IN SubSeq(s, 1, i - 1) \o SubSeq(s, i + 1, Len(s))

TypeOK ==
  /\ mode \in Mode /\ open \in BOOLEAN /\ session \in 0 .. MaxStops /\ epoch \in 0 .. MaxStops
  /\ tor \in 0 .. MaxTors /\ tors \in tor .. MaxTors /\ live \in BOOLEAN
  /\ held \subseteq Outgoing /\ attempts \subseteq Attempt
  /\ outbox \in Seq(Text) /\ sent \in Seq(Text) /\ controls \in Seq(Receipt)
  /\ status \in [Text -> {"none", "queued", "sent", "delivered"}]
  /\ inbox \union mailbox \union processed \subseteq Arrival
  /\ shown \in [Incoming -> Nat]
  /\ peerHas \union relayHas \subseteq Outgoing
  /\ faults \in 0 .. MaxFaults
  /\ live => open /\ tor # 0
  /\ {x.id : x \in attempts} \subseteq held
  /\ \A x, y \in attempts : x.id = y.id => x = y

Init ==
  /\ mode \in {"DIRECT_TOR_P2P", "HYBRID_TOR_RELAY"}
  /\ open = TRUE /\ session = 0 /\ epoch = 0
  /\ tor = 1 /\ tors = 1 /\ live = TRUE
  /\ held = {} /\ attempts = {}
  /\ outbox = <<>> /\ controls = <<>> /\ status = [m \in Text |-> "none"]
  /\ inbox = {} /\ mailbox = {} /\ processed = {} /\ shown = [m \in Incoming |-> 0]
  /\ peerHas = {} /\ relayHas = {}
  /\ sent = <<>> /\ faults = 0

Fault == faults < MaxFaults /\ faults' = faults + 1

-----------------------------------------------------------------------------
(* The transport.                                                          *)

\* close: what waits in the pool is dropped and never completes, what runs fails.
Closed(xs, t) ==
  {IF x.tor = t /\ x.at = "sent" THEN [x EXCEPT !.at = "failed"] ELSE x
     : x \in {y \in xs : ~(y.tor = t /\ y.at = "queued")}}

\* stopDirect: the epoch ends, and with it every attempt's leave to ask the relay.
FaultyEpochAfterStop == epoch
EpochAfterStop == epoch + 1
StopDirect ==
  /\ epoch' = EpochAfterStop
  /\ tor' = 0 /\ live' = FALSE
  /\ attempts' = (IF tor = 0 THEN attempts ELSE Closed(attempts, tor))

\* ensureTor, by a tick or the next request.
StartTor ==
  /\ open /\ mode # "RELAY_ONLY" /\ tor = 0 /\ tors < MaxTors
  /\ tor' = tors + 1 /\ tors' = tors + 1
  /\ UNCHANGED <<mode, open, session, epoch, live, held, attempts, queues, arrivals,
                 others, sent, faults>>

TorReady ==
  /\ tor # 0 /\ ~live
  /\ live' = TRUE
  /\ UNCHANGED <<mode, open, session, epoch, tor, tors, held, attempts, queues, arrivals,
                 others, sent, faults>>

\* Its process or its control connection ends: it is stopped, and another one is started.
TorEnds ==
  /\ tor # 0 /\ Fault
  /\ tor' = 0 /\ live' = FALSE
  /\ attempts' = Closed(attempts, tor)
  /\ UNCHANGED <<mode, open, session, epoch, tors, held, queues, arrivals, others, sent>>

\* networkChanged: the sockets of running requests are closed.
NetworkChanges ==
  /\ live /\ Fault
  /\ \E x \in attempts : x.at = "sent"
  /\ attempts' = {IF x.at = "sent" THEN [x EXCEPT !.at = "failed"] ELSE x : x \in attempts}
  /\ UNCHANGED <<phone, held, queues, arrivals, others, sent>>

SetMode(m) ==
  /\ open /\ epoch < MaxStops /\ m # mode
  /\ mode' = m
  /\ StopDirect
  /\ UNCHANGED <<open, session, tors, held, queues, arrivals, others, sent, faults>>

\* With the password or with a PIN.
Lock ==
  /\ open /\ epoch < MaxStops
  /\ open' = FALSE
  /\ StopDirect
  /\ UNCHANGED <<mode, session, tors, held, queues, arrivals, others, sent, faults>>

\* With the PIN the vault is the same one.
Unlock ==
  /\ ~open
  /\ open' = TRUE
  /\ session' \in {session, session + 1}
  /\ UNCHANGED <<mode, epoch, tor, live, tors, held, attempts, queues, arrivals, others,
                 sent, faults>>

-----------------------------------------------------------------------------
(* Delivery.                                                               *)

\* sendPersisted, when the mode has Tor: one attempt for an envelope, and it stays queued.
Begun(id) ==
  [id |-> id, tor |-> tor, hybrid |-> mode = "HYBRID_TOR_RELAY",
   session |-> session, epoch |-> epoch, at |-> IF live THEN "queued" ELSE "failed"]
MayBegin(id) == tor # 0 /\ (live \/ mode = "HYBRID_TOR_RELAY") /\ id \notin held

\* The first that is refused ends a flush: nothing overtakes it.
FaultyHeads(q) == {i \in 1 .. 2 : i <= Len(q)}
Heads(q) == {i \in {1} : i <= Len(q)}

\* A flush of one queue over Tor.
TryDirect(q) ==
  LET ids == {q[i] : i \in {j \in Heads(q) : MayBegin(q[j])}}
  IN /\ held' = held \union ids
     /\ attempts' = attempts \union {Begun(id) : id \in ids}

First(q, n) == {q[i] : i \in 1 .. n}

\* Or by the relay: it accepts the first n; one more perhaps, if its answer is lost.
FlushTexts(q) ==
  IF mode # "RELAY_ONLY"
    THEN /\ TryDirect(q)
         /\ outbox' = q
         /\ UNCHANGED <<relayHas, faults>>
    ELSE \E n \in 0 .. Len(q) :
           /\ outbox' = SubSeq(q, n + 1, Len(q))
           /\ \/ n = Len(q) /\ relayHas' = relayHas \union First(q, n) /\ UNCHANGED faults
              \/ /\ n < Len(q) /\ Fault
                 /\ relayHas' \in {relayHas \union First(q, k) : k \in n .. n + 1}
           /\ UNCHANGED <<held, attempts>>

\* What the flush has delivered is 'sent', whatever it was.
StatusAfterFlush(q) ==
  [m \in Text |-> IF m \in ToSet(q) \ ToSet(outbox') THEN "sent"
                  ELSE IF m \in ToSet(q) /\ status[m] = "none" THEN "queued"
                  ELSE status[m]]

\* The ciphertext is made and queued in one transaction, and the queue is flushed.
Send(m) ==
  /\ open /\ status[m] = "none"
  /\ sent' = Append(sent, m)
  /\ FlushTexts(Append(outbox, m))
  /\ status' = StatusAfterFlush(Append(outbox, m))
  /\ UNCHANGED <<phone, controls, arrivals, peerHas>>

\* flushControls, on the background thread.
FlushControls ==
  /\ open /\ controls # <<>>
  /\ IF mode # "RELAY_ONLY"
       THEN TryDirect(controls) /\ UNCHANGED <<controls, relayHas, faults>>
       ELSE /\ relayHas' = relayHas \union {Head(controls)}
            /\ \/ controls' = Tail(controls) /\ UNCHANGED faults
               \/ Fault /\ UNCHANGED controls
            /\ UNCHANGED <<held, attempts>>
  /\ UNCHANGED <<phone, outbox, status, arrivals, peerHas, sent>>

\* A thread of the pool takes the task and signs the request.
Transmit(x) ==
  /\ x.at = "queued"
  /\ attempts' = (attempts \ {x}) \union {[x EXCEPT !.at = "sent"]}
  /\ UNCHANGED <<phone, held, queues, arrivals, others, sent, faults>>

PeerAccepts(x) ==
  /\ x.at = "sent"
  /\ peerHas' = peerHas \union {x.id}
  /\ \/ attempts' = (attempts \ {x}) \union {[x EXCEPT !.at = "accepted"]} /\ UNCHANGED faults
     \/ attempts' = (attempts \ {x}) \union {[x EXCEPT !.at = "failed"]} /\ Fault
  /\ UNCHANGED <<phone, held, queues, arrivals, relayHas, sent>>

PeerIsAway(x) ==
  /\ x.at = "sent" /\ Fault
  /\ attempts' = (attempts \ {x}) \union {[x EXCEPT !.at = "failed"]}
  /\ UNCHANGED <<phone, held, queues, arrivals, others, sent>>

\* relayFallback: what is to be posted is read under the monitor.
FallBack(x) ==
  /\ x.at = "failed" /\ x.hybrid
  /\ attempts' = (attempts \ {x}) \union
       {[x EXCEPT !.at = IF open /\ session = x.session /\ epoch = x.epoch
                            /\ mode = "HYBRID_TOR_RELAY"
                         THEN "posting" ELSE "refused"]}
  /\ UNCHANGED <<phone, held, queues, arrivals, others, sent, faults>>

\* Before each request, outside the monitor, only the epoch is asked.
Post(x) ==
  /\ x.at = "posting"
  /\ attempts' = (attempts \ {x}) \union
       {[x EXCEPT !.at = IF epoch = x.epoch THEN "posted" ELSE "refused"]}
  /\ UNCHANGED <<phone, held, queues, arrivals, others, sent, faults>>

RelayAccepts(x) ==
  /\ x.at = "posted"
  /\ relayHas' = relayHas \union {x.id}
  /\ \/ attempts' = (attempts \ {x}) \union {[x EXCEPT !.at = "accepted"]} /\ UNCHANGED faults
     \/ attempts' = (attempts \ {x}) \union {[x EXCEPT !.at = "refused"]} /\ Fault
  /\ UNCHANGED <<phone, held, queues, arrivals, peerHas, sent>>

\* The attempt takes the monitor: an accepted envelope leaves the queue, if vault and
\* transport are those it began with.
Counts(x) == x.at = "accepted" /\ open /\ session = x.session /\ tor = x.tor

Complete(x) ==
  /\ x.at \in {"accepted", "refused"} \/ (x.at = "failed" /\ ~x.hybrid)
  /\ attempts' = attempts \ {x}
  /\ held' = held \ {x.id}
  /\ IF Counts(x)
       THEN /\ outbox' = Without(outbox, x.id)
            /\ controls' = Without(controls, x.id)
            /\ status' = [m \in Text |-> IF m = x.id /\ status[m] = "queued" THEN "sent"
                                         ELSE status[m]]
       ELSE UNCHANGED queues
  /\ UNCHANGED <<phone, arrivals, others, sent, faults>>

-----------------------------------------------------------------------------
(* Arrivals.                                                               *)

\* An envelope of the peer: a message, or the receipt of a text it has.
PeerSends(e) ==
  /\ IF e \in Incoming THEN TRUE ELSE e.of \in peerHas \union relayHas
  /\ IF e \in inbox \union mailbox \union processed THEN Fault ELSE UNCHANGED faults
  /\ \/ /\ live /\ open /\ e \notin inbox
        /\ inbox' = inbox \union {e} /\ UNCHANGED mailbox
     \/ /\ e \notin mailbox
        /\ mailbox' = mailbox \union {e} /\ UNCHANGED inbox
  /\ UNCHANGED <<phone, held, attempts, queues, processed, shown, others, sent>>

\* consumeIncoming: what was processed before is acknowledged again, and no more.
FaultyFresh(es) == es
Fresh(es) == es \ processed

Consume(es) ==
  LET new == Fresh(es)
      receipts == {[of |-> e] : e \in new \cap Incoming}
  IN /\ processed' = processed \union es
     /\ shown' = [e \in Incoming |-> shown[e] + IF e \in new THEN 1 ELSE 0]
     /\ \E order \in [1 .. Cardinality(receipts) -> receipts] :
          /\ ToSet(order) = receipts
          /\ controls' = controls \o order
     /\ status' = [m \in Text |->
                     IF [of |-> m] \in new /\ StatusAfterFlush(outbox)[m] \in {"queued", "sent"}
                     THEN "delivered" ELSE StatusAfterFlush(outbox)[m]]

\* sync, of a tick or of the user: flush, then fetch, consume and acknowledge.  The
\* relay is asked only when the onion service has brought nothing.  An acknowledgement
\* of the relay's may be lost.
Sync ==
  /\ open /\ (mode = "DIRECT_TOR_P2P" => live)
  /\ FlushTexts(outbox)
  /\ \/ /\ inbox # {}
        /\ Consume(inbox)
        /\ inbox' = {} /\ UNCHANGED mailbox
     \/ /\ inbox = {} /\ mode # "DIRECT_TOR_P2P"
        /\ Consume(mailbox)
        /\ mailbox' \in {mailbox, {}} /\ UNCHANGED inbox
     \/ /\ status' = StatusAfterFlush(outbox)
        /\ UNCHANGED <<controls, arrivals>>
  /\ UNCHANGED <<phone, peerHas, sent>>

-----------------------------------------------------------------------------
Next ==
  \/ StartTor \/ TorReady \/ TorEnds \/ NetworkChanges
  \/ Lock \/ Unlock \/ \E m \in Mode : SetMode(m)
  \/ \E m \in Text : Send(m)
  \/ FlushControls \/ Sync
  \/ \E x \in attempts :
       \/ Transmit(x) \/ PeerAccepts(x) \/ PeerIsAway(x)
       \/ FallBack(x) \/ Post(x) \/ RelayAccepts(x) \/ Complete(x)
  \/ \E e \in Arrival : PeerSends(e)

Spec == Init /\ [][Next]_vars

-----------------------------------------------------------------------------
(* Properties.                                                             *)
Accepted == peerHas \union relayHas

\* Texts leave the phone in the order they were written, whatever attempts of an
\* earlier session, transport or mode still run; and none leaves the queue before the
\* peer or the relay has it.
LeavesInOrder ==
  \A i \in DOMAIN sent :
    /\ sent[i] \in Accepted => \A j \in 1 .. i : sent[j] \in Accepted
    /\ sent[i] \in Accepted \union ToSet(outbox)

\* A request to the relay begins only while the vault is open in hybrid mode: a user
\* who locks or chooses the direct mode ends every attempt's leave to ask it.
AskedRightly ==
  \A x \in attempts' \ attempts : x.at = "posted" => open /\ mode = "HYBRID_TOR_RELAY"
RelayOnlyIfAllowed == [][AskedRightly]_vars

\* An envelope is held back only while an attempt for it runs, and is tried again after
\* that: 'Durable queues retry on the next tick.' (NativeEngine.java:112).
HeldIsRunning == held = {x.id : x \in attempts}

\* A message of the peer is shown once, however often and by whatever way it comes, and
\* its receipt is queued until the peer or the relay has it.
ShownOnce ==
  \A e \in Incoming :
    /\ shown[e] <= 1
    /\ (shown[e] = 1) = (e \in processed)
    /\ e \in processed => [of |-> e] \in ToSet(controls) \union Accepted
=============================================================================
