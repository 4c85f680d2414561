----------------------------- MODULE TorRouting -----------------------------
(***************************************************************************)
(* Text messages and delivery receipts when a daemon routes through onion  *)
(* services, with the relay as a fallback (hybrid mode) or without it      *)
(* (direct mode): apps/local-daemon/src/tor-routing.ts under the job of    *)
(* server.ts that retries the queues, and the receiving half of            *)
(* tor-transport.ts.                                                       *)
(*                                                                         *)
(* TorRouting answers a send at once with 503 and does the work in a       *)
(* background task, outside the daemon's request queue: the other device   *)
(* is asked over Tor, then perhaps the relay, and only when one of them    *)
(* accepted does the task enter the request queue to take the row out of   *)
(* its outbox.  Vaults are locked, modes are changed and transports break  *)
(* while tasks run.                                                        *)
(***************************************************************************)
EXTENDS Naturals, Sequences, FiniteSets, Envelopes

CONSTANTS
  Peers,       \* <<d, p>>: device d holds the onion address of p (peer_onions)
  Away,        \* devices whose onion service never answers
  Registered,  \* devices the relay has accounts for
  Modes,       \* sets of devices that may begin in hybrid mode
  MaxFaults,   \* bound on lost answers, failed steps, broken transports, crashes
  MaxChanges   \* bound on locks and changes of mode

ASSUME RoutingAssumption ==
  /\ Peers \subseteq Device \X Device
  /\ Away \subseteq Device
  /\ Registered \subseteq Device
  /\ Modes \subseteq SUBSET Device
  /\ MaxFaults \in Nat
  /\ MaxChanges \in Nat

PhaseName == {"sync", "process", "ack", "flush", "controls"}

\* A background task.  at: waiting for the peer, the peer's answer on its way,
\* waiting to prepare the fallback, fallback prepared, posted to the relay,
\* accepted by one of them.  linked: the transport and the database handle it
\* began with are still the daemon's.  inSession: torGeneration is what it was
\* when the fallback was prepared.  alive: somebody waits for its answer; a
\* request nobody waits for may still arrive.
TaskPoint == {"tor", "answer", "prepare", "prepared", "posted", "accepted"}
Task == [of : Envelope, at : TaskPoint,
         linked : BOOLEAN, inSession : BOOLEAN, alive : BOOLEAN]

TorState == {"none", "starting", "up", "stopped"}

VARIABLES
  status,    \* messages.status of the sender's row of a message
  rowid,     \* insertion order of an envelope's row among its device's rows
  clock,     \* the last rowid a device has given
  outbox,    \* message_outbox rows
  controls,  \* control_outbox rows
  copies,    \* how many rows of table messages the recipient has of a message
  seen,      \* seen_envelope_ids rows
  inbox,     \* tor_inbox rows
  mailbox,   \* rows of the relay's table messages
  open,      \* devices whose vault is unlocked
  hybrid,    \* devices in HYBRID_TOR_RELAY mode, the others in DIRECT_TOR_P2P
  tor,       \* the transport of a daemon
  job,       \* the phases a daemon has still to run, the current one first
  page,      \* envelopes the running sync has still to process
  acks,      \* envelopes the running sync will acknowledge
  tasks,     \* background tasks
  faults,    \* faults so far
  changes    \* locks and changes of mode so far

rows     == <<status, rowid, clock, outbox, controls>>
received == <<copies, seen>>
transit  == <<inbox, mailbox>>
daemon   == <<open, hybrid, tor>>
running  == <<job, page, acks>>
bounds   == <<faults, changes>>
vars     == <<rows, received, transit, daemon, running, tasks, bounds>>

TypeOK ==
  /\ status \in [Msg -> {Unsent, "queued", "sent", "delivered"}]
  /\ rowid \in [Envelope -> Nat]
  /\ clock \in [Device -> Nat]
  /\ outbox \subseteq Envelope
  /\ controls \subseteq Envelope
  /\ copies \in [Msg -> Nat]
  /\ seen \subseteq Envelope
  /\ inbox \subseteq Envelope
  /\ mailbox \subseteq Envelope
  /\ open \subseteq Device
  /\ hybrid \subseteq Device
  /\ tor \in [Device -> TorState]
  /\ job \in [Device -> Seq(PhaseName)]
  /\ page \in [Device -> SUBSET Envelope]
  /\ acks \in [Device -> SUBSET Envelope]
  /\ tasks \subseteq Task
  /\ faults \in Nat
  /\ changes \in Nat

Init ==
  /\ status = [m \in Msg |-> Unsent]
  /\ rowid = [e \in Envelope |-> 0]
  /\ clock = [d \in Device |-> 0]
  /\ outbox = {}
  /\ controls = {}
  /\ copies = [m \in Msg |-> 0]
  /\ seen = {}
  /\ inbox = {}
  /\ mailbox = {}
  /\ open = Device
  /\ hybrid \in Modes
  /\ tor = [d \in Device |-> "none"]
  /\ job = [d \in Device |-> <<>>]
  /\ page = [d \in Device |-> {}]
  /\ acks = [d \in Device |-> {}]
  /\ tasks = {}
  /\ faults = 0
  /\ changes = 0

-----------------------------------------------------------------------------
(* Helpers.                                                                *)

Idle(d) == job[d] = <<>>
InPhase(d, phases) == job[d] # <<>> /\ Head(job[d]) \in phases
EndPhase(d) == job' = [job EXCEPT ![d] = Tail(@)]
AbortJob(d) ==
  /\ job' = [job EXCEPT ![d] = <<>>]
  /\ page' = [page EXCEPT ![d] = {}]
  /\ acks' = [acks EXCEPT ![d] = {}]

Queue(d) ==
  {e \in (IF Head(job[d]) = "flush" THEN outbox ELSE controls) : Origin(e) = d}
Oldest(S) == {e \in S : \A x \in S : rowid[e] <= rowid[x]}
Write(d, e) ==
  /\ clock' = [clock EXCEPT ![d] = @ + 1]
  /\ rowid' = [rowid EXCEPT ![e] = clock[d] + 1]

TorUp(d) == tor[d] = "up"
SetTor(d, state) == tor' = [tor EXCEPT ![d] = state]

Fault == faults < MaxFaults /\ faults' = faults + 1
Change == changes < MaxChanges /\ changes' = changes + 1

\* A task of the running process is at this point; step it, or end it.
At(t, point) == t \in tasks /\ t.alive /\ t.at = point
StepTask(t, point) == tasks' = (tasks \ {t}) \union {[t EXCEPT !.at = point]}
EndTask(t) == tasks' = tasks \ {t}

\* A request given up by its task may still arrive.
AbandonTask(t) == tasks' = (tasks \ {t}) \union {[t EXCEPT !.alive = FALSE]}

\* The check a task makes when it comes back to the daemon: the same database,
\* the same transport, and that not stopped.
SameLink(t) ==
  Origin(t.of) \in open /\ t.linked /\ tor[Origin(t.of)] # "stopped"

\* The tasks of a daemon when its transport or its database is another one.
Unlinked(d) ==
  {[t EXCEPT !.linked = @ /\ Origin(t.of) # d] : t \in tasks}
\* stopTor: a new session as well.
StopTor(d) ==
  tasks' = {[t EXCEPT !.linked = @ /\ Origin(t.of) # d,
                      !.inSession = @ /\ Origin(t.of) # d] : t \in tasks}

-----------------------------------------------------------------------------
(* The jobs of a daemon, one at a time.                                    *)

\* sendMessage: row and outbox row are committed, then the outbox is flushed.
Send(d, m) ==
  /\ Idle(d)
  /\ d \in open
  /\ From[m] = d
  /\ status[m] = Unsent
  /\ status' = [status EXCEPT ![m] = "queued"]
  /\ outbox' = outbox \union {Text(m)}
  /\ Write(d, Text(m))
  /\ job' = [job EXCEPT ![d] = <<"flush">>]
  /\ UNCHANGED <<controls, received, transit, daemon, page, acks, tasks, bounds>>

\* ensureTor: a transport is created when there is none, or a stopped one.
EnsureTor(d) ==
  IF tor[d] \in {"starting", "up"}
    THEN UNCHANGED <<tor, tasks>>
    ELSE SetTor(d, "starting") /\ tasks' = Unlinked(d)

\* retryTorQueues: every five seconds and when Tor has come up.
Retry(d) ==
  /\ Idle(d)
  /\ d \in open
  /\ EnsureTor(d)
  /\ job' = [job EXCEPT ![d] = <<"sync", "flush", "controls">>]
  /\ UNCHANGED <<rows, received, transit, open, hybrid, page, acks, bounds>>

\* The same within 30 seconds of a start that failed: none is tried.
RetryWithoutTor(d) ==
  /\ Idle(d)
  /\ d \in open
  /\ tor[d] \in {"none", "stopped"}
  /\ Fault
  /\ SetTor(d, "none")
  /\ tasks' = IF tor[d] = "stopped" THEN Unlinked(d) ELSE tasks
  /\ job' = [job EXCEPT ![d] = <<"sync", "flush", "controls">>]
  /\ UNCHANGED <<rows, received, transit, open, hybrid, page, acks, changes>>

-----------------------------------------------------------------------------
(* Sending.  The route of /api/messages/send.                              *)

\* A task is started for an envelope when its peer's onion address is known
\* and Tor is up, and always in hybrid mode.
Routable(d, e) == (<<d, Target(e)>> \in Peers /\ TorUp(d)) \/ d \in hybrid
TaskOf(e) == \E t \in tasks : t.alive /\ t.of = e

\* The oldest row is looked at; the answer is 503 and ends the phase, whether or
\* not a task was started.
StartTask(d) ==
  /\ InPhase(d, {"flush", "controls"})
  /\ \E e \in Oldest(Queue(d)) :
       /\ Routable(d, e)
       /\ ~TaskOf(e)
       /\ tasks' = tasks \union {[of |-> e, at |-> "tor", linked |-> TRUE,
                                  inSession |-> TRUE, alive |-> TRUE]}
  /\ EndPhase(d)
  /\ UNCHANGED <<rows, received, transit, daemon, page, acks, bounds>>

HoldBack(d) ==
  /\ InPhase(d, {"flush", "controls"})
  /\ \E e \in Oldest(Queue(d)) : TaskOf(e) \/ ~Routable(d, e)
  /\ EndPhase(d)
  /\ UNCHANGED <<rows, received, transit, daemon, page, acks, tasks, bounds>>

QueueEmpty(d) ==
  /\ InPhase(d, {"flush", "controls"})
  /\ Queue(d) = {}
  /\ EndPhase(d)
  /\ UNCHANGED <<rows, received, transit, daemon, page, acks, tasks, bounds>>

-----------------------------------------------------------------------------
(* Background tasks.                                                       *)

\* The peer can be asked, and knows who asks.
Reachable(t) ==
  LET d == Origin(t.of)
      p == Target(t.of) IN
  /\ <<d, p>> \in Peers /\ <<p, d>> \in Peers
  /\ t.linked /\ TorUp(d)
  /\ TorUp(p) /\ p \in open /\ p \notin Away

\* receive: between the peer's own jobs, INSERT OR IGNORE INTO tor_inbox.
TorReceive(t) ==
  /\ t \in tasks
  /\ t.at = "tor"
  /\ Reachable(t) \/ ~t.alive
  /\ Target(t.of) \in open /\ TorUp(Target(t.of))
  /\ Idle(Target(t.of))
  /\ inbox' = inbox \union {t.of}
  /\ IF t.alive THEN StepTask(t, "answer") ELSE EndTask(t)
  /\ UNCHANGED <<rows, received, mailbox, daemon, running, bounds>>

\* {"accepted": true}: the task goes on to its end.
TorAnswer(t) ==
  /\ At(t, "answer")
  /\ t.linked /\ TorUp(Origin(t.of))
  /\ StepTask(t, "accepted")
  /\ UNCHANGED <<rows, received, transit, daemon, running, bounds>>

\* Faulty variant: the row is taken for accepted otherwise.
FallBackForgets(t) ==
  IF Origin(t.of) \in hybrid THEN StepTask(t, "prepare") ELSE StepTask(t, "accepted")
\* Hybrid mode falls back on the relay; the row is left as it is otherwise.
FallBack(t) ==
  IF Origin(t.of) \in hybrid THEN StepTask(t, "prepare") ELSE EndTask(t)

\* The peer cannot be reached or the transport was closed.
TorFail(t) ==
  /\ At(t, "tor") \/ At(t, "answer")
  /\ ~Reachable(t)
  /\ FallBack(t)
  /\ UNCHANGED <<rows, received, transit, daemon, running, bounds>>

\* No answer from a peer that can be reached: lost, refused or slow.
TorLost(t) ==
  /\ At(t, "tor") \/ At(t, "answer")
  /\ Reachable(t)
  /\ Fault
  /\ \/ FallBack(t)
     \/ /\ t.at = "tor" /\ Origin(t.of) \in hybrid
        /\ tasks' = (tasks \ {t}) \union
             {[t EXCEPT !.at = "prepare"], [t EXCEPT !.alive = FALSE]}
     \/ t.at = "tor" /\ Origin(t.of) \notin hybrid /\ AbandonTask(t)
  /\ UNCHANGED <<rows, received, transit, daemon, running, changes>>

\* Between the daemon's jobs: the relay request is made ready, if it is still
\* the same transport and database, the mode still hybrid, and the relay knows
\* the device.
Prepare(t) ==
  /\ At(t, "prepare")
  /\ Idle(Origin(t.of))
  /\ IF SameLink(t) /\ Origin(t.of) \in hybrid \intersect Registered
       THEN tasks' = (tasks \ {t}) \union
              {[t EXCEPT !.at = "prepared", !.inSession = TRUE]}
       ELSE EndTask(t)
  /\ UNCHANGED <<rows, received, transit, daemon, running, bounds>>

\* Faulty variant: the prepared request is made without looking at the session.
PostAnyway(t) ==
  /\ At(t, "prepared")
  /\ StepTask(t, "posted")
  /\ UNCHANGED <<rows, received, transit, daemon, running, bounds>>

Post(t) ==
  /\ At(t, "prepared")
  /\ IF t.inSession THEN StepTask(t, "posted") ELSE EndTask(t)
  /\ UNCHANGED <<rows, received, transit, daemon, running, bounds>>

\* The relay stores the envelope; its answer may be lost.
RelayTakes(t) ==
  /\ t \in tasks
  /\ t.at = "posted"
  /\ Target(t.of) \in Registered
  /\ mailbox' = mailbox \union {t.of}
  /\ \/ t.alive /\ StepTask(t, "accepted") /\ UNCHANGED faults
     \/ t.alive /\ EndTask(t) /\ Fault
     \/ ~t.alive /\ EndTask(t) /\ UNCHANGED faults
  /\ UNCHANGED <<rows, received, inbox, daemon, running, changes>>

RelayRefuses(t) ==
  /\ At(t, "posted")
  /\ \/ Target(t.of) \notin Registered /\ EndTask(t) /\ UNCHANGED faults
     \/ Target(t.of) \in Registered /\ Fault /\ (EndTask(t) \/ AbandonTask(t))
  /\ UNCHANGED <<rows, received, transit, daemon, running, changes>>

\* Faulty variants: the answer's word is stored, a receipt that came first is
\* overwritten.
MarkAcceptedVerbatim(e) ==
  status' = IF e.kind = "text" THEN [status EXCEPT ![e.msg] = "accepted"] ELSE status
MarkAcceptedAnyway(e) ==
  status' = IF e.kind = "text" THEN [status EXCEPT ![e.msg] = "sent"] ELSE status
\* UPDATE ... SET status='sent' ... AND status='queued'.
MarkAccepted(e) ==
  status' = IF e.kind = "text" /\ status[e.msg] = "queued"
              THEN [status EXCEPT ![e.msg] = "sent"]
              ELSE status

\* Between the daemon's jobs: the row is done with, if it is still the same
\* transport and database.
Finish(t) ==
  /\ At(t, "accepted")
  /\ Idle(Origin(t.of))
  /\ IF SameLink(t)
       THEN /\ MarkAccepted(t.of)
            /\ outbox' = outbox \ {t.of}
            /\ controls' = controls \ {t.of}
       ELSE UNCHANGED <<status, outbox, controls>>
  /\ EndTask(t)
  /\ UNCHANGED <<rowid, clock, received, transit, daemon, running, bounds>>

-----------------------------------------------------------------------------
(* syncMessages through the route of pending and ack.                      *)

InboxOf(d) == {e \in inbox : Target(e) = d}

\* What the relay has pushed over the WebSocket of hybrid mode is taken first.
TakePushed(d) ==
  /\ InPhase(d, {"sync"})
  /\ d \in hybrid \intersect Registered
  /\ \E e \in mailbox : Target(e) = d /\ page' = [page EXCEPT ![d] = {e}]
  /\ job' = [job EXCEPT ![d] = <<"process">> \o Tail(@)]
  /\ UNCHANGED <<rows, received, transit, daemon, acks, tasks, bounds>>

\* Then the inbox is read; in hybrid mode the relay is asked when it is empty.
ReadInbox(d) ==
  /\ InPhase(d, {"sync"})
  /\ InboxOf(d) # {} \/ d \notin hybrid
  /\ page' = [page EXCEPT ![d] = InboxOf(d)]
  /\ job' = [job EXCEPT ![d] = <<"process">> \o Tail(@)]
  /\ UNCHANGED <<rows, received, transit, daemon, acks, tasks, bounds>>

AskRelay(d) ==
  /\ InPhase(d, {"sync"})
  /\ InboxOf(d) = {}
  /\ d \in hybrid \intersect Registered
  /\ page' = [page EXCEPT ![d] = {e \in mailbox : Target(e) = d}]
  /\ job' = [job EXCEPT ![d] = <<"process">> \o Tail(@)]
  /\ UNCHANGED <<rows, received, transit, daemon, acks, tasks, bounds>>

\* The relay does not answer, or knows no such device: the job ends.
RelayUnavailable(d) ==
  /\ InPhase(d, {"sync"})
  /\ InboxOf(d) = {}
  /\ d \in hybrid
  /\ IF d \in Registered THEN Fault ELSE UNCHANGED faults
  /\ AbortJob(d)
  /\ UNCHANGED <<rows, received, transit, daemon, tasks, changes>>

Reading(d, e) == InPhase(d, {"process"}) /\ e \in page[d]
TurnTo(d, e) == page' = [page EXCEPT ![d] = @ \ {e}]
Collect(d, e) == acks' = [acks EXCEPT ![d] = @ \union {e}]

Duplicate(d, e) ==
  /\ Reading(d, e)
  /\ e \in seen
  /\ TurnTo(d, e)
  /\ Collect(d, e)
  /\ UNCHANGED <<rows, received, transit, daemon, job, tasks, bounds>>

\* Faulty variant: the envelope is not remembered.
RememberNothing(e) == UNCHANGED seen
Remember(e) == seen' = seen \union {e}

OpenText(d, e) ==
  /\ Reading(d, e)
  /\ e \notin seen
  /\ e.kind = "text"
  /\ Remember(e)
  /\ copies' = [copies EXCEPT ![e.msg] = @ + 1]
  /\ controls' = controls \union {Delivered(e.msg)}
  /\ Write(d, Delivered(e.msg))
  /\ TurnTo(d, e)
  /\ Collect(d, e)
  /\ UNCHANGED <<status, outbox, transit, daemon, job, tasks, bounds>>

OpenReceipt(d, e) ==
  /\ Reading(d, e)
  /\ e \notin seen
  /\ e.kind = "delivered"
  /\ Remember(e)
  /\ status' = IF status[e.msg] \in {"queued", "sent"}
                 THEN [status EXCEPT ![e.msg] = "delivered"]
                 ELSE status
  /\ TurnTo(d, e)
  /\ Collect(d, e)
  /\ UNCHANGED <<rowid, clock, outbox, controls, copies, transit, daemon, job,
                 tasks, bounds>>

\* Faulty variants: an envelope whose transaction failed is acknowledged, its
\* seen mark stays.
RollBackAcked(d, e) ==
  /\ Reading(d, e)
  /\ e \notin seen
  /\ Fault
  /\ TurnTo(d, e)
  /\ Collect(d, e)
  /\ UNCHANGED <<rows, received, transit, daemon, job, tasks, changes>>
RollBackKeepsMark(d, e) ==
  /\ Reading(d, e)
  /\ e \notin seen
  /\ Fault
  /\ seen' = seen \union {e}
  /\ TurnTo(d, e)
  /\ UNCHANGED <<rows, copies, transit, daemon, job, acks, tasks, changes>>
RollBack(d, e) ==
  /\ Reading(d, e)
  /\ e \notin seen
  /\ Fault
  /\ TurnTo(d, e)
  /\ UNCHANGED <<rows, received, transit, daemon, job, acks, tasks, changes>>

\* Faulty variant: what was not in the inbox is not passed on to the relay.
AcknowledgeHere(d) ==
  /\ InPhase(d, {"process"})
  /\ page[d] = {}
  /\ inbox' = inbox \ acks[d]
  /\ acks' = [acks EXCEPT ![d] = {}]
  /\ EndPhase(d)
  /\ UNCHANGED <<rows, received, mailbox, daemon, page, tasks, bounds>>

\* Acknowledged envelopes leave the inbox; the ids that were not in it are
\* acknowledged at the relay, in hybrid mode.
Acknowledge(d) ==
  LET rest == IF d \in hybrid THEN acks[d] \ inbox ELSE {} IN
  /\ InPhase(d, {"process"})
  /\ page[d] = {}
  /\ inbox' = inbox \ acks[d]
  /\ acks' = [acks EXCEPT ![d] = rest]
  /\ job' = [job EXCEPT ![d] = IF rest = {} THEN Tail(@) ELSE <<"ack">> \o Tail(@)]
  /\ UNCHANGED <<rows, received, mailbox, daemon, page, tasks, bounds>>

AcknowledgeAtRelay(d) ==
  /\ InPhase(d, {"ack"})
  /\ mailbox' = mailbox \ acks[d]
  /\ acks' = [acks EXCEPT ![d] = {}]
  /\ EndPhase(d)
  /\ UNCHANGED <<rows, received, inbox, daemon, page, tasks, bounds>>

\* Request or answer lost: the job ends.
AcknowledgeLost(d) ==
  /\ InPhase(d, {"ack"})
  /\ Fault
  /\ mailbox' \in {mailbox, mailbox \ acks[d]}
  /\ AbortJob(d)
  /\ UNCHANGED <<rows, received, inbox, daemon, tasks, changes>>

-----------------------------------------------------------------------------
(* Locks, modes, transports and crashes.                                   *)

\* POST /api/vault/lock.
Lock(d) ==
  /\ Idle(d)
  /\ d \in open
  /\ Change
  /\ open' = open \ {d}
  /\ StopTor(d)
  /\ SetTor(d, "none")
  /\ UNCHANGED <<rows, received, transit, hybrid, running, faults>>

Unlock(d) ==
  /\ d \notin open
  /\ open' = open \union {d}
  /\ UNCHANGED <<rows, received, transit, hybrid, tor, running, tasks, bounds>>

\* POST /api/transport/config: stopTor, then ensureTor - which starts nothing
\* while an earlier start has not come to its end.
Configure(d) ==
  /\ Idle(d)
  /\ d \in open
  /\ Change
  /\ hybrid' = IF d \in hybrid THEN hybrid \ {d} ELSE hybrid \union {d}
  /\ StopTor(d)
  /\ SetTor(d, IF tor[d] = "starting" THEN "none" ELSE "starting")
  /\ UNCHANGED <<rows, received, transit, open, running, faults>>

\* The onion service is added and Tor has bootstrapped.
TorReady(d) ==
  /\ tor[d] = "starting"
  /\ SetTor(d, "up")
  /\ UNCHANGED <<rows, received, transit, open, hybrid, running, tasks, bounds>>

\* A start that fails leaves no transport.
TorNotStarted(d) ==
  /\ tor[d] = "starting"
  /\ Fault
  /\ SetTor(d, "none")
  /\ tasks' = Unlinked(d)
  /\ UNCHANGED <<rows, received, transit, open, hybrid, running, changes>>

\* Tor exits or its control connection breaks: the transport closes itself.
LoseTor(d) ==
  /\ TorUp(d)
  /\ Fault
  /\ SetTor(d, "stopped")
  /\ UNCHANGED <<rows, received, transit, open, hybrid, running, tasks, changes>>

\* The process dies.  What its tasks have sent is on its way.
Crash(d) ==
  /\ d \in open
  /\ Fault
  /\ open' = open \ {d}
  /\ SetTor(d, "none")
  /\ AbortJob(d)
  /\ tasks' = {t \in tasks : Origin(t.of) # d \/ ~t.alive} \union
       {[t EXCEPT !.alive = FALSE] :
          t \in {t \in tasks : Origin(t.of) = d /\ t.at \in {"tor", "posted"}}}
  /\ UNCHANGED <<rows, received, transit, hybrid, changes>>

-----------------------------------------------------------------------------

FlushStep(d) == StartTask(d) \/ HoldBack(d) \/ QueueEmpty(d)

SyncStep(d) ==
  \/ TakePushed(d) \/ ReadInbox(d) \/ AskRelay(d)
  \/ \E e \in Envelope : Duplicate(d, e) \/ OpenText(d, e) \/ OpenReceipt(d, e)
  \/ Acknowledge(d) \/ AcknowledgeAtRelay(d)

TaskStep(t) ==
  \/ TorReceive(t) \/ TorAnswer(t) \/ TorFail(t) \/ TorLost(t)
  \/ Prepare(t) \/ Post(t) \/ RelayTakes(t) \/ RelayRefuses(t) \/ Finish(t)

UserStep(d) ==
  (\E m \in Msg : Send(d, m)) \/ Lock(d) \/ Unlock(d) \/ Configure(d)

FaultStep(d) ==
  \/ RetryWithoutTor(d) \/ RelayUnavailable(d) \/ AcknowledgeLost(d)
  \/ TorNotStarted(d) \/ LoseTor(d) \/ Crash(d)
  \/ \E e \in Envelope : RollBack(d, e)

Next ==
  \/ \E d \in Device : \/ UserStep(d) \/ Retry(d) \/ FlushStep(d) \/ SyncStep(d)
                       \/ TorReady(d) \/ FaultStep(d)
  \/ \E t \in tasks : TaskStep(t)

Spec == Init /\ [][Next]_vars

\* The event loop runs, Tor comes up where the vault is open, the network
\* delivers or reports what it is given.  Users and faults owe nothing.
Fairness ==
  /\ \A d \in Device :
       /\ WF_vars(Retry(d) \/ FlushStep(d) \/ SyncStep(d) \/ RelayUnavailable(d))
       /\ WF_vars(TorReady(d))
  /\ \A e \in Envelope : SF_vars(\E t \in tasks : t.of = e /\ t.alive /\ TaskStep(t))

FairSpec == Spec /\ Fairness

-----------------------------------------------------------------------------
(* Properties.                                                             *)

\* However an envelope travels - over Tor, over the relay, over both, late or
\* again after a crash - its message is stored once.
StoredOnce == \A m \in Msg : copies[m] <= 1

\* Nothing accepted is lost: while tasks end in any order with locks, changes of
\* mode and broken transports, a stored message and the receipt of a received
\* one are in the sender's tables, in transit or with their recipient.
Safe(e) == e \in outbox \union controls \union inbox \union mailbox \union seen
NothingLost ==
  \A m \in Msg : /\ status[m] # Unsent => Safe(Text(m))
                 /\ copies[m] > 0 => Safe(Delivered(m))

\* A task that ends after the receipt of its message leaves the status alone
\* (tor-routing.ts:39; the flush of the relay route does not, messages.ts:193).
NoRegress ==
  [][\A m \in Msg : status[m] = "delivered" => status'[m] = "delivered"]_vars

\* Custody: a row goes only when peer or relay have the envelope, whatever became of the
\* transport, the vault and the mode in the meantime (tor-routing.ts:33-39).
ReleasedOnlyWhenHeld ==
  [][\A e \in outbox \union controls :
       e \notin outbox' \union controls' => e \in inbox \union mailbox \union seen]_vars

\* Inbox and relay forget an envelope only after its recipient has committed it
\* (tor-routing.ts:18-22, messages.ts:361-364).
ForgottenOnlyWhenSeen ==
  [][\A e \in inbox \union mailbox :
       e \notin inbox' \union mailbox' => e \in seen]_vars
CustodyKept == ReleasedOnlyWhenHeld /\ ForgottenOnlyWhenSeen

\* "Only authenticated onion transport" (README.md:198): no request is made to
\* the relay in direct mode, not even by a task begun or prepared in hybrid mode.
AtRelay(e) == \E t \in tasks : t.of = e /\ t.at = "posted"
DirectAvoidsRelay ==
  [][\A e \in Envelope : ~AtRelay(e) /\ AtRelay(e)' => Origin(e) \in hybrid]_vars

\* Routing through Tor implements the same abstract delivery service.
Abstract == INSTANCE Delivery WITH
  accepted  <- {m \in Msg : status[m] # Unsent},
  inbox     <- copies,
  confirmed <- {m \in Msg : Delivered(m) \in seen},
  lapsed    <- {}
ImplementsDelivery == Abstract!Spec

\* Once vaults stay open and faults stop, a message reaches its recipient, if
\* the recipient asks the relay or the sender does not use it.
Attended(m) == {From[m], To[m]} \subseteq open
Compatible(m) == From[m] \in hybrid => To[m] \in hybrid
EventuallyStored ==
  \A m \in Msg :
    <>[](Attended(m) /\ Compatible(m)) => (status[m] # Unsent ~> copies[m] = 1)

\* The queues and the spools drain under the same conditions, both ways.
EventuallyDrained ==
  (\A m \in Msg : <>[](Attended(m) /\ (From[m] \in hybrid <=> To[m] \in hybrid)))
    => <>[](outbox = {} /\ controls = {} /\ inbox = {} /\ mailbox = {})

\* "Saved on this device; retries while your vault is unlocked"
\* (MessageBubble.tsx:27): a message to a peer that can be reached is tried.
QueuedIsTried ==
  \A m \in Msg :
    /\ To[m] \notin Away
    /\ <>[]Attended(m)
    => (status[m] = "queued" ~> TaskOf(Text(m)) \/ status[m] # "queued")
=============================================================================
