----------------------------- MODULE Messaging -----------------------------
(***************************************************************************)
(* Text messages and their receipts between desktop daemons through the    *)
(* relay (mode RELAY_ONLY): apps/local-daemon/src/messages.ts and          *)
(* consumer.ts, the push buffer and request path of relay-client.ts, the   *)
(* jobs server.ts runs, and the relay's queue.ts.                          *)
(*                                                                         *)
(* A daemon runs one job at a time (server.ts serialises its requests) and *)
(* a job is a sequence of phases.  Every network request is three steps:   *)
(* the daemon issues it, the relay serves it, the daemon reads the answer. *)
(* In between the request or the answer may be lost, the daemon may give   *)
(* up waiting - the request can then still reach the relay, late - and the *)
(* daemon's process may die.  A SQLite transaction is one step.            *)
(*                                                                         *)
(* An envelope stands for its id, its ciphertext and the message key it    *)
(* uses up (module Envelopes).  The tables of all devices are kept         *)
(* together in one set of envelopes each; Origin and Target tell whose     *)
(* database a row is in.                                                   *)
(***************************************************************************)
EXTENDS Naturals, Sequences, FiniteSets, Envelopes

CONSTANTS
  Polling,     \* devices whose window is open and polls
  Reported,    \* messages whose reading the window reports when they are newest
  Perishable,  \* envelopes that may lie at the relay for longer than 30 days
  PushLimit,   \* capacity of the daemon's buffer of pushed envelopes
  MaxFaults    \* bound on lost requests, refusals, failed steps and crashes

NoMsg == "no message"

ASSUME MessagingAssumption ==
  /\ Reported \subseteq Msg
  /\ NoMsg \notin Msg
  /\ PushLimit \in Nat
  /\ MaxFaults \in Nat

PhaseName == {"flush", "sync", "process", "controls"}
Request == [op : {"none", "send", "pending", "ack"},
            ids : SUBSET Envelope,
            at : {"net", "ok", "refused"}]
NoRequest == [op |-> "none", ids |-> {}, at |-> "net"]
LateRequest == [from : Device, op : {"send", "ack"}, ids : SUBSET Envelope]

VARIABLES
  status,    \* messages.status of the sender's row of a message
  rowid,     \* insertion order of an envelope's row among its device's rows
  clock,     \* the last rowid a device has given
  outbox,    \* message_outbox rows
  controls,  \* control_outbox rows
  copies,    \* how many rows of table messages the recipient has of a message
  latest,    \* the newest received message of each conversation
  contact,   \* what a device's database knows of another device
  seen,      \* seen_envelope_ids rows
  used,      \* envelopes whose message key the recipient's session has used up
  mailbox,   \* rows of the relay's table messages
  expired,   \* envelopes the relay has dropped after 30 days
  job,       \* the phases a daemon has still to run, the current one first
  page,      \* envelopes the running sync has still to process
  acks,      \* envelopes the running sync will acknowledge
  pushed,    \* envelopes received over the WebSocket
  rpc,       \* the request a daemon is waiting for
  late,      \* requests given up by their daemon and not yet at the relay
  faults     \* faults so far

database == <<status, rowid, clock, outbox, controls, copies, latest, contact,
              seen, used>>
relay    == <<mailbox, expired>>
process  == <<job, page, acks, pushed, rpc>>
network  == <<late, faults>>
vars     == <<database, relay, process, network>>

TypeOK ==
  /\ status \in [Msg -> {Unsent, "queued", "sent", "delivered", "read"}]
  /\ rowid \in [Envelope -> Nat]
  /\ clock \in [Device -> Nat]
  /\ outbox \subseteq Envelope
  /\ controls \subseteq Envelope
  /\ copies \in [Msg -> Nat]
  /\ latest \in [Device -> [Device -> Msg \union {NoMsg}]]
  /\ contact \in [Device -> [Device -> {"unknown", "known", "talking"}]]
  /\ seen \subseteq Envelope
  /\ used \subseteq Envelope
  /\ mailbox \subseteq Envelope
  /\ expired \subseteq Envelope
  /\ job \in [Device -> Seq(PhaseName)]
  /\ page \in [Device -> SUBSET Envelope]
  /\ acks \in [Device -> SUBSET Envelope]
  /\ pushed \in [Device -> SUBSET Envelope]
  /\ rpc \in [Device -> Request]
  /\ late \subseteq LateRequest
  /\ faults \in Nat

Init ==
  /\ status = [m \in Msg |-> Unsent]
  /\ rowid = [e \in Envelope |-> 0]
  /\ clock = [d \in Device |-> 0]
  /\ outbox = {}
  /\ controls = {}
  /\ copies = [m \in Msg |-> 0]
  /\ latest = [d \in Device |-> [p \in Device |-> NoMsg]]
  /\ contact = [d \in Device |-> [p \in Device |-> "unknown"]]
  /\ seen = {}
  /\ used = {}
  /\ mailbox = {}
  /\ expired = {}
  /\ job = [d \in Device |-> <<>>]
  /\ page = [d \in Device |-> {}]
  /\ acks = [d \in Device |-> {}]
  /\ pushed = [d \in Device |-> {}]
  /\ rpc = [d \in Device |-> NoRequest]
  /\ late = {}
  /\ faults = 0

-----------------------------------------------------------------------------
(* Helpers.                                                                *)

Idle(d) == job[d] = <<>>
InPhase(d, phases) == job[d] # <<>> /\ Head(job[d]) \in phases
Waiting(d) == rpc[d].op # "none"
Answered(d, op, answer) == rpc[d].op = op /\ rpc[d].at = answer

\* The rows of device d that flushOutbox or flushControls reads, whichever runs.
Queue(d) ==
  {e \in (IF Head(job[d]) = "flush" THEN outbox ELSE controls) : Origin(e) = d}

\* ORDER BY created_at, rowid.
Oldest(S) == {e \in S : \A x \in S : rowid[e] <= rowid[x]}

\* Enter an envelope into an outbox table of its device.
Write(d, e) ==
  /\ clock' = [clock EXCEPT ![d] = @ + 1]
  /\ rowid' = [rowid EXCEPT ![e] = clock[d] + 1]

EndPhase(d) == job' = [job EXCEPT ![d] = Tail(@)]
AbortJob(d) ==
  /\ job' = [job EXCEPT ![d] = <<>>]
  /\ page' = [page EXCEPT ![d] = {}]
  /\ acks' = [acks EXCEPT ![d] = {}]

Call(d, op, ids) ==
  rpc' = [rpc EXCEPT ![d] = [op |-> op, ids |-> ids, at |-> "net"]]
Answer(d, answer) == rpc' = [rpc EXCEPT ![d].at = answer]
Hangup(d) == rpc' = [rpc EXCEPT ![d] = NoRequest]

Fault == faults < MaxFaults /\ faults' = faults + 1

-----------------------------------------------------------------------------
(* The jobs: local API requests and the timer, one at a time per device.   *)

\* addContactAndSession: the bundle is fetched, a session is established and
\* the contact and its conversation are written.
AddContact(d, p) ==
  /\ Idle(d)
  /\ d # p
  /\ contact[d][p] # "talking"
  /\ contact' = [contact EXCEPT ![d][p] = "talking"]
  /\ UNCHANGED <<status, rowid, clock, outbox, controls, copies, latest, seen,
                 used, relay, process, network>>

\* sendMessage: the ratchet advance, the row and the outbox row commit
\* together, then the outbox is flushed.
Send(d, m) ==
  /\ Idle(d)
  /\ From[m] = d
  /\ status[m] = Unsent
  /\ contact[d][To[m]] = "talking"
  /\ status' = [status EXCEPT ![m] = "queued"]
  /\ outbox' = outbox \union {Text(m)}
  /\ Write(d, Text(m))
  /\ job' = [job EXCEPT ![d] = <<"flush">>]
  /\ UNCHANGED <<controls, copies, latest, contact, seen, used, relay, page,
                 acks, pushed, rpc, network>>

\* POST /api/control with a read receipt for the newest received message of a
\* conversation (the UI asks once for each newest message).
ReadReceipt(d, p) ==
  LET m == latest[d][p] IN
  /\ Idle(d)
  /\ m \in Reported
  /\ rowid[Read(m)] = 0
  /\ controls' = controls \union {Read(m)}
  /\ Write(d, Read(m))
  /\ job' = [job EXCEPT ![d] = <<"controls">>]
  /\ UNCHANGED <<status, outbox, copies, latest, contact, seen, used, relay,
                 page, acks, pushed, rpc, network>>

\* POST /api/fetch-messages.
Poll(d) ==
  /\ Idle(d)
  /\ d \in Polling
  /\ job' = [job EXCEPT ![d] = <<"flush", "sync", "controls">>]
  /\ UNCHANGED <<database, relay, page, acks, pushed, rpc, network>>

\* retryTorQueues, every five seconds.
Retry(d) ==
  /\ Idle(d)
  /\ job' = [job EXCEPT ![d] = <<"sync", "flush", "controls">>]
  /\ UNCHANGED <<database, relay, page, acks, pushed, rpc, network>>

-----------------------------------------------------------------------------
(* flushOutbox and flushControls.                                          *)

\* Faulty variant: the row is taken out of its table as the request is made.
SendRequestForgets(d) ==
  /\ InPhase(d, {"flush", "controls"})
  /\ ~Waiting(d)
  /\ \E e \in Oldest(Queue(d)) :
       /\ Call(d, "send", {e})
       /\ outbox' = outbox \ {e}
       /\ controls' = controls \ {e}
  /\ UNCHANGED <<status, rowid, clock, copies, latest, contact, seen, used, relay,
                 job, page, acks, pushed, network>>

SendRequest(d) ==
  /\ InPhase(d, {"flush", "controls"})
  /\ ~Waiting(d)
  /\ \E e \in Oldest(Queue(d)) : Call(d, "send", {e})
  /\ UNCHANGED <<database, relay, job, page, acks, pushed, network>>

QueueEmpty(d) ==
  /\ InPhase(d, {"flush", "controls"})
  /\ ~Waiting(d)
  /\ Queue(d) = {}
  /\ EndPhase(d)
  /\ UNCHANGED <<database, relay, page, acks, pushed, rpc, network>>

\* Faulty variants: the relay's word for it is stored, a receipt is taken for
\* granted, a message is done with once it is sent.
MarkAccepted(e) ==
  status' = IF e.kind = "text" THEN [status EXCEPT ![e.msg] = "accepted"] ELSE status
MarkSentAsDelivered(e) ==
  status' = IF e.kind = "text" THEN [status EXCEPT ![e.msg] = "delivered"] ELSE status
MarkSentByDeleting(e) ==
  status' = IF e.kind = "text" THEN [status EXCEPT ![e.msg] = Unsent] ELSE status

\* The relay answered 202: the row becomes 'sent' whatever it was, and the
\* outbox row goes in the same transaction.
MarkSent(e) ==
  status' = IF e.kind = "text" THEN [status EXCEPT ![e.msg] = "sent"] ELSE status

Sent(d) ==
  /\ Answered(d, "send", "ok")
  /\ \E e \in rpc[d].ids :
       /\ MarkSent(e)
       /\ outbox' = outbox \ {e}
       /\ controls' = controls \ {e}
  /\ Hangup(d)
  /\ UNCHANGED <<rowid, clock, copies, latest, contact, seen, used, relay, job,
                 page, acks, pushed, network>>

\* Faulty variant: the row of a refused request is dropped.
SendRefusedForgets(d) ==
  /\ Answered(d, "send", "refused")
  /\ outbox' = outbox \ rpc[d].ids
  /\ controls' = controls \ rpc[d].ids
  /\ Hangup(d)
  /\ EndPhase(d)
  /\ UNCHANGED <<status, rowid, clock, copies, latest, contact, seen, used, relay,
                 page, acks, pushed, network>>

\* Any other answer ends the phase; the row stays for the next one.
SendRefused(d) ==
  /\ Answered(d, "send", "refused")
  /\ Hangup(d)
  /\ EndPhase(d)
  /\ UNCHANGED <<database, relay, page, acks, pushed, network>>

-----------------------------------------------------------------------------
(* The relay: send, pending and ack.                                       *)

\* POST /api/messages/send: one row per envelope id (ON CONFLICT DO NOTHING);
\* the envelope is pushed when the recipient's socket is open, also when the
\* row was already there.  A full push buffer drops it.
Enqueue(e) == mailbox' = mailbox \union {e}
Push(e) ==
  \/ UNCHANGED pushed
  \/ /\ Cardinality(pushed[Target(e)]) < PushLimit
     /\ pushed' = [pushed EXCEPT ![Target(e)] = @ \union {e}]

RelaySend(d) ==
  /\ Answered(d, "send", "net")
  /\ \E e \in rpc[d].ids : Enqueue(e) /\ Push(e)
  /\ Answer(d, "ok")
  /\ UNCHANGED <<database, expired, job, page, acks, network>>

\* GET /api/messages/pending.
RelayPending(d) ==
  /\ Answered(d, "pending", "net")
  /\ rpc' = [rpc EXCEPT ![d].ids = {e \in mailbox : Target(e) = d},
                        ![d].at = "ok"]
  /\ UNCHANGED <<database, relay, job, page, acks, pushed, network>>

\* POST /api/messages/ack: DELETE ... WHERE id = ANY(ids) AND recipient_id = d.
Acknowledge(d, ids) == mailbox' = mailbox \ {e \in ids : Target(e) = d}

RelayAck(d) ==
  /\ Answered(d, "ack", "net")
  /\ Acknowledge(d, rpc[d].ids)
  /\ Answer(d, "ok")
  /\ UNCHANGED <<database, expired, job, page, acks, pushed, network>>

\* Rows older than 30 days are deleted.
Expire(e) ==
  /\ e \in mailbox \intersect Perishable
  /\ mailbox' = mailbox \ {e}
  /\ expired' = expired \union {e}
  /\ UNCHANGED <<database, process, network>>

-----------------------------------------------------------------------------
(* syncMessages.                                                           *)

\* Pushed envelopes are taken first, and then nothing is fetched.
TakePushed(d) ==
  /\ InPhase(d, {"sync"})
  /\ pushed[d] # {}
  /\ ~Waiting(d)
  /\ page' = [page EXCEPT ![d] = pushed[d]]
  /\ pushed' = [pushed EXCEPT ![d] = {}]
  /\ job' = [job EXCEPT ![d] = <<"process">> \o Tail(@)]
  /\ UNCHANGED <<database, relay, acks, rpc, network>>

\* Faulty variant: a sync that finds nothing pushed does not ask the relay.
AskPendingNever(d) ==
  /\ InPhase(d, {"sync"})
  /\ pushed[d] = {}
  /\ ~Waiting(d)
  /\ EndPhase(d)
  /\ UNCHANGED <<database, relay, page, acks, pushed, rpc, network>>

AskPending(d) ==
  /\ InPhase(d, {"sync"})
  /\ pushed[d] = {}
  /\ ~Waiting(d)
  /\ Call(d, "pending", {})
  /\ UNCHANGED <<database, relay, job, page, acks, pushed, network>>

PendingAnswered(d) ==
  /\ Answered(d, "pending", "ok")
  /\ page' = [page EXCEPT ![d] = rpc[d].ids]
  /\ job' = [job EXCEPT ![d] = <<"process">> \o Tail(@)]
  /\ Hangup(d)
  /\ UNCHANGED <<database, relay, acks, pushed, network>>

\* RELAY_SYNC_UNAVAILABLE ends the whole job.
PendingRefused(d) ==
  /\ Answered(d, "pending", "refused")
  /\ Hangup(d)
  /\ AbortJob(d)
  /\ UNCHANGED <<database, relay, pushed, network>>

\* The loop is at envelope e.  Envelopes may come in any order: a late request
\* can push an old one behind a newer one.
Reading(d, e) ==
  /\ InPhase(d, {"process"})
  /\ ~Waiting(d)
  /\ e \in page[d]
TurnTo(d, e) == page' = [page EXCEPT ![d] = @ \ {e}]
\* It has not been seen and its sender is known.
Openable(d, e) ==
  /\ Reading(d, e)
  /\ e \notin seen
  /\ contact[d][Origin(e)] # "unknown"

\* Faulty variant: a duplicate is skipped without acknowledging it again.
DuplicateSkipped(d, e) ==
  /\ Reading(d, e)
  /\ e \in seen
  /\ TurnTo(d, e)
  /\ UNCHANGED <<database, relay, job, acks, pushed, rpc, network>>

\* Already processed: acknowledge again, change nothing.
Duplicate(d, e) ==
  /\ Reading(d, e)
  /\ e \in seen
  /\ TurnTo(d, e)
  /\ acks' = [acks EXCEPT ![d] = @ \union {e}]
  /\ UNCHANGED <<database, relay, job, pushed, rpc, network>>

\* A sender without a contact: its bundle is fetched and the contact written.
MeetSender(d, e) ==
  /\ Reading(d, e)
  /\ e \notin seen
  /\ contact[d][Origin(e)] = "unknown"
  /\ contact' = [contact EXCEPT ![d][Origin(e)] = "known"]
  /\ UNCHANGED <<status, rowid, clock, outbox, controls, copies, latest, seen,
                 used, relay, process, network>>

\* The relay refuses the bundle: the envelope is skipped without an ack.  A
\* request that gets no answer ends the job, with it the acks collected so far.
MeetSenderFails(d, e) ==
  /\ Reading(d, e)
  /\ e \notin seen
  /\ contact[d][Origin(e)] = "unknown"
  /\ Fault
  /\ \/ TurnTo(d, e) /\ UNCHANGED <<job, acks>>
     \/ AbortJob(d)
  /\ UNCHANGED <<database, relay, pushed, rpc, late>>

\* Inside the receive transaction: the message key is used up and the envelope
\* is remembered; the conversation exists from here on.
Decrypt(e) == e \notin used /\ used' = used \union {e}
\* Faulty variant: only texts are remembered.
RememberText(e) == seen' = IF e.kind = "text" THEN seen \union {e} ELSE seen
Remember(e) == seen' = seen \union {e}
Converse(d, e) == contact' = [contact EXCEPT ![d][Origin(e)] = "talking"]

\* A text: a new row, a delivery receipt in control_outbox.
OpenText(d, e) ==
  /\ Openable(d, e)
  /\ e.kind = "text"
  /\ Decrypt(e)
  /\ Remember(e)
  /\ Converse(d, e)
  /\ copies' = [copies EXCEPT ![e.msg] = @ + 1]
  /\ latest' = [latest EXCEPT ![d][Origin(e)] = e.msg]
  /\ controls' = controls \union {Delivered(e.msg)}
  /\ Write(d, Delivered(e.msg))
  /\ TurnTo(d, e)
  /\ acks' = [acks EXCEPT ![d] = @ \union {e}]
  /\ UNCHANGED <<status, outbox, relay, job, pushed, rpc, network>>

\* UPDATE ... SET status='delivered' ... AND status IN ('queued','sent').
MarkDelivered(m) ==
  status' = IF status[m] \in {"queued", "sent"}
              THEN [status EXCEPT ![m] = "delivered"]
              ELSE status

\* UPDATE ... SET status='read' ... AND rowid <= (the row of m).
MarkRead(m) ==
  status' = [x \in Msg |->
    IF /\ From[x] = From[m] /\ To[x] = To[m]
       /\ status[x] # Unsent
       /\ rowid[Text(x)] <= rowid[Text(m)]
      THEN "read" ELSE status[x]]

OpenReceipt(d, e) ==
  /\ Openable(d, e)
  /\ e.kind # "text"
  /\ Decrypt(e)
  /\ Remember(e)
  /\ Converse(d, e)
  /\ IF e.kind = "delivered" THEN MarkDelivered(e.msg) ELSE MarkRead(e.msg)
  /\ TurnTo(d, e)
  /\ acks' = [acks EXCEPT ![d] = @ \union {e}]
  /\ UNCHANGED <<rowid, clock, outbox, controls, copies, latest, relay, job,
                 pushed, rpc, network>>

\* The transaction fails and is rolled back - always when the message key was
\* used before - and the envelope is left unacknowledged.
RollBack(d, e) ==
  /\ Openable(d, e)
  /\ IF e \in used THEN UNCHANGED faults ELSE Fault
  /\ TurnTo(d, e)
  /\ UNCHANGED <<database, relay, job, acks, pushed, rpc, late>>

SendAcks(d) ==
  /\ InPhase(d, {"process"})
  /\ ~Waiting(d)
  /\ page[d] = {}
  /\ acks[d] # {}
  /\ Call(d, "ack", acks[d])
  /\ UNCHANGED <<database, relay, job, page, acks, pushed, network>>

\* A refused acknowledgement is only logged.
AcksAnswered(d) ==
  /\ \/ Answered(d, "ack", "ok")
     \/ Answered(d, "ack", "refused")
  /\ acks' = [acks EXCEPT ![d] = {}]
  /\ Hangup(d)
  /\ EndPhase(d)
  /\ UNCHANGED <<database, relay, page, pushed, network>>

NothingToAck(d) ==
  /\ InPhase(d, {"process"})
  /\ ~Waiting(d)
  /\ page[d] = {}
  /\ acks[d] = {}
  /\ EndPhase(d)
  /\ UNCHANGED <<database, relay, page, acks, pushed, rpc, network>>

-----------------------------------------------------------------------------
(* What may go wrong.                                                      *)

\* A request its daemon no longer waits for may still be on its way.
Abandon(d) ==
  late' = IF rpc[d].at = "net" /\ rpc[d].op \in {"send", "ack"}
            THEN late \union {[from |-> d, op |-> rpc[d].op, ids |-> rpc[d].ids]}
            ELSE late

\* The relay answers with an error (4xx, 5xx) and has changed nothing.
Refuse(d) ==
  /\ Waiting(d)
  /\ rpc[d].at = "net"
  /\ Fault
  /\ Answer(d, "refused")
  /\ UNCHANGED <<database, relay, job, page, acks, pushed, late>>

\* No answer within 15 s: the request or its answer is lost or slow.  A flush
\* stops; a sync throws, which ends its job.
TimeOut(d) ==
  /\ Waiting(d)
  /\ Fault
  /\ Abandon(d)
  /\ Hangup(d)
  /\ IF rpc[d].op = "send"
       THEN EndPhase(d) /\ UNCHANGED <<page, acks>>
       ELSE AbortJob(d)
  /\ UNCHANGED <<database, relay, pushed>>

\* The process dies, or the vault is locked (clearSession drops the pushed
\* envelopes): what is not in the database is gone.
Crash(d) ==
  /\ ~Idle(d) \/ pushed[d] # {}
  /\ Fault
  /\ Abandon(d)
  /\ Hangup(d)
  /\ AbortJob(d)
  /\ pushed' = [pushed EXCEPT ![d] = {}]
  /\ UNCHANGED <<database, relay>>

\* A request nobody waits for reaches the relay.
ArriveLate(r) ==
  /\ r \in late
  /\ late' = late \ {r}
  /\ \/ r.op = "send" /\ \E e \in r.ids : Enqueue(e) /\ Push(e)
     \/ r.op = "ack" /\ Acknowledge(r.from, r.ids) /\ UNCHANGED pushed
  /\ UNCHANGED <<database, expired, job, page, acks, rpc, faults>>

-----------------------------------------------------------------------------

UserStep(d) ==
  \/ \E p \in Device : AddContact(d, p) \/ ReadReceipt(d, p)
  \/ \E m \in Msg : Send(d, m)
  \/ Poll(d)

FlushStep(d) ==
  SendRequest(d) \/ QueueEmpty(d) \/ Sent(d) \/ SendRefused(d)

SyncStep(d) ==
  \/ TakePushed(d) \/ AskPending(d) \/ PendingAnswered(d) \/ PendingRefused(d)
  \/ \E e \in Envelope : Duplicate(d, e) \/ MeetSender(d, e) \/ OpenText(d, e)
                         \/ OpenReceipt(d, e)
  \/ SendAcks(d) \/ AcksAnswered(d) \/ NothingToAck(d)

RelayStep(d) == RelaySend(d) \/ RelayPending(d) \/ RelayAck(d)

FaultStep(d) ==
  \/ Refuse(d) \/ TimeOut(d) \/ Crash(d)
  \/ \E e \in Envelope : MeetSenderFails(d, e) \/ RollBack(d, e)

Next ==
  \/ \E d \in Device :
       UserStep(d) \/ Retry(d) \/ FlushStep(d) \/ SyncStep(d) \/ RelayStep(d)
       \/ FaultStep(d)
  \/ \E e \in Envelope : Expire(e)
  \/ \E r \in late : ArriveLate(r)

Spec == Init /\ [][Next]_vars

\* The daemon's event loop and its five-second timer run, and the relay serves
\* what reaches it.  Users, faults, expiry and late requests owe nothing.
Fairness ==
  \A d \in Device :
    WF_vars(Retry(d) \/ FlushStep(d) \/ SyncStep(d) \/ RelayStep(d)
            \/ \E e \in Envelope : RollBack(d, e))

FairSpec == Spec /\ Fairness

-----------------------------------------------------------------------------
(* Properties.                                                             *)

\* However often an envelope is retried, pushed, fetched again or delivered
\* late, the recipient stores its message once (messages.ts:229-233, 358).
StoredOnce == \A m \in Msg : copies[m] <= 1

\* Nothing accepted is lost: a message the sender has stored is still in its
\* outbox, at the relay or in the recipient's database, at every instant of
\* every failed exchange, unless the relay's retention ran out; and so is the
\* delivery receipt of a message the recipient has stored.
Safe(e) == e \in outbox \union controls \union mailbox \union seen \union expired
NothingLost ==
  \A m \in Msg :
    /\ status[m] # Unsent => Safe(Text(m))
    /\ copies[m] > 0 => Safe(Delivered(m))

\* A status claims no more than happened at the other side: 'delivered' is
\* shown only for a message its recipient has stored, 'read' only up to a
\* message of the conversation that its recipient has stored
\* (messages.ts:193, 306, 307).
StatusIsBacked ==
  \A m \in Msg :
    /\ status[m] = "delivered" => copies[m] > 0
    /\ status[m] = "read" =>
         \E x \in Msg : /\ From[x] = From[m] /\ To[x] = To[m]
                        /\ rowid[Text(m)] <= rowid[Text(x)]
                        /\ copies[x] > 0

\* What the relay may hand out again can be told from what is new: a message
\* key is never used up without the envelope being remembered, so no envelope
\* gets stuck undecryptable and unacknowledged (messages.ts:229-233, 294-368).
NoneStuck == \A e \in used : e \in seen

\* Custody: at every moment someone answers for an envelope.  The relay forgets it
\* only after its recipient has committed it, or after 30 days (messages.ts:361-364, queue.ts:134-138).
ForgottenOnlyWhenSeen ==
  [][\A e \in Envelope : e \in mailbox /\ e \notin mailbox'
       => e \in seen \/ e \in expired']_vars

\* The outbox row of a message goes only when the relay has had the envelope.
ReleasedOnlyWhenHeld ==
  [][\A e \in outbox \union controls :
       e \notin outbox' \union controls' => e \in mailbox \union seen \union expired]_vars
CustodyKept == ForgottenOnlyWhenSeen /\ ReleasedOnlyWhenHeld

\* The messaging protocol implements the abstract delivery service.
Abstract == INSTANCE Delivery WITH
  accepted  <- {m \in Msg : status[m] # Unsent},
  inbox     <- copies,
  confirmed <- {m \in Msg : Delivered(m) \in seen \/ Read(m) \in seen},
  lapsed    <- {m \in Msg : Text(m) \in expired}
ImplementsDelivery == Abstract!Spec

\* Every stored message reaches its recipient, once faults stop.
EventuallyStored ==
  \A m \in Msg : status[m] # Unsent ~> copies[m] = 1 \/ Text(m) \in expired

\* The queues drain: nothing waits at a sender or at the relay for ever.
EventuallyDrained == <>[](outbox = {} /\ controls = {} /\ mailbox = {})

\* "Delivered: Their device confirmed receipt" (MessageBubble.tsx:29): once the
\* sender has processed the receipt, the message is shown Delivered or Read.
ConfirmedIsShown ==
  \A m \in Msg : Delivered(m) \in seen => status[m] \in {"delivered", "read"}
=============================================================================
