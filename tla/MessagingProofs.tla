-------------------------- MODULE MessagingProofs --------------------------
(***************************************************************************)
(* Theorems about module Messaging, for every set of devices and messages, *)
(* every capacity of the push buffer and any number of faults: types, the  *)
(* inductive invariant of its safety, the invariants and action properties *)
(* of the runs that follow from it, and the refinement of Delivery.        *)
(***************************************************************************)
EXTENDS Messaging, TLAPS

-----------------------------------------------------------------------------
(* Envelopes.                                                              *)

\* The constructors build envelopes and are told apart by their kind.
LEMMA EnvelopeFacts ==
  ASSUME NEW m \in Msg
  PROVE  /\ Text(m) \in Envelope /\ Delivered(m) \in Envelope
         /\ Read(m) \in Envelope
         /\ Text(m).kind = "text" /\ Text(m).msg = m
         /\ Delivered(m).kind = "delivered" /\ Delivered(m).msg = m
         /\ Read(m).kind = "read" /\ Read(m).msg = m
BY DEF Envelope, Text, Delivered, Read

\* An envelope comes from a device and goes to a device.
LEMMA EndpointFacts ==
  ASSUME NEW e \in Envelope
  PROVE  /\ e.msg \in Msg
         /\ Origin(e) \in Device
         /\ Target(e) \in Device
BY EnvelopeAssumption DEF Envelope, Origin, Target

\* A daemon that waits for an answer is inside a job: its current phase is
\* there to be ended when the answer comes.
WaitsInsideJob == \A d \in Device : Waiting(d) => job[d] # <<>>

TypeInv == TypeOK /\ WaitsInsideJob

-----------------------------------------------------------------------------
(* Facts about the helpers.                                                *)

\* Ending a phase leaves a list of phases.
LEMMA TailOfJob ==
  ASSUME NEW s \in Seq(PhaseName), s # <<>>
  PROVE  /\ Tail(s) \in Seq(PhaseName)
         /\ <<"process">> \o Tail(s) \in Seq(PhaseName)
         /\ <<"process">> \o Tail(s) # <<>>
<1>1. Tail(s) \in Seq(PhaseName)
  OBVIOUS
<1>2. <<"process">> \in Seq(PhaseName)
  BY DEF PhaseName
<1>3. Len(<<"process">> \o Tail(s)) = 1 + Len(Tail(s)) /\ Len(Tail(s)) \in Nat
  BY <1>1, <1>2
<1>4. QED
  BY <1>1, <1>2, <1>3

\* The phases of the three kinds of job.
LEMMA JobPlans ==
  /\ <<>> \in Seq(PhaseName)
  /\ <<"flush">> \in Seq(PhaseName)
  /\ <<"controls">> \in Seq(PhaseName)
  /\ <<"flush", "sync", "controls">> \in Seq(PhaseName)
  /\ <<"sync", "flush", "controls">> \in Seq(PhaseName)
BY DEF PhaseName

\* The relay's answer changes what a daemon has been told and nothing else.
LEMMA AnswerFacts ==
  ASSUME TypeOK, NEW d \in Device, NEW answer \in {"ok", "refused"},
         Answer(d, answer)
  PROVE  /\ rpc' \in [Device -> Request]
         /\ \A x \in Device : rpc'[x].op = rpc[x].op /\ rpc'[x].ids = rpc[x].ids
         /\ \A x \in Device : x # d => rpc'[x] = rpc[x]
         /\ rpc'[d].at = answer
<1>1. rpc \in [Device -> Request]
  BY DEF TypeOK
<1>2. rpc' = [rpc EXCEPT ![d] = [rpc[d] EXCEPT !.at = answer]]
  BY DEF Answer
<1>3. [rpc[d] EXCEPT !.at = answer] \in Request
  BY <1>1 DEF Request
<1>4. /\ [rpc[d] EXCEPT !.at = answer].op = rpc[d].op
      /\ [rpc[d] EXCEPT !.at = answer].ids = rpc[d].ids
      /\ [rpc[d] EXCEPT !.at = answer].at = answer
  BY <1>1 DEF Request
<1>5. QED
  BY <1>1, <1>2, <1>3, <1>4

\* A push goes into the buffer of the envelope's recipient or is dropped.
LEMMA PushFacts ==
  ASSUME TypeOK, NEW e \in Envelope, Push(e)
  PROVE  /\ pushed' \in [Device -> SUBSET Envelope]
         /\ \A x \in Device : pushed'[x] \subseteq pushed[x] \union {e}
<1>1. pushed \in [Device -> SUBSET Envelope] /\ Target(e) \in Device
  BY EndpointFacts DEF TypeOK
<1>2. CASE UNCHANGED pushed
  BY <1>1, <1>2
<1>3. CASE pushed' = [pushed EXCEPT ![Target(e)] = @ \union {e}]
  BY <1>1, <1>3
<1>4. QED
  BY <1>2, <1>3 DEF Push

-----------------------------------------------------------------------------
(* Type correctness.                                                       *)

LEMMA TypeInit == Init => TypeInv
BY MessagingAssumption, JobPlans
DEF Init, TypeInv, TypeOK, WaitsInsideJob, Waiting, Request, NoRequest, Unsent,
    LateRequest

LEMMA TypeUser ==
  ASSUME TypeInv, NEW d \in Device, UserStep(d) \/ Retry(d)
  PROVE  TypeInv'
<1> USE MessagingAssumption, JobPlans
    DEF TypeInv, TypeOK, WaitsInsideJob, Waiting, Idle, Write, database, relay,
        process, network
<1>1. ASSUME NEW p \in Device, AddContact(d, p) PROVE TypeInv'
  BY <1>1 DEF AddContact
<1>2. ASSUME NEW p \in Device, ReadReceipt(d, p) PROVE TypeInv'
  BY <1>2, EnvelopeFacts DEF ReadReceipt
<1>3. ASSUME NEW m \in Msg, Send(d, m) PROVE TypeInv'
  BY <1>3, EnvelopeFacts DEF Send
<1>4. CASE Poll(d)
  BY <1>4 DEF Poll
<1>5. CASE Retry(d)
  BY <1>5 DEF Retry
<1>6. QED
  BY <1>1, <1>2, <1>3, <1>4, <1>5 DEF UserStep

LEMMA TypeFlush ==
  ASSUME TypeInv, NEW d \in Device, FlushStep(d)
  PROVE  TypeInv'
<1> USE MessagingAssumption, TailOfJob
    DEF TypeInv, TypeOK, WaitsInsideJob, Waiting, InPhase, Answered, EndPhase,
        Hangup, NoRequest, Request, database, relay, process, network
<1>1. CASE SendRequest(d)
  BY <1>1 DEF SendRequest, Call, Oldest, Queue
<1>2. CASE QueueEmpty(d)
  BY <1>2 DEF QueueEmpty
<1>3. CASE Sent(d)
  BY <1>3, EndpointFacts DEF Sent, MarkSent
<1>4. CASE SendRefused(d)
  BY <1>4 DEF SendRefused
<1>5. QED
  BY <1>1, <1>2, <1>3, <1>4 DEF FlushStep

LEMMA TypeSync ==
  ASSUME TypeInv, NEW d \in Device, SyncStep(d)
  PROVE  TypeInv'
<1> USE MessagingAssumption, TailOfJob
    DEF TypeInv, TypeOK, WaitsInsideJob, Waiting, InPhase, Answered, EndPhase,
        Hangup, NoRequest, Request, Call, AbortJob, TurnTo, database, relay,
        process, network
<1>1. CASE TakePushed(d)
  BY <1>1 DEF TakePushed
<1>2. CASE AskPending(d)
  BY <1>2 DEF AskPending
<1>3. CASE PendingAnswered(d)
  BY <1>3 DEF PendingAnswered
<1>4. CASE PendingRefused(d)
  BY <1>4, JobPlans DEF PendingRefused
<1>5. ASSUME NEW e \in Envelope, Duplicate(d, e) PROVE TypeInv'
  BY <1>5 DEF Duplicate
<1>6. ASSUME NEW e \in Envelope, MeetSender(d, e) PROVE TypeInv'
  BY <1>6, EndpointFacts DEF MeetSender
<1>7. ASSUME NEW e \in Envelope, OpenText(d, e) PROVE TypeInv'
  <2>1. contact' \in [Device -> [Device -> {"unknown", "known", "talking"}]]
    BY <1>7, EndpointFacts DEF OpenText, Converse
  <2>2. latest' \in [Device -> [Device -> Msg \union {NoMsg}]]
    BY <1>7, EndpointFacts DEF OpenText
  <2>3. Delivered(e.msg) \in Envelope
    BY EndpointFacts, EnvelopeFacts
  <2>4. /\ rowid' \in [Envelope -> Nat] /\ clock' \in [Device -> Nat]
        /\ controls' \subseteq Envelope
        /\ seen' \subseteq Envelope /\ used' \subseteq Envelope
    BY <1>7, <2>3 DEF OpenText, Decrypt, Remember, Write
  <2>5. copies' \in [Msg -> Nat]
    BY <1>7, EndpointFacts DEF OpenText
  <2>6. QED
    BY <1>7, <2>1, <2>2, <2>4, <2>5, SMTT(30) DEF OpenText
<1>8. ASSUME NEW e \in Envelope, OpenReceipt(d, e) PROVE TypeInv'
  BY <1>8, EndpointFacts
  DEF OpenReceipt, Decrypt, Remember, Converse, MarkDelivered, MarkRead
<1>9. CASE SendAcks(d)
  BY <1>9 DEF SendAcks
<1>10. CASE AcksAnswered(d)
  BY <1>10 DEF AcksAnswered
<1>11. CASE NothingToAck(d)
  BY <1>11 DEF NothingToAck
<1>12. QED
  BY <1>1, <1>2, <1>3, <1>4, <1>5, <1>6, <1>7, <1>8, <1>9, <1>10, <1>11
  DEF SyncStep

LEMMA TypeRelay ==
  ASSUME TypeInv, NEW d \in Device, RelayStep(d)
  PROVE  TypeInv'
<1> USE DEF TypeInv, WaitsInsideJob, Waiting, database, relay, process, network
<1>1. CASE RelaySend(d)
  <2>1. PICK e \in rpc[d].ids : Enqueue(e) /\ Push(e)
    BY <1>1 DEF RelaySend
  <2>2. e \in Envelope
    BY <2>1 DEF TypeOK, Request
  <2>3. /\ mailbox' \subseteq Envelope
        /\ pushed' \in [Device -> SUBSET Envelope]
    BY <2>1, <2>2, PushFacts DEF TypeOK, Enqueue
  <2>4. /\ rpc' \in [Device -> Request]
        /\ \A x \in Device : rpc'[x].op = rpc[x].op
    BY <1>1, AnswerFacts DEF RelaySend
  <2>5. QED
    BY <1>1, <2>3, <2>4 DEF RelaySend, TypeOK
<1>2. CASE RelayPending(d)
  BY <1>2, ZenonT(60) DEF RelayPending, TypeOK, Request, Answered
<1>3. CASE RelayAck(d)
  <2>1. /\ rpc' \in [Device -> Request]
        /\ \A x \in Device : rpc'[x].op = rpc[x].op
    BY <1>3, AnswerFacts DEF RelayAck
  <2>2. QED
    BY <1>3, <2>1 DEF RelayAck, TypeOK, Acknowledge
<1>4. QED
  BY <1>1, <1>2, <1>3 DEF RelayStep

LEMMA TypeFault ==
  ASSUME TypeInv, NEW d \in Device, FaultStep(d)
  PROVE  TypeInv'
<1> USE MessagingAssumption, JobPlans
    DEF TypeInv, TypeOK, WaitsInsideJob, Waiting, Fault, AbortJob, TurnTo,
        database, relay, process, network
<1>1. Hangup(d) => /\ rpc' \in [Device -> Request]
                   /\ rpc'[d].op = "none"
                   /\ \A x \in Device : x # d => rpc'[x] = rpc[x]
  BY DEF Hangup, NoRequest, Request
<1>2. Abandon(d) => late' \subseteq LateRequest
  BY DEF Abandon, Request, LateRequest
<1>3. CASE Refuse(d)
  <2>1. /\ rpc' \in [Device -> Request]
        /\ \A x \in Device : rpc'[x].op = rpc[x].op
    BY <1>3, AnswerFacts DEF Refuse
  <2>2. faults' \in Nat
    BY <1>3 DEF Refuse
  <2>3. TypeOK'
    BY <1>3, <2>1, <2>2 DEF Refuse
  <2>4. WaitsInsideJob'
    BY <1>3, <2>1 DEF Refuse
  <2>5. QED
    BY <2>3, <2>4
<1>4. CASE TimeOut(d)
  <2>1. CASE EndPhase(d) /\ UNCHANGED <<page, acks>>
    <3>1. Tail(job[d]) \in Seq(PhaseName)
      BY <1>4, TailOfJob DEF TimeOut
    <3>2. QED
      BY <1>1, <1>2, <1>4, <2>1, <3>1 DEF TimeOut, EndPhase
  <2>2. CASE AbortJob(d)
    BY <1>1, <1>2, <1>4, <2>2 DEF TimeOut
  <2>3. QED
    BY <1>4, <2>1, <2>2 DEF TimeOut
<1>5. CASE Crash(d)
  BY <1>1, <1>2, <1>5 DEF Crash
<1>6. ASSUME NEW e \in Envelope, MeetSenderFails(d, e) PROVE TypeInv'
  <2>1. CASE TurnTo(d, e) /\ UNCHANGED <<job, acks>>
    BY <1>6, <2>1 DEF MeetSenderFails
  <2>2. CASE AbortJob(d)
    BY <1>6, <2>2 DEF MeetSenderFails, Reading
  <2>3. QED
    BY <1>6, <2>1, <2>2 DEF MeetSenderFails
<1>7. ASSUME NEW e \in Envelope, RollBack(d, e) PROVE TypeInv'
  BY <1>7 DEF RollBack
<1>8. QED
  BY <1>3, <1>4, <1>5, <1>6, <1>7 DEF FaultStep

LEMMA TypeNetwork ==
  ASSUME TypeInv, (\E e \in Envelope : Expire(e)) \/ (\E r \in late : ArriveLate(r))
  PROVE  TypeInv'
<1> USE DEF TypeInv, WaitsInsideJob, Waiting, database, relay, process, network
<1>1. ASSUME NEW e \in Envelope, Expire(e) PROVE TypeInv'
  BY <1>1 DEF Expire, TypeOK
<1>2. ASSUME NEW r \in late, ArriveLate(r) PROVE TypeInv'
  <2>1. r.ids \subseteq Envelope
    BY DEF TypeOK, LateRequest
  <2>2. pushed' \in [Device -> SUBSET Envelope]
    BY <1>2, <2>1, PushFacts DEF ArriveLate, TypeOK
  <2>3. mailbox' \subseteq Envelope /\ late' \subseteq LateRequest
    BY <1>2, <2>1 DEF ArriveLate, Enqueue, Acknowledge, TypeOK
  <2>4. QED
    BY <1>2, <2>2, <2>3 DEF ArriveLate, TypeOK
<1>3. QED
  BY <1>1, <1>2

LEMMA TypeNext ==
  ASSUME TypeInv, Next
  PROVE  TypeInv'
BY TypeUser, TypeFlush, TypeSync, TypeRelay, TypeFault, TypeNetwork DEF Next

\* Every state of the protocol is well typed: the invariant TypeOK of the runs,
\* and no answer ever finds its daemon outside the job that asked for it.
THEOREM TypeCorrect == Spec => [](TypeOK /\ WaitsInsideJob)
<1>1. TypeInv /\ [Next]_vars => TypeInv'
  <2>1. ASSUME TypeInv, UNCHANGED vars PROVE TypeInv'
    BY <2>1 DEF TypeInv, TypeOK, WaitsInsideJob, Waiting, vars, database,
                relay, process, network
  <2>2. QED
    BY <2>1, TypeNext
<1>2. QED
  BY TypeInit, <1>1, PTL DEF Spec, TypeInv

-----------------------------------------------------------------------------
(* The inductive invariant.                                                *)

\* What an envelope's existence proves: the sender has stored the message, and
\* a receipt is only made by a recipient that has stored it.
Genuine(e) ==
  /\ status[e.msg] # Unsent
  /\ e.kind # "text" => copies[e.msg] > 0

\* Envelopes are genuine wherever they are met, old copies included.
Provenance ==
  /\ \A e \in outbox \union controls \union mailbox \union seen : Genuine(e)
  /\ \A d \in Device : \A e \in pushed[d] \union page[d] \union rpc[d].ids : Genuine(e)
  /\ \A r \in late : \A e \in r.ids : Genuine(e)
  /\ \A d, p \in Device : latest[d][p] \in Msg => copies[latest[d][p]] > 0
  /\ \A m \in Msg : copies[m] > 0 => status[m] # Unsent

\* The row of a message and the memory of its envelope are written together.
StoredIsSeen == \A m \in Msg : copies[m] = IF Text(m) \in seen THEN 1 ELSE 0

\* Only what is committed is ever acknowledged, by whatever request.
AckedIsSeen ==
  /\ \A d \in Device : acks[d] \subseteq seen
  /\ \A d \in Device : rpc[d].op = "ack" => rpc[d].ids \subseteq seen
  /\ \A r \in late : r.op = "ack" => r.ids \subseteq seen

\* What the relay has accepted it holds until the recipient has it.
Held == mailbox \union seen \union expired
AcceptedIsHeld ==
  \A d \in Device : rpc[d].op = "send" =>
    /\ \E e \in Envelope : rpc[d].ids = {e}
    /\ rpc[d].at = "ok" => rpc[d].ids \subseteq Held

IInv == /\ TypeInv /\ Provenance /\ StoredIsSeen /\ NoneStuck /\ AckedIsSeen
        /\ AcceptedIsHeld /\ NothingLost /\ StatusIsBacked

-----------------------------------------------------------------------------
(* What the kinds of step leave alone.                                     *)

LEMMA UserFrame ==
  ASSUME NEW d \in Device, UserStep(d) \/ Retry(d)
  PROVE  /\ UNCHANGED <<copies, latest, seen, used, relay, page, acks, pushed,
                        rpc, network>>
         /\ \/ \E m \in Msg : Send(d, m)
            \/ \E p \in Device : ReadReceipt(d, p)
            \/ UNCHANGED <<status, rowid, outbox, controls>>
BY DEF UserStep, AddContact, ReadReceipt, Send, Poll, Retry, database, relay,
       process, network

LEMMA FlushFrame ==
  ASSUME NEW d \in Device, FlushStep(d)
  PROVE  /\ UNCHANGED <<rowid, copies, latest, seen, used, relay, page, acks,
                        pushed, network>>
         /\ Sent(d) \/ UNCHANGED <<status, outbox, controls>>
BY DEF FlushStep, SendRequest, QueueEmpty, Sent, SendRefused, database, relay,
       process, network

LEMMA SyncFrame ==
  ASSUME NEW d \in Device, SyncStep(d)
  PROVE  /\ UNCHANGED <<outbox, relay, network>>
         /\ \/ \E e \in Envelope : OpenText(d, e)
            \/ \E e \in Envelope : OpenReceipt(d, e)
            \/ UNCHANGED <<status, rowid, controls, copies, latest, seen, used>>
BY DEF SyncStep, TakePushed, AskPending, PendingAnswered, PendingRefused,
       Duplicate, MeetSender, OpenText, OpenReceipt, SendAcks, AcksAnswered,
       NothingToAck, database, relay, process, network

LEMMA RelayFrame ==
  ASSUME NEW d \in Device, RelayStep(d)
  PROVE  UNCHANGED <<database, expired, page, acks, network>>
BY DEF RelayStep, RelaySend, RelayPending, RelayAck, relay

LEMMA FaultFrame ==
  ASSUME NEW d \in Device, FaultStep(d)
  PROVE  UNCHANGED <<database, relay>>
BY DEF FaultStep, Refuse, TimeOut, Crash, MeetSenderFails, RollBack

LEMMA NetworkFrame ==
  /\ \A e \in Envelope : Expire(e) =>
       UNCHANGED <<database, page, acks, rpc, pushed, late>>
  /\ \A r \in late : ArriveLate(r) =>
       UNCHANGED <<database, expired, page, acks, rpc>>
BY DEF Expire, ArriveLate, process, network

-----------------------------------------------------------------------------
(* Stored once.                                                            *)

LEMMA StoredIsSeenKept ==
  ASSUME IInv, Next
  PROVE  StoredIsSeen' /\ NoneStuck' /\ seen \subseteq seen'
<1> USE DEF IInv, StoredIsSeen, NoneStuck
<1>1. ASSUME UNCHANGED <<copies, seen, used>>
      PROVE  StoredIsSeen' /\ NoneStuck' /\ seen \subseteq seen'
  BY <1>1
<1>2. ASSUME NEW d \in Device, NEW e \in Envelope, OpenText(d, e)
      PROVE  StoredIsSeen' /\ NoneStuck' /\ seen \subseteq seen'
  <2>1. /\ e \notin seen
        /\ seen' = seen \union {e} /\ used' = used \union {e}
        /\ copies' = [copies EXCEPT ![e.msg] = @ + 1]
    BY <1>2 DEF OpenText, Openable, Remember, Decrypt
  <2>2. e = Text(e.msg) /\ e.msg \in Msg
    BY <1>2 DEF OpenText, Envelope, Text
  <2>3. \A m \in Msg : Text(m) = e <=> m = e.msg
    BY <2>2, EnvelopeFacts
  <2>4. copies \in [Msg -> Nat]
    BY DEF TypeInv, TypeOK
  <2>5. QED
    BY <2>1, <2>2, <2>3, <2>4
<1>3. ASSUME NEW d \in Device, NEW e \in Envelope, OpenReceipt(d, e)
      PROVE  StoredIsSeen' /\ NoneStuck' /\ seen \subseteq seen'
  <2>1. /\ seen' = seen \union {e} /\ used' = used \union {e}
        /\ e.kind # "text" /\ UNCHANGED copies
    BY <1>3 DEF OpenReceipt, Remember, Decrypt
  <2>2. \A m \in Msg : Text(m) # e
    BY <2>1, EnvelopeFacts
  <2>3. QED
    BY <2>1, <2>2
<1>4. QED
  BY <1>1, <1>2, <1>3, UserFrame, FlushFrame, SyncFrame, RelayFrame, FaultFrame,
     NetworkFrame DEF Next, database

-----------------------------------------------------------------------------
(* Only what is committed is acknowledged.                                 *)

LEMMA AckedIsSeenKept ==
  ASSUME IInv, Next
  PROVE  AckedIsSeen'
<1>1. seen \subseteq seen'
  BY StoredIsSeenKept
<1>2. TypeOK /\ AckedIsSeen
  BY DEF IInv, TypeInv
<1> USE <1>1, <1>2 DEF AckedIsSeen
<1>3. ASSUME NEW d \in Device, UserStep(d) \/ Retry(d) PROVE AckedIsSeen'
  BY <1>3, UserFrame DEF network
<1>4. ASSUME NEW d \in Device, FlushStep(d) PROVE AckedIsSeen'
  <2>1. UNCHANGED <<acks, late>>
    BY <1>4, FlushFrame DEF network
  <2>2. \A x \in Device : rpc'[x] = rpc[x] \/ rpc'[x].op # "ack"
    BY <1>4 DEF FlushStep, SendRequest, QueueEmpty, Sent, SendRefused, Call,
                Hangup, NoRequest, TypeOK
  <2>3. QED
    BY <2>1, <2>2
<1>5. ASSUME NEW d \in Device, SyncStep(d) PROVE AckedIsSeen'
  <2>1. UNCHANGED late
    BY <1>5, SyncFrame DEF network
  <2>2. \A x \in Device : acks'[x] \subseteq seen'
    <3>1. ASSUME NEW e \in Envelope,
                 Duplicate(d, e) \/ OpenText(d, e) \/ OpenReceipt(d, e)
          PROVE  \A x \in Device : acks'[x] \subseteq seen'
      <4>1. acks' = [acks EXCEPT ![d] = @ \union {e}] /\ e \in seen'
        BY <3>1 DEF Duplicate, OpenText, OpenReceipt, Remember
      <4>2. acks \in [Device -> SUBSET Envelope]
        BY DEF TypeOK
      <4>3. QED
        BY <4>1, <4>2
    <3>2. CASE PendingRefused(d) \/ AcksAnswered(d)
      BY <3>2 DEF PendingRefused, AcksAnswered, AbortJob, TypeOK
    <3>3. \/ \E e \in Envelope :
               Duplicate(d, e) \/ OpenText(d, e) \/ OpenReceipt(d, e)
          \/ PendingRefused(d) \/ AcksAnswered(d)
          \/ UNCHANGED acks
      BY <1>5 DEF SyncStep, TakePushed, AskPending, PendingAnswered, MeetSender,
                  SendAcks, NothingToAck, process
    <3>4. QED
      BY <3>1, <3>2, <3>3
  <2>3. \A x \in Device : \/ rpc'[x] = rpc[x]
                          \/ rpc'[x].op # "ack"
                          \/ rpc'[x].ids \subseteq acks[x]
    BY <1>5 DEF SyncStep, TakePushed, AskPending, PendingAnswered, PendingRefused,
                Duplicate, MeetSender, OpenText, OpenReceipt, SendAcks, Call,
                AcksAnswered, NothingToAck, Hangup, NoRequest, process, TypeOK
  <2>4. QED
    BY <2>1, <2>2, <2>3
<1>6. ASSUME NEW d \in Device, RelayStep(d) PROVE AckedIsSeen'
  <2>1. UNCHANGED <<acks, late>>
    BY <1>6, RelayFrame DEF network
  <2>2. \A x \in Device : rpc'[x].op = "ack" => rpc[x].op = "ack" /\ rpc'[x].ids = rpc[x].ids
    <3>1. CASE RelaySend(d) \/ RelayAck(d)
      BY <3>1, AnswerFacts DEF RelaySend, RelayAck
    <3>2. CASE RelayPending(d)
      BY <3>2 DEF RelayPending, Answered, TypeOK, Request
    <3>3. QED
      BY <1>6, <3>1, <3>2 DEF RelayStep
  <2>3. QED
    BY <2>1, <2>2
<1>7. ASSUME NEW d \in Device, FaultStep(d) PROVE AckedIsSeen'
  <2>1. \A x \in Device : acks'[x] \subseteq acks[x]
    BY <1>7 DEF FaultStep, Refuse, TimeOut, Crash, MeetSenderFails, RollBack,
                AbortJob, TypeOK
  <2>2. \A x \in Device : rpc'[x].op = "ack" => rpc[x].op = "ack" /\ rpc'[x].ids = rpc[x].ids
    <3>1. CASE Refuse(d)
      BY <3>1, AnswerFacts DEF Refuse
    <3>2. CASE TimeOut(d) \/ Crash(d)
      <4>1. Hangup(d)
        BY <3>2 DEF TimeOut, Crash
      <4>2. QED
        BY <4>1 DEF Hangup, NoRequest, TypeOK
    <3>3. ASSUME NEW e \in Envelope, MeetSenderFails(d, e) \/ RollBack(d, e)
          PROVE  UNCHANGED rpc
      BY <3>3 DEF MeetSenderFails, RollBack
    <3>4. QED
      BY <1>7, <3>1, <3>2, <3>3 DEF FaultStep
  <2>3. \A r \in late' : r.op = "ack" => r \in late \/ r.ids \subseteq seen
    BY <1>7 DEF FaultStep, Refuse, TimeOut, Crash, MeetSenderFails, RollBack,
                Abandon
  <2>4. QED
    BY <2>1, <2>2, <2>3
<1>8. ASSUME NEW e \in Envelope, Expire(e) PROVE AckedIsSeen'
  BY <1>8, NetworkFrame
<1>9. ASSUME NEW r \in late, ArriveLate(r) PROVE AckedIsSeen'
  <2>1. late' \subseteq late /\ UNCHANGED <<acks, rpc>>
    BY <1>9 DEF ArriveLate
  <2>2. QED
    BY <2>1
<1>10. QED
  BY <1>3, <1>4, <1>5, <1>6, <1>7, <1>8, <1>9 DEF Next

-----------------------------------------------------------------------------
(* What the relay has accepted is held.                                    *)

\* The relay's rows go only to the recipient's database or with the retention.
LEMMA HeldKept ==
  ASSUME IInv, Next
  PROVE  /\ Held \subseteq Held'
         /\ \A e \in mailbox : e \in mailbox' \/ e \in seen \/ e \in expired'
<1>1. seen \subseteq seen'
  BY StoredIsSeenKept
<1>2. AckedIsSeen
  BY DEF IInv
<1>3. ASSUME UNCHANGED relay
      PROVE  /\ Held \subseteq Held'
             /\ \A e \in mailbox : e \in mailbox'
  BY <1>1, <1>3 DEF Held, relay
<1>4. ASSUME NEW d \in Device, RelayStep(d)
      PROVE  /\ Held \subseteq Held'
             /\ \A e \in mailbox : e \in mailbox' \/ e \in seen
  <2>1. UNCHANGED expired
    BY <1>4, RelayFrame
  <2>2. \A e \in mailbox : e \in mailbox' \/ e \in seen
    BY <1>2, <1>4 DEF RelayStep, RelaySend, RelayPending, RelayAck, Enqueue,
                      Acknowledge, Answered, AckedIsSeen, relay
  <2>3. QED
    BY <1>1, <2>1, <2>2 DEF Held
<1>5. ASSUME NEW e \in Envelope, Expire(e)
      PROVE  /\ Held \subseteq Held'
             /\ \A x \in mailbox : x \in mailbox' \/ x \in expired'
  BY <1>1, <1>5 DEF Expire, Held
<1>6. ASSUME NEW r \in late, ArriveLate(r)
      PROVE  /\ Held \subseteq Held'
             /\ \A e \in mailbox : e \in mailbox' \/ e \in seen
  BY <1>1, <1>2, <1>6 DEF ArriveLate, Enqueue, Acknowledge, AckedIsSeen, Held
<1>7. QED
  BY <1>3, <1>4, <1>5, <1>6, UserFrame, FlushFrame, SyncFrame, FaultFrame
  DEF Next

LEMMA AcceptedIsHeldKept ==
  ASSUME IInv, Next
  PROVE  AcceptedIsHeld'
<1>1. Held \subseteq Held'
  BY HeldKept
<1>2. TypeOK /\ AcceptedIsHeld
  BY DEF IInv, TypeInv
<1> USE <1>1, <1>2 DEF AcceptedIsHeld
<1>3. ASSUME \A x \in Device : rpc'[x] = rpc[x] \/ rpc'[x].op # "send"
      PROVE  AcceptedIsHeld'
  BY <1>3
<1>4. ASSUME NEW d \in Device, UserStep(d) \/ Retry(d) PROVE AcceptedIsHeld'
  BY <1>3, <1>4, UserFrame
<1>5. ASSUME NEW d \in Device, FlushStep(d) PROVE AcceptedIsHeld'
  <2>1. CASE SendRequest(d)
    <3>1. PICK e \in Envelope : rpc' = [rpc EXCEPT ![d] = [op |-> "send", ids |-> {e}, at |-> "net"]]
      BY <2>1 DEF SendRequest, Oldest, Queue, Call, TypeOK
    <3>2. QED
      BY <3>1 DEF TypeOK
  <2>2. CASE QueueEmpty(d) \/ Sent(d) \/ SendRefused(d)
    BY <1>3, <2>2 DEF QueueEmpty, Sent, SendRefused, Hangup, NoRequest, TypeOK
  <2>3. QED
    BY <1>5, <2>1, <2>2 DEF FlushStep
<1>6. ASSUME NEW d \in Device, SyncStep(d) PROVE AcceptedIsHeld'
  <2>1. \A x \in Device : rpc'[x] = rpc[x] \/ rpc'[x].op # "send"
    BY <1>6 DEF SyncStep, TakePushed, AskPending, PendingAnswered, PendingRefused,
                Duplicate, MeetSender, OpenText, OpenReceipt, SendAcks, Call,
                AcksAnswered, NothingToAck, Hangup, NoRequest, process, TypeOK
  <2>2. QED
    BY <1>3, <2>1
<1>7. ASSUME NEW d \in Device, RelayStep(d) PROVE AcceptedIsHeld'
  <2>1. CASE RelaySend(d)
    <3>1. PICK e \in rpc[d].ids : Enqueue(e)
      BY <2>1 DEF RelaySend
    <3>2. rpc[d].ids = {e} /\ e \in Held'
      BY <2>1, <3>1 DEF RelaySend, Answered, Enqueue, Held
    <3>3. QED
      BY <2>1, <3>2, AnswerFacts DEF RelaySend
  <2>2. CASE RelayPending(d)
    BY <1>3, <2>2, ZenonT(60) DEF RelayPending, Answered, TypeOK, Request
  <2>3. CASE RelayAck(d)
    <3>1. \A x \in Device : rpc'[x] = rpc[x] \/ rpc'[x].op # "send"
      BY <2>3, AnswerFacts DEF RelayAck, Answered
    <3>2. QED
      BY <1>3, <3>1
  <2>4. QED
    BY <1>7, <2>1, <2>2, <2>3 DEF RelayStep
<1>8. ASSUME NEW d \in Device, FaultStep(d) PROVE AcceptedIsHeld'
  <2>1. CASE Refuse(d)
    BY <2>1, AnswerFacts DEF Refuse
  <2>2. CASE TimeOut(d) \/ Crash(d)
    <3>1. Hangup(d)
      BY <2>2 DEF TimeOut, Crash
    <3>2. QED
      BY <1>3, <3>1 DEF Hangup, NoRequest, TypeOK
  <2>3. ASSUME NEW e \in Envelope, MeetSenderFails(d, e) \/ RollBack(d, e)
        PROVE  AcceptedIsHeld'
    BY <1>3, <2>3 DEF MeetSenderFails, RollBack
  <2>4. QED
    BY <1>8, <2>1, <2>2, <2>3 DEF FaultStep
<1>9. ASSUME NEW e \in Envelope, Expire(e) PROVE AcceptedIsHeld'
  BY <1>3, <1>9, NetworkFrame
<1>10. ASSUME NEW r \in late, ArriveLate(r) PROVE AcceptedIsHeld'
  BY <1>3, <1>10, NetworkFrame
<1>11. QED
  BY <1>4, <1>5, <1>6, <1>7, <1>8, <1>9, <1>10 DEF Next

-----------------------------------------------------------------------------
(* Envelopes are genuine.                                                  *)

\* A message once accepted stays accepted, and only its sender accepts one.
LEMMA AcceptedKept ==
  ASSUME IInv, Next
  PROVE  /\ \A m \in Msg : status[m] # Unsent => status'[m] # Unsent
         /\ \/ \A m \in Msg : status'[m] # Unsent => status[m] # Unsent
            \/ \E d \in Device, m \in Msg : Send(d, m)
<1> DEFINE Same == \A m \in Msg : status'[m] # Unsent <=> status[m] # Unsent
<1>1. TypeOK /\ Provenance
  BY DEF IInv, TypeInv
<1>2. ASSUME NEW d \in Device, NEW m \in Msg, Send(d, m)
      PROVE  \A x \in Msg : status[x] # Unsent => status'[x] # Unsent
  BY <1>1, <1>2 DEF Send, TypeOK, Unsent
<1>3. ASSUME NEW d \in Device, Sent(d) PROVE Same
  <2>1. PICK e \in rpc[d].ids : MarkSent(e)
    BY <1>3 DEF Sent
  <2>2. Genuine(e)
    BY <1>1, <2>1 DEF Provenance
  <2>3. QED
    BY <1>1, <2>1, <2>2 DEF MarkSent, Genuine, TypeOK, Unsent
<1>4. ASSUME NEW d \in Device, NEW e \in Envelope, OpenReceipt(d, e) PROVE Same
  <2>1. MarkDelivered(e.msg) \/ MarkRead(e.msg)
    BY <1>4 DEF OpenReceipt
  <2>2. QED
    BY <1>1, <2>1 DEF MarkDelivered, MarkRead, TypeOK, Unsent
<1>5. ASSUME UNCHANGED status PROVE Same
  BY <1>5
<1>6. ASSUME NEW d \in Device, NEW e \in Envelope, OpenText(d, e) PROVE Same
  BY <1>6 DEF OpenText
<1>7. ASSUME NEW d \in Device, NEW p \in Device, ReadReceipt(d, p) PROVE Same
  BY <1>7 DEF ReadReceipt
<1>8. Same \/ \E d \in Device, m \in Msg : Send(d, m)
  BY <1>3, <1>4, <1>5, <1>6, <1>7, UserFrame, FlushFrame, SyncFrame, RelayFrame,
     FaultFrame, NetworkFrame DEF Next, database
<1>9. QED
  BY <1>2, <1>8

LEMMA GenuineKept ==
  ASSUME IInv, Next
  PROVE  /\ \A e \in Envelope : Genuine(e) => Genuine(e)'
         /\ \A m \in Msg : copies[m] > 0 => copies'[m] > 0
<1>1. \A m \in Msg : copies[m] > 0 => copies'[m] > 0
  BY StoredIsSeenKept DEF IInv, StoredIsSeen
<1>2. QED
  BY <1>1, AcceptedKept, EndpointFacts DEF Genuine

\* What the steps put into the tables and the relay's queue is genuine.
LEMMA TablesGenuine ==
  ASSUME IInv, Next
  PROVE  \A e \in (outbox \union controls \union mailbox \union seen)' : Genuine(e)'
<1> DEFINE Tables == outbox \union controls \union mailbox \union seen
<1>1. TypeOK /\ Provenance
  BY DEF IInv, TypeInv
<1>2. /\ \A e \in Envelope : Genuine(e) => Genuine(e)'
      /\ \A e \in Tables : e \in Envelope /\ Genuine(e)
  BY <1>1, GenuineKept DEF TypeOK, Provenance
<1> HIDE DEF Tables
<1>3. SUFFICES \A e \in Tables' : e \in Tables \/ Genuine(e)'
  BY <1>2 DEF Tables
<1>4. ASSUME NEW d \in Device, NEW m \in Msg, Send(d, m)
      PROVE  \A e \in Tables' : e \in Tables \/ Genuine(e)'
  <2>1. /\ status'[m] # Unsent /\ Text(m).kind = "text" /\ Text(m).msg = m
    BY <1>1, <1>4, EnvelopeFacts DEF Send, TypeOK, Unsent
  <2>2. Genuine(Text(m))'
    BY <2>1 DEF Genuine
  <2>3. Tables' \subseteq Tables \union {Text(m)}
    BY <1>4 DEF Send, relay, Tables
  <2>4. QED
    BY <2>2, <2>3
<1>5. ASSUME NEW d \in Device, NEW p \in Device, ReadReceipt(d, p)
      PROVE  \A e \in Tables' : e \in Tables \/ Genuine(e)'
  <2> DEFINE m == latest[d][p]
  <2>1. m \in Msg /\ copies[m] > 0 /\ status[m] # Unsent
    BY <1>1, <1>5, MessagingAssumption DEF ReadReceipt, Provenance
  <2>2. Genuine(Read(m)) /\ Read(m) \in Envelope
    BY <2>1, EnvelopeFacts DEF Genuine
  <2>3. Tables' \subseteq Tables \union {Read(m)}
    BY <1>5 DEF ReadReceipt, relay, Tables
  <2>4. QED
    BY <1>2, <2>2, <2>3
<1>6. ASSUME NEW d \in Device, Sent(d)
      PROVE  \A e \in Tables' : e \in Tables \/ Genuine(e)'
  BY <1>6 DEF Sent, relay, Tables
<1>7. ASSUME NEW d \in Device, NEW e \in Envelope, OpenText(d, e)
      PROVE  \A x \in Tables' : x \in Tables \/ Genuine(x)'
  <2>1. Genuine(e) /\ e.msg \in Msg
    BY <1>1, <1>7, EndpointFacts
    DEF OpenText, Openable, Reading, Provenance
  <2>2. copies'[e.msg] > 0 /\ status'[e.msg] # Unsent
    BY <1>1, <1>7, <2>1 DEF OpenText, TypeOK, Genuine
  <2>3. Genuine(Delivered(e.msg))' /\ Genuine(e)'
    BY <2>1, <2>2, <1>2, EnvelopeFacts DEF Genuine
  <2>4. Tables' \subseteq Tables \union {e, Delivered(e.msg)}
    BY <1>7 DEF OpenText, Remember, relay, Tables
  <2>5. QED
    BY <2>3, <2>4
<1>8. ASSUME NEW d \in Device, NEW e \in Envelope, OpenReceipt(d, e)
      PROVE  \A x \in Tables' : x \in Tables \/ Genuine(x)'
  <2>1. Genuine(e)
    BY <1>1, <1>8 DEF OpenReceipt, Openable, Reading, Provenance
  <2>2. Tables' \subseteq Tables \union {e}
    BY <1>8 DEF OpenReceipt, Remember, relay, Tables
  <2>3. QED
    BY <1>2, <2>1, <2>2
<1>9. ASSUME NEW d \in Device, RelayStep(d)
      PROVE  \A e \in Tables' : e \in Tables \/ Genuine(e)'
  <2>1. Tables' \subseteq Tables \union rpc[d].ids
    BY <1>9, RelayFrame DEF RelayStep, RelaySend, RelayPending, RelayAck, Enqueue,
                            Acknowledge, database, relay, Tables
  <2>2. \A e \in rpc[d].ids : e \in Envelope /\ Genuine(e)
    BY <1>1 DEF TypeOK, Request, Provenance
  <2>3. QED
    BY <1>2, <2>1, <2>2
<1>10. ASSUME NEW r \in late, ArriveLate(r)
       PROVE  \A e \in Tables' : e \in Tables \/ Genuine(e)'
  <2>1. Tables' \subseteq Tables \union r.ids
    BY <1>10 DEF ArriveLate, Enqueue, Acknowledge, database, Tables
  <2>2. \A e \in r.ids : e \in Envelope /\ Genuine(e)
    BY <1>1 DEF TypeOK, LateRequest, Provenance
  <2>3. QED
    BY <1>2, <2>1, <2>2
<1>11. ASSUME NEW e \in Envelope, Expire(e)
       PROVE  Tables' \subseteq Tables
  BY <1>11 DEF Expire, database, Tables
<1>12. ASSUME UNCHANGED <<outbox, controls, mailbox, seen>>
       PROVE  Tables' \subseteq Tables
  BY <1>12 DEF Tables
<1>13. QED
  BY <1>4, <1>5, <1>6, <1>7, <1>8, <1>9, <1>10, <1>11, <1>12, UserFrame,
     FlushFrame, SyncFrame, FaultFrame DEF Next, database, relay

\* What daemons and requests carry is genuine.
LEMMA CarriedGenuine ==
  ASSUME IInv, Next
  PROVE  /\ \A x \in Device : \A e \in (pushed[x] \union page[x] \union rpc[x].ids)' : Genuine(e)'
         /\ \A r \in late' : \A e \in r.ids : Genuine(e)'
<1> DEFINE Good(S) == \A e \in S : e \in Envelope /\ Genuine(e)
           Carried(x) == pushed[x] \union page[x] \union rpc[x].ids
           NewRequest(x) == \/ rpc'[x] = rpc[x]
                            \/ rpc'[x].ids \subseteq rpc[x].ids
                            \/ Good(rpc'[x].ids)
<1>1. TypeOK /\ Provenance /\ AckedIsSeen
  BY DEF IInv, TypeInv
<1>2. \A e \in Envelope : Genuine(e) => Genuine(e)'
  BY GenuineKept
<1>3. /\ \A x \in Device : Good(Carried(x)) /\ Good(acks[x])
      /\ \A r \in late : Good(r.ids)
      /\ Good(outbox \union controls) /\ Good(mailbox)
  BY <1>1 DEF TypeOK, Provenance, Request, LateRequest, AckedIsSeen
<1>4. ASSUME \A x \in Device : pushed'[x] \subseteq pushed[x] \/ Good(pushed'[x]),
             \A x \in Device : page'[x] \subseteq Carried(x),
             \A x \in Device : NewRequest(x),
             \A r \in late' : r \in late \/ Good(r.ids)
      PROVE  /\ \A x \in Device : \A e \in Carried(x)' : Genuine(e)'
             /\ \A r \in late' : \A e \in r.ids : Genuine(e)'
  <2>1. \A x \in Device : Good(pushed'[x]) /\ Good(page'[x]) /\ Good(rpc'[x].ids)
    BY <1>3, <1>4
  <2>2. \A r \in late' : Good(r.ids)
    BY <1>3, <1>4
  <2>3. QED
    BY <1>2, <2>1, <2>2
<1>5. ASSUME NEW d \in Device, UserStep(d) \/ Retry(d)
      PROVE  UNCHANGED <<pushed, page, rpc, late>>
  BY <1>5, UserFrame DEF network
<1>6. ASSUME NEW d \in Device, FlushStep(d)
      PROVE  /\ UNCHANGED <<pushed, page, late>>
             /\ \A x \in Device : NewRequest(x)
  <2>1. UNCHANGED <<pushed, page, late>>
    BY <1>6, FlushFrame DEF network
  <2>2. CASE SendRequest(d)
    <3>1. PICK e \in outbox \union controls :
                 rpc' = [rpc EXCEPT ![d] = [op |-> "send", ids |-> {e}, at |-> "net"]]
      BY <2>2 DEF SendRequest, Oldest, Queue, Call
    <3>2. Good({e})
      BY <1>3
    <3>3. \A x \in Device : rpc'[x] = rpc[x] \/ rpc'[x].ids = {e}
      BY <1>1, <3>1 DEF TypeOK
    <3>4. QED
      BY <2>1, <3>2, <3>3
  <2>3. CASE QueueEmpty(d) \/ Sent(d) \/ SendRefused(d)
    <3>1. Hangup(d) \/ UNCHANGED rpc
      BY <2>3 DEF QueueEmpty, Sent, SendRefused
    <3>2. \A x \in Device : rpc'[x] = rpc[x] \/ rpc'[x].ids = {}
      BY <1>1, <3>1 DEF Hangup, NoRequest, TypeOK
    <3>3. QED
      BY <2>1, <3>2
  <2>4. QED
    BY <1>6, <2>1, <2>2, <2>3 DEF FlushStep
<1>7. ASSUME NEW d \in Device, SyncStep(d)
      PROVE  /\ UNCHANGED late
             /\ \A x \in Device : pushed'[x] \subseteq pushed[x]
             /\ \A x \in Device : page'[x] \subseteq Carried(x)
             /\ \A x \in Device : NewRequest(x)
  <2>1. UNCHANGED late
    BY <1>7, SyncFrame DEF network
  <2>2. \A x \in Device : pushed'[x] \subseteq pushed[x]
    BY <1>1, <1>7
    DEF SyncStep, TakePushed, AskPending, PendingAnswered, PendingRefused,
        Duplicate, MeetSender, OpenText, OpenReceipt, SendAcks, AcksAnswered,
        NothingToAck, process, TypeOK
  <2>3. \A x \in Device : page'[x] \subseteq Carried(x)
    <3>1. CASE TakePushed(d)
      BY <1>1, <3>1 DEF TakePushed, TypeOK
    <3>2. CASE PendingAnswered(d)
      BY <1>1, <3>2 DEF PendingAnswered, TypeOK
    <3>3. CASE PendingRefused(d)
      BY <1>1, <3>3 DEF PendingRefused, AbortJob, TypeOK
    <3>4. ASSUME NEW e \in Envelope,
                 Duplicate(d, e) \/ OpenText(d, e) \/ OpenReceipt(d, e)
          PROVE  page' = [page EXCEPT ![d] = @ \ {e}]
      BY <3>4 DEF Duplicate, OpenText, OpenReceipt, TurnTo
    <3>5. \/ TakePushed(d) \/ PendingAnswered(d) \/ PendingRefused(d)
          \/ \E e \in Envelope : page' = [page EXCEPT ![d] = @ \ {e}]
          \/ UNCHANGED page
      BY <1>7, <3>4 DEF SyncStep, AskPending, MeetSender, SendAcks, AcksAnswered,
                        NothingToAck, process
    <3>6. QED
      BY <1>1, <3>1, <3>2, <3>3, <3>5, ZenonT(60) DEF TypeOK
  <2>4. \A x \in Device : NewRequest(x)
    <3>1. CASE SendAcks(d)
      BY <1>1, <1>3, <3>1 DEF SendAcks, Call, TypeOK
    <3>2. CASE AskPending(d)
      BY <1>1, <3>2 DEF AskPending, Call, TypeOK
    <3>3. CASE PendingAnswered(d) \/ PendingRefused(d) \/ AcksAnswered(d)
      BY <1>1, <3>3 DEF PendingAnswered, PendingRefused, AcksAnswered, Hangup,
                        NoRequest, TypeOK
    <3>4. SendAcks(d) \/ AskPending(d) \/ PendingAnswered(d) \/ PendingRefused(d)
          \/ AcksAnswered(d) \/ UNCHANGED rpc
      BY <1>7 DEF SyncStep, TakePushed, Duplicate, MeetSender, OpenText,
                  OpenReceipt, NothingToAck, process
    <3>5. QED
      BY <3>1, <3>2, <3>3, <3>4
  <2>5. QED
    BY <2>1, <2>2, <2>3, <2>4
<1>8. ASSUME NEW d \in Device, RelayStep(d)
      PROVE  /\ UNCHANGED <<page, late>>
             /\ \A x \in Device : pushed'[x] \subseteq pushed[x] \/ Good(pushed'[x])
             /\ \A x \in Device : NewRequest(x)
  <2>1. UNCHANGED <<page, late>>
    BY <1>8, RelayFrame DEF network
  <2>2. CASE RelaySend(d)
    <3>1. PICK e \in rpc[d].ids : Push(e)
      BY <2>2 DEF RelaySend
    <3>2. Good({e}) /\ \A x \in Device : Good(pushed[x])
      BY <1>3, <3>1
    <3>3. \A x \in Device : Good(pushed'[x])
      BY <1>1, <3>1, <3>2, PushFacts
    <3>4. QED
      BY <1>1, <2>1, <2>2, <3>3, AnswerFacts DEF RelaySend
  <2>3. CASE RelayPending(d)
    BY <1>1, <1>3, <2>1, <2>3, ZenonT(60) DEF RelayPending, Answered, TypeOK, Request
  <2>4. CASE RelayAck(d)
    BY <1>1, <2>1, <2>4, AnswerFacts DEF RelayAck
  <2>5. QED
    BY <1>8, <2>2, <2>3, <2>4 DEF RelayStep
<1>9. ASSUME NEW d \in Device, FaultStep(d)
      PROVE  /\ \A x \in Device : pushed'[x] \subseteq pushed[x]
             /\ \A x \in Device : page'[x] \subseteq page[x]
             /\ \A x \in Device : NewRequest(x)
             /\ \A r \in late' : r \in late \/ Good(r.ids)
  <2>1. CASE Refuse(d)
    BY <1>1, <2>1, AnswerFacts DEF Refuse
  <2>2. CASE TimeOut(d) \/ Crash(d)
    <3>1. Hangup(d) /\ Abandon(d)
      BY <2>2 DEF TimeOut, Crash
    <3>2. \A x \in Device : /\ pushed'[x] \subseteq pushed[x]
                            /\ page'[x] \subseteq page[x]
      BY <1>1, <2>2 DEF TimeOut, Crash, AbortJob, TypeOK
    <3>3. \A x \in Device : NewRequest(x)
      BY <1>1, <3>1 DEF Hangup, NoRequest, TypeOK
    <3>4. \A r \in late' : r \in late \/ Good(r.ids)
      BY <1>3, <3>1 DEF Abandon
    <3>5. QED
      BY <3>2, <3>3, <3>4
  <2>3. ASSUME NEW e \in Envelope, MeetSenderFails(d, e) \/ RollBack(d, e)
        PROVE  /\ UNCHANGED <<pushed, rpc, late>>
               /\ \A x \in Device : page'[x] \subseteq page[x]
    BY <1>1, <2>3 DEF MeetSenderFails, RollBack, TurnTo, AbortJob, TypeOK
  <2>4. QED
    BY <1>9, <2>1, <2>2, <2>3 DEF FaultStep
<1>10. ASSUME NEW e \in Envelope, Expire(e)
       PROVE  UNCHANGED <<pushed, page, rpc, late>>
  BY <1>10, NetworkFrame
<1>11. ASSUME NEW r \in late, ArriveLate(r)
       PROVE  /\ UNCHANGED <<page, rpc>> /\ late' \subseteq late
              /\ \A x \in Device : pushed'[x] \subseteq pushed[x] \/ Good(pushed'[x])
  <2>1. UNCHANGED <<page, rpc>> /\ late' \subseteq late
    BY <1>11 DEF ArriveLate
  <2>2. UNCHANGED pushed \/ \E e \in r.ids : Push(e)
    BY <1>11 DEF ArriveLate
  <2>3. ASSUME NEW e \in r.ids, Push(e)
        PROVE  \A x \in Device : Good(pushed'[x])
    BY <1>1, <1>3, <2>3, PushFacts
  <2>4. QED
    BY <2>1, <2>2, <2>3
<1> HIDE DEF NewRequest
<1>12. /\ \A x \in Device : pushed'[x] \subseteq pushed[x] \/ Good(pushed'[x])
       /\ \A x \in Device : page'[x] \subseteq Carried(x)
       /\ \A x \in Device : NewRequest(x)
       /\ \A r \in late' : r \in late \/ Good(r.ids)
  <2>1. UNCHANGED rpc => \A x \in Device : NewRequest(x)
    BY DEF NewRequest
  <2>2. QED
    BY <1>5, <1>6, <1>7, <1>8, <1>9, <1>10, <1>11, <2>1 DEF Next
<1>13. QED
  BY <1>4, <1>12

LEMMA ProvenanceKept ==
  ASSUME IInv, Next
  PROVE  Provenance'
<1>1. TypeOK /\ Provenance
  BY DEF IInv, TypeInv
<1>2. /\ \A m \in Msg : copies[m] > 0 => copies'[m] > 0
      /\ \A m \in Msg : status[m] # Unsent => status'[m] # Unsent
  BY GenuineKept, AcceptedKept
<1>3. ASSUME NEW d \in Device, NEW e \in Envelope, OpenText(d, e)
      PROVE  /\ \A x, p \in Device : \/ latest'[x][p] = latest[x][p]
                                    \/ latest'[x][p] = e.msg
             /\ copies' = [copies EXCEPT ![e.msg] = @ + 1]
             /\ e.msg \in Msg /\ copies'[e.msg] > 0 /\ status'[e.msg] # Unsent
  <2>1. Genuine(e) /\ e.msg \in Msg
    BY <1>1, <1>3, EndpointFacts
    DEF OpenText, Openable, Reading, Provenance
  <2>2. \A x, p \in Device : latest'[x][p] = latest[x][p] \/ latest'[x][p] = e.msg
    BY <1>1, <1>3, EndpointFacts DEF OpenText, TypeOK
  <2>3. QED
    BY <1>1, <1>3, <2>1, <2>2 DEF OpenText, Genuine, TypeOK
<1>4. /\ \A d, p \in Device : latest'[d][p] \in Msg => copies'[latest'[d][p]] > 0
      /\ \A m \in Msg : copies'[m] > 0 => status'[m] # Unsent
  <2>1. CASE \E d \in Device, e \in Envelope : OpenText(d, e)
    <3>1. PICK d \in Device, e \in Envelope : OpenText(d, e)
      BY <2>1
    <3>2. \A m \in Msg : copies'[m] > 0 => m = e.msg \/ copies[m] > 0
      BY <1>1, <1>3, <3>1 DEF TypeOK
    <3>3. QED
      BY <1>1, <1>2, <1>3, <3>1, <3>2 DEF Provenance
  <2>2. CASE UNCHANGED <<copies, latest>>
    BY <1>1, <1>2, <2>2 DEF Provenance
  <2>3. \A d \in Device, e \in Envelope :
          OpenReceipt(d, e) => UNCHANGED <<copies, latest>>
    BY DEF OpenReceipt
  <2>4. QED
    BY <2>1, <2>2, <2>3, UserFrame, FlushFrame, SyncFrame, RelayFrame, FaultFrame,
       NetworkFrame DEF Next, database
<1>5. QED
  BY <1>4, TablesGenuine, CarriedGenuine DEF Provenance

-----------------------------------------------------------------------------
(* Nothing is lost.                                                        *)

\* A row leaves an outbox only when the relay has had its envelope.
LEMMA ReleasedIsHeld ==
  ASSUME IInv, Next
  PROVE  \A e \in outbox \union controls :
           e \notin outbox' \union controls' => e \in Held
<1>1. ASSUME NEW d \in Device, Sent(d)
      PROVE  \A e \in outbox \union controls :
               e \notin outbox' \union controls' => e \in Held
  <2>1. rpc[d].ids \subseteq Held
    BY <1>1 DEF Sent, Answered, IInv, AcceptedIsHeld
  <2>2. QED
    BY <1>1, <2>1 DEF Sent
<1>2. /\ \A d \in Device, m \in Msg :
           Send(d, m) => outbox \subseteq outbox' /\ controls \subseteq controls'
      /\ \A d, p \in Device :
           ReadReceipt(d, p) => outbox \subseteq outbox' /\ controls \subseteq controls'
      /\ \A d \in Device, e \in Envelope :
           OpenText(d, e) => controls \subseteq controls'
      /\ \A d \in Device, e \in Envelope :
           OpenReceipt(d, e) => controls \subseteq controls'
  BY DEF Send, ReadReceipt, OpenText, OpenReceipt
<1>3. QED
  BY <1>1, <1>2, UserFrame, FlushFrame, SyncFrame, RelayFrame, FaultFrame,
     NetworkFrame DEF Next, database

LEMMA NothingLostKept ==
  ASSUME IInv, Next
  PROVE  NothingLost'
<1>1. NothingLost /\ TypeOK /\ Provenance
  BY DEF IInv, TypeInv
<1>2. \A e : Safe(e) => Safe(e)'
  BY ReleasedIsHeld, HeldKept DEF Safe, Held
<1>3. ASSUME NEW m \in Msg, status'[m] # Unsent
      PROVE  Safe(Text(m))'
  <2>1. CASE status[m] # Unsent
    BY <1>1, <1>2, <2>1 DEF NothingLost
  <2>2. CASE status[m] = Unsent
    <3>1. PICK d \in Device, x \in Msg : Send(d, x)
      BY <1>3, <2>2, AcceptedKept
    <3>2. x = m /\ Text(x) \in outbox'
      BY <1>1, <1>3, <2>2, <3>1 DEF Send, TypeOK
    <3>3. QED
      BY <3>2 DEF Safe
  <2>3. QED
    BY <2>1, <2>2
<1>4. ASSUME NEW m \in Msg, copies'[m] > 0
      PROVE  Safe(Delivered(m))'
  <2>1. CASE copies[m] > 0
    BY <1>1, <1>2, <2>1 DEF NothingLost
  <2>2. ASSUME NEW d \in Device, NEW e \in Envelope, OpenText(d, e), ~(copies[m] > 0)
        PROVE  Safe(Delivered(m))'
    <3>1. m = e.msg /\ Delivered(e.msg) \in controls'
      BY <1>1, <1>4, <2>2 DEF OpenText, TypeOK
    <3>2. QED
      BY <3>1 DEF Safe
  <2>3. UNCHANGED copies \/ \E d \in Device, e \in Envelope : OpenText(d, e)
    <3>1. \A d \in Device, e \in Envelope : OpenReceipt(d, e) => UNCHANGED copies
      BY DEF OpenReceipt
    <3>2. QED
      BY <3>1, UserFrame, FlushFrame, SyncFrame, RelayFrame, FaultFrame,
         NetworkFrame DEF Next, database
  <2>4. QED
    BY <1>4, <2>1, <2>2, <2>3
<1>5. QED
  BY <1>3, <1>4 DEF NothingLost

-----------------------------------------------------------------------------
(* The status shown is backed by what happened at the other side.          *)

\* The rows of messages keep their place: only Send gives one.
LEMMA RowsKept ==
  ASSUME IInv, Next, NEW m \in Msg, status[m] # Unsent
  PROVE  rowid'[Text(m)] = rowid[Text(m)]
<1>1. rowid \in [Envelope -> Nat] /\ Text(m) \in Envelope
  BY EnvelopeFacts DEF IInv, TypeInv, TypeOK
<1>2. ASSUME NEW d \in Device, NEW x \in Msg, Send(d, x)
      PROVE  rowid'[Text(m)] = rowid[Text(m)]
  <2>1. Text(x) # Text(m)
    BY <1>2, EnvelopeFacts DEF Send
  <2>2. QED
    BY <1>1, <1>2, <2>1 DEF Send, Write
<1>3. ASSUME NEW d \in Device, NEW p \in Device, ReadReceipt(d, p)
      PROVE  rowid'[Text(m)] = rowid[Text(m)]
  <2>1. Read(latest[d][p]) # Text(m)
    BY DEF Read, Text
  <2>2. QED
    BY <1>1, <1>3, <2>1 DEF ReadReceipt, Write
<1>4. ASSUME NEW d \in Device, NEW e \in Envelope, OpenText(d, e)
      PROVE  rowid'[Text(m)] = rowid[Text(m)]
  <2>1. Delivered(e.msg) # Text(m)
    BY DEF Delivered, Text
  <2>2. QED
    BY <1>1, <1>4, <2>1 DEF OpenText, Write
<1>5. \A d \in Device, e \in Envelope : OpenReceipt(d, e) => UNCHANGED rowid
  BY DEF OpenReceipt
<1>6. QED
  BY <1>2, <1>3, <1>4, <1>5, UserFrame, FlushFrame, SyncFrame, RelayFrame,
     FaultFrame, NetworkFrame DEF Next, database

LEMMA StatusIsBackedKept ==
  ASSUME IInv, Next
  PROVE  StatusIsBacked'
<1> DEFINE Backs(x, m) == /\ From[x] = From[m] /\ To[x] = To[m]
                          /\ rowid[Text(m)] <= rowid[Text(x)]
                          /\ copies[x] > 0
<1>1. StatusIsBacked /\ TypeOK /\ Provenance
  BY DEF IInv, TypeInv
<1>2. /\ \A m \in Msg : copies[m] > 0 => copies'[m] > 0
      /\ \A m \in Msg : copies[m] > 0 => status[m] # Unsent
  BY <1>1, GenuineKept DEF Provenance
<1>3. ASSUME NEW m \in Msg, NEW x \in Msg, status[m] # Unsent, Backs(x, m)
      PROVE  Backs(x, m)'
  BY <1>2, <1>3, RowsKept
<1>4. ASSUME \A m \in Msg : status'[m] \in {"queued", "sent"} \/ status'[m] = status[m]
      PROVE  StatusIsBacked'
  <2>1. ASSUME NEW m \in Msg, status'[m] = "delivered" PROVE copies'[m] > 0
    BY <1>1, <1>2, <1>4, <2>1 DEF StatusIsBacked
  <2>2. ASSUME NEW m \in Msg, status'[m] = "read"
        PROVE  \E x \in Msg : Backs(x, m)'
    <3>1. status[m] = "read" /\ status[m] # Unsent
      BY <1>4, <2>2 DEF Unsent
    <3>2. PICK x \in Msg : Backs(x, m)
      BY <1>1, <3>1 DEF StatusIsBacked
    <3>3. QED
      BY <1>3, <3>1, <3>2
  <2>3. QED
    BY <2>1, <2>2 DEF StatusIsBacked
<1>5. ASSUME NEW d \in Device, NEW m \in Msg, Send(d, m)
      PROVE  \A x \in Msg : status'[x] = "queued" \/ status'[x] = status[x]
  BY <1>1, <1>5 DEF Send, TypeOK
<1>6. ASSUME NEW d \in Device, Sent(d)
      PROVE  \A x \in Msg : status'[x] = "sent" \/ status'[x] = status[x]
  BY <1>1, <1>6 DEF Sent, MarkSent, TypeOK
<1>7. ASSUME NEW d \in Device, NEW e \in Envelope, OpenReceipt(d, e)
      PROVE  StatusIsBacked'
  <2>1. Genuine(e) /\ e.kind # "text" /\ e.msg \in Msg
    BY <1>1, <1>7, EndpointFacts
    DEF OpenReceipt, Openable, Reading, Provenance
  <2>2. copies[e.msg] > 0
    BY <2>1 DEF Genuine
  <2>3. UNCHANGED <<rowid, copies>>
    BY <1>7 DEF OpenReceipt
  <2>4. CASE MarkDelivered(e.msg)
    BY <1>1, <2>1, <2>2, <2>3, <2>4 DEF MarkDelivered, StatusIsBacked, TypeOK
  <2>5. CASE MarkRead(e.msg)
    <3>1. \A m \in Msg : \/ status'[m] = status[m]
                         \/ status'[m] = "read" /\ Backs(e.msg, m)
      BY <2>1, <2>2, <2>5 DEF MarkRead
    <3>2. QED
      BY <1>1, <2>1, <2>2, <2>3, <3>1 DEF StatusIsBacked
  <2>6. QED
    BY <1>7, <2>4, <2>5 DEF OpenReceipt
<1>8. /\ \A d, p \in Device : ReadReceipt(d, p) => UNCHANGED status
      /\ \A d \in Device, e \in Envelope : OpenText(d, e) => UNCHANGED status
  BY DEF ReadReceipt, OpenText
<1>9. QED
  BY <1>4, <1>5, <1>6, <1>7, <1>8, UserFrame, FlushFrame, SyncFrame, RelayFrame,
     FaultFrame, NetworkFrame DEF Next, database

-----------------------------------------------------------------------------
(* The theorems.                                                           *)

LEMMA InvariantInit == Init => IInv
<1> SUFFICES ASSUME Init PROVE IInv
  OBVIOUS
<1>1. TypeInv
  BY TypeInit
<1>2. Provenance
  BY MessagingAssumption DEF Init, Provenance, NoRequest
<1>3. StoredIsSeen /\ NoneStuck /\ AckedIsSeen /\ AcceptedIsHeld
  BY DEF Init, StoredIsSeen, NoneStuck, AckedIsSeen, AcceptedIsHeld, NoRequest
<1>4. NothingLost /\ StatusIsBacked
  BY DEF Init, NothingLost, StatusIsBacked, Unsent
<1>5. QED
  BY <1>1, <1>2, <1>3, <1>4 DEF IInv

LEMMA InvariantStutter ==
  ASSUME IInv, UNCHANGED vars
  PROVE  IInv'
<1>1. TypeInv'
  BY DEF IInv, TypeInv, TypeOK, WaitsInsideJob, Waiting, vars, database, relay,
         process, network
<1>2. Provenance' /\ StoredIsSeen' /\ NoneStuck' /\ AckedIsSeen' /\ AcceptedIsHeld'
  BY DEF IInv, Provenance, Genuine, StoredIsSeen, NoneStuck, AckedIsSeen,
         AcceptedIsHeld, Held, vars, database, relay, process, network
<1>3. NothingLost' /\ StatusIsBacked'
  BY DEF IInv, NothingLost, Safe, StatusIsBacked, vars, database, relay
<1>4. QED
  BY <1>1, <1>2, <1>3 DEF IInv

\* Every reachable state satisfies the inductive invariant.
THEOREM Invariant == Spec => []IInv
<1>1. ASSUME IInv, [Next]_vars PROVE IInv'
  <2>1. ASSUME Next PROVE IInv'
    <3>1. TypeInv'
      BY <1>1, <2>1, TypeNext DEF IInv
    <3>2. QED
      BY <1>1, <2>1, <3>1, ProvenanceKept, StoredIsSeenKept, AckedIsSeenKept,
         AcceptedIsHeldKept, NothingLostKept, StatusIsBackedKept DEF IInv
  <2>2. QED
    BY <1>1, <2>1, InvariantStutter
<1>2. QED
  BY InvariantInit, <1>1, PTL DEF Spec

\* However requests are retried, duplicated, delayed and lost and daemons
\* killed: a message is stored once, and nothing accepted is lost
\* (messages.ts:229-233, 358).
THEOREM Safety == Spec => [](StoredOnce /\ NothingLost)
<1>1. IInv => StoredOnce
  BY DEF IInv, StoredIsSeen, StoredOnce
<1>2. IInv => NothingLost
  BY DEF IInv
<1>3. QED
  BY Invariant, <1>1, <1>2, PTL

\* What a sender is shown claims no more than has happened (messages.ts:193, 306, 307).
THEOREM Backed == Spec => []StatusIsBacked
<1>1. IInv => StatusIsBacked
  BY DEF IInv
<1>2. QED
  BY Invariant, <1>1, PTL

\* No envelope gets stuck half processed: one whose key was used up is remembered
\* (messages.ts:229-233, 294-368).
THEOREM Unstuck == Spec => []NoneStuck
<1>1. IInv => NoneStuck
  BY DEF IInv
<1>2. QED
  BY Invariant, <1>1, PTL

\* The relay forgets an envelope only after the recipient's commit or with its
\* retention, and a sender its outbox row only when the relay has had it.
THEOREM Custody == Spec => CustodyKept
<1>1. ASSUME IInv, [Next]_vars
      PROVE  \A e \in Envelope : e \in mailbox /\ e \notin mailbox'
               => e \in seen \/ e \in expired'
  BY <1>1, HeldKept DEF vars, relay
<1>2. ASSUME IInv, [Next]_vars
      PROVE  \A e \in outbox \union controls :
               e \notin outbox' \union controls'
                 => e \in mailbox \union seen \union expired
  BY <1>2, ReleasedIsHeld DEF vars, database, Held
<1>3. QED
  BY Invariant, <1>1, <1>2, PTL DEF Spec, CustodyKept, ForgottenOnlyWhenSeen, ReleasedOnlyWhenHeld

-----------------------------------------------------------------------------
(* The refinement of Delivery.                                             *)

Accepted  == {m \in Msg : status[m] # Unsent}
Confirmed == {m \in Msg : Delivered(m) \in seen \/ Read(m) \in seen}
Lapsed    == {m \in Msg : Text(m) \in expired}

LEMMA DeliveryStep ==
  ASSUME IInv, Next
  PROVE  Abstract!Next \/ UNCHANGED <<Accepted, copies, Confirmed, Lapsed>>
<1>1. TypeOK /\ Provenance /\ StoredIsSeen
  BY DEF IInv, TypeInv
<1>2. CASE \E d \in Device, m \in Msg : Send(d, m)
  <2>1. PICK d \in Device, m \in Msg : Send(d, m)
    BY <1>2
  <2>2. /\ status[m] = Unsent
        /\ status' = [status EXCEPT ![m] = "queued"]
        /\ UNCHANGED <<copies, seen, expired>>
    BY <2>1 DEF Send, relay
  <2>3. /\ m \notin Accepted
        /\ Accepted' = Accepted \union {m}
        /\ UNCHANGED <<copies, Confirmed, Lapsed>>
    BY <1>1, <2>2 DEF TypeOK, Unsent, Accepted, Confirmed, Lapsed
  <2>4. Abstract!Accept(m)
    BY <2>3 DEF Abstract!Accept, Accepted, Confirmed, Lapsed
  <2>5. QED
    BY <2>4 DEF Abstract!Next
<1>3. CASE ~\E d \in Device, m \in Msg : Send(d, m)
  <2>1. Accepted' = Accepted
    BY <1>3, AcceptedKept DEF Accepted
  <2>2. CASE \E d \in Device, e \in Envelope : OpenText(d, e)
    <3>1. PICK d \in Device, e \in Envelope : OpenText(d, e)
      BY <2>2
    <3>2. /\ e \notin seen /\ e.msg \in Msg /\ e = Text(e.msg) /\ Genuine(e)
          /\ seen' = seen \union {e} /\ UNCHANGED expired
          /\ copies' = [copies EXCEPT ![e.msg] = @ + 1]
      BY <1>1, <3>1
      DEF OpenText, Openable, Reading, Remember, relay, Provenance,
          Envelope, Text
    <3>3. copies[e.msg] = 0 /\ e.msg \in Accepted
      BY <1>1, <3>2 DEF StoredIsSeen, Accepted, Genuine
    <3>4. copies' = [copies EXCEPT ![e.msg] = 1]
      BY <1>1, <3>2, <3>3 DEF TypeOK
    <3>5. \A m \in Msg : Delivered(m) # e /\ Read(m) # e
      BY <3>1, EnvelopeFacts DEF OpenText
    <3>6. UNCHANGED <<Confirmed, Lapsed>>
      BY <3>2, <3>5 DEF Confirmed, Lapsed
    <3>7. Abstract!Deliver(e.msg)
      BY <2>1, <3>3, <3>4, <3>6 DEF Abstract!Deliver, Accepted, Confirmed, Lapsed
    <3>8. QED
      BY <3>2, <3>7 DEF Abstract!Next
  <2>3. CASE \E d \in Device, e \in Envelope : OpenReceipt(d, e)
    <3>1. PICK d \in Device, e \in Envelope : OpenReceipt(d, e)
      BY <2>3
    <3>2. /\ e.msg \in Msg /\ e.kind # "text" /\ Genuine(e)
          /\ seen' = seen \union {e} /\ UNCHANGED <<expired, copies>>
      BY <1>1, <3>1, EndpointFacts
      DEF OpenReceipt, Openable, Reading, Remember, relay, Provenance
    <3>3. copies[e.msg] = 1
      BY <1>1, <3>2 DEF StoredIsSeen, Genuine
    <3>4. e = Delivered(e.msg) \/ e = Read(e.msg)
      BY <3>2 DEF Envelope, Delivered, Read
    <3>5. \A m \in Msg : Delivered(m) = e \/ Read(m) = e <=> m = e.msg
      BY <3>2, <3>4, EnvelopeFacts
    <3>6. Confirmed' = Confirmed \union {e.msg} /\ UNCHANGED Lapsed
      BY <3>2, <3>5 DEF Confirmed, Lapsed
    <3>7. Abstract!Confirm(e.msg)
      BY <2>1, <3>2, <3>3, <3>6 DEF Abstract!Confirm, Accepted, Confirmed, Lapsed
    <3>8. QED
      BY <3>2, <3>7 DEF Abstract!Next
  <2>4. CASE \E e \in Envelope : Expire(e)
    <3>1. PICK e \in Envelope : Expire(e)
      BY <2>4
    <3>2. /\ e.msg \in Msg /\ Genuine(e)
          /\ expired' = expired \union {e} /\ UNCHANGED <<copies, seen>>
      BY <1>1, <3>1, EndpointFacts DEF Expire, database, Provenance
    <3>3. UNCHANGED Confirmed
      BY <3>2 DEF Confirmed
    <3>4. CASE e.kind = "text"
      <4>1. \A m \in Msg : Text(m) = e <=> m = e.msg
        BY <3>4, EnvelopeFacts DEF Envelope, Text
      <4>2. Lapsed' = Lapsed \union {e.msg} /\ e.msg \in Accepted
        BY <3>2, <4>1 DEF Lapsed, Accepted, Genuine
      <4>3. Abstract!Lapse(e.msg)
        BY <2>1, <3>2, <3>3, <4>2 DEF Abstract!Lapse, Accepted, Confirmed, Lapsed
      <4>4. QED
        BY <3>2, <4>3 DEF Abstract!Next
    <3>5. CASE e.kind # "text"
      <4>1. \A m \in Msg : Text(m) # e
        BY <3>5, EnvelopeFacts
      <4>2. UNCHANGED Lapsed
        BY <3>2, <4>1 DEF Lapsed
      <4>3. QED
        BY <2>1, <3>2, <3>3, <4>2
    <3>6. QED
      BY <3>4, <3>5
  <2>5. CASE UNCHANGED <<copies, seen, expired>>
    BY <2>1, <2>5 DEF Confirmed, Lapsed
  <2>6. QED
    BY <1>3, <2>2, <2>3, <2>4, <2>5, UserFrame, FlushFrame, SyncFrame, RelayFrame,
       FaultFrame, NetworkFrame DEF Next, database, relay
<1>4. QED
  BY <1>2, <1>3

\* The exchange of envelopes implements the delivery service of module Delivery.
THEOREM Refinement == Spec => ImplementsDelivery
<1>1. Init => Abstract!Init
  BY EnvelopeFacts DEF Init, Abstract!Init, Unsent
<1>2. ASSUME IInv, [Next]_vars
      PROVE  [Abstract!Next]_(Abstract!dvars)
  <2>1. CASE Next
    BY <1>2, <2>1, DeliveryStep DEF Abstract!dvars, Accepted, Confirmed, Lapsed
  <2>2. CASE UNCHANGED vars
    BY <2>2 DEF Abstract!dvars, vars, database, relay
  <2>3. QED
    BY <1>2, <2>1, <2>2
<1>3. QED
  BY Invariant, <1>1, <1>2, PTL DEF Spec, ImplementsDelivery, Abstract!Spec
=============================================================================
