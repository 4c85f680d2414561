-------------------------- MODULE TorRoutingProofs --------------------------
(***************************************************************************)
(* Theorems about module TorRouting, for every set of devices, messages    *)
(* and peers, every mix of modes and any number of faults and changes.     *)
(***************************************************************************)
EXTENDS TorRouting, TLAPS

-----------------------------------------------------------------------------
(* Envelopes.                                                              *)

\* The constructors build envelopes and are told apart by their kind.
LEMMA EnvelopeFacts ==
  ASSUME NEW m \in Msg
  PROVE  /\ Text(m) \in Envelope /\ Delivered(m) \in Envelope
         /\ Read(m) \in Envelope
         /\ Text(m).kind = "text" /\ Text(m).msg = m
         /\ Delivered(m).kind = "delivered" /\ Delivered(m).msg = m
         /\ Read(m).kind = "read" /\ Read(m).msg = m
BY DEF Envelope, Text, Delivered, Read

\* An envelope comes from a device and goes to a device.
LEMMA EndpointFacts ==
  ASSUME NEW e \in Envelope
  PROVE  /\ e.msg \in Msg
         /\ Origin(e) \in Device
         /\ Target(e) \in Device
BY EnvelopeAssumption DEF Envelope, Origin, Target

-----------------------------------------------------------------------------
(* Facts about the helpers.                                                *)

\* A phase that ends, and one that continues with another, leave a list of phases.
LEMMA TailOfJob ==
  ASSUME NEW s \in Seq(PhaseName), s # <<>>
  PROVE  /\ Tail(s) \in Seq(PhaseName)
         /\ <<"process">> \o Tail(s) \in Seq(PhaseName)
         /\ <<"ack">> \o Tail(s) \in Seq(PhaseName)
<1>1. Tail(s) \in Seq(PhaseName)
  OBVIOUS
<1>2. <<"process">> \in Seq(PhaseName) /\ <<"ack">> \in Seq(PhaseName)
  BY DEF PhaseName
<1>3. QED
  BY <1>1, <1>2

\* The phases of the two kinds of job.
LEMMA JobPlans ==
  /\ <<>> \in Seq(PhaseName)
  /\ <<"flush">> \in Seq(PhaseName)
  /\ <<"sync", "flush", "controls">> \in Seq(PhaseName)
BY DEF PhaseName

\* The same task as before, perhaps unlinked, out of its session or given up.
Kin(u, t) == u.of = t.of /\ u.at = t.at /\ (u.inSession => t.inSession)
OnlyKin == \A u \in tasks' : \E t \in tasks : Kin(u, t)

\* One task steps, ends or is given up; the others stay.
LEMMA TaskMoves ==
  ASSUME TypeOK, NEW t \in tasks
  PROVE  /\ \A x \in TaskPoint : StepTask(t, x) =>
              /\ tasks' \subseteq Task
              /\ \A u \in tasks' : u \in tasks \/ (u.of = t.of /\ u.at = x)
         /\ EndTask(t) => tasks' \subseteq tasks
         /\ AbandonTask(t) => tasks' \subseteq Task /\ OnlyKin
<1>1. tasks \subseteq Task /\ t \in Task
  BY DEF TypeOK
<1>2. ASSUME NEW x \in TaskPoint, StepTask(t, x)
      PROVE  /\ tasks' \subseteq Task
             /\ \A u \in tasks' : u \in tasks \/ (u.of = t.of /\ u.at = x)
  <2>1. /\ [t EXCEPT !.at = x] \in Task
        /\ [t EXCEPT !.at = x].of = t.of /\ [t EXCEPT !.at = x].at = x
    BY <1>1 DEF Task
  <2>2. QED
    BY <1>1, <1>2, <2>1 DEF StepTask
<1>3. EndTask(t) => tasks' \subseteq tasks
  BY DEF EndTask
<1>4. ASSUME AbandonTask(t)
      PROVE  tasks' \subseteq Task /\ OnlyKin
  <2>1. /\ [t EXCEPT !.alive = FALSE] \in Task
        /\ Kin([t EXCEPT !.alive = FALSE], t)
    BY <1>1 DEF Task, Kin
  <2>2. \A u \in tasks' : u \in tasks \/ u = [t EXCEPT !.alive = FALSE]
    BY <1>4 DEF AbandonTask
  <2>3. QED
    BY <1>1, <2>1, <2>2 DEF OnlyKin, Kin
<1>5. QED
  BY <1>2, <1>3, <1>4

\* All tasks of a daemon lose their transport, and with stopTor their session.
LEMMA TaskSweeps ==
  ASSUME TypeOK, NEW d \in Device
  PROVE  /\ tasks' = Unlinked(d) => tasks' \subseteq Task /\ OnlyKin
         /\ StopTor(d) => /\ tasks' \subseteq Task /\ OnlyKin
                          /\ \A u \in tasks' : u.inSession => Origin(u.of) # d
<1>1. tasks \subseteq Task
  BY DEF TypeOK
<1>2. ASSUME NEW t \in Task, NEW p \in BOOLEAN
      PROVE  /\ [t EXCEPT !.linked = p] \in Task
             /\ Kin([t EXCEPT !.linked = p], t)
  BY DEF Task, Kin
<1>3. ASSUME tasks' = Unlinked(d)
      PROVE  tasks' \subseteq Task /\ OnlyKin
  <2>1. ASSUME NEW u \in tasks' PROVE u \in Task /\ \E t \in tasks : Kin(u, t)
    <3>1. PICK t \in tasks : u = [t EXCEPT !.linked = t.linked /\ Origin(t.of) # d]
      BY <1>3 DEF Unlinked
    <3>2. (t.linked /\ Origin(t.of) # d) \in BOOLEAN
      OBVIOUS
    <3>3. QED
      BY <1>1, <1>2, <3>1, <3>2
  <2>2. QED
    BY <2>1 DEF OnlyKin
<1>4. ASSUME StopTor(d)
      PROVE  /\ tasks' \subseteq Task /\ OnlyKin
             /\ \A u \in tasks' : u.inSession => Origin(u.of) # d
  <2>1. ASSUME NEW u \in tasks'
        PROVE  /\ u \in Task /\ \E t \in tasks : Kin(u, t)
               /\ u.inSession => Origin(u.of) # d
    <3>1. PICK t \in tasks :
            u = [t EXCEPT !.linked = t.linked /\ Origin(t.of) # d,
                          !.inSession = t.inSession /\ Origin(t.of) # d]
      BY <1>4 DEF StopTor
    <3> DEFINE linked    == t.linked /\ Origin(t.of) # d
               inSession == t.inSession /\ Origin(t.of) # d
    <3>2. /\ linked \in BOOLEAN /\ inSession \in BOOLEAN
          /\ inSession => t.inSession /\ Origin(t.of) # d
          /\ u = [t EXCEPT !.linked = linked, !.inSession = inSession]
      BY <3>1
    <3> HIDE DEF linked, inSession
    <3>3. /\ u \in Task /\ u.of = t.of /\ u.at = t.at /\ u.inSession = inSession
      BY <1>1, <3>2 DEF Task
    <3>4. QED
      BY <3>2, <3>3 DEF Kin
  <2>2. QED
    BY <2>1 DEF OnlyKin
<1>5. QED
  BY <1>3, <1>4

-----------------------------------------------------------------------------
(* Type correctness.                                                       *)

LEMMA TypeInit == Init => TypeOK
BY RoutingAssumption, JobPlans DEF Init, TypeOK, Unsent, TorState

LEMMA TypeUser ==
  ASSUME TypeOK, NEW d \in Device, UserStep(d) \/ Retry(d) \/ TorReady(d)
  PROVE  TypeOK'
<1> USE JobPlans DEF TypeOK, TorState, rows, received, transit, running, bounds,
        daemon, Change, SetTor
<1>1. ASSUME NEW m \in Msg, Send(d, m) PROVE TypeOK'
  BY <1>1, EnvelopeFacts DEF Send, Write
<1>2. CASE Lock(d)
  BY <1>2, TaskSweeps DEF Lock
<1>3. CASE Unlock(d)
  BY <1>3 DEF Unlock
<1>4. CASE Configure(d)
  BY <1>4, TaskSweeps DEF Configure
<1>5. CASE Retry(d)
  BY <1>5, TaskSweeps DEF Retry, EnsureTor
<1>6. CASE TorReady(d)
  BY <1>6 DEF TorReady
<1>7. QED
  BY <1>1, <1>2, <1>3, <1>4, <1>5, <1>6 DEF UserStep

LEMMA TypeFlush ==
  ASSUME TypeOK, NEW d \in Device, FlushStep(d)
  PROVE  TypeOK'
<1> USE TailOfJob DEF TypeOK, InPhase, EndPhase, rows, received, transit,
        running, bounds, daemon
<1>1. CASE StartTask(d)
  <2>1. PICK e \in Oldest(Queue(d)) :
          tasks' = tasks \union {[of |-> e, at |-> "tor", linked |-> TRUE,
                                  inSession |-> TRUE, alive |-> TRUE]}
    BY <1>1 DEF StartTask
  <2>2. e \in Envelope
    BY DEF Oldest, Queue
  <2>3. [of |-> e, at |-> "tor", linked |-> TRUE, inSession |-> TRUE,
         alive |-> TRUE] \in Task
    BY <2>2 DEF Task, TaskPoint
  <2>4. tasks' \subseteq Task
    BY <2>1, <2>3
  <2>5. QED
    BY <1>1, <2>4 DEF StartTask
<1>2. CASE HoldBack(d)
  BY <1>2 DEF HoldBack
<1>3. CASE QueueEmpty(d)
  BY <1>3 DEF QueueEmpty
<1>4. QED
  BY <1>1, <1>2, <1>3 DEF FlushStep

LEMMA TypeSync ==
  ASSUME TypeOK, NEW d \in Device, SyncStep(d)
  PROVE  TypeOK'
<1> USE TailOfJob DEF TypeOK, InPhase, EndPhase, TurnTo, Collect, Remember, rows,
        received, transit, running, bounds, daemon
<1>1. CASE TakePushed(d)
  BY <1>1 DEF TakePushed
<1>2. CASE ReadInbox(d)
  BY <1>2 DEF ReadInbox, InboxOf
<1>3. CASE AskRelay(d)
  BY <1>3 DEF AskRelay
<1>4. ASSUME NEW e \in Envelope, Duplicate(d, e) PROVE TypeOK'
  BY <1>4 DEF Duplicate
<1>5. ASSUME NEW e \in Envelope, OpenText(d, e) PROVE TypeOK'
  <2>1. e.msg \in Msg /\ Delivered(e.msg) \in Envelope
    BY EndpointFacts, EnvelopeFacts
  <2>2. QED
    BY <1>5, <2>1 DEF OpenText, Write
<1>6. ASSUME NEW e \in Envelope, OpenReceipt(d, e) PROVE TypeOK'
  BY <1>6, EndpointFacts DEF OpenReceipt
<1>7. CASE Acknowledge(d)
  BY <1>7 DEF Acknowledge
<1>8. CASE AcknowledgeAtRelay(d)
  BY <1>8 DEF AcknowledgeAtRelay
<1>9. QED
  BY <1>1, <1>2, <1>3, <1>4, <1>5, <1>6, <1>7, <1>8 DEF SyncStep

LEMMA TypeFault ==
  ASSUME TypeOK, NEW d \in Device, FaultStep(d)
  PROVE  TypeOK'
<1> USE JobPlans DEF TypeOK, TorState, Fault, AbortJob, SetTor, TurnTo, rows,
        received, transit, running, bounds, daemon
<1>1. CASE RetryWithoutTor(d)
  BY <1>1, TaskSweeps DEF RetryWithoutTor
<1>2. CASE RelayUnavailable(d)
  BY <1>2 DEF RelayUnavailable
<1>3. CASE AcknowledgeLost(d)
  BY <1>3 DEF AcknowledgeLost
<1>4. CASE TorNotStarted(d)
  BY <1>4, TaskSweeps DEF TorNotStarted
<1>5. CASE LoseTor(d)
  BY <1>5 DEF LoseTor
<1>6. CASE Crash(d)
  <2>1. \A t \in tasks : [t EXCEPT !.alive = FALSE] \in Task
    BY ZenonT(60) DEF Task
  <2>2. tasks' \subseteq Task
    BY <1>6, <2>1 DEF Crash
  <2>3. QED
    BY <1>6, <2>2 DEF Crash
<1>7. ASSUME NEW e \in Envelope, RollBack(d, e) PROVE TypeOK'
  BY <1>7 DEF RollBack
<1>8. QED
  BY <1>1, <1>2, <1>3, <1>4, <1>5, <1>6, <1>7 DEF FaultStep

LEMMA TypeTask ==
  ASSUME TypeOK, NEW t \in tasks, TaskStep(t)
  PROVE  TypeOK'
<1> USE DEF TypeOK, TaskPoint, Fault, rows, received, transit, running, bounds,
        daemon
<1>1. t \in Task /\ t.of \in Envelope /\ tasks \subseteq Task
  BY DEF Task
<1>2. CASE TorReceive(t)
  BY <1>1, <1>2, TaskMoves DEF TorReceive
<1>3. CASE TorAnswer(t)
  BY <1>3, TaskMoves DEF TorAnswer
<1>4. CASE TorFail(t)
  BY <1>1, <1>4, TaskMoves DEF TorFail, FallBack
<1>5. CASE TorLost(t)
  <2>1. /\ [t EXCEPT !.at = "prepare"] \in Task
        /\ [t EXCEPT !.alive = FALSE] \in Task
    BY <1>1 DEF Task
  <2>2. tasks' \subseteq Task
    BY <1>1, <1>5, <2>1, TaskMoves DEF TorLost, FallBack
  <2>3. QED
    BY <1>5, <2>2 DEF TorLost
<1>6. CASE Prepare(t)
  <2>1. [t EXCEPT !.at = "prepared", !.inSession = TRUE] \in Task
    BY <1>1 DEF Task
  <2>2. tasks' \subseteq Task
    BY <1>1, <1>6, <2>1, TaskMoves DEF Prepare
  <2>3. QED
    BY <1>6, <2>2 DEF Prepare
<1>7. CASE Post(t)
  BY <1>1, <1>7, TaskMoves DEF Post
<1>8. CASE RelayTakes(t)
  BY <1>1, <1>8, TaskMoves DEF RelayTakes
<1>9. CASE RelayRefuses(t)
  BY <1>1, <1>9, TaskMoves DEF RelayRefuses
<1>10. CASE Finish(t)
  BY <1>1, <1>10, TaskMoves, EndpointFacts DEF Finish, MarkAccepted
<1>11. QED
  BY <1>2, <1>3, <1>4, <1>5, <1>6, <1>7, <1>8, <1>9, <1>10 DEF TaskStep

LEMMA TypeNext ==
  ASSUME TypeOK, [Next]_vars
  PROVE  TypeOK'
<1>1. CASE Next
  BY <1>1, TypeUser, TypeFlush, TypeSync, TypeFault, TypeTask DEF Next
<1>2. CASE UNCHANGED vars
  BY <1>2 DEF TypeOK, vars, rows, received, transit, daemon, running, bounds
<1>3. QED
  BY <1>1, <1>2

-----------------------------------------------------------------------------
(* The inductive invariant.                                                *)

\* What an envelope's existence proves: the sender has stored the message, and
\* a receipt is only made by a recipient that has stored it.
Genuine(e) ==
  /\ status[e.msg] # Unsent
  /\ e.kind # "text" => copies[e.msg] > 0

\* Envelopes are genuine wherever they are met, old copies included.
Provenance ==
  /\ \A e \in outbox \union controls \union inbox \union mailbox \union seen : Genuine(e)
  /\ \A d \in Device : \A e \in page[d] : Genuine(e)
  /\ \A t \in tasks : Genuine(t.of)
  /\ \A m \in Msg : copies[m] > 0 => status[m] # Unsent

\* The row of a message and the memory of its envelope are written together.
StoredIsSeen == \A m \in Msg : copies[m] = IF Text(m) \in seen THEN 1 ELSE 0

\* Only what is committed is ever acknowledged.
AckedIsSeen == \A d \in Device : acks[d] \subseteq seen

\* A task is at its end only when peer or relay have its envelope.
Held == inbox \union mailbox \union seen
AcceptedIsHeld ==
  \A t \in tasks : t.at \in {"answer", "accepted"} => t.of \in Held

\* A fallback prepared in this session was prepared in this mode.
PreparedIsHybrid ==
  \A t \in tasks : t.at = "prepared" /\ t.inSession => Origin(t.of) \in hybrid

IInv == /\ TypeOK /\ Provenance /\ StoredIsSeen /\ AckedIsSeen /\ AcceptedIsHeld
        /\ PreparedIsHybrid /\ NothingLost

-----------------------------------------------------------------------------
(* What a step can change.                                                 *)

\* Four kinds of step write to the tables.
LEMMA TablesFrame ==
  ASSUME Next
  PROVE  \/ \E d \in Device, m \in Msg : Send(d, m)
         \/ \E d \in Device, e \in Envelope : OpenText(d, e)
         \/ \E d \in Device, e \in Envelope : OpenReceipt(d, e)
         \/ \E t \in tasks : Finish(t)
         \/ UNCHANGED <<status, outbox, controls, copies, seen>>
<1> USE DEF rows, received
<1>1. ASSUME NEW d \in Device, UserStep(d) \/ Retry(d) \/ TorReady(d)
      PROVE  \/ \E m \in Msg : Send(d, m)
             \/ UNCHANGED <<status, outbox, controls, copies, seen>>
  BY <1>1 DEF UserStep, Lock, Unlock, Configure, Retry, TorReady
<1>2. ASSUME NEW d \in Device, FlushStep(d)
      PROVE  UNCHANGED <<status, outbox, controls, copies, seen>>
  BY <1>2 DEF FlushStep, StartTask, HoldBack, QueueEmpty
<1>3. ASSUME NEW d \in Device, SyncStep(d)
      PROVE  \/ \E e \in Envelope : OpenText(d, e) \/ OpenReceipt(d, e)
             \/ UNCHANGED <<status, outbox, controls, copies, seen>>
  BY <1>3 DEF SyncStep, TakePushed, ReadInbox, AskRelay, Duplicate, Acknowledge,
              AcknowledgeAtRelay
<1>4. ASSUME NEW d \in Device, FaultStep(d)
      PROVE  UNCHANGED <<status, outbox, controls, copies, seen>>
  BY <1>4 DEF FaultStep, RetryWithoutTor, RelayUnavailable, AcknowledgeLost,
              TorNotStarted, LoseTor, Crash, RollBack
<1>5. ASSUME NEW t \in tasks, TaskStep(t)
      PROVE  Finish(t) \/ UNCHANGED <<status, outbox, controls, copies, seen>>
  BY <1>5 DEF TaskStep, TorReceive, TorAnswer, TorFail, TorLost, Prepare, Post,
              RelayTakes, RelayRefuses
<1>6. QED
  BY <1>1, <1>2, <1>3, <1>4, <1>5 DEF Next

\* Inbox and relay lose only what a daemon acknowledges, and gain only what a
\* task carries.
LEMMA TransitFrame ==
  ASSUME Next
  PROVE  /\ \A e \in inbox \union mailbox :
              e \in inbox' \union mailbox' \/ \E d \in Device : e \in acks[d]
         /\ \A e \in inbox' \union mailbox' :
              e \in inbox \union mailbox \/ \E t \in tasks : e = t.of
<1> DEFINE Kept == UNCHANGED <<inbox, mailbox>>
           Acked(d) == /\ inbox' \subseteq inbox /\ mailbox' \subseteq mailbox
                       /\ \A e \in inbox \union mailbox :
                            e \in inbox' \union mailbox' \/ e \in acks[d]
           Carried(t) == /\ inbox \subseteq inbox' /\ mailbox \subseteq mailbox'
                         /\ inbox' \union mailbox' \subseteq inbox \union mailbox \union {t.of}
<1> USE DEF transit
<1>1. ASSUME NEW d \in Device, UserStep(d) \/ Retry(d) \/ TorReady(d) \/ FlushStep(d)
      PROVE  Kept
  BY <1>1 DEF UserStep, Send, Lock, Unlock, Configure, Retry, TorReady, FlushStep,
              StartTask, HoldBack, QueueEmpty
<1>2. ASSUME NEW d \in Device, SyncStep(d)
      PROVE  Kept \/ Acked(d)
  BY <1>2 DEF SyncStep, TakePushed, ReadInbox, AskRelay, Duplicate, OpenText,
              OpenReceipt, Acknowledge, AcknowledgeAtRelay
<1>3. ASSUME NEW d \in Device, FaultStep(d)
      PROVE  Kept \/ Acked(d)
  BY <1>3 DEF FaultStep, RetryWithoutTor, RelayUnavailable, AcknowledgeLost,
              TorNotStarted, LoseTor, Crash, RollBack
<1>4. ASSUME NEW t \in tasks, TaskStep(t)
      PROVE  Kept \/ Carried(t)
  BY <1>4 DEF TaskStep, TorReceive, TorAnswer, TorFail, TorLost, Prepare, Post,
              RelayTakes, RelayRefuses, Finish
<1>5. QED
  BY <1>1, <1>2, <1>3, <1>4 DEF Next

\* A sync reads only what is in transit, and acknowledges what has been or is
\* now committed.
LEMMA SyncFrame ==
  ASSUME TypeOK, Next
  PROVE  /\ \A x \in Device : page'[x] \subseteq page[x] \union inbox \union mailbox
         /\ \A x \in Device : acks'[x] \subseteq acks[x] \union seen'
<1> DEFINE Narrow == /\ \A x \in Device : page'[x] \subseteq page[x] \union inbox \union mailbox
                     /\ \A x \in Device : acks'[x] \subseteq acks[x] \union seen'
<1>0. page \in [Device -> SUBSET Envelope] /\ acks \in [Device -> SUBSET Envelope]
  BY DEF TypeOK
<1> USE DEF running
<1>1. ASSUME NEW d \in Device, UserStep(d) \/ Retry(d) \/ TorReady(d) \/ FlushStep(d)
      PROVE  UNCHANGED <<page, acks>>
  BY <1>1 DEF UserStep, Send, Lock, Unlock, Configure, Retry, TorReady, FlushStep,
              StartTask, HoldBack, QueueEmpty
<1>2. ASSUME NEW d \in Device, SyncStep(d)
      PROVE  Narrow
  <2>1. CASE TakePushed(d) \/ ReadInbox(d) \/ AskRelay(d)
    BY <1>0, <2>1 DEF TakePushed, ReadInbox, AskRelay, InboxOf
  <2>2. ASSUME NEW e \in Envelope, Duplicate(d, e) \/ OpenText(d, e) \/ OpenReceipt(d, e)
        PROVE  Narrow
    BY <1>0, <2>2 DEF Duplicate, OpenText, OpenReceipt, Remember, TurnTo, Collect,
                      received
  <2>3. CASE Acknowledge(d) \/ AcknowledgeAtRelay(d)
    BY <1>0, <2>3 DEF Acknowledge, AcknowledgeAtRelay
  <2>4. QED
    BY <1>2, <2>1, <2>2, <2>3 DEF SyncStep
<1>3. ASSUME NEW d \in Device, FaultStep(d)
      PROVE  Narrow
  BY <1>0, <1>3 DEF FaultStep, RetryWithoutTor, RelayUnavailable, AcknowledgeLost,
              TorNotStarted, LoseTor, Crash, RollBack, AbortJob, TurnTo
<1>4. ASSUME NEW t \in tasks, TaskStep(t)
      PROVE  UNCHANGED <<page, acks>>
  BY <1>4 DEF TaskStep, TorReceive, TorAnswer, TorFail, TorLost, Prepare, Post,
              RelayTakes, RelayRefuses, Finish
<1>5. QED
  BY <1>1, <1>2, <1>3, <1>4 DEF Next

\* Where the tasks after a step come from.
TaskOrigin(u) == (\E t \in tasks : u.of = t.of) \/ u.of \in outbox \union controls
EndOrigin(u) ==
  u.at \in {"answer", "accepted"} =>
    \/ \E t \in tasks : u.of = t.of /\ t.at \in {"answer", "accepted"}
    \/ u.of \in inbox' \union mailbox'
FallbackOrigin(u) ==
  u.at = "prepared" /\ u.inSession =>
    \/ \E t \in tasks : u.of = t.of /\ t.at = "prepared" /\ t.inSession
    \/ Origin(u.of) \in hybrid
PostOrigin(u) ==
  u.at = "posted" =>
    \/ \E t \in tasks : u.of = t.of /\ t.at = "posted"
    \/ \E t \in tasks : u.of = t.of /\ t.at = "prepared" /\ t.inSession
WellBorn(u) == TaskOrigin(u) /\ EndOrigin(u) /\ FallbackOrigin(u) /\ PostOrigin(u)

\* What is still there, and what has no more than stepped between other points.
LEMMA KinWellBorn ==
  /\ \A u : (\E t \in tasks : Kin(u, t)) => WellBorn(u)
  /\ \A u \in tasks : WellBorn(u)
  /\ \A u : /\ \E t \in tasks : u.of = t.of
            /\ u.at \in {"tor", "prepare"}
            => WellBorn(u)
BY DEF Kin, WellBorn, TaskOrigin, EndOrigin, FallbackOrigin,
                              PostOrigin

LEMMA DaemonTasks ==
  ASSUME TypeOK, NEW d \in Device,
         UserStep(d) \/ Retry(d) \/ TorReady(d) \/ FlushStep(d) \/ SyncStep(d)
           \/ FaultStep(d)
  PROVE  \A u \in tasks' : WellBorn(u)
<1>1. CASE UNCHANGED tasks
  BY <1>1, KinWellBorn
<1>2. CASE OnlyKin
  BY <1>2, KinWellBorn DEF OnlyKin
<1>3. CASE StartTask(d)
  <2>1. PICK e \in Oldest(Queue(d)) :
          tasks' = tasks \union {[of |-> e, at |-> "tor", linked |-> TRUE,
                                  inSession |-> TRUE, alive |-> TRUE]}
    BY <1>3 DEF StartTask
  <2>2. e \in outbox \union controls
    BY DEF Oldest, Queue
  <2>3. \A u \in tasks' : u \in tasks \/ (u.of = e /\ u.at = "tor")
    BY <2>1
  <2>4. QED
    BY <2>2, <2>3, KinWellBorn DEF WellBorn, TaskOrigin, EndOrigin, FallbackOrigin,
                              PostOrigin
<1>4. CASE Crash(d)
  <2>1. ASSUME NEW u \in tasks' PROVE \E t \in tasks : Kin(u, t)
    <3>1. CASE u \in tasks
      BY <3>1 DEF Kin
    <3>2. CASE u \notin tasks
      <4>1. PICK t \in tasks : u = [t EXCEPT !.alive = FALSE]
        BY <1>4, <3>2 DEF Crash
      <4>2. t \in Task
        BY DEF TypeOK
      <4>3. QED
        BY <4>1, <4>2 DEF Kin, Task
    <3>3. QED
      BY <3>1, <3>2
  <2>2. QED
    BY <2>1, KinWellBorn
<1>5. QED
  <2>1. ASSUME UserStep(d) \/ Retry(d) \/ TorReady(d)
        PROVE  UNCHANGED tasks \/ OnlyKin
    BY <2>1, TaskSweeps
    DEF UserStep, Send, Lock, Unlock, Configure, Retry, EnsureTor, TorReady
  <2>2. ASSUME FlushStep(d)
        PROVE  UNCHANGED tasks \/ StartTask(d)
    BY <2>2 DEF FlushStep, HoldBack, QueueEmpty
  <2>3. ASSUME SyncStep(d)
        PROVE  UNCHANGED tasks
    BY <2>3 DEF SyncStep, TakePushed, ReadInbox, AskRelay, Duplicate, OpenText,
                OpenReceipt, Acknowledge, AcknowledgeAtRelay
  <2>4. ASSUME FaultStep(d)
        PROVE  UNCHANGED tasks \/ OnlyKin \/ Crash(d)
    BY <2>4, TaskSweeps
    DEF FaultStep, RetryWithoutTor, RelayUnavailable, AcknowledgeLost,
        TorNotStarted, LoseTor, RollBack
  <2>5. QED
    BY <1>1, <1>2, <1>3, <1>4, <2>1, <2>2, <2>3, <2>4

LEMMA StepTasks ==
  ASSUME TypeOK, NEW t \in tasks, TaskStep(t)
  PROVE  \A u \in tasks' : WellBorn(u)
<1> USE DEF TaskPoint
<1>1. CASE tasks' \subseteq tasks
  BY <1>1, KinWellBorn
<1>2. CASE OnlyKin
  BY <1>2, KinWellBorn DEF OnlyKin
<1>3. ASSUME NEW x \in {"tor", "prepare"}, StepTask(t, x)
      PROVE  \A u \in tasks' : WellBorn(u)
  <2>1. \A u \in tasks' : u \in tasks \/ (u.of = t.of /\ u.at = x)
    BY <1>3, TaskMoves
  <2>2. QED
    BY <2>1, KinWellBorn
<1>4. ASSUME NEW x \in {"answer", "accepted"}, StepTask(t, x),
             \/ t.of \in inbox' \union mailbox'
             \/ t.at \in {"answer", "accepted"}
      PROVE  \A u \in tasks' : WellBorn(u)
  <2>1. \A u \in tasks' : u \in tasks \/ (u.of = t.of /\ u.at = x)
    BY <1>4, TaskMoves
  <2>2. QED
    BY <1>4, <2>1, KinWellBorn DEF WellBorn, TaskOrigin, EndOrigin, FallbackOrigin,
                              PostOrigin
<1>5. CASE TorReceive(t)
  BY <1>1, <1>4, <1>5, TaskMoves DEF TorReceive
<1>6. CASE TorAnswer(t)
  BY <1>4, <1>6 DEF TorAnswer, At
<1>7. CASE TorFail(t) \/ (TorLost(t) /\ FallBack(t))
  BY <1>1, <1>3, <1>7, TaskMoves DEF TorFail, FallBack
<1>8. CASE TorLost(t) /\ ~FallBack(t)
  <2>1. CASE AbandonTask(t)
    BY <1>2, <2>1, TaskMoves
  <2>2. CASE tasks' = (tasks \ {t}) \union
               {[t EXCEPT !.at = "prepare"], [t EXCEPT !.alive = FALSE]}
    <3>1. t \in Task
      BY DEF TypeOK
    <3>2. /\ [t EXCEPT !.at = "prepare"].of = t.of
          /\ [t EXCEPT !.at = "prepare"].at = "prepare"
          /\ Kin([t EXCEPT !.alive = FALSE], t)
      BY <3>1 DEF Task, Kin
    <3>3. QED
      BY <2>2, <3>2, KinWellBorn
  <2>3. QED
    BY <1>8, <2>1, <2>2 DEF TorLost
<1>9. CASE Prepare(t)
  <2>1. CASE EndTask(t)
    BY <1>1, <2>1, TaskMoves
  <2>2. CASE /\ Origin(t.of) \in hybrid
             /\ tasks' = (tasks \ {t}) \union
                  {[t EXCEPT !.at = "prepared", !.inSession = TRUE]}
    <3>1. t \in Task
      BY DEF TypeOK
    <3>2. /\ [t EXCEPT !.at = "prepared", !.inSession = TRUE].of = t.of
          /\ [t EXCEPT !.at = "prepared", !.inSession = TRUE].at = "prepared"
      BY <3>1 DEF Task
    <3>3. QED
      BY <2>2, <3>2, KinWellBorn DEF WellBorn, TaskOrigin, EndOrigin, FallbackOrigin,
                              PostOrigin
  <2>3. QED
    BY <1>9, <2>1, <2>2 DEF Prepare
<1>10. CASE Post(t)
  <2>1. CASE EndTask(t)
    BY <1>1, <2>1, TaskMoves
  <2>2. CASE t.at = "prepared" /\ t.inSession /\ StepTask(t, "posted")
    <3>1. \A u \in tasks' : u \in tasks \/ (u.of = t.of /\ u.at = "posted")
      BY <2>2, TaskMoves
    <3>2. QED
      BY <2>2, <3>1, KinWellBorn DEF WellBorn, TaskOrigin, EndOrigin, FallbackOrigin,
                                      PostOrigin
  <2>3. QED
    BY <1>10, <2>1, <2>2 DEF Post, At
<1>11. CASE RelayTakes(t)
  BY <1>1, <1>4, <1>11, TaskMoves DEF RelayTakes
<1>12. CASE RelayRefuses(t)
  BY <1>1, <1>2, <1>12, TaskMoves DEF RelayRefuses
<1>13. CASE Finish(t)
  BY <1>1, <1>13, TaskMoves DEF Finish
<1>14. QED
  BY <1>5, <1>6, <1>7, <1>8, <1>9, <1>10, <1>11, <1>12, <1>13 DEF TaskStep

\* Every task is one there was, at the same point or further on, or begins at a
\* row of its device's outbox.
LEMMA TasksFrame ==
  ASSUME TypeOK, Next
  PROVE  \A u \in tasks' : WellBorn(u)
BY DaemonTasks, StepTasks DEF Next

-----------------------------------------------------------------------------
(* Stored once, acknowledged when committed.                               *)

LEMMA StoredIsSeenKept ==
  ASSUME IInv, Next
  PROVE  StoredIsSeen' /\ seen \subseteq seen'
<1> USE DEF IInv, StoredIsSeen
<1>1. ASSUME UNCHANGED <<copies, seen>>
      PROVE  StoredIsSeen' /\ seen \subseteq seen'
  BY <1>1
<1>2. ASSUME NEW d \in Device, NEW e \in Envelope, OpenText(d, e)
      PROVE  StoredIsSeen' /\ seen \subseteq seen'
  <2>1. /\ e \notin seen /\ seen' = seen \union {e}
        /\ copies' = [copies EXCEPT ![e.msg] = @ + 1]
    BY <1>2 DEF OpenText, Remember
  <2>2. e = Text(e.msg) /\ e.msg \in Msg
    BY <1>2 DEF OpenText, Envelope, Text
  <2>3. \A m \in Msg : Text(m) = e <=> m = e.msg
    BY <2>2, EnvelopeFacts
  <2>4. copies \in [Msg -> Nat]
    BY DEF TypeOK
  <2>5. QED
    BY <2>1, <2>2, <2>3, <2>4
<1>3. ASSUME NEW d \in Device, NEW e \in Envelope, OpenReceipt(d, e)
      PROVE  StoredIsSeen' /\ seen \subseteq seen'
  <2>1. seen' = seen \union {e} /\ e.kind # "text" /\ UNCHANGED copies
    BY <1>3 DEF OpenReceipt, Remember
  <2>2. \A m \in Msg : Text(m) # e
    BY <2>1, EnvelopeFacts
  <2>3. QED
    BY <2>1, <2>2
<1>4. /\ \A d \in Device, m \in Msg : Send(d, m) => UNCHANGED <<copies, seen>>
      /\ \A t \in tasks : Finish(t) => UNCHANGED <<copies, seen>>
  BY DEF Send, Finish, received
<1>5. QED
  BY <1>1, <1>2, <1>3, <1>4, TablesFrame

LEMMA AckedIsSeenKept ==
  ASSUME IInv, Next
  PROVE  AckedIsSeen'
BY StoredIsSeenKept, SyncFrame DEF IInv, AckedIsSeen

-----------------------------------------------------------------------------
(* What peer or relay have taken stays until the recipient has it.         *)

LEMMA HeldKept ==
  ASSUME IInv, Next
  PROVE  /\ Held \subseteq Held'
         /\ \A e \in inbox \union mailbox : e \in inbox' \union mailbox' \/ e \in seen
<1>1. \A e \in inbox \union mailbox : e \in inbox' \union mailbox' \/ e \in seen
  BY TransitFrame DEF IInv, AckedIsSeen
<1>2. QED
  BY <1>1, StoredIsSeenKept DEF Held

LEMMA AcceptedIsHeldKept ==
  ASSUME IInv, Next
  PROVE  AcceptedIsHeld'
<1>1. ASSUME NEW u \in tasks', u.at \in {"answer", "accepted"}
      PROVE  u.of \in Held'
  <2>1. \/ \E t \in tasks : u.of = t.of /\ t.at \in {"answer", "accepted"}
        \/ u.of \in inbox' \union mailbox'
    BY <1>1, TasksFrame DEF IInv, WellBorn, EndOrigin
  <2>2. QED
    BY <2>1, HeldKept DEF IInv, AcceptedIsHeld, Held
<1>2. QED
  BY <1>1 DEF AcceptedIsHeld

-----------------------------------------------------------------------------
(* What is prepared for the relay was prepared in hybrid mode.             *)

\* The mode changes only with a new session.
LEMMA ModeFrame ==
  ASSUME Next
  PROVE  UNCHANGED hybrid \/ \E d \in Device : Configure(d)
<1> USE DEF daemon
<1>1. ASSUME NEW d \in Device, UserStep(d) \/ Retry(d) \/ TorReady(d) \/ FlushStep(d)
      PROVE  UNCHANGED hybrid \/ Configure(d)
  BY <1>1 DEF UserStep, Send, Lock, Unlock, Retry, TorReady, FlushStep, StartTask,
              HoldBack, QueueEmpty
<1>2. ASSUME NEW d \in Device, SyncStep(d)
      PROVE  UNCHANGED hybrid
  BY <1>2 DEF SyncStep, TakePushed, ReadInbox, AskRelay, Duplicate, OpenText,
              OpenReceipt, Acknowledge, AcknowledgeAtRelay
<1>3. ASSUME NEW d \in Device, FaultStep(d)
      PROVE  UNCHANGED hybrid
  BY <1>3 DEF FaultStep, RetryWithoutTor, RelayUnavailable, AcknowledgeLost,
              TorNotStarted, LoseTor, Crash, RollBack
<1>4. ASSUME NEW t \in tasks, TaskStep(t)
      PROVE  UNCHANGED hybrid
  BY <1>4 DEF TaskStep, TorReceive, TorAnswer, TorFail, TorLost, Prepare, Post,
              RelayTakes, RelayRefuses, Finish
<1>5. QED
  BY <1>1, <1>2, <1>3, <1>4 DEF Next

LEMMA PreparedIsHybridKept ==
  ASSUME IInv, Next
  PROVE  PreparedIsHybrid'
<1>1. ASSUME NEW u \in tasks', u.at = "prepared", u.inSession
      PROVE  Origin(u.of) \in hybrid'
  <2>1. Origin(u.of) \in hybrid
    BY <1>1, TasksFrame DEF IInv, WellBorn, FallbackOrigin, PreparedIsHybrid
  <2>2. ASSUME NEW d \in Device, Configure(d)
        PROVE  Origin(u.of) \in hybrid'
    <3>1. Origin(u.of) # d
      BY <1>1, <2>2, TaskSweeps DEF IInv, Configure
    <3>2. QED
      BY <2>1, <2>2, <3>1 DEF Configure
  <2>3. QED
    BY <2>1, <2>2, ModeFrame
<1>2. QED
  BY <1>1 DEF PreparedIsHybrid

-----------------------------------------------------------------------------
(* Envelopes are genuine.                                                  *)

\* No step takes back a stored message, at its sender or at its recipient.
LEMMA GenuineKept ==
  ASSUME TypeOK, Next
  PROVE  /\ \A m \in Msg : status[m] # Unsent => status'[m] # Unsent
         /\ \A m \in Msg : copies[m] > 0 => copies'[m] > 0
         /\ \A e \in Envelope : Genuine(e) => Genuine(e)'
<1> DEFINE Grows == /\ \A m \in Msg : status[m] # Unsent => status'[m] # Unsent
                    /\ \A m \in Msg : copies[m] > 0 => copies'[m] > 0
<1>0. status \in [Msg -> {Unsent, "queued", "sent", "delivered"}] /\ copies \in [Msg -> Nat]
  BY DEF TypeOK
<1>1. ASSUME NEW d \in Device, NEW m \in Msg, Send(d, m) PROVE Grows
  BY <1>0, <1>1 DEF Send, Unsent, received
<1>2. ASSUME NEW d \in Device, NEW e \in Envelope, OpenText(d, e) PROVE Grows
  BY <1>0, <1>2, EndpointFacts DEF OpenText
<1>3. ASSUME NEW d \in Device, NEW e \in Envelope, OpenReceipt(d, e) PROVE Grows
  BY <1>0, <1>3, EndpointFacts DEF OpenReceipt, Unsent
<1>4. ASSUME NEW t \in tasks, Finish(t) PROVE Grows
  BY <1>0, <1>4 DEF Finish, MarkAccepted, Unsent, received
<1>5. ASSUME UNCHANGED <<status, copies>> PROVE Grows
  BY <1>5
<1>6. Grows
  BY <1>1, <1>2, <1>3, <1>4, <1>5, TablesFrame
<1>7. QED
  BY <1>6, EndpointFacts DEF Genuine

\* New rows, and new marks, are those of a message just sent or just opened.
LEMMA TablesGenuine ==
  ASSUME IInv, Next
  PROVE  /\ \A e \in outbox' \union controls' \union seen' : Genuine(e)'
         /\ \A m \in Msg : copies'[m] > 0 => status'[m] # Unsent
<1> DEFINE Tables == outbox \union controls \union seen
           Stored == \A m \in Msg : copies'[m] > 0 => status'[m] # Unsent
<1>1. TypeOK /\ Provenance /\ Tables \subseteq Envelope
  BY DEF IInv, TypeOK
<1>2. /\ \A e \in Tables : Genuine(e)'
      /\ \A m \in Msg : copies[m] > 0 => status'[m] # Unsent
  BY <1>1, GenuineKept DEF Provenance
<1>3. ASSUME NEW d \in Device, NEW m \in Msg, Send(d, m)
      PROVE  (\A e \in Tables' : Genuine(e)') /\ Stored
  <2>1. Tables' \subseteq Tables \union {Text(m)} /\ UNCHANGED copies
    BY <1>3 DEF Send, received
  <2>2. Genuine(Text(m))'
    BY <1>1, <1>3, EnvelopeFacts DEF Genuine, Send, TypeOK, Unsent
  <2>3. QED
    BY <1>2, <2>1, <2>2
<1>4. ASSUME NEW d \in Device, NEW e \in Envelope, OpenText(d, e)
      PROVE  (\A x \in Tables' : Genuine(x)') /\ Stored
  <2>1. Genuine(e)' /\ e.msg \in Msg
    BY <1>1, <1>4, EndpointFacts, GenuineKept DEF OpenText, Reading, Provenance
  <2>2. /\ Tables' \subseteq Tables \union {e, Delivered(e.msg)}
        /\ copies' = [copies EXCEPT ![e.msg] = @ + 1]
    BY <1>4 DEF OpenText, Remember
  <2>3. Genuine(Delivered(e.msg))'
    BY <1>1, <2>1, <2>2, EnvelopeFacts DEF Genuine, TypeOK
  <2>4. QED
    BY <1>1, <1>2, <2>1, <2>2, <2>3 DEF Genuine, TypeOK
<1>5. ASSUME NEW d \in Device, NEW e \in Envelope, OpenReceipt(d, e)
      PROVE  (\A x \in Tables' : Genuine(x)') /\ Stored
  <2>1. Genuine(e)'
    BY <1>1, <1>5, GenuineKept DEF OpenReceipt, Reading, Provenance
  <2>2. Tables' \subseteq Tables \union {e} /\ UNCHANGED copies
    BY <1>5 DEF OpenReceipt, Remember
  <2>3. QED
    BY <1>2, <2>1, <2>2
<1>6. ASSUME NEW t \in tasks, Finish(t)
      PROVE  (\A e \in Tables' : Genuine(e)') /\ Stored
  BY <1>2, <1>6 DEF Finish, received
<1>7. CASE UNCHANGED <<status, outbox, controls, copies, seen>>
  BY <1>2, <1>7
<1>8. QED
  BY <1>3, <1>4, <1>5, <1>6, <1>7, TablesFrame

LEMMA ProvenanceKept ==
  ASSUME IInv, Next
  PROVE  Provenance'
<1>1. TypeOK /\ Provenance
  BY DEF IInv
<1>2. \A e \in Envelope : Genuine(e) => Genuine(e)'
  BY <1>1, GenuineKept
<1>3. \A t \in tasks : t.of \in Envelope /\ Genuine(t.of)
  BY <1>1 DEF TypeOK, Task, Provenance
<1>4. \A e \in inbox' \union mailbox' : Genuine(e)'
  <2>1. \A e \in inbox \union mailbox : e \in Envelope /\ Genuine(e)
    BY <1>1 DEF TypeOK, Provenance
  <2>2. QED
    BY <1>2, <1>3, <2>1, TransitFrame
<1>5. \A d \in Device : \A e \in page'[d] : Genuine(e)'
  <2>1. \A d \in Device : \A e \in page[d] \union inbox \union mailbox :
          e \in Envelope /\ Genuine(e)
    BY <1>1 DEF TypeOK, Provenance
  <2>2. QED
    BY <1>1, <1>2, <2>1, SyncFrame
<1>6. \A u \in tasks' : Genuine(u.of)'
  <2>1. \A e \in outbox \union controls : e \in Envelope /\ Genuine(e)
    BY <1>1 DEF TypeOK, Provenance
  <2>2. QED
    BY <1>1, <1>2, <1>3, <2>1, TasksFrame DEF WellBorn, TaskOrigin
<1>7. QED
  BY <1>4, <1>5, <1>6, TablesGenuine DEF Provenance

-----------------------------------------------------------------------------
(* Nothing is lost.                                                        *)

\* A row leaves its table only when peer or relay have had its envelope.
LEMMA ReleasedIsHeld ==
  ASSUME IInv, Next
  PROVE  \A e \in outbox \union controls :
           e \notin outbox' \union controls' => e \in Held
<1>1. ASSUME NEW t \in tasks, Finish(t)
      PROVE  \A e \in outbox \union controls :
               e \notin outbox' \union controls' => e \in Held
  <2>1. t.of \in Held
    BY <1>1 DEF Finish, At, IInv, AcceptedIsHeld
  <2>2. QED
    BY <1>1, <2>1 DEF Finish
<1>2. /\ \A d \in Device, m \in Msg :
           Send(d, m) => outbox \subseteq outbox' /\ controls \subseteq controls'
      /\ \A d \in Device, e \in Envelope :
           OpenText(d, e) => outbox \subseteq outbox' /\ controls \subseteq controls'
      /\ \A d \in Device, e \in Envelope :
           OpenReceipt(d, e) => outbox \subseteq outbox' /\ controls \subseteq controls'
  BY DEF Send, OpenText, OpenReceipt
<1>3. QED
  BY <1>1, <1>2, TablesFrame

LEMMA NothingLostKept ==
  ASSUME IInv, Next
  PROVE  NothingLost'
<1>1. NothingLost /\ TypeOK
  BY DEF IInv
<1>2. \A e : Safe(e) => Safe(e)'
  BY ReleasedIsHeld, HeldKept DEF Safe, Held
<1>3. ASSUME NEW d \in Device, NEW x \in Msg, Send(d, x)
      PROVE  NothingLost'
  <2>1. /\ status' = [status EXCEPT ![x] = "queued"] /\ UNCHANGED copies
        /\ Text(x) \in outbox'
    BY <1>3 DEF Send, received
  <2>2. QED
    BY <1>1, <1>2, <2>1 DEF NothingLost, Safe, TypeOK
<1>4. ASSUME NEW d \in Device, NEW e \in Envelope, OpenText(d, e)
      PROVE  NothingLost'
  <2>1. /\ copies' = [copies EXCEPT ![e.msg] = @ + 1] /\ UNCHANGED status
        /\ Delivered(e.msg) \in controls'
    BY <1>4 DEF OpenText
  <2>2. QED
    BY <1>1, <1>2, <2>1 DEF NothingLost, Safe, TypeOK
<1>5. ASSUME UNCHANGED copies,
             \A m \in Msg : status[m] = Unsent => status'[m] = Unsent
      PROVE  NothingLost'
  BY <1>1, <1>2, <1>5 DEF NothingLost
<1>6. ASSUME NEW d \in Device, NEW e \in Envelope, OpenReceipt(d, e)
      PROVE  NothingLost'
  BY <1>1, <1>5, <1>6 DEF OpenReceipt, TypeOK, Unsent
<1>7. ASSUME NEW t \in tasks, Finish(t)
      PROVE  NothingLost'
  BY <1>1, <1>5, <1>7 DEF Finish, MarkAccepted, TypeOK, Unsent, received
<1>8. QED
  BY <1>3, <1>4, <1>5, <1>6, <1>7, TablesFrame

-----------------------------------------------------------------------------
(* The theorems.                                                           *)

\* The state of every daemon, its tasks and the relay keeps its types.
THEOREM TypeCorrect == Spec => []TypeOK
BY TypeInit, TypeNext, PTL DEF Spec

LEMMA InvariantInit == Init => IInv
<1> SUFFICES ASSUME Init PROVE IInv
  OBVIOUS
<1>1. TypeOK
  BY TypeInit
<1>2. Provenance /\ StoredIsSeen /\ AckedIsSeen
  BY DEF Init, Provenance, StoredIsSeen, AckedIsSeen
<1>3. AcceptedIsHeld /\ PreparedIsHybrid /\ NothingLost
  BY DEF Init, AcceptedIsHeld, PreparedIsHybrid, NothingLost, Unsent
<1>4. QED
  BY <1>1, <1>2, <1>3 DEF IInv

LEMMA InvariantStutter ==
  ASSUME IInv, UNCHANGED vars
  PROVE  IInv'
BY DEF IInv, TypeOK, Provenance, Genuine, StoredIsSeen, AckedIsSeen,
       AcceptedIsHeld, Held, PreparedIsHybrid, NothingLost, Safe, vars, rows,
       received, transit, daemon, running, bounds

\* Every reachable state satisfies the inductive invariant.
THEOREM Invariant == Spec => []IInv
<1>1. ASSUME IInv, [Next]_vars PROVE IInv'
  <2>1. ASSUME Next PROVE IInv'
    <3>1. TypeOK'
      BY <1>1, TypeNext DEF IInv
    <3>2. QED
      BY <1>1, <2>1, <3>1, ProvenanceKept, StoredIsSeenKept, AckedIsSeenKept,
         AcceptedIsHeldKept, PreparedIsHybridKept, NothingLostKept DEF IInv
  <2>2. QED
    BY <1>1, <2>1, InvariantStutter
<1>2. QED
  BY InvariantInit, <1>1, PTL DEF Spec

\* Whichever way envelopes travel, and whatever becomes of the tasks that carry
\* them: a message is stored once and nothing accepted is lost.
THEOREM Safety == Spec => [](StoredOnce /\ NothingLost)
<1>1. IInv => StoredOnce
  BY DEF IInv, StoredIsSeen, StoredOnce
<1>2. IInv => NothingLost
  BY DEF IInv
<1>3. QED
  BY Invariant, <1>1, <1>2, PTL

\* A sender forgets an envelope only when peer or relay have had it, peer and
\* relay only when its recipient has committed it.
THEOREM Custody == Spec => CustodyKept
<1>1. ASSUME IInv, [Next]_vars
      PROVE  \A e \in outbox \union controls :
               e \notin outbox' \union controls' => e \in inbox \union mailbox \union seen
  BY <1>1, ReleasedIsHeld DEF vars, rows, Held
<1>2. ASSUME IInv, [Next]_vars
      PROVE  \A e \in inbox \union mailbox :
               e \notin inbox' \union mailbox' => e \in seen
  BY <1>2, HeldKept DEF vars, transit
<1>3. QED
  BY Invariant, <1>1, <1>2, PTL DEF Spec, CustodyKept, ReleasedOnlyWhenHeld, ForgottenOnlyWhenSeen

\* No task that ends late takes back a receipt.
THEOREM ReceiptsStand == Spec => NoRegress
<1>1. ASSUME TypeOK, [Next]_vars
      PROVE  \A m \in Msg : status[m] = "delivered" => status'[m] = "delivered"
  <2> DEFINE Stands == \A m \in Msg : status[m] = "delivered" => status'[m] = "delivered"
  <2>0. status \in [Msg -> {Unsent, "queued", "sent", "delivered"}]
    BY <1>1 DEF TypeOK
  <2>1. ASSUME NEW d \in Device, NEW m \in Msg, Send(d, m) PROVE Stands
    BY <2>0, <2>1 DEF Send, Unsent
  <2>2. ASSUME NEW d \in Device, NEW e \in Envelope, OpenText(d, e) PROVE Stands
    BY <2>2 DEF OpenText
  <2>3. ASSUME NEW d \in Device, NEW e \in Envelope, OpenReceipt(d, e) PROVE Stands
    BY <2>0, <2>3, EndpointFacts DEF OpenReceipt
  <2>4. ASSUME NEW t \in tasks, Finish(t) PROVE Stands
    BY <2>0, <2>4 DEF Finish, MarkAccepted
  <2>5. ASSUME UNCHANGED status PROVE Stands
    BY <2>5
  <2>6. QED
    BY <1>1, <2>1, <2>2, <2>3, <2>4, <2>5, TablesFrame DEF vars, rows
<1>2. QED
  BY TypeCorrect, <1>1, PTL DEF Spec, NoRegress

\* A device in direct mode makes no request to the relay, whatever its tasks
\* began with: a request prepared in hybrid mode dies with its session.
THEOREM DirectMode == Spec => DirectAvoidsRelay
<1>1. ASSUME IInv, [Next]_vars, NEW e \in Envelope, ~AtRelay(e), AtRelay(e)'
      PROVE  Origin(e) \in hybrid
  <2>1. PICK u \in tasks' : u.of = e /\ u.at = "posted"
    BY <1>1 DEF AtRelay
  <2>2. ~UNCHANGED vars
    BY <1>1 DEF AtRelay, vars
  <2>3. WellBorn(u)
    BY <1>1, <2>2, TasksFrame DEF IInv
  <2>4. PICK t \in tasks : u.of = t.of /\ t.at = "prepared" /\ t.inSession
    BY <1>1, <2>1, <2>3 DEF WellBorn, PostOrigin, AtRelay
  <2>5. QED
    BY <1>1, <2>1, <2>4 DEF IInv, PreparedIsHybrid
<1>2. ASSUME IInv, [Next]_vars
      PROVE  \A e \in Envelope : ~AtRelay(e) /\ AtRelay(e)' => Origin(e) \in hybrid
  BY <1>1, <1>2
<1>3. QED
  BY Invariant, <1>2, PTL DEF Spec, DirectAvoidsRelay

-----------------------------------------------------------------------------
(* The refinement of Delivery.                                             *)

Accepted  == {m \in Msg : status[m] # Unsent}
Confirmed == {m \in Msg : Delivered(m) \in seen}

LEMMA DeliveryStep ==
  ASSUME IInv, Next
  PROVE  Abstract!Next \/ UNCHANGED <<Accepted, copies, Confirmed>>
<1>1. TypeOK /\ Provenance /\ StoredIsSeen
  BY DEF IInv
<1>2. ASSUME NEW d \in Device, NEW m \in Msg, Send(d, m)
      PROVE  Abstract!Next
  <2>1. /\ status[m] = Unsent
        /\ status' = [status EXCEPT ![m] = "queued"]
        /\ UNCHANGED <<copies, seen>>
    BY <1>2 DEF Send, received
  <2>2. /\ m \notin Accepted
        /\ Accepted' = Accepted \union {m}
        /\ UNCHANGED <<copies, Confirmed>>
    BY <1>1, <2>1 DEF TypeOK, Unsent, Accepted, Confirmed
  <2>3. Abstract!Accept(m)
    BY <2>2 DEF Abstract!Accept, Accepted, Confirmed
  <2>4. QED
    BY <2>3 DEF Abstract!Next
<1>3. ASSUME NEW d \in Device, NEW e \in Envelope, OpenText(d, e)
      PROVE  Abstract!Next
  <2>1. /\ e \notin seen /\ e.msg \in Msg /\ e = Text(e.msg) /\ Genuine(e)
        /\ seen' = seen \union {e} /\ UNCHANGED status
        /\ copies' = [copies EXCEPT ![e.msg] = @ + 1]
    BY <1>1, <1>3 DEF OpenText, Reading, Remember, Provenance, Envelope, Text
  <2>2. copies[e.msg] = 0 /\ e.msg \in Accepted
    BY <1>1, <2>1 DEF StoredIsSeen, Accepted, Genuine
  <2>3. copies' = [copies EXCEPT ![e.msg] = 1]
    BY <1>1, <2>1, <2>2 DEF TypeOK
  <2>4. \A m \in Msg : Delivered(m) # e
    BY <1>3, EnvelopeFacts DEF OpenText
  <2>5. UNCHANGED <<Accepted, Confirmed>>
    BY <2>1, <2>4 DEF Accepted, Confirmed
  <2>6. Abstract!Deliver(e.msg)
    BY <2>2, <2>3, <2>5 DEF Abstract!Deliver, Accepted, Confirmed
  <2>7. QED
    BY <2>1, <2>6 DEF Abstract!Next
<1>4. ASSUME NEW d \in Device, NEW e \in Envelope, OpenReceipt(d, e)
      PROVE  Abstract!Next
  <2>1. /\ e.msg \in Msg /\ e.kind = "delivered" /\ Genuine(e)
        /\ seen' = seen \union {e} /\ UNCHANGED copies
    BY <1>1, <1>4, EndpointFacts DEF OpenReceipt, Reading, Remember, Provenance
  <2>2. copies[e.msg] = 1
    BY <1>1, <2>1 DEF StoredIsSeen, Genuine
  <2>3. e = Delivered(e.msg)
    BY <2>1 DEF Envelope, Delivered
  <2>4. \A m \in Msg : Delivered(m) = e <=> m = e.msg
    BY <2>3, EnvelopeFacts
  <2>5. Confirmed' = Confirmed \union {e.msg}
    BY <2>1, <2>4 DEF Confirmed
  <2>6. UNCHANGED Accepted
    BY <1>1, <1>4 DEF OpenReceipt, Accepted, TypeOK, Unsent
  <2>7. Abstract!Confirm(e.msg)
    BY <2>1, <2>2, <2>5, <2>6 DEF Abstract!Confirm, Accepted, Confirmed
  <2>8. QED
    BY <2>1, <2>7 DEF Abstract!Next
<1>5. ASSUME NEW t \in tasks, Finish(t)
      PROVE  UNCHANGED <<Accepted, copies, Confirmed>>
  BY <1>1, <1>5 DEF Finish, MarkAccepted, Accepted, Confirmed, TypeOK, Unsent,
                    received
<1>6. ASSUME UNCHANGED <<status, copies, seen>>
      PROVE  UNCHANGED <<Accepted, copies, Confirmed>>
  BY <1>6 DEF Accepted, Confirmed
<1>7. QED
  BY <1>2, <1>3, <1>4, <1>5, <1>6, TablesFrame

\* Two transports, with tasks that end in any order, implement the delivery
\* service of module Delivery.
THEOREM Refinement == Spec => ImplementsDelivery
<1>1. Init => Abstract!Init
  BY EnvelopeFacts DEF Init, Abstract!Init, Unsent
<1>2. ASSUME IInv, [Next]_vars
      PROVE  [Abstract!Next]_(Abstract!dvars)
  <2>1. CASE Next
    BY <1>2, <2>1, DeliveryStep DEF Abstract!dvars, Accepted, Confirmed
  <2>2. CASE UNCHANGED vars
    BY <2>2 DEF Abstract!dvars, vars, rows, received
  <2>3. QED
    BY <1>2, <2>1, <2>2
<1>3. QED
  BY Invariant, <1>1, <1>2, PTL DEF Spec, ImplementsDelivery, Abstract!Spec
=============================================================================
