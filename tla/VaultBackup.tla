---------------------------- MODULE VaultBackup ----------------------------
(***************************************************************************)
(* The cloud backup of one vault and its copies on other devices:          *)
(* syncBackup, unlockSecure and restoreSecure of                           *)
(* apps/local-daemon/src/secure-vault.ts, the timer of debounced-backup.ts *)
(* and the routes that use them, and the put of                            *)
(* apps/relay-server/src/vault-backup.ts.  A daemon serves one request at  *)
(* a time (server.ts:62-64); its timer and its uploads run beside it.      *)
(*                                                                         *)
(* A backup is replaced under a version number the writer believes to be   *)
(* the next one.  The writer learns it from the answers to its uploads,    *)
(* keeps it in a file, and loses either.  The relay also keeps the token   *)
(* of the instance of the vault that may write for a registered device.    *)
(***************************************************************************)
EXTENDS Naturals, Sequences, FiniteSets

CONSTANTS
  Copy,          \* places a vault may be kept in (root directories)
  Original,      \* the one it was created in
  Edit,          \* changes users make, each in one copy
  Registration,  \* the edit that registers the vault's device at the relay
  Ids, NoId,     \* values of nonces and of instance tokens
  RelayBound,    \* the vault keeps its seventh shard at the relay: a decoy, or old
  MaxRequests,   \* bound on locks, settings, manual backups and restores
  MaxFailures,   \* bound on uploads that do not reach the relay
  MaxLosses      \* bound on lost or late answers, repeated requests, crashes

ASSUME BackupAssumption ==
  /\ Original \in Copy
  /\ Registration \in Edit
  /\ NoId \notin Ids
  /\ RelayBound \in BOOLEAN
  /\ MaxRequests \in Nat
  /\ MaxFailures \in Nat
  /\ MaxLosses \in Nat

\* An upload: the snapshot and the instance it was taken from, encrypted with
\* its nonce; proof: it names the device.  The version is set when it is sent.
Body == [content : SUBSET Edit, instance : Ids \union {NoId}, proof : BOOLEAN,
         nonce : Ids \union {NoId}, version : Nat]
Progress == {"queued", "sent", "ok", "saving", "refused"}
Upload == [body : Body, at : Progress, by : {"timer", "request"}]

VARIABLES
  present,   \* copies that exist
  content,   \* the edits in a copy's database
  instance,  \* its vault_instance token
  version,   \* backupVersion of the configuration in memory
  saved,     \* and of its file
  external,  \* copies whose seventh shard is a file: they open without the relay
  cloud,     \* copies with cloudBackupEnabled
  open,      \* unlocked copies
  dirty,     \* copies whose backup timer runs
  request,   \* what the request being served waits to do
  uploads,   \* backupTail: the running upload first
  backup,    \* row of vault_backups, version 0 when there is none
  lock,      \* instance_hash of device_vault_locks
  late,      \* requests nobody waits for that may still arrive
  edits,     \* edits made so far
  requests, failures, losses

copies == <<present, content, instance, version, saved, external, cloud>>
daemon == <<open, dirty, request, uploads>>
relay  == <<backup, lock>>
bounds == <<requests, failures, losses>>
vars   == <<copies, daemon, relay, late, edits, bounds>>

TypeOK ==
  /\ present \subseteq Copy
  /\ content \in [Copy -> SUBSET Edit]
  /\ instance \in [Copy -> Ids \union {NoId}]
  /\ version \in [Copy -> Nat]
  /\ saved \in [Copy -> Nat]
  /\ external \subseteq Copy
  /\ cloud \subseteq Copy
  /\ open \subseteq present
  /\ dirty \subseteq Copy
  /\ request \in [Copy -> {"none", "sync", "on", "off", "wait"}]
  /\ uploads \in [Copy -> Seq(Upload)]
  /\ backup \in Body
  /\ lock \in Ids \union {NoId}
  /\ late \subseteq Body
  /\ edits \subseteq Edit
  /\ requests \in Nat
  /\ failures \in Nat
  /\ losses \in Nat

\* createSecure: a relay-bound vault is not created without its first backup,
\* any other begins with the cloud off.
FirstBackup ==
  [content |-> {}, instance |-> NoId, proof |-> FALSE, nonce |-> NoId,
   version |-> IF RelayBound THEN 1 ELSE 0]

Init ==
  /\ present = {Original}
  /\ content = [c \in Copy |-> {}]
  /\ instance = [c \in Copy |-> NoId]
  /\ version = [c \in Copy |-> IF c = Original THEN FirstBackup.version ELSE 0]
  /\ saved = version
  /\ external = IF RelayBound THEN {} ELSE {Original}
  /\ cloud = IF RelayBound THEN {Original} ELSE {}
  /\ open = {Original}
  /\ dirty = {}
  /\ request = [c \in Copy |-> "none"]
  /\ uploads = [c \in Copy |-> <<>>]
  /\ backup = FirstBackup
  /\ lock = NoId
  /\ late = {}
  /\ edits = {}
  /\ requests = 0
  /\ failures = 0
  /\ losses = 0

-----------------------------------------------------------------------------
(* Helpers.                                                                *)

\* The daemon of an open copy serves no other request.
Free(c) == c \in open /\ request[c] = "none"
Requested == requests < MaxRequests /\ requests' = requests + 1
Failure == failures < MaxFailures /\ failures' = failures + 1
Loss == losses < MaxLosses /\ losses' = losses + 1

Running(c) == {uploads[c][i] : i \in DOMAIN uploads[c]}
Active(c) == \E u \in Running(c) : u.by = "timer"
Bodies == {u.body : u \in UNION {Running(c) : c \in Copy}} \union late \union {backup}

\* Random values: no other in use.
FreshNonce == CHOOSE i \in Ids : i \notin {b.nonce : b \in Bodies}
FreshInstance ==
  CHOOSE i \in Ids : i \notin {b.instance : b \in Bodies} \union {lock} \union
                              {instance[c] : c \in Copy}

\* syncBackup up to its first wait: the snapshot is taken and encrypted, the
\* upload put behind those running.
SyncBackup(c, by) ==
  LET token == IF instance[c] = NoId THEN FreshInstance ELSE instance[c]
      body  == [content |-> content[c], instance |-> token,
                proof |-> Registration \in content[c],
                nonce |-> FreshNonce, version |-> 0] IN
  /\ instance' = [instance EXCEPT ![c] = token]
  /\ uploads' = [uploads EXCEPT ![c] = Append(@, [body |-> body, at |-> "queued", by |-> by])]

Upcoming(c, point) == uploads[c] # <<>> /\ Head(uploads[c]).at = point
StepHead(c, u) == uploads' = [uploads EXCEPT ![c] = <<u>> \o Tail(@)]

\* The running upload has ended.  The request that made it is answered.  The
\* timer's run is over, and after a failure schedules another one and fails the
\* request that waits for it.
Settle(c, failed) ==
  LET byTimer == Head(uploads[c]).by = "timer" IN
  /\ uploads' = [uploads EXCEPT ![c] = Tail(@)]
  /\ request' = IF byTimer => failed /\ request[c] # "wait"
                  THEN [request EXCEPT ![c] = "none"] ELSE request
  /\ dirty' = IF failed /\ byTimer /\ c \in open \intersect cloud
                THEN dirty \union {c} ELSE dirty

-----------------------------------------------------------------------------
(* What users do.                                                          *)

\* A change of the database; the routes that make one schedule a backup.
MakeEdit(c, e) ==
  /\ Free(c)
  /\ e \notin edits
  /\ edits' = edits \union {e}
  /\ content' = [content EXCEPT ![c] = @ \union {e}]
  /\ dirty' = IF c \in cloud THEN dirty \union {c} ELSE dirty
  /\ UNCHANGED <<present, instance, version, saved, external, cloud, open, request,
                 uploads, relay, late, bounds>>

\* A backup by hand and the setting first cancel the timer and wait for its run.
Ask(c, r) ==
  /\ Free(c)
  /\ Requested
  /\ request' = [request EXCEPT ![c] = r]
  /\ dirty' = dirty \ {c}
  /\ UNCHANGED <<copies, open, uploads, relay, late, edits, failures, losses>>

SyncByHand(c) ==
  /\ request[c] = "sync"
  /\ ~Active(c)
  /\ IF c \in cloud
       THEN SyncBackup(c, "request") /\ request' = [request EXCEPT ![c] = "wait"]
       ELSE request' = [request EXCEPT ![c] = "none"] /\ UNCHANGED <<instance, uploads>>
  /\ UNCHANGED <<present, content, version, saved, external, cloud, open, dirty,
                 relay, late, edits, bounds>>

SetCloudBackup(c) ==
  /\ request[c] \in {"on", "off"}
  /\ ~Active(c)
  /\ IF request[c] = "on"
       THEN cloud' = cloud \union {c} /\ dirty' = dirty \union {c}
       ELSE cloud' = cloud \ {c} /\ UNCHANGED dirty
  /\ saved' = [saved EXCEPT ![c] = version[c]]
  /\ request' = [request EXCEPT ![c] = "none"]
  /\ UNCHANGED <<present, content, instance, version, external, open, uploads,
                 relay, late, edits, bounds>>

\* confirmShard7Saved: the vault opens with a file from now on.
ConfirmShard7Saved(c) ==
  /\ Free(c)
  /\ c \notin external
  /\ external' = external \union {c}
  /\ cloud' = cloud \ {c}
  /\ saved' = [saved EXCEPT ![c] = version[c]]
  /\ UNCHANGED <<present, content, instance, version, daemon, relay, late, edits,
                 bounds>>

\* POST /api/vault/lock: a last snapshot, then the keys are wiped; the request
\* waits for the upload.
Lock(c) ==
  /\ Free(c)
  /\ Requested
  /\ dirty' = dirty \ {c}
  /\ open' = open \ {c}
  /\ IF c \in cloud
       THEN SyncBackup(c, "request") /\ request' = [request EXCEPT ![c] = "wait"]
       ELSE UNCHANGED <<instance, uploads, request>>
  /\ UNCHANGED <<present, content, version, saved, external, cloud, relay, late,
                 edits, failures, losses>>

\* unlockSecure: a relay-bound vault takes the backup's version over, after its
\* configuration has been saved.
Unlock(c) ==
  /\ c \in present \ open
  /\ request[c] = "none"
  /\ c \in external \/ backup.version > 0
  /\ IF c \in external
       THEN UNCHANGED <<version, saved>>
       ELSE /\ saved' = [saved EXCEPT ![c] = version[c]]
            /\ version' = [version EXCEPT ![c] = backup.version]
  /\ open' = open \union {c}
  /\ UNCHANGED <<present, content, instance, external, cloud, dirty, request,
                 uploads, relay, late, edits, bounds>>

\* restoreSecure: what the relay has, with no instance token and the cloud off.
RestoreAs(c, v) ==
  /\ c \notin open
  /\ request[c] = "none"
  /\ uploads[c] = <<>>
  /\ Requested
  /\ backup.version > 0
  /\ present' = present \union {c}
  /\ content' = [content EXCEPT ![c] = backup.content]
  /\ instance' = [instance EXCEPT ![c] = NoId]
  /\ version' = [version EXCEPT ![c] = v]
  /\ saved' = [saved EXCEPT ![c] = v]
  /\ external' = external \union {c}
  /\ cloud' = cloud \ {c}
  /\ open' = open \union {c}
  /\ UNCHANGED <<dirty, request, uploads, relay, late, edits, failures, losses>>

\* Faulty variant: a copy begins at the version after the one it was made from.
RestoreAhead(c) == RestoreAs(c, backup.version + 1)
Restore(c) == RestoreAs(c, backup.version)

-----------------------------------------------------------------------------
(* Uploads.                                                                *)

\* Faulty variant: the running upload is taken for the one that is due.
TimerSkips(c) ==
  /\ c \in dirty \intersect open \intersect cloud
  /\ dirty' = dirty \ {c}
  /\ IF Active(c) THEN UNCHANGED <<instance, uploads>> ELSE SyncBackup(c, "timer")
  /\ UNCHANGED <<present, content, version, saved, external, cloud, open, request,
                 relay, late, edits, bounds>>

\* DebouncedBackup.run; while an upload of its own is running it waits.
Timer(c) ==
  /\ c \in dirty \intersect open \intersect cloud
  /\ ~Active(c)
  /\ dirty' = dirty \ {c}
  /\ SyncBackup(c, "timer")
  /\ UNCHANGED <<present, content, version, saved, external, cloud, open, request,
                 relay, late, edits, bounds>>

\* Faulty variant: off by one, in the wrong direction.
PreviousVersion(c) == version[c] - 1
NextVersion(c) == version[c] + 1

\* The next version is signed once earlier uploads have settled.
Begin(c) ==
  /\ Upcoming(c, "queued")
  /\ IF c \in cloud
       THEN /\ StepHead(c, [Head(uploads[c]) EXCEPT !.at = "sent",
                                                  !.body.version = NextVersion(c)])
            /\ UNCHANGED <<dirty, request>>
       ELSE Settle(c, FALSE)
  /\ UNCHANGED <<copies, open, relay, late, edits, bounds>>

\* The relay's conditions on a request.
Identical(b) == backup.version > 0 /\ backup.nonce = b.nonce
InTurn(b) ==
  b.version = backup.version + 1 \/ (Identical(b) /\ b.version = backup.version)
Moved(b) == b.proof /\ lock # NoId /\ lock # b.instance
\* Faulty variant: versions are not compared.
AcceptsAny(b) == ~Moved(b)
Accepts(b) == InTurn(b) /\ ~Moved(b)

\* A request is accepted or leaves no trace.
Put(b) ==
  IF Accepts(b) /\ ~Identical(b)
    THEN backup' = b /\ lock' = IF b.proof THEN b.instance ELSE lock
    ELSE UNCHANGED relay

PutHead(c) ==
  LET u == Head(uploads[c]) IN
  /\ Upcoming(c, "sent")
  /\ Put(u.body)
  /\ StepHead(c, [u EXCEPT !.at = IF Accepts(u.body) THEN "ok" ELSE "refused"])
  /\ UNCHANGED <<copies, open, dirty, request, late, edits, bounds>>

Answered(c) ==
  /\ Upcoming(c, "ok")
  /\ version' = [version EXCEPT ![c] = Head(uploads[c]).body.version]
  /\ StepHead(c, [Head(uploads[c]) EXCEPT !.at = "saving"])
  /\ UNCHANGED <<present, content, instance, saved, external, cloud, open, dirty,
                 request, relay, late, edits, bounds>>

SaveConfig(c) ==
  /\ Upcoming(c, "saving")
  /\ saved' = [saved EXCEPT ![c] = version[c]]
  /\ Settle(c, FALSE)
  /\ UNCHANGED <<present, content, instance, version, external, cloud, open, relay,
                 late, edits, bounds>>

Refused(c) ==
  /\ Upcoming(c, "refused")
  /\ Settle(c, TRUE)
  /\ UNCHANGED <<copies, open, relay, late, edits, bounds>>

-----------------------------------------------------------------------------
(* Failures.                                                               *)

\* The relay is not reached.
Unreached(c) ==
  /\ Upcoming(c, "sent")
  /\ Failure
  /\ StepHead(c, [Head(uploads[c]) EXCEPT !.at = "refused"])
  /\ UNCHANGED <<copies, open, dirty, request, relay, late, edits, requests, losses>>

\* No answer within 30 seconds: the request may arrive later.
TimeOut(c) ==
  /\ Upcoming(c, "sent")
  /\ Loss
  /\ late' = late \union {Head(uploads[c]).body}
  /\ StepHead(c, [Head(uploads[c]) EXCEPT !.at = "refused"])
  /\ UNCHANGED <<copies, open, dirty, request, relay, edits, requests, failures>>

\* The answer is lost, or the request sent once more on its way.
AnswerLost(c) ==
  /\ Upcoming(c, "ok")
  /\ Loss
  /\ \/ StepHead(c, [Head(uploads[c]) EXCEPT !.at = "refused"]) /\ UNCHANGED late
     \/ late' = late \union {Head(uploads[c]).body} /\ UNCHANGED uploads
  /\ UNCHANGED <<copies, open, dirty, request, relay, edits, requests, failures>>

ArriveLate(b) ==
  /\ Put(b)
  /\ late' = late \ {b}
  /\ UNCHANGED <<copies, daemon, edits, bounds>>

\* The process ends, with the desktop or by itself: no backup is made.
Crash(c) ==
  /\ c \in open \/ request[c] # "none" \/ uploads[c] # <<>>
  /\ Loss
  /\ open' = open \ {c}
  /\ dirty' = dirty \ {c}
  /\ request' = [request EXCEPT ![c] = "none"]
  /\ uploads' = [uploads EXCEPT ![c] = <<>>]
  /\ version' = [version EXCEPT ![c] = saved[c]]
  /\ late' = IF Upcoming(c, "sent") THEN late \union {Head(uploads[c]).body} ELSE late
  /\ UNCHANGED <<present, content, instance, saved, external, cloud, relay, edits,
                 requests, failures>>

-----------------------------------------------------------------------------

UserStep(c) ==
  \/ \E e \in Edit : MakeEdit(c, e)
  \/ \E r \in {"sync", "on", "off"} : Ask(c, r)
  \/ ConfirmShard7Saved(c) \/ Lock(c) \/ Unlock(c) \/ Restore(c)

ServeStep(c) == SyncByHand(c) \/ SetCloudBackup(c)

UploadStep(c) ==
  Timer(c) \/ Begin(c) \/ PutHead(c) \/ Answered(c) \/ SaveConfig(c) \/ Refused(c)

FaultStep(c) == Unreached(c) \/ TimeOut(c) \/ AnswerLost(c) \/ Crash(c)

Next ==
  \/ \E c \in Copy : UserStep(c) \/ ServeStep(c) \/ UploadStep(c) \/ FaultStep(c)
  \/ \E b \in late : ArriveLate(b)

Spec == Init /\ [][Next]_vars

\* Timers fire and requests end after 30 seconds; a request that waits for the
\* timer's run is served when the run is over, before another one.
Fairness ==
  \A c \in Copy : WF_vars(UploadStep(c)) /\ SF_vars(ServeStep(c))

FairSpec == Spec /\ Fairness

-----------------------------------------------------------------------------
(* Properties.                                                             *)

\* A copy that believes it is at the relay's version has all that is in it, in
\* its database and in every snapshot about to be sent under the next version,
\* so that what it uploads next replaces nothing it has not seen.
CurrentIsComplete ==
  \A c \in present :
    /\ version[c] <= backup.version
    /\ version[c] = backup.version => backup.content \subseteq content[c]

\* An upload that is reported as done - to a lock, to a backup by hand - is in
\* the backup, whatever has been uploaded since and by whom.
ReportedIsKept ==
  \A c \in Copy : \A u \in Running(c) :
    u.at \in {"ok", "saving"} => u.body.content \subseteq backup.content

\* Both: what a copy replaces it has seen, and what it was told is kept is kept.
CopiesKept == CurrentIsComplete /\ ReportedIsKept

\* A replaced backup contains what it replaces, and versions count up: the abstract
\* specification.
Register == INSTANCE BackupRegister WITH
  number <- backup.version,
  holds  <- backup.content
ImplementsRegister == Register!Spec

\* As long as no answer is lost, no upload made by a request fails and no other
\* instance of the vault has the device's lock, the edits of an open copy are backed
\* up, unless a restore replaces the copy: no order of edits, timers, running uploads,
\* settings and failures of the timer's uploads leaves one behind
\* (debounced-backup.ts:7-16).
Failed(c, by) == Upcoming(c, "refused") /\ Head(uploads[c]).by = by
EventuallyBackedUp ==
  \A c \in Copy : \A e \in Edit :
    /\ [](losses = 0 /\ ~Failed(c, "request") /\ lock \in {NoId, instance[c]})
    /\ <>[](c \in open \intersect cloud)
    => (e \in content[c] ~> e \in backup.content \/ e \notin content[c])
=============================================================================
