----------------------------- MODULE PhoneVault -----------------------------
(***************************************************************************)
(* The vault of the native Android client: NativeVault.java, and the       *)
(* backup timer of NativeEngine.java.                                      *)
(*                                                                         *)
(* The engine's monitor makes a request of the user one operation at a     *)
(* time, but the upload the timer starts runs outside it: the vault        *)
(* changes, locks or changes its password while a snapshot prepared        *)
(* earlier is on its way.  An operation is a sequence of steps, between    *)
(* any two of which the process may die; a new password takes effect by    *)
(* two renames under a journal, which the next start completes.            *)
(*                                                                         *)
(* The data of a vault is the number of writes made to it.  shards is the  *)
(* generation of fragments a directory or a backup belongs to: a vault     *)
(* that opens with the relay needs a backup of its own generation, one     *)
(* that opens with a file the file saved for it.                           *)
(***************************************************************************)
EXTENDS Naturals, Sequences

CONSTANTS
  Password,
  First,        \* the one the vault is created with
  MaxWrites,    \* bound on changes of the vault
  MaxShards,    \* bound on generations of fragments
  MaxUploads,   \* bound on a backup's version
  MaxFaults     \* bound on failed or late requests, lost answers and crashes

VARIABLES
  root,      \* the vault's directory
  stage,     \* the directory of a running or a stopped password change
  old,       \* the directory the journal moves the root to
  journal,   \* .pending-commit.json names stage and old
  row,       \* vault_backups: what each password finds at the relay
  capsules,  \* generations whose segment file the user has saved
  open,      \* the database is open and the keys are in memory
  backed,    \* lastBackedUpChanges
  timer,     \* the backup timer is armed
  up,        \* the upload the timer has started
  late,      \* an upload its client has given up, still on its way
  job,       \* the running operation and the steps it has still to do
  shards,    \* generations provisioned
  written,   \* history: the writes made
  marked,    \* history: the writes up to the last markDirty
  lost,      \* history: the relay did what its client was told it had not, a delete or
             \* an upload that outlived its row
  faults

disk == <<root, stage, old, journal>>
memory == <<open, backed, timer>>
net == <<up, late>>
history == <<shards, written, marked, lost>>
vars == <<disk, row, capsules, memory, net, job, history, faults>>

Never == MaxWrites + 1
NoDir == [password |-> First, shards |-> 0, data |-> 0, version |-> 0,
          dirty |-> TRUE, file |-> FALSE, cloud |-> FALSE]
Dir == [password : Password, shards : 0 .. MaxShards, data : 0 .. MaxWrites,
        version : 0 .. MaxUploads, dirty : BOOLEAN, file : BOOLEAN, cloud : BOOLEAN]
NoRow == [version |-> 0, data |-> 0, shards |-> 0]
Row == [version : 0 .. MaxUploads, data : 0 .. MaxWrites, shards : 0 .. MaxShards]

\* stale: the vault was marked dirty since, its dirtyGeneration is another; of a request
\* that is late, the row it was to replace has been deleted since.
Prepared == [password : Password, data : 0 .. MaxWrites, shards : 0 .. MaxShards,
             version : 0 .. MaxUploads, stale : BOOLEAN,
             at : {"none", "waiting", "sent", "stored", "failed"}]
NoUpload == [password |-> First, data |-> 0, shards |-> 0, version |-> 0, stale |-> FALSE,
             at |-> "none"]
Idle == [kind |-> "none", steps |-> <<>>, mine |-> NoUpload, next |-> First]
Step == {"drain", "upload", "copy", "put", "delete", "undo", "journal", "aside",
         "switch", "settle", "open", "answer"}

TypeOK ==
  /\ {root, stage, old} \subseteq Dir /\ journal \in BOOLEAN
  /\ row \in [Password -> Row] /\ capsules \subseteq 1 .. MaxShards
  /\ open \in BOOLEAN /\ timer \in BOOLEAN /\ backed \in 0 .. Never
  /\ {up, late} \subseteq Prepared
  /\ job \in [kind : {"none", "sync", "lock", "relay", "file", "recover"}, steps : Seq(Step),
              mine : Prepared, next : Password]
  /\ {written, marked} \subseteq 0 .. MaxWrites /\ shards \in 1 .. MaxShards
  /\ lost \in BOOLEAN /\ faults \in 0 .. MaxFaults
  /\ open => ~journal
  /\ up.at \in {"waiting", "sent", "stored"} => open \/ job.kind = "lock"

\* create: its backup is at the relay; createExternal: its segment file is saved.
Init ==
  /\ \/ /\ root = [NoDir EXCEPT !.shards = 1, !.version = 1, !.dirty = FALSE, !.cloud = TRUE]
        /\ row = [[p \in Password |-> NoRow] EXCEPT ![First] = [version |-> 1, data |-> 0, shards |-> 1]]
        /\ capsules = {} /\ backed = 0
     \/ /\ root = [NoDir EXCEPT !.shards = 1, !.file = TRUE]
        /\ row = [p \in Password |-> NoRow]
        /\ capsules = {1} /\ backed = Never
  /\ stage = NoDir /\ old = NoDir /\ journal = FALSE
  /\ open = TRUE /\ timer = FALSE
  /\ up = NoUpload /\ late = NoUpload /\ job = Idle
  /\ shards = 1 /\ written = 0 /\ marked = 0 /\ lost = FALSE /\ faults = 0

-----------------------------------------------------------------------------
(* Changes of the vault, and the settings of its backup.                   *)
Ready == job = Idle /\ open

FaultyStaled == up
Staled == IF up = NoUpload THEN up ELSE [up EXCEPT !.stale = TRUE]

\* A request that ends in scheduleBackup: markDirty, and the timer if the cloud is on.
Write ==
  /\ Ready /\ written < MaxWrites
  /\ root' = [root EXCEPT !.data = written + 1, !.dirty = TRUE]
  /\ written' = written + 1 /\ marked' = written + 1
  /\ timer' = (timer \/ root.cloud)
  /\ up' = Staled
  /\ UNCHANGED <<stage, old, journal, row, capsules, open, backed, late, job, shards, lost, faults>>

\* One that does not: a download, a prekey, a state of the relay's session.
WriteQuietly ==
  /\ Ready /\ written < MaxWrites
  /\ root' = [root EXCEPT !.data = written + 1]
  /\ written' = written + 1
  /\ UNCHANGED <<stage, old, journal, row, capsules, memory, net, job, shards, marked, lost, faults>>

\* backupInFlight completes before the thread that failed asks for the monitor.
Drained == up = NoUpload \/ up.at = "failed"

SetCloud ==
  /\ Ready /\ Drained
  /\ root' = [root EXCEPT !.cloud = ~@, !.dirty = @ \/ ~root.cloud]
  /\ timer' = ~root.cloud
  /\ marked' = (IF root.cloud THEN marked ELSE root.data)
  /\ UNCHANGED <<stage, old, journal, row, capsules, open, backed, net, job, shards, written,
                 lost, faults>>

\* The segment is written to a file, and confirmed: from now on the vault opens with
\* that file, and the cloud is off.
SaveSegment ==
  /\ Ready
  /\ capsules' = capsules \union {root.shards}
  /\ root' = [root EXCEPT !.file = TRUE, !.cloud = FALSE]
  /\ UNCHANGED <<stage, old, journal, row, memory, net, job, history, faults>>

-----------------------------------------------------------------------------
(* The upload of the timer.                                                *)
Fault == faults < MaxFaults /\ faults' = faults + 1

Snapshot(d) == [password |-> d.password, data |-> d.data, shards |-> d.shards,
                version |-> 0, stale |-> FALSE, at |-> "waiting"]

\* prepareBackgroundBackup has nothing to upload.
Skips == ~root.cloud \/ (~root.dirty /\ backed = root.data)

RunBackup ==
  /\ Ready /\ timer /\ up = NoUpload
  /\ timer' = FALSE
  /\ up' = (IF Skips THEN NoUpload ELSE Snapshot(root))
  /\ UNCHANGED <<disk, row, capsules, open, backed, late, job, history, faults>>

\* The version follows the one known when the upload begins, not when it was prepared.
Numbered(u, d) == [u EXCEPT !.version = d.version + 1, !.at = "sent"]

BeginUpload ==
  /\ up.at = "waiting" /\ root.version < MaxUploads
  /\ up' = Numbered(up, root)
  /\ UNCHANGED <<disk, row, capsules, memory, late, job, history, faults>>

FaultyAccepts(u) == TRUE
Accepts(u) == u.version = row[u.password].version + 1
Stored(u) == [row EXCEPT ![u.password] = [version |-> u.version, data |-> u.data, shards |-> u.shards]]
RowAfter(u) == IF Accepts(u) THEN Stored(u) ELSE row

ServeUpload ==
  /\ up.at = "sent"
  /\ row' = RowAfter(up)
  /\ up' = [up EXCEPT !.at = IF Accepts(up) THEN "stored" ELSE "failed"]
  /\ UNCHANGED <<disk, capsules, memory, late, job, history, faults>>

\* The relay numbers the versions of a row anew once it is deleted, so that a request
\* from before may be the next one again.
ServeLate ==
  /\ late # NoUpload
  /\ row' = RowAfter(late)
  /\ lost' = (lost \/ (late.stale /\ Accepts(late)))
  /\ late' = NoUpload
  /\ UNCHANGED <<disk, capsules, memory, up, job, shards, written, marked, faults>>

\* A request its client gives up.
GivenUp(u) == [u EXCEPT !.stale = FALSE]

\* The request is late, or it was served and its answer is lost.
LoseUpload ==
  /\ up.at \in {"sent", "stored"} /\ Fault
  /\ up' = [up EXCEPT !.at = "failed"]
  /\ late' = (IF up.at = "sent" THEN GivenUp(up) ELSE late)
  /\ UNCHANGED <<disk, row, capsules, memory, job, history>>

\* Nothing was written since the snapshot; a locked vault is asked for its marks only.
Unchanged(u) == ~u.stale /\ (open => root.data = u.data)

Recorded(u) ==
  /\ root' = [root EXCEPT !.version = u.version, !.dirty = @ /\ ~Unchanged(u)]
  /\ backed' = (IF Unchanged(u) THEN u.data ELSE backed)

EndUpload ==
  /\ up.at = "stored"
  /\ Recorded(up)
  /\ up' = NoUpload
  /\ UNCHANGED <<stage, old, journal, row, capsules, open, timer, late, job, history, faults>>

\* After a failure the thread takes the monitor: an open vault is scheduled again.
Reschedule ==
  /\ job = Idle /\ up.at = "failed"
  /\ up' = NoUpload
  /\ IF open
       THEN /\ root' = [root EXCEPT !.dirty = TRUE]
            /\ timer' = root.cloud /\ marked' = root.data
       ELSE UNCHANGED <<root, timer, marked>>
  /\ UNCHANGED <<stage, old, journal, row, capsules, open, backed, late, job, shards, written,
                 lost, faults>>

-----------------------------------------------------------------------------
(* The user's operations.  cancelBackup disarms the timer; drainBackup     *)
(* waits for the upload it has started.                                    *)
LockSteps == <<"drain", "upload">>
CommitSteps == <<"journal", "aside", "switch", "settle">>
RecoverSteps == <<"aside", "switch", "settle">>

Begin(kind, steps, mine, next) ==
  /\ job' = [kind |-> kind, steps |-> steps, mine |-> mine, next |-> next]
  /\ timer' = FALSE

Sync ==
  /\ Ready /\ root.cloud
  /\ Begin("sync", <<"drain", "upload">>, NoUpload, First)
  /\ UNCHANGED <<disk, row, capsules, open, backed, net, history, faults>>

\* The snapshot is prepared and the keys leave memory before anything is waited for.
Lock ==
  /\ Ready
  /\ open' = FALSE
  /\ IF root.cloud
       THEN Begin("lock", LockSteps, Snapshot(root), First)
       ELSE Begin("lock", <<"drain">>, NoUpload, First)
  /\ UNCHANGED <<disk, row, capsules, backed, net, history, faults>>

\* changePassword: with a segment file, or kept at the relay.
ChangePassword(p) ==
  /\ Ready /\ p # root.password
  /\ IF root.file \/ ~root.cloud
       THEN Begin("file", <<"drain", "copy">> \o CommitSteps \o <<"open", "answer">>, NoUpload, p)
       ELSE /\ row[p] = NoRow
            /\ Begin("relay", <<"drain", "upload", "copy", "put", "delete">> \o CommitSteps
                              \o <<"open", "answer">>, NoUpload, p)
  /\ UNCHANGED <<disk, row, capsules, open, backed, net, history, faults>>

\* openVault: one candidate of the catalogue, as a new NativeVault.
Opens(d) ==
  /\ d.shards # 0
  /\ IF d.file THEN d.shards \in capsules ELSE row[d.password].shards = d.shards

\* An open that asks the relay adopts the version it finds there.
Opened(d) == IF d.file THEN d ELSE [d EXCEPT !.version = row[d.password].version]

Unlock ==
  /\ job = Idle /\ ~open /\ Opens(root)
  /\ open' = TRUE /\ backed' = Never
  /\ root' = Opened(root)
  /\ up' = NoUpload
  /\ UNCHANGED <<stage, old, journal, row, capsules, timer, late, job, history, faults>>

-----------------------------------------------------------------------------
(* The steps of an operation.                                              *)
Doing(s) == job.steps # <<>> /\ Head(job.steps) = s
Advance == job' = IF Len(job.steps) = 1 THEN Idle ELSE [job EXCEPT !.steps = Tail(@)]
Stop == job' = Idle
ContinueWith(steps) == job' = [job EXCEPT !.steps = steps]

Drain ==
  /\ Doing("drain") /\ Drained
  /\ Advance
  /\ UNCHANGED <<disk, row, capsules, memory, net, history, faults>>

\* The operation's own upload, answered before the next step.
Upload ==
  LET u == Numbered(IF job.mine = NoUpload THEN Snapshot(root) ELSE job.mine, root)
  IN /\ Doing("upload") /\ root.version < MaxUploads
     /\ \/ /\ Accepts(u) /\ row' = Stored(u) /\ Recorded(u) /\ Advance
           /\ UNCHANGED <<late, faults>>
        \/ /\ ~Accepts(u) /\ Stop
           /\ UNCHANGED <<root, row, backed, late, faults>>
        \/ /\ Fault /\ Stop
           /\ \/ row' = RowAfter(u) /\ UNCHANGED late
              \/ late' = u /\ UNCHANGED row
           /\ UNCHANGED <<root, backed>>
     /\ UNCHANGED <<stage, old, journal, capsules, open, timer, up, history>>

\* copyTree, and provision with fresh fragments.
CopyTree ==
  /\ Doing("copy") /\ shards < MaxShards
  /\ shards' = shards + 1
  /\ stage' = [root EXCEPT !.password = job.next, !.shards = shards + 1, !.version = 0,
                           !.dirty = TRUE, !.file = (job.kind = "file"),
                           !.cloud = (job.kind = "relay")]
  /\ Advance
  /\ UNCHANGED <<root, old, journal, row, capsules, memory, net, written, marked, lost, faults>>

\* The first backup of the new password; without it the stage is cleaned up.
Put ==
  LET u == Numbered(Snapshot(stage), stage)
  IN /\ Doing("put")
     /\ \/ /\ Accepts(u) /\ row' = Stored(u)
           /\ stage' = [stage EXCEPT !.version = 1, !.dirty = FALSE]
           /\ Advance /\ UNCHANGED faults
        \/ /\ Fault /\ row' \in {row, RowAfter(u)}
           /\ stage' = NoDir /\ Stop
     /\ UNCHANGED <<root, old, journal, capsules, memory, net, history>>

Deletes(p) ==
  /\ row' = [row EXCEPT ![p] = NoRow]
  /\ late' = (IF late # NoUpload /\ late.password = p THEN [late EXCEPT !.stale = TRUE] ELSE late)

\* The relay deletes the row whose version is named; any failure is undone.
Delete ==
  /\ Doing("delete")
  /\ \/ /\ row[root.password].version = root.version
        /\ Deletes(root.password) /\ Advance
        /\ UNCHANGED <<lost, faults>>
     \/ /\ row[root.password].version # root.version
        /\ ContinueWith(<<"undo">>)
        /\ UNCHANGED <<row, late, lost, faults>>
     \/ /\ Fault /\ ContinueWith(<<"undo">>)
        /\ \/ UNCHANGED <<row, late, lost>>
           \/ Deletes(root.password) /\ lost' = TRUE
  /\ UNCHANGED <<disk, capsules, memory, up, shards, written, marked>>

Undo ==
  /\ Doing("undo") /\ Stop
  /\ \/ Deletes(stage.password) /\ stage' = NoDir /\ UNCHANGED faults
     \/ Fault /\ UNCHANGED stage
        /\ (Deletes(stage.password) \/ UNCHANGED <<row, late>>)
  /\ UNCHANGED <<root, old, journal, capsules, memory, up, history>>

Journal ==
  /\ Doing("journal")
  /\ journal' = TRUE /\ open' = FALSE
  /\ Advance
  /\ UNCHANGED <<root, stage, old, row, capsules, backed, timer, net, history, faults>>

\* recoverCommit, of a commit or of the next start: what it finds decides.
Aside ==
  /\ Doing("aside")
  /\ IF stage # NoDir /\ root # NoDir
       THEN old' = root /\ root' = NoDir
       ELSE UNCHANGED <<old, root>>
  /\ Advance
  /\ UNCHANGED <<stage, journal, row, capsules, memory, net, history, faults>>

Switch ==
  /\ Doing("switch")
  /\ root' = (CASE stage # NoDir -> stage
                [] stage = NoDir /\ root = NoDir -> old
                [] OTHER -> root)
  /\ stage' = NoDir
  /\ Advance
  /\ UNCHANGED <<old, journal, row, capsules, memory, net, history, faults>>

Settle ==
  /\ Doing("settle")
  /\ journal' = FALSE
  /\ Advance
  /\ UNCHANGED <<root, stage, old, row, capsules, memory, net, history, faults>>

\* The capsule of the new segment is still in memory; a relay's is asked for.
Open ==
  /\ Doing("open")
  /\ \/ /\ root.file \/ Opens(root)
        /\ open' = TRUE /\ root' = Opened(root)
        /\ backed' = (IF root.file THEN backed ELSE Never)
        /\ Advance /\ UNCHANGED faults
     \/ /\ ~root.file /\ Fault /\ Stop
        /\ UNCHANGED <<open, root, backed>>
  /\ UNCHANGED <<stage, old, journal, row, capsules, timer, net, history>>

\* The answer carries the new segment file; one that is lost leaves it to be exported.
Answer ==
  /\ Doing("answer")
  /\ Advance
  /\ \/ capsules' = capsules \union {root.shards} /\ UNCHANGED faults
     \/ Fault /\ UNCHANGED capsules
  /\ UNCHANGED <<disk, row, memory, net, history>>

\* The process dies; the next start recovers what its journal names.
Crash ==
  /\ Fault
  /\ open' = FALSE /\ timer' = FALSE
  /\ up' = NoUpload
  /\ late' = (IF up.at = "sent" THEN GivenUp(up) ELSE late)
  /\ job' = (IF journal THEN [Idle EXCEPT !.kind = "recover", !.steps = RecoverSteps] ELSE Idle)
  /\ UNCHANGED <<disk, row, capsules, backed, history>>

Next ==
  \/ Write \/ WriteQuietly \/ SetCloud \/ SaveSegment
  \/ RunBackup \/ BeginUpload \/ ServeUpload \/ ServeLate \/ LoseUpload \/ EndUpload \/ Reschedule
  \/ Sync \/ Lock \/ Unlock
  \/ \E p \in Password : ChangePassword(p)
  \/ Drain \/ Upload \/ CopyTree \/ Put \/ Delete \/ Undo
  \/ Journal \/ Aside \/ Switch \/ Settle \/ Open \/ Answer
  \/ Crash

Spec == Init /\ [][Next]_vars

-----------------------------------------------------------------------------
(* Properties.                                                             *)

\* The directory the next start finds, after it has recovered a commit.
Recovered ==
  IF ~journal THEN root
  ELSE IF stage # NoDir THEN stage ELSE IF root # NoDir THEN root ELSE old

\* Its segment is in a file nobody has saved yet.
Unsaved == Recovered.file /\ Recovered.shards \notin capsules

\* Wherever an operation stops, what was written is in memory, in a directory that
\* opens, or in a backup of some password.  Apart: a segment nobody has saved, a delete
\* whose answer was lost and whose compensation removed the other backup too, and an
\* upload that arrives after the password was changed twice and is the old one again.
NothingLost ==
  lost \/ Unsaved \/ open
  \/ (Opens(Recovered) /\ Recovered.data = written)
  \/ \E p \in Password : row[p].data = written /\ row[p].version > 0

\* A vault that is clean has its marked writes at the relay, and one the timer would
\* skip has all of them: changes during an upload are not taken for uploaded.
CleanIsUploaded ==
  ~lost /\ Opens(root) /\ root.cloud =>
    /\ ~root.dirty => row[root.password].data >= marked
    /\ open /\ Skips => row[root.password].data = root.data

\* No upload replaces a backup by an older one: neither the timer's, overtaken by a
\* lock or a synchronisation, nor one that arrives late, unless its row was deleted.
BackupNeverOlder ==
  [][lost' \/ \A p \in Password : row'[p] # NoRow => row'[p].data >= row[p].data]_vars
=============================================================================
