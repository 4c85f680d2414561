---------------------------- MODULE Attachments ----------------------------
(***************************************************************************)
(* Files on their way from a sender's daemon to a recipient's: chunks and  *)
(* blobs of apps/relay-server/src/attachments.ts, upload, the durable      *)
(* queue of downloads and the local files of                               *)
(* apps/local-daemon/src/attachments.ts, the rows syncMessages writes for  *)
(* them, the job of disappearing.ts, and the snapshot a vault is restored  *)
(* from.  The message itself arrives once (module Messaging).              *)
(*                                                                         *)
(* Requests and the job take turns (server.ts:63-64, 488-492); the daemon  *)
(* may stop between any two writes.                                        *)
(***************************************************************************)
EXTENDS Naturals, Sequences, FiniteSets, SequencesExt

CONSTANTS
  Attachment,
  Chunks,       \* chunks of every attachment
  MaxBatch,     \* downloads tried at a time: LIMIT 8
  MaxFaults,    \* bound on requests that fail and on crashes
  MaxRestores   \* bound on restores

VARIABLES
  upload,    \* the sender: how far it is with the file
  blob,      \* attachment_blobs and attachment_chunks: how many chunks, or no blob
  row,       \* attachments of the recipient: whether encrypted_local_path is set
  expired,   \* messages past disappear_at
  queue,     \* attachment_downloads in the order of their rowids
  file,      \* files in the vault's directory
  doing,     \* what the recipient's daemon is at
  backup,    \* rows, queue and files of the last snapshot
  restored,  \* history: downloads a restore has brought back
  faults, restores

local == <<row, queue, file>>
counts == <<faults, restores>>
vars == <<upload, blob, local, expired, doing, backup, restored, counts>>

NoBlob == Chunks + 1
Idle == [at |-> "idle"]
Rows == [Attachment -> {"none", "waiting", "ready"}]

\* q without the members of S; a recursive function, which the proofs can expand.
Without(q, S) ==
  LET upTo[n \in 0 .. Len(q)] ==
        IF n = 0 THEN <<>>
        ELSE IF q[n] \in S THEN upTo[n - 1] ELSE Append(upTo[n - 1], q[n])
  IN upTo[Len(q)]

TypeOK ==
  /\ upload \in [Attachment -> {"new", "chunks", "cached", "sent", "failed"}]
  /\ blob \in [Attachment -> 0 .. NoBlob]
  /\ row \in Rows /\ expired \subseteq Attachment /\ file \subseteq Attachment
  /\ queue \in Seq(Attachment) /\ IsInjective(queue)
  /\ doing \in [at : {"chunk"}, batch : Seq(Attachment), n : 0 .. Chunks]
                 \union [at : {"fetched", "cached", "committed"}, batch : Seq(Attachment)]
                 \union [at : {"unlinked"}, message : Attachment]
                 \union {Idle}
  /\ backup.row \in Rows /\ backup.queue \in Seq(Attachment) /\ backup.file \subseteq Attachment
  /\ restored \subseteq Attachment
  /\ faults \in 0 .. MaxFaults /\ restores \in 0 .. MaxRestores

Init ==
  /\ upload = [a \in Attachment |-> "new"]
  /\ blob = [a \in Attachment |-> NoBlob]
  /\ row = [a \in Attachment |-> "none"]
  /\ expired = {} /\ queue = <<>> /\ file = {} /\ doing = Idle
  /\ backup = [row |-> row, queue |-> <<>>, file |-> {}]
  /\ restored = {} /\ faults = 0 /\ restores = 0

(***************************************************************************)
(* The sender: the blob, its chunks in order, its own file, the message.   *)
(***************************************************************************)
Upload(a) ==
  /\ upload[a] = "new"
  /\ blob' = [blob EXCEPT ![a] = 0]
  /\ upload' = [upload EXCEPT ![a] = "chunks"]
  /\ UNCHANGED <<local, expired, doing, backup, restored, counts>>

\* A blob takes the chunks its sender has announced.
MoreChunks(a) == blob[a] < Chunks

UploadChunk(a) ==
  /\ upload[a] = "chunks" /\ MoreChunks(a)
  /\ blob' = [blob EXCEPT ![a] = @ + 1]
  /\ UNCHANGED <<upload, local, expired, doing, backup, restored, counts>>

\* The manifest is the caller's only when every chunk is there and the file cached.
FinishUpload(a) ==
  /\ upload[a] = "chunks" /\ blob[a] = Chunks
  /\ upload' = [upload EXCEPT ![a] = "cached"]
  /\ UNCHANGED <<blob, local, expired, doing, backup, restored, counts>>

UploadFails(a) ==
  /\ upload[a] = "chunks" /\ faults < MaxFaults
  /\ upload' = [upload EXCEPT ![a] = "failed"]
  /\ faults' = faults + 1
  /\ UNCHANGED <<blob, local, expired, doing, backup, restored, restores>>

\* The message arrives and its transaction queues the download.
Receive(a) ==
  /\ upload[a] = "cached" /\ doing = Idle
  /\ upload' = [upload EXCEPT ![a] = "sent"]
  /\ row' = [row EXCEPT ![a] = "waiting"]
  /\ queue' = Append(queue, a)
  /\ UNCHANGED <<blob, file, expired, doing, backup, restored, counts>>

(***************************************************************************)
(* The recipient's downloads.                                              *)
(***************************************************************************)
FirstOf(q) == SubSeq(q, 1, IF Len(q) < MaxBatch THEN Len(q) ELSE MaxBatch)
Lasting(q) == Without(q, expired)

\* retryAttachmentDownloads takes the first few rows whose message still counts.
FaultyBatch == Lasting(FirstOf(queue))
Batch == FirstOf(Lasting(queue))

StartDownloads ==
  /\ doing = Idle /\ Batch # <<>>
  /\ doing' = [at |-> "chunk", batch |-> Batch, n |-> 0]
  /\ UNCHANGED <<upload, blob, local, expired, backup, restored, counts>>

Current == Head(doing.batch)

\* What follows the download at the head of the batch.
AfterOne == IF Len(doing.batch) = 1 THEN Idle
            ELSE [at |-> "chunk", batch |-> Tail(doing.batch), n |-> 0]

DownloadChunk ==
  /\ doing.at = "chunk" /\ doing.n < Chunks
  /\ doing' = IF blob[Current] # NoBlob /\ doing.n < blob[Current]
                THEN [doing EXCEPT !.n = @ + 1] ELSE AfterOne
  /\ UNCHANGED <<upload, blob, local, expired, backup, restored, counts>>

\* The digest is right: the chunks are the sender's, each under its own nonce.
FaultyFetched == [at |-> "cached", batch |-> doing.batch]
Fetched == [at |-> "fetched", batch |-> doing.batch]

FinishChunks ==
  /\ doing.at = "chunk" /\ doing.n = Chunks
  /\ doing' = Fetched
  /\ UNCHANGED <<upload, blob, local, expired, backup, restored, counts>>

CacheFile ==
  /\ doing.at = "fetched"
  /\ file' = file \union {Current}
  /\ doing' = [doing EXCEPT !.at = "cached"]
  /\ UNCHANGED <<upload, blob, row, queue, expired, backup, restored, counts>>

CommitDownload ==
  /\ doing.at = "cached"
  /\ row' = [row EXCEPT ![Current] = "ready"]
  /\ queue' = Without(queue, {Current})
  /\ doing' = [doing EXCEPT !.at = "committed"]
  /\ UNCHANGED <<upload, blob, file, expired, backup, restored, counts>>

\* The last request frees the relay's copy.
MayFree == doing.at = "committed"

DeleteBlob ==
  /\ MayFree
  /\ blob' = [blob EXCEPT ![Current] = NoBlob]
  /\ doing' = AfterOne
  /\ UNCHANGED <<upload, local, expired, backup, restored, counts>>

\* A request of the batch fails: the next download is tried.
RequestFails ==
  /\ doing.at \in {"chunk", "committed"} /\ faults < MaxFaults
  /\ doing' = AfterOne
  /\ faults' = faults + 1
  /\ UNCHANGED <<upload, blob, local, expired, backup, restored, restores>>

Crash ==
  /\ doing # Idle /\ faults < MaxFaults
  /\ doing' = Idle
  /\ faults' = faults + 1
  /\ UNCHANGED <<upload, blob, local, expired, backup, restored, restores>>

(***************************************************************************)
(* Disappearing messages, backups.                                         *)
(***************************************************************************)
Expire(a) ==
  /\ row[a] # "none" /\ a \notin expired
  /\ expired' = expired \union {a}
  /\ UNCHANGED <<upload, blob, local, doing, backup, restored, counts>>

\* The job unlinks the file of an expired message and then deletes its rows.
UnlinkFile(a) ==
  /\ doing = Idle /\ a \in expired /\ row[a] # "none"
  /\ file' = IF row[a] = "ready" THEN file \ {a} ELSE file
  /\ doing' = [at |-> "unlinked", message |-> a]
  /\ UNCHANGED <<upload, blob, row, queue, expired, backup, restored, counts>>

DeleteMessage ==
  /\ doing.at = "unlinked"
  /\ row' = [row EXCEPT ![doing.message] = "none"]
  /\ queue' = Without(queue, {doing.message})
  /\ doing' = Idle
  /\ UNCHANGED <<upload, blob, file, expired, backup, restored, counts>>

BackUp ==
  /\ doing = Idle /\ restores < MaxRestores
  /\ backup' = [row |-> row, queue |-> queue, file |-> file]
  /\ UNCHANGED <<upload, blob, local, expired, doing, restored, counts>>

\* Files of the snapshot replace those of the vault.
Restore ==
  /\ doing = Idle /\ restores < MaxRestores
  /\ row' = backup.row /\ queue' = backup.queue /\ file' = backup.file
  /\ restored' = restored \union ToSet(backup.queue)
  /\ restores' = restores + 1
  /\ UNCHANGED <<upload, blob, expired, doing, backup, faults>>

Next ==
  \/ \E a \in Attachment : \/ Upload(a) \/ UploadChunk(a) \/ FinishUpload(a) \/ UploadFails(a)
                           \/ Receive(a) \/ Expire(a) \/ UnlinkFile(a)
  \/ StartDownloads \/ DownloadChunk \/ FinishChunks \/ CacheFile \/ CommitDownload
  \/ DeleteBlob \/ RequestFails \/ Crash \/ DeleteMessage \/ BackUp \/ Restore

\* The timers of the daemon start downloads again and again, and a request ends.
Downloads ==
  StartDownloads \/ DownloadChunk \/ FinishChunks \/ CacheFile \/ CommitDownload
    \/ DeleteBlob \/ DeleteMessage

Spec == Init /\ [][Next]_vars
Fairness == WF_vars(Downloads)
FairSpec == Spec /\ Fairness

(***************************************************************************)
(* Properties.                                                             *)
(***************************************************************************)
\* An attachment shown as ready can be opened: no crash in a download, in the job,
\* or between backup and restore leaves its row without its file
\* (attachments.ts:230-236, disappearing.ts:28-46).
ReadyIsReadable == \A a \in Attachment \ expired : row[a] = "ready" => a \in file

\* The relay keeps every chunk until the recipient has the file: whatever fails,
\* a download that is still queued can be done, unless a restore has brought it back
\* (attachments.ts:231-245).
QueuedIsObtainable ==
  \A a \in ToSet(queue) \ restored : blob[a] = Chunks

AttachmentsKept == ReadyIsReadable /\ QueuedIsObtainable

\* A queued attachment whose blob is at the relay is downloaded in the end, or its
\* message disappears (attachments.ts:39-55).
EventuallyDownloaded ==
  \A a \in Attachment :
    a \in ToSet(queue) /\ blob[a] = Chunks ~> a \notin ToSet(queue) \/ a \in expired
=============================================================================
