-------------------------- MODULE MCLiveServices --------------------------
(* What a daemon brings about in the end, for TLC: the backup of a vault,  *)
(* downloads of attachments, and what the user interface shows.  They      *)
(* share no state here; a behaviour chooses one of them, and runs it with  *)
(* the others at rest.  At rest nothing they are fair to is enabled.       *)
EXTENDS VaultBackup, TLC

CONSTANTS
  a, b, reg, e1,          \* copies and edits of VaultBackup
  a1, a2,                 \* attachments
  v1, c1, c2, m1, None    \* a vault, its conversations and a message

VARIABLES
  part,
  upload, blob, row, expired, queue, file, doing, snapshot, restored, faults, restores,
  vault, session, quick, stored, view, mine, csrf, epoch, contacts, selected, screen,
  optimistic, syncing, sending, pending, selects, uiLosses

backupVars == vars
fileVars == <<upload, blob, row, expired, queue, file, doing, snapshot, restored, faults,
              restores>>
uiVars == <<vault, session, quick, stored, view, mine, csrf, epoch, contacts, selected, screen,
            optimistic, syncing, sending, pending, selects, uiLosses>>
allVars == <<part, backupVars, fileVars, uiVars>>

SixIds == 1 .. 6

\* One download at a time.
Files == INSTANCE Attachments WITH
  Attachment <- {a1, a2}, Chunks <- 2, MaxBatch <- 1, MaxFaults <- 2, MaxRestores <- 0,
  backup <- snapshot

\* Two conversations of one vault.
Ui == INSTANCE LocalUi WITH
  Vault <- {v1}, Conversation <- {c1, c2}, Item <- {m1}, Text <- {},
  Owner <- (c1 :> v1) @@ (c2 :> v1), MaxEpochs <- 2, MaxSelects <- 1, MaxLosses <- 1,
  losses <- uiLosses

LiveInit ==
  /\ part \in {"backup", "files", "ui"}
  /\ Init /\ Files!Init /\ Ui!Init

BackupStep == part = "backup" /\ Next /\ UNCHANGED <<part, fileVars, uiVars>>
FileStep == part = "files" /\ Files!Next /\ UNCHANGED <<part, backupVars, uiVars>>
UiStep == part = "ui" /\ Ui!Next /\ UNCHANGED <<part, backupVars, fileVars>>

LiveNext == BackupStep \/ FileStep \/ UiStep

LiveSpec ==
  LiveInit /\ [][LiveNext]_allVars /\ Fairness /\ Files!Fairness /\ Ui!Fairness

-----------------------------------------------------------------------------
(* The properties of the parts; EventuallyBackedUp is VaultBackup's.       *)

\* A queued attachment is downloaded in the end, or its message disappears.
EventuallyDownloaded == Files!EventuallyDownloaded

\* A message the vault holds is shown in the conversation the user has before them.
EventuallyShown == Ui!EventuallyShown
=============================================================================
