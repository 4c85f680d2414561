------------------------------ MODULE MCVaults ------------------------------
(* The vault on disk and at the relay, for TLC: the backups two copies of  *)
(* one vault make, the operations that replace a vault's directory, the    *)
(* vault of the phone, the setup of its vaults, and the link with the      *)
(* relay that a phone makes for the vault it has open.  They share no      *)
(* state here; a behaviour chooses one of them, and runs it with the       *)
(* others at rest.                                                         *)
EXTENDS VaultBackup, TLC

CONSTANTS a, b, reg, e1, p1, p2, v1, v2, lan, own, tunnel, domain, None

VARIABLES
  part,
  root, stage, aside, row, files, capsules, browser, unlocked, job, changes, lost,
  generations, faults, lostAnswers,
  phoneRoot, phoneStage, old, journal, phoneRow, phoneCapsules, phoneOpen, backed, timer, up,
  overdue, phoneJob, shards, written, marked, phoneLost, phoneFaults,
  vaults, entries, segments, current, adopted, pendingId, fileEpoch, chosen, session, dialog,
  worker, page, wroteTo, strayed, counts,
  mode, vault, quick, origin, discovered, previous, lookup, token, pushSocket, acting, waiting,
  reconnect, tor, running, network, callback, online, posted, count

backupVars == vars
rotationVars == <<root, stage, aside, row, files, capsules, browser, unlocked, job, changes,
                  lost, generations, faults, lostAnswers>>
phoneVars == <<phoneRoot, phoneStage, old, journal, phoneRow, phoneCapsules, phoneOpen, backed,
               timer, up, overdue, phoneJob, shards, written, marked, phoneLost, phoneFaults>>
setupVars == <<vaults, entries, segments, current, adopted, pendingId, fileEpoch, chosen, session,
               dialog, worker, page, wroteTo, strayed, counts>>
linkVars == <<mode, vault, quick, origin, discovered, previous, lookup, token,
              pushSocket, acting, waiting, reconnect, tor, running, network, callback, online, posted,
              count>>
allVars == <<part, backupVars, rotationVars, phoneVars, setupVars, linkVars>>

SixIds == 1 .. 6

\* A vault that is opened with the relay.
Rotation == INSTANCE VaultRotation WITH
  Password <- {p1, p2}, First <- p1, AtRelay <- TRUE, MaxGenerations <- 3, MaxEdits <- 2,
  MaxFaults <- 1, MaxLosses <- 1,
  open <- unlocked, edits <- changes, losses <- lostAnswers

Phone == INSTANCE PhoneVault WITH
  Password <- {p1, p2}, First <- p1, MaxWrites <- 1, MaxShards <- 2, MaxUploads <- 3,
  MaxFaults <- 1,
  root <- phoneRoot, stage <- phoneStage, row <- phoneRow, capsules <- phoneCapsules,
  open <- phoneOpen, late <- overdue, job <- phoneJob, lost <- phoneLost, faults <- phoneFaults

Setup == INSTANCE VaultSetup WITH
  Id <- {v1, v2}, AtRelay <- {v2}, InFile <- {v2}, MaxVaults <- 3, MaxLocks <- 2, MaxSaves <- 2,
  MaxRecreates <- 1, MaxCrashes <- 1,
  open <- adopted, written <- wroteTo

\* A phone's link while its network, service and mode change.
Link == INSTANCE PhoneLink WITH
  Vault <- {v1, v2}, Builtin <- reg, Lan <- lan, Own <- {own}, Tunnel <- {tunnel},
  Domain <- {domain}, MaxActing <- 2, MaxSessions <- 2, MaxRoutes <- 0, MaxChanges <- 2

\* The same while its route does.
Routing == INSTANCE PhoneLink WITH
  Vault <- {v1, v2}, Builtin <- reg, Lan <- lan, Own <- {own}, Tunnel <- {tunnel},
  Domain <- {domain}, MaxActing <- 1, MaxSessions <- 1, MaxRoutes <- 2, MaxChanges <- 0

VaultsInit ==
  /\ part \in {"backup", "rotation", "phone", "setup", "link", "routing"}
  /\ Init /\ Rotation!Init /\ Phone!Init /\ Setup!Init /\ Link!Init
  /\ phoneRoot.file => part = "phone"

Alone(name) == part = name /\ UNCHANGED part

BackupStep ==
  Alone("backup") /\ Next /\ UNCHANGED <<rotationVars, phoneVars, setupVars, linkVars>>
RotationStep ==
  Alone("rotation") /\ Rotation!Next /\ UNCHANGED <<backupVars, phoneVars, setupVars, linkVars>>
PhoneStep ==
  Alone("phone") /\ Phone!Next /\ UNCHANGED <<backupVars, rotationVars, setupVars, linkVars>>
SetupStep ==
  Alone("setup") /\ Setup!Next /\ UNCHANGED <<backupVars, rotationVars, phoneVars, linkVars>>
LinkStep ==
  Alone("link") /\ Link!Next /\ UNCHANGED <<backupVars, rotationVars, phoneVars, setupVars>>
RoutingStep ==
  Alone("routing") /\ Routing!Next /\ UNCHANGED <<backupVars, rotationVars, phoneVars, setupVars>>

VaultsNext == BackupStep \/ RotationStep \/ PhoneStep \/ SetupStep \/ LinkStep \/ RoutingStep

VaultsSpec == VaultsInit /\ [][VaultsNext]_allVars

-----------------------------------------------------------------------------
(* The properties of the parts.                                            *)

\* Every part's state has its type.
VaultsType ==
  CASE part = "backup" -> TypeOK
    [] part = "rotation" -> Rotation!TypeOK
    [] part = "phone" -> Phone!TypeOK
    [] part = "setup" -> Setup!TypeOK
    [] part = "link" -> Link!TypeOK
    [] part = "routing" -> Routing!TypeOK

\* Wherever an operation stops, all the user has written can still be opened.
NothingLost == Rotation!NothingLost /\ Phone!NothingLost

\* A vault that is listed has its segment, and what was written in one can be opened.
SetupKept == Setup!SetupKept

\* On the phone, changes during an upload are not taken for uploaded.
CleanIsUploaded == Phone!CleanIsUploaded

\* No upload of the phone replaces a backup by an older one.
BackupNeverOlder == Phone!BackupNeverOlder

\* What a phone uses of its relay belongs to the open vault and the current route, and a route
\* its user chose is left by the user alone.
LinkKept ==
  [](part \in {"link", "routing"} => Link!LinkBelongs) /\ Link!RouteStands

\* A password change that is answered with an error leaves the vault as it was:
\* 'OLD_BACKUP_REMOVAL_FAILED_PASSWORD_UNCHANGED' (secure-vault.ts:282).
UnchangedOnError == Rotation!UnchangedOnError
=============================================================================
