--------------------------- MODULE VaultRotation ---------------------------
(***************************************************************************)
(* The operations that replace the directory of a vault, and with it the   *)
(* seven fragments its key is made of: changeSecurePassword, restoreSecure *)
(* and importStorage of apps/local-daemon/src/secure-vault.ts, each a      *)
(* sequence of writes and renames the daemon may stop between; delete of   *)
(* apps/relay-server/src/vault-backup.ts; and what the browser and the     *)
(* user keep (App.tsx, vaultFragments.ts).                                 *)
(*                                                                         *)
(* Every directory is provisioned once: a generation of fragments.  It     *)
(* opens when the browser holds the client fragment of that generation     *)
(* and the seventh, at the relay or in a file of the user's, belongs to it *)
(* (HorcruxStore.collect takes seven of seven).  A file, a capsule, keeps  *)
(* its fragment through an import.                                         *)
(***************************************************************************)
EXTENDS Naturals, Sequences, FiniteSets

CONSTANTS
  Password,
  First,           \* the one the vault is created with
  AtRelay,         \* whether its seventh fragment is first kept at the relay
  MaxGenerations,  \* bound on directories provisioned
  MaxEdits,        \* bound on changes of the vault
  MaxFaults,       \* bound on crashes and on requests and renames that fail
  MaxLosses        \* bound on answers that are lost

VARIABLES
  root,      \* the vault's directory
  stage,     \* the one a running operation prepares
  aside,     \* directories renamed away or left behind
  row,       \* vault_backups: what each password restores
  files,     \* storage files the user has exported
  capsules,  \* capsules the user has saved, as shard7-files
  browser,   \* generation whose client fragment the browser keeps
  open,      \* the vault is unlocked
  job,       \* the running operation
  edits,     \* history: changes the user counts on
  lost,      \* history: an answer was lost since the browser learned a fragment
  generations, faults, losses

disk == <<root, stage, aside>>
user == <<files, capsules, browser>>
history == <<edits, lost>>
counts == <<generations, faults, losses>>
vars == <<disk, row, user, open, job, history, counts>>

\* A directory; knows: its configuration has a backupVersion other than 0.
NoDir == [gen |-> 0, password |-> First, capsule |-> 0, edits |-> 0, knows |-> FALSE]
Dir == [gen : 0 .. MaxGenerations, password : Password, capsule : 0 .. MaxGenerations,
        edits : 0 .. MaxEdits, knows : BOOLEAN]
NoRow == [gen |-> 0, edits |-> 0]
Row == [gen : 0 .. MaxGenerations, edits : 0 .. MaxEdits]
RelayHolds(d) == d.capsule = 0

Idle == [steps |-> <<>>, kind |-> "none", old |-> NoDir]
Step == {"sync", "put", "delete", "aside", "switch", "unlock", "answer"}

TypeOK ==
  /\ {root, stage} \union aside \subseteq Dir
  /\ row \in [Password -> Row]
  /\ files \subseteq [password : Password, capsule : 1 .. MaxGenerations, edits : 0 .. MaxEdits]
  /\ capsules \subseteq 1 .. MaxGenerations
  /\ browser \in 0 .. MaxGenerations
  /\ open \in BOOLEAN /\ lost \in BOOLEAN
  /\ job \in [steps : Seq(Step), kind : {"none", "change", "restore", "import"}, old : Dir]
  /\ edits \in 0 .. MaxEdits /\ generations \in 1 .. MaxGenerations
  /\ faults \in 0 .. MaxFaults /\ losses \in 0 .. MaxLosses

Init ==
  /\ root = [gen |-> 1, password |-> First, capsule |-> IF AtRelay THEN 0 ELSE 1,
             edits |-> 0, knows |-> AtRelay]
  /\ stage = NoDir /\ aside = {}
  /\ row = [p \in Password |-> IF AtRelay /\ p = First THEN [gen |-> 1, edits |-> 0] ELSE NoRow]
  /\ files = {} /\ capsules = (IF AtRelay THEN {} ELSE {1}) /\ browser = 1
  /\ open = TRUE /\ job = Idle
  /\ edits = 0 /\ lost = FALSE
  /\ generations = 1 /\ faults = 0 /\ losses = 0

-----------------------------------------------------------------------------
(* What the user does between operations.                                  *)
Opens(d) ==
  /\ d.gen # 0 /\ browser = d.gen
  /\ IF RelayHolds(d) THEN row[d.password].gen = d.gen ELSE d.capsule \in capsules

Ready == job = Idle /\ open

\* What he counts on is what is in the vault he writes to.
Write ==
  /\ Ready /\ root.edits < MaxEdits
  /\ root' = [root EXCEPT !.edits = @ + 1]
  /\ edits' = root.edits + 1
  /\ UNCHANGED <<stage, aside, row, user, open, job, lost, counts>>

\* The seventh fragment in memory is written to a file the user chooses.
SaveCapsule ==
  /\ Ready /\ ~RelayHolds(root) /\ root.capsule \notin capsules
  /\ capsules' = capsules \union {root.capsule}
  /\ UNCHANGED <<disk, row, files, browser, open, job, history, counts>>

\* An upload is refused unless its version follows the relay's.
Accepted == root.knows = (row[root.password] # NoRow)
Backed == [row EXCEPT ![root.password] = [gen |-> root.gen, edits |-> root.edits]]

BackUp ==
  /\ Ready /\ Accepted /\ row # Backed
  /\ row' = Backed
  /\ root' = [root EXCEPT !.knows = TRUE]
  /\ UNCHANGED <<stage, aside, user, open, job, history, counts>>

ExportStorage ==
  /\ Ready /\ root.capsule \in capsules
  /\ files' = files \union {[password |-> root.password, capsule |-> root.capsule, edits |-> root.edits]}
  /\ UNCHANGED <<disk, row, capsules, browser, open, job, history, counts>>

Lock ==
  /\ Ready
  /\ open' = FALSE
  /\ UNCHANGED <<disk, row, user, job, history, counts>>

Unlock ==
  /\ job = Idle /\ ~open /\ Opens(root)
  /\ open' = TRUE
  /\ UNCHANGED <<disk, row, user, job, history, counts>>

-----------------------------------------------------------------------------
(* The operations and their steps.                                         *)
Begin(kind, steps) == job' = [kind |-> kind, steps |-> steps, old |-> root]

NewCapsule == generations + 1
Provision(p, capsule, content, known) ==
  /\ generations < MaxGenerations
  /\ generations' = generations + 1
  /\ stage' = [gen |-> generations + 1, password |-> p, capsule |-> capsule,
               edits |-> content, knows |-> known]

FaultySteps == <<"sync", "delete", "put", "aside", "switch", "unlock", "answer">>
\* The new backup is there before the old one is removed, and both before the switch.
RotationSteps == <<"sync", "put", "delete", "aside", "switch", "unlock", "answer">>
SwitchSteps == <<"aside", "switch", "unlock", "answer">>

\* changeSecurePassword of a vault whose seventh fragment stays at the relay.
ChangeAtRelay(p) ==
  /\ Ready /\ RelayHolds(root) /\ p # root.password /\ row[p] = NoRow
  /\ Provision(p, 0, root.edits, FALSE)
  /\ Begin("change", RotationSteps)
  /\ UNCHANGED <<root, aside, row, user, open, history, faults, losses>>

\* And of one that opens with a file, or whose cloud backup is off.
ChangeWithFile(p) ==
  /\ Ready /\ p # root.password
  /\ Provision(p, NewCapsule, root.edits, FALSE)
  /\ Begin("change", SwitchSteps)
  /\ UNCHANGED <<root, aside, row, user, open, history, faults, losses>>

\* restoreSecure; the user goes back to what the backup holds.
Restore(p) ==
  /\ job = Idle /\ ~open /\ row[p] # NoRow
  /\ Provision(p, NewCapsule, row[p].edits, TRUE)
  /\ Begin("restore", SwitchSteps)
  /\ edits' = row[p].edits
  /\ UNCHANGED <<root, aside, row, user, open, lost, faults, losses>>

\* importStorage keeps the capsule the file was written with.
ImportStorage(f) ==
  /\ job = Idle /\ ~open /\ f.capsule \in capsules
  /\ Provision(f.password, f.capsule, f.edits, FALSE)
  /\ Begin("import", SwitchSteps)
  /\ edits' = f.edits
  /\ UNCHANGED <<root, aside, row, user, open, lost, faults, losses>>

At(s) == job # Idle /\ Head(job.steps) = s
Done == job' = [job EXCEPT !.steps = Tail(@)]

SyncOld ==
  /\ At("sync") /\ Accepted
  /\ row' = Backed
  /\ Done
  /\ UNCHANGED <<disk, user, open, history, counts>>

NewRow == [row EXCEPT ![stage.password] = [gen |-> stage.gen, edits |-> stage.edits]]
PutNew ==
  /\ At("put")
  /\ row' = NewRow
  /\ stage' = [stage EXCEPT !.knows = TRUE]
  /\ Done
  /\ UNCHANGED <<root, aside, user, open, history, counts>>

DeleteOld ==
  /\ At("delete")
  /\ row' = [row EXCEPT ![root.password] = NoRow]
  /\ Done
  /\ UNCHANGED <<disk, user, open, history, counts>>

Kept == aside \union ({root} \ {NoDir})
MoveAside ==
  /\ At("aside")
  /\ aside' = Kept
  /\ root' = NoDir /\ open' = FALSE
  /\ Done
  /\ UNCHANGED <<stage, row, user, history, counts>>

Switch ==
  /\ At("switch")
  /\ root' = stage /\ stage' = NoDir
  /\ Done
  /\ UNCHANGED <<aside, row, user, open, history, counts>>

UnlockNew ==
  /\ At("unlock")
  /\ open' = TRUE
  /\ Done
  /\ UNCHANGED <<disk, row, user, history, counts>>

\* rememberVaultShard replaces the client fragment of the previous generation.
Answer ==
  /\ At("answer")
  /\ browser' = root.gen /\ lost' = FALSE
  /\ job' = Idle
  /\ UNCHANGED <<disk, row, files, capsules, open, edits, counts>>

-----------------------------------------------------------------------------
(* Failures.                                                               *)
Fault == faults < MaxFaults /\ faults' = faults + 1
Loss == losses < MaxLosses /\ losses' = losses + 1

\* The operation ends with an error and removes its stage.  Only an import puts
\* the directory it had renamed back.
Fail ==
  /\ job # Idle /\ ~At("answer") /\ (At("unlock") => RelayHolds(root)) /\ Fault
  /\ IF At("switch") /\ job.kind = "import" /\ job.old # NoDir
       THEN root' = job.old /\ aside' = aside \ {job.old}
       ELSE UNCHANGED <<root, aside>>
  /\ open' = (open /\ ~At("aside"))
  /\ stage' = NoDir /\ job' = Idle
  /\ UNCHANGED <<row, user, history, generations, losses>>

\* The relay has done what was asked, and the operation fails all the same.
LoseRequest ==
  /\ \/ At("put") /\ row' = NewRow /\ UNCHANGED lost
     \/ At("delete") /\ row' = [row EXCEPT ![root.password] = NoRow] /\ lost' = TRUE
  /\ Loss
  /\ stage' = NoDir /\ job' = Idle
  /\ UNCHANGED <<root, aside, user, open, edits, generations, faults>>

LoseAnswer ==
  /\ At("answer") /\ Loss
  /\ lost' = TRUE /\ job' = Idle
  /\ UNCHANGED <<disk, row, user, open, edits, generations, faults>>

\* The stage of a running operation stays behind under its random name.
Crash ==
  /\ open \/ job # Idle
  /\ Fault
  /\ aside' = aside \union ({stage} \ {NoDir})
  /\ stage' = NoDir /\ open' = FALSE /\ job' = Idle
  /\ UNCHANGED <<root, row, user, history, generations, losses>>

Next ==
  \/ Write \/ SaveCapsule \/ BackUp \/ ExportStorage \/ Lock \/ Unlock
  \/ \E p \in Password : ChangeAtRelay(p) \/ ChangeWithFile(p) \/ Restore(p)
  \/ \E f \in files : ImportStorage(f)
  \/ SyncOld \/ PutNew \/ DeleteOld \/ MoveAside \/ Switch \/ UnlockNew \/ Answer
  \/ Fail \/ LoseRequest \/ LoseAnswer \/ Crash

Spec == Init /\ [][Next]_vars

-----------------------------------------------------------------------------
(* Properties.                                                             *)
Readable ==
  {d.edits : d \in {x \in {root} \union aside : Opens(x)}}
    \union {row[p].edits : p \in {q \in Password : row[q] # NoRow}}
    \union {f.edits : f \in {x \in files : x.capsule \in capsules}}
    \union {root.edits : x \in {y \in {1} : open}}

Unsaved ==
  \E d \in {root} \union aside :
    d.gen = browser /\ ~RelayHolds(d) /\ d.capsule \notin capsules

\* Wherever an operation stops, all the user has written can still be opened, from
\* the directory, one of those renamed away, a backup or a storage file; unless an
\* answer was lost, or the user has not yet saved the file the last answer asked
\* him to save (secure-vault.ts:195-289).
NothingLost == ~lost /\ ~Unsaved => \E e \in Readable : e >= edits

\* A password change that is answered with an error leaves the vault as it was: the
\* password it had opens it (secure-vault.ts:282).
UnchangedOnError ==
  [][job.kind = "change" /\ At("delete") /\ job' = Idle /\ open' /\ Opens(root) => Opens(root)']_vars
=============================================================================
