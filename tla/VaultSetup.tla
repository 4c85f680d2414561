------------------------------ MODULE VaultSetup ------------------------------
(***************************************************************************)
(* The vaults of a phone and how one is set up: the page with its gate     *)
(* (VaultGate.tsx, App.tsx, SovereignStorage.tsx), the activity with its   *)
(* file dialogs (MainActivity.java), the engine (NativeEngine.java), and   *)
(* the catalog of vaults on disk (NativeVaultCatalog.java).                *)
(*                                                                         *)
(* A new vault cannot be opened again without the file of its seventh      *)
(* segment, so the gate holds its user back until that file is saved.      *)
(* Three parties that do not wait for each other take part in the saving:  *)
(* a dialog of the system, a thread that writes the file, and the page,    *)
(* which Android may load anew at any moment.                              *)
(***************************************************************************)
EXTENDS Naturals, FiniteSets

CONSTANTS
  Id,           \* vault IDs of the user
  AtRelay,      \* those with a backup at the relay
  InFile,       \* those with a storage file, and the segment that belongs to it
  None,
  MaxVaults,    \* bound on vaults made
  MaxLocks,     \* bound on locks
  MaxSaves,     \* bound on dialogs opened
  MaxRecreates, \* bound on pages loaded anew
  MaxCrashes    \* bound on ends of the process

Legacy == 1
Handle == Legacy .. MaxVaults

VARIABLES
  vaults,    \* config.json at a handle: whose vault it is, creationPending
  entries,   \* of the catalog
  segments,  \* handles whose segment file the user has saved
  current,   \* vaultHandle, 0: none adopted
  open,      \* the vault is unlocked
  pendingId, \* pendingVaultId
  fileEpoch,
  chosen,    \* pendingStorage
  session,   \* generation of the cookie and the CSRF token
  dialog,    \* sovereignRequest: the epoch it was asked in
  worker,    \* the thread behind a dialog: its epoch, and the handle it has read
  page,      \* the screen, what finishCreation or the sheet waits for, storageSelected
  written,   \* history: handles the user has written to
  strayed,   \* history: a page was loaded anew while a vault was being set up
  counts     \* what the bounds count

disk == <<vaults, entries, segments>>
engine == <<current, open, pendingId, fileEpoch, chosen, session>>
activity == <<dialog, worker>>
history == <<written, strayed>>
vars == <<disk, engine, activity, page, history, counts>>

Unused == [id |-> None, pending |-> FALSE]
Idle == [at |-> "none", epoch |-> 0, handle |-> 0]
Fresh(screen) == [screen |-> screen, waits |-> "none", asked |-> 0, chosen |-> FALSE]

TypeOK ==
  /\ vaults \in [Handle -> [id : Id \union {None}, pending : BOOLEAN]]
  /\ entries \subseteq Id \X Handle /\ segments \subseteq Handle
  /\ current \in 0 .. MaxVaults /\ open \in BOOLEAN
  /\ pendingId \in Id \union {None} /\ chosen \in Id \union {None}
  /\ {fileEpoch, session} \subseteq 0 .. 2 * MaxLocks + 1
  /\ dialog.at \in {"none", "up"} /\ worker.at \in {"none", "asked", "read"}
  /\ page \in [screen : {"gate", "setup", "main"}, asked : 0 .. MaxLocks, chosen : BOOLEAN,
               waits : {"none", "file", "saved", "failed", "post"}]
  /\ written \subseteq Handle /\ strayed \in BOOLEAN

Init ==
  /\ vaults = [h \in Handle |-> Unused] /\ entries = {} /\ segments = {}
  /\ current = 0 /\ open = FALSE /\ pendingId = None /\ fileEpoch = 0 /\ chosen = None
  /\ session = 0 /\ dialog = Idle /\ worker = Idle /\ page = Fresh("gate")
  /\ written = {} /\ strayed = FALSE
  /\ counts = [locks |-> 0, saves |-> 0, recreates |-> 0, crashes |-> 0, opens |-> 0]

Counted(what, bound) ==
  counts[what] < bound /\ counts' = [counts EXCEPT ![what] = @ + 1]

-----------------------------------------------------------------------------
(* The catalog.                                                            *)
Known(id) == \E h \in Handle : <<id, h>> \in entries

\* The vault of the first version is a candidate for every ID until it has an entry.
Candidates(id) ==
  {h \in Handle : <<id, h>> \in entries}
    \union (IF \E i \in Id : <<i, Legacy>> \in entries THEN {} ELSE {Legacy})

\* Handles are drawn at random: here the least one not used, apart from the first.
Allocated ==
  IF vaults[Legacy] = Unused /\ entries = {} THEN {Legacy}
  ELSE LET free == {h \in Handle \ {Legacy} : vaults[h] = Unused}
       IN {h \in free : \A g \in free : h <= g}

Select(id, h) == entries' = entries \union {<<id, h>>}

\* A vault whose creation is pending does not exist for the next one who looks.
Exists(h) == vaults[h] # Unused /\ ~vaults[h].pending

(***************************************************************************)
(* The engine.                                                             *)
(***************************************************************************)
Adopt(h) ==
  /\ current' = h /\ open' = TRUE /\ fileEpoch' = fileEpoch + 1

\* The gate asks while it is not busy; the engine wants the last vault locked.
AtGate == page.screen = "gate" /\ page.waits = "none" /\ ~open

\* POST /api/vault/create: a vault without a relay, unconfirmed.
Create(id) ==
  /\ AtGate /\ ~Known(id)
  /\ \E h \in Allocated :
       /\ vaults' = [vaults EXCEPT ![h] = [id |-> id, pending |-> TRUE]]
       /\ Adopt(h)
  /\ pendingId' = id
  /\ page' = [page EXCEPT !.screen = "setup"]
  /\ UNCHANGED <<entries, segments, chosen, session, activity, history, counts>>

\* POST /api/vault/restore: its segment is a new one, so it is not in the catalog yet.
Restore(id) ==
  /\ AtGate /\ id \in AtRelay
  /\ \E h \in Allocated :
       /\ vaults' = [vaults EXCEPT ![h] = [id |-> id, pending |-> FALSE]]
       /\ Adopt(h)
  /\ pendingId' = id
  /\ page' = [page EXCEPT !.screen = "setup"]
  /\ UNCHANGED <<entries, segments, chosen, session, activity, history, counts>>

\* POST /api/vault/open, with the segment file the user has loaded.
Open(id) ==
  /\ AtGate /\ chosen = None /\ Counted("opens", MaxLocks)
  /\ \E h \in Candidates(id) :
       /\ Exists(h) /\ vaults[h].id = id /\ h \in segments
       /\ Select(id, h) /\ Adopt(h)
  /\ pendingId' = None
  /\ page' = Fresh("main")
  /\ UNCHANGED <<vaults, segments, chosen, session, activity, history>>

\* The same when a storage file was selected: it is a vault of its own.
Import(id) ==
  /\ AtGate /\ chosen = id
  /\ \E h \in Allocated :
       /\ vaults' = [vaults EXCEPT ![h] = [id |-> id, pending |-> FALSE]]
       /\ segments' = segments \union {h}
       /\ Select(id, h) /\ Adopt(h)
  /\ pendingId' = None /\ chosen' = None
  /\ page' = Fresh("main")
  /\ UNCHANGED <<session, activity, history, counts>>

\* The user writes, on the screens that let them.
Write ==
  /\ page.screen = "main" /\ open
  /\ written' = written \union {current}
  /\ UNCHANGED <<disk, engine, activity, page, strayed, counts>>

\* POST /api/vault/lock; a save the page still waits for is given up.
LockVault ==
  /\ open' = FALSE /\ fileEpoch' = fileEpoch + 1 /\ session' = session + 1
  /\ UNCHANGED <<current, pendingId>>

Lock ==
  /\ page.screen = "main" /\ open /\ Counted("locks", MaxLocks)
  /\ LockVault /\ chosen' = None
  /\ page' = Fresh("gate")
  /\ UNCHANGED <<disk, activity, history>>

\* selectStorage: from the gate, or from a vault that is locked first.
Choose(id) ==
  /\ id \in InFile /\ page.screen # "setup" /\ page.waits = "none"
  /\ IF open
       THEN LockVault /\ Counted("locks", MaxLocks)
       ELSE UNCHANGED <<current, open, pendingId, fileEpoch, session, counts>>
  /\ chosen' = id
  /\ page' = [Fresh("gate") EXCEPT !.chosen = TRUE]
  /\ UNCHANGED <<disk, activity, history>>

-----------------------------------------------------------------------------
(* Saving the segment file.                                                *)
InSession(epoch) == epoch = fileEpoch /\ open

\* finishCreation and the storage sheet; a second dialog is refused at once.
Save ==
  /\ page.screen \in {"setup", "main"} /\ page.waits = "none" /\ open
  /\ dialog = Idle /\ Counted("saves", MaxSaves)
  /\ dialog' = [at |-> "up", epoch |-> fileEpoch, handle |-> 0]
  /\ page' = [page EXCEPT !.waits = "file", !.asked = session]
  /\ UNCHANGED <<disk, engine, worker, history>>

\* The page hears of its own request only, and only while it waits.
Told(result) == page' = IF page.waits = "file" THEN [page EXCEPT !.waits = result] ELSE page

Cancel ==
  /\ dialog # Idle /\ dialog' = Idle
  /\ Told("failed")
  /\ UNCHANGED <<disk, engine, worker, history, counts>>

Pick ==
  /\ dialog # Idle /\ worker = Idle
  /\ worker' = [dialog EXCEPT !.at = "asked"] /\ dialog' = Idle
  /\ UNCHANGED <<disk, engine, page, history, counts>>

\* exportFile, and the write of the file.
Export ==
  /\ worker.at = "asked"
  /\ IF InSession(worker.epoch)
       THEN /\ worker' = [worker EXCEPT !.at = "read", !.handle = current]
            /\ segments' = segments \union {current}
            /\ UNCHANGED page
       ELSE worker' = Idle /\ Told("failed") /\ UNCHANGED segments
  /\ UNCHANGED <<vaults, entries, engine, dialog, history, counts>>

WriteFails ==
  /\ worker.at = "asked" /\ worker' = Idle /\ Told("failed")
  /\ UNCHANGED <<disk, engine, dialog, history, counts>>

\* confirmVaultCreation, of the vault that is open now.
Confirm ==
  /\ vaults' = [vaults EXCEPT ![current].pending = FALSE]
  /\ IF pendingId # None
       THEN Select(pendingId, current) /\ pendingId' = None
       ELSE UNCHANGED <<entries, pendingId>>

ConfirmsLate == worker.at = "read" /\ open

ConfirmsSaved == worker.at = "read" /\ InSession(worker.epoch)

FileSaved ==
  /\ worker.at = "read" /\ worker' = Idle
  /\ IF ConfirmsSaved
       THEN Confirm /\ Told("saved")
       ELSE Told("failed") /\ UNCHANGED <<vaults, entries, pendingId>>
  /\ UNCHANGED <<segments, current, open, fileEpoch, chosen, session, dialog, history, counts>>

\* The page has heard: it says so to the engine, or shows an error.
Hear ==
  /\ page.waits \in {"saved", "failed"}
  /\ page' = [page EXCEPT !.waits = IF page.waits = "saved" THEN "post" ELSE "none"]
  /\ UNCHANGED <<disk, engine, activity, history, counts>>

\* POST /api/vault/shard7/saved, with the token of the session it was asked in.
Saved ==
  /\ page.waits = "post"
  /\ IF page.asked = session /\ open
       THEN Confirm /\ page' = [page EXCEPT !.waits = "none", !.screen = "main"]
       ELSE page' = [page EXCEPT !.waits = "none"] /\ UNCHANGED <<vaults, entries, pendingId>>
  /\ UNCHANGED <<segments, current, open, fileEpoch, chosen, session, activity, history, counts>>

-----------------------------------------------------------------------------
(* What Android does.                                                      *)
\* The activity is made anew: the page asks what the engine's state is.  A dialog
\* that is up answers an activity that has not asked; a thread goes on.
Recreate ==
  /\ Counted("recreates", MaxRecreates)
  /\ page' = Fresh(IF open THEN "main" ELSE "gate")
  /\ strayed' = (strayed \/ page.screen = "setup")
  /\ dialog' = Idle
  /\ UNCHANGED <<disk, engine, worker, written>>

Dies ==
  /\ Counted("crashes", MaxCrashes)
  /\ open' = FALSE /\ current' = 0 /\ pendingId' = None /\ fileEpoch' = 0 /\ chosen' = None
  /\ UNCHANGED session
  /\ dialog' = Idle /\ worker' = Idle /\ page' = Fresh("gate")

Crash == Dies /\ UNCHANGED <<disk, history>>

\* The process ends between the two writes of confirmVaultCreation.
CrashInConfirm ==
  /\ ConfirmsSaved /\ Dies
  /\ vaults' = [vaults EXCEPT ![current].pending = FALSE]
  /\ UNCHANGED <<entries, segments, history>>

Next ==
  \/ \E id \in Id : Create(id) \/ Restore(id) \/ Open(id) \/ Import(id) \/ Choose(id)
  \/ Write \/ Lock \/ Save \/ Cancel \/ Pick \/ Export \/ WriteFails \/ FileSaved
  \/ Hear \/ Saved \/ Recreate \/ Crash \/ CrashInConfirm

Spec == Init /\ [][Next]_vars

-----------------------------------------------------------------------------
(* What the setup promises.                                                *)

\* A vault in the catalog is confirmed, and it is its own segment that was saved:
\* no dialog that comes back late confirms another vault than it was opened for.
ListedHasSegment ==
  \A h \in Handle : (\E id \in Id : <<id, h>> \in entries) => h \in segments /\ ~vaults[h].pending

\* What the user has written is in a vault they can open again, unless their page was
\* loaded anew in the middle of the setup (VaultGate.tsx:217 holds only its own page).
WrittenCanBeOpened ==
  strayed \/ \A h \in written : h \in segments /\ h \in Candidates(vaults[h].id) /\ Exists(h)

SetupKept == ListedHasSegment /\ WrittenCanBeOpened
=============================================================================
