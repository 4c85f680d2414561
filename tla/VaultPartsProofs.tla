-------------------------- MODULE VaultPartsProofs --------------------------
(***************************************************************************)
(* What three parts of the vaults promise, proved for constants of any     *)
(* size: VaultRotation, which this module extends, VaultSetup and          *)
(* PhoneLink, with the variables of each under a name of their own.        *)
(***************************************************************************)
EXTENDS VaultRotation, TLAPS

CONSTANTS
  Id, Remote, InFile, None, MaxVaults, MaxLocks, MaxSaves, MaxRecreates, MaxCrashes,
  Vault, Builtin, Lan, Own, Tunnel, Domain, MaxActing, MaxSessions, MaxRoutes, MaxChanges

VARIABLES
  \* VaultSetup
  vaults, entries, segments, current, adopted, pendingId, fileEpoch, chosen, session, dialog,
  worker, page, wrote, strayed, tally,
  \* PhoneLink
  mode, vault, quick, origin, discovered, previous, lookup, token, pushSocket, acting, waiting,
  reconnect, tor, running, network, callback, online, posted, count

Setup == INSTANCE VaultSetup WITH
  AtRelay <- Remote, open <- adopted, written <- wrote, counts <- tally

Link == INSTANCE PhoneLink

-----------------------------------------------------------------------------
(***************************************************************************)
(* The rotation of a vault's backup.                                       *)
(***************************************************************************)
\* What the proofs ask of the constants.
RotationSizes ==
  /\ First \in Password /\ AtRelay \in BOOLEAN /\ MaxGenerations \in Nat \ {0}
  /\ MaxEdits \in Nat /\ MaxFaults \in Nat /\ MaxLosses \in Nat

(* The inductive invariant.                                                *)

\* What an operation has still to do.
Last == <<"answer">>
ToUnlock == <<"unlock", "answer">>
ToSwitch == <<"switch", "unlock", "answer">>
ToDelete == <<"delete", "aside", "switch", "unlock", "answer">>
ToPut == <<"put", "delete", "aside", "switch", "unlock", "answer">>
AtTheRelay == {RotationSteps, ToPut, ToDelete}
Local == {SwitchSteps, ToSwitch, ToUnlock, Last}
Before == job.steps \in AtTheRelay \union {SwitchSteps}
After == job.steps \in {ToSwitch, ToUnlock, Last}

JobsShape ==
  \/ job = Idle
  \/ job.kind \in {"change", "restore", "import"} /\ job.steps \in Local
  \/ job.kind = "change" /\ job.steps \in AtTheRelay

Real(d) == d \in Dir /\ d.gen # 0
DirsAreReal == \A d \in {root, stage, job.old} : d = NoDir \/ Real(d)

\* Where the two directories are, by what the operation has still to do.
PlacesAgree ==
  /\ job = Idle => stage = NoDir
  /\ Before => job.old = root /\ Real(stage) /\ (open <=> job.kind = "change")
  /\ job.steps = ToSwitch => root = NoDir /\ Real(stage) /\ ~open
  /\ job.steps = ToUnlock => Real(root) /\ stage = NoDir /\ ~open
  /\ job.steps = Last => Real(root) /\ stage = NoDir /\ open
  /\ open => Real(root)

\* What a rotation at the relay has done there.
HasOwnRow(d) == row[d.password] = [gen |-> d.gen, edits |-> d.edits]
RelayJob ==
  /\ job.steps \in AtTheRelay =>
       RelayHolds(root) /\ RelayHolds(stage) /\ stage.password # root.password /\ stage.edits = root.edits
  /\ job.steps \in {RotationSteps, ToPut} => row[stage.password] = NoRow
  /\ job.steps \in {ToPut, ToDelete} => HasOwnRow(root)
  /\ job.steps \in {ToDelete, SwitchSteps, ToSwitch} /\ RelayHolds(stage) => HasOwnRow(stage)
  /\ job.steps \in {ToUnlock, Last} /\ RelayHolds(root) => HasOwnRow(root)

\* All the user counts on is in a file or a backup.
Copied ==
  \/ \E f \in files : f.edits >= edits
  \/ \E p \in Password : row[p] # NoRow /\ row[p].edits >= edits
FilesOpen == \A f \in files : f.capsule \in capsules

\* A directory in use has all he counts on, or a copy has.
Current(d) == d # NoDir => d.edits >= edits \/ Copied
WrittenIsHeld == Current(root) /\ Current(stage) /\ (job.kind \in {"restore", "import"} => Copied)

\* A directory that has been backed up is no older than its backup.
NoOlder(d) == d.knows => row[d.password].edits <= d.edits
KnowsItsBackup == NoOlder(root) /\ NoOlder(stage) /\ NoOlder(job.old)

\* The browser's fragment is this directory's, and so is the relay's.
OpensAgain(d) == d.gen = browser /\ (RelayHolds(d) => row[d.password].gen = d.gen)
OpenIsOpened ==
  open /\ ~lost =>
    /\ job = Idle \/ job.steps \in AtTheRelay => OpensAgain(root)
    /\ job.steps = SwitchSteps /\ ~RelayHolds(stage) => OpensAgain(root)

Aside == \E d \in aside : d.edits >= edits /\ OpensAgain(d)
StillThere ==
  /\ lost \/ Copied \/ open \/ Aside \/ (root.edits >= edits /\ OpensAgain(root))
  /\ After => lost \/ Copied \/ Aside

RotationInv ==
  /\ TypeOK /\ browser # 0 /\ JobsShape /\ DirsAreReal /\ PlacesAgree /\ RelayJob /\ FilesOpen
  /\ WrittenIsHeld /\ KnowsItsBackup /\ OpenIsOpened /\ StillThere

-----------------------------------------------------------------------------
(* The steps of an operation, and the phases they are.                     *)
LEMMA Sequences ==
  /\ {Last, ToUnlock, ToSwitch, SwitchSteps, ToDelete, ToPut, RotationSteps} \subseteq Seq(Step)
  /\ Len(Last) = 1 /\ Head(Last) = "answer"
  /\ Len(ToUnlock) = 2 /\ Head(ToUnlock) = "unlock" /\ Tail(ToUnlock) = Last
  /\ Len(ToSwitch) = 3 /\ Head(ToSwitch) = "switch" /\ Tail(ToSwitch) = ToUnlock
  /\ Len(SwitchSteps) = 4 /\ Head(SwitchSteps) = "aside" /\ Tail(SwitchSteps) = ToSwitch
  /\ Len(ToDelete) = 5 /\ Head(ToDelete) = "delete" /\ Tail(ToDelete) = SwitchSteps
  /\ Len(ToPut) = 6 /\ Head(ToPut) = "put" /\ Tail(ToPut) = ToDelete
  /\ Len(RotationSteps) = 7 /\ Head(RotationSteps) = "sync" /\ Tail(RotationSteps) = ToPut
  /\ Len(<<>>) = 0
<1> USE DEF Step, Last, ToUnlock, ToSwitch, SwitchSteps, ToDelete, ToPut, RotationSteps
<1>1. {Last, ToUnlock, ToSwitch, SwitchSteps, ToDelete, ToPut, RotationSteps} \subseteq Seq(Step)
  OBVIOUS
<1>2. Len(Last) = 1 /\ Head(Last) = "answer"
  OBVIOUS
<1>3. Len(ToUnlock) = 2 /\ Head(ToUnlock) = "unlock" /\ Tail(ToUnlock) = Last
  OBVIOUS
<1>4. Len(ToSwitch) = 3 /\ Head(ToSwitch) = "switch" /\ Tail(ToSwitch) = ToUnlock
  OBVIOUS
<1>5. Len(SwitchSteps) = 4 /\ Head(SwitchSteps) = "aside" /\ Tail(SwitchSteps) = ToSwitch
  OBVIOUS
<1>6. Len(ToDelete) = 5 /\ Head(ToDelete) = "delete" /\ Tail(ToDelete) = SwitchSteps
  OBVIOUS
<1>7. Len(ToPut) = 6 /\ Head(ToPut) = "put" /\ Tail(ToPut) = ToDelete
  OBVIOUS
<1>8. Len(RotationSteps) = 7 /\ Head(RotationSteps) = "sync" /\ Tail(RotationSteps) = ToPut
  OBVIOUS
<1>9. Len(<<>>) = 0
  OBVIOUS
<1> HIDE DEF Step, Last, ToUnlock, ToSwitch, SwitchSteps, ToDelete, ToPut, RotationSteps
<1>10. QED
  BY <1>1, <1>2, <1>3, <1>4, <1>5, <1>6, <1>7, <1>8, <1>9

LEMMA Differ ==
  /\ Last \notin {<<>>, ToUnlock, ToSwitch, SwitchSteps, ToDelete, ToPut, RotationSteps}
  /\ ToUnlock \notin {<<>>, ToSwitch, SwitchSteps, ToDelete, ToPut, RotationSteps}
  /\ ToSwitch \notin {<<>>, SwitchSteps, ToDelete, ToPut, RotationSteps}
  /\ SwitchSteps \notin {<<>>, ToDelete, ToPut, RotationSteps}
  /\ ToDelete \notin {<<>>, ToPut, RotationSteps}
  /\ ToPut \notin {<<>>, RotationSteps}
  /\ RotationSteps # <<>>
<1>1. /\ Len(Last) = 1 /\ Len(ToUnlock) = 2 /\ Len(ToSwitch) = 3 /\ Len(SwitchSteps) = 4 /\ Len(ToDelete) = 5
      /\ Len(ToPut) = 6 /\ Len(RotationSteps) = 7
  BY Sequences
<1>2. /\ Last # <<>>
      /\ ToUnlock # <<>>
      /\ ToSwitch # <<>>
      /\ SwitchSteps # <<>>
      /\ ToDelete # <<>>
      /\ ToPut # <<>>
      /\ RotationSteps # <<>>
  BY DEF Last, ToUnlock, ToSwitch, SwitchSteps, ToDelete, ToPut, RotationSteps
<1>3. Last # ToUnlock /\ Last # ToSwitch /\ Last # SwitchSteps /\ Last # ToDelete /\ Last # ToPut /\ Last # RotationSteps
  BY <1>1
<1>4. ToUnlock # ToSwitch /\ ToUnlock # SwitchSteps /\ ToUnlock # ToDelete /\ ToUnlock # ToPut /\ ToUnlock # RotationSteps
  BY <1>1
<1>5. ToSwitch # SwitchSteps /\ ToSwitch # ToDelete /\ ToSwitch # ToPut /\ ToSwitch # RotationSteps
  BY <1>1
<1>6. SwitchSteps # ToDelete /\ SwitchSteps # ToPut /\ SwitchSteps # RotationSteps
  BY <1>1
<1>7. ToDelete # ToPut /\ ToDelete # RotationSteps
  BY <1>1
<1>8. ToPut # RotationSteps
  BY <1>1
<1>9. QED
  BY <1>2, <1>3, <1>4, <1>5, <1>6, <1>7, <1>8

LEMMA NoSteps == Idle.steps = <<>> /\ Idle.kind = "none" /\ Idle.old = NoDir
BY DEF Idle

JobType == [steps : Seq(Step), kind : {"none", "change", "restore", "import"}, old : Dir]

\* The step each phase is at.
LEMMA Phases ==
  ASSUME JobsShape
  PROVE  /\ job = Idle <=> job.steps = <<>>
         /\ job = Idle => job.kind = "none" /\ job.old = NoDir
         /\ job # Idle => Before \/ After
         /\ At("sync") <=> job.steps = RotationSteps
         /\ At("put") <=> job.steps = ToPut
         /\ At("delete") <=> job.steps = ToDelete
         /\ At("aside") <=> job.steps = SwitchSteps
         /\ At("switch") <=> job.steps = ToSwitch
         /\ At("unlock") <=> job.steps = ToUnlock
         /\ At("answer") <=> job.steps = Last
         /\ job # Idle => job.kind \in {"change", "restore", "import"}
         /\ job.steps \in AtTheRelay => job.kind = "change"
<1>1. CASE job = Idle
  BY <1>1, NoSteps, Differ DEF At, AtTheRelay
<1>2. CASE job # Idle
  <2>1. job.steps \in {Last, ToUnlock, ToSwitch, SwitchSteps, ToDelete, ToPut, RotationSteps}
    BY <1>2 DEF JobsShape, Local, AtTheRelay
  <2>2. \A s : At(s) <=> Head(job.steps) = s
    BY <1>2 DEF At
  <2>3. /\ Head(Last) = "answer" /\ Head(ToUnlock) = "unlock" /\ Head(ToSwitch) = "switch"
        /\ Head(SwitchSteps) = "aside" /\ Head(ToDelete) = "delete" /\ Head(ToPut) = "put"
        /\ Head(RotationSteps) = "sync"
    BY Sequences
  <2>4. /\ At("sync") <=> job.steps = RotationSteps
        /\ At("put") <=> job.steps = ToPut
        /\ At("delete") <=> job.steps = ToDelete
        /\ At("aside") <=> job.steps = SwitchSteps
        /\ At("switch") <=> job.steps = ToSwitch
        /\ At("unlock") <=> job.steps = ToUnlock
        /\ At("answer") <=> job.steps = Last
    BY <2>1, <2>2, <2>3
  <2>5. job.steps # <<>>
    BY <2>1, Differ
  <2>6. job.kind \in {"change", "restore", "import"} /\ (job.steps \in AtTheRelay => job.kind = "change")
    BY <1>2, Differ DEF JobsShape, Local, AtTheRelay
  <2>7. QED
    BY <1>2, <2>1, <2>4, <2>5, <2>6 DEF Before, After, AtTheRelay
<1>3. QED
  BY <1>1, <1>2

LEMMA Nothing ==
  ASSUME RotationSizes
  PROVE  /\ NoDir \in Dir /\ NoDir.gen = 0 /\ NoDir.edits = 0 /\ NoDir.knows = FALSE
         /\ NoRow \in Row /\ NoRow.gen = 0 /\ NoRow.edits = 0
         /\ Idle \in JobType
<1>1. NoDir \in Dir /\ NoDir.gen = 0 /\ NoDir.edits = 0 /\ NoDir.knows = FALSE
  BY DEF RotationSizes, NoDir, Dir
<1>2. NoRow \in Row /\ NoRow.gen = 0 /\ NoRow.edits = 0
  BY DEF RotationSizes, NoRow, Row
<1>3. <<>> \in Seq(Step)
  OBVIOUS
<1>4. Idle \in JobType
  BY <1>1, <1>3 DEF Idle, JobType
<1>5. QED
  BY <1>1, <1>2, <1>4

\* The step is done.
LEMMA Steps ==
  ASSUME RotationSizes, JobsShape, job \in JobType, Done, job # Idle
  PROVE  /\ job' \in JobType /\ job'.kind = job.kind /\ job'.old = job.old
         /\ job.steps = RotationSteps => job'.steps = ToPut
         /\ job.steps = ToPut => job'.steps = ToDelete
         /\ job.steps = ToDelete => job'.steps = SwitchSteps
         /\ job.steps = SwitchSteps => job'.steps = ToSwitch
         /\ job.steps = ToSwitch => job'.steps = ToUnlock
         /\ job.steps = ToUnlock => job'.steps = Last
         /\ job.steps # Last => job' # Idle /\ JobsShape'
<1>1. job' = [job EXCEPT !.steps = Tail(job.steps)]
  BY DEF Done
<1>2. job.steps \in {Last, ToUnlock, ToSwitch, SwitchSteps, ToDelete, ToPut, RotationSteps}
  BY DEF JobsShape, Local, AtTheRelay
<1>3. job.steps \in Seq(Step) /\ job.steps # <<>>
  BY <1>2, Sequences, Differ
<1>4. Tail(job.steps) \in Seq(Step)
  BY <1>3
<1>5. job' \in JobType /\ job'.kind = job.kind /\ job'.old = job.old /\ job'.steps = Tail(job.steps)
  BY <1>1, <1>4 DEF JobType
<1>6. /\ job.steps = RotationSteps => job'.steps = ToPut
      /\ job.steps = ToPut => job'.steps = ToDelete
      /\ job.steps = ToDelete => job'.steps = SwitchSteps
      /\ job.steps = SwitchSteps => job'.steps = ToSwitch
      /\ job.steps = ToSwitch => job'.steps = ToUnlock
      /\ job.steps = ToUnlock => job'.steps = Last
  BY <1>5, Sequences
<1>7. job.steps # Last => job'.steps \in {Last, ToUnlock, ToSwitch, SwitchSteps, ToDelete, ToPut}
  BY <1>2, <1>6
<1>8. job.steps # Last => job' # Idle
  BY <1>7, NoSteps, Differ
<1>9. job.steps # Last => JobsShape'
  BY <1>2, <1>5, <1>6, Differ DEF JobsShape, Local, AtTheRelay
<1>10. QED
  BY <1>5, <1>6, <1>8, <1>9

LEMMA Ends ==
  ASSUME RotationSizes, job' = Idle
  PROVE  JobsShape' /\ job' \in JobType /\ job'.steps = <<>> /\ job'.kind = "none" /\ job'.old = NoDir
BY NoSteps, Nothing DEF JobsShape

LEMMA Begins ==
  ASSUME RotationSizes, root \in Dir, NEW kind \in {"change", "restore", "import"}, NEW steps,
         Begin(kind, steps), steps = SwitchSteps \/ (kind = "change" /\ steps = RotationSteps)
  PROVE  JobsShape' /\ job' \in JobType /\ job'.steps = steps /\ job'.kind = kind /\ job'.old = root
         /\ job' # Idle
<1>1. job'.steps = steps /\ job'.kind = kind /\ job'.old = root
  BY DEF Begin
<1>2. steps \in Seq(Step)
  BY Sequences
<1>3. job' \in JobType
  BY <1>2 DEF Begin, JobType
<1>4. job' # Idle
  BY <1>1, NoSteps
<1>5. JobsShape'
  BY <1>1 DEF JobsShape, Local, AtTheRelay
<1>6. QED
  BY <1>1, <1>3, <1>4, <1>5

\* The types of the variables.
File == [password : Password, capsule : 1 .. MaxGenerations, edits : 0 .. MaxEdits]
LEMMA Now ==
  ASSUME RotationSizes, RotationInv
  PROVE  /\ root \in Dir /\ stage \in Dir /\ aside \subseteq Dir /\ job \in JobType /\ job.old \in Dir
         /\ row \in [Password -> Row] /\ files \subseteq File /\ capsules \subseteq 1 .. MaxGenerations
         /\ browser \in 0 .. MaxGenerations /\ open \in BOOLEAN /\ lost \in BOOLEAN
         /\ edits \in 0 .. MaxEdits /\ edits \in Nat /\ generations \in 1 .. MaxGenerations
         /\ generations \in Nat /\ faults \in 0 .. MaxFaults /\ losses \in 0 .. MaxLosses
         /\ \A p \in Password : row[p] \in Row /\ row[p].edits \in Nat /\ row[p].gen \in Nat
         /\ \A d \in Dir : d.password \in Password /\ d.edits \in Nat /\ d.gen \in Nat /\ d.knows \in BOOLEAN
         /\ \A f \in files : f.edits \in Nat
<1>1. TypeOK
  BY DEF RotationInv
<1>2. \A d \in Dir : d.password \in Password /\ d.edits \in Nat /\ d.gen \in Nat /\ d.knows \in BOOLEAN
  BY DEF Dir, RotationSizes
<1>3. \A r \in Row : r.edits \in Nat /\ r.gen \in Nat
  BY DEF Row, RotationSizes
<1>4. \A f \in File : f.edits \in Nat
  BY DEF File, RotationSizes
<1>5. root \in Dir /\ stage \in Dir /\ aside \subseteq Dir /\ job \in JobType /\ files \subseteq File
  BY <1>1 DEF TypeOK, JobType, File
<1>6. job.old \in Dir
  BY <1>5 DEF JobType
<1>7. edits \in Nat /\ generations \in Nat
  BY <1>1 DEF TypeOK, RotationSizes
<1>8. QED
  BY <1>1, <1>2, <1>3, <1>4, <1>5, <1>6, <1>7 DEF TypeOK

LEMMA TypedAfter ==
  ASSUME root' \in Dir, stage' \in Dir, aside' \subseteq Dir, row' \in [Password -> Row],
         files' \subseteq File, capsules' \subseteq 1 .. MaxGenerations, browser' \in 0 .. MaxGenerations,
         open' \in BOOLEAN, lost' \in BOOLEAN, job' \in JobType, edits' \in 0 .. MaxEdits,
         generations' \in 1 .. MaxGenerations, faults' \in 0 .. MaxFaults, losses' \in 0 .. MaxLosses
  PROVE  TypeOK'
BY DEF TypeOK, JobType, File

\* A row that is written, and one that is deleted.
LEMMA Rows ==
  ASSUME row \in [Password -> Row], NEW p \in Password, NEW r \in Row
  PROVE  /\ [row EXCEPT ![p] = r] \in [Password -> Row] /\ [row EXCEPT ![p] = r][p] = r
         /\ \A q \in Password : q # p => [row EXCEPT ![p] = r][q] = row[q]
OBVIOUS

LEMMA OwnRows ==
  ASSUME RotationSizes, NEW d \in Dir
  PROVE  /\ [gen |-> d.gen, edits |-> d.edits] \in Row
         /\ d.gen # 0 => [gen |-> d.gen, edits |-> d.edits] # NoRow
BY DEF Dir, Row, NoRow

\* What was copied stays so while no row is replaced by an older one.
LEMMA CopiedGrows ==
  ASSUME RotationSizes, RotationInv, edits' = edits, files \subseteq files',
         \A p \in Password : row[p] # NoRow =>
           row'[p] # NoRow /\ row'[p].edits \in Nat /\ row'[p].edits >= row[p].edits
  PROVE  Copied => Copied'
<1> SUFFICES ASSUME Copied PROVE Copied'
  OBVIOUS
<1>1. CASE \E f \in files : f.edits >= edits
  BY <1>1 DEF Copied
<1>2. CASE \E p \in Password : row[p] # NoRow /\ row[p].edits >= edits
  <2>1. PICK p \in Password : row[p] # NoRow /\ row[p].edits >= edits
    BY <1>2
  <2>2. row'[p] # NoRow /\ row'[p].edits >= edits
    BY <2>1, Now
  <2>3. QED
    BY <2>2 DEF Copied
<1>3. QED
  BY <1>1, <1>2 DEF Copied

LEMMA Faults ==
  ASSUME RotationSizes, RotationInv
  PROVE  (Fault => faults' \in 0 .. MaxFaults) /\ (Loss => losses' \in 0 .. MaxLosses)
BY Now DEF Fault, Loss, RotationSizes

\* Where the operation would stop here, all he counts on is still there.
LEMMA Safe ==
  ASSUME RotationSizes, RotationInv, ~open \/ job.steps # Last
  PROVE  lost \/ Copied \/ Aside \/ (root.edits >= edits /\ OpensAgain(root))
<1> SUFFICES ASSUME ~lost, ~Copied, open
             PROVE  Aside \/ (root.edits >= edits /\ OpensAgain(root))
  BY DEF RotationInv, StillThere
<1>1. /\ JobsShape /\ PlacesAgree /\ RelayJob /\ WrittenIsHeld /\ OpenIsOpened /\ Real(root)
  BY DEF RotationInv, PlacesAgree
<1>2. root.edits >= edits
  BY <1>1, Nothing DEF WrittenIsHeld, Current, Real
<1>3. job = Idle \/ job.steps \in AtTheRelay \/ job.steps = SwitchSteps
  BY <1>1, Phases DEF PlacesAgree, Before, After
<1>4. CASE job = Idle \/ job.steps \in AtTheRelay
  BY <1>1, <1>2, <1>4 DEF OpenIsOpened
<1>5. CASE job.steps = SwitchSteps
  <2>1. Real(stage) /\ stage.edits >= edits
    BY <1>1, <1>5, Nothing DEF PlacesAgree, Before, WrittenIsHeld, Current, Real
  <2>2. ~RelayHolds(stage)
    <3>1. SUFFICES ASSUME RelayHolds(stage) PROVE FALSE
      OBVIOUS
    <3>2. row[stage.password] = [gen |-> stage.gen, edits |-> stage.edits] /\ stage.password \in Password
      BY <1>1, <1>5, <3>1, Now DEF RelayJob, HasOwnRow
    <3>3. row[stage.password] # NoRow /\ row[stage.password].edits >= edits
      BY <2>1, <3>2, Now, OwnRows DEF Real
    <3>4. QED
      BY <3>2, <3>3 DEF Copied
  <2>3. QED
    BY <1>1, <1>2, <1>5, <2>2 DEF OpenIsOpened
<1>6. QED
  BY <1>3, <1>4, <1>5

\* The two requests that may be done without being answered.
LosePut ==
  /\ At("put") /\ row' = NewRow /\ UNCHANGED lost
  /\ Loss
  /\ stage' = NoDir /\ job' = Idle
  /\ UNCHANGED <<root, aside, user, open, edits, generations, faults>>
LoseDelete ==
  /\ At("delete") /\ row' = [row EXCEPT ![root.password] = NoRow] /\ lost' = TRUE
  /\ Loss
  /\ stage' = NoDir /\ job' = Idle
  /\ UNCHANGED <<root, aside, user, open, edits, generations, faults>>

-----------------------------------------------------------------------------
(* Every action keeps the invariant.                                       *)
LEMMA WriteKeeps ==
  ASSUME RotationSizes, RotationInv, Write
  PROVE  RotationInv'
<1>1. TypeOK /\ browser # 0 /\ JobsShape /\ DirsAreReal /\ PlacesAgree /\ RelayJob /\ FilesOpen
      /\ WrittenIsHeld /\ KnowsItsBackup /\ OpenIsOpened /\ StillThere
  BY DEF RotationInv
<1>2. /\ job = Idle /\ job.steps = <<>> /\ job.kind = "none" /\ stage = NoDir /\ open
      /\ root.edits < MaxEdits
  BY <1>1, NoSteps DEF Write, Ready, PlacesAgree
<1>3. Real(root) /\ root.edits + 1 \in 0 .. MaxEdits
  BY <1>1, <1>2, Now DEF PlacesAgree, RotationSizes
<1>4. /\ root' \in Dir /\ root'.gen = root.gen /\ root'.password = root.password
      /\ root'.capsule = root.capsule /\ root'.edits = root.edits + 1
      /\ root'.knows = root.knows
  BY <1>1, <1>2, <1>3 DEF Write, Dir, Real
<1>5. /\ stage' = stage /\ aside' = aside /\ row' = row /\ files' = files
      /\ capsules' = capsules /\ browser' = browser /\ open' = open /\ lost' = lost
      /\ job' = job /\ generations' = generations /\ faults' = faults /\ losses' = losses
  BY <1>1, <1>2, <1>3, <1>4 DEF Write, disk, user, history, counts
<1>6. edits' = root.edits + 1 /\ edits' \in 0 .. MaxEdits
  BY <1>1, <1>2, <1>3, <1>4, <1>5 DEF Write
<1>7. TypeOK'
  <2>1. /\ root' \in Dir /\ stage' \in Dir /\ aside' \subseteq Dir /\ row' \in [Password -> Row]
        /\ files' \subseteq File /\ capsules' \subseteq 1 .. MaxGenerations /\ browser' \in 0 .. MaxGenerations
        /\ open' \in BOOLEAN /\ lost' \in BOOLEAN /\ job' \in JobType
    BY <1>1, <1>2, <1>3, <1>4, <1>5, <1>6, Now, Nothing
  <2>2. /\ edits' \in 0 .. MaxEdits /\ generations' \in 1 .. MaxGenerations
        /\ faults' \in 0 .. MaxFaults /\ losses' \in 0 .. MaxLosses
    BY <1>1, <1>2, <1>3, <1>4, <1>5, <1>6, Now
  <2>3. QED
    BY <2>1, <2>2, TypedAfter
<1>8. (browser # 0)'
  BY <1>1, <1>2, <1>3, <1>4, <1>5, <1>6, Now, Nothing, Differ DEF Real
<1>9. JobsShape'
  BY <1>1, <1>2, <1>3, <1>4, <1>5, <1>6, Now, Nothing, Differ DEF JobsShape
<1>10. DirsAreReal'
  BY <1>1, <1>2, <1>3, <1>4, <1>5, <1>6, Now, Nothing, Differ DEF DirsAreReal, Real
<1>11. PlacesAgree'
  BY <1>1, <1>2, <1>3, <1>4, <1>5, <1>6, Now, Nothing, Differ DEF PlacesAgree, Before, After,
     Real, AtTheRelay
<1>12. RelayJob'
  BY <1>1, <1>2, <1>3, <1>4, <1>5, <1>6, Now, Nothing, Differ DEF RelayJob, HasOwnRow, RelayHolds,
     AtTheRelay
<1>13. FilesOpen'
  BY <1>1, <1>2, <1>3, <1>4, <1>5, <1>6, Now, Nothing, Differ DEF FilesOpen
<1>14. WrittenIsHeld'
  BY <1>1, <1>2, <1>3, <1>4, <1>5, <1>6, Now, Nothing, Differ DEF WrittenIsHeld, Current
<1>15. KnowsItsBackup'
  BY <1>1, <1>2, <1>3, <1>4, <1>5, <1>6, Now, Nothing, Differ DEF KnowsItsBackup, NoOlder
<1>16. OpenIsOpened'
  BY <1>1, <1>2, <1>3, <1>4, <1>5, <1>6, Now, Nothing, Differ DEF OpenIsOpened, OpensAgain,
     RelayHolds, AtTheRelay
<1>17. StillThere'
  BY <1>1, <1>2, <1>3, <1>4, <1>5, <1>6, Now, Nothing, Differ DEF StillThere, Aside, OpensAgain,
     RelayHolds, After
<1>18. QED
  BY <1>7, <1>8, <1>9, <1>10, <1>11, <1>12, <1>13, <1>14, <1>15, <1>16, <1>17 DEF RotationInv

LEMMA SaveCapsuleKeeps ==
  ASSUME RotationSizes, RotationInv, SaveCapsule
  PROVE  RotationInv'
<1>1. TypeOK /\ browser # 0 /\ JobsShape /\ DirsAreReal /\ PlacesAgree /\ RelayJob /\ FilesOpen
      /\ WrittenIsHeld /\ KnowsItsBackup /\ OpenIsOpened /\ StillThere
  BY DEF RotationInv
<1>2. job = Idle /\ job.steps = <<>> /\ job.kind = "none" /\ stage = NoDir /\ open
  BY <1>1, NoSteps DEF SaveCapsule, Ready, PlacesAgree
<1>3. root.capsule \in 1 .. MaxGenerations
  BY <1>1, <1>2, Now DEF SaveCapsule, RelayHolds, Dir, RotationSizes
<1>4. /\ root' = root /\ stage' = stage /\ aside' = aside /\ row' = row /\ files' = files
      /\ browser' = browser /\ open' = open /\ lost' = lost /\ job' = job /\ edits' = edits
      /\ generations' = generations /\ faults' = faults /\ losses' = losses
  BY <1>1, <1>2, <1>3 DEF SaveCapsule, disk, user, history, counts
<1>5. capsules' = capsules \union {root.capsule}
  BY <1>1, <1>2, <1>3, <1>4 DEF SaveCapsule
<1>6. Copied' = Copied /\ Aside' = Aside
  BY <1>1, <1>2, <1>3, <1>4, <1>5 DEF Copied, Aside, OpensAgain
<1>7. TypeOK'
  <2>1. /\ root' \in Dir /\ stage' \in Dir /\ aside' \subseteq Dir /\ row' \in [Password -> Row]
        /\ files' \subseteq File /\ capsules' \subseteq 1 .. MaxGenerations /\ browser' \in 0 .. MaxGenerations
        /\ open' \in BOOLEAN /\ lost' \in BOOLEAN /\ job' \in JobType
    BY <1>1, <1>2, <1>3, <1>4, <1>5, <1>6, Now, Nothing
  <2>2. /\ edits' \in 0 .. MaxEdits /\ generations' \in 1 .. MaxGenerations
        /\ faults' \in 0 .. MaxFaults /\ losses' \in 0 .. MaxLosses
    BY <1>1, <1>2, <1>3, <1>4, <1>5, <1>6, Now
  <2>3. QED
    BY <2>1, <2>2, TypedAfter
<1>8. (browser # 0)'
  BY <1>1, <1>2, <1>3, <1>4, <1>5, <1>6, Now, Nothing, Differ DEF Real
<1>9. JobsShape'
  BY <1>1, <1>2, <1>3, <1>4, <1>5, <1>6, Now, Nothing, Differ DEF JobsShape
<1>10. DirsAreReal'
  BY <1>1, <1>2, <1>3, <1>4, <1>5, <1>6, Now, Nothing, Differ DEF DirsAreReal, Real
<1>11. PlacesAgree'
  BY <1>1, <1>2, <1>3, <1>4, <1>5, <1>6, Now, Nothing, Differ DEF PlacesAgree, Before, After,
     Real, AtTheRelay
<1>12. RelayJob'
  BY <1>1, <1>2, <1>3, <1>4, <1>5, <1>6, Now, Nothing, Differ DEF RelayJob, HasOwnRow, RelayHolds,
     AtTheRelay
<1>13. FilesOpen'
  BY <1>1, <1>2, <1>3, <1>4, <1>5, <1>6, Now, Nothing, Differ DEF FilesOpen
<1>14. WrittenIsHeld'
  BY <1>1, <1>2, <1>3, <1>4, <1>5, <1>6, Now, Nothing, Differ DEF WrittenIsHeld, Current
<1>15. KnowsItsBackup'
  BY <1>1, <1>2, <1>3, <1>4, <1>5, <1>6, Now, Nothing, Differ DEF KnowsItsBackup, NoOlder
<1>16. OpenIsOpened'
  BY <1>1, <1>2, <1>3, <1>4, <1>5, <1>6, Now, Nothing, Differ DEF OpenIsOpened, OpensAgain,
     RelayHolds, AtTheRelay
<1>17. StillThere'
  BY <1>1, <1>2, <1>3, <1>4, <1>5, <1>6, Now, Nothing, Differ DEF StillThere, Aside, OpensAgain,
     RelayHolds, After
<1>18. QED
  BY <1>7, <1>8, <1>9, <1>10, <1>11, <1>12, <1>13, <1>14, <1>15, <1>16, <1>17 DEF RotationInv

LEMMA BackUpKeeps ==
  ASSUME RotationSizes, RotationInv, BackUp
  PROVE  RotationInv'
<1>1. TypeOK /\ browser # 0 /\ JobsShape /\ DirsAreReal /\ PlacesAgree /\ RelayJob /\ FilesOpen
      /\ WrittenIsHeld /\ KnowsItsBackup /\ OpenIsOpened /\ StillThere
  BY DEF RotationInv
<1>2. job = Idle /\ job.steps = <<>> /\ job.kind = "none" /\ stage = NoDir /\ open /\ Accepted
  BY <1>1, NoSteps DEF BackUp, Ready, PlacesAgree
<1>3. /\ Real(root) /\ root # NoDir /\ [gen |-> root.gen, edits |-> root.edits] \in Row
      /\ root.password \in Password
  BY <1>1, <1>2, Now, Nothing, OwnRows DEF PlacesAgree, Real
<1>4. /\ root' \in Dir /\ root'.gen = root.gen /\ root'.password = root.password
      /\ root'.capsule = root.capsule /\ root'.edits = root.edits /\ root'.knows = TRUE
  BY <1>1, <1>2, <1>3, Now DEF BackUp, Dir
<1>5. row' = [row EXCEPT ![root.password] = [gen |-> root.gen, edits |-> root.edits]]
  BY <1>1, <1>2, <1>3, <1>4 DEF BackUp, Backed
<1>6. /\ row' \in [Password -> Row]
      /\ row'[root.password] = [gen |-> root.gen, edits |-> root.edits]
      /\ \A q \in Password : q # root.password => row'[q] = row[q]
  BY <1>1, <1>2, <1>3, <1>4, <1>5, Now, Rows
<1>7. /\ row'[root.password].gen = root.gen /\ row'[root.password].edits = root.edits
      /\ row'[root.password] # NoRow
  BY <1>1, <1>2, <1>3, <1>4, <1>5, <1>6, OwnRows, Nothing DEF Real
<1>8. /\ stage' = stage /\ aside' = aside /\ files' = files /\ capsules' = capsules
      /\ browser' = browser /\ open' = open /\ lost' = lost /\ job' = job /\ edits' = edits
      /\ generations' = generations /\ faults' = faults /\ losses' = losses
  BY <1>1, <1>2, <1>3, <1>4, <1>5, <1>6, <1>7 DEF BackUp, disk, user, history, counts
<1>9. row[root.password] # NoRow => row[root.password].edits <= root.edits
  BY <1>1, <1>2, <1>3, <1>4, <1>5, <1>6, <1>7, <1>8, Now DEF Accepted, KnowsItsBackup, NoOlder
<1>10. /\ \A p \in Password : row[p] # NoRow => row'[p] # NoRow /\ row'[p].edits \in Nat /\ row'[p].edits >= row[p].edits
  BY <1>1, <1>2, <1>3, <1>4, <1>5, <1>6, <1>7, <1>8, <1>9, Now
<1>11. Copied => Copied'
  BY <1>1, <1>2, <1>3, <1>4, <1>5, <1>6, <1>7, <1>8, <1>9, <1>10, CopiedGrows
<1>12. TypeOK'
  <2>1. /\ root' \in Dir /\ stage' \in Dir /\ aside' \subseteq Dir /\ row' \in [Password -> Row]
        /\ files' \subseteq File /\ capsules' \subseteq 1 .. MaxGenerations /\ browser' \in 0 .. MaxGenerations
        /\ open' \in BOOLEAN /\ lost' \in BOOLEAN /\ job' \in JobType
    BY <1>1, <1>2, <1>3, <1>4, <1>5, <1>6, <1>7, <1>8, <1>9, <1>10, <1>11, Now, Nothing
  <2>2. /\ edits' \in 0 .. MaxEdits /\ generations' \in 1 .. MaxGenerations
        /\ faults' \in 0 .. MaxFaults /\ losses' \in 0 .. MaxLosses
    BY <1>1, <1>2, <1>3, <1>4, <1>5, <1>6, <1>7, <1>8, <1>9, <1>10, <1>11, Now
  <2>3. QED
    BY <2>1, <2>2, TypedAfter
<1>13. (browser # 0)'
  BY <1>1, <1>2, <1>3, <1>4, <1>5, <1>6, <1>7, <1>8, <1>9, <1>10, <1>11, Now, Nothing, Differ DEF
     Real
<1>14. JobsShape'
  BY <1>1, <1>2, <1>3, <1>4, <1>5, <1>6, <1>7, <1>8, <1>9, <1>10, <1>11, Now, Nothing, Differ DEF
     JobsShape
<1>15. DirsAreReal'
  BY <1>1, <1>2, <1>3, <1>4, <1>5, <1>6, <1>7, <1>8, <1>9, <1>10, <1>11, Now, Nothing, Differ DEF
     DirsAreReal, Real
<1>16. PlacesAgree'
  BY <1>1, <1>2, <1>3, <1>4, <1>5, <1>6, <1>7, <1>8, <1>9, <1>10, <1>11, Now, Nothing, Differ DEF
     PlacesAgree, Before, After, Real, AtTheRelay
<1>17. RelayJob'
  BY <1>1, <1>2, <1>3, <1>4, <1>5, <1>6, <1>7, <1>8, <1>9, <1>10, <1>11, Now, Nothing, Differ DEF
     RelayJob, HasOwnRow, RelayHolds, AtTheRelay
<1>18. FilesOpen'
  BY <1>1, <1>2, <1>3, <1>4, <1>5, <1>6, <1>7, <1>8, <1>9, <1>10, <1>11, Now, Nothing, Differ DEF
     FilesOpen
<1>19. WrittenIsHeld'
  BY <1>1, <1>2, <1>3, <1>4, <1>5, <1>6, <1>7, <1>8, <1>9, <1>10, <1>11, Now, Nothing, Differ DEF
     WrittenIsHeld, Current
<1>20. KnowsItsBackup'
  <2>1. NoOlder(root)'
    BY <1>1, <1>3, <1>4, <1>5, <1>6, <1>7, <1>8, Now DEF NoOlder
  <2>2. stage' = NoDir /\ job'.old = NoDir /\ NoDir.knows = FALSE
    BY <1>1, <1>2, <1>8, Nothing, NoSteps
  <2>3. QED
    BY <2>1, <2>2 DEF KnowsItsBackup, NoOlder
<1>21. OpenIsOpened'
  BY <1>1, <1>2, <1>3, <1>4, <1>5, <1>6, <1>7, <1>8, <1>9, <1>10, <1>11, Now, Nothing, Differ DEF
     OpenIsOpened, OpensAgain, RelayHolds, AtTheRelay
<1>22. StillThere'
  BY <1>1, <1>2, <1>3, <1>4, <1>5, <1>6, <1>7, <1>8, <1>9, <1>10, <1>11, Now, Nothing, Differ DEF
     StillThere, Aside, OpensAgain, RelayHolds, After
<1>23. QED
  BY <1>12, <1>13, <1>14, <1>15, <1>16, <1>17, <1>18, <1>19, <1>20, <1>21, <1>22 DEF RotationInv

LEMMA ExportStorageKeeps ==
  ASSUME RotationSizes, RotationInv, ExportStorage
  PROVE  RotationInv'
<1>1. TypeOK /\ browser # 0 /\ JobsShape /\ DirsAreReal /\ PlacesAgree /\ RelayJob /\ FilesOpen
      /\ WrittenIsHeld /\ KnowsItsBackup /\ OpenIsOpened /\ StillThere
  BY DEF RotationInv
<1>2. /\ job = Idle /\ job.steps = <<>> /\ job.kind = "none" /\ stage = NoDir /\ open
      /\ root.capsule \in capsules
  BY <1>1, NoSteps DEF ExportStorage, Ready, PlacesAgree
<1>3. /\ root.capsule \in 1 .. MaxGenerations /\ root.password \in Password
      /\ root.edits \in 0 .. MaxEdits
  BY <1>1, <1>2, Now DEF Dir
<1>4. /\ root' = root /\ stage' = stage /\ aside' = aside /\ row' = row /\ capsules' = capsules
      /\ browser' = browser /\ open' = open /\ lost' = lost /\ job' = job /\ edits' = edits
      /\ generations' = generations /\ faults' = faults /\ losses' = losses
  BY <1>1, <1>2, <1>3 DEF ExportStorage, disk, user, history, counts
<1>5. /\ files' = files \union {[password |-> root.password, capsule |-> root.capsule, edits |-> root.edits]}
  BY <1>1, <1>2, <1>3, <1>4 DEF ExportStorage
<1>6. files' \subseteq File /\ \A f \in files' : f.capsule \in capsules
  BY <1>1, <1>2, <1>3, <1>4, <1>5, Now DEF File, FilesOpen
<1>7. /\ \A p \in Password : row[p] # NoRow => row'[p] # NoRow /\ row'[p].edits \in Nat /\ row'[p].edits >= row[p].edits
  BY <1>1, <1>2, <1>3, <1>4, <1>5, <1>6, Now
<1>8. Copied => Copied'
  BY <1>1, <1>2, <1>3, <1>4, <1>5, <1>6, <1>7, CopiedGrows
<1>9. Aside' = Aside
  BY <1>1, <1>2, <1>3, <1>4, <1>5, <1>6, <1>7, <1>8 DEF Aside, OpensAgain
<1>10. TypeOK'
  <2>1. /\ root' \in Dir /\ stage' \in Dir /\ aside' \subseteq Dir /\ row' \in [Password -> Row]
        /\ files' \subseteq File /\ capsules' \subseteq 1 .. MaxGenerations /\ browser' \in 0 .. MaxGenerations
        /\ open' \in BOOLEAN /\ lost' \in BOOLEAN /\ job' \in JobType
    BY <1>1, <1>2, <1>3, <1>4, <1>5, <1>6, <1>7, <1>8, <1>9, Now, Nothing
  <2>2. /\ edits' \in 0 .. MaxEdits /\ generations' \in 1 .. MaxGenerations
        /\ faults' \in 0 .. MaxFaults /\ losses' \in 0 .. MaxLosses
    BY <1>1, <1>2, <1>3, <1>4, <1>5, <1>6, <1>7, <1>8, <1>9, Now
  <2>3. QED
    BY <2>1, <2>2, TypedAfter
<1>11. (browser # 0)'
  BY <1>1, <1>2, <1>3, <1>4, <1>5, <1>6, <1>7, <1>8, <1>9, Now, Nothing, Differ DEF Real
<1>12. JobsShape'
  BY <1>1, <1>2, <1>3, <1>4, <1>5, <1>6, <1>7, <1>8, <1>9, Now, Nothing, Differ DEF JobsShape
<1>13. DirsAreReal'
  BY <1>1, <1>2, <1>3, <1>4, <1>5, <1>6, <1>7, <1>8, <1>9, Now, Nothing, Differ DEF DirsAreReal,
     Real
<1>14. PlacesAgree'
  BY <1>1, <1>2, <1>3, <1>4, <1>5, <1>6, <1>7, <1>8, <1>9, Now, Nothing, Differ DEF PlacesAgree,
     Before, After, Real, AtTheRelay
<1>15. RelayJob'
  BY <1>1, <1>2, <1>3, <1>4, <1>5, <1>6, <1>7, <1>8, <1>9, Now, Nothing, Differ DEF RelayJob,
     HasOwnRow, RelayHolds, AtTheRelay
<1>16. FilesOpen'
  BY <1>1, <1>2, <1>3, <1>4, <1>5, <1>6, <1>7, <1>8, <1>9, Now, Nothing, Differ DEF FilesOpen
<1>17. WrittenIsHeld'
  BY <1>1, <1>2, <1>3, <1>4, <1>5, <1>6, <1>7, <1>8, <1>9, Now, Nothing, Differ DEF WrittenIsHeld,
     Current
<1>18. KnowsItsBackup'
  BY <1>1, <1>2, <1>3, <1>4, <1>5, <1>6, <1>7, <1>8, <1>9, Now, Nothing, Differ DEF
     KnowsItsBackup, NoOlder
<1>19. OpenIsOpened'
  BY <1>1, <1>2, <1>3, <1>4, <1>5, <1>6, <1>7, <1>8, <1>9, Now, Nothing, Differ DEF OpenIsOpened,
     OpensAgain, RelayHolds, AtTheRelay
<1>20. StillThere'
  BY <1>1, <1>2, <1>3, <1>4, <1>5, <1>6, <1>7, <1>8, <1>9, Now, Nothing, Differ DEF StillThere,
     Aside, OpensAgain, RelayHolds, After
<1>21. QED
  BY <1>10, <1>11, <1>12, <1>13, <1>14, <1>15, <1>16, <1>17, <1>18, <1>19, <1>20 DEF RotationInv

LEMMA LockKeeps ==
  ASSUME RotationSizes, RotationInv, Lock
  PROVE  RotationInv'
<1>1. TypeOK /\ browser # 0 /\ JobsShape /\ DirsAreReal /\ PlacesAgree /\ RelayJob /\ FilesOpen
      /\ WrittenIsHeld /\ KnowsItsBackup /\ OpenIsOpened /\ StillThere
  BY DEF RotationInv
<1>2. job = Idle /\ job.steps = <<>> /\ job.kind = "none" /\ stage = NoDir /\ open
  BY <1>1, NoSteps DEF Lock, Ready, PlacesAgree
<1>3. /\ root' = root /\ stage' = stage /\ aside' = aside /\ row' = row /\ files' = files
      /\ capsules' = capsules /\ browser' = browser /\ lost' = lost /\ job' = job
      /\ edits' = edits /\ generations' = generations /\ faults' = faults /\ losses' = losses
  BY <1>1, <1>2 DEF Lock, disk, user, history, counts
<1>4. open' = FALSE
  BY <1>1, <1>2, <1>3 DEF Lock
<1>5. lost \/ Copied \/ Aside \/ (root.edits >= edits /\ OpensAgain(root))
  BY <1>1, <1>2, <1>3, <1>4, Safe, Differ
<1>6. Copied' = Copied /\ Aside' = Aside
  BY <1>1, <1>2, <1>3, <1>4, <1>5 DEF Copied, Aside, OpensAgain
<1>7. TypeOK'
  <2>1. /\ root' \in Dir /\ stage' \in Dir /\ aside' \subseteq Dir /\ row' \in [Password -> Row]
        /\ files' \subseteq File /\ capsules' \subseteq 1 .. MaxGenerations /\ browser' \in 0 .. MaxGenerations
        /\ open' \in BOOLEAN /\ lost' \in BOOLEAN /\ job' \in JobType
    BY <1>1, <1>2, <1>3, <1>4, <1>5, <1>6, Now, Nothing
  <2>2. /\ edits' \in 0 .. MaxEdits /\ generations' \in 1 .. MaxGenerations
        /\ faults' \in 0 .. MaxFaults /\ losses' \in 0 .. MaxLosses
    BY <1>1, <1>2, <1>3, <1>4, <1>5, <1>6, Now
  <2>3. QED
    BY <2>1, <2>2, TypedAfter
<1>8. (browser # 0)'
  BY <1>1, <1>2, <1>3, <1>4, <1>5, <1>6, Now, Nothing, Differ DEF Real
<1>9. JobsShape'
  BY <1>1, <1>2, <1>3, <1>4, <1>5, <1>6, Now, Nothing, Differ DEF JobsShape
<1>10. DirsAreReal'
  BY <1>1, <1>2, <1>3, <1>4, <1>5, <1>6, Now, Nothing, Differ DEF DirsAreReal, Real
<1>11. PlacesAgree'
  BY <1>1, <1>2, <1>3, <1>4, <1>5, <1>6, Now, Nothing, Differ DEF PlacesAgree, Before, After,
     Real, AtTheRelay
<1>12. RelayJob'
  BY <1>1, <1>2, <1>3, <1>4, <1>5, <1>6, Now, Nothing, Differ DEF RelayJob, HasOwnRow, RelayHolds,
     AtTheRelay
<1>13. FilesOpen'
  BY <1>1, <1>2, <1>3, <1>4, <1>5, <1>6, Now, Nothing, Differ DEF FilesOpen
<1>14. WrittenIsHeld'
  BY <1>1, <1>2, <1>3, <1>4, <1>5, <1>6, Now, Nothing, Differ DEF WrittenIsHeld, Current
<1>15. KnowsItsBackup'
  BY <1>1, <1>2, <1>3, <1>4, <1>5, <1>6, Now, Nothing, Differ DEF KnowsItsBackup, NoOlder
<1>16. OpenIsOpened'
  BY <1>1, <1>2, <1>3, <1>4, <1>5, <1>6, Now, Nothing, Differ DEF OpenIsOpened, OpensAgain,
     RelayHolds, AtTheRelay
<1>17. StillThere'
  BY <1>1, <1>2, <1>3, <1>4, <1>5, <1>6, Now, Nothing, Differ DEF StillThere, Aside, OpensAgain,
     RelayHolds, After
<1>18. QED
  BY <1>7, <1>8, <1>9, <1>10, <1>11, <1>12, <1>13, <1>14, <1>15, <1>16, <1>17 DEF RotationInv

LEMMA UnlockKeeps ==
  ASSUME RotationSizes, RotationInv, Unlock
  PROVE  RotationInv'
<1>1. TypeOK /\ browser # 0 /\ JobsShape /\ DirsAreReal /\ PlacesAgree /\ RelayJob /\ FilesOpen
      /\ WrittenIsHeld /\ KnowsItsBackup /\ OpenIsOpened /\ StillThere
  BY DEF RotationInv
<1>2. job = Idle /\ job.steps = <<>> /\ job.kind = "none" /\ stage = NoDir /\ ~open
  BY <1>1, NoSteps DEF Unlock, Ready, PlacesAgree
<1>3. /\ root' = root /\ stage' = stage /\ aside' = aside /\ row' = row /\ files' = files
      /\ capsules' = capsules /\ browser' = browser /\ lost' = lost /\ job' = job
      /\ edits' = edits /\ generations' = generations /\ faults' = faults /\ losses' = losses
  BY <1>1, <1>2 DEF Unlock, disk, user, history, counts
<1>4. open' = TRUE /\ Real(root) /\ OpensAgain(root)
  BY <1>1, <1>2, <1>3, Now DEF Unlock, Opens, OpensAgain, Real
<1>5. Copied' = Copied /\ Aside' = Aside
  BY <1>1, <1>2, <1>3, <1>4 DEF Copied, Aside, OpensAgain
<1>6. TypeOK'
  <2>1. /\ root' \in Dir /\ stage' \in Dir /\ aside' \subseteq Dir /\ row' \in [Password -> Row]
        /\ files' \subseteq File /\ capsules' \subseteq 1 .. MaxGenerations /\ browser' \in 0 .. MaxGenerations
        /\ open' \in BOOLEAN /\ lost' \in BOOLEAN /\ job' \in JobType
    BY <1>1, <1>2, <1>3, <1>4, <1>5, Now, Nothing
  <2>2. /\ edits' \in 0 .. MaxEdits /\ generations' \in 1 .. MaxGenerations
        /\ faults' \in 0 .. MaxFaults /\ losses' \in 0 .. MaxLosses
    BY <1>1, <1>2, <1>3, <1>4, <1>5, Now
  <2>3. QED
    BY <2>1, <2>2, TypedAfter
<1>7. (browser # 0)'
  BY <1>1, <1>2, <1>3, <1>4, <1>5, Now, Nothing, Differ DEF Real
<1>8. JobsShape'
  BY <1>1, <1>2, <1>3, <1>4, <1>5, Now, Nothing, Differ DEF JobsShape
<1>9. DirsAreReal'
  BY <1>1, <1>2, <1>3, <1>4, <1>5, Now, Nothing, Differ DEF DirsAreReal, Real
<1>10. PlacesAgree'
  BY <1>1, <1>2, <1>3, <1>4, <1>5, Now, Nothing, Differ DEF PlacesAgree, Before, After, Real,
     AtTheRelay
<1>11. RelayJob'
  BY <1>1, <1>2, <1>3, <1>4, <1>5, Now, Nothing, Differ DEF RelayJob, HasOwnRow, RelayHolds,
     AtTheRelay
<1>12. FilesOpen'
  BY <1>1, <1>2, <1>3, <1>4, <1>5, Now, Nothing, Differ DEF FilesOpen
<1>13. WrittenIsHeld'
  BY <1>1, <1>2, <1>3, <1>4, <1>5, Now, Nothing, Differ DEF WrittenIsHeld, Current
<1>14. KnowsItsBackup'
  BY <1>1, <1>2, <1>3, <1>4, <1>5, Now, Nothing, Differ DEF KnowsItsBackup, NoOlder
<1>15. OpenIsOpened'
  BY <1>1, <1>2, <1>3, <1>4, <1>5, Now, Nothing, Differ DEF OpenIsOpened, OpensAgain, RelayHolds,
     AtTheRelay
<1>16. StillThere'
  BY <1>1, <1>2, <1>3, <1>4, <1>5, Now, Nothing, Differ DEF StillThere, Aside, OpensAgain,
     RelayHolds, After
<1>17. QED
  BY <1>6, <1>7, <1>8, <1>9, <1>10, <1>11, <1>12, <1>13, <1>14, <1>15, <1>16 DEF RotationInv

LEMMA ChangeAtRelayKeeps ==
  ASSUME RotationSizes, RotationInv, NEW p \in Password, ChangeAtRelay(p)
  PROVE  RotationInv'
<1>1. TypeOK /\ browser # 0 /\ JobsShape /\ DirsAreReal /\ PlacesAgree /\ RelayJob /\ FilesOpen
      /\ WrittenIsHeld /\ KnowsItsBackup /\ OpenIsOpened /\ StillThere
  BY DEF RotationInv
<1>2. /\ job = Idle /\ job.steps = <<>> /\ job.kind = "none" /\ stage = NoDir /\ open
      /\ RelayHolds(root) /\ p # root.password /\ row[p] = NoRow
  BY <1>1, NoSteps DEF ChangeAtRelay, Ready, PlacesAgree
<1>3. /\ generations + 1 \in 1 .. MaxGenerations /\ generations + 1 \in 0 .. MaxGenerations
      /\ generations + 1 # 0
  BY <1>1, <1>2, Now DEF ChangeAtRelay, Provision, RotationSizes
<1>4. 0 \in 0 .. MaxGenerations /\ root.edits \in 0 .. MaxEdits /\ Real(root)
  BY <1>1, <1>2, <1>3, Now DEF PlacesAgree, Dir, RotationSizes
<1>5. /\ stage' \in Dir /\ stage'.gen = generations + 1 /\ stage'.password = p
      /\ stage'.capsule = 0 /\ stage'.edits = root.edits /\ stage'.knows = FALSE
      /\ generations' = generations + 1 /\ generations' \in 1 .. MaxGenerations
  BY <1>1, <1>2, <1>3, <1>4 DEF ChangeAtRelay, Provision, Dir
<1>6. /\ job' \in JobType /\ job'.steps = RotationSteps /\ job'.kind = "change"
      /\ job'.old = root /\ job' # Idle /\ JobsShape'
  BY <1>1, <1>2, <1>3, <1>4, <1>5, Begins, Now DEF ChangeAtRelay
<1>7. /\ root' = root /\ aside' = aside /\ row' = row /\ files' = files /\ capsules' = capsules
      /\ browser' = browser /\ open' = open /\ lost' = lost /\ edits' = edits
      /\ faults' = faults /\ losses' = losses
  BY <1>1, <1>2, <1>3, <1>4, <1>5, <1>6 DEF ChangeAtRelay, disk, user, history, counts
<1>8. Copied' = Copied /\ Aside' = Aside
  BY <1>1, <1>2, <1>3, <1>4, <1>5, <1>6, <1>7 DEF Copied, Aside, OpensAgain
<1>9. root # NoDir /\ (root.edits >= edits \/ Copied)
  BY <1>1, <1>2, <1>3, <1>4, <1>5, <1>6, <1>7, <1>8, Nothing DEF WrittenIsHeld, Current, Real
<1>10. (edits' = edits) /\ (root' = root) /\ (Copied' = Copied) /\ (stage'.edits = root.edits)
  BY <1>1, <1>2, <1>3, <1>4, <1>5, <1>6, <1>7, <1>8, <1>9, Now
<1>11. TypeOK'
  <2>1. /\ root' \in Dir /\ stage' \in Dir /\ aside' \subseteq Dir /\ row' \in [Password -> Row]
        /\ files' \subseteq File /\ capsules' \subseteq 1 .. MaxGenerations /\ browser' \in 0 .. MaxGenerations
        /\ open' \in BOOLEAN /\ lost' \in BOOLEAN /\ job' \in JobType
    BY <1>1, <1>2, <1>3, <1>4, <1>5, <1>6, <1>7, <1>8, <1>9, <1>10, Now, Nothing
  <2>2. /\ edits' \in 0 .. MaxEdits /\ generations' \in 1 .. MaxGenerations
        /\ faults' \in 0 .. MaxFaults /\ losses' \in 0 .. MaxLosses
    BY <1>1, <1>2, <1>3, <1>4, <1>5, <1>6, <1>7, <1>8, <1>9, <1>10, Now
  <2>3. QED
    BY <2>1, <2>2, TypedAfter
<1>12. (browser # 0)'
  BY <1>1, <1>2, <1>3, <1>4, <1>5, <1>6, <1>7, <1>8, <1>9, <1>10, Now, Nothing, Differ DEF Real
<1>13. JobsShape'
  BY <1>1, <1>2, <1>3, <1>4, <1>5, <1>6, <1>7, <1>8, <1>9, <1>10, Now, Nothing, Differ DEF
     JobsShape
<1>14. DirsAreReal'
  BY <1>1, <1>2, <1>3, <1>4, <1>5, <1>6, <1>7, <1>8, <1>9, <1>10, Now, Nothing, Differ DEF
     DirsAreReal, Real
<1>15. PlacesAgree'
  BY <1>1, <1>2, <1>3, <1>4, <1>5, <1>6, <1>7, <1>8, <1>9, <1>10, Now, Nothing, Differ DEF
     PlacesAgree, Before, After, Real, AtTheRelay
<1>16. RelayJob'
  BY <1>1, <1>2, <1>3, <1>4, <1>5, <1>6, <1>7, <1>8, <1>9, <1>10, Now, Nothing, Differ DEF
     RelayJob, HasOwnRow, RelayHolds, AtTheRelay
<1>17. FilesOpen'
  BY <1>1, <1>2, <1>3, <1>4, <1>5, <1>6, <1>7, <1>8, <1>9, <1>10, Now, Nothing, Differ DEF
     FilesOpen
<1>18. WrittenIsHeld'
  BY <1>1, <1>2, <1>3, <1>4, <1>5, <1>6, <1>7, <1>8, <1>9, <1>10, Now, Nothing, Differ DEF
     WrittenIsHeld, Current
<1>19. KnowsItsBackup'
  BY <1>1, <1>2, <1>3, <1>4, <1>5, <1>6, <1>7, <1>8, <1>9, <1>10, Now, Nothing, Differ DEF
     KnowsItsBackup, NoOlder
<1>20. OpenIsOpened'
  BY <1>1, <1>2, <1>3, <1>4, <1>5, <1>6, <1>7, <1>8, <1>9, <1>10, Now, Nothing, Differ DEF
     OpenIsOpened, OpensAgain, RelayHolds, AtTheRelay
<1>21. StillThere'
  BY <1>1, <1>2, <1>3, <1>4, <1>5, <1>6, <1>7, <1>8, <1>9, <1>10, Now, Nothing, Differ DEF
     StillThere, Aside, OpensAgain, RelayHolds, After
<1>22. QED
  BY <1>11, <1>12, <1>13, <1>14, <1>15, <1>16, <1>17, <1>18, <1>19, <1>20, <1>21 DEF RotationInv

LEMMA ChangeWithFileKeeps ==
  ASSUME RotationSizes, RotationInv, NEW p \in Password, ChangeWithFile(p)
  PROVE  RotationInv'
<1>1. TypeOK /\ browser # 0 /\ JobsShape /\ DirsAreReal /\ PlacesAgree /\ RelayJob /\ FilesOpen
      /\ WrittenIsHeld /\ KnowsItsBackup /\ OpenIsOpened /\ StillThere
  BY DEF RotationInv
<1>2. /\ job = Idle /\ job.steps = <<>> /\ job.kind = "none" /\ stage = NoDir /\ open
      /\ p # root.password
  BY <1>1, NoSteps DEF ChangeWithFile, Ready, PlacesAgree
<1>3. /\ generations + 1 \in 1 .. MaxGenerations /\ generations + 1 \in 0 .. MaxGenerations
      /\ generations + 1 # 0
  BY <1>1, <1>2, Now DEF ChangeWithFile, Provision, RotationSizes
<1>4. root.edits \in 0 .. MaxEdits /\ Real(root)
  BY <1>1, <1>2, <1>3, Now DEF PlacesAgree, Dir, RotationSizes
<1>5. /\ stage' \in Dir /\ stage'.gen = generations + 1 /\ stage'.password = p
      /\ stage'.capsule = generations + 1 /\ stage'.edits = root.edits /\ stage'.knows = FALSE
      /\ generations' = generations + 1 /\ generations' \in 1 .. MaxGenerations
  BY <1>1, <1>2, <1>3, <1>4 DEF ChangeWithFile, Provision, NewCapsule, Dir
<1>6. /\ job' \in JobType /\ job'.steps = SwitchSteps /\ job'.kind = "change" /\ job'.old = root
      /\ job' # Idle /\ JobsShape'
  BY <1>1, <1>2, <1>3, <1>4, <1>5, Begins, Now DEF ChangeWithFile
<1>7. /\ root' = root /\ aside' = aside /\ row' = row /\ files' = files /\ capsules' = capsules
      /\ browser' = browser /\ open' = open /\ lost' = lost /\ edits' = edits
      /\ faults' = faults /\ losses' = losses
  BY <1>1, <1>2, <1>3, <1>4, <1>5, <1>6 DEF ChangeWithFile, disk, user, history, counts
<1>8. Copied' = Copied /\ Aside' = Aside
  BY <1>1, <1>2, <1>3, <1>4, <1>5, <1>6, <1>7 DEF Copied, Aside, OpensAgain
<1>9. root # NoDir /\ (root.edits >= edits \/ Copied)
  BY <1>1, <1>2, <1>3, <1>4, <1>5, <1>6, <1>7, <1>8, Nothing DEF WrittenIsHeld, Current, Real
<1>10. (edits' = edits) /\ (root' = root) /\ (Copied' = Copied) /\ (stage'.edits = root.edits)
  BY <1>1, <1>2, <1>3, <1>4, <1>5, <1>6, <1>7, <1>8, <1>9, Now
<1>11. TypeOK'
  <2>1. /\ root' \in Dir /\ stage' \in Dir /\ aside' \subseteq Dir /\ row' \in [Password -> Row]
        /\ files' \subseteq File /\ capsules' \subseteq 1 .. MaxGenerations /\ browser' \in 0 .. MaxGenerations
        /\ open' \in BOOLEAN /\ lost' \in BOOLEAN /\ job' \in JobType
    BY <1>1, <1>2, <1>3, <1>4, <1>5, <1>6, <1>7, <1>8, <1>9, <1>10, Now, Nothing
  <2>2. /\ edits' \in 0 .. MaxEdits /\ generations' \in 1 .. MaxGenerations
        /\ faults' \in 0 .. MaxFaults /\ losses' \in 0 .. MaxLosses
    BY <1>1, <1>2, <1>3, <1>4, <1>5, <1>6, <1>7, <1>8, <1>9, <1>10, Now
  <2>3. QED
    BY <2>1, <2>2, TypedAfter
<1>12. (browser # 0)'
  BY <1>1, <1>2, <1>3, <1>4, <1>5, <1>6, <1>7, <1>8, <1>9, <1>10, Now, Nothing, Differ DEF Real
<1>13. JobsShape'
  BY <1>1, <1>2, <1>3, <1>4, <1>5, <1>6, <1>7, <1>8, <1>9, <1>10, Now, Nothing, Differ DEF
     JobsShape
<1>14. DirsAreReal'
  BY <1>1, <1>2, <1>3, <1>4, <1>5, <1>6, <1>7, <1>8, <1>9, <1>10, Now, Nothing, Differ DEF
     DirsAreReal, Real
<1>15. PlacesAgree'
  BY <1>1, <1>2, <1>3, <1>4, <1>5, <1>6, <1>7, <1>8, <1>9, <1>10, Now, Nothing, Differ DEF
     PlacesAgree, Before, After, Real, AtTheRelay
<1>16. RelayJob'
  BY <1>1, <1>2, <1>3, <1>4, <1>5, <1>6, <1>7, <1>8, <1>9, <1>10, Now, Nothing, Differ DEF
     RelayJob, HasOwnRow, RelayHolds, AtTheRelay
<1>17. FilesOpen'
  BY <1>1, <1>2, <1>3, <1>4, <1>5, <1>6, <1>7, <1>8, <1>9, <1>10, Now, Nothing, Differ DEF
     FilesOpen
<1>18. WrittenIsHeld'
  BY <1>1, <1>2, <1>3, <1>4, <1>5, <1>6, <1>7, <1>8, <1>9, <1>10, Now, Nothing, Differ DEF
     WrittenIsHeld, Current
<1>19. KnowsItsBackup'
  BY <1>1, <1>2, <1>3, <1>4, <1>5, <1>6, <1>7, <1>8, <1>9, <1>10, Now, Nothing, Differ DEF
     KnowsItsBackup, NoOlder
<1>20. OpenIsOpened'
  BY <1>1, <1>2, <1>3, <1>4, <1>5, <1>6, <1>7, <1>8, <1>9, <1>10, Now, Nothing, Differ DEF
     OpenIsOpened, OpensAgain, RelayHolds, AtTheRelay
<1>21. StillThere'
  BY <1>1, <1>2, <1>3, <1>4, <1>5, <1>6, <1>7, <1>8, <1>9, <1>10, Now, Nothing, Differ DEF
     StillThere, Aside, OpensAgain, RelayHolds, After
<1>22. QED
  BY <1>11, <1>12, <1>13, <1>14, <1>15, <1>16, <1>17, <1>18, <1>19, <1>20, <1>21 DEF RotationInv

LEMMA RestoreKeeps ==
  ASSUME RotationSizes, RotationInv, NEW p \in Password, Restore(p)
  PROVE  RotationInv'
<1>1. TypeOK /\ browser # 0 /\ JobsShape /\ DirsAreReal /\ PlacesAgree /\ RelayJob /\ FilesOpen
      /\ WrittenIsHeld /\ KnowsItsBackup /\ OpenIsOpened /\ StillThere
  BY DEF RotationInv
<1>2. /\ job = Idle /\ job.steps = <<>> /\ job.kind = "none" /\ stage = NoDir /\ ~open
      /\ row[p] # NoRow
  BY <1>1, NoSteps DEF Restore, Ready, PlacesAgree
<1>3. /\ generations + 1 \in 1 .. MaxGenerations /\ generations + 1 \in 0 .. MaxGenerations
      /\ generations + 1 # 0
  BY <1>1, <1>2, Now DEF Restore, Provision, RotationSizes
<1>4. row[p].edits \in 0 .. MaxEdits /\ row[p].edits \in Nat
  BY <1>1, <1>2, <1>3, Now DEF Row
<1>5. /\ stage' \in Dir /\ stage'.gen = generations + 1 /\ stage'.password = p
      /\ stage'.capsule = generations + 1 /\ stage'.edits = row[p].edits /\ stage'.knows = TRUE
      /\ generations' = generations + 1 /\ generations' \in 1 .. MaxGenerations
  BY <1>1, <1>2, <1>3, <1>4 DEF Restore, Provision, NewCapsule, Dir
<1>6. /\ job' \in JobType /\ job'.steps = SwitchSteps /\ job'.kind = "restore"
      /\ job'.old = root /\ job' # Idle /\ JobsShape'
  BY <1>1, <1>2, <1>3, <1>4, <1>5, Begins, Now DEF Restore
<1>7. /\ root' = root /\ aside' = aside /\ row' = row /\ files' = files /\ capsules' = capsules
      /\ browser' = browser /\ open' = open /\ lost' = lost /\ faults' = faults
      /\ losses' = losses
  BY <1>1, <1>2, <1>3, <1>4, <1>5, <1>6 DEF Restore, disk, user, history, counts
<1>8. edits' = row[p].edits
  BY <1>1, <1>2, <1>3, <1>4, <1>5, <1>6, <1>7 DEF Restore
<1>9. Copied'
  BY <1>1, <1>2, <1>3, <1>4, <1>5, <1>6, <1>7, <1>8 DEF Copied
<1>10. TypeOK'
  <2>1. /\ root' \in Dir /\ stage' \in Dir /\ aside' \subseteq Dir /\ row' \in [Password -> Row]
        /\ files' \subseteq File /\ capsules' \subseteq 1 .. MaxGenerations /\ browser' \in 0 .. MaxGenerations
        /\ open' \in BOOLEAN /\ lost' \in BOOLEAN /\ job' \in JobType
    BY <1>1, <1>2, <1>3, <1>4, <1>5, <1>6, <1>7, <1>8, <1>9, Now, Nothing
  <2>2. /\ edits' \in 0 .. MaxEdits /\ generations' \in 1 .. MaxGenerations
        /\ faults' \in 0 .. MaxFaults /\ losses' \in 0 .. MaxLosses
    BY <1>1, <1>2, <1>3, <1>4, <1>5, <1>6, <1>7, <1>8, <1>9, Now
  <2>3. QED
    BY <2>1, <2>2, TypedAfter
<1>11. (browser # 0)'
  BY <1>1, <1>2, <1>3, <1>4, <1>5, <1>6, <1>7, <1>8, <1>9, Now, Nothing, Differ DEF Real
<1>12. JobsShape'
  BY <1>1, <1>2, <1>3, <1>4, <1>5, <1>6, <1>7, <1>8, <1>9, Now, Nothing, Differ DEF JobsShape
<1>13. DirsAreReal'
  BY <1>1, <1>2, <1>3, <1>4, <1>5, <1>6, <1>7, <1>8, <1>9, Now, Nothing, Differ DEF DirsAreReal,
     Real
<1>14. PlacesAgree'
  BY <1>1, <1>2, <1>3, <1>4, <1>5, <1>6, <1>7, <1>8, <1>9, Now, Nothing, Differ DEF PlacesAgree,
     Before, After, Real, AtTheRelay
<1>15. RelayJob'
  BY <1>1, <1>2, <1>3, <1>4, <1>5, <1>6, <1>7, <1>8, <1>9, Now, Nothing, Differ DEF RelayJob,
     HasOwnRow, RelayHolds, AtTheRelay
<1>16. FilesOpen'
  BY <1>1, <1>2, <1>3, <1>4, <1>5, <1>6, <1>7, <1>8, <1>9, Now, Nothing, Differ DEF FilesOpen
<1>17. WrittenIsHeld'
  BY <1>1, <1>2, <1>3, <1>4, <1>5, <1>6, <1>7, <1>8, <1>9, Now, Nothing, Differ DEF WrittenIsHeld,
     Current
<1>18. KnowsItsBackup'
  BY <1>1, <1>2, <1>3, <1>4, <1>5, <1>6, <1>7, <1>8, <1>9, Now, Nothing, Differ DEF
     KnowsItsBackup, NoOlder
<1>19. OpenIsOpened'
  BY <1>1, <1>2, <1>3, <1>4, <1>5, <1>6, <1>7, <1>8, <1>9, Now, Nothing, Differ DEF OpenIsOpened,
     OpensAgain, RelayHolds, AtTheRelay
<1>20. StillThere'
  BY <1>1, <1>2, <1>3, <1>4, <1>5, <1>6, <1>7, <1>8, <1>9, Now, Nothing, Differ DEF StillThere,
     Aside, OpensAgain, RelayHolds, After
<1>21. QED
  BY <1>10, <1>11, <1>12, <1>13, <1>14, <1>15, <1>16, <1>17, <1>18, <1>19, <1>20 DEF RotationInv

LEMMA ImportStorageKeeps ==
  ASSUME RotationSizes, RotationInv, NEW f \in files, ImportStorage(f)
  PROVE  RotationInv'
<1>1. TypeOK /\ browser # 0 /\ JobsShape /\ DirsAreReal /\ PlacesAgree /\ RelayJob /\ FilesOpen
      /\ WrittenIsHeld /\ KnowsItsBackup /\ OpenIsOpened /\ StillThere
  BY DEF RotationInv
<1>2. job = Idle /\ job.steps = <<>> /\ job.kind = "none" /\ stage = NoDir /\ ~open
  BY <1>1, NoSteps DEF ImportStorage, Ready, PlacesAgree
<1>3. /\ generations + 1 \in 1 .. MaxGenerations /\ generations + 1 \in 0 .. MaxGenerations
      /\ generations + 1 # 0
  BY <1>1, <1>2, Now DEF ImportStorage, Provision, RotationSizes
<1>4. /\ f.password \in Password /\ f.capsule \in 1 .. MaxGenerations
      /\ f.edits \in 0 .. MaxEdits /\ f.edits \in Nat
  BY <1>1, <1>2, <1>3, Now DEF File
<1>5. f.capsule \in 0 .. MaxGenerations /\ f.capsule # 0
  BY <1>1, <1>2, <1>3, <1>4 DEF RotationSizes
<1>6. /\ stage' \in Dir /\ stage'.gen = generations + 1 /\ stage'.password = f.password
      /\ stage'.capsule = f.capsule /\ stage'.edits = f.edits /\ stage'.knows = FALSE
      /\ generations' = generations + 1 /\ generations' \in 1 .. MaxGenerations
  BY <1>1, <1>2, <1>3, <1>4, <1>5 DEF ImportStorage, Provision, Dir
<1>7. /\ job' \in JobType /\ job'.steps = SwitchSteps /\ job'.kind = "import" /\ job'.old = root
      /\ job' # Idle /\ JobsShape'
  BY <1>1, <1>2, <1>3, <1>4, <1>5, <1>6, Begins, Now DEF ImportStorage
<1>8. /\ root' = root /\ aside' = aside /\ row' = row /\ files' = files /\ capsules' = capsules
      /\ browser' = browser /\ open' = open /\ lost' = lost /\ faults' = faults
      /\ losses' = losses
  BY <1>1, <1>2, <1>3, <1>4, <1>5, <1>6, <1>7 DEF ImportStorage, disk, user, history, counts
<1>9. edits' = f.edits
  BY <1>1, <1>2, <1>3, <1>4, <1>5, <1>6, <1>7, <1>8 DEF ImportStorage
<1>10. Copied'
  BY <1>1, <1>2, <1>3, <1>4, <1>5, <1>6, <1>7, <1>8, <1>9 DEF Copied
<1>11. TypeOK'
  <2>1. /\ root' \in Dir /\ stage' \in Dir /\ aside' \subseteq Dir /\ row' \in [Password -> Row]
        /\ files' \subseteq File /\ capsules' \subseteq 1 .. MaxGenerations /\ browser' \in 0 .. MaxGenerations
        /\ open' \in BOOLEAN /\ lost' \in BOOLEAN /\ job' \in JobType
    BY <1>1, <1>2, <1>3, <1>4, <1>5, <1>6, <1>7, <1>8, <1>9, <1>10, Now, Nothing
  <2>2. /\ edits' \in 0 .. MaxEdits /\ generations' \in 1 .. MaxGenerations
        /\ faults' \in 0 .. MaxFaults /\ losses' \in 0 .. MaxLosses
    BY <1>1, <1>2, <1>3, <1>4, <1>5, <1>6, <1>7, <1>8, <1>9, <1>10, Now
  <2>3. QED
    BY <2>1, <2>2, TypedAfter
<1>12. (browser # 0)'
  BY <1>1, <1>2, <1>3, <1>4, <1>5, <1>6, <1>7, <1>8, <1>9, <1>10, Now, Nothing, Differ DEF Real
<1>13. JobsShape'
  BY <1>1, <1>2, <1>3, <1>4, <1>5, <1>6, <1>7, <1>8, <1>9, <1>10, Now, Nothing, Differ DEF
     JobsShape
<1>14. DirsAreReal'
  BY <1>1, <1>2, <1>3, <1>4, <1>5, <1>6, <1>7, <1>8, <1>9, <1>10, Now, Nothing, Differ DEF
     DirsAreReal, Real
<1>15. PlacesAgree'
  BY <1>1, <1>2, <1>3, <1>4, <1>5, <1>6, <1>7, <1>8, <1>9, <1>10, Now, Nothing, Differ DEF
     PlacesAgree, Before, After, Real, AtTheRelay
<1>16. RelayJob'
  BY <1>1, <1>2, <1>3, <1>4, <1>5, <1>6, <1>7, <1>8, <1>9, <1>10, Now, Nothing, Differ DEF
     RelayJob, HasOwnRow, RelayHolds, AtTheRelay
<1>17. FilesOpen'
  BY <1>1, <1>2, <1>3, <1>4, <1>5, <1>6, <1>7, <1>8, <1>9, <1>10, Now, Nothing, Differ DEF
     FilesOpen
<1>18. WrittenIsHeld'
  BY <1>1, <1>2, <1>3, <1>4, <1>5, <1>6, <1>7, <1>8, <1>9, <1>10, Now, Nothing, Differ DEF
     WrittenIsHeld, Current
<1>19. KnowsItsBackup'
  BY <1>1, <1>2, <1>3, <1>4, <1>5, <1>6, <1>7, <1>8, <1>9, <1>10, Now, Nothing, Differ DEF
     KnowsItsBackup, NoOlder
<1>20. OpenIsOpened'
  BY <1>1, <1>2, <1>3, <1>4, <1>5, <1>6, <1>7, <1>8, <1>9, <1>10, Now, Nothing, Differ DEF
     OpenIsOpened, OpensAgain, RelayHolds, AtTheRelay
<1>21. StillThere'
  BY <1>1, <1>2, <1>3, <1>4, <1>5, <1>6, <1>7, <1>8, <1>9, <1>10, Now, Nothing, Differ DEF
     StillThere, Aside, OpensAgain, RelayHolds, After
<1>22. QED
  BY <1>11, <1>12, <1>13, <1>14, <1>15, <1>16, <1>17, <1>18, <1>19, <1>20, <1>21 DEF RotationInv

LEMMA SyncOldKeeps ==
  ASSUME RotationSizes, RotationInv, SyncOld
  PROVE  RotationInv'
<1>1. TypeOK /\ browser # 0 /\ JobsShape /\ DirsAreReal /\ PlacesAgree /\ RelayJob /\ FilesOpen
      /\ WrittenIsHeld /\ KnowsItsBackup /\ OpenIsOpened /\ StillThere
  BY DEF RotationInv
<1>2. At("sync") /\ job.steps = RotationSteps /\ job # Idle /\ Accepted
  BY <1>1, Phases, Differ DEF SyncOld, At
<1>3. /\ Real(root) /\ Real(stage) /\ root # NoDir /\ stage # NoDir /\ job.old = root /\ open
      /\ root.password \in Password /\ stage.password \in Password
      /\ [gen |-> root.gen, edits |-> root.edits] \in Row
      /\ [gen |-> stage.gen, edits |-> stage.edits] \in Row /\ RelayHolds(root)
      /\ RelayHolds(stage) /\ stage.password # root.password /\ stage.edits = root.edits
      /\ job.kind = "change"
  BY <1>1, <1>2, Now, Nothing, OwnRows, Phases DEF PlacesAgree, Before, RelayJob, AtTheRelay, Real
<1>4. row' = [row EXCEPT ![root.password] = [gen |-> root.gen, edits |-> root.edits]]
  BY <1>1, <1>2, <1>3 DEF SyncOld, Backed
<1>5. /\ row' \in [Password -> Row]
      /\ row'[root.password] = [gen |-> root.gen, edits |-> root.edits]
      /\ \A q \in Password : q # root.password => row'[q] = row[q]
  BY <1>1, <1>2, <1>3, <1>4, Now, Rows
<1>6. /\ row'[root.password].gen = root.gen /\ row'[root.password].edits = root.edits
      /\ row'[root.password] # NoRow
  BY <1>1, <1>2, <1>3, <1>4, <1>5, OwnRows, Nothing DEF Real
<1>7. /\ job' \in JobType /\ job'.kind = job.kind /\ job'.old = job.old /\ job'.steps = ToPut
      /\ job' # Idle /\ JobsShape'
  BY <1>1, <1>2, <1>3, <1>4, <1>5, <1>6, Steps, Now, Differ DEF SyncOld
<1>8. /\ root' = root /\ stage' = stage /\ aside' = aside /\ files' = files
      /\ capsules' = capsules /\ browser' = browser /\ open' = open /\ lost' = lost
      /\ edits' = edits /\ generations' = generations /\ faults' = faults /\ losses' = losses
  BY <1>1, <1>2, <1>3, <1>4, <1>5, <1>6, <1>7 DEF SyncOld, disk, user, history, counts
<1>9. row[root.password] # NoRow => row[root.password].edits <= root.edits
  BY <1>1, <1>2, <1>3, <1>4, <1>5, <1>6, <1>7, <1>8, Now DEF Accepted, KnowsItsBackup, NoOlder
<1>10. /\ \A p \in Password : row[p] # NoRow => row'[p] # NoRow /\ row'[p].edits \in Nat /\ row'[p].edits >= row[p].edits
  BY <1>1, <1>2, <1>3, <1>4, <1>5, <1>6, <1>7, <1>8, <1>9, Now
<1>11. Copied => Copied'
  BY <1>1, <1>2, <1>3, <1>4, <1>5, <1>6, <1>7, <1>8, <1>9, <1>10, CopiedGrows
<1>12. TypeOK'
  <2>1. /\ root' \in Dir /\ stage' \in Dir /\ aside' \subseteq Dir /\ row' \in [Password -> Row]
        /\ files' \subseteq File /\ capsules' \subseteq 1 .. MaxGenerations /\ browser' \in 0 .. MaxGenerations
        /\ open' \in BOOLEAN /\ lost' \in BOOLEAN /\ job' \in JobType
    BY <1>1, <1>2, <1>3, <1>4, <1>5, <1>6, <1>7, <1>8, <1>9, <1>10, <1>11, Now, Nothing
  <2>2. /\ edits' \in 0 .. MaxEdits /\ generations' \in 1 .. MaxGenerations
        /\ faults' \in 0 .. MaxFaults /\ losses' \in 0 .. MaxLosses
    BY <1>1, <1>2, <1>3, <1>4, <1>5, <1>6, <1>7, <1>8, <1>9, <1>10, <1>11, Now
  <2>3. QED
    BY <2>1, <2>2, TypedAfter
<1>13. (browser # 0)'
  BY <1>1, <1>2, <1>3, <1>4, <1>5, <1>6, <1>7, <1>8, <1>9, <1>10, <1>11, Now, Nothing, Differ DEF
     Real
<1>14. JobsShape'
  BY <1>1, <1>2, <1>3, <1>4, <1>5, <1>6, <1>7, <1>8, <1>9, <1>10, <1>11, Now, Nothing, Differ DEF
     JobsShape
<1>15. DirsAreReal'
  BY <1>1, <1>2, <1>3, <1>4, <1>5, <1>6, <1>7, <1>8, <1>9, <1>10, <1>11, Now, Nothing, Differ DEF
     DirsAreReal, Real
<1>16. PlacesAgree'
  BY <1>1, <1>2, <1>3, <1>4, <1>5, <1>6, <1>7, <1>8, <1>9, <1>10, <1>11, Now, Nothing, Differ DEF
     PlacesAgree, Before, After, Real, AtTheRelay
<1>17. RelayJob'
  BY <1>1, <1>2, <1>3, <1>4, <1>5, <1>6, <1>7, <1>8, <1>9, <1>10, <1>11, Now, Nothing, Differ DEF
     RelayJob, HasOwnRow, RelayHolds, AtTheRelay
<1>18. FilesOpen'
  BY <1>1, <1>2, <1>3, <1>4, <1>5, <1>6, <1>7, <1>8, <1>9, <1>10, <1>11, Now, Nothing, Differ DEF
     FilesOpen
<1>19. WrittenIsHeld'
  BY <1>1, <1>2, <1>3, <1>4, <1>5, <1>6, <1>7, <1>8, <1>9, <1>10, <1>11, Now, Nothing, Differ DEF
     WrittenIsHeld, Current
<1>20. KnowsItsBackup'
  BY <1>1, <1>2, <1>3, <1>4, <1>5, <1>6, <1>7, <1>8, <1>9, <1>10, <1>11, Now, Nothing, Differ DEF
     KnowsItsBackup, NoOlder
<1>21. OpenIsOpened'
  BY <1>1, <1>2, <1>3, <1>4, <1>5, <1>6, <1>7, <1>8, <1>9, <1>10, <1>11, Now, Nothing, Differ DEF
     OpenIsOpened, OpensAgain, RelayHolds, AtTheRelay
<1>22. StillThere'
  BY <1>1, <1>2, <1>3, <1>4, <1>5, <1>6, <1>7, <1>8, <1>9, <1>10, <1>11, Now, Nothing, Differ DEF
     StillThere, Aside, OpensAgain, RelayHolds, After
<1>23. QED
  BY <1>12, <1>13, <1>14, <1>15, <1>16, <1>17, <1>18, <1>19, <1>20, <1>21, <1>22 DEF RotationInv

LEMMA PutNewKeeps ==
  ASSUME RotationSizes, RotationInv, PutNew
  PROVE  RotationInv'
<1>1. TypeOK /\ browser # 0 /\ JobsShape /\ DirsAreReal /\ PlacesAgree /\ RelayJob /\ FilesOpen
      /\ WrittenIsHeld /\ KnowsItsBackup /\ OpenIsOpened /\ StillThere
  BY DEF RotationInv
<1>2. At("put") /\ job.steps = ToPut /\ job # Idle
  BY <1>1, Phases, Differ DEF PutNew, At
<1>3. /\ Real(root) /\ Real(stage) /\ root # NoDir /\ stage # NoDir /\ job.old = root /\ open
      /\ root.password \in Password /\ stage.password \in Password
      /\ [gen |-> root.gen, edits |-> root.edits] \in Row
      /\ [gen |-> stage.gen, edits |-> stage.edits] \in Row /\ RelayHolds(root)
      /\ RelayHolds(stage) /\ stage.password # root.password /\ stage.edits = root.edits
      /\ job.kind = "change"
  BY <1>1, <1>2, Now, Nothing, OwnRows, Phases DEF PlacesAgree, Before, RelayJob, AtTheRelay, Real
<1>4. row' = [row EXCEPT ![stage.password] = [gen |-> stage.gen, edits |-> stage.edits]]
  BY <1>1, <1>2, <1>3 DEF PutNew, NewRow
<1>5. /\ row' \in [Password -> Row]
      /\ row'[stage.password] = [gen |-> stage.gen, edits |-> stage.edits]
      /\ \A q \in Password : q # stage.password => row'[q] = row[q]
  BY <1>1, <1>2, <1>3, <1>4, Now, Rows
<1>6. /\ row'[stage.password].gen = stage.gen /\ row'[stage.password].edits = stage.edits
      /\ row'[stage.password] # NoRow
  BY <1>1, <1>2, <1>3, <1>4, <1>5, OwnRows, Nothing DEF Real
<1>7. /\ stage' \in Dir /\ stage'.gen = stage.gen /\ stage'.password = stage.password
      /\ stage'.capsule = stage.capsule /\ stage'.edits = stage.edits /\ stage'.knows = TRUE
  BY <1>1, <1>2, <1>3, <1>4, <1>5, <1>6, Now DEF PutNew, Dir
<1>8. /\ job' \in JobType /\ job'.kind = job.kind /\ job'.old = job.old /\ job'.steps = ToDelete
      /\ job' # Idle /\ JobsShape'
  BY <1>1, <1>2, <1>3, <1>4, <1>5, <1>6, <1>7, Steps, Now, Differ DEF PutNew
<1>9. /\ root' = root /\ aside' = aside /\ files' = files /\ capsules' = capsules
      /\ browser' = browser /\ open' = open /\ lost' = lost /\ edits' = edits
      /\ generations' = generations /\ faults' = faults /\ losses' = losses
  BY <1>1, <1>2, <1>3, <1>4, <1>5, <1>6, <1>7, <1>8 DEF PutNew, disk, user, history, counts
<1>10. row[stage.password] = NoRow /\ HasOwnRow(root)
  BY <1>1, <1>2, <1>3, <1>4, <1>5, <1>6, <1>7, <1>8, <1>9 DEF RelayJob
<1>11. /\ \A p \in Password : row[p] # NoRow => row'[p] # NoRow /\ row'[p].edits \in Nat /\ row'[p].edits >= row[p].edits
  BY <1>1, <1>2, <1>3, <1>4, <1>5, <1>6, <1>7, <1>8, <1>9, <1>10, Now, Nothing
<1>12. Copied => Copied'
  BY <1>1, <1>2, <1>3, <1>4, <1>5, <1>6, <1>7, <1>8, <1>9, <1>10, <1>11, CopiedGrows
<1>13. TypeOK'
  <2>1. /\ root' \in Dir /\ stage' \in Dir /\ aside' \subseteq Dir /\ row' \in [Password -> Row]
        /\ files' \subseteq File /\ capsules' \subseteq 1 .. MaxGenerations /\ browser' \in 0 .. MaxGenerations
        /\ open' \in BOOLEAN /\ lost' \in BOOLEAN /\ job' \in JobType
    BY <1>1, <1>2, <1>3, <1>4, <1>5, <1>6, <1>7, <1>8, <1>9, <1>10, <1>11, <1>12, Now, Nothing
  <2>2. /\ edits' \in 0 .. MaxEdits /\ generations' \in 1 .. MaxGenerations
        /\ faults' \in 0 .. MaxFaults /\ losses' \in 0 .. MaxLosses
    BY <1>1, <1>2, <1>3, <1>4, <1>5, <1>6, <1>7, <1>8, <1>9, <1>10, <1>11, <1>12, Now
  <2>3. QED
    BY <2>1, <2>2, TypedAfter
<1>14. (browser # 0)'
  BY <1>1, <1>2, <1>3, <1>4, <1>5, <1>6, <1>7, <1>8, <1>9, <1>10, <1>11, <1>12, Now, Nothing,
     Differ DEF Real
<1>15. JobsShape'
  BY <1>1, <1>2, <1>3, <1>4, <1>5, <1>6, <1>7, <1>8, <1>9, <1>10, <1>11, <1>12, Now, Nothing,
     Differ DEF JobsShape
<1>16. DirsAreReal'
  BY <1>1, <1>2, <1>3, <1>4, <1>5, <1>6, <1>7, <1>8, <1>9, <1>10, <1>11, <1>12, Now, Nothing,
     Differ DEF DirsAreReal, Real
<1>17. PlacesAgree'
  BY <1>1, <1>2, <1>3, <1>4, <1>5, <1>6, <1>7, <1>8, <1>9, <1>10, <1>11, <1>12, Now, Nothing,
     Differ DEF PlacesAgree, Before, After, Real, AtTheRelay
<1>18. RelayJob'
  BY <1>1, <1>2, <1>3, <1>4, <1>5, <1>6, <1>7, <1>8, <1>9, <1>10, <1>11, <1>12, Now, Nothing,
     Differ DEF RelayJob, HasOwnRow, RelayHolds, AtTheRelay
<1>19. FilesOpen'
  BY <1>1, <1>2, <1>3, <1>4, <1>5, <1>6, <1>7, <1>8, <1>9, <1>10, <1>11, <1>12, Now, Nothing,
     Differ DEF FilesOpen
<1>20. WrittenIsHeld'
  BY <1>1, <1>2, <1>3, <1>4, <1>5, <1>6, <1>7, <1>8, <1>9, <1>10, <1>11, <1>12, Now, Nothing,
     Differ DEF WrittenIsHeld, Current
<1>21. KnowsItsBackup'
  BY <1>1, <1>2, <1>3, <1>4, <1>5, <1>6, <1>7, <1>8, <1>9, <1>10, <1>11, <1>12, Now, Nothing,
     Differ DEF KnowsItsBackup, NoOlder
<1>22. OpenIsOpened'
  BY <1>1, <1>2, <1>3, <1>4, <1>5, <1>6, <1>7, <1>8, <1>9, <1>10, <1>11, <1>12, Now, Nothing,
     Differ DEF OpenIsOpened, OpensAgain, RelayHolds, AtTheRelay
<1>23. StillThere'
  BY <1>1, <1>2, <1>3, <1>4, <1>5, <1>6, <1>7, <1>8, <1>9, <1>10, <1>11, <1>12, Now, Nothing,
     Differ DEF StillThere, Aside, OpensAgain, RelayHolds, After
<1>24. QED
  BY <1>13, <1>14, <1>15, <1>16, <1>17, <1>18, <1>19, <1>20, <1>21, <1>22, <1>23 DEF RotationInv

LEMMA DeleteOldKeeps ==
  ASSUME RotationSizes, RotationInv, DeleteOld
  PROVE  RotationInv'
<1>1. TypeOK /\ browser # 0 /\ JobsShape /\ DirsAreReal /\ PlacesAgree /\ RelayJob /\ FilesOpen
      /\ WrittenIsHeld /\ KnowsItsBackup /\ OpenIsOpened /\ StillThere
  BY DEF RotationInv
<1>2. At("delete") /\ job.steps = ToDelete /\ job # Idle
  BY <1>1, Phases, Differ DEF DeleteOld, At
<1>3. /\ Real(root) /\ Real(stage) /\ root # NoDir /\ stage # NoDir /\ job.old = root /\ open
      /\ root.password \in Password /\ stage.password \in Password
      /\ [gen |-> root.gen, edits |-> root.edits] \in Row
      /\ [gen |-> stage.gen, edits |-> stage.edits] \in Row /\ RelayHolds(root)
      /\ RelayHolds(stage) /\ stage.password # root.password /\ stage.edits = root.edits
      /\ job.kind = "change"
  BY <1>1, <1>2, Now, Nothing, OwnRows, Phases DEF PlacesAgree, Before, RelayJob, AtTheRelay, Real
<1>4. row' = [row EXCEPT ![root.password] = NoRow]
  BY <1>1, <1>2, <1>3 DEF DeleteOld
<1>5. /\ row' \in [Password -> Row] /\ row'[root.password] = NoRow
      /\ \A q \in Password : q # root.password => row'[q] = row[q]
  BY <1>1, <1>2, <1>3, <1>4, Now, Nothing, Rows
<1>6. /\ job' \in JobType /\ job'.kind = job.kind /\ job'.old = job.old
      /\ job'.steps = SwitchSteps /\ job' # Idle /\ JobsShape'
  BY <1>1, <1>2, <1>3, <1>4, <1>5, Steps, Now, Differ DEF DeleteOld
<1>7. /\ root' = root /\ stage' = stage /\ aside' = aside /\ files' = files
      /\ capsules' = capsules /\ browser' = browser /\ open' = open /\ lost' = lost
      /\ edits' = edits /\ generations' = generations /\ faults' = faults /\ losses' = losses
  BY <1>1, <1>2, <1>3, <1>4, <1>5, <1>6 DEF DeleteOld, disk, user, history, counts
<1>8. /\ HasOwnRow(root) /\ HasOwnRow(stage) /\ row'[stage.password] = row[stage.password]
      /\ row[root.password].edits = root.edits /\ row[stage.password].edits = root.edits
      /\ row[stage.password] # NoRow
  BY <1>1, <1>2, <1>3, <1>4, <1>5, <1>6, <1>7, OwnRows DEF RelayJob, HasOwnRow, Real
<1>9. Copied => Copied'
  <2> SUFFICES ASSUME Copied PROVE Copied'
    OBVIOUS
  <2>1. CASE \E f \in files : f.edits >= edits
    BY <2>1, <1>1, <1>2, <1>3, <1>4, <1>5, <1>6, <1>7, <1>8, Now DEF Copied
  <2>2. CASE \E p \in Password : row[p] # NoRow /\ row[p].edits >= edits
    <3>1. PICK p \in Password : row[p] # NoRow /\ row[p].edits >= edits
      BY <2>2
    <3>2. \E q \in Password : row'[q] # NoRow /\ row'[q].edits >= edits
      BY <3>1, <1>1, <1>2, <1>3, <1>4, <1>5, <1>6, <1>7, <1>8, Now
    <3>3. QED
      BY <3>2, <1>1, <1>2, <1>3, <1>4, <1>5, <1>6, <1>7, <1>8, Now DEF Copied
  <2>3. QED
    BY <2>1, <2>2 DEF Copied
<1>10. TypeOK'
  <2>1. /\ root' \in Dir /\ stage' \in Dir /\ aside' \subseteq Dir /\ row' \in [Password -> Row]
        /\ files' \subseteq File /\ capsules' \subseteq 1 .. MaxGenerations /\ browser' \in 0 .. MaxGenerations
        /\ open' \in BOOLEAN /\ lost' \in BOOLEAN /\ job' \in JobType
    BY <1>1, <1>2, <1>3, <1>4, <1>5, <1>6, <1>7, <1>8, <1>9, Now, Nothing
  <2>2. /\ edits' \in 0 .. MaxEdits /\ generations' \in 1 .. MaxGenerations
        /\ faults' \in 0 .. MaxFaults /\ losses' \in 0 .. MaxLosses
    BY <1>1, <1>2, <1>3, <1>4, <1>5, <1>6, <1>7, <1>8, <1>9, Now
  <2>3. QED
    BY <2>1, <2>2, TypedAfter
<1>11. (browser # 0)'
  BY <1>1, <1>2, <1>3, <1>4, <1>5, <1>6, <1>7, <1>8, <1>9, Now, Nothing, Differ DEF Real
<1>12. JobsShape'
  BY <1>1, <1>2, <1>3, <1>4, <1>5, <1>6, <1>7, <1>8, <1>9, Now, Nothing, Differ DEF JobsShape
<1>13. DirsAreReal'
  BY <1>1, <1>2, <1>3, <1>4, <1>5, <1>6, <1>7, <1>8, <1>9, Now, Nothing, Differ DEF DirsAreReal,
     Real
<1>14. PlacesAgree'
  BY <1>1, <1>2, <1>3, <1>4, <1>5, <1>6, <1>7, <1>8, <1>9, Now, Nothing, Differ DEF PlacesAgree,
     Before, After, Real, AtTheRelay
<1>15. RelayJob'
  BY <1>1, <1>2, <1>3, <1>4, <1>5, <1>6, <1>7, <1>8, <1>9, Now, Nothing, Differ DEF RelayJob,
     HasOwnRow, RelayHolds, AtTheRelay
<1>16. FilesOpen'
  BY <1>1, <1>2, <1>3, <1>4, <1>5, <1>6, <1>7, <1>8, <1>9, Now, Nothing, Differ DEF FilesOpen
<1>17. WrittenIsHeld'
  BY <1>1, <1>2, <1>3, <1>4, <1>5, <1>6, <1>7, <1>8, <1>9, Now, Nothing, Differ DEF WrittenIsHeld,
     Current
<1>18. KnowsItsBackup'
  BY <1>1, <1>2, <1>3, <1>4, <1>5, <1>6, <1>7, <1>8, <1>9, Now, Nothing, Differ DEF
     KnowsItsBackup, NoOlder
<1>19. OpenIsOpened'
  BY <1>1, <1>2, <1>3, <1>4, <1>5, <1>6, <1>7, <1>8, <1>9, Now, Nothing, Differ DEF OpenIsOpened,
     OpensAgain, RelayHolds, AtTheRelay
<1>20. StillThere'
  BY <1>1, <1>2, <1>3, <1>4, <1>5, <1>6, <1>7, <1>8, <1>9, Now, Nothing, Differ DEF StillThere,
     Aside, OpensAgain, RelayHolds, After
<1>21. QED
  BY <1>10, <1>11, <1>12, <1>13, <1>14, <1>15, <1>16, <1>17, <1>18, <1>19, <1>20 DEF RotationInv

LEMMA MoveAsideKeeps ==
  ASSUME RotationSizes, RotationInv, MoveAside
  PROVE  RotationInv'
<1>1. TypeOK /\ browser # 0 /\ JobsShape /\ DirsAreReal /\ PlacesAgree /\ RelayJob /\ FilesOpen
      /\ WrittenIsHeld /\ KnowsItsBackup /\ OpenIsOpened /\ StillThere
  BY DEF RotationInv
<1>2. At("aside") /\ job.steps = SwitchSteps /\ job # Idle /\ job.steps # Last
  BY <1>1, Phases, Differ DEF MoveAside, At
<1>3. Real(stage) /\ stage # NoDir /\ root \in Dir /\ (root # NoDir => root \in aside')
  BY <1>1, <1>2, Now, Nothing DEF PlacesAgree, Before, Real, MoveAside, Kept
<1>4. root' = NoDir /\ open' = FALSE /\ aside' \subseteq Dir /\ aside \subseteq aside'
  BY <1>1, <1>2, <1>3, Now DEF MoveAside, Kept
<1>5. /\ job' \in JobType /\ job'.kind = job.kind /\ job'.old = job.old /\ job'.steps = ToSwitch
      /\ job' # Idle /\ JobsShape'
  BY <1>1, <1>2, <1>3, <1>4, Steps, Now, Differ DEF MoveAside
<1>6. /\ stage' = stage /\ row' = row /\ files' = files /\ capsules' = capsules
      /\ browser' = browser /\ lost' = lost /\ edits' = edits /\ generations' = generations
      /\ faults' = faults /\ losses' = losses
  BY <1>1, <1>2, <1>3, <1>4, <1>5 DEF MoveAside, disk, user, history, counts
<1>7. lost \/ Copied \/ Aside \/ (root.edits >= edits /\ OpensAgain(root))
  BY <1>1, <1>2, <1>3, <1>4, <1>5, <1>6, Safe, Differ
<1>8. Copied' = Copied /\ (Aside => Aside')
  BY <1>1, <1>2, <1>3, <1>4, <1>5, <1>6, <1>7 DEF Copied, Aside, OpensAgain
<1>9. root = NoDir => ~OpensAgain(root)
  BY <1>1, <1>2, <1>3, <1>4, <1>5, <1>6, <1>7, <1>8, Nothing DEF OpensAgain
<1>10. root # NoDir /\ root.edits >= edits /\ OpensAgain(root) => Aside'
  BY <1>1, <1>2, <1>3, <1>4, <1>5, <1>6, <1>7, <1>8, <1>9 DEF Aside, OpensAgain
<1>11. TypeOK'
  <2>1. /\ root' \in Dir /\ stage' \in Dir /\ aside' \subseteq Dir /\ row' \in [Password -> Row]
        /\ files' \subseteq File /\ capsules' \subseteq 1 .. MaxGenerations /\ browser' \in 0 .. MaxGenerations
        /\ open' \in BOOLEAN /\ lost' \in BOOLEAN /\ job' \in JobType
    BY <1>1, <1>2, <1>3, <1>4, <1>5, <1>6, <1>7, <1>8, <1>9, <1>10, Now, Nothing
  <2>2. /\ edits' \in 0 .. MaxEdits /\ generations' \in 1 .. MaxGenerations
        /\ faults' \in 0 .. MaxFaults /\ losses' \in 0 .. MaxLosses
    BY <1>1, <1>2, <1>3, <1>4, <1>5, <1>6, <1>7, <1>8, <1>9, <1>10, Now
  <2>3. QED
    BY <2>1, <2>2, TypedAfter
<1>12. (browser # 0)'
  BY <1>1, <1>2, <1>3, <1>4, <1>5, <1>6, <1>7, <1>8, <1>9, <1>10, Now, Nothing, Differ DEF Real
<1>13. JobsShape'
  BY <1>1, <1>2, <1>3, <1>4, <1>5, <1>6, <1>7, <1>8, <1>9, <1>10, Now, Nothing, Differ DEF
     JobsShape
<1>14. DirsAreReal'
  BY <1>1, <1>2, <1>3, <1>4, <1>5, <1>6, <1>7, <1>8, <1>9, <1>10, Now, Nothing, Differ DEF
     DirsAreReal, Real
<1>15. PlacesAgree'
  BY <1>1, <1>2, <1>3, <1>4, <1>5, <1>6, <1>7, <1>8, <1>9, <1>10, Now, Nothing, Differ DEF
     PlacesAgree, Before, After, Real, AtTheRelay
<1>16. RelayJob'
  BY <1>1, <1>2, <1>3, <1>4, <1>5, <1>6, <1>7, <1>8, <1>9, <1>10, Now, Nothing, Differ DEF
     RelayJob, HasOwnRow, RelayHolds, AtTheRelay
<1>17. FilesOpen'
  BY <1>1, <1>2, <1>3, <1>4, <1>5, <1>6, <1>7, <1>8, <1>9, <1>10, Now, Nothing, Differ DEF
     FilesOpen
<1>18. WrittenIsHeld'
  BY <1>1, <1>2, <1>3, <1>4, <1>5, <1>6, <1>7, <1>8, <1>9, <1>10, Now, Nothing, Differ DEF
     WrittenIsHeld, Current
<1>19. KnowsItsBackup'
  BY <1>1, <1>2, <1>3, <1>4, <1>5, <1>6, <1>7, <1>8, <1>9, <1>10, Now, Nothing, Differ DEF
     KnowsItsBackup, NoOlder
<1>20. OpenIsOpened'
  BY <1>1, <1>2, <1>3, <1>4, <1>5, <1>6, <1>7, <1>8, <1>9, <1>10, Now, Nothing, Differ DEF
     OpenIsOpened, OpensAgain, RelayHolds, AtTheRelay
<1>21. StillThere'
  BY <1>1, <1>2, <1>3, <1>4, <1>5, <1>6, <1>7, <1>8, <1>9, <1>10, Now, Nothing, Differ DEF
     StillThere, Aside, OpensAgain, RelayHolds, After
<1>22. QED
  BY <1>11, <1>12, <1>13, <1>14, <1>15, <1>16, <1>17, <1>18, <1>19, <1>20, <1>21 DEF RotationInv

LEMMA SwitchKeeps ==
  ASSUME RotationSizes, RotationInv, Switch
  PROVE  RotationInv'
<1>1. TypeOK /\ browser # 0 /\ JobsShape /\ DirsAreReal /\ PlacesAgree /\ RelayJob /\ FilesOpen
      /\ WrittenIsHeld /\ KnowsItsBackup /\ OpenIsOpened /\ StillThere
  BY DEF RotationInv
<1>2. At("switch") /\ job.steps = ToSwitch /\ job # Idle
  BY <1>1, Phases, Differ DEF Switch, At
<1>3. root = NoDir /\ Real(stage) /\ stage # NoDir /\ ~open
  BY <1>1, <1>2, Nothing DEF PlacesAgree, Real
<1>4. root' = stage /\ stage' = NoDir
  BY <1>1, <1>2, <1>3 DEF Switch
<1>5. /\ job' \in JobType /\ job'.kind = job.kind /\ job'.old = job.old /\ job'.steps = ToUnlock
      /\ job' # Idle /\ JobsShape'
  BY <1>1, <1>2, <1>3, <1>4, Steps, Now, Differ DEF Switch
<1>6. /\ aside' = aside /\ row' = row /\ files' = files /\ capsules' = capsules
      /\ browser' = browser /\ open' = open /\ lost' = lost /\ edits' = edits
      /\ generations' = generations /\ faults' = faults /\ losses' = losses
  BY <1>1, <1>2, <1>3, <1>4, <1>5 DEF Switch, disk, user, history, counts
<1>7. lost \/ Copied \/ Aside
  BY <1>1, <1>2, <1>3, <1>4, <1>5, <1>6, Differ DEF StillThere, After
<1>8. Copied' = Copied /\ Aside' = Aside
  BY <1>1, <1>2, <1>3, <1>4, <1>5, <1>6, <1>7 DEF Copied, Aside, OpensAgain
<1>9. TypeOK'
  <2>1. /\ root' \in Dir /\ stage' \in Dir /\ aside' \subseteq Dir /\ row' \in [Password -> Row]
        /\ files' \subseteq File /\ capsules' \subseteq 1 .. MaxGenerations /\ browser' \in 0 .. MaxGenerations
        /\ open' \in BOOLEAN /\ lost' \in BOOLEAN /\ job' \in JobType
    BY <1>1, <1>2, <1>3, <1>4, <1>5, <1>6, <1>7, <1>8, Now, Nothing
  <2>2. /\ edits' \in 0 .. MaxEdits /\ generations' \in 1 .. MaxGenerations
        /\ faults' \in 0 .. MaxFaults /\ losses' \in 0 .. MaxLosses
    BY <1>1, <1>2, <1>3, <1>4, <1>5, <1>6, <1>7, <1>8, Now
  <2>3. QED
    BY <2>1, <2>2, TypedAfter
<1>10. (browser # 0)'
  BY <1>1, <1>2, <1>3, <1>4, <1>5, <1>6, <1>7, <1>8, Now, Nothing, Differ DEF Real
<1>11. JobsShape'
  BY <1>1, <1>2, <1>3, <1>4, <1>5, <1>6, <1>7, <1>8, Now, Nothing, Differ DEF JobsShape
<1>12. DirsAreReal'
  BY <1>1, <1>2, <1>3, <1>4, <1>5, <1>6, <1>7, <1>8, Now, Nothing, Differ DEF DirsAreReal, Real
<1>13. PlacesAgree'
  BY <1>1, <1>2, <1>3, <1>4, <1>5, <1>6, <1>7, <1>8, Now, Nothing, Differ DEF PlacesAgree, Before,
     After, Real, AtTheRelay
<1>14. RelayJob'
  BY <1>1, <1>2, <1>3, <1>4, <1>5, <1>6, <1>7, <1>8, Now, Nothing, Differ DEF RelayJob, HasOwnRow,
     RelayHolds, AtTheRelay
<1>15. FilesOpen'
  BY <1>1, <1>2, <1>3, <1>4, <1>5, <1>6, <1>7, <1>8, Now, Nothing, Differ DEF FilesOpen
<1>16. WrittenIsHeld'
  BY <1>1, <1>2, <1>3, <1>4, <1>5, <1>6, <1>7, <1>8, Now, Nothing, Differ DEF WrittenIsHeld,
     Current
<1>17. KnowsItsBackup'
  BY <1>1, <1>2, <1>3, <1>4, <1>5, <1>6, <1>7, <1>8, Now, Nothing, Differ DEF KnowsItsBackup,
     NoOlder
<1>18. OpenIsOpened'
  BY <1>1, <1>2, <1>3, <1>4, <1>5, <1>6, <1>7, <1>8, Now, Nothing, Differ DEF OpenIsOpened,
     OpensAgain, RelayHolds, AtTheRelay
<1>19. StillThere'
  BY <1>1, <1>2, <1>3, <1>4, <1>5, <1>6, <1>7, <1>8, Now, Nothing, Differ DEF StillThere, Aside,
     OpensAgain, RelayHolds, After
<1>20. QED
  BY <1>9, <1>10, <1>11, <1>12, <1>13, <1>14, <1>15, <1>16, <1>17, <1>18, <1>19 DEF RotationInv

LEMMA UnlockNewKeeps ==
  ASSUME RotationSizes, RotationInv, UnlockNew
  PROVE  RotationInv'
<1>1. TypeOK /\ browser # 0 /\ JobsShape /\ DirsAreReal /\ PlacesAgree /\ RelayJob /\ FilesOpen
      /\ WrittenIsHeld /\ KnowsItsBackup /\ OpenIsOpened /\ StillThere
  BY DEF RotationInv
<1>2. At("unlock") /\ job.steps = ToUnlock /\ job # Idle
  BY <1>1, Phases, Differ DEF UnlockNew, At
<1>3. Real(root) /\ root # NoDir /\ stage = NoDir /\ ~open
  BY <1>1, <1>2, Nothing DEF PlacesAgree, Real
<1>4. open' = TRUE
  BY <1>1, <1>2, <1>3 DEF UnlockNew
<1>5. /\ job' \in JobType /\ job'.kind = job.kind /\ job'.old = job.old /\ job'.steps = Last
      /\ job' # Idle /\ JobsShape'
  BY <1>1, <1>2, <1>3, <1>4, Steps, Now, Differ DEF UnlockNew
<1>6. /\ root' = root /\ stage' = stage /\ aside' = aside /\ row' = row /\ files' = files
      /\ capsules' = capsules /\ browser' = browser /\ lost' = lost /\ edits' = edits
      /\ generations' = generations /\ faults' = faults /\ losses' = losses
  BY <1>1, <1>2, <1>3, <1>4, <1>5 DEF UnlockNew, disk, user, history, counts
<1>7. lost \/ Copied \/ Aside
  BY <1>1, <1>2, <1>3, <1>4, <1>5, <1>6, Differ DEF StillThere, After
<1>8. Copied' = Copied /\ Aside' = Aside
  BY <1>1, <1>2, <1>3, <1>4, <1>5, <1>6, <1>7 DEF Copied, Aside, OpensAgain
<1>9. TypeOK'
  <2>1. /\ root' \in Dir /\ stage' \in Dir /\ aside' \subseteq Dir /\ row' \in [Password -> Row]
        /\ files' \subseteq File /\ capsules' \subseteq 1 .. MaxGenerations /\ browser' \in 0 .. MaxGenerations
        /\ open' \in BOOLEAN /\ lost' \in BOOLEAN /\ job' \in JobType
    BY <1>1, <1>2, <1>3, <1>4, <1>5, <1>6, <1>7, <1>8, Now, Nothing
  <2>2. /\ edits' \in 0 .. MaxEdits /\ generations' \in 1 .. MaxGenerations
        /\ faults' \in 0 .. MaxFaults /\ losses' \in 0 .. MaxLosses
    BY <1>1, <1>2, <1>3, <1>4, <1>5, <1>6, <1>7, <1>8, Now
  <2>3. QED
    BY <2>1, <2>2, TypedAfter
<1>10. (browser # 0)'
  BY <1>1, <1>2, <1>3, <1>4, <1>5, <1>6, <1>7, <1>8, Now, Nothing, Differ DEF Real
<1>11. JobsShape'
  BY <1>1, <1>2, <1>3, <1>4, <1>5, <1>6, <1>7, <1>8, Now, Nothing, Differ DEF JobsShape
<1>12. DirsAreReal'
  BY <1>1, <1>2, <1>3, <1>4, <1>5, <1>6, <1>7, <1>8, Now, Nothing, Differ DEF DirsAreReal, Real
<1>13. PlacesAgree'
  BY <1>1, <1>2, <1>3, <1>4, <1>5, <1>6, <1>7, <1>8, Now, Nothing, Differ DEF PlacesAgree, Before,
     After, Real, AtTheRelay
<1>14. RelayJob'
  BY <1>1, <1>2, <1>3, <1>4, <1>5, <1>6, <1>7, <1>8, Now, Nothing, Differ DEF RelayJob, HasOwnRow,
     RelayHolds, AtTheRelay
<1>15. FilesOpen'
  BY <1>1, <1>2, <1>3, <1>4, <1>5, <1>6, <1>7, <1>8, Now, Nothing, Differ DEF FilesOpen
<1>16. WrittenIsHeld'
  BY <1>1, <1>2, <1>3, <1>4, <1>5, <1>6, <1>7, <1>8, Now, Nothing, Differ DEF WrittenIsHeld,
     Current
<1>17. KnowsItsBackup'
  BY <1>1, <1>2, <1>3, <1>4, <1>5, <1>6, <1>7, <1>8, Now, Nothing, Differ DEF KnowsItsBackup,
     NoOlder
<1>18. OpenIsOpened'
  BY <1>1, <1>2, <1>3, <1>4, <1>5, <1>6, <1>7, <1>8, Now, Nothing, Differ DEF OpenIsOpened,
     OpensAgain, RelayHolds, AtTheRelay
<1>19. StillThere'
  BY <1>1, <1>2, <1>3, <1>4, <1>5, <1>6, <1>7, <1>8, Now, Nothing, Differ DEF StillThere, Aside,
     OpensAgain, RelayHolds, After
<1>20. QED
  BY <1>9, <1>10, <1>11, <1>12, <1>13, <1>14, <1>15, <1>16, <1>17, <1>18, <1>19 DEF RotationInv

LEMMA AnswerKeeps ==
  ASSUME RotationSizes, RotationInv, Answer
  PROVE  RotationInv'
<1>1. TypeOK /\ browser # 0 /\ JobsShape /\ DirsAreReal /\ PlacesAgree /\ RelayJob /\ FilesOpen
      /\ WrittenIsHeld /\ KnowsItsBackup /\ OpenIsOpened /\ StillThere
  BY DEF RotationInv
<1>2. At("answer") /\ job.steps = Last /\ job # Idle
  BY <1>1, Phases, Differ DEF Answer, At
<1>3. Real(root) /\ root # NoDir /\ stage = NoDir /\ open
  BY <1>1, <1>2, Nothing DEF PlacesAgree, Real
<1>4. browser' = root.gen /\ root.gen # 0 /\ root.gen \in 0 .. MaxGenerations /\ lost' = FALSE
  BY <1>1, <1>2, <1>3, Now DEF Answer, Real, Dir
<1>5. /\ job' = Idle /\ JobsShape' /\ job' \in JobType /\ job'.steps = <<>>
      /\ job'.kind = "none" /\ job'.old = NoDir
  BY <1>1, <1>2, <1>3, <1>4, Ends DEF Answer
<1>6. /\ root' = root /\ stage' = stage /\ aside' = aside /\ row' = row /\ files' = files
      /\ capsules' = capsules /\ open' = open /\ edits' = edits /\ generations' = generations
      /\ faults' = faults /\ losses' = losses
  BY <1>1, <1>2, <1>3, <1>4, <1>5 DEF Answer, disk, user, history, counts
<1>7. Copied' = Copied
  BY <1>1, <1>2, <1>3, <1>4, <1>5, <1>6 DEF Copied
<1>8. RelayHolds(root) => row[root.password].gen = root.gen
  BY <1>1, <1>2, <1>3, <1>4, <1>5, <1>6, <1>7, Now DEF RelayJob, HasOwnRow
<1>9. TypeOK'
  <2>1. /\ root' \in Dir /\ stage' \in Dir /\ aside' \subseteq Dir /\ row' \in [Password -> Row]
        /\ files' \subseteq File /\ capsules' \subseteq 1 .. MaxGenerations /\ browser' \in 0 .. MaxGenerations
        /\ open' \in BOOLEAN /\ lost' \in BOOLEAN /\ job' \in JobType
    BY <1>1, <1>2, <1>3, <1>4, <1>5, <1>6, <1>7, <1>8, Now, Nothing
  <2>2. /\ edits' \in 0 .. MaxEdits /\ generations' \in 1 .. MaxGenerations
        /\ faults' \in 0 .. MaxFaults /\ losses' \in 0 .. MaxLosses
    BY <1>1, <1>2, <1>3, <1>4, <1>5, <1>6, <1>7, <1>8, Now
  <2>3. QED
    BY <2>1, <2>2, TypedAfter
<1>10. (browser # 0)'
  BY <1>1, <1>2, <1>3, <1>4, <1>5, <1>6, <1>7, <1>8, Now, Nothing, Differ DEF Real
<1>11. JobsShape'
  BY <1>1, <1>2, <1>3, <1>4, <1>5, <1>6, <1>7, <1>8, Now, Nothing, Differ DEF JobsShape
<1>12. DirsAreReal'
  BY <1>1, <1>2, <1>3, <1>4, <1>5, <1>6, <1>7, <1>8, Now, Nothing, Differ DEF DirsAreReal, Real
<1>13. PlacesAgree'
  BY <1>1, <1>2, <1>3, <1>4, <1>5, <1>6, <1>7, <1>8, Now, Nothing, Differ DEF PlacesAgree, Before,
     After, Real, AtTheRelay
<1>14. RelayJob'
  BY <1>1, <1>2, <1>3, <1>4, <1>5, <1>6, <1>7, <1>8, Now, Nothing, Differ DEF RelayJob, HasOwnRow,
     RelayHolds, AtTheRelay
<1>15. FilesOpen'
  BY <1>1, <1>2, <1>3, <1>4, <1>5, <1>6, <1>7, <1>8, Now, Nothing, Differ DEF FilesOpen
<1>16. WrittenIsHeld'
  BY <1>1, <1>2, <1>3, <1>4, <1>5, <1>6, <1>7, <1>8, Now, Nothing, Differ DEF WrittenIsHeld,
     Current
<1>17. KnowsItsBackup'
  BY <1>1, <1>2, <1>3, <1>4, <1>5, <1>6, <1>7, <1>8, Now, Nothing, Differ DEF KnowsItsBackup,
     NoOlder
<1>18. OpenIsOpened'
  BY <1>1, <1>2, <1>3, <1>4, <1>5, <1>6, <1>7, <1>8, Now, Nothing, Differ DEF OpenIsOpened,
     OpensAgain, RelayHolds, AtTheRelay
<1>19. StillThere'
  BY <1>1, <1>2, <1>3, <1>4, <1>5, <1>6, <1>7, <1>8, Now, Nothing, Differ DEF StillThere, Aside,
     OpensAgain, RelayHolds, After
<1>20. QED
  BY <1>9, <1>10, <1>11, <1>12, <1>13, <1>14, <1>15, <1>16, <1>17, <1>18, <1>19 DEF RotationInv

LEMMA FailKeeps ==
  ASSUME RotationSizes, RotationInv, Fail
  PROVE  RotationInv'
<1>1. TypeOK /\ browser # 0 /\ JobsShape /\ DirsAreReal /\ PlacesAgree /\ RelayJob /\ FilesOpen
      /\ WrittenIsHeld /\ KnowsItsBackup /\ OpenIsOpened /\ StillThere
  BY DEF RotationInv
<1>2. /\ job # Idle /\ job.steps # Last /\ faults' \in 0 .. MaxFaults
      /\ (job.steps = ToUnlock => RelayHolds(root))
  BY <1>1, Phases, Faults DEF Fail
<1>3. /\ job' = Idle /\ JobsShape' /\ job' \in JobType /\ job'.steps = <<>>
      /\ job'.kind = "none" /\ job'.old = NoDir
  BY <1>1, <1>2, Ends DEF Fail
<1>4. /\ row' = row /\ files' = files /\ capsules' = capsules /\ browser' = browser
      /\ lost' = lost /\ edits' = edits /\ generations' = generations /\ losses' = losses
  BY <1>1, <1>2, <1>3 DEF Fail, disk, user, history, counts
<1>5. stage' = NoDir /\ open' = (open /\ job.steps # SwitchSteps)
  BY <1>1, <1>2, <1>3, <1>4, Phases DEF Fail
<1>6. open' \in BOOLEAN /\ (open' => open /\ job.steps \in AtTheRelay /\ Real(root))
  BY <1>1, <1>2, <1>3, <1>4, <1>5, Phases, Now DEF PlacesAgree, Before, After
<1>7. (root' = root /\ aside' = aside) \/ (job.steps = ToSwitch /\ job.kind = "import" /\ root' = job.old
         /\ Real(job.old) /\ aside' \subseteq aside)
  BY <1>1, <1>2, <1>3, <1>4, <1>5, <1>6, Phases, Nothing DEF Fail, DirsAreReal
<1>8. root' \in Dir /\ (root' = NoDir \/ Real(root')) /\ aside' \subseteq Dir
  BY <1>1, <1>2, <1>3, <1>4, <1>5, <1>6, <1>7, Now DEF DirsAreReal
<1>9. Copied' = Copied
  BY <1>1, <1>2, <1>3, <1>4, <1>5, <1>6, <1>7, <1>8 DEF Copied
<1>10. lost \/ Copied \/ Aside \/ (root.edits >= edits /\ OpensAgain(root))
  BY <1>1, <1>2, <1>3, <1>4, <1>5, <1>6, <1>7, <1>8, <1>9, Safe
<1>11. lost \/ Copied \/ (root' = root /\ aside' = aside)
  BY <1>1, <1>2, <1>3, <1>4, <1>5, <1>6, <1>7, <1>8, <1>9, <1>10 DEF WrittenIsHeld
<1>12. TypeOK'
  <2>1. /\ root' \in Dir /\ stage' \in Dir /\ aside' \subseteq Dir /\ row' \in [Password -> Row]
        /\ files' \subseteq File /\ capsules' \subseteq 1 .. MaxGenerations /\ browser' \in 0 .. MaxGenerations
        /\ open' \in BOOLEAN /\ lost' \in BOOLEAN /\ job' \in JobType
    BY <1>1, <1>2, <1>3, <1>4, <1>5, <1>6, <1>7, <1>8, <1>9, <1>10, <1>11, Now, Nothing
  <2>2. /\ edits' \in 0 .. MaxEdits /\ generations' \in 1 .. MaxGenerations
        /\ faults' \in 0 .. MaxFaults /\ losses' \in 0 .. MaxLosses
    BY <1>1, <1>2, <1>3, <1>4, <1>5, <1>6, <1>7, <1>8, <1>9, <1>10, <1>11, Now
  <2>3. QED
    BY <2>1, <2>2, TypedAfter
<1>13. (browser # 0)'
  BY <1>1, <1>2, <1>3, <1>4, <1>5, <1>6, <1>7, <1>8, <1>9, <1>10, <1>11, Now, Nothing, Differ DEF
     Real
<1>14. JobsShape'
  BY <1>1, <1>2, <1>3, <1>4, <1>5, <1>6, <1>7, <1>8, <1>9, <1>10, <1>11, Now, Nothing, Differ DEF
     JobsShape
<1>15. DirsAreReal'
  BY <1>1, <1>2, <1>3, <1>4, <1>5, <1>6, <1>7, <1>8, <1>9, <1>10, <1>11, Now, Nothing, Differ DEF
     DirsAreReal, Real
<1>16. PlacesAgree'
  BY <1>1, <1>2, <1>3, <1>4, <1>5, <1>6, <1>7, <1>8, <1>9, <1>10, <1>11, Now, Nothing, Differ DEF
     PlacesAgree, Before, After, Real, AtTheRelay
<1>17. RelayJob'
  BY <1>1, <1>2, <1>3, <1>4, <1>5, <1>6, <1>7, <1>8, <1>9, <1>10, <1>11, Now, Nothing, Differ DEF
     RelayJob, HasOwnRow, RelayHolds, AtTheRelay
<1>18. FilesOpen'
  BY <1>1, <1>2, <1>3, <1>4, <1>5, <1>6, <1>7, <1>8, <1>9, <1>10, <1>11, Now, Nothing, Differ DEF
     FilesOpen
<1>19. WrittenIsHeld'
  BY <1>1, <1>2, <1>3, <1>4, <1>5, <1>6, <1>7, <1>8, <1>9, <1>10, <1>11, Now, Nothing, Differ DEF
     WrittenIsHeld, Current
<1>20. KnowsItsBackup'
  BY <1>1, <1>2, <1>3, <1>4, <1>5, <1>6, <1>7, <1>8, <1>9, <1>10, <1>11, Now, Nothing, Differ DEF
     KnowsItsBackup, NoOlder
<1>21. OpenIsOpened'
  BY <1>1, <1>2, <1>3, <1>4, <1>5, <1>6, <1>7, <1>8, <1>9, <1>10, <1>11, Now, Nothing, Differ DEF
     OpenIsOpened, OpensAgain, RelayHolds, AtTheRelay
<1>22. StillThere'
  BY <1>1, <1>2, <1>3, <1>4, <1>5, <1>6, <1>7, <1>8, <1>9, <1>10, <1>11, Now, Nothing, Differ DEF
     StillThere, Aside, OpensAgain, RelayHolds, After
<1>23. QED
  BY <1>12, <1>13, <1>14, <1>15, <1>16, <1>17, <1>18, <1>19, <1>20, <1>21, <1>22 DEF RotationInv

LEMMA LosePutKeeps ==
  ASSUME RotationSizes, RotationInv, LosePut
  PROVE  RotationInv'
<1>1. TypeOK /\ browser # 0 /\ JobsShape /\ DirsAreReal /\ PlacesAgree /\ RelayJob /\ FilesOpen
      /\ WrittenIsHeld /\ KnowsItsBackup /\ OpenIsOpened /\ StillThere
  BY DEF RotationInv
<1>2. At("put") /\ job.steps = ToPut /\ job # Idle
  BY <1>1, Phases, Differ DEF LosePut, At
<1>3. /\ Real(root) /\ Real(stage) /\ root # NoDir /\ stage # NoDir /\ job.old = root /\ open
      /\ root.password \in Password /\ stage.password \in Password
      /\ [gen |-> root.gen, edits |-> root.edits] \in Row
      /\ [gen |-> stage.gen, edits |-> stage.edits] \in Row /\ RelayHolds(root)
      /\ RelayHolds(stage) /\ stage.password # root.password /\ stage.edits = root.edits
      /\ job.kind = "change"
  BY <1>1, <1>2, Now, Nothing, OwnRows, Phases DEF PlacesAgree, Before, RelayJob, AtTheRelay, Real
<1>4. row' = [row EXCEPT ![stage.password] = [gen |-> stage.gen, edits |-> stage.edits]]
  BY <1>1, <1>2, <1>3 DEF LosePut, NewRow
<1>5. /\ row' \in [Password -> Row]
      /\ row'[stage.password] = [gen |-> stage.gen, edits |-> stage.edits]
      /\ \A q \in Password : q # stage.password => row'[q] = row[q]
  BY <1>1, <1>2, <1>3, <1>4, Now, Rows
<1>6. /\ row'[stage.password].gen = stage.gen /\ row'[stage.password].edits = stage.edits
      /\ row'[stage.password] # NoRow
  BY <1>1, <1>2, <1>3, <1>4, <1>5, OwnRows, Nothing DEF Real
<1>7. /\ job' = Idle /\ JobsShape' /\ job' \in JobType /\ job'.steps = <<>>
      /\ job'.kind = "none" /\ job'.old = NoDir
  BY <1>1, <1>2, <1>3, <1>4, <1>5, <1>6, Ends DEF LosePut
<1>8. losses' \in 0 .. MaxLosses /\ stage' = NoDir
  BY <1>1, <1>2, <1>3, <1>4, <1>5, <1>6, <1>7, Faults DEF LosePut
<1>9. /\ root' = root /\ aside' = aside /\ files' = files /\ capsules' = capsules
      /\ browser' = browser /\ open' = open /\ lost' = lost /\ edits' = edits
      /\ generations' = generations /\ faults' = faults
  BY <1>1, <1>2, <1>3, <1>4, <1>5, <1>6, <1>7, <1>8 DEF LosePut, disk, user, history, counts
<1>10. row[stage.password] = NoRow /\ HasOwnRow(root) /\ job.steps # Last
  BY <1>1, <1>2, <1>3, <1>4, <1>5, <1>6, <1>7, <1>8, <1>9, Differ DEF RelayJob
<1>11. /\ \A p \in Password : row[p] # NoRow => row'[p] # NoRow /\ row'[p].edits \in Nat /\ row'[p].edits >= row[p].edits
  BY <1>1, <1>2, <1>3, <1>4, <1>5, <1>6, <1>7, <1>8, <1>9, <1>10, Now, Nothing
<1>12. Copied => Copied'
  BY <1>1, <1>2, <1>3, <1>4, <1>5, <1>6, <1>7, <1>8, <1>9, <1>10, <1>11, CopiedGrows
<1>13. TypeOK'
  <2>1. /\ root' \in Dir /\ stage' \in Dir /\ aside' \subseteq Dir /\ row' \in [Password -> Row]
        /\ files' \subseteq File /\ capsules' \subseteq 1 .. MaxGenerations /\ browser' \in 0 .. MaxGenerations
        /\ open' \in BOOLEAN /\ lost' \in BOOLEAN /\ job' \in JobType
    BY <1>1, <1>2, <1>3, <1>4, <1>5, <1>6, <1>7, <1>8, <1>9, <1>10, <1>11, <1>12, Now, Nothing
  <2>2. /\ edits' \in 0 .. MaxEdits /\ generations' \in 1 .. MaxGenerations
        /\ faults' \in 0 .. MaxFaults /\ losses' \in 0 .. MaxLosses
    BY <1>1, <1>2, <1>3, <1>4, <1>5, <1>6, <1>7, <1>8, <1>9, <1>10, <1>11, <1>12, Now
  <2>3. QED
    BY <2>1, <2>2, TypedAfter
<1>14. (browser # 0)'
  BY <1>1, <1>2, <1>3, <1>4, <1>5, <1>6, <1>7, <1>8, <1>9, <1>10, <1>11, <1>12, Now, Nothing,
     Differ DEF Real
<1>15. JobsShape'
  BY <1>1, <1>2, <1>3, <1>4, <1>5, <1>6, <1>7, <1>8, <1>9, <1>10, <1>11, <1>12, Now, Nothing,
     Differ DEF JobsShape
<1>16. DirsAreReal'
  BY <1>1, <1>2, <1>3, <1>4, <1>5, <1>6, <1>7, <1>8, <1>9, <1>10, <1>11, <1>12, Now, Nothing,
     Differ DEF DirsAreReal, Real
<1>17. PlacesAgree'
  BY <1>1, <1>2, <1>3, <1>4, <1>5, <1>6, <1>7, <1>8, <1>9, <1>10, <1>11, <1>12, Now, Nothing,
     Differ DEF PlacesAgree, Before, After, Real, AtTheRelay
<1>18. RelayJob'
  BY <1>1, <1>2, <1>3, <1>4, <1>5, <1>6, <1>7, <1>8, <1>9, <1>10, <1>11, <1>12, Now, Nothing,
     Differ DEF RelayJob, HasOwnRow, RelayHolds, AtTheRelay
<1>19. FilesOpen'
  BY <1>1, <1>2, <1>3, <1>4, <1>5, <1>6, <1>7, <1>8, <1>9, <1>10, <1>11, <1>12, Now, Nothing,
     Differ DEF FilesOpen
<1>20. WrittenIsHeld'
  BY <1>1, <1>2, <1>3, <1>4, <1>5, <1>6, <1>7, <1>8, <1>9, <1>10, <1>11, <1>12, Now, Nothing,
     Differ DEF WrittenIsHeld, Current
<1>21. KnowsItsBackup'
  BY <1>1, <1>2, <1>3, <1>4, <1>5, <1>6, <1>7, <1>8, <1>9, <1>10, <1>11, <1>12, Now, Nothing,
     Differ DEF KnowsItsBackup, NoOlder
<1>22. OpenIsOpened'
  BY <1>1, <1>2, <1>3, <1>4, <1>5, <1>6, <1>7, <1>8, <1>9, <1>10, <1>11, <1>12, Now, Nothing,
     Differ DEF OpenIsOpened, OpensAgain, RelayHolds, AtTheRelay
<1>23. StillThere'
  BY <1>1, <1>2, <1>3, <1>4, <1>5, <1>6, <1>7, <1>8, <1>9, <1>10, <1>11, <1>12, Now, Nothing,
     Differ DEF StillThere, Aside, OpensAgain, RelayHolds, After
<1>24. QED
  BY <1>13, <1>14, <1>15, <1>16, <1>17, <1>18, <1>19, <1>20, <1>21, <1>22, <1>23 DEF RotationInv

LEMMA LoseDeleteKeeps ==
  ASSUME RotationSizes, RotationInv, LoseDelete
  PROVE  RotationInv'
<1>1. TypeOK /\ browser # 0 /\ JobsShape /\ DirsAreReal /\ PlacesAgree /\ RelayJob /\ FilesOpen
      /\ WrittenIsHeld /\ KnowsItsBackup /\ OpenIsOpened /\ StillThere
  BY DEF RotationInv
<1>2. At("delete") /\ job.steps = ToDelete /\ job # Idle
  BY <1>1, Phases, Differ DEF LoseDelete, At
<1>3. /\ Real(root) /\ Real(stage) /\ root # NoDir /\ stage # NoDir /\ job.old = root /\ open
      /\ root.password \in Password /\ stage.password \in Password
      /\ [gen |-> root.gen, edits |-> root.edits] \in Row
      /\ [gen |-> stage.gen, edits |-> stage.edits] \in Row /\ RelayHolds(root)
      /\ RelayHolds(stage) /\ stage.password # root.password /\ stage.edits = root.edits
      /\ job.kind = "change"
  BY <1>1, <1>2, Now, Nothing, OwnRows, Phases DEF PlacesAgree, Before, RelayJob, AtTheRelay, Real
<1>4. row' = [row EXCEPT ![root.password] = NoRow]
  BY <1>1, <1>2, <1>3 DEF LoseDelete
<1>5. /\ row' \in [Password -> Row] /\ row'[root.password] = NoRow
      /\ \A q \in Password : q # root.password => row'[q] = row[q]
  BY <1>1, <1>2, <1>3, <1>4, Now, Nothing, Rows
<1>6. /\ job' = Idle /\ JobsShape' /\ job' \in JobType /\ job'.steps = <<>>
      /\ job'.kind = "none" /\ job'.old = NoDir
  BY <1>1, <1>2, <1>3, <1>4, <1>5, Ends DEF LoseDelete
<1>7. losses' \in 0 .. MaxLosses /\ stage' = NoDir /\ lost' = TRUE
  BY <1>1, <1>2, <1>3, <1>4, <1>5, <1>6, Faults DEF LoseDelete
<1>8. /\ root' = root /\ aside' = aside /\ files' = files /\ capsules' = capsules
      /\ browser' = browser /\ open' = open /\ edits' = edits /\ generations' = generations
      /\ faults' = faults
  BY <1>1, <1>2, <1>3, <1>4, <1>5, <1>6, <1>7 DEF LoseDelete, disk, user, history, counts
<1>9. /\ HasOwnRow(root) /\ HasOwnRow(stage) /\ row'[stage.password] = row[stage.password]
      /\ row[root.password].edits = root.edits /\ row[stage.password].edits = root.edits
      /\ row[stage.password] # NoRow
  BY <1>1, <1>2, <1>3, <1>4, <1>5, <1>6, <1>7, <1>8, OwnRows DEF RelayJob, HasOwnRow, Real
<1>10. Copied => Copied'
  <2> SUFFICES ASSUME Copied PROVE Copied'
    OBVIOUS
  <2>1. CASE \E f \in files : f.edits >= edits
    BY <2>1, <1>1, <1>2, <1>3, <1>4, <1>5, <1>6, <1>7, <1>8, <1>9, Now DEF Copied
  <2>2. CASE \E p \in Password : row[p] # NoRow /\ row[p].edits >= edits
    <3>1. PICK p \in Password : row[p] # NoRow /\ row[p].edits >= edits
      BY <2>2
    <3>2. \E q \in Password : row'[q] # NoRow /\ row'[q].edits >= edits
      BY <3>1, <1>1, <1>2, <1>3, <1>4, <1>5, <1>6, <1>7, <1>8, <1>9, Now
    <3>3. QED
      BY <3>2, <1>1, <1>2, <1>3, <1>4, <1>5, <1>6, <1>7, <1>8, <1>9, Now DEF Copied
  <2>3. QED
    BY <2>1, <2>2 DEF Copied
<1>11. TypeOK'
  <2>1. /\ root' \in Dir /\ stage' \in Dir /\ aside' \subseteq Dir /\ row' \in [Password -> Row]
        /\ files' \subseteq File /\ capsules' \subseteq 1 .. MaxGenerations /\ browser' \in 0 .. MaxGenerations
        /\ open' \in BOOLEAN /\ lost' \in BOOLEAN /\ job' \in JobType
    BY <1>1, <1>2, <1>3, <1>4, <1>5, <1>6, <1>7, <1>8, <1>9, <1>10, Now, Nothing
  <2>2. /\ edits' \in 0 .. MaxEdits /\ generations' \in 1 .. MaxGenerations
        /\ faults' \in 0 .. MaxFaults /\ losses' \in 0 .. MaxLosses
    BY <1>1, <1>2, <1>3, <1>4, <1>5, <1>6, <1>7, <1>8, <1>9, <1>10, Now
  <2>3. QED
    BY <2>1, <2>2, TypedAfter
<1>12. (browser # 0)'
  BY <1>1, <1>2, <1>3, <1>4, <1>5, <1>6, <1>7, <1>8, <1>9, <1>10, Now, Nothing, Differ DEF Real
<1>13. JobsShape'
  BY <1>1, <1>2, <1>3, <1>4, <1>5, <1>6, <1>7, <1>8, <1>9, <1>10, Now, Nothing, Differ DEF
     JobsShape
<1>14. DirsAreReal'
  BY <1>1, <1>2, <1>3, <1>4, <1>5, <1>6, <1>7, <1>8, <1>9, <1>10, Now, Nothing, Differ DEF
     DirsAreReal, Real
<1>15. PlacesAgree'
  BY <1>1, <1>2, <1>3, <1>4, <1>5, <1>6, <1>7, <1>8, <1>9, <1>10, Now, Nothing, Differ DEF
     PlacesAgree, Before, After, Real, AtTheRelay
<1>16. RelayJob'
  BY <1>1, <1>2, <1>3, <1>4, <1>5, <1>6, <1>7, <1>8, <1>9, <1>10, Now, Nothing, Differ DEF
     RelayJob, HasOwnRow, RelayHolds, AtTheRelay
<1>17. FilesOpen'
  BY <1>1, <1>2, <1>3, <1>4, <1>5, <1>6, <1>7, <1>8, <1>9, <1>10, Now, Nothing, Differ DEF
     FilesOpen
<1>18. WrittenIsHeld'
  BY <1>1, <1>2, <1>3, <1>4, <1>5, <1>6, <1>7, <1>8, <1>9, <1>10, Now, Nothing, Differ DEF
     WrittenIsHeld, Current
<1>19. KnowsItsBackup'
  <2>1. root' = root /\ stage' = NoDir /\ job'.old = NoDir /\ NoDir.knows = FALSE
    BY <1>6, <1>7, <1>8, Nothing
  <2>2. row'[root.password].edits = 0 /\ root.edits >= 0
    BY <1>5, Now, Nothing
  <2>3. QED
    BY <2>1, <2>2 DEF KnowsItsBackup, NoOlder
<1>20. OpenIsOpened'
  BY <1>1, <1>2, <1>3, <1>4, <1>5, <1>6, <1>7, <1>8, <1>9, <1>10, Now, Nothing, Differ DEF
     OpenIsOpened, OpensAgain, RelayHolds, AtTheRelay
<1>21. StillThere'
  BY <1>1, <1>2, <1>3, <1>4, <1>5, <1>6, <1>7, <1>8, <1>9, <1>10, Now, Nothing, Differ DEF
     StillThere, Aside, OpensAgain, RelayHolds, After
<1>22. QED
  BY <1>11, <1>12, <1>13, <1>14, <1>15, <1>16, <1>17, <1>18, <1>19, <1>20, <1>21 DEF RotationInv

LEMMA LoseAnswerKeeps ==
  ASSUME RotationSizes, RotationInv, LoseAnswer
  PROVE  RotationInv'
<1>1. TypeOK /\ browser # 0 /\ JobsShape /\ DirsAreReal /\ PlacesAgree /\ RelayJob /\ FilesOpen
      /\ WrittenIsHeld /\ KnowsItsBackup /\ OpenIsOpened /\ StillThere
  BY DEF RotationInv
<1>2. At("answer") /\ job.steps = Last /\ job # Idle
  BY <1>1, Phases, Differ DEF LoseAnswer, At
<1>3. Real(root) /\ root # NoDir /\ stage = NoDir /\ open
  BY <1>1, <1>2, Nothing DEF PlacesAgree, Real
<1>4. lost' = TRUE /\ losses' \in 0 .. MaxLosses
  BY <1>1, <1>2, <1>3, Faults DEF LoseAnswer
<1>5. /\ job' = Idle /\ JobsShape' /\ job' \in JobType /\ job'.steps = <<>>
      /\ job'.kind = "none" /\ job'.old = NoDir
  BY <1>1, <1>2, <1>3, <1>4, Ends DEF LoseAnswer
<1>6. /\ root' = root /\ stage' = stage /\ aside' = aside /\ row' = row /\ files' = files
      /\ capsules' = capsules /\ browser' = browser /\ open' = open /\ edits' = edits
      /\ generations' = generations /\ faults' = faults
  BY <1>1, <1>2, <1>3, <1>4, <1>5 DEF LoseAnswer, disk, user, history, counts
<1>7. Copied' = Copied
  BY <1>1, <1>2, <1>3, <1>4, <1>5, <1>6 DEF Copied
<1>8. TypeOK'
  <2>1. /\ root' \in Dir /\ stage' \in Dir /\ aside' \subseteq Dir /\ row' \in [Password -> Row]
        /\ files' \subseteq File /\ capsules' \subseteq 1 .. MaxGenerations /\ browser' \in 0 .. MaxGenerations
        /\ open' \in BOOLEAN /\ lost' \in BOOLEAN /\ job' \in JobType
    BY <1>1, <1>2, <1>3, <1>4, <1>5, <1>6, <1>7, Now, Nothing
  <2>2. /\ edits' \in 0 .. MaxEdits /\ generations' \in 1 .. MaxGenerations
        /\ faults' \in 0 .. MaxFaults /\ losses' \in 0 .. MaxLosses
    BY <1>1, <1>2, <1>3, <1>4, <1>5, <1>6, <1>7, Now
  <2>3. QED
    BY <2>1, <2>2, TypedAfter
<1>9. (browser # 0)'
  BY <1>1, <1>2, <1>3, <1>4, <1>5, <1>6, <1>7, Now, Nothing, Differ DEF Real
<1>10. JobsShape'
  BY <1>1, <1>2, <1>3, <1>4, <1>5, <1>6, <1>7, Now, Nothing, Differ DEF JobsShape
<1>11. DirsAreReal'
  BY <1>1, <1>2, <1>3, <1>4, <1>5, <1>6, <1>7, Now, Nothing, Differ DEF DirsAreReal, Real
<1>12. PlacesAgree'
  BY <1>1, <1>2, <1>3, <1>4, <1>5, <1>6, <1>7, Now, Nothing, Differ DEF PlacesAgree, Before,
     After, Real, AtTheRelay
<1>13. RelayJob'
  BY <1>1, <1>2, <1>3, <1>4, <1>5, <1>6, <1>7, Now, Nothing, Differ DEF RelayJob, HasOwnRow,
     RelayHolds, AtTheRelay
<1>14. FilesOpen'
  BY <1>1, <1>2, <1>3, <1>4, <1>5, <1>6, <1>7, Now, Nothing, Differ DEF FilesOpen
<1>15. WrittenIsHeld'
  BY <1>1, <1>2, <1>3, <1>4, <1>5, <1>6, <1>7, Now, Nothing, Differ DEF WrittenIsHeld, Current
<1>16. KnowsItsBackup'
  BY <1>1, <1>2, <1>3, <1>4, <1>5, <1>6, <1>7, Now, Nothing, Differ DEF KnowsItsBackup, NoOlder
<1>17. OpenIsOpened'
  BY <1>1, <1>2, <1>3, <1>4, <1>5, <1>6, <1>7, Now, Nothing, Differ DEF OpenIsOpened, OpensAgain,
     RelayHolds, AtTheRelay
<1>18. StillThere'
  BY <1>1, <1>2, <1>3, <1>4, <1>5, <1>6, <1>7, Now, Nothing, Differ DEF StillThere, Aside,
     OpensAgain, RelayHolds, After
<1>19. QED
  BY <1>8, <1>9, <1>10, <1>11, <1>12, <1>13, <1>14, <1>15, <1>16, <1>17, <1>18 DEF RotationInv

LEMMA CrashKeeps ==
  ASSUME RotationSizes, RotationInv, Crash
  PROVE  RotationInv'
<1>1. TypeOK /\ browser # 0 /\ JobsShape /\ DirsAreReal /\ PlacesAgree /\ RelayJob /\ FilesOpen
      /\ WrittenIsHeld /\ KnowsItsBackup /\ OpenIsOpened /\ StillThere
  BY DEF RotationInv
<1>2. /\ faults' \in 0 .. MaxFaults /\ open' = FALSE /\ stage' = NoDir /\ aside' \subseteq Dir
      /\ aside \subseteq aside'
  BY <1>1, Faults, Now DEF Crash
<1>3. /\ job' = Idle /\ JobsShape' /\ job' \in JobType /\ job'.steps = <<>>
      /\ job'.kind = "none" /\ job'.old = NoDir
  BY <1>1, <1>2, Ends DEF Crash
<1>4. /\ root' = root /\ row' = row /\ files' = files /\ capsules' = capsules
      /\ browser' = browser /\ lost' = lost /\ edits' = edits /\ generations' = generations
      /\ losses' = losses
  BY <1>1, <1>2, <1>3 DEF Crash, disk, user, history, counts
<1>5. Copied' = Copied /\ (Aside => Aside')
  BY <1>1, <1>2, <1>3, <1>4 DEF Copied, Aside, OpensAgain
<1>6. lost \/ Copied \/ Aside \/ (root.edits >= edits /\ OpensAgain(root))
  BY <1>1, <1>2, <1>3, <1>4, <1>5, Safe, Differ DEF StillThere, After
<1>7. TypeOK'
  <2>1. /\ root' \in Dir /\ stage' \in Dir /\ aside' \subseteq Dir /\ row' \in [Password -> Row]
        /\ files' \subseteq File /\ capsules' \subseteq 1 .. MaxGenerations /\ browser' \in 0 .. MaxGenerations
        /\ open' \in BOOLEAN /\ lost' \in BOOLEAN /\ job' \in JobType
    BY <1>1, <1>2, <1>3, <1>4, <1>5, <1>6, Now, Nothing
  <2>2. /\ edits' \in 0 .. MaxEdits /\ generations' \in 1 .. MaxGenerations
        /\ faults' \in 0 .. MaxFaults /\ losses' \in 0 .. MaxLosses
    BY <1>1, <1>2, <1>3, <1>4, <1>5, <1>6, Now
  <2>3. QED
    BY <2>1, <2>2, TypedAfter
<1>8. (browser # 0)'
  BY <1>1, <1>2, <1>3, <1>4, <1>5, <1>6, Now, Nothing, Differ DEF Real
<1>9. JobsShape'
  BY <1>1, <1>2, <1>3, <1>4, <1>5, <1>6, Now, Nothing, Differ DEF JobsShape
<1>10. DirsAreReal'
  BY <1>1, <1>2, <1>3, <1>4, <1>5, <1>6, Now, Nothing, Differ DEF DirsAreReal, Real
<1>11. PlacesAgree'
  BY <1>1, <1>2, <1>3, <1>4, <1>5, <1>6, Now, Nothing, Differ DEF PlacesAgree, Before, After,
     Real, AtTheRelay
<1>12. RelayJob'
  BY <1>1, <1>2, <1>3, <1>4, <1>5, <1>6, Now, Nothing, Differ DEF RelayJob, HasOwnRow, RelayHolds,
     AtTheRelay
<1>13. FilesOpen'
  BY <1>1, <1>2, <1>3, <1>4, <1>5, <1>6, Now, Nothing, Differ DEF FilesOpen
<1>14. WrittenIsHeld'
  BY <1>1, <1>2, <1>3, <1>4, <1>5, <1>6, Now, Nothing, Differ DEF WrittenIsHeld, Current
<1>15. KnowsItsBackup'
  BY <1>1, <1>2, <1>3, <1>4, <1>5, <1>6, Now, Nothing, Differ DEF KnowsItsBackup, NoOlder
<1>16. OpenIsOpened'
  BY <1>1, <1>2, <1>3, <1>4, <1>5, <1>6, Now, Nothing, Differ DEF OpenIsOpened, OpensAgain,
     RelayHolds, AtTheRelay
<1>17. StillThere'
  BY <1>1, <1>2, <1>3, <1>4, <1>5, <1>6, Now, Nothing, Differ DEF StillThere, Aside, OpensAgain,
     RelayHolds, After
<1>18. QED
  BY <1>7, <1>8, <1>9, <1>10, <1>11, <1>12, <1>13, <1>14, <1>15, <1>16, <1>17 DEF RotationInv
LEMMA RotationInitInv ==
  ASSUME RotationSizes, Init
  PROVE  RotationInv
<1>1. /\ root \in Dir /\ root.gen = 1 /\ root.password = First /\ root.edits = 0 /\ root.knows = AtRelay
      /\ root.capsule = (IF AtRelay THEN 0 ELSE 1)
  BY DEF Init, RotationSizes, Dir
<1>2. /\ row \in [Password -> Row] /\ row[First] = (IF AtRelay THEN [gen |-> 1, edits |-> 0] ELSE NoRow)
      /\ First \in Password
  <2>1. [gen |-> 1, edits |-> 0] \in Row /\ NoRow \in Row
    BY Nothing DEF Row, RotationSizes
  <2>2. QED
    BY <2>1 DEF Init, RotationSizes
<1>3. /\ stage = NoDir /\ aside = {} /\ files = {} /\ capsules = (IF AtRelay THEN {} ELSE {1}) /\ browser = 1
      /\ open = TRUE /\ job = Idle /\ edits = 0 /\ lost = FALSE /\ generations = 1 /\ faults = 0 /\ losses = 0
  BY DEF Init
<1>4. /\ job = Idle /\ job \in JobType /\ job.steps = <<>> /\ job.kind = "none" /\ job.old = NoDir
      /\ AtRelay \in BOOLEAN
  BY <1>3, NoSteps, Nothing DEF RotationSizes
<1>5. Real(root) /\ root # NoDir
  BY <1>1, Nothing DEF Real
<1>6. TypeOK
  <2>1. /\ 1 \in 0 .. MaxGenerations /\ 1 \in 1 .. MaxGenerations /\ 0 \in 0 .. MaxEdits
        /\ 0 \in 0 .. MaxFaults /\ 0 \in 0 .. MaxLosses
    BY DEF RotationSizes
  <2>2. {root, stage} \union aside \subseteq Dir
    BY <1>1, <1>3, Nothing
  <2>3. capsules \subseteq 1 .. MaxGenerations
    BY <1>3, <1>4, <2>1
  <2>4. QED
    BY <1>2, <1>3, <1>4, <2>1, <2>2, <2>3 DEF TypeOK, JobType
<1>7. browser # 0 /\ JobsShape /\ DirsAreReal /\ FilesOpen
  BY <1>3, <1>4, <1>5 DEF JobsShape, DirsAreReal, FilesOpen
<1>8. PlacesAgree /\ RelayJob
  BY <1>3, <1>4, <1>5, Differ DEF PlacesAgree, RelayJob, Before, After, AtTheRelay
<1>9. WrittenIsHeld
  BY <1>1, <1>3, <1>4 DEF WrittenIsHeld, Current
<1>10. KnowsItsBackup
  <2>1. NoOlder(NoDir)
    BY Nothing DEF NoOlder
  <2>2. NoOlder(root)
    BY <1>1, <1>2, <1>4 DEF NoOlder
  <2>3. QED
    BY <1>3, <1>4, <2>1, <2>2 DEF KnowsItsBackup
<1>11. OpensAgain(root)
  BY <1>1, <1>2, <1>3, <1>4 DEF OpensAgain, RelayHolds
<1>12. OpenIsOpened /\ StillThere
  BY <1>3, <1>4, <1>11, Differ DEF OpenIsOpened, StillThere, After
<1>13. QED
  BY <1>6, <1>7, <1>8, <1>9, <1>10, <1>12 DEF RotationInv

LEMMA RotationStep ==
  ASSUME RotationSizes, RotationInv, [Next]_vars
  PROVE  RotationInv'
<1>1. CASE Next
  <2>1. ASSUME NEW p \in Password, ChangeAtRelay(p) \/ ChangeWithFile(p) \/ Restore(p)
        PROVE  RotationInv'
    BY <2>1, ChangeAtRelayKeeps, ChangeWithFileKeeps, RestoreKeeps
  <2>2. ASSUME NEW f \in files, ImportStorage(f) PROVE RotationInv'
    BY <2>2, ImportStorageKeeps
  <2>3. CASE Write \/ SaveCapsule \/ BackUp \/ ExportStorage \/ Lock \/ Unlock
    BY <2>3, WriteKeeps, SaveCapsuleKeeps, BackUpKeeps, ExportStorageKeeps, LockKeeps, UnlockKeeps
  <2>4. CASE SyncOld \/ PutNew \/ DeleteOld \/ MoveAside \/ Switch \/ UnlockNew \/ Answer
    BY <2>4, SyncOldKeeps, PutNewKeeps, DeleteOldKeeps, MoveAsideKeeps, SwitchKeeps,
       UnlockNewKeeps, AnswerKeeps
  <2>5. CASE LoseRequest
    <3>1. LosePut \/ LoseDelete
      BY <2>5 DEF LoseRequest, LosePut, LoseDelete
    <3>2. QED
      BY <3>1, LosePutKeeps, LoseDeleteKeeps
  <2>6. CASE Fail \/ LoseAnswer \/ Crash
    BY <2>6, FailKeeps, LoseAnswerKeeps, CrashKeeps
  <2>7. QED
    BY <1>1, <2>1, <2>2, <2>3, <2>4, <2>5, <2>6 DEF Next
<1>2. CASE UNCHANGED vars
  <2>1. /\ root' = root /\ stage' = stage /\ aside' = aside /\ row' = row /\ files' = files
        /\ capsules' = capsules /\ browser' = browser /\ open' = open /\ job' = job /\ edits' = edits
        /\ lost' = lost /\ generations' = generations /\ faults' = faults /\ losses' = losses
    BY <1>2 DEF vars, disk, user, history, counts
  <2>2. QED
    BY <2>1 DEF RotationInv, TypeOK, JobsShape, DirsAreReal, PlacesAgree, Before, After, RelayJob,
       HasOwnRow, FilesOpen, WrittenIsHeld, Current, Copied, KnowsItsBackup, NoOlder,
       OpenIsOpened, OpensAgain, StillThere, Aside
<1>3. QED
  BY <1>1, <1>2

\* What it says of the properties that are checked.
LEMMA RotationImplied ==
  ASSUME RotationSizes, RotationInv
  PROVE  TypeOK /\ NothingLost
<1>1. TypeOK
  BY DEF RotationInv
<1>2. NothingLost
  <2> SUFFICES ASSUME ~lost, ~Unsaved
               PROVE  \E e \in Readable : e >= edits
    BY DEF NothingLost
  <2>1. CASE Copied
    <3>1. CASE \E f \in files : f.edits >= edits
      BY <3>1 DEF Readable, RotationInv, FilesOpen
    <3>2. CASE \E p \in Password : row[p] # NoRow /\ row[p].edits >= edits
      BY <3>2 DEF Readable
    <3>3. QED
      BY <2>1, <3>1, <3>2 DEF Copied
  <2>2. ASSUME NEW d \in {root} \union aside, d.edits >= edits, OpensAgain(d)
        PROVE  \E e \in Readable : e >= edits
    <3>1. Opens(d)
      BY <2>2 DEF Opens, OpensAgain, Unsaved, RotationInv
    <3>2. QED
      BY <2>2, <3>1 DEF Readable
  <2>3. CASE open
    <3>1. root # NoDir
      BY <2>3, Nothing DEF RotationInv, PlacesAgree, Real
    <3>2. root.edits >= edits \/ Copied
      BY <3>1 DEF RotationInv, WrittenIsHeld, Current
    <3>3. root.edits \in Readable
      BY <2>3 DEF Readable
    <3>4. QED
      BY <2>1, <3>2, <3>3
  <2>4. QED
    BY <2>1, <2>2, <2>3 DEF RotationInv, StillThere, Aside
<1>3. QED
  BY <1>1, <1>2

\* Wherever a change of password, a restore or an import stops, all the user has
\* written can be opened, for any number of passwords, directories, changes and failures
\* (secure-vault.ts:195-289).
THEOREM RotationLosesNothing ==
  ASSUME RotationSizes
  PROVE  Spec => [](TypeOK /\ NothingLost)
<1>1. Init => RotationInv
  BY RotationInitInv
<1>2. RotationInv /\ [Next]_vars => RotationInv'
  BY RotationStep
<1>3. RotationInv => TypeOK /\ NothingLost
  BY RotationImplied
<1>4. QED
  BY <1>1, <1>2, <1>3, PTL DEF Spec

-----------------------------------------------------------------------------
(***************************************************************************)
(* The setup of the vaults of a device.                                    *)
(***************************************************************************)
\* What the proofs ask of the constants.
SetupSizes == None \notin Id /\ MaxVaults \in Nat \ {0} /\ MaxLocks \in Nat

(* The inductive invariant.                                                *)
DialogType == [at : {"none", "up"}, epoch : Nat, handle : Nat]
WorkerType == [at : {"none", "asked", "read"}, epoch : Nat, handle : Nat]
PageType ==
  [screen : {"gate", "setup", "main"}, asked : 0 .. MaxLocks, chosen : BOOLEAN,
   waits : {"none", "file", "saved", "failed", "post"}]
VaultType == [id : Id \union {None}, pending : BOOLEAN]
LocksCounted ==
  /\ tally \in [locks : Nat, saves : Nat, recreates : Nat, crashes : Nat, opens : Nat]
  /\ tally.locks <= MaxLocks
PartsTyped == dialog \in DialogType /\ worker \in WorkerType /\ page \in PageType

\* An epoch is begun by an unlock and by a lock; nothing that waits is from a later one.
EpochsFollow ==
  /\ session \in Nat /\ fileEpoch \in Nat
  /\ session <= tally.locks
  /\ fileEpoch <= 2 * tally.locks + 1 /\ (~adopted => fileEpoch <= 2 * tally.locks)
  /\ dialog.epoch <= fileEpoch /\ worker.epoch <= fileEpoch

InCatalog(h) == <<vaults[h].id, h>> \in entries

\* The vault that is open is in the catalog, or its ID is pending.
OpenIsAdopted ==
  /\ adopted <=> page.screen # "gate"
  /\ adopted => current \in Setup!Handle /\ vaults[current].id \in Id
  /\ adopted /\ pendingId = None => InCatalog(current)
  /\ adopted /\ pendingId # None => vaults[current].id = pendingId

\* A file that was saved in this session is that of the vault that is open.
SavedIsOpen ==
  /\ page.waits # "none" => adopted
  /\ page.waits \in {"saved", "post"} => current \in segments
  /\ worker.at = "read" /\ worker.epoch = fileEpoch /\ adopted => current \in segments

ListedIsSaved ==
  \A e \in entries :
    vaults[e[2]].id # None /\ e[2] \in segments /\ ~vaults[e[2]].pending

WrittenIsListed ==
  /\ strayed \/ (page.screen = "main" => InCatalog(current))
  /\ strayed \/ (\A h \in wrote : InCatalog(h))

SetupInv ==
  /\ Setup!TypeOK /\ LocksCounted /\ PartsTyped /\ EpochsFollow /\ OpenIsAdopted /\ SavedIsOpen
  /\ ListedIsSaved /\ WrittenIsListed

-----------------------------------------------------------------------------
(* What the operators of the setup do.                                     *)

\* A handle that is drawn is in use nowhere.
LEMMA Free ==
  ASSUME SetupSizes, SetupInv, NEW h \in Setup!Allocated
  PROVE  /\ h \in Setup!Handle /\ vaults[h].id = None
         /\ \A e \in entries : e[2] # h
<1>1. Setup!TypeOK /\ ListedIsSaved
  BY DEF SetupInv
<1>2. Setup!Legacy \in Setup!Handle
  BY DEF Setup!Legacy, Setup!Handle, SetupSizes
<1>3. h \in Setup!Handle /\ vaults[h] = Setup!Unused
  BY <1>2 DEF Setup!Allocated
<1>4. vaults[h].id = None
  BY <1>3 DEF Setup!Unused
<1>5. \A e \in entries : e[2] # h
  BY <1>1, <1>4 DEF ListedIsSaved
<1>6. QED
  BY <1>3, <1>4, <1>5

\* A vault that is new on the disk, and those that are there.
LEMMA Made ==
  ASSUME SetupSizes, SetupInv, NEW h \in Setup!Handle, NEW v \in VaultType,
         vaults[h].id = None, vaults' = [vaults EXCEPT ![h] = v]
  PROVE  /\ vaults' \in [Setup!Handle -> VaultType] /\ vaults'[h] = v
         /\ \A g \in Setup!Handle : vaults[g].id # None => vaults'[g] = vaults[g]
<1>1. vaults \in [Setup!Handle -> VaultType]
  BY DEF SetupInv, Setup!TypeOK, VaultType
<1>2. QED
  BY <1>1

LEMMA Entries ==
  ASSUME SetupInv, NEW e \in entries
  PROVE  e \in Id \X Setup!Handle /\ e = <<e[1], e[2]>> /\ e[2] \in Setup!Handle
BY DEF SetupInv, Setup!TypeOK

LEMMA Selected ==
  ASSUME SetupInv, NEW i \in Id, NEW h \in Setup!Handle, Setup!Select(i, h)
  PROVE  /\ entries' \subseteq Id \X Setup!Handle /\ entries \subseteq entries' /\ <<i, h>> \in entries'
         /\ \A e \in entries' : e \in entries \/ e[2] = h
BY DEF SetupInv, Setup!TypeOK, Setup!Select

LEMMA SetupNow ==
  ASSUME SetupSizes, SetupInv
  PROVE  /\ vaults \in [Setup!Handle -> VaultType] /\ entries \subseteq Id \X Setup!Handle /\ segments \subseteq Setup!Handle
         /\ current \in 0 .. MaxVaults /\ adopted \in BOOLEAN /\ pendingId \in Id \union {None}
         /\ chosen \in Id \union {None} /\ fileEpoch \in 0 .. 2 * MaxLocks + 1 /\ session \in 0 .. 2 * MaxLocks + 1
         /\ dialog \in DialogType /\ worker \in WorkerType /\ page \in PageType
         /\ wrote \subseteq Setup!Handle /\ strayed \in BOOLEAN /\ MaxLocks \in Nat
         /\ None \notin Id /\ Setup!Handle \subseteq 0 .. MaxVaults /\ None \notin Id
         /\ current \in Nat /\ fileEpoch \in Nat /\ session \in Nat /\ tally.locks \in Nat
         /\ dialog.epoch \in Nat /\ worker.epoch \in Nat
<1>1. Setup!TypeOK /\ LocksCounted /\ PartsTyped
  BY DEF SetupInv
<1>2. Setup!Handle \subseteq 0 .. MaxVaults
  BY DEF Setup!Handle, Setup!Legacy, SetupSizes
<1>3. fileEpoch \in 0 .. 2 * MaxLocks + 1 /\ session \in 0 .. 2 * MaxLocks + 1
  BY <1>1 DEF Setup!TypeOK
<1>4. current \in Nat /\ fileEpoch \in Nat /\ session \in Nat
  BY <1>1, <1>3 DEF Setup!TypeOK, SetupSizes
<1>5. tally.locks \in Nat /\ dialog.epoch \in Nat /\ worker.epoch \in Nat
  BY <1>1 DEF LocksCounted, PartsTyped, DialogType, WorkerType
<1>6. QED
  BY <1>1, <1>2, <1>3, <1>4, <1>5 DEF Setup!TypeOK, VaultType, PartsTyped, SetupSizes

LEMMA SetupTypedAfter ==
  ASSUME SetupSizes, vaults' \in [Setup!Handle -> VaultType], entries' \subseteq Id \X Setup!Handle, segments' \subseteq Setup!Handle,
         current' \in 0 .. MaxVaults, adopted' \in BOOLEAN, pendingId' \in Id \union {None},
         chosen' \in Id \union {None}, LocksCounted', PartsTyped', EpochsFollow',
         wrote' \subseteq Setup!Handle, strayed' \in BOOLEAN
  PROVE  Setup!TypeOK'
<1>1. /\ dialog'.at \in {"none", "up"} /\ worker'.at \in {"none", "asked", "read"}
      /\ page' \in [screen : {"gate", "setup", "main"}, asked : 0 .. MaxLocks, chosen : BOOLEAN,
                    waits : {"none", "file", "saved", "failed", "post"}]
  BY DEF PartsTyped, DialogType, WorkerType, PageType
<1>2. fileEpoch' \in 0 .. 2 * MaxLocks + 1 /\ session' \in 0 .. 2 * MaxLocks + 1
  <2>1. tally'.locks \in Nat /\ tally'.locks <= MaxLocks /\ MaxLocks \in Nat
    BY DEF LocksCounted, SetupSizes
  <2>2. session' \in Nat /\ fileEpoch' \in Nat /\ session' <= tally'.locks /\ fileEpoch' <= 2 * tally'.locks + 1
    BY DEF EpochsFollow
  <2>3. QED
    BY <2>1, <2>2
<1>3. {fileEpoch', session'} \subseteq 0 .. 2 * MaxLocks + 1
  BY <1>2
<1>4. QED
  BY <1>1, <1>3 DEF Setup!TypeOK, VaultType

LEMMA SetupCounting ==
  ASSUME SetupSizes, LocksCounted, NEW what \in {"locks", "saves", "recreates", "crashes", "opens"}, NEW max,
         Setup!Counted(what, max), what = "locks" => max = MaxLocks
  PROVE  /\ LocksCounted'
         /\ what = "locks" => tally'.locks = tally.locks + 1
         /\ what # "locks" => tally'.locks = tally.locks
<1>1. tally \in [locks : Nat, saves : Nat, recreates : Nat, crashes : Nat, opens : Nat]
      /\ tally' = [tally EXCEPT ![what] = @ + 1] /\ tally[what] < max
  BY DEF Setup!Counted, LocksCounted
<1>2. tally[what] \in Nat /\ tally[what] + 1 \in Nat
  BY <1>1
<1>3. tally' \in [locks : Nat, saves : Nat, recreates : Nat, crashes : Nat, opens : Nat]
  BY <1>1, <1>2
<1>4. /\ what = "locks" => tally'.locks = tally.locks + 1
      /\ what # "locks" => tally'.locks = tally.locks
  BY <1>1
<1>5. tally'.locks <= MaxLocks
  <2>1. tally.locks \in Nat /\ tally.locks <= MaxLocks /\ MaxLocks \in Nat
    BY DEF LocksCounted, SetupSizes
  <2>2. what = "locks" => tally.locks < MaxLocks
    BY <1>1
  <2>3. QED
    BY <1>4, <2>1, <2>2
<1>6. QED
  BY <1>3, <1>4, <1>5 DEF LocksCounted

LEMMA SetupNothing ==
  ASSUME SetupSizes
  PROVE  /\ Setup!Idle \in DialogType /\ Setup!Idle \in WorkerType /\ Setup!Idle.at = "none" /\ Setup!Idle.epoch = 0
         /\ \A s \in {"gate", "main"} :
              Setup!Fresh(s) \in PageType /\ Setup!Fresh(s).screen = s /\ Setup!Fresh(s).waits = "none"
<1>1. Setup!Idle \in DialogType /\ Setup!Idle \in WorkerType /\ Setup!Idle.at = "none" /\ Setup!Idle.epoch = 0
  BY DEF Setup!Idle, DialogType, WorkerType
<1>2. 0 \in 0 .. MaxLocks
  BY DEF SetupSizes
<1>3. QED
  BY <1>1, <1>2 DEF Setup!Fresh, PageType

\* What the page hears.
LEMMA Hears ==
  ASSUME page \in PageType, NEW result \in {"saved", "failed"}, Setup!Told(result)
  PROVE  /\ page' \in PageType /\ page'.screen = page.screen
         /\ page'.waits = page.waits \/ (page.waits = "file" /\ page'.waits = result)
BY DEF Setup!Told, PageType

LEMMA Settled ==
  ASSUME SetupSizes, SetupInv, adopted, vaults' = [vaults EXCEPT ![current].pending = FALSE]
  PROVE  /\ vaults' \in [Setup!Handle -> VaultType] /\ ~vaults'[current].pending
         /\ \A g \in Setup!Handle : vaults'[g].id = vaults[g].id /\ (~vaults[g].pending => ~vaults'[g].pending)
<1>1. vaults \in [Setup!Handle -> VaultType] /\ current \in Setup!Handle
  BY DEF SetupInv, Setup!TypeOK, VaultType, OpenIsAdopted
<1>2. /\ \A g \in Setup!Handle : vaults[g] \in VaultType
      /\ \A v \in VaultType : [v EXCEPT !.pending = FALSE] \in VaultType
  BY <1>1 DEF VaultType
<1>3. \A v \in VaultType : [v EXCEPT !.pending = FALSE].id = v.id /\ ~[v EXCEPT !.pending = FALSE].pending
  BY DEF VaultType
<1>4. vaults' = [vaults EXCEPT ![current] = [vaults[current] EXCEPT !.pending = FALSE]]
  OBVIOUS
<1>5. vaults'[current] = [vaults[current] EXCEPT !.pending = FALSE]
      /\ \A g \in Setup!Handle : g # current => vaults'[g] = vaults[g]
  BY <1>1, <1>4
<1>6. vaults' \in [Setup!Handle -> VaultType]
  BY <1>1, <1>2, <1>4
<1>7. QED
  BY <1>1, <1>2, <1>3, <1>5, <1>6

LEMMA Confirms ==
  ASSUME SetupSizes, SetupInv, adopted, Setup!Confirm
  PROVE  /\ vaults' \in [Setup!Handle -> VaultType] /\ ~vaults'[current].pending
         /\ \A g \in Setup!Handle : vaults'[g].id = vaults[g].id /\ (~vaults[g].pending => ~vaults'[g].pending)
         /\ entries' \subseteq Id \X Setup!Handle /\ entries \subseteq entries'
         /\ <<vaults'[current].id, current>> \in entries'
         /\ \A e \in entries' : e \in entries \/ e[2] = current
         /\ pendingId' = None
<1>1. /\ current \in Setup!Handle /\ vaults[current].id \in Id /\ entries \subseteq Id \X Setup!Handle
      /\ (pendingId = None => InCatalog(current)) /\ (pendingId # None => vaults[current].id = pendingId)
  BY DEF SetupInv, Setup!TypeOK, OpenIsAdopted
<1>2. vaults' = [vaults EXCEPT ![current].pending = FALSE]
  BY DEF Setup!Confirm
<1>3. /\ vaults' \in [Setup!Handle -> VaultType] /\ ~vaults'[current].pending
      /\ \A g \in Setup!Handle : vaults'[g].id = vaults[g].id /\ (~vaults[g].pending => ~vaults'[g].pending)
  BY <1>2, Settled
<1>4. /\ entries' \subseteq Id \X Setup!Handle /\ entries \subseteq entries' /\ <<vaults[current].id, current>> \in entries'
      /\ \A e \in entries' : e \in entries \/ e[2] = current
      /\ pendingId' = None
  <2>1. CASE pendingId # None
    <3>1. Setup!Select(vaults[current].id, current) /\ pendingId' = None
      BY <1>1, <2>1 DEF Setup!Confirm
    <3>2. QED
      BY <1>1, <3>1, Selected
  <2>2. CASE pendingId = None
    BY <1>1, <2>2 DEF Setup!Confirm, InCatalog
  <2>3. QED
    BY <2>1, <2>2
<1>5. vaults'[current].id = vaults[current].id
  BY <1>1, <1>3
<1>6. <<vaults'[current].id, current>> \in entries'
  BY <1>4, <1>5
<1>7. QED
  BY <1>3, <1>4, <1>6

-----------------------------------------------------------------------------
(* Every action keeps the invariant.                                       *)
LEMMA SetupCreateKeeps ==
  ASSUME SetupSizes, SetupInv, NEW id \in Id, Setup!Create(id)
  PROVE  SetupInv'
<1>1. Setup!TypeOK /\ LocksCounted /\ PartsTyped /\ EpochsFollow /\ OpenIsAdopted /\ SavedIsOpen /\ ListedIsSaved
      /\ WrittenIsListed
  BY DEF SetupInv
<1>2. Setup!AtGate /\ ~adopted /\ page.screen = "gate" /\ page.waits = "none"
  BY <1>1 DEF Setup!Create, Setup!AtGate
<1>3. PICK h \in Setup!Allocated :
        /\ vaults' = [vaults EXCEPT ![h] = [id |-> id, pending |-> TRUE]] /\ Setup!Adopt(h)
  BY <1>1, <1>2 DEF Setup!Create
<1>4. h \in Setup!Handle /\ vaults[h].id = None /\ \A e \in entries : e[2] # h
  BY <1>1, <1>2, <1>3, Free
<1>5. [id |-> id, pending |-> TRUE] \in VaultType /\ h # 0
  BY <1>1, <1>2, <1>3, <1>4, SetupNow DEF VaultType, Setup!Handle, Setup!Legacy
<1>6. /\ vaults' \in [Setup!Handle -> VaultType] /\ vaults'[h] = [id |-> id, pending |-> TRUE]
      /\ \A g \in Setup!Handle : vaults[g].id # None => vaults'[g] = vaults[g]
  BY <1>1, <1>2, <1>3, <1>4, <1>5, Made
<1>7. current' = h /\ adopted' = TRUE /\ fileEpoch' = fileEpoch + 1
  BY <1>1, <1>2, <1>3, <1>4, <1>5, <1>6 DEF Setup!Adopt
<1>8. /\ entries' = entries /\ segments' = segments /\ chosen' = chosen /\ session' = session
      /\ dialog' = dialog /\ worker' = worker /\ wrote' = wrote /\ strayed' = strayed
      /\ tally' = tally
  BY <1>1, <1>2, <1>3, <1>4, <1>5, <1>6, <1>7 DEF Setup!Create, Setup!disk, Setup!engine,
     Setup!activity, Setup!history
<1>9. pendingId' = id /\ id # None
  BY <1>1, <1>2, <1>3, <1>4, <1>5, <1>6, <1>7, <1>8, SetupNow DEF Setup!Create
<1>10. page' \in PageType /\ page'.screen = "setup" /\ page'.waits = "none"
  BY <1>1, <1>2, <1>3, <1>4, <1>5, <1>6, <1>7, <1>8, <1>9, SetupNow DEF Setup!Create, PageType
<1>11. \A g \in Setup!Handle : vaults[g].id # None /\ InCatalog(g) => (InCatalog(g))'
  BY <1>1, <1>2, <1>3, <1>4, <1>5, <1>6, <1>7, <1>8, <1>9, <1>10 DEF InCatalog
<1>12. \A g \in wrote : g \in Setup!Handle /\ (strayed \/ (vaults[g].id # None /\ InCatalog(g)))
  BY <1>1, <1>2, <1>3, <1>4, <1>5, <1>6, <1>7, <1>8, <1>9, <1>10, <1>11, SetupNow DEF
     WrittenIsListed, ListedIsSaved, InCatalog
<1>13. Setup!TypeOK'
  <2>1. LocksCounted' /\ PartsTyped'
    BY <1>1, <1>2, <1>3, <1>4, <1>5, <1>6, <1>7, <1>8, <1>9, <1>10, <1>11, <1>12, SetupNow,
       SetupNothing DEF LocksCounted, PartsTyped
  <2>2. EpochsFollow'
    BY <1>1, <1>2, <1>3, <1>4, <1>5, <1>6, <1>7, <1>8, <1>9, <1>10, <1>11, <1>12, SetupNow,
       SetupNothing DEF EpochsFollow
  <2>3. QED
    BY <1>1, <1>2, <1>3, <1>4, <1>5, <1>6, <1>7, <1>8, <1>9, <1>10, <1>11, <1>12, <2>1, <2>2,
       SetupNow, SetupTypedAfter
<1>14. LocksCounted'
  BY <1>1, <1>2, <1>3, <1>4, <1>5, <1>6, <1>7, <1>8, <1>9, <1>10, <1>11, <1>12, SetupNow,
     SetupNothing DEF LocksCounted
<1>15. PartsTyped'
  BY <1>1, <1>2, <1>3, <1>4, <1>5, <1>6, <1>7, <1>8, <1>9, <1>10, <1>11, <1>12, SetupNow,
     SetupNothing DEF PartsTyped
<1>16. EpochsFollow'
  BY <1>1, <1>2, <1>3, <1>4, <1>5, <1>6, <1>7, <1>8, <1>9, <1>10, <1>11, <1>12, SetupNow,
     SetupNothing DEF EpochsFollow
<1>17. OpenIsAdopted'
  BY <1>1, <1>2, <1>3, <1>4, <1>5, <1>6, <1>7, <1>8, <1>9, <1>10, <1>11, <1>12, SetupNow,
     SetupNothing DEF OpenIsAdopted, InCatalog
<1>18. SavedIsOpen'
  BY <1>1, <1>2, <1>3, <1>4, <1>5, <1>6, <1>7, <1>8, <1>9, <1>10, <1>11, <1>12, SetupNow,
     SetupNothing DEF SavedIsOpen, EpochsFollow
<1>19. ListedIsSaved'
  <2> SUFFICES ASSUME NEW e \in entries'
               PROVE  vaults'[e[2]].id # None /\ e[2] \in segments' /\ ~vaults'[e[2]].pending
    BY DEF ListedIsSaved
  <2>1. CASE e \in entries
    <3>1. vaults[e[2]].id # None /\ e[2] \in segments /\ ~vaults[e[2]].pending /\ e[2] \in Setup!Handle
      BY <1>1, <2>1, Entries DEF ListedIsSaved
    <3>2. QED
      BY <3>1, <1>1, <1>2, <1>3, <1>4, <1>5, <1>6, <1>7, <1>8, <1>9, <1>10, <1>11, <1>12
  <2>2. CASE e \notin entries
    BY <2>2, <1>1, <1>2, <1>3, <1>4, <1>5, <1>6, <1>7, <1>8, <1>9, <1>10, <1>11, <1>12, SetupNow
  <2>3. QED
    BY <2>1, <2>2
<1>20. WrittenIsListed'
  BY <1>1, <1>2, <1>3, <1>4, <1>5, <1>6, <1>7, <1>8, <1>9, <1>10, <1>11, <1>12, SetupNow,
     SetupNothing DEF WrittenIsListed, InCatalog
<1>21. QED
  BY <1>13, <1>14, <1>15, <1>16, <1>17, <1>18, <1>19, <1>20 DEF SetupInv

LEMMA SetupRestoreKeeps ==
  ASSUME SetupSizes, SetupInv, NEW id \in Id, Setup!Restore(id)
  PROVE  SetupInv'
<1>1. Setup!TypeOK /\ LocksCounted /\ PartsTyped /\ EpochsFollow /\ OpenIsAdopted /\ SavedIsOpen /\ ListedIsSaved
      /\ WrittenIsListed
  BY DEF SetupInv
<1>2. Setup!AtGate /\ ~adopted /\ page.screen = "gate" /\ page.waits = "none"
  BY <1>1 DEF Setup!Restore, Setup!AtGate
<1>3. PICK h \in Setup!Allocated :
        /\ vaults' = [vaults EXCEPT ![h] = [id |-> id, pending |-> FALSE]] /\ Setup!Adopt(h)
  BY <1>1, <1>2 DEF Setup!Restore
<1>4. h \in Setup!Handle /\ vaults[h].id = None /\ \A e \in entries : e[2] # h
  BY <1>1, <1>2, <1>3, Free
<1>5. [id |-> id, pending |-> FALSE] \in VaultType /\ h # 0
  BY <1>1, <1>2, <1>3, <1>4, SetupNow DEF VaultType, Setup!Handle, Setup!Legacy
<1>6. /\ vaults' \in [Setup!Handle -> VaultType] /\ vaults'[h] = [id |-> id, pending |-> FALSE]
      /\ \A g \in Setup!Handle : vaults[g].id # None => vaults'[g] = vaults[g]
  BY <1>1, <1>2, <1>3, <1>4, <1>5, Made
<1>7. current' = h /\ adopted' = TRUE /\ fileEpoch' = fileEpoch + 1
  BY <1>1, <1>2, <1>3, <1>4, <1>5, <1>6 DEF Setup!Adopt
<1>8. /\ entries' = entries /\ segments' = segments /\ chosen' = chosen /\ session' = session
      /\ dialog' = dialog /\ worker' = worker /\ wrote' = wrote /\ strayed' = strayed
      /\ tally' = tally
  BY <1>1, <1>2, <1>3, <1>4, <1>5, <1>6, <1>7 DEF Setup!Restore, Setup!disk, Setup!engine,
     Setup!activity, Setup!history
<1>9. pendingId' = id /\ id # None
  BY <1>1, <1>2, <1>3, <1>4, <1>5, <1>6, <1>7, <1>8, SetupNow DEF Setup!Restore
<1>10. page' \in PageType /\ page'.screen = "setup" /\ page'.waits = "none"
  BY <1>1, <1>2, <1>3, <1>4, <1>5, <1>6, <1>7, <1>8, <1>9, SetupNow DEF Setup!Restore, PageType
<1>11. \A g \in Setup!Handle : vaults[g].id # None /\ InCatalog(g) => (InCatalog(g))'
  BY <1>1, <1>2, <1>3, <1>4, <1>5, <1>6, <1>7, <1>8, <1>9, <1>10 DEF InCatalog
<1>12. \A g \in wrote : g \in Setup!Handle /\ (strayed \/ (vaults[g].id # None /\ InCatalog(g)))
  BY <1>1, <1>2, <1>3, <1>4, <1>5, <1>6, <1>7, <1>8, <1>9, <1>10, <1>11, SetupNow DEF
     WrittenIsListed, ListedIsSaved, InCatalog
<1>13. Setup!TypeOK'
  <2>1. LocksCounted' /\ PartsTyped'
    BY <1>1, <1>2, <1>3, <1>4, <1>5, <1>6, <1>7, <1>8, <1>9, <1>10, <1>11, <1>12, SetupNow,
       SetupNothing DEF LocksCounted, PartsTyped
  <2>2. EpochsFollow'
    BY <1>1, <1>2, <1>3, <1>4, <1>5, <1>6, <1>7, <1>8, <1>9, <1>10, <1>11, <1>12, SetupNow,
       SetupNothing DEF EpochsFollow
  <2>3. QED
    BY <1>1, <1>2, <1>3, <1>4, <1>5, <1>6, <1>7, <1>8, <1>9, <1>10, <1>11, <1>12, <2>1, <2>2,
       SetupNow, SetupTypedAfter
<1>14. LocksCounted'
  BY <1>1, <1>2, <1>3, <1>4, <1>5, <1>6, <1>7, <1>8, <1>9, <1>10, <1>11, <1>12, SetupNow,
     SetupNothing DEF LocksCounted
<1>15. PartsTyped'
  BY <1>1, <1>2, <1>3, <1>4, <1>5, <1>6, <1>7, <1>8, <1>9, <1>10, <1>11, <1>12, SetupNow,
     SetupNothing DEF PartsTyped
<1>16. EpochsFollow'
  BY <1>1, <1>2, <1>3, <1>4, <1>5, <1>6, <1>7, <1>8, <1>9, <1>10, <1>11, <1>12, SetupNow,
     SetupNothing DEF EpochsFollow
<1>17. OpenIsAdopted'
  BY <1>1, <1>2, <1>3, <1>4, <1>5, <1>6, <1>7, <1>8, <1>9, <1>10, <1>11, <1>12, SetupNow,
     SetupNothing DEF OpenIsAdopted, InCatalog
<1>18. SavedIsOpen'
  BY <1>1, <1>2, <1>3, <1>4, <1>5, <1>6, <1>7, <1>8, <1>9, <1>10, <1>11, <1>12, SetupNow,
     SetupNothing DEF SavedIsOpen, EpochsFollow
<1>19. ListedIsSaved'
  <2> SUFFICES ASSUME NEW e \in entries'
               PROVE  vaults'[e[2]].id # None /\ e[2] \in segments' /\ ~vaults'[e[2]].pending
    BY DEF ListedIsSaved
  <2>1. CASE e \in entries
    <3>1. vaults[e[2]].id # None /\ e[2] \in segments /\ ~vaults[e[2]].pending /\ e[2] \in Setup!Handle
      BY <1>1, <2>1, Entries DEF ListedIsSaved
    <3>2. QED
      BY <3>1, <1>1, <1>2, <1>3, <1>4, <1>5, <1>6, <1>7, <1>8, <1>9, <1>10, <1>11, <1>12
  <2>2. CASE e \notin entries
    BY <2>2, <1>1, <1>2, <1>3, <1>4, <1>5, <1>6, <1>7, <1>8, <1>9, <1>10, <1>11, <1>12, SetupNow
  <2>3. QED
    BY <2>1, <2>2
<1>20. WrittenIsListed'
  BY <1>1, <1>2, <1>3, <1>4, <1>5, <1>6, <1>7, <1>8, <1>9, <1>10, <1>11, <1>12, SetupNow,
     SetupNothing DEF WrittenIsListed, InCatalog
<1>21. QED
  BY <1>13, <1>14, <1>15, <1>16, <1>17, <1>18, <1>19, <1>20 DEF SetupInv

LEMMA SetupOpenKeeps ==
  ASSUME SetupSizes, SetupInv, NEW id \in Id, Setup!Open(id)
  PROVE  SetupInv'
<1>1. Setup!TypeOK /\ LocksCounted /\ PartsTyped /\ EpochsFollow /\ OpenIsAdopted /\ SavedIsOpen /\ ListedIsSaved
      /\ WrittenIsListed
  BY DEF SetupInv
<1>2. Setup!AtGate /\ ~adopted /\ page.screen = "gate" /\ page.waits = "none"
  BY <1>1 DEF Setup!Open, Setup!AtGate
<1>3. LocksCounted' /\ tally'.locks = tally.locks
  BY <1>1, <1>2, SetupCounting DEF Setup!Open
<1>4. PICK h \in Setup!Candidates(id) :
        Setup!Exists(h) /\ vaults[h].id = id /\ h \in segments /\ Setup!Select(id, h) /\ Setup!Adopt(h)
  BY <1>1, <1>2, <1>3 DEF Setup!Open
<1>5. /\ h \in Setup!Handle /\ h # 0 /\ ~vaults[h].pending /\ id # None /\ vaults[h].id = id
      /\ h \in segments
  BY <1>1, <1>2, <1>3, <1>4, SetupNow DEF Setup!Exists, Setup!Handle, Setup!Legacy
<1>6. /\ entries' \subseteq Id \X Setup!Handle /\ entries \subseteq entries' /\ <<id, h>> \in entries'
      /\ \A e \in entries' : e \in entries \/ e[2] = h
  BY <1>1, <1>2, <1>3, <1>4, <1>5, Selected
<1>7. current' = h /\ adopted' = TRUE /\ fileEpoch' = fileEpoch + 1
  BY <1>1, <1>2, <1>3, <1>4, <1>5, <1>6 DEF Setup!Adopt
<1>8. /\ vaults' = vaults /\ segments' = segments /\ chosen' = chosen /\ session' = session
      /\ dialog' = dialog /\ worker' = worker /\ wrote' = wrote /\ strayed' = strayed
  BY <1>1, <1>2, <1>3, <1>4, <1>5, <1>6, <1>7 DEF Setup!Open, Setup!disk, Setup!engine,
     Setup!activity, Setup!history
<1>9. pendingId' = None /\ page' = Setup!Fresh("main")
  BY <1>1, <1>2, <1>3, <1>4, <1>5, <1>6, <1>7, <1>8 DEF Setup!Open
<1>10. page' \in PageType /\ page'.screen = "main" /\ page'.waits = "none"
  BY <1>1, <1>2, <1>3, <1>4, <1>5, <1>6, <1>7, <1>8, <1>9, SetupNothing
<1>11. \A g \in Setup!Handle : vaults[g].id # None /\ InCatalog(g) => (InCatalog(g))'
  BY <1>1, <1>2, <1>3, <1>4, <1>5, <1>6, <1>7, <1>8, <1>9, <1>10 DEF InCatalog
<1>12. \A g \in wrote : g \in Setup!Handle /\ (strayed \/ (vaults[g].id # None /\ InCatalog(g)))
  BY <1>1, <1>2, <1>3, <1>4, <1>5, <1>6, <1>7, <1>8, <1>9, <1>10, <1>11, SetupNow DEF
     WrittenIsListed, ListedIsSaved, InCatalog
<1>13. InCatalog(h)'
  BY <1>1, <1>2, <1>3, <1>4, <1>5, <1>6, <1>7, <1>8, <1>9, <1>10, <1>11, <1>12 DEF InCatalog
<1>14. Setup!TypeOK'
  <2>1. LocksCounted' /\ PartsTyped'
    BY <1>1, <1>2, <1>3, <1>4, <1>5, <1>6, <1>7, <1>8, <1>9, <1>10, <1>11, <1>12, <1>13, SetupNow,
       SetupNothing DEF LocksCounted, PartsTyped
  <2>2. EpochsFollow'
    BY <1>1, <1>2, <1>3, <1>4, <1>5, <1>6, <1>7, <1>8, <1>9, <1>10, <1>11, <1>12, <1>13, SetupNow,
       SetupNothing DEF EpochsFollow
  <2>3. QED
    BY <1>1, <1>2, <1>3, <1>4, <1>5, <1>6, <1>7, <1>8, <1>9, <1>10, <1>11, <1>12, <1>13, <2>1,
       <2>2, SetupNow, SetupTypedAfter
<1>15. LocksCounted'
  BY <1>1, <1>2, <1>3, <1>4, <1>5, <1>6, <1>7, <1>8, <1>9, <1>10, <1>11, <1>12, <1>13, SetupNow,
     SetupNothing DEF LocksCounted
<1>16. PartsTyped'
  BY <1>1, <1>2, <1>3, <1>4, <1>5, <1>6, <1>7, <1>8, <1>9, <1>10, <1>11, <1>12, <1>13, SetupNow,
     SetupNothing DEF PartsTyped
<1>17. EpochsFollow'
  BY <1>1, <1>2, <1>3, <1>4, <1>5, <1>6, <1>7, <1>8, <1>9, <1>10, <1>11, <1>12, <1>13, SetupNow,
     SetupNothing DEF EpochsFollow
<1>18. OpenIsAdopted'
  BY <1>1, <1>2, <1>3, <1>4, <1>5, <1>6, <1>7, <1>8, <1>9, <1>10, <1>11, <1>12, <1>13, SetupNow,
     SetupNothing DEF OpenIsAdopted, InCatalog
<1>19. SavedIsOpen'
  BY <1>1, <1>2, <1>3, <1>4, <1>5, <1>6, <1>7, <1>8, <1>9, <1>10, <1>11, <1>12, <1>13, SetupNow,
     SetupNothing DEF SavedIsOpen
<1>20. ListedIsSaved'
  <2> SUFFICES ASSUME NEW e \in entries'
               PROVE  vaults'[e[2]].id # None /\ e[2] \in segments' /\ ~vaults'[e[2]].pending
    BY DEF ListedIsSaved
  <2>1. CASE e \in entries
    <3>1. vaults[e[2]].id # None /\ e[2] \in segments /\ ~vaults[e[2]].pending /\ e[2] \in Setup!Handle
      BY <1>1, <2>1, Entries DEF ListedIsSaved
    <3>2. QED
      BY <3>1, <1>1, <1>2, <1>3, <1>4, <1>5, <1>6, <1>7, <1>8, <1>9, <1>10, <1>11, <1>12, <1>13
  <2>2. CASE e \notin entries
    BY <2>2, <1>1, <1>2, <1>3, <1>4, <1>5, <1>6, <1>7, <1>8, <1>9, <1>10, <1>11, <1>12, <1>13,
       SetupNow
  <2>3. QED
    BY <2>1, <2>2
<1>21. WrittenIsListed'
  BY <1>1, <1>2, <1>3, <1>4, <1>5, <1>6, <1>7, <1>8, <1>9, <1>10, <1>11, <1>12, <1>13, SetupNow,
     SetupNothing DEF WrittenIsListed, InCatalog
<1>22. QED
  BY <1>14, <1>15, <1>16, <1>17, <1>18, <1>19, <1>20, <1>21 DEF SetupInv

LEMMA SetupImportKeeps ==
  ASSUME SetupSizes, SetupInv, NEW id \in Id, Setup!Import(id)
  PROVE  SetupInv'
<1>1. Setup!TypeOK /\ LocksCounted /\ PartsTyped /\ EpochsFollow /\ OpenIsAdopted /\ SavedIsOpen /\ ListedIsSaved
      /\ WrittenIsListed
  BY DEF SetupInv
<1>2. Setup!AtGate /\ ~adopted /\ page.screen = "gate" /\ page.waits = "none"
  BY <1>1 DEF Setup!Import, Setup!AtGate
<1>3. PICK h \in Setup!Allocated :
        /\ vaults' = [vaults EXCEPT ![h] = [id |-> id, pending |-> FALSE]] /\ Setup!Adopt(h)
        /\ segments' = segments \union {h} /\ Setup!Select(id, h)
  BY <1>1, <1>2 DEF Setup!Import
<1>4. h \in Setup!Handle /\ vaults[h].id = None /\ \A e \in entries : e[2] # h
  BY <1>1, <1>2, <1>3, Free
<1>5. [id |-> id, pending |-> FALSE] \in VaultType /\ h # 0
  BY <1>1, <1>2, <1>3, <1>4, SetupNow DEF VaultType, Setup!Handle, Setup!Legacy
<1>6. /\ vaults' \in [Setup!Handle -> VaultType] /\ vaults'[h] = [id |-> id, pending |-> FALSE]
      /\ \A g \in Setup!Handle : vaults[g].id # None => vaults'[g] = vaults[g]
  BY <1>1, <1>2, <1>3, <1>4, <1>5, Made
<1>7. current' = h /\ adopted' = TRUE /\ fileEpoch' = fileEpoch + 1
  BY <1>1, <1>2, <1>3, <1>4, <1>5, <1>6 DEF Setup!Adopt
<1>8. /\ entries' \subseteq Id \X Setup!Handle /\ entries \subseteq entries' /\ <<id, h>> \in entries'
      /\ \A e \in entries' : e \in entries \/ e[2] = h
  BY <1>1, <1>2, <1>3, <1>4, <1>5, <1>6, <1>7, Selected
<1>9. /\ session' = session /\ dialog' = dialog /\ worker' = worker /\ wrote' = wrote
      /\ strayed' = strayed /\ tally' = tally
  BY <1>1, <1>2, <1>3, <1>4, <1>5, <1>6, <1>7, <1>8 DEF Setup!Import, Setup!disk, Setup!engine,
     Setup!activity, Setup!history
<1>10. pendingId' = None /\ chosen' = None /\ id # None /\ page' = Setup!Fresh("main")
  BY <1>1, <1>2, <1>3, <1>4, <1>5, <1>6, <1>7, <1>8, <1>9, SetupNow DEF Setup!Import
<1>11. page' \in PageType /\ page'.screen = "main" /\ page'.waits = "none"
  BY <1>1, <1>2, <1>3, <1>4, <1>5, <1>6, <1>7, <1>8, <1>9, <1>10, SetupNothing
<1>12. /\ vaults'[h].id = id /\ ~vaults'[h].pending /\ h \in segments'
      /\ segments' \subseteq Setup!Handle /\ segments \subseteq segments'
  BY <1>1, <1>2, <1>3, <1>4, <1>5, <1>6, <1>7, <1>8, <1>9, <1>10, <1>11, SetupNow
<1>13. \A g \in Setup!Handle : vaults[g].id # None /\ InCatalog(g) => (InCatalog(g))'
  BY <1>1, <1>2, <1>3, <1>4, <1>5, <1>6, <1>7, <1>8, <1>9, <1>10, <1>11, <1>12 DEF InCatalog
<1>14. \A g \in wrote : g \in Setup!Handle /\ (strayed \/ (vaults[g].id # None /\ InCatalog(g)))
  BY <1>1, <1>2, <1>3, <1>4, <1>5, <1>6, <1>7, <1>8, <1>9, <1>10, <1>11, <1>12, <1>13, SetupNow
     DEF WrittenIsListed, ListedIsSaved, InCatalog
<1>15. InCatalog(h)'
  BY <1>1, <1>2, <1>3, <1>4, <1>5, <1>6, <1>7, <1>8, <1>9, <1>10, <1>11, <1>12, <1>13, <1>14 DEF
     InCatalog
<1>16. Setup!TypeOK'
  <2>1. LocksCounted' /\ PartsTyped'
    BY <1>1, <1>2, <1>3, <1>4, <1>5, <1>6, <1>7, <1>8, <1>9, <1>10, <1>11, <1>12, <1>13, <1>14,
       <1>15, SetupNow, SetupNothing DEF LocksCounted, PartsTyped
  <2>2. EpochsFollow'
    BY <1>1, <1>2, <1>3, <1>4, <1>5, <1>6, <1>7, <1>8, <1>9, <1>10, <1>11, <1>12, <1>13, <1>14,
       <1>15, SetupNow, SetupNothing DEF EpochsFollow
  <2>3. QED
    BY <1>1, <1>2, <1>3, <1>4, <1>5, <1>6, <1>7, <1>8, <1>9, <1>10, <1>11, <1>12, <1>13, <1>14,
       <1>15, <2>1, <2>2, SetupNow, SetupTypedAfter
<1>17. LocksCounted'
  BY <1>1, <1>2, <1>3, <1>4, <1>5, <1>6, <1>7, <1>8, <1>9, <1>10, <1>11, <1>12, <1>13, <1>14,
     <1>15, SetupNow, SetupNothing DEF LocksCounted
<1>18. PartsTyped'
  BY <1>1, <1>2, <1>3, <1>4, <1>5, <1>6, <1>7, <1>8, <1>9, <1>10, <1>11, <1>12, <1>13, <1>14,
     <1>15, SetupNow, SetupNothing DEF PartsTyped
<1>19. EpochsFollow'
  BY <1>1, <1>2, <1>3, <1>4, <1>5, <1>6, <1>7, <1>8, <1>9, <1>10, <1>11, <1>12, <1>13, <1>14,
     <1>15, SetupNow, SetupNothing DEF EpochsFollow
<1>20. OpenIsAdopted'
  BY <1>1, <1>2, <1>3, <1>4, <1>5, <1>6, <1>7, <1>8, <1>9, <1>10, <1>11, <1>12, <1>13, <1>14,
     <1>15, SetupNow, SetupNothing DEF OpenIsAdopted, InCatalog
<1>21. SavedIsOpen'
  BY <1>1, <1>2, <1>3, <1>4, <1>5, <1>6, <1>7, <1>8, <1>9, <1>10, <1>11, <1>12, <1>13, <1>14,
     <1>15, SetupNow, SetupNothing DEF SavedIsOpen
<1>22. ListedIsSaved'
  <2> SUFFICES ASSUME NEW e \in entries'
               PROVE  vaults'[e[2]].id # None /\ e[2] \in segments' /\ ~vaults'[e[2]].pending
    BY DEF ListedIsSaved
  <2>1. CASE e \in entries
    <3>1. vaults[e[2]].id # None /\ e[2] \in segments /\ ~vaults[e[2]].pending /\ e[2] \in Setup!Handle
      BY <1>1, <2>1, Entries DEF ListedIsSaved
    <3>2. QED
      BY <3>1, <1>1, <1>2, <1>3, <1>4, <1>5, <1>6, <1>7, <1>8, <1>9, <1>10, <1>11, <1>12, <1>13,
         <1>14, <1>15
  <2>2. CASE e \notin entries
    BY <2>2, <1>1, <1>2, <1>3, <1>4, <1>5, <1>6, <1>7, <1>8, <1>9, <1>10, <1>11, <1>12, <1>13,
       <1>14, <1>15, SetupNow
  <2>3. QED
    BY <2>1, <2>2
<1>23. WrittenIsListed'
  BY <1>1, <1>2, <1>3, <1>4, <1>5, <1>6, <1>7, <1>8, <1>9, <1>10, <1>11, <1>12, <1>13, <1>14,
     <1>15, SetupNow, SetupNothing DEF WrittenIsListed, InCatalog
<1>24. QED
  BY <1>16, <1>17, <1>18, <1>19, <1>20, <1>21, <1>22, <1>23 DEF SetupInv

LEMMA SetupWriteKeeps ==
  ASSUME SetupSizes, SetupInv, Setup!Write
  PROVE  SetupInv'
<1>1. Setup!TypeOK /\ LocksCounted /\ PartsTyped /\ EpochsFollow /\ OpenIsAdopted /\ SavedIsOpen /\ ListedIsSaved
      /\ WrittenIsListed
  BY DEF SetupInv
<1>2. page.screen = "main" /\ adopted /\ current \in Setup!Handle
  BY <1>1, SetupNow DEF Setup!Write, OpenIsAdopted
<1>3. /\ vaults' = vaults /\ entries' = entries /\ segments' = segments /\ current' = current
      /\ adopted' = adopted /\ pendingId' = pendingId /\ fileEpoch' = fileEpoch /\ chosen' = chosen
      /\ session' = session /\ dialog' = dialog /\ worker' = worker /\ page' = page
      /\ strayed' = strayed /\ tally' = tally
  BY <1>1, <1>2 DEF Setup!Write, Setup!disk, Setup!engine, Setup!activity, Setup!history
<1>4. \A g \in Setup!Handle : (InCatalog(g))' <=> InCatalog(g)
  BY <1>1, <1>2, <1>3 DEF InCatalog
<1>5. wrote' = wrote \union {current}
  BY <1>1, <1>2, <1>3, <1>4 DEF Setup!Write
<1>6. \A g \in wrote : g \in Setup!Handle /\ (strayed \/ (vaults[g].id # None /\ InCatalog(g)))
  BY <1>1, <1>2, <1>3, <1>4, <1>5, SetupNow DEF WrittenIsListed, ListedIsSaved, InCatalog
<1>7. Setup!TypeOK'
  <2>1. LocksCounted' /\ PartsTyped'
    BY <1>1, <1>2, <1>3, <1>4, <1>5, <1>6, SetupNow, SetupNothing DEF LocksCounted, PartsTyped
  <2>2. EpochsFollow'
    BY <1>1, <1>2, <1>3, <1>4, <1>5, <1>6, SetupNow, SetupNothing DEF EpochsFollow
  <2>3. QED
    BY <1>1, <1>2, <1>3, <1>4, <1>5, <1>6, <2>1, <2>2, SetupNow, SetupTypedAfter
<1>8. LocksCounted'
  BY <1>1, <1>2, <1>3, <1>4, <1>5, <1>6, SetupNow, SetupNothing DEF LocksCounted
<1>9. PartsTyped'
  BY <1>1, <1>2, <1>3, <1>4, <1>5, <1>6, SetupNow, SetupNothing DEF PartsTyped
<1>10. EpochsFollow'
  BY <1>1, <1>2, <1>3, <1>4, <1>5, <1>6, SetupNow, SetupNothing DEF EpochsFollow
<1>11. OpenIsAdopted'
  BY <1>1, <1>2, <1>3, <1>4, <1>5, <1>6, SetupNow, SetupNothing DEF OpenIsAdopted, InCatalog
<1>12. SavedIsOpen'
  BY <1>1, <1>2, <1>3, <1>4, <1>5, <1>6, SetupNow, SetupNothing DEF SavedIsOpen
<1>13. ListedIsSaved'
  BY <1>1, <1>2, <1>3, <1>4, <1>5, <1>6, SetupNow, SetupNothing DEF ListedIsSaved
<1>14. WrittenIsListed'
  BY <1>1, <1>2, <1>3, <1>4, <1>5, <1>6, SetupNow, SetupNothing DEF WrittenIsListed, InCatalog
<1>15. QED
  BY <1>7, <1>8, <1>9, <1>10, <1>11, <1>12, <1>13, <1>14 DEF SetupInv

LEMMA SetupLockKeeps ==
  ASSUME SetupSizes, SetupInv, Setup!Lock
  PROVE  SetupInv'
<1>1. Setup!TypeOK /\ LocksCounted /\ PartsTyped /\ EpochsFollow /\ OpenIsAdopted /\ SavedIsOpen /\ ListedIsSaved
      /\ WrittenIsListed
  BY DEF SetupInv
<1>2. page.screen = "main" /\ adopted
  BY <1>1 DEF Setup!Lock
<1>3. LocksCounted' /\ tally'.locks = tally.locks + 1
  BY <1>1, <1>2, SetupCounting DEF Setup!Lock
<1>4. current' = current /\ pendingId' = pendingId
  BY <1>1, <1>2, <1>3 DEF Setup!Lock, Setup!LockVault
<1>5. /\ vaults' = vaults /\ entries' = entries /\ segments' = segments /\ current' = current
      /\ pendingId' = pendingId /\ dialog' = dialog /\ worker' = worker /\ wrote' = wrote
      /\ strayed' = strayed
  BY <1>1, <1>2, <1>3, <1>4 DEF Setup!Lock, Setup!disk, Setup!engine, Setup!activity,
     Setup!history
<1>6. \A g \in Setup!Handle : (InCatalog(g))' <=> InCatalog(g)
  BY <1>1, <1>2, <1>3, <1>4, <1>5 DEF InCatalog
<1>7. /\ adopted' = FALSE /\ fileEpoch' = fileEpoch + 1 /\ session' = session + 1 /\ chosen' = None
      /\ page' = Setup!Fresh("gate")
  BY <1>1, <1>2, <1>3, <1>4, <1>5, <1>6 DEF Setup!Lock, Setup!LockVault
<1>8. page' \in PageType /\ page'.screen = "gate" /\ page'.waits = "none"
  BY <1>1, <1>2, <1>3, <1>4, <1>5, <1>6, <1>7, SetupNothing
<1>9. \A g \in wrote : g \in Setup!Handle /\ (strayed \/ (vaults[g].id # None /\ InCatalog(g)))
  BY <1>1, <1>2, <1>3, <1>4, <1>5, <1>6, <1>7, <1>8, SetupNow DEF WrittenIsListed, ListedIsSaved,
     InCatalog
<1>10. Setup!TypeOK'
  <2>1. LocksCounted' /\ PartsTyped'
    BY <1>1, <1>2, <1>3, <1>4, <1>5, <1>6, <1>7, <1>8, <1>9, SetupNow, SetupNothing DEF
       LocksCounted, PartsTyped
  <2>2. EpochsFollow'
    BY <1>1, <1>2, <1>3, <1>4, <1>5, <1>6, <1>7, <1>8, <1>9, SetupNow, SetupNothing DEF
       EpochsFollow
  <2>3. QED
    BY <1>1, <1>2, <1>3, <1>4, <1>5, <1>6, <1>7, <1>8, <1>9, <2>1, <2>2, SetupNow, SetupTypedAfter
<1>11. LocksCounted'
  BY <1>1, <1>2, <1>3, <1>4, <1>5, <1>6, <1>7, <1>8, <1>9, SetupNow, SetupNothing DEF LocksCounted
<1>12. PartsTyped'
  BY <1>1, <1>2, <1>3, <1>4, <1>5, <1>6, <1>7, <1>8, <1>9, SetupNow, SetupNothing DEF PartsTyped
<1>13. EpochsFollow'
  BY <1>1, <1>2, <1>3, <1>4, <1>5, <1>6, <1>7, <1>8, <1>9, SetupNow, SetupNothing DEF EpochsFollow
<1>14. OpenIsAdopted'
  BY <1>1, <1>2, <1>3, <1>4, <1>5, <1>6, <1>7, <1>8, <1>9, SetupNow, SetupNothing DEF
     OpenIsAdopted, InCatalog
<1>15. SavedIsOpen'
  BY <1>1, <1>2, <1>3, <1>4, <1>5, <1>6, <1>7, <1>8, <1>9, SetupNow, SetupNothing DEF SavedIsOpen
<1>16. ListedIsSaved'
  BY <1>1, <1>2, <1>3, <1>4, <1>5, <1>6, <1>7, <1>8, <1>9, SetupNow, SetupNothing DEF
     ListedIsSaved
<1>17. WrittenIsListed'
  BY <1>1, <1>2, <1>3, <1>4, <1>5, <1>6, <1>7, <1>8, <1>9, SetupNow, SetupNothing DEF
     WrittenIsListed, InCatalog
<1>18. QED
  BY <1>10, <1>11, <1>12, <1>13, <1>14, <1>15, <1>16, <1>17 DEF SetupInv

LEMMA SetupChooseKeeps ==
  ASSUME SetupSizes, SetupInv, NEW id \in Id, Setup!Choose(id)
  PROVE  SetupInv'
<1>1. Setup!TypeOK /\ LocksCounted /\ PartsTyped /\ EpochsFollow /\ OpenIsAdopted /\ SavedIsOpen /\ ListedIsSaved
      /\ WrittenIsListed
  BY DEF SetupInv
<1>2. /\ vaults' = vaults /\ entries' = entries /\ segments' = segments /\ current' = current
      /\ pendingId' = pendingId /\ dialog' = dialog /\ worker' = worker /\ wrote' = wrote
      /\ strayed' = strayed
  BY <1>1 DEF Setup!Choose, Setup!LockVault, Setup!disk, Setup!engine, Setup!activity,
     Setup!history
<1>3. \A g \in Setup!Handle : (InCatalog(g))' <=> InCatalog(g)
  BY <1>1, <1>2 DEF InCatalog
<1>4. chosen' = id /\ adopted' = FALSE /\ page' = [Setup!Fresh("gate") EXCEPT !.chosen = TRUE]
  BY <1>1, <1>2, <1>3, SetupNow DEF Setup!Choose, Setup!LockVault
<1>5. page' \in PageType /\ page'.screen = "gate" /\ page'.waits = "none"
  BY <1>1, <1>2, <1>3, <1>4, SetupNothing DEF PageType
<1>6. \/ adopted /\ LocksCounted' /\ tally'.locks = tally.locks + 1 /\ fileEpoch' = fileEpoch + 1 /\ session' = session + 1
      \/ ~adopted /\ tally' = tally /\ fileEpoch' = fileEpoch /\ session' = session
  <2>1. CASE adopted
    BY <1>1, <2>1, SetupCounting DEF Setup!Choose, Setup!LockVault
  <2>2. CASE ~adopted
    BY <2>2 DEF Setup!Choose
  <2>3. QED
    BY <2>1, <2>2
<1>7. LocksCounted' /\ (session <= session' /\ session' <= session + 1)
  BY <1>1, <1>2, <1>3, <1>4, <1>5, <1>6, SetupNow DEF LocksCounted
<1>8. \A g \in wrote : g \in Setup!Handle /\ (strayed \/ (vaults[g].id # None /\ InCatalog(g)))
  BY <1>1, <1>2, <1>3, <1>4, <1>5, <1>6, <1>7, SetupNow DEF WrittenIsListed, ListedIsSaved,
     InCatalog
<1>9. Setup!TypeOK'
  <2>1. LocksCounted' /\ PartsTyped'
    BY <1>1, <1>2, <1>3, <1>4, <1>5, <1>6, <1>7, <1>8, SetupNow, SetupNothing DEF LocksCounted,
       PartsTyped
  <2>2. EpochsFollow'
    BY <1>1, <1>2, <1>3, <1>4, <1>5, <1>6, <1>7, <1>8, SetupNow, SetupNothing DEF EpochsFollow
  <2>3. QED
    BY <1>1, <1>2, <1>3, <1>4, <1>5, <1>6, <1>7, <1>8, <2>1, <2>2, SetupNow, SetupTypedAfter
<1>10. LocksCounted'
  BY <1>1, <1>2, <1>3, <1>4, <1>5, <1>6, <1>7, <1>8, SetupNow, SetupNothing DEF LocksCounted
<1>11. PartsTyped'
  BY <1>1, <1>2, <1>3, <1>4, <1>5, <1>6, <1>7, <1>8, SetupNow, SetupNothing DEF PartsTyped
<1>12. EpochsFollow'
  BY <1>1, <1>2, <1>3, <1>4, <1>5, <1>6, <1>7, <1>8, SetupNow, SetupNothing DEF EpochsFollow
<1>13. OpenIsAdopted'
  BY <1>1, <1>2, <1>3, <1>4, <1>5, <1>6, <1>7, <1>8, SetupNow, SetupNothing DEF OpenIsAdopted,
     InCatalog
<1>14. SavedIsOpen'
  BY <1>1, <1>2, <1>3, <1>4, <1>5, <1>6, <1>7, <1>8, SetupNow, SetupNothing DEF SavedIsOpen
<1>15. ListedIsSaved'
  BY <1>1, <1>2, <1>3, <1>4, <1>5, <1>6, <1>7, <1>8, SetupNow, SetupNothing DEF ListedIsSaved
<1>16. WrittenIsListed'
  BY <1>1, <1>2, <1>3, <1>4, <1>5, <1>6, <1>7, <1>8, SetupNow, SetupNothing DEF WrittenIsListed,
     InCatalog
<1>17. QED
  BY <1>9, <1>10, <1>11, <1>12, <1>13, <1>14, <1>15, <1>16 DEF SetupInv

LEMMA SetupSaveKeeps ==
  ASSUME SetupSizes, SetupInv, Setup!Save
  PROVE  SetupInv'
<1>1. Setup!TypeOK /\ LocksCounted /\ PartsTyped /\ EpochsFollow /\ OpenIsAdopted /\ SavedIsOpen /\ ListedIsSaved
      /\ WrittenIsListed
  BY DEF SetupInv
<1>2. LocksCounted' /\ tally'.locks = tally.locks
  BY <1>1, SetupCounting DEF Setup!Save
<1>3. page.waits = "none" /\ adopted
  BY <1>1, <1>2 DEF Setup!Save
<1>4. /\ vaults' = vaults /\ entries' = entries /\ segments' = segments /\ current' = current
      /\ adopted' = adopted /\ pendingId' = pendingId /\ fileEpoch' = fileEpoch /\ chosen' = chosen
      /\ session' = session /\ worker' = worker /\ wrote' = wrote /\ strayed' = strayed
  BY <1>1, <1>2, <1>3 DEF Setup!Save, Setup!disk, Setup!engine, Setup!activity, Setup!history
<1>5. \A g \in Setup!Handle : (InCatalog(g))' <=> InCatalog(g)
  BY <1>1, <1>2, <1>3, <1>4 DEF InCatalog
<1>6. dialog' = [at |-> "up", epoch |-> fileEpoch, handle |-> 0]
  BY <1>1, <1>2, <1>3, <1>4, <1>5 DEF Setup!Save
<1>7. dialog' \in DialogType /\ dialog'.epoch = fileEpoch
  BY <1>1, <1>2, <1>3, <1>4, <1>5, <1>6, SetupNow DEF DialogType
<1>8. session \in 0 .. MaxLocks
  BY <1>1, <1>2, <1>3, <1>4, <1>5, <1>6, <1>7, SetupNow DEF EpochsFollow, LocksCounted
<1>9. page' \in PageType /\ page'.screen = page.screen /\ page'.waits = "file"
  BY <1>1, <1>2, <1>3, <1>4, <1>5, <1>6, <1>7, <1>8, SetupNow DEF Setup!Save, PageType
<1>10. \A g \in wrote : g \in Setup!Handle /\ (strayed \/ (vaults[g].id # None /\ InCatalog(g)))
  BY <1>1, <1>2, <1>3, <1>4, <1>5, <1>6, <1>7, <1>8, <1>9, SetupNow DEF WrittenIsListed,
     ListedIsSaved, InCatalog
<1>11. Setup!TypeOK'
  <2>1. LocksCounted' /\ PartsTyped'
    BY <1>1, <1>2, <1>3, <1>4, <1>5, <1>6, <1>7, <1>8, <1>9, <1>10, SetupNow, SetupNothing DEF
       LocksCounted, PartsTyped
  <2>2. EpochsFollow'
    BY <1>1, <1>2, <1>3, <1>4, <1>5, <1>6, <1>7, <1>8, <1>9, <1>10, SetupNow, SetupNothing DEF
       EpochsFollow
  <2>3. QED
    BY <1>1, <1>2, <1>3, <1>4, <1>5, <1>6, <1>7, <1>8, <1>9, <1>10, <2>1, <2>2, SetupNow,
       SetupTypedAfter
<1>12. LocksCounted'
  BY <1>1, <1>2, <1>3, <1>4, <1>5, <1>6, <1>7, <1>8, <1>9, <1>10, SetupNow, SetupNothing DEF
     LocksCounted
<1>13. PartsTyped'
  BY <1>1, <1>2, <1>3, <1>4, <1>5, <1>6, <1>7, <1>8, <1>9, <1>10, SetupNow, SetupNothing DEF
     PartsTyped
<1>14. EpochsFollow'
  BY <1>1, <1>2, <1>3, <1>4, <1>5, <1>6, <1>7, <1>8, <1>9, <1>10, SetupNow, SetupNothing DEF
     EpochsFollow
<1>15. OpenIsAdopted'
  BY <1>1, <1>2, <1>3, <1>4, <1>5, <1>6, <1>7, <1>8, <1>9, <1>10, SetupNow, SetupNothing DEF
     OpenIsAdopted, InCatalog
<1>16. SavedIsOpen'
  BY <1>1, <1>2, <1>3, <1>4, <1>5, <1>6, <1>7, <1>8, <1>9, <1>10, SetupNow, SetupNothing DEF
     SavedIsOpen
<1>17. ListedIsSaved'
  BY <1>1, <1>2, <1>3, <1>4, <1>5, <1>6, <1>7, <1>8, <1>9, <1>10, SetupNow, SetupNothing DEF
     ListedIsSaved
<1>18. WrittenIsListed'
  BY <1>1, <1>2, <1>3, <1>4, <1>5, <1>6, <1>7, <1>8, <1>9, <1>10, SetupNow, SetupNothing DEF
     WrittenIsListed, InCatalog
<1>19. QED
  BY <1>11, <1>12, <1>13, <1>14, <1>15, <1>16, <1>17, <1>18 DEF SetupInv

LEMMA SetupCancelKeeps ==
  ASSUME SetupSizes, SetupInv, Setup!Cancel
  PROVE  SetupInv'
<1>1. Setup!TypeOK /\ LocksCounted /\ PartsTyped /\ EpochsFollow /\ OpenIsAdopted /\ SavedIsOpen /\ ListedIsSaved
      /\ WrittenIsListed
  BY DEF SetupInv
<1>2. /\ vaults' = vaults /\ entries' = entries /\ segments' = segments /\ current' = current
      /\ adopted' = adopted /\ pendingId' = pendingId /\ fileEpoch' = fileEpoch /\ chosen' = chosen
      /\ session' = session /\ worker' = worker /\ wrote' = wrote /\ strayed' = strayed
      /\ tally' = tally
  BY <1>1 DEF Setup!Cancel, Setup!disk, Setup!engine, Setup!activity, Setup!history
<1>3. \A g \in Setup!Handle : (InCatalog(g))' <=> InCatalog(g)
  BY <1>1, <1>2 DEF InCatalog
<1>4. dialog' = Setup!Idle
  BY <1>1, <1>2, <1>3 DEF Setup!Cancel
<1>5. /\ page' \in PageType /\ page'.screen = page.screen
      /\ (page'.waits = page.waits \/ (page.waits = "file" /\ page'.waits = "failed"))
  BY <1>1, <1>2, <1>3, <1>4, SetupNow, Hears DEF Setup!Cancel
<1>6. \A g \in wrote : g \in Setup!Handle /\ (strayed \/ (vaults[g].id # None /\ InCatalog(g)))
  BY <1>1, <1>2, <1>3, <1>4, <1>5, SetupNow DEF WrittenIsListed, ListedIsSaved, InCatalog
<1>7. Setup!TypeOK'
  <2>1. LocksCounted' /\ PartsTyped'
    BY <1>1, <1>2, <1>3, <1>4, <1>5, <1>6, SetupNow, SetupNothing DEF LocksCounted, PartsTyped
  <2>2. EpochsFollow'
    BY <1>1, <1>2, <1>3, <1>4, <1>5, <1>6, SetupNow, SetupNothing DEF EpochsFollow
  <2>3. QED
    BY <1>1, <1>2, <1>3, <1>4, <1>5, <1>6, <2>1, <2>2, SetupNow, SetupTypedAfter
<1>8. LocksCounted'
  BY <1>1, <1>2, <1>3, <1>4, <1>5, <1>6, SetupNow, SetupNothing DEF LocksCounted
<1>9. PartsTyped'
  BY <1>1, <1>2, <1>3, <1>4, <1>5, <1>6, SetupNow, SetupNothing DEF PartsTyped
<1>10. EpochsFollow'
  BY <1>1, <1>2, <1>3, <1>4, <1>5, <1>6, SetupNow, SetupNothing DEF EpochsFollow
<1>11. OpenIsAdopted'
  BY <1>1, <1>2, <1>3, <1>4, <1>5, <1>6, SetupNow, SetupNothing DEF OpenIsAdopted, InCatalog
<1>12. SavedIsOpen'
  BY <1>1, <1>2, <1>3, <1>4, <1>5, <1>6, SetupNow, SetupNothing DEF SavedIsOpen
<1>13. ListedIsSaved'
  BY <1>1, <1>2, <1>3, <1>4, <1>5, <1>6, SetupNow, SetupNothing DEF ListedIsSaved
<1>14. WrittenIsListed'
  BY <1>1, <1>2, <1>3, <1>4, <1>5, <1>6, SetupNow, SetupNothing DEF WrittenIsListed, InCatalog
<1>15. QED
  BY <1>7, <1>8, <1>9, <1>10, <1>11, <1>12, <1>13, <1>14 DEF SetupInv

LEMMA SetupPickKeeps ==
  ASSUME SetupSizes, SetupInv, Setup!Pick
  PROVE  SetupInv'
<1>1. Setup!TypeOK /\ LocksCounted /\ PartsTyped /\ EpochsFollow /\ OpenIsAdopted /\ SavedIsOpen /\ ListedIsSaved
      /\ WrittenIsListed
  BY DEF SetupInv
<1>2. /\ vaults' = vaults /\ entries' = entries /\ segments' = segments /\ current' = current
      /\ adopted' = adopted /\ pendingId' = pendingId /\ fileEpoch' = fileEpoch /\ chosen' = chosen
      /\ session' = session /\ page' = page /\ wrote' = wrote /\ strayed' = strayed
      /\ tally' = tally
  BY <1>1 DEF Setup!Pick, Setup!disk, Setup!engine, Setup!activity, Setup!history
<1>3. \A g \in Setup!Handle : (InCatalog(g))' <=> InCatalog(g)
  BY <1>1, <1>2 DEF InCatalog
<1>4. worker' = [dialog EXCEPT !.at = "asked"] /\ dialog' = Setup!Idle
  BY <1>1, <1>2, <1>3 DEF Setup!Pick
<1>5. worker' \in WorkerType /\ worker'.epoch = dialog.epoch /\ worker'.at = "asked"
  BY <1>1, <1>2, <1>3, <1>4, SetupNow DEF DialogType, WorkerType
<1>6. \A g \in wrote : g \in Setup!Handle /\ (strayed \/ (vaults[g].id # None /\ InCatalog(g)))
  BY <1>1, <1>2, <1>3, <1>4, <1>5, SetupNow DEF WrittenIsListed, ListedIsSaved, InCatalog
<1>7. Setup!TypeOK'
  <2>1. LocksCounted' /\ PartsTyped'
    BY <1>1, <1>2, <1>3, <1>4, <1>5, <1>6, SetupNow, SetupNothing DEF LocksCounted, PartsTyped
  <2>2. EpochsFollow'
    BY <1>1, <1>2, <1>3, <1>4, <1>5, <1>6, SetupNow, SetupNothing DEF EpochsFollow
  <2>3. QED
    BY <1>1, <1>2, <1>3, <1>4, <1>5, <1>6, <2>1, <2>2, SetupNow, SetupTypedAfter
<1>8. LocksCounted'
  BY <1>1, <1>2, <1>3, <1>4, <1>5, <1>6, SetupNow, SetupNothing DEF LocksCounted
<1>9. PartsTyped'
  BY <1>1, <1>2, <1>3, <1>4, <1>5, <1>6, SetupNow, SetupNothing DEF PartsTyped
<1>10. EpochsFollow'
  BY <1>1, <1>2, <1>3, <1>4, <1>5, <1>6, SetupNow, SetupNothing DEF EpochsFollow
<1>11. OpenIsAdopted'
  BY <1>1, <1>2, <1>3, <1>4, <1>5, <1>6, SetupNow, SetupNothing DEF OpenIsAdopted, InCatalog
<1>12. SavedIsOpen'
  BY <1>1, <1>2, <1>3, <1>4, <1>5, <1>6, SetupNow, SetupNothing DEF SavedIsOpen
<1>13. ListedIsSaved'
  BY <1>1, <1>2, <1>3, <1>4, <1>5, <1>6, SetupNow, SetupNothing DEF ListedIsSaved
<1>14. WrittenIsListed'
  BY <1>1, <1>2, <1>3, <1>4, <1>5, <1>6, SetupNow, SetupNothing DEF WrittenIsListed, InCatalog
<1>15. QED
  BY <1>7, <1>8, <1>9, <1>10, <1>11, <1>12, <1>13, <1>14 DEF SetupInv

LEMMA SetupExportKeeps ==
  ASSUME SetupSizes, SetupInv, Setup!Export
  PROVE  SetupInv'
<1>1. Setup!TypeOK /\ LocksCounted /\ PartsTyped /\ EpochsFollow /\ OpenIsAdopted /\ SavedIsOpen /\ ListedIsSaved
      /\ WrittenIsListed
  BY DEF SetupInv
<1>2. /\ vaults' = vaults /\ entries' = entries /\ current' = current /\ adopted' = adopted
      /\ pendingId' = pendingId /\ fileEpoch' = fileEpoch /\ chosen' = chosen
      /\ session' = session /\ dialog' = dialog /\ wrote' = wrote /\ strayed' = strayed
      /\ tally' = tally
  BY <1>1 DEF Setup!Export, Setup!disk, Setup!engine, Setup!activity, Setup!history
<1>3. \A g \in Setup!Handle : (InCatalog(g))' <=> InCatalog(g)
  BY <1>1, <1>2 DEF InCatalog
<1>4. \/ Setup!InSession(worker.epoch) /\ worker' = [worker EXCEPT !.at = "read", !.handle = current] /\ segments' = segments \union {current} /\ page' = page
      \/ worker' = Setup!Idle /\ segments' = segments /\ Setup!Told("failed")
  BY <1>1, <1>2, <1>3 DEF Setup!Export
<1>5. /\ page' \in PageType /\ page'.screen = page.screen
      /\ (page'.waits = page.waits \/ (page.waits = "file" /\ page'.waits = "failed"))
  BY <1>1, <1>2, <1>3, <1>4, SetupNow, Hears
<1>6. /\ worker' \in WorkerType /\ (worker'.epoch = worker.epoch \/ worker'.epoch = 0)
      /\ (worker'.at = "read" => current \in segments')
  BY <1>1, <1>2, <1>3, <1>4, <1>5, SetupNow, SetupNothing DEF WorkerType
<1>7. segments' \subseteq Setup!Handle /\ segments \subseteq segments'
  BY <1>1, <1>2, <1>3, <1>4, <1>5, <1>6, SetupNow DEF Setup!InSession, OpenIsAdopted
<1>8. \A g \in wrote : g \in Setup!Handle /\ (strayed \/ (vaults[g].id # None /\ InCatalog(g)))
  BY <1>1, <1>2, <1>3, <1>4, <1>5, <1>6, <1>7, SetupNow DEF WrittenIsListed, ListedIsSaved,
     InCatalog
<1>9. Setup!TypeOK'
  <2>1. LocksCounted' /\ PartsTyped'
    BY <1>1, <1>2, <1>3, <1>4, <1>5, <1>6, <1>7, <1>8, SetupNow, SetupNothing DEF LocksCounted,
       PartsTyped
  <2>2. EpochsFollow'
    BY <1>1, <1>2, <1>3, <1>4, <1>5, <1>6, <1>7, <1>8, SetupNow, SetupNothing DEF EpochsFollow
  <2>3. QED
    BY <1>1, <1>2, <1>3, <1>4, <1>5, <1>6, <1>7, <1>8, <2>1, <2>2, SetupNow, SetupTypedAfter
<1>10. LocksCounted'
  BY <1>1, <1>2, <1>3, <1>4, <1>5, <1>6, <1>7, <1>8, SetupNow, SetupNothing DEF LocksCounted
<1>11. PartsTyped'
  BY <1>1, <1>2, <1>3, <1>4, <1>5, <1>6, <1>7, <1>8, SetupNow, SetupNothing DEF PartsTyped
<1>12. EpochsFollow'
  BY <1>1, <1>2, <1>3, <1>4, <1>5, <1>6, <1>7, <1>8, SetupNow, SetupNothing DEF EpochsFollow
<1>13. OpenIsAdopted'
  BY <1>1, <1>2, <1>3, <1>4, <1>5, <1>6, <1>7, <1>8, SetupNow, SetupNothing DEF OpenIsAdopted,
     InCatalog
<1>14. SavedIsOpen'
  BY <1>1, <1>2, <1>3, <1>4, <1>5, <1>6, <1>7, <1>8, SetupNow, SetupNothing DEF SavedIsOpen
<1>15. ListedIsSaved'
  BY <1>1, <1>2, <1>3, <1>4, <1>5, <1>6, <1>7, <1>8, SetupNow, SetupNothing DEF ListedIsSaved
<1>16. WrittenIsListed'
  BY <1>1, <1>2, <1>3, <1>4, <1>5, <1>6, <1>7, <1>8, SetupNow, SetupNothing DEF WrittenIsListed,
     InCatalog
<1>17. QED
  BY <1>9, <1>10, <1>11, <1>12, <1>13, <1>14, <1>15, <1>16 DEF SetupInv

LEMMA SetupWriteFailsKeeps ==
  ASSUME SetupSizes, SetupInv, Setup!WriteFails
  PROVE  SetupInv'
<1>1. Setup!TypeOK /\ LocksCounted /\ PartsTyped /\ EpochsFollow /\ OpenIsAdopted /\ SavedIsOpen /\ ListedIsSaved
      /\ WrittenIsListed
  BY DEF SetupInv
<1>2. /\ vaults' = vaults /\ entries' = entries /\ segments' = segments /\ current' = current
      /\ adopted' = adopted /\ pendingId' = pendingId /\ fileEpoch' = fileEpoch /\ chosen' = chosen
      /\ session' = session /\ dialog' = dialog /\ wrote' = wrote /\ strayed' = strayed
      /\ tally' = tally
  BY <1>1 DEF Setup!WriteFails, Setup!disk, Setup!engine, Setup!activity, Setup!history
<1>3. \A g \in Setup!Handle : (InCatalog(g))' <=> InCatalog(g)
  BY <1>1, <1>2 DEF InCatalog
<1>4. worker' = Setup!Idle
  BY <1>1, <1>2, <1>3 DEF Setup!WriteFails
<1>5. /\ page' \in PageType /\ page'.screen = page.screen
      /\ (page'.waits = page.waits \/ (page.waits = "file" /\ page'.waits = "failed"))
  BY <1>1, <1>2, <1>3, <1>4, SetupNow, Hears DEF Setup!WriteFails
<1>6. \A g \in wrote : g \in Setup!Handle /\ (strayed \/ (vaults[g].id # None /\ InCatalog(g)))
  BY <1>1, <1>2, <1>3, <1>4, <1>5, SetupNow DEF WrittenIsListed, ListedIsSaved, InCatalog
<1>7. Setup!TypeOK'
  <2>1. LocksCounted' /\ PartsTyped'
    BY <1>1, <1>2, <1>3, <1>4, <1>5, <1>6, SetupNow, SetupNothing DEF LocksCounted, PartsTyped
  <2>2. EpochsFollow'
    BY <1>1, <1>2, <1>3, <1>4, <1>5, <1>6, SetupNow, SetupNothing DEF EpochsFollow
  <2>3. QED
    BY <1>1, <1>2, <1>3, <1>4, <1>5, <1>6, <2>1, <2>2, SetupNow, SetupTypedAfter
<1>8. LocksCounted'
  BY <1>1, <1>2, <1>3, <1>4, <1>5, <1>6, SetupNow, SetupNothing DEF LocksCounted
<1>9. PartsTyped'
  BY <1>1, <1>2, <1>3, <1>4, <1>5, <1>6, SetupNow, SetupNothing DEF PartsTyped
<1>10. EpochsFollow'
  BY <1>1, <1>2, <1>3, <1>4, <1>5, <1>6, SetupNow, SetupNothing DEF EpochsFollow
<1>11. OpenIsAdopted'
  BY <1>1, <1>2, <1>3, <1>4, <1>5, <1>6, SetupNow, SetupNothing DEF OpenIsAdopted, InCatalog
<1>12. SavedIsOpen'
  BY <1>1, <1>2, <1>3, <1>4, <1>5, <1>6, SetupNow, SetupNothing DEF SavedIsOpen
<1>13. ListedIsSaved'
  BY <1>1, <1>2, <1>3, <1>4, <1>5, <1>6, SetupNow, SetupNothing DEF ListedIsSaved
<1>14. WrittenIsListed'
  BY <1>1, <1>2, <1>3, <1>4, <1>5, <1>6, SetupNow, SetupNothing DEF WrittenIsListed, InCatalog
<1>15. QED
  BY <1>7, <1>8, <1>9, <1>10, <1>11, <1>12, <1>13, <1>14 DEF SetupInv

LEMMA SetupFileSavedKeeps ==
  ASSUME SetupSizes, SetupInv, Setup!FileSaved
  PROVE  SetupInv'
<1>1. Setup!TypeOK /\ LocksCounted /\ PartsTyped /\ EpochsFollow /\ OpenIsAdopted /\ SavedIsOpen /\ ListedIsSaved
      /\ WrittenIsListed
  BY DEF SetupInv
<1>2. /\ segments' = segments /\ current' = current /\ adopted' = adopted /\ fileEpoch' = fileEpoch
      /\ chosen' = chosen /\ session' = session /\ dialog' = dialog /\ wrote' = wrote
      /\ strayed' = strayed /\ tally' = tally
  BY <1>1 DEF Setup!FileSaved, Setup!disk, Setup!engine, Setup!activity, Setup!history
<1>3. (vaults' = vaults /\ entries' = entries /\ pendingId' = pendingId) \/ (adopted /\ current \in segments
         /\ Setup!Confirm)
  BY <1>1, <1>2 DEF Setup!FileSaved, Setup!ConfirmsSaved, Setup!InSession, SavedIsOpen
<1>4. \/ vaults' = vaults /\ entries' = entries /\ pendingId' = pendingId
      \/ /\ adopted /\ current \in segments /\ pendingId' = None
         /\ <<vaults'[current].id, current>> \in entries' /\ ~vaults'[current].pending /\ current \in Setup!Handle
  BY <1>1, <1>2, <1>3, Confirms, SetupNow DEF OpenIsAdopted
<1>5. /\ vaults' \in [Setup!Handle -> VaultType] /\ entries' \subseteq Id \X Setup!Handle /\ entries \subseteq entries'
      /\ \A g \in Setup!Handle : vaults'[g].id = vaults[g].id /\ (~vaults[g].pending => ~vaults'[g].pending)
      /\ \A e \in entries' : e \in entries \/ (adopted /\ e[2] = current)
  BY <1>1, <1>2, <1>3, <1>4, Confirms, SetupNow
<1>6. worker' = Setup!Idle
  BY <1>1, <1>2, <1>3, <1>4, <1>5 DEF Setup!FileSaved
<1>7. /\ page' \in PageType /\ page'.screen = page.screen
      /\ \/ page'.waits = page.waits
         \/ page'.waits = "failed" /\ adopted
         \/ page'.waits = "saved" /\ current \in segments /\ adopted
  <2>1. \/ Setup!Told("failed")
        \/ Setup!Told("saved") /\ adopted /\ current \in segments
    BY <1>1 DEF Setup!FileSaved, Setup!ConfirmsSaved, Setup!InSession, SavedIsOpen
  <2>2. page \in PageType /\ (page.waits = "file" => adopted)
    BY <1>1, SetupNow DEF SavedIsOpen
  <2>3. CASE Setup!Told("failed")
    BY <2>2, <2>3, Hears
  <2>4. CASE Setup!Told("saved") /\ adopted /\ current \in segments
    BY <2>2, <2>4, Hears
  <2>5. QED
    BY <2>1, <2>3, <2>4
<1>8. \A g \in Setup!Handle : InCatalog(g) => (InCatalog(g))'
  BY <1>1, <1>2, <1>3, <1>4, <1>5, <1>6, <1>7 DEF InCatalog
<1>9. \A g \in wrote : g \in Setup!Handle /\ (strayed \/ (vaults[g].id # None /\ InCatalog(g)))
  BY <1>1, <1>2, <1>3, <1>4, <1>5, <1>6, <1>7, <1>8, SetupNow DEF WrittenIsListed, ListedIsSaved,
     InCatalog
<1>10. Setup!TypeOK'
  <2>1. LocksCounted' /\ PartsTyped'
    BY <1>1, <1>2, <1>3, <1>4, <1>5, <1>6, <1>7, <1>8, <1>9, SetupNow, SetupNothing DEF
       LocksCounted, PartsTyped
  <2>2. EpochsFollow'
    BY <1>1, <1>2, <1>3, <1>4, <1>5, <1>6, <1>7, <1>8, <1>9, SetupNow, SetupNothing DEF
       EpochsFollow
  <2>3. QED
    BY <1>1, <1>2, <1>3, <1>4, <1>5, <1>6, <1>7, <1>8, <1>9, <2>1, <2>2, SetupNow, SetupTypedAfter
<1>11. LocksCounted'
  BY <1>1, <1>2, <1>3, <1>4, <1>5, <1>6, <1>7, <1>8, <1>9, SetupNow, SetupNothing DEF LocksCounted
<1>12. PartsTyped'
  BY <1>1, <1>2, <1>3, <1>4, <1>5, <1>6, <1>7, <1>8, <1>9, SetupNow, SetupNothing DEF PartsTyped
<1>13. EpochsFollow'
  BY <1>1, <1>2, <1>3, <1>4, <1>5, <1>6, <1>7, <1>8, <1>9, SetupNow, SetupNothing DEF EpochsFollow
<1>14. OpenIsAdopted'
  BY <1>1, <1>2, <1>3, <1>4, <1>5, <1>6, <1>7, <1>8, <1>9, SetupNow, SetupNothing DEF
     OpenIsAdopted, InCatalog
<1>15. SavedIsOpen'
  BY <1>1, <1>2, <1>3, <1>4, <1>5, <1>6, <1>7, <1>8, <1>9, SetupNow, SetupNothing DEF SavedIsOpen
<1>16. ListedIsSaved'
  <2> SUFFICES ASSUME NEW e \in entries'
               PROVE  vaults'[e[2]].id # None /\ e[2] \in segments' /\ ~vaults'[e[2]].pending
    BY DEF ListedIsSaved
  <2>1. CASE e \in entries
    <3>1. vaults[e[2]].id # None /\ e[2] \in segments /\ ~vaults[e[2]].pending /\ e[2] \in Setup!Handle
      BY <1>1, <2>1, Entries DEF ListedIsSaved
    <3>2. QED
      BY <3>1, <1>1, <1>2, <1>3, <1>4, <1>5, <1>6, <1>7, <1>8, <1>9
  <2>2. CASE e \notin entries
    BY <2>2, <1>1, <1>2, <1>3, <1>4, <1>5, <1>6, <1>7, <1>8, <1>9, SetupNow
  <2>3. QED
    BY <2>1, <2>2
<1>17. WrittenIsListed'
  BY <1>1, <1>2, <1>3, <1>4, <1>5, <1>6, <1>7, <1>8, <1>9, SetupNow, SetupNothing DEF
     WrittenIsListed, InCatalog
<1>18. QED
  BY <1>10, <1>11, <1>12, <1>13, <1>14, <1>15, <1>16, <1>17 DEF SetupInv

LEMMA SetupHearKeeps ==
  ASSUME SetupSizes, SetupInv, Setup!Hear
  PROVE  SetupInv'
<1>1. Setup!TypeOK /\ LocksCounted /\ PartsTyped /\ EpochsFollow /\ OpenIsAdopted /\ SavedIsOpen /\ ListedIsSaved
      /\ WrittenIsListed
  BY DEF SetupInv
<1>2. /\ vaults' = vaults /\ entries' = entries /\ segments' = segments /\ current' = current
      /\ adopted' = adopted /\ pendingId' = pendingId /\ fileEpoch' = fileEpoch /\ chosen' = chosen
      /\ session' = session /\ dialog' = dialog /\ worker' = worker /\ wrote' = wrote
      /\ strayed' = strayed /\ tally' = tally
  BY <1>1 DEF Setup!Hear, Setup!disk, Setup!engine, Setup!activity, Setup!history
<1>3. \A g \in Setup!Handle : (InCatalog(g))' <=> InCatalog(g)
  BY <1>1, <1>2 DEF InCatalog
<1>4. /\ page' \in PageType /\ page'.screen = page.screen /\ page.waits # "none"
      /\ (page.waits = "saved" \/ page'.waits = "none")
  BY <1>1, <1>2, <1>3, SetupNow DEF Setup!Hear, PageType
<1>5. \A g \in wrote : g \in Setup!Handle /\ (strayed \/ (vaults[g].id # None /\ InCatalog(g)))
  BY <1>1, <1>2, <1>3, <1>4, SetupNow DEF WrittenIsListed, ListedIsSaved, InCatalog
<1>6. Setup!TypeOK'
  <2>1. LocksCounted' /\ PartsTyped'
    BY <1>1, <1>2, <1>3, <1>4, <1>5, SetupNow, SetupNothing DEF LocksCounted, PartsTyped
  <2>2. EpochsFollow'
    BY <1>1, <1>2, <1>3, <1>4, <1>5, SetupNow, SetupNothing DEF EpochsFollow
  <2>3. QED
    BY <1>1, <1>2, <1>3, <1>4, <1>5, <2>1, <2>2, SetupNow, SetupTypedAfter
<1>7. LocksCounted'
  BY <1>1, <1>2, <1>3, <1>4, <1>5, SetupNow, SetupNothing DEF LocksCounted
<1>8. PartsTyped'
  BY <1>1, <1>2, <1>3, <1>4, <1>5, SetupNow, SetupNothing DEF PartsTyped
<1>9. EpochsFollow'
  BY <1>1, <1>2, <1>3, <1>4, <1>5, SetupNow, SetupNothing DEF EpochsFollow
<1>10. OpenIsAdopted'
  BY <1>1, <1>2, <1>3, <1>4, <1>5, SetupNow, SetupNothing DEF OpenIsAdopted, InCatalog
<1>11. SavedIsOpen'
  BY <1>1, <1>2, <1>3, <1>4, <1>5, SetupNow, SetupNothing DEF SavedIsOpen
<1>12. ListedIsSaved'
  BY <1>1, <1>2, <1>3, <1>4, <1>5, SetupNow, SetupNothing DEF ListedIsSaved
<1>13. WrittenIsListed'
  BY <1>1, <1>2, <1>3, <1>4, <1>5, SetupNow, SetupNothing DEF WrittenIsListed, InCatalog
<1>14. QED
  BY <1>6, <1>7, <1>8, <1>9, <1>10, <1>11, <1>12, <1>13 DEF SetupInv

LEMMA SetupSavedKeeps ==
  ASSUME SetupSizes, SetupInv, Setup!Saved
  PROVE  SetupInv'
<1>1. Setup!TypeOK /\ LocksCounted /\ PartsTyped /\ EpochsFollow /\ OpenIsAdopted /\ SavedIsOpen /\ ListedIsSaved
      /\ WrittenIsListed
  BY DEF SetupInv
<1>2. /\ segments' = segments /\ current' = current /\ adopted' = adopted /\ fileEpoch' = fileEpoch
      /\ chosen' = chosen /\ session' = session /\ dialog' = dialog /\ worker' = worker
      /\ wrote' = wrote /\ strayed' = strayed /\ tally' = tally
  BY <1>1 DEF Setup!Saved, Setup!disk, Setup!engine, Setup!activity, Setup!history
<1>3. page.waits = "post" /\ adopted /\ current \in segments
  BY <1>1, <1>2 DEF Setup!Saved, SavedIsOpen
<1>4. /\ page' \in PageType /\ page'.waits = "none"
      /\ page'.screen = page.screen \/ (Setup!Confirm /\ page'.screen = "main")
  BY <1>1, <1>2, <1>3, SetupNow DEF Setup!Saved, PageType
<1>5. (vaults' = vaults /\ entries' = entries /\ pendingId' = pendingId /\ page'.screen = page.screen)
         \/ Setup!Confirm
  BY <1>1, <1>2, <1>3, <1>4 DEF Setup!Saved, PageType
<1>6. \/ vaults' = vaults /\ entries' = entries /\ pendingId' = pendingId /\ page'.screen = page.screen
      \/ /\ pendingId' = None /\ page'.screen \in {page.screen, "main"}
         /\ <<vaults'[current].id, current>> \in entries' /\ ~vaults'[current].pending /\ current \in Setup!Handle
  BY <1>1, <1>2, <1>3, <1>4, <1>5, Confirms, SetupNow DEF OpenIsAdopted
<1>7. /\ vaults' \in [Setup!Handle -> VaultType] /\ entries' \subseteq Id \X Setup!Handle /\ entries \subseteq entries'
      /\ \A g \in Setup!Handle : vaults'[g].id = vaults[g].id /\ (~vaults[g].pending => ~vaults'[g].pending)
      /\ \A e \in entries' : e \in entries \/ e[2] = current
  BY <1>1, <1>2, <1>3, <1>4, <1>5, <1>6, Confirms, SetupNow
<1>8. \A g \in Setup!Handle : InCatalog(g) => (InCatalog(g))'
  BY <1>1, <1>2, <1>3, <1>4, <1>5, <1>6, <1>7 DEF InCatalog
<1>9. \A g \in wrote : g \in Setup!Handle /\ (strayed \/ (vaults[g].id # None /\ InCatalog(g)))
  BY <1>1, <1>2, <1>3, <1>4, <1>5, <1>6, <1>7, <1>8, SetupNow DEF WrittenIsListed, ListedIsSaved,
     InCatalog
<1>10. Setup!TypeOK'
  <2>1. LocksCounted' /\ PartsTyped'
    BY <1>1, <1>2, <1>3, <1>4, <1>5, <1>6, <1>7, <1>8, <1>9, SetupNow, SetupNothing DEF
       LocksCounted, PartsTyped
  <2>2. EpochsFollow'
    BY <1>1, <1>2, <1>3, <1>4, <1>5, <1>6, <1>7, <1>8, <1>9, SetupNow, SetupNothing DEF
       EpochsFollow
  <2>3. QED
    BY <1>1, <1>2, <1>3, <1>4, <1>5, <1>6, <1>7, <1>8, <1>9, <2>1, <2>2, SetupNow, SetupTypedAfter
<1>11. LocksCounted'
  BY <1>1, <1>2, <1>3, <1>4, <1>5, <1>6, <1>7, <1>8, <1>9, SetupNow, SetupNothing DEF LocksCounted
<1>12. PartsTyped'
  BY <1>1, <1>2, <1>3, <1>4, <1>5, <1>6, <1>7, <1>8, <1>9, SetupNow, SetupNothing DEF PartsTyped
<1>13. EpochsFollow'
  BY <1>1, <1>2, <1>3, <1>4, <1>5, <1>6, <1>7, <1>8, <1>9, SetupNow, SetupNothing DEF EpochsFollow
<1>14. OpenIsAdopted'
  BY <1>1, <1>2, <1>3, <1>4, <1>5, <1>6, <1>7, <1>8, <1>9, SetupNow, SetupNothing DEF
     OpenIsAdopted, InCatalog
<1>15. SavedIsOpen'
  BY <1>1, <1>2, <1>3, <1>4, <1>5, <1>6, <1>7, <1>8, <1>9, SetupNow, SetupNothing DEF SavedIsOpen
<1>16. ListedIsSaved'
  <2> SUFFICES ASSUME NEW e \in entries'
               PROVE  vaults'[e[2]].id # None /\ e[2] \in segments' /\ ~vaults'[e[2]].pending
    BY DEF ListedIsSaved
  <2>1. CASE e \in entries
    <3>1. vaults[e[2]].id # None /\ e[2] \in segments /\ ~vaults[e[2]].pending /\ e[2] \in Setup!Handle
      BY <1>1, <2>1, Entries DEF ListedIsSaved
    <3>2. QED
      BY <3>1, <1>1, <1>2, <1>3, <1>4, <1>5, <1>6, <1>7, <1>8, <1>9
  <2>2. CASE e \notin entries
    BY <2>2, <1>1, <1>2, <1>3, <1>4, <1>5, <1>6, <1>7, <1>8, <1>9, SetupNow
  <2>3. QED
    BY <2>1, <2>2
<1>17. WrittenIsListed'
  BY <1>1, <1>2, <1>3, <1>4, <1>5, <1>6, <1>7, <1>8, <1>9, SetupNow, SetupNothing DEF
     WrittenIsListed, InCatalog
<1>18. QED
  BY <1>10, <1>11, <1>12, <1>13, <1>14, <1>15, <1>16, <1>17 DEF SetupInv

LEMMA SetupRecreateKeeps ==
  ASSUME SetupSizes, SetupInv, Setup!Recreate
  PROVE  SetupInv'
<1>1. Setup!TypeOK /\ LocksCounted /\ PartsTyped /\ EpochsFollow /\ OpenIsAdopted /\ SavedIsOpen /\ ListedIsSaved
      /\ WrittenIsListed
  BY DEF SetupInv
<1>2. LocksCounted' /\ tally'.locks = tally.locks
  BY <1>1, SetupCounting DEF Setup!Recreate
<1>3. /\ vaults' = vaults /\ entries' = entries /\ segments' = segments /\ current' = current
      /\ adopted' = adopted /\ pendingId' = pendingId /\ fileEpoch' = fileEpoch /\ chosen' = chosen
      /\ session' = session /\ worker' = worker /\ wrote' = wrote
  BY <1>1, <1>2 DEF Setup!Recreate, Setup!disk, Setup!engine, Setup!activity, Setup!history
<1>4. \A g \in Setup!Handle : (InCatalog(g))' <=> InCatalog(g)
  BY <1>1, <1>2, <1>3 DEF InCatalog
<1>5. /\ page' = Setup!Fresh(IF adopted THEN "main" ELSE "gate")
      /\ strayed' = (strayed \/ page.screen = "setup") /\ dialog' = Setup!Idle
  BY <1>1, <1>2, <1>3, <1>4 DEF Setup!Recreate
<1>6. /\ page' \in PageType /\ page'.screen = (IF adopted THEN "main" ELSE "gate")
      /\ page'.waits = "none"
  BY <1>1, <1>2, <1>3, <1>4, <1>5, SetupNothing
<1>7. strayed' \in BOOLEAN /\ (strayed => strayed')
  BY <1>1, <1>2, <1>3, <1>4, <1>5, <1>6, SetupNow
<1>8. strayed' \/ page.screen # "setup"
  BY <1>1, <1>2, <1>3, <1>4, <1>5, <1>6, <1>7 DEF Setup!Recreate
<1>9. \A g \in wrote : g \in Setup!Handle /\ (strayed \/ (vaults[g].id # None /\ InCatalog(g)))
  BY <1>1, <1>2, <1>3, <1>4, <1>5, <1>6, <1>7, <1>8, SetupNow DEF WrittenIsListed, ListedIsSaved,
     InCatalog
<1>10. Setup!TypeOK'
  <2>1. LocksCounted' /\ PartsTyped'
    BY <1>1, <1>2, <1>3, <1>4, <1>5, <1>6, <1>7, <1>8, <1>9, SetupNow, SetupNothing DEF
       LocksCounted, PartsTyped
  <2>2. EpochsFollow'
    BY <1>1, <1>2, <1>3, <1>4, <1>5, <1>6, <1>7, <1>8, <1>9, SetupNow, SetupNothing DEF
       EpochsFollow
  <2>3. QED
    BY <1>1, <1>2, <1>3, <1>4, <1>5, <1>6, <1>7, <1>8, <1>9, <2>1, <2>2, SetupNow, SetupTypedAfter
<1>11. LocksCounted'
  BY <1>1, <1>2, <1>3, <1>4, <1>5, <1>6, <1>7, <1>8, <1>9, SetupNow, SetupNothing DEF LocksCounted
<1>12. PartsTyped'
  BY <1>1, <1>2, <1>3, <1>4, <1>5, <1>6, <1>7, <1>8, <1>9, SetupNow, SetupNothing DEF PartsTyped
<1>13. EpochsFollow'
  BY <1>1, <1>2, <1>3, <1>4, <1>5, <1>6, <1>7, <1>8, <1>9, SetupNow, SetupNothing DEF EpochsFollow
<1>14. OpenIsAdopted'
  BY <1>1, <1>2, <1>3, <1>4, <1>5, <1>6, <1>7, <1>8, <1>9, SetupNow, SetupNothing DEF
     OpenIsAdopted, InCatalog
<1>15. SavedIsOpen'
  BY <1>1, <1>2, <1>3, <1>4, <1>5, <1>6, <1>7, <1>8, <1>9, SetupNow, SetupNothing DEF SavedIsOpen
<1>16. ListedIsSaved'
  BY <1>1, <1>2, <1>3, <1>4, <1>5, <1>6, <1>7, <1>8, <1>9, SetupNow, SetupNothing DEF
     ListedIsSaved
<1>17. WrittenIsListed'
  <2>1. vaults' = vaults /\ entries' = entries /\ current' = current /\ wrote' = wrote
    BY <1>3
  <2>2. strayed' \/ (~strayed /\ (page'.screen = "main" => adopted /\ page.screen = "main"))
    BY <1>1, <1>5, <1>6, <1>7, <1>8, SetupNow DEF OpenIsAdopted, PageType
  <2>3. ~strayed => (page.screen = "main" => InCatalog(current)) /\ (\A h \in wrote : InCatalog(h))
    BY <1>1 DEF WrittenIsListed
  <2>4. QED
    BY <2>1, <2>2, <2>3 DEF WrittenIsListed, InCatalog
<1>18. QED
  BY <1>10, <1>11, <1>12, <1>13, <1>14, <1>15, <1>16, <1>17 DEF SetupInv

LEMMA SetupCrashKeeps ==
  ASSUME SetupSizes, SetupInv, Setup!Crash
  PROVE  SetupInv'
<1>1. Setup!TypeOK /\ LocksCounted /\ PartsTyped /\ EpochsFollow /\ OpenIsAdopted /\ SavedIsOpen /\ ListedIsSaved
      /\ WrittenIsListed
  BY DEF SetupInv
<1>2. LocksCounted' /\ tally'.locks = tally.locks
  BY <1>1, SetupCounting DEF Setup!Crash, Setup!Dies
<1>3. /\ adopted' = FALSE /\ current' = 0 /\ pendingId' = None /\ fileEpoch' = 0 /\ chosen' = None
      /\ session' = session /\ dialog' = Setup!Idle /\ worker' = Setup!Idle /\ page' = Setup!Fresh("gate")
  BY <1>1, <1>2 DEF Setup!Crash, Setup!Dies
<1>4. 0 \in 0 .. MaxVaults
  BY <1>1, <1>2, <1>3 DEF SetupSizes
<1>5. page' \in PageType /\ page'.screen = "gate" /\ page'.waits = "none"
  BY <1>1, <1>2, <1>3, <1>4, SetupNothing
<1>6. /\ vaults' = vaults /\ entries' = entries /\ segments' = segments /\ wrote' = wrote
      /\ strayed' = strayed
  BY <1>1, <1>2, <1>3, <1>4, <1>5 DEF Setup!Crash, Setup!disk, Setup!history
<1>7. \A g \in Setup!Handle : InCatalog(g) => (InCatalog(g))'
  BY <1>1, <1>2, <1>3, <1>4, <1>5, <1>6 DEF InCatalog
<1>8. \A g \in wrote : g \in Setup!Handle /\ (strayed \/ (vaults[g].id # None /\ InCatalog(g)))
  BY <1>1, <1>2, <1>3, <1>4, <1>5, <1>6, <1>7, SetupNow DEF WrittenIsListed, ListedIsSaved,
     InCatalog
<1>9. Setup!TypeOK'
  <2>1. LocksCounted' /\ PartsTyped'
    BY <1>1, <1>2, <1>3, <1>4, <1>5, <1>6, <1>7, <1>8, SetupNow, SetupNothing DEF LocksCounted,
       PartsTyped
  <2>2. EpochsFollow'
    BY <1>1, <1>2, <1>3, <1>4, <1>5, <1>6, <1>7, <1>8, SetupNow, SetupNothing DEF EpochsFollow
  <2>3. QED
    BY <1>1, <1>2, <1>3, <1>4, <1>5, <1>6, <1>7, <1>8, <2>1, <2>2, SetupNow, SetupTypedAfter
<1>10. LocksCounted'
  BY <1>1, <1>2, <1>3, <1>4, <1>5, <1>6, <1>7, <1>8, SetupNow, SetupNothing DEF LocksCounted
<1>11. PartsTyped'
  BY <1>1, <1>2, <1>3, <1>4, <1>5, <1>6, <1>7, <1>8, SetupNow, SetupNothing DEF PartsTyped
<1>12. EpochsFollow'
  BY <1>1, <1>2, <1>3, <1>4, <1>5, <1>6, <1>7, <1>8, SetupNow, SetupNothing DEF EpochsFollow
<1>13. OpenIsAdopted'
  BY <1>1, <1>2, <1>3, <1>4, <1>5, <1>6, <1>7, <1>8, SetupNow, SetupNothing DEF OpenIsAdopted,
     InCatalog
<1>14. SavedIsOpen'
  BY <1>1, <1>2, <1>3, <1>4, <1>5, <1>6, <1>7, <1>8, SetupNow, SetupNothing DEF SavedIsOpen
<1>15. ListedIsSaved'
  BY <1>1, <1>2, <1>3, <1>4, <1>5, <1>6, <1>7, <1>8, SetupNow, SetupNothing DEF ListedIsSaved
<1>16. WrittenIsListed'
  BY <1>1, <1>2, <1>3, <1>4, <1>5, <1>6, <1>7, <1>8, SetupNow, SetupNothing DEF WrittenIsListed,
     InCatalog
<1>17. QED
  BY <1>9, <1>10, <1>11, <1>12, <1>13, <1>14, <1>15, <1>16 DEF SetupInv

LEMMA SetupCrashInConfirmKeeps ==
  ASSUME SetupSizes, SetupInv, Setup!CrashInConfirm
  PROVE  SetupInv'
<1>1. Setup!TypeOK /\ LocksCounted /\ PartsTyped /\ EpochsFollow /\ OpenIsAdopted /\ SavedIsOpen /\ ListedIsSaved
      /\ WrittenIsListed
  BY DEF SetupInv
<1>2. LocksCounted' /\ tally'.locks = tally.locks
  BY <1>1, SetupCounting DEF Setup!CrashInConfirm, Setup!Dies
<1>3. /\ adopted' = FALSE /\ current' = 0 /\ pendingId' = None /\ fileEpoch' = 0 /\ chosen' = None
      /\ session' = session /\ dialog' = Setup!Idle /\ worker' = Setup!Idle /\ page' = Setup!Fresh("gate")
  BY <1>1, <1>2 DEF Setup!CrashInConfirm, Setup!Dies
<1>4. 0 \in 0 .. MaxVaults
  BY <1>1, <1>2, <1>3 DEF SetupSizes
<1>5. page' \in PageType /\ page'.screen = "gate" /\ page'.waits = "none"
  BY <1>1, <1>2, <1>3, <1>4, SetupNothing
<1>6. entries' = entries /\ segments' = segments /\ wrote' = wrote /\ strayed' = strayed
  BY <1>1, <1>2, <1>3, <1>4, <1>5 DEF Setup!CrashInConfirm, Setup!history
<1>7. adopted /\ vaults' = [vaults EXCEPT ![current].pending = FALSE]
  BY <1>1, <1>2, <1>3, <1>4, <1>5, <1>6 DEF Setup!CrashInConfirm, Setup!ConfirmsSaved,
     Setup!InSession
<1>8. /\ vaults' \in [Setup!Handle -> VaultType]
      /\ \A g \in Setup!Handle : vaults'[g].id = vaults[g].id /\ (~vaults[g].pending => ~vaults'[g].pending)
  BY <1>1, <1>2, <1>3, <1>4, <1>5, <1>6, <1>7, Settled
<1>9. \A g \in Setup!Handle : InCatalog(g) => (InCatalog(g))'
  BY <1>1, <1>2, <1>3, <1>4, <1>5, <1>6, <1>7, <1>8 DEF InCatalog
<1>10. \A g \in wrote : g \in Setup!Handle /\ (strayed \/ (vaults[g].id # None /\ InCatalog(g)))
  BY <1>1, <1>2, <1>3, <1>4, <1>5, <1>6, <1>7, <1>8, <1>9, SetupNow DEF WrittenIsListed,
     ListedIsSaved, InCatalog
<1>11. Setup!TypeOK'
  <2>1. LocksCounted' /\ PartsTyped'
    BY <1>1, <1>2, <1>3, <1>4, <1>5, <1>6, <1>7, <1>8, <1>9, <1>10, SetupNow, SetupNothing DEF
       LocksCounted, PartsTyped
  <2>2. EpochsFollow'
    BY <1>1, <1>2, <1>3, <1>4, <1>5, <1>6, <1>7, <1>8, <1>9, <1>10, SetupNow, SetupNothing DEF
       EpochsFollow
  <2>3. QED
    BY <1>1, <1>2, <1>3, <1>4, <1>5, <1>6, <1>7, <1>8, <1>9, <1>10, <2>1, <2>2, SetupNow,
       SetupTypedAfter
<1>12. LocksCounted'
  BY <1>1, <1>2, <1>3, <1>4, <1>5, <1>6, <1>7, <1>8, <1>9, <1>10, SetupNow, SetupNothing DEF
     LocksCounted
<1>13. PartsTyped'
  BY <1>1, <1>2, <1>3, <1>4, <1>5, <1>6, <1>7, <1>8, <1>9, <1>10, SetupNow, SetupNothing DEF
     PartsTyped
<1>14. EpochsFollow'
  BY <1>1, <1>2, <1>3, <1>4, <1>5, <1>6, <1>7, <1>8, <1>9, <1>10, SetupNow, SetupNothing DEF
     EpochsFollow
<1>15. OpenIsAdopted'
  BY <1>1, <1>2, <1>3, <1>4, <1>5, <1>6, <1>7, <1>8, <1>9, <1>10, SetupNow, SetupNothing DEF
     OpenIsAdopted, InCatalog
<1>16. SavedIsOpen'
  BY <1>1, <1>2, <1>3, <1>4, <1>5, <1>6, <1>7, <1>8, <1>9, <1>10, SetupNow, SetupNothing DEF
     SavedIsOpen
<1>17. ListedIsSaved'
  <2> SUFFICES ASSUME NEW e \in entries'
               PROVE  vaults'[e[2]].id # None /\ e[2] \in segments' /\ ~vaults'[e[2]].pending
    BY DEF ListedIsSaved
  <2>1. CASE e \in entries
    <3>1. vaults[e[2]].id # None /\ e[2] \in segments /\ ~vaults[e[2]].pending /\ e[2] \in Setup!Handle
      BY <1>1, <2>1, Entries DEF ListedIsSaved
    <3>2. QED
      BY <3>1, <1>1, <1>2, <1>3, <1>4, <1>5, <1>6, <1>7, <1>8, <1>9, <1>10
  <2>2. CASE e \notin entries
    BY <2>2, <1>1, <1>2, <1>3, <1>4, <1>5, <1>6, <1>7, <1>8, <1>9, <1>10, SetupNow
  <2>3. QED
    BY <2>1, <2>2
<1>18. WrittenIsListed'
  BY <1>1, <1>2, <1>3, <1>4, <1>5, <1>6, <1>7, <1>8, <1>9, <1>10, SetupNow, SetupNothing DEF
     WrittenIsListed, InCatalog
<1>19. QED
  BY <1>11, <1>12, <1>13, <1>14, <1>15, <1>16, <1>17, <1>18 DEF SetupInv
LEMMA SetupInitInv ==
  ASSUME SetupSizes, Setup!Init
  PROVE  SetupInv
<1>1. LocksCounted /\ PartsTyped
  BY SetupNothing DEF Setup!Init, LocksCounted, PartsTyped, SetupSizes
<1>2. EpochsFollow
  BY SetupNothing DEF Setup!Init, EpochsFollow
<1>3. OpenIsAdopted /\ SavedIsOpen
  BY SetupNothing DEF Setup!Init, OpenIsAdopted, SavedIsOpen
<1>4. ListedIsSaved /\ WrittenIsListed
  BY SetupNothing DEF Setup!Init, ListedIsSaved, WrittenIsListed
<1>5. Setup!TypeOK
  <2>1. Setup!Unused \in [id : Id \union {None}, pending : BOOLEAN]
    BY DEF Setup!Unused
  <2>2. vaults \in [Setup!Handle -> [id : Id \union {None}, pending : BOOLEAN]]
    BY <2>1 DEF Setup!Init
  <2>3. {fileEpoch, session} \subseteq 0 .. 2 * MaxLocks + 1 /\ current \in 0 .. MaxVaults
    BY DEF Setup!Init, SetupSizes
  <2>4. QED
    BY <1>1, <2>2, <2>3, SetupNothing DEF Setup!Init, Setup!TypeOK, PartsTyped, PageType
<1>6. QED
  BY <1>1, <1>2, <1>3, <1>4, <1>5 DEF SetupInv

LEMMA SetupStep ==
  ASSUME SetupSizes, SetupInv, [Setup!Next]_(Setup!vars)
  PROVE  SetupInv'
<1>1. CASE Setup!Next
  <2>1. ASSUME NEW id \in Id, Setup!Create(id) \/ Setup!Restore(id) \/ Setup!Open(id) \/ Setup!Import(id) \/ Setup!Choose(id)
        PROVE  SetupInv'
    BY <2>1, SetupCreateKeeps, SetupRestoreKeeps, SetupOpenKeeps, SetupImportKeeps,
       SetupChooseKeeps
  <2>2. CASE Setup!Write \/ Setup!Lock \/ Setup!Save \/ Setup!Cancel \/ Setup!Pick \/ Setup!Export \/ Setup!WriteFails \/ Setup!FileSaved
    BY <2>2, SetupWriteKeeps, SetupLockKeeps, SetupSaveKeeps, SetupCancelKeeps, SetupPickKeeps,
       SetupExportKeeps, SetupWriteFailsKeeps, SetupFileSavedKeeps
  <2>3. CASE Setup!Hear \/ Setup!Saved \/ Setup!Recreate \/ Setup!Crash \/ Setup!CrashInConfirm
    BY <2>3, SetupHearKeeps, SetupSavedKeeps, SetupRecreateKeeps, SetupCrashKeeps,
       SetupCrashInConfirmKeeps
  <2>4. QED
    BY <1>1, <2>1, <2>2, <2>3 DEF Setup!Next
<1>2. CASE UNCHANGED Setup!vars
  <2>1. /\ vaults' = vaults /\ entries' = entries /\ segments' = segments /\ current' = current
        /\ adopted' = adopted /\ pendingId' = pendingId /\ fileEpoch' = fileEpoch /\ chosen' = chosen
        /\ session' = session /\ dialog' = dialog /\ worker' = worker /\ page' = page
        /\ wrote' = wrote /\ strayed' = strayed /\ tally' = tally
    BY <1>2 DEF Setup!vars, Setup!disk, Setup!engine, Setup!activity, Setup!history
  <2>2. QED
    BY <2>1 DEF SetupInv, Setup!TypeOK, LocksCounted, PartsTyped, EpochsFollow, OpenIsAdopted,
       InCatalog, SavedIsOpen, ListedIsSaved, WrittenIsListed
<1>3. QED
  BY <1>1, <1>2

\* What it says of the properties that are checked.
LEMMA SetupImplied ==
  ASSUME SetupSizes, SetupInv
  PROVE  Setup!TypeOK /\ Setup!SetupKept
<1>1. Setup!TypeOK /\ ListedIsSaved /\ WrittenIsListed
  BY DEF SetupInv
<1>2. Setup!ListedHasSegment
  BY <1>1 DEF Setup!ListedHasSegment, ListedIsSaved
<1>3. Setup!WrittenCanBeOpened
  <2> SUFFICES ASSUME ~strayed, NEW h \in wrote
               PROVE  h \in segments /\ h \in Setup!Candidates(vaults[h].id) /\ Setup!Exists(h)
    BY DEF Setup!WrittenCanBeOpened
  <2>1. h \in Setup!Handle /\ <<vaults[h].id, h>> \in entries
    BY <1>1 DEF WrittenIsListed, InCatalog, Setup!TypeOK
  <2>2. vaults[h].id # None /\ h \in segments /\ ~vaults[h].pending
    BY <1>1, <2>1 DEF ListedIsSaved
  <2>3. QED
    BY <2>1, <2>2 DEF Setup!Candidates, Setup!Exists, Setup!Unused
<1>4. QED
  BY <1>1, <1>2, <1>3 DEF Setup!SetupKept

\* A vault is in the catalog only when the file that opens it has been saved, and what the
\* user writes is in such a vault: for any IDs and however often the page is loaded anew, the
\* process ends or a dialog comes back late (NativeVaultCatalog.java, VaultGate.tsx).
THEOREM SetupIsKept ==
  ASSUME SetupSizes
  PROVE  Setup!Spec => [](Setup!TypeOK /\ Setup!SetupKept)
<1>1. Setup!Init => SetupInv
  BY SetupInitInv
<1>2. SetupInv /\ [Setup!Next]_(Setup!vars) => SetupInv'
  BY SetupStep
<1>3. SetupInv => Setup!TypeOK /\ Setup!SetupKept
  BY SetupImplied
<1>4. QED
  BY <1>1, <1>2, <1>3, PTL DEF Setup!Spec

-----------------------------------------------------------------------------
(***************************************************************************)
(* The link of a phone with its relay.                                     *)
(***************************************************************************)
\* What the proofs ask of the constants: a route the user chooses is none that a lookup
\* finds, and what stands for the absence of a vault or a route is none.
LinkSizes ==
  /\ None \notin Vault /\ None \notin Link!Route
  /\ ({Lan} \union Own) \cap ({Builtin} \union Tunnel \union Domain) = {}
  /\ MaxActing \in Nat

(* The inductive invariant.                                                *)
UserKnown ==
  mode \in Link!Mode /\ vault \in Vault \union {None} /\ quick \in BOOLEAN /\ (quick => vault # None)

\* A lookup runs only from a route that is the build's or was itself found.
RoutesKnown ==
  /\ origin \in Link!Route /\ previous \in Link!Route \union {None}
  /\ discovered \in Tunnel \union Domain \union {None}
  /\ lookup \in {None, Builtin} \union Tunnel \union Domain

OwnToken(t) == t \in [of : Vault, from : Link!Route] /\ t.of = vault /\ t.from = origin
OwnSocket(s) == s \in [of : Vault, from : Link!Route, live : BOOLEAN] /\ s.of = vault /\ s.from = origin
PushIsOwn == (token = None \/ OwnToken(token)) /\ (pushSocket = None \/ OwnSocket(pushSocket))

CallbackType ==
  [number : Nat, on : BOOLEAN, current : Link!Network \union {0}, validated : BOOLEAN, seen : BOOLEAN]
CallbackKept ==
  callback \in CallbackType /\ (callback.current # 0 => callback.on) /\ (callback.on => tor) /\ tor \in BOOLEAN

DeviceKnown ==
  /\ acting \in 0 .. MaxActing /\ waiting \in BOOLEAN /\ reconnect \in BOOLEAN /\ running \in BOOLEAN
  /\ online \in BOOLEAN /\ network \in Link!Network \union {0}

ChangedTask == [does : {"changed"}, of : Nat, up : BOOLEAN]
TaskType == ChangedTask \union [does : {"retry"}, of : Vault \union {None}] \union [does : {"stop"}]
TasksKnown == posted \in Seq(TaskType)
CountType == [sessions : Nat, routes : Nat, lookups : Nat, changes : Nat]
CountsKnown == count \in CountType

LinkInv ==
  UserKnown /\ RoutesKnown /\ PushIsOwn /\ CallbackKept /\ DeviceKnown /\ TasksKnown /\ CountsKnown

-----------------------------------------------------------------------------
(* What the operators of the link do.                                      *)
LEMMA LinkCounting ==
  ASSUME CountsKnown, NEW what \in {"sessions", "routes", "lookups", "changes"}, NEW max, Link!Counted(what, max)
  PROVE  /\ CountsKnown'
         /\ what = "routes" => (count.routes)' # count.routes
<1>1. count' = [count EXCEPT ![what] = @ + 1] /\ count \in CountType
  BY DEF Link!Counted, CountsKnown
<1>2. count[what] \in Nat /\ count[what] + 1 \in Nat
  BY <1>1 DEF CountType
<1>3. count' \in CountType
  BY <1>1, <1>2 DEF CountType
<1>4. what = "routes" => count'.routes = count.routes + 1 /\ count.routes \in Nat
  BY <1>1 DEF CountType
<1>5. QED
  BY <1>3, <1>4 DEF CountsKnown

LEMMA Tasks ==
  ASSUME TasksKnown
  PROVE  /\ \A n \in Nat, up \in BOOLEAN : Append(posted, Link!Changed(n, up)) \in Seq(TaskType)
         /\ Append(posted, [does |-> "stop"]) \in Seq(TaskType)
         /\ \A v \in Vault \union {None} : Append(posted, [does |-> "retry", of |-> v]) \in Seq(TaskType)
         /\ posted # <<>> => Head(posted) \in TaskType /\ Tail(posted) \in Seq(TaskType)
<1>1. \A n \in Nat, up \in BOOLEAN : Link!Changed(n, up) \in TaskType
  BY DEF Link!Changed, TaskType, ChangedTask
<1>2. [does |-> "stop"] \in TaskType
  BY DEF TaskType
<1>3. \A v \in Vault \union {None} : [does |-> "retry", of |-> v] \in TaskType
  BY DEF TaskType
<1>4. posted \in Seq(TaskType)
  BY DEF TasksKnown
<1> HIDE DEF TaskType
<1>5. \A t \in TaskType : Append(posted, t) \in Seq(TaskType)
  BY <1>4
<1>6. posted # <<>> => Head(posted) \in TaskType /\ Tail(posted) \in Seq(TaskType)
  BY <1>4
<1>7. QED
  BY <1>1, <1>2, <1>3, <1>5, <1>6

\* What is at the head of the queue when a task runs.
LEMMA Heads ==
  ASSUME TasksKnown, NEW name, Link!Task(name)
  PROVE  /\ lookup = None /\ Head(posted) \in TaskType /\ Tail(posted) \in Seq(TaskType)
         /\ name = "changed" => Head(posted) \in ChangedTask
<1>1. lookup = None /\ posted # <<>> /\ Head(posted).does = name
  BY DEF Link!Task
<1>2. Head(posted) \in TaskType /\ Tail(posted) \in Seq(TaskType)
  BY <1>1, Tasks
<1>3. name = "changed" => Head(posted) \in ChangedTask
  BY <1>1, <1>2 DEF TaskType
<1>4. QED
  BY <1>1, <1>2, <1>3

LEMMA Callbacks ==
  ASSUME NEW c \in CallbackType
  PROVE  /\ \A n \in Link!Network \union {0} : [c EXCEPT !.current = n, !.validated = FALSE, !.seen = FALSE] \in CallbackType
         /\ c.number \in Nat /\ c.on \in BOOLEAN /\ c.current \in Link!Network \union {0}
BY DEF CallbackType

LEMMA Without ==
  ASSUME CallbackKept
  PROVE  /\ Link!NoCallback \in CallbackType /\ ~Link!NoCallback.on /\ Link!NoCallback.current = 0
         /\ Link!StopDirect => CallbackKept'
<1>1. Link!NoCallback \in CallbackType /\ ~Link!NoCallback.on /\ Link!NoCallback.current = 0
  BY DEF CallbackKept, CallbackType, Link!NoCallback
<1>2. Link!StopDirect => CallbackKept'
  BY <1>1 DEF Link!StopDirect, CallbackKept
<1>3. QED
  BY <1>1, <1>2

LEMMA Ensured ==
  ASSUME CallbackKept, DeviceKnown, NEW from \in CallbackType, from.current # 0 => from.on,
         NEW queue \in Seq(TaskType), Link!EnsureTor(from, queue)
  PROVE  CallbackKept' /\ TasksKnown'
<1>1. tor' = TRUE
  BY DEF Link!EnsureTor
<1>2. CASE from.on \/ ~running
  <2>1. callback' = from /\ posted' = queue
    BY <1>2 DEF Link!EnsureTor
  <2>2. QED
    BY <1>1, <2>1 DEF CallbackKept, TasksKnown
<1>3. CASE ~(from.on \/ ~running)
  <2>1. /\ callback' = [Link!NoCallback EXCEPT !.number = from.number + 1, !.on = TRUE, !.current = network]
        /\ posted' = IF network = 0 THEN queue ELSE Append(queue, Link!Changed(from.number + 1, TRUE))
    BY <1>3 DEF Link!EnsureTor
  <2>2. from.number \in Nat /\ from.number + 1 \in Nat
    <3>1. from.number \in Nat
      BY DEF CallbackType
    <3>2. QED
      BY <3>1
  <2>3. Link!Changed(from.number + 1, TRUE) \in TaskType
    BY <2>2 DEF Link!Changed, TaskType, ChangedTask
  <2>4. Append(queue, Link!Changed(from.number + 1, TRUE)) \in Seq(TaskType)
    <3> DEFINE t == Link!Changed(from.number + 1, TRUE)
    <3>1. t \in TaskType /\ queue \in Seq(TaskType)
      BY <2>3
    <3> HIDE DEF t
    <3>2. Append(queue, t) \in Seq(TaskType)
      BY <3>1
    <3>3. QED
      BY <3>2 DEF t
  <2>5. callback' \in CallbackType /\ callback'.on = TRUE
    BY <2>1, <2>2, Without DEF CallbackType, DeviceKnown
  <2>6. QED
    BY <1>1, <2>1, <2>4, <2>5 DEF CallbackKept, TasksKnown
<1>4. QED
  BY <1>2, <1>3

\* Every token is of the vault that is open and from the route there is.
LEMMA Given ==
  ASSUME LinkSizes, UserKnown, RoutesKnown, Link!Open
  PROVE  OwnToken([of |-> vault, from |-> origin])
BY DEF UserKnown, RoutesKnown, Link!Open, OwnToken

LEMMA Listened ==
  ASSUME NEW t, OwnToken(t), Link!Listen(t)
  PROVE  OwnSocket(pushSocket')
BY DEF OwnToken, OwnSocket, Link!Listen

LEMMA Pushed ==
  ASSUME LinkSizes, LinkInv, vault' = vault, origin' = origin, Link!Open,
         (\E wait : Link!EnsurePush(wait)) \/ Link!Authenticate \/ Link!Relisten
  PROVE  PushIsOwn'
<1>1. OwnToken([of |-> vault, from |-> origin]) /\ (token = None \/ OwnToken(token))
  BY Given DEF LinkInv, PushIsOwn
<1>2. CASE UNCHANGED Link!push
  BY <1>2 DEF LinkInv, PushIsOwn, OwnToken, OwnSocket, Link!push
<1>3. CASE Link!Authenticate
  BY <1>1, <1>3 DEF Link!Authenticate, Link!StopPush, PushIsOwn, OwnToken
<1>4. ASSUME OwnToken(token'), Link!Listen(token') PROVE PushIsOwn'
  <2>1. OwnSocket(pushSocket')
    BY <1>4, Listened
  <2>2. QED
    BY <1>4, <2>1 DEF PushIsOwn, OwnToken, OwnSocket
<1>5. \/ UNCHANGED Link!push \/ Link!Authenticate
      \/ token # None /\ Link!Listen(token) /\ UNCHANGED token
      \/ ((token # None /\ UNCHANGED token) \/ token' = [of |-> vault, from |-> origin]) /\ Link!Listen(token')
  <2>1. CASE \E wait : Link!EnsurePush(wait)
    BY <2>1 DEF Link!EnsurePush
  <2>2. CASE Link!Relisten
    BY <2>2 DEF Link!Relisten
  <2>3. QED
    BY <2>1, <2>2
<1>6. CASE token # None /\ Link!Listen(token) /\ UNCHANGED token
  <2>1. Link!Listen(token') /\ OwnToken(token')
    BY <1>1, <1>6 DEF Link!Listen
  <2>2. QED
    BY <2>1, <1>4
<1>7. CASE ((token # None /\ UNCHANGED token) \/ token' = [of |-> vault, from |-> origin]) /\ Link!Listen(token')
  BY <1>1, <1>4, <1>7
<1>8. QED
  BY <1>2, <1>3, <1>5, <1>6, <1>7

\* What is configured leaves the link without a token, or leaves it as it was.
LEMMA Configured ==
  ASSUME LinkSizes, LinkInv, NEW r \in Link!Route, NEW found, vault' = vault, Link!Configure(r, found)
  PROVE  origin' \in Link!Route /\ previous' \in Link!Route \union {None} /\ PushIsOwn'
<1>1. origin \in Link!Route /\ previous' \in Link!Route \union {None}
  BY DEF Link!Configure, LinkInv, RoutesKnown, Link!Route
<1>2. \/ origin' = r /\ token' = None /\ pushSocket' = None
      \/ origin' = origin /\ token' = token /\ pushSocket' = pushSocket
  BY DEF Link!Configure, Link!TokenAfter, Link!StopPush, Link!push
<1>3. PushIsOwn'
  BY <1>2 DEF LinkInv, PushIsOwn, OwnToken, OwnSocket
<1>4. QED
  BY <1>1, <1>2, <1>3

-----------------------------------------------------------------------------
(* Every action keeps the invariant.                                       *)
LEMMA LinkAvailableKeeps ==
  ASSUME LinkSizes, LinkInv, NEW n \in Link!Network, Link!Available(n)
  PROVE  LinkInv'
<1>1. UserKnown /\ RoutesKnown /\ PushIsOwn /\ CallbackKept /\ DeviceKnown /\ TasksKnown /\ CountsKnown
  BY DEF LinkInv
<1>2. CountsKnown'
  BY <1>1, LinkCounting DEF Link!Available
<1>3. /\ mode' = mode /\ vault' = vault /\ quick' = quick /\ origin' = origin
      /\ discovered' = discovered /\ previous' = previous /\ lookup' = lookup /\ token' = token
      /\ pushSocket' = pushSocket /\ acting' = acting /\ waiting' = waiting
      /\ reconnect' = reconnect /\ tor' = tor /\ running' = running /\ online' = online
  BY <1>1, <1>2 DEF Link!Available, Link!user, Link!route, Link!push, Link!retry, Link!device,
     Link!direct
<1>4. network' \in Link!Network \union {0}
  BY <1>1, <1>2, <1>3 DEF Link!Available
<1>5. CallbackKept'
  <2>1. callback \in CallbackType /\ (callback.on => tor)
    BY <1>1 DEF CallbackKept
  <2>2. CASE callback' = callback
    BY <1>1, <1>3, <2>2 DEF CallbackKept
  <2>3. CASE callback.on /\ callback' = [callback EXCEPT !.current = n, !.validated = FALSE, !.seen = FALSE]
    <3>1. callback' \in CallbackType /\ callback'.on = callback.on
      BY <2>1, <2>3 DEF CallbackType, Link!Network
    <3>2. QED
      BY <1>1, <1>3, <2>1, <2>3, <3>1 DEF CallbackKept
  <2>4. QED
    BY <1>1, <2>2, <2>3 DEF Link!Available, CallbackKept
<1>6. TasksKnown'
  <2>1. callback.number \in Nat
    BY <1>1 DEF CallbackKept, CallbackType
  <2>2. posted' = posted \/ posted' = Append(posted, Link!Changed(callback.number, TRUE))
    BY DEF Link!Available, Link!Posts
  <2>3. QED
    BY <1>1, <2>1, <2>2, Tasks DEF TasksKnown
<1>7. UserKnown'
  BY <1>1, <1>2, <1>3, <1>4, <1>5, <1>6 DEF UserKnown
<1>8. RoutesKnown'
  BY <1>1, <1>2, <1>3, <1>4, <1>5, <1>6 DEF RoutesKnown
<1>9. PushIsOwn'
  BY <1>1, <1>2, <1>3, <1>4, <1>5, <1>6 DEF PushIsOwn, OwnToken, OwnSocket
<1>10. CallbackKept'
  BY <1>1, <1>2, <1>3, <1>4, <1>5, <1>6 DEF CallbackKept
<1>11. DeviceKnown'
  BY <1>1, <1>2, <1>3, <1>4, <1>5, <1>6 DEF DeviceKnown
<1>12. TasksKnown'
  BY <1>1, <1>2, <1>3, <1>4, <1>5, <1>6 DEF TasksKnown
<1>13. CountsKnown'
  BY <1>1, <1>2, <1>3, <1>4, <1>5, <1>6 DEF CountsKnown
<1>14. QED
  BY <1>7, <1>8, <1>9, <1>10, <1>11, <1>12, <1>13 DEF LinkInv

LEMMA LinkLostKeeps ==
  ASSUME LinkSizes, LinkInv, Link!Lost
  PROVE  LinkInv'
<1>1. UserKnown /\ RoutesKnown /\ PushIsOwn /\ CallbackKept /\ DeviceKnown /\ TasksKnown /\ CountsKnown
  BY DEF LinkInv
<1>2. CountsKnown'
  BY <1>1, LinkCounting DEF Link!Lost
<1>3. /\ mode' = mode /\ vault' = vault /\ quick' = quick /\ origin' = origin
      /\ discovered' = discovered /\ previous' = previous /\ lookup' = lookup /\ token' = token
      /\ pushSocket' = pushSocket /\ acting' = acting /\ waiting' = waiting
      /\ reconnect' = reconnect /\ tor' = tor /\ running' = running /\ online' = online
  BY <1>1, <1>2 DEF Link!Lost, Link!user, Link!route, Link!push, Link!retry, Link!device,
     Link!direct
<1>4. network' \in Link!Network \union {0}
  BY <1>1, <1>2, <1>3 DEF Link!Lost
<1>5. CallbackKept'
  <2>1. callback \in CallbackType /\ (callback.on => tor)
    BY <1>1 DEF CallbackKept
  <2>2. CASE callback' = callback
    BY <1>1, <1>3, <2>2 DEF CallbackKept
  <2>3. CASE callback.on /\ callback' = [callback EXCEPT !.current = 0, !.validated = FALSE]
    <3>1. callback' \in CallbackType /\ callback'.on = callback.on
      BY <2>1, <2>3 DEF CallbackType, Link!Network
    <3>2. QED
      BY <1>1, <1>3, <2>1, <2>3, <3>1 DEF CallbackKept
  <2>4. QED
    BY <1>1, <2>2, <2>3 DEF Link!Lost, CallbackKept
<1>6. TasksKnown'
  <2>1. callback.number \in Nat
    BY <1>1 DEF CallbackKept, CallbackType
  <2>2. posted' = posted \/ posted' = Append(posted, Link!Changed(callback.number, FALSE))
    BY DEF Link!Lost, Link!Posts
  <2>3. QED
    BY <1>1, <2>1, <2>2, Tasks DEF TasksKnown
<1>7. UserKnown'
  BY <1>1, <1>2, <1>3, <1>4, <1>5, <1>6 DEF UserKnown
<1>8. RoutesKnown'
  BY <1>1, <1>2, <1>3, <1>4, <1>5, <1>6 DEF RoutesKnown
<1>9. PushIsOwn'
  BY <1>1, <1>2, <1>3, <1>4, <1>5, <1>6 DEF PushIsOwn, OwnToken, OwnSocket
<1>10. CallbackKept'
  BY <1>1, <1>2, <1>3, <1>4, <1>5, <1>6 DEF CallbackKept
<1>11. DeviceKnown'
  BY <1>1, <1>2, <1>3, <1>4, <1>5, <1>6 DEF DeviceKnown
<1>12. TasksKnown'
  BY <1>1, <1>2, <1>3, <1>4, <1>5, <1>6 DEF TasksKnown
<1>13. CountsKnown'
  BY <1>1, <1>2, <1>3, <1>4, <1>5, <1>6 DEF CountsKnown
<1>14. QED
  BY <1>7, <1>8, <1>9, <1>10, <1>11, <1>12, <1>13 DEF LinkInv

LEMMA LinkCapabilitiesKeeps ==
  ASSUME LinkSizes, LinkInv, NEW valid \in BOOLEAN, Link!Capabilities(valid)
  PROVE  LinkInv'
<1>1. UserKnown /\ RoutesKnown /\ PushIsOwn /\ CallbackKept /\ DeviceKnown /\ TasksKnown /\ CountsKnown
  BY DEF LinkInv
<1>2. CountsKnown'
  BY <1>1, LinkCounting DEF Link!Capabilities
<1>3. /\ mode' = mode /\ vault' = vault /\ quick' = quick /\ origin' = origin
      /\ discovered' = discovered /\ previous' = previous /\ lookup' = lookup /\ token' = token
      /\ pushSocket' = pushSocket /\ acting' = acting /\ waiting' = waiting
      /\ reconnect' = reconnect /\ tor' = tor /\ running' = running /\ network' = network
      /\ online' = online
  BY <1>1, <1>2 DEF Link!Capabilities, Link!user, Link!route, Link!push, Link!retry, Link!device,
     Link!direct
<1>4. CallbackKept'
  <2>1. callback \in CallbackType /\ (callback.on => tor)
    BY <1>1 DEF CallbackKept
  <2>2. CASE callback' = callback
    BY <1>1, <1>3, <2>2 DEF CallbackKept
  <2>3. CASE callback.on /\ callback' = [callback EXCEPT !.seen = TRUE, !.validated = valid]
    <3>1. callback' \in CallbackType /\ callback'.on = callback.on
      BY <2>1, <2>3 DEF CallbackType, Link!Network
    <3>2. QED
      BY <1>1, <1>3, <2>1, <2>3, <3>1 DEF CallbackKept
  <2>4. QED
    BY <1>1, <2>2, <2>3 DEF Link!Capabilities, CallbackKept
<1>5. TasksKnown'
  <2>1. callback.number \in Nat
    BY <1>1 DEF CallbackKept, CallbackType
  <2>2. posted' = posted \/ posted' = Append(posted, Link!Changed(callback.number, TRUE))
    BY DEF Link!Capabilities, Link!Posts
  <2>3. QED
    BY <1>1, <2>1, <2>2, Tasks DEF TasksKnown
<1>6. UserKnown'
  BY <1>1, <1>2, <1>3, <1>4, <1>5 DEF UserKnown
<1>7. RoutesKnown'
  BY <1>1, <1>2, <1>3, <1>4, <1>5 DEF RoutesKnown
<1>8. PushIsOwn'
  BY <1>1, <1>2, <1>3, <1>4, <1>5 DEF PushIsOwn, OwnToken, OwnSocket
<1>9. CallbackKept'
  BY <1>1, <1>2, <1>3, <1>4, <1>5 DEF CallbackKept
<1>10. DeviceKnown'
  BY <1>1, <1>2, <1>3, <1>4, <1>5 DEF DeviceKnown
<1>11. TasksKnown'
  BY <1>1, <1>2, <1>3, <1>4, <1>5 DEF TasksKnown
<1>12. CountsKnown'
  BY <1>1, <1>2, <1>3, <1>4, <1>5 DEF CountsKnown
<1>13. QED
  BY <1>6, <1>7, <1>8, <1>9, <1>10, <1>11, <1>12 DEF LinkInv

LEMMA LinkConnectKeeps ==
  ASSUME LinkSizes, LinkInv, Link!Connect
  PROVE  LinkInv'
<1>1. UserKnown /\ RoutesKnown /\ PushIsOwn /\ CallbackKept /\ DeviceKnown /\ TasksKnown /\ CountsKnown
  BY DEF LinkInv
<1>2. /\ mode' = mode /\ vault' = vault /\ quick' = quick /\ origin' = origin
      /\ discovered' = discovered /\ previous' = previous /\ lookup' = lookup
      /\ acting' = acting /\ tor' = tor /\ running' = running /\ network' = network
      /\ callback' = callback /\ online' = online /\ posted' = posted /\ count' = count
  BY <1>1 DEF Link!Connect, Link!user, Link!route, Link!push, Link!retry, Link!device, Link!direct
<1>3. PushIsOwn'
  BY <1>1, <1>2, Pushed DEF Link!Connect, Link!push, OwnToken, OwnSocket, PushIsOwn
<1>4. waiting' \in BOOLEAN /\ reconnect' \in BOOLEAN
  BY <1>1, <1>2, <1>3 DEF Link!Connect, DeviceKnown, Link!ScheduleReconnect, Link!retry
<1>5. UserKnown'
  BY <1>1, <1>2, <1>3, <1>4 DEF UserKnown
<1>6. RoutesKnown'
  BY <1>1, <1>2, <1>3, <1>4 DEF RoutesKnown
<1>7. PushIsOwn'
  BY <1>1, <1>2, <1>3, <1>4 DEF PushIsOwn, OwnToken, OwnSocket
<1>8. CallbackKept'
  BY <1>1, <1>2, <1>3, <1>4 DEF CallbackKept
<1>9. DeviceKnown'
  BY <1>1, <1>2, <1>3, <1>4 DEF DeviceKnown
<1>10. TasksKnown'
  BY <1>1, <1>2, <1>3, <1>4 DEF TasksKnown
<1>11. CountsKnown'
  BY <1>1, <1>2, <1>3, <1>4 DEF CountsKnown
<1>12. QED
  BY <1>5, <1>6, <1>7, <1>8, <1>9, <1>10, <1>11 DEF LinkInv

LEMMA LinkReconnectKeeps ==
  ASSUME LinkSizes, LinkInv, Link!Reconnect
  PROVE  LinkInv'
<1>1. UserKnown /\ RoutesKnown /\ PushIsOwn /\ CallbackKept /\ DeviceKnown /\ TasksKnown /\ CountsKnown
  BY DEF LinkInv
<1>2. /\ mode' = mode /\ vault' = vault /\ quick' = quick /\ origin' = origin
      /\ discovered' = discovered /\ previous' = previous /\ lookup' = lookup
      /\ acting' = acting /\ tor' = tor /\ running' = running /\ network' = network
      /\ callback' = callback /\ online' = online /\ posted' = posted /\ count' = count
  BY <1>1 DEF Link!Reconnect, Link!user, Link!route, Link!push, Link!retry, Link!device,
     Link!direct
<1>3. PushIsOwn'
  BY <1>1, <1>2, Pushed DEF Link!Reconnect, Link!push, OwnToken, OwnSocket, PushIsOwn
<1>4. waiting' \in BOOLEAN /\ reconnect' \in BOOLEAN
  BY <1>1, <1>2, <1>3 DEF Link!Reconnect, DeviceKnown, Link!ScheduleReconnect
<1>5. UserKnown'
  BY <1>1, <1>2, <1>3, <1>4 DEF UserKnown
<1>6. RoutesKnown'
  BY <1>1, <1>2, <1>3, <1>4 DEF RoutesKnown
<1>7. PushIsOwn'
  BY <1>1, <1>2, <1>3, <1>4 DEF PushIsOwn, OwnToken, OwnSocket
<1>8. CallbackKept'
  BY <1>1, <1>2, <1>3, <1>4 DEF CallbackKept
<1>9. DeviceKnown'
  BY <1>1, <1>2, <1>3, <1>4 DEF DeviceKnown
<1>10. TasksKnown'
  BY <1>1, <1>2, <1>3, <1>4 DEF TasksKnown
<1>11. CountsKnown'
  BY <1>1, <1>2, <1>3, <1>4 DEF CountsKnown
<1>12. QED
  BY <1>5, <1>6, <1>7, <1>8, <1>9, <1>10, <1>11 DEF LinkInv

LEMMA LinkTimePassesKeeps ==
  ASSUME LinkSizes, LinkInv, Link!TimePasses
  PROVE  LinkInv'
<1>1. UserKnown /\ RoutesKnown /\ PushIsOwn /\ CallbackKept /\ DeviceKnown /\ TasksKnown /\ CountsKnown
  BY DEF LinkInv
<1>2. /\ mode' = mode /\ vault' = vault /\ quick' = quick /\ origin' = origin
      /\ discovered' = discovered /\ previous' = previous /\ lookup' = lookup /\ token' = token
      /\ pushSocket' = pushSocket /\ acting' = acting /\ reconnect' = reconnect /\ tor' = tor
      /\ running' = running /\ network' = network /\ callback' = callback /\ online' = online
      /\ posted' = posted /\ count' = count
  BY <1>1 DEF Link!TimePasses, Link!user, Link!route, Link!push, Link!retry, Link!device,
     Link!direct
<1>3. waiting' = FALSE
  BY <1>1, <1>2 DEF Link!TimePasses
<1>4. UserKnown'
  BY <1>1, <1>2, <1>3 DEF UserKnown
<1>5. RoutesKnown'
  BY <1>1, <1>2, <1>3 DEF RoutesKnown
<1>6. PushIsOwn'
  BY <1>1, <1>2, <1>3 DEF PushIsOwn, OwnToken, OwnSocket
<1>7. CallbackKept'
  BY <1>1, <1>2, <1>3 DEF CallbackKept
<1>8. DeviceKnown'
  BY <1>1, <1>2, <1>3 DEF DeviceKnown
<1>9. TasksKnown'
  BY <1>1, <1>2, <1>3 DEF TasksKnown
<1>10. CountsKnown'
  BY <1>1, <1>2, <1>3 DEF CountsKnown
<1>11. QED
  BY <1>4, <1>5, <1>6, <1>7, <1>8, <1>9, <1>10 DEF LinkInv

LEMMA LinkRenewKeeps ==
  ASSUME LinkSizes, LinkInv, Link!Renew
  PROVE  LinkInv'
<1>1. UserKnown /\ RoutesKnown /\ PushIsOwn /\ CallbackKept /\ DeviceKnown /\ TasksKnown /\ CountsKnown
  BY DEF LinkInv
<1>2. /\ mode' = mode /\ vault' = vault /\ quick' = quick /\ origin' = origin
      /\ discovered' = discovered /\ previous' = previous /\ lookup' = lookup
      /\ acting' = acting /\ waiting' = waiting /\ reconnect' = reconnect /\ tor' = tor
      /\ running' = running /\ network' = network /\ callback' = callback /\ online' = online
      /\ posted' = posted /\ count' = count
  BY <1>1 DEF Link!Renew, Link!user, Link!route, Link!push, Link!retry, Link!device, Link!direct
<1>3. PushIsOwn'
  BY <1>1, <1>2, Pushed DEF Link!Renew
<1>4. UserKnown'
  BY <1>1, <1>2, <1>3 DEF UserKnown
<1>5. RoutesKnown'
  BY <1>1, <1>2, <1>3 DEF RoutesKnown
<1>6. PushIsOwn'
  BY <1>1, <1>2, <1>3 DEF PushIsOwn, OwnToken, OwnSocket
<1>7. CallbackKept'
  BY <1>1, <1>2, <1>3 DEF CallbackKept
<1>8. DeviceKnown'
  BY <1>1, <1>2, <1>3 DEF DeviceKnown
<1>9. TasksKnown'
  BY <1>1, <1>2, <1>3 DEF TasksKnown
<1>10. CountsKnown'
  BY <1>1, <1>2, <1>3 DEF CountsKnown
<1>11. QED
  BY <1>4, <1>5, <1>6, <1>7, <1>8, <1>9, <1>10 DEF LinkInv

LEMMA LinkRefusedKeeps ==
  ASSUME LinkSizes, LinkInv, Link!Refused
  PROVE  LinkInv'
<1>1. UserKnown /\ RoutesKnown /\ PushIsOwn /\ CallbackKept /\ DeviceKnown /\ TasksKnown /\ CountsKnown
  BY DEF LinkInv
<1>2. /\ mode' = mode /\ vault' = vault /\ quick' = quick /\ origin' = origin
      /\ discovered' = discovered /\ previous' = previous /\ lookup' = lookup
      /\ pushSocket' = pushSocket /\ acting' = acting /\ waiting' = waiting
      /\ reconnect' = reconnect /\ tor' = tor /\ running' = running /\ network' = network
      /\ callback' = callback /\ online' = online /\ posted' = posted /\ count' = count
  BY <1>1 DEF Link!Refused, Link!user, Link!route, Link!push, Link!retry, Link!device, Link!direct
<1>3. token' = None
  BY <1>1, <1>2 DEF Link!Refused
<1>4. UserKnown'
  BY <1>1, <1>2, <1>3 DEF UserKnown
<1>5. RoutesKnown'
  BY <1>1, <1>2, <1>3 DEF RoutesKnown
<1>6. PushIsOwn'
  BY <1>1, <1>2, <1>3 DEF PushIsOwn, OwnToken, OwnSocket
<1>7. CallbackKept'
  BY <1>1, <1>2, <1>3 DEF CallbackKept
<1>8. DeviceKnown'
  BY <1>1, <1>2, <1>3 DEF DeviceKnown
<1>9. TasksKnown'
  BY <1>1, <1>2, <1>3 DEF TasksKnown
<1>10. CountsKnown'
  BY <1>1, <1>2, <1>3 DEF CountsKnown
<1>11. QED
  BY <1>4, <1>5, <1>6, <1>7, <1>8, <1>9, <1>10 DEF LinkInv

LEMMA LinkSocketEndsKeeps ==
  ASSUME LinkSizes, LinkInv, Link!SocketEnds
  PROVE  LinkInv'
<1>1. UserKnown /\ RoutesKnown /\ PushIsOwn /\ CallbackKept /\ DeviceKnown /\ TasksKnown /\ CountsKnown
  BY DEF LinkInv
<1>2. /\ mode' = mode /\ vault' = vault /\ quick' = quick /\ origin' = origin
      /\ discovered' = discovered /\ previous' = previous /\ lookup' = lookup /\ token' = token
      /\ waiting' = waiting /\ reconnect' = reconnect /\ tor' = tor /\ running' = running
      /\ network' = network /\ callback' = callback /\ online' = online /\ posted' = posted
      /\ count' = count
  BY <1>1 DEF Link!SocketEnds, Link!user, Link!route, Link!push, Link!retry, Link!device,
     Link!direct
<1>3. acting' \in 0 .. MaxActing
  BY <1>1, <1>2 DEF Link!SocketEnds, DeviceKnown, LinkSizes
<1>4. OwnSocket(pushSocket')
  BY <1>1, <1>2, <1>3 DEF Link!SocketEnds, PushIsOwn, OwnSocket
<1>5. UserKnown'
  BY <1>1, <1>2, <1>3, <1>4 DEF UserKnown
<1>6. RoutesKnown'
  BY <1>1, <1>2, <1>3, <1>4 DEF RoutesKnown
<1>7. PushIsOwn'
  BY <1>1, <1>2, <1>3, <1>4 DEF PushIsOwn, OwnToken, OwnSocket
<1>8. CallbackKept'
  BY <1>1, <1>2, <1>3, <1>4 DEF CallbackKept
<1>9. DeviceKnown'
  BY <1>1, <1>2, <1>3, <1>4 DEF DeviceKnown
<1>10. TasksKnown'
  BY <1>1, <1>2, <1>3, <1>4 DEF TasksKnown
<1>11. CountsKnown'
  BY <1>1, <1>2, <1>3, <1>4 DEF CountsKnown
<1>12. QED
  BY <1>5, <1>6, <1>7, <1>8, <1>9, <1>10, <1>11 DEF LinkInv

LEMMA LinkActKeeps ==
  ASSUME LinkSizes, LinkInv, Link!Act
  PROVE  LinkInv'
<1>1. UserKnown /\ RoutesKnown /\ PushIsOwn /\ CallbackKept /\ DeviceKnown /\ TasksKnown /\ CountsKnown
  BY DEF LinkInv
<1>2. /\ mode' = mode /\ vault' = vault /\ quick' = quick /\ origin' = origin
      /\ discovered' = discovered /\ previous' = previous /\ lookup' = lookup /\ token' = token
      /\ tor' = tor /\ running' = running /\ network' = network /\ callback' = callback
      /\ online' = online /\ posted' = posted /\ count' = count
  BY <1>1 DEF Link!Act, Link!user, Link!route, Link!push, Link!retry, Link!device, Link!direct
<1>3. acting' \in 0 .. MaxActing /\ pushSocket' = None
  BY <1>1, <1>2 DEF Link!Act, DeviceKnown, LinkSizes
<1>4. waiting' \in BOOLEAN /\ reconnect' \in BOOLEAN
  BY <1>1, <1>2, <1>3 DEF Link!Act, DeviceKnown, Link!ScheduleReconnect
<1>5. UserKnown'
  BY <1>1, <1>2, <1>3, <1>4 DEF UserKnown
<1>6. RoutesKnown'
  BY <1>1, <1>2, <1>3, <1>4 DEF RoutesKnown
<1>7. PushIsOwn'
  BY <1>1, <1>2, <1>3, <1>4 DEF PushIsOwn, OwnToken, OwnSocket
<1>8. CallbackKept'
  BY <1>1, <1>2, <1>3, <1>4 DEF CallbackKept
<1>9. DeviceKnown'
  BY <1>1, <1>2, <1>3, <1>4 DEF DeviceKnown
<1>10. TasksKnown'
  BY <1>1, <1>2, <1>3, <1>4 DEF TasksKnown
<1>11. CountsKnown'
  BY <1>1, <1>2, <1>3, <1>4 DEF CountsKnown
<1>12. QED
  BY <1>5, <1>6, <1>7, <1>8, <1>9, <1>10, <1>11 DEF LinkInv

LEMMA LinkNetworkChangedKeeps ==
  ASSUME LinkSizes, LinkInv, Link!NetworkChanged
  PROVE  LinkInv'
<1>1. UserKnown /\ RoutesKnown /\ PushIsOwn /\ CallbackKept /\ DeviceKnown /\ TasksKnown /\ CountsKnown
  BY DEF LinkInv
<1>2. /\ mode' = mode /\ vault' = vault /\ quick' = quick /\ origin' = origin
      /\ discovered' = discovered /\ previous' = previous /\ lookup' = lookup
      /\ acting' = acting /\ running' = running /\ network' = network /\ count' = count
  BY <1>1 DEF Link!NetworkChanged, Link!user, Link!route, Link!push, Link!retry, Link!device,
     Link!direct
<1>3. Head(posted) \in ChangedTask /\ Tail(posted) \in Seq(TaskType)
  BY <1>1, <1>2, Heads DEF Link!NetworkChanged
<1>4. Head(posted).up \in BOOLEAN
  BY <1>1, <1>2, <1>3 DEF ChangedTask
<1>5. online' \in BOOLEAN /\ waiting' \in BOOLEAN /\ reconnect' \in BOOLEAN
  BY <1>1, <1>2, <1>3, <1>4 DEF Link!NetworkChanged, DeviceKnown, Link!ScheduleReconnect,
     Link!retry
<1>6. CallbackKept' /\ TasksKnown'
  <2>1. \/ UNCHANGED Link!direct /\ posted' = Tail(posted)
        \/ Link!EnsureTor(callback, Tail(posted))
    BY DEF Link!NetworkChanged
  <2>2. CASE UNCHANGED Link!direct /\ posted' = Tail(posted)
    BY <1>1, <1>3, <2>2 DEF Link!direct, CallbackKept, TasksKnown
  <2>3. CASE Link!EnsureTor(callback, Tail(posted))
    <3>1. callback \in CallbackType /\ (callback.current # 0 => callback.on)
      BY <1>1 DEF CallbackKept
    <3>2. QED
      BY <1>1, <1>3, <2>3, <3>1, Ensured
  <2>4. QED
    BY <2>1, <2>2, <2>3
<1>7. PushIsOwn'
  <2>1. \/ UNCHANGED Link!push \/ (Link!StopPush /\ UNCHANGED token) \/ (Link!Open /\ Link!Relisten)
    BY DEF Link!NetworkChanged
  <2>2. CASE Link!Open /\ Link!Relisten
    BY <1>2, <2>2, Pushed
  <2>3. CASE UNCHANGED Link!push \/ (Link!StopPush /\ UNCHANGED token)
    BY <1>1, <1>2, <2>3 DEF Link!push, Link!StopPush, PushIsOwn, OwnToken, OwnSocket
  <2>4. QED
    BY <2>1, <2>2, <2>3
<1>8. UserKnown'
  BY <1>1, <1>2, <1>3, <1>4, <1>5, <1>6, <1>7 DEF UserKnown
<1>9. RoutesKnown'
  BY <1>1, <1>2, <1>3, <1>4, <1>5, <1>6, <1>7 DEF RoutesKnown
<1>10. PushIsOwn'
  BY <1>1, <1>2, <1>3, <1>4, <1>5, <1>6, <1>7 DEF PushIsOwn, OwnToken, OwnSocket
<1>11. CallbackKept'
  BY <1>1, <1>2, <1>3, <1>4, <1>5, <1>6, <1>7 DEF CallbackKept
<1>12. DeviceKnown'
  BY <1>1, <1>2, <1>3, <1>4, <1>5, <1>6, <1>7 DEF DeviceKnown
<1>13. TasksKnown'
  BY <1>1, <1>2, <1>3, <1>4, <1>5, <1>6, <1>7 DEF TasksKnown
<1>14. CountsKnown'
  BY <1>1, <1>2, <1>3, <1>4, <1>5, <1>6, <1>7 DEF CountsKnown
<1>15. QED
  BY <1>8, <1>9, <1>10, <1>11, <1>12, <1>13, <1>14 DEF LinkInv

LEMMA LinkReadyKeeps ==
  ASSUME LinkSizes, LinkInv, Link!Ready
  PROVE  LinkInv'
<1>1. UserKnown /\ RoutesKnown /\ PushIsOwn /\ CallbackKept /\ DeviceKnown /\ TasksKnown /\ CountsKnown
  BY DEF LinkInv
<1>2. CountsKnown'
  BY <1>1, LinkCounting DEF Link!Ready
<1>3. /\ mode' = mode /\ vault' = vault /\ quick' = quick /\ origin' = origin
      /\ discovered' = discovered /\ previous' = previous /\ lookup' = lookup /\ token' = token
      /\ pushSocket' = pushSocket /\ acting' = acting /\ waiting' = waiting
      /\ reconnect' = reconnect /\ tor' = tor /\ running' = running /\ network' = network
      /\ callback' = callback /\ online' = online
  BY <1>1, <1>2 DEF Link!Ready, Link!user, Link!route, Link!push, Link!retry, Link!device,
     Link!direct
<1>4. TasksKnown'
  BY <1>1, <1>2, <1>3, Tasks DEF Link!Ready, Link!Posts, TasksKnown, UserKnown
<1>5. UserKnown'
  BY <1>1, <1>2, <1>3, <1>4 DEF UserKnown
<1>6. RoutesKnown'
  BY <1>1, <1>2, <1>3, <1>4 DEF RoutesKnown
<1>7. PushIsOwn'
  BY <1>1, <1>2, <1>3, <1>4 DEF PushIsOwn, OwnToken, OwnSocket
<1>8. CallbackKept'
  BY <1>1, <1>2, <1>3, <1>4 DEF CallbackKept
<1>9. DeviceKnown'
  BY <1>1, <1>2, <1>3, <1>4 DEF DeviceKnown
<1>10. TasksKnown'
  BY <1>1, <1>2, <1>3, <1>4 DEF TasksKnown
<1>11. CountsKnown'
  BY <1>1, <1>2, <1>3, <1>4 DEF CountsKnown
<1>12. QED
  BY <1>5, <1>6, <1>7, <1>8, <1>9, <1>10, <1>11 DEF LinkInv

LEMMA LinkRetryKeeps ==
  ASSUME LinkSizes, LinkInv, Link!Retry
  PROVE  LinkInv'
<1>1. UserKnown /\ RoutesKnown /\ PushIsOwn /\ CallbackKept /\ DeviceKnown /\ TasksKnown /\ CountsKnown
  BY DEF LinkInv
<1>2. /\ mode' = mode /\ vault' = vault /\ quick' = quick /\ origin' = origin
      /\ discovered' = discovered /\ previous' = previous /\ lookup' = lookup /\ token' = token
      /\ pushSocket' = pushSocket /\ acting' = acting /\ reconnect' = reconnect /\ tor' = tor
      /\ running' = running /\ network' = network /\ callback' = callback /\ online' = online
      /\ count' = count
  BY <1>1 DEF Link!Retry, Link!user, Link!route, Link!push, Link!retry, Link!device, Link!direct
<1>3. Tail(posted) \in Seq(TaskType)
  BY <1>1, <1>2, Heads DEF Link!Retry
<1>4. posted' = Tail(posted) /\ waiting' \in BOOLEAN
  BY <1>1, <1>2, <1>3 DEF Link!Retry, DeviceKnown
<1>5. UserKnown'
  BY <1>1, <1>2, <1>3, <1>4 DEF UserKnown
<1>6. RoutesKnown'
  BY <1>1, <1>2, <1>3, <1>4 DEF RoutesKnown
<1>7. PushIsOwn'
  BY <1>1, <1>2, <1>3, <1>4 DEF PushIsOwn, OwnToken, OwnSocket
<1>8. CallbackKept'
  BY <1>1, <1>2, <1>3, <1>4 DEF CallbackKept
<1>9. DeviceKnown'
  BY <1>1, <1>2, <1>3, <1>4 DEF DeviceKnown
<1>10. TasksKnown'
  BY <1>1, <1>2, <1>3, <1>4 DEF TasksKnown
<1>11. CountsKnown'
  BY <1>1, <1>2, <1>3, <1>4 DEF CountsKnown
<1>12. QED
  BY <1>5, <1>6, <1>7, <1>8, <1>9, <1>10, <1>11 DEF LinkInv

LEMMA LinkTickKeeps ==
  ASSUME LinkSizes, LinkInv, Link!Tick
  PROVE  LinkInv'
<1>1. UserKnown /\ RoutesKnown /\ PushIsOwn /\ CallbackKept /\ DeviceKnown /\ TasksKnown /\ CountsKnown
  BY DEF LinkInv
<1>2. /\ mode' = mode /\ vault' = vault /\ quick' = quick /\ origin' = origin
      /\ discovered' = discovered /\ previous' = previous /\ lookup' = lookup /\ token' = token
      /\ pushSocket' = pushSocket /\ acting' = acting /\ waiting' = waiting
      /\ reconnect' = reconnect /\ running' = running /\ network' = network /\ online' = online
      /\ count' = count
  BY <1>1 DEF Link!Tick, Link!user, Link!route, Link!push, Link!retry, Link!device, Link!direct
<1>3. /\ callback \in CallbackType /\ (callback.current # 0 => callback.on)
      /\ posted \in Seq(TaskType)
  BY <1>1, <1>2 DEF CallbackKept, TasksKnown
<1>4. CallbackKept' /\ TasksKnown'
  BY <1>1, <1>2, <1>3, Ensured DEF Link!Tick
<1>5. UserKnown'
  BY <1>1, <1>2, <1>3, <1>4 DEF UserKnown
<1>6. RoutesKnown'
  BY <1>1, <1>2, <1>3, <1>4 DEF RoutesKnown
<1>7. PushIsOwn'
  BY <1>1, <1>2, <1>3, <1>4 DEF PushIsOwn, OwnToken, OwnSocket
<1>8. CallbackKept'
  BY <1>1, <1>2, <1>3, <1>4 DEF CallbackKept
<1>9. DeviceKnown'
  BY <1>1, <1>2, <1>3, <1>4 DEF DeviceKnown
<1>10. TasksKnown'
  BY <1>1, <1>2, <1>3, <1>4 DEF TasksKnown
<1>11. CountsKnown'
  BY <1>1, <1>2, <1>3, <1>4 DEF CountsKnown
<1>12. QED
  BY <1>5, <1>6, <1>7, <1>8, <1>9, <1>10, <1>11 DEF LinkInv

LEMMA LinkServiceStartsKeeps ==
  ASSUME LinkSizes, LinkInv, Link!ServiceStarts
  PROVE  LinkInv'
<1>1. UserKnown /\ RoutesKnown /\ PushIsOwn /\ CallbackKept /\ DeviceKnown /\ TasksKnown /\ CountsKnown
  BY DEF LinkInv
<1>2. /\ mode' = mode /\ vault' = vault /\ quick' = quick /\ origin' = origin
      /\ discovered' = discovered /\ previous' = previous /\ lookup' = lookup /\ token' = token
      /\ pushSocket' = pushSocket /\ acting' = acting /\ waiting' = waiting
      /\ reconnect' = reconnect /\ tor' = tor /\ network' = network /\ callback' = callback
      /\ online' = online /\ posted' = posted /\ count' = count
  BY <1>1 DEF Link!ServiceStarts, Link!user, Link!route, Link!push, Link!retry, Link!device,
     Link!direct
<1>3. running' = TRUE
  BY <1>1, <1>2 DEF Link!ServiceStarts
<1>4. UserKnown'
  BY <1>1, <1>2, <1>3 DEF UserKnown
<1>5. RoutesKnown'
  BY <1>1, <1>2, <1>3 DEF RoutesKnown
<1>6. PushIsOwn'
  BY <1>1, <1>2, <1>3 DEF PushIsOwn, OwnToken, OwnSocket
<1>7. CallbackKept'
  BY <1>1, <1>2, <1>3 DEF CallbackKept
<1>8. DeviceKnown'
  BY <1>1, <1>2, <1>3 DEF DeviceKnown
<1>9. TasksKnown'
  BY <1>1, <1>2, <1>3 DEF TasksKnown
<1>10. CountsKnown'
  BY <1>1, <1>2, <1>3 DEF CountsKnown
<1>11. QED
  BY <1>4, <1>5, <1>6, <1>7, <1>8, <1>9, <1>10 DEF LinkInv

LEMMA LinkServiceEndsKeeps ==
  ASSUME LinkSizes, LinkInv, Link!ServiceEnds
  PROVE  LinkInv'
<1>1. UserKnown /\ RoutesKnown /\ PushIsOwn /\ CallbackKept /\ DeviceKnown /\ TasksKnown /\ CountsKnown
  BY DEF LinkInv
<1>2. CountsKnown'
  BY <1>1, LinkCounting DEF Link!ServiceEnds
<1>3. /\ mode' = mode /\ vault' = vault /\ quick' = quick /\ origin' = origin
      /\ discovered' = discovered /\ previous' = previous /\ lookup' = lookup /\ token' = token
      /\ pushSocket' = pushSocket /\ acting' = acting /\ waiting' = waiting
      /\ reconnect' = reconnect /\ tor' = tor /\ network' = network /\ callback' = callback
      /\ online' = online
  BY <1>1, <1>2 DEF Link!ServiceEnds, Link!user, Link!route, Link!push, Link!retry, Link!device,
     Link!direct
<1>4. running' = FALSE /\ TasksKnown'
  BY <1>1, <1>2, <1>3, Tasks DEF Link!ServiceEnds, Link!Posts, TasksKnown
<1>5. UserKnown'
  BY <1>1, <1>2, <1>3, <1>4 DEF UserKnown
<1>6. RoutesKnown'
  BY <1>1, <1>2, <1>3, <1>4 DEF RoutesKnown
<1>7. PushIsOwn'
  BY <1>1, <1>2, <1>3, <1>4 DEF PushIsOwn, OwnToken, OwnSocket
<1>8. CallbackKept'
  BY <1>1, <1>2, <1>3, <1>4 DEF CallbackKept
<1>9. DeviceKnown'
  BY <1>1, <1>2, <1>3, <1>4 DEF DeviceKnown
<1>10. TasksKnown'
  BY <1>1, <1>2, <1>3, <1>4 DEF TasksKnown
<1>11. CountsKnown'
  BY <1>1, <1>2, <1>3, <1>4 DEF CountsKnown
<1>12. QED
  BY <1>5, <1>6, <1>7, <1>8, <1>9, <1>10, <1>11 DEF LinkInv

LEMMA LinkDeliveryStoppedKeeps ==
  ASSUME LinkSizes, LinkInv, Link!DeliveryStopped
  PROVE  LinkInv'
<1>1. UserKnown /\ RoutesKnown /\ PushIsOwn /\ CallbackKept /\ DeviceKnown /\ TasksKnown /\ CountsKnown
  BY DEF LinkInv
<1>2. /\ mode' = mode /\ vault' = vault /\ quick' = quick /\ origin' = origin
      /\ discovered' = discovered /\ previous' = previous /\ lookup' = lookup /\ token' = token
      /\ pushSocket' = pushSocket /\ acting' = acting /\ waiting' = waiting
      /\ reconnect' = reconnect /\ running' = running /\ network' = network /\ online' = online
      /\ count' = count
  BY <1>1 DEF Link!DeliveryStopped, Link!user, Link!route, Link!push, Link!retry, Link!device,
     Link!direct
<1>3. Tail(posted) \in Seq(TaskType)
  BY <1>1, <1>2, Heads DEF Link!DeliveryStopped
<1>4. posted' = Tail(posted)
  BY <1>1, <1>2, <1>3 DEF Link!DeliveryStopped
<1>5. CallbackKept'
  BY <1>1, <1>2, <1>3, <1>4, Without DEF Link!DeliveryStopped, Link!direct, CallbackKept
<1>6. UserKnown'
  BY <1>1, <1>2, <1>3, <1>4, <1>5 DEF UserKnown
<1>7. RoutesKnown'
  BY <1>1, <1>2, <1>3, <1>4, <1>5 DEF RoutesKnown
<1>8. PushIsOwn'
  BY <1>1, <1>2, <1>3, <1>4, <1>5 DEF PushIsOwn, OwnToken, OwnSocket
<1>9. CallbackKept'
  BY <1>1, <1>2, <1>3, <1>4, <1>5 DEF CallbackKept
<1>10. DeviceKnown'
  BY <1>1, <1>2, <1>3, <1>4, <1>5 DEF DeviceKnown
<1>11. TasksKnown'
  BY <1>1, <1>2, <1>3, <1>4, <1>5 DEF TasksKnown
<1>12. CountsKnown'
  BY <1>1, <1>2, <1>3, <1>4, <1>5 DEF CountsKnown
<1>13. QED
  BY <1>6, <1>7, <1>8, <1>9, <1>10, <1>11, <1>12 DEF LinkInv

LEMMA LinkUnlockKeeps ==
  ASSUME LinkSizes, LinkInv, NEW v \in Vault, Link!Unlock(v)
  PROVE  LinkInv'
<1>1. UserKnown /\ RoutesKnown /\ PushIsOwn /\ CallbackKept /\ DeviceKnown /\ TasksKnown /\ CountsKnown
  BY DEF LinkInv
<1>2. CountsKnown'
  BY <1>1, LinkCounting DEF Link!Unlock
<1>3. /\ origin' = origin /\ discovered' = discovered /\ previous' = previous
      /\ lookup' = lookup /\ acting' = acting /\ waiting' = waiting /\ running' = running
      /\ network' = network /\ online' = online /\ posted' = posted
  BY <1>1, <1>2 DEF Link!Unlock, Link!user, Link!route, Link!push, Link!retry, Link!device,
     Link!direct
<1>4. /\ vault' = v /\ v # None /\ quick' = FALSE /\ mode' \in Link!Mode /\ token' = None
      /\ pushSocket' = None /\ reconnect' = FALSE
  BY <1>1, <1>2, <1>3 DEF Link!Unlock, Link!ClearAuth, Link!StopPush, LinkSizes
<1>5. CallbackKept'
  BY <1>1, <1>2, <1>3, <1>4, Without DEF Link!Unlock
<1>6. UserKnown'
  BY <1>1, <1>2, <1>3, <1>4, <1>5 DEF UserKnown
<1>7. RoutesKnown'
  BY <1>1, <1>2, <1>3, <1>4, <1>5 DEF RoutesKnown
<1>8. PushIsOwn'
  BY <1>1, <1>2, <1>3, <1>4, <1>5 DEF PushIsOwn, OwnToken, OwnSocket
<1>9. CallbackKept'
  BY <1>1, <1>2, <1>3, <1>4, <1>5 DEF CallbackKept
<1>10. DeviceKnown'
  BY <1>1, <1>2, <1>3, <1>4, <1>5 DEF DeviceKnown
<1>11. TasksKnown'
  BY <1>1, <1>2, <1>3, <1>4, <1>5 DEF TasksKnown
<1>12. CountsKnown'
  BY <1>1, <1>2, <1>3, <1>4, <1>5 DEF CountsKnown
<1>13. QED
  BY <1>6, <1>7, <1>8, <1>9, <1>10, <1>11, <1>12 DEF LinkInv

LEMMA LinkLockKeeps ==
  ASSUME LinkSizes, LinkInv, Link!Lock
  PROVE  LinkInv'
<1>1. UserKnown /\ RoutesKnown /\ PushIsOwn /\ CallbackKept /\ DeviceKnown /\ TasksKnown /\ CountsKnown
  BY DEF LinkInv
<1>2. /\ mode' = mode /\ origin' = origin /\ discovered' = discovered /\ previous' = previous
      /\ lookup' = lookup /\ acting' = acting /\ waiting' = waiting /\ reconnect' = reconnect
      /\ running' = running /\ network' = network /\ online' = online /\ posted' = posted
      /\ count' = count
  BY <1>1 DEF Link!Lock, Link!user, Link!route, Link!push, Link!retry, Link!device, Link!direct
<1>3. vault' = None /\ quick' = FALSE /\ token' = None /\ pushSocket' = None
  BY <1>1, <1>2 DEF Link!Lock, Link!ClearAuth, Link!StopPush
<1>4. CallbackKept'
  BY <1>1, <1>2, <1>3, Without DEF Link!Lock
<1>5. UserKnown'
  BY <1>1, <1>2, <1>3, <1>4 DEF UserKnown
<1>6. RoutesKnown'
  BY <1>1, <1>2, <1>3, <1>4 DEF RoutesKnown
<1>7. PushIsOwn'
  BY <1>1, <1>2, <1>3, <1>4 DEF PushIsOwn, OwnToken, OwnSocket
<1>8. CallbackKept'
  BY <1>1, <1>2, <1>3, <1>4 DEF CallbackKept
<1>9. DeviceKnown'
  BY <1>1, <1>2, <1>3, <1>4 DEF DeviceKnown
<1>10. TasksKnown'
  BY <1>1, <1>2, <1>3, <1>4 DEF TasksKnown
<1>11. CountsKnown'
  BY <1>1, <1>2, <1>3, <1>4 DEF CountsKnown
<1>12. QED
  BY <1>5, <1>6, <1>7, <1>8, <1>9, <1>10, <1>11 DEF LinkInv

LEMMA LinkQuickLockKeeps ==
  ASSUME LinkSizes, LinkInv, Link!QuickLock
  PROVE  LinkInv'
<1>1. UserKnown /\ RoutesKnown /\ PushIsOwn /\ CallbackKept /\ DeviceKnown /\ TasksKnown /\ CountsKnown
  BY DEF LinkInv
<1>2. CountsKnown'
  BY <1>1, LinkCounting DEF Link!QuickLock
<1>3. /\ mode' = mode /\ vault' = vault /\ origin' = origin /\ discovered' = discovered
      /\ previous' = previous /\ lookup' = lookup /\ token' = token /\ pushSocket' = pushSocket
      /\ acting' = acting /\ waiting' = waiting /\ reconnect' = reconnect /\ running' = running
      /\ network' = network /\ online' = online /\ posted' = posted
  BY <1>1, <1>2 DEF Link!QuickLock, Link!user, Link!route, Link!push, Link!retry, Link!device,
     Link!direct
<1>4. quick' = TRUE /\ vault # None
  BY <1>1, <1>2, <1>3 DEF Link!QuickLock, Link!Open
<1>5. CallbackKept'
  BY <1>1, <1>2, <1>3, <1>4, Without DEF Link!QuickLock
<1>6. UserKnown'
  BY <1>1, <1>2, <1>3, <1>4, <1>5 DEF UserKnown
<1>7. RoutesKnown'
  BY <1>1, <1>2, <1>3, <1>4, <1>5 DEF RoutesKnown
<1>8. PushIsOwn'
  BY <1>1, <1>2, <1>3, <1>4, <1>5 DEF PushIsOwn, OwnToken, OwnSocket
<1>9. CallbackKept'
  BY <1>1, <1>2, <1>3, <1>4, <1>5 DEF CallbackKept
<1>10. DeviceKnown'
  BY <1>1, <1>2, <1>3, <1>4, <1>5 DEF DeviceKnown
<1>11. TasksKnown'
  BY <1>1, <1>2, <1>3, <1>4, <1>5 DEF TasksKnown
<1>12. CountsKnown'
  BY <1>1, <1>2, <1>3, <1>4, <1>5 DEF CountsKnown
<1>13. QED
  BY <1>6, <1>7, <1>8, <1>9, <1>10, <1>11, <1>12 DEF LinkInv

LEMMA LinkQuickUnlockKeeps ==
  ASSUME LinkSizes, LinkInv, Link!QuickUnlock
  PROVE  LinkInv'
<1>1. UserKnown /\ RoutesKnown /\ PushIsOwn /\ CallbackKept /\ DeviceKnown /\ TasksKnown /\ CountsKnown
  BY DEF LinkInv
<1>2. /\ mode' = mode /\ vault' = vault /\ origin' = origin /\ discovered' = discovered
      /\ previous' = previous /\ lookup' = lookup /\ token' = token /\ pushSocket' = pushSocket
      /\ acting' = acting /\ waiting' = waiting /\ reconnect' = reconnect /\ tor' = tor
      /\ running' = running /\ network' = network /\ callback' = callback /\ online' = online
      /\ posted' = posted /\ count' = count
  BY <1>1 DEF Link!QuickUnlock, Link!user, Link!route, Link!push, Link!retry, Link!device,
     Link!direct
<1>3. quick' = FALSE
  BY <1>1, <1>2 DEF Link!QuickUnlock
<1>4. UserKnown'
  BY <1>1, <1>2, <1>3 DEF UserKnown
<1>5. RoutesKnown'
  BY <1>1, <1>2, <1>3 DEF RoutesKnown
<1>6. PushIsOwn'
  BY <1>1, <1>2, <1>3 DEF PushIsOwn, OwnToken, OwnSocket
<1>7. CallbackKept'
  BY <1>1, <1>2, <1>3 DEF CallbackKept
<1>8. DeviceKnown'
  BY <1>1, <1>2, <1>3 DEF DeviceKnown
<1>9. TasksKnown'
  BY <1>1, <1>2, <1>3 DEF TasksKnown
<1>10. CountsKnown'
  BY <1>1, <1>2, <1>3 DEF CountsKnown
<1>11. QED
  BY <1>4, <1>5, <1>6, <1>7, <1>8, <1>9, <1>10 DEF LinkInv

LEMMA LinkSetModeKeeps ==
  ASSUME LinkSizes, LinkInv, NEW m \in Link!Mode, Link!SetMode(m)
  PROVE  LinkInv'
<1>1. UserKnown /\ RoutesKnown /\ PushIsOwn /\ CallbackKept /\ DeviceKnown /\ TasksKnown /\ CountsKnown
  BY DEF LinkInv
<1>2. CountsKnown'
  BY <1>1, LinkCounting DEF Link!SetMode
<1>3. /\ vault' = vault /\ quick' = quick /\ origin' = origin /\ discovered' = discovered
      /\ previous' = previous /\ lookup' = lookup /\ token' = token /\ pushSocket' = pushSocket
      /\ acting' = acting /\ waiting' = waiting /\ reconnect' = reconnect /\ running' = running
      /\ network' = network /\ online' = online
  BY <1>1, <1>2 DEF Link!SetMode, Link!user, Link!route, Link!push, Link!retry, Link!device,
     Link!direct
<1>4. mode' \in Link!Mode
  BY <1>1, <1>2, <1>3 DEF Link!SetMode
<1>5. CallbackKept' /\ TasksKnown'
  <2>1. (Link!StopDirect /\ posted' = posted) \/ Link!EnsureTor(Link!NoCallback, posted)
    BY DEF Link!SetMode
  <2>2. posted \in Seq(TaskType)
    BY <1>1 DEF TasksKnown
  <2>3. CASE Link!EnsureTor(Link!NoCallback, posted)
    BY <1>1, <2>2, <2>3, Without, Ensured
  <2>4. QED
    BY <1>1, <2>1, <2>2, <2>3, Without DEF TasksKnown
<1>6. UserKnown'
  BY <1>1, <1>2, <1>3, <1>4, <1>5 DEF UserKnown
<1>7. RoutesKnown'
  BY <1>1, <1>2, <1>3, <1>4, <1>5 DEF RoutesKnown
<1>8. PushIsOwn'
  BY <1>1, <1>2, <1>3, <1>4, <1>5 DEF PushIsOwn, OwnToken, OwnSocket
<1>9. CallbackKept'
  BY <1>1, <1>2, <1>3, <1>4, <1>5 DEF CallbackKept
<1>10. DeviceKnown'
  BY <1>1, <1>2, <1>3, <1>4, <1>5 DEF DeviceKnown
<1>11. TasksKnown'
  BY <1>1, <1>2, <1>3, <1>4, <1>5 DEF TasksKnown
<1>12. CountsKnown'
  BY <1>1, <1>2, <1>3, <1>4, <1>5 DEF CountsKnown
<1>13. QED
  BY <1>6, <1>7, <1>8, <1>9, <1>10, <1>11, <1>12 DEF LinkInv

LEMMA LinkChooseRouteKeeps ==
  ASSUME LinkSizes, LinkInv, NEW r \in Link!Route, Link!ChooseRoute(r)
  PROVE  LinkInv'
<1>1. UserKnown /\ RoutesKnown /\ PushIsOwn /\ CallbackKept /\ DeviceKnown /\ TasksKnown /\ CountsKnown
  BY DEF LinkInv
<1>2. CountsKnown'
  BY <1>1, LinkCounting DEF Link!ChooseRoute
<1>3. /\ mode' = mode /\ vault' = vault /\ quick' = quick /\ discovered' = discovered
      /\ lookup' = lookup /\ acting' = acting /\ waiting' = waiting /\ reconnect' = reconnect
      /\ tor' = tor /\ running' = running /\ network' = network /\ callback' = callback
      /\ online' = online /\ posted' = posted
  BY <1>1, <1>2 DEF Link!ChooseRoute, Link!user, Link!route, Link!push, Link!retry, Link!device,
     Link!direct
<1>4. origin' \in Link!Route /\ previous' \in Link!Route \union {None} /\ PushIsOwn'
  BY <1>1, <1>2, <1>3, Configured DEF Link!ChooseRoute
<1>5. UserKnown'
  BY <1>1, <1>2, <1>3, <1>4 DEF UserKnown
<1>6. RoutesKnown'
  BY <1>1, <1>2, <1>3, <1>4 DEF RoutesKnown
<1>7. PushIsOwn'
  BY <1>1, <1>2, <1>3, <1>4 DEF PushIsOwn, OwnToken, OwnSocket
<1>8. CallbackKept'
  BY <1>1, <1>2, <1>3, <1>4 DEF CallbackKept
<1>9. DeviceKnown'
  BY <1>1, <1>2, <1>3, <1>4 DEF DeviceKnown
<1>10. TasksKnown'
  BY <1>1, <1>2, <1>3, <1>4 DEF TasksKnown
<1>11. CountsKnown'
  BY <1>1, <1>2, <1>3, <1>4 DEF CountsKnown
<1>12. QED
  BY <1>5, <1>6, <1>7, <1>8, <1>9, <1>10, <1>11 DEF LinkInv

LEMMA LinkDiscoverKeeps ==
  ASSUME LinkSizes, LinkInv, Link!Discover
  PROVE  LinkInv'
<1>1. UserKnown /\ RoutesKnown /\ PushIsOwn /\ CallbackKept /\ DeviceKnown /\ TasksKnown /\ CountsKnown
  BY DEF LinkInv
<1>2. CountsKnown'
  BY <1>1, LinkCounting DEF Link!Discover
<1>3. /\ mode' = mode /\ vault' = vault /\ quick' = quick /\ origin' = origin
      /\ discovered' = discovered /\ previous' = previous /\ token' = token
      /\ pushSocket' = pushSocket /\ acting' = acting /\ waiting' = waiting
      /\ reconnect' = reconnect /\ tor' = tor /\ running' = running /\ network' = network
      /\ callback' = callback /\ online' = online /\ posted' = posted
  BY <1>1, <1>2 DEF Link!Discover, Link!user, Link!route, Link!push, Link!retry, Link!device,
     Link!direct
<1>4. lookup' \in {None, Builtin} \union Tunnel \union Domain
  BY <1>1, <1>2, <1>3 DEF Link!Discover, RoutesKnown, LinkSizes
<1>5. UserKnown'
  BY <1>1, <1>2, <1>3, <1>4 DEF UserKnown
<1>6. RoutesKnown'
  BY <1>1, <1>2, <1>3, <1>4 DEF RoutesKnown
<1>7. PushIsOwn'
  BY <1>1, <1>2, <1>3, <1>4 DEF PushIsOwn, OwnToken, OwnSocket
<1>8. CallbackKept'
  BY <1>1, <1>2, <1>3, <1>4 DEF CallbackKept
<1>9. DeviceKnown'
  BY <1>1, <1>2, <1>3, <1>4 DEF DeviceKnown
<1>10. TasksKnown'
  BY <1>1, <1>2, <1>3, <1>4 DEF TasksKnown
<1>11. CountsKnown'
  BY <1>1, <1>2, <1>3, <1>4 DEF CountsKnown
<1>12. QED
  BY <1>5, <1>6, <1>7, <1>8, <1>9, <1>10, <1>11 DEF LinkInv

LEMMA LinkLookupFailsKeeps ==
  ASSUME LinkSizes, LinkInv, Link!LookupFails
  PROVE  LinkInv'
<1>1. UserKnown /\ RoutesKnown /\ PushIsOwn /\ CallbackKept /\ DeviceKnown /\ TasksKnown /\ CountsKnown
  BY DEF LinkInv
<1>2. /\ mode' = mode /\ vault' = vault /\ quick' = quick /\ origin' = origin
      /\ discovered' = discovered /\ previous' = previous /\ token' = token
      /\ pushSocket' = pushSocket /\ acting' = acting /\ waiting' = waiting
      /\ reconnect' = reconnect /\ tor' = tor /\ running' = running /\ network' = network
      /\ callback' = callback /\ online' = online /\ posted' = posted /\ count' = count
  BY <1>1 DEF Link!LookupFails, Link!user, Link!route, Link!push, Link!retry, Link!device,
     Link!direct
<1>3. lookup' = None
  BY <1>1, <1>2 DEF Link!LookupFails
<1>4. UserKnown'
  BY <1>1, <1>2, <1>3 DEF UserKnown
<1>5. RoutesKnown'
  BY <1>1, <1>2, <1>3 DEF RoutesKnown
<1>6. PushIsOwn'
  BY <1>1, <1>2, <1>3 DEF PushIsOwn, OwnToken, OwnSocket
<1>7. CallbackKept'
  BY <1>1, <1>2, <1>3 DEF CallbackKept
<1>8. DeviceKnown'
  BY <1>1, <1>2, <1>3 DEF DeviceKnown
<1>9. TasksKnown'
  BY <1>1, <1>2, <1>3 DEF TasksKnown
<1>10. CountsKnown'
  BY <1>1, <1>2, <1>3 DEF CountsKnown
<1>11. QED
  BY <1>4, <1>5, <1>6, <1>7, <1>8, <1>9, <1>10 DEF LinkInv

LEMMA LinkFoundKeeps ==
  ASSUME LinkSizes, LinkInv, NEW r \in Tunnel \union Domain, Link!Found(r)
  PROVE  LinkInv'
<1>1. UserKnown /\ RoutesKnown /\ PushIsOwn /\ CallbackKept /\ DeviceKnown /\ TasksKnown /\ CountsKnown
  BY DEF LinkInv
<1>2. /\ mode' = mode /\ vault' = vault /\ quick' = quick /\ acting' = acting
      /\ waiting' = waiting /\ reconnect' = reconnect /\ tor' = tor /\ running' = running
      /\ network' = network /\ callback' = callback /\ online' = online /\ posted' = posted
      /\ count' = count
  BY <1>1 DEF Link!Found, Link!user, Link!route, Link!push, Link!retry, Link!device, Link!direct
<1>3. lookup' = None /\ discovered' \in {discovered, r} /\ r \in Link!Route
  BY <1>1, <1>2 DEF Link!Found, Link!Route
<1>4. origin' \in Link!Route /\ previous' \in Link!Route \union {None} /\ PushIsOwn'
  <2>1. CASE Link!Configure(r, r)
    BY <1>2, <1>3, <2>1, Configured
  <2>2. CASE UNCHANGED <<origin, previous, Link!push>>
    BY <1>1, <1>2, <2>2 DEF Link!push, RoutesKnown, PushIsOwn, OwnToken, OwnSocket
  <2>3. QED
    BY <2>1, <2>2 DEF Link!Found
<1>5. UserKnown'
  BY <1>1, <1>2, <1>3, <1>4 DEF UserKnown
<1>6. RoutesKnown'
  BY <1>1, <1>2, <1>3, <1>4 DEF RoutesKnown
<1>7. PushIsOwn'
  BY <1>1, <1>2, <1>3, <1>4 DEF PushIsOwn, OwnToken, OwnSocket
<1>8. CallbackKept'
  BY <1>1, <1>2, <1>3, <1>4 DEF CallbackKept
<1>9. DeviceKnown'
  BY <1>1, <1>2, <1>3, <1>4 DEF DeviceKnown
<1>10. TasksKnown'
  BY <1>1, <1>2, <1>3, <1>4 DEF TasksKnown
<1>11. CountsKnown'
  BY <1>1, <1>2, <1>3, <1>4 DEF CountsKnown
<1>12. QED
  BY <1>5, <1>6, <1>7, <1>8, <1>9, <1>10, <1>11 DEF LinkInv
LEMMA LinkInitInv ==
  ASSUME LinkSizes, Link!Init
  PROVE  LinkInv
<1>1. UserKnown /\ RoutesKnown /\ PushIsOwn
  BY DEF Link!Init, UserKnown, RoutesKnown, PushIsOwn, Link!Mode, Link!Route
<1>2. CallbackKept
  BY DEF Link!Init, CallbackKept, CallbackType
<1>3. DeviceKnown
  <2>1. acting \in 0 .. MaxActing
    BY DEF Link!Init, LinkSizes
  <2>2. QED
    BY <2>1 DEF Link!Init, DeviceKnown, Link!Network
<1>4. TasksKnown
  BY DEF Link!Init, TasksKnown
<1>5. CountsKnown
  BY DEF Link!Init, CountsKnown, CountType
<1>6. QED
  BY <1>1, <1>2, <1>3, <1>4, <1>5 DEF LinkInv

LEMMA LinkStep ==
  ASSUME LinkSizes, LinkInv, [Link!Next]_(Link!vars)
  PROVE  LinkInv'
<1>1. CASE Link!Next
  <2>1. CASE (\E n \in Link!Network : Link!Available(n)) \/ Link!Lost \/ \E valid \in BOOLEAN : Link!Capabilities(valid)
    BY <2>1, LinkAvailableKeeps, LinkLostKeeps, LinkCapabilitiesKeeps
  <2>2. CASE Link!Connect \/ Link!Reconnect \/ Link!TimePasses \/ Link!Renew \/ Link!Refused \/ Link!SocketEnds \/ Link!Act
    BY <2>2, LinkConnectKeeps, LinkReconnectKeeps, LinkTimePassesKeeps, LinkRenewKeeps,
       LinkRefusedKeeps, LinkSocketEndsKeeps, LinkActKeeps
  <2>3. CASE Link!NetworkChanged \/ Link!Ready \/ Link!Retry \/ Link!Tick \/ Link!ServiceStarts \/ Link!ServiceEnds \/ Link!DeliveryStopped
    BY <2>3, LinkNetworkChangedKeeps, LinkReadyKeeps, LinkRetryKeeps, LinkTickKeeps,
       LinkServiceStartsKeeps, LinkServiceEndsKeeps, LinkDeliveryStoppedKeeps
  <2>4. CASE \/ \E v \in Vault : Link!Unlock(v)
             \/ Link!Lock \/ Link!QuickLock \/ Link!QuickUnlock
             \/ \E m \in Link!Mode : Link!SetMode(m)
    BY <2>4, LinkUnlockKeeps, LinkLockKeeps, LinkQuickLockKeeps, LinkQuickUnlockKeeps,
       LinkSetModeKeeps
  <2>5. CASE \/ \E r \in Link!Route : Link!ChooseRoute(r)
             \/ Link!Discover \/ Link!LookupFails
             \/ \E r \in Tunnel \union Domain : Link!Found(r)
    BY <2>5, LinkChooseRouteKeeps, LinkDiscoverKeeps, LinkLookupFailsKeeps, LinkFoundKeeps
  <2>6. QED
    BY <1>1, <2>1, <2>2, <2>3, <2>4, <2>5 DEF Link!Next
<1>2. CASE UNCHANGED Link!vars
  <2>1. /\ mode' = mode /\ vault' = vault /\ quick' = quick /\ origin' = origin /\ discovered' = discovered
        /\ previous' = previous /\ lookup' = lookup /\ token' = token /\ pushSocket' = pushSocket
        /\ acting' = acting /\ waiting' = waiting /\ reconnect' = reconnect /\ tor' = tor
        /\ running' = running /\ network' = network /\ callback' = callback /\ online' = online
        /\ posted' = posted /\ count' = count
    BY <1>2 DEF Link!vars, Link!user, Link!route, Link!push, Link!retry, Link!device, Link!direct
  <2>2. QED
    BY <2>1 DEF LinkInv, UserKnown, RoutesKnown, PushIsOwn, OwnToken, OwnSocket, CallbackKept,
       DeviceKnown, TasksKnown, CountsKnown
<1>3. QED
  BY <1>1, <1>2

\* What it says of the properties that are checked.
LEMMA LinkImplied ==
  ASSUME LinkSizes, LinkInv
  PROVE  Link!TypeOK /\ Link!LinkBelongs
<1>1. Link!LinkBelongs
  BY DEF LinkInv, PushIsOwn, OwnToken, OwnSocket, Link!LinkBelongs
<1>2. UserKnown /\ RoutesKnown /\ PushIsOwn /\ CallbackKept /\ DeviceKnown /\ TasksKnown
  BY DEF LinkInv
<1>3. \A i \in 1 .. Len(posted) : posted[i].does \in {"changed", "retry", "stop"}
  <2>1. posted \in Seq(TaskType)
    BY <1>2 DEF TasksKnown
  <2>2. \A i \in 1 .. Len(posted) : posted[i] \in TaskType
    BY <2>1
  <2>3. \A t \in TaskType : t.does \in {"changed", "retry", "stop"}
    BY DEF TaskType, ChangedTask
  <2>4. QED
    BY <2>2, <2>3
<1>4. callback.current \in Link!Network \union {0} /\ callback.number \in Nat
  BY <1>2 DEF CallbackKept, CallbackType
<1>5. discovered \in Link!Route \union {None} /\ previous \in Link!Route \union {None} /\ lookup \in Link!Route \union {None}
  BY <1>2 DEF RoutesKnown, Link!Route
<1>6. waiting \in BOOLEAN /\ reconnect \in BOOLEAN /\ tor \in BOOLEAN /\ running \in BOOLEAN /\ online \in BOOLEAN
  BY <1>2 DEF DeviceKnown, CallbackKept
<1>7. {waiting, reconnect, tor, running, online} \subseteq BOOLEAN
  BY <1>6
<1>8. Link!TypeOK
  BY <1>2, <1>3, <1>4, <1>5, <1>7 DEF Link!TypeOK, UserKnown, RoutesKnown, PushIsOwn, OwnToken,
     OwnSocket, DeviceKnown, CallbackKept
<1>9. QED
  BY <1>1, <1>8

\* A route of the user's own is left only by a choice of the user's.
LEMMA RouteChange ==
  ASSUME LinkSizes, LinkInv, [Link!Next]_(Link!vars)
  PROVE  origin' # origin /\ origin \in {Lan} \union Own => (count.routes)' # count.routes
<1> SUFFICES ASSUME origin' # origin, origin \in {Lan} \union Own
             PROVE  (count.routes)' # count.routes
  OBVIOUS
<1>1. RoutesKnown /\ CountsKnown
  BY DEF LinkInv
<1>2. (\E r \in Link!Route : Link!ChooseRoute(r)) \/ (\E r \in Tunnel \union Domain : Link!Found(r))
  <2>1. CASE UNCHANGED Link!vars
    BY <2>1 DEF Link!vars, Link!route
  <2>2. CASE (\E n \in Link!Network : Link!Available(n)) \/ Link!Lost \/ \E valid \in BOOLEAN : Link!Capabilities(valid)
    BY <2>2 DEF Link!Available, Link!Lost, Link!Capabilities, Link!route
  <2>3. CASE Link!Connect \/ Link!Reconnect \/ Link!TimePasses \/ Link!Renew \/ Link!Refused \/ Link!SocketEnds \/ Link!Act
    BY <2>3 DEF Link!Connect, Link!Reconnect, Link!TimePasses, Link!Renew, Link!Refused,
       Link!SocketEnds, Link!Act, Link!route
  <2>4. CASE Link!NetworkChanged \/ Link!Ready \/ Link!Retry \/ Link!Tick \/ Link!ServiceStarts \/ Link!ServiceEnds \/ Link!DeliveryStopped
    BY <2>4 DEF Link!NetworkChanged, Link!Ready, Link!Retry, Link!Tick, Link!ServiceStarts,
       Link!ServiceEnds, Link!DeliveryStopped, Link!route
  <2>5. CASE \/ \E v \in Vault : Link!Unlock(v)
             \/ Link!Lock \/ Link!QuickLock \/ Link!QuickUnlock
             \/ \E m \in Link!Mode : Link!SetMode(m)
    BY <2>5 DEF Link!Unlock, Link!Lock, Link!QuickLock, Link!QuickUnlock, Link!SetMode, Link!route
  <2>6. CASE Link!Discover \/ Link!LookupFails
    BY <2>6 DEF Link!Discover, Link!LookupFails
  <2>7. QED
    BY <2>1, <2>2, <2>3, <2>4, <2>5, <2>6 DEF Link!Next
<1>3. CASE \E r \in Link!Route : Link!ChooseRoute(r)
  <2>1. Link!Counted("routes", MaxRoutes)
    BY <1>3 DEF Link!ChooseRoute
  <2>2. QED
    BY <1>1, <2>1, LinkCounting
<1>4. ~\E r \in Tunnel \union Domain : Link!Found(r)
  <2>1. SUFFICES ASSUME NEW r \in Tunnel \union Domain, Link!Found(r) PROVE FALSE
    OBVIOUS
  <2>2. lookup # None /\ origin = lookup
    BY <2>1 DEF Link!Found
  <2>3. QED
    BY <1>1, <2>2 DEF RoutesKnown, LinkSizes
<1>5. QED
  BY <1>2, <1>3, <1>4

\* What the phone goes on using was made for its open vault and by the relay of its route,
\* for any vaults and routes and however often they change (NativeEngine.java).
THEOREM LinkIsOwn ==
  ASSUME LinkSizes
  PROVE  Link!Spec => [](Link!TypeOK /\ Link!LinkBelongs)
<1>1. Link!Init => LinkInv
  BY LinkInitInv
<1>2. LinkInv /\ [Link!Next]_(Link!vars) => LinkInv'
  BY LinkStep
<1>3. LinkInv => Link!TypeOK /\ Link!LinkBelongs
  BY LinkImplied
<1>4. QED
  BY <1>1, <1>2, <1>3, PTL DEF Link!Spec

\* No discovery takes the user from a route of the fixed list or one chosen by hand
\* (NativeEngine.java:325).
THEOREM RouteIsUsers ==
  ASSUME LinkSizes
  PROVE  Link!Spec => Link!RouteStands
<1>1. Link!Init => LinkInv
  BY LinkInitInv
<1>2. LinkInv /\ [Link!Next]_(Link!vars) => LinkInv'
  BY LinkStep
<1>3. LinkInv /\ [Link!Next]_(Link!vars) =>
        [origin' # origin /\ origin \in {Lan} \union Own => (count.routes)' # count.routes]_(Link!vars)
  BY RouteChange
<1>4. QED
  BY <1>1, <1>2, <1>3, PTL DEF Link!Spec, Link!RouteStands
=============================================================================
