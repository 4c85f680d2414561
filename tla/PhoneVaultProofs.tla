-------------------------- MODULE PhoneVaultProofs --------------------------
(***************************************************************************)
(* What the vault of the phone promises, proved for constants of any size: *)
(* wherever an operation, a failure or a crash leaves the phone and the    *)
(* relay, what the user has written can be opened (PhoneLosesNothing), and *)
(* a backup is not replaced by an older one (PhoneBacksUpForward).         *)
(***************************************************************************)
EXTENDS PhoneVault, TLAPS

\* What the proofs ask of the constants.
PhoneSizes ==
  /\ First \in Password
  /\ MaxShards \in Nat \ {0} /\ MaxUploads \in Nat \ {0}
  /\ MaxWrites \in Nat /\ MaxFaults \in Nat

(* The inductive invariant.                                                *)

\* What an operation has still to do.
ToAnswer == <<"answer">>
ToOpen == <<"open", "answer">>
ToSettle == <<"settle", "open", "answer">>
ToSwitch == <<"switch", "settle", "open", "answer">>
ToAside == <<"aside", "switch", "settle", "open", "answer">>
ToJournal == <<"journal", "aside", "switch", "settle", "open", "answer">>
ToCopy == <<"copy", "journal", "aside", "switch", "settle", "open", "answer">>
FileSteps == <<"drain", "copy", "journal", "aside", "switch", "settle", "open", "answer">>
ToDelete == <<"delete", "journal", "aside", "switch", "settle", "open", "answer">>
ToPut == <<"put", "delete", "journal", "aside", "switch", "settle", "open", "answer">>
ToCopyAndPut == <<"copy", "put", "delete", "journal", "aside", "switch", "settle", "open", "answer">>
ToUpload == <<"upload", "copy", "put", "delete", "journal", "aside", "switch", "settle", "open", "answer">>
RelaySteps ==
  <<"drain", "upload", "copy", "put", "delete", "journal", "aside", "switch", "settle", "open", "answer">>
JustUpload == <<"upload">>
JustDrain == <<"drain">>
JustUndo == <<"undo">>
RecoverSwitch == <<"switch", "settle">>
RecoverSettle == <<"settle">>

Closing == {ToAnswer, ToOpen, ToSettle, ToSwitch, ToAside, ToJournal}
JobsShape ==
  \/ job = Idle
  \/ job.kind = "sync" /\ job.steps \in {LockSteps, JustUpload}
  \/ job.kind = "lock" /\ job.steps \in {LockSteps, JustUpload, JustDrain}
  \/ job.kind = "file" /\ job.steps \in Closing \union {ToCopy, FileSteps}
  \/ job.kind = "relay" /\ job.steps \in Closing \union {ToDelete, ToPut, ToCopyAndPut, ToUpload, RelaySteps,
                                                         JustUndo}
  \/ job.kind = "recover" /\ job.steps \in {RecoverSteps, RecoverSwitch, RecoverSettle}

\* The step it is at.
Here == IF job.steps = <<>> THEN "none" ELSE Head(job.steps)
Moving == {"aside", "switch", "settle"}
Preparing == {"drain", "upload", "copy", "put", "delete", "undo", "journal"}

\* A directory is provisioned or none.
Real(d) == d \in Dir /\ d.shards # 0
PlacesAgree ==
  /\ journal <=> Here \in Moving
  /\ Real(Recovered) /\ Recovered.data = written
  /\ Here = "settle" => stage = NoDir /\ root # NoDir
  /\ job.kind \in {"sync", "file", "relay"} /\ Here \in Preparing => open
  /\ Here \in Moving \union {"open"} => ~open
  /\ job.kind = "lock" => ~open
  /\ Here = "answer" => open

\* A password change, until the new directory takes its place.
ChangePrepared ==
  /\ job.kind \in {"file", "relay"} /\ Here \in Preparing => job.next # root.password
  /\ job.kind = "relay" /\ Here \in Preparing => ~root.file
  /\ job.kind = "file" /\ Here \in Preparing => root.file \/ ~root.cloud
  /\ Here \in {"put", "delete", "undo", "journal"} =>
       /\ Real(stage) /\ stage.password = job.next /\ stage.data = written
       /\ job.kind = "file" => stage.file /\ ~stage.cloud /\ stage.version = 0
       /\ job.kind = "relay" => ~stage.file
       /\ Here = "put" => stage.version = 0
  /\ job.kind \in {"file", "relay"} /\ Here \in Moving \union {"open"} => (Recovered.file => ~Recovered.cloud)
  /\ job.kind = "relay" /\ Here \in {"delete", "undo", "journal"} /\ ~lost =>
       /\ row[stage.password].shards = stage.shards /\ row[stage.password].data = written
       /\ row[stage.password].version > 0 /\ stage.version <= row[stage.password].version
  /\ job.kind = "relay" /\ Here = "journal" /\ ~lost =>
       (late = NoUpload \/ late.stale) /\ row[root.password] = NoRow

\* Nothing holds more than was written.
Bounded ==
  /\ \A p \in Password : row[p].data <= written
  /\ late.data <= written /\ marked <= written
  /\ backed <= written \/ backed = Never
  /\ job.mine = NoUpload \/ (job.kind = "lock" /\ job.mine.password = root.password
                             /\ job.mine.shards = root.shards /\ job.mine.data = root.data
                             /\ ~job.mine.stale)

\* An upload under way is of the directory's generation, and of no older data than
\* the relay has.
Active == up.at \in {"waiting", "sent", "stored"}
InFlight ==
  /\ up.at = "none" => up = NoUpload
  /\ Active => /\ (job = Idle /\ open) \/ Here = "drain"
               /\ up.password = root.password /\ up.shards = root.shards /\ up.data <= written
               /\ ~up.stale => marked <= up.data
  /\ up.at \in {"waiting", "sent"} => late.data <= up.data /\ \A p \in Password : row[p].data <= up.data
  /\ up.at = "sent" /\ ~lost => up.version <= row[up.password].version + 1
  /\ up.at = "stored" /\ ~lost => up.version <= row[up.password].version /\ row[up.password].data >= up.data

\* One that is late is the next version only if nothing newer was taken since.
LateIsNoOlder ==
  late # NoUpload /\ ~late.stale /\ ~lost =>
    /\ late.version <= row[late.password].version + 1
    /\ Accepts(late) => row[late.password].data <= late.data
    /\ ~Recovered.file => late.password = Recovered.password /\ late.shards = Recovered.shards

\* The relay's row is deleted, and the new directory not yet in its place.
Gone ==
  /\ ~journal /\ ~root.file /\ row[root.password] = NoRow /\ (late = NoUpload \/ late.stale)
  /\ Here = "journal" \/ (job = Idle /\ ~open)
  /\ \E p \in Password : row[p].data = written /\ row[p].version > 0
AtTheRelay ==
  ~lost /\ ~Gone =>
    /\ Recovered.version <= row[Recovered.password].version
    /\ ~Recovered.file => row[Recovered.password].shards = Recovered.shards

CleanIsThere ==
  ~lost /\ Recovered.cloud /\ ~Recovered.dirty
  /\ (Recovered.file \/ row[Recovered.password].shards = Recovered.shards) =>
    /\ row[Recovered.password].data >= marked
    /\ open /\ backed = Recovered.data => row[Recovered.password].data = Recovered.data

\* The old directory, until it is moved aside: one with a file is as clean as it was,
\* the row of one without is deleted.
OldIsClean ==
  journal /\ stage # NoDir /\ root.cloud /\ ~lost =>
    /\ root.password # stage.password
    /\ stage.file => root.file /\ (~root.dirty => row[root.password].data >= marked)
    /\ ~stage.file => ~root.file /\ row[root.password] = NoRow

PhoneInv ==
  /\ TypeOK /\ JobsShape /\ PlacesAgree /\ ChangePrepared /\ Bounded /\ InFlight
  /\ LateIsNoOlder /\ AtTheRelay /\ CleanIsThere /\ OldIsClean

-----------------------------------------------------------------------------
(* The steps of an operation, and the phases they are.                     *)
LEMMA Sequences ==
  /\ {ToAnswer, ToOpen, ToSettle, ToSwitch, ToAside, ToJournal, ToCopy, FileSteps, ToDelete, ToPut, ToCopyAndPut, ToUpload, RelaySteps, LockSteps, JustUpload, JustDrain, JustUndo, RecoverSteps, RecoverSwitch, RecoverSettle} \subseteq Seq(Step)
  /\ <<>> \notin {ToAnswer, ToOpen, ToSettle, ToSwitch, ToAside, ToJournal, ToCopy, FileSteps, ToDelete, ToPut, ToCopyAndPut, ToUpload, RelaySteps, LockSteps, JustUpload, JustDrain, JustUndo, RecoverSteps, RecoverSwitch, RecoverSettle}
<1> USE DEF Step, ToAnswer, ToOpen, ToSettle, ToSwitch, ToAside, ToJournal, ToCopy, FileSteps, ToDelete, ToPut, ToCopyAndPut, ToUpload, RelaySteps, LockSteps, JustUpload, JustDrain, JustUndo, RecoverSteps, RecoverSwitch, RecoverSettle
<1>1. {ToAnswer, ToOpen, ToSettle, ToSwitch, ToAside, ToJournal, ToCopy, FileSteps, ToDelete, ToPut, ToCopyAndPut, ToUpload, RelaySteps, LockSteps, JustUpload, JustDrain, JustUndo, RecoverSteps, RecoverSwitch, RecoverSettle} \subseteq Seq(Step)
  OBVIOUS
<1>2. /\ ToAnswer # <<>>
      /\ ToOpen # <<>>
      /\ ToSettle # <<>>
      /\ ToSwitch # <<>>
      /\ ToAside # <<>>
      /\ ToJournal # <<>>
      /\ ToCopy # <<>>
      /\ FileSteps # <<>>
      /\ ToDelete # <<>>
      /\ ToPut # <<>>
      /\ ToCopyAndPut # <<>>
      /\ ToUpload # <<>>
      /\ RelaySteps # <<>>
      /\ LockSteps # <<>>
      /\ JustUpload # <<>>
      /\ JustDrain # <<>>
      /\ JustUndo # <<>>
      /\ RecoverSteps # <<>>
      /\ RecoverSwitch # <<>>
      /\ RecoverSettle # <<>>
  OBVIOUS
<1> HIDE DEF Step, ToAnswer, ToOpen, ToSettle, ToSwitch, ToAside, ToJournal, ToCopy, FileSteps, ToDelete, ToPut, ToCopyAndPut, ToUpload, RelaySteps, LockSteps, JustUpload, JustDrain, JustUndo, RecoverSteps, RecoverSwitch, RecoverSettle
<1>3. QED
  BY <1>1, <1>2

LEMMA Heads ==
  /\ Head(ToAnswer) = "answer" /\ Len(ToAnswer) = 1
  /\ Head(ToOpen) = "open" /\ Tail(ToOpen) = ToAnswer /\ Len(ToOpen) # 1
  /\ Head(ToSettle) = "settle" /\ Tail(ToSettle) = ToOpen /\ Len(ToSettle) # 1
  /\ Head(ToSwitch) = "switch" /\ Tail(ToSwitch) = ToSettle /\ Len(ToSwitch) # 1
  /\ Head(ToAside) = "aside" /\ Tail(ToAside) = ToSwitch /\ Len(ToAside) # 1
  /\ Head(ToJournal) = "journal" /\ Tail(ToJournal) = ToAside /\ Len(ToJournal) # 1
  /\ Head(ToCopy) = "copy" /\ Tail(ToCopy) = ToJournal /\ Len(ToCopy) # 1
  /\ Head(FileSteps) = "drain" /\ Tail(FileSteps) = ToCopy /\ Len(FileSteps) # 1
  /\ Head(ToDelete) = "delete" /\ Tail(ToDelete) = ToJournal /\ Len(ToDelete) # 1
  /\ Head(ToPut) = "put" /\ Tail(ToPut) = ToDelete /\ Len(ToPut) # 1
  /\ Head(ToCopyAndPut) = "copy" /\ Tail(ToCopyAndPut) = ToPut /\ Len(ToCopyAndPut) # 1
  /\ Head(ToUpload) = "upload" /\ Tail(ToUpload) = ToCopyAndPut /\ Len(ToUpload) # 1
  /\ Head(RelaySteps) = "drain" /\ Tail(RelaySteps) = ToUpload /\ Len(RelaySteps) # 1
  /\ Head(LockSteps) = "drain" /\ Tail(LockSteps) = JustUpload /\ Len(LockSteps) # 1
  /\ Head(JustUpload) = "upload" /\ Len(JustUpload) = 1
  /\ Head(JustDrain) = "drain" /\ Len(JustDrain) = 1
  /\ Head(JustUndo) = "undo" /\ Len(JustUndo) = 1
  /\ Head(RecoverSteps) = "aside" /\ Tail(RecoverSteps) = RecoverSwitch /\ Len(RecoverSteps) # 1
  /\ Head(RecoverSwitch) = "switch" /\ Tail(RecoverSwitch) = RecoverSettle /\ Len(RecoverSwitch) # 1
  /\ Head(RecoverSettle) = "settle" /\ Len(RecoverSettle) = 1
<1> USE DEF ToAnswer, ToOpen, ToSettle, ToSwitch, ToAside, ToJournal, ToCopy, FileSteps, ToDelete, ToPut, ToCopyAndPut, ToUpload, RelaySteps, LockSteps, JustUpload, JustDrain, JustUndo, RecoverSteps, RecoverSwitch, RecoverSettle
<1>1. Head(ToAnswer) = "answer" /\ Len(ToAnswer) = 1
  OBVIOUS
<1>2. Head(ToOpen) = "open" /\ Tail(ToOpen) = ToAnswer /\ Len(ToOpen) # 1
  OBVIOUS
<1>3. Head(ToSettle) = "settle" /\ Tail(ToSettle) = ToOpen /\ Len(ToSettle) # 1
  OBVIOUS
<1>4. Head(ToSwitch) = "switch" /\ Tail(ToSwitch) = ToSettle /\ Len(ToSwitch) # 1
  OBVIOUS
<1>5. Head(ToAside) = "aside" /\ Tail(ToAside) = ToSwitch /\ Len(ToAside) # 1
  OBVIOUS
<1>6. Head(ToJournal) = "journal" /\ Tail(ToJournal) = ToAside /\ Len(ToJournal) # 1
  OBVIOUS
<1>7. Head(ToCopy) = "copy" /\ Tail(ToCopy) = ToJournal /\ Len(ToCopy) # 1
  OBVIOUS
<1>8. Head(FileSteps) = "drain" /\ Tail(FileSteps) = ToCopy /\ Len(FileSteps) # 1
  OBVIOUS
<1>9. Head(ToDelete) = "delete" /\ Tail(ToDelete) = ToJournal /\ Len(ToDelete) # 1
  OBVIOUS
<1>10. Head(ToPut) = "put" /\ Tail(ToPut) = ToDelete /\ Len(ToPut) # 1
  OBVIOUS
<1>11. Head(ToCopyAndPut) = "copy" /\ Tail(ToCopyAndPut) = ToPut /\ Len(ToCopyAndPut) # 1
  OBVIOUS
<1>12. Head(ToUpload) = "upload" /\ Tail(ToUpload) = ToCopyAndPut /\ Len(ToUpload) # 1
  OBVIOUS
<1>13. Head(RelaySteps) = "drain" /\ Tail(RelaySteps) = ToUpload /\ Len(RelaySteps) # 1
  OBVIOUS
<1>14. Head(LockSteps) = "drain" /\ Tail(LockSteps) = JustUpload /\ Len(LockSteps) # 1
  OBVIOUS
<1>15. Head(JustUpload) = "upload" /\ Len(JustUpload) = 1
  OBVIOUS
<1>16. Head(JustDrain) = "drain" /\ Len(JustDrain) = 1
  OBVIOUS
<1>17. Head(JustUndo) = "undo" /\ Len(JustUndo) = 1
  OBVIOUS
<1>18. Head(RecoverSteps) = "aside" /\ Tail(RecoverSteps) = RecoverSwitch /\ Len(RecoverSteps) # 1
  OBVIOUS
<1>19. Head(RecoverSwitch) = "switch" /\ Tail(RecoverSwitch) = RecoverSettle /\ Len(RecoverSwitch) # 1
  OBVIOUS
<1>20. Head(RecoverSettle) = "settle" /\ Len(RecoverSettle) = 1
  OBVIOUS
<1> HIDE DEF ToAnswer, ToOpen, ToSettle, ToSwitch, ToAside, ToJournal, ToCopy, FileSteps, ToDelete, ToPut, ToCopyAndPut, ToUpload, RelaySteps, LockSteps, JustUpload, JustDrain, JustUndo, RecoverSteps, RecoverSwitch, RecoverSettle
<1>21. QED
  BY <1>1, <1>2, <1>3, <1>4, <1>5, <1>6, <1>7, <1>8, <1>9, <1>10, <1>11, <1>12, <1>13, <1>14,
     <1>15, <1>16, <1>17, <1>18, <1>19, <1>20

LEMMA FirstSteps ==
  /\ Head(ToAnswer) = "answer"
  /\ Head(ToOpen) = "open"
  /\ Head(ToSettle) = "settle"
  /\ Head(ToSwitch) = "switch"
  /\ Head(ToAside) = "aside"
  /\ Head(ToJournal) = "journal"
  /\ Head(ToCopy) = "copy"
  /\ Head(FileSteps) = "drain"
  /\ Head(ToDelete) = "delete"
  /\ Head(ToPut) = "put"
  /\ Head(ToCopyAndPut) = "copy"
  /\ Head(ToUpload) = "upload"
  /\ Head(RelaySteps) = "drain"
  /\ Head(LockSteps) = "drain"
  /\ Head(JustUpload) = "upload"
  /\ Head(JustDrain) = "drain"
  /\ Head(JustUndo) = "undo"
  /\ Head(RecoverSteps) = "aside"
  /\ Head(RecoverSwitch) = "switch"
  /\ Head(RecoverSettle) = "settle"
BY Heads

LEMMA NoSteps == Idle.steps = <<>> /\ Idle.kind = "none" /\ Idle.mine = NoUpload /\ Idle.next = First
BY DEF Idle

\* What an operation of each kind has still to do, by the step it is at.
LEMMA Phases ==
  ASSUME JobsShape
  PROVE  /\ job = Idle <=> Here = "none"
         /\ job = Idle \/ (job.steps \in Seq(Step) /\ job.steps # <<>>)
         /\ \A s \in Step : Doing(s) <=> Here = s
         /\ Here \in Step \union {"none"}
         /\ Here = "drain" => job.kind \in {"sync", "lock", "file", "relay"}
         /\ Here = "upload" => job.kind \in {"sync", "lock", "relay"}
         /\ Here = "copy" => job.kind \in {"file", "relay"}
         /\ Here \in {"put", "delete", "undo"} => job.kind = "relay"
         /\ Here \in Moving => job.kind \in {"file", "relay", "recover"}
         /\ Here \in {"journal", "open", "answer"} => job.kind \in {"file", "relay"}
<1>1. \A s \in Step : s # "none"
  BY DEF Step
<1>2. CASE job = Idle
  <2>1. Here = "none" /\ \A s : ~Doing(s)
    BY <1>2, NoSteps DEF Here, Doing
  <2>2. QED
    BY <1>1, <1>2, <2>1 DEF Moving
<1>3. CASE job # Idle
  <2>1. job.steps \in Seq(Step) /\ job.steps # <<>> /\ Here = Head(job.steps)
    <3>1. job.steps \in {ToAnswer, ToOpen, ToSettle, ToSwitch, ToAside, ToJournal, ToCopy, FileSteps, ToDelete, ToPut, ToCopyAndPut, ToUpload, RelaySteps, LockSteps, JustUpload, JustDrain, JustUndo, RecoverSteps, RecoverSwitch, RecoverSettle}
      BY <1>3 DEF JobsShape, Closing
    <3>2. job.steps \in Seq(Step) /\ job.steps # <<>>
      BY <3>1, Sequences
    <3>3. QED
      BY <3>2 DEF Here
  <2>2. \A s : Doing(s) <=> Here = s
    BY <2>1 DEF Doing
  <2>3. CASE job.kind \in {"sync", "lock"}
    <3>1. Here \in {"drain", "upload"}
      BY <1>3, <2>1, <2>3, Heads DEF JobsShape
    <3>2. QED
      BY <1>1, <1>3, <2>1, <2>2, <2>3, <3>1 DEF Moving, Step
  <2>4. CASE job.kind = "file"
    <3>1. Here \in {"drain", "copy", "journal", "aside", "switch", "settle", "open", "answer"}
      BY <1>3, <2>1, <2>4, Heads, ZenonT(60) DEF JobsShape, Closing
    <3>2. QED
      BY <1>1, <1>3, <2>1, <2>2, <2>4, <3>1 DEF Moving, Step
  <2>5. CASE job.kind = "relay"
    <3>1. Here \in {"drain", "upload", "copy", "put", "delete", "undo", "journal", "aside", "switch", "settle",
                  "open", "answer"}
      <4>1. job.steps \in {ToAnswer, ToOpen, ToSettle, ToSwitch, ToAside, ToJournal, ToDelete, ToPut,
                          ToCopyAndPut, ToUpload, RelaySteps, JustUndo}
        BY <1>3, <2>5 DEF JobsShape, Closing
      <4>2. Head(job.steps) \in {"drain", "upload", "copy", "put", "delete", "undo", "journal", "aside", "switch",
                                 "settle", "open", "answer"}
        BY ONLY <4>1, FirstSteps
      <4>3. QED
        BY <2>1, <4>2
    <3>2. QED
      BY <1>1, <1>3, <2>1, <2>2, <2>5, <3>1 DEF Moving, Step
  <2>6. CASE job.kind = "recover"
    <3>1. Here \in Moving
      BY <1>3, <2>1, <2>6, Heads DEF JobsShape, Moving
    <3>2. QED
      BY <1>1, <1>3, <2>1, <2>2, <2>6, <3>1 DEF Moving, Step
  <2>7. QED
    BY <1>3, <2>3, <2>4, <2>5, <2>6 DEF JobsShape
<1>4. QED
  BY <1>2, <1>3

\* The step after each.
LEMMA Advances ==
  ASSUME JobsShape, Advance,
         job \in [kind : {"none", "sync", "lock", "relay", "file", "recover"}, steps : Seq(Step),
                  mine : Prepared, next : Password],
         job # Idle, Here # "undo"
  PROVE  /\ JobsShape'
         /\ job' = Idle \/ (job'.kind = job.kind /\ job'.mine = job.mine /\ job'.next = job.next
                            /\ job'.steps \in Seq(Step) /\ job' = [job EXCEPT !.steps = Tail(@)])
         /\ job.kind = "sync" => \/ Here = "drain" /\ Here' = "upload"
                                 \/ Here = "upload" /\ job' = Idle
         /\ job.kind = "lock" => \/ Here = "drain" /\ (Here' = "upload" \/ job' = Idle)
                                 \/ Here = "upload" /\ job' = Idle
         /\ job.kind = "file" => \/ Here = "drain" /\ Here' = "copy"
                                 \/ Here = "copy" /\ Here' = "journal"
                                 \/ Here \in {"journal", "open", "answer"} \union Moving
         /\ job.kind = "relay" => \/ Here = "drain" /\ Here' = "upload"
                                  \/ Here = "upload" /\ Here' = "copy"
                                  \/ Here = "copy" /\ Here' = "put"
                                  \/ Here = "put" /\ Here' = "delete"
                                  \/ Here = "delete" /\ Here' = "journal"
                                  \/ Here \in {"journal", "open", "answer"} \union Moving
         /\ job.kind \in {"file", "relay"} =>
              /\ Here = "journal" => Here' = "aside"
              /\ Here = "aside" => Here' = "switch"
              /\ Here = "switch" => Here' = "settle"
              /\ Here = "settle" => Here' = "open"
              /\ Here = "open" => Here' = "answer"
              /\ Here = "answer" => job' = Idle
         /\ job.kind = "recover" => \/ Here = "aside" /\ Here' = "switch"
                                    \/ Here = "switch" /\ Here' = "settle"
                                    \/ Here = "settle" /\ job' = Idle
<1> DEFINE Goes(t, s) ==
      /\ job'.steps = t /\ Here' = s /\ job' = [job EXCEPT !.steps = Tail(@)]
      /\ job'.kind = job.kind /\ job'.mine = job.mine /\ job'.next = job.next
<1>1. Len(job.steps) = 1 => job' = Idle
  BY DEF Advance
<1>2. Len(job.steps) # 1 => /\ job' = [job EXCEPT !.steps = Tail(@)]
                            /\ job'.steps = Tail(job.steps)
                            /\ job'.kind = job.kind /\ job'.mine = job.mine /\ job'.next = job.next
  BY DEF Advance
<1>3. \A t \in Seq(Step) : \A s : t # <<>> /\ Head(t) = s /\ Tail(job.steps) = t /\ Len(job.steps) # 1 => Goes(t, s)
  BY <1>2 DEF Here
<1>4. job' = Idle => JobsShape' /\ Here' = "none"
  BY NoSteps DEF JobsShape, Here
<1>5. /\ (job.steps = ToAnswer => Here = "answer" /\ job' = Idle)
      /\ (job.steps = ToOpen => Here = "open" /\ Goes(ToAnswer, "answer"))
      /\ (job.steps = ToSettle => Here = "settle" /\ Goes(ToOpen, "open"))
      /\ (job.steps = ToSwitch => Here = "switch" /\ Goes(ToSettle, "settle"))
      /\ (job.steps = ToAside => Here = "aside" /\ Goes(ToSwitch, "switch"))
      /\ (job.steps = ToJournal => Here = "journal" /\ Goes(ToAside, "aside"))
      /\ (job.steps = ToCopy => Here = "copy" /\ Goes(ToJournal, "journal"))
      /\ (job.steps = FileSteps => Here = "drain" /\ Goes(ToCopy, "copy"))
      /\ (job.steps = ToDelete => Here = "delete" /\ Goes(ToJournal, "journal"))
      /\ (job.steps = ToPut => Here = "put" /\ Goes(ToDelete, "delete"))
      /\ (job.steps = ToCopyAndPut => Here = "copy" /\ Goes(ToPut, "put"))
      /\ (job.steps = ToUpload => Here = "upload" /\ Goes(ToCopyAndPut, "copy"))
      /\ (job.steps = RelaySteps => Here = "drain" /\ Goes(ToUpload, "upload"))
      /\ (job.steps = LockSteps => Here = "drain" /\ Goes(JustUpload, "upload"))
      /\ (job.steps = JustUpload => Here = "upload" /\ job' = Idle)
      /\ (job.steps = JustDrain => Here = "drain" /\ job' = Idle)
      /\ (job.steps = JustUndo => Here = "undo" /\ job' = Idle)
      /\ (job.steps = RecoverSteps => Here = "aside" /\ Goes(RecoverSwitch, "switch"))
      /\ (job.steps = RecoverSwitch => Here = "switch" /\ Goes(RecoverSettle, "settle"))
      /\ (job.steps = RecoverSettle => Here = "settle" /\ job' = Idle)
  <2>1. job.steps = ToAnswer => Here = "answer" /\ job' = Idle
    <3>1. Head(ToAnswer) = "answer" /\ Len(ToAnswer) = 1
      BY Heads
    <3>2. ToAnswer # <<>>
      BY Sequences
    <3>3. QED
      BY <1>1, <1>3, <3>1, <3>2 DEF Here
  <2>2. job.steps = ToOpen => Here = "open" /\ Goes(ToAnswer, "answer")
    <3>1. Head(ToOpen) = "open" /\ Tail(ToOpen) = ToAnswer /\ Len(ToOpen) # 1
      BY Heads
    <3>2. ToAnswer \in Seq(Step) /\ ToOpen # <<>> /\ ToAnswer # <<>> /\ Head(ToAnswer) = "answer"
      BY Sequences, Heads
    <3>3. QED
      BY <1>1, <1>3, <3>1, <3>2 DEF Here
  <2>3. job.steps = ToSettle => Here = "settle" /\ Goes(ToOpen, "open")
    <3>1. Head(ToSettle) = "settle" /\ Tail(ToSettle) = ToOpen /\ Len(ToSettle) # 1
      BY Heads
    <3>2. ToOpen \in Seq(Step) /\ ToSettle # <<>> /\ ToOpen # <<>> /\ Head(ToOpen) = "open"
      BY Sequences, Heads
    <3>3. QED
      BY <1>1, <1>3, <3>1, <3>2 DEF Here
  <2>4. job.steps = ToSwitch => Here = "switch" /\ Goes(ToSettle, "settle")
    <3>1. Head(ToSwitch) = "switch" /\ Tail(ToSwitch) = ToSettle /\ Len(ToSwitch) # 1
      BY Heads
    <3>2. ToSettle \in Seq(Step) /\ ToSwitch # <<>> /\ ToSettle # <<>> /\ Head(ToSettle) = "settle"
      BY Sequences, Heads
    <3>3. QED
      BY <1>1, <1>3, <3>1, <3>2 DEF Here
  <2>5. job.steps = ToAside => Here = "aside" /\ Goes(ToSwitch, "switch")
    <3>1. Head(ToAside) = "aside" /\ Tail(ToAside) = ToSwitch /\ Len(ToAside) # 1
      BY Heads
    <3>2. ToSwitch \in Seq(Step) /\ ToAside # <<>> /\ ToSwitch # <<>> /\ Head(ToSwitch) = "switch"
      BY Sequences, Heads
    <3>3. QED
      BY <1>1, <1>3, <3>1, <3>2 DEF Here
  <2>6. job.steps = ToJournal => Here = "journal" /\ Goes(ToAside, "aside")
    <3>1. Head(ToJournal) = "journal" /\ Tail(ToJournal) = ToAside /\ Len(ToJournal) # 1
      BY Heads
    <3>2. ToAside \in Seq(Step) /\ ToJournal # <<>> /\ ToAside # <<>> /\ Head(ToAside) = "aside"
      BY Sequences, Heads
    <3>3. QED
      BY <1>1, <1>3, <3>1, <3>2 DEF Here
  <2>7. job.steps = ToCopy => Here = "copy" /\ Goes(ToJournal, "journal")
    <3>1. Head(ToCopy) = "copy" /\ Tail(ToCopy) = ToJournal /\ Len(ToCopy) # 1
      BY Heads
    <3>2. ToJournal \in Seq(Step) /\ ToCopy # <<>> /\ ToJournal # <<>> /\ Head(ToJournal) = "journal"
      BY Sequences, Heads
    <3>3. QED
      BY <1>1, <1>3, <3>1, <3>2 DEF Here
  <2>8. job.steps = FileSteps => Here = "drain" /\ Goes(ToCopy, "copy")
    <3>1. Head(FileSteps) = "drain" /\ Tail(FileSteps) = ToCopy /\ Len(FileSteps) # 1
      BY Heads
    <3>2. ToCopy \in Seq(Step) /\ FileSteps # <<>> /\ ToCopy # <<>> /\ Head(ToCopy) = "copy"
      BY Sequences, Heads
    <3>3. QED
      BY <1>1, <1>3, <3>1, <3>2 DEF Here
  <2>9. job.steps = ToDelete => Here = "delete" /\ Goes(ToJournal, "journal")
    <3>1. Head(ToDelete) = "delete" /\ Tail(ToDelete) = ToJournal /\ Len(ToDelete) # 1
      BY Heads
    <3>2. ToJournal \in Seq(Step) /\ ToDelete # <<>> /\ ToJournal # <<>> /\ Head(ToJournal) = "journal"
      BY Sequences, Heads
    <3>3. QED
      BY <1>1, <1>3, <3>1, <3>2 DEF Here
  <2>10. job.steps = ToPut => Here = "put" /\ Goes(ToDelete, "delete")
    <3>1. Head(ToPut) = "put" /\ Tail(ToPut) = ToDelete /\ Len(ToPut) # 1
      BY Heads
    <3>2. ToDelete \in Seq(Step) /\ ToPut # <<>> /\ ToDelete # <<>> /\ Head(ToDelete) = "delete"
      BY Sequences, Heads
    <3>3. QED
      BY <1>1, <1>3, <3>1, <3>2 DEF Here
  <2>11. job.steps = ToCopyAndPut => Here = "copy" /\ Goes(ToPut, "put")
    <3>1. Head(ToCopyAndPut) = "copy" /\ Tail(ToCopyAndPut) = ToPut /\ Len(ToCopyAndPut) # 1
      BY Heads
    <3>2. ToPut \in Seq(Step) /\ ToCopyAndPut # <<>> /\ ToPut # <<>> /\ Head(ToPut) = "put"
      BY Sequences, Heads
    <3>3. QED
      BY <1>1, <1>3, <3>1, <3>2 DEF Here
  <2>12. job.steps = ToUpload => Here = "upload" /\ Goes(ToCopyAndPut, "copy")
    <3>1. Head(ToUpload) = "upload" /\ Tail(ToUpload) = ToCopyAndPut /\ Len(ToUpload) # 1
      BY Heads
    <3>2. ToCopyAndPut \in Seq(Step) /\ ToUpload # <<>> /\ ToCopyAndPut # <<>> /\ Head(ToCopyAndPut) = "copy"
      BY Sequences, Heads
    <3>3. QED
      BY <1>1, <1>3, <3>1, <3>2 DEF Here
  <2>13. job.steps = RelaySteps => Here = "drain" /\ Goes(ToUpload, "upload")
    <3>1. Head(RelaySteps) = "drain" /\ Tail(RelaySteps) = ToUpload /\ Len(RelaySteps) # 1
      BY Heads
    <3>2. ToUpload \in Seq(Step) /\ RelaySteps # <<>> /\ ToUpload # <<>> /\ Head(ToUpload) = "upload"
      BY Sequences, Heads
    <3>3. QED
      BY <1>1, <1>3, <3>1, <3>2 DEF Here
  <2>14. job.steps = LockSteps => Here = "drain" /\ Goes(JustUpload, "upload")
    <3>1. Head(LockSteps) = "drain" /\ Tail(LockSteps) = JustUpload /\ Len(LockSteps) # 1
      BY Heads
    <3>2. JustUpload \in Seq(Step) /\ LockSteps # <<>> /\ JustUpload # <<>> /\ Head(JustUpload) = "upload"
      BY Sequences, Heads
    <3>3. QED
      BY <1>1, <1>3, <3>1, <3>2 DEF Here
  <2>15. job.steps = JustUpload => Here = "upload" /\ job' = Idle
    <3>1. Head(JustUpload) = "upload" /\ Len(JustUpload) = 1
      BY Heads
    <3>2. JustUpload # <<>>
      BY Sequences
    <3>3. QED
      BY <1>1, <1>3, <3>1, <3>2 DEF Here
  <2>16. job.steps = JustDrain => Here = "drain" /\ job' = Idle
    <3>1. Head(JustDrain) = "drain" /\ Len(JustDrain) = 1
      BY Heads
    <3>2. JustDrain # <<>>
      BY Sequences
    <3>3. QED
      BY <1>1, <1>3, <3>1, <3>2 DEF Here
  <2>17. job.steps = JustUndo => Here = "undo" /\ job' = Idle
    <3>1. Head(JustUndo) = "undo" /\ Len(JustUndo) = 1
      BY Heads
    <3>2. JustUndo # <<>>
      BY Sequences
    <3>3. QED
      BY <1>1, <1>3, <3>1, <3>2 DEF Here
  <2>18. job.steps = RecoverSteps => Here = "aside" /\ Goes(RecoverSwitch, "switch")
    <3>1. Head(RecoverSteps) = "aside" /\ Tail(RecoverSteps) = RecoverSwitch /\ Len(RecoverSteps) # 1
      BY Heads
    <3>2. RecoverSwitch \in Seq(Step) /\ RecoverSteps # <<>> /\ RecoverSwitch # <<>> /\ Head(RecoverSwitch) = "switch"
      BY Sequences, Heads
    <3>3. QED
      BY <1>1, <1>3, <3>1, <3>2 DEF Here
  <2>19. job.steps = RecoverSwitch => Here = "switch" /\ Goes(RecoverSettle, "settle")
    <3>1. Head(RecoverSwitch) = "switch" /\ Tail(RecoverSwitch) = RecoverSettle /\ Len(RecoverSwitch) # 1
      BY Heads
    <3>2. RecoverSettle \in Seq(Step) /\ RecoverSwitch # <<>> /\ RecoverSettle # <<>> /\ Head(RecoverSettle) = "settle"
      BY Sequences, Heads
    <3>3. QED
      BY <1>1, <1>3, <3>1, <3>2 DEF Here
  <2>20. job.steps = RecoverSettle => Here = "settle" /\ job' = Idle
    <3>1. Head(RecoverSettle) = "settle" /\ Len(RecoverSettle) = 1
      BY Heads
    <3>2. RecoverSettle # <<>>
      BY Sequences
    <3>3. QED
      BY <1>1, <1>3, <3>1, <3>2 DEF Here
  <2>21. QED
    BY <2>1, <2>2, <2>3, <2>4, <2>5, <2>6, <2>7, <2>8, <2>9, <2>10, <2>11, <2>12, <2>13, <2>14,
       <2>15, <2>16, <2>17, <2>18, <2>19, <2>20
<1> HIDE DEF Goes
<1>6. CASE job.kind = "sync"
  <2>1. job.steps \in {LockSteps, JustUpload}
    BY <1>6 DEF JobsShape, Closing
  <2>2. CASE job.steps = LockSteps
    BY <1>4, <1>5, <1>6, <2>2, Sequences DEF Goes, JobsShape, Closing, Moving
  <2>3. CASE job.steps = JustUpload
    BY <1>4, <1>5, <1>6, <2>3, Sequences DEF Goes, JobsShape, Closing, Moving
  <2>4. QED
    BY <1>5, <2>1, <2>2, <2>3
<1>7. CASE job.kind = "lock"
  <2>1. job.steps \in {LockSteps, JustUpload, JustDrain}
    BY <1>7 DEF JobsShape, Closing
  <2>2. CASE job.steps = LockSteps
    BY <1>4, <1>5, <1>7, <2>2, Sequences DEF Goes, JobsShape, Closing, Moving
  <2>3. CASE job.steps = JustUpload
    BY <1>4, <1>5, <1>7, <2>3, Sequences DEF Goes, JobsShape, Closing, Moving
  <2>4. CASE job.steps = JustDrain
    BY <1>4, <1>5, <1>7, <2>4, Sequences DEF Goes, JobsShape, Closing, Moving
  <2>5. QED
    BY <1>5, <2>1, <2>2, <2>3, <2>4
<1>8. CASE job.kind = "file"
  <2>1. job.steps \in {ToAnswer, ToOpen, ToSettle, ToSwitch, ToAside, ToJournal, ToCopy, FileSteps}
    BY <1>8 DEF JobsShape, Closing
  <2>2. CASE job.steps = ToAnswer
    BY <1>4, <1>5, <1>8, <2>2, Sequences DEF Goes, JobsShape, Closing, Moving
  <2>3. CASE job.steps = ToOpen
    BY <1>4, <1>5, <1>8, <2>3, Sequences DEF Goes, JobsShape, Closing, Moving
  <2>4. CASE job.steps = ToSettle
    BY <1>4, <1>5, <1>8, <2>4, Sequences DEF Goes, JobsShape, Closing, Moving
  <2>5. CASE job.steps = ToSwitch
    BY <1>4, <1>5, <1>8, <2>5, Sequences DEF Goes, JobsShape, Closing, Moving
  <2>6. CASE job.steps = ToAside
    BY <1>4, <1>5, <1>8, <2>6, Sequences DEF Goes, JobsShape, Closing, Moving
  <2>7. CASE job.steps = ToJournal
    BY <1>4, <1>5, <1>8, <2>7, Sequences DEF Goes, JobsShape, Closing, Moving
  <2>8. CASE job.steps = ToCopy
    BY <1>4, <1>5, <1>8, <2>8, Sequences DEF Goes, JobsShape, Closing, Moving
  <2>9. CASE job.steps = FileSteps
    BY <1>4, <1>5, <1>8, <2>9, Sequences DEF Goes, JobsShape, Closing, Moving
  <2>10. QED
    BY <1>5, <2>1, <2>2, <2>3, <2>4, <2>5, <2>6, <2>7, <2>8, <2>9
<1>9. CASE job.kind = "relay"
  <2>1. job.steps \in {ToAnswer, ToOpen, ToSettle, ToSwitch, ToAside, ToJournal, ToDelete, ToPut, ToCopyAndPut, ToUpload, RelaySteps, JustUndo}
    BY <1>9 DEF JobsShape, Closing
  <2>2. CASE job.steps = ToAnswer
    BY <1>4, <1>5, <1>9, <2>2, Sequences DEF Goes, JobsShape, Closing, Moving
  <2>3. CASE job.steps = ToOpen
    BY <1>4, <1>5, <1>9, <2>3, Sequences DEF Goes, JobsShape, Closing, Moving
  <2>4. CASE job.steps = ToSettle
    BY <1>4, <1>5, <1>9, <2>4, Sequences DEF Goes, JobsShape, Closing, Moving
  <2>5. CASE job.steps = ToSwitch
    BY <1>4, <1>5, <1>9, <2>5, Sequences DEF Goes, JobsShape, Closing, Moving
  <2>6. CASE job.steps = ToAside
    BY <1>4, <1>5, <1>9, <2>6, Sequences DEF Goes, JobsShape, Closing, Moving
  <2>7. CASE job.steps = ToJournal
    BY <1>4, <1>5, <1>9, <2>7, Sequences DEF Goes, JobsShape, Closing, Moving
  <2>8. CASE job.steps = ToDelete
    BY <1>4, <1>5, <1>9, <2>8, Sequences DEF Goes, JobsShape, Closing, Moving
  <2>9. CASE job.steps = ToPut
    BY <1>4, <1>5, <1>9, <2>9, Sequences DEF Goes, JobsShape, Closing, Moving
  <2>10. CASE job.steps = ToCopyAndPut
    BY <1>4, <1>5, <1>9, <2>10, Sequences DEF Goes, JobsShape, Closing, Moving
  <2>11. CASE job.steps = ToUpload
    BY <1>4, <1>5, <1>9, <2>11, Sequences DEF Goes, JobsShape, Closing, Moving
  <2>12. CASE job.steps = RelaySteps
    BY <1>4, <1>5, <1>9, <2>12, Sequences DEF Goes, JobsShape, Closing, Moving
  <2>13. QED
    BY <1>5, <2>1, <2>2, <2>3, <2>4, <2>5, <2>6, <2>7, <2>8, <2>9, <2>10, <2>11, <2>12
<1>10. CASE job.kind = "recover"
  <2>1. job.steps \in {RecoverSteps, RecoverSwitch, RecoverSettle}
    BY <1>10 DEF JobsShape, Closing
  <2>2. CASE job.steps = RecoverSteps
    BY <1>4, <1>5, <1>10, <2>2, Sequences DEF Goes, JobsShape, Closing, Moving
  <2>3. CASE job.steps = RecoverSwitch
    BY <1>4, <1>5, <1>10, <2>3, Sequences DEF Goes, JobsShape, Closing, Moving
  <2>4. CASE job.steps = RecoverSettle
    BY <1>4, <1>5, <1>10, <2>4, Sequences DEF Goes, JobsShape, Closing, Moving
  <2>5. QED
    BY <1>5, <2>1, <2>2, <2>3, <2>4
<1>11. QED
  BY <1>6, <1>7, <1>8, <1>9, <1>10 DEF JobsShape

-----------------------------------------------------------------------------
(* The types, and what follows from them.                                  *)
JobType ==
  [kind : {"none", "sync", "lock", "relay", "file", "recover"}, steps : Seq(Step),
   mine : Prepared, next : Password]

LEMMA Nothing ==
  ASSUME PhoneSizes
  PROVE  /\ NoDir \in Dir /\ NoDir.shards = 0 /\ NoDir.data = 0 /\ NoDir.version = 0
         /\ NoDir.dirty = TRUE /\ NoDir.file = FALSE /\ NoDir.cloud = FALSE
         /\ NoRow \in Row /\ NoRow.version = 0 /\ NoRow.data = 0 /\ NoRow.shards = 0
         /\ NoUpload \in Prepared /\ NoUpload.at = "none" /\ NoUpload.data = 0 /\ NoUpload.stale = FALSE
         /\ NoUpload.version = 0
         /\ Idle \in JobType /\ Idle.kind = "none" /\ Idle.mine = NoUpload /\ Idle.steps = <<>>
<1>1. NoDir \in Dir /\ NoDir.shards = 0 /\ NoDir.data = 0 /\ NoDir.version = 0
      /\ NoDir.dirty = TRUE /\ NoDir.file = FALSE /\ NoDir.cloud = FALSE
  BY DEF PhoneSizes, NoDir, Dir
<1>2. NoRow \in Row /\ NoRow.version = 0 /\ NoRow.data = 0 /\ NoRow.shards = 0
  BY DEF PhoneSizes, NoRow, Row
<1>3. NoUpload \in Prepared /\ NoUpload.at = "none" /\ NoUpload.data = 0 /\ NoUpload.stale = FALSE
      /\ NoUpload.version = 0
  BY DEF PhoneSizes, NoUpload, Prepared
<1>4. First \in Password /\ <<>> \in Seq(Step)
  BY DEF PhoneSizes
<1>5. Idle \in JobType /\ Idle.kind = "none" /\ Idle.mine = NoUpload /\ Idle.steps = <<>>
  BY <1>3, <1>4 DEF Idle, JobType
<1>6. QED
  BY <1>1, <1>2, <1>3, <1>5

\* The fields of a directory, of an upload and of a row.
LEMMA Numbers ==
  ASSUME PhoneSizes
  PROVE  /\ \A d \in Dir : /\ d.password \in Password
                           /\ d.shards \in Nat /\ d.shards <= MaxShards
                           /\ d.data \in Nat /\ d.data <= MaxWrites
                           /\ d.version \in Nat /\ d.version <= MaxUploads
                           /\ d.dirty \in BOOLEAN /\ d.file \in BOOLEAN /\ d.cloud \in BOOLEAN
         /\ \A u \in Prepared : /\ u.password \in Password
                                /\ u.shards \in Nat /\ u.shards <= MaxShards
                                /\ u.data \in Nat /\ u.data <= MaxWrites
                                /\ u.version \in Nat /\ u.version <= MaxUploads
                                /\ u.stale \in BOOLEAN
                                /\ u.at \in {"none", "waiting", "sent", "stored", "failed"}
         /\ \A r \in Row : /\ r.shards \in Nat /\ r.shards <= MaxShards
                           /\ r.data \in Nat /\ r.data <= MaxWrites
                           /\ r.version \in Nat /\ r.version <= MaxUploads
<1>1. \A d \in Dir : /\ d.password \in Password
                     /\ d.shards \in Nat /\ d.shards <= MaxShards
                     /\ d.data \in Nat /\ d.data <= MaxWrites
                     /\ d.version \in Nat /\ d.version <= MaxUploads
                     /\ d.dirty \in BOOLEAN /\ d.file \in BOOLEAN /\ d.cloud \in BOOLEAN
  BY DEF PhoneSizes, Dir
<1>2. \A u \in Prepared : /\ u.password \in Password
                          /\ u.shards \in Nat /\ u.shards <= MaxShards
                          /\ u.data \in Nat /\ u.data <= MaxWrites
                          /\ u.version \in Nat /\ u.version <= MaxUploads
                          /\ u.stale \in BOOLEAN
                          /\ u.at \in {"none", "waiting", "sent", "stored", "failed"}
  BY DEF PhoneSizes, Prepared
<1>3. \A r \in Row : /\ r.shards \in Nat /\ r.shards <= MaxShards
                     /\ r.data \in Nat /\ r.data <= MaxWrites
                     /\ r.version \in Nat /\ r.version <= MaxUploads
  BY DEF PhoneSizes, Row
<1>4. QED
  BY <1>1, <1>2, <1>3

\* The directory that counts, by the journal.
LEMMA Counts ==
  /\ ~journal => Recovered = root
  /\ journal /\ stage # NoDir => Recovered = stage
  /\ journal /\ stage = NoDir /\ root # NoDir => Recovered = root
  /\ journal /\ stage = NoDir /\ root = NoDir => Recovered = old
BY DEF Recovered

LEMMA CountsAfter ==
  /\ ~journal' => Recovered' = root'
  /\ journal' /\ stage' # NoDir => Recovered' = stage'
  /\ journal' /\ stage' = NoDir /\ root' # NoDir => Recovered' = root'
  /\ journal' /\ stage' = NoDir /\ root' = NoDir => Recovered' = old'
  /\ UNCHANGED disk => Recovered' = Recovered
BY DEF Recovered, disk

LEMMA HereAfter ==
  /\ UNCHANGED job => Here' = Here
  /\ job' = Idle => Here' = "none" /\ job'.kind = "none" /\ job'.mine = NoUpload
BY NoSteps DEF Here

\* The types of the variables.
LEMMA Now ==
  ASSUME PhoneSizes, PhoneInv
  PROVE  /\ root \in Dir /\ stage \in Dir /\ old \in Dir /\ journal \in BOOLEAN
         /\ row \in [Password -> Row]
         /\ \A p \in Password : /\ row[p] \in Row /\ row[p].data \in Nat /\ row[p].version \in Nat
                                /\ row[p].shards \in Nat
         /\ open \in BOOLEAN /\ timer \in BOOLEAN /\ backed \in Nat /\ backed <= Never /\ Never \in Nat
         /\ written < Never
         /\ up \in Prepared /\ late \in Prepared /\ job \in JobType
         /\ up.data \in Nat /\ up.version \in Nat /\ up.password \in Password /\ up.stale \in BOOLEAN
         /\ late.data \in Nat /\ late.version \in Nat /\ late.password \in Password
         /\ late.stale \in BOOLEAN
         /\ job.mine \in Prepared /\ job.next \in Password
         /\ root.password \in Password /\ stage.password \in Password
         /\ root.data \in Nat /\ root.version \in Nat /\ stage.data \in Nat /\ stage.version \in Nat
         /\ written \in Nat /\ written <= MaxWrites /\ marked \in Nat /\ marked <= MaxWrites
         /\ shards \in Nat \ {0} /\ shards <= MaxShards
         /\ lost \in BOOLEAN /\ faults \in Nat /\ faults <= MaxFaults
         /\ capsules \in SUBSET (1 .. MaxShards)
<1>1. TypeOK
  BY DEF PhoneInv
<1>2. /\ root \in Dir /\ stage \in Dir /\ old \in Dir /\ journal \in BOOLEAN
      /\ row \in [Password -> Row] /\ open \in BOOLEAN /\ timer \in BOOLEAN
      /\ backed \in 0 .. Never /\ up \in Prepared /\ late \in Prepared /\ job \in JobType
      /\ written \in 0 .. MaxWrites /\ marked \in 0 .. MaxWrites /\ shards \in 1 .. MaxShards
      /\ lost \in BOOLEAN /\ faults \in 0 .. MaxFaults /\ capsules \in SUBSET (1 .. MaxShards)
  BY <1>1 DEF TypeOK, JobType
<1>3. /\ Never \in Nat /\ backed \in Nat /\ backed <= Never
      /\ written \in Nat /\ written <= MaxWrites /\ marked \in Nat /\ marked <= MaxWrites
      /\ written < Never
      /\ shards \in Nat \ {0} /\ shards <= MaxShards /\ faults \in Nat /\ faults <= MaxFaults
  BY <1>2 DEF PhoneSizes, Never
<1>4. \A p \in Password : /\ row[p] \in Row /\ row[p].data \in Nat /\ row[p].version \in Nat
                          /\ row[p].shards \in Nat
  BY <1>2, Numbers
<1>5. job.mine \in Prepared /\ job.next \in Password
  BY <1>2 DEF JobType
<1>6. QED
  BY <1>2, <1>3, <1>4, <1>5, Numbers

\* The same of the next state, from its parts.
LEMMA TypedAfter ==
  ASSUME PhoneSizes,
         root' \in Dir, stage' \in Dir, old' \in Dir, journal' \in BOOLEAN,
         row' \in [Password -> Row], capsules' \subseteq 1 .. MaxShards,
         open' \in BOOLEAN, timer' \in BOOLEAN, backed' \in 0 .. Never,
         up' \in Prepared, late' \in Prepared, job' \in JobType,
         written' \in 0 .. MaxWrites, marked' \in 0 .. MaxWrites, shards' \in 1 .. MaxShards,
         lost' \in BOOLEAN, faults' \in 0 .. MaxFaults,
         open' => ~journal', Active' => open' \/ job'.kind = "lock"
  PROVE  TypeOK'
BY DEF TypeOK, JobType, Active

\* Where an operation is.
LEMMA Working ==
  ASSUME PhoneSizes, PhoneInv
  PROVE  /\ JobsShape
         /\ job = Idle <=> Here = "none"
         /\ \A s \in Step : Doing(s) <=> Here = s
         /\ job = Idle => ~journal /\ job.kind = "none" /\ job.mine = NoUpload
         /\ Here \in Preparing \union {"none", "open", "answer"} =>
              ~journal /\ Recovered = root /\ Real(root) /\ root.data = written
         /\ Active => /\ ~journal /\ Recovered = root /\ Real(root) /\ root.data = written
                      /\ Here \in {"none", "drain"} /\ ~Gone
         /\ Recovered.data = written /\ Recovered \in Dir
<1>1. JobsShape /\ PlacesAgree /\ InFlight
  BY DEF PhoneInv
<1>2. /\ job = Idle <=> Here = "none"
      /\ \A s \in Step : Doing(s) <=> Here = s
      /\ Here \in Step \union {"none"}
  BY <1>1, Phases
<1>3. Here \in Preparing \union {"none", "open", "answer"} =>
              ~journal /\ Recovered = root /\ Real(root) /\ root.data = written
  BY <1>1, Counts DEF PlacesAgree, Moving, Preparing
<1>4. Active => Here \in {"none", "drain"} /\ (Here = "none" => open)
  BY <1>1, <1>2 DEF InFlight
<1>5. Active => ~Gone
  BY <1>4, <1>2 DEF Gone
<1>6. job = Idle => ~journal /\ job.kind = "none" /\ job.mine = NoUpload
  BY <1>2, <1>3, NoSteps
<1>7. Active => ~journal /\ Recovered = root /\ Real(root) /\ root.data = written
  BY <1>3, <1>4 DEF Preparing
<1>8. Recovered.data = written /\ Recovered \in Dir
  BY <1>1 DEF PlacesAgree, Real
<1>9. QED
  BY <1>1, <1>2, <1>3, <1>4, <1>5, <1>6, <1>7, <1>8

-----------------------------------------------------------------------------
(* What the helpers of the actions do.                                     *)
LEMMA Stores ==
  ASSUME PhoneSizes, row \in [Password -> Row], NEW u \in Prepared
  PROVE  /\ Stored(u) \in [Password -> Row] /\ RowAfter(u) \in [Password -> Row]
         /\ Stored(u)[u.password].version = u.version /\ Stored(u)[u.password].data = u.data
         /\ Stored(u)[u.password].shards = u.shards
         /\ \A p \in Password : p # u.password => Stored(u)[p] = row[p]
         /\ Accepts(u) => RowAfter(u) = Stored(u)
         /\ ~Accepts(u) => RowAfter(u) = row
<1>1. u.password \in Password /\ [version |-> u.version, data |-> u.data, shards |-> u.shards] \in Row
  BY DEF Prepared, Row
<1>2. QED
  BY <1>1 DEF Stored, RowAfter

LEMMA Stepped ==
  ASSUME PhoneSizes, JobsShape, job \in JobType, Advance, job # Idle, Here # "undo"
  PROVE  /\ JobsShape' /\ job' \in JobType
         /\ job' = Idle => Here' = "none" /\ job'.kind = "none" /\ job'.mine = NoUpload
         /\ job' # Idle => job'.kind = job.kind /\ job'.mine = job.mine /\ job'.next = job.next
         /\ Here = "drain" => \/ (job.kind \in {"sync", "relay"} /\ Here' = "upload" /\ job' # Idle)
                              \/ (job.kind = "lock" /\ ((Here' = "upload" /\ job' # Idle) \/ job' = Idle))
                              \/ (job.kind = "file" /\ Here' = "copy" /\ job' # Idle)
         /\ Here = "upload" => \/ (job.kind \in {"sync", "lock"} /\ job' = Idle)
                               \/ (job.kind = "relay" /\ Here' = "copy" /\ job' # Idle)
         /\ Here = "copy" => \/ (job.kind = "file" /\ Here' = "journal" /\ job' # Idle)
                             \/ (job.kind = "relay" /\ Here' = "put" /\ job' # Idle)
         /\ Here = "put" => job.kind = "relay" /\ Here' = "delete" /\ job' # Idle
         /\ Here = "delete" => job.kind = "relay" /\ Here' = "journal" /\ job' # Idle
         /\ Here = "journal" => job.kind \in {"file", "relay"} /\ Here' = "aside" /\ job' # Idle
         /\ Here = "aside" => Here' = "switch" /\ job' # Idle
         /\ Here = "switch" => Here' = "settle" /\ job' # Idle
         /\ Here = "settle" => \/ (job.kind \in {"file", "relay"} /\ Here' = "open" /\ job' # Idle)
                               \/ (job.kind = "recover" /\ job' = Idle)
         /\ Here = "open" => job.kind \in {"file", "relay"} /\ Here' = "answer" /\ job' # Idle
         /\ Here = "answer" => job.kind \in {"file", "relay"} /\ job' = Idle
<1>1. job \in [kind : {"none", "sync", "lock", "relay", "file", "recover"}, steps : Seq(Step),
               mine : Prepared, next : Password]
  BY DEF JobType
<1> DEFINE Kept == job'.kind = job.kind /\ job'.mine = job.mine /\ job'.next = job.next
<1>2. JobsShape' /\ (job' = Idle \/ (Kept /\ job'.steps \in Seq(Step) /\ job' = [job EXCEPT !.steps = Tail(@)]))
  BY <1>1, Advances
<1>3. job' = Idle => Here' = "none" /\ job'.kind = "none" /\ job'.mine = NoUpload
  BY HereAfter
<1>4. job' \in JobType
  BY <1>1, <1>2, Nothing DEF JobType
<1>5. CASE job.kind = "sync"
  <2>1. (Here = "drain" /\ Here' = "upload") \/ (Here = "upload" /\ job' = Idle)
    BY <1>1, <1>5, Advances
  <2>2. QED
    BY <1>2, <1>3, <1>4, <1>5, <2>1
<1>6. CASE job.kind = "lock"
  <2>1. (Here = "drain" /\ (Here' = "upload" \/ job' = Idle)) \/ (Here = "upload" /\ job' = Idle)
    BY <1>1, <1>6, Advances
  <2>2. QED
    BY <1>2, <1>3, <1>4, <1>6, <2>1
<1> DEFINE Ends == /\ Here = "journal" => Here' = "aside"
                   /\ Here = "aside" => Here' = "switch"
                   /\ Here = "switch" => Here' = "settle"
                   /\ Here = "settle" => Here' = "open"
                   /\ Here = "open" => Here' = "answer"
                   /\ Here = "answer" => job' = Idle
<1>7. CASE job.kind = "file"
  <2>1. \/ (Here = "drain" /\ Here' = "copy")
        \/ (Here = "copy" /\ Here' = "journal")
        \/ Here \in {"journal", "open", "answer", "aside", "switch", "settle"}
    BY <1>1, <1>7, Advances DEF Moving
  <2>2. Ends
    BY <1>1, <1>7, Advances
  <2>3. QED
    BY <1>2, <1>3, <1>4, <1>7, <2>1, <2>2
<1>8. CASE job.kind = "relay"
  <2>1. \/ (Here = "drain" /\ Here' = "upload")
        \/ (Here = "upload" /\ Here' = "copy")
        \/ (Here = "copy" /\ Here' = "put")
        \/ (Here = "put" /\ Here' = "delete")
        \/ (Here = "delete" /\ Here' = "journal")
        \/ Here \in {"journal", "open", "answer", "aside", "switch", "settle"}
    BY <1>1, <1>8, Advances DEF Moving
  <2>2. Ends
    BY <1>1, <1>8, Advances
  <2>3. QED
    BY <1>2, <1>3, <1>4, <1>8, <2>1, <2>2
<1>9. CASE job.kind = "recover"
  <2>1. \/ (Here = "aside" /\ Here' = "switch")
        \/ (Here = "switch" /\ Here' = "settle")
        \/ (Here = "settle" /\ job' = Idle)
    BY <1>1, <1>9, Advances
  <2>2. QED
    BY <1>2, <1>3, <1>4, <1>9, <2>1
<1>10. QED
  BY <1>5, <1>6, <1>7, <1>8, <1>9 DEF JobsShape

\* An operation that ends here, and one that is undone.
LEMMA Stopped ==
  ASSUME PhoneSizes, job' = Idle
  PROVE  /\ JobsShape' /\ job' \in JobType /\ Here' = "none" /\ job'.kind = "none"
         /\ job'.mine = NoUpload
BY Nothing, HereAfter DEF JobsShape

LEMMA Undone ==
  ASSUME PhoneSizes, job \in JobType, job.kind = "relay", ContinueWith(<<"undo">>)
  PROVE  /\ JobsShape' /\ job' \in JobType /\ Here' = "undo" /\ job'.kind = "relay"
         /\ job'.mine = job.mine /\ job'.next = job.next /\ job' # Idle
<1>1. JustUndo \in Seq(Step) /\ JustUndo # <<>> /\ Head(JustUndo) = "undo"
  BY Sequences, Heads
<1>2. job' = [job EXCEPT !.steps = JustUndo]
  BY DEF ContinueWith, JustUndo
<1>3. job' \in JobType /\ job'.kind = "relay" /\ job'.steps = JustUndo
      /\ job'.mine = job.mine /\ job'.next = job.next
  BY <1>1, <1>2 DEF JobType
<1>4. Here' = "undo"
  BY <1>1, <1>3 DEF Here
<1>5. QED
  BY <1>3, <1>4, NoSteps DEF JobsShape

\* The next start, with a commit to recover or without.
LEMMA Restarts ==
  ASSUME PhoneSizes, PhoneInv, Crash
  PROVE  /\ JobsShape' /\ job' \in JobType /\ job'.mine = NoUpload
         /\ journal => Here' = "aside" /\ job'.kind = "recover"
         /\ ~journal => job' = Idle /\ Here' = "none" /\ job'.kind = "none"
<1>1. journal => job' = [Idle EXCEPT !.kind = "recover", !.steps = RecoverSteps]
  BY DEF Crash
<1>2. ~journal => job' = Idle
  BY DEF Crash
<1>3. CASE journal
  <2>1. RecoverSteps \in Seq(Step) /\ RecoverSteps # <<>> /\ Head(RecoverSteps) = "aside"
    BY Sequences, Heads
  <2>2. job' \in JobType /\ job'.mine = NoUpload /\ job'.kind = "recover" /\ job'.steps = RecoverSteps
    BY <1>1, <1>3, <2>1, Nothing DEF JobType
  <2>3. Here' = "aside"
    BY <2>1, <2>2 DEF Here
  <2>4. QED
    BY <1>3, <2>2, <2>3 DEF JobsShape
<1>4. CASE ~journal
  BY <1>2, <1>4, Stopped
<1>5. QED
  BY <1>3, <1>4

\* Two sequences joined.
LEMMA Joined ==
  ASSUME NEW s \in Seq(Step), NEW t \in Seq(Step), NEW u \in Seq(Step), Len(u) = Len(s) + Len(t),
         \A i \in 1 .. Len(s) : u[i] = s[i], \A i \in 1 .. Len(t) : u[Len(s) + i] = t[i]
  PROVE  s \o t = u
<1>1. s \o t \in Seq(Step) /\ Len(s \o t) = Len(u)
  OBVIOUS
<1>2. \A i \in 1 .. Len(s) : (s \o t)[i] = u[i]
  OBVIOUS
<1>3. \A i \in 1 .. Len(t) : (s \o t)[Len(s) + i] = u[Len(s) + i]
  OBVIOUS
<1>4. Len(s) \in Nat /\ Len(t) \in Nat
  OBVIOUS
<1>5. \A i \in 1 .. Len(u) : (s \o t)[i] = u[i]
  <2>1. TAKE i \in 1 .. Len(u)
  <2>2. CASE i <= Len(s)
    BY <1>2, <1>4, <2>2
  <2>3. CASE i > Len(s)
    <3>1. i - Len(s) \in 1 .. Len(t) /\ i = Len(s) + (i - Len(s))
      BY <1>4, <2>3
    <3>2. QED
      BY <1>3, <3>1
  <2>4. QED
    BY <1>4, <2>2, <2>3
<1>6. QED
  BY <1>1, <1>5

LEMMA Changes ==
  /\ <<"drain", "copy">> \o CommitSteps \o <<"open", "answer">> = FileSteps
  /\ <<"drain", "upload", "copy", "put", "delete">> \o CommitSteps \o <<"open", "answer">> = RelaySteps
<1> DEFINE a == <<"drain", "copy">>
           b == <<"drain", "copy", "journal", "aside", "switch", "settle">>
           c == <<"drain", "upload", "copy", "put", "delete">>
           d == <<"drain", "upload", "copy", "put", "delete", "journal", "aside", "switch", "settle">>
           e == <<"open", "answer">>
<1>1. a \in Seq(Step) /\ b \in Seq(Step) /\ c \in Seq(Step) /\ d \in Seq(Step) /\ e \in Seq(Step)
      /\ CommitSteps \in Seq(Step) /\ FileSteps \in Seq(Step) /\ RelaySteps \in Seq(Step)
  BY DEF Step, CommitSteps, FileSteps, RelaySteps
<1>2. a \o CommitSteps = b
  <2>1. Len(a) = 2 /\ Len(CommitSteps) = 4 /\ Len(b) = 6
    BY DEF CommitSteps
  <2>2. \A i \in 1 .. 2 : b[i] = a[i]
    OBVIOUS
  <2>3. \A i \in 1 .. 4 : b[2 + i] = CommitSteps[i]
    BY DEF CommitSteps
  <2> HIDE DEF a, b, c, d, e
  <2>4. a \in Seq(Step) /\ CommitSteps \in Seq(Step) /\ b \in Seq(Step)
    BY <1>1
  <2>5. Len(b) = Len(a) + Len(CommitSteps)
    BY <2>1
  <2>6. (\A i \in 1 .. Len(a) : b[i] = a[i]) /\ (\A i \in 1 .. Len(CommitSteps) : b[Len(a) + i] = CommitSteps[i])
    BY ONLY <2>1, <2>2, <2>3
  <2>7. QED
    BY ONLY <2>4, <2>5, <2>6, Joined
<1>3. b \o e = FileSteps
  <2>1. Len(b) = 6 /\ Len(e) = 2 /\ Len(FileSteps) = 8
    BY DEF FileSteps
  <2>2. \A i \in 1 .. 6 : FileSteps[i] = b[i]
    BY DEF FileSteps
  <2>3. \A i \in 1 .. 2 : FileSteps[6 + i] = e[i]
    BY DEF FileSteps
  <2> HIDE DEF a, b, c, d, e
  <2>4. b \in Seq(Step) /\ e \in Seq(Step) /\ FileSteps \in Seq(Step)
    BY <1>1
  <2>5. Len(FileSteps) = Len(b) + Len(e)
    BY <2>1
  <2>6. (\A i \in 1 .. Len(b) : FileSteps[i] = b[i]) /\ (\A i \in 1 .. Len(e) : FileSteps[Len(b) + i] = e[i])
    BY ONLY <2>1, <2>2, <2>3
  <2>7. QED
    BY ONLY <2>4, <2>5, <2>6, Joined
<1>4. c \o CommitSteps = d
  <2>1. Len(c) = 5 /\ Len(CommitSteps) = 4 /\ Len(d) = 9
    BY DEF CommitSteps
  <2>2. \A i \in 1 .. 5 : d[i] = c[i]
    OBVIOUS
  <2>3. \A i \in 1 .. 4 : d[5 + i] = CommitSteps[i]
    BY DEF CommitSteps
  <2> HIDE DEF a, b, c, d, e
  <2>4. c \in Seq(Step) /\ CommitSteps \in Seq(Step) /\ d \in Seq(Step)
    BY <1>1
  <2>5. Len(d) = Len(c) + Len(CommitSteps)
    BY <2>1
  <2>6. (\A i \in 1 .. Len(c) : d[i] = c[i]) /\ (\A i \in 1 .. Len(CommitSteps) : d[Len(c) + i] = CommitSteps[i])
    BY ONLY <2>1, <2>2, <2>3
  <2>7. QED
    BY ONLY <2>4, <2>5, <2>6, Joined
<1>5. d \o e = RelaySteps
  <2>1. Len(d) = 9 /\ Len(e) = 2 /\ Len(RelaySteps) = 11
    BY DEF RelaySteps
  <2>2. \A i \in 1 .. 9 : RelaySteps[i] = d[i]
    BY DEF RelaySteps
  <2>3. \A i \in 1 .. 2 : RelaySteps[9 + i] = e[i]
    BY DEF RelaySteps
  <2> HIDE DEF a, b, c, d, e
  <2>4. d \in Seq(Step) /\ e \in Seq(Step) /\ RelaySteps \in Seq(Step)
    BY <1>1
  <2>5. Len(RelaySteps) = Len(d) + Len(e)
    BY <2>1
  <2>6. (\A i \in 1 .. Len(d) : RelaySteps[i] = d[i]) /\ (\A i \in 1 .. Len(e) : RelaySteps[Len(d) + i] = e[i])
    BY ONLY <2>1, <2>2, <2>3
  <2>7. QED
    BY ONLY <2>4, <2>5, <2>6, Joined
<1>6. QED
  BY <1>2, <1>3, <1>4, <1>5

\* The operations that begin.
LEMMA Begins ==
  ASSUME PhoneSizes, NEW kind, NEW steps, NEW mine \in Prepared, NEW next \in Password,
         job' = [kind |-> kind, steps |-> steps, mine |-> mine, next |-> next]
  PROVE  /\ job'.kind = kind /\ job'.mine = mine /\ job'.next = next /\ (job' # Idle \/ kind = "none")
         /\ kind = "sync" /\ steps = LockSteps => JobsShape' /\ job' \in JobType /\ Here' = "drain"
         /\ kind = "lock" /\ steps \in {LockSteps, JustDrain} =>
              JobsShape' /\ job' \in JobType /\ Here' = "drain"
         /\ kind = "file" /\ steps = FileSteps =>
              JobsShape' /\ job' \in JobType /\ Here' = "drain"
         /\ kind = "relay" /\ steps = RelaySteps =>
              JobsShape' /\ job' \in JobType /\ Here' = "drain"
<1>1. job'.kind = kind /\ job'.mine = mine /\ job'.next = next /\ (job' # Idle \/ kind = "none") /\ job'.steps = steps
  BY NoSteps
<1>2. /\ LockSteps \in Seq(Step) /\ LockSteps # <<>> /\ Head(LockSteps) = "drain"
      /\ JustDrain \in Seq(Step) /\ JustDrain # <<>> /\ Head(JustDrain) = "drain"
      /\ FileSteps \in Seq(Step) /\ FileSteps # <<>> /\ Head(FileSteps) = "drain"
      /\ RelaySteps \in Seq(Step) /\ RelaySteps # <<>> /\ Head(RelaySteps) = "drain"
  BY Sequences, Heads
<1>3. \A t \in Seq(Step) : t # <<>> /\ Head(t) = "drain" /\ steps = t => Here' = "drain"
  BY <1>1 DEF Here
<1>4. \A t \in Seq(Step) : steps = t /\ kind \in {"sync", "lock", "file", "relay"} => job' \in JobType
  BY <1>1 DEF JobType
<1>5. kind = "sync" /\ steps = LockSteps => JobsShape' /\ job' \in JobType /\ Here' = "drain"
  BY <1>1, <1>2, <1>3, <1>4 DEF JobsShape
<1>6. kind = "lock" /\ steps \in {LockSteps, JustDrain} => JobsShape' /\ job' \in JobType /\ Here' = "drain"
  BY <1>1, <1>2, <1>3, <1>4 DEF JobsShape
<1>7. kind = "file" /\ steps = FileSteps => JobsShape' /\ job' \in JobType /\ Here' = "drain"
  BY <1>1, <1>2, <1>3, <1>4 DEF JobsShape
<1>8. kind = "relay" /\ steps = RelaySteps => JobsShape' /\ job' \in JobType /\ Here' = "drain"
  BY <1>1, <1>2, <1>3, <1>4 DEF JobsShape
<1>9. QED
  BY <1>1, <1>5, <1>6, <1>7, <1>8

\* The next request of an upload, one that is given up, and one whose vault changes.
LEMMA Fields ==
  ASSUME PhoneSizes, NEW u \in Prepared
  PROVE  /\ GivenUp(u) \in Prepared /\ GivenUp(u).password = u.password
         /\ GivenUp(u).data = u.data /\ GivenUp(u).shards = u.shards
         /\ GivenUp(u).version = u.version /\ GivenUp(u).stale = FALSE /\ GivenUp(u).at = u.at
         /\ \A at \in {"stored", "failed"} :
              /\ [u EXCEPT !.at = at] \in Prepared /\ [u EXCEPT !.at = at].password = u.password
              /\ [u EXCEPT !.at = at].data = u.data /\ [u EXCEPT !.at = at].shards = u.shards
              /\ [u EXCEPT !.at = at].version = u.version /\ [u EXCEPT !.at = at].stale = u.stale
              /\ [u EXCEPT !.at = at].at = at
         /\ \A d \in Dir : d.version < MaxUploads =>
              /\ Numbered(u, d) \in Prepared /\ Numbered(u, d).password = u.password
              /\ Numbered(u, d).data = u.data /\ Numbered(u, d).shards = u.shards
              /\ Numbered(u, d).version = d.version + 1 /\ Numbered(u, d).stale = u.stale
              /\ Numbered(u, d).at = "sent"
<1>1. \A d \in Dir : d.version < MaxUploads => d.version + 1 \in 0 .. MaxUploads
  BY DEF PhoneSizes, Dir
<1>2. /\ GivenUp(u) \in Prepared /\ GivenUp(u).password = u.password
      /\ GivenUp(u).data = u.data /\ GivenUp(u).shards = u.shards
      /\ GivenUp(u).version = u.version /\ GivenUp(u).stale = FALSE /\ GivenUp(u).at = u.at
  BY DEF GivenUp, Prepared
<1>3. \A at \in {"stored", "failed"} :
              /\ [u EXCEPT !.at = at] \in Prepared /\ [u EXCEPT !.at = at].password = u.password
              /\ [u EXCEPT !.at = at].data = u.data /\ [u EXCEPT !.at = at].shards = u.shards
              /\ [u EXCEPT !.at = at].version = u.version /\ [u EXCEPT !.at = at].stale = u.stale
              /\ [u EXCEPT !.at = at].at = at
  BY DEF Prepared
<1>4. \A d \in Dir : d.version < MaxUploads =>
              /\ Numbered(u, d) \in Prepared /\ Numbered(u, d).password = u.password
              /\ Numbered(u, d).data = u.data /\ Numbered(u, d).shards = u.shards
              /\ Numbered(u, d).version = d.version + 1 /\ Numbered(u, d).stale = u.stale
              /\ Numbered(u, d).at = "sent"
  BY <1>1 DEF Numbered, Prepared
<1>5. QED
  BY <1>2, <1>3, <1>4

LEMMA Snapshots ==
  ASSUME PhoneSizes, NEW d \in Dir
  PROVE  /\ Snapshot(d) \in Prepared /\ Snapshot(d).password = d.password /\ Snapshot(d).data = d.data
         /\ Snapshot(d).shards = d.shards /\ Snapshot(d).version = 0 /\ Snapshot(d).stale = FALSE
         /\ Snapshot(d).at = "waiting" /\ Snapshot(d) # NoUpload
<1>1. 0 \in 0 .. MaxUploads
  BY DEF PhoneSizes
<1>2. QED
  BY <1>1 DEF Snapshot, Prepared, Dir, NoUpload

LEMMA Stales ==
  ASSUME PhoneSizes, up \in Prepared
  PROVE  /\ Staled \in Prepared /\ Staled.password = up.password /\ Staled.data = up.data
         /\ Staled.shards = up.shards /\ Staled.version = up.version /\ Staled.at = up.at
         /\ up = NoUpload => Staled = NoUpload
         /\ up # NoUpload => Staled.stale = TRUE
BY Nothing DEF Staled, Prepared

\* The answer to an upload is recorded.
LEMMA Records ==
  ASSUME PhoneSizes, root \in Dir, NEW u \in Prepared, Recorded(u)
  PROVE  /\ root' \in Dir /\ root'.password = root.password /\ root'.data = root.data
         /\ root'.shards = root.shards /\ root'.version = u.version /\ root'.file = root.file
         /\ root'.cloud = root.cloud
         /\ root'.dirty = (root.dirty /\ ~Unchanged(u))
         /\ Unchanged(u) => backed' = u.data /\ ~u.stale /\ (open => root.data = u.data)
         /\ ~Unchanged(u) => backed' = backed
<1>1. Unchanged(u) \in BOOLEAN
  BY DEF Unchanged
<1>2. root.dirty \in BOOLEAN /\ u.version \in 0 .. MaxUploads
  BY DEF Dir, Prepared
<1>3. (root.dirty /\ ~Unchanged(u)) \in BOOLEAN
  OBVIOUS
<1>4. root' = [root EXCEPT !.version = u.version, !.dirty = root.dirty /\ ~Unchanged(u)]
  BY DEF Recorded
<1>5. /\ root' \in Dir /\ root'.password = root.password /\ root'.data = root.data
      /\ root'.shards = root.shards /\ root'.version = u.version /\ root'.file = root.file
      /\ root'.cloud = root.cloud
      /\ root'.dirty = (root.dirty /\ ~Unchanged(u))
  BY <1>2, <1>3, <1>4 DEF Dir
<1>6. /\ Unchanged(u) => backed' = u.data /\ ~u.stale /\ (open => root.data = u.data)
      /\ ~Unchanged(u) => backed' = backed
  BY DEF Recorded, Unchanged
<1>7. QED
  BY <1>5, <1>6

\* An open directory has the version the relay has.
LEMMA OpenedDir ==
  ASSUME PhoneSizes, PhoneInv
  PROVE  /\ Opened(root) \in Dir /\ Opened(root).password = root.password
         /\ Opened(root).data = root.data /\ Opened(root).shards = root.shards
         /\ Opened(root).file = root.file /\ Opened(root).cloud = root.cloud
         /\ Opened(root).dirty = root.dirty
         /\ root.file => Opened(root) = root
         /\ ~root.file => Opened(root).version = row[root.password].version
<1>1. row[root.password].version \in 0 .. MaxUploads
  BY Now DEF Row
<1>2. QED
  BY <1>1, Now DEF Opened, Dir

\* A row is deleted, and a late request for it is one from before.
LEMMA DeletesRow ==
  ASSUME PhoneSizes, row \in [Password -> Row], late \in Prepared, NEW p \in Password, Deletes(p)
  PROVE  /\ row' \in [Password -> Row] /\ row'[p] = NoRow
         /\ \A q \in Password : q # p => row'[q] = row[q]
         /\ late' \in Prepared /\ late'.password = late.password /\ late'.data = late.data
         /\ late'.shards = late.shards /\ late'.version = late.version
         /\ late # NoUpload /\ late.password = p => late'.stale = TRUE
         /\ ~(late # NoUpload /\ late.password = p) => late' = late
         /\ late.stale => late'.stale
BY Nothing DEF Deletes, Prepared

\* The upload of an operation, and the first one of a new password.
OwnUpload == Numbered(IF job.mine = NoUpload THEN Snapshot(root) ELSE job.mine, root)
FirstUpload == Numbered(Snapshot(stage), stage)

LEMMA Owns ==
  ASSUME PhoneSizes, PhoneInv, Here = "upload", root.version < MaxUploads
  PROVE  /\ OwnUpload \in Prepared /\ OwnUpload.password = root.password
         /\ OwnUpload.data = written /\ OwnUpload.shards = root.shards
         /\ OwnUpload.version = root.version + 1 /\ OwnUpload.stale = FALSE /\ OwnUpload.at = "sent"
<1>1. root.data = written
  BY Working DEF Preparing
<1>2. CASE job.mine = NoUpload
  <2>1. root \in Dir /\ Snapshot(root) \in Prepared /\ Snapshot(root).password = root.password
        /\ Snapshot(root).data = written /\ Snapshot(root).shards = root.shards
        /\ Snapshot(root).stale = FALSE
    BY <1>1, Now, Snapshots
  <2>2. OwnUpload = Numbered(Snapshot(root), root)
    BY <1>2 DEF OwnUpload
  <2>3. QED
    BY <2>1, <2>2, Fields
<1>3. CASE job.mine # NoUpload
  <2>1. /\ job.mine \in Prepared /\ job.mine.password = root.password /\ job.mine.data = root.data
        /\ job.mine.shards = root.shards /\ job.mine.stale = FALSE
    BY <1>3, Now, Numbers DEF PhoneInv, Bounded
  <2>2. QED
    <3>1. OwnUpload = Numbered(job.mine, root) /\ root \in Dir
      BY <1>3, Now DEF OwnUpload
    <3>2. QED
      BY <1>1, <2>1, <3>1, Fields
<1>4. QED
  BY <1>2, <1>3

LEMMA OwnsFirst ==
  ASSUME PhoneSizes, PhoneInv, Here = "put"
  PROVE  /\ job.kind = "relay" /\ Real(stage) /\ stage.password = job.next /\ stage.data = written
         /\ stage.version = 0 /\ ~stage.file /\ stage.password # root.password /\ ~root.file
         /\ FirstUpload \in Prepared /\ FirstUpload.password = stage.password
         /\ FirstUpload.data = written /\ FirstUpload.shards = stage.shards
         /\ FirstUpload.version = 1 /\ FirstUpload.stale = FALSE /\ FirstUpload.at = "sent"
<1>1. job.kind = "relay"
  BY Phases DEF PhoneInv
<1>2. /\ Real(stage) /\ stage.password = job.next /\ stage.data = written
      /\ stage.version = 0 /\ ~stage.file /\ stage.password # root.password /\ ~root.file
  BY <1>1 DEF PhoneInv, ChangePrepared, Preparing
<1>3. stage.version < MaxUploads
  BY <1>2 DEF PhoneSizes
<1>4. QED
  <2>1. stage \in Dir /\ Snapshot(stage) \in Prepared /\ Snapshot(stage).password = stage.password
        /\ Snapshot(stage).data = written /\ Snapshot(stage).shards = stage.shards
        /\ Snapshot(stage).stale = FALSE
    BY <1>2, Now, Snapshots
  <2>2. FirstUpload = Numbered(Snapshot(stage), stage) /\ stage.version + 1 = 1
    BY <1>2 DEF FirstUpload
  <2>3. QED
    BY <1>1, <1>2, <1>3, <2>1, <2>2, Fields

-----------------------------------------------------------------------------
(* The outcomes of the steps that ask the relay.                           *)
UploadTaken ==
  /\ Accepts(OwnUpload) /\ row' = Stored(OwnUpload) /\ Recorded(OwnUpload) /\ Advance
  /\ late' = late /\ faults' = faults
UploadFails ==
  /\ job' = Idle /\ root' = root /\ backed' = backed /\ faults' \in 0 .. MaxFaults
  /\ \/ row' = row /\ late' = late
     \/ row' = RowAfter(OwnUpload) /\ late' = late
     \/ row' = row /\ late' = OwnUpload
PutTaken ==
  /\ Accepts(FirstUpload) /\ row' = Stored(FirstUpload)
  /\ stage' = [stage EXCEPT !.version = 1, !.dirty = FALSE] /\ Advance /\ faults' = faults
PutFails ==
  /\ (row' = row \/ row' = RowAfter(FirstUpload)) /\ stage' = NoDir /\ job' = Idle
  /\ faults' \in 0 .. MaxFaults
DeleteDone == Deletes(root.password) /\ Advance /\ lost' = lost /\ faults' = faults
DeleteFails ==
  /\ ContinueWith(<<"undo">>) /\ faults' \in 0 .. MaxFaults
  /\ \/ row' = row /\ late' = late /\ lost' = lost
     \/ Deletes(root.password) /\ lost' = TRUE

LEMMA Faults ==
  ASSUME PhoneSizes, PhoneInv, Fault
  PROVE  faults' \in 0 .. MaxFaults
BY Now DEF Fault, PhoneSizes

LEMMA Outcomes ==
  ASSUME PhoneSizes, PhoneInv
  PROVE  /\ Upload => UploadTaken \/ UploadFails
         /\ Put => PutTaken \/ PutFails
         /\ Delete => DeleteDone \/ DeleteFails
<1>1. faults \in 0 .. MaxFaults
  BY DEF PhoneInv, TypeOK
<1>2. Upload => UploadTaken \/ UploadFails
  BY <1>1, Faults DEF Upload, UploadTaken, UploadFails, OwnUpload, Stop
<1>3. Put => PutTaken \/ PutFails
  BY <1>1, Faults DEF Put, PutTaken, PutFails, FirstUpload, Stop
<1>4. Delete => DeleteDone \/ DeleteFails
  BY <1>1, Faults DEF Delete, DeleteDone, DeleteFails
<1>5. QED
  BY <1>2, <1>3, <1>4

-----------------------------------------------------------------------------
(* Every action keeps the invariant.                                       *)
LEMMA WriteKeeps ==
  ASSUME PhoneSizes, PhoneInv, Write
  PROVE  PhoneInv'
<1>1. TypeOK /\ JobsShape /\ PlacesAgree /\ ChangePrepared /\ Bounded /\ InFlight /\ LateIsNoOlder
      /\ AtTheRelay /\ CleanIsThere /\ OldIsClean
  BY DEF PhoneInv
<1>2. /\ Here = "none" /\ job = Idle /\ ~journal /\ Recovered = root /\ Real(root)
      /\ root.data = written /\ job.kind = "none" /\ job.mine = NoUpload /\ open
  BY <1>1, Working, NoSteps DEF Write, Ready
<1>3. written + 1 \in 0 .. MaxWrites /\ root \in Dir
  BY <1>1, <1>2, Now DEF Write, PhoneSizes
<1>4. /\ root' \in Dir /\ root'.password = root.password /\ root'.data = written + 1
      /\ root'.shards = root.shards /\ root'.version = root.version /\ root'.file = root.file
      /\ root'.cloud = root.cloud /\ root'.dirty = TRUE
  BY <1>1, <1>2, <1>3 DEF Write, Dir
<1>5. /\ stage' = stage /\ old' = old /\ journal' = journal /\ row' = row
      /\ capsules' = capsules /\ open' = open /\ backed' = backed /\ late' = late /\ job' = job
      /\ shards' = shards /\ lost' = lost /\ faults' = faults
  BY <1>1, <1>2, <1>3, <1>4 DEF Write, disk, memory, net, history
<1>6. /\ written' = written + 1 /\ marked' = written + 1 /\ written < MaxWrites
      /\ timer' \in BOOLEAN
  BY <1>1, <1>2, <1>3, <1>4, <1>5, Now, Numbers DEF Write
<1>7. Here' = Here /\ Recovered' = root'
  BY <1>1, <1>2, <1>3, <1>4, <1>5, <1>6, HereAfter, CountsAfter
<1>8. /\ up' \in Prepared /\ up'.password = up.password /\ up'.data = up.data
      /\ up'.shards = up.shards /\ up'.version = up.version /\ up'.at = up.at
      /\ (up = NoUpload => up' = NoUpload) /\ (up # NoUpload => up'.stale)
  BY <1>1, <1>2, <1>3, <1>4, <1>5, <1>6, <1>7, Now, Stales DEF Write
<1>9. TypeOK'
  <2>1. /\ root' \in Dir /\ stage' \in Dir /\ old' \in Dir /\ journal' \in BOOLEAN
        /\ row' \in [Password -> Row] /\ capsules' \subseteq 1 .. MaxShards
        /\ open' \in BOOLEAN /\ timer' \in BOOLEAN /\ up' \in Prepared /\ late' \in Prepared
        /\ job' \in JobType
    BY <1>1, <1>2, <1>3, <1>4, <1>5, <1>6, <1>7, <1>8, Now, Nothing
  <2>2. /\ backed' \in 0 .. Never /\ written' \in 0 .. MaxWrites /\ marked' \in 0 .. MaxWrites
        /\ shards' \in 1 .. MaxShards /\ lost' \in BOOLEAN /\ faults' \in 0 .. MaxFaults
    BY <1>1, <1>2, <1>3, <1>4, <1>5, <1>6, <1>7, <1>8, Now DEF TypeOK, PhoneSizes
  <2>3. open' => ~journal'
    BY <1>1, <1>2, <1>3, <1>4, <1>5, <1>6, <1>7, <1>8 DEF TypeOK
  <2>4. Active' => (open' \/ job'.kind = "lock")
    BY <1>1, <1>2, <1>3, <1>4, <1>5, <1>6, <1>7, <1>8, Nothing DEF TypeOK, Active
  <2>5. QED
    BY <2>1, <2>2, <2>3, <2>4, TypedAfter
<1>10. JobsShape'
  BY <1>1, <1>2, <1>3, <1>4, <1>5, <1>6, <1>7, <1>8 DEF JobsShape
<1>11. PlacesAgree'
  BY <1>1, <1>2, <1>3, <1>4, <1>5, <1>6, <1>7, <1>8, Now, Nothing DEF PlacesAgree, Moving,
     Preparing, Real
<1>12. ChangePrepared'
  BY <1>1, <1>2, <1>3, <1>4, <1>5, <1>6, <1>7, <1>8, Now, Nothing DEF ChangePrepared, PlacesAgree,
     Moving, Preparing, Real
<1>13. Bounded'
  BY <1>1, <1>2, <1>3, <1>4, <1>5, <1>6, <1>7, <1>8, Now, Nothing, SMTT(30) DEF Bounded, PlacesAgree,
     Moving, Preparing, Real
<1>14. InFlight'
  BY <1>1, <1>2, <1>3, <1>4, <1>5, <1>6, <1>7, <1>8, Now, Nothing, SMTT(30) DEF InFlight, Active, Bounded,
     Preparing
<1>15. LateIsNoOlder'
  BY <1>1, <1>2, <1>3, <1>4, <1>5, <1>6, <1>7, <1>8, Now, Nothing DEF LateIsNoOlder, Accepts,
     Preparing
<1>16. AtTheRelay'
  BY <1>1, <1>2, <1>3, <1>4, <1>5, <1>6, <1>7, <1>8, Now, Nothing DEF AtTheRelay, Gone, Preparing
<1>17. CleanIsThere'
  BY <1>1, <1>2, <1>3, <1>4, <1>5, <1>6, <1>7, <1>8, Now, Nothing DEF CleanIsThere, AtTheRelay
<1>18. OldIsClean'
  BY <1>1, <1>2, <1>3, <1>4, <1>5, <1>6, <1>7, <1>8, Now, Nothing DEF OldIsClean
<1>19. QED
  BY <1>9, <1>10, <1>11, <1>12, <1>13, <1>14, <1>15, <1>16, <1>17, <1>18 DEF PhoneInv

LEMMA WriteQuietlyKeeps ==
  ASSUME PhoneSizes, PhoneInv, WriteQuietly
  PROVE  PhoneInv'
<1>1. TypeOK /\ JobsShape /\ PlacesAgree /\ ChangePrepared /\ Bounded /\ InFlight /\ LateIsNoOlder
      /\ AtTheRelay /\ CleanIsThere /\ OldIsClean
  BY DEF PhoneInv
<1>2. /\ Here = "none" /\ job = Idle /\ ~journal /\ Recovered = root /\ Real(root)
      /\ root.data = written /\ job.kind = "none" /\ job.mine = NoUpload /\ open
  BY <1>1, Working, NoSteps DEF WriteQuietly, Ready
<1>3. /\ root' \in Dir /\ root'.password = root.password /\ root'.data = written + 1
      /\ root'.shards = root.shards /\ root'.version = root.version /\ root'.file = root.file
      /\ root'.cloud = root.cloud /\ root'.dirty = root.dirty
  BY <1>1, <1>2, Now DEF WriteQuietly, Dir, PhoneSizes
<1>4. /\ stage' = stage /\ old' = old /\ journal' = journal /\ row' = row
      /\ capsules' = capsules /\ open' = open /\ timer' = timer /\ backed' = backed /\ up' = up
      /\ late' = late /\ job' = job /\ shards' = shards /\ marked' = marked /\ lost' = lost
      /\ faults' = faults
  BY <1>1, <1>2, <1>3 DEF WriteQuietly, disk, memory, net, history
<1>5. written' = written + 1 /\ written < MaxWrites
  BY <1>1, <1>2, <1>3, <1>4 DEF WriteQuietly
<1>6. Here' = Here /\ Recovered' = root'
  BY <1>1, <1>2, <1>3, <1>4, <1>5, HereAfter, CountsAfter
<1>7. backed # written + 1 /\ root'.data = written + 1 /\ root'.password = root.password
  BY <1>1, <1>2, <1>3, <1>4, <1>5, <1>6, Now DEF Never, Bounded, PhoneSizes
<1>8. TypeOK'
  <2>1. /\ root' \in Dir /\ stage' \in Dir /\ old' \in Dir /\ journal' \in BOOLEAN
        /\ row' \in [Password -> Row] /\ capsules' \subseteq 1 .. MaxShards
        /\ open' \in BOOLEAN /\ timer' \in BOOLEAN /\ up' \in Prepared /\ late' \in Prepared
        /\ job' \in JobType
    BY <1>1, <1>2, <1>3, <1>4, <1>5, <1>6, <1>7, Now, Nothing
  <2>2. /\ backed' \in 0 .. Never /\ written' \in 0 .. MaxWrites /\ marked' \in 0 .. MaxWrites
        /\ shards' \in 1 .. MaxShards /\ lost' \in BOOLEAN /\ faults' \in 0 .. MaxFaults
    BY <1>1, <1>2, <1>3, <1>4, <1>5, <1>6, <1>7, Now DEF TypeOK, PhoneSizes
  <2>3. open' => ~journal'
    BY <1>1, <1>2, <1>3, <1>4, <1>5, <1>6, <1>7 DEF TypeOK
  <2>4. Active' => (open' \/ job'.kind = "lock")
    BY <1>1, <1>2, <1>3, <1>4, <1>5, <1>6, <1>7, Nothing DEF TypeOK, Active
  <2>5. QED
    BY <2>1, <2>2, <2>3, <2>4, TypedAfter
<1>9. JobsShape'
  BY <1>1, <1>2, <1>3, <1>4, <1>5, <1>6, <1>7 DEF JobsShape
<1>10. PlacesAgree'
  BY <1>1, <1>2, <1>3, <1>4, <1>5, <1>6, <1>7, Now, Nothing DEF PlacesAgree, Moving, Preparing,
     Real
<1>11. ChangePrepared'
  BY <1>1, <1>2, <1>3, <1>4, <1>5, <1>6, <1>7, Now, Nothing DEF ChangePrepared, PlacesAgree,
     Moving, Preparing, Real
<1>12. Bounded'
  BY <1>1, <1>2, <1>3, <1>4, <1>5, <1>6, <1>7, Now, Nothing, SMTT(30) DEF Bounded, PlacesAgree, Moving,
     Preparing, Real
<1>13. InFlight'
  BY <1>1, <1>2, <1>3, <1>4, <1>5, <1>6, <1>7, Now, Nothing DEF InFlight, Active, Bounded,
     Preparing
<1>14. LateIsNoOlder'
  BY <1>1, <1>2, <1>3, <1>4, <1>5, <1>6, <1>7, Now, Nothing DEF LateIsNoOlder, Accepts, Preparing
<1>15. AtTheRelay'
  BY <1>1, <1>2, <1>3, <1>4, <1>5, <1>6, <1>7, Now, Nothing DEF AtTheRelay, Gone, Preparing
<1>16. CleanIsThere'
  BY <1>1, <1>2, <1>3, <1>4, <1>5, <1>6, <1>7, Now, Nothing DEF CleanIsThere, AtTheRelay
<1>17. OldIsClean'
  BY <1>1, <1>2, <1>3, <1>4, <1>5, <1>6, <1>7, Now, Nothing DEF OldIsClean
<1>18. QED
  BY <1>8, <1>9, <1>10, <1>11, <1>12, <1>13, <1>14, <1>15, <1>16, <1>17 DEF PhoneInv

LEMMA SetCloudKeeps ==
  ASSUME PhoneSizes, PhoneInv, SetCloud
  PROVE  PhoneInv'
<1>1. TypeOK /\ JobsShape /\ PlacesAgree /\ ChangePrepared /\ Bounded /\ InFlight /\ LateIsNoOlder
      /\ AtTheRelay /\ CleanIsThere /\ OldIsClean
  BY DEF PhoneInv
<1>2. /\ Here = "none" /\ job = Idle /\ ~journal /\ Recovered = root /\ Real(root)
      /\ root.data = written /\ job.kind = "none" /\ job.mine = NoUpload /\ open
  BY <1>1, Working, NoSteps DEF SetCloud, Ready
<1>3. /\ root' \in Dir /\ root'.password = root.password /\ root'.data = root.data
      /\ root'.shards = root.shards /\ root'.version = root.version /\ root'.file = root.file
      /\ root'.cloud = ~root.cloud /\ root'.dirty = (root.dirty \/ ~root.cloud)
  <2>1. root.cloud \in BOOLEAN /\ root.dirty \in BOOLEAN /\ (~root.cloud) \in BOOLEAN /\ (root.dirty \/ ~root.cloud) \in BOOLEAN
    BY Now, Numbers
  <2>2. root' = [root EXCEPT !.cloud = ~root.cloud, !.dirty = root.dirty \/ ~root.cloud]
    BY DEF SetCloud
  <2>3. QED
    BY <2>1, <2>2, Now DEF Dir
<1>4. /\ stage' = stage /\ old' = old /\ journal' = journal /\ row' = row
      /\ capsules' = capsules /\ open' = open /\ backed' = backed /\ up' = up /\ late' = late
      /\ job' = job /\ shards' = shards /\ written' = written /\ lost' = lost
      /\ faults' = faults
  BY <1>1, <1>2, <1>3 DEF SetCloud, disk, memory, net, history
<1>5. marked' \in {marked, written} /\ timer' \in BOOLEAN /\ ~Active
  BY <1>1, <1>2, <1>3, <1>4, Now, Numbers, Nothing DEF SetCloud, Drained, Active
<1>6. Here' = Here /\ Recovered' = root' /\ (root.cloud => marked' = marked)
  BY <1>1, <1>2, <1>3, <1>4, <1>5, HereAfter, CountsAfter DEF SetCloud
<1>7. root'.dirty \/ ~root'.cloud
  <2>1. CASE root.cloud
    BY <1>3, <2>1
  <2>2. CASE ~root.cloud
    BY <1>3, <2>2
  <2>3. QED
    BY <2>1, <2>2
<1>8. TypeOK'
  <2>1. /\ root' \in Dir /\ stage' \in Dir /\ old' \in Dir /\ journal' \in BOOLEAN
        /\ row' \in [Password -> Row] /\ capsules' \subseteq 1 .. MaxShards
        /\ open' \in BOOLEAN /\ timer' \in BOOLEAN /\ up' \in Prepared /\ late' \in Prepared
        /\ job' \in JobType
    BY <1>1, <1>2, <1>3, <1>4, <1>5, <1>6, <1>7, Now, Nothing
  <2>2. /\ backed' \in 0 .. Never /\ written' \in 0 .. MaxWrites /\ marked' \in 0 .. MaxWrites
        /\ shards' \in 1 .. MaxShards /\ lost' \in BOOLEAN /\ faults' \in 0 .. MaxFaults
    BY <1>1, <1>2, <1>3, <1>4, <1>5, <1>6, <1>7, Now DEF TypeOK, PhoneSizes
  <2>3. open' => ~journal'
    BY <1>1, <1>2, <1>3, <1>4, <1>5, <1>6, <1>7 DEF TypeOK
  <2>4. Active' => (open' \/ job'.kind = "lock")
    BY <1>1, <1>2, <1>3, <1>4, <1>5, <1>6, <1>7, Nothing DEF TypeOK, Active
  <2>5. QED
    BY <2>1, <2>2, <2>3, <2>4, TypedAfter
<1>9. JobsShape'
  BY <1>1, <1>2, <1>3, <1>4, <1>5, <1>6, <1>7 DEF JobsShape
<1>10. PlacesAgree'
  BY <1>1, <1>2, <1>3, <1>4, <1>5, <1>6, <1>7, Now, Nothing DEF PlacesAgree, Moving, Preparing,
     Real
<1>11. ChangePrepared'
  BY <1>1, <1>2, <1>3, <1>4, <1>5, <1>6, <1>7, Now, Nothing DEF ChangePrepared, PlacesAgree,
     Moving, Preparing, Real
<1>12. Bounded'
  BY <1>1, <1>2, <1>3, <1>4, <1>5, <1>6, <1>7, Now, Nothing DEF Bounded, PlacesAgree, Moving,
     Preparing, Real
<1>13. InFlight'
  BY <1>1, <1>2, <1>3, <1>4, <1>5, <1>6, <1>7, Now, Nothing DEF InFlight, Active, Bounded,
     Preparing
<1>14. LateIsNoOlder'
  BY <1>1, <1>2, <1>3, <1>4, <1>5, <1>6, <1>7, Now, Nothing DEF LateIsNoOlder, Accepts, Preparing
<1>15. AtTheRelay'
  BY <1>1, <1>2, <1>3, <1>4, <1>5, <1>6, <1>7, Now, Nothing DEF AtTheRelay, Gone, Preparing
<1>16. CleanIsThere'
  BY <1>1, <1>2, <1>3, <1>4, <1>5, <1>6, <1>7, Now, Nothing DEF CleanIsThere, AtTheRelay
<1>17. OldIsClean'
  BY <1>1, <1>2, <1>3, <1>4, <1>5, <1>6, <1>7, Now, Nothing DEF OldIsClean
<1>18. QED
  BY <1>8, <1>9, <1>10, <1>11, <1>12, <1>13, <1>14, <1>15, <1>16, <1>17 DEF PhoneInv

LEMMA SaveSegmentKeeps ==
  ASSUME PhoneSizes, PhoneInv, SaveSegment
  PROVE  PhoneInv'
<1>1. TypeOK /\ JobsShape /\ PlacesAgree /\ ChangePrepared /\ Bounded /\ InFlight /\ LateIsNoOlder
      /\ AtTheRelay /\ CleanIsThere /\ OldIsClean
  BY DEF PhoneInv
<1>2. /\ Here = "none" /\ job = Idle /\ ~journal /\ Recovered = root /\ Real(root)
      /\ root.data = written /\ job.kind = "none" /\ job.mine = NoUpload /\ open
  BY <1>1, Working, NoSteps DEF SaveSegment, Ready
<1>3. /\ root' \in Dir /\ root'.password = root.password /\ root'.data = root.data
      /\ root'.shards = root.shards /\ root'.version = root.version /\ root'.file = TRUE
      /\ root'.cloud = FALSE /\ root'.dirty = root.dirty
  BY <1>1, <1>2, Now DEF SaveSegment, Dir
<1>4. /\ stage' = stage /\ old' = old /\ journal' = journal /\ row' = row /\ open' = open
      /\ timer' = timer /\ backed' = backed /\ up' = up /\ late' = late /\ job' = job
      /\ shards' = shards /\ written' = written /\ marked' = marked /\ lost' = lost
      /\ faults' = faults
  BY <1>1, <1>2, <1>3 DEF SaveSegment, disk, memory, net, history
<1>5. capsules' \subseteq 1 .. MaxShards
  <2>1. root.shards \in 1 .. MaxShards
    BY <1>2, Now, Numbers DEF Real, PhoneSizes
  <2>2. QED
    BY <2>1, Now DEF SaveSegment
<1>6. Here' = Here /\ Recovered' = root'
  BY <1>1, <1>2, <1>3, <1>4, <1>5, HereAfter, CountsAfter
<1>7. TypeOK'
  <2>1. /\ root' \in Dir /\ stage' \in Dir /\ old' \in Dir /\ journal' \in BOOLEAN
        /\ row' \in [Password -> Row] /\ capsules' \subseteq 1 .. MaxShards
        /\ open' \in BOOLEAN /\ timer' \in BOOLEAN /\ up' \in Prepared /\ late' \in Prepared
        /\ job' \in JobType
    BY <1>1, <1>2, <1>3, <1>4, <1>5, <1>6, Now, Nothing
  <2>2. /\ backed' \in 0 .. Never /\ written' \in 0 .. MaxWrites /\ marked' \in 0 .. MaxWrites
        /\ shards' \in 1 .. MaxShards /\ lost' \in BOOLEAN /\ faults' \in 0 .. MaxFaults
    BY <1>1, <1>2, <1>3, <1>4, <1>5, <1>6, Now DEF TypeOK, PhoneSizes
  <2>3. open' => ~journal'
    BY <1>1, <1>2, <1>3, <1>4, <1>5, <1>6 DEF TypeOK
  <2>4. Active' => (open' \/ job'.kind = "lock")
    BY <1>1, <1>2, <1>3, <1>4, <1>5, <1>6, Nothing DEF TypeOK, Active
  <2>5. QED
    BY <2>1, <2>2, <2>3, <2>4, TypedAfter
<1>8. JobsShape'
  BY <1>1, <1>2, <1>3, <1>4, <1>5, <1>6 DEF JobsShape
<1>9. PlacesAgree'
  BY <1>1, <1>2, <1>3, <1>4, <1>5, <1>6, Now, Nothing DEF PlacesAgree, Moving, Preparing, Real
<1>10. ChangePrepared'
  BY <1>1, <1>2, <1>3, <1>4, <1>5, <1>6, Now, Nothing DEF ChangePrepared, PlacesAgree, Moving,
     Preparing, Real
<1>11. Bounded'
  BY <1>1, <1>2, <1>3, <1>4, <1>5, <1>6, Now, Nothing DEF Bounded, PlacesAgree, Moving, Preparing,
     Real
<1>12. InFlight'
  BY <1>1, <1>2, <1>3, <1>4, <1>5, <1>6, Now, Nothing DEF InFlight, Active, Bounded, Preparing
<1>13. LateIsNoOlder'
  BY <1>1, <1>2, <1>3, <1>4, <1>5, <1>6, Now, Nothing DEF LateIsNoOlder, Accepts, Preparing
<1>14. AtTheRelay'
  BY <1>1, <1>2, <1>3, <1>4, <1>5, <1>6, Now, Nothing DEF AtTheRelay, Gone, Preparing
<1>15. CleanIsThere'
  BY <1>1, <1>2, <1>3, <1>4, <1>5, <1>6, Now, Nothing DEF CleanIsThere, AtTheRelay
<1>16. OldIsClean'
  BY <1>1, <1>2, <1>3, <1>4, <1>5, <1>6, Now, Nothing DEF OldIsClean
<1>17. QED
  BY <1>7, <1>8, <1>9, <1>10, <1>11, <1>12, <1>13, <1>14, <1>15, <1>16 DEF PhoneInv

LEMMA RunBackupKeeps ==
  ASSUME PhoneSizes, PhoneInv, RunBackup
  PROVE  PhoneInv'
<1>1. TypeOK /\ JobsShape /\ PlacesAgree /\ ChangePrepared /\ Bounded /\ InFlight /\ LateIsNoOlder
      /\ AtTheRelay /\ CleanIsThere /\ OldIsClean
  BY DEF PhoneInv
<1>2. /\ Here = "none" /\ job = Idle /\ ~journal /\ Recovered = root /\ Real(root)
      /\ root.data = written /\ job.kind = "none" /\ job.mine = NoUpload /\ open
  BY <1>1, Working, NoSteps DEF RunBackup, Ready
<1>3. /\ root' = root /\ stage' = stage /\ old' = old /\ journal' = journal /\ row' = row
      /\ capsules' = capsules /\ open' = open /\ backed' = backed /\ late' = late /\ job' = job
      /\ shards' = shards /\ written' = written /\ marked' = marked /\ lost' = lost
      /\ faults' = faults
  BY <1>1, <1>2 DEF RunBackup, disk, memory, net, history
<1>4. timer' = FALSE /\ up = NoUpload
  BY <1>1, <1>2, <1>3 DEF RunBackup
<1>5. Here' = Here /\ Recovered' = root
  BY <1>1, <1>2, <1>3, <1>4, HereAfter, CountsAfter
<1>6. up' = NoUpload \/ (up' \in Prepared /\ up'.password = root.password /\ up'.data = written
         /\ up'.shards = root.shards /\ up'.at = "waiting" /\ ~up'.stale)
  BY <1>1, <1>2, <1>3, <1>4, <1>5, Now, Snapshots DEF RunBackup
<1>7. TypeOK'
  <2>1. /\ root' \in Dir /\ stage' \in Dir /\ old' \in Dir /\ journal' \in BOOLEAN
        /\ row' \in [Password -> Row] /\ capsules' \subseteq 1 .. MaxShards
        /\ open' \in BOOLEAN /\ timer' \in BOOLEAN /\ up' \in Prepared /\ late' \in Prepared
        /\ job' \in JobType
    BY <1>1, <1>2, <1>3, <1>4, <1>5, <1>6, Now, Nothing
  <2>2. /\ backed' \in 0 .. Never /\ written' \in 0 .. MaxWrites /\ marked' \in 0 .. MaxWrites
        /\ shards' \in 1 .. MaxShards /\ lost' \in BOOLEAN /\ faults' \in 0 .. MaxFaults
    BY <1>1, <1>2, <1>3, <1>4, <1>5, <1>6, Now DEF TypeOK, PhoneSizes
  <2>3. open' => ~journal'
    BY <1>1, <1>2, <1>3, <1>4, <1>5, <1>6 DEF TypeOK
  <2>4. Active' => (open' \/ job'.kind = "lock")
    BY <1>1, <1>2, <1>3, <1>4, <1>5, <1>6, Nothing DEF TypeOK, Active
  <2>5. QED
    BY <2>1, <2>2, <2>3, <2>4, TypedAfter
<1>8. JobsShape'
  BY <1>1, <1>2, <1>3, <1>4, <1>5, <1>6 DEF JobsShape
<1>9. PlacesAgree'
  BY <1>1, <1>2, <1>3, <1>4, <1>5, <1>6, Now, Nothing DEF PlacesAgree, Moving, Preparing, Real
<1>10. ChangePrepared'
  BY <1>1, <1>2, <1>3, <1>4, <1>5, <1>6, Now, Nothing DEF ChangePrepared, PlacesAgree, Moving,
     Preparing, Real
<1>11. Bounded'
  BY <1>1, <1>2, <1>3, <1>4, <1>5, <1>6, Now, Nothing DEF Bounded, PlacesAgree, Moving, Preparing,
     Real
<1>12. InFlight'
  <2>1. (up.at = "none" => up = NoUpload)'
    BY <1>1, <1>2, <1>3, <1>4, <1>5, <1>6, Now, Nothing DEF InFlight, Active, Bounded, Preparing
  <2>2. (Active => /\ (job = Idle /\ open) \/ Here = "drain"
                   /\ up.password = root.password /\ up.shards = root.shards /\ up.data <= written
                   /\ ~up.stale => marked <= up.data)'
    BY <1>1, <1>2, <1>3, <1>4, <1>5, <1>6, Now, Nothing DEF InFlight, Active, Bounded, Preparing
  <2>3. (up.at \in {"waiting", "sent"} => late.data <= up.data /\ \A p \in Password : row[p].data <= up.data)'
    BY <1>1, <1>2, <1>3, <1>4, <1>5, <1>6, Now, Nothing DEF InFlight, Active, Bounded, Preparing
  <2>4. (up.at = "sent" /\ ~lost => up.version <= row[up.password].version + 1)'
    BY <1>1, <1>2, <1>3, <1>4, <1>5, <1>6, Now, Nothing DEF InFlight, Active, Bounded, Preparing
  <2>5. (up.at = "stored" /\ ~lost => up.version <= row[up.password].version /\ row[up.password].data >= up.data)'
    BY <1>1, <1>2, <1>3, <1>4, <1>5, <1>6, Now, Nothing DEF InFlight, Active, Bounded, Preparing
  <2>6. QED
    BY <2>1, <2>2, <2>3, <2>4, <2>5 DEF InFlight
<1>13. LateIsNoOlder'
  BY <1>1, <1>2, <1>3, <1>4, <1>5, <1>6, Now, Nothing DEF LateIsNoOlder, Accepts, Preparing
<1>14. AtTheRelay'
  BY <1>1, <1>2, <1>3, <1>4, <1>5, <1>6, Now, Nothing DEF AtTheRelay, Gone, Preparing
<1>15. CleanIsThere'
  BY <1>1, <1>2, <1>3, <1>4, <1>5, <1>6, Now, Nothing DEF CleanIsThere, AtTheRelay
<1>16. OldIsClean'
  BY <1>1, <1>2, <1>3, <1>4, <1>5, <1>6, Now, Nothing DEF OldIsClean
<1>17. QED
  BY <1>7, <1>8, <1>9, <1>10, <1>11, <1>12, <1>13, <1>14, <1>15, <1>16 DEF PhoneInv

LEMMA BeginUploadKeeps ==
  ASSUME PhoneSizes, PhoneInv, BeginUpload
  PROVE  PhoneInv'
<1>1. TypeOK /\ JobsShape /\ PlacesAgree /\ ChangePrepared /\ Bounded /\ InFlight /\ LateIsNoOlder
      /\ AtTheRelay /\ CleanIsThere /\ OldIsClean
  BY DEF PhoneInv
<1>2. up.at = "waiting" /\ root.version < MaxUploads /\ Active
  BY <1>1 DEF BeginUpload, Active
<1>3. /\ root' = root /\ stage' = stage /\ old' = old /\ journal' = journal /\ row' = row
      /\ capsules' = capsules /\ open' = open /\ timer' = timer /\ backed' = backed
      /\ late' = late /\ job' = job /\ shards' = shards /\ written' = written
      /\ marked' = marked /\ lost' = lost /\ faults' = faults
  BY <1>1, <1>2 DEF BeginUpload, disk, memory, net, history
<1>4. /\ up' \in Prepared /\ up'.password = up.password /\ up'.data = up.data
      /\ up'.shards = up.shards /\ up'.version = root.version + 1 /\ up'.at = "sent"
      /\ up'.stale = up.stale
  <2>1. up' = Numbered(up, root) /\ root \in Dir /\ up \in Prepared
    BY Now DEF BeginUpload
  <2>2. QED
    BY <1>2, <2>1, Fields
<1>5. Here' = Here /\ Recovered' = root /\ Recovered = root /\ ~journal /\ ~Gone
  BY <1>1, <1>2, <1>3, <1>4, HereAfter, CountsAfter, Working DEF disk
<1>6. up.password = root.password /\ (lost \/ root.version <= row[root.password].version)
  BY <1>1, <1>2, <1>3, <1>4, <1>5, Now DEF InFlight, AtTheRelay
<1>7. TypeOK'
  <2>1. /\ root' \in Dir /\ stage' \in Dir /\ old' \in Dir /\ journal' \in BOOLEAN
        /\ row' \in [Password -> Row] /\ capsules' \subseteq 1 .. MaxShards
        /\ open' \in BOOLEAN /\ timer' \in BOOLEAN /\ up' \in Prepared /\ late' \in Prepared
        /\ job' \in JobType
    BY <1>1, <1>2, <1>3, <1>4, <1>5, <1>6, Now, Nothing
  <2>2. /\ backed' \in 0 .. Never /\ written' \in 0 .. MaxWrites /\ marked' \in 0 .. MaxWrites
        /\ shards' \in 1 .. MaxShards /\ lost' \in BOOLEAN /\ faults' \in 0 .. MaxFaults
    BY <1>1, <1>2, <1>3, <1>4, <1>5, <1>6, Now DEF TypeOK, PhoneSizes
  <2>3. open' => ~journal'
    BY <1>1, <1>2, <1>3, <1>4, <1>5, <1>6 DEF TypeOK
  <2>4. Active' => (open' \/ job'.kind = "lock")
    BY <1>1, <1>2, <1>3, <1>4, <1>5, <1>6, Nothing DEF TypeOK, Active
  <2>5. QED
    BY <2>1, <2>2, <2>3, <2>4, TypedAfter
<1>8. JobsShape'
  BY <1>1, <1>2, <1>3, <1>4, <1>5, <1>6 DEF JobsShape
<1>9. PlacesAgree'
  BY <1>1, <1>2, <1>3, <1>4, <1>5, <1>6, Now, Nothing DEF PlacesAgree, Moving, Preparing, Real
<1>10. ChangePrepared'
  BY <1>1, <1>2, <1>3, <1>4, <1>5, <1>6, Now, Nothing DEF ChangePrepared, PlacesAgree, Moving,
     Preparing, Real
<1>11. Bounded'
  BY <1>1, <1>2, <1>3, <1>4, <1>5, <1>6, Now, Nothing DEF Bounded, PlacesAgree, Moving, Preparing,
     Real
<1>12. InFlight'
  <2>1. (up.at = "none" => up = NoUpload)'
    BY <1>1, <1>2, <1>3, <1>4, <1>5, <1>6, Now, Nothing DEF InFlight, Active, Bounded, Preparing,
       AtTheRelay
  <2>2. (Active => /\ (job = Idle /\ open) \/ Here = "drain"
                   /\ up.password = root.password /\ up.shards = root.shards /\ up.data <= written
                   /\ ~up.stale => marked <= up.data)'
    BY <1>1, <1>2, <1>3, <1>4, <1>5, <1>6, Now, Nothing DEF InFlight, Active, Bounded, Preparing,
       AtTheRelay
  <2>3. (up.at \in {"waiting", "sent"} => late.data <= up.data /\ \A p \in Password : row[p].data <= up.data)'
    BY <1>1, <1>2, <1>3, <1>4, <1>5, <1>6, Now, Nothing DEF InFlight, Active, Bounded, Preparing,
       AtTheRelay
  <2>4. (up.at = "sent" /\ ~lost => up.version <= row[up.password].version + 1)'
    BY <1>1, <1>2, <1>3, <1>4, <1>5, <1>6, Now, Nothing, SMTT(30) DEF InFlight, Active, Bounded, Preparing,
       AtTheRelay
  <2>5. (up.at = "stored" /\ ~lost => up.version <= row[up.password].version /\ row[up.password].data >= up.data)'
    BY <1>1, <1>2, <1>3, <1>4, <1>5, <1>6, Now, Nothing DEF InFlight, Active, Bounded, Preparing,
       AtTheRelay
  <2>6. QED
    BY <2>1, <2>2, <2>3, <2>4, <2>5 DEF InFlight
<1>13. LateIsNoOlder'
  BY <1>1, <1>2, <1>3, <1>4, <1>5, <1>6, Now, Nothing DEF LateIsNoOlder, Accepts, Preparing
<1>14. AtTheRelay'
  BY <1>1, <1>2, <1>3, <1>4, <1>5, <1>6, Now, Nothing DEF AtTheRelay, Gone, Preparing
<1>15. CleanIsThere'
  BY <1>1, <1>2, <1>3, <1>4, <1>5, <1>6, Now, Nothing DEF CleanIsThere, AtTheRelay
<1>16. OldIsClean'
  BY <1>1, <1>2, <1>3, <1>4, <1>5, <1>6, Now, Nothing DEF OldIsClean
<1>17. QED
  BY <1>7, <1>8, <1>9, <1>10, <1>11, <1>12, <1>13, <1>14, <1>15, <1>16 DEF PhoneInv

LEMMA ServeUploadKeeps ==
  ASSUME PhoneSizes, PhoneInv, ServeUpload
  PROVE  PhoneInv'
<1>1. TypeOK /\ JobsShape /\ PlacesAgree /\ ChangePrepared /\ Bounded /\ InFlight /\ LateIsNoOlder
      /\ AtTheRelay /\ CleanIsThere /\ OldIsClean
  BY DEF PhoneInv
<1>2. up.at = "sent" /\ Active
  BY <1>1 DEF ServeUpload, Active
<1>3. /\ root' = root /\ stage' = stage /\ old' = old /\ journal' = journal
      /\ capsules' = capsules /\ open' = open /\ timer' = timer /\ backed' = backed
      /\ late' = late /\ job' = job /\ shards' = shards /\ written' = written
      /\ marked' = marked /\ lost' = lost /\ faults' = faults
  BY <1>1, <1>2 DEF ServeUpload, disk, memory, net, history
<1>4. row' \in [Password -> Row]
  BY <1>1, <1>2, <1>3, Now, Stores DEF ServeUpload
<1>5. (row' = row /\ ~Accepts(up)) \/ (Accepts(up) /\ row'[up.password].version = up.version
         /\ row'[up.password].data = up.data /\ row'[up.password].shards = up.shards /\ up.version = row[up.password].version + 1
         /\ \A p \in Password : p # up.password => row'[p] = row[p])
  BY <1>1, <1>2, <1>3, <1>4, Now, Stores DEF ServeUpload, Accepts
<1>6. /\ up' \in Prepared /\ up'.password = up.password /\ up'.data = up.data
      /\ up'.shards = up.shards /\ up'.version = up.version
      /\ up'.at = (IF Accepts(up) THEN "stored" ELSE "failed") /\ up'.stale = up.stale
  <2>1. up' = [up EXCEPT !.at = IF Accepts(up) THEN "stored" ELSE "failed"] /\ up \in Prepared
        /\ (IF Accepts(up) THEN "stored" ELSE "failed") \in {"stored", "failed"}
    BY Now DEF ServeUpload
  <2>2. QED
    BY <2>1, Fields, ZenonT(60)
<1>7. /\ Here' = Here /\ Recovered' = root /\ Recovered = root /\ Real(root)
      /\ root.data = written /\ ~journal /\ ~Gone /\ Here \in {"none", "drain"}
  BY <1>1, <1>2, <1>3, <1>4, <1>5, <1>6, HereAfter, CountsAfter, Working DEF disk
<1>8. \A p \in Password : row'[p].data \in Nat /\ row'[p].version \in Nat
  BY <1>1, <1>2, <1>3, <1>4, <1>5, <1>6, <1>7, Numbers
<1>9. /\ root.password \in Password /\ up.password = root.password /\ up.shards = root.shards
      /\ up.data <= written /\ (lost \/ root.version <= row[root.password].version)
  BY <1>1, <1>2, <1>3, <1>4, <1>5, <1>6, <1>7, <1>8, Now DEF InFlight, AtTheRelay
<1>10. /\ \A p \in Password : row[p].data <= row'[p].data /\ row[p].version <= row'[p].version /\ row'[p].data <= written
  BY <1>1, <1>2, <1>3, <1>4, <1>5, <1>6, <1>7, <1>8, <1>9, Now DEF InFlight, Bounded
<1>11. lost \/ ~root.cloud \/ root.dirty \/ (row[root.password].data >= marked /\ (open /\ backed = root.data
         => row[root.password].data = root.data))
  BY <1>1, <1>2, <1>3, <1>4, <1>5, <1>6, <1>7, <1>8, <1>9, <1>10 DEF CleanIsThere, AtTheRelay
<1>12. TypeOK'
  <2>1. /\ root' \in Dir /\ stage' \in Dir /\ old' \in Dir /\ journal' \in BOOLEAN
        /\ row' \in [Password -> Row] /\ capsules' \subseteq 1 .. MaxShards
        /\ open' \in BOOLEAN /\ timer' \in BOOLEAN /\ up' \in Prepared /\ late' \in Prepared
        /\ job' \in JobType
    BY <1>1, <1>2, <1>3, <1>4, <1>5, <1>6, <1>7, <1>8, <1>9, <1>10, <1>11, Now, Nothing
  <2>2. /\ backed' \in 0 .. Never /\ written' \in 0 .. MaxWrites /\ marked' \in 0 .. MaxWrites
        /\ shards' \in 1 .. MaxShards /\ lost' \in BOOLEAN /\ faults' \in 0 .. MaxFaults
    BY <1>1, <1>2, <1>3, <1>4, <1>5, <1>6, <1>7, <1>8, <1>9, <1>10, <1>11, Now DEF TypeOK,
       PhoneSizes
  <2>3. open' => ~journal'
    BY <1>1, <1>2, <1>3, <1>4, <1>5, <1>6, <1>7, <1>8, <1>9, <1>10, <1>11 DEF TypeOK
  <2>4. Active' => (open' \/ job'.kind = "lock")
    BY <1>1, <1>2, <1>3, <1>4, <1>5, <1>6, <1>7, <1>8, <1>9, <1>10, <1>11, Nothing DEF TypeOK,
       Active
  <2>5. QED
    BY <2>1, <2>2, <2>3, <2>4, TypedAfter
<1>13. JobsShape'
  BY <1>1, <1>2, <1>3, <1>4, <1>5, <1>6, <1>7, <1>8, <1>9, <1>10, <1>11 DEF JobsShape
<1>14. PlacesAgree'
  BY <1>1, <1>2, <1>3, <1>4, <1>5, <1>6, <1>7, <1>8, <1>9, <1>10, <1>11, Now, Nothing DEF
     PlacesAgree, Moving, Preparing, Real
<1>15. ChangePrepared'
  BY <1>1, <1>2, <1>3, <1>4, <1>5, <1>6, <1>7, <1>8, <1>9, <1>10, <1>11, Now, Nothing DEF
     ChangePrepared, PlacesAgree, Moving, Preparing, Real
<1>16. Bounded'
  BY <1>1, <1>2, <1>3, <1>4, <1>5, <1>6, <1>7, <1>8, <1>9, <1>10, <1>11, Now, Nothing DEF Bounded,
     PlacesAgree, Moving, Preparing, Real
<1>17. InFlight'
  <2>1. (up.at = "none" => up = NoUpload)'
    BY <1>1, <1>2, <1>3, <1>4, <1>5, <1>6, <1>7, <1>8, <1>9, <1>10, <1>11, Now, Nothing DEF
       InFlight, Active, Bounded, Preparing
  <2>2. (Active => /\ (job = Idle /\ open) \/ Here = "drain"
                   /\ up.password = root.password /\ up.shards = root.shards /\ up.data <= written
                   /\ ~up.stale => marked <= up.data)'
    BY <1>1, <1>2, <1>3, <1>4, <1>5, <1>6, <1>7, <1>8, <1>9, <1>10, <1>11, Now, Nothing DEF
       InFlight, Active, Bounded, Preparing
  <2>3. (up.at \in {"waiting", "sent"} => late.data <= up.data /\ \A p \in Password : row[p].data <= up.data)'
    BY <1>1, <1>2, <1>3, <1>4, <1>5, <1>6, <1>7, <1>8, <1>9, <1>10, <1>11, Now, Nothing DEF
       InFlight, Active, Bounded, Preparing
  <2>4. (up.at = "sent" /\ ~lost => up.version <= row[up.password].version + 1)'
    BY <1>1, <1>2, <1>3, <1>4, <1>5, <1>6, <1>7, <1>8, <1>9, <1>10, <1>11, Now, Nothing DEF
       InFlight, Active, Bounded, Preparing
  <2>5. (up.at = "stored" /\ ~lost => up.version <= row[up.password].version /\ row[up.password].data >= up.data)'
    BY <1>1, <1>2, <1>3, <1>4, <1>5, <1>6, <1>7, <1>8, <1>9, <1>10, <1>11, Now, Nothing DEF
       InFlight, Active, Bounded, Preparing
  <2>6. QED
    BY <2>1, <2>2, <2>3, <2>4, <2>5 DEF InFlight
<1>18. LateIsNoOlder'
  <2> SUFFICES ASSUME late # NoUpload, ~late.stale, ~lost
               PROVE  /\ late.version <= row'[late.password].version + 1
                      /\ late.version = row'[late.password].version + 1 => row'[late.password].data <= late.data
                      /\ ~root.file => late.password = root.password /\ late.shards = root.shards
    BY <1>3, <1>7 DEF LateIsNoOlder, Accepts
  <2>1. /\ late.version <= row[late.password].version + 1
        /\ late.version = row[late.password].version + 1 => row[late.password].data <= late.data
        /\ ~root.file => late.password = root.password /\ late.shards = root.shards
    BY <1>1, <1>7 DEF LateIsNoOlder, Accepts
  <2>2. row' = row \/ (/\ row'[up.password].version = row[up.password].version + 1
                       /\ \A p \in Password : p # up.password => row'[p] = row[p])
    BY <1>5
  <2>3. CASE late.password = up.password
    BY <2>1, <2>2, <2>3, Now
  <2>4. CASE late.password # up.password
    BY <2>1, <2>2, <2>4, Now
  <2>5. QED
    BY <2>3, <2>4
<1>19. AtTheRelay'
  <2>1. ~lost => root.version <= row'[root.password].version
    BY <1>8, <1>9, <1>10, Now
  <2>2. ~lost /\ ~root.file => row[root.password].shards = root.shards
    BY <1>1, <1>7 DEF AtTheRelay
  <2>3. ~lost /\ ~root.file => row'[root.password].shards = root.shards
    BY <1>5, <1>9, <2>2
  <2>4. QED
    BY <1>3, <1>7, <2>1, <2>3 DEF AtTheRelay
<1>20. CleanIsThere'
  <2>1. ~lost /\ root.cloud /\ ~root.dirty =>
          /\ row'[root.password].data >= marked
          /\ open /\ backed = root.data => row'[root.password].data = root.data
    BY <1>7, <1>8, <1>9, <1>10, <1>11, Now
  <2>2. QED
    BY <1>3, <1>7, <2>1 DEF CleanIsThere
<1>21. OldIsClean'
  BY <1>1, <1>2, <1>3, <1>4, <1>5, <1>6, <1>7, <1>8, <1>9, <1>10, <1>11, Now, Nothing DEF
     OldIsClean
<1>22. QED
  BY <1>12, <1>13, <1>14, <1>15, <1>16, <1>17, <1>18, <1>19, <1>20, <1>21 DEF PhoneInv

LEMMA ServeLateKeeps ==
  ASSUME PhoneSizes, PhoneInv, ServeLate
  PROVE  PhoneInv'
<1>1. TypeOK /\ JobsShape /\ PlacesAgree /\ ChangePrepared /\ Bounded /\ InFlight /\ LateIsNoOlder
      /\ AtTheRelay /\ CleanIsThere /\ OldIsClean
  BY DEF PhoneInv
<1>2. late # NoUpload /\ late' = NoUpload
  BY <1>1 DEF ServeLate
<1>3. /\ root' = root /\ stage' = stage /\ old' = old /\ journal' = journal
      /\ capsules' = capsules /\ open' = open /\ timer' = timer /\ backed' = backed /\ up' = up
      /\ job' = job /\ shards' = shards /\ written' = written /\ marked' = marked
      /\ faults' = faults
  BY <1>1, <1>2 DEF ServeLate, disk, memory, net, history
<1>4. row' \in [Password -> Row]
  BY <1>1, <1>2, <1>3, Now, Stores DEF ServeLate
<1>5. (row' = row /\ ~Accepts(late)) \/ (Accepts(late) /\ row'[late.password].version = late.version
         /\ row'[late.password].data = late.data /\ row'[late.password].shards = late.shards /\ late.version = row[late.password].version + 1
         /\ \A p \in Password : p # late.password => row'[p] = row[p])
  BY <1>1, <1>2, <1>3, <1>4, Now, Stores DEF ServeLate, Accepts
<1>6. lost' = (lost \/ (late.stale /\ Accepts(late))) /\ lost' \in BOOLEAN
  BY <1>1, <1>2, <1>3, <1>4, <1>5, Now DEF ServeLate, Accepts
<1>7. Here' = Here /\ Recovered' = Recovered
  BY <1>1, <1>2, <1>3, <1>4, <1>5, <1>6, HereAfter, CountsAfter DEF disk
<1>8. \A p \in Password : row'[p].data \in Nat /\ row'[p].version \in Nat
  BY <1>1, <1>2, <1>3, <1>4, <1>5, <1>6, <1>7, Numbers
<1>9. lost' \/ \A p \in Password : row[p].data <= row'[p].data /\ row[p].version <= row'[p].version
  BY <1>1, <1>2, <1>3, <1>4, <1>5, <1>6, <1>7, <1>8, Now DEF LateIsNoOlder
<1>10. \A p \in Password : row'[p].data <= written
  BY <1>1, <1>2, <1>3, <1>4, <1>5, <1>6, <1>7, <1>8, <1>9, Now DEF Bounded
<1>11. up.at \in {"waiting", "sent"} => late.data <= up.data /\ \A p \in Password : row'[p].data <= up.data
  BY <1>1, <1>2, <1>3, <1>4, <1>5, <1>6, <1>7, <1>8, <1>9, <1>10, Now DEF InFlight
<1>12. TypeOK'
  <2>1. /\ root' \in Dir /\ stage' \in Dir /\ old' \in Dir /\ journal' \in BOOLEAN
        /\ row' \in [Password -> Row] /\ capsules' \subseteq 1 .. MaxShards
        /\ open' \in BOOLEAN /\ timer' \in BOOLEAN /\ up' \in Prepared /\ late' \in Prepared
        /\ job' \in JobType
    BY <1>1, <1>2, <1>3, <1>4, <1>5, <1>6, <1>7, <1>8, <1>9, <1>10, <1>11, Now, Nothing
  <2>2. /\ backed' \in 0 .. Never /\ written' \in 0 .. MaxWrites /\ marked' \in 0 .. MaxWrites
        /\ shards' \in 1 .. MaxShards /\ lost' \in BOOLEAN /\ faults' \in 0 .. MaxFaults
    BY <1>1, <1>2, <1>3, <1>4, <1>5, <1>6, <1>7, <1>8, <1>9, <1>10, <1>11, Now DEF TypeOK,
       PhoneSizes
  <2>3. open' => ~journal'
    BY <1>1, <1>2, <1>3, <1>4, <1>5, <1>6, <1>7, <1>8, <1>9, <1>10, <1>11 DEF TypeOK
  <2>4. Active' => (open' \/ job'.kind = "lock")
    BY <1>1, <1>2, <1>3, <1>4, <1>5, <1>6, <1>7, <1>8, <1>9, <1>10, <1>11, Nothing DEF TypeOK,
       Active
  <2>5. QED
    BY <2>1, <2>2, <2>3, <2>4, TypedAfter
<1>13. JobsShape'
  BY <1>1, <1>2, <1>3, <1>4, <1>5, <1>6, <1>7, <1>8, <1>9, <1>10, <1>11 DEF JobsShape
<1>14. PlacesAgree'
  BY <1>1, <1>2, <1>3, <1>4, <1>5, <1>6, <1>7, <1>8, <1>9, <1>10, <1>11, Now, Nothing DEF
     PlacesAgree, Moving, Preparing, Real
<1>15. ChangePrepared'
  <2>1. (job.kind \in {"file", "relay"} /\ Here \in Preparing => job.next # root.password)'
    BY <1>1, <1>2, <1>3, <1>4, <1>5, <1>6, <1>7, <1>8, <1>9, <1>10, <1>11, Now, Nothing DEF
       ChangePrepared, PlacesAgree, Moving, Preparing, Real, LateIsNoOlder
  <2>2. (job.kind = "relay" /\ Here \in Preparing => ~root.file)'
    BY <1>1, <1>2, <1>3, <1>4, <1>5, <1>6, <1>7, <1>8, <1>9, <1>10, <1>11, Now, Nothing DEF
       ChangePrepared, PlacesAgree, Moving, Preparing, Real, LateIsNoOlder
  <2>3. (job.kind = "file" /\ Here \in Preparing => root.file \/ ~root.cloud)'
    BY <1>1, <1>2, <1>3, <1>4, <1>5, <1>6, <1>7, <1>8, <1>9, <1>10, <1>11, Now, Nothing DEF
       ChangePrepared, PlacesAgree, Moving, Preparing, Real, LateIsNoOlder
  <2>4. (Here \in {"put", "delete", "undo", "journal"} =>
           /\ Real(stage) /\ stage.password = job.next /\ stage.data = written
           /\ job.kind = "file" => stage.file /\ ~stage.cloud /\ stage.version = 0
           /\ job.kind = "relay" => ~stage.file
           /\ Here = "put" => stage.version = 0)'
    BY <1>1, <1>2, <1>3, <1>4, <1>5, <1>6, <1>7, <1>8, <1>9, <1>10, <1>11, Now, Nothing DEF
       ChangePrepared, PlacesAgree, Moving, Preparing, Real, LateIsNoOlder
  <2>5. (job.kind \in {"file", "relay"} /\ Here \in Moving \union {"open"} => (Recovered.file => ~Recovered.cloud))'
    BY <1>1, <1>2, <1>3, <1>4, <1>5, <1>6, <1>7, <1>8, <1>9, <1>10, <1>11, Now, Nothing DEF
       ChangePrepared, PlacesAgree, Moving, Preparing, Real, LateIsNoOlder
  <2>6. (job.kind = "relay" /\ Here \in {"delete", "undo", "journal"} /\ ~lost =>
           /\ row[stage.password].shards = stage.shards /\ row[stage.password].data = written
           /\ row[stage.password].version > 0 /\ stage.version <= row[stage.password].version)'
    <3> SUFFICES ASSUME job.kind = "relay", Here \in {"delete", "undo", "journal"}, ~lost'
                 PROVE  /\ row'[stage.password].shards = stage.shards /\ row'[stage.password].data = written
                        /\ row'[stage.password].version > 0 /\ stage.version <= row'[stage.password].version
      BY <1>3, <1>7
    <3>1. /\ stage.password = job.next /\ job.next # root.password /\ ~root.file /\ Recovered = root
          /\ stage.password \in Password
      BY <1>1, Working, Now DEF ChangePrepared, Preparing
    <3>2. ~lost /\ ~(late.stale /\ Accepts(late))
      BY <1>6
    <3>3. row' = row \/ late.password # stage.password
      BY <1>1, <1>2, <1>5, <3>1, <3>2 DEF LateIsNoOlder
    <3>4. row'[stage.password] = row[stage.password]
      BY <1>5, <3>1, <3>3
    <3>5. QED
      BY <1>1, <3>2, <3>4 DEF ChangePrepared
  <2>7. (job.kind = "relay" /\ Here = "journal" /\ ~lost =>
           (late = NoUpload \/ late.stale) /\ row[root.password] = NoRow)'
    BY <1>1, <1>2, <1>3, <1>4, <1>5, <1>6, <1>7, <1>8, <1>9, <1>10, <1>11, Now, Nothing DEF
       ChangePrepared, PlacesAgree, Moving, Preparing, Real, LateIsNoOlder
  <2>8. QED
    BY <2>1, <2>2, <2>3, <2>4, <2>5, <2>6, <2>7 DEF ChangePrepared
<1>16. Bounded'
  <2>1. late'.data = 0
    BY <1>2, Nothing
  <2>2. QED
    BY <1>1, <1>3, <1>10, <2>1, Now DEF Bounded
<1>17. InFlight'
  <2>1. late'.data = 0
    BY <1>2, Nothing
  <2>2. /\ up'.at = "none" => up' = NoUpload
        /\ Active' => /\ (job' = Idle /\ open') \/ Here' = "drain"
                      /\ up'.password = root'.password /\ up'.shards = root'.shards /\ up'.data <= written'
                      /\ ~up'.stale => marked' <= up'.data
    BY <1>1, <1>3, <1>7 DEF InFlight, Active
  <2>3. up'.at \in {"waiting", "sent"} => late'.data <= up'.data /\ \A p \in Password : row'[p].data <= up'.data
    BY <1>3, <1>11, <2>1, Now
  <2>4. ~lost' => ~lost /\ row[up.password].version <= row'[up.password].version
                  /\ row[up.password].data <= row'[up.password].data
    BY <1>6, <1>9, Now
  <2>5. row'[up.password].version \in Nat /\ row'[up.password].data \in Nat
    BY <1>8, Now
  <2>6. up'.at = "sent" /\ ~lost' => up'.version <= row'[up'.password].version + 1
    BY <1>1, <1>3, <2>4, <2>5, Now DEF InFlight
  <2>7. up'.at = "stored" /\ ~lost' => up'.version <= row'[up'.password].version /\ row'[up'.password].data >= up'.data
    BY <1>1, <1>3, <2>4, <2>5, Now DEF InFlight
  <2>8. QED
    BY <2>2, <2>3, <2>6, <2>7 DEF InFlight, Active
<1>18. LateIsNoOlder'
  BY <1>1, <1>2, <1>3, <1>4, <1>5, <1>6, <1>7, <1>8, <1>9, <1>10, <1>11, Now, Nothing DEF
     LateIsNoOlder, Accepts, Preparing
<1>19. AtTheRelay'
  <2> SUFFICES ASSUME ~lost', ~Gone'
               PROVE  /\ Recovered'.version <= row'[Recovered'.password].version
                      /\ ~Recovered'.file => row'[Recovered'.password].shards = Recovered'.shards
    BY DEF AtTheRelay
  <2>1. Recovered.password \in Password /\ Recovered.version \in Nat
    BY Working, Numbers
  <2>2. ~lost /\ ~(late.stale /\ Accepts(late))
    BY <1>6
  <2>3. ~Gone
    <3>1. SUFFICES ASSUME Gone PROVE FALSE
      OBVIOUS
    <3>2. late.stale /\ row' = row
      BY <1>2, <1>5, <2>2, <3>1 DEF Gone
    <3>3. QED
      BY <1>2, <1>3, <1>7, <3>1, <3>2 DEF Gone
  <2>4. /\ Recovered.version <= row[Recovered.password].version
        /\ ~Recovered.file => row[Recovered.password].shards = Recovered.shards
    BY <1>1, <2>2, <2>3 DEF AtTheRelay
  <2>5. Recovered.version <= row'[Recovered.password].version
    BY <1>8, <1>9, <2>1, <2>4, Now
  <2>6. ~Recovered.file => row'[Recovered.password].shards = Recovered.shards
    BY <1>1, <1>2, <1>5, <2>1, <2>2, <2>4 DEF LateIsNoOlder
  <2>7. QED
    BY <1>7, <2>5, <2>6
<1>20. CleanIsThere'
  <2> SUFFICES ASSUME ~lost', Recovered'.cloud, ~Recovered'.dirty,
                      Recovered'.file \/ row'[Recovered'.password].shards = Recovered'.shards
               PROVE  /\ row'[Recovered'.password].data >= marked'
                      /\ open' /\ backed' = Recovered'.data => row'[Recovered'.password].data = Recovered'.data
    BY DEF CleanIsThere
  <2>1. Recovered.password \in Password /\ Recovered.data = written
    BY Working, Numbers
  <2>2. ~lost /\ ~(late.stale /\ Accepts(late))
    BY <1>6
  <2>3. Recovered.file \/ row[Recovered.password].shards = Recovered.shards
    BY <1>1, <1>2, <1>5, <1>7, <2>1, <2>2 DEF LateIsNoOlder, CleanIsThere, AtTheRelay, Gone
  <2>4. /\ row[Recovered.password].data >= marked
        /\ open /\ backed = Recovered.data => row[Recovered.password].data = Recovered.data
    BY <1>1, <1>7, <2>2, <2>3 DEF CleanIsThere
  <2>5. /\ row'[Recovered.password].data >= marked
        /\ open /\ backed = Recovered.data => row'[Recovered.password].data = Recovered.data
    BY <1>8, <1>9, <1>10, <2>1, <2>4, Now
  <2>6. QED
    BY <1>3, <1>7, <2>5
<1>21. OldIsClean'
  <2> SUFFICES ASSUME journal, stage # NoDir, root.cloud, ~lost'
               PROVE  /\ root.password # stage.password
                      /\ stage.file => root.file /\ (~root.dirty => row'[root.password].data >= marked)
                      /\ ~stage.file => ~root.file /\ row'[root.password] = NoRow
    BY <1>3 DEF OldIsClean
  <2>1. ~lost /\ ~(late.stale /\ Accepts(late)) /\ Recovered = stage
    BY <1>6, Counts
  <2>2. /\ root.password # stage.password /\ root.password \in Password
        /\ stage.file => root.file /\ (~root.dirty => row[root.password].data >= marked)
        /\ ~stage.file => ~root.file /\ row[root.password] = NoRow
    BY <1>1, <2>1, Now DEF OldIsClean
  <2>3. row[root.password].data <= row'[root.password].data
    BY <1>9, <2>2
  <2>4. ~stage.file => row'[root.password] = row[root.password]
    BY <1>1, <1>2, <1>5, <2>1, <2>2 DEF LateIsNoOlder
  <2>5. QED
    BY <1>8, <2>2, <2>3, <2>4, Now
<1>22. QED
  BY <1>12, <1>13, <1>14, <1>15, <1>16, <1>17, <1>18, <1>19, <1>20, <1>21 DEF PhoneInv

LEMMA LoseUploadKeeps ==
  ASSUME PhoneSizes, PhoneInv, LoseUpload
  PROVE  PhoneInv'
<1>1. TypeOK /\ JobsShape /\ PlacesAgree /\ ChangePrepared /\ Bounded /\ InFlight /\ LateIsNoOlder
      /\ AtTheRelay /\ CleanIsThere /\ OldIsClean
  BY DEF PhoneInv
<1>2. up.at \in {"sent", "stored"} /\ Active
  BY <1>1 DEF LoseUpload, Active
<1>3. /\ root' = root /\ stage' = stage /\ old' = old /\ journal' = journal /\ row' = row
      /\ capsules' = capsules /\ open' = open /\ timer' = timer /\ backed' = backed
      /\ job' = job /\ shards' = shards /\ written' = written /\ marked' = marked
      /\ lost' = lost
  BY <1>1, <1>2 DEF LoseUpload, disk, memory, net, history
<1>4. faults' \in 0 .. MaxFaults
  BY <1>1, <1>2, <1>3, Faults DEF LoseUpload
<1>5. up' \in Prepared /\ up'.at = "failed" 
  BY <1>1, <1>2, <1>3, <1>4, Now, Fields DEF LoseUpload
<1>6. late' = late \/ (up.at = "sent" /\ late' \in Prepared /\ late'.password = up.password /\ late'.data = up.data
         /\ late'.shards = up.shards /\ late'.version = up.version)
  BY <1>1, <1>2, <1>3, <1>4, <1>5, Now, Fields DEF LoseUpload
<1>7. /\ Here' = Here /\ Recovered' = root /\ Recovered = root /\ Real(root)
      /\ root.data = written /\ ~journal /\ ~Gone /\ Here \in {"none", "drain"}
  BY <1>1, <1>2, <1>3, <1>4, <1>5, <1>6, HereAfter, CountsAfter, Working DEF disk
<1>8. TypeOK'
  <2>1. /\ root' \in Dir /\ stage' \in Dir /\ old' \in Dir /\ journal' \in BOOLEAN
        /\ row' \in [Password -> Row] /\ capsules' \subseteq 1 .. MaxShards
        /\ open' \in BOOLEAN /\ timer' \in BOOLEAN /\ up' \in Prepared /\ late' \in Prepared
        /\ job' \in JobType
    BY <1>1, <1>2, <1>3, <1>4, <1>5, <1>6, <1>7, Now, Nothing
  <2>2. /\ backed' \in 0 .. Never /\ written' \in 0 .. MaxWrites /\ marked' \in 0 .. MaxWrites
        /\ shards' \in 1 .. MaxShards /\ lost' \in BOOLEAN /\ faults' \in 0 .. MaxFaults
    BY <1>1, <1>2, <1>3, <1>4, <1>5, <1>6, <1>7, Now DEF TypeOK, PhoneSizes
  <2>3. open' => ~journal'
    BY <1>1, <1>2, <1>3, <1>4, <1>5, <1>6, <1>7 DEF TypeOK
  <2>4. Active' => (open' \/ job'.kind = "lock")
    BY <1>1, <1>2, <1>3, <1>4, <1>5, <1>6, <1>7, Nothing DEF TypeOK, Active
  <2>5. QED
    BY <2>1, <2>2, <2>3, <2>4, TypedAfter
<1>9. JobsShape'
  BY <1>1, <1>2, <1>3, <1>4, <1>5, <1>6, <1>7 DEF JobsShape
<1>10. PlacesAgree'
  BY <1>1, <1>2, <1>3, <1>4, <1>5, <1>6, <1>7, Now, Nothing DEF PlacesAgree, Moving, Preparing,
     Real
<1>11. ChangePrepared'
  BY <1>1, <1>2, <1>3, <1>4, <1>5, <1>6, <1>7, Now, Nothing DEF ChangePrepared, PlacesAgree,
     Moving, Preparing, Real
<1>12. Bounded'
  BY <1>1, <1>2, <1>3, <1>4, <1>5, <1>6, <1>7, Now, Nothing DEF Bounded, PlacesAgree, Moving,
     Preparing, Real, InFlight
<1>13. InFlight'
  BY <1>1, <1>2, <1>3, <1>4, <1>5, <1>6, <1>7, Now, Nothing DEF InFlight, Active, Bounded,
     Preparing
<1>14. LateIsNoOlder'
  BY <1>1, <1>2, <1>3, <1>4, <1>5, <1>6, <1>7, Now, Nothing DEF LateIsNoOlder, Accepts, Preparing,
     InFlight
<1>15. AtTheRelay'
  BY <1>1, <1>2, <1>3, <1>4, <1>5, <1>6, <1>7, Now, Nothing DEF AtTheRelay, Gone, Preparing
<1>16. CleanIsThere'
  BY <1>1, <1>2, <1>3, <1>4, <1>5, <1>6, <1>7, Now, Nothing DEF CleanIsThere, AtTheRelay
<1>17. OldIsClean'
  BY <1>1, <1>2, <1>3, <1>4, <1>5, <1>6, <1>7, Now, Nothing DEF OldIsClean
<1>18. QED
  BY <1>8, <1>9, <1>10, <1>11, <1>12, <1>13, <1>14, <1>15, <1>16, <1>17 DEF PhoneInv

LEMMA EndUploadKeeps ==
  ASSUME PhoneSizes, PhoneInv, EndUpload
  PROVE  PhoneInv'
<1>1. TypeOK /\ JobsShape /\ PlacesAgree /\ ChangePrepared /\ Bounded /\ InFlight /\ LateIsNoOlder
      /\ AtTheRelay /\ CleanIsThere /\ OldIsClean
  BY DEF PhoneInv
<1>2. up.at = "stored" /\ Active /\ up' = NoUpload
  BY <1>1 DEF EndUpload, Active
<1>3. /\ stage' = stage /\ old' = old /\ journal' = journal /\ row' = row
      /\ capsules' = capsules /\ open' = open /\ timer' = timer /\ late' = late /\ job' = job
      /\ shards' = shards /\ written' = written /\ marked' = marked /\ lost' = lost
      /\ faults' = faults
  BY <1>1, <1>2 DEF EndUpload, disk, memory, net, history
<1>4. /\ Here' = Here /\ Recovered = root /\ Real(root) /\ root.data = written /\ ~journal
      /\ ~Gone /\ Here \in {"none", "drain"}
  BY <1>1, <1>2, <1>3, HereAfter, Working DEF disk
<1>5. /\ root' \in Dir /\ root'.password = root.password /\ root'.data = root.data
      /\ root'.shards = root.shards /\ root'.version = up.version /\ root'.file = root.file
      /\ root'.cloud = root.cloud /\ root'.dirty = (root.dirty /\ ~Unchanged(up))
      /\ (Unchanged(up) => backed' = up.data /\ ~up.stale /\ (open => root.data = up.data))
      /\ (~Unchanged(up) => backed' = backed)
  BY <1>1, <1>2, <1>3, <1>4, Now, Records DEF EndUpload
<1>6. Recovered' = root'
  BY <1>1, <1>2, <1>3, <1>4, <1>5, CountsAfter
<1>7. lost \/ ~root.cloud \/ root.dirty \/ (row[root.password].data >= marked /\ (open /\ backed = root.data
         => row[root.password].data = root.data))
  BY <1>1, <1>2, <1>3, <1>4, <1>5, <1>6 DEF CleanIsThere, AtTheRelay
<1>8. /\ up.password = root.password /\ up.shards = root.shards /\ up.data <= written
      /\ (~up.stale => marked <= up.data)
      /\ (lost \/ (up.version <= row[root.password].version /\ row[root.password].data >= up.data))
  BY <1>1, <1>2, <1>3, <1>4, <1>5, <1>6, <1>7 DEF InFlight
<1>9. TypeOK'
  <2>1. /\ root' \in Dir /\ stage' \in Dir /\ old' \in Dir /\ journal' \in BOOLEAN
        /\ row' \in [Password -> Row] /\ capsules' \subseteq 1 .. MaxShards
        /\ open' \in BOOLEAN /\ timer' \in BOOLEAN /\ up' \in Prepared /\ late' \in Prepared
        /\ job' \in JobType
    BY <1>1, <1>2, <1>3, <1>4, <1>5, <1>6, <1>7, <1>8, Now, Nothing
  <2>2. /\ backed' \in 0 .. Never /\ written' \in 0 .. MaxWrites /\ marked' \in 0 .. MaxWrites
        /\ shards' \in 1 .. MaxShards /\ lost' \in BOOLEAN /\ faults' \in 0 .. MaxFaults
    BY <1>1, <1>2, <1>3, <1>4, <1>5, <1>6, <1>7, <1>8, Now DEF TypeOK, PhoneSizes
  <2>3. open' => ~journal'
    BY <1>1, <1>2, <1>3, <1>4, <1>5, <1>6, <1>7, <1>8 DEF TypeOK
  <2>4. Active' => (open' \/ job'.kind = "lock")
    BY <1>1, <1>2, <1>3, <1>4, <1>5, <1>6, <1>7, <1>8, Nothing DEF TypeOK, Active
  <2>5. QED
    BY <2>1, <2>2, <2>3, <2>4, TypedAfter
<1>10. JobsShape'
  BY <1>1, <1>2, <1>3, <1>4, <1>5, <1>6, <1>7, <1>8 DEF JobsShape
<1>11. PlacesAgree'
  BY <1>1, <1>2, <1>3, <1>4, <1>5, <1>6, <1>7, <1>8, Now, Nothing DEF PlacesAgree, Moving,
     Preparing, Real
<1>12. ChangePrepared'
  BY <1>1, <1>2, <1>3, <1>4, <1>5, <1>6, <1>7, <1>8, Now, Nothing DEF ChangePrepared, PlacesAgree,
     Moving, Preparing, Real
<1>13. Bounded'
  BY <1>1, <1>2, <1>3, <1>4, <1>5, <1>6, <1>7, <1>8, Now, Nothing DEF Bounded, PlacesAgree,
     Moving, Preparing, Real
<1>14. InFlight'
  BY <1>1, <1>2, <1>3, <1>4, <1>5, <1>6, <1>7, <1>8, Now, Nothing DEF InFlight, Active, Bounded,
     Preparing
<1>15. LateIsNoOlder'
  BY <1>1, <1>2, <1>3, <1>4, <1>5, <1>6, <1>7, <1>8, Now, Nothing DEF LateIsNoOlder, Accepts,
     Preparing
<1>16. AtTheRelay'
  BY <1>1, <1>2, <1>3, <1>4, <1>5, <1>6, <1>7, <1>8, Now, Nothing DEF AtTheRelay, Gone, Preparing
<1>17. CleanIsThere'
  <2>1. row[root.password].data <= written
    BY <1>1, Now DEF Bounded
  <2>2. CASE Unchanged(up)
    BY <1>3, <1>4, <1>5, <1>6, <1>8, <2>1, <2>2, Now DEF CleanIsThere
  <2>3. CASE ~Unchanged(up)
    BY <1>3, <1>4, <1>5, <1>6, <1>7, <2>3, Now DEF CleanIsThere
  <2>4. QED
    BY <2>2, <2>3
<1>18. OldIsClean'
  BY <1>1, <1>2, <1>3, <1>4, <1>5, <1>6, <1>7, <1>8, Now, Nothing DEF OldIsClean
<1>19. QED
  BY <1>9, <1>10, <1>11, <1>12, <1>13, <1>14, <1>15, <1>16, <1>17, <1>18 DEF PhoneInv

LEMMA RescheduleKeeps ==
  ASSUME PhoneSizes, PhoneInv, Reschedule
  PROVE  PhoneInv'
<1>1. TypeOK /\ JobsShape /\ PlacesAgree /\ ChangePrepared /\ Bounded /\ InFlight /\ LateIsNoOlder
      /\ AtTheRelay /\ CleanIsThere /\ OldIsClean
  BY DEF PhoneInv
<1>2. /\ Here = "none" /\ job = Idle /\ ~journal /\ Recovered = root /\ Real(root)
      /\ root.data = written /\ job.kind = "none" /\ job.mine = NoUpload
  BY <1>1, Working, NoSteps DEF Reschedule, Ready
<1>3. up.at = "failed" /\ up' = NoUpload
  BY <1>1, <1>2 DEF Reschedule
<1>4. /\ stage' = stage /\ old' = old /\ journal' = journal /\ row' = row
      /\ capsules' = capsules /\ open' = open /\ backed' = backed /\ late' = late /\ job' = job
      /\ shards' = shards /\ written' = written /\ lost' = lost /\ faults' = faults
  BY <1>1, <1>2, <1>3 DEF Reschedule, disk, memory, net, history
<1>5. /\ root' \in Dir /\ root'.password = root.password /\ root'.data = root.data
      /\ root'.shards = root.shards /\ root'.version = root.version /\ root'.file = root.file
      /\ root'.cloud = root.cloud
      /\ ((root' = root /\ marked' = marked) \/ (open /\ root'.dirty = TRUE /\ marked' = written))
  BY <1>1, <1>2, <1>3, <1>4, Now DEF Reschedule, Dir
<1>6. timer' \in BOOLEAN
  BY <1>1, <1>2, <1>3, <1>4, <1>5, Now, Numbers DEF Reschedule
<1>7. Here' = Here /\ Recovered' = root'
  BY <1>1, <1>2, <1>3, <1>4, <1>5, <1>6, HereAfter, CountsAfter DEF disk
<1>8. TypeOK'
  <2>1. /\ root' \in Dir /\ stage' \in Dir /\ old' \in Dir /\ journal' \in BOOLEAN
        /\ row' \in [Password -> Row] /\ capsules' \subseteq 1 .. MaxShards
        /\ open' \in BOOLEAN /\ timer' \in BOOLEAN /\ up' \in Prepared /\ late' \in Prepared
        /\ job' \in JobType
    BY <1>1, <1>2, <1>3, <1>4, <1>5, <1>6, <1>7, Now, Nothing
  <2>2. /\ backed' \in 0 .. Never /\ written' \in 0 .. MaxWrites /\ marked' \in 0 .. MaxWrites
        /\ shards' \in 1 .. MaxShards /\ lost' \in BOOLEAN /\ faults' \in 0 .. MaxFaults
    BY <1>1, <1>2, <1>3, <1>4, <1>5, <1>6, <1>7, Now DEF TypeOK, PhoneSizes
  <2>3. open' => ~journal'
    BY <1>1, <1>2, <1>3, <1>4, <1>5, <1>6, <1>7 DEF TypeOK
  <2>4. Active' => (open' \/ job'.kind = "lock")
    BY <1>1, <1>2, <1>3, <1>4, <1>5, <1>6, <1>7, Nothing DEF TypeOK, Active
  <2>5. QED
    BY <2>1, <2>2, <2>3, <2>4, TypedAfter
<1>9. JobsShape'
  BY <1>1, <1>2, <1>3, <1>4, <1>5, <1>6, <1>7 DEF JobsShape
<1>10. PlacesAgree'
  BY <1>1, <1>2, <1>3, <1>4, <1>5, <1>6, <1>7, Now, Nothing DEF PlacesAgree, Moving, Preparing,
     Real
<1>11. ChangePrepared'
  BY <1>1, <1>2, <1>3, <1>4, <1>5, <1>6, <1>7, Now, Nothing DEF ChangePrepared, PlacesAgree,
     Moving, Preparing, Real
<1>12. Bounded'
  BY <1>1, <1>2, <1>3, <1>4, <1>5, <1>6, <1>7, Now, Nothing DEF Bounded, PlacesAgree, Moving,
     Preparing, Real
<1>13. InFlight'
  BY <1>1, <1>2, <1>3, <1>4, <1>5, <1>6, <1>7, Now, Nothing DEF InFlight, Active, Bounded,
     Preparing
<1>14. LateIsNoOlder'
  BY <1>1, <1>2, <1>3, <1>4, <1>5, <1>6, <1>7, Now, Nothing DEF LateIsNoOlder, Accepts, Preparing
<1>15. AtTheRelay'
  BY <1>1, <1>2, <1>3, <1>4, <1>5, <1>6, <1>7, Now, Nothing DEF AtTheRelay, Gone, Preparing
<1>16. CleanIsThere'
  BY <1>1, <1>2, <1>3, <1>4, <1>5, <1>6, <1>7, Now, Nothing DEF CleanIsThere, AtTheRelay
<1>17. OldIsClean'
  BY <1>1, <1>2, <1>3, <1>4, <1>5, <1>6, <1>7, Now, Nothing DEF OldIsClean
<1>18. QED
  BY <1>8, <1>9, <1>10, <1>11, <1>12, <1>13, <1>14, <1>15, <1>16, <1>17 DEF PhoneInv

LEMMA SyncKeeps ==
  ASSUME PhoneSizes, PhoneInv, Sync
  PROVE  PhoneInv'
<1>1. TypeOK /\ JobsShape /\ PlacesAgree /\ ChangePrepared /\ Bounded /\ InFlight /\ LateIsNoOlder
      /\ AtTheRelay /\ CleanIsThere /\ OldIsClean
  BY DEF PhoneInv
<1>2. /\ Here = "none" /\ job = Idle /\ ~journal /\ Recovered = root /\ Real(root)
      /\ root.data = written /\ job.kind = "none" /\ job.mine = NoUpload /\ open
  BY <1>1, Working, NoSteps DEF Sync, Ready
<1>3. /\ root' = root /\ stage' = stage /\ old' = old /\ journal' = journal /\ row' = row
      /\ capsules' = capsules /\ open' = open /\ backed' = backed /\ up' = up /\ late' = late
      /\ shards' = shards /\ written' = written /\ marked' = marked /\ lost' = lost
      /\ faults' = faults
  BY <1>1, <1>2 DEF Sync, disk, memory, net, history
<1>4. timer' = FALSE /\ Recovered' = root
  BY <1>1, <1>2, <1>3, CountsAfter DEF Sync, Begin
<1>5. /\ JobsShape' /\ job' \in JobType /\ Here' = "drain" /\ job'.kind = "sync"
      /\ job'.mine = NoUpload /\ job' # Idle
  <2>1. job' = [kind |-> "sync", steps |-> LockSteps, mine |-> NoUpload, next |-> First]
    BY DEF Sync, Begin, LockSteps
  <2>2. NoUpload \in Prepared /\ First \in Password
    BY Nothing DEF PhoneSizes
  <2>3. QED
    BY <2>1, <2>2, Begins
<1>6. TypeOK'
  <2>1. /\ root' \in Dir /\ stage' \in Dir /\ old' \in Dir /\ journal' \in BOOLEAN
        /\ row' \in [Password -> Row] /\ capsules' \subseteq 1 .. MaxShards
        /\ open' \in BOOLEAN /\ timer' \in BOOLEAN /\ up' \in Prepared /\ late' \in Prepared
        /\ job' \in JobType
    BY <1>1, <1>2, <1>3, <1>4, <1>5, Now, Nothing
  <2>2. /\ backed' \in 0 .. Never /\ written' \in 0 .. MaxWrites /\ marked' \in 0 .. MaxWrites
        /\ shards' \in 1 .. MaxShards /\ lost' \in BOOLEAN /\ faults' \in 0 .. MaxFaults
    BY <1>1, <1>2, <1>3, <1>4, <1>5, Now DEF TypeOK, PhoneSizes
  <2>3. open' => ~journal'
    BY <1>1, <1>2, <1>3, <1>4, <1>5 DEF TypeOK
  <2>4. Active' => (open' \/ job'.kind = "lock")
    BY <1>1, <1>2, <1>3, <1>4, <1>5, Nothing DEF TypeOK, Active
  <2>5. QED
    BY <2>1, <2>2, <2>3, <2>4, TypedAfter
<1>7. JobsShape'
  BY <1>1, <1>2, <1>3, <1>4, <1>5 DEF JobsShape
<1>8. PlacesAgree'
  BY <1>1, <1>2, <1>3, <1>4, <1>5, Now, Nothing DEF PlacesAgree, Moving, Preparing, Real
<1>9. ChangePrepared'
  BY <1>1, <1>2, <1>3, <1>4, <1>5, Now, Nothing DEF ChangePrepared, PlacesAgree, Moving,
     Preparing, Real
<1>10. Bounded'
  BY <1>1, <1>2, <1>3, <1>4, <1>5, Now, Nothing DEF Bounded, PlacesAgree, Moving, Preparing, Real
<1>11. InFlight'
  BY <1>1, <1>2, <1>3, <1>4, <1>5, Now, Nothing DEF InFlight, Active, Bounded, Preparing
<1>12. LateIsNoOlder'
  BY <1>1, <1>2, <1>3, <1>4, <1>5, Now, Nothing DEF LateIsNoOlder, Accepts, Preparing
<1>13. AtTheRelay'
  BY <1>1, <1>2, <1>3, <1>4, <1>5, Now, Nothing DEF AtTheRelay, Gone, Preparing
<1>14. CleanIsThere'
  BY <1>1, <1>2, <1>3, <1>4, <1>5, Now, Nothing DEF CleanIsThere, AtTheRelay
<1>15. OldIsClean'
  BY <1>1, <1>2, <1>3, <1>4, <1>5, Now, Nothing DEF OldIsClean
<1>16. QED
  BY <1>6, <1>7, <1>8, <1>9, <1>10, <1>11, <1>12, <1>13, <1>14, <1>15 DEF PhoneInv

LEMMA LockKeeps ==
  ASSUME PhoneSizes, PhoneInv, Lock
  PROVE  PhoneInv'
<1>1. TypeOK /\ JobsShape /\ PlacesAgree /\ ChangePrepared /\ Bounded /\ InFlight /\ LateIsNoOlder
      /\ AtTheRelay /\ CleanIsThere /\ OldIsClean
  BY DEF PhoneInv
<1>2. /\ Here = "none" /\ job = Idle /\ ~journal /\ Recovered = root /\ Real(root)
      /\ root.data = written /\ job.kind = "none" /\ job.mine = NoUpload /\ open
  BY <1>1, Working, NoSteps DEF Lock, Ready
<1>3. /\ root' = root /\ stage' = stage /\ old' = old /\ journal' = journal /\ row' = row
      /\ capsules' = capsules /\ backed' = backed /\ up' = up /\ late' = late
      /\ shards' = shards /\ written' = written /\ marked' = marked /\ lost' = lost
      /\ faults' = faults
  BY <1>1, <1>2 DEF Lock, disk, memory, net, history
<1>4. timer' = FALSE /\ open' = FALSE /\ Recovered' = root
  BY <1>1, <1>2, <1>3, CountsAfter DEF Lock, Begin
<1>5. /\ JobsShape' /\ job' \in JobType /\ Here' = "drain" /\ job'.kind = "lock" /\ job' # Idle
      /\ (job'.mine = NoUpload \/ (job'.mine.password = root.password /\ job'.mine.shards = root.shards
         /\ job'.mine.data = root.data /\ ~job'.mine.stale))
  <2>1. NoUpload \in Prepared /\ First \in Password /\ Snapshot(root) \in Prepared
    BY Nothing, Now, Snapshots DEF PhoneSizes
  <2>2. CASE root.cloud
    <3>1. job' = [kind |-> "lock", steps |-> LockSteps, mine |-> Snapshot(root), next |-> First]
      BY <2>2 DEF Lock, Begin
    <3>2. JobsShape' /\ job' \in JobType /\ Here' = "drain" /\ job'.kind = "lock" /\ job' # Idle
          /\ job'.mine = Snapshot(root)
      BY <2>1, <3>1, Begins
    <3>3. QED
      BY <3>2, Now, Snapshots
  <2>3. CASE ~root.cloud
    <3>1. job' = [kind |-> "lock", steps |-> JustDrain, mine |-> NoUpload, next |-> First]
      BY <2>3 DEF Lock, Begin, JustDrain
    <3>2. QED
      BY <2>1, <3>1, Begins
  <2>4. QED
    BY <2>2, <2>3
<1>6. TypeOK'
  <2>1. /\ root' \in Dir /\ stage' \in Dir /\ old' \in Dir /\ journal' \in BOOLEAN
        /\ row' \in [Password -> Row] /\ capsules' \subseteq 1 .. MaxShards
        /\ open' \in BOOLEAN /\ timer' \in BOOLEAN /\ up' \in Prepared /\ late' \in Prepared
        /\ job' \in JobType
    BY <1>1, <1>2, <1>3, <1>4, <1>5, Now, Nothing
  <2>2. /\ backed' \in 0 .. Never /\ written' \in 0 .. MaxWrites /\ marked' \in 0 .. MaxWrites
        /\ shards' \in 1 .. MaxShards /\ lost' \in BOOLEAN /\ faults' \in 0 .. MaxFaults
    BY <1>1, <1>2, <1>3, <1>4, <1>5, Now DEF TypeOK, PhoneSizes
  <2>3. open' => ~journal'
    BY <1>1, <1>2, <1>3, <1>4, <1>5 DEF TypeOK
  <2>4. Active' => (open' \/ job'.kind = "lock")
    BY <1>1, <1>2, <1>3, <1>4, <1>5, Nothing DEF TypeOK, Active
  <2>5. QED
    BY <2>1, <2>2, <2>3, <2>4, TypedAfter
<1>7. JobsShape'
  BY <1>1, <1>2, <1>3, <1>4, <1>5 DEF JobsShape
<1>8. PlacesAgree'
  BY <1>1, <1>2, <1>3, <1>4, <1>5, Now, Nothing DEF PlacesAgree, Moving, Preparing, Real
<1>9. ChangePrepared'
  BY <1>1, <1>2, <1>3, <1>4, <1>5, Now, Nothing DEF ChangePrepared, PlacesAgree, Moving,
     Preparing, Real
<1>10. Bounded'
  BY <1>1, <1>2, <1>3, <1>4, <1>5, Now, Nothing DEF Bounded, PlacesAgree, Moving, Preparing, Real
<1>11. InFlight'
  BY <1>1, <1>2, <1>3, <1>4, <1>5, Now, Nothing DEF InFlight, Active, Bounded, Preparing,
     PlacesAgree
<1>12. LateIsNoOlder'
  BY <1>1, <1>2, <1>3, <1>4, <1>5, Now, Nothing DEF LateIsNoOlder, Accepts, Preparing
<1>13. AtTheRelay'
  BY <1>1, <1>2, <1>3, <1>4, <1>5, Now, Nothing DEF AtTheRelay, Gone, Preparing
<1>14. CleanIsThere'
  BY <1>1, <1>2, <1>3, <1>4, <1>5, Now, Nothing DEF CleanIsThere, AtTheRelay
<1>15. OldIsClean'
  BY <1>1, <1>2, <1>3, <1>4, <1>5, Now, Nothing DEF OldIsClean
<1>16. QED
  BY <1>6, <1>7, <1>8, <1>9, <1>10, <1>11, <1>12, <1>13, <1>14, <1>15 DEF PhoneInv

LEMMA ChangePasswordKeeps ==
  ASSUME PhoneSizes, PhoneInv, NEW p \in Password, ChangePassword(p)
  PROVE  PhoneInv'
<1>1. TypeOK /\ JobsShape /\ PlacesAgree /\ ChangePrepared /\ Bounded /\ InFlight /\ LateIsNoOlder
      /\ AtTheRelay /\ CleanIsThere /\ OldIsClean
  BY DEF PhoneInv
<1>2. /\ Here = "none" /\ job = Idle /\ ~journal /\ Recovered = root /\ Real(root)
      /\ root.data = written /\ job.kind = "none" /\ job.mine = NoUpload /\ open
      /\ p # root.password
  BY <1>1, Working, NoSteps DEF ChangePassword, Ready
<1>3. /\ root' = root /\ stage' = stage /\ old' = old /\ journal' = journal /\ row' = row
      /\ capsules' = capsules /\ open' = open /\ backed' = backed /\ up' = up /\ late' = late
      /\ shards' = shards /\ written' = written /\ marked' = marked /\ lost' = lost
      /\ faults' = faults
  BY <1>1, <1>2 DEF ChangePassword, disk, memory, net, history
<1>4. timer' = FALSE /\ Recovered' = root
  BY <1>1, <1>2, <1>3, CountsAfter DEF ChangePassword, Begin
<1>5. /\ JobsShape' /\ job' \in JobType /\ Here' = "drain" /\ job'.kind \in {"file", "relay"}
      /\ job'.mine = NoUpload /\ job'.next = p /\ job' # Idle
      /\ (job'.kind = "relay" => ~root.file) /\ (job'.kind = "file" => root.file \/ ~root.cloud)
  <2>1. NoUpload \in Prepared
    BY Nothing
  <2>2. CASE root.file \/ ~root.cloud
    <3>1. job' = [kind |-> "file", steps |-> FileSteps, mine |-> NoUpload, next |-> p]
      BY <2>2, Changes DEF ChangePassword, Begin
    <3>2. QED
      BY <2>1, <2>2, <3>1, Begins
  <2>3. CASE ~(root.file \/ ~root.cloud)
    <3>1. job' = [kind |-> "relay", steps |-> RelaySteps, mine |-> NoUpload, next |-> p]
      BY <2>3, Changes DEF ChangePassword, Begin
    <3>2. QED
      BY <2>1, <2>3, <3>1, Begins
  <2>4. QED
    BY <2>2, <2>3
<1>6. TypeOK'
  <2>1. /\ root' \in Dir /\ stage' \in Dir /\ old' \in Dir /\ journal' \in BOOLEAN
        /\ row' \in [Password -> Row] /\ capsules' \subseteq 1 .. MaxShards
        /\ open' \in BOOLEAN /\ timer' \in BOOLEAN /\ up' \in Prepared /\ late' \in Prepared
        /\ job' \in JobType
    BY <1>1, <1>2, <1>3, <1>4, <1>5, Now, Nothing
  <2>2. /\ backed' \in 0 .. Never /\ written' \in 0 .. MaxWrites /\ marked' \in 0 .. MaxWrites
        /\ shards' \in 1 .. MaxShards /\ lost' \in BOOLEAN /\ faults' \in 0 .. MaxFaults
    BY <1>1, <1>2, <1>3, <1>4, <1>5, Now DEF TypeOK, PhoneSizes
  <2>3. open' => ~journal'
    BY <1>1, <1>2, <1>3, <1>4, <1>5 DEF TypeOK
  <2>4. Active' => (open' \/ job'.kind = "lock")
    BY <1>1, <1>2, <1>3, <1>4, <1>5, Nothing DEF TypeOK, Active
  <2>5. QED
    BY <2>1, <2>2, <2>3, <2>4, TypedAfter
<1>7. JobsShape'
  BY <1>1, <1>2, <1>3, <1>4, <1>5 DEF JobsShape
<1>8. PlacesAgree'
  BY <1>1, <1>2, <1>3, <1>4, <1>5, Now, Nothing DEF PlacesAgree, Moving, Preparing, Real
<1>9. ChangePrepared'
  BY <1>1, <1>2, <1>3, <1>4, <1>5, Now, Nothing DEF ChangePrepared, PlacesAgree, Moving,
     Preparing, Real
<1>10. Bounded'
  BY <1>1, <1>2, <1>3, <1>4, <1>5, Now, Nothing DEF Bounded, PlacesAgree, Moving, Preparing, Real
<1>11. InFlight'
  BY <1>1, <1>2, <1>3, <1>4, <1>5, Now, Nothing DEF InFlight, Active, Bounded, Preparing
<1>12. LateIsNoOlder'
  BY <1>1, <1>2, <1>3, <1>4, <1>5, Now, Nothing DEF LateIsNoOlder, Accepts, Preparing
<1>13. AtTheRelay'
  BY <1>1, <1>2, <1>3, <1>4, <1>5, Now, Nothing DEF AtTheRelay, Gone, Preparing
<1>14. CleanIsThere'
  BY <1>1, <1>2, <1>3, <1>4, <1>5, Now, Nothing DEF CleanIsThere, AtTheRelay
<1>15. OldIsClean'
  BY <1>1, <1>2, <1>3, <1>4, <1>5, Now, Nothing DEF OldIsClean
<1>16. QED
  BY <1>6, <1>7, <1>8, <1>9, <1>10, <1>11, <1>12, <1>13, <1>14, <1>15 DEF PhoneInv

LEMMA UnlockKeeps ==
  ASSUME PhoneSizes, PhoneInv, Unlock
  PROVE  PhoneInv'
<1>1. TypeOK /\ JobsShape /\ PlacesAgree /\ ChangePrepared /\ Bounded /\ InFlight /\ LateIsNoOlder
      /\ AtTheRelay /\ CleanIsThere /\ OldIsClean
  BY DEF PhoneInv
<1>2. /\ Here = "none" /\ job = Idle /\ ~journal /\ Recovered = root /\ Real(root)
      /\ root.data = written /\ job.kind = "none" /\ job.mine = NoUpload /\ ~open
  BY <1>1, Working, NoSteps DEF Unlock, Ready
<1>3. /\ stage' = stage /\ old' = old /\ journal' = journal /\ row' = row
      /\ capsules' = capsules /\ timer' = timer /\ late' = late /\ job' = job
      /\ shards' = shards /\ written' = written /\ marked' = marked /\ lost' = lost
      /\ faults' = faults
  BY <1>1, <1>2 DEF Unlock, disk, memory, net, history
<1>4. open' = TRUE /\ backed' = Never /\ up' = NoUpload /\ root' = Opened(root) /\ Opens(root)
  BY <1>1, <1>2, <1>3 DEF Unlock
<1>5. /\ root' \in Dir /\ root'.password = root.password /\ root'.data = root.data
      /\ root'.shards = root.shards /\ root'.file = root.file /\ root'.cloud = root.cloud
      /\ root'.dirty = root.dirty /\ (root.file => root' = root)
      /\ (~root.file => root'.version = row[root.password].version /\ row[root.password].shards = root.shards)
  BY <1>1, <1>2, <1>3, <1>4, OpenedDir DEF Opens
<1>6. Here' = Here /\ Recovered' = root' /\ job'.kind = "none" /\ ~Gone
  BY <1>1, <1>2, <1>3, <1>4, <1>5, HereAfter, CountsAfter, Nothing DEF Gone, Real
<1>7. written < Never /\ Never \in Nat /\ Never \in 0 .. Never
  BY <1>1, <1>2, <1>3, <1>4, <1>5, <1>6, Now
<1>8. TypeOK'
  <2>1. /\ root' \in Dir /\ stage' \in Dir /\ old' \in Dir /\ journal' \in BOOLEAN
        /\ row' \in [Password -> Row] /\ capsules' \subseteq 1 .. MaxShards
        /\ open' \in BOOLEAN /\ timer' \in BOOLEAN /\ up' \in Prepared /\ late' \in Prepared
        /\ job' \in JobType
    BY <1>1, <1>2, <1>3, <1>4, <1>5, <1>6, <1>7, Now, Nothing
  <2>2. /\ backed' \in 0 .. Never /\ written' \in 0 .. MaxWrites /\ marked' \in 0 .. MaxWrites
        /\ shards' \in 1 .. MaxShards /\ lost' \in BOOLEAN /\ faults' \in 0 .. MaxFaults
    BY <1>1, <1>2, <1>3, <1>4, <1>5, <1>6, <1>7, Now DEF TypeOK, PhoneSizes
  <2>3. open' => ~journal'
    BY <1>1, <1>2, <1>3, <1>4, <1>5, <1>6, <1>7 DEF TypeOK
  <2>4. Active' => (open' \/ job'.kind = "lock")
    BY <1>1, <1>2, <1>3, <1>4, <1>5, <1>6, <1>7, Nothing DEF TypeOK, Active
  <2>5. QED
    BY <2>1, <2>2, <2>3, <2>4, TypedAfter
<1>9. JobsShape'
  BY <1>1, <1>2, <1>3, <1>4, <1>5, <1>6, <1>7 DEF JobsShape
<1>10. PlacesAgree'
  BY <1>1, <1>2, <1>3, <1>4, <1>5, <1>6, <1>7, Now, Nothing DEF PlacesAgree, Moving, Preparing,
     Real
<1>11. ChangePrepared'
  BY <1>1, <1>2, <1>3, <1>4, <1>5, <1>6, <1>7, Now, Nothing DEF ChangePrepared, PlacesAgree,
     Moving, Preparing, Real
<1>12. Bounded'
  BY <1>1, <1>2, <1>3, <1>4, <1>5, <1>6, <1>7, Now, Nothing DEF Bounded, PlacesAgree, Moving,
     Preparing, Real
<1>13. InFlight'
  BY <1>1, <1>2, <1>3, <1>4, <1>5, <1>6, <1>7, Now, Nothing DEF InFlight, Active, Bounded,
     Preparing
<1>14. LateIsNoOlder'
  BY <1>1, <1>2, <1>3, <1>4, <1>5, <1>6, <1>7, Now, Nothing DEF LateIsNoOlder, Accepts, Preparing
<1>15. AtTheRelay'
  BY <1>1, <1>2, <1>3, <1>4, <1>5, <1>6, <1>7, Now, Nothing, SMTT(30) DEF AtTheRelay, Gone, Preparing
<1>16. CleanIsThere'
  BY <1>1, <1>2, <1>3, <1>4, <1>5, <1>6, <1>7, Now, Nothing, SMTT(30) DEF CleanIsThere, AtTheRelay
<1>17. OldIsClean'
  BY <1>1, <1>2, <1>3, <1>4, <1>5, <1>6, <1>7, Now, Nothing DEF OldIsClean
<1>18. QED
  BY <1>8, <1>9, <1>10, <1>11, <1>12, <1>13, <1>14, <1>15, <1>16, <1>17 DEF PhoneInv

LEMMA DrainKeeps ==
  ASSUME PhoneSizes, PhoneInv, Drain
  PROVE  PhoneInv'
<1>1. TypeOK /\ JobsShape /\ PlacesAgree /\ ChangePrepared /\ Bounded /\ InFlight /\ LateIsNoOlder
      /\ AtTheRelay /\ CleanIsThere /\ OldIsClean
  BY DEF PhoneInv
<1>2. Here = "drain" /\ job # Idle
  BY <1>1, Working, Phases, NoSteps DEF Drain, Step
<1>3. ~journal /\ Recovered = root /\ Real(root) /\ root.data = written /\ ~Gone
  BY <1>1, <1>2, Working DEF Preparing, Gone
<1>4. /\ root' = root /\ stage' = stage /\ old' = old /\ journal' = journal /\ row' = row
      /\ capsules' = capsules /\ open' = open /\ timer' = timer /\ backed' = backed /\ up' = up
      /\ late' = late /\ shards' = shards /\ written' = written /\ marked' = marked
      /\ lost' = lost /\ faults' = faults
  BY <1>1, <1>2, <1>3 DEF Drain, disk, memory, net, history
<1>5. /\ JobsShape' /\ job' \in JobType
      /\ job' = Idle => Here' = "none" /\ job'.kind = "none" /\ job'.mine = NoUpload
      /\ job' # Idle => job'.kind = job.kind /\ job'.mine = job.mine /\ job'.next = job.next
      /\ \/ (job.kind \in {"sync", "relay"} /\ Here' = "upload" /\ job' # Idle)
         \/ (job.kind = "lock" /\ ((Here' = "upload" /\ job' # Idle) \/ job' = Idle))
         \/ (job.kind = "file" /\ Here' = "copy" /\ job' # Idle)
  BY <1>1, <1>2, <1>3, <1>4, Now, Stepped DEF Drain
<1>6. Recovered' = root /\ ~Active
  BY <1>1, <1>2, <1>3, <1>4, <1>5, CountsAfter, Nothing DEF Drain, Drained, Active, disk
<1>7. TypeOK'
  <2>1. /\ root' \in Dir /\ stage' \in Dir /\ old' \in Dir /\ journal' \in BOOLEAN
        /\ row' \in [Password -> Row] /\ capsules' \subseteq 1 .. MaxShards
        /\ open' \in BOOLEAN /\ timer' \in BOOLEAN /\ up' \in Prepared /\ late' \in Prepared
        /\ job' \in JobType
    BY <1>1, <1>2, <1>3, <1>4, <1>5, <1>6, Now, Nothing
  <2>2. /\ backed' \in 0 .. Never /\ written' \in 0 .. MaxWrites /\ marked' \in 0 .. MaxWrites
        /\ shards' \in 1 .. MaxShards /\ lost' \in BOOLEAN /\ faults' \in 0 .. MaxFaults
    BY <1>1, <1>2, <1>3, <1>4, <1>5, <1>6, Now DEF TypeOK, PhoneSizes
  <2>3. open' => ~journal'
    BY <1>1, <1>2, <1>3, <1>4, <1>5, <1>6 DEF TypeOK
  <2>4. Active' => (open' \/ job'.kind = "lock")
    BY <1>1, <1>2, <1>3, <1>4, <1>5, <1>6, Nothing DEF TypeOK, Active
  <2>5. QED
    BY <2>1, <2>2, <2>3, <2>4, TypedAfter
<1>8. JobsShape'
  BY <1>1, <1>2, <1>3, <1>4, <1>5, <1>6 DEF JobsShape
<1>9. PlacesAgree'
  BY <1>1, <1>2, <1>3, <1>4, <1>5, <1>6, Now, Nothing DEF PlacesAgree, Moving, Preparing, Real
<1>10. ChangePrepared'
  BY <1>1, <1>2, <1>3, <1>4, <1>5, <1>6, Now, Nothing DEF ChangePrepared, PlacesAgree, Moving,
     Preparing, Real
<1>11. Bounded'
  BY <1>1, <1>2, <1>3, <1>4, <1>5, <1>6, Now, Nothing DEF Bounded, PlacesAgree, Moving, Preparing,
     Real
<1>12. InFlight'
  BY <1>1, <1>2, <1>3, <1>4, <1>5, <1>6, Now, Nothing DEF InFlight, Active, Bounded, Preparing
<1>13. LateIsNoOlder'
  BY <1>1, <1>2, <1>3, <1>4, <1>5, <1>6, Now, Nothing DEF LateIsNoOlder, Accepts, Preparing
<1>14. AtTheRelay'
  BY <1>1, <1>2, <1>3, <1>4, <1>5, <1>6, Now, Nothing DEF AtTheRelay, Gone, Preparing
<1>15. CleanIsThere'
  BY <1>1, <1>2, <1>3, <1>4, <1>5, <1>6, Now, Nothing DEF CleanIsThere, AtTheRelay
<1>16. OldIsClean'
  BY <1>1, <1>2, <1>3, <1>4, <1>5, <1>6, Now, Nothing DEF OldIsClean
<1>17. QED
  BY <1>7, <1>8, <1>9, <1>10, <1>11, <1>12, <1>13, <1>14, <1>15, <1>16 DEF PhoneInv

LEMMA UploadTakenKeeps ==
  ASSUME PhoneSizes, PhoneInv, Upload /\ UploadTaken
  PROVE  PhoneInv'
<1>1. TypeOK /\ JobsShape /\ PlacesAgree /\ ChangePrepared /\ Bounded /\ InFlight /\ LateIsNoOlder
      /\ AtTheRelay /\ CleanIsThere /\ OldIsClean
  BY DEF PhoneInv
<1>2. Here = "upload" /\ job # Idle
  BY <1>1, Working, Phases, NoSteps DEF Upload, Step
<1>3. ~journal /\ Recovered = root /\ Real(root) /\ root.data = written /\ ~Gone
  BY <1>1, <1>2, Working DEF Preparing, Gone
<1>4. ~Active /\ root.password \in Password
  BY <1>1, <1>2, <1>3, Now DEF InFlight
<1>5. /\ OwnUpload \in Prepared /\ OwnUpload.password = root.password
      /\ OwnUpload.data = written /\ OwnUpload.shards = root.shards
      /\ OwnUpload.version = root.version + 1
  BY <1>1, <1>2, <1>3, <1>4, Owns DEF Upload
<1>6. /\ stage' = stage /\ old' = old /\ journal' = journal /\ capsules' = capsules
      /\ open' = open /\ timer' = timer /\ up' = up /\ shards' = shards /\ written' = written
      /\ marked' = marked /\ lost' = lost
  BY <1>1, <1>2, <1>3, <1>4, <1>5 DEF Upload, disk, memory, net, history
<1>7. /\ late' = late /\ faults' = faults /\ row' = Stored(OwnUpload)
      /\ OwnUpload.version = row[root.password].version + 1
  BY <1>1, <1>2, <1>3, <1>4, <1>5, <1>6 DEF UploadTaken, Accepts
<1>8. /\ JobsShape' /\ job' \in JobType
      /\ job' = Idle => Here' = "none" /\ job'.kind = "none" /\ job'.mine = NoUpload
      /\ job' # Idle => job'.kind = job.kind /\ job'.mine = job.mine /\ job'.next = job.next
      /\ ((job.kind \in {"sync", "lock"} /\ job' = Idle) \/ (job.kind = "relay" /\ Here' = "copy" /\ job' # Idle))
  BY <1>1, <1>2, <1>3, <1>4, <1>5, <1>6, <1>7, Now, Stepped DEF UploadTaken
<1>9. /\ row' \in [Password -> Row] /\ row'[root.password].version = OwnUpload.version
      /\ row'[root.password].data = written /\ row'[root.password].shards = root.shards
      /\ \A p \in Password : p # root.password => row'[p] = row[p]
  BY <1>1, <1>2, <1>3, <1>4, <1>5, <1>6, <1>7, <1>8, Now, Stores
<1>10. /\ root' \in Dir /\ root'.password = root.password /\ root'.data = root.data
      /\ root'.shards = root.shards /\ root'.version = root.version + 1
      /\ root'.file = root.file /\ root'.cloud = root.cloud
      /\ (backed' = backed \/ backed' = written)
  BY <1>1, <1>2, <1>3, <1>4, <1>5, <1>6, <1>7, <1>8, <1>9, Now, Records DEF UploadTaken
<1>11. Recovered' = root'
  BY <1>1, <1>2, <1>3, <1>4, <1>5, <1>6, <1>7, <1>8, <1>9, <1>10, CountsAfter
<1>12. /\ \A p \in Password : row'[p].data \in Nat /\ row'[p].version \in Nat /\ row'[p].data <= written
  BY <1>1, <1>2, <1>3, <1>4, <1>5, <1>6, <1>7, <1>8, <1>9, <1>10, <1>11, Now, Numbers DEF Bounded
<1>13. TypeOK'
  <2>1. /\ root' \in Dir /\ stage' \in Dir /\ old' \in Dir /\ journal' \in BOOLEAN
        /\ row' \in [Password -> Row] /\ capsules' \subseteq 1 .. MaxShards
        /\ open' \in BOOLEAN /\ timer' \in BOOLEAN /\ up' \in Prepared /\ late' \in Prepared
        /\ job' \in JobType
    BY <1>1, <1>2, <1>3, <1>4, <1>5, <1>6, <1>7, <1>8, <1>9, <1>10, <1>11, <1>12, Now, Nothing
  <2>2. /\ backed' \in 0 .. Never /\ written' \in 0 .. MaxWrites /\ marked' \in 0 .. MaxWrites
        /\ shards' \in 1 .. MaxShards /\ lost' \in BOOLEAN /\ faults' \in 0 .. MaxFaults
    BY <1>1, <1>2, <1>3, <1>4, <1>5, <1>6, <1>7, <1>8, <1>9, <1>10, <1>11, <1>12, Now DEF TypeOK,
       PhoneSizes
  <2>3. open' => ~journal'
    BY <1>1, <1>2, <1>3, <1>4, <1>5, <1>6, <1>7, <1>8, <1>9, <1>10, <1>11, <1>12 DEF TypeOK
  <2>4. Active' => (open' \/ job'.kind = "lock")
    BY <1>1, <1>2, <1>3, <1>4, <1>5, <1>6, <1>7, <1>8, <1>9, <1>10, <1>11, <1>12, Nothing DEF
       TypeOK, Active
  <2>5. QED
    BY <2>1, <2>2, <2>3, <2>4, TypedAfter
<1>14. JobsShape'
  BY <1>1, <1>2, <1>3, <1>4, <1>5, <1>6, <1>7, <1>8, <1>9, <1>10, <1>11, <1>12 DEF JobsShape
<1>15. PlacesAgree'
  BY <1>1, <1>2, <1>3, <1>4, <1>5, <1>6, <1>7, <1>8, <1>9, <1>10, <1>11, <1>12, Now, Nothing DEF
     PlacesAgree, Moving, Preparing, Real
<1>16. ChangePrepared'
  BY <1>1, <1>2, <1>3, <1>4, <1>5, <1>6, <1>7, <1>8, <1>9, <1>10, <1>11, <1>12, Now, Nothing DEF
     ChangePrepared, PlacesAgree, Moving, Preparing, Real
<1>17. Bounded'
  BY <1>1, <1>2, <1>3, <1>4, <1>5, <1>6, <1>7, <1>8, <1>9, <1>10, <1>11, <1>12, Now, Nothing, SMTT(30) DEF
     Bounded, PlacesAgree, Moving, Preparing, Real
<1>18. InFlight'
  BY <1>1, <1>2, <1>3, <1>4, <1>5, <1>6, <1>7, <1>8, <1>9, <1>10, <1>11, <1>12, Now, Nothing DEF
     InFlight, Active, Bounded, Preparing
<1>19. LateIsNoOlder'
  <2> SUFFICES ASSUME late # NoUpload, ~late.stale, ~lost
               PROVE  /\ late.version <= row'[late.password].version + 1
                      /\ late.version = row'[late.password].version + 1 => row'[late.password].data <= late.data
                      /\ ~root.file => late.password = root.password /\ late.shards = root.shards
    BY <1>6, <1>7, <1>10, <1>11 DEF LateIsNoOlder, Accepts
  <2>1. /\ late.version <= row[late.password].version + 1
        /\ late.version = row[late.password].version + 1 => row[late.password].data <= late.data
        /\ ~root.file => late.password = root.password /\ late.shards = root.shards
    BY <1>1, <1>3 DEF LateIsNoOlder, Accepts
  <2>2. row'[root.password].version = row[root.password].version + 1
    BY <1>7, <1>9
  <2>3. CASE late.password = root.password
    BY <2>1, <2>2, <2>3, Now
  <2>4. CASE late.password # root.password
    BY <1>9, <2>1, <2>4, Now
  <2>5. QED
    BY <2>3, <2>4
<1>20. AtTheRelay'
  BY <1>1, <1>2, <1>3, <1>4, <1>5, <1>6, <1>7, <1>8, <1>9, <1>10, <1>11, <1>12, Now, Nothing, SMTT(30) DEF
     AtTheRelay, Gone, Preparing
<1>21. CleanIsThere'
  <2>1. marked <= written
    BY <1>1 DEF Bounded
  <2>2. row'[Recovered'.password].data = written /\ Recovered'.data = written
    BY <1>3, <1>9, <1>10, <1>11
  <2>3. QED
    BY <1>6, <2>1, <2>2, Now DEF CleanIsThere
<1>22. OldIsClean'
  BY <1>1, <1>2, <1>3, <1>4, <1>5, <1>6, <1>7, <1>8, <1>9, <1>10, <1>11, <1>12, Now, Nothing DEF
     OldIsClean
<1>23. QED
  BY <1>13, <1>14, <1>15, <1>16, <1>17, <1>18, <1>19, <1>20, <1>21, <1>22 DEF PhoneInv

LEMMA UploadFailsKeeps ==
  ASSUME PhoneSizes, PhoneInv, Upload /\ UploadFails
  PROVE  PhoneInv'
<1>1. TypeOK /\ JobsShape /\ PlacesAgree /\ ChangePrepared /\ Bounded /\ InFlight /\ LateIsNoOlder
      /\ AtTheRelay /\ CleanIsThere /\ OldIsClean
  BY DEF PhoneInv
<1>2. Here = "upload" /\ job # Idle
  BY <1>1, Working, Phases, NoSteps DEF Upload, Step
<1>3. ~journal /\ Recovered = root /\ Real(root) /\ root.data = written /\ ~Gone
  BY <1>1, <1>2, Working DEF Preparing, Gone
<1>4. ~Active /\ root.password \in Password
  BY <1>1, <1>2, <1>3, Now DEF InFlight
<1>5. /\ OwnUpload \in Prepared /\ OwnUpload.password = root.password
      /\ OwnUpload.data = written /\ OwnUpload.shards = root.shards
      /\ OwnUpload.version = root.version + 1
  BY <1>1, <1>2, <1>3, <1>4, Owns DEF Upload
<1>6. /\ stage' = stage /\ old' = old /\ journal' = journal /\ capsules' = capsules
      /\ open' = open /\ timer' = timer /\ up' = up /\ shards' = shards /\ written' = written
      /\ marked' = marked /\ lost' = lost
  BY <1>1, <1>2, <1>3, <1>4, <1>5 DEF Upload, disk, memory, net, history
<1>7. job' = Idle /\ root' = root /\ backed' = backed /\ faults' \in 0 .. MaxFaults
  BY <1>1, <1>2, <1>3, <1>4, <1>5, <1>6 DEF UploadFails
<1>8. /\ JobsShape' /\ job' \in JobType /\ Here' = "none" /\ job'.kind = "none"
      /\ job'.mine = NoUpload
  BY <1>1, <1>2, <1>3, <1>4, <1>5, <1>6, <1>7, Stopped
<1>9. \/ (row' = row /\ late' = late)
      \/ (late' = late /\ row' \in [Password -> Row] /\ OwnUpload.version = row[root.password].version + 1 /\ row'[root.password].version = OwnUpload.version /\ row'[root.password].data = written /\ row'[root.password].shards = root.shards /\ \A p \in Password : p # root.password => row'[p] = row[p])
      \/ (row' = row /\ late' = OwnUpload)
  <2>1. row' = RowAfter(OwnUpload) => row' = row \/ (Accepts(OwnUpload) /\ row' = Stored(OwnUpload))
    BY DEF RowAfter
  <2>2. Accepts(OwnUpload) => OwnUpload.version = row[root.password].version + 1
    BY <1>5 DEF Accepts
  <2>3. /\ Stored(OwnUpload) \in [Password -> Row]
        /\ Stored(OwnUpload)[root.password].version = OwnUpload.version
        /\ Stored(OwnUpload)[root.password].data = written /\ Stored(OwnUpload)[root.password].shards = root.shards
        /\ \A p \in Password : p # root.password => Stored(OwnUpload)[p] = row[p]
    BY <1>5, Now, Stores
  <2>4. QED
    BY <2>1, <2>2, <2>3 DEF UploadFails
<1>10. Recovered' = root
  BY <1>1, <1>2, <1>3, <1>4, <1>5, <1>6, <1>7, <1>8, <1>9, CountsAfter
<1>11. /\ \A p \in Password : row'[p].data \in Nat /\ row'[p].version \in Nat /\ row'[p].data <= written
  BY <1>1, <1>2, <1>3, <1>4, <1>5, <1>6, <1>7, <1>8, <1>9, <1>10, Now, Numbers DEF Bounded
<1>12. TypeOK'
  <2>1. /\ root' \in Dir /\ stage' \in Dir /\ old' \in Dir /\ journal' \in BOOLEAN
        /\ row' \in [Password -> Row] /\ capsules' \subseteq 1 .. MaxShards
        /\ open' \in BOOLEAN /\ timer' \in BOOLEAN /\ up' \in Prepared /\ late' \in Prepared
        /\ job' \in JobType
    BY <1>1, <1>2, <1>3, <1>4, <1>5, <1>6, <1>7, <1>8, <1>9, <1>10, <1>11, Now, Nothing
  <2>2. /\ backed' \in 0 .. Never /\ written' \in 0 .. MaxWrites /\ marked' \in 0 .. MaxWrites
        /\ shards' \in 1 .. MaxShards /\ lost' \in BOOLEAN /\ faults' \in 0 .. MaxFaults
    BY <1>1, <1>2, <1>3, <1>4, <1>5, <1>6, <1>7, <1>8, <1>9, <1>10, <1>11, Now DEF TypeOK,
       PhoneSizes
  <2>3. open' => ~journal'
    BY <1>1, <1>2, <1>3, <1>4, <1>5, <1>6, <1>7, <1>8, <1>9, <1>10, <1>11 DEF TypeOK
  <2>4. Active' => (open' \/ job'.kind = "lock")
    BY <1>1, <1>2, <1>3, <1>4, <1>5, <1>6, <1>7, <1>8, <1>9, <1>10, <1>11, Nothing DEF TypeOK,
       Active
  <2>5. QED
    BY <2>1, <2>2, <2>3, <2>4, TypedAfter
<1>13. JobsShape'
  BY <1>1, <1>2, <1>3, <1>4, <1>5, <1>6, <1>7, <1>8, <1>9, <1>10, <1>11 DEF JobsShape
<1>14. PlacesAgree'
  BY <1>1, <1>2, <1>3, <1>4, <1>5, <1>6, <1>7, <1>8, <1>9, <1>10, <1>11, Now, Nothing DEF
     PlacesAgree, Moving, Preparing, Real
<1>15. ChangePrepared'
  BY <1>1, <1>2, <1>3, <1>4, <1>5, <1>6, <1>7, <1>8, <1>9, <1>10, <1>11, Now, Nothing DEF
     ChangePrepared, PlacesAgree, Moving, Preparing, Real
<1>16. Bounded'
  BY <1>1, <1>2, <1>3, <1>4, <1>5, <1>6, <1>7, <1>8, <1>9, <1>10, <1>11, Now, Nothing DEF Bounded,
     PlacesAgree, Moving, Preparing, Real
<1>17. InFlight'
  BY <1>1, <1>2, <1>3, <1>4, <1>5, <1>6, <1>7, <1>8, <1>9, <1>10, <1>11, Now, Nothing DEF
     InFlight, Active, Bounded, Preparing
<1>18. LateIsNoOlder'
  <2>1. lost \/ root.version <= row[root.password].version
    BY <1>1, <1>3 DEF AtTheRelay
  <2>2. CASE late' = late /\ row' = row
    BY <1>1, <1>3, <1>6, <1>10, <2>2 DEF LateIsNoOlder, Accepts
  <2>3. CASE late' = late /\ row' # row
    <3> SUFFICES ASSUME late # NoUpload, ~late.stale, ~lost
                 PROVE  /\ late.version <= row'[late.password].version + 1
                        /\ late.version = row'[late.password].version + 1 => row'[late.password].data <= late.data
                        /\ ~root.file => late.password = root.password /\ late.shards = root.shards
      BY <1>6, <1>7, <1>10, <2>3 DEF LateIsNoOlder, Accepts
    <3>1. /\ late.version <= row[late.password].version + 1
          /\ late.version = row[late.password].version + 1 => row[late.password].data <= late.data
          /\ ~root.file => late.password = root.password /\ late.shards = root.shards
      BY <1>1, <1>3 DEF LateIsNoOlder, Accepts
    <3>2. /\ row'[root.password].version = row[root.password].version + 1
          /\ \A p \in Password : p # root.password => row'[p] = row[p]
      BY <1>5, <1>9, <2>3
    <3>3. CASE late.password = root.password
      BY <3>1, <3>2, <3>3, Now
    <3>4. CASE late.password # root.password
      BY <3>1, <3>2, <3>4, Now
    <3>5. QED
      BY <3>3, <3>4
  <2>4. CASE late' # late
    <3>1. late' = OwnUpload /\ row' = row
      BY <1>9, <2>4
    <3>2. row[root.password].data <= written
      BY <1>1, <1>4 DEF Bounded
    <3>3. QED
      BY <1>5, <1>6, <1>7, <1>10, <2>1, <3>1, <3>2, Now DEF LateIsNoOlder, Accepts
  <2>5. QED
    BY <2>2, <2>3, <2>4
<1>19. AtTheRelay'
  <2>1. ~lost => /\ root.version <= row[root.password].version
                 /\ ~root.file => row[root.password].shards = root.shards
    BY <1>1, <1>3 DEF AtTheRelay
  <2>2. ~lost => /\ root.version <= row'[root.password].version
                 /\ ~root.file => row'[root.password].shards = root.shards
    BY <1>4, <1>5, <1>9, <2>1, Now
  <2>3. QED
    BY <1>6, <1>7, <1>10, <2>2 DEF AtTheRelay
<1>20. CleanIsThere'
  <2>1. marked <= written
    BY <1>1 DEF Bounded
  <2>2. CASE row' = row
    BY <1>1, <1>3, <1>6, <1>7, <1>10, <2>2 DEF CleanIsThere
  <2>3. CASE row' # row
    <3>1. row'[root.password].data = written
      BY <1>9, <2>3
    <3>2. QED
      BY <1>3, <1>6, <1>7, <1>10, <2>1, <3>1, Now DEF CleanIsThere
  <2>4. QED
    BY <2>2, <2>3
<1>21. OldIsClean'
  BY <1>1, <1>2, <1>3, <1>4, <1>5, <1>6, <1>7, <1>8, <1>9, <1>10, <1>11, Now, Nothing DEF
     OldIsClean
<1>22. QED
  BY <1>12, <1>13, <1>14, <1>15, <1>16, <1>17, <1>18, <1>19, <1>20, <1>21 DEF PhoneInv

LEMMA CopyTreeKeeps ==
  ASSUME PhoneSizes, PhoneInv, CopyTree
  PROVE  PhoneInv'
<1>1. TypeOK /\ JobsShape /\ PlacesAgree /\ ChangePrepared /\ Bounded /\ InFlight /\ LateIsNoOlder
      /\ AtTheRelay /\ CleanIsThere /\ OldIsClean
  BY DEF PhoneInv
<1>2. Here = "copy" /\ job # Idle
  BY <1>1, Working, Phases, NoSteps DEF CopyTree, Step
<1>3. ~journal /\ Recovered = root /\ Real(root) /\ root.data = written /\ ~Gone
  BY <1>1, <1>2, Working DEF Preparing, Gone
<1>4. ~Active /\ root.password \in Password
  BY <1>1, <1>2, <1>3, Now DEF InFlight
<1>5. /\ root' = root /\ old' = old /\ journal' = journal /\ row' = row /\ capsules' = capsules
      /\ open' = open /\ timer' = timer /\ backed' = backed /\ up' = up /\ late' = late
      /\ written' = written /\ marked' = marked /\ lost' = lost /\ faults' = faults
  BY <1>1, <1>2, <1>3, <1>4 DEF CopyTree, disk, memory, net, history
<1>6. /\ JobsShape' /\ job' \in JobType
      /\ job' = Idle => Here' = "none" /\ job'.kind = "none" /\ job'.mine = NoUpload
      /\ job' # Idle => job'.kind = job.kind /\ job'.mine = job.mine /\ job'.next = job.next
      /\ ((job.kind = "file" /\ Here' = "journal" /\ job' # Idle) \/ (job.kind = "relay" /\ Here' = "put" /\ job' # Idle))
  BY <1>1, <1>2, <1>3, <1>4, <1>5, Now, Stepped DEF CopyTree
<1>7. shards' = shards + 1 /\ shards' \in 1 .. MaxShards
  BY <1>1, <1>2, <1>3, <1>4, <1>5, <1>6, Now DEF CopyTree, PhoneSizes
<1>8. /\ stage' \in Dir /\ stage'.password = job.next /\ stage'.shards # 0
      /\ stage'.data = written /\ stage'.version = 0 /\ stage'.file = (job.kind = "file")
      /\ stage'.cloud = (job.kind = "relay")
  <2>1. stage' = [root EXCEPT !.password = job.next, !.shards = shards + 1, !.version = 0, !.dirty = TRUE,
                              !.file = (job.kind = "file"), !.cloud = (job.kind = "relay")]
    BY DEF CopyTree
  <2>2. shards + 1 \in 0 .. MaxShards /\ 0 \in 0 .. MaxUploads /\ (job.kind = "file") \in BOOLEAN
        /\ (job.kind = "relay") \in BOOLEAN /\ job.next \in Password /\ shards + 1 # 0
    BY <1>7, Now DEF PhoneSizes
  <2>3. QED
    BY <1>3, <2>1, <2>2, Now, ZenonT(60) DEF Dir
<1>9. Recovered' = root
  BY <1>1, <1>2, <1>3, <1>4, <1>5, <1>6, <1>7, <1>8, CountsAfter
<1>10. TypeOK'
  <2>1. /\ root' \in Dir /\ stage' \in Dir /\ old' \in Dir /\ journal' \in BOOLEAN
        /\ row' \in [Password -> Row] /\ capsules' \subseteq 1 .. MaxShards
        /\ open' \in BOOLEAN /\ timer' \in BOOLEAN /\ up' \in Prepared /\ late' \in Prepared
        /\ job' \in JobType
    BY <1>1, <1>2, <1>3, <1>4, <1>5, <1>6, <1>7, <1>8, <1>9, Now, Nothing
  <2>2. /\ backed' \in 0 .. Never /\ written' \in 0 .. MaxWrites /\ marked' \in 0 .. MaxWrites
        /\ shards' \in 1 .. MaxShards /\ lost' \in BOOLEAN /\ faults' \in 0 .. MaxFaults
    BY <1>1, <1>2, <1>3, <1>4, <1>5, <1>6, <1>7, <1>8, <1>9, Now DEF TypeOK, PhoneSizes
  <2>3. open' => ~journal'
    BY <1>1, <1>2, <1>3, <1>4, <1>5, <1>6, <1>7, <1>8, <1>9 DEF TypeOK
  <2>4. Active' => (open' \/ job'.kind = "lock")
    BY <1>1, <1>2, <1>3, <1>4, <1>5, <1>6, <1>7, <1>8, <1>9, Nothing DEF TypeOK, Active
  <2>5. QED
    BY <2>1, <2>2, <2>3, <2>4, TypedAfter
<1>11. JobsShape'
  BY <1>1, <1>2, <1>3, <1>4, <1>5, <1>6, <1>7, <1>8, <1>9 DEF JobsShape
<1>12. PlacesAgree'
  BY <1>1, <1>2, <1>3, <1>4, <1>5, <1>6, <1>7, <1>8, <1>9, Now, Nothing DEF PlacesAgree, Moving,
     Preparing, Real
<1>13. ChangePrepared'
  BY <1>1, <1>2, <1>3, <1>4, <1>5, <1>6, <1>7, <1>8, <1>9, Now, Nothing DEF ChangePrepared,
     PlacesAgree, Moving, Preparing, Real
<1>14. Bounded'
  BY <1>1, <1>2, <1>3, <1>4, <1>5, <1>6, <1>7, <1>8, <1>9, Now, Nothing DEF Bounded, PlacesAgree,
     Moving, Preparing, Real
<1>15. InFlight'
  BY <1>1, <1>2, <1>3, <1>4, <1>5, <1>6, <1>7, <1>8, <1>9, Now, Nothing DEF InFlight, Active,
     Bounded, Preparing
<1>16. LateIsNoOlder'
  BY <1>1, <1>2, <1>3, <1>4, <1>5, <1>6, <1>7, <1>8, <1>9, Now, Nothing DEF LateIsNoOlder,
     Accepts, Preparing
<1>17. AtTheRelay'
  BY <1>1, <1>2, <1>3, <1>4, <1>5, <1>6, <1>7, <1>8, <1>9, Now, Nothing DEF AtTheRelay, Gone,
     Preparing
<1>18. CleanIsThere'
  BY <1>1, <1>2, <1>3, <1>4, <1>5, <1>6, <1>7, <1>8, <1>9, Now, Nothing DEF CleanIsThere,
     AtTheRelay
<1>19. OldIsClean'
  BY <1>1, <1>2, <1>3, <1>4, <1>5, <1>6, <1>7, <1>8, <1>9, Now, Nothing DEF OldIsClean
<1>20. QED
  BY <1>10, <1>11, <1>12, <1>13, <1>14, <1>15, <1>16, <1>17, <1>18, <1>19 DEF PhoneInv

LEMMA PutTakenKeeps ==
  ASSUME PhoneSizes, PhoneInv, Put /\ PutTaken
  PROVE  PhoneInv'
<1>1. TypeOK /\ JobsShape /\ PlacesAgree /\ ChangePrepared /\ Bounded /\ InFlight /\ LateIsNoOlder
      /\ AtTheRelay /\ CleanIsThere /\ OldIsClean
  BY DEF PhoneInv
<1>2. Here = "put" /\ job # Idle
  BY <1>1, Working, Phases, NoSteps DEF Put, Step
<1>3. ~journal /\ Recovered = root /\ Real(root) /\ root.data = written /\ ~Gone
  BY <1>1, <1>2, Working DEF Preparing, Gone
<1>4. ~Active /\ root.password \in Password
  BY <1>1, <1>2, <1>3, Now DEF InFlight
<1>5. /\ job.kind = "relay" /\ Real(stage) /\ stage.password = job.next /\ stage.data = written
      /\ stage.version = 0 /\ ~stage.file /\ stage.password # root.password /\ ~root.file
      /\ FirstUpload \in Prepared /\ FirstUpload.password = stage.password
      /\ FirstUpload.data = written /\ FirstUpload.shards = stage.shards
      /\ FirstUpload.version = 1
  BY <1>1, <1>2, <1>3, <1>4, OwnsFirst
<1>6. /\ root' = root /\ old' = old /\ journal' = journal /\ capsules' = capsules
      /\ open' = open /\ timer' = timer /\ backed' = backed /\ up' = up /\ late' = late
      /\ shards' = shards /\ written' = written /\ marked' = marked /\ lost' = lost
  BY <1>1, <1>2, <1>3, <1>4, <1>5 DEF Put, disk, memory, net, history
<1>7. /\ JobsShape' /\ job' \in JobType
      /\ job' = Idle => Here' = "none" /\ job'.kind = "none" /\ job'.mine = NoUpload
      /\ job' # Idle => job'.kind = job.kind /\ job'.mine = job.mine /\ job'.next = job.next
      /\ (job.kind = "relay" /\ Here' = "delete" /\ job' # Idle)
  BY <1>1, <1>2, <1>3, <1>4, <1>5, <1>6, Now, Stepped DEF PutTaken
<1>8. /\ faults' = faults /\ stage' \in Dir /\ stage'.password = stage.password
      /\ stage'.shards = stage.shards /\ stage'.data = written /\ stage'.version = 1
      /\ ~stage'.file /\ stage'.shards # 0
  <2>1. 1 \in 0 .. MaxUploads
    BY DEF PhoneSizes
  <2>2. QED
    BY <1>5, <2>1, Now DEF PutTaken, Dir, Real
<1>9. /\ row' \in [Password -> Row] /\ row'[stage.password].version = 1
      /\ row'[stage.password].data = written /\ row'[stage.password].shards = stage.shards
      /\ \A p \in Password : p # stage.password => row'[p] = row[p]
  BY <1>1, <1>2, <1>3, <1>4, <1>5, <1>6, <1>7, <1>8, Now, Stores DEF PutTaken
<1>10. Recovered' = root
  BY <1>1, <1>2, <1>3, <1>4, <1>5, <1>6, <1>7, <1>8, <1>9, CountsAfter
<1>11. /\ \A p \in Password : row'[p].data \in Nat /\ row'[p].version \in Nat /\ row'[p].data <= written
  BY <1>1, <1>2, <1>3, <1>4, <1>5, <1>6, <1>7, <1>8, <1>9, <1>10, Now, Numbers DEF Bounded
<1>12. TypeOK'
  <2>1. /\ root' \in Dir /\ stage' \in Dir /\ old' \in Dir /\ journal' \in BOOLEAN
        /\ row' \in [Password -> Row] /\ capsules' \subseteq 1 .. MaxShards
        /\ open' \in BOOLEAN /\ timer' \in BOOLEAN /\ up' \in Prepared /\ late' \in Prepared
        /\ job' \in JobType
    BY <1>1, <1>2, <1>3, <1>4, <1>5, <1>6, <1>7, <1>8, <1>9, <1>10, <1>11, Now, Nothing
  <2>2. /\ backed' \in 0 .. Never /\ written' \in 0 .. MaxWrites /\ marked' \in 0 .. MaxWrites
        /\ shards' \in 1 .. MaxShards /\ lost' \in BOOLEAN /\ faults' \in 0 .. MaxFaults
    BY <1>1, <1>2, <1>3, <1>4, <1>5, <1>6, <1>7, <1>8, <1>9, <1>10, <1>11, Now DEF TypeOK,
       PhoneSizes
  <2>3. open' => ~journal'
    BY <1>1, <1>2, <1>3, <1>4, <1>5, <1>6, <1>7, <1>8, <1>9, <1>10, <1>11 DEF TypeOK
  <2>4. Active' => (open' \/ job'.kind = "lock")
    BY <1>1, <1>2, <1>3, <1>4, <1>5, <1>6, <1>7, <1>8, <1>9, <1>10, <1>11, Nothing DEF TypeOK,
       Active
  <2>5. QED
    BY <2>1, <2>2, <2>3, <2>4, TypedAfter
<1>13. JobsShape'
  BY <1>1, <1>2, <1>3, <1>4, <1>5, <1>6, <1>7, <1>8, <1>9, <1>10, <1>11 DEF JobsShape
<1>14. PlacesAgree'
  BY <1>1, <1>2, <1>3, <1>4, <1>5, <1>6, <1>7, <1>8, <1>9, <1>10, <1>11, Now, Nothing DEF
     PlacesAgree, Moving, Preparing, Real
<1>15. ChangePrepared'
  BY <1>1, <1>2, <1>3, <1>4, <1>5, <1>6, <1>7, <1>8, <1>9, <1>10, <1>11, Now, Nothing DEF
     ChangePrepared, PlacesAgree, Moving, Preparing, Real
<1>16. Bounded'
  BY <1>1, <1>2, <1>3, <1>4, <1>5, <1>6, <1>7, <1>8, <1>9, <1>10, <1>11, Now, Nothing DEF Bounded,
     PlacesAgree, Moving, Preparing, Real
<1>17. InFlight'
  BY <1>1, <1>2, <1>3, <1>4, <1>5, <1>6, <1>7, <1>8, <1>9, <1>10, <1>11, Now, Nothing DEF
     InFlight, Active, Bounded, Preparing
<1>18. LateIsNoOlder'
  BY <1>1, <1>2, <1>3, <1>4, <1>5, <1>6, <1>7, <1>8, <1>9, <1>10, <1>11, Now, Nothing DEF
     LateIsNoOlder, Accepts, Preparing
<1>19. AtTheRelay'
  BY <1>1, <1>2, <1>3, <1>4, <1>5, <1>6, <1>7, <1>8, <1>9, <1>10, <1>11, Now, Nothing DEF
     AtTheRelay, Gone, Preparing
<1>20. CleanIsThere'
  BY <1>1, <1>2, <1>3, <1>4, <1>5, <1>6, <1>7, <1>8, <1>9, <1>10, <1>11, Now, Nothing DEF
     CleanIsThere, AtTheRelay
<1>21. OldIsClean'
  BY <1>1, <1>2, <1>3, <1>4, <1>5, <1>6, <1>7, <1>8, <1>9, <1>10, <1>11, Now, Nothing DEF
     OldIsClean
<1>22. QED
  BY <1>12, <1>13, <1>14, <1>15, <1>16, <1>17, <1>18, <1>19, <1>20, <1>21 DEF PhoneInv

LEMMA PutFailsKeeps ==
  ASSUME PhoneSizes, PhoneInv, Put /\ PutFails
  PROVE  PhoneInv'
<1>1. TypeOK /\ JobsShape /\ PlacesAgree /\ ChangePrepared /\ Bounded /\ InFlight /\ LateIsNoOlder
      /\ AtTheRelay /\ CleanIsThere /\ OldIsClean
  BY DEF PhoneInv
<1>2. Here = "put" /\ job # Idle
  BY <1>1, Working, Phases, NoSteps DEF Put, Step
<1>3. ~journal /\ Recovered = root /\ Real(root) /\ root.data = written /\ ~Gone
  BY <1>1, <1>2, Working DEF Preparing, Gone
<1>4. ~Active /\ root.password \in Password
  BY <1>1, <1>2, <1>3, Now DEF InFlight
<1>5. /\ job.kind = "relay" /\ Real(stage) /\ stage.password = job.next /\ stage.data = written
      /\ stage.version = 0 /\ ~stage.file /\ stage.password # root.password /\ ~root.file
      /\ FirstUpload \in Prepared /\ FirstUpload.password = stage.password
      /\ FirstUpload.data = written /\ FirstUpload.shards = stage.shards
      /\ FirstUpload.version = 1
  BY <1>1, <1>2, <1>3, <1>4, OwnsFirst
<1>6. /\ root' = root /\ old' = old /\ journal' = journal /\ capsules' = capsules
      /\ open' = open /\ timer' = timer /\ backed' = backed /\ up' = up /\ late' = late
      /\ shards' = shards /\ written' = written /\ marked' = marked /\ lost' = lost
  BY <1>1, <1>2, <1>3, <1>4, <1>5 DEF Put, disk, memory, net, history
<1>7. /\ job' = Idle /\ JobsShape' /\ job' \in JobType /\ Here' = "none" /\ job'.kind = "none"
      /\ job'.mine = NoUpload
  BY <1>1, <1>2, <1>3, <1>4, <1>5, <1>6, Stopped DEF PutFails
<1>8. stage' = NoDir /\ faults' \in 0 .. MaxFaults
  BY <1>1, <1>2, <1>3, <1>4, <1>5, <1>6, <1>7 DEF PutFails
<1>9. row' = row \/ (row' \in [Password -> Row] /\ row'[stage.password].version = 1 /\ row'[stage.password].data = written
         /\ row'[stage.password].shards = stage.shards /\ \A p \in Password : p # stage.password
         => row'[p] = row[p])
  BY <1>1, <1>2, <1>3, <1>4, <1>5, <1>6, <1>7, <1>8, Now, Stores DEF PutFails
<1>10. Recovered' = root
  BY <1>1, <1>2, <1>3, <1>4, <1>5, <1>6, <1>7, <1>8, <1>9, CountsAfter
<1>11. /\ \A p \in Password : row'[p].data \in Nat /\ row'[p].version \in Nat /\ row'[p].data <= written
  BY <1>1, <1>2, <1>3, <1>4, <1>5, <1>6, <1>7, <1>8, <1>9, <1>10, Now, Numbers DEF Bounded
<1>12. TypeOK'
  <2>1. /\ root' \in Dir /\ stage' \in Dir /\ old' \in Dir /\ journal' \in BOOLEAN
        /\ row' \in [Password -> Row] /\ capsules' \subseteq 1 .. MaxShards
        /\ open' \in BOOLEAN /\ timer' \in BOOLEAN /\ up' \in Prepared /\ late' \in Prepared
        /\ job' \in JobType
    BY <1>1, <1>2, <1>3, <1>4, <1>5, <1>6, <1>7, <1>8, <1>9, <1>10, <1>11, Now, Nothing
  <2>2. /\ backed' \in 0 .. Never /\ written' \in 0 .. MaxWrites /\ marked' \in 0 .. MaxWrites
        /\ shards' \in 1 .. MaxShards /\ lost' \in BOOLEAN /\ faults' \in 0 .. MaxFaults
    BY <1>1, <1>2, <1>3, <1>4, <1>5, <1>6, <1>7, <1>8, <1>9, <1>10, <1>11, Now DEF TypeOK,
       PhoneSizes
  <2>3. open' => ~journal'
    BY <1>1, <1>2, <1>3, <1>4, <1>5, <1>6, <1>7, <1>8, <1>9, <1>10, <1>11 DEF TypeOK
  <2>4. Active' => (open' \/ job'.kind = "lock")
    BY <1>1, <1>2, <1>3, <1>4, <1>5, <1>6, <1>7, <1>8, <1>9, <1>10, <1>11, Nothing DEF TypeOK,
       Active
  <2>5. QED
    BY <2>1, <2>2, <2>3, <2>4, TypedAfter
<1>13. JobsShape'
  BY <1>1, <1>2, <1>3, <1>4, <1>5, <1>6, <1>7, <1>8, <1>9, <1>10, <1>11 DEF JobsShape
<1>14. PlacesAgree'
  BY <1>1, <1>2, <1>3, <1>4, <1>5, <1>6, <1>7, <1>8, <1>9, <1>10, <1>11, Now, Nothing DEF
     PlacesAgree, Moving, Preparing, Real
<1>15. ChangePrepared'
  BY <1>1, <1>2, <1>3, <1>4, <1>5, <1>6, <1>7, <1>8, <1>9, <1>10, <1>11, Now, Nothing DEF
     ChangePrepared, PlacesAgree, Moving, Preparing, Real
<1>16. Bounded'
  BY <1>1, <1>2, <1>3, <1>4, <1>5, <1>6, <1>7, <1>8, <1>9, <1>10, <1>11, Now, Nothing DEF Bounded,
     PlacesAgree, Moving, Preparing, Real
<1>17. InFlight'
  BY <1>1, <1>2, <1>3, <1>4, <1>5, <1>6, <1>7, <1>8, <1>9, <1>10, <1>11, Now, Nothing DEF
     InFlight, Active, Bounded, Preparing
<1>18. LateIsNoOlder'
  BY <1>1, <1>2, <1>3, <1>4, <1>5, <1>6, <1>7, <1>8, <1>9, <1>10, <1>11, Now, Nothing DEF
     LateIsNoOlder, Accepts, Preparing
<1>19. AtTheRelay'
  BY <1>1, <1>2, <1>3, <1>4, <1>5, <1>6, <1>7, <1>8, <1>9, <1>10, <1>11, Now, Nothing DEF
     AtTheRelay, Gone, Preparing
<1>20. CleanIsThere'
  BY <1>1, <1>2, <1>3, <1>4, <1>5, <1>6, <1>7, <1>8, <1>9, <1>10, <1>11, Now, Nothing DEF
     CleanIsThere, AtTheRelay
<1>21. OldIsClean'
  BY <1>1, <1>2, <1>3, <1>4, <1>5, <1>6, <1>7, <1>8, <1>9, <1>10, <1>11, Now, Nothing DEF
     OldIsClean
<1>22. QED
  BY <1>12, <1>13, <1>14, <1>15, <1>16, <1>17, <1>18, <1>19, <1>20, <1>21 DEF PhoneInv

LEMMA DeleteDoneKeeps ==
  ASSUME PhoneSizes, PhoneInv, Delete /\ DeleteDone
  PROVE  PhoneInv'
<1>1. TypeOK /\ JobsShape /\ PlacesAgree /\ ChangePrepared /\ Bounded /\ InFlight /\ LateIsNoOlder
      /\ AtTheRelay /\ CleanIsThere /\ OldIsClean
  BY DEF PhoneInv
<1>2. Here = "delete" /\ job # Idle
  BY <1>1, Working, Phases, NoSteps DEF Delete, Step
<1>3. ~journal /\ Recovered = root /\ Real(root) /\ root.data = written /\ ~Gone
  BY <1>1, <1>2, Working DEF Preparing, Gone
<1>4. ~Active /\ root.password \in Password
  BY <1>1, <1>2, <1>3, Now DEF InFlight
<1>5. /\ job.kind = "relay" /\ Real(stage) /\ stage.password = job.next /\ stage.data = written
      /\ ~stage.file /\ job.next # root.password /\ ~root.file /\ stage.password \in Password
  BY <1>1, <1>2, <1>3, <1>4, Phases, Now DEF ChangePrepared, Preparing
<1>6. /\ root' = root /\ stage' = stage /\ old' = old /\ journal' = journal
      /\ capsules' = capsules /\ open' = open /\ timer' = timer /\ backed' = backed /\ up' = up
      /\ shards' = shards /\ written' = written /\ marked' = marked
  BY <1>1, <1>2, <1>3, <1>4, <1>5 DEF Delete, disk, memory, net, history
<1>7. /\ JobsShape' /\ job' \in JobType
      /\ job' = Idle => Here' = "none" /\ job'.kind = "none" /\ job'.mine = NoUpload
      /\ job' # Idle => job'.kind = job.kind /\ job'.mine = job.mine /\ job'.next = job.next
      /\ (job.kind = "relay" /\ Here' = "journal" /\ job' # Idle)
  BY <1>1, <1>2, <1>3, <1>4, <1>5, <1>6, Now, Stepped DEF DeleteDone
<1>8. lost' = lost /\ faults' = faults
  BY <1>1, <1>2, <1>3, <1>4, <1>5, <1>6, <1>7 DEF DeleteDone
<1>9. row' \in [Password -> Row] /\ row'[root.password] = NoRow /\ (\A q \in Password : q # root.password => row'[q] = row[q])
      /\ late' \in Prepared /\ late'.password = late.password /\ late'.data = late.data
      /\ late'.shards = late.shards /\ late'.version = late.version
      /\ (late # NoUpload /\ late.password = root.password => late'.stale = TRUE)
      /\ (~(late # NoUpload /\ late.password = root.password) => late' = late)
      /\ (late.stale => late'.stale)
  BY <1>1, <1>2, <1>3, <1>4, <1>5, <1>6, <1>7, <1>8, Now, DeletesRow DEF DeleteDone
<1>10. Recovered' = root
  BY <1>1, <1>2, <1>3, <1>4, <1>5, <1>6, <1>7, <1>8, <1>9, CountsAfter
<1>11. \A p \in Password : row'[p] = row[p] \/ row'[p] = NoRow
  BY <1>1, <1>2, <1>3, <1>4, <1>5, <1>6, <1>7, <1>8, <1>9, <1>10, Now
<1>12. /\ \A p \in Password : row'[p].data \in Nat /\ row'[p].version \in Nat /\ row'[p].data <= written
  <2>1. \A p \in Password : row[p].data <= written
    BY <1>1 DEF Bounded
  <2>2. QED
    BY <1>11, <2>1, Now, Nothing, SMTT(30)
<1>13. TypeOK'
  <2>1. /\ root' \in Dir /\ stage' \in Dir /\ old' \in Dir /\ journal' \in BOOLEAN
        /\ row' \in [Password -> Row] /\ capsules' \subseteq 1 .. MaxShards
        /\ open' \in BOOLEAN /\ timer' \in BOOLEAN /\ up' \in Prepared /\ late' \in Prepared
        /\ job' \in JobType
    BY <1>1, <1>2, <1>3, <1>4, <1>5, <1>6, <1>7, <1>8, <1>9, <1>10, <1>11, <1>12, Now, Nothing
  <2>2. /\ backed' \in 0 .. Never /\ written' \in 0 .. MaxWrites /\ marked' \in 0 .. MaxWrites
        /\ shards' \in 1 .. MaxShards /\ lost' \in BOOLEAN /\ faults' \in 0 .. MaxFaults
    BY <1>1, <1>2, <1>3, <1>4, <1>5, <1>6, <1>7, <1>8, <1>9, <1>10, <1>11, <1>12, Now DEF TypeOK,
       PhoneSizes
  <2>3. open' => ~journal'
    BY <1>1, <1>2, <1>3, <1>4, <1>5, <1>6, <1>7, <1>8, <1>9, <1>10, <1>11, <1>12 DEF TypeOK
  <2>4. Active' => (open' \/ job'.kind = "lock")
    BY <1>1, <1>2, <1>3, <1>4, <1>5, <1>6, <1>7, <1>8, <1>9, <1>10, <1>11, <1>12, Nothing DEF
       TypeOK, Active
  <2>5. QED
    BY <2>1, <2>2, <2>3, <2>4, TypedAfter
<1>14. JobsShape'
  BY <1>1, <1>2, <1>3, <1>4, <1>5, <1>6, <1>7, <1>8, <1>9, <1>10, <1>11, <1>12 DEF JobsShape
<1>15. PlacesAgree'
  BY <1>1, <1>2, <1>3, <1>4, <1>5, <1>6, <1>7, <1>8, <1>9, <1>10, <1>11, <1>12, Now, Nothing DEF
     PlacesAgree, Moving, Preparing, Real
<1>16. ChangePrepared'
  BY <1>1, <1>2, <1>3, <1>4, <1>5, <1>6, <1>7, <1>8, <1>9, <1>10, <1>11, <1>12, Now, Nothing DEF
     ChangePrepared, PlacesAgree, Moving, Preparing, Real, LateIsNoOlder
<1>17. Bounded'
  BY <1>1, <1>2, <1>3, <1>4, <1>5, <1>6, <1>7, <1>8, <1>9, <1>10, <1>11, <1>12, Now, Nothing DEF
     Bounded, PlacesAgree, Moving, Preparing, Real
<1>18. InFlight'
  BY <1>1, <1>2, <1>3, <1>4, <1>5, <1>6, <1>7, <1>8, <1>9, <1>10, <1>11, <1>12, Now, Nothing DEF
     InFlight, Active, Bounded, Preparing
<1>19. LateIsNoOlder'
  BY <1>1, <1>2, <1>3, <1>4, <1>5, <1>6, <1>7, <1>8, <1>9, <1>10, <1>11, <1>12, Now, Nothing DEF
     LateIsNoOlder, Accepts, Preparing
<1>20. AtTheRelay'
  BY <1>1, <1>2, <1>3, <1>4, <1>5, <1>6, <1>7, <1>8, <1>9, <1>10, <1>11, <1>12, Now, Nothing DEF
     AtTheRelay, Gone, Preparing, ChangePrepared, LateIsNoOlder
<1>21. CleanIsThere'
  BY <1>1, <1>2, <1>3, <1>4, <1>5, <1>6, <1>7, <1>8, <1>9, <1>10, <1>11, <1>12, Now, Nothing DEF
     CleanIsThere, AtTheRelay, Real
<1>22. OldIsClean'
  BY <1>1, <1>2, <1>3, <1>4, <1>5, <1>6, <1>7, <1>8, <1>9, <1>10, <1>11, <1>12, Now, Nothing DEF
     OldIsClean
<1>23. QED
  BY <1>13, <1>14, <1>15, <1>16, <1>17, <1>18, <1>19, <1>20, <1>21, <1>22 DEF PhoneInv

LEMMA DeleteFailsKeeps ==
  ASSUME PhoneSizes, PhoneInv, Delete /\ DeleteFails
  PROVE  PhoneInv'
<1>1. TypeOK /\ JobsShape /\ PlacesAgree /\ ChangePrepared /\ Bounded /\ InFlight /\ LateIsNoOlder
      /\ AtTheRelay /\ CleanIsThere /\ OldIsClean
  BY DEF PhoneInv
<1>2. Here = "delete" /\ job # Idle
  BY <1>1, Working, Phases, NoSteps DEF Delete, Step
<1>3. ~journal /\ Recovered = root /\ Real(root) /\ root.data = written /\ ~Gone
  BY <1>1, <1>2, Working DEF Preparing, Gone
<1>4. ~Active /\ root.password \in Password
  BY <1>1, <1>2, <1>3, Now DEF InFlight
<1>5. /\ job.kind = "relay" /\ Real(stage) /\ stage.password = job.next /\ stage.data = written
      /\ ~stage.file /\ job.next # root.password /\ ~root.file /\ stage.password \in Password
  BY <1>1, <1>2, <1>3, <1>4, Phases, Now DEF ChangePrepared, Preparing
<1>6. /\ root' = root /\ stage' = stage /\ old' = old /\ journal' = journal
      /\ capsules' = capsules /\ open' = open /\ timer' = timer /\ backed' = backed /\ up' = up
      /\ shards' = shards /\ written' = written /\ marked' = marked
  BY <1>1, <1>2, <1>3, <1>4, <1>5 DEF Delete, disk, memory, net, history
<1>7. /\ JobsShape' /\ job' \in JobType /\ Here' = "undo" /\ job'.kind = "relay"
      /\ job'.mine = job.mine /\ job'.next = job.next /\ job' # Idle
  BY <1>1, <1>2, <1>3, <1>4, <1>5, <1>6, Now, Undone DEF DeleteFails
<1>8. faults' \in 0 .. MaxFaults
  BY <1>1, <1>2, <1>3, <1>4, <1>5, <1>6, <1>7 DEF DeleteFails
<1>9. \/ (row' = row /\ late' = late /\ lost' = lost)
      \/ /\ lost' = TRUE /\ row' \in [Password -> Row] /\ row'[root.password] = NoRow
         /\ \A q \in Password : q # root.password => row'[q] = row[q]
         /\ late' \in Prepared /\ late'.password = late.password /\ late'.data = late.data
         /\ late'.shards = late.shards /\ late'.version = late.version
         /\ (late # NoUpload /\ late.password = root.password => late'.stale = TRUE)
         /\ (~(late # NoUpload /\ late.password = root.password) => late' = late)
         /\ late.stale => late'.stale
  BY <1>1, <1>2, <1>3, <1>4, <1>5, <1>6, <1>7, <1>8, Now, DeletesRow DEF DeleteFails
<1>10. /\ Recovered' = root /\ row' \in [Password -> Row] /\ late' \in Prepared
      /\ lost' \in BOOLEAN /\ late'.data = late.data
      /\ (lost' \/ (row' = row /\ late' = late /\ lost' = lost))
  BY <1>1, <1>2, <1>3, <1>4, <1>5, <1>6, <1>7, <1>8, <1>9, Now, CountsAfter
<1>11. \A p \in Password : row'[p] = row[p] \/ row'[p] = NoRow
  BY <1>1, <1>2, <1>3, <1>4, <1>5, <1>6, <1>7, <1>8, <1>9, <1>10, Now
<1>12. /\ \A p \in Password : row'[p].data \in Nat /\ row'[p].version \in Nat /\ row'[p].data <= written
  BY <1>1, <1>2, <1>3, <1>4, <1>5, <1>6, <1>7, <1>8, <1>9, <1>10, <1>11, Now, Numbers, Nothing DEF
     Bounded
<1>13. TypeOK'
  <2>1. /\ root' \in Dir /\ stage' \in Dir /\ old' \in Dir /\ journal' \in BOOLEAN
        /\ row' \in [Password -> Row] /\ capsules' \subseteq 1 .. MaxShards
        /\ open' \in BOOLEAN /\ timer' \in BOOLEAN /\ up' \in Prepared /\ late' \in Prepared
        /\ job' \in JobType
    BY <1>1, <1>2, <1>3, <1>4, <1>5, <1>6, <1>7, <1>8, <1>9, <1>10, <1>11, <1>12, Now, Nothing
  <2>2. /\ backed' \in 0 .. Never /\ written' \in 0 .. MaxWrites /\ marked' \in 0 .. MaxWrites
        /\ shards' \in 1 .. MaxShards /\ lost' \in BOOLEAN /\ faults' \in 0 .. MaxFaults
    BY <1>1, <1>2, <1>3, <1>4, <1>5, <1>6, <1>7, <1>8, <1>9, <1>10, <1>11, <1>12, Now DEF TypeOK,
       PhoneSizes
  <2>3. open' => ~journal'
    BY <1>1, <1>2, <1>3, <1>4, <1>5, <1>6, <1>7, <1>8, <1>9, <1>10, <1>11, <1>12 DEF TypeOK
  <2>4. Active' => (open' \/ job'.kind = "lock")
    BY <1>1, <1>2, <1>3, <1>4, <1>5, <1>6, <1>7, <1>8, <1>9, <1>10, <1>11, <1>12, Nothing DEF
       TypeOK, Active
  <2>5. QED
    BY <2>1, <2>2, <2>3, <2>4, TypedAfter
<1>14. JobsShape'
  BY <1>1, <1>2, <1>3, <1>4, <1>5, <1>6, <1>7, <1>8, <1>9, <1>10, <1>11, <1>12 DEF JobsShape
<1>15. PlacesAgree'
  BY <1>1, <1>2, <1>3, <1>4, <1>5, <1>6, <1>7, <1>8, <1>9, <1>10, <1>11, <1>12, Now, Nothing DEF
     PlacesAgree, Moving, Preparing, Real
<1>16. ChangePrepared'
  BY <1>1, <1>2, <1>3, <1>4, <1>5, <1>6, <1>7, <1>8, <1>9, <1>10, <1>11, <1>12, Now, Nothing DEF
     ChangePrepared, PlacesAgree, Moving, Preparing, Real
<1>17. Bounded'
  BY <1>1, <1>2, <1>3, <1>4, <1>5, <1>6, <1>7, <1>8, <1>9, <1>10, <1>11, <1>12, Now, Nothing DEF
     Bounded, PlacesAgree, Moving, Preparing, Real
<1>18. InFlight'
  BY <1>1, <1>2, <1>3, <1>4, <1>5, <1>6, <1>7, <1>8, <1>9, <1>10, <1>11, <1>12, Now, Nothing DEF
     InFlight, Active, Bounded, Preparing
<1>19. LateIsNoOlder'
  BY <1>1, <1>2, <1>3, <1>4, <1>5, <1>6, <1>7, <1>8, <1>9, <1>10, <1>11, <1>12, Now, Nothing DEF
     LateIsNoOlder, Accepts, Preparing
<1>20. AtTheRelay'
  BY <1>1, <1>2, <1>3, <1>4, <1>5, <1>6, <1>7, <1>8, <1>9, <1>10, <1>11, <1>12, Now, Nothing DEF
     AtTheRelay, Gone, Preparing
<1>21. CleanIsThere'
  BY <1>1, <1>2, <1>3, <1>4, <1>5, <1>6, <1>7, <1>8, <1>9, <1>10, <1>11, <1>12, Now, Nothing DEF
     CleanIsThere, AtTheRelay
<1>22. OldIsClean'
  BY <1>1, <1>2, <1>3, <1>4, <1>5, <1>6, <1>7, <1>8, <1>9, <1>10, <1>11, <1>12, Now, Nothing DEF
     OldIsClean
<1>23. QED
  BY <1>13, <1>14, <1>15, <1>16, <1>17, <1>18, <1>19, <1>20, <1>21, <1>22 DEF PhoneInv

LEMMA UndoKeeps ==
  ASSUME PhoneSizes, PhoneInv, Undo
  PROVE  PhoneInv'
<1>1. TypeOK /\ JobsShape /\ PlacesAgree /\ ChangePrepared /\ Bounded /\ InFlight /\ LateIsNoOlder
      /\ AtTheRelay /\ CleanIsThere /\ OldIsClean
  BY DEF PhoneInv
<1>2. Here = "undo" /\ job # Idle
  BY <1>1, Working, Phases, NoSteps DEF Undo, Step
<1>3. ~journal /\ Recovered = root /\ Real(root) /\ root.data = written /\ ~Gone
  BY <1>1, <1>2, Working DEF Preparing, Gone
<1>4. ~Active /\ root.password \in Password
  BY <1>1, <1>2, <1>3, Now DEF InFlight
<1>5. /\ job.kind = "relay" /\ Real(stage) /\ stage.password = job.next /\ stage.data = written
      /\ ~stage.file /\ job.next # root.password /\ ~root.file /\ stage.password \in Password
  BY <1>1, <1>2, <1>3, <1>4, Phases, Now DEF ChangePrepared, Preparing
<1>6. /\ root' = root /\ old' = old /\ journal' = journal /\ capsules' = capsules
      /\ open' = open /\ timer' = timer /\ backed' = backed /\ up' = up /\ shards' = shards
      /\ written' = written /\ marked' = marked /\ lost' = lost
  BY <1>1, <1>2, <1>3, <1>4, <1>5 DEF Undo, disk, memory, net, history
<1>7. /\ job' = Idle /\ JobsShape' /\ job' \in JobType /\ Here' = "none" /\ job'.kind = "none"
      /\ job'.mine = NoUpload
  BY <1>1, <1>2, <1>3, <1>4, <1>5, <1>6, Stopped DEF Undo, Stop
<1>8. stage' \in {NoDir, stage} /\ stage' \in Dir /\ faults' \in 0 .. MaxFaults
  BY <1>1, <1>2, <1>3, <1>4, <1>5, <1>6, <1>7, Now, Nothing, Faults DEF Undo, TypeOK
<1>9. \/ (row' = row /\ late' = late)
      \/ /\ row' \in [Password -> Row] /\ row'[stage.password] = NoRow /\ (\A q \in Password : q # stage.password => row'[q] = row[q])
         /\ late' \in Prepared /\ late'.password = late.password /\ late'.data = late.data
         /\ late'.shards = late.shards /\ late'.version = late.version
         /\ (late # NoUpload /\ late.password = stage.password => late'.stale = TRUE)
         /\ (~(late # NoUpload /\ late.password = stage.password) => late' = late)
         /\ (late.stale => late'.stale)
  BY <1>1, <1>2, <1>3, <1>4, <1>5, <1>6, <1>7, <1>8, Now, DeletesRow DEF Undo
<1>10. /\ Recovered' = root /\ row' \in [Password -> Row] /\ late' \in Prepared
      /\ late'.data = late.data
  BY <1>1, <1>2, <1>3, <1>4, <1>5, <1>6, <1>7, <1>8, <1>9, Now, CountsAfter
<1>11. \A p \in Password : row'[p] = row[p] \/ row'[p] = NoRow
  BY <1>1, <1>2, <1>3, <1>4, <1>5, <1>6, <1>7, <1>8, <1>9, <1>10, Now
<1>12. /\ \A p \in Password : row'[p].data \in Nat /\ row'[p].version \in Nat /\ row'[p].data <= written
  BY <1>1, <1>2, <1>3, <1>4, <1>5, <1>6, <1>7, <1>8, <1>9, <1>10, <1>11, Now, Numbers, Nothing, SMTT(30) DEF
     Bounded
<1>13. TypeOK'
  <2>1. /\ root' \in Dir /\ stage' \in Dir /\ old' \in Dir /\ journal' \in BOOLEAN
        /\ row' \in [Password -> Row] /\ capsules' \subseteq 1 .. MaxShards
        /\ open' \in BOOLEAN /\ timer' \in BOOLEAN /\ up' \in Prepared /\ late' \in Prepared
        /\ job' \in JobType
    BY <1>1, <1>2, <1>3, <1>4, <1>5, <1>6, <1>7, <1>8, <1>9, <1>10, <1>11, <1>12, Now, Nothing
  <2>2. /\ backed' \in 0 .. Never /\ written' \in 0 .. MaxWrites /\ marked' \in 0 .. MaxWrites
        /\ shards' \in 1 .. MaxShards /\ lost' \in BOOLEAN /\ faults' \in 0 .. MaxFaults
    BY <1>1, <1>2, <1>3, <1>4, <1>5, <1>6, <1>7, <1>8, <1>9, <1>10, <1>11, <1>12, Now DEF TypeOK,
       PhoneSizes
  <2>3. open' => ~journal'
    BY <1>1, <1>2, <1>3, <1>4, <1>5, <1>6, <1>7, <1>8, <1>9, <1>10, <1>11, <1>12 DEF TypeOK
  <2>4. Active' => (open' \/ job'.kind = "lock")
    BY <1>1, <1>2, <1>3, <1>4, <1>5, <1>6, <1>7, <1>8, <1>9, <1>10, <1>11, <1>12, Nothing DEF
       TypeOK, Active
  <2>5. QED
    BY <2>1, <2>2, <2>3, <2>4, TypedAfter
<1>14. JobsShape'
  BY <1>1, <1>2, <1>3, <1>4, <1>5, <1>6, <1>7, <1>8, <1>9, <1>10, <1>11, <1>12 DEF JobsShape
<1>15. PlacesAgree'
  BY <1>1, <1>2, <1>3, <1>4, <1>5, <1>6, <1>7, <1>8, <1>9, <1>10, <1>11, <1>12, Now, Nothing DEF
     PlacesAgree, Moving, Preparing, Real
<1>16. ChangePrepared'
  BY <1>1, <1>2, <1>3, <1>4, <1>5, <1>6, <1>7, <1>8, <1>9, <1>10, <1>11, <1>12, Now, Nothing DEF
     ChangePrepared, PlacesAgree, Moving, Preparing, Real
<1>17. Bounded'
  BY <1>1, <1>2, <1>3, <1>4, <1>5, <1>6, <1>7, <1>8, <1>9, <1>10, <1>11, <1>12, Now, Nothing DEF
     Bounded, PlacesAgree, Moving, Preparing, Real
<1>18. InFlight'
  BY <1>1, <1>2, <1>3, <1>4, <1>5, <1>6, <1>7, <1>8, <1>9, <1>10, <1>11, <1>12, Now, Nothing DEF
     InFlight, Active, Bounded, Preparing
<1>19. LateIsNoOlder'
  BY <1>1, <1>2, <1>3, <1>4, <1>5, <1>6, <1>7, <1>8, <1>9, <1>10, <1>11, <1>12, Now, Nothing DEF
     LateIsNoOlder, Accepts, Preparing
<1>20. AtTheRelay'
  BY <1>1, <1>2, <1>3, <1>4, <1>5, <1>6, <1>7, <1>8, <1>9, <1>10, <1>11, <1>12, Now, Nothing DEF
     AtTheRelay, Gone, Preparing
<1>21. CleanIsThere'
  BY <1>1, <1>2, <1>3, <1>4, <1>5, <1>6, <1>7, <1>8, <1>9, <1>10, <1>11, <1>12, Now, Nothing DEF
     CleanIsThere, AtTheRelay
<1>22. OldIsClean'
  BY <1>1, <1>2, <1>3, <1>4, <1>5, <1>6, <1>7, <1>8, <1>9, <1>10, <1>11, <1>12, Now, Nothing DEF
     OldIsClean
<1>23. QED
  BY <1>13, <1>14, <1>15, <1>16, <1>17, <1>18, <1>19, <1>20, <1>21, <1>22 DEF PhoneInv

LEMMA JournalKeeps ==
  ASSUME PhoneSizes, PhoneInv, Journal
  PROVE  PhoneInv'
<1>1. TypeOK /\ JobsShape /\ PlacesAgree /\ ChangePrepared /\ Bounded /\ InFlight /\ LateIsNoOlder
      /\ AtTheRelay /\ CleanIsThere /\ OldIsClean
  BY DEF PhoneInv
<1>2. Here = "journal" /\ job # Idle
  BY <1>1, Working, Phases, NoSteps DEF Journal, Step
<1>3. ~journal /\ Recovered = root /\ Real(root) /\ root.data = written
  BY <1>1, <1>2, Working DEF Preparing
<1>4. ~Active /\ root.password \in Password /\ job.kind \in {"file", "relay"}
  BY <1>1, <1>2, <1>3, Now, Phases DEF InFlight
<1>5. /\ root' = root /\ stage' = stage /\ old' = old /\ row' = row /\ capsules' = capsules
      /\ timer' = timer /\ backed' = backed /\ up' = up /\ late' = late /\ shards' = shards
      /\ written' = written /\ marked' = marked /\ lost' = lost /\ faults' = faults
  BY <1>1, <1>2, <1>3, <1>4 DEF Journal, disk, memory, net, history
<1>6. /\ JobsShape' /\ job' \in JobType
      /\ job' = Idle => Here' = "none" /\ job'.kind = "none" /\ job'.mine = NoUpload
      /\ job' # Idle => job'.kind = job.kind /\ job'.mine = job.mine /\ job'.next = job.next
      /\ (job.kind \in {"file", "relay"} /\ Here' = "aside" /\ job' # Idle)
  BY <1>1, <1>2, <1>3, <1>4, <1>5, Now, Stepped DEF Journal
<1>7. journal' = TRUE /\ open' = FALSE
  BY <1>1, <1>2, <1>3, <1>4, <1>5, <1>6 DEF Journal
<1>8. stage.password \in Password /\ stage.password # root.password /\ Real(stage) /\ stage.data = written /\ (job.kind = "file" => stage.file /\ ~stage.cloud /\ stage.version = 0)
      /\ (job.kind = "relay" => ~stage.file /\ (lost \/ (row[stage.password].shards = stage.shards /\ row[stage.password].data = written /\ stage.version <= row[stage.password].version /\ (late = NoUpload \/ late.stale) /\ row[root.password] = NoRow)))
  BY <1>1, <1>2, <1>3, <1>4, <1>5, <1>6, <1>7, Now DEF ChangePrepared, Preparing
<1>9. stage # NoDir /\ Recovered' = stage
  BY <1>1, <1>2, <1>3, <1>4, <1>5, <1>6, <1>7, <1>8, CountsAfter, Nothing DEF Real
<1>10. TypeOK'
  <2>1. /\ root' \in Dir /\ stage' \in Dir /\ old' \in Dir /\ journal' \in BOOLEAN
        /\ row' \in [Password -> Row] /\ capsules' \subseteq 1 .. MaxShards
        /\ open' \in BOOLEAN /\ timer' \in BOOLEAN /\ up' \in Prepared /\ late' \in Prepared
        /\ job' \in JobType
    BY <1>1, <1>2, <1>3, <1>4, <1>5, <1>6, <1>7, <1>8, <1>9, Now, Nothing
  <2>2. /\ backed' \in 0 .. Never /\ written' \in 0 .. MaxWrites /\ marked' \in 0 .. MaxWrites
        /\ shards' \in 1 .. MaxShards /\ lost' \in BOOLEAN /\ faults' \in 0 .. MaxFaults
    BY <1>1, <1>2, <1>3, <1>4, <1>5, <1>6, <1>7, <1>8, <1>9, Now DEF TypeOK, PhoneSizes
  <2>3. open' => ~journal'
    BY <1>1, <1>2, <1>3, <1>4, <1>5, <1>6, <1>7, <1>8, <1>9 DEF TypeOK
  <2>4. Active' => (open' \/ job'.kind = "lock")
    BY <1>1, <1>2, <1>3, <1>4, <1>5, <1>6, <1>7, <1>8, <1>9, Nothing DEF TypeOK, Active
  <2>5. QED
    BY <2>1, <2>2, <2>3, <2>4, TypedAfter
<1>11. JobsShape'
  BY <1>1, <1>2, <1>3, <1>4, <1>5, <1>6, <1>7, <1>8, <1>9 DEF JobsShape
<1>12. PlacesAgree'
  BY <1>1, <1>2, <1>3, <1>4, <1>5, <1>6, <1>7, <1>8, <1>9, Now, Nothing DEF PlacesAgree, Moving,
     Preparing, Real
<1>13. ChangePrepared'
  BY <1>1, <1>2, <1>3, <1>4, <1>5, <1>6, <1>7, <1>8, <1>9, Now, Nothing DEF ChangePrepared,
     PlacesAgree, Moving, Preparing, Real
<1>14. Bounded'
  BY <1>1, <1>2, <1>3, <1>4, <1>5, <1>6, <1>7, <1>8, <1>9, Now, Nothing DEF Bounded, PlacesAgree,
     Moving, Preparing, Real
<1>15. InFlight'
  BY <1>1, <1>2, <1>3, <1>4, <1>5, <1>6, <1>7, <1>8, <1>9, Now, Nothing DEF InFlight, Active,
     Bounded, Preparing
<1>16. LateIsNoOlder'
  BY <1>1, <1>2, <1>3, <1>4, <1>5, <1>6, <1>7, <1>8, <1>9, Now, Nothing DEF LateIsNoOlder,
     Accepts, Preparing
<1>17. AtTheRelay'
  BY <1>1, <1>2, <1>3, <1>4, <1>5, <1>6, <1>7, <1>8, <1>9, Now, Nothing DEF AtTheRelay, Gone,
     Preparing
<1>18. CleanIsThere'
  <2>1. marked <= written
    BY <1>1 DEF Bounded
  <2>2. stage.cloud => job.kind = "relay"
    BY <1>4, <1>8
  <2>3. ~lost /\ stage.cloud => row[stage.password].data = written
    BY <1>8, <2>2
  <2>4. QED
    BY <1>5, <1>7, <1>9, <2>1, <2>3, Now DEF CleanIsThere
<1>19. OldIsClean'
  <2>1. CASE job.kind = "file"
    <3>1. root.cloud => root.file
      BY <1>1, <1>2, <2>1 DEF ChangePrepared, Preparing
    <3>2. ~lost /\ root.cloud /\ ~root.dirty => row[root.password].data >= marked
      BY <1>1, <1>3, <3>1 DEF CleanIsThere
    <3>3. QED
      BY <1>5, <1>8, <2>1, <3>1, <3>2 DEF OldIsClean
  <2>2. CASE job.kind = "relay"
    BY <1>1, <1>2, <1>5, <1>8, <2>2 DEF OldIsClean, ChangePrepared, Preparing
  <2>3. QED
    BY <1>4, <2>1, <2>2
<1>20. QED
  BY <1>10, <1>11, <1>12, <1>13, <1>14, <1>15, <1>16, <1>17, <1>18, <1>19 DEF PhoneInv

LEMMA AsideKeeps ==
  ASSUME PhoneSizes, PhoneInv, Aside
  PROVE  PhoneInv'
<1>1. TypeOK /\ JobsShape /\ PlacesAgree /\ ChangePrepared /\ Bounded /\ InFlight /\ LateIsNoOlder
      /\ AtTheRelay /\ CleanIsThere /\ OldIsClean
  BY DEF PhoneInv
<1>2. Here = "aside" /\ job # Idle
  BY <1>1, Working, Phases, NoSteps DEF Aside, Step
<1>3. /\ journal /\ ~open /\ ~Active /\ job.kind \in {"file", "relay", "recover"}
      /\ job.mine = NoUpload /\ ~Gone
  BY <1>1, <1>2, Phases, Now DEF PlacesAgree, Moving, InFlight, Bounded, Gone
<1>4. /\ stage' = stage /\ journal' = journal /\ row' = row /\ capsules' = capsules
      /\ open' = open /\ timer' = timer /\ backed' = backed /\ up' = up /\ late' = late
      /\ shards' = shards /\ written' = written /\ marked' = marked /\ lost' = lost
      /\ faults' = faults
  BY <1>1, <1>2, <1>3 DEF Aside, disk, memory, net, history
<1>5. /\ JobsShape' /\ job' \in JobType
      /\ job' = Idle => Here' = "none" /\ job'.kind = "none" /\ job'.mine = NoUpload
      /\ job' # Idle => job'.kind = job.kind /\ job'.mine = job.mine /\ job'.next = job.next
      /\ (Here' = "switch" /\ job' # Idle)
  BY <1>1, <1>2, <1>3, <1>4, Now, Stepped DEF Aside
<1>6. /\ Recovered' = Recovered /\ root' \in Dir /\ old' \in Dir
      /\ (stage = NoDir \/ root' = NoDir)
  BY <1>1, <1>2, <1>3, <1>4, <1>5, CountsAfter, Counts, Now, Nothing DEF Aside
<1>7. TypeOK'
  <2>1. /\ root' \in Dir /\ stage' \in Dir /\ old' \in Dir /\ journal' \in BOOLEAN
        /\ row' \in [Password -> Row] /\ capsules' \subseteq 1 .. MaxShards
        /\ open' \in BOOLEAN /\ timer' \in BOOLEAN /\ up' \in Prepared /\ late' \in Prepared
        /\ job' \in JobType
    BY <1>1, <1>2, <1>3, <1>4, <1>5, <1>6, Now, Nothing
  <2>2. /\ backed' \in 0 .. Never /\ written' \in 0 .. MaxWrites /\ marked' \in 0 .. MaxWrites
        /\ shards' \in 1 .. MaxShards /\ lost' \in BOOLEAN /\ faults' \in 0 .. MaxFaults
    BY <1>1, <1>2, <1>3, <1>4, <1>5, <1>6, Now DEF TypeOK, PhoneSizes
  <2>3. open' => ~journal'
    BY <1>1, <1>2, <1>3, <1>4, <1>5, <1>6 DEF TypeOK
  <2>4. Active' => (open' \/ job'.kind = "lock")
    BY <1>1, <1>2, <1>3, <1>4, <1>5, <1>6, Nothing DEF TypeOK, Active
  <2>5. QED
    BY <2>1, <2>2, <2>3, <2>4, TypedAfter
<1>8. JobsShape'
  BY <1>1, <1>2, <1>3, <1>4, <1>5, <1>6 DEF JobsShape
<1>9. PlacesAgree'
  BY <1>1, <1>2, <1>3, <1>4, <1>5, <1>6, Now, Nothing DEF PlacesAgree, Moving, Preparing, Real
<1>10. ChangePrepared'
  BY <1>1, <1>2, <1>3, <1>4, <1>5, <1>6, Now, Nothing DEF ChangePrepared, PlacesAgree, Moving,
     Preparing, Real
<1>11. Bounded'
  BY <1>1, <1>2, <1>3, <1>4, <1>5, <1>6, Now, Nothing DEF Bounded, PlacesAgree, Moving, Preparing,
     Real
<1>12. InFlight'
  BY <1>1, <1>2, <1>3, <1>4, <1>5, <1>6, Now, Nothing DEF InFlight, Active, Bounded, Preparing
<1>13. LateIsNoOlder'
  BY <1>1, <1>2, <1>3, <1>4, <1>5, <1>6, Now, Nothing DEF LateIsNoOlder, Accepts, Preparing
<1>14. AtTheRelay'
  BY <1>1, <1>2, <1>3, <1>4, <1>5, <1>6, Now, Nothing DEF AtTheRelay, Gone, Preparing
<1>15. CleanIsThere'
  BY <1>1, <1>2, <1>3, <1>4, <1>5, <1>6, Now, Nothing DEF CleanIsThere, AtTheRelay
<1>16. OldIsClean'
  BY <1>1, <1>2, <1>3, <1>4, <1>5, <1>6, Now, Nothing DEF OldIsClean
<1>17. QED
  BY <1>7, <1>8, <1>9, <1>10, <1>11, <1>12, <1>13, <1>14, <1>15, <1>16 DEF PhoneInv

LEMMA SwitchKeeps ==
  ASSUME PhoneSizes, PhoneInv, Switch
  PROVE  PhoneInv'
<1>1. TypeOK /\ JobsShape /\ PlacesAgree /\ ChangePrepared /\ Bounded /\ InFlight /\ LateIsNoOlder
      /\ AtTheRelay /\ CleanIsThere /\ OldIsClean
  BY DEF PhoneInv
<1>2. Here = "switch" /\ job # Idle
  BY <1>1, Working, Phases, NoSteps DEF Switch, Step
<1>3. /\ journal /\ ~open /\ ~Active /\ job.kind \in {"file", "relay", "recover"}
      /\ job.mine = NoUpload /\ ~Gone
  BY <1>1, <1>2, Phases, Now DEF PlacesAgree, Moving, InFlight, Bounded, Gone
<1>4. /\ old' = old /\ journal' = journal /\ row' = row /\ capsules' = capsules /\ open' = open
      /\ timer' = timer /\ backed' = backed /\ up' = up /\ late' = late /\ shards' = shards
      /\ written' = written /\ marked' = marked /\ lost' = lost /\ faults' = faults
  BY <1>1, <1>2, <1>3 DEF Switch, disk, memory, net, history
<1>5. /\ JobsShape' /\ job' \in JobType
      /\ job' = Idle => Here' = "none" /\ job'.kind = "none" /\ job'.mine = NoUpload
      /\ job' # Idle => job'.kind = job.kind /\ job'.mine = job.mine /\ job'.next = job.next
      /\ (Here' = "settle" /\ job' # Idle)
  BY <1>1, <1>2, <1>3, <1>4, Now, Stepped DEF Switch
<1>6. /\ Recovered' = Recovered /\ root' = Recovered /\ root' \in Dir /\ root' # NoDir
      /\ stage' = NoDir /\ stage' \in Dir
  <2>1. root' = Recovered /\ stage' = NoDir
    BY <1>3, Counts DEF Switch
  <2>2. Real(Recovered)
    BY <1>1 DEF PlacesAgree
  <2>3. Recovered # NoDir
    BY <2>2, Nothing DEF Real
  <2>4. QED
    BY <1>3, <1>4, <2>1, <2>2, <2>3, CountsAfter, Nothing DEF Real
<1>7. TypeOK'
  <2>1. /\ root' \in Dir /\ stage' \in Dir /\ old' \in Dir /\ journal' \in BOOLEAN
        /\ row' \in [Password -> Row] /\ capsules' \subseteq 1 .. MaxShards
        /\ open' \in BOOLEAN /\ timer' \in BOOLEAN /\ up' \in Prepared /\ late' \in Prepared
        /\ job' \in JobType
    BY <1>1, <1>2, <1>3, <1>4, <1>5, <1>6, Now, Nothing
  <2>2. /\ backed' \in 0 .. Never /\ written' \in 0 .. MaxWrites /\ marked' \in 0 .. MaxWrites
        /\ shards' \in 1 .. MaxShards /\ lost' \in BOOLEAN /\ faults' \in 0 .. MaxFaults
    BY <1>1, <1>2, <1>3, <1>4, <1>5, <1>6, Now DEF TypeOK, PhoneSizes
  <2>3. open' => ~journal'
    BY <1>1, <1>2, <1>3, <1>4, <1>5, <1>6 DEF TypeOK
  <2>4. Active' => (open' \/ job'.kind = "lock")
    BY <1>1, <1>2, <1>3, <1>4, <1>5, <1>6, Nothing DEF TypeOK, Active
  <2>5. QED
    BY <2>1, <2>2, <2>3, <2>4, TypedAfter
<1>8. JobsShape'
  BY <1>1, <1>2, <1>3, <1>4, <1>5, <1>6 DEF JobsShape
<1>9. PlacesAgree'
  BY <1>1, <1>2, <1>3, <1>4, <1>5, <1>6, Now, Nothing DEF PlacesAgree, Moving, Preparing, Real
<1>10. ChangePrepared'
  BY <1>1, <1>2, <1>3, <1>4, <1>5, <1>6, Now, Nothing DEF ChangePrepared, PlacesAgree, Moving,
     Preparing, Real
<1>11. Bounded'
  BY <1>1, <1>2, <1>3, <1>4, <1>5, <1>6, Now, Nothing DEF Bounded, PlacesAgree, Moving, Preparing,
     Real
<1>12. InFlight'
  BY <1>1, <1>2, <1>3, <1>4, <1>5, <1>6, Now, Nothing DEF InFlight, Active, Bounded, Preparing
<1>13. LateIsNoOlder'
  BY <1>1, <1>2, <1>3, <1>4, <1>5, <1>6, Now, Nothing DEF LateIsNoOlder, Accepts, Preparing
<1>14. AtTheRelay'
  BY <1>1, <1>2, <1>3, <1>4, <1>5, <1>6, Now, Nothing DEF AtTheRelay, Gone, Preparing
<1>15. CleanIsThere'
  BY <1>1, <1>2, <1>3, <1>4, <1>5, <1>6, Now, Nothing DEF CleanIsThere, AtTheRelay
<1>16. OldIsClean'
  BY <1>1, <1>2, <1>3, <1>4, <1>5, <1>6, Now, Nothing DEF OldIsClean
<1>17. QED
  BY <1>7, <1>8, <1>9, <1>10, <1>11, <1>12, <1>13, <1>14, <1>15, <1>16 DEF PhoneInv

LEMMA SettleKeeps ==
  ASSUME PhoneSizes, PhoneInv, Settle
  PROVE  PhoneInv'
<1>1. TypeOK /\ JobsShape /\ PlacesAgree /\ ChangePrepared /\ Bounded /\ InFlight /\ LateIsNoOlder
      /\ AtTheRelay /\ CleanIsThere /\ OldIsClean
  BY DEF PhoneInv
<1>2. Here = "settle" /\ job # Idle
  BY <1>1, Working, Phases, NoSteps DEF Settle, Step
<1>3. /\ journal /\ ~open /\ ~Active /\ job.kind \in {"file", "relay", "recover"}
      /\ job.mine = NoUpload /\ ~Gone
  BY <1>1, <1>2, Phases, Now DEF PlacesAgree, Moving, InFlight, Bounded, Gone
<1>4. /\ root' = root /\ stage' = stage /\ old' = old /\ row' = row /\ capsules' = capsules
      /\ open' = open /\ timer' = timer /\ backed' = backed /\ up' = up /\ late' = late
      /\ shards' = shards /\ written' = written /\ marked' = marked /\ lost' = lost
      /\ faults' = faults
  BY <1>1, <1>2, <1>3 DEF Settle, disk, memory, net, history
<1>5. /\ JobsShape' /\ job' \in JobType
      /\ job' = Idle => Here' = "none" /\ job'.kind = "none" /\ job'.mine = NoUpload
      /\ job' # Idle => job'.kind = job.kind /\ job'.mine = job.mine /\ job'.next = job.next
      /\ ((job.kind \in {"file", "relay"} /\ Here' = "open" /\ job' # Idle) \/ (job.kind = "recover" /\ job' = Idle))
  BY <1>1, <1>2, <1>3, <1>4, Now, Stepped DEF Settle
<1>6. journal' = FALSE /\ Recovered = root /\ Recovered' = root
  BY <1>1, <1>2, <1>3, <1>4, <1>5, CountsAfter, Counts DEF Settle, PlacesAgree
<1>7. TypeOK'
  <2>1. /\ root' \in Dir /\ stage' \in Dir /\ old' \in Dir /\ journal' \in BOOLEAN
        /\ row' \in [Password -> Row] /\ capsules' \subseteq 1 .. MaxShards
        /\ open' \in BOOLEAN /\ timer' \in BOOLEAN /\ up' \in Prepared /\ late' \in Prepared
        /\ job' \in JobType
    BY <1>1, <1>2, <1>3, <1>4, <1>5, <1>6, Now, Nothing
  <2>2. /\ backed' \in 0 .. Never /\ written' \in 0 .. MaxWrites /\ marked' \in 0 .. MaxWrites
        /\ shards' \in 1 .. MaxShards /\ lost' \in BOOLEAN /\ faults' \in 0 .. MaxFaults
    BY <1>1, <1>2, <1>3, <1>4, <1>5, <1>6, Now DEF TypeOK, PhoneSizes
  <2>3. open' => ~journal'
    BY <1>1, <1>2, <1>3, <1>4, <1>5, <1>6 DEF TypeOK
  <2>4. Active' => (open' \/ job'.kind = "lock")
    BY <1>1, <1>2, <1>3, <1>4, <1>5, <1>6, Nothing DEF TypeOK, Active
  <2>5. QED
    BY <2>1, <2>2, <2>3, <2>4, TypedAfter
<1>8. JobsShape'
  BY <1>1, <1>2, <1>3, <1>4, <1>5, <1>6 DEF JobsShape
<1>9. PlacesAgree'
  BY <1>1, <1>2, <1>3, <1>4, <1>5, <1>6, Now, Nothing DEF PlacesAgree, Moving, Preparing, Real
<1>10. ChangePrepared'
  BY <1>1, <1>2, <1>3, <1>4, <1>5, <1>6, Now, Nothing DEF ChangePrepared, PlacesAgree, Moving,
     Preparing, Real
<1>11. Bounded'
  BY <1>1, <1>2, <1>3, <1>4, <1>5, <1>6, Now, Nothing DEF Bounded, PlacesAgree, Moving, Preparing,
     Real
<1>12. InFlight'
  BY <1>1, <1>2, <1>3, <1>4, <1>5, <1>6, Now, Nothing DEF InFlight, Active, Bounded, Preparing
<1>13. LateIsNoOlder'
  BY <1>1, <1>2, <1>3, <1>4, <1>5, <1>6, Now, Nothing DEF LateIsNoOlder, Accepts, Preparing
<1>14. AtTheRelay'
  BY <1>1, <1>2, <1>3, <1>4, <1>5, <1>6, Now, Nothing DEF AtTheRelay, Gone, Preparing
<1>15. CleanIsThere'
  BY <1>1, <1>2, <1>3, <1>4, <1>5, <1>6, Now, Nothing DEF CleanIsThere, AtTheRelay
<1>16. OldIsClean'
  BY <1>1, <1>2, <1>3, <1>4, <1>5, <1>6, Now, Nothing DEF OldIsClean
<1>17. QED
  BY <1>7, <1>8, <1>9, <1>10, <1>11, <1>12, <1>13, <1>14, <1>15, <1>16 DEF PhoneInv

LEMMA OpenKeeps ==
  ASSUME PhoneSizes, PhoneInv, Open
  PROVE  PhoneInv'
<1>1. TypeOK /\ JobsShape /\ PlacesAgree /\ ChangePrepared /\ Bounded /\ InFlight /\ LateIsNoOlder
      /\ AtTheRelay /\ CleanIsThere /\ OldIsClean
  BY DEF PhoneInv
<1>2. Here = "open" /\ job # Idle
  BY <1>1, Working, Phases, NoSteps DEF Open, Step
<1>3. /\ ~journal /\ Recovered = root /\ Real(root) /\ root.data = written /\ ~Gone /\ ~open
      /\ ~Active /\ job.kind \in {"file", "relay"} /\ job.mine = NoUpload
      /\ (root.file => ~root.cloud)
  BY <1>1, <1>2, Phases, Working DEF Gone, PlacesAgree, InFlight, Bounded, ChangePrepared
<1>4. /\ stage' = stage /\ old' = old /\ journal' = journal /\ row' = row
      /\ capsules' = capsules /\ timer' = timer /\ up' = up /\ late' = late /\ shards' = shards
      /\ written' = written /\ marked' = marked /\ lost' = lost
  BY <1>1, <1>2, <1>3 DEF Open, disk, memory, net, history
<1>5. /\ root' \in Dir /\ root'.password = root.password /\ root'.data = root.data
      /\ root'.shards = root.shards /\ root'.file = root.file /\ root'.cloud = root.cloud
      /\ root'.dirty = root.dirty
  BY <1>1, <1>2, <1>3, <1>4, Now, OpenedDir DEF Open
<1>6. \/ (open' = FALSE /\ root' = root /\ backed' = backed /\ job' = Idle)
      \/ (open' = TRUE /\ Advance /\ (root.file => root' = root /\ backed' = backed)
          /\ (~root.file => root'.version = row[root.password].version /\ row[root.password].shards = root.shards /\ backed' = Never))
  BY <1>1, <1>2, <1>3, <1>4, <1>5, Now, OpenedDir DEF Open, Opens, Stop
<1>7. /\ JobsShape' /\ job' \in JobType
      /\ job' = Idle => Here' = "none" /\ job'.kind = "none" /\ job'.mine = NoUpload
      /\ job' # Idle => job'.kind = job.kind /\ job'.mine = job.mine /\ job'.next = job.next
      /\ \/ job' = Idle /\ ~open' /\ root' = root
         \/ (Here' = "answer" /\ open' /\ job' # Idle)
  BY <1>1, <1>2, <1>3, <1>4, <1>5, <1>6, Now, Stepped, Stopped
<1>8. faults' \in 0 .. MaxFaults
  BY <1>1, <1>2, <1>3, <1>4, <1>5, <1>6, <1>7, Faults DEF Open, TypeOK
<1>9. Recovered' = root' /\ open' \in BOOLEAN
  BY <1>1, <1>2, <1>3, <1>4, <1>5, <1>6, <1>7, <1>8, CountsAfter
<1>10. written < Never /\ Never \in 0 .. Never /\ backed \in 0 .. Never
  BY <1>1, <1>2, <1>3, <1>4, <1>5, <1>6, <1>7, <1>8, <1>9, Now DEF TypeOK
<1>11. backed' \in 0 .. Never
  BY <1>1, <1>2, <1>3, <1>4, <1>5, <1>6, <1>7, <1>8, <1>9, <1>10, Now
<1>12. TypeOK'
  <2>1. /\ root' \in Dir /\ stage' \in Dir /\ old' \in Dir /\ journal' \in BOOLEAN
        /\ row' \in [Password -> Row] /\ capsules' \subseteq 1 .. MaxShards
        /\ open' \in BOOLEAN /\ timer' \in BOOLEAN /\ up' \in Prepared /\ late' \in Prepared
        /\ job' \in JobType
    BY <1>1, <1>2, <1>3, <1>4, <1>5, <1>6, <1>7, <1>8, <1>9, <1>10, <1>11, Now, Nothing
  <2>2. /\ backed' \in 0 .. Never /\ written' \in 0 .. MaxWrites /\ marked' \in 0 .. MaxWrites
        /\ shards' \in 1 .. MaxShards /\ lost' \in BOOLEAN /\ faults' \in 0 .. MaxFaults
    BY <1>1, <1>2, <1>3, <1>4, <1>5, <1>6, <1>7, <1>8, <1>9, <1>10, <1>11, Now DEF TypeOK,
       PhoneSizes
  <2>3. open' => ~journal'
    BY <1>1, <1>2, <1>3, <1>4, <1>5, <1>6, <1>7, <1>8, <1>9, <1>10, <1>11 DEF TypeOK
  <2>4. Active' => (open' \/ job'.kind = "lock")
    BY <1>1, <1>2, <1>3, <1>4, <1>5, <1>6, <1>7, <1>8, <1>9, <1>10, <1>11, Nothing DEF TypeOK,
       Active
  <2>5. QED
    BY <2>1, <2>2, <2>3, <2>4, TypedAfter
<1>13. JobsShape'
  BY <1>1, <1>2, <1>3, <1>4, <1>5, <1>6, <1>7, <1>8, <1>9, <1>10, <1>11 DEF JobsShape
<1>14. PlacesAgree'
  BY <1>1, <1>2, <1>3, <1>4, <1>5, <1>6, <1>7, <1>8, <1>9, <1>10, <1>11, Now, Nothing DEF
     PlacesAgree, Moving, Preparing, Real
<1>15. ChangePrepared'
  BY <1>1, <1>2, <1>3, <1>4, <1>5, <1>6, <1>7, <1>8, <1>9, <1>10, <1>11, Now, Nothing DEF
     ChangePrepared, PlacesAgree, Moving, Preparing, Real
<1>16. Bounded'
  BY <1>1, <1>2, <1>3, <1>4, <1>5, <1>6, <1>7, <1>8, <1>9, <1>10, <1>11, Now, Nothing DEF Bounded,
     PlacesAgree, Moving, Preparing, Real
<1>17. InFlight'
  BY <1>1, <1>2, <1>3, <1>4, <1>5, <1>6, <1>7, <1>8, <1>9, <1>10, <1>11, Now, Nothing DEF
     InFlight, Active, Bounded, Preparing
<1>18. LateIsNoOlder'
  BY <1>1, <1>2, <1>3, <1>4, <1>5, <1>6, <1>7, <1>8, <1>9, <1>10, <1>11, Now, Nothing DEF
     LateIsNoOlder, Accepts, Preparing
<1>19. AtTheRelay'
  <2>1. ~lost => /\ root.version <= row[root.password].version
                 /\ ~root.file => row[root.password].shards = root.shards
    BY <1>1, <1>3 DEF AtTheRelay
  <2>2. CASE root' = root
    BY <1>4, <1>9, <2>1, <2>2 DEF AtTheRelay
  <2>3. CASE root' # root
    BY <1>4, <1>5, <1>6, <1>9, <2>1, <2>3, Now DEF AtTheRelay
  <2>4. QED
    BY <2>2, <2>3
<1>20. CleanIsThere'
  BY <1>1, <1>2, <1>3, <1>4, <1>5, <1>6, <1>7, <1>8, <1>9, <1>10, <1>11, Now, Nothing, SMTT(30) DEF
     CleanIsThere, AtTheRelay
<1>21. OldIsClean'
  BY <1>1, <1>2, <1>3, <1>4, <1>5, <1>6, <1>7, <1>8, <1>9, <1>10, <1>11, Now, Nothing DEF
     OldIsClean
<1>22. QED
  BY <1>12, <1>13, <1>14, <1>15, <1>16, <1>17, <1>18, <1>19, <1>20, <1>21 DEF PhoneInv

LEMMA AnswerKeeps ==
  ASSUME PhoneSizes, PhoneInv, Answer
  PROVE  PhoneInv'
<1>1. TypeOK /\ JobsShape /\ PlacesAgree /\ ChangePrepared /\ Bounded /\ InFlight /\ LateIsNoOlder
      /\ AtTheRelay /\ CleanIsThere /\ OldIsClean
  BY DEF PhoneInv
<1>2. Here = "answer" /\ job # Idle
  BY <1>1, Working, Phases, NoSteps DEF Answer, Step
<1>3. /\ ~journal /\ Recovered = root /\ Real(root) /\ root.data = written /\ ~Gone /\ open
      /\ ~Active
  BY <1>1, <1>2, Working DEF Gone, PlacesAgree, InFlight
<1>4. /\ root' = root /\ stage' = stage /\ old' = old /\ journal' = journal /\ row' = row
      /\ open' = open /\ timer' = timer /\ backed' = backed /\ up' = up /\ late' = late
      /\ shards' = shards /\ written' = written /\ marked' = marked /\ lost' = lost
  BY <1>1, <1>2, <1>3 DEF Answer, disk, memory, net, history
<1>5. /\ JobsShape' /\ job' \in JobType
      /\ job' = Idle => Here' = "none" /\ job'.kind = "none" /\ job'.mine = NoUpload
      /\ job' # Idle => job'.kind = job.kind /\ job'.mine = job.mine /\ job'.next = job.next
      /\ (job.kind \in {"file", "relay"} /\ job' = Idle)
  BY <1>1, <1>2, <1>3, <1>4, Now, Stepped DEF Answer
<1>6. capsules' \subseteq 1 .. MaxShards /\ faults' \in 0 .. MaxFaults
  <2>1. root.shards \in 1 .. MaxShards
    BY <1>3, Now, Numbers DEF Real, PhoneSizes
  <2>2. QED
    BY <1>1, <2>1, Now, Faults DEF Answer, TypeOK
<1>7. Recovered' = root
  BY <1>1, <1>2, <1>3, <1>4, <1>5, <1>6, CountsAfter
<1>8. TypeOK'
  <2>1. /\ root' \in Dir /\ stage' \in Dir /\ old' \in Dir /\ journal' \in BOOLEAN
        /\ row' \in [Password -> Row] /\ capsules' \subseteq 1 .. MaxShards
        /\ open' \in BOOLEAN /\ timer' \in BOOLEAN /\ up' \in Prepared /\ late' \in Prepared
        /\ job' \in JobType
    BY <1>1, <1>2, <1>3, <1>4, <1>5, <1>6, <1>7, Now, Nothing
  <2>2. /\ backed' \in 0 .. Never /\ written' \in 0 .. MaxWrites /\ marked' \in 0 .. MaxWrites
        /\ shards' \in 1 .. MaxShards /\ lost' \in BOOLEAN /\ faults' \in 0 .. MaxFaults
    BY <1>1, <1>2, <1>3, <1>4, <1>5, <1>6, <1>7, Now DEF TypeOK, PhoneSizes
  <2>3. open' => ~journal'
    BY <1>1, <1>2, <1>3, <1>4, <1>5, <1>6, <1>7 DEF TypeOK
  <2>4. Active' => (open' \/ job'.kind = "lock")
    BY <1>1, <1>2, <1>3, <1>4, <1>5, <1>6, <1>7, Nothing DEF TypeOK, Active
  <2>5. QED
    BY <2>1, <2>2, <2>3, <2>4, TypedAfter
<1>9. JobsShape'
  BY <1>1, <1>2, <1>3, <1>4, <1>5, <1>6, <1>7 DEF JobsShape
<1>10. PlacesAgree'
  BY <1>1, <1>2, <1>3, <1>4, <1>5, <1>6, <1>7, Now, Nothing DEF PlacesAgree, Moving, Preparing,
     Real
<1>11. ChangePrepared'
  BY <1>1, <1>2, <1>3, <1>4, <1>5, <1>6, <1>7, Now, Nothing DEF ChangePrepared, PlacesAgree,
     Moving, Preparing, Real
<1>12. Bounded'
  BY <1>1, <1>2, <1>3, <1>4, <1>5, <1>6, <1>7, Now, Nothing DEF Bounded, PlacesAgree, Moving,
     Preparing, Real
<1>13. InFlight'
  BY <1>1, <1>2, <1>3, <1>4, <1>5, <1>6, <1>7, Now, Nothing DEF InFlight, Active, Bounded,
     Preparing
<1>14. LateIsNoOlder'
  BY <1>1, <1>2, <1>3, <1>4, <1>5, <1>6, <1>7, Now, Nothing DEF LateIsNoOlder, Accepts, Preparing
<1>15. AtTheRelay'
  BY <1>1, <1>2, <1>3, <1>4, <1>5, <1>6, <1>7, Now, Nothing DEF AtTheRelay, Gone, Preparing
<1>16. CleanIsThere'
  BY <1>1, <1>2, <1>3, <1>4, <1>5, <1>6, <1>7, Now, Nothing DEF CleanIsThere, AtTheRelay
<1>17. OldIsClean'
  BY <1>1, <1>2, <1>3, <1>4, <1>5, <1>6, <1>7, Now, Nothing DEF OldIsClean
<1>18. QED
  BY <1>8, <1>9, <1>10, <1>11, <1>12, <1>13, <1>14, <1>15, <1>16, <1>17 DEF PhoneInv

LEMMA CrashKeeps ==
  ASSUME PhoneSizes, PhoneInv, Crash
  PROVE  PhoneInv'
<1>1. TypeOK /\ JobsShape /\ PlacesAgree /\ ChangePrepared /\ Bounded /\ InFlight /\ LateIsNoOlder
      /\ AtTheRelay /\ CleanIsThere /\ OldIsClean
  BY DEF PhoneInv
<1>2. /\ root' = root /\ stage' = stage /\ old' = old /\ journal' = journal /\ row' = row
      /\ capsules' = capsules /\ backed' = backed /\ shards' = shards /\ written' = written
      /\ marked' = marked /\ lost' = lost
  BY <1>1 DEF Crash, disk, memory, net, history
<1>3. open' = FALSE /\ timer' = FALSE /\ up' = NoUpload /\ faults' \in 0 .. MaxFaults
  BY <1>1, <1>2, Faults DEF Crash
<1>4. /\ JobsShape' /\ job' \in JobType /\ job'.mine = NoUpload
      /\ (journal => Here' = "aside" /\ job'.kind = "recover")
      /\ (~journal => job' = Idle /\ Here' = "none" /\ job'.kind = "none")
  BY <1>1, <1>2, <1>3, Restarts
<1>5. Recovered' = Recovered
  BY <1>1, <1>2, <1>3, <1>4, CountsAfter DEF disk
<1>6. late' = late \/ (up.at = "sent" /\ Active /\ late' \in Prepared /\ late'.password = up.password
         /\ late'.data = up.data /\ late'.shards = up.shards /\ late'.version = up.version)
  BY <1>1, <1>2, <1>3, <1>4, <1>5, Now, Fields DEF Crash, Active
<1>7. Active => Recovered = root /\ ~journal
  BY <1>1, <1>2, <1>3, <1>4, <1>5, <1>6, Working
<1>8. journal => Here = "aside" \/ Here = "switch" \/ Here = "settle"
  BY <1>1, <1>2, <1>3, <1>4, <1>5, <1>6, <1>7 DEF PlacesAgree, Moving
<1>9. TypeOK'
  <2>1. /\ root' \in Dir /\ stage' \in Dir /\ old' \in Dir /\ journal' \in BOOLEAN
        /\ row' \in [Password -> Row] /\ capsules' \subseteq 1 .. MaxShards
        /\ open' \in BOOLEAN /\ timer' \in BOOLEAN /\ up' \in Prepared /\ late' \in Prepared
        /\ job' \in JobType
    BY <1>1, <1>2, <1>3, <1>4, <1>5, <1>6, <1>7, <1>8, Now, Nothing
  <2>2. /\ backed' \in 0 .. Never /\ written' \in 0 .. MaxWrites /\ marked' \in 0 .. MaxWrites
        /\ shards' \in 1 .. MaxShards /\ lost' \in BOOLEAN /\ faults' \in 0 .. MaxFaults
    BY <1>1, <1>2, <1>3, <1>4, <1>5, <1>6, <1>7, <1>8, Now DEF TypeOK, PhoneSizes
  <2>3. open' => ~journal'
    BY <1>1, <1>2, <1>3, <1>4, <1>5, <1>6, <1>7, <1>8 DEF TypeOK
  <2>4. Active' => (open' \/ job'.kind = "lock")
    BY <1>1, <1>2, <1>3, <1>4, <1>5, <1>6, <1>7, <1>8, Nothing DEF TypeOK, Active
  <2>5. QED
    BY <2>1, <2>2, <2>3, <2>4, TypedAfter
<1>10. JobsShape'
  BY <1>1, <1>2, <1>3, <1>4, <1>5, <1>6, <1>7, <1>8 DEF JobsShape
<1>11. PlacesAgree'
  <2>1. (journal <=> Here \in Moving)'
    BY <1>1, <1>2, <1>3, <1>4, <1>5, <1>6, <1>7, <1>8, Now, Nothing DEF PlacesAgree, Moving,
       Preparing, Real
  <2>2. (Real(Recovered) /\ Recovered.data = written)'
    BY <1>1, <1>2, <1>3, <1>4, <1>5, <1>6, <1>7, <1>8, Now, Nothing DEF PlacesAgree, Moving,
       Preparing, Real
  <2>3. (Here = "settle" => stage = NoDir /\ root # NoDir)'
    BY <1>1, <1>2, <1>3, <1>4, <1>5, <1>6, <1>7, <1>8, Now, Nothing DEF PlacesAgree, Moving,
       Preparing, Real
  <2>4. (job.kind \in {"sync", "file", "relay"} /\ Here \in Preparing => open)'
    BY <1>1, <1>2, <1>3, <1>4, <1>5, <1>6, <1>7, <1>8, Now, Nothing DEF PlacesAgree, Moving,
       Preparing, Real
  <2>5. (Here \in Moving \union {"open"} => ~open)'
    BY <1>1, <1>2, <1>3, <1>4, <1>5, <1>6, <1>7, <1>8, Now, Nothing DEF PlacesAgree, Moving,
       Preparing, Real
  <2>6. (job.kind = "lock" => ~open)'
    BY <1>1, <1>2, <1>3, <1>4, <1>5, <1>6, <1>7, <1>8, Now, Nothing DEF PlacesAgree, Moving,
       Preparing, Real
  <2>7. (Here = "answer" => open)'
    BY <1>1, <1>2, <1>3, <1>4, <1>5, <1>6, <1>7, <1>8, Now, Nothing DEF PlacesAgree, Moving,
       Preparing, Real
  <2>8. QED
    BY <2>1, <2>2, <2>3, <2>4, <2>5, <2>6, <2>7 DEF PlacesAgree
<1>12. ChangePrepared'
  BY <1>1, <1>2, <1>3, <1>4, <1>5, <1>6, <1>7, <1>8, Now, Nothing DEF ChangePrepared, PlacesAgree,
     Moving, Preparing, Real
<1>13. Bounded'
  BY <1>1, <1>2, <1>3, <1>4, <1>5, <1>6, <1>7, <1>8, Now, Nothing DEF Bounded, PlacesAgree,
     Moving, Preparing, Real, InFlight
<1>14. InFlight'
  BY <1>1, <1>2, <1>3, <1>4, <1>5, <1>6, <1>7, <1>8, Now, Nothing DEF InFlight, Active, Bounded,
     Preparing
<1>15. LateIsNoOlder'
  BY <1>1, <1>2, <1>3, <1>4, <1>5, <1>6, <1>7, <1>8, Now, Nothing DEF LateIsNoOlder, Accepts,
     Preparing, InFlight
<1>16. AtTheRelay'
  <2>1. CASE Gone
    <3>1. ~Active /\ late' = late
      BY <1>6, <2>1, Working
    <3>2. ~journal /\ job' = Idle /\ Here' = "none"
      BY <1>4, <2>1 DEF Gone
    <3>3. Gone'
      BY <1>2, <1>3, <2>1, <3>1, <3>2 DEF Gone
    <3>4. QED
      BY <3>3 DEF AtTheRelay
  <2>2. CASE ~Gone
    BY <1>1, <1>2, <1>5, <2>2 DEF AtTheRelay
  <2>3. QED
    BY <2>1, <2>2
<1>17. CleanIsThere'
  BY <1>1, <1>2, <1>3, <1>4, <1>5, <1>6, <1>7, <1>8, Now, Nothing DEF CleanIsThere, AtTheRelay
<1>18. OldIsClean'
  BY <1>1, <1>2, <1>3, <1>4, <1>5, <1>6, <1>7, <1>8, Now, Nothing DEF OldIsClean
<1>19. QED
  BY <1>9, <1>10, <1>11, <1>12, <1>13, <1>14, <1>15, <1>16, <1>17, <1>18 DEF PhoneInv
LEMMA PhoneInitInv ==
  ASSUME PhoneSizes, Init
  PROVE  PhoneInv
<1>1. /\ root \in Dir /\ root.password = First /\ root.shards = 1 /\ root.data = 0 /\ stage = NoDir /\ old = NoDir
      /\ ~journal /\ open = TRUE /\ timer = FALSE /\ up = NoUpload /\ late = NoUpload /\ job = Idle
      /\ shards = 1 /\ written = 0 /\ marked = 0 /\ lost = FALSE /\ faults = 0
  <2>1. First \in Password /\ 1 \in 0 .. MaxShards /\ 1 \in 0 .. MaxUploads /\ 0 \in 0 .. MaxWrites
        /\ 0 \in 0 .. MaxUploads
    BY DEF PhoneSizes
  <2>2. QED
    BY <2>1 DEF Init, NoDir, Dir
<1>2. /\ row \in [Password -> Row] /\ capsules \subseteq 1 .. MaxShards /\ backed \in 0 .. Never
      /\ \A p \in Password : row[p].data = 0
      /\ \/ row[First].shards = 1 /\ row[First].version = 1 /\ root.version = 1 /\ ~root.file /\ backed = 0
         \/ root.file /\ root.version = 0 /\ ~root.cloud /\ row[First].version = 0
  <2>1. /\ First \in Password /\ 1 \in 0 .. MaxShards /\ 1 \in 0 .. MaxUploads /\ 0 \in 0 .. MaxWrites
        /\ 1 \in 1 .. MaxShards /\ 0 \in 0 .. Never /\ Never \in 0 .. Never
    BY DEF PhoneSizes, Never
  <2>2. [version |-> 1, data |-> 0, shards |-> 1] \in Row
    BY <2>1 DEF Row
  <2>3. CASE /\ root = [NoDir EXCEPT !.shards = 1, !.version = 1, !.dirty = FALSE, !.cloud = TRUE]
             /\ row = [[p \in Password |-> NoRow] EXCEPT ![First] = [version |-> 1, data |-> 0, shards |-> 1]]
             /\ capsules = {} /\ backed = 0
    BY <2>1, <2>2, <2>3, Nothing DEF NoDir
  <2>4. CASE /\ root = [NoDir EXCEPT !.shards = 1, !.file = TRUE] /\ row = [p \in Password |-> NoRow]
             /\ capsules = {1} /\ backed = Never
    BY <2>1, <2>4, Nothing DEF NoDir
  <2>5. QED
    BY <2>3, <2>4 DEF Init
<1>3. Here = "none" /\ job.kind = "none" /\ job.mine = NoUpload /\ job \in JobType /\ ~Active /\ Recovered = root
  BY <1>1, Nothing, Counts DEF Here, Active
<1>4. TypeOK
  <2>1. /\ 0 \in 0 .. MaxWrites /\ 1 \in 1 .. MaxShards /\ 0 \in 0 .. MaxFaults
    BY DEF PhoneSizes
  <2>2. /\ root \in Dir /\ stage \in Dir /\ old \in Dir /\ up \in Prepared /\ late \in Prepared
        /\ ~(up.at \in {"waiting", "sent", "stored"})
    BY <1>1, Nothing
  <2>3. {root, stage, old} \subseteq Dir /\ {up, late} \subseteq Prepared
    BY <2>2
  <2>4. {written, marked} \subseteq 0 .. MaxWrites /\ shards \in 1 .. MaxShards /\ faults \in 0 .. MaxFaults
    BY <1>1, <2>1
  <2>5. /\ journal \in BOOLEAN /\ open \in BOOLEAN /\ timer \in BOOLEAN /\ lost \in BOOLEAN
        /\ (open => ~journal)
    BY <1>1 DEF Init
  <2>6. QED
    BY <1>2, <1>3, <2>2, <2>3, <2>4, <2>5 DEF TypeOK, JobType
<1>5. JobsShape /\ PlacesAgree
  BY <1>1, <1>3 DEF JobsShape, PlacesAgree, Moving, Preparing, Real
<1>6. ChangePrepared
  BY <1>3 DEF ChangePrepared
<1>7. Bounded
  <2>1. backed = 0 \/ backed = Never
    BY DEF Init
  <2>2. QED
    BY <1>1, <1>2, <1>3, <2>1, Nothing DEF Bounded
<1>8. InFlight /\ LateIsNoOlder
  BY <1>1, <1>3, Nothing DEF InFlight, LateIsNoOlder, Active
<1>9. AtTheRelay /\ CleanIsThere /\ OldIsClean
  <2>1. row[First].data = 0
    BY <1>2 DEF PhoneSizes
  <2>2. AtTheRelay
    BY <1>1, <1>2, <1>3 DEF AtTheRelay
  <2>3. CleanIsThere /\ OldIsClean
    BY <1>1, <1>3, <2>1 DEF CleanIsThere, OldIsClean
  <2>4. QED
    BY <2>2, <2>3
<1>10. QED
  BY <1>4, <1>5, <1>6, <1>7, <1>8, <1>9 DEF PhoneInv

LEMMA PhoneStep ==
  ASSUME PhoneSizes, PhoneInv, [Next]_vars
  PROVE  PhoneInv'
<1>1. CASE Next
  <2>1. ASSUME NEW p \in Password, ChangePassword(p) PROVE PhoneInv'
    BY <2>1, ChangePasswordKeeps
  <2>2. CASE Upload
    BY <2>2, Outcomes, UploadTakenKeeps, UploadFailsKeeps
  <2>3. CASE Put
    BY <2>3, Outcomes, PutTakenKeeps, PutFailsKeeps
  <2>4. CASE Delete
    BY <2>4, Outcomes, DeleteDoneKeeps, DeleteFailsKeeps
  <2>5. CASE \/ Write \/ WriteQuietly \/ SetCloud \/ SaveSegment \/ RunBackup \/ BeginUpload \/ ServeUpload
             \/ ServeLate \/ LoseUpload \/ EndUpload \/ Reschedule \/ Sync \/ Lock \/ Unlock
    BY <2>5, WriteKeeps, WriteQuietlyKeeps, SetCloudKeeps, SaveSegmentKeeps, RunBackupKeeps,
       BeginUploadKeeps, ServeUploadKeeps, ServeLateKeeps, LoseUploadKeeps, EndUploadKeeps,
       RescheduleKeeps, SyncKeeps, LockKeeps, UnlockKeeps
  <2>6. CASE \/ Drain \/ CopyTree \/ Undo \/ Journal \/ Aside \/ Switch \/ Settle \/ Open \/ Answer \/ Crash
    BY <2>6, DrainKeeps, CopyTreeKeeps, UndoKeeps, JournalKeeps, AsideKeeps, SwitchKeeps,
       SettleKeeps, OpenKeeps, AnswerKeeps, CrashKeeps
  <2>7. QED
    BY <1>1, <2>1, <2>2, <2>3, <2>4, <2>5, <2>6 DEF Next
<1>2. CASE UNCHANGED vars
  <2>1. /\ root' = root /\ stage' = stage /\ old' = old /\ journal' = journal /\ row' = row
        /\ capsules' = capsules /\ open' = open /\ backed' = backed /\ timer' = timer /\ up' = up
        /\ late' = late /\ job' = job /\ shards' = shards /\ written' = written /\ marked' = marked
        /\ lost' = lost /\ faults' = faults
    BY <1>2 DEF vars, disk, memory, net, history
  <2>2. QED
    BY <2>1 DEF PhoneInv, TypeOK, JobsShape, PlacesAgree, ChangePrepared, Bounded, InFlight,
       Active, LateIsNoOlder, Accepts, AtTheRelay, Gone, CleanIsThere, OldIsClean, Here, Recovered
<1>3. QED
  BY <1>1, <1>2

\* What it says of the properties that are checked.
LEMMA PhoneImplied ==
  ASSUME PhoneSizes, PhoneInv
  PROVE  TypeOK /\ NothingLost /\ CleanIsUploaded
<1>1. TypeOK
  BY DEF PhoneInv
<1>2. NothingLost
  <2> SUFFICES ASSUME ~lost, ~Unsaved, ~open
               PROVE  \/ Opens(Recovered) /\ Recovered.data = written
                      \/ \E p \in Password : row[p].data = written /\ row[p].version > 0
    BY DEF NothingLost
  <2>1. CASE Gone
    BY <2>1 DEF Gone
  <2>2. CASE ~Gone
    <3>1. Real(Recovered) /\ Recovered.data = written
      BY DEF PhoneInv, PlacesAgree
    <3>2. ~Recovered.file => row[Recovered.password].shards = Recovered.shards
      BY <2>2 DEF PhoneInv, AtTheRelay
    <3>3. QED
      BY <3>1, <3>2 DEF Opens, Unsaved, Real
  <2>3. QED
    BY <2>1, <2>2
<1>3. CleanIsUploaded
  <2> SUFFICES ASSUME ~lost, Opens(root), root.cloud
               PROVE  /\ ~root.dirty => row[root.password].data >= marked
                      /\ open /\ Skips => row[root.password].data = root.data
    BY DEF CleanIsUploaded
  <2>1. root.file \/ row[root.password].shards = root.shards
    BY DEF Opens
  <2>2. root # NoDir
    BY Nothing DEF Opens
  <2>3. CASE ~journal
    <3>1. Recovered = root
      BY <2>3, Counts
    <3>2. QED
      BY <2>1, <3>1 DEF PhoneInv, CleanIsThere, Skips
  <2>4. CASE journal /\ stage = NoDir
    <3>1. Recovered = root
      BY <2>2, <2>4, Counts
    <3>2. QED
      BY <2>1, <3>1 DEF PhoneInv, CleanIsThere, Skips
  <2>5. CASE journal /\ stage # NoDir
    <3>1. ~open
      BY <2>5 DEF PhoneInv, TypeOK
    <3>2. root.file /\ (~root.dirty => row[root.password].data >= marked)
      <4>1. stage.file \in BOOLEAN /\ root.file \in BOOLEAN
        BY Now, Numbers
      <4>2. root.file \/ row[root.password] # NoRow
        BY <2>1, Nothing DEF Opens
      <4>3. QED
        BY <2>5, <4>1, <4>2 DEF PhoneInv, OldIsClean
    <3>3. QED
      BY <3>1, <3>2
  <2>6. QED
    BY <2>3, <2>4, <2>5
<1>4. QED
  BY <1>1, <1>2, <1>3

\* Only a request that the relay takes replaces a row.
LEMMA NoOlderStep ==
  ASSUME PhoneSizes, PhoneInv, [Next]_vars
  PROVE  lost' \/ \A p \in Password : row'[p] # NoRow => row'[p].data >= row[p].data
<1>1. CASE row' = row
  BY <1>1, Now
<1>2. ASSUME NEW u \in Prepared, row' \in {row, RowAfter(u), Stored(u)},
             row[u.password].data <= u.data
      PROVE  \A p \in Password : row'[p].data >= row[p].data
  <2>1. row' = row \/ row' = Stored(u)
    BY <1>2 DEF RowAfter
  <2>2. /\ Stored(u)[u.password].data = u.data
        /\ \A p \in Password : p # u.password => Stored(u)[p] = row[p]
    BY Now, Stores
  <2>3. QED
    BY <1>2, <2>1, <2>2, Now, Numbers
<1>3. ASSUME NEW q \in Password, Deletes(q)
      PROVE  \A p \in Password : row'[p] # NoRow => row'[p].data >= row[p].data
  <2>1. row'[q] = NoRow /\ \A p \in Password : p # q => row'[p] = row[p]
    BY <1>3, Now, DeletesRow
  <2>2. QED
    BY <2>1, Now
<1>4. CASE ServeUpload
  <2>1. row[up.password].data <= up.data /\ row' = RowAfter(up)
    BY <1>4, Now DEF ServeUpload, PhoneInv, InFlight
  <2>2. QED
    BY <1>2, <2>1, Now
<1>5. CASE ServeLate
  <2> SUFFICES ASSUME ~lost'
               PROVE  \A p \in Password : row'[p].data >= row[p].data
    OBVIOUS
  <2>1. row' = RowAfter(late) /\ late # NoUpload /\ ~lost /\ ~(late.stale /\ Accepts(late))
    BY <1>5 DEF ServeLate
  <2>2. CASE Accepts(late)
    <3>1. row[late.password].data <= late.data
      BY <2>1, <2>2 DEF PhoneInv, LateIsNoOlder
    <3>2. QED
      BY <1>2, <2>1, <3>1, Now
  <2>3. CASE ~Accepts(late)
    BY <2>1, <2>3, Now DEF RowAfter
  <2>4. QED
    BY <2>2, <2>3
<1>6. CASE Upload
  <2>1. Here = "upload" /\ root.version < MaxUploads
    BY <1>6, Working DEF Upload, Step
  <2>2. OwnUpload \in Prepared /\ row[OwnUpload.password].data <= OwnUpload.data
    BY <2>1, Owns, Now DEF PhoneInv, Bounded
  <2>3. row' \in {row, RowAfter(OwnUpload), Stored(OwnUpload)}
    BY <1>6, Outcomes DEF UploadTaken, UploadFails
  <2>4. QED
    BY <1>2, <2>2, <2>3
<1>7. CASE Put
  <2>1. Here = "put"
    BY <1>7, Working DEF Put, Step
  <2>2. FirstUpload \in Prepared /\ row[FirstUpload.password].data <= FirstUpload.data
    BY <2>1, OwnsFirst, Now DEF PhoneInv, Bounded
  <2>3. row' \in {row, RowAfter(FirstUpload), Stored(FirstUpload)}
    BY <1>7, Outcomes DEF PutTaken, PutFails
  <2>4. QED
    BY <1>2, <2>2, <2>3
<1>8. CASE Delete
  <2>1. row' = row \/ Deletes(root.password)
    BY <1>8, Outcomes DEF DeleteDone, DeleteFails
  <2>2. QED
    BY <1>1, <1>3, <2>1, Now
<1>9. CASE Undo
  <2>1. row' = row \/ Deletes(stage.password)
    BY <1>9 DEF Undo
  <2>2. QED
    BY <1>1, <1>3, <2>1, Now
<1>10. CASE \/ Write \/ WriteQuietly \/ SetCloud \/ SaveSegment \/ RunBackup \/ BeginUpload \/ LoseUpload
            \/ EndUpload \/ Reschedule \/ Sync \/ Lock \/ Unlock \/ \E p \in Password : ChangePassword(p)
  <2>1. row' = row
    BY <1>10 DEF Write, WriteQuietly, SetCloud, SaveSegment, RunBackup, BeginUpload, LoseUpload,
       EndUpload, Reschedule, Sync, Lock, Unlock, ChangePassword
  <2>2. QED
    BY <1>1, <2>1
<1>11. CASE \/ Drain \/ CopyTree \/ Journal \/ Aside \/ Switch \/ Settle \/ Open \/ Answer \/ Crash
  <2>1. row' = row
    BY <1>11 DEF Drain, CopyTree, Journal, Aside, Switch, Settle, Open, Answer, Crash
  <2>2. QED
    BY <1>1, <2>1
<1>12. CASE UNCHANGED vars
  BY <1>1, <1>12 DEF vars
<1>13. QED
  BY <1>4, <1>5, <1>6, <1>7, <1>8, <1>9, <1>10, <1>11, <1>12 DEF Next

-----------------------------------------------------------------------------
\* The phone's vault has its type, loses nothing that was written, and is taken for
\* backed up only when it is: whatever the timer, the user, the network and the process do.
THEOREM PhoneLosesNothing ==
  ASSUME PhoneSizes
  PROVE  Spec => [](TypeOK /\ NothingLost /\ CleanIsUploaded)
<1>1. Init => PhoneInv
  BY PhoneInitInv
<1>2. PhoneInv /\ [Next]_vars => PhoneInv'
  BY PhoneStep
<1>3. PhoneInv => TypeOK /\ NothingLost /\ CleanIsUploaded
  BY PhoneImplied
<1>4. QED
  BY <1>1, <1>2, <1>3, PTL DEF Spec

\* No upload of the phone's vault replaces a backup by an older one, unless its row was deleted.
THEOREM PhoneBacksUpForward ==
  ASSUME PhoneSizes
  PROVE  Spec => BackupNeverOlder
<1>1. Init => PhoneInv
  BY PhoneInitInv
<1>2. PhoneInv /\ [Next]_vars => PhoneInv'
  BY PhoneStep
<1>3. PhoneInv /\ [Next]_vars =>
        [lost' \/ \A p \in Password : row'[p] # NoRow => row'[p].data >= row[p].data]_vars
  BY NoOlderStep
<1>4. QED
  BY <1>1, <1>2, <1>3, PTL DEF Spec, BackupNeverOlder
=============================================================================
