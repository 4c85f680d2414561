----------------------------- MODULE VoiceNotes -----------------------------
(***************************************************************************)
(* Voice notes of the user interface (apps/local-ui/src/App.tsx): a button *)
(* that is clicked or held, a permission the browser asks for, a recorder  *)
(* whose end is an event, and the upload of what it recorded.  Between any *)
(* two of them the user may open another conversation, go back, or lock.   *)
(*                                                                         *)
(* A handler sees the conversation and the CSRF token of the render it was *)
(* made in; what it shares with the others is in refs.                     *)
(***************************************************************************)
EXTENDS Naturals, Sequences

CONSTANTS
  Conversation, None,
  MaxNotes,  \* bound on recordings asked for
  MaxLocks   \* bound on vault locks

VARIABLES
  selected,   \* selectedContact, selectedConversationRef
  view,       \* vaultState and quickLocked
  closed,     \* the daemon refuses: its vault is locked, or the session is
  csrf,       \* generation of the CSRF token
  note,       \* the calls of startRecording, each with its recorder
  recorder,   \* mediaRecorderRef, 0: none
  recording,  \* isRecording
  cancelled,  \* recordingCancelledRef
  pointer,    \* the button is pressed; holdRef is armed with a render
  held,       \* heldRecordingRef
  pressed,    \* recordingHeldActiveRef
  chunks,     \* audioChunksRef: the notes whose sound is in it
  upload,     \* uploadRef, and what is uploaded
  posted,     \* history: the notes sent
  dropped,    \* history: notes whose recording the user has cancelled
  overlap     \* a recording was asked for before the last was over

session == <<selected, view, closed, csrf>>
audio == <<note, recorder, recording, cancelled, chunks, dropped, overlap>>
button == <<pointer, held, pressed>>
sending == <<upload, posted>>
vars == <<session, audio, button, sending>>

NoUpload == [at |-> "none", to |-> None, audio |-> {}, epoch |-> 0]
Released == [at |-> "up", about |-> None, epoch |-> 0]
Note == 1 .. MaxNotes

TypeOK ==
  /\ selected \in Conversation \union {None} /\ view \in {"unlocked", "quick", "locked"}
  /\ csrf \in 0 .. MaxLocks /\ recorder \in 0 .. MaxNotes
  /\ {closed, recording, cancelled, held, pressed, overlap} \subseteq BOOLEAN
  /\ note \in Seq([at : {"asking", "recording", "stopping", "over"}, about : Conversation,
                   hold : BOOLEAN, epoch : 0 .. MaxLocks])
  /\ pointer.at \in {"up", "armed", "held"} /\ upload.at \in {"none", "encrypt", "send"}
  /\ chunks \subseteq Note /\ dropped \subseteq Note
  /\ \A p \in posted : p.to \in Conversation /\ p.audio \subseteq Note

Init ==
  /\ selected = None /\ view = "unlocked" /\ closed = FALSE /\ csrf = 0
  /\ note = <<>> /\ recorder = 0 /\ recording = FALSE /\ cancelled = FALSE
  /\ pointer = Released /\ held = FALSE /\ pressed = FALSE /\ chunks = {}
  /\ upload = NoUpload /\ posted = {} /\ dropped = {} /\ overlap = FALSE

-----------------------------------------------------------------------------
(* Recording.                                                              *)
Notes(state) == {n \in 1 .. Len(note) : note[n].at = state}
Goes(n, state) == note' = [note EXCEPT ![n].at = state]

\* startRecording: nothing while a file is uploaded.
Start(c, epoch, hold) ==
  IF upload.at # "none" THEN UNCHANGED audio
  ELSE /\ Len(note) < MaxNotes
       /\ note' = Append(note, [at |-> "asking", about |-> c, hold |-> hold, epoch |-> epoch])
       /\ cancelled' = FALSE
       /\ overlap' = (overlap \/ Notes("over") # 1 .. Len(note))
       /\ UNCHANGED <<recorder, recording, chunks, dropped>>

\* stopRecording: the recorder of the last one that was let begin.
Stop ==
  IF recorder \in Notes("recording") THEN Goes(recorder, "stopping") ELSE UNCHANGED note

FaultyChunksOf(n) == chunks
\* A new recording begins with no sound.
ChunksOf(n) == {}

\* The microphone is allowed, too late for a button that was released meanwhile.
Grant(n) ==
  /\ n \in Notes("asking")
  /\ IF note[n].hold /\ ~pressed
       THEN Goes(n, "over") /\ UNCHANGED <<recorder, recording, chunks>>
       ELSE /\ Goes(n, "recording") /\ recorder' = n /\ recording' = TRUE
            /\ chunks' = ChunksOf(n)
  /\ UNCHANGED <<session, cancelled, dropped, overlap, button, sending>>

Deny(n) ==
  /\ n \in Notes("asking") /\ Goes(n, "over")
  /\ UNCHANGED <<session, recorder, recording, cancelled, chunks, dropped, overlap, button, sending>>

\* The device is unplugged, or the recorder fails.
TrackEnds(n) ==
  /\ n \in Notes("recording") /\ Goes(n, "stopping")
  /\ UNCHANGED <<session, recorder, recording, cancelled, chunks, dropped, overlap, button, sending>>

\* ondataavailable and onstop; sendAttachment drops a note while a file is uploaded.
OnStop(n) ==
  /\ n \in Notes("stopping") /\ Goes(n, "over") /\ recording' = FALSE
  /\ \E sound \in {{}, {n}} : chunks' = chunks \union sound
  /\ upload' = IF ~cancelled /\ selected = note[n].about /\ chunks' # {} /\ upload.at = "none"
                 THEN [at |-> "encrypt", to |-> note[n].about, audio |-> chunks',
                       epoch |-> note[n].epoch]
                 ELSE upload
  /\ UNCHANGED <<session, recorder, cancelled, dropped, overlap, button, posted>>

\* The user goes back while the screen says that it records.
Back ==
  /\ recording /\ cancelled' = TRUE /\ pressed' = FALSE
  /\ dropped' = dropped \union Notes("recording") \union Notes("stopping")
  /\ Stop
  /\ UNCHANGED <<session, recorder, recording, chunks, overlap, pointer, held, sending>>

-----------------------------------------------------------------------------
(* The button.                                                             *)
Shown == view = "unlocked" /\ selected # None

Down ==
  /\ Shown /\ upload.at = "none" /\ ~recording /\ pointer.at = "up"
  /\ held' = FALSE /\ pointer' = [at |-> "armed", about |-> selected, epoch |-> csrf]
  /\ UNCHANGED <<session, audio, pressed, sending>>

\* 300 ms later; the button may be gone by now.
HoldFires ==
  /\ pointer.at = "armed"
  /\ held' = TRUE /\ pressed' = TRUE
  /\ Start(pointer.about, pointer.epoch, TRUE)
  /\ pointer' = IF Shown THEN [pointer EXCEPT !.at = "held"] ELSE Released
  /\ UNCHANGED <<session, sending>>

\* Released, or taken by a gesture of the system.
Up ==
  /\ Shown /\ pointer.at # "up" /\ pointer' = Released /\ pressed' = FALSE
  /\ IF held THEN Stop ELSE UNCHANGED note
  /\ UNCHANGED <<session, recorder, recording, cancelled, chunks, dropped, overlap, held, sending>>

\* What follows a release, or the keyboard; that of a held button is swallowed.
Click ==
  /\ Shown /\ upload.at = "none" /\ held' = FALSE
  /\ CASE held                -> UNCHANGED audio
       [] ~held /\ recording  -> Stop /\ UNCHANGED <<recorder, recording, cancelled, chunks,
                                                     dropped, overlap>>
       [] ~held /\ ~recording -> Start(selected, csrf, FALSE)
  /\ UNCHANGED <<session, pointer, pressed, sending>>

-----------------------------------------------------------------------------
(* Uploads: a note or a file, whose content is not followed, is encrypted, *)
(* then sent.                                                              *)
PickFile ==
  /\ Shown /\ upload.at = "none"
  /\ upload' = [NoUpload EXCEPT !.at = "encrypt", !.epoch = csrf]
  /\ UNCHANGED <<session, audio, button, posted>>

UploadStep ==
  /\ upload.at # "none" /\ ~closed /\ upload.epoch = csrf
  /\ IF upload.at = "encrypt"
       THEN upload' = [upload EXCEPT !.at = "send"] /\ UNCHANGED posted
       ELSE /\ upload' = NoUpload
            /\ posted' = posted \union {[upload EXCEPT !.epoch = csrf] : n \in upload.audio}
  /\ UNCHANGED <<session, audio, button>>

UploadFails ==
  /\ upload.at # "none" /\ upload' = NoUpload
  /\ UNCHANGED <<session, audio, button, posted>>

(***************************************************************************)
(* The rest of the screen.                                                 *)
(***************************************************************************)
Select(c) ==
  /\ view = "unlocked" /\ selected' = c
  /\ UNCHANGED <<view, closed, csrf, audio, button, sending>>

\* The button is taken from the screen; a timer that is armed is not.
Gone == pointer' = IF pointer.at = "held" THEN Released ELSE pointer

\* handleLockVault hides all, ends the recording, and asks the daemon.
Lock ==
  /\ view # "locked" /\ csrf < MaxLocks
  /\ view' = "locked" /\ selected' = None
  /\ Stop /\ Gone
  /\ UNCHANGED <<closed, csrf, recorder, recording, cancelled, chunks, dropped, overlap, held,
                 pressed, sending>>

LockServed ==
  /\ view = "locked" /\ ~closed
  /\ closed' = TRUE /\ csrf' = csrf + 1
  /\ UNCHANGED <<selected, view, audio, button, sending>>

\* quickLock, not while the last recorder records.
QuickLock ==
  /\ view = "unlocked" /\ recorder \notin Notes("recording")
  /\ view' = "quick" /\ closed' = TRUE /\ Gone
  /\ UNCHANGED <<selected, csrf, audio, held, pressed, sending>>

\* The PIN, or the vault is opened again.
Unlock ==
  /\ view # "unlocked" /\ closed
  /\ view' = "unlocked" /\ closed' = FALSE
  /\ UNCHANGED <<selected, csrf, audio, button, sending>>

\* A behaviour is followed until a recording is asked for before the last is over: two
\* recorders put their sound in one place, and the first can no longer be stopped
\* (App.tsx:1081-1090).
Next ==
  /\ ~overlap
  /\ \/ \E n \in Note : Grant(n) \/ Deny(n) \/ TrackEnds(n) \/ OnStop(n)
     \/ \E c \in Conversation : Select(c)
     \/ Back \/ Down \/ HoldFires \/ Up \/ Click
     \/ PickFile \/ UploadStep \/ UploadFails
     \/ Lock \/ LockServed \/ QuickLock \/ Unlock

Spec == Init /\ [][Next]_vars

-----------------------------------------------------------------------------
\* What is sent to a conversation has the sound of recordings begun there and in the
\* same session, none of which the user has cancelled (App.tsx:1071, 1082, 1093).
NotesInPlace ==
  \A p \in posted : \A n \in p.audio :
    note[n].about = p.to /\ note[n].epoch = p.epoch /\ n \notin dropped
=============================================================================
