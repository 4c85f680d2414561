----------------------------- MODULE MCServices -----------------------------
(* What surrounds the delivery of messages, for TLC: the session of a      *)
(* device with the relay, the making of accounts, contacts among strangers *)
(* and between two phones, attachments, a tab of the user interface and    *)
(* its voice notes, and the messages of a phone.  They share no state; a   *)
(* behaviour chooses one of them, and runs it with the others at rest.     *)
EXTENDS RelaySession

CONSTANTS
  a, b, c,              \* users, and devices
  n1, n2,               \* names
  a1, a2,               \* attachments
  v1, v2, c1, c2,       \* vaults and their conversations
  m1, t1, t2,           \* a message that arrives, and texts
  NoDevice, NoName, None

VARIABLES
  part,
  \* Activation
  row, owner, claim, account, call, late, issued, actLosses,
  \* Contacts
  asked, permission, ack, acking, acked, free, bundle, doing, pairs, remote,
  conversation, private, mail, crashes,
  \* Attachments
  upload, blob, attachment, expired, queue, file, fetching, backup, restored, fileFaults,
  restores,
  \* LocalUi
  vault, uiSession, quick, stored, view, mine, csrf, uiEpoch, contacts, selected, screen,
  optimistic, syncing, sending, pending, selects, uiLosses,
  \* PhoneMessaging
  mode, open, native, epoch, tor, live, held, attempts, outbox, controls, status, inbox,
  mailbox, processed, shown, peerHas, relayHas, sent, tors, faults,
  \* VoiceNotes
  chat, noteView, closed, noteCsrf, note, recorder, recording, cancelled, pointer, heldLong, pressed,
  chunks, uploading, posted, dropped, overlap

sessionVars == vars
accountVars == <<row, owner, claim, account, call, late, issued, actLosses>>
contactVars == <<asked, permission, ack, acking, acked, free, bundle, doing, pairs, remote,
                 conversation, private, mail, crashes>>
fileVars == <<upload, blob, attachment, expired, queue, file, fetching, backup, restored,
              fileFaults, restores>>
uiVars == <<vault, uiSession, quick, stored, view, mine, csrf, uiEpoch, contacts, selected,
            screen, optimistic, syncing, sending, pending, selects, uiLosses>>
phoneVars == <<mode, open, native, epoch, tor, live, held, attempts, outbox, controls, status,
               inbox, mailbox, processed, shown, peerHas, relayHas, sent, tors, faults>>
noteVars == <<chat, noteView, closed, noteCsrf, note, recorder, recording, cancelled, pointer,
              heldLong, pressed, chunks, uploading, posted, dropped, overlap>>
allVars == <<part, sessionVars, accountVars, contactVars, fileVars, uiVars, phoneVars, noteVars>>

Accounts == INSTANCE Activation WITH
  Device <- {a, b}, Name <- {n1, n2}, MaxClaims <- 3, MaxAttempts <- 2,
  MaxLosses <- 2, losses <- actLosses

\* Two desktop users ask the same third one.
Strangers == INSTANCE Contacts WITH
  User <- {a, b, c}, Phone <- {}, Asking <- {<<a, b>>, <<c, b>>}, MaxKeys <- 1, MaxCrashes <- 1,
  request <- asked, session <- pairs

\* Two phones whose users ask each other.
Phones == INSTANCE Contacts WITH
  User <- {a, b}, Phone <- {a, b}, Asking <- {<<a, b>>, <<b, a>>}, MaxKeys <- 1, MaxCrashes <- 1,
  request <- asked, session <- pairs

Files == INSTANCE Attachments WITH
  Attachment <- {a1, a2}, Chunks <- 2, MaxBatch <- 2, MaxFaults <- 2, MaxRestores <- 1,
  row <- attachment, doing <- fetching, faults <- fileFaults

OneEach == [x \in {c1, c2} |-> IF x = c1 THEN v1 ELSE v2]

\* A tab and a message that arrives, while vaults are locked and opened.
Reading == INSTANCE LocalUi WITH
  Vault <- {v1, v2}, Conversation <- {c1, c2}, Item <- {m1}, Text <- {}, Owner <- OneEach,
  MaxEpochs <- 3, MaxSelects <- 2, MaxLosses <- 0,
  session <- uiSession, epoch <- uiEpoch, losses <- uiLosses

\* The same with fewer conversations opened and an answer that is lost.
Losing == INSTANCE LocalUi WITH
  Vault <- {v1, v2}, Conversation <- {c1, c2}, Item <- {m1}, Text <- {}, Owner <- OneEach,
  MaxEpochs <- 3, MaxSelects <- 1, MaxLosses <- 1,
  session <- uiSession, epoch <- uiEpoch, losses <- uiLosses

\* The same with a text the user sends.
Writing == INSTANCE LocalUi WITH
  Vault <- {v1, v2}, Conversation <- {c1, c2}, Item <- {m1, t1}, Text <- {t1}, Owner <- OneEach,
  MaxEpochs <- 3, MaxSelects <- 1, MaxLosses <- 0,
  session <- uiSession, epoch <- uiEpoch, losses <- uiLosses

\* A phone that sends two texts.
Texts == INSTANCE PhoneMessaging WITH
  Text <- {t1, t2}, Reported <- {}, Incoming <- {}, MaxTors <- 2, MaxStops <- 2, MaxFaults <- 2,
  session <- native

\* A phone to which a message and a receipt come.
Arrivals == INSTANCE PhoneMessaging WITH
  Text <- {t1}, Reported <- {t1}, Incoming <- {m1}, MaxTors <- 2, MaxStops <- 1, MaxFaults <- 1,
  session <- native

\* Two recordings in two conversations, and one lock of the vault.
VoiceNotes == INSTANCE VoiceNotes WITH
  Conversation <- {c1, c2}, MaxNotes <- 2, MaxLocks <- 1,
  selected <- chat, view <- noteView, csrf <- noteCsrf, held <- heldLong, upload <- uploading

ServicesInit ==
  /\ part \in {"session", "accounts", "strangers", "phones", "files", "reading", "losing", "writing",
               "texts", "arrivals", "notes"}
  /\ VoiceNotes!Init
  /\ Init /\ Accounts!Init /\ Files!Init
  /\ IF part = "phones" THEN Phones!Init ELSE Strangers!Init
  /\ IF part = "writing" THEN Writing!Init ELSE Reading!Init
  /\ IF part = "arrivals" THEN Arrivals!Init ELSE Texts!Init
  /\ mode # "DIRECT_TOR_P2P" => part \in {"texts", "arrivals"}

Alone(name) == part = name /\ UNCHANGED part

SessionStep ==
  /\ Alone("session") /\ Next
  /\ UNCHANGED <<accountVars, contactVars, fileVars, uiVars, phoneVars, noteVars>>
AccountStep ==
  /\ Alone("accounts") /\ Accounts!Next
  /\ UNCHANGED <<sessionVars, contactVars, fileVars, uiVars, phoneVars, noteVars>>
StrangerStep ==
  /\ Alone("strangers") /\ Strangers!Next
  /\ UNCHANGED <<sessionVars, accountVars, fileVars, uiVars, phoneVars, noteVars>>
PhoneStep ==
  /\ Alone("phones") /\ Phones!Next
  /\ UNCHANGED <<sessionVars, accountVars, fileVars, uiVars, phoneVars, noteVars>>
FileStep ==
  /\ Alone("files") /\ Files!Next
  /\ UNCHANGED <<sessionVars, accountVars, contactVars, uiVars, phoneVars, noteVars>>
ReadStep ==
  /\ Alone("reading") /\ Reading!Next
  /\ UNCHANGED <<sessionVars, accountVars, contactVars, fileVars, phoneVars, noteVars>>
LoseStep ==
  /\ Alone("losing") /\ Losing!Next
  /\ UNCHANGED <<sessionVars, accountVars, contactVars, fileVars, phoneVars, noteVars>>
WriteStep ==
  /\ Alone("writing") /\ Writing!Next
  /\ UNCHANGED <<sessionVars, accountVars, contactVars, fileVars, phoneVars, noteVars>>
TextStep ==
  /\ Alone("texts") /\ Texts!Next
  /\ UNCHANGED <<sessionVars, accountVars, contactVars, fileVars, uiVars, noteVars>>
ArrivalStep ==
  /\ Alone("arrivals") /\ Arrivals!Next
  /\ UNCHANGED <<sessionVars, accountVars, contactVars, fileVars, uiVars, noteVars>>
NoteStep ==
  /\ Alone("notes") /\ VoiceNotes!Next
  /\ UNCHANGED <<sessionVars, accountVars, contactVars, fileVars, uiVars, phoneVars>>

ServicesNext ==
  \/ SessionStep \/ AccountStep \/ StrangerStep \/ PhoneStep
  \/ FileStep \/ ReadStep \/ LoseStep \/ WriteStep \/ TextStep \/ ArrivalStep \/ NoteStep

ServicesSpec == ServicesInit /\ [][ServicesNext]_allVars

-----------------------------------------------------------------------------
(* The properties of the parts; SessionIsCurrent, RegistryTracksLatest and *)
(* GoodTokenKept are RelaySession's.                                       *)

\* Every part's state has its type.
ServicesType ==
  CASE part = "session" -> TypeOK
    [] part = "accounts" -> Accounts!TypeOK
    [] part = "strangers" -> Strangers!TypeOK
    [] part = "phones" -> Phones!TypeOK
    [] part = "files" -> Files!TypeOK
    [] part = "reading" -> Reading!TypeOK
    [] part = "losing" -> Losing!TypeOK
    [] part = "writing" -> Writing!TypeOK
    [] part = "texts" -> Texts!TypeOK
    [] part = "arrivals" -> Arrivals!TypeOK
    [] part = "notes" -> VoiceNotes!TypeOK

\* A device that believes it has an account has the one the relay made for it, and an
\* account stays with its device and its claim.
AccountsKept ==
  [](part = "accounts" => Accounts!AccountsAgree) /\ Accounts!AccountIsKept

\* "A retry with the same device key and code returns the existing account" (auth.ts:221-222).
RetryIsPossible == Accounts!RetryIsPossible

\* The first message of a session can be opened by its recipient.
FirstMessageOpens ==
  /\ part = "strangers" => Strangers!FirstMessageOpens
  /\ part = "phones" => Phones!FirstMessageOpens

\* What a recipient has accepted is not asked again until an exchange is confirmed.
DecisionStands ==
  [][IF part = "phones" THEN Phones!StandingDecisions ELSE Strangers!StandingDecisions]_allVars

\* An attachment shown can be opened, and one that is queued can be downloaded.
AttachmentsKept == part = "files" => Files!AttachmentsKept

\* The screen shows nothing of another vault than the one that is open.
ScreenBelongs ==
  /\ part = "reading" => Reading!ScreenBelongs
  /\ part = "losing" => Losing!ScreenBelongs
  /\ part = "writing" => Writing!ScreenBelongs

\* A voice note goes to the conversation it was begun in, in the session it was begun in.
NotesInPlace == part = "notes" => VoiceNotes!NotesInPlace

\* The texts of a phone leave it in the order they were written.
LeavesInOrder ==
  /\ part = "texts" => Texts!LeavesInOrder
  /\ part = "arrivals" => Arrivals!LeavesInOrder

\* A message that reaches a phone twice is shown once, and its receipt is not forgotten.
ShownOnce == part = "arrivals" => Arrivals!ShownOnce

\* The relay is asked only by a phone that is open, in a mode that allows it.
RelayOnlyIfAllowed ==
  [][IF part = "arrivals" THEN Arrivals!AskedRightly ELSE Texts!AskedRightly]_allVars

\* 'Durable queues retry on the next tick.' (NativeEngine.java:112).
HeldIsRunning == Texts!HeldIsRunning
=============================================================================
