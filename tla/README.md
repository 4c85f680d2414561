# Crypto-pigeon: a verification development

TLA+ specifications of the Crypto-pigeon messenger, TLC configurations that
model-check them on small instances, and TLAPS proofs of the main results for
instances of any size. The specifications are written from the code in `src/`;
paths below are relative to it (`daemon` is `apps/local-daemon/src`, `relay` is
`apps/relay-server/src`).

To run it, inside this directory: `tlc -config messaging.cfg MCMessaging.tla` for
a run, `tlapm MessagingProofs.tla` for the proofs of a module. `PROJECT.json` lists the
runs, the mutations every property is shown to catch, the source lines of every
definition, the hazards and the theorems.

## 1. The system

A user has a *vault* (an encrypted SQLite database) on a device. A *daemon* - a
Node process on the desktop, a Java engine on Android - owns it, talks to a
browser UI over a local HTTP API, keeps one Signal session per contact and moves
encrypted *envelopes*. Envelopes travel over a *relay* (`RELAY_ONLY`), directly
between onion services (`DIRECT_TOR_P2P`, the default), or over Tor with the relay
as a fallback (`HYBRID_TOR_RELAY`).

| Component | State | Operations | What makes it correct |
| --- | --- | --- | --- |
| Messages and receipts (`daemon/messages.ts`, `consumer.ts`) | tables messages, message_outbox, control_outbox, seen_envelope_ids, contacts, sessions | send, flush, sync, receipts | stored once, never lost, statuses true, queues drain |
| Relay queue (`relay/queue.ts`) | table messages, 30-day retention | enqueue, push, pending, ack | forgets only what was acknowledged |
| Relay client (`daemon/relay-client.ts`) | token, WebSocket, buffer of pushed envelopes | request with re-authentication, watch | a lost or late answer changes nothing for good; no session outlives a lock |
| Daemon API (`daemon/server.ts`) | the request queue, the open vault, timers | every local route, five-second retry | one job at a time |
| Tor routing (`daemon/tor-routing.ts`, `tor-transport.ts`, `tor-recovery.ts`) | mode, transport, background tasks, tor_inbox | route of send/pending/ack, receive, start, close | a task that ends late does no harm; direct mode never uses the relay |
| Signal store (`daemon/signal-adapter.ts`, `signal-store.ts`) | identity, prekeys, ratchets | establish, encrypt, decrypt, upload prekeys | a message key opens once; prekeys do not run out |
| Prekeys at the relay (`relay/prekeys.ts`) | signed and one-time prekeys | upload, bundle, count | a one-time key is handed out once |
| Attachments (`daemon/attachments.ts`, `relay/attachments.ts`) | chunks, download progress, quotas | upload, download with resumption, cleanup | a download ends complete or is retried |
| Disappearing messages (`daemon/disappearing.ts`) | disappear_at | timers, deletion | expiry against a queued or running send |
| Vault and backups (`daemon/secure-vault.ts`, `vault.ts`, `debounced-backup.ts`; `relay/vault-backup.ts`) | files, version, instance lock | unlock, lock, upload, restore, change password | a crash leaves a vault that opens; versions never go back |
| Key fragments (`daemon/horcrux.ts`, `vault-keys.ts`, `vault-dual-key.ts`) | - | derive, split, combine | algebra |
| Accounts (`relay/auth.ts`) | challenges, sessions, activation requests | challenge, respond, activate, approve | a session is the one that was asked for; a device and the relay agree on its account |
| Contact exchange (`relay/conversations.ts`, `blind-dropbox.ts`) | requests, exchanges, acknowledgements | request, accept, reject, acknowledge | both sides learn of an acceptance; it is purged once |
| WebSockets (`relay/ws-handler.ts`, `signaling.ts`) | clients by device | connect, replace, forward | a late close does not drop its successor |
| Change feed (`daemon/change-feed.ts`) | sequence number, subscribers | publish, resume | no change is missed |
| UI and desktop shell (`apps/local-ui`, `apps/desktop`) | a tab's screen, selection, recording, fragments | polls, sends, locks, records, sets vaults up | the screen is the open vault's; a note goes where it was begun |
| Android client (`apps/mobile-android/native`) | its own vaults, queues, transport, link with the relay | the daemon's, in Java, under one monitor | as above; what runs outside the monitor does no harm |

**How they interact.** The UI calls the daemon; the daemon's requests, its
five-second timer and the completions of its Tor tasks form one queue
(`server.ts:62-64, 101-109`). A job of that queue calls the relay and waits for
it, up to 15 s; the relay pushes envelopes into the daemon's buffer at any time. A
background Tor task waits for its peer *outside* the queue and enters it again to
change the database.

**What is hard.** Nothing is exactly-once here but the outcome: an envelope is sent
again until an answer is seen, pushed *and* fetched, delivered over two routes,
acknowledged by an unreliable request, after crashes between any two of these
steps; a request given up may still arrive; receipts overtake answers, pushes
overtake older envelopes; vaults are locked and modes changed while tasks run. A
vault's directory is replaced by renames that a crash comes between; a tab and a
phone remember, across their awaits and callbacks, a vault that is no longer open.
`PROJECT.json` lists these hazards at their lines, with the properties that cover
them.

## 2. The modules

| Module | What it is |
| --- | --- |
| `Delivery` | the abstract service: accept, deliver once, confirm, lapse |
| `Envelopes` | what devices send each other, and its assumption |
| `Messaging` | daemons and relay in `RELAY_ONLY` mode; implements `Delivery` |
| `TorRouting` | daemons in direct and hybrid mode; implements `Delivery` |
| `BackupRegister` | what a cloud backup promises: versions that count, contents that only grow |
| `VaultBackup` | one vault, its restored copies and the relay's backup row; implements `BackupRegister` for vaults that open with a file |
| `VaultRotation` | the desktop operations that replace a vault's directory |
| `RelaySession` | a device's token, push socket and place in the relay's registry |
| `Activation` | how a device gets an account |
| `Contacts` | how strangers come to write to each other; prekeys |
| `Attachments` | upload, downloads, files, expiry, restore |
| `LocalUi` | a tab against the local API |
| `VoiceNotes` | recordings in a tab |
| `PhoneMessaging` | messages of the Android client |
| `PhoneVault` | its vault: uploads, password changes, recovery |
| `PhoneLink` | its link with the relay: route, token, push socket |
| `VaultSetup` | its page, activity, engine and catalog while vaults are set up |
| `MCMessaging`, `MCTorRouting` | constants for TLC |
| `MCVaults` | `VaultBackup`, `VaultRotation`, `PhoneVault`, `VaultSetup`, `PhoneLink` for TLC |
| `MCServices` | `RelaySession`, `Activation`, `Contacts`, `Attachments`, `LocalUi`, `PhoneMessaging`, `VoiceNotes` for TLC |
| `MCLiveServices` | what `VaultBackup`, `Attachments` and `LocalUi` bring about in the end |
| `MessagingProofs` | `Messaging`: types, inductive invariant, safety, action properties, refinement |
| `TorRoutingProofs` | `TorRouting`: the same, and that direct mode avoids the relay |
| `PartsProofs` | `Activation`, `Contacts`, `VoiceNotes`, `Attachments`: inductive invariants, `AccountsAgree`, `AccountIsKept`, `FirstMessageOpens`, `DecisionStands`, `NotesInPlace`, `AttachmentsKept` |
| `ClientsProofs` | `LocalUi`: inductive invariant, `ScreenBelongs`; `PhoneMessaging`: inductive invariant, `LeavesInOrder`, `ShownOnce`, `RelayOnlyIfAllowed` |
| `ServicesProofs` | `RelaySession`: inductive invariant, its three safety and action properties; `MCServices`: that what its parts promise holds of them run side by side |
| `VaultPartsProofs` | `VaultRotation`, `VaultSetup`, `PhoneLink`: inductive invariants, `NothingLost`, `SetupKept`, `LinkBelongs` and that the user's route stands |
| `PhoneVaultProofs` | `PhoneVault`: inductive invariant, `NothingLost`, `CleanIsUploaded`, `BackupNeverOlder` |
| `VaultsProofs` | `VaultBackup`: inductive invariant, `CopiesKept`, refinement of `BackupRegister`; `MCVaults`: that what its parts promise holds of them run side by side |

### Envelopes

One encryption makes one envelope: its id, its ciphertext and the Signal message
key it uses up. The outbox keeps the ciphertext (`messages.ts:101-150`), so every
retry sends the same envelope, and an envelope is identified with what it says:
the text `m`, the delivery receipt of `m`, the read receipt of `m`. The content
of texts never matters. The tables of all devices are kept in one set each:
`Origin(e)` and `Target(e)` say in whose database a row is.

### Messaging

* *State.* `status`, `outbox`, `controls`, `copies`, `latest`, `contact`, `seen` are
  tables; `rowid` and `clock` are SQLite's insertion order; `used` is what the
  ratchet has consumed; `mailbox` and `expired` are the relay's; `job`, `page`,
  `acks`, `pushed`, `rpc` are a daemon's memory; `late` is the network's.
* *Jobs.* A daemon runs one job at a time: `Send`, `Poll` (`/api/fetch-messages`),
  `ReadReceipt`, `Retry` (the timer), `AddContact`. A job is a list of phases
  (`flush`, `sync`, `process`, `controls`), as in `server.ts:93-98, 431-443`.
* *Requests* are three steps - asked, served, answered - and fail in all the ways
  the code distinguishes: refused (`Refuse`), no answer (`TimeOut`), after which the
  request may still arrive (`ArriveLate`), and the process may die at every point
  (`Crash`). A lock is a crash of the job, as `clearSession` drops what was pushed.
* *Receiving* (`syncMessages`): pushed envelopes first, otherwise what is pending;
  duplicates are acknowledged again; unknown senders are met; a text or a receipt
  is one transaction, or is rolled back whole and left unacknowledged.

Left out: typing and profile messages (they change nothing checked here), a
message's attachments and expiry, and the `identity_changed` filter of
`flushOutbox` - a changed identity key makes libsignal refuse the session
(`signal-store.ts:270-273`) before the flag is ever set by a received message. No one writes to
themselves. The relay's answer "recipient unknown" is one of the bounded
refusals: a permanently refused row is `TorRouting`'s subject.

### TorRouting

The same jobs, seen from the router. A send is answered 503 at once and done by a
background task (`tor-routing.ts:23-43`): `StartTask`, then `TorReceive` at the
peer and `TorAnswer`, or `TorFail`/`TorLost` and in hybrid mode `Prepare`, `Post`,
`RelayTakes`; at last `Finish`, which takes the row out if the task's transport and
database are still the daemon's. Those two comparisons are booleans of the task:
`linked` (transport and database handle) turns false when the daemon gets another
one, `inSession` when `torGeneration` moves on. Around the tasks vaults are locked
and unlocked, modes changed, transports started, lost and replaced, processes
killed. `sync` reads `tor_inbox` first and asks the relay only when it is empty;
acknowledgements are split the same way.

Left out: attachments, pairing (both sides know each other), the Tor control
protocol (its outcome is "up" or not), the PIN lock, which keeps jobs from starting, the relay's
retention (`Messaging` has it), quitting in an orderly way, which is a `Crash`
that completes.

### VaultBackup

One vault's backup row and instance lock at the relay, and the *copies* of the vault:
the root directory it was created in and those it is restored into, each with a daemon.

* *State.* `content` is a copy's database, reduced to the edits in it; `version` and
  `saved` are `backupVersion` in memory and in the file; `instance` is the
  `vault_instance` token; `dirty` and the timer's entry in `uploads` are the fields
  of `DebouncedBackup`; `uploads` is the chain of `backupTail`, its first member the
  one that runs; `request` is what the daemon's one request waits for.
* *An upload* is taken and encrypted (`SyncBackup`) long before it is sent: it waits
  for its predecessors, gets its version (`Begin`), is judged by the relay (`PutHead`),
  and only then do memory (`Answered`) and file (`SaveConfig`) follow. In between it
  is not reached, times out and arrives late, loses its answer or its process.
* *The relay* compares versions, recognises a replay by its nonce, and refuses an
  instance that is not the device's (`InTurn`, `Identical`, `Moved`).
* *Two kinds of vault.* What the daemon creates keeps its seventh shard in a file and
  never reads the relay's version again. A relay-bound one - a decoy, or a vault of
  the older layout, `RelayBound` - takes the version from the relay at each unlock.

`Restore` reads the backup and installs it in one step. Uploads in between would
leave the copy where uploads after it leave it, behind the relay. Its file operations,
storage files and password changes are `VaultRotation`'s; a relay change, and a
restore beside an upload of the replaced copy that is still running, are left out.

### VaultRotation

A password change, a restore and an import each provision a directory of their own
and end by exchanging it for the root (`secure-vault.ts:195-289`).

* *State.* A directory is a *generation* of seven fragments, what its database holds
  and which password it was made with; `root`, `stage` and `aside` are the places a
  directory can be. `row` is the relay's backups by password, `files` and `capsules`
  what the user has saved, `browser` the client fragment that
  `vaultFragments.ts` keeps. `lost` and `edits` are histories.
* *Actions.* An operation is begun (`ChangeAtRelay`, `ChangeWithFile`, `Restore`,
  `ImportStorage`) and is then the list of its steps, in the order of the code's writes:
  `SyncOld`, `PutNew`, `DeleteOld`, `MoveAside`, `Switch`, `UnlockNew`, `Answer`. Before
  each the daemon may die (`Crash`), the step may fail (`Fail`), a request may be lost
  or its answer may be.

### RelaySession

The token cache, its shared refresh and the push socket of `relay-client.ts`, against
challenges, sessions and the registry of `auth.ts` and `ws-handler.ts`.

* *State.* `generation` counts `clearSession`; an authentication, a socket and a pushed
  envelope remember the generation that asked for them. `loop` is what each chain of
  `connect` waits for, `timer` the one whose handle the client holds; `link` has the two
  ends of every socket, since either may learn last that it is over.
* *Actions.* `Watch`, `TimerFires`, `Fail`, `Granted`; `StartRequest`, `SendPrepared`,
  `RequestAnswered` for a request and its 401; `Lock`, `Unlock`, `ChangeTransport`;
  at the relay `GetChallenge` (the newest replaces the others), `Respond`, `SessionEnds`,
  `CheckUpgrade`, `Register`, `PingFails`, `RelayHearsClose`, `Push`.

### Activation

`selfActivate` and `activateIdentity` of the daemon, `apply` and `activate` of the relay:
claims, the row of each name with its attempts and expiry, requests whose caller has
given up (`late`). A request's id and its code are drawn together, so one number stands
for both; `TypeCode` is the user who types them by hand, rightly or wrongly. Not
modelled: the administrator's approval, account recovery, revocation.

### Contacts

Requests with their decisions and expiry, permissions, exchange acknowledgements as
read-committed transactions (`InsertAck`, `CommitAck`: of two that run at once neither
sees the other's row), bundle requests as transactions that hold rows locked
(`Take`, `CommitBundle`, `RollBack`), and the daemon's writes between the answer and
the first message (`Establish`, `SaveRemote`, `FinishContact`, `SendFirst`), with a crash
between any two. `Phone` are the users whose client confirms exchanges; the desktop
never does. Not modelled: invitations and the dropbox of Tor users, replenishment.

### Attachments

One recipient and some attachments on their way: the blob and its chunks, the
durable queue, the file, the row and the relay's copy, which the code changes in four
writes. The disappearing-message job unlinks a file and then deletes its rows; a
backup takes rows, queue and files together and a restore brings them back. The
digest and the nonce of each chunk are not modelled: chunks are the sender's.

### LocalUi

A tab is its handlers between their awaits. `pending` holds the requests under way,
each with the epoch, the conversation and the CSRF token of the render that asked; the
server takes them one at a time (`InTurn`, `Serve`), and answers come back in any order
(`Handle`), some after a lock, a quick lock or another vault. `screen` is what is
shown, `optimistic` the texts shown before they are stored. A wake-up of the change
feed is a poll.

### VoiceNotes

A button that is clicked or held, a permission the browser asks for, a recorder
whose end is an event, and the upload of what it recorded; each handler sees the
conversation and the token of its render, and shares `recorder`, `chunks` and
`cancelled` through refs. A behaviour is followed until two recordings exist side by
side (`overlap`, see the limits below).

### PhoneMessaging

The engine's monitor serialises what the user asks, the tick and what arrives; an
attempt to deliver runs outside it and comes back at the end, with the vault, the
transport and the epoch it began with (`Complete` compares them). `TryDirect` queues an
attempt in the pool of a transport, `Transmit` takes it out, `PeerAccepts`, `PeerIsAway`
and `FallBack` end it or hand it to the relay, `StopDirect` closes the transport and
what waits in its pool. `Send`, `FlushTexts`, `FlushControls`, `Sync` are whole handlers.

### PhoneVault

A vault of the phone as in `VaultRotation`, with what differs there: the upload the
timer starts runs outside the monitor (`up`), marks by the number of changes
(`backed`) and by the dirty generation (`stale`), and a password change writes a journal
which the next start completes (`RecoverSteps`). Operations are lists of steps with a
crash or a failure between any two, compensation included (`Undo`).

### PhoneLink

The route to the relay and how it is found again (`Discover` begins a lookup outside the
monitor, `Found` and `LookupFails` end it), the token and the push socket of the open
vault, the listener of a socket, whose callbacks do not take the monitor (`SocketEnds`,
`Act`), the reconnection, the network's callback with its handover, the foreground
service, and the background thread's tasks in their order (`posted`). What
messages then do is `PhoneMessaging`'s.

### VaultSetup

A new vault cannot be opened again without the file of its seventh segment. Three
parties take part in saving it: the page (`VaultGate.tsx`), the activity with the
system's dialog and the thread that writes the file (`MainActivity.java`), and the engine
(`NativeEngine.java`), which numbers dialogs by `fileEpoch`. The catalog's entries on
disk (`NativeVaultCatalog.java`), locks, a page loaded anew and the end of the process
between any two steps are in it.

### The modules for TLC

`MCVaults`, `MCServices` and `MCLiveServices` instantiate components that share no
state here. A behaviour chooses one (`part`) and runs it, with the others at rest in
their initial states, so one run explores the union of the parts' state spaces, not
their product, and a property of a part is checked where that part runs. The steps in
which parts do meet are in the modules: a lock in `LocalUi` and in `RelaySession`, a
restore in `Attachments`, arrivals in `PhoneMessaging`.

## 3. The runs

| Run | Instance | Shows |
| --- | --- | --- |
| `messaging` | 2 devices, 1 message, both receipts, 2 faults, push buffer of 1, expiry | type and safety invariants, custody of envelopes, refinement of `Delivery` |
| `messaging_live` | 2 devices, a message each way, 1 fault | every message stored, every queue drained, without any help from the UI |
| `receipt_regress` | 2 devices, 1 message, 1 fault | *violated*: a processed receipt is overwritten by a late 202 |
| `tor` | 2 devices, 1 message, 3 mixes of modes, 1 change, 1 fault | the same safety for Tor tasks; direct mode avoids the relay; refinement of `Delivery` |
| `tor_live` | 2 devices, 1 message, 3 mixes of modes, 1 fault | stored and drained where the two ends use the same route |
| `tor_starvation` | 3 devices, 2 messages, direct mode | *violated*: a younger row is never tried behind an absent peer |
| `vaults` | 2 copies, 2 edits, 1 loss; rotations with 3 generations; a phone's vault with 2 passwords; 3 vaults set up; a phone's link | types, `CopiesKept`, refinement of `BackupRegister`, `NothingLost`, `CleanIsUploaded`, `BackupNeverOlder`, `SetupKept`, `LinkKept` |
| `services` | a device's session; 2 devices and 2 names; 3 strangers and 2 phones; 2 attachments; a tab with 2 vaults; 2 recordings; a phone with 2 texts | types, and a property or two of each: see below |
| `live_services` | a relay-bound vault, 2 attachments, a tab with 2 conversations, 1 or 2 failures | open vaults are backed up, queued attachments downloaded, stored messages shown |
| `activation_lost` | as `services` | *violated*: a device loses the claim of an account it has |
| `password_unchanged` | as `vaults` | *violated*: a failed password change leaves a vault no password opens |
| `queue_held` | as `services` | *violated*: a phone's envelope is held back by an attempt that never ends |

The properties of `vaults`:

* `CopiesKept`: what a copy believes current is complete at the relay, and a backup
  reported made is kept; `ImplementsRegister`: no upload replaces what its writer
  has not seen.
* `NothingLost`: wherever an operation of the desktop or the phone stops, all that was
  written opens from a directory, a backup or a storage file.
* `CleanIsUploaded`: the phone does not take for uploaded what changed during an upload.
  `BackupNeverOlder`: none of its uploads replaces a newer backup, not even a late one.
* `SetupKept`: a vault in the catalog has its own segment saved, and what was written
  is in a vault that can be opened again.
* `LinkKept`: token and push socket belong to the vault that is open and to the route
  in force; a route the user chose is left by the user alone.

Those of `services`:

* `SessionIsCurrent`, `GoodTokenKept`, `RegistryTracksLatest` (`RelaySession`): no token or
  socket of before a lock is used after it; a token that works is not thrown away; the
  relay pushes into the newest socket.
* `AccountsKept` (`Activation`): the account a device believes it has is its own at the
  relay, and stays so.
* `FirstMessageOpens`, `DecisionStands` (`Contacts`): the recipient still has the keys a
  first message needs; an accepted request is not asked again before an exchange
  is confirmed.
* `AttachmentsKept` (`Attachments`): what is shown ready can be opened, what is queued can
  be downloaded.
* `ScreenBelongs` (`LocalUi`), `NotesInPlace` (`VoiceNotes`): nothing of another vault is
  shown; a note reaches the conversation and session it was begun in, uncancelled.
* `LeavesInOrder`, `ShownOnce`, `RelayOnlyIfAllowed` (`PhoneMessaging`): texts leave in order,
  arrivals are shown once, and the relay is asked in hybrid mode by an open vault only.

**Bounds.** `MaxFaults` bounds lost answers, refusals, failed transactions, broken
transports and crashes together; `MaxChanges` locks and mode changes. The hazards
are about *one* envelope taking several routes, so one message with its receipts
meets itself - sent twice, pushed and fetched, late after its acknowledgement -
and two faults allow a fault while recovering from a fault. A second message
matters only for order: `tor_starvation` and the texts of `services` have it. Two
devices suffice as daemons share no state but through the envelopes between two
of them; the exception, one peer's rows blocking another's, is `tor_starvation`.
The push buffer of one overflows with two envelopes. `tor` begins with at most one end in
hybrid mode; both are after a change of mode. The proofs
cover the safety properties of these two modules for every value of the constants.

In `VaultBackup`, `MaxRequests` bounds what users ask (locks, settings, backups by
hand, restores): three let a vault be backed up, restored elsewhere and the copy turned
on. Two edits let one be registered while another is made or not;
a third copy would only be a second copy restored later. One loss is a lost
or late answer, a request repeated by the network, or a crash. Six identifiers
are more than are ever in use at once. In `VaultRotation` three generations are a vault,
its successor and the successor's, so an operation can follow one that was stopped;
one fault and one loss stop an operation once and lose one answer. In `PhoneVault` one
write before or during two uploads and a password change tell a backup that has it from
one that has not. `VaultSetup` has one vault ID with a backup and a storage file and one
without, so that creation, restore, import and a choice among vaults of one ID all
occur. `PhoneLink` is run twice: with two routes chosen or looked up and one listener,
and with two changes of network, mode or service and two listeners, since only then does
an older socket's callback come after a newer one's.

In `services`, two authentications and two sockets let an old one be overtaken by a
newer; two names, three claims and two losses let a device ask anew after a
lost answer, and two attempts stand for five. One prekey of a kind runs out at the
second bundle. Two attachments make a batch of two whose first fails. Three epochs are
one vault, another, and the first again; a tab reads with two conversations opened, or
with one and a lost answer, or writes a text; two recordings are the least that can be
confused. A phone has two transports and two stops, so an attempt can outlive both.

**Fairness.** `Messaging`: weak fairness of each daemon's own steps together with
the relay's service of its request - the event loop runs, the five-second interval fires
(`server.ts:99-100`), a request is answered or ended after 15 s. `TorRouting`: the same,
weak fairness of Tor coming up, and strong fairness of the task of an envelope,
because its steps between jobs are enabled again and again, not continuously; the
promise queue of `server.ts:62-64` is first-in first-out, so each is reached. `VaultBackup`: weak fairness of each copy's timer and uploads, as fifteen-second timers
fire and `fetch` ends after 30 s, and strong fairness of the request that drains the
timer's upload, which resumes when that upload is over and before the next one can begin.
`Attachments`: weak fairness of the download steps together, which the daemon's jobs
begin again and again (`server.ts:488-492`). `LocalUi`: weak fairness of the poll's interval,
and of serving and handling each kind of request, as the server's queue is first-in
first-out and `fetch` settles. Nothing is
assumed of users, faults, expiry and requests nobody waits for. Deadlock
is checked in the runs of `Messaging` and `TorRouting`. In the others it is not: a vault
with no user and no change rests, an account once made, a file once downloaded and a
vault once set up leave nothing to do, and the bounds end what users do.

**What the violated runs mean.**

1. `receipt_regress` (`messages.ts:193`): `UPDATE messages SET status='sent'` has no
   condition on the old status. The first request's 202 is lost, the recipient's
   receipt comes, then the retry is accepted: the message shows "Sent" for ever,
   as a receipt is sent once. The Tor path has the condition (`tor-routing.ts:39`), and
   `NoRegress` of run `tor` holds.
2. `tor_starvation` (`messages.ts:191` with `tor-routing.ts:43`): every Tor send
   answers 503, which ends the flush after the oldest row.
3. `activation_lost` (`server.ts:291`): a device keeps one claim. When the answer to an
   activation is lost and the user tries another name, the claim of the account that was
   made is replaced; the second name is refused because the device has an account, the
   first because it is taken.
4. `password_unchanged` (`secure-vault.ts:281`): every failure of the request that deletes the
   old backup is taken for "nothing was deleted". When only the answer was lost, the new
   fragments are thrown away and the old ones are gone.
5. `queue_held` (`TorOnionTransport.java:145`): `shutdownNow` drops a task that waits in the
   pool, its future never completes, and the envelope's id stays in `torJobs`, also for
   every later transport.

**Limits the models make explicit.** Each was met while modelling, and no run is kept
for it; the model has the steps that show it, and a property that needs the case
excluded says so.

* In `PhoneVault`: each row at the relay counts its versions anew, so a password change to
  another password and back (`NativeVault.java:280-298`) lets an upload that was given up
  before them find the version it expects, and it replaces the newer backup
  (`vault-backup.ts:13, 41`). `docs/vault-backup-and-android.md:116-117` says that version
  checks prevent it. A request is marked `stale` once its row is deleted, and
  `NothingLost`, `CleanIsUploaded` and `BackupNeverOlder` speak of behaviours until such a one
  is accepted (`lost`).
* A read receipt covers all earlier rows (`messages.ts:307`) but pushed envelopes overtake
  older pending ones (`messages.ts:214-215`): "Read" can be shown for a message that has
  not arrived. `Messaging`'s properties do not forbid it.
* A backup by hand cancels the timer's retry, and its failure schedules nothing
  (`server.ts:225`). `EventuallyBackedUp` assumes that no upload made by a request fails.
* A restored copy gets a new instance token, the relay knows the old one, and nobody
  claims it (`secure-vault.ts:236`): its uploads are refused for good.
* Unlocking a relay-bound vault adopts the version of a backup that another copy wrote
  (`secure-vault.ts:135`), which its next upload replaces. This is why `BackupRegister` is
  implemented for vaults that open with a file.
* After a lost answer a vault that opens with a file is behind the relay for good and
  every retry conflicts. That is safe (`CopiesKept`) and costs liveness;
  `EventuallyBackedUp` assumes it away. So does a relay-bound vault until it is unlocked
  again.
* Downloads that a restore brings back, whose blobs are gone, stay at the head of a batch
  of eight and starve the others (`attachments.ts:42`). `EventuallyDownloaded` has no restores.
* A page loaded anew in the middle of a setup goes to the main view of a vault whose
  segment is not saved (`VaultGate.tsx:217`, `MainActivity.java:102`). `WrittenCanBeOpened`
  excludes it (`strayed`).
* Two recordings that wait for a permission at once share the recorder and the cancel
  flag (`App.tsx:1069`): a hold timer of the first resets the flag, and a cancelled note is
  sent. `VoiceNotes` is followed until `overlap`; past it `NotesInPlace` fails. A note is
  also lost while a file uploads (`App.tsx:1000`), and a permission granted after a lock
  records on the locked screen (`App.tsx:1074`).
* `pendingStorage` of a choice survives a page loaded anew (`server.ts:202`,
  `NativeEngine.java:486`).
* In `PhoneLink`: a phone set to direct mode keeps its push socket (`NativeEngine.java:445`); a
  socket whose failure precedes the assignment of the field stays in it
  (`NativeEngine.java:303-306`), and a late failure drops its successor; `networkAvailable`
  stays false in relay mode when it was chosen without a network; a domain found where
  another was in use is refused and never replaced (`NativeEngine.java:335` with 272); an old
  service's `onDestroy` clears the request of its successor
  (`PigeonForegroundService.java:39` with 18).
* A hybrid sender that falls back on the relay for a recipient in direct mode is told
  "sent", and the recipient never asks the relay. `EventuallyStored` therefore assumes
  that the recipient is hybrid or the sender is not.

## 4. The proofs

**`Messaging`**, for all sets of devices and messages, every push limit and number
of faults, from `EnvelopeAssumption` (messages have a sender and another device as
recipient) and `MessagingAssumption`:

* `TypeCorrect`: the type invariant, with `WaitsInsideJob`: a daemon waits for an
  answer only inside the phase that asked.
* `Invariant`: the inductive invariant `IInv`. None of the safety properties is
  inductive alone. `IInv` adds
  - *Provenance*: wherever an envelope is - an outbox, the relay, a page, a push
    buffer, a request, even a late one - its text was written, and a receipt
    exists only for a message that has been stored;
  - *StoredIsSeen*: a message has one copy exactly when its text is marked seen,
    the reason it is never stored again;
  - *AckedIsSeen*: whatever is about to be acknowledged, in memory, in a request or
    in a late request, has been committed, the reason the relay may forget it;
  - *AcceptedIsHeld*: an answered send has left the envelope at the relay or
    beyond, the reason its row may go.
* `Safety` (`StoredOnce`, `NothingLost`), `Backed` (`StatusIsBacked`), `Unstuck` (`NoneStuck`).
* `Custody`: `CustodyKept`, that is `ForgottenOnlyWhenSeen` and `ReleasedOnlyWhenHeld`.
* `Refinement`: `Messaging` implements `Delivery` under the mapping at the end of the
  module: each step of daemons, relay or network is an abstract step or stutters.

**`TorRouting`**, for all sets of devices, messages and known peers, every mix of
modes, any number of faults and changes, from `EnvelopeAssumption` and
`RoutingAssumption` (the constants have their types):

* `TypeCorrect`, and `Invariant` with an `IInv` of the same build: *Provenance* and
  *StoredIsSeen* as above, *AckedIsSeen*, and two facts about tasks:
  - *AcceptedIsHeld*: a task with an answer has its envelope in the peer's inbox, at
    the relay or beyond, the reason `Finish` may take the row whatever happened to
    the daemon in between;
  - *PreparedIsHybrid*: a fallback prepared in the present session was prepared in
    the present mode, because `Configure` begins a session with every change.
  The argument goes through *frames*: which steps write the tables, what transit
  can lose and gain, what a sync can read, and where the tasks after a step come
  from (`WellBorn`), so that each part of `IInv` is shown from a frame or two.
* `Safety` (`StoredOnce`, `NothingLost`), `Custody` (`CustodyKept`), `ReceiptsStand` (`NoRegress`), `DirectMode`
  (`DirectAvoidsRelay`), and `Refinement`: `TorRouting` implements `Delivery` with
  nothing ever lapsing.

`StoredOnce` is proved and not listed among the properties of a run: a violation of it
breaks `ImplementsDelivery`, which the runs check.

**`VaultBackup`** (in `VaultsProofs`), for vaults that open without the relay (`~RelayBound`), all sets of
copies and edits, any number of requests, failures and losses, from
`BackupAssumption`. Nonces and instance tokens are random values, and the model takes
one nobody uses; `[]IdsLeft` says that there always is one, as 96 random bits
allow, and is a hypothesis of the theorems because a set of values may be small.

* `Invariant`: `IInv` has `TypeOK`, `StaysExternal` (such a vault stays one) and
  - *who believes in a version has seen its content* (`Knows`): the configuration in
    memory (`version`) and in the file (`saved`, to which a crash returns), every
    snapshot that waits, the request that runs, its answer (`CopiesKnow`,
    `UploadsKnow`), and every request that may still arrive (`LateKnows`). It is kept
    because snapshots wait in the order they were taken (`Ordered`), so that a version
    learned from one answer is believed by later snapshots only, which hold more;
  - *a nonce names one body* (`OneSlot`, `SlotIsBody`, `OneBody`), the reason the relay
    may answer a repeated request without writing it and the copy may believe it.
  What steps do to the queue of uploads is stated once, as frames (`Appended`,
  `Replaced`, `Dropped`), and each part is kept frame by frame.
* `TypeCorrect`, `Kept` (`CopiesKept`) and `Refinement` (`ImplementsRegister`): only the relay's
  put changes the row, and only for a request that is in time.

For a vault that opens with the relay's shard the refinement fails: `Unlock` adopts a
version whose content the copy has not seen (see the limits above).

**`RelaySession`** (in `ServicesProofs`), for any number of authentications, sockets, reconnect loops, locks
and losses, from `SessionAssumption`:

* `TypeCorrect` and `Invariant`: `IInv` has `TypeOK`; *TokenInv*: the cached token came
  from an authentication of this generation, at most one of which is under way, shared
  by all that wait, and begun only while nothing is cached; *SocketIsCurrent*: the
  client's socket, and what it brings, is of this generation; and
  `RegistryTracksLatest`, which is inductive.
* `Current` (`SessionIsCurrent`), `Registry` (`RegistryTracksLatest`), `TokenKept`
  (`GoodTokenKept`): a cached token goes with its session or after the relay has
  refused it, never by the hand of a request that was refused with an older one.

`PartsProofs` has the next four. It extends `Activation` and instantiates the other three with
the variables of `MCServices`.

**`Activation`**, for all sets of devices and names and any number of claims, attempts
and losses. `AccountsAgree` alone is not inductive: a device believes an answer. `IInv` adds

* *ClaimsDiffer*: a claim is handed out once, for one name, as `request_id` is a key;
* *OwnedIsClaimed*, *OneAccount*: an account is made of a claim, and a device has one;
* *AnswersAgree*: an answer on its way to a device names the account the relay made for
  it. This is kept because accounts are never given away (`Stays`, that is
  `AccountIsKept`), not even by a request that arrives after its caller has given up.

**`Contacts`**, for all sets of users and phones, any number of one-time prekeys and
crashes. `FirstMessageOpens` says of a message under way that its recipient still has the
private halves of the prekeys it names; what could break it is a prekey handed out
twice, whose private half goes with the first message. `ContactsInv` follows a prekey:

* *HeldOnce*: while it is free, one transaction at most holds it locked (`Take` skips
  locked rows), and it is free until that transaction commits;
* *HandedOnce*: once it is not, one asker has it, in an answer, in a session or in a
  message, and in one of these only, whatever crash cuts the daemon's writes;
* *StillPrivate*: its owner keeps the private half while it is in any of these places;
* *AcksGiven*: the acknowledgements the relay keeps were given by their user, so that the
  purge which ends a decision takes both. Hence `Decisions` (`DecisionStands`).

**`VoiceNotes`**, for all conversations and any number of recordings and locks.
`NotesInPlace` speaks of what was posted, long after the handlers that could confuse it.
`NotesInv` has *OneAtATime* (all but the last recording are over, and only the
recorder's is recording or stopping), *SoundIsRecorders* (the chunks kept are the
recorder's, and a recorder that was cancelled still knows), and *SentInPlace* (an upload
in any of its steps has only recordings that are over, of its conversation and session).
The first holds while no two recordings exist side by side (`overlap`), as the model does.

**`Attachments`**, for all attachments, any number of chunks, batches, faults and restores.
`FilesInv` has `ReadyIsReadable` and what keeps it and `QueuedIsObtainable`:

* *DownloadsWait*: what is queued, here or in the snapshot, has a row that waits, and what
  has a row was sent; *SentIsWhole*: a message is sent when the relay has its chunks;
* *StepsFollow*: a download that is committed has its file and is not queued, so that
  the relay's copy is freed only then;
* *BackupIsReadable*: the snapshot is as whole as what it was taken of.

The queue is filtered by `Without`, a recursive function. What it returns
(`WithoutFacts`: the members that stay, each once) is proved for every queue from the least
number that would be an exception (`AllOf`), as the induction theorems cannot be used.

**`LocalUi`** (in `ClientsProofs`), for all vaults, conversations and items and any number of locks, selections
and losses. What the screen shows comes from answers, and answers from requests that
were asked before a lock. `IInv` says what a request of each kind may be about in each
epoch (`WellFormed`), that one change of the vault is under way at a time (`OneChange`),
that an answer has only what is stored (`AnswersAreStored`, `OptimisticIsStored`,
`ScreenIsStored`), and that every conversation the tab has, or will have when it handles
an answer of this epoch, is of the vault that is open (`Listed`, `ListedBelong`). That
last part needs two more: a lock that may still be served finds no list
(`LockFindsNone`), and contacts asked for in this epoch are answered before another
vault is opened (`AskedOfMine`). `Belongs` is `ScreenBelongs`.

**`PhoneMessaging`** (in `ClientsProofs`), for all texts, receipts and arrivals and any number of transports,
locks, changes of mode and faults, where no text is a receipt.

* `LeavesInOrder` says nothing of attempts, and these are what could break it. `IInv` has
  the outbox as the end of what was sent, no text twice (`IsRest`); all that has left it
  is accepted, and of what was accepted *or has an attempt running*, nothing is behind the
  head (`InOrder`). So an attempt of an earlier session that completes deletes the head or
  nothing. The lemma `Advance` says this of any queue whose first texts leave, and the
  flush, the completed attempt and the relay's answers are instances of it.
* `AttemptsStand`: an attempt with an answer has its envelope accepted; one that posts in
  the present epoch does so in an open vault in hybrid mode, as every lock and change of
  mode ends the epoch. Hence `Allowed` (`RelayOnlyIfAllowed`), though `Post` asks for the
  epoch alone.
* `ShownOnce` is inductive with these: its receipt leaves the queue by an accepted attempt.

**`ServicesProofs`** carries the last six over to the instances of `services`: an instance
of a component and the one its proofs are about are the same formulas, each part's
invariant holds while that part runs, and a step of one part leaves the others' variables
alone. `ServicesInv` is the conjunction, with that of `RelaySession`, whose variables the
run shares. Every invariant and action property of `services` is a theorem of
`ServicesSpec` or, for those of `RelaySession`, of its `Spec`. The hypothesis `Apart` says
that what stands for none, and a text and a receipt, are told apart, as model values are.

**`VaultRotation`** (in `VaultPartsProofs`), for all passwords and any number of
generations, edits, faults and losses. `NothingLost` asks of every moment what could be
opened if the daemon stopped there. `RotationInv` has

* *what an operation has still to do* (`JobsShape`) and, by it, where the directories are
  (`PlacesAgree`) and what the relay has (`RelayJob`): a rotation at the relay has put the new
  row before it deletes the old one;
* *a directory in use holds all the user counts on, or a copy does* (`WrittenIsHeld`), and one
  that knows of its backup is not older than it (`KnowsItsBackup`), the reason a backup may
  stand for what it replaces;
* *the browser's fragment and the relay's are those of the open directory* (`OpenIsOpened`),
  and, where none is open, a copy, a directory aside or the root opens again
  (`StillThere`, of which `NothingLost` is a part).

**`VaultSetup`** (in `VaultPartsProofs`), for all vault IDs and any number of vaults,
locks, dialogs and crashes. `SetupKept` is about the catalog; what could break it is the
answer of a dialog of an earlier vault. `SetupInv` adds that nothing that waits is of a
later epoch (`EpochsFollow`, where a lock and an unlock each begin one), that a file
saved in this epoch is the open vault's (`SavedIsOpen`), and that the open vault is in
the catalog or its ID is pending (`OpenIsAdopted`). With them what is listed has been
saved (`ListedIsSaved`) and what was written is listed (`WrittenIsListed`, until `strayed`).

**`PhoneLink`** (in `VaultPartsProofs`), for all vaults and routes and any number of
sessions, lookups and changes, where no route of the user's own is one that a lookup
finds. `LinkInv` has `PushIsOwn` (token and socket are of the vault and the route in
use), and `RoutesKnown`: a lookup starts from, and finds, routes of the build or of the
relay only, so that one which ends late cannot leave a route that the user chose.

**`PhoneVault`** (in `PhoneVaultProofs`), for all passwords and any number of shards,
uploads, writes and faults. It is the longest of these arguments: an operation's steps,
the upload beside them and the request that comes late each write the same row. `PhoneInv` has

* `JobsShape`, `PlacesAgree` and `ChangePrepared`: by what is still to do, where the
  directories are and what the relay has been given of the next one;
* `InFlight` and `LateIsNoOlder`: an upload under way holds at least what the row holds; one
  that was given up is the row's next version only while nothing newer was taken, so the
  relay's comparison of versions refuses it afterwards;
* `AtTheRelay`: the directory that recovery would choose (`Recovered`) has its generation
  at the relay, except between the deletion of the old row and the journal (`Gone`), where
  the new row has everything;
* `CleanIsThere` and `OldIsClean`: what is marked clean is in the row, also while the
  old directory waits to be moved aside, to which an undone change returns.

`PhoneLosesNothing` gives the types, `NothingLost` and `CleanIsUploaded`;
`PhoneBacksUpForward` is `BackupNeverOlder`. The invariant's proof found the late upload
described under the limits above: `LateIsNoOlder` was not inductive without `stale`.

**`VaultsProofs`** carries these over to the instances of `vaults` in the same way. `VaultsInv`
is the conjunction, where the link's invariant is that of the bounds it runs with
(`link` or `routing`). `VaultsType`, `NothingLost`, `SetupKept`, `CleanIsUploaded`,
`BackupNeverOlder` and `LinkKept` are theorems of `VaultsSpec`; `CopiesKept` and
`ImplementsRegister` are theorems of `VaultBackup`'s `Spec`. The hypothesis `Apart` says that the
constants which stand for none, for the user's routes and for the others are different.
`VaultsType` asks also for `~RelayBound` and `IdsLeft`, because the types of the backup's part
rest on its invariant.

Every invariant and action property of a passing run is the statement of a theorem.
What TLC alone checks are the liveness properties, as fairness and ENABLED are outside the
prover, and the five violated properties, each refuted by a behaviour. For vaults that
open with the relay's shard nothing is claimed of `CopiesKept`; `live_services` runs one for
`EventuallyBackedUp`.

## 5. The plan

The modules that are missing, in this order: replenishment and rotation of
prekeys (`prekeys.ts:70`, `signal-adapter.ts`); the change feed's cursor with its reset
(`change-feed.ts`); attachments and their cache on the phone, and chunks over Tor; a
change of relay (`server.ts`); forwarding of calls (`signaling.ts`).

**Not modelled, and why.**

* Key derivation, secret sharing and the ratchet: algebra and an external library. A
  generation of fragments, or a message key, is the unit the models use.
* Rendering, packaging, relay start-up and migrations, rate limits, the administration
  command line: no state the properties are about.
* Invitations and the dropbox of Tor users; re-upload of one-time prekeys
  (`prekeys.ts:70`); a sent message that expires while its outbox row waits
  (`messages.ts:192`, `disappearing.ts:47`); spooled chunks that are cleaned up before their
  message is sent (`tor-transport.ts:28`): later modules.
* Behaviour that is in a module and that no property covers. Hybrid mode asks the relay
  only while the Tor inbox is empty (`tor-routing.ts:17`), so a peer that keeps writing
  keeps it from the relay's. Two acknowledgements of an exchange in concurrent
  transactions purge nothing (`blind-dropbox.ts:19`, `Contacts`). A pending request that has
  expired is neither listed nor replaced (`conversations.ts:40`, `Contacts`).
* A restored snapshot brings back ratchet state older than what peers have received
  (`secure-vault.ts:234`): what libsignal makes of it is outside these models.
