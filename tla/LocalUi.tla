------------------------------- MODULE LocalUi -------------------------------
(***************************************************************************)
(* One tab of the desktop UI (apps/local-ui/src/App.tsx) against the local *)
(* API (apps/local-daemon/src/server.ts, auth.ts).  A component's handlers *)
(* run to their next await; the answers they wait for come back in any     *)
(* order, some after the vault was locked or another one opened.           *)
(*                                                                         *)
(* What a handler remembers of the moment it asked is the epoch of the     *)
(* vault and the conversation; the cookie is the browser's, the CSRF token *)
(* that of the render that asked.                                          *)
(***************************************************************************)
EXTENDS Naturals, FiniteSets

CONSTANTS
  Vault, Conversation, Item,  \* Item: messages that arrive and texts the user sends
  Owner,       \* Owner[c]: the vault conversation c is in
  Text,        \* the items the user writes
  None,
  MaxEpochs,   \* bound on locks and unlocks
  MaxSelects,  \* bound on conversations opened
  MaxLosses    \* bound on answers that fail, and on screens locked

VARIABLES
  vault,       \* the vault the daemon has open
  session,     \* generation of the one local session
  quick,       \* quickLocked of the daemon
  stored,      \* rows of messages: pairs of a conversation and an item
  view,        \* vaultState and quickLocked of the tab
  mine,        \* history: the vault the tab has opened
  csrf,        \* csrfToken: a session's generation
  epoch,       \* vaultEpochRef
  contacts, selected,
  screen,      \* messages: what is shown, by the daemon's id or a local one
  optimistic,  \* optimisticRef: texts submitted, with the id they are known by
  syncing,     \* syncInFlightRef: the epoch it was begun in
  sending,     \* sendingRef
  pending,     \* requests without an answer, and answers not yet handled
  selects, losses

daemon == <<vault, session, quick, stored>>
tab == <<view, mine, csrf, epoch>>
lists == <<contacts, selected, screen, optimistic, syncing, sending>>
counts == <<selects, losses>>
vars == <<daemon, tab, lists, pending, counts>>

Kind == {"sync", "load", "contacts", "send", "lock", "open", "quick", "pin"}
About == Conversation \union Vault \union {None}
Request == [kind : Kind, epoch : 0 .. MaxEpochs, csrf : 0 .. MaxEpochs, about : About,
            text : Text \union {None}, at : {"asked", "ok", "failed"},
            data : SUBSET (Item \union Conversation)]

TypeOK ==
  /\ vault \in Vault \union {None} /\ mine \in Vault \union {None}
  /\ {session, csrf, epoch} \subseteq 0 .. MaxEpochs /\ quick \in BOOLEAN
  /\ stored \subseteq Conversation \X Item
  /\ view \in {"locked", "unlocked", "quick"}
  /\ contacts \subseteq Conversation /\ selected \in Conversation \union {None}
  /\ screen \subseteq {"stored", "local"} \X Item
  /\ optimistic \subseteq [text : Text, about : Conversation, id : {"stored", "local"}]
  /\ syncing \subseteq 0 .. MaxEpochs /\ sending \in BOOLEAN
  /\ pending \subseteq Request
  /\ selects \in 0 .. MaxSelects /\ losses \in 0 .. MaxLosses

Init ==
  /\ vault = None /\ session = 0 /\ quick = FALSE /\ stored = {}
  /\ view = "locked" /\ mine = None /\ csrf = 0 /\ epoch = 0
  /\ contacts = {} /\ selected = None /\ screen = {} /\ optimistic = {}
  /\ syncing = {} /\ sending = FALSE /\ pending = {}
  /\ selects = 0 /\ losses = 0

-----------------------------------------------------------------------------
(* The daemon.                                                             *)
Rows(c) == {i \in Item : <<c, i>> \in stored}

\* A message arrives in the open vault, by a sync or over Tor.
Arrive(c, i) ==
  /\ vault = Owner[c] /\ ~quick /\ i \notin Text
  /\ \A d \in Conversation : <<d, i>> \notin stored
  /\ stored' = stored \union {<<c, i>>}
  /\ UNCHANGED <<vault, session, quick, tab, lists, pending, counts>>

\* verifyLocalSession and the hook behind it: reads need the cookie alone.
Reading == {"load", "contacts"}
Admitted(r) ==
  /\ r.kind \in Reading \/ r.csrf = session
  /\ IF r.kind = "open" THEN vault = None ELSE vault # None
  /\ quick => r.kind \in {"pin", "lock"}

Answered(r, at, data) == pending' = (pending \ {r}) \union {[r EXCEPT !.at = at, !.data = data]}

Data(r) ==
  CASE r.kind \in {"sync", "load"} -> {i \in Rows(r.about) : Owner[r.about] = vault}
    [] r.kind = "contacts"         -> {c \in Conversation : Owner[c] = vault}
    [] OTHER                       -> {}

\* A text for a conversation this vault does not have is refused.
Executed(r) ==
  /\ stored' = IF r.kind = "send" THEN stored \union {<<r.about, r.text>>} ELSE stored
  /\ vault' = CASE r.kind = "lock" -> None [] r.kind = "open" -> r.about [] OTHER -> vault
  /\ session' = IF r.kind = "lock" THEN session + 1 ELSE session
  /\ quick' = (r.kind = "quick" \/ (quick /\ r.kind \notin {"pin", "lock"}))

Possible(r) == r.kind = "send" => Owner[r.about] = vault
Asks(r, c) == r.about = c /\ c # None

\* Requests are served one at a time; one sent after a lock does not overtake it.
InTurn(r) == \A l \in pending : (l.kind = "lock" /\ l.at = "asked" /\ l # r) => r.epoch < l.epoch

Serve(r) ==
  /\ r.at = "asked" /\ InTurn(r) /\ Admitted(r) /\ Possible(r)
  /\ (r.kind = "lock" => session < MaxEpochs)
  /\ Executed(r)
  /\ Answered(r, "ok", IF r.about = None /\ r.kind = "sync" THEN {} ELSE Data(r))
  /\ UNCHANGED <<tab, lists, counts>>

Refuse(r) ==
  /\ r.at = "asked" /\ InTurn(r) /\ ~(Admitted(r) /\ Possible(r))
  /\ Answered(r, "failed", {})
  /\ UNCHANGED <<daemon, tab, lists, counts>>

\* A request fails before it is served, or its answer is lost.  Two answers
\* nothing else brings are not: the secret of the next session, after a lock, and
\* that the screen is locked, which server.ts:328 does not publish.
Loss(r) ==
  /\ losses < MaxLosses /\ losses' = losses + 1
  /\ r.at = "asked" \/ (r.at = "ok" /\ r.kind \notin {"lock", "quick"})
  /\ Answered(r, "failed", {})
  /\ UNCHANGED <<daemon, tab, lists, selects>>

-----------------------------------------------------------------------------
(* What the tab asks.                                                      *)
Ask(kind, c, t, e) ==
  [kind |-> kind, epoch |-> e, csrf |-> csrf, about |-> c, text |-> t, at |-> "asked", data |-> {}]

Select(c) ==
  /\ view = "unlocked" /\ c \in contacts /\ c # selected /\ selects < MaxSelects
  /\ selects' = selects + 1
  /\ selected' = c /\ screen' = {}
  /\ pending' = pending \union {Ask("load", c, None, epoch)}
  /\ UNCHANGED <<daemon, tab, contacts, optimistic, syncing, sending, losses>>

\* The timer of the poll, a wake-up of the change feed, the tab in sight again.
Poll ==
  /\ view = "unlocked" /\ syncing = {}
  /\ syncing' = {epoch}
  /\ pending' = pending \union {Ask("sync", selected, None, epoch)}
  /\ UNCHANGED <<daemon, tab, contacts, selected, screen, optimistic, sending, counts>>

Submit(t) ==
  /\ view = "unlocked" /\ selected # None /\ ~sending
  /\ \A o \in optimistic : o.text # t
  /\ \A c \in Conversation : <<c, t>> \notin stored
  /\ sending' = TRUE
  /\ optimistic' = optimistic \union {[text |-> t, about |-> selected, id |-> "local"]}
  /\ screen' = screen \union {<<"local", t>>}
  /\ pending' = pending \union {Ask("send", selected, t, epoch)}
  /\ UNCHANGED <<daemon, tab, contacts, selected, syncing, counts>>

\* busy: neither a lock nor the opening of a vault is under way.
Idle == \A r \in pending : r.kind \notin {"lock", "open"}

\* handleLockVault hides what is decrypted before the engine has locked.
Lock ==
  /\ view # "locked" /\ Idle /\ epoch < MaxEpochs
  /\ epoch' = epoch + 1 /\ view' = "locked"
  /\ contacts' = {} /\ selected' = None /\ screen' = {} /\ optimistic' = {} /\ syncing' = {}
  /\ pending' = pending \union {Ask("lock", None, None, epoch + 1)}
  /\ UNCHANGED <<daemon, mine, csrf, sending, counts>>

\* submitVault.
Open(v) ==
  /\ view = "locked" /\ Idle /\ epoch < MaxEpochs
  /\ epoch' = epoch + 1
  /\ pending' = pending \union {Ask("open", v, None, epoch + 1)}
  /\ UNCHANGED <<daemon, view, mine, csrf, lists, counts>>

QuickLock ==
  /\ view = "unlocked" /\ \A r \in pending : r.kind \notin {"quick", "pin"}
  /\ losses < MaxLosses /\ losses' = losses + 1
  /\ pending' = pending \union {Ask("quick", None, None, epoch)}
  /\ UNCHANGED <<daemon, tab, lists, selects>>

EnterPin ==
  /\ view = "quick" /\ \A r \in pending : r.kind # "pin"
  /\ pending' = pending \union {Ask("pin", None, None, epoch)}
  /\ UNCHANGED <<daemon, tab, lists, counts>>

-----------------------------------------------------------------------------
(* What it does with the answers.                                          *)
FaultyFresh(r) == TRUE
\* The vault is still the one the handler asked for.
Fresh(r) == r.epoch = epoch

\* The list the daemon returned, and behind it what it does not yet know.
Show(c, items) ==
  LET left == {o \in optimistic : ~(o.id = "stored" /\ o.text \in items)} IN
  /\ optimistic' = left
  /\ screen' = {<<"stored", i>> : i \in items}
                 \union {<<o.id, o.text>> : o \in {x \in left : x.about = c}}

Handled(r) == r \in pending /\ r.at # "asked"
Consume(r, asked) == pending' = (pending \ {r}) \union asked

FaultySyncDone(r) == IF r.at = "failed" THEN syncing ELSE syncing \ {r.epoch}
SyncDone(r) == syncing \ {r.epoch}

HandleSync(r) ==
  /\ Handled(r) /\ r.kind = "sync"
  /\ syncing' = SyncDone(r)
  /\ IF r.at = "ok" /\ Fresh(r) /\ Asks(r, selected)
       THEN Show(selected, r.data) /\ Consume(r, {})
       ELSE /\ Consume(r, {Ask("load", c, None, epoch) :
                             c \in {d \in {selected} \ {None} : r.at = "ok" /\ Fresh(r)}})
            /\ UNCHANGED <<optimistic, screen>>
  /\ UNCHANGED <<daemon, tab, contacts, selected, sending, counts>>

HandleLoad(r) ==
  /\ Handled(r) /\ r.kind = "load"
  /\ IF r.at = "ok" /\ Fresh(r) /\ Asks(r, selected)
       THEN Show(selected, r.data) ELSE UNCHANGED <<optimistic, screen>>
  /\ Consume(r, {})
  /\ UNCHANGED <<daemon, tab, contacts, selected, syncing, sending, counts>>

HandleContacts(r) ==
  /\ Handled(r) /\ r.kind = "contacts"
  /\ contacts' = IF r.at = "ok" /\ Fresh(r) THEN r.data ELSE contacts
  /\ Consume(r, {})
  /\ UNCHANGED <<daemon, tab, selected, screen, optimistic, syncing, sending, counts>>

\* The text is known by the daemon's id now, whatever vault is open; or it is withdrawn.
HandleSend(r) ==
  LET local == [text |-> r.text, about |-> r.about, id |-> "local"]
      here  == selected = r.about IN
  /\ Handled(r) /\ r.kind = "send"
  /\ sending' = FALSE
  /\ IF r.at = "ok"
       THEN /\ optimistic' = (optimistic \ {local}) \union {[local EXCEPT !.id = "stored"]}
            /\ screen' = IF here /\ <<"local", r.text>> \in screen
                           THEN (screen \ {<<"local", r.text>>}) \union {<<"stored", r.text>>}
                           ELSE screen
            /\ Consume(r, {Ask("load", r.about, None, epoch)})
       ELSE /\ optimistic' = optimistic \ {local}
            /\ screen' = IF here THEN screen \ {<<"local", r.text>>} ELSE screen
            /\ Consume(r, {})
  /\ UNCHANGED <<daemon, tab, contacts, selected, syncing, counts>>

\* bootstrapSession: the tab is as the daemon is, and asks for the contacts of
\* a vault that is open.
State == IF vault = None THEN "locked" ELSE IF quick THEN "quick" ELSE "unlocked"
Bootstrap(r) ==
  /\ view' = State /\ mine' = vault
  /\ Consume(r, {Ask("contacts", None, None, epoch) : x \in {y \in {1} : State = "unlocked"}})

\* What was put on the screen meanwhile is cleared, and the next session begun.
HandleLock(r) ==
  /\ Handled(r) /\ r.kind = "lock"
  /\ IF r.at = "ok"
       THEN /\ Bootstrap(r) /\ csrf' = session
            /\ selected' = None /\ screen' = {} /\ optimistic' = {} /\ contacts' = {}
       ELSE /\ Consume(r, {})
            /\ UNCHANGED <<view, mine, csrf, selected, screen, optimistic, contacts>>
  /\ UNCHANGED <<daemon, epoch, syncing, sending, counts>>

\* A vault opened, or the PIN taken.
HandleOpen(r) ==
  /\ Handled(r) /\ r.kind \in {"open", "pin"}
  /\ IF r.at = "ok" THEN Bootstrap(r) ELSE Consume(r, {}) /\ UNCHANGED <<view, mine>>
  /\ UNCHANGED <<daemon, csrf, epoch, lists, counts>>

HandleQuick(r) ==
  /\ Handled(r) /\ r.kind = "quick"
  /\ view' = IF r.at = "ok" /\ view = "unlocked" THEN "quick" ELSE view
  /\ Consume(r, {})
  /\ UNCHANGED <<daemon, mine, csrf, epoch, lists, counts>>

Handle(r) ==
  \/ HandleSync(r) \/ HandleLoad(r) \/ HandleContacts(r) \/ HandleSend(r)
  \/ HandleLock(r) \/ HandleOpen(r) \/ HandleQuick(r)

Next ==
  \/ \E c \in Conversation : Select(c) \/ \E i \in Item : Arrive(c, i)
  \/ \E r \in pending : Serve(r) \/ Refuse(r) \/ Loss(r) \/ Handle(r)
  \/ \E t \in Text : Submit(t)
  \/ \E v \in Vault : Open(v)
  \/ Poll \/ Lock \/ QuickLock \/ EnterPin

Spec == Init /\ [][Next]_vars

\* Requests are answered one after the other, answers handled, the timer fires.
Fairness ==
  /\ WF_vars(Poll)
  /\ \A k \in {"sync", "load"} : WF_vars(\E r \in pending : r.kind = k /\ (Serve(r) \/ Refuse(r)))
  /\ \A k \in {"sync", "load", "quick"} : WF_vars(\E r \in pending : r.kind = k /\ Handle(r))

FairSpec == Spec /\ Fairness

-----------------------------------------------------------------------------
(* What the tab shows.                                                     *)

\* While a vault is on the screen, the contacts, the conversation and every
\* message the tab shows are of that vault, whatever answers come late from the
\* one opened before it (App.tsx:691-699, 824-845, 847-880).
ScreenBelongs ==
  view = "unlocked" =>
    /\ \A c \in contacts \union ({selected} \ {None}) : Owner[c] = mine
    /\ \A s \in screen : selected # None /\ (s[1] = "stored" => <<selected, s[2]>> \in stored)

\* A message the vault holds is shown in the conversation the user has before
\* them, whatever polls failed or were overtaken (App.tsx:187-246, 847-896).
EventuallyShown ==
  \A c \in Conversation, i \in Item :
    (<<c, i>> \in stored /\ selected = c /\ view = "unlocked")
      ~> (<<"stored", i>> \in screen \/ selected # c \/ view # "unlocked")
=============================================================================
