------------------------------ MODULE Delivery ------------------------------
(***************************************************************************)
(* What the messenger promises its users, with no device, relay or network *)
(* in it: a message the sender's client has accepted is put into the       *)
(* recipient's vault once, the sender is told so only afterwards, and the  *)
(* one way to miss the recipient is to outlive the relay's retention.      *)
(* Modules Messaging and TorRouting implement it.                          *)
(***************************************************************************)
EXTENDS Naturals

CONSTANT Msg

VARIABLES
  accepted,   \* messages a sender's client has taken responsibility for
  inbox,      \* how many copies of each message the recipient's vault holds
  confirmed,  \* messages whose receipt has come back to the sender
  lapsed      \* messages that outlived the relay's retention

dvars == <<accepted, inbox, confirmed, lapsed>>

Init ==
  /\ accepted = {}
  /\ inbox = [m \in Msg |-> 0]
  /\ confirmed = {}
  /\ lapsed = {}

Accept(m) ==
  /\ m \notin accepted
  /\ accepted' = accepted \union {m}
  /\ UNCHANGED <<inbox, confirmed, lapsed>>

Deliver(m) ==
  /\ m \in accepted
  /\ inbox[m] = 0
  /\ inbox' = [inbox EXCEPT ![m] = 1]
  /\ UNCHANGED <<accepted, confirmed, lapsed>>

Confirm(m) ==
  /\ inbox[m] = 1
  /\ confirmed' = confirmed \union {m}
  /\ UNCHANGED <<accepted, inbox, lapsed>>

Lapse(m) ==
  /\ m \in accepted
  /\ lapsed' = lapsed \union {m}
  /\ UNCHANGED <<accepted, inbox, confirmed>>

Next == \E m \in Msg : Accept(m) \/ Deliver(m) \/ Confirm(m) \/ Lapse(m)

Spec == Init /\ [][Next]_dvars
=============================================================================
