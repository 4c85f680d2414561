----------------------------- MODULE Envelopes -----------------------------
(***************************************************************************)
(* What daemons send each other, whichever way it travels.  An envelope is *)
(* created by one encryption and is identified with its id, its ciphertext *)
(* and the message key it uses up: a retry sends the same envelope.  It is *)
(* named by what it says of which message.                                 *)
(***************************************************************************)
CONSTANTS
  Device,  \* registered devices
  Msg,     \* text messages users may send
  From,    \* the device each message is written on
  To       \* the device it is addressed to

ASSUME EnvelopeAssumption ==
  /\ From \in [Msg -> Device]
  /\ To \in [Msg -> Device]
  /\ \A m \in Msg : From[m] # To[m]

Envelope == [kind : {"text", "delivered", "read"}, msg : Msg]

Text(m)      == [kind |-> "text", msg |-> m]
Delivered(m) == [kind |-> "delivered", msg |-> m]
Read(m)      == [kind |-> "read", msg |-> m]

Origin(e) == IF e.kind = "text" THEN From[e.msg] ELSE To[e.msg]
Target(e) == IF e.kind = "text" THEN To[e.msg] ELSE From[e.msg]

\* The status of a message its sender's client has not stored.
Unsent == "none"
=============================================================================
