---------------------------- MODULE MCMessaging ----------------------------
(* Small instances of Messaging for TLC.                                   *)
EXTENDS Messaging, TLC

CONSTANTS a, b, m1, m2

\* One message.
OneFrom == m1 :> a
OneTo   == m1 :> b

\* One message in each direction.
TwoWayFrom == m1 :> a @@ m2 :> b
TwoWayTo   == m1 :> b @@ m2 :> a

FirstTextPerishable == {Text(m1)}
=============================================================================
