---------------------------- MODULE MCTorRouting ----------------------------
(* Small instances of TorRouting for TLC.                                  *)
EXTENDS TorRouting, TLC

CONSTANTS a, b, c, m1, m2

\* Everyone has everyone's onion address.
AllPeers == Device \X Device

\* Direct, or hybrid at one end; a change of mode makes the other mixes.
OneHybrid == {{}} \union {{d} : d \in Device}
\* Direct, hybrid, or hybrid at the recipient only.
FallbackIsRead == {{}, {b}, {a, b}}
AllDirect == {{}}

\* One message.
OneFrom == m1 :> a
OneTo   == m1 :> b

\* One message in each direction.
TwoWayFrom == m1 :> a @@ m2 :> b
TwoWayTo   == m1 :> b @@ m2 :> a

\* Two messages of one device to two others.
FanOutFrom == m1 :> a @@ m2 :> a
FanOutTo   == m1 :> c @@ m2 :> b
=============================================================================
