--------------------------- MODULE BackupRegister ---------------------------
(***************************************************************************)
(* What a cloud backup promises: its versions count its replacements, and  *)
(* a replacement contains all that it replaces.  Module VaultBackup        *)
(* implements it for vaults that open without the relay.                   *)
(***************************************************************************)
EXTENDS Naturals

CONSTANT Edit

VARIABLES
  number,  \* how often the backup has been replaced
  holds    \* the edits it holds

rvars == <<number, holds>>

Init == number = 0 /\ holds = {}

Replace(S) ==
  /\ holds \subseteq S
  /\ holds' = S
  /\ number' = number + 1

Next == \E S \in SUBSET Edit : Replace(S)

Spec == Init /\ [][Next]_rvars
=============================================================================
