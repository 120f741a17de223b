----------------------------- MODULE CardAccess -----------------------------
(***************************************************************************)
(* What the storage controller promises about the one microSD card: it is *)
(* never open to the gateway's FAT driver and to the USB host at once, it  *)
(* passes from one to the other only through a moment when it is open to   *)
(* nobody, and the gateway never takes it over while data the host wrote   *)
(* is not covered by a completed safe eject.                               *)
(***************************************************************************)
VARIABLES
  access,      \* who may touch the card
  unreleased   \* the host has written since its last completed safe eject

vars == <<access, unreleased>>

TypeOK ==
  /\ access \in {"nobody", "app", "host"}
  /\ unreleased \in BOOLEAN

Init ==
  /\ access = "nobody"
  /\ unreleased = FALSE

AppTakes ==
  /\ access = "nobody"
  /\ ~unreleased
  /\ access' = "app"
  /\ UNCHANGED unreleased

HostTakes ==
  /\ access = "nobody"
  /\ access' = "host"
  /\ UNCHANGED unreleased

GiveUp ==
  /\ access' = "nobody"
  /\ UNCHANGED unreleased

HostWrites ==
  /\ access = "host"
  /\ unreleased' = TRUE
  /\ UNCHANGED access

HostEjects ==
  /\ access = "host"
  /\ unreleased' = FALSE
  /\ UNCHANGED access

Next == AppTakes \/ HostTakes \/ GiveUp \/ HostWrites \/ HostEjects

Spec == Init /\ [][Next]_vars
=============================================================================
