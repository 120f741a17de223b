-------------------------- MODULE ReleaseEvidence --------------------------
(***************************************************************************)
(* What the MSC session promises the storage controller about the host's  *)
(* safe eject: one value, `evidence', that belongs to the current USB      *)
(* session and dies with it.                                               *)
(*                                                                         *)
(*   open      no eject has been accepted: the host may reach the medium   *)
(*   pending   an eject was accepted, its status has not reached the host  *)
(*   released  that eject's passed status reached the host                 *)
(*   blocked   the eject was accepted but reported as failed: the medium   *)
(*             is closed to the host and never counts as released          *)
(*                                                                         *)
(* MscSession implements this specification with generation counters that  *)
(* an interrupt bumps; UsbStorage is written on top of it.                 *)
(***************************************************************************)
VARIABLES
  evidence,   \* standing of the eject handshake in this session
  faulty      \* a physical read or write has failed since start-up

vars == <<evidence, faulty>>

Evidence == {"open", "pending", "released", "blocked"}

TypeOK ==
  /\ evidence \in Evidence
  /\ faulty \in BOOLEAN

Init ==
  /\ evidence = "open"
  /\ faulty = FALSE

\* The host's eject is accepted; a faulty medium can no longer be ejected.
Accept ==
  /\ evidence = "open"
  /\ ~faulty
  /\ evidence' = "pending"
  /\ UNCHANGED faulty

\* The passed status of the accepted eject has reached the host.
Complete ==
  /\ evidence = "pending"
  /\ evidence' = "released"
  /\ UNCHANGED faulty

\* The accepted eject was answered with a failed, short or misplaced status.
Refuse ==
  /\ evidence = "pending"
  /\ evidence' = "blocked"
  /\ UNCHANGED faulty

\* Bus reset, unplug, re-attachment, class reset or a failed transfer.
Invalidate ==
  /\ evidence' = "open"
  /\ UNCHANGED faulty

\* A physical operation fails. None is in flight once an eject is accepted.
Fault ==
  /\ evidence = "open"
  /\ faulty' = TRUE
  /\ UNCHANGED evidence

Next == Accept \/ Complete \/ Refuse \/ Invalidate \/ Fault

Spec == Init /\ [][Next]_vars
=============================================================================
