----------------------------- MODULE ScanArchive -----------------------------
(***************************************************************************)
(* What the card promises about finished scans: a final name (SCANnnnn.JPG *)
(* or CROPnnnn.JPG) appears in one step with a whole, validated image of a *)
(* page, under a number no other page's final has, and only the host       *)
(* changes or removes it. Power may be lost at any time without any other  *)
(* effect. Capture implements this module.                                 *)
(***************************************************************************)
EXTENDS ScanNames

VARIABLE finals      \* what each final name holds

ArchiveInit == finals \in [FinalNames -> {Absent, Foreign}]

\* A page gets its final name, or its derivative one beside its own original.
Publish(page, kind, number) ==
  /\ finals[<<kind, number>>] = Absent
  /\ \A k \in FinalKinds : finals[<<k, number>>].by \in {0, page}
  /\ kind = "CROP_JPG" => finals[<<"SCAN_JPG", number>>] = Image(page, "SCAN_JPG")
  /\ finals' = [finals EXCEPT ![<<kind, number>>] = Image(page, kind)]

HostChanges(kind, number) ==
  finals' \in {[finals EXCEPT ![<<kind, number>>] = file] : file \in {Absent, Foreign}}

ArchiveNext ==
  \E kind \in FinalKinds, number \in Numbers :
    HostChanges(kind, number) \/ \E page \in Pages : Publish(page, kind, number)

ArchiveSpec == ArchiveInit /\ [][ArchiveNext]_finals
==============================================================================
