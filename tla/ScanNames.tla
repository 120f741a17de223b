------------------------------ MODULE ScanNames ------------------------------
(* The final names of scans on the card and what they may hold. *)
EXTENDS Naturals

CONSTANTS Numbers,   \* scan numbers, 1..9999 in the code
          Pages      \* identities of captured pages, in the order of capture

FinalKinds == {"SCAN_JPG", "CROP_JPG"}
FinalNames == FinalKinds \X Numbers
Absent     == [by |-> 0, state |-> "ABSENT"]
Foreign    == [by |-> 0, state |-> "FOREIGN"]

\* The image of a page under a final name of that kind.
Image(page, kind) ==
  [by |-> page, state |-> IF kind = "SCAN_JPG" THEN "WHOLE" ELSE "CROPPED"]
==============================================================================
