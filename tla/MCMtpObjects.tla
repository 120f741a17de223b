---------------------------- MODULE MCMtpObjects ---------------------------
(***************************************************************************)
(* Small trees for MtpObjects.                                             *)
(***************************************************************************)
EXTENDS MtpObjects

CONSTANTS card, nameA, nameB

Nested  == {<<card, nameA>>, <<card, nameB>>, <<card, nameA, nameB>>}
FolderA == {<<card, nameA>>}
Both    == {<<nameA, nameB>>, <<nameB, nameA>>}

=============================================================================
