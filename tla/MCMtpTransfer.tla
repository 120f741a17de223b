--------------------------- MODULE MCMtpTransfer ---------------------------
(***************************************************************************)
(* MtpTransfer on two storages with one name on each.                      *)
(***************************************************************************)
EXTENDS MtpTransfer

CONSTANTS fileA, fileB, flash, nand

TwoCards == [n \in {fileA, fileB} |-> IF n = fileA THEN flash ELSE nand]

\* The code prefers neither storage: each, with its file, stands for the other.
SameOnBoth ==
  {p \in Permutations({fileA, fileB, flash, nand}) :
     \A n \in {fileA, fileB} : p[n] \in {fileA, fileB} /\ p[TwoCards[n]] = TwoCards[p[n]]}

=============================================================================
