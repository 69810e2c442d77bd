--------------------------- MODULE MCSourceFence ---------------------------
(* One source, two incarnations, two epochs, two sequence numbers and two    *)
(* contents: every order and repetition of the sixteen batches.              *)
EXTENDS SourceFence, TLC
MCPositions == [incarnation : 1..2, epoch : 0..1, sequence : 1..2]
Symmetry == Permutations(Contents)
=============================================================================
