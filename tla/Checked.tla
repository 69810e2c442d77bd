------------------------------ MODULE Checked ------------------------------
(* Signed 64-bit arithmetic, src/include/jitter/checked.hpp.                *)
EXTENDS Integers, FiniteSets, SequencesExt

CONSTANT MaxInt  (* the largest std::int64_t                                *)
ASSUME CheckedAssumption == MaxInt \in Nat

(* checked_sub_i64, checked_mul_i64 succeed when the result fits.            *)
Fits(x) == x \in -MaxInt - 1 .. MaxInt

(* What arithmetic that is not checked leaves of a result that does not fit. *)
Wrapped(x) == ((x + MaxInt + 1) % (2 * MaxInt + 2)) - MaxInt - 1
=============================================================================
