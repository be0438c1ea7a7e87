----------------------------- MODULE Predicates -----------------------------
(***************************************************************************)
(* The predicates of integer comparisons (CmpInst::Predicate).             *)
(***************************************************************************)
EXTENDS ConstantRange

Below == {"slt", "sle", "ult", "ule"}

Above == {"sgt", "sge", "ugt", "uge"}

(* The predicate p on two words of modulus m.                              *)
Compare(p, m, x, y) ==
    CASE p = "eq"  -> x = y
      [] p = "ne"  -> x # y
      [] p = "ult" -> x < y
      [] p = "ule" -> x <= y
      [] p = "ugt" -> x > y
      [] p = "uge" -> x >= y
      [] p = "slt" -> Signed(m, x) < Signed(m, y)
      [] p = "sle" -> Signed(m, x) <= Signed(m, y)
      [] p = "sgt" -> Signed(m, x) > Signed(m, y)
      [] p = "sge" -> Signed(m, x) >= Signed(m, y)

(* Mutant: the predicate is not swapped.                                   *)
NotSwapped(p) == p

Swapped(p) ==
    CASE p \in {"eq", "ne"} -> p
      [] p = "slt" -> "sgt" [] p = "sgt" -> "slt"
      [] p = "sle" -> "sge" [] p = "sge" -> "sle"
      [] p = "ult" -> "ugt" [] p = "ugt" -> "ult"
      [] p = "ule" -> "uge" [] p = "uge" -> "ule"

Inverted(p) ==
    CASE p = "eq"  -> "ne"  [] p = "ne"  -> "eq"
      [] p = "slt" -> "sge" [] p = "sge" -> "slt"
      [] p = "sle" -> "sgt" [] p = "sgt" -> "sle"
      [] p = "ult" -> "uge" [] p = "uge" -> "ult"
      [] p = "ule" -> "ugt" [] p = "ugt" -> "ule"

SignedPredicates == {"slt", "sle", "sgt", "sge"}

(* The least and the greatest word in the reading of an ordered predicate. *)
Least(p, m) == IF p \in SignedPredicates THEN SignedMin(m) ELSE 0

Greatest(p, m) == IF p \in SignedPredicates THEN SignedMax(m) ELSE m - 1

(* The number an ordered predicate reads a word as.                        *)
Number(p, m, w) == IF p \in SignedPredicates THEN Signed(m, w) ELSE w
=============================================================================
