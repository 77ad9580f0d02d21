----------------------------- MODULE MCExchange -----------------------------
(***************************************************************************)
(* Exchange for TLC.  Callers are alike: none of them is singled out by    *)
(* the specification, so they may be permuted where no liveness is at      *)
(* stake.                                                                  *)
(***************************************************************************)
EXTENDS Exchange, TLC

CONSTANTS c1, c2, c3

TwoCallers == {c1, c2}
ThreeCallers == {c1, c2, c3}
CallerSymmetry == Permutations(Callers)
=============================================================================
