---------------------------- MODULE MCCoordinator ----------------------------
(***************************************************************************)
(* Coordinator for TLC.  Members are alike, so they may be permuted.       *)
(***************************************************************************)
EXTENDS Coordinator, TLC

CONSTANTS m1, m2

MCMembers == {m1, m2}
MemberSymmetry == Permutations(Members)
=============================================================================
