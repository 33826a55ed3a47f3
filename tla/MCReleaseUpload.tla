-------------------------- MODULE MCReleaseUpload --------------------------
(***************************************************************************)
(* Instances of ReleaseUpload for TLC.                                     *)
(***************************************************************************)
EXTENDS ReleaseUpload, TLC

CONSTANTS p1, p2, a, b

TwoProcs == {p1, p2}
TwoFiles == {a, b}
ReleaseSymmetry == Permutations(TwoProcs) \cup Permutations(TwoFiles)

=============================================================================
