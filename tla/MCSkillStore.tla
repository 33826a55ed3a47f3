--------------------------- MODULE MCSkillStore ---------------------------
(***************************************************************************)
(* Instances of SkillStore for TLC.                                        *)
(***************************************************************************)
EXTENDS SkillStore, TLC

CONSTANTS p1, p2, s1, s2, v1, v2

TwoProcs == {p1, p2}
TwoSkills == {s1, s2}
TwoVersions == {v1, v2}

(* The second version has one file more than the first.                    *)
TwoParts == {"SKILL.md", "new.md"}
Growing == (v1 :> {"SKILL.md"}) @@ (v2 :> {"SKILL.md", "new.md"})

AllCommands == {"install", "update"}
SkillSymmetry == Permutations(TwoProcs) \cup Permutations(TwoSkills)

=============================================================================
