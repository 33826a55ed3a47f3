--------------------------- MODULE MCAccountStore ---------------------------
(* Instances of AccountStore for TLC: two users and two processes, or      *)
(* three users and one process.                                            *)
EXTENDS AccountStore, TLC

CONSTANTS u1, u2, u3, p1, p2

TwoUsers == {u1, u2}
ThreeUsers == {u1, u2, u3}
TwoProcs == {p1, p2}
OneProc == {p1}
EveryCommand == Locked \cup LockFree
LoginAndLogout == Logins \cup {"logout"}

(* Users are interchangeable, and so are processes.                        *)
Pair == Permutations(TwoUsers)
Twins == Permutations(TwoUsers) \cup Permutations(TwoProcs)
Triplets == Permutations(ThreeUsers)
=============================================================================
