--------------------------- MODULE MCTokenRefresh ---------------------------
(* Instances of TokenRefresh for TLC: two goroutines of one gh process and *)
(* one of another, one goroutine in each of two processes, or three of the *)
(* same process.                                                           *)
EXTENDS TokenRefreshContract, TLC

CONSTANTS t1, t2, t3, p1, p2

ThreeThreads == {t1, t2, t3}
TwoThreads == {t1, t3}
TwoProcs == {p1, p2}
OneProc == {p1}
ProcOfThree == (t1 :> p1) @@ (t2 :> p1) @@ (t3 :> p2)
ProcOfOne == (t1 :> p1) @@ (t2 :> p1) @@ (t3 :> p1)
ProcOfTwo == (t1 :> p1) @@ (t3 :> p2)

(* The goroutines of one process are interchangeable.                      *)
SameProcess == Permutations({t1, t2})
SameProcess3 == Permutations({t1, t2, t3})
=============================================================================
