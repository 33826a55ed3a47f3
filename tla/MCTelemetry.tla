---------------------------- MODULE MCTelemetry ----------------------------
(***************************************************************************)
(* An instance of Telemetry for TLC.  With buckets 49 and 50, a rate of 50 *)
(* has one invocation in the sample and one out of it.                     *)
(***************************************************************************)
EXTENDS Telemetry, TLC

CONSTANTS main, p2, p3, e1, e2, f1, f2

ThreeProcs == {main, p2, p3}
TwoEvents == {e1, e2}
TwoFacts == {f1, f2}
SomeRates == {0, 50, 100}
TwoBuckets == {49, 50}
TelemetrySymmetry ==
    Permutations({p2, p3}) \cup Permutations(TwoEvents) \cup Permutations(TwoFacts)

=============================================================================
