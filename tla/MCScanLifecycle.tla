--------------------------- MODULE MCScanLifecycle ---------------------------
(* Instances of ScanLifecycle for TLC. *)
EXTENDS ScanLifecycle, TLC
CONSTANT g1

\* Goroutines are never compared but for equality: the safety runs use this.
AnyWorker == Permutations(Workers)

OneTarget == [t \in Tasks |-> g1]
=============================================================================
