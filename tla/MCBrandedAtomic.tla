--------------------------- MODULE MCBrandedAtomic ---------------------------
(* Two threads, a flag and a counter, and two stores in all.               *)
EXTENDS BrandedAtomic, TLC

(* Two policies, and a run-time ordering that read-modify-writes accept    *)
(* and loads and stores refuse.  SeqCst is not told apart from AcqRel.     *)
MCSources == {[policy |-> TRUE, order |-> "AcqRel"], [policy |-> TRUE, order |-> "Relaxed"],
              [policy |-> FALSE, order |-> "AcqRel"]}

Symmetry == Permutations(Threads) \cup Permutations(Atomics)
=============================================================================
