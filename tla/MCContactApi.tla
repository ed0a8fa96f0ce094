----------------------------- MODULE MCContactApi -----------------------------
(* ContactApi for TLC: workers, watches and values are interchangeable.     *)
EXTENDS ContactApi, TLC

Symmetry == Permutations(Workers) \cup Permutations(Devices) \cup Permutations(Values)
=============================================================================
