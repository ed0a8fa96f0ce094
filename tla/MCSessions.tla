----------------------------- MODULE MCSessions -----------------------------
(* Sessions for TLC: connections are interchangeable, and so are watches.  *)
EXTENDS Sessions, TLC

Symmetry == Permutations(Conns) \cup Permutations(Devices)
=============================================================================
