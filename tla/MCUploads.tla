----------------------------- MODULE MCUploads ------------------------------
(***************************************************************************)
(* Uploads with batches of two: a whole one, and ones that end early.      *)
(***************************************************************************)
EXTENDS Uploads, TLC

Points == {<<"good", "skipped">>, <<"good", "bad">>}
Records == {<<[id |-> 1, kind |-> "good"], [id |-> 2, kind |-> "good"]>>,
            <<[id |-> 2, kind |-> "good"], [id |-> 1, kind |-> "bad"]>>,
            <<[id |-> 1, kind |-> "skipped"]>>}

Symmetry == Permutations(Watches) \cup Permutations(Conns)
=============================================================================
