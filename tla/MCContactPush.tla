--------------------------- MODULE MCContactPush ---------------------------
(***************************************************************************)
(* ContactPush with two watches, for one of which the listener may wait    *)
(* while the other is due, and one contact for each or two for one.        *)
(***************************************************************************)
EXTENDS ContactPush
=============================================================================
