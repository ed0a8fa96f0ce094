------------------------------ MODULE MCStream ------------------------------
(***************************************************************************)
(* Stream with packets of every kind that differs to the loop: too short,  *)
(* of an unknown type, a login, and requests that are answered, refused    *)
(* with the error packet, or raise.                                        *)
(***************************************************************************)
EXTENDS Stream

Few == {<<4>>, <<4, 99>>, <<4, 20, 1>>, <<4, 20, 2>>, <<4, 1, 2>>, <<4, 45, 2>>,
        <<4, 52, 0>>, <<4, 125, 0>>, <<4, 123, 5, 0>>}
=============================================================================
