------------------------ MODULE MCDocument360Client ------------------------
(***************************************************************************)
(* Values of the constants of Document360Client for model checking.        *)
(***************************************************************************)
EXTENDS Document360Client

MCDelays == {0, 2}
=============================================================================
