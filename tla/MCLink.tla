------------------------------- MODULE MCLink -------------------------------
(***************************************************************************)
(* Two ticks to a second, so that times fall between the whole seconds.    *)
(***************************************************************************)
EXTENDS Link
=============================================================================
