--------------------------------- MODULE Null ---------------------------------
(***************************************************************************)
(* What is not there: SQL's NULL and JavaScript's null, one for modules    *)
(* that are extended together.                                             *)
(***************************************************************************)
CONSTANT None
=============================================================================
