-------------------------- MODULE MCFrontendShardView --------------------------
(* Model-checking instance of FrontendShardView. *)
EXTENDS FrontendShardView
===============================================================================
