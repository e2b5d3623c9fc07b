------------------------------- MODULE MCUrlBatch -------------------------------
(* Model-checking instance of UrlBatch. *)
EXTENDS UrlBatch
===============================================================================
