------------------------------ MODULE MCViewStats ------------------------------
(* Model-checking instances of ViewStats. *)
EXTENDS ViewStats

LOCAL Visitors == INSTANCE MCVisitors

Everybody == Visitors!Everybody
===============================================================================
