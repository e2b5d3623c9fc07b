------------------------------ MODULE MCUrlCache ------------------------------
(* Model-checking instances of UrlCache. *)
EXTENDS UrlCache, TLC

\* Replicas, destinations and pages are interchangeable.
Symmetry ==
    Permutations(Replicas) \union Permutations(Destinations) \union Permutations(Pages)
===============================================================================
