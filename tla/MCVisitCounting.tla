---------------------------- MODULE MCVisitCounting ----------------------------
(* Model-checking instances of VisitCounting. *)
EXTENDS VisitCounting, TLC

\* Redirects, frontends and replicas are interchangeable.
Symmetry ==
    Permutations(Redirects) \union Permutations(Frontends) \union Permutations(Replicas)
===============================================================================
