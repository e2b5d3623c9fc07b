---------------------------- MODULE MCBannedDomains ----------------------------
(* Model-checking instances of BannedDomains. *)
EXTENDS BannedDomains, TLC

\* Admin replicas are interchangeable, and so are the calls.
Symmetry == Permutations(Admins) \union Permutations(Checks)
===============================================================================
