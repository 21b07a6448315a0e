----------------------------- MODULE MCNmDomains -----------------------------
(* Small bodies for the domain PATCH requests.                             *)
EXTENDS NmDomains, TLC

MCBodies == {{}, {"max", "min"}, {"max", "rel"}, {"abs", "rel"}}

\* Requests only differ in what arrives.
Symmetry == Permutations(Requests)

=============================================================================
