---------------------------- MODULE MCNmPolicies ----------------------------
(* Small values for the policies there are and for what requests carry.    *)
EXTENDS NmPolicies, TLC

MCInitial == [owner : {"bmc", "other"}, limit : {1}, corr : {1}, extra : {TRUE},
              enabled : {FALSE}, version : {0}]

\* One attribute of two, or both.
MCBodies == {[limit |-> 2, corr |-> None], [limit |-> 2, corr |-> 2]}

\* Requests only differ in what arrives.
Symmetry == Permutations(Requests)

=============================================================================
