------------------------------- MODULE MCLpcVw -------------------------------
(* The indices of the bits of an instance, the values of a bit, and two of each out of *)
(* range.                                                                              *)
EXTENDS LpcVw, TLC

MCIndices == Bits \cup {-1, 32}
MCValues == {-1, 0, 1, 2}

Symmetry == Permutations(Procs)

=============================================================================
