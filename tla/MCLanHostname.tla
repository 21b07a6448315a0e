----------------------------- MODULE MCLanHostname -----------------------------
(* Sessions that only differ in what they do, and three names: one without room *)
(* for the zero byte, a short one and one that is not valid.                    *)
EXTENDS LanHostname

CONSTANTS a, b

MCName(by, size) == [i \in 1..size |-> [by |-> by, place |-> i]]
MCNames == {MCName(a, lanOemHostnameLength), MCName(b, IpmiHostnameLen + 1), Append(MCName(b, 1), Bad)}

\* Short and not complete; too long; no such block; no such flag; the last
\* block alone.
MCStray(block, complete, size) == [block |-> block, complete |-> complete, size |-> size]
MCStrays ==
  {MCStray(1, 0, IpmiHostnameLen - 1), MCStray(2, 1, IpmiHostnameLen + 1), MCStray(5, 1, 1),
   MCStray(0, 0, IpmiHostnameLen), MCStray(1, 2, IpmiHostnameLen), MCStray(4, 1, IpmiHostnameLen)}

Symmetry == Permutations(Sessions)

=============================================================================
