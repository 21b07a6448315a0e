----------------------------- MODULE MCTpmiCache -----------------------------
(* Small instances of TpmiCache for TLC. *)
EXTENDS TpmiCache

MCCpuPublished == {[ok |-> TRUE, data |-> 1]}
MCCpuPublishedBad == MCCpuPublished \cup {[ok |-> FALSE, data |-> 1]}

Feature(ok, data, enabled, usePCS, locked) ==
  [ok |-> ok, data |-> data, enabled |-> enabled, usePCS |-> usePCS,
   locked |-> locked, inBand |-> TRUE]

\* Needs a write; needs no write; locked and disabled; malformed.
MCFeaturePublished ==
  {Feature(TRUE, 1, FALSE, FALSE, FALSE), Feature(TRUE, 2, TRUE, FALSE, FALSE),
   Feature(TRUE, 3, FALSE, FALSE, TRUE), Feature(FALSE, 4, TRUE, FALSE, FALSE)}

\* Two writes; locked in the right state; locked in PCS mode.
MCFeaturePublishedPcs ==
  {Feature(TRUE, 1, FALSE, TRUE, FALSE), Feature(TRUE, 2, TRUE, FALSE, TRUE),
   Feature(TRUE, 3, TRUE, TRUE, TRUE)}

=============================================================================
