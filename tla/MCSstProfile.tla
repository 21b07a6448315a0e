----------------------------- MODULE MCSstProfile -----------------------------
(* A CPU with three instances, one of which may be missing, and two cores per die. *)
EXTENDS SstProfile

MCCores == {f \in [Instances -> [Levels -> {{}, {0}, {0, 1}}]] :
              \A l \in Levels : f[0][l] # {} /\ f[2][l] \in {{}, {0, 1}}}

\* Bucket k has k times as many cores as the first one, unless it has none.
Turbo(some, fast) ==
  [k \in Buckets |-> [cores |-> IF k \in some THEN 4 * k ELSE 0,
                      ratio |-> IF k \in fast THEN 40 - k ELSE 0]]

\* The levels and states vary, or the cores.
MCPlatforms ==
  {[valid |-> v, levelMask |-> m, level |-> l, bf |-> b, tf |-> ~b, cores |-> f,
    hi |-> [i \in Instances |-> [k \in Levels |-> {0}]],
    trl |-> IF m = {0} THEN Turbo({1, 3, 4}, {1, 2, 4, 8}) ELSE Turbo(Buckets, {3, 8})] :
     v \in {{0, 1, 2}, {0, 2}}, m \in {{0}, {0, 7}}, l \in {0, 1}, b \in BOOLEAN,
     f \in {f \in MCCores : \A k \in Levels : f[1][k] = {} => f[2][k] = {}}}

=============================================================================
