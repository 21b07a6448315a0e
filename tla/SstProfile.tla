------------------------------ MODULE SstProfile ------------------------------
(***************************************************************************)
(* The methods of SSTTPMI that tell the profile of a CPU (sst_tpmi.cpp),   *)
(* at the grain of register reads.  A method reads several registers, or   *)
(* one of them twice; the BIOS and the host may change them between.       *)
(* A read that fails throws.                                               *)
(*                                                                         *)
(* The address of a register is abstracted to its name, instance and       *)
(* level; SstPeci has the transaction behind a read.                       *)
(***************************************************************************)
EXTENDS Integers, Sequences, FiniteSets, SequencesExt

CONSTANTS instances,   \* number of TPMI instances of the feature
          CoresPerDie, \* 64
          Levels,      \* levels that are asked for
          Platforms,   \* what the registers may hold
          MaxChanges   \* bound on the changes from outside

Instances == 0..(instances - 1)
Cores == 0..(CoresPerDie - 1)
maxTFBuckets == 8
Buckets == 1..maxTFBuckets

\* What the registers hold.  valid: the instances that exist.  levelMask:
\* SST_PP_LEVEL_EN_MASK.  level, bf, tf: SST_PP_STATUS.  cores: RESOLVED_CORE_MASK,
\* which RESOLVED_CORE_COUNT counts; hi: the high priority cores.  trl: the cores and
\* the ratios of the turbo buckets, two registers.
Platform == [valid : SUBSET Instances, levelMask : SUBSET (0..7), level : 0..7,
             bf : BOOLEAN, tf : BOOLEAN,
             cores : [Instances -> [Levels -> SUBSET Cores]],
             hi : [Instances -> [Levels -> SUBSET Cores]],
             trl : [Buckets -> [cores : 0..255, ratio : 0..255]]]

ASSUME SstProfileAssumption ==
  /\ instances \in Nat \ {0} /\ CoresPerDie \in Nat \ {0} /\ Levels \subseteq 0..7
  /\ Platforms \subseteq Platform /\ MaxChanges \in Nat
  /\ \A h \in Platforms : \A i, j \in h.valid, l \in Levels :
       \* Compute dies come before IO dies, and have a core at every level.
       i < j /\ h.cores[i][l] = {} => h.cores[j][l] = {}

VARIABLES
  hw,      \* the registers
  call,    \* the method that runs
  changes

vars == <<hw, call, changes>>

\* todo: instances yet to visit.  still: history, the registers have not changed since
\* the method began.
Idle == [method |-> "none", level |-> 0, stage |-> "idle", todo |-> <<>>, list |-> <<>>,
         count |-> 0, out |-> "none", still |-> TRUE]

Init == hw \in Platforms /\ call = Idle /\ changes = 0

OverInstances == {"coreCount", "enabledCoreList", "bfHighPriorityCoreList"}
OfStatus == {"bfEnabled", "tfEnabled"}
Others == {"maxLevel", "sseTurboProfile"}

Sorted(S) == SetToSortSeq(S, <)

-----------------------------------------------------------------------------
(* The methods *)

\* A method is called.  validInstances is its first step.
Call(m, l) ==
  /\ call.stage = "idle"
  /\ call' = [Idle EXCEPT !.method = m, !.level = l,
                !.stage = CASE m \in OverInstances -> "next" [] m \in OfStatus -> "level"
                            [] OTHER -> m,
                !.todo = IF m \in OverInstances THEN Sorted(hw.valid) ELSE <<>>]
  /\ UNCHANGED <<hw, changes>>

Finish(c, out) == call' = [c EXCEPT !.stage = "done", !.out = out]

\* forEachComputeInstance: the first instance without cores ends the loop.
forEachComputeInstance ==
  /\ call.stage = "next"
  /\ IF call.todo = <<>> \/ hw.cores[Head(call.todo)][call.level] = {}
     THEN Finish(call, "ok")
     ELSE call' = [call EXCEPT !.stage = "visit"]
  /\ UNCHANGED <<hw, changes>>

\* Mutation of CoreIds: the dies are counted.
CoreIdsCounted(i, mask) ==
  [k \in DOMAIN Sorted(mask) |->
     Sorted(mask)[k] + CoresPerDie * (Cardinality(hw.valid) - Len(call.todo))]

\* Mutation of CoreIds: the offset of the die is left out.
CoreIdsPlain(i, mask) == Sorted(mask)

\* The list of a mask with the offset of the die.
CoreIds(i, mask) == [k \in DOMAIN Sorted(mask) |-> Sorted(mask)[k] + CoresPerDie * i]

\* The callback for one instance: coreCount reads SST_PP_INFO_1 again, the others
\* read a mask.
Visit ==
  /\ call.stage = "visit"
  /\ LET i == Head(call.todo)
         c == [call EXCEPT !.todo = Tail(@), !.stage = "next"]
         cores == hw.cores[i][call.level]
         hi == hw.hi[i][call.level]
     IN \/ /\ call.method = "coreCount"
           /\ call' = [c EXCEPT !.count = @ + Cardinality(cores)]
        \/ /\ call.method = "enabledCoreList"
           /\ call' = [c EXCEPT !.list = @ \o CoreIds(i, cores)]
        \/ /\ call.method = "bfHighPriorityCoreList"
           /\ call' = [c EXCEPT !.list = @ \o CoreIds(i, hi)]
  /\ UNCHANGED <<hw, changes>>

\* bfEnabled and tfEnabled read SST_PP_STATUS for the level ...
CheckLevel ==
  /\ call.stage = "level"
  /\ IF hw.level = call.level THEN call' = [call EXCEPT !.stage = "state"]
     ELSE Finish(call, "thrown")
  /\ UNCHANGED <<hw, changes>>

\* ... and again for the state.
ReadState ==
  /\ call.stage = "state"
  /\ Finish([call EXCEPT !.count = IF (IF call.method = "bfEnabled" THEN hw.bf ELSE hw.tf)
                                   THEN 1 ELSE 0], "ok")
  /\ UNCHANGED <<hw, changes>>

\* The loop from 7 down to 1.
maxLevel(mask) ==
  LET set == {i \in 1..7 : i \in mask} IN
  IF set = {} THEN 0 ELSE CHOOSE i \in set : \A j \in set : j <= i

MaxLevel ==
  /\ call.stage = "maxLevel"
  /\ Finish([call EXCEPT !.count = maxLevel(hw.levelMask)], "ok")
  /\ UNCHANGED <<hw, changes>>

\* sseTurboProfile reads the cores of the buckets ...
ReadTurboCores ==
  /\ call.stage = "sseTurboProfile"
  /\ call' = [call EXCEPT !.stage = "limits", !.list = [k \in Buckets |-> hw.trl[k].cores]]
  /\ UNCHANGED <<hw, changes>>

mhzPerRatio == 100

\* ... and their limits, and takes the buckets that have cores and a speed.
sseTurboProfile ==
  /\ call.stage = "limits"
  /\ LET entries == [k \in Buckets |-> <<hw.trl[k].ratio * mhzPerRatio, call.list[k]>>]
     IN Finish([call EXCEPT !.list = SelectSeq(entries, LAMBDA e : e[1] # 0 /\ e[2] # 0)], "ok")
  /\ UNCHANGED <<hw, changes>>

\* A read fails.
Throw ==
  /\ call.stage \notin {"idle", "done"}
  /\ Finish(call, "thrown") /\ UNCHANGED <<hw, changes>>

Return ==
  /\ call.stage = "done" /\ call' = Idle /\ UNCHANGED <<hw, changes>>

\* The BIOS or the host changes registers; those that are cached or fused it cannot.
Change ==
  /\ changes < MaxChanges /\ changes' = changes + 1
  /\ hw' \in {h \in Platforms : h.valid = hw.valid /\ h.hi = hw.hi} \ {hw}
  /\ call' = [call EXCEPT !.still = FALSE]

Next ==
  \/ \E m \in OverInstances \cup OfStatus \cup Others, l \in Levels : Call(m, l)
  \/ forEachComputeInstance \/ Visit \/ CheckLevel \/ ReadState
  \/ MaxLevel \/ ReadTurboCores \/ sseTurboProfile
  \/ Throw \/ Return \/ Change

Spec == Init /\ [][Next]_vars

-----------------------------------------------------------------------------
(* Properties *)

Answered(m) == call.stage = "done" /\ call.out = "ok" /\ call.method = m

\* The cores of a level by their IDs, over all dies that exist.
AllCores(which) ==
  UNION {{CoresPerDie * i + c : c \in which[i][call.level]} : i \in hw.valid}

\* While nothing changes the registers, a method tells the whole profile: every core
\* of every die once, in order and by its own ID, although the loop stops at the
\* first die without cores and the instances have gaps; the count that goes with it;
\* the highest level that is supported; the states of BF and TF for the level of the
\* CPU, and for no other; the turbo buckets in use, each with its own cores and speed.
\* Nothing is claimed of a method whose registers change between its reads.
ProfileIsRight ==
  call.still =>
    /\ Answered("enabledCoreList") => call.list = Sorted(AllCores(hw.cores))
    /\ Answered("coreCount") => call.count = Cardinality(AllCores(hw.cores))
    /\ Answered("bfHighPriorityCoreList") =>
         call.list = Sorted({c \in AllCores(hw.hi) : hw.cores[c \div CoresPerDie][call.level] # {}})
    /\ Answered("maxLevel") /\ hw.levelMask # {} =>
         call.count \in hw.levelMask /\ \A l \in hw.levelMask : l <= call.count
    /\ Answered("bfEnabled") => call.level = hw.level /\ (call.count = 1) = hw.bf
    /\ Answered("tfEnabled") => call.level = hw.level /\ (call.count = 1) = hw.tf
    /\ Answered("sseTurboProfile") =>
         LET used == {k \in Buckets : hw.trl[k].cores # 0 /\ hw.trl[k].ratio # 0} IN
         /\ Len(call.list) = Cardinality(used)
         /\ \A k \in used : call.list[Cardinality(used \cap 1..k)] =
                             <<mhzPerRatio * hw.trl[k].ratio, hw.trl[k].cores>>

\* Whatever changes between the reads, a list of cores has every ID once, in order.
CoreListOrdered ==
  call.method \in {"enabledCoreList", "bfHighPriorityCoreList"} =>
    \A j, k \in DOMAIN call.list : j < k => call.list[j] < call.list[k]

=============================================================================
