----------------------------- MODULE LpcVwProofs -----------------------------
(***************************************************************************)
(* Proofs about LpcVw, for any processes, any division of the register     *)
(* into bits of the BMC and bits of the host, and any arguments.           *)
(***************************************************************************)
EXTENDS LpcVw, TLAPS

\* A valid index is a bit of the register.
LEMMA ValidIndex ==
  ASSUME NEW fn, NEW val, NEW index \in Indices, ~Invalid(fn, index, val)
  PROVE  index \in Bits
<1>1. index \in 0..31
  BY LpcVwAssumption DEF Invalid
<1>. QED  BY <1>1, LpcVwAssumption

\* A valid value tells a command.
LEMMA CommandType == \A fn, val : Command(fn, val) \in {"get", "set", "clear"}
BY DEF Command

\* The step proof of TypeOK, one case per action.
LEMMA TypeStep == TypeOK /\ [Next]_vars => TypeOK'
<1>. SUFFICES ASSUME TypeOK, [Next]_vars PROVE TypeOK'
  OBVIOUS
<1>. USE DEF TypeOK
<1>1. ASSUME NEW p \in Procs, NEW fn \in {"get", "set"}, NEW index \in Indices,
             NEW val \in Values, main(p, fn, index, val)
      PROVE  TypeOK'
  <2>1. CASE Invalid(fn, index, val)
    BY <1>1, <2>1 DEF main, Nothing, Process
  <2>2. CASE ~Invalid(fn, index, val)
    BY <1>1, <2>2, ValidIndex, CommandType DEF main, Nothing, Process
  <2>. QED  BY <2>1, <2>2
<1>2. ASSUME NEW p \in Procs, SIOGetBMCVWValue(p) PROVE TypeOK'
  <2>. DEFINE o == IF proc[p].bit \in reg THEN "set" ELSE "reset"
  <2>1. o \in {"none", "set", "reset", "done"}
    OBVIOUS
  <2>2. proc' = [proc EXCEPT ![p].stage = "exit", ![p].out = o]
    BY <1>2 DEF SIOGetBMCVWValue
  <2>. HIDE DEF o
  <2>3. [proc[p] EXCEPT !.stage = "exit", !.out = o] \in Process
    BY <2>1 DEF Process
  <2>4. proc' \in [Procs -> Process]
    BY <2>2, <2>3
  <2>. QED  BY <1>2, <2>4 DEF SIOGetBMCVWValue
<1>3. ASSUME NEW p \in Procs, Effective(p)
      PROVE  wanted' \in [Bits -> BOOLEAN] /\ risk' \subseteq Outputs
  BY <1>3 DEF Effective, Bits
<1>4. ASSUME NEW p \in Procs, ReadRegister(p) PROVE TypeOK'
  <2>1. CASE MustWrite(proc[p].cmd, proc[p].bit, proc[p].bit \in reg)
    BY <1>4, <2>1 DEF ReadRegister, Process
  <2>2. CASE ~MustWrite(proc[p].cmd, proc[p].bit, proc[p].bit \in reg)
    BY <1>4, <1>3, <2>2 DEF ReadRegister, Process
  <2>. QED  BY <2>1, <2>2
<1>5. ASSUME NEW p \in Procs, SIOSetBMCVWValue(p) PROVE TypeOK'
  <2>1. reg' \subseteq Bits
    BY <1>5 DEF SIOSetBMCVWValue, Bits
  <2>2. wanted' \in [Bits -> BOOLEAN] /\ risk' \subseteq Outputs
    BY <1>5, <1>3 DEF SIOSetBMCVWValue
  <2>3. [proc[p] EXCEPT !.stage = "exit", !.out = "done"] \in Process
    BY DEF Process
  <2>4. proc' \in [Procs -> Process]
    BY <1>5, <2>3 DEF SIOSetBMCVWValue
  <2>5. raced' \in [Procs -> SUBSET Outputs]
    BY <1>5 DEF SIOSetBMCVWValue
  <2>. QED  BY <2>1, <2>2, <2>4, <2>5
<1>6. ASSUME NEW p \in Procs, Exit(p) PROVE TypeOK'
  BY <1>6 DEF Exit, Nothing, Process
<1>7. CASE HostDrives
  BY <1>7 DEF HostDrives, Bits
<1>8. CASE UNCHANGED vars
  BY <1>8 DEF vars
<1>. QED  BY <1>1, <1>2, <1>4, <1>5, <1>6, <1>7, <1>8 DEF Next

-----------------------------------------------------------------------------
(* Lost updates *)

\* A command that takes effect marks its bit while another is between its ioctls.
LEMMA EffectiveStep ==
  ASSUME TypeOK, NEW p \in Procs, Sets(p), Effective(p), NEW b \in Outputs \ risk'
  PROVE  /\ b # proc[p].bit => b \notin risk /\ wanted'[b] = wanted[b]
         /\ b = proc[p].bit => wanted'[b] = (proc[p].cmd = "set") /\ ~Between(p)
<1>1. CASE proc[p].bit \in Outputs
  BY <1>1 DEF Effective, TypeOK, Bits
<1>2. CASE proc[p].bit \notin Outputs
  BY <1>2 DEF Effective, TypeOK, Bits
<1>. QED  BY <1>1, <1>2

\* The step proof of VwInv, one case per action.
LEMMA VwStep == VwInv /\ [Next]_vars => VwInv'
<1>. SUFFICES ASSUME VwInv, [Next]_vars PROVE VwInv'
  OBVIOUS
<1>0. TypeOK' /\ TypeOK
  BY TypeStep DEF VwInv
<1>. SUFFICES KeptUnlessOverlap' /\ ReadIsRecent'
  BY <1>0 DEF VwInv
<1>. USE DEF VwInv, KeptUnlessOverlap, ReadIsRecent
<1>1. ASSUME NEW p \in Procs, NEW fn \in {"get", "set"}, NEW index \in Indices,
             NEW val \in Values, main(p, fn, index, val)
      PROVE  KeptUnlessOverlap' /\ ReadIsRecent'
  BY <1>0, <1>1 DEF main, TypeOK, Nothing, Process, Sets
<1>2. ASSUME NEW p \in Procs, SIOGetBMCVWValue(p)
      PROVE  KeptUnlessOverlap' /\ ReadIsRecent'
  BY <1>0, <1>2 DEF SIOGetBMCVWValue, TypeOK, Process, Sets
<1>3. ASSUME NEW p \in Procs, ReadRegister(p)
      PROVE  KeptUnlessOverlap' /\ ReadIsRecent'
  <2>1. CASE MustWrite(proc[p].cmd, proc[p].bit, proc[p].bit \in reg)
    BY <1>0, <1>3, <2>1 DEF ReadRegister, TypeOK, Process, Sets
  <2>2. CASE ~MustWrite(proc[p].cmd, proc[p].bit, proc[p].bit \in reg)
    <3>1. Effective(p) /\ Sets(p) /\ reg' = reg
      BY <1>3, <2>2 DEF ReadRegister, Process
    <3>2. (proc[p].bit \in reg) = (proc[p].cmd = "set")
      BY <2>2, <3>1 DEF MustWrite, Sets
    <3>3. KeptUnlessOverlap'
      BY <1>0, <3>1, <3>2, EffectiveStep
    <3>4. \A q \in Procs : proc'[q].stage = "put" =>
            q # p /\ proc[q].stage = "put" /\ proc'[q] = proc[q]
      BY <1>0, <1>3, <2>2 DEF ReadRegister, TypeOK, Process
    <3>5. ReadIsRecent'
      <4>. SUFFICES ASSUME NEW q \in Procs, proc'[q].stage = "put", NEW b \in Outputs \ risk'
                    PROVE  (b \in proc'[q].read) = (b \in reg')
        BY <3>4 DEF Sets
      <4>1. Between(p)
        BY <3>4 DEF Between
      <4>2. b \notin risk
        BY <1>0, <3>1, <4>1, EffectiveStep
      <4>. QED  BY <3>1, <3>4, <4>2
    <3>. QED  BY <3>3, <3>5
  <2>. QED  BY <2>1, <2>2
<1>4. ASSUME NEW p \in Procs, SIOSetBMCVWValue(p)
      PROVE  KeptUnlessOverlap' /\ ReadIsRecent'
  <2>0. Sets(p)
    BY <1>4 DEF SIOSetBMCVWValue
  <2>1. Effective(p)
    BY <1>4 DEF SIOSetBMCVWValue
  <2>2. ASSUME NEW b \in Outputs \ risk', b # proc[p].bit
        PROVE  b \notin risk /\ wanted'[b] = wanted[b] /\ (b \in reg') = (b \in reg)
    <3>1. b \notin risk /\ wanted'[b] = wanted[b]
      BY <1>0, <2>0, <2>1, <2>2, EffectiveStep
    <3>2. (b \in proc[p].read) = (b \in reg)
      BY <1>4, <3>1 DEF SIOSetBMCVWValue
    <3>3. b \notin Inputs
      BY LpcVwAssumption
    <3>. QED
      BY <1>4, <2>2, <3>1, <3>2, <3>3 DEF SIOSetBMCVWValue, writeVirtualWireRegister
  <2>3. ASSUME NEW b \in Outputs \ risk', b = proc[p].bit
        PROVE  wanted'[b] = (proc[p].cmd = "set") /\ ~Between(p)
                 /\ (b \in reg') = (proc[p].cmd = "set")
    <3>1. b \notin Inputs
      BY LpcVwAssumption
    <3>2. (b \in reg') = (proc[p].cmd = "set")
      BY <1>4, <2>3, <3>1 DEF SIOSetBMCVWValue, writeVirtualWireRegister
    <3>. QED  BY <1>0, <2>0, <2>1, <2>3, <3>2, EffectiveStep
  <2>4. KeptUnlessOverlap'
    BY <2>2, <2>3
  <2>5. \A q \in Procs : proc'[q].stage = "put" =>
          q # p /\ proc[q].stage = "put" /\ proc'[q] = proc[q]
    BY <1>0, <1>4 DEF SIOSetBMCVWValue, TypeOK, Process
  <2>6. ReadIsRecent'
    <3>. SUFFICES ASSUME NEW q \in Procs, proc'[q].stage = "put", NEW b \in Outputs \ risk'
                  PROVE  (b \in proc'[q].read) = (b \in reg')
      BY <2>5 DEF Sets
    <3>1. Between(p)
      BY <2>5 DEF Between
    <3>2. b # proc[p].bit
      BY <2>3, <3>1
    <3>. QED  BY <2>2, <2>5, <3>2
  <2>. QED  BY <2>4, <2>6
<1>5. ASSUME NEW p \in Procs, Exit(p)
      PROVE  KeptUnlessOverlap' /\ ReadIsRecent'
  BY <1>0, <1>5 DEF Exit, TypeOK, Nothing, Process, Sets
<1>6. CASE HostDrives
  <2>1. \A b \in Outputs : (b \in reg') = (b \in reg)
    BY <1>6, LpcVwAssumption DEF HostDrives
  <2>. QED  BY <1>6, <2>1 DEF HostDrives, Sets
<1>7. CASE UNCHANGED vars
  BY <1>7 DEF vars, Sets
<1>. QED  BY <1>1, <1>2, <1>3, <1>4, <1>5, <1>6, <1>7 DEF Next

\* Type correctness of LpcVw.
THEOREM TypeCorrect == Spec => []TypeOK
<1>1. Init => TypeOK
  BY DEF Init, TypeOK, Nothing, Process
<1>. QED  BY <1>1, TypeStep, PTL DEF Spec

\* The inductive invariant of the commands that may overlap.
THEOREM VwInvariant == Spec => []VwInv
<1>1. Init => VwInv
  BY LpcVwAssumption DEF Init, VwInv, TypeOK, KeptUnlessOverlap, ReadIsRecent, Nothing,
                         Process, Bits
<1>. QED  BY <1>1, VwStep, PTL DEF Spec

\* An update of a bit is lost only to a command that was between its ioctls.
THEOREM UpdateKept == Spec => []KeptUnlessOverlap
<1>1. VwInv => KeptUnlessOverlap
  BY DEF VwInv
<1>. QED  BY <1>1, VwInvariant, PTL

-----------------------------------------------------------------------------
(* The commands implement single bits *)

\* A command has not reported before it wrote, and what it has read of the outputs is
\* still so but for those that others have changed since it began.
CommandInv ==
  /\ TypeOK
  /\ \A p \in Procs :
       /\ proc[p].stage \in {"get", "put"} => proc[p].out = "none"
       /\ proc[p].stage = "put" =>
            Sets(p) /\ \A b \in Outputs \ raced[p] : (b \in proc[p].read) = (b \in reg)
       /\ proc[p].stage \in {"none", "usage"} =>
            proc[p].cmd = "none" /\ proc[p].bit = 0 /\ proc[p].out = "none"
       /\ proc[p].cmd = "none" => raced[p] = {}

\* The step proof of CommandInv, one case per action.
LEMMA CommandStep ==
  ASSUME CommandInv, [Next]_vars
  PROVE  CommandInv'
<1>0. TypeOK' /\ TypeOK
  BY TypeStep DEF CommandInv
<1>. USE DEF CommandInv, Sets
<1>1. ASSUME NEW p \in Procs, NEW fn \in {"get", "set"}, NEW index \in Indices,
             NEW val \in Values, main(p, fn, index, val)
      PROVE  CommandInv'
  BY <1>0, <1>1 DEF main, TypeOK, Nothing, Process
<1>2. ASSUME NEW p \in Procs, SIOGetBMCVWValue(p) PROVE CommandInv'
  BY <1>0, <1>2 DEF SIOGetBMCVWValue, TypeOK, Process
<1>3. ASSUME NEW p \in Procs, ReadRegister(p) PROVE CommandInv'
  <2>1. CASE MustWrite(proc[p].cmd, proc[p].bit, proc[p].bit \in reg)
    BY <1>0, <1>3, <2>1 DEF ReadRegister, TypeOK, Process
  <2>2. CASE ~MustWrite(proc[p].cmd, proc[p].bit, proc[p].bit \in reg)
    BY <1>0, <1>3, <2>2 DEF ReadRegister, TypeOK, Process
  <2>. QED  BY <2>1, <2>2
<1>4. ASSUME NEW p \in Procs, SIOSetBMCVWValue(p) PROVE CommandInv'
  <2>1. \A q \in Procs : q # p => proc'[q] = proc[q]
    BY <1>0, <1>4 DEF SIOSetBMCVWValue, TypeOK, Process
  <2>2. proc'[p].stage = "exit"
    BY <1>0, <1>4 DEF SIOSetBMCVWValue, TypeOK, Process
  <2>3. ASSUME NEW q \in Procs, q # p, proc[q].cmd # "none", NEW b \in Outputs \ raced'[q]
        PROVE  b \notin raced[q] /\ (b \in reg') = (b \in reg)
    BY <1>4, <2>3 DEF SIOSetBMCVWValue
  <2>4. \A q \in Procs : q # p /\ proc[q].cmd = "none" => raced'[q] = raced[q]
    BY <1>4 DEF SIOSetBMCVWValue
  <2>5. proc'[p].cmd = proc[p].cmd /\ proc[p].cmd # "none"
    BY <1>0, <1>4 DEF SIOSetBMCVWValue, TypeOK, Process
  <2>. QED  BY <1>0, <2>1, <2>2, <2>3, <2>4, <2>5
<1>5. ASSUME NEW p \in Procs, Exit(p) PROVE CommandInv'
  BY <1>0, <1>5 DEF Exit, TypeOK, Nothing, Process
<1>6. CASE HostDrives
  <2>1. \A b \in Outputs : (b \in reg') = (b \in reg)
    BY <1>6, LpcVwAssumption DEF HostDrives
  <2>. QED  BY <1>0, <1>6, <2>1 DEF HostDrives
<1>7. CASE UNCHANGED vars
  BY <1>0, <1>7 DEF vars
<1>. QED  BY <1>1, <1>2, <1>3, <1>4, <1>5, <1>6, <1>7 DEF Next

\* The command of a process as VwBits sees it.
OpOf(p) == [cmd |-> proc[p].cmd, bit |-> proc[p].bit, out |-> proc[p].out]

\* A step that changes one process changes its command alone.
LEMMA OpStep ==
  ASSUME NEW p \in Procs, NEW new, proc \in [Procs -> Process],
         proc' = [proc EXCEPT ![p] = new]
  PROVE  [q \in Procs |-> OpOf(q)]' =
           [[q \in Procs |-> OpOf(q)] EXCEPT ![p] =
              [cmd |-> new.cmd, bit |-> new.bit, out |-> new.out]]
BY DEF OpOf

\* Every step is a step of VwBits or leaves its state unchanged.
LEMMA RefineStep ==
  ASSUME CommandInv, [Next]_vars
  PROVE  [Register!Next]_<<reg, [p \in Procs |-> OpOf(p)], raced>>
<1>. DEFINE Op == [p \in Procs |-> OpOf(p)]
<1>0. TypeOK
  BY DEF CommandInv
<1>a. \A p \in Procs : Op[p] = OpOf(p)
  OBVIOUS
<1>. USE DEF OpOf
<1>1. ASSUME NEW p \in Procs, NEW fn \in {"get", "set"}, NEW index \in Indices,
             NEW val \in Values, main(p, fn, index, val)
      PROVE  Register!Next \/ UNCHANGED <<reg, Op, raced>>
  <2>1. CASE Invalid(fn, index, val)
    <3>1. Op' = Op
      BY <1>0, <1>1, <2>1 DEF main, Nothing, TypeOK, CommandInv
    <3>. QED  BY <1>1, <3>1 DEF main
  <2>2. CASE ~Invalid(fn, index, val)
    <3>1. Op[p] = Register!Nothing
      BY <1>0, <1>1 DEF main, CommandInv, Register!Nothing
    <3>2. Op' = [Op EXCEPT ![p] = [cmd |-> Command(fn, val), bit |-> index, out |-> "none"]]
      BY <1>0, <1>1, <2>2, OpStep DEF main, Nothing, TypeOK
    <3>3. index \in Outputs \cup Inputs
      BY <2>2, ValidIndex DEF Bits
    <3>4. Register!Begin(p, Command(fn, val), index)
      BY <1>1, <3>1, <3>2 DEF Register!Begin, main
    <3>. QED  BY <3>3, <3>4, CommandType DEF Register!Next
  <2>. QED  BY <2>1, <2>2
<1>2. ASSUME NEW p \in Procs, SIOGetBMCVWValue(p)
      PROVE  Register!Next
  <2>. DEFINE found == IF proc[p].bit \in reg THEN "set" ELSE "reset"
  <2>1. Op' = [Op EXCEPT ![p].out = found]
    BY <1>0, <1>2 DEF SIOGetBMCVWValue, TypeOK, Process
  <2>2. Op[p].cmd = "get" /\ Op[p].out = "none"
    BY <1>2 DEF SIOGetBMCVWValue, CommandInv
  <2>3. found = IF Op[p].bit \in reg THEN "set" ELSE "reset"
    OBVIOUS
  <2>4. Register!Read(p)
    BY <1>2, <2>1, <2>2, <2>3 DEF Register!Read, SIOGetBMCVWValue
  <2>. QED  BY <2>4 DEF Register!Next
<1>3. ASSUME NEW p \in Procs, ReadRegister(p)
      PROVE  Register!Next \/ UNCHANGED <<reg, Op, raced>>
  <2>1. CASE MustWrite(proc[p].cmd, proc[p].bit, proc[p].bit \in reg)
    <3>1. Op' = Op
      BY <1>0, <1>3, <2>1 DEF ReadRegister, TypeOK, Process
    <3>. QED  BY <1>3, <3>1 DEF ReadRegister
  <2>2. CASE ~MustWrite(proc[p].cmd, proc[p].bit, proc[p].bit \in reg)
    <3>1. Op' = [Op EXCEPT ![p].out = "done"]
      <4>1. proc' = [proc EXCEPT ![p].stage = "exit", ![p].out = "done"]
        BY <1>3, <2>2 DEF ReadRegister
      <4>. QED  BY <1>0, <4>1 DEF TypeOK, Process
    <3>2. Op[p].cmd \in {"set", "clear"} /\ Op[p].out = "none"
      BY <1>3 DEF ReadRegister, CommandInv, Sets
    <3>3. reg' = reg /\ (proc[p].bit \in reg) = (proc[p].cmd = "set")
      BY <1>3, <2>2 DEF ReadRegister, MustWrite, Sets
    <3>4. /\ reg' \subseteq Outputs \cup Inputs
          /\ raced' = [q \in Procs |->
               IF q = p \/ Op[q].cmd = "none" THEN raced[q]
               ELSE raced[q] \cup {b \in Outputs : (b \in reg) # (b \in reg')}]
      <4>1. raced' = raced /\ raced \in [Procs -> SUBSET Outputs] /\ reg \subseteq Bits
        BY <1>0, <1>3 DEF ReadRegister, TypeOK
      <4>. QED  BY <3>3, <4>1 DEF Bits
    <3>5. Register!Change(p)
      BY <3>1, <3>2, <3>3, <3>4 DEF Register!Change
    <3>. QED  BY <3>5 DEF Register!Next
  <2>. QED  BY <2>1, <2>2
<1>4. ASSUME NEW p \in Procs, SIOSetBMCVWValue(p)
      PROVE  Register!Next
  <2>1. Op' = [Op EXCEPT ![p].out = "done"]
    BY <1>0, <1>4 DEF SIOSetBMCVWValue, TypeOK, Process
  <2>2. Op[p].cmd \in {"set", "clear"} /\ Op[p].out = "none"
    BY <1>4 DEF SIOSetBMCVWValue, CommandInv, Sets
  <2>3. /\ \A b \in Outputs \ raced[p] : (b \in proc[p].read) = (b \in reg)
        /\ reg \subseteq Bits
    BY <1>0, <1>4 DEF SIOSetBMCVWValue, CommandInv, TypeOK
  <2>4. reg' = (writeVirtualWireRegister(p) \cap Outputs) \cup (reg \cap Inputs)
    BY <1>4 DEF SIOSetBMCVWValue
  <2>5. ASSUME NEW b \in {proc[p].bit} \cap Outputs
        PROVE  (b \in reg') = (proc[p].cmd = "set")
    BY <2>4, LpcVwAssumption DEF writeVirtualWireRegister
  <2>6. ASSUME NEW b \in ((Outputs \cup Inputs) \ ({proc[p].bit} \cap Outputs)) \ raced[p]
        PROVE  (b \in reg') = (b \in reg)
    <3>1. CASE b \in Inputs
      BY <2>4, <3>1, LpcVwAssumption
    <3>2. CASE b \in Outputs
      <4>1. b \notin Inputs /\ b # proc[p].bit
        BY <2>6, <3>2, LpcVwAssumption
      <4>2. (b \in reg') = (b \in proc[p].read)
        BY <2>4, <3>2, <4>1 DEF writeVirtualWireRegister
      <4>. QED  BY <2>3, <2>6, <3>2, <4>2
    <3>. QED  BY <3>1, <3>2
  <2>7. /\ reg' \subseteq Outputs \cup Inputs
        /\ raced' = [q \in Procs |->
             IF q = p \/ Op[q].cmd = "none" THEN raced[q]
             ELSE raced[q] \cup {b \in Outputs : (b \in reg) # (b \in reg')}]
    BY <1>4, <2>4 DEF SIOSetBMCVWValue
  <2>8. Register!Change(p)
    BY <2>1, <2>2, <2>5, <2>6, <2>7 DEF Register!Change
  <2>. QED  BY <2>8 DEF Register!Next
<1>5. ASSUME NEW p \in Procs, Exit(p)
      PROVE  Register!Next \/ UNCHANGED <<reg, Op, raced>>
  <2>1. Op' = [Op EXCEPT ![p] = Register!Nothing]
    BY <1>0, <1>5, OpStep DEF Exit, TypeOK, Nothing, Register!Nothing
  <2>2. CASE Op[p] = Register!Nothing
    <3>1. Op' = Op
      BY <2>1, <2>2
    <3>2. proc[p].cmd = "none"
      BY <2>2 DEF Register!Nothing
    <3>3. raced' = raced
      BY <1>0, <1>5, <3>2 DEF Exit, CommandInv, TypeOK
    <3>. QED  BY <1>5, <3>1, <3>3 DEF Exit
  <2>3. CASE Op[p] # Register!Nothing
    BY <1>5, <2>1, <2>3 DEF Exit, Register!End, Register!Next
  <2>. QED  BY <2>2, <2>3
<1>6. CASE HostDrives
  <2>1. Op' = Op
    BY <1>6 DEF HostDrives
  <2>. QED  BY <1>6, <2>1 DEF HostDrives, Register!HostDrives, Register!Next
<1>7. CASE UNCHANGED vars
  BY <1>7 DEF vars
<1>. QED  BY <1>1, <1>2, <1>3, <1>4, <1>5, <1>6, <1>7 DEF Next

\* The commands implement VwBits: the read and the write of the register are together a
\* change of one bit, which undoes at most what others changed since the command began.
THEOREM Implementation == Spec => ImplementsBits
<1>1. Init => CommandInv
  BY DEF Init, CommandInv, TypeOK, Sets, Nothing, Process, Bits
<1>2. CommandInv /\ [Next]_vars => CommandInv'
  BY CommandStep
<1>3. Init => Register!Init
  BY DEF Init, Register!Init, Nothing, Register!Nothing, Bits
<1>4. CommandInv /\ [Next]_vars => [Register!Next]_<<reg, [p \in Procs |->
        [cmd |-> proc[p].cmd, bit |-> proc[p].bit, out |-> proc[p].out]], raced>>
  BY RefineStep DEF OpOf
<1>. QED  BY <1>1, <1>2, <1>3, <1>4, PTL DEF Spec, ImplementsBits, Register!Spec

=============================================================================
