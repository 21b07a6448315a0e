-------------------------------- MODULE LpcVw --------------------------------
(***************************************************************************)
(* The commands get_bmc_vw_value and set_bmc_vw_value of lpc_cmds: each    *)
(* one is a process, and setting a bit is a read of the whole register     *)
(* followed by a write of it, two ioctls of one driver.                    *)
(*                                                                         *)
(* The register is the set of its bits that are set.                       *)
(***************************************************************************)
EXTENDS Integers

CONSTANTS Procs,    \* processes that run lpc_cmds
          Outputs,  \* bits of the register that the BMC drives
          Inputs,   \* bits that the host drives
          Indices,  \* GPIO numbers on the command line, 0..31 or not
          Values    \* values on the command line, 0 or 1 or not

Bits == Outputs \cup Inputs

ASSUME LpcVwAssumption ==
  /\ Bits \subseteq 0..31 /\ Outputs \cap Inputs = {}
  /\ Indices \subseteq Int /\ Indices \cap (0..31) \subseteq Bits
  /\ Values \subseteq Int

VARIABLES
  reg,    \* the register of the driver
  proc,   \* process -> its stage, command, the register it read, its message
  wanted, \* history: bit -> the value of the last command that took effect
  risk,   \* history: bits set while another command was between its two ioctls
  raced   \* history: process -> outputs changed by others since its command began

vars == <<reg, proc, wanted, risk, raced>>

Process == [stage : {"none", "usage", "get", "put", "exit"},
            cmd : {"none", "get", "set", "clear"}, bit : Bits \cup {0},
            read : SUBSET Bits, out : {"none", "set", "reset", "done"}]

Nothing == [stage |-> "none", cmd |-> "none", bit |-> 0, read |-> {}, out |-> "none"]

Init ==
  /\ reg \in SUBSET Bits
  /\ proc = [p \in Procs |-> Nothing]
  /\ wanted = [b \in Bits |-> b \in reg]
  /\ risk = {}
  /\ raced = [p \in Procs |-> {}]

Sets(p) == proc[p].cmd \in {"set", "clear"}

\* The checks of main: an argument that is no number is like one out of range, and
\* only set_bmc_vw_value has a value.
Invalid(fn, index, val) == index > 31 \/ index < 0 \/ (fn = "set" /\ (val > 1 \/ val < 0))

Command(fn, val) == IF fn = "get" THEN "get" ELSE IF val = 0 THEN "clear" ELSE "set"

main(p, fn, index, val) ==
  /\ proc[p].stage = "none"
  /\ proc' = [proc EXCEPT ![p] =
       IF Invalid(fn, index, val) THEN [Nothing EXCEPT !.stage = "usage"]
       ELSE [Nothing EXCEPT !.stage = "get", !.cmd = Command(fn, val), !.bit = index]]
  /\ UNCHANGED <<reg, wanted, risk, raced>>

\* Another command has read the register and has yet to write it.
Between(p) == \E q \in Procs \ {p} : proc[q].stage = "put"

\* A command has set or cleared its bit: history.
Effective(p) ==
  LET b == proc[p].bit IN
  IF Sets(p) /\ b \in Outputs
  THEN /\ wanted' = [wanted EXCEPT ![b] = (proc[p].cmd = "set")]
       /\ risk' = IF Between(p) THEN risk \cup {b} ELSE risk \ {b}
  ELSE UNCHANGED <<wanted, risk>>

\* Mutation of MustWrite: a bit is never cleared.
MustWriteSet(cmd, bit, isSet) == cmd = "set"

\* Mutation of MustWrite: the bit is written only if it is set.
MustWriteIfSet(cmd, bit, isSet) == isSet

\* set ^ checkValue, where set is 0 or 1 and checkValue 0 or 1 << bit: a set bit
\* other than bit 0 is written again.
MustWrite(cmd, bit, isSet) == IF cmd = "set" THEN ~isSet \/ bit # 0 ELSE isSet

\* ASPEED_ESPI_VW_GET_GPIO_VAL for a command that reads a bit.
SIOGetBMCVWValue(p) ==
  /\ proc[p].stage = "get" /\ proc[p].cmd = "get"
  /\ proc' = [proc EXCEPT ![p].stage = "exit",
                          ![p].out = IF proc[p].bit \in reg THEN "set" ELSE "reset"]
  /\ UNCHANGED <<reg, wanted, risk, raced>>

\* The same ioctl for a command that sets a bit, and the test of the bit.
ReadRegister(p) ==
  /\ proc[p].stage = "get" /\ Sets(p)
  /\ IF MustWrite(proc[p].cmd, proc[p].bit, proc[p].bit \in reg)
     THEN /\ proc' = [proc EXCEPT ![p].stage = "put", ![p].read = reg]
          /\ UNCHANGED <<wanted, risk>>
     ELSE /\ proc' = [proc EXCEPT ![p].stage = "exit", ![p].out = "done"]
          /\ Effective(p)
  /\ UNCHANGED <<reg, raced>>

\* Mutation of writeVirtualWireRegister: the bit alone is written.
writeVirtualWireRegisterAlone(p) ==
  IF proc[p].cmd = "set" THEN {proc[p].bit} ELSE {}

\* What is written.
writeVirtualWireRegister(p) ==
  IF proc[p].cmd = "set" THEN proc[p].read \cup {proc[p].bit}
  ELSE proc[p].read \ {proc[p].bit}

\* ASPEED_ESPI_VW_PUT_GPIO_VAL: the bits of the host keep their values.
SIOSetBMCVWValue(p) ==
  /\ proc[p].stage = "put"
  /\ reg' = (writeVirtualWireRegister(p) \cap Outputs) \cup (reg \cap Inputs)
  /\ proc' = [proc EXCEPT ![p].stage = "exit", ![p].out = "done"]
  /\ Effective(p)
  /\ raced' = [q \in Procs |->
       IF q = p \/ proc[q].cmd = "none" THEN raced[q]
       ELSE raced[q] \cup {b \in Outputs : (b \in reg) # (b \in reg')}]

\* The process ends: after its message, because an ioctl failed, or stopped from
\* outside.
Exit(p) ==
  /\ proc[p].stage # "none"
  /\ proc' = [proc EXCEPT ![p] = Nothing]
  /\ raced' = [raced EXCEPT ![p] = {}]
  /\ UNCHANGED <<reg, wanted, risk>>

HostDrives ==
  /\ \E s \in SUBSET Inputs : reg' = (reg \cap Outputs) \cup s
  /\ UNCHANGED <<proc, wanted, risk, raced>>

Next ==
  \/ \E p \in Procs :
       \/ \E fn \in {"get", "set"}, index \in Indices, val \in Values : main(p, fn, index, val)
       \/ SIOGetBMCVWValue(p) \/ ReadRegister(p) \/ SIOSetBMCVWValue(p) \/ Exit(p)
  \/ HostDrives

Spec == Init /\ [][Next]_vars

-----------------------------------------------------------------------------
(* Properties *)

\* The type of every variable.
TypeOK ==
  /\ reg \subseteq Bits
  /\ proc \in [Procs -> Process]
  /\ wanted \in [Bits -> BOOLEAN]
  /\ risk \subseteq Outputs
  /\ raced \in [Procs -> SUBSET Outputs]

\* A bit has the value of the last command that reported to have set or cleared it,
\* unless another command was between reading and writing the register at the time:
\* an update is lost only to a command that overlaps with it.
KeptUnlessOverlap == \A b \in Outputs \ risk : (b \in reg) = wanted[b]

\* A command between its two ioctls sets a bit, and has read the outputs as they are
\* but for those that another has changed meanwhile.
ReadIsRecent ==
  \A p \in Procs : proc[p].stage = "put" =>
    /\ Sets(p)
    /\ \A b \in Outputs \ risk : (b \in proc[p].read) = (b \in reg)

\* What makes KeptUnlessOverlap inductive.
VwInv == TypeOK /\ KeptUnlessOverlap /\ ReadIsRecent

\* The commands work on single bits: the two ioctls implement a change of one bit that
\* takes effect at once, and that may undo only what others changed since the command
\* began.
Register == INSTANCE VwBits WITH
  bits <- reg,
  op <- [p \in Procs |-> [cmd |-> proc[p].cmd, bit |-> proc[p].bit, out |-> proc[p].out]]

\* The refinement of VwBits by SIOGetBMCVWValue and SIOSetBMCVWValue.
ImplementsBits == Register!Spec

=============================================================================
