-------------------------------- MODULE VwBits --------------------------------
(***************************************************************************)
(* What lpc_cmds promises of the virtual wire register: its bits can be    *)
(* set, cleared and read one by one.  A command takes effect at once, and  *)
(* changes no other bit, except that it may undo what other commands have  *)
(* changed since it began; one that fails changes nothing.  The host       *)
(* drives the bits that are its outputs.                                   *)
(***************************************************************************)
CONSTANTS Procs,    \* the commands that may run
          Outputs,  \* bits the BMC drives
          Inputs    \* bits the host drives

VARIABLES bits,     \* the bits that are set
          op,       \* process -> its command, and what it found
          raced     \* process -> outputs changed by others since its command began

Nothing == [cmd |-> "none", bit |-> 0, out |-> "none"]

Init ==
  /\ bits \in SUBSET (Outputs \cup Inputs)
  /\ op = [p \in Procs |-> Nothing]
  /\ raced = [p \in Procs |-> {}]

Begin(p, cmd, b) ==
  /\ op[p] = Nothing
  /\ op' = [op EXCEPT ![p] = [cmd |-> cmd, bit |-> b, out |-> "none"]]
  /\ UNCHANGED <<bits, raced>>

\* Of the bits of the host a command changes nothing.
Change(p) ==
  LET own == {op[p].bit} \cap Outputs IN
  /\ op[p].cmd \in {"set", "clear"} /\ op[p].out = "none"
  /\ bits' \subseteq Outputs \cup Inputs
  /\ \A b \in own : (b \in bits') = (op[p].cmd = "set")
  /\ \A b \in ((Outputs \cup Inputs) \ own) \ raced[p] : (b \in bits') = (b \in bits)
  /\ op' = [op EXCEPT ![p].out = "done"]
  /\ raced' = [q \in Procs |->
       IF q = p \/ op[q].cmd = "none" THEN raced[q]
       ELSE raced[q] \cup {b \in Outputs : (b \in bits) # (b \in bits')}]

Read(p) ==
  /\ op[p].cmd = "get" /\ op[p].out = "none"
  /\ op' = [op EXCEPT ![p].out = IF op[p].bit \in bits THEN "set" ELSE "reset"]
  /\ UNCHANGED <<bits, raced>>

\* The command ends: it is done, it failed, or its process was stopped.
End(p) ==
  /\ op[p] # Nothing
  /\ op' = [op EXCEPT ![p] = Nothing]
  /\ raced' = [raced EXCEPT ![p] = {}]
  /\ UNCHANGED bits

HostDrives ==
  /\ \E s \in SUBSET Inputs : bits' = (bits \cap Outputs) \cup s
  /\ UNCHANGED <<op, raced>>

Next ==
  \/ \E p \in Procs :
       \/ \E cmd \in {"get", "set", "clear"}, b \in Outputs \cup Inputs : Begin(p, cmd, b)
       \/ Change(p) \/ Read(p) \/ End(p)
  \/ HostDrives

Spec == Init /\ [][Next]_<<bits, op, raced>>

=============================================================================
