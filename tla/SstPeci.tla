------------------------------- MODULE SstPeci -------------------------------
(***************************************************************************)
(* One SST object of the TPMI backend (sst_tpmi.cpp: SSTTPMI, its          *)
(* SSTRegisterSet and its WakeOnPECIManager) at the grain of PECI          *)
(* transactions.  An object is created, some of its methods are called and *)
(* it is destroyed, on one thread; the CPU goes idle and wakes up at any   *)
(* time and any transaction may fail.  A method that throws PECIError      *)
(* returns to its caller with outcome "error"; the object is still there   *)
(* to be destroyed.                                                        *)
(*                                                                         *)
(* setCurrentLevel, setBfEnabled and setTfEnabled are the same loop        *)
(* (setAllInstances) over different fields; the model writes field level   *)
(* and keeps the rest of SST_PP_CONTROL in field other.  The getters are   *)
(* represented by a read of SST_PP_STATUS of instance 0 (currentLevel).    *)
(***************************************************************************)
EXTENDS Integers, FiniteSets

CONSTANTS Domains,    \* the dies of the package (die mask)
          Instances,  \* Feature.instances: possible TPMI instances 0..Instances-1
          Levels,     \* values of the level field
          Others,     \* values of the rest of SST_PP_CONTROL
          MaxTries    \* retries of a Wake-on-PECI write that times out (5)

ASSUME SstAssumption ==
  /\ Domains \subseteq Nat /\ Domains # {} /\ IsFiniteSet(Domains)
  /\ Instances \in Nat \ {0}
  /\ MaxTries \in Nat

Instance == 0..Instances - 1
PpControl == [level : Levels, other : Others]

Lowest(S) == CHOOSE x \in S : \A y \in S : x <= y

VARIABLES
  idle,       \* CPU: is the package idle
  wake,       \* CPU: the Wake-on-PECI mode bit of each domain
  present,    \* CPU: the instances that exist
  ppControl,  \* CPU: SST_PP_CONTROL of each instance
  pc,         \* where the thread is
  wakePolicy, \* WakeOnPECIManager: wakeAllowed or dontWake
  peciWoken,  \* WakeOnPECIManager: the flag
  dieMasks,   \* static: has the die mask been read
  cachedRegs, \* static: the instances whose header has been read
  enable,     \* setWakeOnPECI: its argument
  todo,       \* setWakeOnPECI: the domains still to be written
  tries,      \* setWakeOnPECI: time-outs of the current domain
  call,       \* the method: "get" or "set", and the level to set
  op,         \* the MMIO access in progress
  inst,       \* the instance it is for
  valid,      \* validInstances: found so far, then those not yet written
  status,     \* setAllInstances: the register value being modified
  outcome,    \* how the last method ended
  acked,      \* history: domains this object was told are awake
  unslept,    \* history: a write of the destructor failed
  before      \* history: ppControl when the method was called

cpuVars == <<idle, wake, present, ppControl>>
wakeVars == <<enable, todo, tries>>
callVars == <<call, op, inst, valid, status, outcome, before>>
vars == <<cpuVars, pc, wakePolicy, peciWoken, dieMasks, cachedRegs, wakeVars,
          callVars, acked, unslept>>

Init ==
  /\ idle \in BOOLEAN
  /\ wake = [d \in Domains |-> FALSE]
  /\ present \in SUBSET Instance /\ 0 \in present
  /\ ppControl \in [Instance -> PpControl]
  /\ pc = "none" /\ wakePolicy = "dontWake" /\ peciWoken = FALSE
  /\ dieMasks = FALSE /\ cachedRegs = {}
  /\ enable = FALSE /\ todo = {} /\ tries = 0
  /\ call = [kind |-> "get", level |-> CHOOSE l \in Levels : TRUE]
  /\ op = "readStatus" /\ inst = 0 /\ valid = {}
  /\ status = ppControl[0] /\ outcome = "ok"
  /\ acked = {} /\ unslept = FALSE /\ before = ppControl

\* The package enters or leaves its idle state whenever it likes.
IdleChange ==
  /\ idle' = ~idle
  /\ UNCHANGED <<wake, present, ppControl, pc, wakePolicy, peciWoken, dieMasks,
                 cachedRegs, wakeVars, callVars, acked, unslept>>

-----------------------------------------------------------------------------
(* setWakeOnPECI *)

\* The call returns at once when the flag already has the wanted value;
\* otherwise the die mask is read, unless it is cached, and then every domain
\* is written.
setWakeOnPECI(on, return) ==
  /\ enable' = on /\ todo' = Domains /\ tries' = 0
  /\ pc' = IF on = peciWoken THEN return
           ELSE IF dieMasks THEN "wake" ELSE "mask"

\* A PECIError leaves setWakeOnPECI: it ends the method, or the destructor
\* swallows it.
WakeThrow ==
  /\ pc' = IF enable THEN "idle" ELSE "none"
  /\ outcome' = IF enable THEN "error" ELSE outcome
  /\ unslept' = (unslept \/ ~enable)

ReadDieMask ==
  /\ pc = "mask"
  /\ \/ dieMasks' = TRUE /\ pc' = "wake" /\ UNCHANGED <<outcome, unslept>>
     \/ WakeThrow /\ UNCHANGED dieMasks
  /\ UNCHANGED <<cpuVars, wakePolicy, peciWoken, cachedRegs, wakeVars, call, op,
                 inst, valid, status, before, acked>>

\* Mutation of WakeFlag: the flag waits until every domain is written.
WakeFlagAtEnd(rest) == IF rest = {} THEN enable ELSE peciWoken

\* The flag after a domain was written and rest are left: set by the first
\* success, cleared by the last.
WakeFlag(rest) == enable \/ (peciWoken /\ rest # {})

WakeWriteOk ==
  LET d == Lowest(todo)
      rest == todo \ {d}
  IN /\ pc = "wake"
     /\ wake' = [wake EXCEPT ![d] = enable]
     /\ acked' = IF enable THEN acked \cup {d} ELSE acked \ {d}
     /\ peciWoken' = WakeFlag(rest)
     /\ todo' = rest /\ tries' = 0
     /\ pc' = IF rest # {} THEN "wake" ELSE IF enable THEN "retry" ELSE "none"
     /\ UNCHANGED <<idle, present, ppControl, wakePolicy, dieMasks, cachedRegs,
                    enable, callVars, unslept>>

\* Mutation of Retry: a counter too narrow for the limit wraps round.
RetryWraps == IF tries < MaxTries THEN tries + 1 ELSE 0

\* The do-while loop: another attempt while ++tries <= MaxTries.
Retry == tries + 1

\* No answer: the write may or may not have reached the domain.
WakeWriteTimeout ==
  LET d == Lowest(todo) IN
  /\ pc = "wake"
  /\ \E on \in {wake[d], enable} : wake' = [wake EXCEPT ![d] = on]
  /\ \/ /\ Retry <= MaxTries
        /\ tries' = Retry
        /\ UNCHANGED <<pc, outcome, unslept>>
     \/ Retry > MaxTries /\ WakeThrow /\ UNCHANGED tries
  /\ UNCHANGED <<idle, present, ppControl, wakePolicy, peciWoken, dieMasks,
                 cachedRegs, enable, todo, call, op, inst, valid, status, before,
                 acked>>

\* Any other status, or a bad completion code: the domain did not accept it.
WakeWriteError ==
  /\ pc = "wake" /\ WakeThrow
  /\ UNCHANGED <<cpuVars, wakePolicy, peciWoken, dieMasks, cachedRegs, wakeVars,
                 call, op, inst, valid, status, before, acked>>

-----------------------------------------------------------------------------
(* The life of an object, and its methods *)

Create(policy) ==
  /\ pc = "none"
  /\ pc' = "idle" /\ wakePolicy' = policy /\ peciWoken' = FALSE
  /\ acked' = {} /\ unslept' = FALSE
  /\ UNCHANGED <<cpuVars, dieMasks, cachedRegs, wakeVars, callVars>>

\* Mutation of Destroy: the destructor does nothing.
DestroyOnly ==
  /\ pc = "idle"
  /\ pc' = "none"
  /\ UNCHANGED <<cpuVars, wakePolicy, peciWoken, dieMasks, cachedRegs, wakeVars,
                 callVars, acked, unslept>>

Destroy ==
  /\ pc = "idle"
  /\ setWakeOnPECI(FALSE, "none")
  /\ UNCHANGED <<cpuVars, wakePolicy, peciWoken, dieMasks, cachedRegs, callVars,
                 acked, unslept>>

\* The register offset comes from the header, read once per instance.
FirstAccess(i, next) == IF i \in cachedRegs THEN next ELSE "header"

currentLevel ==
  /\ pc = "idle"
  /\ call' = [kind |-> "get", level |-> call.level]
  /\ op' = FirstAccess(0, "readStatus") /\ inst' = 0
  /\ pc' = "mmio" /\ before' = ppControl
  /\ UNCHANGED <<cpuVars, wakePolicy, peciWoken, dieMasks, cachedRegs, wakeVars,
                 valid, status, outcome, acked, unslept>>

setCurrentLevel(level) ==
  /\ pc = "idle"
  /\ call' = [kind |-> "set", level |-> level]
  /\ op' = "probe" /\ inst' = 0 /\ valid' = {}
  /\ pc' = "mmio" /\ before' = ppControl
  /\ UNCHANGED <<cpuVars, wakePolicy, peciWoken, dieMasks, cachedRegs, wakeVars,
                 status, outcome, acked, unslept>>

-----------------------------------------------------------------------------
(* MMIO accesses: readNoThrow, read and write through peciOpWithWakeRetry *)

\* An idle package may refuse an access (completion code 0x82) until every one
\* of its domains has been told to wake up.
Refuses == idle /\ \E d \in Domains : ~wake[d]

\* The method ends.
Return(how) == pc' = "idle" /\ outcome' = how

\* Mutation of WakeUnavailable: the policy is not consulted.
WakeUnavailableAlways == pc = "mmio"

\* The wake-up and the second attempt happen once per access.
WakeUnavailable == pc = "mmio" /\ wakePolicy = "wakeAllowed"

Unavailable ==
  /\ pc \in {"mmio", "retry"} /\ Refuses
  /\ \/ /\ WakeUnavailable
        /\ setWakeOnPECI(TRUE, "retry")
        /\ UNCHANGED outcome
     \/ ~WakeUnavailable /\ Return("error") /\ UNCHANGED wakeVars
  /\ UNCHANGED <<cpuVars, wakePolicy, peciWoken, dieMasks, cachedRegs, call, op,
                 inst, valid, status, before, acked, unslept>>

\* Any other failure throws.  A write may have been done all the same.
NewControl == [status EXCEPT !.level = call.level]

AccessFailed ==
  /\ pc \in {"mmio", "retry"}
  /\ \/ UNCHANGED ppControl
     \/ op = "writeControl" /\ ppControl' = [ppControl EXCEPT ![inst] = NewControl]
  /\ Return("error")
  /\ UNCHANGED <<idle, wake, present, wakePolicy, peciWoken, dieMasks, cachedRegs,
                 wakeVars, call, op, inst, valid, status, before, acked, unslept>>

\* Move on to another access of the method, or return.
Then(next, i) == pc' = "mmio" /\ op' = next /\ inst' = i /\ UNCHANGED outcome
Finish == Return("ok") /\ UNCHANGED <<op, inst>>
NextInstance(left) ==
  IF left = {} THEN Finish
               ELSE LET i == Lowest(left) IN Then(FirstAccess(i, "readControl"), i)

Access(name) == pc \in {"mmio", "retry"} /\ op = name
RegsUnchanged == UNCHANGED <<cpuVars, wakePolicy, peciWoken, dieMasks, wakeVars,
                             call, before, acked, unslept>>

\* Mutation of Found: an instance that does not exist counts as valid.
FoundAny(i) == {i}

\* Does the answer of instance i to the first read make it valid?
Found(i) == {i} \cap present

\* Mutation of MoreInstances: one instance too many.
MoreInstancesOffByOne(i) == i + 1 <= Instances

MoreInstances(i) == i + 1 < Instances

\* validInstances: 0x90 or all ones skips the instance.
Probe ==
  /\ Access("probe")
  /\ valid' = valid \cup Found(inst)
  /\ IF MoreInstances(inst) THEN Then("probe", inst + 1)
                            ELSE NextInstance(valid')
  /\ UNCHANGED <<cachedRegs, status>> /\ RegsUnchanged

ReadHeader ==
  /\ Access("header")
  /\ cachedRegs' = cachedRegs \cup {inst}
  /\ Then(IF call.kind = "get" THEN "readStatus" ELSE "readControl", inst)
  /\ UNCHANGED <<valid, status>> /\ RegsUnchanged

ReadControl ==
  /\ Access("readControl")
  /\ status' = ppControl[inst]
  /\ Then("writeControl", inst)
  /\ UNCHANGED <<cachedRegs, valid>> /\ RegsUnchanged

WriteControl ==
  /\ Access("writeControl")
  /\ ppControl' = [ppControl EXCEPT ![inst] = NewControl]
  /\ Then("readStatus", inst)
  /\ UNCHANGED <<idle, wake, present, wakePolicy, peciWoken, dieMasks, cachedRegs,
                 wakeVars, call, valid, status, before, acked, unslept>>

\* The status register reports, in its error bits, whether the CPU accepted the
\* value; an error ends the loop over the instances.
ReadStatus ==
  /\ Access("readStatus")
  /\ \/ call.kind = "get" /\ Finish /\ UNCHANGED valid
     \/ /\ call.kind = "set"
        /\ valid' = valid \ {inst}
        /\ NextInstance(valid')
     \/ call.kind = "set" /\ Return("error") /\ UNCHANGED <<op, inst, valid>>
  /\ UNCHANGED <<cachedRegs, status>> /\ RegsUnchanged

-----------------------------------------------------------------------------
Wake == ReadDieMask \/ WakeWriteOk \/ WakeWriteTimeout \/ WakeWriteError

Mmio ==
  \/ Unavailable \/ AccessFailed
  \/ Probe \/ ReadHeader \/ ReadControl \/ WriteControl \/ ReadStatus

Caller ==
  \/ \E policy \in {"wakeAllowed", "dontWake"} : Create(policy)
  \/ currentLevel \/ (\E level \in Levels : setCurrentLevel(level))
  \/ Destroy

Next == Wake \/ Mmio \/ Caller \/ IdleChange

Spec == Init /\ [][Next]_vars

\* A PECI transaction ends, with an answer or a time-out.
FairSpec == Spec /\ WF_vars(Wake \/ Mmio)

-----------------------------------------------------------------------------
(* Properties *)

\* The type of every variable.
TypeOK ==
  /\ idle \in BOOLEAN /\ wake \in [Domains -> BOOLEAN]
  /\ present \subseteq Instance
  /\ ppControl \in [Instance -> PpControl] /\ before \in [Instance -> PpControl]
  /\ pc \in {"none", "idle", "mmio", "retry", "mask", "wake"}
  /\ wakePolicy \in {"wakeAllowed", "dontWake"}
  /\ peciWoken \in BOOLEAN /\ dieMasks \in BOOLEAN /\ enable \in BOOLEAN
  /\ cachedRegs \subseteq Instance /\ valid \subseteq Instance
  /\ todo \subseteq Domains /\ (pc = "wake" => todo # {})
  /\ tries \in 0..MaxTries
  /\ call \in [kind : {"get", "set"}, level : Levels]
  /\ op \in {"probe", "header", "readControl", "writeControl", "readStatus"}
  /\ inst \in Instance /\ status \in PpControl
  /\ outcome \in {"ok", "error"}
  /\ acked \subseteq Domains /\ unslept \in BOOLEAN

\* A domain that acknowledged its wake-up is never forgotten: as long as the
\* object lives the flag stays set, so the destructor will put it back, even
\* when the wake-up of a later domain failed and the method threw.
WokenIsFlagged == pc # "none" /\ acked # {} => peciWoken

\* When the object is gone, a domain that had acknowledged its wake-up is still
\* awake only if one of the destructor's own transactions failed.
DestroyedAsleep == pc = "none" /\ acked # {} => unslept

\* An object that may not wake the CPU never sets a Wake-on-PECI bit.
DontWakeRespected == [][wakePolicy = "dontWake" => wake' = wake]_vars

\* A method that set the level without an error set it on every instance that
\* exists; one that threw left the instances it had not reached alone; neither
\* touches the other fields of the register.
SetAllInstances ==
  pc \notin {"none", "idle"} \/ call.kind = "get" \/
    /\ outcome = "ok" => \A i \in present : ppControl[i].level = call.level
    /\ \A i, j \in present : i < j /\ ppControl[j] # before[j] =>
         ppControl[i].level = call.level
    /\ \A i \in Instance : /\ ppControl[i].other = before[i].other
                           /\ i \notin present => ppControl[i] = before[i]

\* Every method and every destructor ends: time-outs are retried a bounded
\* number of times and an access is repeated once.
MethodsEnd == []<>(pc \in {"none", "idle"})

=============================================================================
