---------------------------- MODULE SstPeciProofs ----------------------------
(***************************************************************************)
(* The wake-up bookkeeping and the set loop of SstPeci for any set of dies, *)
(* any number of instances and retries, and any register contents.         *)
(***************************************************************************)
EXTENDS SstPeci, WellFoundedInduction, TLAPS

-----------------------------------------------------------------------------
(* The dies and the instances are visited from the lowest on. *)

\* A set of numbers that is not empty has a least element.
LEMMA Least ==
  ASSUME NEW S \in SUBSET Nat, S # {}
  PROVE  \E x \in S : \A y \in S : x <= y
<1>1. PICK x \in S : \A y \in S : ~(<<y, x>> \in OpToRel(<, Nat))
  BY NatLessThanWellFounded, WFMin, Zenon
<1>2. \A y \in S : y < x => <<y, x>> \in {ss \in Nat \X Nat : ss[1] < ss[2]}
  OBVIOUS
<1>3. \A y \in S : ~(y < x)
  BY <1>1, <1>2, Zenon DEF OpToRel
<1> QED BY <1>3

LEMMA LowestIsLeast ==
  ASSUME NEW S \in SUBSET Nat, S # {}
  PROVE  Lowest(S) \in S /\ \A y \in S : Lowest(S) <= y
<1>1. \E x \in S : \A y \in S : x <= y
  BY Least
<1> QED BY <1>1, Zenon DEF Lowest

-----------------------------------------------------------------------------
(* Types *)

\* TypeOK, and the loop over the dies has some left as soon as it is entered.
TypeInv == TypeOK /\ (pc \in {"mask", "wake"} => todo # {})

\* The Boolean variables, and the others: the provers want them apart.
Booleans ==
  /\ idle \in BOOLEAN /\ peciWoken \in BOOLEAN /\ dieMasks \in BOOLEAN
  /\ enable \in BOOLEAN /\ unslept \in BOOLEAN /\ wake \in [Domains -> BOOLEAN]

OtherTypes ==
  /\ present \subseteq Instance
  /\ ppControl \in [Instance -> PpControl] /\ before \in [Instance -> PpControl]
  /\ pc \in {"none", "idle", "mmio", "retry", "mask", "wake"}
  /\ wakePolicy \in {"wakeAllowed", "dontWake"}
  /\ cachedRegs \subseteq Instance /\ valid \subseteq Instance
  /\ todo \subseteq Domains /\ (pc \in {"mask", "wake"} => todo # {})
  /\ tries \in 0..MaxTries
  /\ call \in [kind : {"get", "set"}, level : Levels]
  /\ op \in {"probe", "header", "readControl", "writeControl", "readStatus"}
  /\ inst \in Instance /\ status \in PpControl
  /\ outcome \in {"ok", "error"}
  /\ acked \subseteq Domains

LEMMA TypeSplit == (TypeInv <=> Booleans /\ OtherTypes)
<1>1. TypeInv => Booleans /\ OtherTypes
  BY Zenon DEF TypeInv, TypeOK, Booleans, OtherTypes
<1>2. Booleans /\ OtherTypes => TypeInv
  BY Zenon DEF TypeInv, TypeOK, Booleans, OtherTypes
<1> QED BY <1>1, <1>2

LEMMA InitType == Init => Booleans /\ OtherTypes
<1> SUFFICES ASSUME Init PROVE Booleans /\ OtherTypes
  OBVIOUS
<1>1. 0 \in Instance /\ ppControl[0] \in PpControl
  BY SstAssumption DEF Init, Instance
<1>2. call.level \in Levels
  <2>1. ppControl[0].level \in Levels
    BY <1>1 DEF PpControl
  <2> QED BY <2>1 DEF Init
<1>3. Booleans
  BY DEF Init, Booleans
<1>4. OtherTypes
  BY <1>1, <1>2, SstAssumption DEF Init, OtherTypes
<1> QED BY <1>3, <1>4

LEMMA WakeType == Booleans /\ OtherTypes /\ Wake => (Booleans /\ OtherTypes)'
<1> SUFFICES ASSUME Booleans, OtherTypes, Wake PROVE Booleans' /\ OtherTypes'
  OBVIOUS
<1>1. CASE ReadDieMask
  <2>1. Booleans'
    BY <1>1 DEF ReadDieMask, WakeThrow, cpuVars, wakeVars, Booleans
  <2>2. OtherTypes'
    BY <1>1 DEF ReadDieMask, WakeThrow, cpuVars, wakeVars, OtherTypes
  <2> QED BY <2>1, <2>2
<1>2. ASSUME pc = "wake" PROVE Lowest(todo) \in todo /\ Lowest(todo) \in Domains
  BY <1>2, LowestIsLeast, SstAssumption DEF OtherTypes
<1>3. CASE WakeWriteOk
  <2>1. Booleans'
    BY <1>2, <1>3 DEF WakeWriteOk, WakeFlag, Booleans
  <2>2. acked' \subseteq Domains /\ todo' \subseteq Domains /\ tries' \in 0..MaxTries
    <3>1. Lowest(todo) \in Domains
      BY <1>2, <1>3 DEF WakeWriteOk
    <3>2. acked' \subseteq acked \cup {Lowest(todo)} /\ todo' \subseteq todo /\ tries' = 0
      BY <1>3, Zenon DEF WakeWriteOk
    <3> QED BY <3>1, <3>2, SstAssumption DEF OtherTypes
  <2>3. /\ pc' \in {"wake", "retry", "none"} /\ (pc' = "wake" => todo' # {})
    BY <1>3 DEF WakeWriteOk
  <2>4. UNCHANGED <<present, ppControl, before, wakePolicy, cachedRegs, valid, call, op,
                    inst, status, outcome>>
    BY <1>3 DEF WakeWriteOk, callVars
  <2>5. OtherTypes'
    BY <2>2, <2>3, <2>4 DEF OtherTypes
  <2> QED BY <2>1, <2>5
<1>4. CASE WakeWriteTimeout
  <2>1. Booleans'
    BY <1>2, <1>4 DEF WakeWriteTimeout, WakeThrow, Booleans
  <2>2. OtherTypes'
    BY <1>2, <1>4, SstAssumption DEF WakeWriteTimeout, Retry, WakeThrow, OtherTypes
  <2> QED BY <2>1, <2>2
<1>5. CASE WakeWriteError
  <2>1. Booleans'
    BY <1>5 DEF WakeWriteError, WakeThrow, cpuVars, wakeVars, Booleans
  <2>2. OtherTypes'
    BY <1>5 DEF WakeWriteError, WakeThrow, cpuVars, wakeVars, OtherTypes
  <2> QED BY <2>1, <2>2
<1> QED BY <1>1, <1>3, <1>4, <1>5 DEF Wake

LEMMA LowestInstance ==
  ASSUME NEW left \in SUBSET Instance, left # {}
  PROVE  Lowest(left) \in left /\ Lowest(left) \in Instance /\ \A i \in left : Lowest(left) <= i
<1>1. left \in SUBSET Nat
  BY DEF Instance
<1> QED BY <1>1, LowestIsLeast

LEMMA NextInstanceType ==
  ASSUME Booleans, OtherTypes, NEW left \in SUBSET Instance, NextInstance(left)
  PROVE  /\ pc' \in {"idle", "mmio"} /\ outcome' \in {"ok", "error"}
         /\ op' \in {"probe", "header", "readControl", "writeControl", "readStatus"}
         /\ inst' \in Instance
<1>1. CASE left = {}
  BY <1>1 DEF NextInstance, Finish, Return, OtherTypes
<1>2. CASE left # {}
  BY <1>2, LowestInstance DEF NextInstance, Then, FirstAccess, OtherTypes
<1> QED BY <1>1, <1>2

LEMMA MmioType == Booleans /\ OtherTypes /\ Mmio => (Booleans /\ OtherTypes)'
<1> SUFFICES ASSUME Booleans, OtherTypes, Mmio PROVE Booleans' /\ OtherTypes'
  OBVIOUS
<1>c. NewControl \in PpControl
  BY DEF NewControl, PpControl, OtherTypes
<1>1. CASE Unavailable
  <2>1. Booleans'
    BY <1>1 DEF Unavailable, setWakeOnPECI, cpuVars, wakeVars, Booleans
  <2>2. /\ pc' \in {"retry", "wake", "mask", "idle"} /\ outcome' \in {"ok", "error"}
        /\ todo' \subseteq Domains /\ tries' \in 0..MaxTries
        /\ pc' \in {"mask", "wake"} => todo' = Domains
    <3>1. CASE setWakeOnPECI(TRUE, "retry") /\ UNCHANGED outcome
      <4>1. todo' = Domains /\ tries' = 0 /\ pc' \in {"retry", "wake", "mask"}
        BY <3>1, Zenon DEF setWakeOnPECI
      <4> QED BY <4>1, <3>1, SstAssumption DEF OtherTypes
    <3>2. CASE Return("error") /\ UNCHANGED wakeVars
      BY <3>2 DEF Return, wakeVars, OtherTypes
    <3> QED BY <1>1, <3>1, <3>2 DEF Unavailable
  <2>3. OtherTypes'
    BY <1>1, <2>2, SstAssumption DEF Unavailable, cpuVars, OtherTypes
  <2> QED BY <2>1, <2>3
<1>2. CASE AccessFailed
  <2>1. Booleans'
    BY <1>2 DEF AccessFailed, wakeVars, Booleans
  <2>2. ppControl' \in [Instance -> PpControl]
    BY <1>2, <1>c DEF AccessFailed, OtherTypes
  <2>3. OtherTypes'
    BY <1>2, <2>2 DEF AccessFailed, Return, wakeVars, OtherTypes
  <2> QED BY <2>1, <2>3
<1>3. CASE Probe
  <2>1. Booleans'
    BY <1>3 DEF Probe, RegsUnchanged, cpuVars, wakeVars, Booleans
  <2>2. valid' \in SUBSET Instance
    BY <1>3 DEF Probe, Found, OtherTypes
  <2>3. /\ pc' \in {"idle", "mmio"} /\ outcome' \in {"ok", "error"}
        /\ op' \in {"probe", "header", "readControl", "writeControl", "readStatus"}
        /\ inst' \in Instance
    <3>1. CASE MoreInstances(inst)
      BY <1>3, <3>1, SstAssumption DEF Probe, MoreInstances, Then, Instance, OtherTypes
    <3>2. CASE ~MoreInstances(inst)
      BY <1>3, <3>2, <2>2, NextInstanceType DEF Probe
    <3> QED BY <3>1, <3>2
  <2>4. OtherTypes'
    BY <1>3, <2>2, <2>3 DEF Probe, RegsUnchanged, cpuVars, wakeVars, OtherTypes
  <2> QED BY <2>1, <2>4
<1>4. CASE ReadHeader
  <2>1. Booleans'
    BY <1>4 DEF ReadHeader, RegsUnchanged, cpuVars, wakeVars, Booleans
  <2>2. OtherTypes'
    BY <1>4 DEF ReadHeader, Then, RegsUnchanged, cpuVars, wakeVars, OtherTypes
  <2> QED BY <2>1, <2>2
<1>5. CASE ReadControl
  <2>1. Booleans'
    BY <1>5 DEF ReadControl, RegsUnchanged, cpuVars, wakeVars, Booleans
  <2>2. OtherTypes'
    BY <1>5 DEF ReadControl, Then, RegsUnchanged, cpuVars, wakeVars, OtherTypes
  <2> QED BY <2>1, <2>2
<1>6. CASE WriteControl
  <2>1. Booleans'
    BY <1>6 DEF WriteControl, wakeVars, Booleans
  <2>2. ppControl' \in [Instance -> PpControl]
    BY <1>6, <1>c DEF WriteControl, OtherTypes
  <2>3. OtherTypes'
    BY <1>6, <2>2 DEF WriteControl, Then, wakeVars, OtherTypes
  <2> QED BY <2>1, <2>3
<1>7. CASE ReadStatus
  <2>1. Booleans'
    BY <1>7 DEF ReadStatus, RegsUnchanged, cpuVars, wakeVars, Booleans
  <2>2. valid' \in SUBSET Instance
    BY <1>7 DEF ReadStatus, OtherTypes
  <2>3. /\ pc' \in {"idle", "mmio"} /\ outcome' \in {"ok", "error"}
        /\ op' \in {"probe", "header", "readControl", "writeControl", "readStatus"}
        /\ inst' \in Instance
    BY <1>7, <2>2, NextInstanceType DEF ReadStatus, Finish, Return, OtherTypes
  <2>4. OtherTypes'
    BY <1>7, <2>2, <2>3 DEF ReadStatus, RegsUnchanged, cpuVars, wakeVars, OtherTypes
  <2> QED BY <2>1, <2>4
<1> QED BY <1>1, <1>2, <1>3, <1>4, <1>5, <1>6, <1>7 DEF Mmio

LEMMA CallerType == Booleans /\ OtherTypes /\ Caller => (Booleans /\ OtherTypes)'
<1> SUFFICES ASSUME Booleans, OtherTypes, Caller PROVE Booleans' /\ OtherTypes'
  OBVIOUS
<1>1. ASSUME NEW policy \in {"wakeAllowed", "dontWake"}, Create(policy)
      PROVE  Booleans' /\ OtherTypes'
  <2>1. Booleans'
    BY <1>1 DEF Create, cpuVars, wakeVars, Booleans
  <2>2. OtherTypes'
    BY <1>1 DEF Create, cpuVars, wakeVars, callVars, OtherTypes
  <2> QED BY <2>1, <2>2
<1>2. CASE currentLevel
  <2>1. Booleans'
    BY <1>2 DEF currentLevel, cpuVars, wakeVars, Booleans
  <2>2. OtherTypes'
    BY <1>2, SstAssumption DEF currentLevel, FirstAccess, cpuVars, wakeVars, Instance, OtherTypes
  <2> QED BY <2>1, <2>2
<1>3. ASSUME NEW level \in Levels, setCurrentLevel(level)
      PROVE  Booleans' /\ OtherTypes'
  <2>1. Booleans'
    BY <1>3 DEF setCurrentLevel, cpuVars, wakeVars, Booleans
  <2>2. OtherTypes'
    BY <1>3, SstAssumption DEF setCurrentLevel, cpuVars, wakeVars, Instance, OtherTypes
  <2> QED BY <2>1, <2>2
<1>4. CASE Destroy
  <2>1. Booleans'
    BY <1>4 DEF Destroy, setWakeOnPECI, cpuVars, Booleans
  <2>2. OtherTypes'
    BY <1>4, SstAssumption DEF Destroy, setWakeOnPECI, cpuVars, callVars, OtherTypes
  <2> QED BY <2>1, <2>2
<1> QED BY <1>1, <1>2, <1>3, <1>4 DEF Caller

LEMMA NextType == Booleans /\ OtherTypes /\ [Next]_vars => (Booleans /\ OtherTypes)'
<1> SUFFICES ASSUME Booleans, OtherTypes, [Next]_vars PROVE Booleans' /\ OtherTypes'
  OBVIOUS
<1>1. CASE IdleChange
  <2>1. Booleans'
    BY <1>1 DEF IdleChange, wakeVars, Booleans
  <2>2. OtherTypes'
    BY <1>1 DEF IdleChange, wakeVars, callVars, OtherTypes
  <2> QED BY <2>1, <2>2
<1>2. CASE UNCHANGED vars
  <2>1. Booleans'
    BY <1>2 DEF vars, cpuVars, wakeVars, Booleans
  <2>2. OtherTypes'
    BY <1>2 DEF vars, cpuVars, wakeVars, callVars, OtherTypes
  <2> QED BY <2>1, <2>2
<1> QED BY <1>1, <1>2, WakeType, MmioType, CallerType DEF Next

\* The type invariant, for any dies, instances and registers.
THEOREM TypeCorrect == Spec => []TypeOK
<1>1. Spec => [](Booleans /\ OtherTypes)
  BY InitType, NextType, PTL DEF Spec
<1>2. Booleans /\ OtherTypes => TypeOK
  BY TypeSplit DEF TypeInv
<1> QED BY <1>1, <1>2, PTL

-----------------------------------------------------------------------------
(***************************************************************************)
(* The wake-up bookkeeping.  While the destructor visits the dies, those   *)
(* that still count as awake are among those to be visited; an object that *)
(* may not wake the CPU never enters the loop.                             *)
(***************************************************************************)

WakeInv ==
  /\ WokenIsFlagged /\ DestroyedAsleep
  /\ pc \in {"mask", "wake"} /\ ~enable => acked \subseteq todo
  /\ wakePolicy = "dontWake" => ~peciWoken /\ pc \notin {"mask", "wake"}

LEMMA InitWake == Init => WakeInv
BY DEF Init, WakeInv, WokenIsFlagged, DestroyedAsleep

LEMMA WakeWake == Booleans /\ OtherTypes /\ WakeInv /\ Wake => WakeInv'
<1> SUFFICES ASSUME Booleans, OtherTypes, WakeInv, Wake PROVE WakeInv'
  OBVIOUS
<1> USE DEF WakeInv, WokenIsFlagged, DestroyedAsleep
<1>1. CASE ReadDieMask
  BY <1>1 DEF ReadDieMask, WakeThrow, wakeVars, Booleans
<1>2. CASE WakeWriteOk
  <2>1. pc = "wake" /\ wakePolicy' = "wakeAllowed" /\ enable' = enable
    BY <1>2 DEF WakeWriteOk, OtherTypes
  <2>2. CASE enable
    BY <1>2, <2>1, <2>2 DEF WakeWriteOk, WakeFlag, Booleans
  <2>3. CASE ~enable
    <3>1. acked' \subseteq todo' /\ (todo' = {} => pc' = "none")
      BY <1>2, <2>1, <2>3 DEF WakeWriteOk
    <3>2. todo' # {} => pc' = "wake" /\ peciWoken' = peciWoken
      BY <1>2, <2>1, <2>3, Zenon DEF WakeWriteOk, WakeFlag, Booleans
    <3>3. acked' \subseteq acked
      BY <1>2, <2>3 DEF WakeWriteOk
    <3>4. CASE todo' = {}
      BY <3>1, <3>4, <2>1, <2>3
    <3>5. CASE todo' # {}
      BY <3>1, <3>2, <3>3, <3>5, <2>1, <2>3
    <3> QED BY <3>4, <3>5
  <2> QED BY <2>2, <2>3
<1>3. CASE WakeWriteTimeout
  BY <1>3 DEF WakeWriteTimeout, WakeThrow, Booleans
<1>4. CASE WakeWriteError
  BY <1>4 DEF WakeWriteError, WakeThrow, wakeVars, Booleans
<1> QED BY <1>1, <1>2, <1>3, <1>4 DEF Wake

\* An access leaves the flag and the history alone; only one that is allowed to
\* wakes the dies.
LEMMA MmioEffect ==
  ASSUME Mmio
  PROVE  /\ pc \in {"mmio", "retry"} /\ pc' \in {"idle", "mmio", "retry", "mask", "wake"}
         /\ UNCHANGED <<wake, wakePolicy, peciWoken, acked, unslept>>
         /\ pc' \in {"mask", "wake"} => enable' = TRUE /\ wakePolicy = "wakeAllowed"
<1>1. CASE Unavailable
  BY <1>1 DEF Unavailable, WakeUnavailable, setWakeOnPECI, Return, cpuVars
<1>2. CASE AccessFailed
  BY <1>2 DEF AccessFailed, Return
<1>3. ASSUME NEW left, NextInstance(left) PROVE pc' \in {"idle", "mmio"}
  BY <1>3 DEF NextInstance, Finish, Then, Return
<1>4. CASE Probe
  BY <1>3, <1>4 DEF Probe, Access, Then, RegsUnchanged, cpuVars
<1>5. CASE ReadHeader
  BY <1>5 DEF ReadHeader, Access, Then, RegsUnchanged, cpuVars
<1>6. CASE ReadControl
  BY <1>6 DEF ReadControl, Access, Then, RegsUnchanged, cpuVars
<1>7. CASE WriteControl
  BY <1>7 DEF WriteControl, Access, Then
<1>8. CASE ReadStatus
  BY <1>3, <1>8 DEF ReadStatus, Access, Finish, Return, RegsUnchanged, cpuVars
<1> QED BY <1>1, <1>2, <1>4, <1>5, <1>6, <1>7, <1>8 DEF Mmio

LEMMA MmioWake == WakeInv /\ Mmio => WakeInv'
BY MmioEffect DEF WakeInv, WokenIsFlagged, DestroyedAsleep

LEMMA CallerWake == Booleans /\ OtherTypes /\ WakeInv /\ Caller => WakeInv'
<1> SUFFICES ASSUME Booleans, OtherTypes, WakeInv, Caller PROVE WakeInv'
  OBVIOUS
<1> USE DEF WakeInv, WokenIsFlagged, DestroyedAsleep
<1>1. ASSUME NEW policy \in {"wakeAllowed", "dontWake"}, Create(policy) PROVE WakeInv'
  BY <1>1 DEF Create
<1>2. CASE currentLevel
  BY <1>2 DEF currentLevel, wakeVars
<1>3. ASSUME NEW level \in Levels, setCurrentLevel(level) PROVE WakeInv'
  BY <1>3 DEF setCurrentLevel, wakeVars
<1>4. CASE Destroy
  BY <1>4 DEF Destroy, setWakeOnPECI, Booleans, OtherTypes
<1> QED BY <1>1, <1>2, <1>3, <1>4 DEF Caller

LEMMA NextWake == Booleans /\ OtherTypes /\ WakeInv /\ [Next]_vars => WakeInv'
<1> SUFFICES ASSUME Booleans, OtherTypes, WakeInv, [Next]_vars PROVE WakeInv'
  OBVIOUS
<1>1. CASE IdleChange
  BY <1>1 DEF IdleChange, wakeVars, WakeInv, WokenIsFlagged, DestroyedAsleep
<1>2. CASE UNCHANGED vars
  BY <1>2 DEF vars, wakeVars, WakeInv, WokenIsFlagged, DestroyedAsleep
<1> QED BY <1>1, <1>2, WakeWake, MmioWake, CallerWake DEF Next

LEMMA WakeInvariant == Spec => [](Booleans /\ OtherTypes /\ WakeInv)
BY InitType, NextType, InitWake, NextWake, PTL DEF Spec

\* A domain that acknowledged its wake-up is never forgotten by the flag.
THEOREM WokenIsAlwaysFlagged == Spec => []WokenIsFlagged
<1>1. WakeInv => WokenIsFlagged
  BY DEF WakeInv
<1> QED BY <1>1, WakeInvariant, PTL

\* The destructor puts every domain that had acknowledged back to sleep, unless one
\* of its own transactions fails.
THEOREM DestroyedAlwaysAsleep == Spec => []DestroyedAsleep
<1>1. WakeInv => DestroyedAsleep
  BY DEF WakeInv
<1> QED BY <1>1, WakeInvariant, PTL

\* An object that may not wake the CPU never writes a Wake-on-PECI bit, in its
\* destructor neither.
THEOREM DontWakeAlwaysRespected == Spec => DontWakeRespected
<1>1. WakeInv /\ [Next]_vars => [wakePolicy = "dontWake" => wake' = wake]_vars
  <2> SUFFICES ASSUME WakeInv, Next, wakePolicy = "dontWake" PROVE wake' = wake
    OBVIOUS
  <2>1. pc \notin {"mask", "wake"}
    BY DEF WakeInv
  <2>2. CASE Wake
    BY <2>1, <2>2 DEF Wake, ReadDieMask, WakeWriteOk, WakeWriteTimeout, WakeWriteError
  <2>3. CASE Mmio
    BY <2>3, MmioEffect
  <2>4. CASE Caller
    BY <2>4 DEF Caller, Create, currentLevel, setCurrentLevel, Destroy, cpuVars
  <2>5. CASE IdleChange
    BY <2>5 DEF IdleChange
  <2> QED BY <2>2, <2>3, <2>4, <2>5 DEF Next
<1> QED BY <1>1, WakeInvariant, PTL DEF Spec, DontWakeRespected

-----------------------------------------------------------------------------
(***************************************************************************)
(* The set loop.  Instances are passed in ascending order: those below     *)
(* inst that exist have the new level, those above are as they were, and   *)
(* inst is as far as the access in progress says.                          *)
(***************************************************************************)

\* A method is under way, its wake-up included; else the object rests, or is
\* being destroyed.
InCall == pc \in {"mmio", "retry"} \/ (pc \in {"mask", "wake"} /\ enable)

OthersKept ==
  \A i \in Instance : /\ ppControl[i].other = before[i].other
                      /\ i \notin present => ppControl[i] = before[i]

\* validInstances has looked at the instances below inst.
ProbeInv == ppControl = before /\ \A i \in Instance : i \in valid <=> i \in present /\ i < inst

\* Where the loop over the valid instances is.
LoopInv ==
  /\ inst \in valid /\ valid \subseteq present
  /\ \A i \in valid : inst <= i /\ (i # inst => ppControl[i] = before[i])
  /\ \A i \in present \ valid : i < inst /\ ppControl[i].level = call.level
  /\ op \in {"header", "readControl", "writeControl"} => ppControl[inst] = before[inst]
  /\ op = "writeControl" => status = ppControl[inst]
  /\ op = "readStatus" => ppControl[inst].level = call.level

\* What the finished method leaves behind.
SetDone ==
  /\ outcome = "ok" => \A i \in present : ppControl[i].level = call.level
  /\ \A i, j \in present : i < j /\ ppControl[j] # before[j] =>
       ppControl[i].level = call.level

SetInv ==
  call.kind = "set" =>
    /\ OthersKept
    /\ InCall /\ op = "probe" => ProbeInv
    /\ InCall /\ op # "probe" => LoopInv
    /\ ~InCall => SetDone

LEMMA InitSet == Init => SetInv
BY DEF Init, SetInv

\* Wherever the loop stops, whatever its last access did to the register of inst,
\* an instance that was reached has only written ones before it.
LEMMA LoopEnds ==
  ASSUME OtherTypes, LoopInv,
         NEW control, \A i \in present : i # inst => control[i] = ppControl[i]
  PROVE  \A i, j \in present : i < j /\ control[j] # before[j] =>
           control[i].level = call.level
<1> SUFFICES ASSUME NEW i \in present, NEW j \in present, i < j, control[j] # before[j]
             PROVE  control[i].level = call.level
  OBVIOUS
<1>1. i \in Nat /\ j \in Nat /\ inst \in Nat
  BY DEF OtherTypes, Instance
<1>2. CASE i \notin valid
  <2>1. i < inst /\ ppControl[i].level = call.level
    BY <1>2 DEF LoopInv
  <2> QED BY <1>1, <2>1
<1>3. CASE i \in valid
  <2>1. inst <= i
    BY <1>3 DEF LoopInv
  <2>2. inst < j
    BY <1>1, <2>1
  <2>3. j \in valid
    BY <1>1, <2>2 DEF LoopInv
  <2>4. j # inst
    BY <1>1, <2>2
  <2>5. ppControl[j] = before[j] /\ control[j] = ppControl[j]
    BY <2>3, <2>4 DEF LoopInv
  <2> QED BY <2>5
<1> QED BY <1>2, <1>3

\* The registers and the method are as they were: only the rest may have changed.
LEMMA SetUnchanged ==
  ASSUME SetInv, InCall' <=> InCall,
         UNCHANGED <<present, ppControl, before, call, op, inst, valid, status, outcome>>
  PROVE  SetInv'
BY DEF SetInv, OthersKept, ProbeInv, LoopInv, SetDone

\* A method that throws, while the registers are as they were.
LEMMA SetThrown ==
  ASSUME Booleans, OtherTypes, SetInv, InCall, ~InCall', outcome' = "error",
         UNCHANGED <<present, ppControl, before, call>>
  PROVE  SetInv'
<1> SUFFICES ASSUME call.kind = "set" PROVE OthersKept' /\ SetDone'
  BY DEF SetInv
<1>1. OthersKept'
  BY DEF SetInv, OthersKept
<1>2. CASE op = "probe"
  BY <1>1, <1>2 DEF SetInv, ProbeInv, SetDone
<1>3. CASE op # "probe"
  <2>1. \A i, j \in present : i < j /\ ppControl[j] # before[j] =>
          ppControl[i].level = call.level
    BY <1>3, LoopEnds DEF SetInv
  <2> QED BY <1>1, <2>1 DEF SetDone
<1> QED BY <1>1, <1>2, <1>3

LEMMA WakeSet == Booleans /\ OtherTypes /\ SetInv /\ Wake => SetInv'
<1> SUFFICES ASSUME Booleans, OtherTypes, SetInv, Wake PROVE SetInv'
  OBVIOUS
<1>1. /\ pc \in {"mask", "wake"}
      /\ UNCHANGED <<present, ppControl, before, call, op, inst, valid, status, enable>>
  BY DEF Wake, ReadDieMask, WakeWriteOk, WakeWriteTimeout, WakeWriteError, callVars,
         cpuVars, wakeVars
<1>2. CASE enable
  <2>1. \/ pc' \in {"mask", "wake", "retry"} /\ UNCHANGED outcome
        \/ pc' = "idle" /\ outcome' = "error"
    BY <1>1, <1>2 DEF Wake, ReadDieMask, WakeWriteOk, WakeWriteTimeout, WakeWriteError,
       WakeThrow, callVars, Booleans
  <2> QED BY <1>1, <1>2, <2>1, SetUnchanged, SetThrown DEF InCall
<1>3. CASE ~enable
  <2>1. pc' \in {"mask", "wake", "none"} /\ UNCHANGED outcome
    BY <1>1, <1>3 DEF Wake, ReadDieMask, WakeWriteOk, WakeWriteTimeout, WakeWriteError,
       WakeThrow, callVars, Booleans
  <2> QED BY <1>1, <1>3, <2>1, SetUnchanged DEF InCall
<1> QED BY <1>2, <1>3

LEMMA CallerSet == Booleans /\ OtherTypes /\ SetInv /\ Caller => SetInv'
<1> SUFFICES ASSUME Booleans, OtherTypes, SetInv, Caller PROVE SetInv'
  OBVIOUS
<1>1. ASSUME NEW policy \in {"wakeAllowed", "dontWake"}, Create(policy) PROVE SetInv'
  BY <1>1, SetUnchanged DEF Create, InCall, cpuVars, callVars
<1>2. CASE currentLevel
  BY <1>2 DEF currentLevel, SetInv
<1>3. ASSUME NEW level \in Levels, setCurrentLevel(level) PROVE SetInv'
  <2>1. /\ ppControl' = ppControl /\ before' = ppControl /\ op' = "probe" /\ inst' = 0
        /\ valid' = {} /\ InCall'
    BY <1>3 DEF setCurrentLevel, InCall, cpuVars
  <2>2. ProbeInv'
    BY <2>1 DEF ProbeInv, Instance
  <2> QED BY <2>1, <2>2 DEF SetInv, OthersKept
<1>4. CASE Destroy
  <2>1. ~InCall
    BY <1>4 DEF Destroy, InCall
  <2>2. pc' \in {"none", "mask", "wake"} /\ ~enable'
    BY <1>4, Zenon DEF Destroy, setWakeOnPECI
  <2>3. UNCHANGED <<present, ppControl, before, call, op, inst, valid, status, outcome>>
    BY <1>4 DEF Destroy, cpuVars, callVars
  <2>4. ~InCall'
    BY <2>2 DEF InCall
  <2> QED BY <2>1, <2>3, <2>4, SetUnchanged
<1> QED BY <1>1, <1>2, <1>3, <1>4 DEF Caller

\* The loop goes on with the lowest instance that is left, or ends.
LEMMA LoopGoesOn ==
  ASSUME Booleans, OtherTypes, call.kind = "set", OthersKept,
         NEW left \in SUBSET present, valid' = left, NextInstance(left),
         UNCHANGED <<present, ppControl, before, call, status>>,
         \A i \in left : ppControl[i] = before[i],
         \A i \in present \ left : ppControl[i].level = call.level,
         \A i \in left, j \in present \ left : j < i
  PROVE  SetInv'
<1>1. present \subseteq Instance /\ left \in SUBSET Instance
  BY DEF OtherTypes
<1>2. OthersKept'
  BY DEF OthersKept
<1>3. CASE left = {}
  <2>1. ~InCall' /\ outcome' = "ok"
    BY <1>3 DEF NextInstance, Finish, Return, InCall
  <2>2. SetDone'
    BY <1>3 DEF SetDone
  <2> QED BY <1>2, <2>1, <2>2 DEF SetInv
<1>4. CASE left # {}
  <2>1. /\ InCall' /\ op' \in {"header", "readControl"} /\ inst' = Lowest(left)
    BY <1>4 DEF NextInstance, Then, FirstAccess, InCall
  <2>2. inst' \in left /\ \A i \in left : inst' <= i
    BY <1>1, <1>4, <2>1, LowestInstance
  <2>3. LoopInv'
    BY <2>1, <2>2 DEF LoopInv
  <2> QED BY <1>2, <2>1, <2>3 DEF SetInv
<1> QED BY <1>3, <1>4

\* The write changes the level of inst and nothing else.
LEMMA WriteEffect ==
  ASSUME OtherTypes, OthersKept, LoopInv, op = "writeControl",
         UNCHANGED <<present, before, call, inst>>,
         ppControl' = [ppControl EXCEPT ![inst] = NewControl]
  PROVE  /\ OthersKept' /\ ppControl'[inst].level = call.level
         /\ \A i \in Instance : i # inst => ppControl'[i] = ppControl[i]
<1>1. inst \in Instance /\ inst \in present /\ status = ppControl[inst]
  BY DEF OtherTypes, LoopInv
<1>2. status \in PpControl /\ ppControl \in [Instance -> PpControl]
  BY DEF OtherTypes
<1>3. NewControl.level = call.level /\ NewControl.other = status.other
  BY <1>2 DEF NewControl, PpControl
<1>4. ppControl'[inst] = NewControl /\ \A i \in Instance : i # inst => ppControl'[i] = ppControl[i]
  BY <1>1, <1>2
<1>5. OthersKept'
  BY <1>1, <1>3, <1>4 DEF OthersKept
<1> QED BY <1>3, <1>4, <1>5

LEMMA MmioSet == Booleans /\ OtherTypes /\ SetInv /\ Mmio => SetInv'
<1> SUFFICES ASSUME Booleans, OtherTypes, SetInv, Mmio PROVE SetInv'
  OBVIOUS
<1> USE DEF InCall
<1>p. InCall
  BY MmioEffect
<1>1. CASE Unavailable
  <2>1. UNCHANGED <<present, ppControl, before, call, op, inst, valid, status>>
    BY <1>1 DEF Unavailable, cpuVars
  <2>2. \/ InCall' /\ UNCHANGED outcome
        \/ ~InCall' /\ outcome' = "error"
    BY <1>1, Zenon DEF Unavailable, setWakeOnPECI, Return
  <2> QED BY <1>p, <2>1, <2>2, SetUnchanged, SetThrown
<1>s. SUFFICES ASSUME call.kind = "set" PROVE SetInv'
  <2>1. call' = call \/ Unavailable
    BY DEF Mmio, AccessFailed, Probe, ReadHeader, ReadControl, WriteControl, ReadStatus, RegsUnchanged
  <2> QED BY <2>1, <1>1 DEF SetInv
<1>2. CASE AccessFailed
  <2>1. /\ UNCHANGED <<present, before, call, op, inst, valid, status>> /\ ~InCall'
        /\ outcome' = "error"
    BY <1>2 DEF AccessFailed, Return
  <2>2. CASE ppControl' = ppControl
    BY <1>p, <2>1, <2>2, SetThrown
  <2>3. CASE op = "writeControl" /\ ppControl' = [ppControl EXCEPT ![inst] = NewControl]
    <3>1. OthersKept /\ LoopInv
      BY <1>p, <1>s, <2>3 DEF SetInv
    <3>2. OthersKept' /\ \A i \in present : i # inst => ppControl'[i] = ppControl[i]
      BY <2>1, <2>3, <3>1, WriteEffect DEF OtherTypes
    <3>3. SetDone'
      BY <2>1, <3>1, <3>2, LoopEnds DEF SetDone
    <3> QED BY <2>1, <3>2, <3>3 DEF SetInv
  <2> QED BY <1>2, <2>2, <2>3 DEF AccessFailed
<1>k. OthersKept
  BY <1>s DEF SetInv
<1>3. CASE Probe
  <2>1. /\ op = "probe" /\ valid' = valid \cup ({inst} \cap present)
        /\ UNCHANGED <<present, ppControl, before, call, status>>
    BY <1>3 DEF Probe, Access, Found, RegsUnchanged, cpuVars
  <2>2. ppControl = before /\ \A i \in Instance : i \in valid <=> i \in present /\ i < inst
    BY <1>p, <1>s, <2>1 DEF SetInv, ProbeInv
  <2>3. inst \in Instance /\ Instances \in Nat /\ valid \in SUBSET Instance
        /\ present \in SUBSET Instance
    BY SstAssumption DEF OtherTypes
  <2>4. \A i \in Instance : i \in valid' <=> i \in present /\ i <= inst
    BY <2>1, <2>2, <2>3 DEF Instance
  <2>5. CASE MoreInstances(inst)
    <3>1. op' = "probe" /\ inst' = inst + 1 /\ InCall'
      BY <1>3, <2>5 DEF Probe, Then
    <3>2. \A i \in Instance : i <= inst <=> i < inst + 1
      BY <2>3 DEF Instance
    <3>3. ProbeInv'
      BY <2>1, <2>2, <2>4, <3>1, <3>2 DEF ProbeInv
    <3> QED BY <1>k, <2>1, <3>1, <3>3 DEF SetInv, OthersKept
  <2>6. CASE ~MoreInstances(inst)
    <3>1. \A i \in Instance : i <= inst
      BY <2>3, <2>6 DEF MoreInstances, Instance
    <3>2. valid' = present
      BY <2>1, <2>3, <2>4, <3>1
    <3>3. NextInstance(present)
      BY <1>3, <2>6, <3>2 DEF Probe
    <3> QED BY <1>k, <1>s, <2>1, <2>2, <2>3, <3>2, <3>3, LoopGoesOn
  <2> QED BY <2>5, <2>6
<1>l. op # "probe" => LoopInv
  BY <1>p, <1>s DEF SetInv
<1>4. CASE ReadHeader
  <2>1. /\ op = "header" /\ op' = "readControl" /\ InCall'
        /\ UNCHANGED <<present, ppControl, before, call, inst, valid, status>>
    BY <1>4, <1>s DEF ReadHeader, Access, Then, RegsUnchanged, cpuVars
  <2>2. LoopInv'
    BY <1>l, <2>1 DEF LoopInv
  <2> QED BY <1>k, <2>1, <2>2 DEF SetInv, OthersKept
<1>5. CASE ReadControl
  <2>1. /\ op = "readControl" /\ op' = "writeControl" /\ InCall' /\ status' = ppControl[inst]
        /\ UNCHANGED <<present, ppControl, before, call, inst, valid>>
    BY <1>5 DEF ReadControl, Access, Then, RegsUnchanged, cpuVars
  <2>2. LoopInv'
    BY <1>l, <2>1 DEF LoopInv
  <2> QED BY <1>k, <2>1, <2>2 DEF SetInv, OthersKept
<1>6. CASE WriteControl
  <2>1. /\ op = "writeControl" /\ op' = "readStatus" /\ InCall'
        /\ ppControl' = [ppControl EXCEPT ![inst] = NewControl]
        /\ UNCHANGED <<present, before, call, inst, valid, status>>
    BY <1>6 DEF WriteControl, Access, Then
  <2>2. /\ OthersKept' /\ ppControl'[inst].level = call.level
        /\ \A i \in Instance : i # inst => ppControl'[i] = ppControl[i]
    BY <1>k, <1>l, <2>1, WriteEffect
  <2>3. valid \subseteq Instance /\ present \subseteq Instance /\ inst \in Instance
    BY DEF OtherTypes
  <2>4. \A i \in present \ valid : i # inst
    BY <1>l, <2>1 DEF LoopInv
  <2>5. LoopInv'
    BY <1>l, <2>1, <2>2, <2>3, <2>4 DEF LoopInv
  <2> QED BY <2>1, <2>2, <2>5 DEF SetInv
<1>7. CASE ReadStatus
  <2>1. op = "readStatus" /\ UNCHANGED <<present, ppControl, before, call, status>>
    BY <1>7 DEF ReadStatus, Access, RegsUnchanged, cpuVars
  <2>2. CASE valid' = valid \ {inst} /\ NextInstance(valid')
    <3> DEFINE left == valid \ {inst}
    <3>1. left \in SUBSET present /\ \A i \in left : ppControl[i] = before[i]
      BY <1>l, <2>1 DEF LoopInv
    <3>2. \A i \in present \ left : i <= inst /\ ppControl[i].level = call.level
      BY <1>l, <2>1 DEF LoopInv, OtherTypes, Instance
    <3>3. \A i \in left : inst < i
      BY <1>l, <2>1 DEF LoopInv, OtherTypes, Instance
    <3>4. present \subseteq Nat /\ inst \in Nat
      BY DEF OtherTypes, Instance
    <3>5. ASSUME NEW i \in left, NEW j \in present \ left PROVE j < i
      <4>1. i \in Nat /\ j \in Nat
        BY <3>1, <3>4
      <4>2. inst < i /\ j <= inst
        BY <3>2, <3>3
      <4> QED BY <3>4, <4>1, <4>2
    <3>6. valid' = left /\ NextInstance(left)
      BY <2>2
    <3> HIDE DEF left
    <3> QED BY <1>k, <1>s, <2>1, <3>1, <3>2, <3>5, <3>6, LoopGoesOn
  <2>3. CASE Return("error")
    BY <1>p, <2>1, <2>3, SetThrown DEF Return
  <2> QED BY <1>7, <1>s, <2>2, <2>3 DEF ReadStatus
<1> QED BY <1>1, <1>2, <1>3, <1>4, <1>5, <1>6, <1>7 DEF Mmio

LEMMA NextSet == Booleans /\ OtherTypes /\ SetInv /\ [Next]_vars => SetInv'
<1> SUFFICES ASSUME Booleans, OtherTypes, SetInv, [Next]_vars PROVE SetInv'
  OBVIOUS
<1>1. CASE IdleChange
  BY <1>1, SetUnchanged DEF IdleChange, InCall, wakeVars, callVars
<1>2. CASE UNCHANGED vars
  BY <1>2, SetUnchanged DEF vars, InCall, cpuVars, wakeVars, callVars
<1> QED BY <1>1, <1>2, WakeSet, MmioSet, CallerSet DEF Next

\* A set method that ended well reached every instance that exists; one that threw
\* stopped at an instance before which all are written and after which none is; the
\* other fields of the register are never touched.
THEOREM SetReachesAllInstances == Spec => []SetAllInstances
<1>1. Booleans /\ OtherTypes /\ SetInv => SetAllInstances
  <2> SUFFICES ASSUME Booleans, OtherTypes, SetInv, pc \in {"none", "idle"}, call.kind # "get"
               PROVE  SetDone /\ OthersKept
    BY DEF SetAllInstances, SetDone, OthersKept
  <2>1. call.kind = "set" /\ ~InCall
    BY DEF OtherTypes, InCall
  <2> QED BY <2>1 DEF SetInv
<1> QED BY <1>1, InitType, NextType, InitSet, NextSet, PTL DEF Spec

=============================================================================
