--------------------------- MODULE NvOverlayProofs ---------------------------
(***************************************************************************)
(* The safety properties of NvOverlay for any contents and any number of   *)
(* writes, requests, power cuts and faults.  NvInv, inductive together     *)
(* with TypeOK, follows every file through a boot, a clean and a copy;     *)
(* AskInv follows a request for a restore, and StopInv the last copy of    *)
(* nv-syncd.                                                               *)
(***************************************************************************)
EXTENDS NvOverlay, TLAPS

LEMMA FilesFacts == UserFiles \subseteq Files /\ IdFiles \subseteq Files \ UserFiles
BY DEF Files, UserFiles, IdFiles

LEMMA AffectedType == \A n : Affected(n) \subseteq UserFiles
BY DEF Affected, UserFiles

LEMMA WithoutType ==
  ASSUME NEW tree \in [Files -> Nat], NEW S
  PROVE  Without(tree, S) \in [Files -> Nat]
BY DEF Without

LEMMA RemoveOneType ==
  ASSUME NEW tree \in [Files -> Nat], NEW f \in Files
  PROVE  [tree EXCEPT ![f] = 0] \in [Files -> Nat]
OBVIOUS

LEMMA RemnantsType ==
  ASSUME ids \in Nat, NEW f
  PROVE  Remnants(f) \subseteq Nat
BY NvAssumption DEF Remnants

LEMMA MaskType ==
  ASSUME NEW n \in {NoFlag, 16} \cup 0..3, n # NoFlag
  PROVE  restore_op(n) \in 0..3
BY DEF restore_op, NoFlag

\* The Boolean variables, and the others: the provers want them apart.
Booleans ==
  /\ bad \in BOOLEAN /\ rw \in BOOLEAN /\ ubenv \in BOOLEAN /\ term \in BOOLEAN
  /\ due \in BOOLEAN /\ failed \in BOOLEAN /\ refused \in BOOLEAN

OtherTypes ==
  /\ pc \in {"off", "mount", "flag", "mark", "marking", "clean", "erase", "erasing",
             "clearUbenv", "unflag", "restore", "machineId", "running"}
  /\ nv \in [Files -> Nat] /\ ram \in [Files -> Nat]
  /\ flag \in {NoFlag, 16} \cup 0..3 /\ op \in 0..3
  /\ syncd \in {"off", "copy", "sleep", "final", "stopped"}
  /\ todo \subseteq Files /\ copied \subseteq UserFiles
  /\ ids \in Nat /\ writes \in 0..MaxWrites /\ faults \in 0..MaxFaults
  /\ truth \in [UserFiles -> Nat] /\ durable \subseteq UserFiles
  /\ unread \subseteq Files /\ deleted \subseteq UserFiles
  /\ id \in Nat /\ asked \in 0..3 /\ late \subseteq UserFiles

LEMMA TypeSplit == (TypeOK <=> Booleans /\ OtherTypes)
BY Zenon DEF TypeOK, Booleans, OtherTypes

LEMMA TypeSplitPrime == (TypeOK' <=> Booleans' /\ OtherTypes')
BY Zenon DEF TypeOK, Booleans, OtherTypes

LEMMA InitType == Init => TypeOK
<1> SUFFICES ASSUME Init PROVE TypeOK
  OBVIOUS
<1>1. Booleans
  BY Zenon DEF Init, Booleans
<1>2. Empty \in [Files -> Nat]
  BY DEF Empty
<1>3. OtherTypes
  BY <1>2, NvAssumption DEF Init, OtherTypes, NoFlag
<1> QED BY <1>1, <1>3, TypeSplit

LEMMA BootType == TypeOK /\ Boot => TypeOK'
<1> SUFFICES ASSUME TypeOK, Boot PROVE TypeOK'
  OBVIOUS
<1> USE DEF syncVars, bounds, askVars, savedVars
<1>b. \A n : Branch(n) \in {"clean", "erase", "unflag"}
  BY DEF Branch
<1>1. CASE MountRwfs
  <2>1. Booleans'
    BY <1>1, TypeSplit, Zenon DEF MountRwfs, Booleans
  <2>2. OtherTypes'
    BY <1>1, TypeSplit DEF MountRwfs, OtherTypes
  <2> QED BY <2>1, <2>2, TypeSplitPrime
<1>2. CASE NoRequest
  BY <1>2 DEF NoRequest, flashVars, TypeOK
<1>3. CASE ReadFlag
  <2>1. Booleans'
    BY <1>3, TypeSplit, Zenon DEF ReadFlag, Booleans
  <2>2. OtherTypes'
    <3>1. op' \in 0..3
      BY <1>3, TypeSplit, MaskType DEF ReadFlag, OtherTypes
    <3>2. pc' \in {"mark", "clean", "erase", "unflag"} /\ faults' \in 0..MaxFaults
      BY <1>3, <1>b, TypeSplit, NvAssumption DEF ReadFlag, OtherTypes
    <3>3. UNCHANGED <<nv, flag, ram, syncd, todo, copied, late, ids, writes, truth,
                      durable, unread, deleted, id, asked>>
      BY <1>3 DEF ReadFlag
    <3> QED BY <3>1, <3>2, <3>3, TypeSplit DEF OtherTypes
  <2> QED BY <2>1, <2>2, TypeSplitPrime
<1>4. CASE TruncateFlag
  BY <1>4 DEF TruncateFlag, TypeOK
<1>5. CASE WriteFlag
  BY <1>5, <1>b DEF WriteFlag, TypeOK
<1>6. ASSUME NEW f \in Files, CleanFile(f) PROVE TypeOK'
  BY <1>6, RemoveOneType DEF CleanFile, initVars, TypeOK
<1>7. CASE CleanEnds
  BY <1>7 DEF CleanEnds, flashVars, TypeOK
<1>8. CASE EraseStarts
  <2>1. nv' \in [Files -> Nat]
    BY <1>8, RemnantsType DEF EraseStarts, TypeOK
  <2> QED BY <1>8, <2>1 DEF EraseStarts, TypeOK
<1>9. CASE EraseEnds
  BY <1>9 DEF EraseEnds, Empty, TypeOK
<1>10. CASE clear_ubenv
  BY <1>10 DEF clear_ubenv, TypeOK
<1>11. CASE RemoveFlag
  <2>1. Booleans'
    BY <1>11, TypeSplit, Zenon DEF RemoveFlag, Booleans
  <2>2. OtherTypes'
    <3>1. /\ flag' \in {NoFlag, 16} \cup 0..3 /\ pc' = "restore"
          /\ UNCHANGED <<op, nv, ram, syncd, todo, copied, late, ids, writes, faults,
                         unread, deleted, id>>
      BY <1>11, TypeSplit DEF RemoveFlag, OtherTypes
    <3>2. /\ durable' \subseteq UserFiles /\ truth' \in [UserFiles -> Nat]
          /\ asked' \in 0..3
      BY <1>11, TypeSplit, AffectedType DEF RemoveFlag, OtherTypes
    <3> QED BY <3>1, <3>2, TypeSplit DEF OtherTypes
  <2> QED BY <2>1, <2>2, TypeSplitPrime
<1>12. CASE RestoreOverlay
  <2>1. ram' \in [Files -> Nat] /\ unread' \subseteq Files
    BY <1>12, WithoutType DEF RestoreOverlay, TypeOK
  <2>2. truth' \in [UserFiles -> Nat]
    BY <1>12, <2>1, FilesFacts DEF RestoreOverlay, TypeOK
  <2>3. faults' \in 0..MaxFaults
    BY <1>12, NvAssumption DEF RestoreOverlay, TypeOK
  <2> QED
    BY <1>12, <2>1, <2>2, <2>3 DEF RestoreOverlay, flashVars, TypeOK
<1>13. CASE SetUpMachineId
  <2>1. ram' \in [Files -> Nat]
    <3>1. PICK hidden \in BOOLEAN : ram' = MachineId(ram, hidden)
      BY <1>13 DEF SetUpMachineId
    <3>2. {"mid", "bkup"} \subseteq Files
      BY FilesFacts DEF IdFiles
    <3>3. \A i, j \in Nat : [ram EXCEPT !.mid = i, !.bkup = j] \in [Files -> Nat]
      BY <3>2 DEF TypeOK
    <3>4. \A i \in Nat : [ram EXCEPT !.mid = i] \in [Files -> Nat]
      BY <3>2 DEF TypeOK
    <3>5. ram.bkup \in Nat /\ ids + 1 \in Nat
      BY <3>2 DEF TypeOK
    <3> QED BY <3>1, <3>3, <3>4, <3>5 DEF MachineId, TypeOK
  <2> QED
    BY <1>13, <2>1 DEF SetUpMachineId, flashVars, TypeOK
<1> QED
  BY <1>1, <1>2, <1>3, <1>4, <1>5, <1>6, <1>7, <1>8, <1>9, <1>10, <1>11, <1>12, <1>13
  DEF Boot

LEMMA SyncdType == TypeOK /\ Syncd => TypeOK'
<1> SUFFICES ASSUME TypeOK, Syncd PROVE TypeOK'
  OBVIOUS
<1> USE DEF savedVars
<1>s. Synced => durable' \subseteq UserFiles /\ id' \in Nat
  BY DEF Synced, Files, IdFiles, TypeOK
<1>1. CASE StartSyncd
  BY <1>1 DEF StartSyncd, do_sync, initVars, bounds, askVars, TypeOK
<1>2. CASE SyncEnds
  BY <1>2, <1>s DEF SyncEnds, initVars, flashVars, bounds, askVars, TypeOK
<1>3. CASE SleepEnds
  BY <1>3 DEF SleepEnds, do_sync, initVars, flashVars, bounds, askVars, TypeOK
<1>4. CASE Trap
  BY <1>4 DEF Trap, stop_nv, do_sync, initVars, flashVars, bounds, askVars, TypeOK
<1>5. CASE FinalSyncEnds
  <2>1. rw' \in BOOLEAN /\ syncd' = "stopped" /\ Synced
    BY <1>5 DEF FinalSyncEnds
  <2>2. UNCHANGED <<pc, op, refused, nv, bad, flag, ubenv, ram, term, todo, copied, late,
                    failed, ids, bounds, truth, unread, deleted, askVars>>
    BY <1>5 DEF FinalSyncEnds, initVars
  <2> QED BY <1>s, <2>1, <2>2 DEF bounds, askVars, TypeOK
<1>6. CASE Terminate
  BY <1>6 DEF Terminate, initVars, flashVars, bounds, askVars, TypeOK
<1>7. CASE StopTimeout
  BY <1>7, NvAssumption DEF StopTimeout, initVars, flashVars, askVars, TypeOK
<1>8. ASSUME NEW f \in Files, CopyFile(f) PROVE TypeOK'
  BY <1>8 DEF CopyFile, initVars, bounds, askVars, TypeOK
<1>9. ASSUME NEW f \in Files, CopyFails(f) PROVE TypeOK'
  BY <1>9, NvAssumption DEF CopyFails, initVars, flashVars, askVars, TypeOK
<1> QED
  BY <1>1, <1>2, <1>3, <1>4, <1>5, <1>6, <1>7, <1>8, <1>9 DEF Syncd

LEMMA OutsideType == TypeOK /\ Outside => TypeOK'
<1> SUFFICES ASSUME TypeOK, Outside PROVE TypeOK'
  OBVIOUS
<1> USE DEF savedVars
<1>1. ASSUME NEW f \in UserFiles, NEW v \in Values \cup {0}, UserWrite(f, v)
      PROVE  TypeOK'
  BY <1>1, NvAssumption DEF UserWrite, initVars, flashVars, askVars, Files, TypeOK
<1>2. ASSUME NEW operation \in 1..3, AskRestore(operation) PROVE TypeOK'
  <2>1. Booleans'
    BY <1>2, TypeSplit, Zenon DEF AskRestore, Booleans, initVars, syncVars
  <2>2. OtherTypes'
    BY <1>2, TypeSplit, NvAssumption DEF AskRestore, OtherTypes, initVars, syncVars
  <2> QED BY <2>1, <2>2, TypeSplitPrime
<1>3. CASE PowerOff
  <2>1. Booleans'
    BY <1>3, TypeSplit, Zenon DEF PowerOff, Booleans, Empty
  <2>2. OtherTypes'
    BY <1>3, TypeSplit, NvAssumption DEF PowerOff, OtherTypes, Empty
  <2> QED BY <2>1, <2>2, TypeSplitPrime
<1>4. CASE PowerOn
  BY <1>4 DEF PowerOn, flashVars, syncVars, bounds, askVars, TypeOK
<1> QED BY <1>1, <1>2, <1>3, <1>4 DEF Outside

LEMMA StutterType == TypeOK /\ UNCHANGED vars => TypeOK'
BY DEF TypeOK, vars, initVars, flashVars, syncVars, bounds, askVars, savedVars

-----------------------------------------------------------------------------

LEMMA InitNv == Init => NvInv
BY DEF Init, NvInv, ContentsInv, CleanInv, IdInv, Restored, Carried

\* The steps of init that neither remove nor copy a file.
LEMMA QuietNv ==
  ASSUME TypeOK, NvInv, pc # "running", ~Restored, ~Restored',
         UNCHANGED <<nv, truth, durable, unread, deleted, copied, id, syncd>>,
         CleanInv'
  PROVE  NvInv'
BY DEF NvInv, ContentsInv, IdInv, Restored

\* The invariant is kept by every step of init.
LEMMA BootNv == TypeOK /\ NvInv /\ Boot => NvInv'
<1> SUFFICES ASSUME TypeOK, NvInv, Boot PROVE NvInv'
  OBVIOUS
<1> USE DEF NvInv, savedVars, syncVars
<1>t. /\ OtherTypes /\ UserFiles \subseteq Files
      /\ IdFiles \subseteq Files \ UserFiles
  BY TypeSplit, FilesFacts
<1>i. "mid" \in IdFiles /\ "bkup" \in IdFiles
  BY DEF IdFiles
<1>q. ASSUME pc # "running"
      PROVE  copied = {} /\ syncd \notin {"copy", "sleep", "final"}
  BY <1>q DEF ContentsInv
<1>u. ASSUME ~Restored PROVE unread = {}
  BY <1>u DEF ContentsInv
<1>b. \A n : Branch(n) \in {"clean", "erase", "unflag"}
  BY DEF Branch
<1>c. \A n \in 0..3 : /\ Branch(n) = "clean" => n \in {1, 2}
                      /\ Branch(n) = "unflag" => n = 0
  BY DEF Branch
<1>a. Affected(0) = {} /\ \A n : Affected(n) \subseteq UserFiles
  BY AffectedType DEF Affected
<1>1. CASE MountRwfs
  BY <1>1, QuietNv DEF MountRwfs, CleanInv, Restored
<1>2. CASE NoRequest
  BY <1>2, QuietNv DEF NoRequest, flashVars, CleanInv, Restored
<1>3. CASE ReadFlag
  <2>1. op' \in 0..3
    BY <1>3, <1>t, MaskType DEF ReadFlag, OtherTypes
  <2>2. CASE rw' = TRUE /\ pc' = "mark"
    BY <1>3, <2>2, QuietNv DEF ReadFlag, CleanInv, Restored
  <2>3. CASE rw' = FALSE /\ pc' = Branch(op')
    <3>1. Carried' => op' = 3
      BY <2>3 DEF Carried
    <3>2. /\ pc' \in {"clean", "erase", "unflag"} /\ (pc' = "clean" => op' \in {1, 2})
          /\ (pc' = "unflag" => op' = 0)
      BY <1>b, <1>c, <2>1, <2>3
    <3>3. CleanInv'
      BY <3>1, <3>2 DEF CleanInv
    <3> QED BY <1>3, <3>2, <3>3, QuietNv DEF ReadFlag, Restored
  <2> QED BY <1>3, <2>2, <2>3 DEF ReadFlag
<1>4. CASE TruncateFlag
  BY <1>4, QuietNv DEF TruncateFlag, CleanInv, Restored
<1>5. CASE WriteFlag
  <2>1. /\ pc' \in {"clean", "erase", "unflag"} /\ (pc' = "clean" => op' \in {1, 2})
        /\ (pc' = "unflag" => op' = 0)
    BY <1>5, <1>b, <1>c, <1>t DEF WriteFlag, OtherTypes
  <2>2. CleanInv'
    BY <1>5, <1>a, <2>1 DEF WriteFlag, CleanInv
  <2>3. ContentsInv'
    BY <1>5, <1>q, <1>u, <2>1 DEF WriteFlag, ContentsInv, Restored
  <2>4. IdInv'
    BY <1>5, <2>1 DEF WriteFlag, IdInv, Restored
  <2> QED BY <2>2, <2>3, <2>4
<1>6. ASSUME NEW f \in Files, CleanFile(f) PROVE NvInv'
  <2>1. /\ pc = "clean" /\ rw /\ op \in {1, 2} /\ f \in Cleaned(op)
        /\ copied = {} /\ syncd \notin {"copy", "sleep", "final"}
        /\ UNCHANGED <<pc, op, rw, truth, durable, unread, deleted, copied, syncd>>
    BY <1>6, <1>q DEF CleanFile, CleanInv, initVars
  <2>2. /\ \A g \in Files : nv'[g] = IF g = f THEN 0 ELSE nv[g]
        /\ id' = IF f \in IdFiles /\ op = 2 THEN 0 ELSE id
    BY <1>6, <1>t DEF CleanFile, OtherTypes
  <2>3. f \in UserFiles => f \in Affected(op)
    BY <2>1 DEF Cleaned, Affected, Files
  <2>4. op = 1 => f \notin IdFiles
    BY <2>1 DEF Cleaned, IdFiles
  <2>5. f \notin durable
    BY <1>t, <2>1, <2>3 DEF CleanInv, Carried, OtherTypes
  <2>6. ContentsInv'
    BY <1>t, <2>1, <2>2, <2>5 DEF ContentsInv, OtherTypes, Restored
  <2>7. CleanInv'
    BY <2>1 DEF CleanInv, Carried
  <2>8. IdInv'
    BY <1>t, <1>i, <2>1, <2>2, <2>4 DEF IdInv, Restored
  <2> QED BY <2>6, <2>7, <2>8
<1>7. CASE CleanEnds
  <2>1. op \in {1, 2} /\ op' = op /\ rw' = rw /\ nv' = nv /\ durable' = durable
    BY <1>7 DEF CleanEnds, CleanInv, flashVars
  <2>2. Affected(op) \subseteq Cleaned(op)
    BY <2>1 DEF Affected, Cleaned, Files
  <2>3. CleanInv'
    BY <1>7, <2>1, <2>2 DEF CleanEnds, CleanInv, Carried
  <2> QED BY <1>7, <2>1, <2>3, QuietNv DEF CleanEnds, Restored, flashVars
<1>8. CASE EraseStarts
  BY <1>8, <1>q, <1>u DEF EraseStarts, ContentsInv, CleanInv, IdInv, Restored
<1>9. CASE EraseEnds
  <2>1. /\ \A f \in Files : nv'[f] = 0
        /\ op' = op /\ pc' \in {"clearUbenv", "flag"}
        /\ durable' = {} /\ id' = 0 /\ unread' = {} /\ deleted' = {}
        /\ copied' = {} /\ syncd' \notin {"copy", "sleep", "final"}
    BY <1>9, <1>q, <1>u DEF EraseEnds, Empty, CleanInv, ContentsInv, Restored
  <2>2. ContentsInv'
    BY <2>1 DEF ContentsInv, Restored
  <2>3. CleanInv'
    BY <1>a, <1>t, <2>1 DEF CleanInv
  <2>4. IdInv'
    BY <2>1 DEF IdInv
  <2> QED BY <2>2, <2>3, <2>4
<1>10. CASE clear_ubenv
  <2>1. CleanInv'
    BY <1>10 DEF clear_ubenv, CleanInv, Carried
  <2> QED BY <1>10, <2>1, QuietNv DEF clear_ubenv, Restored
<1>11. CASE RemoveFlag
  <2>1. CleanInv'
    BY <1>11 DEF RemoveFlag, CleanInv
  <2>2. CASE Carried
    <3>1. /\ durable' = durable \cup Affected(op)
          /\ \A f \in UserFiles : truth'[f] = IF f \in Affected(op) THEN 0 ELSE truth[f]
          /\ UNCHANGED <<nv, unread, deleted, copied, syncd, id>> /\ pc' = "restore"
      BY <1>11, <2>2 DEF RemoveFlag
    <3>2. \A f \in Affected(op) : f \notin durable /\ nv[f] = 0
      BY <1>11, <2>2 DEF RemoveFlag, CleanInv
    <3>3. copied = {} /\ unread = {} /\ syncd \notin {"copy", "sleep", "final"}
      BY <1>11, <1>q, <1>u DEF RemoveFlag, Restored
    <3>4. ContentsInv'
      BY <1>a, <1>t, <3>1, <3>2, <3>3 DEF ContentsInv, Restored, OtherTypes
    <3>5. IdInv'
      BY <3>1 DEF IdInv, Restored
    <3> QED BY <2>1, <3>4, <3>5
  <2>3. CASE ~Carried
    BY <1>11, <2>1, <2>3, QuietNv DEF RemoveFlag, Restored
  <2> QED BY <2>2, <2>3
<1>12. CASE RestoreOverlay
  <2> DEFINE Ok(lost) ==
        /\ ram' = Without(nv, lost)
        /\ unread' = {f \in lost \cap (durable \cup IdFiles) : nv[f] # 0}
  <2>1. PICK lost \in SUBSET Files : Ok(lost)
    BY <1>12 DEF RestoreOverlay
  <2>2. /\ pc' = "machineId" /\ copied = {}
        /\ UNCHANGED <<nv, durable, deleted, id, copied, syncd, op>>
        /\ truth' = [f \in UserFiles |-> IF f \in durable THEN truth[f] ELSE ram'[f]]
        /\ syncd \notin {"copy", "sleep", "final"}
    BY <1>12, <1>q DEF RestoreOverlay, flashVars
  <2>3. \A f \in Files : ram'[f] = IF f \in lost THEN 0 ELSE nv[f]
    BY <2>1 DEF Without
  <2>4. \A f \in UserFiles :
          ram'[f] = IF f \in unread' \cup deleted THEN 0 ELSE truth'[f]
    <3> TAKE f \in UserFiles
    <3>1. CASE f \notin durable
      BY <1>t, <2>1, <2>2, <3>1 DEF ContentsInv
    <3>2. CASE f \in durable
      <4>1. nv[f] = IF f \in deleted THEN 0 ELSE truth[f]
        BY <3>2 DEF ContentsInv
      <4>2. truth'[f] = truth[f] /\ f \in Files
        BY <1>t, <2>2, <3>2
      <4>3. f \in unread' <=> f \in lost /\ nv[f] # 0
        BY <2>1, <3>2
      <4> QED BY <2>3, <4>1, <4>2, <4>3
    <3> QED BY <3>1, <3>2
  <2>5. unread' \cap UserFiles \subseteq durable
    BY <1>t, <2>1
  <2>6. ContentsInv'
    <3>1. \A f \in durable : nv[f] = IF f \in deleted THEN 0 ELSE truth'[f]
      BY <1>t, <2>2 DEF ContentsInv, OtherTypes
    <3> QED BY <2>2, <2>4, <2>5, <3>1 DEF ContentsInv, Restored
  <2>7. CleanInv'
    BY <2>2 DEF CleanInv
  <2>8. IdInv'
    <3>1. ASSUME id # 0, unread' \cap IdFiles = {} PROVE ram'.mid = id /\ ram'.bkup = id
      <4>1. nv.mid # 0 /\ nv.bkup # 0 /\ nv.mid = id /\ nv.bkup = id
        BY <3>1 DEF IdInv
      <4>2. "mid" \notin lost /\ "bkup" \notin lost
        BY <1>i, <2>1, <3>1, <4>1
      <4> QED BY <1>i, <1>t, <2>3, <4>1, <4>2
    <3> QED BY <2>2, <3>1 DEF IdInv
  <2> QED BY <2>6, <2>7, <2>8
<1>13. CASE SetUpMachineId
  <2>1. PICK hidden \in BOOLEAN : ram' = MachineId(ram, hidden)
    BY <1>13 DEF SetUpMachineId
  <2>2. /\ pc = "machineId" /\ pc' = "running"
        /\ UNCHANGED <<nv, copied, syncd, op, truth, durable, unread, deleted, id>>
    BY <1>13 DEF SetUpMachineId, flashVars
  <2>3. \A f \in UserFiles : ram'[f] = ram[f]
    BY <1>i, <1>t, <2>1 DEF MachineId, OtherTypes
  <2>4. id # 0 /\ unread \cap IdFiles = {} => ram'.mid = id /\ ram'.bkup = id
    BY <1>i, <1>t, <2>1, <2>2 DEF MachineId, OtherTypes, IdInv, Restored
  <2>5. ContentsInv'
    BY <2>2, <2>3 DEF ContentsInv, Restored
  <2> QED BY <2>2, <2>4, <2>5 DEF CleanInv, IdInv
<1> QED
  BY <1>1, <1>2, <1>3, <1>4, <1>5, <1>6, <1>7, <1>8, <1>9, <1>10, <1>11, <1>12, <1>13
  DEF Boot

LEMMA SyncdNv == TypeOK /\ NvInv /\ Syncd => NvInv'
<1> SUFFICES ASSUME TypeOK, NvInv, Syncd PROVE NvInv'
  OBVIOUS
<1> USE DEF NvInv, Restored, savedVars
<1>t. /\ OtherTypes /\ UserFiles \subseteq Files
      /\ IdFiles \subseteq Files \ UserFiles
  BY TypeSplit, FilesFacts
<1>i. "mid" \in IdFiles /\ "bkup" \in IdFiles
  BY DEF IdFiles
\* A step of the daemon that leaves overlay, flash and history alone.
<1>q. ASSUME UNCHANGED <<pc, op, nv, ram, truth, durable, unread, deleted, id>>,
             pc = "running", copied' \subseteq copied
      PROVE  NvInv'
  BY <1>q DEF ContentsInv, CleanInv, IdInv
<1>1. CASE StartSyncd
  BY <1>1, <1>q DEF StartSyncd, do_sync, initVars
<1>3. CASE SleepEnds
  BY <1>3, <1>q DEF SleepEnds, do_sync, initVars, flashVars, ContentsInv
<1>4. CASE Trap
  BY <1>4, <1>q DEF Trap, stop_nv, do_sync, initVars, flashVars, ContentsInv
<1>6. CASE Terminate
  BY <1>6, <1>q DEF Terminate, initVars, flashVars, ContentsInv
<1>7. CASE StopTimeout
  BY <1>7, <1>q DEF StopTimeout, initVars, flashVars, ContentsInv
<1>9. ASSUME NEW f \in Files, CopyFails(f) PROVE NvInv'
  BY <1>9, <1>q DEF CopyFails, initVars, flashVars, ContentsInv
\* The end of a copy makes what was copied durable.
<1>s. ASSUME UNCHANGED <<pc, op, nv, ram, truth, unread, deleted, copied>>,
             pc = "running", Synced
      PROVE  NvInv'
  BY <1>s DEF Synced, ContentsInv, CleanInv, IdInv
<1>2. CASE SyncEnds
  BY <1>2, <1>s DEF SyncEnds, initVars, flashVars, ContentsInv
<1>5. CASE FinalSyncEnds
  BY <1>5, <1>s DEF FinalSyncEnds, initVars, ContentsInv
<1>8. ASSUME NEW f \in Files, CopyFile(f) PROVE NvInv'
  <2>1. /\ pc = "running" /\ nv' = [nv EXCEPT ![f] = ram[f]]
        /\ copied' = copied \cup (({f} \cap UserFiles) \ (unread \cup deleted))
        /\ deleted' = deleted \cup ({f} \cap unread \cap UserFiles)
        /\ id' = IF f \in IdFiles /\ unread \cap IdFiles # {} /\ nv'[f] # nv[f]
                 THEN 0 ELSE id
        /\ UNCHANGED <<pc, op, ram, truth, durable, unread>>
    BY <1>8 DEF CopyFile, initVars, ContentsInv
  <2>2. \A g \in Files : nv'[g] = IF g = f THEN ram[f] ELSE nv[g]
    BY <1>t, <2>1 DEF OtherTypes
  <2>3. ContentsInv'
    <3>1. \A g \in UserFiles : ram[g] = IF g \in unread \cup deleted THEN 0 ELSE truth[g]
      BY <2>1 DEF ContentsInv
    <3>2. \A g \in UserFiles : g \in deleted' => g \in unread \cup deleted
      BY <2>1
    <3>3. \A g \in unread : g \in deleted' \/ g \notin deleted
      BY <2>1
    <3>4. ASSUME NEW g \in durable \cup copied'
          PROVE  nv'[g] = IF g \in deleted' THEN 0 ELSE truth[g]
      <4>1. g \in UserFiles /\ g \in Files
        BY <1>t, <2>1 DEF OtherTypes
      <4>2. CASE g = f
        BY <2>1, <2>2, <3>1, <4>1, <4>2
      <4>3. CASE g # f
        <5>1. g \in durable \cup copied /\ (g \in deleted' <=> g \in deleted)
          BY <2>1, <4>3
        <5> QED BY <2>2, <4>1, <4>3, <5>1 DEF ContentsInv
      <4> QED BY <4>2, <4>3
    <3>5. deleted' \subseteq durable
      BY <2>1 DEF ContentsInv
    <3>6. copied' \cap (unread \cup deleted') = {}
      BY <2>1 DEF ContentsInv
    <3>7. unread \cap UserFiles \subseteq durable
      BY DEF ContentsInv
    <3>8. \A g \in UserFiles : ram[g] = IF g \in unread \cup deleted' THEN 0 ELSE truth[g]
      BY <2>1, <3>1
    <3> QED BY <2>1, <3>4, <3>5, <3>6, <3>7, <3>8 DEF ContentsInv
  <2>4. CleanInv'
    BY <2>1 DEF CleanInv
  <2>5. IdInv'
    <3>1. CASE id' = 0
      BY <3>1 DEF IdInv
    <3>2. CASE id' # 0
      <4>1. id' = id /\ id # 0 /\ nv.mid = id /\ nv.bkup = id
        BY <2>1, <3>2 DEF IdInv
      <4>2. f \in IdFiles /\ unread \cap IdFiles # {} => nv'[f] = nv[f]
        BY <2>1, <3>2
      <4>3. unread \cap IdFiles = {} => ram.mid = id /\ ram.bkup = id
        BY <2>1, <4>1 DEF IdInv
      <4>4. nv'.mid = id /\ nv'.bkup = id
        BY <1>i, <1>t, <2>2, <4>1, <4>2, <4>3
      <4> QED BY <2>1, <4>1, <4>3, <4>4 DEF IdInv
    <3> QED BY <3>1, <3>2
  <2> QED BY <2>3, <2>4, <2>5
<1> QED
  BY <1>1, <1>2, <1>3, <1>4, <1>5, <1>6, <1>7, <1>8, <1>9 DEF Syncd

LEMMA OutsideNv == TypeOK /\ NvInv /\ Outside => NvInv'
<1> SUFFICES ASSUME TypeOK, NvInv, Outside PROVE NvInv'
  OBVIOUS
<1> USE DEF NvInv, Restored, savedVars
<1>t. /\ OtherTypes /\ UserFiles \subseteq Files
      /\ IdFiles \subseteq Files \ UserFiles
  BY TypeSplit, FilesFacts
<1>i. "mid" \in IdFiles /\ "bkup" \in IdFiles
  BY DEF IdFiles
<1>1. ASSUME NEW f \in UserFiles, NEW v \in Values \cup {0}, UserWrite(f, v)
      PROVE  NvInv'
  <2>1. /\ pc = "running" /\ ram' = [ram EXCEPT ![f] = v]
        /\ truth' = [truth EXCEPT ![f] = v]
        /\ durable' = durable \ {f} /\ copied' = copied \ {f}
        /\ unread' = unread \ {f} /\ deleted' = deleted \ {f}
        /\ UNCHANGED <<pc, op, nv, id, syncd>>
    BY <1>1 DEF UserWrite, initVars, flashVars
  <2>2. durable \cup copied \subseteq UserFiles
    BY <1>t DEF OtherTypes
  <2>3. ContentsInv'
    BY <1>t, <2>1, <2>2 DEF ContentsInv, OtherTypes
  <2>4. CleanInv'
    BY <2>1 DEF CleanInv
  <2>5. IdInv'
    <3>1. unread' \cap IdFiles = unread \cap IdFiles
      BY <1>t, <2>1
    <3>2. ram'.mid = ram.mid /\ ram'.bkup = ram.bkup
      BY <1>i, <1>t, <2>1 DEF OtherTypes
    <3> QED BY <2>1, <3>1, <3>2 DEF IdInv
  <2> QED BY <2>3, <2>4, <2>5
<1>2. ASSUME NEW operation \in 1..3, AskRestore(operation) PROVE NvInv'
  BY <1>2 DEF AskRestore, initVars, syncVars, ContentsInv, CleanInv, IdInv
<1>3. CASE PowerOff
  BY <1>3 DEF PowerOff, ContentsInv, CleanInv, IdInv
<1>4. CASE PowerOn
  BY <1>4 DEF PowerOn, flashVars, syncVars, ContentsInv, CleanInv, IdInv
<1> QED BY <1>1, <1>2, <1>3, <1>4 DEF Outside

LEMMA StutterNv == NvInv /\ UNCHANGED vars => NvInv'
BY DEF NvInv, ContentsInv, CleanInv, IdInv, Restored, Carried, vars, initVars,
       flashVars, syncVars, savedVars

-----------------------------------------------------------------------------

\* The type invariant of the specification, for any contents and any bounds.
THEOREM TypeCorrect == Spec => []TypeOK
<1>1. TypeOK /\ [Next]_vars => TypeOK'
  BY BootType, SyncdType, OutsideType, StutterType DEF Next
<1> QED BY <1>1, InitType, PTL DEF Spec

\* NvInv: overlay, flash and history agree at every point of a boot, of a clean
\* and of a copy, and the only saved files they differ in are those that the
\* unchecked rsync of a boot has not read.
THEOREM NvInvariant == Spec => []NvInv
<1>1. TypeOK /\ NvInv /\ [Next]_vars => NvInv'
  BY BootNv, SyncdNv, OutsideNv, StutterNv DEF Next
<1> QED BY <1>1, InitNv, TypeCorrect, PTL DEF Spec

\* A saved file survives any number of power cuts, failed copies and targeted
\* cleans, and a file removed by a completed restore stays removed.  The exemption
\* is the one that SavedSurvives names: a file that the rsync of a boot did not read
\* is missing in that boot, and for good if nv-syncd copies before the power fails.
THEOREM SavedSurvivesAlways == Spec => []SavedSurvives
<1>1. TypeOK /\ NvInv => SavedSurvives
  BY TypeSplit DEF NvInv, ContentsInv, SavedSurvives, OtherTypes
<1> QED BY <1>1, TypeCorrect, NvInvariant, PTL

\* The machine id that is on flash with its backup is the id of every later boot whose
\* rsync has read both files, until a full clean, a reformat or, after a boot that has
\* not read them, the copy of nv-syncd.
THEOREM MachineIdAlwaysStable == Spec => []MachineIdStable
<1>1. NvInv => MachineIdStable
  BY DEF NvInv, IdInv, Restored, MachineIdStable
<1> QED BY <1>1, NvInvariant, PTL

-----------------------------------------------------------------------------
(***************************************************************************)
(* Requests for a restore of the defaults, and the last copy of nv-syncd.  *)
(***************************************************************************)

\* Where a request that has not been carried out is: in the flag file until init
\* has read it, then in restore_op until the clean is done.
AskInv ==
  asked # 0 =>
    /\ pc \in {"off", "mount", "flag", "restore", "machineId", "running"} => flag = asked
    /\ pc = "mark" => flag = asked /\ asked = op
    /\ pc = "erase" => (op = 0 /\ flag = asked) \/ asked = op
    /\ pc = "erasing" => asked = 3 /\ op = 3
    /\ pc \in {"marking", "clean", "clearUbenv", "unflag"} => asked = op
    /\ pc \in {"clean", "clearUbenv", "unflag"} /\ ~Carried => refused /\ flag = asked
    /\ pc \in {"mark", "marking"} => rw
    /\ pc \in {"restore", "machineId"} => refused
    /\ pc = "running" /\ due => refused

\* How far the last copy has got: only the files it has still to look at, and those
\* written since SIGTERM, may differ from the overlay.
StopInv ==
  /\ syncd # "off" => pc = "running"
  /\ syncd = "stopped" => todo = {}
  /\ syncd \in {"final", "stopped"} /\ ~failed =>
       \A f \in UserFiles \ (late \cup todo) : nv[f] = ram[f]

LEMMA InitAsk == Init => AskInv /\ StopInv
BY DEF Init, AskInv, StopInv

LEMMA BootAsk == OtherTypes /\ AskInv /\ Boot => AskInv'
<1> SUFFICES ASSUME OtherTypes, AskInv, Boot PROVE AskInv'
  OBVIOUS
<1> USE DEF AskInv, askVars
<1>b. /\ \A n : Branch(n) \in {"clean", "erase", "unflag"}
      /\ \A n \in 1..3 : Branch(n) = "erase" <=> n = 3
  BY DEF Branch
<1>1. CASE MountRwfs
  BY <1>1 DEF MountRwfs
<1>2. CASE NoRequest
  BY <1>2 DEF NoRequest, flashVars, NoFlag, OtherTypes
<1>3. CASE ReadFlag
  <2>1. asked \in 0..3 /\ UNCHANGED <<asked, due, flag>>
    BY <1>3 DEF OtherTypes, ReadFlag
  <2>2. asked # 0 => op' = asked /\ flag = asked
    BY <1>3, <2>1 DEF ReadFlag, restore_op
  <2>3. CASE rw' = TRUE /\ pc' = "mark"
    BY <2>1, <2>2, <2>3
  <2>4. CASE rw' = FALSE /\ refused' = TRUE /\ pc' = Branch(op')
    BY <1>b, <2>1, <2>2, <2>4 DEF Carried
  <2> QED BY <1>3, <2>3, <2>4 DEF ReadFlag
<1>4. CASE TruncateFlag
  BY <1>4 DEF TruncateFlag
<1>5. CASE WriteFlag
  BY <1>5, <1>b DEF WriteFlag, Carried
<1>6. ASSUME NEW f \in Files, CleanFile(f) PROVE AskInv'
  BY <1>6 DEF CleanFile, initVars, Carried
<1>7. CASE CleanEnds
  BY <1>7 DEF CleanEnds, flashVars, Carried
<1>8. CASE EraseStarts
  BY <1>8 DEF EraseStarts
<1>9. CASE EraseEnds
  BY <1>9 DEF EraseEnds, Carried
<1>10. CASE clear_ubenv
  BY <1>10 DEF clear_ubenv, Carried
<1>11. CASE RemoveFlag
  BY <1>11 DEF RemoveFlag, Carried
<1>12. CASE RestoreOverlay
  BY <1>12 DEF RestoreOverlay, flashVars
<1>13. CASE SetUpMachineId
  BY <1>13 DEF SetUpMachineId, flashVars
<1> QED
  BY <1>1, <1>2, <1>3, <1>4, <1>5, <1>6, <1>7, <1>8, <1>9, <1>10, <1>11, <1>12, <1>13
  DEF Boot

\* The daemon and the users' writes leave requests and flag alone.
LEMMA NextAsk == OtherTypes /\ StopInv /\ AskInv /\ [Next]_vars => AskInv'
<1> SUFFICES ASSUME OtherTypes, StopInv, AskInv, [Next]_vars PROVE AskInv'
  OBVIOUS
<1>r. ASSUME pc = "running", UNCHANGED <<pc, op, refused, flag, asked, due>>
      PROVE  AskInv'
  BY <1>r DEF AskInv
<1>q. ASSUME UNCHANGED <<pc, op, refused, flag, rw, asked, due>> PROVE AskInv'
  BY <1>q DEF AskInv, Carried
<1>1. CASE Syncd
  <2>1. UNCHANGED <<initVars, flag, askVars>>
    BY <1>1 DEF Syncd, StartSyncd, SyncEnds, SleepEnds, Trap, FinalSyncEnds, Terminate,
                StopTimeout, CopyFile, CopyFails, flashVars
  <2>2. pc = "running"
    BY <1>1 DEF Syncd, StartSyncd, SyncEnds, SleepEnds, Trap, FinalSyncEnds, Terminate,
                StopTimeout, CopyFile, CopyFails, StopInv
  <2> QED BY <1>r, <2>1, <2>2 DEF initVars, askVars
<1>2. CASE Outside
  <2>1. ASSUME NEW f \in UserFiles, NEW v \in Values \cup {0}, UserWrite(f, v)
        PROVE  AskInv'
    BY <1>q, <2>1 DEF UserWrite, initVars, flashVars, askVars
  <2>2. ASSUME NEW operation \in 1..3, AskRestore(operation) PROVE AskInv'
    BY <2>2 DEF AskRestore, initVars, AskInv
  <2>3. CASE PowerOff
    <3>1. asked' # 0 => asked' = asked /\ ~Cleaning
      BY <2>3 DEF PowerOff
    <3>2. asked' # 0 => flag = asked
      BY <2>3, <3>1 DEF PowerOff, Cleaning, AskInv, OtherTypes
    <3> QED BY <2>3, <3>1, <3>2 DEF PowerOff, AskInv
  <2>4. CASE PowerOn
    BY <2>4 DEF PowerOn, flashVars, askVars, AskInv
  <2> QED BY <1>2, <2>1, <2>2, <2>3, <2>4 DEF Outside
<1>3. CASE UNCHANGED vars
  BY <1>q, <1>3 DEF vars, initVars, flashVars, askVars
<1> QED BY <1>1, <1>2, <1>3, BootAsk DEF Next

LEMMA SyncdStop == OtherTypes /\ StopInv /\ Syncd => StopInv'
<1> SUFFICES ASSUME OtherTypes, StopInv, Syncd PROVE StopInv'
  OBVIOUS
<1>f. UserFiles \subseteq Files /\ ram \in [Files -> Nat] /\ nv \in [Files -> Nat]
  BY DEF Files, OtherTypes
<1>1. CASE StartSyncd
  BY <1>1 DEF StartSyncd, do_sync, initVars, StopInv
<1>2. CASE SyncEnds
  BY <1>2 DEF SyncEnds, initVars, StopInv
<1>3. CASE SleepEnds
  BY <1>3 DEF SleepEnds, do_sync, initVars, StopInv
<1>4. CASE Trap
  BY <1>4, <1>f DEF Trap, stop_nv, do_sync, initVars, StopInv
<1>5. CASE FinalSyncEnds
  BY <1>5 DEF FinalSyncEnds, initVars, StopInv
<1>6. CASE Terminate
  BY <1>6 DEF Terminate, initVars, StopInv
<1>7. CASE StopTimeout
  BY <1>7 DEF StopTimeout, initVars, StopInv
<1>8. ASSUME NEW f \in Files, CopyFile(f) PROVE StopInv'
  <2>1. /\ nv' = [nv EXCEPT ![f] = ram[f]] /\ todo' = todo \ {f}
        /\ UNCHANGED <<pc, ram, syncd, late, failed>> /\ syncd # "stopped"
    BY <1>8 DEF CopyFile, initVars
  <2>2. \A g \in UserFiles : nv'[g] = IF g = f THEN ram[g] ELSE nv[g]
    BY <1>f, <2>1
  <2> QED BY <2>1, <2>2 DEF StopInv
<1>9. ASSUME NEW f \in Files, CopyFails(f) PROVE StopInv'
  BY <1>9 DEF CopyFails, initVars, StopInv
<1> QED
  BY <1>1, <1>2, <1>3, <1>4, <1>5, <1>6, <1>7, <1>8, <1>9 DEF Syncd

LEMMA NextStop == OtherTypes /\ StopInv /\ [Next]_vars => StopInv'
<1> SUFFICES ASSUME OtherTypes, StopInv, [Next]_vars PROVE StopInv'
  OBVIOUS
<1>1. CASE Boot
  \* init has ended before the daemon is started
  <2>1. pc # "running" /\ UNCHANGED syncd
    BY <1>1 DEF Boot, MountRwfs, NoRequest, ReadFlag, TruncateFlag, WriteFlag, CleanFile,
                CleanEnds, EraseStarts, EraseEnds, clear_ubenv, RemoveFlag,
                RestoreOverlay, SetUpMachineId, syncVars
  <2> QED BY <2>1 DEF StopInv
<1>2. ASSUME NEW f \in UserFiles, NEW v \in Values \cup {0}, UserWrite(f, v)
      PROVE  StopInv'
  <2>1. /\ ram' = [ram EXCEPT ![f] = v] /\ late' = late \cup {f}
        /\ UNCHANGED <<pc, nv, syncd, todo, failed>>
    BY <1>2 DEF UserWrite, initVars, flashVars
  <2>2. \A g \in UserFiles : g # f => ram'[g] = ram[g]
    BY <2>1 DEF Files, OtherTypes
  <2> QED BY <2>1, <2>2 DEF StopInv
<1>3. ASSUME NEW operation \in 1..3, AskRestore(operation) PROVE StopInv'
  BY <1>3 DEF AskRestore, initVars, syncVars, StopInv
<1>4. CASE PowerOff
  BY <1>4 DEF PowerOff, StopInv
<1>5. CASE PowerOn
  BY <1>5 DEF PowerOn, flashVars, syncVars, StopInv
<1>6. CASE UNCHANGED vars
  BY <1>6 DEF vars, initVars, flashVars, syncVars, StopInv
<1> QED BY <1>1, <1>2, <1>3, <1>4, <1>5, <1>6, SyncdStop DEF Next, Outside

\* A restore of the defaults asked for before a power cycle is done when the system
\* runs again, or still in its flag if init could not make rwfs writable, whatever the
\* number of requests, power cuts and failed mounts: until init has overwritten the flag
\* the request is in it, then it is in restore_op.
THEOREM RestoreAlwaysHonoured == Spec => []RestoreHonoured
<1>1. AskInv => RestoreHonoured
  BY DEF AskInv, RestoreHonoured
<1>2. TypeOK => OtherTypes
  BY TypeSplit
<1> QED BY <1>1, <1>2, InitAsk, NextAsk, NextStop, TypeCorrect, PTL DEF Spec

\* An orderly stop of nv-syncd leaves every file written before SIGTERM on flash,
\* unless the flash refused one.
THEOREM AlwaysSavedAtStop == Spec => []SavedAtStop
<1>1. StopInv => SavedAtStop
  BY DEF StopInv, SavedAtStop
<1>2. TypeOK => OtherTypes
  BY TypeSplit
<1> QED BY <1>1, <1>2, InitAsk, NextStop, TypeCorrect, PTL DEF Spec

=============================================================================
