------------------------------ MODULE NvOverlay ------------------------------
(***************************************************************************)
(* The writable overlay of the read-only root file system across boots,    *)
(* power cuts and restore-defaults requests: the init script of            *)
(* preinit-mounts and the daemon nv-syncd.                                 *)
(*                                                                         *)
(* The overlay lives in RAM (/tmp/.overlay).  nv-syncd copies it to flash  *)
(* (rwfs) every ten seconds and when it is stopped; init copies it back at *)
(* boot, after the cleaning asked for by the flag file .restore_op.        *)
(*                                                                         *)
(* Files are classes: etc and var (and /home, which is treated like /var), *)
(* keep (the ssl, dropbear and fru files under /etc), mid (/etc/machine-id)*)
(* and bkup (/etc/machine-id_bkup).  0 is an absent file.                  *)
(*                                                                         *)
(* The copy at boot is not checked: what rsync does not read is missing    *)
(* from the overlay, and the next copy of nv-syncd then deletes it from    *)
(* flash.  The variables unread and deleted record that, and the           *)
(* properties say for which files they hold all the same.                  *)
(***************************************************************************)
EXTENDS Integers, FiniteSets

CONSTANTS Values,      \* contents users give their files
          MaxWrites,   \* bound on writes and restore requests of users
          MaxFaults    \* bound on power cuts, failed mounts and failed copies

ASSUME NvAssumption ==
  /\ Values \subseteq Nat \ {0}
  /\ MaxWrites \in Nat /\ MaxFaults \in Nat

UserFiles == {"etc", "keep", "var"}
IdFiles == {"mid", "bkup"}
Files == UserFiles \cup IdFiles
NoFlag == -1
Empty == [f \in Files |-> 0]

VARIABLES
  pc,      \* init: its next step; "off" and "running" before and after
  nv,      \* rwfs: the copy of the overlay
  bad,     \* rwfs: the partition does not mount
  rw,      \* rwfs: mounted writable
  flag,    \* rwfs: the contents of .restore_op (0: empty), or NoFlag
  ubenv,   \* flash: is the U-Boot environment still there
  op,      \* init: restore_op
  refused, \* history: in this boot init could not mount rwfs writable
  ram,     \* the overlay
  syncd,   \* nv-syncd: off, copy, sleep, final, stopped
  term,    \* nv-syncd: SIGTERM has arrived
  todo,    \* nv-syncd: what rsync has still to copy
  ids,     \* number of machine ids generated
  writes, faults, \* counters for the bounds
  truth,   \* history: what each user file should contain
  durable, \* history: the user files that were saved, and not written since
  unread,  \* history: the saved files that rsync did not read in this boot
  deleted, \* history: the saved files that nv-syncd deleted for that reason
  copied,  \* history: files copied by the rsync in progress
  id,      \* history: the machine id on flash with its backup, or 0
  asked,   \* history: the restore operation asked for and not yet carried out
  due,     \* history: asked for before the last power cycle
  late,    \* history: files written since SIGTERM
  failed   \* history: the last rsync could not write a file

initVars == <<pc, op, refused>>
flashVars == <<nv, bad, rw, flag, ubenv>>
syncVars == <<syncd, term, todo, copied, late, failed>>
bounds == <<writes, faults>>
askVars == <<asked, due>>
savedVars == <<truth, durable, unread, deleted, id>>
vars == <<initVars, flashVars, ram, syncVars, ids, bounds, savedVars, askVars>>

Init ==
  /\ pc = "off" /\ nv = Empty /\ bad \in BOOLEAN /\ rw = FALSE /\ flag = NoFlag
  /\ ubenv = TRUE /\ op = 0 /\ refused = FALSE /\ ram = Empty
  /\ syncd = "off" /\ term = FALSE /\ todo = {} /\ ids = 0
  /\ writes = 0 /\ faults = 0
  /\ truth = [f \in UserFiles |-> 0] /\ durable = {} /\ unread = {} /\ deleted = {}
  /\ copied = {} /\ id = 0 /\ asked = 0 /\ due = FALSE /\ late = {} /\ failed = FALSE

-----------------------------------------------------------------------------
(* init *)

\* The mount of rwfs.  A partition that does not mount is formatted.
MountRwfs ==
  /\ pc = "mount"
  /\ pc' = IF bad THEN "erase" ELSE "flag"
  /\ op' = 0 /\ refused' = FALSE /\ rw' = FALSE
  /\ UNCHANGED <<nv, bad, flag, ubenv, ram, syncVars, ids, bounds, savedVars,
                 askVars>>

\* Mutation of restore_op: one bit too few is kept.
RestoreOpOneBit(value) == value % 2

\* restore_op & 3.  An empty file counts as 0.
restore_op(value) == value % 4

\* Mutation of Cleaned: a targeted clean removes all of /etc.
CleanedAll(operation) == IF operation = 0 THEN {} ELSE Files

\* What a clean removes: all but what targeted_clean's find spares, or everything.
Cleaned(operation) ==
  CASE operation = 1 -> {"etc", "var"} [] operation = 2 -> Files [] OTHER -> {}

\* The user files a restore operation is to remove.
Affected(operation) ==
  CASE operation = 0 -> {} [] operation = 1 -> {"etc", "var"} [] OTHER -> UserFiles

\* Where the script goes when the flag has been read and overwritten.
Branch(operation) ==
  CASE operation \in {1, 2} -> "clean" [] operation = 3 -> "erase"
    [] OTHER -> "unflag"

NoRequest ==
  /\ pc = "flag" /\ flag = NoFlag
  /\ pc' = "restore"
  /\ UNCHANGED <<op, refused, flashVars, ram, syncVars, ids, bounds, savedVars,
                 askVars>>

\* rwfs is made writable and the flag is read.  When the mount fails the script
\* goes on all the same, with a file system it cannot write.
ReadFlag ==
  /\ pc = "flag" /\ flag # NoFlag
  /\ op' = restore_op(flag)
  /\ \/ rw' = TRUE /\ refused' = FALSE /\ pc' = "mark" /\ UNCHANGED faults
     \/ /\ faults < MaxFaults /\ faults' = faults + 1
        /\ rw' = FALSE /\ refused' = TRUE /\ pc' = Branch(op')
  /\ UNCHANGED <<nv, bad, flag, ubenv, ram, syncVars, ids, writes, savedVars,
                 askVars>>

\* The flag is overwritten by 16, so that it counts only once: the shell
\* truncates the file and then writes it.
TruncateFlag ==
  /\ pc = "mark"
  /\ flag' = 0 /\ pc' = "marking"
  /\ UNCHANGED <<op, refused, nv, bad, rw, ubenv, ram, syncVars, ids, bounds,
                 savedVars, askVars>>

WriteFlag ==
  /\ pc = "marking"
  /\ flag' = 16 /\ pc' = Branch(op)
  /\ durable' = durable \ Affected(op) /\ deleted' = deleted \ Affected(op)
  /\ UNCHANGED <<op, refused, nv, bad, rw, ubenv, ram, syncVars, ids, bounds,
                 truth, unread, id, askVars>>

\* One step of targeted_clean or full_clean, which take /etc before /home and
\* /var.
CleanFile(f) ==
  /\ pc = "clean" /\ rw /\ f \in Cleaned(op) /\ nv[f] # 0
  /\ f = "var" => \A g \in Cleaned(op) \ {"var"} : nv[g] = 0
  /\ nv' = [nv EXCEPT ![f] = 0]
  /\ id' = IF f \in IdFiles /\ op = 2 THEN 0 ELSE id
  /\ UNCHANGED <<initVars, bad, rw, flag, ubenv, ram, syncVars, ids, bounds, truth,
                 durable, unread, deleted, askVars>>

\* On a file system that is not writable the clean has no effect.
CleanEnds ==
  /\ pc = "clean"
  /\ rw => \A f \in Cleaned(op) : nv[f] = 0
  /\ pc' = IF op = 2 THEN "clearUbenv" ELSE "unflag"
  /\ UNCHANGED <<op, refused, flashVars, ram, syncVars, ids, bounds, savedVars,
                 askVars>>

\* What a file may contain after part of the flash is erased: nothing, or what
\* it contained at some time, because JFFS2 keeps old versions beside new ones.
Remnants(f) == {0} \cup (IF f \in UserFiles THEN Values ELSE 1..ids)

\* flash_erase works block by block: what is left of the file system, and
\* whether it mounts, is anybody's guess until it has finished.
EraseStarts ==
  /\ pc = "erase"
  /\ nv' \in [Files -> UNION {Remnants(f) : f \in Files}]
  /\ \A f \in Files : nv'[f] \in Remnants(f)
  /\ bad' \in BOOLEAN
  /\ flag' \in {NoFlag, 16} \cup 0..3
  /\ pc' = "erasing"
  /\ durable' = {} /\ deleted' = {} /\ id' = 0
  /\ asked' = IF op = 3 THEN asked ELSE 0
  /\ UNCHANGED <<op, refused, rw, ubenv, ram, syncVars, ids, bounds, truth, unread,
                 due>>

EraseEnds ==
  /\ pc = "erasing"
  /\ nv' = Empty /\ bad' = FALSE /\ flag' = NoFlag /\ rw' = FALSE
  /\ pc' = IF op = 3 THEN "clearUbenv" ELSE "flag"
  /\ UNCHANGED <<op, refused, ubenv, ram, syncVars, ids, bounds, savedVars, askVars>>

clear_ubenv ==
  /\ pc = "clearUbenv"
  /\ ubenv' = FALSE
  /\ pc' = "unflag"
  /\ UNCHANGED <<op, refused, nv, bad, rw, flag, ram, syncVars, ids, bounds,
                 savedVars, askVars>>

\* The operation has had its effect: a reformat needs no writable mount.
Carried == rw \/ op = 3

RemoveFlag ==
  /\ pc = "unflag"
  /\ flag' = (IF rw THEN NoFlag ELSE flag) /\ rw' = FALSE
  /\ pc' = "restore"
  /\ IF Carried
     THEN /\ durable' = durable \cup Affected(op)
          /\ truth' = [f \in UserFiles |-> IF f \in Affected(op) THEN 0 ELSE truth[f]]
          /\ asked' = IF asked = op THEN 0 ELSE asked
     ELSE UNCHANGED <<durable, truth, asked>>
  /\ UNCHANGED <<op, refused, nv, bad, ubenv, ram, syncVars, ids, bounds, unread,
                 deleted, id, due>>

Without(tree, S) == [f \in Files |-> IF f \in S THEN 0 ELSE tree[f]]

\* rsync from flash to RAM.  Its status is not checked: after an error some
\* files are missing and the boot goes on.  A user file that was not saved is
\* from now on what the boot has found.
RestoreOverlay ==
  /\ pc = "restore"
  /\ \E lost \in SUBSET Files :
       /\ lost # {} => faults < MaxFaults
       /\ faults' = IF lost = {} THEN faults ELSE faults + 1
       /\ ram' = Without(nv, lost)
       /\ unread' = {f \in lost \cap (durable \cup IdFiles) : nv[f] # 0}
  /\ truth' = [f \in UserFiles |-> IF f \in durable THEN truth[f] ELSE ram'[f]]
  /\ pc' = "machineId"
  /\ UNCHANGED <<op, refused, flashVars, syncVars, ids, writes, durable, deleted, id,
                 askVars>>

\* Mutation of MachineId: the backup is not looked at.
MachineIdAnew(tree, hidden) ==
  IF tree.mid # 0 /\ ~hidden THEN tree
  ELSE [tree EXCEPT !.mid = ids + 1, !.bkup = ids + 1]

\* The overlay after the check of /etc/machine-id.  hidden: the overlay has the
\* file but it reads as empty (origin mismatch); then the backup is used.
MachineId(tree, hidden) ==
  IF tree.mid # 0 /\ ~hidden THEN tree
  ELSE IF tree.mid # 0 /\ tree.bkup # 0 THEN [tree EXCEPT !.mid = tree.bkup]
  ELSE [tree EXCEPT !.mid = ids + 1, !.bkup = ids + 1]

SetUpMachineId ==
  /\ pc = "machineId"
  /\ \E hidden \in BOOLEAN : ram' = MachineId(ram, hidden)
  /\ ids' = IF ram'.mid = ids + 1 THEN ids + 1 ELSE ids
  /\ pc' = "running"
  /\ UNCHANGED <<op, refused, flashVars, syncVars, bounds, savedVars, askVars>>

-----------------------------------------------------------------------------
(* nv-syncd *)

\* rsync starts over with every file.
do_sync(state) == syncd' = state /\ todo' = Files /\ copied' = {} /\ failed' = FALSE

StartSyncd ==
  /\ pc = "running" /\ syncd \in {"off", "stopped"}
  /\ do_sync("copy") /\ term' = FALSE /\ late' = {} /\ rw' = TRUE
  /\ UNCHANGED <<initVars, nv, bad, flag, ubenv, ram, ids, bounds, savedVars,
                 askVars>>

\* One file: rsync replaces it in one go or, when the overlay does not have it,
\* deletes it.  A saved file that the boot has not read is lost here, and so is a
\* machine id of which the boot has not read a file.
CopyFile(f) ==
  /\ syncd \in {"copy", "final"} /\ f \in todo
  /\ nv' = [nv EXCEPT ![f] = ram[f]]
  /\ todo' = todo \ {f}
  /\ copied' = copied \cup (({f} \cap UserFiles) \ (unread \cup deleted))
  /\ deleted' = deleted \cup ({f} \cap unread \cap UserFiles)
  /\ id' = IF f \in IdFiles /\ unread \cap IdFiles # {} /\ nv'[f] # nv[f] THEN 0 ELSE id
  /\ UNCHANGED <<initVars, bad, rw, flag, ubenv, ram, syncd, term, late, failed,
                 ids, bounds, truth, durable, unread, askVars>>

\* The flash has no room for the file, or does not take it.
CopyFails(f) ==
  /\ syncd \in {"copy", "final"} /\ f \in todo /\ faults < MaxFaults
  /\ todo' = todo \ {f} /\ failed' = TRUE /\ faults' = faults + 1
  /\ UNCHANGED <<initVars, flashVars, ram, syncd, term, copied, late, ids, writes,
                 savedVars, askVars>>

\* rsync and sync are done: what was copied and not written since is safe.
Synced ==
  /\ durable' = durable \cup copied
  /\ id' = IF ram.mid # 0 /\ ram.bkup = ram.mid
               /\ nv.mid = ram.mid /\ nv.bkup = ram.mid THEN ram.mid ELSE id

SyncEnds ==
  /\ syncd = "copy" /\ ~term /\ todo = {}
  /\ Synced
  /\ syncd' = "sleep"
  /\ UNCHANGED <<initVars, flashVars, ram, term, todo, copied, late, failed, ids,
                 bounds, truth, unread, deleted, askVars>>

SleepEnds ==
  /\ syncd = "sleep" /\ ~term
  /\ do_sync("copy")
  /\ UNCHANGED <<initVars, flashVars, ram, term, late, ids, bounds, savedVars,
                 askVars>>

\* Mutation of stop_nv: the daemon ends without a last copy.
stop_nv_at_once == do_sync("stopped")

\* stop_nv copies once more before it stops.
stop_nv == do_sync("final")

\* The trap runs when the command in the foreground, rsync or sleep, has ended.
Trap ==
  /\ term /\ (syncd = "sleep" \/ (syncd = "copy" /\ todo = {}))
  /\ stop_nv
  /\ UNCHANGED <<initVars, flashVars, ram, term, late, ids, bounds, savedVars,
                 askVars>>

\* stop_nv remounts read-only; the EXIT trap then runs it again, in vain.
FinalSyncEnds ==
  /\ syncd = "final" /\ todo = {}
  /\ Synced
  /\ syncd' = "stopped" /\ rw' = FALSE
  /\ UNCHANGED <<initVars, nv, bad, flag, ubenv, ram, term, todo, copied, late,
                 failed, ids, bounds, truth, unread, deleted, askVars>>

Terminate ==
  /\ syncd \in {"copy", "sleep"} /\ ~term
  /\ term' = TRUE /\ late' = {}
  /\ UNCHANGED <<initVars, flashVars, ram, syncd, todo, copied, failed, ids, bounds,
                 savedVars, askVars>>

\* TimeoutStopSec of the unit: the daemon is killed.
StopTimeout ==
  /\ term /\ syncd \in {"copy", "sleep", "final"}
  /\ faults < MaxFaults /\ faults' = faults + 1
  /\ syncd' = "off" /\ todo' = {}
  /\ UNCHANGED <<initVars, flashVars, ram, term, copied, late, failed, ids, writes,
                 savedVars, askVars>>

-----------------------------------------------------------------------------
(* Users, and the power *)

UserWrite(f, v) ==
  /\ pc = "running" /\ writes < MaxWrites /\ ram[f] # v
  /\ ram' = [ram EXCEPT ![f] = v]
  /\ truth' = [truth EXCEPT ![f] = v]
  /\ durable' = durable \ {f} /\ copied' = copied \ {f}
  /\ unread' = unread \ {f} /\ deleted' = deleted \ {f}
  /\ late' = late \cup {f}
  /\ writes' = writes + 1
  /\ UNCHANGED <<initVars, flashVars, syncd, term, todo, failed, ids, faults, id,
                 askVars>>

\* The host or a management interface asks for a restore of the defaults.
AskRestore(operation) ==
  /\ pc = "running" /\ rw /\ writes < MaxWrites
  /\ flag' = operation /\ asked' = operation /\ due' = FALSE
  /\ writes' = writes + 1
  /\ UNCHANGED <<initVars, nv, bad, rw, ubenv, ram, syncVars, ids, faults,
                 savedVars>>

\* The operation is under way and its flag no longer says so.
Cleaning ==
  /\ op # 0 /\ flag # asked
  /\ pc \in {"marking", "clean", "erase", "erasing", "clearUbenv", "unflag"}

PowerOff ==
  /\ pc # "off" /\ faults < MaxFaults
  /\ pc' = "off" /\ op' = 0 /\ refused' = FALSE /\ ram' = Empty /\ rw' = FALSE
  /\ syncd' = "off" /\ term' = FALSE /\ todo' = {} /\ copied' = {} /\ late' = {}
  /\ failed' = FALSE /\ unread' = {}
  /\ faults' = faults + 1
  /\ asked' = IF Cleaning THEN 0 ELSE asked
  /\ due' = (asked' # 0)
  /\ UNCHANGED <<nv, bad, flag, ubenv, ids, writes, truth, durable, deleted, id>>

PowerOn ==
  /\ pc = "off" /\ pc' = "mount"
  /\ UNCHANGED <<op, refused, flashVars, ram, syncVars, ids, bounds, savedVars,
                 askVars>>

-----------------------------------------------------------------------------
Boot ==
  \/ MountRwfs \/ NoRequest \/ ReadFlag \/ TruncateFlag \/ WriteFlag
  \/ \E f \in Files : CleanFile(f)
  \/ CleanEnds \/ EraseStarts \/ EraseEnds \/ clear_ubenv \/ RemoveFlag
  \/ RestoreOverlay \/ SetUpMachineId

Syncd ==
  \/ StartSyncd \/ SyncEnds \/ SleepEnds \/ Trap \/ FinalSyncEnds \/ Terminate
  \/ StopTimeout
  \/ \E f \in Files : CopyFile(f) \/ CopyFails(f)

Outside ==
  \/ \E f \in UserFiles, v \in Values \cup {0} : UserWrite(f, v)
  \/ \E operation \in 1..3 : AskRestore(operation)
  \/ PowerOff \/ PowerOn

Next == Boot \/ Syncd \/ Outside

Spec == Init /\ [][Next]_vars

-----------------------------------------------------------------------------
(* Properties *)

\* The type of every variable.
TypeOK ==
  /\ pc \in {"off", "mount", "flag", "mark", "marking", "clean", "erase", "erasing",
             "clearUbenv", "unflag", "restore", "machineId", "running"}
  /\ nv \in [Files -> Nat] /\ ram \in [Files -> Nat]
  /\ bad \in BOOLEAN /\ rw \in BOOLEAN /\ ubenv \in BOOLEAN /\ refused \in BOOLEAN
  /\ flag \in {NoFlag, 16} \cup 0..3 /\ op \in 0..3
  /\ syncd \in {"off", "copy", "sleep", "final", "stopped"} /\ term \in BOOLEAN
  /\ todo \subseteq Files /\ copied \subseteq UserFiles
  /\ ids \in Nat /\ writes \in 0..MaxWrites /\ faults \in 0..MaxFaults
  /\ truth \in [UserFiles -> Nat] /\ durable \subseteq UserFiles
  /\ unread \subseteq Files /\ deleted \subseteq UserFiles
  /\ id \in Nat /\ asked \in 0..3 /\ due \in BOOLEAN
  /\ late \subseteq UserFiles /\ failed \in BOOLEAN

Restored == pc \in {"machineId", "running"}

\* A file that nv-syncd saved, or that a completed restore of the defaults
\* removed, is the same on flash and in every later boot, whatever power cuts,
\* partial copies and partial or targeted cleans come in between, until a user
\* writes it, another operation is asked to remove it, or rwfs is reformatted.
\* There is one exemption, and it is the code's: init does not check the rsync of
\* the boot.  A saved file that rsync did not read (unread) is missing from the
\* overlay; it is still on flash, and back after the next power cycle, unless the
\* copy of nv-syncd comes to it first and deletes it for good (deleted).
SavedSurvives ==
  \A f \in durable \ deleted :
    /\ nv[f] = truth[f]
    /\ Restored => ram[f] = IF f \in unread THEN 0 ELSE truth[f]

\* The machine id, once on flash with its backup, is the id of every later boot:
\* a targeted clean spares it and the backup covers an overlay that hides it.  A
\* full clean and a reformat end that, and so does the copy of nv-syncd after a
\* boot whose rsync did not read one of the two files: such a boot may have
\* another id, the boots after it have the old one if the power fails before the
\* copy.
MachineIdStable ==
  pc = "running" /\ id # 0 /\ unread \cap IdFiles = {} => ram.mid = id

\* A restore of the defaults that was asked for before the last power cycle has
\* been carried out by the time the system runs, unless the power failed after
\* its flag was overwritten or rwfs had to be formatted to be mounted.  When init
\* could not make rwfs writable, the flag still holds it for the next boot.
RestoreHonoured ==
  pc = "running" /\ due /\ asked # 0 => refused /\ flag = asked

\* When nv-syncd has stopped in an orderly way, every file its users wrote
\* before SIGTERM is on flash, unless the flash refused it.
SavedAtStop ==
  syncd = "stopped" /\ ~failed =>
    \A f \in UserFiles \ late : nv[f] = ram[f]

-----------------------------------------------------------------------------
(***************************************************************************)
(* The inductive strengthening of SavedSurvives and MachineIdStable.       *)
(***************************************************************************)

\* The overlay shows what its users wrote, but for the files that a boot has not
\* read; what is saved, or has just been copied, is on flash as well, but for the
\* files that nv-syncd has deleted.
ContentsInv ==
  /\ Restored => \A f \in UserFiles :
       ram[f] = IF f \in unread \cup deleted THEN 0 ELSE truth[f]
  /\ \A f \in durable \cup copied : nv[f] = IF f \in deleted THEN 0 ELSE truth[f]
  /\ deleted \subseteq durable /\ unread \cap UserFiles \subseteq durable
  /\ copied \cap (unread \cup deleted) = {}
  /\ copied # {} \/ syncd \in {"copy", "sleep", "final"} => pc = "running"
  /\ unread # {} => Restored

\* How far an operation has got: the files to be removed are no longer promised to
\* survive, and when it is done they are gone.
CleanInv ==
  /\ pc \in {"mark", "marking"} => rw
  /\ pc = "clean" => op \in {1, 2}
  /\ pc \in {"clean", "clearUbenv", "unflag"} /\ Carried =>
       \A f \in Affected(op) : f \notin durable
  /\ pc = "erasing" => durable = {} /\ id = 0
  /\ pc \in {"clearUbenv", "unflag"} /\ Carried => \A f \in Affected(op) : nv[f] = 0

\* An id on record is on flash twice, and in the overlay once that is restored.
IdInv ==
  id # 0 => /\ nv.mid = id /\ nv.bkup = id
            /\ Restored /\ unread \cap IdFiles = {} => ram.mid = id /\ ram.bkup = id

\* The inductive invariant: the overlay, flash and history agree at every point
\* of a boot, of a clean and of a copy; the only saved files they may differ in are
\* those that a boot has not read.
NvInv == ContentsInv /\ CleanInv /\ IdInv

=============================================================================
