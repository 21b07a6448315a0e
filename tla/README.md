# TLA+ models of meta-common

This directory holds TLA+ models of the programs whose source lives in the
`meta-common` layer of the OpenBMC distribution: the TPMI backend of Intel Speed
Select (SST) in `smbios-mdr`, the Node Manager routes of `bmcweb`, the early
`init` script with the daemon that saves the writable overlay, and smaller
tools. Most of the repository is build metadata (recipes, patches, device trees,
kernel configurations); the modules concern the code the layer itself carries.

Every module is checked with TLC on small instances; eight of them have theorems
checked with TLAPS for all values of their constants. `PROJECT.json` maps every
definition to the source lines it models, lists the runs, the mutants that
show each property can fail, the hazards the properties are for and the theorems.

## 1. Inventory

Paths are relative to `src/meta-common/`.

| Component | Source | State | Operations | Interacts with |
|---|---|---|---|---|
| TPMI D-Bus cache | `recipes-intel/smbios/smbios-mdr/sst_tpmi.cpp` 35-464, 827-845 | maps `cpus`, `features`, signal match | constructor, signal handler, GetSubTree and GetAll replies, `setProperty` and its completion, `ready` | the TPMI service, the object mapper, over D-Bus |
| SST PECI backend | same file, 466-1095 | `peciWoken`, static die masks and register cache, CPU registers | wake-up protocol, access retry, instance probe, getters, `setAllInstances` | the CPU over PECI; the cache, for addresses and instance counts |
| Node Manager policies | `recipes-phosphor/interfaces/bmcweb/node-manager/policies_collection.hpp`, `nm_common.hpp` | one response per request; the policies are in the NodeManager service | list, GET, POST, PATCH, DELETE, ChangeState, ResetStatistics | the NodeManager service, shared with IPMI and other clients |
| Node Manager domains | `.../domains_collection.hpp` | one response per request | GET, PATCH, ChangeState, ResetStatistics | NodeManager service |
| Redfish Power | `.../power.hpp`, `power_utility.hpp` | one response per request, the index layout of PowerControl | GET and PATCH of the array and of one node | NodeManager service, object mapper |
| Other Node Manager routes | `.../node_manager.hpp`, `triggers.hpp`, `throttling_status.hpp` | none | GET, NodeManager.ChangeState | NodeManager service |
| Writable overlay | `recipes-phosphor/preinit-mounts/preinit-mounts/init`, `recipes-core/nv-sync/nv-sync/nv-syncd` | overlay in RAM, its copy on flash, the flag `.restore_op`, the U-Boot environment | mount, clean, erase, restore, machine-id; periodic copy, stop | systemd, the users of /etc and /var, the power |
| LAN OEM host name | `recipes-phosphor/ipmi/phosphor-ipmi-host/transporthandler_oem.cpp` | static block buffer | set and get of the parameter | IPMI sessions |
| io-app | `recipes-utilities/io-app/files/io-app.c` | table of mappings | md, mw, the shell io | /dev/mem |
| lpc_cmds | `recipes-utilities/lpc-cmds/files/lpc_cmds.c` | none of its own | KCS and virtual wire commands | a kernel driver |
| Test tools and boot scripts | `recipes-utilities/{oom-test,beeper-test}`, `recipes-core/ac-boot-check`, ... | none | straight-line | |

What makes each of them hard, and what makes it correct:

* **TPMI D-Bus cache.** One thread, but four sources of callbacks whose order is
  only partly fixed by the bus: signals, GetAll replies and Set replies of the
  service are in order among themselves, the mapper's answer is not ordered with
  them. Correct: the cache converges to what the service publishes, the
  completion of a Set finds its entry (`features.at` throws otherwise, and
  nothing catches it), and a CPU that can be used becomes ready.
* **SST PECI backend.** Every transaction may fail or time out, the CPU goes idle
  whenever it likes, the wake-up is a loop over dies, and the destructor has to
  undo what half a loop has done. Correct: no acknowledged wake-up is forgotten,
  `dontWake` is respected, the set loop leaves a comprehensible result, every
  method ends.
* **Node Manager routes.** A request is a chain of calls with a check at one end
  and a write at the other; requests and other clients interleave between them.
  Correct: the owner check protects what it checked, PATCH changes what it was asked
  to change and writes the other attributes back as it read them (except
  SuspendPeriods and Thresholds, which every PATCH empties), the status tells what was
  done.
* **Writable overlay.** The power may fail between any two steps, of init, of a
  clean and of a copy. Correct: what was saved stays saved, what a restore of
  the defaults removed does not come back, the machine id is stable, a requested
  restore happens. The exception to the first and third: what the rsync of a boot
  fails to read is missing from the overlay, since nobody looks at its status, and
  the next copy of the overlay deletes it from flash as well.
* **Redfish Power.** Two handlers lay out the same array, one to show it and one to
  apply a PATCH to it by index; a limit is set and enabled by a chain of calls
  beside others. Correct: an entry reaches the component it was shown with,
  success means that everything was set and enabled, a limit that was enabled is
  not reset behind the back of the one who set it.
* **LAN OEM host name.** One buffer for all sessions, blocks that are repeated.
  Correct: a register written and read as a whole.
* **lpc_cmds.** Read-modify-write of a shared register by separate processes.
  Correct: single bits can be changed on their own.
* **io-app.** Range arithmetic and clean-up after failures. Correct: no access
  outside a mapping (except by a range that wraps around the address space, which
  the check does not see), every mapping unmapped once.

A pointer kept by `SSTRegisterSet` into the maps of the cache would dangle if a
removal were handled during the life of an SST object. The callers use SST
objects synchronously within one callback of the same event loop, so no handler
of the cache runs in between, and the two components are modelled apart.

## 2. Modules

### TpmiCache

State: what the service publishes (`svc`, `up`), the two FIFO channels
`toService` and `toClient`, the pending GetSubTree call (`mapper`), and the
cache (`matched`, `cpus`, `features`). A path is a CPU index and a feature
ID; a CPU's properties are abstracted to whether they unpack (`ok`) and
an opaque `data`, a feature's to these and the four properties that matter.

| Action | Code |
|---|---|
| `Construct` | the constructor: match first, then GetSubTree |
| `handleGetTPMISubTree` | walks an unordered map and starts a GetAll per relevant path, in any order |
| `handleTPMISignal` | InterfacesAdded and InterfacesRemoved; `decodePath` and the ID test are its guard |
| `handleGetAllReply` | the lambda of getAllProperties |
| `handleSetReply` | the lambda of setProperty; `thrown` records an uncaught `std::out_of_range`, after which the daemon is gone |
| `AddObject` ... `MapperReply` | external: the service, the bus and the mapper |

`addSSTFeature` is the whole function: it refuses a feature that does not unpack
or is locked in the wrong state (and erases the entry), otherwise starts up to
two writes and stores the entry.

History variables: `orphan` (objects that vanished in a crash of the service;
no signal says so), `missed` (a call for the CPU failed; the code does
not retry), `everBad` (the CPU published a feature that does not unpack).
They name the situations for which the code makes no promise.

### SstPeci

One SST object at the grain of PECI transactions. `pc` says where the thread
is: no object, between methods, in an access (`mmio`), in its second attempt
(`retry`), reading the die mask, writing a domain. `setWakeOnPECI`, the retry
of an access, `validInstances`, the header cache and `setAllInstances` follow
the code step by step. A write that times out may or may not have taken effect;
so may a failing write of SST_PP_CONTROL. All the setters are the same loop over
different fields of one register, so the model sets field `level` and keeps the
rest of the register in `other`; all the getters are one read path.

### NmPolicies

`policies` is the state of the NodeManager service, `req` that of every request:
its stage (`find`, `read`, `act`, `after`), what it has read, the calls it has in
flight and the status of its response. Each D-Bus call is one step, so that
requests and other users interleave between any two calls. Attributes are
abstracted to two that a request may set (`limit`, `corr`), and one for those
the handlers always send empty (`extra`). Versions number the modifications,
so that a property can tell the policy a request has checked from another that
took its place. A modifying call may be refused, or be executed and time out.

### NmDomains

bmcweb has one connection to the bus, so the calls of all requests form one FIFO
queue `calls`; what a callback sends is contiguous in it. `req` holds every
request with the number of its unanswered calls; `Continue` is what happens at the
end of a callback: wait for more answers, run the `FinalCallback` of a PATCH (the
destructor of an object that the callbacks share), which reads the domain
back if the status is still ok, or send the response. The value of a property is
the request that wrote it. `later` is history: who wrote a property after whom.

### NvOverlay

`pc` is the step init is at, `nv` the files on flash, `ram` those in the
overlay, `syncd` the state of the daemon. Files are classes, chosen by what the
cleaning functions tell apart. The power may fail before any step (`PowerOff`).

| Action | Code |
|---|---|
| `MountRwfs`, `EraseStarts`, `EraseEnds` | the mount of rwfs, and the erase after a mount that failed or for a restore. An erase that is cut short leaves any of the files, in their last version or in an older one (`Remnants`) |
| `NoRequest`, `ReadFlag` | reading `.restore_op` and the remount; when it stays read-only, the commands that follow fail one by one (`refused`) |
| `TruncateFlag`, `WriteFlag` | `echo 16 > .restore_op`, which empties the file first: a cut in between leaves an empty flag |
| `Branch`, `CleanFile`, `CleanEnds`, `clear_ubenv`, `RemoveFlag` | the cases of the operation; the cleans remove one class of files after another |
| `RestoreOverlay` | the rsync to RAM, which may lose any set of files: the script does not check its status |
| `MachineId`, `SetUpMachineId` | the block about machine-id |
| `do_sync`, `CopyFile`, `CopyFails`, ... | the main loop of nv-syncd, its rsync file by file, its traps |

History variables: `truth` and `durable` (what a file should contain, and
whether it was saved), `id` (the machine id that has reached flash together with
its backup), `asked` and `due` (a pending restore), `refused`, and two for the
rsync of the boot. `unread` are the saved files that it lost, and `deleted` those of
them that the next copy of nv-syncd (`rsync --delete`) then removed from flash.

`SavedSurvives` therefore says less than its name in one case. A saved file is
unchanged on flash and in every later boot, unless the rsync of a boot did not read it:
then it is missing in that boot; it is still on flash and there again after the
next boot if the power fails before nv-syncd comes to it, and is lost otherwise. In
the same way `MachineIdStable` is about boots whose rsync read both files of the id,
and the id is forgotten by a full clean, a reformat, and by the copy of nv-syncd after a
boot that did not read one of them. `RestoreHonoured` exempts a boot in which rwfs
stays read-only, where the flag keeps the request.

### PowerControl

The calls to the NodeManager service form one FIFO queue, as in `NmDomains`; the
object mapper is another peer, whose answers (`lookups`) come in any order. A
node is a domain and a device. The value of a limit is the request that wrote it.

| Action | Code |
|---|---|
| `Arrive` | the four routes; a PATCH of the array echoes an array that a GET showed, with one or two entries filled in |
| `chassisHandler`, `doPowerHeader`, `selectNmService`, `setPowerCapOverride` | the callbacks of the mapper |
| `ServeComponents` | the three nested reads of AvailableComponents, then `ShowNodes`, `PatchNode` or `PatchNodes`, which send everything else at once |
| `ServeRead`, `ServeModify`, `ServeError` | the answers to the seven reads of a node and to the calls that set, enable, update and disable |
| `ServeLost`, `ChangeComponents` | external |

`buildDomainPolicyMap` and `collectNmDmtfData` are the two layouts, each
translated from its own function. `shape` follows the response of a GET of one
node, which is collected in an array that the `FinalCallback` then
replaces by its second element. `Crash` is `list.at` throwing out of a callback:
all requests are lost, and some of their calls are already on their way. What the
ended process had made of its requests is kept as history, because
`LimitKept` speaks of it. A domain lists each of its components once
(`PowerControlAssumption`).

`LimitKept` is about platforms that changed at most once. A component
that leaves and comes back has a new policy, and the `enablePolicy` of a PATCH
from before enables it without its limit: a PATCH has no way to know.

Behaviour that the model has and no property forbids, because the code
makes no promise: a PATCH is answered with 204 when the components cannot be
read and with 200 when the chassis is unknown; errors of
`updatePolicyToDefaults` are only logged; a body that mixes null and values
leaves the policy enabled after the reset; the entries before one that does not
read are applied; an `Oem` object is patched twice by the loop.

### LanHostname and HostNameRegister

`LanHostname` has the two handlers, whole, and sessions that use them: a
session splits its name into blocks, may lose an answer and then repeats the
block, and may give up. A byte of a name is told by its author and its place.
`HostNameRegister` is what a user may expect: a register that is written and read
as a whole, and keeps all but the 64th character, as long as nobody else uses
the parameter during the transfer (`alone`); after that a transfer may mix names,
but every character stays in its place. `LanHostname` implements it, however
sessions, repeated blocks and stray commands interleave.

### LpcVw and VwBits

A process of `LpcVw` is one call of `lpc_cmds` with two ioctls: the
read, and the write if `set ^ checkValue` is not zero. It may fail or be stopped at any point.
The register is the set of its set bits; the host drives some of them.
`VwBits` has commands that change a single bit at once, and that may undo at most
what others have changed since the command began (`raced`); a command that
overlaps with no other is thus atomic. `LpcVw` implements it. The history
variables `wanted` and `risk` say which value a bit should have, and which bits were
set while another process was between its ioctls.

### IoApp

One process from its command line to its exit. Numbers are modulo `Size`, so that
the end of a range wraps as in the code. An argument has a value as a
number and as a map string, because the code may take one for the other. `crash`
is the stage after the use of an invalid pointer. The check of the range and the size of
md's buffer are products and sums modulo `Size`, so a long range passes the check and
its words are touched: after a word outside the mapping or the buffer the program may
go on (`AccessWord`) or die (`Stray`). What else a write past the buffer may do to
the heap is not modelled. `StraightAccessInside` says for every range that the mapping in
use is still mapped and begins at or below the address, and only for ranges that do
not wrap that every word is inside the mapping and the buffer.

### SstProfile

The getters of `SSTTPMI` at the grain of register reads, with registers that may
change between two reads. A read is one step (the two registers of `sseTurboProfile`
are two); `SstPeci` has the PECI transactions behind it. `ProfileIsRight` is about
registers that do not change during the call, `CoreListOrdered` about all.

### Composition

The components of this repository are separate programs, or do not run while
another of them holds state, so no module composes two of them; `init` and
`nv-syncd`, which share the flash and the overlay, are one module. The policies
that `PowerControl` sets belong to names reserved for it (`DmtfPower...`), so a
request of `NmPolicies` meets it only as a user who changes what is not theirs.

## 3. Runs

| Run | Instance | Shows |
|---|---|---|
| `tpmi_cache` | one CPU, another feature, three environment events, fairness | `DrainedAgreement`, `EntryInv`, `EventuallyReady` |
| `tpmi_cache_two` | two CPUs, features that need both writes or are locked, malformed CPU properties, one event | `SetReplyFindsEntry` |
| `sst_peci` | two dies, two instances, two levels, one retry, fairness | `WokenIsFlagged`, `DestroyedAsleep`, `SetAllInstances`, `DontWakeRespected`, `MethodsEnd` |
| `sst_profile` | three instances of which one may be missing, two cores per die, one change of the registers | `ProfileIsRight`, `CoreListOrdered` |
| `nm_policies` | two requests of any kind, one policy name in two domains (one of them HWProtection), one step of another user | `StatusTellsTheTruth`, `ResponseShowsResult`, `OwnerRespected`, `PatchWritesWhatItRead` |
| `nm_domains` | two requests of any kind, the domain ACTotalPlatformPower and another, one write of another user, fairness | `StatusTellsOutcome`, `ErrorIsDescribed`, `NotTorn`, `ReadBackFresh`, `EventuallyAnswered` |
| `nm_domains_reset` | the same without other users | violation of `ResetsBoth` (below) |
| `power` | two requests for the array or the root node, four kinds of entry, two platforms, one refused or late call or one change of the components | `AppliedWhereMeant`, `SuccessMeansApplied`, `OneNodeShown`, `LimitKept`, `ReadsWhatWasSet` |
| `hostname` | two sessions, three names, blocks of two bytes, one lost answer, stray command or name set elsewhere | the refinement `ImplementsRegister` |
| `lpc` | two processes, two outputs (0 and 31), one input, indices and values out of range | `KeptUnlessOverlap`, `VwInv`, the refinement `ImplementsBits` |
| `io_app` | eight words, two mappings, all commands and failures, ranges that wrap, two lines of the shell | `StraightAccessInside`, `UnmappedOnce` |
| `nv_overlay` | one content per file, two writes or restore requests, two faults | `SavedSurvives`, `MachineIdStable`, `RestoreHonoured`, `SavedAtStop`, `NvInv` |

`sst_peci`, `nm_policies`, `nm_domains` and `power` also check the type invariant of
their module; those of `TpmiCache`, `NvOverlay` and `LpcVw` are only proved (section 4).

**Bounds.** `MaxEvents` bounds what the environment of the cache does on its own:
three events are a removal, a re-publication and a crash or a lost call, which is
what it takes to have an erased entry, a fresh one and a reply for the
old one in the same channel; the proof covers any number. `MaxTries` is 5 in the
code and 1 in the run: both ways out of the loop are taken. Two dies are needed
for half a wake-up, two instances for half a set loop; an instance may be absent.
Two requests are enough for every interleaving of a check of one with a
write of another, in `nm_policies` and in `nm_domains`, and `MaxOthers` adds a replacement of the policy by a user
that follows no protocol. `MaxFaults` = 2 lets a power cut hit the recovery from a
power cut, or a copy delete what the boot did not read. That a file comes back because
the power fails between the two takes three faults (a cut to boot again, the lost
read, the second cut); this is covered by the proof, which is for any number of faults
and writes, and any contents.
`power` has platforms of different sizes, so that a change both moves the nodes and
makes the list shorter. `IpmiHostnameLen` is 2 instead of 16: of the names one
fills all four blocks and has no room for the zero byte, one ends within a
block and one has a byte that is not valid. In `lpc` bit 0 is
among the outputs because it is the one for which `set ^ checkValue` differs, and
31 because the check of the index ends there. `io_app` has `Size` = 32 with
words of 4, so that ranges wrap and end with the last word.

**Deadlock.** `CHECK_DEADLOCK FALSE` where the system may stop: the cache when
nothing more happens, the requests once they are all answered, the overlay when
the bounds on users and faults are used up, io-app after its exit, the sessions of
the host name when the stray commands are used up. An SST object can always be
created, a getter or `lpc_cmds` called again, so `sst_peci`, `sst_profile` and `lpc`
check for deadlock.

**Symmetry.** `nm_policies`, `nm_domains_reset` and `power` permute the requests,
which are told apart only by what arrives, `hostname` its sessions and `lpc` its
processes; their properties are invariants, action properties and refinements
without fairness.

**Fairness.** `TpmiCache!FairSpec`: weak fairness of the client, because the asio
loop runs ready callbacks, and of the service, mapper and bus, which answer
every call with a reply or an error. Nothing is assumed of publication, removal,
crashes and lost calls. `SstPeci!FairSpec`: weak fairness of the thread's next
transaction, because a PECI transaction returns with an answer or a time-out.
Neither the CPU's idleness nor the success of a transaction is assumed.
`NmDomains!FairSpec`: weak fairness of the service and of the mapper, because a D-Bus call is answered or times out; nothing is
assumed of the kind of the answer, nor of the arrival of requests.

### Divergences found

The run `nm_domains_reset` shows one. The comment on Domain.ResetStatistics
(`domains_collection.hpp:537-538`) says that for ACTotalPlatformPower it "resets also
stats from the main node". The two calls share one response and each callback writes
its status, so a reset of the domain that failed is reported as a success when that
of the main node succeeds. What does hold is in `StatusTellsOutcome`: the
second was executed.

Others were met while modelling. They are behaviours of the modules, and no run is
kept for them:

* The comment on the class of the cache (`sst_tpmi.cpp:38-39`) says that it sets the
  properties "to make the SST TPMI interface exclusively owned by the BMC".
  `addSSTFeature` sets `Enabled` and `UsePCS` only; the properties for in-band
  access are read and have setters, but are never written.
* The comment on `wakeAllowed` (`0003-sst-Don-t-always-wake-idle-CPU.patch:38-39`)
  says "Wake-on-PECI is disabled for the CPU when the SST interface is destroyed". A
  destructor whose write fails swallows the error, and a wake-up that timed out
  but took effect leaves the flag clear, so that the destructor does nothing. What
  does hold is `WokenIsFlagged` and `DestroyedAsleep`.
* bfEnabled and tfEnabled refuse to tell the state of another level than the current
  one (`sst_tpmi.cpp:903`, 913), but read the level and the state separately, so
  that they may tell it when the level changes in between (`ProfileIsRight` is about
  registers that do not change during a call).
* The usage of io-app (`io-app.c:509`) is "md [-c config] [-m map] <addr> [len]".
  `shift` leaves the loop on the value of the option, which is then taken for the
  address (`ParseArgument`).
* The commands of io-app are "much like the U-Boot environment" (`io-app.c:514-516`),
  where mw fills `len` words; the loop at 279 writes one word `len` times (`WordAt`).
* md and mw refuse a range that ends with a mapping as "not in mapped memory"
  (`io-app.c:262`, 284), because of `<` in the test (`InRange`).
* The same test adds the length in bytes to the address without a check for overflow
  (`io-app.c:246`, 275), and so does the size of the buffer of md (`io-app.c:250`): with
  a length of 0x40000001 words on a 32-bit system the range wraps, the test passes,
  the buffer has room for one word and the loop goes on past mapping and buffer. Ranges
  that wrap are in `io_app`; `StraightAccessInside` exempts their words by name
  (`Straight`).
* init logs "Restored overlay" after the rsync of the boot whatever became of it
  (`init:175-176`). A file that rsync could not read is then missing, and nv-syncd
  deletes it from flash within ten seconds (`nv-syncd:16`, `--delete`). The runs and
  theorems about `SavedSurvives` and `MachineIdStable` exempt these files by name
  (`unread`, `deleted`), and bound the loss to them.
* A PATCH of a policy empties its SuspendPeriods and Thresholds, which it neither
  reads back nor accepts in its body (`policies_collection.hpp:303-304`); so a PATCH of
  the limit alone drops what another client had set there. `PatchWritesWhatItRead`
  states it.

## 4. Theorems

A proof module extends the module of its component. The invariants of the runs are
seldom inductive; for each the section says what had to be added. TLC checked every
inductive invariant on the instance of its component before it was proved.

**TpmiCacheProofs** (for any finite set of CPUs, any other features, any
published properties, any number of events):

* `TypeCorrect`: `Spec => []TypeOK`.
* `EntryInvariant`: `Spec => []EntryInv`, and from it
  `SetReplyFindsEntryAlways`: `Spec => []SetReplyFindsEntry`.
* `AlwaysAgreesWhenDrained`: `Spec => []DrainedAgreement`.

`SetReplyFindsEntry` is not inductive: whether the entry is there when a reply is
handled depends on what is in the channel before it. `EntryInv` follows the
channel. While the service would accept a Set for a CPU, every message in
`toClient` that erases its entry is followed by one that adds it again
(`ErasedIsAddedAgain`); a Set on its way to such a service has an entry
or an addition ahead of it (`PendingHasEntry`); a Set reply in the channel is
preceded by no erasure without a later addition, and has an entry if no addition
precedes it (`ReplyHasEntry`). The argument rests on the order of
one sender's messages, on a locked feature never being settable, and on
`everBad` recording malformed features (`BadRecorded`).

`DrainedAgreement` speaks of empty channels; `FollowInv` says what holds before they
are empty. Handling all that is in the channel would leave at a path what the service
has there now, unless the service has an object for which a GetAll is still to come
(the mapper has not answered, or has named the path, or the call is on its way). What
handling a channel leaves is defined without recursion: the last message that replaces
the entry decides, and the Set replies behind it are written into it (`Leaves`). Two
lemmas carry the proof: appending a message does to what the channel leaves
(`AppendLeaves`) what handling the head does to the entry (`TailLeaves`).

**SstPeciProofs** (for any dies, instances, levels, register contents and retries):

* `TypeCorrect`, `WokenIsAlwaysFlagged`, `DestroyedAlwaysAsleep`,
  `DontWakeAlwaysRespected` (an action property), `SetReachesAllInstances`.

`WakeInv` adds that while the destructor visits the dies, those that still count as
awake are among those it has yet to visit, and that an object created with `dontWake`
never enters the loop. `SetInv` follows the loop over the instances, which are visited
from the lowest on: before the one being written all are written, after it none is,
and the fields that are not the level are untouched.

**NmPoliciesProofs** (for any number of requests in flight, any policies, domains and
values, any number of steps of other users):

* `NmInvariant`, and from it `TypeCorrect`, `StatusAlwaysTrue`,
  `ResponseAlwaysShowsResult`, `OwnerAlwaysRespected` and `PatchAlwaysWritesWhatItRead` (the last two
  are action properties). The last one says what a PATCH makes of every attribute: those of its
  body are set, the others are what it had read (the policy's own, unless somebody has
  modified it since, whose update is lost), SuspendPeriods and Thresholds are emptied.

`NmInv` has a part about one request (`Local`: the form of its list of calls, what its
status says of what it did) and a part about a request and the service (`Against`),
which the steps of all others must keep. They do because every write gives a policy a
version that nobody has seen: a policy that still has the version a request read, or
wrote, is as it was read or written.

**NmDomainsProofs** (for any number of requests, any domains and bodies, any number of
writes of other users):

* `DomInvariant`, and from it `TypeCorrect`, `StatusAlwaysTellsOutcome`,
  `ErrorAlwaysDescribed`, `NeverTorn` and `ReadBackAlwaysFresh`.

`NotTorn` rests on the one queue. The calls of a request form a block of it
(`Contiguous`), so a PATCH that has written some but not all of its properties
is the one at the head, and no other request has overwritten that part (`PartialInv`).
Two successful PATCH requests can therefore have overwritten each other only while one
of them still has a write to come (`PairInv`). `TypeOK` includes that a response waits
for exactly its calls in the queue, which takes the cardinalities of the block before
and after each send and answer. `FreshInv` says that a read-back shows what is at
least as new as the write of its request, or is still going to read it.

**NvOverlayProofs** (for any contents, any number of writes, power cuts and
faults):

* `TypeCorrect`: `Spec => []TypeOK`.
* `NvInvariant`: `Spec => []NvInv`, and from it `SavedSurvivesAlways` and
  `MachineIdAlwaysStable`.
* `RestoreAlwaysHonoured` and `AlwaysSavedAtStop`.

The first two carry the exemption of files that the rsync of a boot did not read
(section 2). `NvInv` adds to the two properties that the overlay shows what its users wrote
once it is restored, that what is being copied is already right on flash
(`ContentsInv`), how far a clean has got (`CleanInv`), and that a recorded machine
id is on flash twice and in the overlay twice (`IdInv`). `AskInv` follows a request for
a restore: until init has overwritten the flag it is in the flag, then in `restore_op`,
and it stays in the flag while rwfs cannot be written. Its proof takes from `StopInv`
that nv-syncd runs only after init has ended.
`StopInv` follows the last copy of nv-syncd: only the files it has still to look at,
and those written since SIGTERM, differ from the overlay.

**LpcVwProofs** (for any processes and any bits):

* `TypeCorrect`: `Spec => []TypeOK`.
* `VwInvariant`: `Spec => []VwInv`, and from it `UpdateKept`:
  `Spec => []KeptUnlessOverlap`.
* `Implementation`: `Spec => ImplementsBits`: every step of `LpcVw` is a step of
  `VwBits` or changes nothing it shows.

`KeptUnlessOverlap` is not inductive: a write puts back what its process read, so
`VwInv` adds that a process between its ioctls has read every bit outside `risk`
as it is (`ReadIsRecent`). The refinement rests on another fact (`CommandInv` in the
proof module): a process between its ioctls has read every output as it is but for
those that others have changed since its command began, and has not yet reported.

**IoAppProofs** (for any address space, word size, maps and command lines):

* `StraightAlwaysInside`: `Spec => []StraightAccessInside`, and `AlwaysUnmappedOnce`:
  `Spec => []UnmappedOnce`. The former is for every command line as to the mapping in
  use, and for every range that does not wrap as to the words; about the words of a range
  that wraps there is nothing to prove, the code does touch others.

The invariant says that the mapping an access uses passed the test of the range
(`AccessInv`), and that a mapping is there or has been unmapped once, in every stage
(`MapInv`). From the test to the property is arithmetic: a range of whole words that
does not wrap and ends before the end of the mapping has its last word inside, and the
size of the buffer does not wrap either. The
proof needs a word shorter than the address space (`Word \in 1..(Size - 1)`), which the
32-bit and 64-bit address spaces of the code have.

**PowerControlProofs** (for any set of requests, any platforms with each component
listed once, any entries, any number of refusals and changes of the components):

* `PowerInvariant`: `Spec => []IInv`, and from it
* `TypeCorrect`, `AlwaysAppliedWhereMeant`, `SuccessAlwaysApplied`, `LimitAlwaysKept`,
  `AlwaysReadsWhatWasSet` and `OneNodeAlwaysShown`: `Spec => []P` for all six properties of
  the run `power`.

None of the six is inductive. `IInv` has a part for each request and its calls in
the queue (`ReqInv`) and parts about all of them. For one request: each of its calls is
one that it may have made as it is now (`FitsInv`); its response is held by a lookup or a
call just while it is busy (`StageInv`); until the components are known one thing is under
way at a time (`EarlyInv`); a value of a PATCH that may yet succeed is in the queue as a
set, or was set and is in the queue as an enable, or both were done (`SuccessInv`);
all resets of a policy come before the limit is set, and a disable follows each update
(`OrderInv`); a GET of one node that is not yet a node still has a read in the queue
(`ShapeInv`). About all: busy requests overlap (`OverlapInv`); while nothing has changed
everybody has read the components present (`SameInv`); a default limit has its
reason already when the policy may yet be enabled (`KeptInv`, stronger than `LimitKept`);
what a PATCH did stays unless there is another (`StaysInv`).

The parts of `ReqInv` are predicates of a record and a queue, not of the state. Two
kinds of lemma therefore carry the induction. `Frame`: what others add to or take from the
queue only moves the calls of a request by some places, and `ReqInv` does not depend on
the places. And for each callback a lemma says what it leaves of the `ReqInv` of its own
request (`EarlyAsks`, `ReadsSent`, `PatchSent`, `ServedRead`, `ServedCall`, `ErrorReq`, `LostReq`).
That the calls of a PATCH are all sent, and in their order, is a fact about
`FlattenSeq` (`FlattenFacts`, by a least counterexample). `AppliedWhereMeant` rests on
`CollectIsBuild`: the two functions that lay out the array agree on every platform.

**Assumptions.** Those named in the modules (`PublishedAssumption`, `SstAssumption`,
`NmAssumption`, `NmDomainsAssumption`, `NvAssumption`, `LpcVwAssumption`,
`IoAppAssumption`, `PowerControlAssumption`); TLC evaluates them in every run.

**Only model-checked.** `SstProfile` (`ProfileIsRight`, `CoreListOrdered`) and `LanHostname`
(its refinement of `HostNameRegister` included) have no theorems. The lists of `SstProfile`
are sorted enumerations of sets (`Sorted`) and their concatenations, and every fact
about them, that such an enumeration exists to begin with, needs an induction of its
own. Out of the reach of the prover are the liveness properties
`EventuallyReady`, `MethodsEnd` and `EventuallyAnswered`. Induction over data is too:
its theorems take an operator as a parameter. A least element of a set of numbers can
be had from the theorem on well-founded relations (`Least`), and that is enough where
something is visited in ascending order; what a channel or a queue holds is described by
quantifying over its places.

## 5. What is not modelled

* The getters of `SSTTPMI` that return one field of one register, and the
  arithmetic of register offsets.
* More than one SST object at a time: objects are created, used and destroyed in
  one callback.
* `decodePath` of a name whose number does not fit an int: `std::stoi` throws
  `out_of_range`, which is not caught there (`sst_tpmi.cpp:329`, 353). Such a path is
  modelled as one that is ignored, like other names that do not parse; TPMI indices are
  small numbers.
* The searches for an object by a regular expression made of its name
  (`policies_collection.hpp:443-444`, `domains_collection.hpp:360-368`): names are model
  values and `Matching` and `Found` compare them, so that a name with regex
  characters that matches another, or throws, is left out. For domains, where writes go to a
  path built from the name and the read-back to the path that was found, the two are
  the same.
* `rsync` without `-c` (`nv-syncd:16`) skips a file whose size and time of
  modification are unchanged; `CopyFile` copies every file that differs. A remount that fails
  in nv-syncd shows as copies that fail.
* The sofs partition, `/srv` and the log of `init`; `rsync`'s exclusion of
  `/var/volatile/tmp`; a flash that does not mount even after it was formatted
  (the script logs "system unstable" and goes on).
* The list of domains, one call of a bmcweb helper; the JSON of the answers.
* The routes of `node_manager.hpp`, `triggers.hpp` and `throttling_status.hpp`: one
  call and one response each, so there is no order to get wrong.
* Of `lpc_cmds` the commands of a single ioctl, the POST codes and the KCS responder,
  which answers every request with the same completion code; of io-app the editing
  of a line, and the text of a dump.
* Manual test tools, straight-line boot scripts and build metadata (nothing to
  check).

## 6. Plan

1. Theorem: the refinement of `HostNameRegister` by `LanHostname`.
2. An abstract specification of the cache (a map that follows the service), which
   `TpmiCache` implements when no call fails; `FollowInv` holds what that proof needs.
