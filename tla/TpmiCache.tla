------------------------------ MODULE TpmiCache ------------------------------
(***************************************************************************)
(* The D-Bus cache of the SST TPMI backend (sst_tpmi.cpp, TPMIDBusCache    *)
(* and SSTTPMI::ready).                                                    *)
(*                                                                         *)
(* The cache runs on one asio thread: every action of the Client section   *)
(* is one callback, executed to completion.  Three parties exchange        *)
(* messages with it:                                                       *)
(*   - com.intel.TPMI, the service that owns the objects.  The bus keeps   *)
(*     the order of the messages of one sender, so signals and replies of  *)
(*     the service share the FIFO channel toClient, and the calls to it    *)
(*     the FIFO channel toService;                                         *)
(*   - the object mapper, which answers GetSubTree.  Its answer is not     *)
(*     ordered with the messages of the service;                           *)
(*   - whatever makes the service publish, withdraw, crash and restart.    *)
(* A path is [cpuIndex, featureID]; featureID -1 is the object             *)
(* /com/intel/tpmi/cpuN, which carries com.intel.TPMI, any other value     *)
(* is /com/intel/tpmi/cpuN/ID, which carries com.intel.TPMI.Feature.       *)
(***************************************************************************)
EXTENDS Integers, Sequences, FiniteSets

CONSTANTS CPUs,             \* the 0-based CPU indexes
          OtherIDs,         \* IDs of objects that are not SST (5)
          CpuPublished,     \* property sets com.intel.TPMI may publish
          FeaturePublished, \* property sets com.intel.TPMI.Feature may publish
          None,             \* no such object, no such entry, or an error code
          MaxEvents         \* bound on the environment's own events

sstTPMIID == 5
invalidPathComponent == -1

(***************************************************************************)
(* ok is false when unpackProperties would throw: a property is missing or *)
(* has an unexpected type.  data stands for the properties that are only   *)
(* copied (Offset, Instances, Size; Address, Segment, Bus...).             *)
(***************************************************************************)
CpuProps == [ok : BOOLEAN, data : Nat]
FeatureProps == [ok : BOOLEAN, data : Nat, enabled : BOOLEAN,
                 usePCS : BOOLEAN, locked : BOOLEAN, inBand : BOOLEAN]
Props == CpuProps \cup FeatureProps

Path == [cpuIndex : CPUs,
         featureID : {invalidPathComponent, sstTPMIID} \cup OtherIDs]

ASSUME PublishedAssumption ==
  /\ CPUs \subseteq Nat
  /\ OtherIDs \subseteq Nat \ {sstTPMIID}
  /\ IsFiniteSet(Path)
  /\ CpuPublished \subseteq CpuProps
  /\ FeaturePublished \subseteq FeatureProps
  /\ None \notin Props
  /\ MaxEvents \in Nat

cpuObjectPath(c) == [cpuIndex |-> c, featureID |-> invalidPathComponent]
sstObjectPath(c) == [cpuIndex |-> c, featureID |-> sstTPMIID]

\* What a path may carry.
PublishedAt(p) ==
  IF p.featureID = invalidPathComponent THEN CpuPublished ELSE FeaturePublished

(***************************************************************************)
(* decodePath succeeds for the IDs that fit a byte; the two callers then   *)
(* keep the CPU objects and the SST feature.                               *)
(***************************************************************************)
decodePath(p) == p.featureID <= 255

\* Mutation of Relevant: the test for the SST ID is dropped.
RelevantAnyID(p) == decodePath(p)

Relevant(p) == decodePath(p) /\ p.featureID \in {invalidPathComponent, sstTPMIID}

VARIABLES
  svc,        \* service: Path -> its properties, or None
  up,         \* service: does it own its bus name
  toService,  \* calls on their way to the service
  toClient,   \* signals and replies of the service on their way to the cache
  mapper,     \* the GetSubTree call: its state and the paths in its answer
  matched,    \* cache: constructed, with the signal match in place
  cpus,       \* cache: CPU index -> cached properties, or None
  features,   \* cache: CPU index -> cached SST feature, or None
  thrown,     \* CPU indexes for which a callback threw std::out_of_range
  events,     \* number of environment events so far
  orphan,     \* history: paths whose object vanished with a service crash
  missed,     \* history: CPU indexes for which a call failed in transit
  everBad     \* history: CPU indexes that published a malformed feature

envVars == <<svc, up, events, orphan, missed, everBad>>
vars == <<svc, up, toService, toClient, mapper, matched, cpus, features,
          thrown, events, orphan, missed, everBad>>

-----------------------------------------------------------------------------
(* Messages *)

MutableProperty == {"enabled", "usePCS"}

GetAll(p) == [type |-> "GetAll", path |-> p, prop |-> "none"]
Set(c, prop) == [type |-> "Set", path |-> sstObjectPath(c), prop |-> prop]
Request == {GetAll(p) : p \in {q \in Path : Relevant(q)}}
             \cup {Set(c, prop) : c \in CPUs, prop \in MutableProperty}

Added(p, props) ==
  [type |-> "Added", path |-> p, props |-> props, prop |-> "none"]
Removed(p) == [type |-> "Removed", path |-> p, props |-> None, prop |-> "none"]
GetAllReply(p, props) ==
  [type |-> "GetAllReply", path |-> p, props |-> props, prop |-> "none"]
SetReply(p, prop) ==
  [type |-> "SetReply", path |-> p, props |-> None, prop |-> prop]
SetError(p, prop) ==
  [type |-> "SetError", path |-> p, props |-> None, prop |-> prop]

Message == [type : {"Added", "Removed", "GetAllReply", "SetReply", "SetError"},
            path : Path, props : Props \cup {None},
            prop : MutableProperty \cup {"none"}]

\* A feature after a successful write of prop: Enabled is only ever set, UsePCS
\* only ever cleared.
Write(f, prop) ==
  IF prop = "enabled" THEN [f EXCEPT !.enabled = TRUE]
                      ELSE [f EXCEPT !.usePCS = FALSE]

-----------------------------------------------------------------------------
(* The initial state: the service runs with some objects, no cache yet. *)

Init ==
  /\ svc \in [Path -> CpuPublished \cup FeaturePublished \cup {None}]
  /\ \A p \in Path : svc[p] \in PublishedAt(p) \cup {None}
  /\ up = TRUE
  /\ toService = <<>> /\ toClient = <<>>
  /\ mapper = [state |-> "idle", paths |-> {}]
  /\ matched = FALSE
  /\ cpus = [c \in CPUs |-> None]
  /\ features = [c \in CPUs |-> None]
  /\ thrown = {} /\ events = 0 /\ orphan = {} /\ missed = {}
  /\ everBad = {c \in CPUs : /\ svc[sstObjectPath(c)] # None
                             /\ ~svc[sstObjectPath(c)].ok}

-----------------------------------------------------------------------------
(* Service, bus and mapper *)

\* A signal reaches the cache only once its match is registered.
Emit(m) == toClient' = IF matched THEN Append(toClient, m) ELSE toClient

AddObject(p, props) ==
  /\ up /\ events < MaxEvents
  /\ svc[p] = None
  /\ svc' = [svc EXCEPT ![p] = props]
  /\ Emit(Added(p, props))
  /\ events' = events + 1
  /\ orphan' = orphan \ {p}
  /\ everBad' = IF p.featureID = sstTPMIID /\ ~props.ok
                THEN everBad \cup {p.cpuIndex} ELSE everBad
  /\ UNCHANGED <<up, toService, mapper, matched, cpus, features, thrown, missed>>

RemoveObject(p) ==
  /\ up /\ events < MaxEvents
  /\ svc[p] # None
  /\ svc' = [svc EXCEPT ![p] = None]
  /\ Emit(Removed(p))
  /\ events' = events + 1
  /\ UNCHANGED <<up, toService, mapper, matched, cpus, features, thrown,
                 orphan, missed, everBad>>

\* The process dies: its objects go with it and no signal says so.
ServiceCrash ==
  /\ up /\ events < MaxEvents
  /\ up' = FALSE
  /\ svc' = [p \in Path |-> None]
  /\ orphan' = orphan \cup {p \in Path : svc[p] # None}
  /\ events' = events + 1
  /\ UNCHANGED <<toService, toClient, mapper, matched, cpus, features, thrown,
                 missed, everBad>>

\* A restarted service never sees the calls made to its predecessor: the bus
\* has answered them all with an error (CallBounced).
ServiceRestart ==
  /\ ~up /\ toService = <<>>
  /\ up' = TRUE
  /\ UNCHANGED <<svc, toService, toClient, mapper, matched, cpus, features,
                 thrown, events, orphan, missed, everBad>>

\* The answer of the bus, or of a service without the object, to a call.
ErrorReply(r) ==
  IF r.type = "GetAll" THEN GetAllReply(r.path, None)
                       ELSE SetError(r.path, r.prop)

CallBounced ==
  /\ ~up /\ toService # <<>>
  /\ toService' = Tail(toService)
  /\ toClient' = Append(toClient, ErrorReply(Head(toService)))
  /\ UNCHANGED <<mapper, matched, cpus, features, thrown>>
  /\ UNCHANGED envVars

\* Properties.GetAll of the service.
ServeGetAll ==
  /\ up /\ toService # <<>> /\ Head(toService).type = "GetAll"
  /\ LET r == Head(toService) IN
       toClient' = Append(toClient, GetAllReply(r.path, svc[r.path]))
  /\ toService' = Tail(toService)
  /\ UNCHANGED <<mapper, matched, cpus, features, thrown>>
  /\ UNCHANGED envVars

\* Properties.Set of the service: a locked feature refuses it.
ServeSet ==
  /\ up /\ toService # <<>> /\ Head(toService).type = "Set"
  /\ LET r == Head(toService)
         f == svc[r.path]
     IN IF f # None /\ ~f.locked
        THEN /\ svc' = [svc EXCEPT ![r.path] = Write(f, r.prop)]
             /\ toClient' = Append(toClient, SetReply(r.path, r.prop))
        ELSE /\ UNCHANGED svc
             /\ toClient' = Append(toClient, ErrorReply(r))
  /\ toService' = Tail(toService)
  /\ UNCHANGED <<mapper, matched, cpus, features, thrown, up, events, orphan,
                 missed, everBad>>

\* A call the service never answers: the bus times it out.
CallLost ==
  /\ up /\ toService # <<>> /\ events < MaxEvents
  /\ toService' = Tail(toService)
  /\ toClient' = Append(toClient, ErrorReply(Head(toService)))
  /\ events' = events + 1
  /\ missed' = missed \cup {Head(toService).path.cpuIndex}
  /\ UNCHANGED <<svc, up, mapper, matched, cpus, features, thrown, orphan,
                 everBad>>

\* The mapper answers with the objects of the moment; the answer then takes
\* its time.  An error leaves the cache without the objects that exist.
MapperReply ==
  /\ mapper.state = "asked"
  /\ \/ /\ mapper' = [state |-> "replied", paths |-> {p \in Path : svc[p] # None}]
        /\ UNCHANGED <<events, missed>>
     \/ /\ events < MaxEvents
        /\ mapper' = [state |-> "failed", paths |-> {}]
        /\ events' = events + 1
        /\ missed' = CPUs
  /\ UNCHANGED <<svc, up, toService, toClient, matched, cpus, features, thrown,
                 orphan, everBad>>

-----------------------------------------------------------------------------
(* Client: the cache *)

Running == matched /\ thrown = {}

\* TPMIDBusCache(): the match is in place before GetSubTree is called.
Construct ==
  /\ ~matched
  /\ matched' = TRUE
  /\ mapper' = [state |-> "asked", paths |-> {}]
  /\ UNCHANGED <<toService, toClient, cpus, features, thrown>>
  /\ UNCHANGED envVars

\* Every order in which an unordered_map may be walked.
Orderings(S) ==
  {q \in [1..Cardinality(S) -> S] : \A i, j \in DOMAIN q : q[i] = q[j] => i = j}

handleGetTPMISubTree ==
  /\ Running /\ mapper.state \in {"replied", "failed"}
  /\ \E q \in Orderings({p \in mapper.paths : Relevant(p)}) :
       toService' = toService \o [i \in DOMAIN q |-> GetAll(q[i])]
  /\ mapper' = [state |-> "done", paths |-> {}]
  /\ UNCHANGED <<toClient, matched, cpus, features, thrown>>
  /\ UNCHANGED envVars

addCPU(c, props) ==
  /\ cpus' = [cpus EXCEPT ![c] = IF props.ok THEN props ELSE None]
  /\ UNCHANGED <<features, toService>>

removeCPU(c) ==
  /\ cpus' = [cpus EXCEPT ![c] = None]
  /\ UNCHANGED <<features, toService>>

removeFeature(c) ==
  /\ features' = [features EXCEPT ![c] = None]
  /\ UNCHANGED <<cpus, toService>>

\* Can addSSTFeature keep this feature?
Usable(f) == f.ok /\ (f.locked => f.enabled /\ ~f.usePCS)

\* Mutation of SetCalls: nothing is written.
SetCallsNone(c, f) == <<>>

\* The property writes addSSTFeature starts for a feature it keeps.
SetCalls(c, f) ==
  (IF f.enabled THEN <<>> ELSE <<Set(c, "enabled")>>)
    \o (IF f.usePCS THEN <<Set(c, "usePCS")>> ELSE <<>>)

\* Mutation of addSSTFeature: the entry waits until its properties are right.
addSSTFeatureLater(c, f) ==
  \/ /\ Usable(f)
     /\ toService' = toService \o SetCalls(c, f)
     /\ features' = [features EXCEPT ![c] = IF SetCalls(c, f) = <<>> THEN f ELSE @]
     /\ UNCHANGED cpus
  \/ ~Usable(f) /\ removeFeature(c)

addSSTFeature(c, f) ==
  \/ /\ Usable(f)
     /\ toService' = toService \o SetCalls(c, f)
     /\ features' = [features EXCEPT ![c] = f]
     /\ UNCHANGED cpus
  \/ ~Usable(f) /\ removeFeature(c)

addInterface(p, props) ==
  IF p.featureID = invalidPathComponent THEN addCPU(p.cpuIndex, props)
                                        ELSE addSSTFeature(p.cpuIndex, props)

removeInterface(p) ==
  IF p.featureID = invalidPathComponent THEN removeCPU(p.cpuIndex)
                                        ELSE removeFeature(p.cpuIndex)

Ignore == UNCHANGED <<cpus, features, toService>>

\* The message at the head of the service's channel is of one of these types.
Receive(types) ==
  /\ Running /\ toClient # <<>> /\ Head(toClient).type \in types
  /\ toClient' = Tail(toClient)
  /\ UNCHANGED <<mapper, matched>>
  /\ UNCHANGED envVars

handleTPMISignal ==
  /\ Receive({"Added", "Removed"})
  /\ LET m == Head(toClient) IN
       \/ ~Relevant(m.path) /\ Ignore
       \/ /\ Relevant(m.path) /\ m.type = "Added"
          /\ addInterface(m.path, m.props)
       \/ /\ Relevant(m.path) /\ m.type = "Removed"
          /\ removeInterface(m.path)
  /\ UNCHANGED thrown

handleGetAllReply ==
  /\ Receive({"GetAllReply"})
  /\ LET m == Head(toClient) IN
       \/ m.props = None /\ Ignore
       \/ m.props # None /\ addInterface(m.path, m.props)
  /\ UNCHANGED thrown

\* The completion of setProperty: features.at(index) throws when the entry is
\* gone, and nothing catches it.
handleSetReply ==
  /\ Receive({"SetReply", "SetError"})
  /\ LET m == Head(toClient)
         c == m.path.cpuIndex
     IN \/ m.type = "SetError" /\ UNCHANGED <<features, thrown>>
        \/ /\ m.type = "SetReply" /\ features[c] # None
           /\ features' = [features EXCEPT ![c] = Write(features[c], m.prop)]
           /\ UNCHANGED thrown
        \/ /\ m.type = "SetReply" /\ features[c] = None
           /\ thrown' = thrown \cup {c}
           /\ UNCHANGED features
  /\ UNCHANGED <<cpus, toService>>

\* SSTTPMI::ready() of a CPU.
ready(c) ==
  /\ cpus[c] # None /\ features[c] # None
  /\ features[c].enabled /\ ~features[c].usePCS

-----------------------------------------------------------------------------
Environment ==
  \/ \E p \in Path : \E props \in PublishedAt(p) : AddObject(p, props)
  \/ \E p \in Path : RemoveObject(p)
  \/ ServiceCrash
  \/ CallLost

Service == ServiceRestart \/ CallBounced \/ ServeGetAll \/ ServeSet \/ MapperReply

Client ==
  \/ Construct \/ handleGetTPMISubTree
  \/ handleTPMISignal \/ handleGetAllReply \/ handleSetReply

Next == Environment \/ Service \/ Client

Spec == Init /\ [][Next]_vars

\* The bus delivers what was sent, the service and the mapper serve what they
\* receive, and the cache's event loop runs its callbacks.  Nothing obliges the
\* environment to publish, withdraw, crash or lose anything.
FairSpec == Spec /\ WF_vars(Service) /\ WF_vars(Client)

-----------------------------------------------------------------------------
(* Properties *)

FeaturePath == {p \in Path : p.featureID # invalidPathComponent}

\* The type of every variable.
TypeOK ==
  /\ svc \in [Path -> Props \cup {None}]
  /\ \A p \in Path : svc[p] # None =>
       svc[p] \in IF p \in FeaturePath THEN FeatureProps ELSE CpuProps
  /\ up \in BOOLEAN /\ matched \in BOOLEAN
  /\ toService \in Seq(Request)
  /\ toClient \in Seq(Message)
  /\ mapper \in [state : {"idle", "asked", "replied", "failed", "done"},
                 paths : SUBSET Path]
  /\ cpus \in [CPUs -> CpuProps \cup {None}]
  /\ features \in [CPUs -> FeatureProps \cup {None}]
  /\ thrown \subseteq CPUs /\ missed \subseteq CPUs /\ everBad \subseteq CPUs
  /\ orphan \subseteq Path
  /\ events \in 0..MaxEvents

\* The callback of a successful Set always finds the entry it updates
\* (features.at(index) does not throw), although signals and a second reply may
\* have replaced or erased it since the call: the only way to lose the entry
\* is an object of that CPU whose properties do not unpack.
SetReplyFindsEntry == thrown \subseteq everBad

\* Nothing is on its way any more.
Drained ==
  /\ mapper.state = "done"
  /\ toService = <<>> /\ toClient = <<>>

\* Once nothing is in flight the cache agrees with the service on every object:
\* none missed between registering the match and the GetSubTree answer, none
\* kept after its removal, no value overwritten by an older one.  The exceptions
\* are calls that failed (the cache does not retry them) and objects that
\* vanished in a crash of the service (no signal says so, and the cache does not
\* watch the owner of the name).
DrainedAgreement ==
  Drained /\ thrown = {} =>
    \A c \in CPUs \ missed :
      /\ cpuObjectPath(c) \notin orphan =>
           cpus[c] = IF /\ svc[cpuObjectPath(c)] # None
                        /\ svc[cpuObjectPath(c)].ok
                     THEN svc[cpuObjectPath(c)] ELSE None
      /\ sstObjectPath(c) \notin orphan =>
           features[c] = IF /\ svc[sstObjectPath(c)] # None
                            /\ Usable(svc[sstObjectPath(c)])
                         THEN svc[sstObjectPath(c)] ELSE None

\* The object of a CPU and its SST feature stay published and can be used.
Serviceable(c) ==
  /\ svc[cpuObjectPath(c)] # None /\ svc[cpuObjectPath(c)].ok
  /\ svc[sstObjectPath(c)] # None /\ Usable(svc[sstObjectPath(c)])

\* A CPU whose objects stay published with a feature that is unlocked, or locked
\* in the right state, ends up ready for good, unless a call for it failed or the
\* daemon died of a malformed object.
EventuallyReady ==
  \A c \in CPUs :
    <>[]Serviceable(c) => <>[](ready(c) \/ c \in missed \/ thrown # {})

-----------------------------------------------------------------------------
(***************************************************************************)
(* The inductive strengthening of SetReplyFindsEntry.  It follows one      *)
(* message through the channel: whatever erases the entry of a CPU whose   *)
(* object accepts writes is followed by a message that adds it again, and  *)
(* a Set reply is never preceded by an erasure without such an addition.   *)
(***************************************************************************)

\* The messages that leave an entry for CPU c, and those that leave none.
Adds(m, c) ==
  /\ m.path = sstObjectPath(c) /\ m.type \in {"Added", "GetAllReply"}
  /\ m.props # None /\ Usable(m.props)
Erases(m, c) ==
  /\ m.path = sstObjectPath(c)
  /\ \/ m.type = "Removed"
     \/ /\ m.type \in {"Added", "GetAllReply"}
        /\ m.props # None /\ ~Usable(m.props)

\* The service would accept a Set for CPU c.
Settable(c) == svc[sstObjectPath(c)] # None /\ ~svc[sstObjectPath(c)].locked

\* A Set for CPU c is on its way to the service.
SetPending(c) ==
  \E i \in 1..Len(toService) :
    toService[i].type = "Set" /\ toService[i].path = sstObjectPath(c)

\* Messages carry properties of the right kind; an Added always has some.
MessagesOK ==
  \A i \in 1..Len(toClient) :
    /\ toClient[i].type = "Added" => toClient[i].props # None
    /\ toClient[i].type = "GetAllReply" => Relevant(toClient[i].path)
    /\ toClient[i].type \in {"SetReply", "SetError"} =>
         /\ toClient[i].path.featureID = sstTPMIID
         /\ toClient[i].prop \in MutableProperty
    /\ toClient[i].props # None =>
         toClient[i].props \in IF toClient[i].path \in FeaturePath
                               THEN FeatureProps ELSE CpuProps

\* Before the constructor has run there is nothing in flight and no entry.
QuietBefore ==
  ~matched => /\ toService = <<>> /\ toClient = <<>>
              /\ \A c \in CPUs : features[c] = None

\* A published feature that does not unpack is on record.
BadRecorded ==
  \A c \in CPUs \ everBad : svc[sstObjectPath(c)] # None => svc[sstObjectPath(c)].ok

ErasedIsAddedAgain ==
  \A c \in CPUs \ everBad : Settable(c) =>
    \A k \in 1..Len(toClient) : Erases(toClient[k], c) =>
      \E j \in k+1..Len(toClient) : Adds(toClient[j], c)

PendingHasEntry ==
  \A c \in CPUs \ everBad :
    Settable(c) /\ SetPending(c)
      /\ (\A k \in 1..Len(toClient) : ~Adds(toClient[k], c))
    => features[c] # None

ReplyHasEntry ==
  \A c \in CPUs \ everBad : \A i \in 1..Len(toClient) :
    toClient[i].type = "SetReply" /\ toClient[i].path = sstObjectPath(c) =>
      /\ \A k \in 1..i-1 : Erases(toClient[k], c) =>
           \E j \in k+1..i-1 : Adds(toClient[j], c)
      /\ (\A k \in 1..i-1 : ~Adds(toClient[k], c)) => features[c] # None

\* The inductive invariant behind SetReplyFindsEntry: what the channels and the
\* service may hold, so that an entry is there whenever a Set reply is handled.
EntryInv ==
  /\ MessagesOK /\ QuietBefore /\ BadRecorded
  /\ ErasedIsAddedAgain /\ PendingHasEntry /\ ReplyHasEntry
  /\ SetReplyFindsEntry

=============================================================================
