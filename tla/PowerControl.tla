----------------------------- MODULE PowerControl -----------------------------
(***************************************************************************)
(* The Redfish Power routes with Node Manager limits (power.hpp and        *)
(* power_utility.hpp): GET and PATCH of the whole PowerControl array and   *)
(* of one of its nodes.                                                    *)
(*                                                                         *)
(* The calls to the NodeManager service share one FIFO queue; answering    *)
(* the call at its head and running the callback is one step.  The object  *)
(* mapper is another peer: its answers come in any order.  A response is   *)
(* sent when the last callback that holds it is gone.                      *)
(*                                                                         *)
(* A node of the array is <<domain, device>>.  The value of a limit is the *)
(* request that wrote it, or Default.                                      *)
(***************************************************************************)
EXTENDS Integers, Sequences, FiniteSets, SequencesExt

CONSTANTS Requests,   \* the Redfish requests of a behaviour
          Topologies, \* the AvailableComponents the domains may have, each listed once
          Kinds,      \* the routes that are called
          Names,      \* the nodes the routes of one node are called with
          Entries,    \* what a PATCH may carry for a node
          Default,    \* writer of a limit set by updatePolicyToDefaults
          MaxFaults   \* bound on the refused calls and the changes of the components

cpuDomainId == "CPUSubsystem"
memoryDomainId == "MemorySubsystem"
pcieDomainId == "PCIe"
dcTotalPowerDomainId == "DCTotalPlatformPower"
Domains == {cpuDomainId, memoryDomainId, pcieDomainId}
allDevices == 255
powerRootNode == 0
tempNode == 1

LimitProps == {"LimitInWatts", "LimitException", "CorrectionInMs"}

\* What a PATCH carries for a node.  reads: the object reads; powerReads: its
\* PowerLimit does.  An "invalid" value is a string the mapping does not have.
Entry == [reads : BOOLEAN, powerReads : BOOLEAN,
          power : [LimitProps -> {"absent", "null", "value", "invalid"}],
          oem : {"absent", "null", "value", "invalid", "unreadable"}]

ASSUME PowerControlAssumption ==
  /\ Topologies \subseteq [Domains -> Seq(0..254)]
  /\ \A t \in Topologies, d \in Domains : \A i, j \in DOMAIN t[d] : t[d][i] = t[d][j] => i = j
  /\ Kinds \subseteq {"getAll", "getOne", "patchAll", "patchOne"}
  /\ Entries \subseteq Entry
  /\ Default \notin Requests
  /\ MaxFaults \in Nat

NoEntry == [reads |-> TRUE, powerReads |-> TRUE,
            power |-> [p \in LimitProps |-> "absent"], oem |-> "absent"]

root == <<dcTotalPowerDomainId, allDevices>>
NodesOf(t) ==
  {root} \cup UNION {{<<d, allDevices>>} \cup {<<d, t[d][i]>> : i \in DOMAIN t[d]} : d \in Domains}
Nodes == UNION {NodesOf(t) : t \in Topologies}

VARIABLES
  present,  \* service: the available components of every domain
  policy,   \* service: node -> its limit, and who enabled it (Default: disabled)
  calls,    \* the calls on their way to the service
  req,      \* bmcweb: the state of every request
  crashed,  \* an exception has ended bmcweb, which was started again
  faults, changes,
  overlap   \* history: <<r, s>>, r and s were in progress at the same time

vars == <<present, policy, calls, req, crashed, faults, changes, overlap>>

Call(r, op, node, arg) == [by |-> r, op |-> op, node |-> node, arg |-> arg]

\* lookups: questions to the mapper not yet answered.  comps: the components read so
\* far.  base: the array the client of a PATCH echoes.  layout: the array a GET
\* shows, or the one a PATCH applies to; shape: its form.  shown: the limits a GET
\* read.  listed: the nodes were found.  done, failed: history, what the calls did.
\* earlier: history, the requests answered before this one arrived.
Fresh == [stage |-> "new", kind |-> "getAll", name |-> root, entries |-> <<>>,
          base |-> <<>>, lookups |-> {}, comps |-> [d \in {} |-> <<>>], layout |-> <<>>,
          shape |-> "array", shown |-> [n \in {} |-> Default], status |-> "ok",
          listed |-> FALSE, done |-> {}, failed |-> {}, earlier |-> {}]

Init ==
  /\ present \in Topologies
  /\ policy = [n \in Nodes |-> [limit |-> Default, enabled |-> Default]]
  /\ calls = <<>> /\ overlap = {} /\ crashed = FALSE /\ faults = 0 /\ changes = 0
  /\ req = [r \in Requests |-> Fresh]

-----------------------------------------------------------------------------
(* The array of nodes *)

\* Mutation of buildDomainPolicyMap: the processors come first.
buildDomainPolicyMapCpuFirst(t) ==
  LET group(d) == [i \in DOMAIN t[d] |-> <<d, t[d][i]>>] \o <<<<d, allDevices>>>> IN
  <<root>> \o group(cpuDomainId) \o group(pcieDomainId) \o group(memoryDomainId)

\* The nodes as a PATCH indexes them.
buildDomainPolicyMap(t) ==
  LET group(d) == [i \in DOMAIN t[d] |-> <<d, t[d][i]>>] \o <<<<d, allDevices>>>> IN
  <<root>> \o group(pcieDomainId) \o group(cpuDomainId) \o group(memoryDomainId)

\* The places of a group of nodes in the array of a GET: the components from an
\* offset on, then the aggregate.
getNmDmtfGroup(offset, components, d) ==
  {<<offset + i - 1, <<d, components[i]>>>> : i \in DOMAIN components}
    \cup {<<offset + Len(components), <<d, allDevices>>>>}

\* The nodes as a GET shows them.
collectNmDmtfData(t) ==
  LET accelerators == t[pcieDomainId]
      processors == t[cpuDomainId]
      memories == t[memoryDomainId]
      places == {<<powerRootNode, root>>}
        \cup getNmDmtfGroup(1, accelerators, pcieDomainId)
        \cup getNmDmtfGroup(2 + Len(accelerators), processors, cpuDomainId)
        \cup getNmDmtfGroup(3 + Len(accelerators) + Len(processors), memories, memoryDomainId)
  IN [i \in 1..Cardinality(places) |-> CHOOSE n \in Nodes : <<i - 1, n>> \in places]

-----------------------------------------------------------------------------
(* What the handlers send *)

\* The seven reads of a node, in the order of getPowerControlComponentNode.
NodeReads == <<"requestedWatts", "capacity", "consumed", "powerLimit", "oem",
               "metrics", "status">>
ReadCalls(r, node) == [i \in DOMAIN NodeReads |-> Call(r, "read", node, NodeReads[i])]

\* Mutation of updatePolicyToDefaults: the policy is not disabled.
updatePolicyToDefaultsOnly(r, node) == <<Call(r, "update", node, "defaults")>>

updatePolicyToDefaults(r, node) ==
  <<Call(r, "update", node, "defaults"), Call(r, "disable", node, "Enabled")>>

\* The property of PolicyAttributes a value in the request is for.
SetCall(r, node, e, p) == IF e.power[p] = "value" THEN <<Call(r, "set", node, p)>> ELSE <<>>

\* Every null resets the policy; what is left is set, if it reads.
patchPowerLimit(r, node, e) ==
  FlattenSeq([i \in 1..Cardinality({p \in LimitProps : e.power[p] = "null"}) |->
                updatePolicyToDefaults(r, node)])
    \o IF e.powerReads
       THEN SetCall(r, node, e, "LimitInWatts") \o SetCall(r, node, e, "LimitException")
              \o SetCall(r, node, e, "CorrectionInMs")
       ELSE <<>>

patchOem(r, node, e) ==
  IF e.oem = "value" THEN <<Call(r, "storage", node, "PowerLimitStorage")>> ELSE <<>>

\* The entry makes the response a bad request, whatever the service answers.
Bad(e) ==
  \/ ~e.reads \/ ~e.powerReads
  \/ e.power["LimitException"] = "invalid" \/ e.oem \in {"invalid", "unreadable"}

-----------------------------------------------------------------------------
(* Answers *)

\* Mutation of Waits: only the calls to the service hold the response.
WaitsForCalls(r, rec, queue) == \E i \in DOMAIN queue : queue[i].by = r

\* Something still holds the response.
Waits(r, rec, queue) == rec.lookups # {} \/ \E i \in DOMAIN queue : queue[i].by = r

\* A callback of r made rec of the request; queue is now on its way.  The response
\* is sent when nothing holds it any more.
Continue(r, rec, queue) ==
  /\ calls' = queue
  /\ req' = [req EXCEPT ![r] =
       [rec EXCEPT !.stage = IF Waits(r, rec, queue) THEN "busy" ELSE "done"]]

\* A question to the mapper was answered and leads to others.
Asked(rec, lookup, next) == [rec EXCEPT !.lookups = (@ \ {lookup}) \cup next]
Status(rec, status) == [rec EXCEPT !.status = status]

\* getComponents begins.
getComponents(r, rec) ==
  Continue(r, rec, Append(calls, Call(r, "components", root, cpuDomainId)))

\* A domain could not be read: only the GET of one node has an error handler.
componentsError(rec) ==
  IF rec.kind = "getOne" THEN Status(rec, "serviceInUnknownState") ELSE rec

\* GetSubTreePaths of the chassis, before anything but a PATCH of the array.
chassisHandler(r) ==
  /\ "chassis" \in req[r].lookups
  /\ \E found \in BOOLEAN :
       LET rec == Asked(req[r], "chassis", IF found THEN {"object"} ELSE {})
           patch == found /\ rec.kind = "patchOne"
       IN Continue(r, IF patch THEN Status(rec, "no_content") ELSE rec, calls)
  /\ UNCHANGED <<present, policy, crashed, faults, changes, overlap>>

\* The path of the chassis, beside chassisHandler for a GET of the array.
doPowerHeader(r) ==
  /\ "header" \in req[r].lookups
  /\ \E found \in BOOLEAN :
       LET rec == Asked(req[r], "header", {}) IN
       Continue(r, IF found THEN rec ELSE Status(rec, "resourceNotFound"), calls)
  /\ UNCHANGED <<present, policy, crashed, faults, changes, overlap>>

\* GetObject of the service.  Only a PATCH of the array looks at the error; for the
\* others the empty name makes the first read of the components fail.
selectNmService(r) ==
  /\ "object" \in req[r].lookups
  /\ LET rec == Asked(req[r], "object", {}) IN
       \/ /\ rec.kind = "patchAll"
          /\ \/ Continue(r, Status(rec, "internalError"), calls)
             \/ rec.entries = <<>> /\ Continue(r, rec, calls)
             \/ Continue(r, Status(rec, "badRequest"), calls)
             \/ Continue(r, Asked(rec, "object", {"path"}), calls)
       \/ rec.kind # "patchAll" /\ getComponents(r, rec)
       \/ rec.kind # "patchAll" /\ Continue(r, componentsError(rec), calls)
  /\ UNCHANGED <<present, policy, crashed, faults, changes, overlap>>

\* getValidChassisPath of a PATCH of the array.
setPowerCapOverride(r) ==
  /\ "path" \in req[r].lookups
  /\ LET rec == Asked(req[r], "path", {}) IN
       \/ Continue(r, Status(rec, "resourceNotFound"), calls)
       \/ rec.entries = <<>> /\ Continue(r, rec, calls)
       \/ rec.entries # <<>> /\ getComponents(r, rec)
  /\ UNCHANGED <<present, policy, crashed, faults, changes, overlap>>

\* The nodes in the order a GET reads them: the aggregate of a group comes first.
ReadOrder(t) ==
  LET group(d) == <<<<d, allDevices>>>> \o [i \in DOMAIN t[d] |-> <<d, t[d][i]>>] IN
  <<root>> \o group(pcieDomainId) \o group(cpuDomainId) \o group(memoryDomainId)

\* The callback of the last getComponents call, for a GET.
ShowNodes(r, rec, rest) ==
  \/ /\ rec.kind = "getAll"
     /\ LET nodes == ReadOrder(rec.comps) IN
          Continue(r, [rec EXCEPT !.layout = collectNmDmtfData(rec.comps)],
                   rest \o FlattenSeq([i \in DOMAIN nodes |-> ReadCalls(r, nodes[i])]))
  \/ /\ rec.kind = "getOne" /\ Contains(buildDomainPolicyMap(rec.comps), rec.name)
     /\ Continue(r, [rec EXCEPT !.listed = TRUE], rest \o ReadCalls(r, rec.name))
  \/ /\ rec.kind = "getOne" /\ ~Contains(buildDomainPolicyMap(rec.comps), rec.name)
     /\ Continue(r, Status(rec, "resourceNotFound"), rest)

\* The same for a PATCH of one node.
PatchNode(r, rec, rest) ==
  LET e == rec.entries[1] IN
  /\ rec.kind = "patchOne"
  /\ IF ~e.reads THEN Continue(r, Status(rec, "badRequest"), rest)
     ELSE IF ~Contains(buildDomainPolicyMap(rec.comps), rec.name)
     THEN Continue(r, Status(rec, "resourceNotFound"), rest)
     ELSE Continue(r, [rec EXCEPT !.status = IF Bad(e) THEN "badRequest" ELSE @,
                                  !.listed = TRUE],
                   rest \o patchPowerLimit(r, rec.name, e) \o patchOem(r, rec.name, e))

\* Terminated by an exception in a callback of r, which had made rec of it: all
\* requests are lost, and of the calls some prefix has left the process.
Crash(r, rec, queue) ==
  LET last == [req EXCEPT ![r] = rec] IN
  /\ crashed' = TRUE
  /\ \E n \in 0..Len(queue) : calls' = SubSeq(queue, 1, n)
  /\ req' = [s \in Requests |->
       IF last[s].stage = "busy" THEN [last[s] EXCEPT !.stage = "lost", !.lookups = {}]
       ELSE last[s]]

\* The same for a PATCH of the array: the loop over its entries.  It ends at the
\* first one that does not read, and list.at throws past the end of the list.  The
\* second patch of an Oem object finds it as it was or emptied by the first.
PatchNodes(r, rec, rest) ==
  LET list == buildDomainPolicyMap(rec.comps)
      es == rec.entries
      stop == {i \in DOMAIN es : i > Len(list) \/ ~es[i].reads}
      n == IF stop = {} THEN Len(es) ELSE (CHOOSE i \in stop : \A j \in stop : i <= j) - 1
  IN /\ rec.kind = "patchAll"
     /\ \E again \in BOOLEAN :
          LET entry(i) ==
                patchOem(r, list[i], es[i]) \o patchPowerLimit(r, list[i], es[i])
                  \o IF again THEN patchOem(r, list[i], es[i]) ELSE <<>>
              sent == rest \o FlattenSeq([i \in 1..n |-> entry(i)])
              bad == (stop # {} /\ n < Len(list)) \/ \E i \in 1..n : Bad(es[i])
              applied == [rec EXCEPT !.status = IF bad THEN "badRequest" ELSE @,
                                     !.layout = list, !.listed = TRUE]
          IN IF stop # {} /\ n >= Len(list)
             THEN Crash(r, applied, sent)
             ELSE Continue(r, applied, sent) /\ UNCHANGED crashed

\* The service says which components a domain has.
ServeComponents ==
  /\ calls # <<>> /\ Head(calls).op = "components" /\ req[Head(calls).by].stage = "busy"
  /\ LET r == Head(calls).by
         d == Head(calls).arg
         rec == [req[r] EXCEPT !.comps =
                   [x \in DOMAIN @ \cup {d} |-> IF x = d THEN present[d] ELSE @[x]]]
         next(e) == Continue(r, rec, Append(Tail(calls), Call(r, "components", root, e)))
     IN \/ d = cpuDomainId /\ next(memoryDomainId) /\ UNCHANGED crashed
        \/ d = memoryDomainId /\ next(pcieDomainId) /\ UNCHANGED crashed
        \/ d = pcieDomainId /\ ShowNodes(r, rec, Tail(calls)) /\ UNCHANGED crashed
        \/ d = pcieDomainId /\ PatchNode(r, rec, Tail(calls)) /\ UNCHANGED crashed
        \/ d = pcieDomainId /\ PatchNodes(r, rec, Tail(calls))
  /\ UNCHANGED <<present, policy, faults, changes, overlap>>

Exists(node) == node \in NodesOf(present)

\* Mutation of Holders: getStatus is not given the FinalCallback.
HoldersButStatus == {"requestedWatts", "capacity", "consumed", "powerLimit", "oem", "metrics"}

\* The reads that keep the FinalCallback of a GET of one node.
Holders == {"requestedWatts", "capacity", "consumed", "powerLimit", "oem", "metrics", "status"}

\* The response after the answer to a read: written into the array, and once no
\* read holds the FinalCallback the array is replaced by its node.
Shape(rec, r, rest) ==
  IF rec.kind = "getAll" THEN "array"
  ELSE IF rec.shape = "node" THEN "mixed"
  ELSE IF \E i \in DOMAIN rest : rest[i].by = r /\ rest[i].arg \in Holders THEN rec.shape
  ELSE "node"

\* What getPowerLimit shows: nothing for a disabled policy.
getPowerLimit(node) ==
  IF policy[node].enabled = Default THEN Default ELSE policy[node].limit

ServeRead ==
  /\ calls # <<>> /\ Head(calls).op = "read" /\ req[Head(calls).by].stage = "busy"
  /\ Exists(Head(calls).node)
  /\ LET c == Head(calls)
         rec == [req[c.by] EXCEPT !.shape = Shape(req[c.by], c.by, Tail(calls))]
     IN Continue(c.by, IF c.arg = "powerLimit"
                       THEN [rec EXCEPT !.shown = [n \in DOMAIN @ \cup {c.node} |->
                               IF n = c.node THEN getPowerLimit(n) ELSE @[n]]]
                       ELSE rec,
                 Tail(calls))
  /\ UNCHANGED <<present, policy, crashed, faults, changes, overlap>>

\* Mutation of FollowUp: setting CorrectionInMs does not enable the policy.
FollowUpNotCorrection(c) ==
  IF c.op = "set" /\ c.arg # "CorrectionInMs" THEN <<[c EXCEPT !.op = "enable"]>> ELSE <<>>

\* Mutation of FollowUp: setting a value does not enable the policy.
FollowUpNever(c) == <<>>

\* enablePolicy is called when a value of the limit was set.
FollowUp(c) == IF c.op = "set" THEN <<[c EXCEPT !.op = "enable"]>> ELSE <<>>

\* What the service does for a call that changes a policy.
Effect(c) ==
  policy' = CASE c.op = "set" /\ c.arg = "LimitInWatts" -> [policy EXCEPT ![c.node].limit = c.by]
              [] c.op = "update" -> [policy EXCEPT ![c.node].limit = Default]
              [] c.op = "enable" -> [policy EXCEPT ![c.node].enabled = c.by]
              [] c.op = "disable" -> [policy EXCEPT ![c.node].enabled = Default]
              [] OTHER -> policy

Modifies(c) == c.op \in {"set", "storage", "update", "disable", "enable"}

ServeModify ==
  /\ calls # <<>> /\ Modifies(Head(calls)) /\ req[Head(calls).by].stage = "busy"
  /\ Exists(Head(calls).node)
  /\ LET c == Head(calls) IN
       /\ Effect(c)
       /\ Continue(c.by, [req[c.by] EXCEPT !.done = @ \cup {<<c.node, c.op, c.arg>>}],
                   Tail(calls) \o FollowUp(c))
  /\ UNCHANGED <<present, crashed, faults, changes, overlap>>

\* The response to an error of a call.  A read is left out of the response; an
\* answer of a read that lacks a property makes it an internal error.
ErrorResponses(c, rec) ==
  CASE c.op = "components" -> {componentsError(rec)}
    [] c.op = "read" /\ c.arg \in {"requestedWatts", "metrics"} -> {rec}
    [] c.op = "read" -> {rec, Status(rec, "internalError")}
    [] c.op \in {"set", "storage", "enable"} -> {Status(rec, "badRequest")}
    [] OTHER -> {rec}

\* The call is refused: the node is gone, or for another reason.  The answer to a
\* call that was executed may also be late.
ServeError ==
  /\ calls # <<>> /\ req[Head(calls).by].stage = "busy"
  /\ IF Exists(Head(calls).node) THEN faults + changes < MaxFaults /\ faults' = faults + 1
     ELSE UNCHANGED faults
  /\ LET c == Head(calls)
         shape == IF c.op = "read" /\ req[c.by].shape = "array"
                  THEN Shape(req[c.by], c.by, Tail(calls)) ELSE req[c.by].shape
     IN /\ \E rec \in ErrorResponses(c, req[c.by]) :
             Continue(c.by, [rec EXCEPT !.shape = shape,
                               !.failed = IF Modifies(c) THEN @ \cup {<<c.node, c.op, c.arg>>} ELSE @],
                      Tail(calls))
        /\ \/ UNCHANGED policy
           \/ Modifies(c) /\ Exists(c.node) /\ Effect(c)
  /\ UNCHANGED <<present, crashed, changes, overlap>>

\* A call of a process that is gone is executed, or refused; nobody hears of it.
ServeLost ==
  /\ calls # <<>> /\ req[Head(calls).by].stage = "lost"
  /\ calls' = Tail(calls)
  /\ UNCHANGED policy \/ (Exists(Head(calls).node) /\ Effect(Head(calls)))
  /\ UNCHANGED <<present, req, crashed, faults, changes, overlap>>

-----------------------------------------------------------------------------
(* Requests and the platform *)

Busy(s) == req[s].stage = "busy" \/ \E i \in DOMAIN calls : calls[i].by = s

Arrive(r, kind, name, entries, base) ==
  /\ req[r].stage = "new" /\ kind \in Kinds
  /\ req' = [req EXCEPT ![r] =
       [Fresh EXCEPT !.stage = "busy", !.kind = kind, !.name = name,
          !.entries = entries, !.base = base,
          !.status = IF kind = "patchAll" THEN "no_content" ELSE "ok",
          !.lookups = CASE kind = "getAll" -> {"chassis", "header"}
                        [] kind = "patchAll" -> {"object"}
                        [] OTHER -> {"chassis"},
          !.earlier = {s \in Requests : req[s].stage = "done"}]]
  /\ overlap' = overlap \cup UNION {{<<r, s>>, <<s, r>>} : s \in {s \in Requests : Busy(s)}}
  /\ UNCHANGED <<present, policy, calls, crashed, faults, changes>>

\* A PATCH of the array echoes one that a GET showed, with one or two entries filled
\* in.
SomeArrival(r) ==
  \/ Arrive(r, "getAll", root, <<>>, <<>>)
  \/ \E name \in Names : Arrive(r, "getOne", name, <<>>, <<>>)
  \/ \E name \in Names, e \in Entries : Arrive(r, "patchOne", name, <<e>>, <<>>)
  \/ \E g \in Requests :
       /\ req[g].kind = "getAll" /\ req[g].stage = "done"
       /\ LET base == req[g].layout IN
          \E e, f \in Entries, i, j \in DOMAIN base :
            /\ i <= j /\ (i = j => e = f)
            /\ Arrive(r, "patchAll", root,
                      [k \in DOMAIN base |->
                         IF k = i THEN e ELSE IF k = j THEN f ELSE NoEntry], base)

\* Components come and go: the service drops the policies of those that left.
ChangeComponents ==
  /\ faults + changes < MaxFaults /\ changes' = changes + 1
  /\ \E t \in Topologies \ {present} :
       /\ present' = t
       /\ policy' = [n \in Nodes |-> IF n \in NodesOf(t) /\ n \in NodesOf(present)
                                     THEN policy[n]
                                     ELSE [limit |-> Default, enabled |-> Default]]
  /\ UNCHANGED <<calls, req, crashed, faults, overlap>>

MapperAnswers(r) ==
  chassisHandler(r) \/ doPowerHeader(r) \/ selectNmService(r) \/ setPowerCapOverride(r)

Serve == ServeComponents \/ ServeRead \/ ServeModify \/ ServeError \/ ServeLost

Next ==
  \/ \E r \in Requests : SomeArrival(r) \/ MapperAnswers(r)
  \/ Serve \/ ChangeComponents

Spec == Init /\ [][Next]_vars

-----------------------------------------------------------------------------
(* Properties *)

\* The type of every variable; a request is busy just while a lookup or a call of
\* it is under way.
TypeOK ==
  /\ present \in Topologies
  /\ policy \in [Nodes -> [limit : Requests \cup {Default}, enabled : Requests \cup {Default}]]
  /\ \A i \in DOMAIN calls : calls[i].by \in Requests /\ calls[i].node \in Nodes
  /\ crashed \in BOOLEAN /\ faults \in 0..MaxFaults /\ changes \in 0..MaxFaults
  /\ overlap \subseteq Requests \X Requests
  /\ \A r \in Requests :
       /\ req[r].lookups \subseteq {"chassis", "header", "object", "path"}
       /\ req[r].stage = "busy" <=>
            /\ req[r].stage # "lost"
            /\ req[r].lookups # {} \/ \E i \in DOMAIN calls : calls[i].by = r
       /\ req[r].shape \in {"array", "node", "mixed"}
       /\ DOMAIN req[r].shown \subseteq Nodes

Patch(r) == req[r].kind \in {"patchOne", "patchAll"}

\* The nodes a PATCH is about with what it carries for them.
Targets(r) ==
  IF ~Patch(r) \/ ~req[r].listed THEN {}
  ELSE IF req[r].kind = "patchOne" THEN {<<req[r].name, req[r].entries[1]>>}
  ELSE {<<req[r].layout[i], req[r].entries[i]>> :
          i \in DOMAIN req[r].layout \cap DOMAIN req[r].entries}

GivesLimit(r, n) == \E e \in Entries : <<n, e>> \in Targets(r) /\ e.power["LimitInWatts"] = "value"
Resets(r, n) == \E e \in Entries : <<n, e>> \in Targets(r) /\ \E p \in LimitProps : e.power[p] = "null"
Succeeded(r) == req[r].stage = "done" /\ req[r].status = "no_content"

\* The index of a node in the array a GET shows is its index in the list a PATCH
\* applies its entries to: while the components stay the same, each entry of an
\* echoed array reaches the policy it was shown with, and list.at does not throw,
\* which would end the server with the requests of everybody.
AppliedWhereMeant ==
  changes = 0 =>
    /\ ~crashed
    /\ \A r \in Requests :
         req[r].kind = "patchAll" /\ req[r].listed => req[r].layout = req[r].base

\* A PATCH that found its policies and reports success has set every value it
\* carried and has enabled the policy after each of them.
SuccessMeansApplied ==
  \A r \in Requests : Succeeded(r) /\ Patch(r) =>
    \A t \in Targets(r) :
      /\ ~Bad(t[2])
      /\ \A p \in LimitProps : t[2].power[p] = "value" =>
           {<<t[1], "set", p>>, <<t[1], "enable", p>>} \subseteq req[r].done
      /\ t[2].oem = "value" => <<t[1], "storage", "PowerLimitStorage">> \in req[r].done

\* The limit an enabled policy was given is replaced by the default only if a
\* request that resets the policy overlaps with the one that enabled it, or if its
\* disabling of the policy is yet to come, failed or was lost.  A component that left
\* and came back is another matter: its policy is new, and a late enablePolicy finds it.
LimitKept ==
  \A n \in Nodes, r \in Requests :
    /\ changes < 2
    /\ policy[n].enabled = r /\ policy[n].limit = Default
    /\ GivesLimit(r, n) /\ <<n, "set", "LimitInWatts">> \in req[r].done
    => \E s \in Requests \ {r} :
         /\ Resets(s, n)
         /\ \/ <<r, s>> \in overlap
            \/ \E i \in DOMAIN calls : calls[i] = Call(s, "disable", n, "Enabled")
            \/ <<n, "disable", "Enabled">> \in req[s].failed
            \/ req[s].stage = "lost"

\* A GET that comes after the success of a PATCH shows its limit, unless another
\* PATCH of the node, not over before, may have replaced it.
ReadsWhatWasSet ==
  \A g, r \in Requests : r \in req[g].earlier /\ Succeeded(r) =>
    \A n \in DOMAIN req[g].shown :
      GivesLimit(r, n) /\ changes = 0 =>
        \/ req[g].shown[n] = r
        \/ \E s \in Requests \ {r} : Patch(s) /\ s \notin req[r].earlier /\ Targets(s) # {}

\* The response to a GET of one node is the node: the array it was collected in is
\* replaced after the last answer, and nothing is written into it after that.
OneNodeShown ==
  \A r \in Requests : req[r].kind = "getOne" =>
    /\ req[r].shape # "mixed"
    /\ req[r].stage = "done" /\ req[r].listed => req[r].shape = "node"

=============================================================================
