------------------------------ MODULE NmPolicies ------------------------------
(***************************************************************************)
(* The Redfish handlers of the Node Manager policy collection              *)
(* (policies_collection.hpp and nm_common.hpp) against the NodeManager     *)
(* service they drive over D-Bus.                                          *)
(*                                                                         *)
(* A request is a chain of asynchronous D-Bus calls; bmcweb runs the       *)
(* callbacks of all requests on one thread, so the chains interleave call  *)
(* by call.  Serving a call and running its callback is one step here: a   *)
(* callback touches only its own request.  Calls one request has in flight *)
(* together stay in order (calls).  The response is sent when the last     *)
(* callback has run, with the status written last.                         *)
(*                                                                         *)
(* A policy lives at [domain, id].  limit and corr stand for the           *)
(* attributes a request may set, extra for SuspendPeriods and Thresholds,  *)
(* which the handlers always send empty.                                   *)
(***************************************************************************)
EXTENDS Integers, Sequences, FiniteSets

CONSTANTS Requests,   \* the Redfish requests of a behaviour
          PolicyIds,  \* policy names
          DomainIds,  \* domains of the Node Manager
          HwProtection, \* the domain named HWProtection
          Values,     \* values of limit and of corr
          Initial,    \* the policies there may be at first
          Bodies,     \* the attributes requests carry
          None,       \* no policy, attribute not in the request, or no body
          MaxOthers   \* bound on what other users of the service do

Path == [domain : DomainIds, id : PolicyIds]
Policy == [owner : {"bmc", "other"}, limit : Values, corr : Values,
           extra : BOOLEAN, enabled : BOOLEAN, version : Nat]
Params == [limit : Values \cup {None}, corr : Values \cup {None}]

ASSUME NmAssumption ==
  /\ None \notin Values /\ PolicyIds # {} /\ DomainIds # {}
  /\ Initial \subseteq {policy \in Policy : policy.version = 0}
  /\ Bodies \subseteq Params
  /\ MaxOthers \in Nat

Modifying == {"delete", "patch", "changeState", "create"}
Kinds == Modifying \cup {"list", "get", "reset"}

\* The responses: ok is preset, an error or a success overwrites what is there.
\* badRequest stands for the messages about a value or a body that does not convert
\* (propertyValueIncorrect, propertyMissing, malformedJSON, actionParameter...).
Success == {"ok", "no_content", "created"}
Refusals == {"resourceNotFound", "resourceCannotBeDeleted", "operationNotAllowed",
             "badRequest", "conflict", "notSupported", "operationFailed"}
Statuses == Success \cup Refusals \cup {"internalError"}

VARIABLES
  policies,  \* service: Path -> Policy, or None
  clock,     \* service: number of modifications so far (versions of policies)
  others,    \* number of steps of other users of the service
  req        \* bmcweb: the state of every request

vars == <<policies, clock, others, req>>

\* stage: what the request waits for.  read: the policy as the request found it, or
\* created it.  shown: the policy in the response.  did and wrote are history: the
\* request modified the service, and the versions it gave the policy (an enabling
\* that hit another policy than the one created apart).
Fresh == [stage |-> "new", kind |-> "list", id |-> CHOOSE i \in PolicyIds : TRUE,
          domain |-> CHOOSE d \in DomainIds : TRUE,
          body |-> [limit |-> None, corr |-> None], bad |-> FALSE, state |-> FALSE,
          path |-> None, read |-> None, calls |-> <<>>, status |-> "ok",
          shown |-> None, did |-> FALSE, wrote |-> {}]

Init ==
  /\ policies \in [Path -> Initial \cup {None}]
  /\ clock = 0 /\ others = 0
  /\ req = [r \in Requests |-> Fresh]

\* The request ends with this status, or waits for another stage.
End(r, status) ==
  req' = [req EXCEPT ![r].stage = "done", ![r].status = status]

-----------------------------------------------------------------------------
(* Other users of the service: IPMI, other D-Bus clients, its own policies *)

OtherCreate(p, policy) ==
  /\ others < MaxOthers /\ policies[p] = None
  /\ policies' = [policies EXCEPT ![p] = policy]
  /\ clock' = clock + 1 /\ others' = others + 1
  /\ UNCHANGED req

OtherDelete(p) ==
  /\ others < MaxOthers /\ policies[p] # None
  /\ policies' = [policies EXCEPT ![p] = None]
  /\ clock' = clock + 1 /\ others' = others + 1
  /\ UNCHANGED req

-----------------------------------------------------------------------------
(* Arrival of a request *)

\* bad: the JSON or one of its enumerations or durations does not convert.
Arrive(r, kind, id, domain, body, bad, state) ==
  /\ req[r].stage = "new"
  /\ req' = [req EXCEPT ![r] =
       [Fresh EXCEPT !.stage = IF kind = "create" THEN "act" ELSE "find",
                     !.kind = kind, !.id = id, !.domain = domain, !.body = body,
                     !.bad = bad, !.state = state]]
  /\ UNCHANGED <<policies, clock, others>>

\* POST checks everything before its first call.
CreateRejected(r) ==
  /\ req[r].stage = "act" /\ req[r].kind = "create" /\ req[r].bad
  /\ End(r, "badRequest")
  /\ UNCHANGED <<policies, clock, others>>

-----------------------------------------------------------------------------
(* Finding the policy: GetManagedObjects or GetSubTreePaths *)

Existing == {p \in Path : policies[p] # None}

\* asyncFindPolicies with the predicate of deletePolicy.
Deletable(id) == {p \in Existing : p.id = id /\ policies[p].owner = "bmc"}

\* getPolicyObjectPath takes the first path that ends in the name; the mapper's
\* order is its own.
Matching(id) == {p \in Existing : p.id = id}

\* Mutation of NextStage: Policy.ResetStatistics never makes its call.
NextStageNoReset(kind) ==
  CASE kind = "delete" -> "act"
    [] kind \in {"patch", "changeState"} -> "read"
    [] OTHER -> "after"

\* What follows the search.
NextStage(kind) ==
  CASE kind \in {"delete", "reset"} -> "act"
    [] kind \in {"patch", "changeState"} -> "read"
    [] OTHER -> "after"

Found(r, p) ==
  req' = [req EXCEPT ![r].stage = NextStage(req[r].kind), ![r].path = p,
            ![r].read = policies[p],
            ![r].calls = IF req[r].kind = "get"
                         THEN <<"attributes", "statistics">> ELSE <<>>]

FindPolicy(r) ==
  /\ req[r].stage = "find"
  /\ \/ req[r].kind = "list" /\ End(r, "ok")
     \/ /\ req[r].kind = "delete"
        /\ LET paths == Deletable(req[r].id) IN
             \/ Cardinality(paths) # 1 /\ End(r, "resourceNotFound")
             \/ Cardinality(paths) = 1 /\ \E p \in paths : Found(r, p)
     \/ /\ req[r].kind \in {"get", "patch", "changeState", "reset"}
        /\ LET paths == Matching(req[r].id) IN
             \/ paths = {} /\ End(r, "resourceNotFound")
             \/ \E p \in paths : Found(r, p)
  /\ UNCHANGED <<policies, clock, others>>

\* The call fails.  Behind GetSubTreePaths the handler reports the error and
\* then looks for the name in the empty answer, which overwrites the status.
FindFailed(r) ==
  /\ req[r].stage = "find"
  /\ End(r, IF req[r].kind \in {"list", "delete"} THEN "internalError"
            ELSE "resourceNotFound")
  /\ UNCHANGED <<policies, clock, others>>

-----------------------------------------------------------------------------
(* Reading the policy before modifying it *)

\* Mutation of isPolicyReadOnly: the owner is not looked at.
isPolicyReadOnlyNever(policy) == FALSE

isPolicyReadOnly(policy) == policy.owner # "bmc"
isHwProtectionPolicy(p) == p.domain = HwProtection

Denied(r, policy) ==
  /\ isPolicyReadOnly(policy)
  /\ ~(req[r].kind = "changeState" /\ isHwProtectionPolicy(req[r].path))

\* Mutation of Rejects: the result of the conversion is not checked.
RejectsNothing(r) == FALSE

\* The request carries something updatePolicyParamsWithJsonValues or
\* changeDbusObjectState cannot convert.
Rejects(r) == req[r].bad

ReadPolicy(r) ==
  /\ req[r].stage = "read"
  /\ LET policy == policies[req[r].path] IN
       \/ policy = None /\ End(r, "internalError")
       \/ policy # None /\ Denied(r, policy) /\ End(r, "operationNotAllowed")
       \/ /\ policy # None /\ ~Denied(r, policy)
          /\ IF Rejects(r) THEN End(r, "badRequest")
             ELSE req' = [req EXCEPT ![r].stage = "act", ![r].read = policy]
  /\ UNCHANGED <<policies, clock, others>>

\* The call fails, or an attribute is missing or has another type.
ReadFailed(r) ==
  /\ req[r].stage = "read"
  /\ End(r, "internalError")
  /\ UNCHANGED <<policies, clock, others>>

-----------------------------------------------------------------------------
(* The call that modifies the service *)

Acting(r, kind) == req[r].stage = "act" /\ req[r].kind = kind

\* Mutation of Merge: an attribute that is not in the request becomes its
\* default instead of the value that was read.
MergeDefaults(policy, body) ==
  [policy EXCEPT
     !.limit = IF body.limit = None THEN CHOOSE v \in Values : TRUE ELSE body.limit,
     !.corr = IF body.corr = None THEN CHOOSE v \in Values : TRUE ELSE body.corr,
     !.extra = FALSE]

\* convertAttributesToPolicyParams and updatePolicyParamsWithJsonValues: the
\* attributes that were read, replaced by those in the request; SuspendPeriods and
\* Thresholds are neither read nor taken from the request, but left empty.
Merge(policy, body) ==
  [policy EXCEPT !.limit = IF body.limit = None THEN @ ELSE body.limit,
                 !.corr = IF body.corr = None THEN @ ELSE body.corr,
                 !.extra = FALSE]

\* The errors of the service, and how the handlers report them
\* (dbusErrorToBmcwebMessage and the callbacks of Delete, Set and Reset).
dbusErrorToBmcwebMessage(error) ==
  CASE error = "invalid" -> "badRequest"
    [] error = "OperationNotPermitted" -> "notSupported"
    [] error = "exists" -> "conflict"
    [] error = "unavailable" -> "operationFailed"
    [] OTHER -> "internalError"

ErrorStatus(kind, error) ==
  CASE kind \in {"patch", "create"} -> dbusErrorToBmcwebMessage(error)
    [] kind = "delete" -> IF error = "OperationNotPermitted"
                          THEN "resourceCannotBeDeleted" ELSE "resourceNotFound"
    [] kind = "changeState" -> IF error = "OperationNotPermitted"
                               THEN "notSupported" ELSE "internalError"
    [] OTHER -> "internalError"

Write(p, policy) ==
  /\ policies' = [policies EXCEPT ![p] = policy]
  /\ clock' = clock + 1
  /\ UNCHANGED others

\* The answer to the modifying call, and what follows it.  A call that outlives
\* the bus's time-out was executed all the same, and ends the request in an error.
Answered(r, status, path, policy, calls) ==
  \/ req' = [req EXCEPT ![r].stage = IF calls = <<>> THEN "done" ELSE "after",
                         ![r].status = status, ![r].path = path,
                         ![r].read = policy, ![r].calls = calls,
                         ![r].did = TRUE, ![r].wrote = {clock + 1}]
  \/ req' = [req EXCEPT ![r].stage = "done", ![r].did = TRUE,
                         ![r].status = ErrorStatus(req[r].kind, "timeout")]

\* Update replaces the parameters of whatever policy is at the path by now.
UpdatePolicy(r) ==
  LET p == req[r].path
      new == Merge(req[r].read, req[r].body)
  IN /\ Acting(r, "patch") /\ policies[p] # None
     /\ Write(p, [new EXCEPT !.owner = policies[p].owner,
                             !.enabled = policies[p].enabled, !.version = clock + 1])
     /\ Answered(r, "ok", p, req[r].read, <<"attributes", "statistics">>)

DeletePolicy(r) ==
  LET p == req[r].path IN
  /\ Acting(r, "delete") /\ policies[p] # None
  /\ Write(p, None)
  /\ Answered(r, "no_content", p, req[r].read, <<>>)

\* Properties.Set of Object.Enable.Enabled, for Policy.ChangeState.
SetEnabled(r) ==
  LET p == req[r].path IN
  /\ Acting(r, "changeState") /\ policies[p] # None
  /\ Write(p, [policies[p] EXCEPT !.enabled = req[r].state, !.version = clock + 1])
  /\ Answered(r, "no_content", p, req[r].read, <<>>)

\* Statistics are not part of the model: only the response is.
ResetStatistics(r) ==
  /\ Acting(r, "reset") /\ policies[req[r].path] # None
  /\ End(r, "no_content")
  /\ UNCHANGED <<policies, clock, others>>

\* Mutation of CreateCalls: the new policy is read before it is enabled.
CreateCallsLate(state) ==
  IF state THEN <<"attributes", "enable", "statistics">>
           ELSE <<"attributes", "statistics">>

\* What follows a creation: Enabled is set before the attributes are read.
CreateCalls(state) ==
  (IF state THEN <<"enable">> ELSE <<>>) \o <<"attributes", "statistics">>

CreateWithId(r) ==
  LET p == [domain |-> req[r].domain, id |-> req[r].id]
      new == [owner |-> "bmc", limit |-> req[r].body.limit,
              corr |-> req[r].body.corr, extra |-> FALSE, enabled |-> FALSE,
              version |-> clock + 1]
  IN /\ Acting(r, "create") /\ ~req[r].bad /\ policies[p] = None
     /\ Write(p, new)
     /\ Answered(r, "created", p, new, CreateCalls(req[r].state))

\* The service refuses the call and changes nothing.  Which errors it may give:
\* the path is gone, the name is taken, or it does not like the call.
PossibleErrors(r) ==
  LET gone == req[r].kind # "create" /\ policies[req[r].path] = None
      taken == /\ req[r].kind = "create"
               /\ policies[[domain |-> req[r].domain, id |-> req[r].id]] # None
  IN IF gone THEN {"unknownObject"} ELSE IF taken THEN {"exists"}
     ELSE {"invalid", "OperationNotPermitted", "unavailable"}

ActRefused(r) ==
  /\ req[r].stage = "act" /\ (req[r].kind = "create" => ~req[r].bad)
  /\ \E error \in PossibleErrors(r) : End(r, ErrorStatus(req[r].kind, error))
  /\ UNCHANGED <<policies, clock, others>>

-----------------------------------------------------------------------------
(* The calls that follow: enabling a new policy, reading it back *)

Following(r, call) ==
  /\ req[r].stage = "after" /\ Head(req[r].calls) = call

\* This callback has run; after the last one the response is sent.
Followed(r, status, shown, wrote) ==
  req' = [req EXCEPT ![r].calls = Tail(@), ![r].status = status,
            ![r].shown = shown, ![r].wrote = @ \cup wrote,
            ![r].stage = IF Len(req[r].calls) = 1 THEN "done" ELSE "after"]

\* The policy at the path is the one the request found or created.
Unchanged(r) == policies[req[r].path].version = req[r].read.version

EnableCreated(r) ==
  LET p == req[r].path IN
  /\ Following(r, "enable")
  /\ \/ /\ policies[p] # None
        /\ Write(p, [policies[p] EXCEPT !.enabled = TRUE, !.version = clock + 1])
        /\ Followed(r, req[r].status, req[r].shown,
                    IF Unchanged(r) THEN {clock + 1} ELSE {})
     \/ /\ Followed(r, "internalError", req[r].shown, {})
        /\ UNCHANGED <<policies, clock, others>>

\* getAttributes copies the policy into the response, getStatistics its
\* statistics; a call that fails, because the policy is gone or otherwise, makes
\* the response an error.
GetAttributes(r) ==
  LET policy == policies[req[r].path] IN
  /\ Following(r, "attributes")
  /\ \/ policy # None /\ Followed(r, req[r].status, policy, {})
     \/ Followed(r, "internalError", req[r].shown, {})
  /\ UNCHANGED <<policies, clock, others>>

GetStatistics(r) ==
  /\ Following(r, "statistics")
  /\ \/ policies[req[r].path] # None /\ Followed(r, req[r].status, req[r].shown, {})
     \/ Followed(r, "internalError", req[r].shown, {})
  /\ UNCHANGED <<policies, clock, others>>

-----------------------------------------------------------------------------
Attributes == [limit : Values, corr : Values]

\* The requests the routes accept: a new policy has every attribute.
SomeArrival(r) ==
  \E kind \in Kinds, id \in PolicyIds, domain \in DomainIds,
     bad \in BOOLEAN, state \in BOOLEAN :
    \E body \in IF kind = "create" THEN Bodies \cap Attributes
                ELSE IF kind = "patch" THEN Bodies ELSE {Fresh.body} :
      /\ kind # "create" => domain = Fresh.domain
      /\ bad => kind \in {"patch", "changeState", "create"}
      /\ state => kind \in {"changeState", "create"}
      /\ Arrive(r, kind, id, domain, body, bad, state)

Step(r) ==
  \/ CreateRejected(r)
  \/ FindPolicy(r) \/ FindFailed(r) \/ ReadPolicy(r) \/ ReadFailed(r)
  \/ UpdatePolicy(r) \/ DeletePolicy(r) \/ SetEnabled(r) \/ ResetStatistics(r)
  \/ CreateWithId(r) \/ ActRefused(r)
  \/ EnableCreated(r) \/ GetAttributes(r) \/ GetStatistics(r)

Others ==
  \/ \E p \in Path, owner \in {"bmc", "other"}, v \in Values :
       OtherCreate(p, [owner |-> owner, limit |-> v, corr |-> v, extra |-> TRUE,
                       enabled |-> FALSE, version |-> clock + 1])
  \/ \E p \in Path : OtherDelete(p)

Next ==
  \/ \E r \in Requests : SomeArrival(r) \/ Step(r)
  \/ Others

Spec == Init /\ [][Next]_vars

-----------------------------------------------------------------------------
(* Properties *)

\* The type of every variable.
TypeOK ==
  /\ policies \in [Path -> Policy \cup {None}]
  /\ clock \in Nat /\ others \in 0..MaxOthers
  /\ \A r \in Requests :
       /\ req[r].stage \in {"new", "find", "read", "act", "after", "done"}
       /\ req[r].kind \in Kinds /\ req[r].id \in PolicyIds
       /\ req[r].domain \in DomainIds /\ req[r].body \in Params
       /\ req[r].bad \in BOOLEAN /\ req[r].state \in BOOLEAN
       /\ req[r].path \in Path \cup {None}
       /\ req[r].read \in Policy \cup {None}
       /\ req[r].calls \in Seq({"enable", "attributes", "statistics"})
       /\ req[r].stage = "after" <=> req[r].calls # <<>>
       /\ req[r].status \in Statuses
       /\ req[r].shown \in Policy \cup {None}
       /\ req[r].did \in BOOLEAN /\ req[r].wrote \subseteq 1..clock

\* Request r modifies the policy at its path in this step.
Modifies(r) ==
  LET p == req[r].path IN
  /\ req'[r] # req[r] /\ p # None
  /\ policies[p] # None /\ policies'[p] # policies[p]

\* A Redfish request never modifies, deletes or enables a policy of another owner,
\* the state of a hardware protection policy apart, unless the policy it had
\* checked was replaced between the check and the call (the two are separate
\* D-Bus calls).
OwnerRespected ==
  [][\A r \in Requests : Modifies(r) =>
       \/ policies[req[r].path].owner = "bmc"
       \/ ~Unchanged(r)
       \/ req[r].kind = "changeState" /\ req[r].path.domain = HwProtection]_vars

\* What PATCH does to the attributes of a policy, in two calls with other users
\* between them.  One in the body takes the body's value.  One that is not in it
\* keeps its value if nobody modified the policy between the read and Update, and
\* goes back to what was read if somebody did, whose update is lost.  The exceptions
\* are SuspendPeriods and Thresholds (extra), which a body cannot carry:
\* convertAttributesToPolicyParams does not read them, so that every PATCH empties
\* them, whatever it was asked to change.  Owner and state are those of the policy
\* that Update meets, not of the one that was read.
PatchWritesWhatItRead ==
  [][\A r \in Requests : req[r].kind = "patch" /\ Modifies(r) =>
       LET old == policies[req[r].path]
           new == policies'[req[r].path]
           kept == IF Unchanged(r) THEN old ELSE req[r].read
       IN /\ \A a \in {"limit", "corr"} :
               new[a] = IF req[r].body[a] # None THEN req[r].body[a] ELSE kept[a]
          /\ ~new.extra
          /\ new.owner = old.owner /\ new.enabled = old.enabled]_vars

\* The status of a finished request tells what it did: a refusal modified nothing
\* (a DELETE that timed out and is reported as not found apart), a success did
\* modify the service, and a body that does not convert never reaches it.
StatusTellsTheTruth ==
  \A r \in Requests : req[r].stage = "done" =>
    /\ req[r].did /\ req[r].status \in Refusals =>
         req[r].kind = "delete" /\ req[r].status = "resourceNotFound"
    /\ req[r].status \in Success => (req[r].did <=> req[r].kind \in Modifying)
    /\ req[r].bad => ~req[r].did

\* The policy a successful POST or PATCH answers with is the one it asked for, in
\* the state it asked for, unless another user changed it before it was read back.
ResponseShowsResult ==
  \A r \in Requests :
    req[r].stage = "done" /\ req[r].status \in Success
      /\ req[r].kind \in {"patch", "create"} =>
         LET shown == req[r].shown IN
         /\ shown # None
         /\ shown.version \in req[r].wrote =>
              /\ \A a \in {"limit", "corr"} :
                   req[r].body[a] # None => shown[a] = req[r].body[a]
              /\ req[r].kind = "create" => shown.enabled = req[r].state

=============================================================================
