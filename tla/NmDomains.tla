------------------------------ MODULE NmDomains ------------------------------
(***************************************************************************)
(* The Redfish handlers of the Node Manager domain collection              *)
(* (domains_collection.hpp, FinalCallback and helpers of nm_common.hpp).   *)
(*                                                                         *)
(* bmcweb has one connection to the bus: the calls of all requests to the  *)
(* NodeManager service form one FIFO queue, and what one callback sends is *)
(* contiguous in it.  Serving the call at its head and running the         *)
(* callback of the answer is one step.                                     *)
(*                                                                         *)
(* The value of a property is the request that wrote it: no property below *)
(* tells values of one writer apart.                                       *)
(***************************************************************************)
EXTENDS Integers, Sequences, FiniteSets

CONSTANTS Requests,   \* the Redfish requests of a behaviour
          DomainIds,  \* names of domains
          acTotalPlatformPowerDomainId, \* the domain with the main node's statistics
          Bodies,     \* the properties PATCH requests carry
          Nobody,     \* writer of what no request wrote; not shown
          MaxOthers   \* bound on the writes of other users of the service

capabilities == {"max", "min"}
limitBias == {"abs", "rel"}
Props == capabilities \cup limitBias

ASSUME NmDomainsAssumption ==
  /\ acTotalPlatformPowerDomainId \in DomainIds
  /\ Bodies \subseteq SUBSET Props
  /\ Nobody \notin Requests
  /\ MaxOthers \in Nat

Parts == {"all", "capabilities", "limitBias"}
Success == {"ok", "no_content"}
Errors == {"resourceNotFound", "badRequest", "notSupported", "internalError"}

VARIABLES
  domain,   \* service: domain -> property -> who wrote it last
  calls,    \* the calls on their way to the service
  req,      \* bmcweb: the state of every request
  later,    \* history: <<d, p, r, w>>, r wrote p of d and w did then or after that
  others    \* number of writes of other users

vars == <<domain, calls, req, later, others>>

\* A call of a request: read ("get"), write ("set") or reset arg, or set Enabled.
Call(r, op, arg) == [by |-> r, op |-> op, arg |-> arg]
CallType ==
  [by : Requests, op : {"set"}, arg : Props]
    \cup [by : Requests, op : {"get"}, arg : {"capabilities", "abs", "rel", "rest"}]
    \cup [by : Requests, op : {"reset"}, arg : {"domain", "main"}]
    \cup [by : Requests, op : {"enable"}, arg : {"domain"}]

\* bad: the parts of the JSON body that do not read.  pending: calls not yet
\* answered.  final: a FinalCallback waits for them.  error: the body of the response
\* describes an error.  shown: the properties in the response.  done: history, what
\* the request's calls changed in the service.
Fresh == [stage |-> "new", kind |-> "get", domain |-> CHOOSE d \in DomainIds : TRUE,
          body |-> {}, bad |-> {}, pending |-> 0, final |-> FALSE, status |-> "ok",
          error |-> FALSE, shown |-> [p \in Props |-> Nobody], done |-> {}]

Init ==
  /\ domain = [d \in DomainIds |-> [p \in Props |-> Nobody]]
  /\ calls = <<>> /\ later = {} /\ others = 0
  /\ req = [r \in Requests |-> Fresh]

\* A response that describes an error.
Failed(rec, status) == [rec EXCEPT !.status = status, !.error = TRUE]

-----------------------------------------------------------------------------
(* What the handlers send *)

\* Mutation of Wanted: a write is left out while another to the same property is
\* on its way.
WantedOnce(r, p) ==
  IF p \in req[r].body /\ ~\E i \in DOMAIN calls : calls[i].op = "set" /\ calls[i].arg = p
  THEN <<Call(r, "set", p)>> ELSE <<>>

\* setProperty, for an optional that was given.
Wanted(r, p) == IF p \in req[r].body THEN <<Call(r, "set", p)>> ELSE <<>>

\* Mutation of setCapabilities: Object.Enable is written instead of Max.
setCapabilitiesEnabled(r) ==
  IF "max" \in req[r].body THEN <<Call(r, "set", "enabled")>> ELSE <<>>

setCapabilities(r) ==
  IF "capabilities" \in req[r].bad THEN <<>> ELSE Wanted(r, "max") \o Wanted(r, "min")

\* Mutation of setLimitBiases: the second if became an else if.
setLimitBiasesElse(r) ==
  IF "limitBias" \in req[r].bad THEN <<>>
  ELSE IF "abs" \in req[r].body THEN Wanted(r, "abs") ELSE Wanted(r, "rel")

setLimitBiases(r) ==
  IF "limitBias" \in req[r].bad THEN <<>> ELSE Wanted(r, "abs") \o Wanted(r, "rel")

\* The reads of a whole domain.  "rest" stands for those of what no request
\* writes: component capabilities, state, statistics, triggers, policies.
getDomain(r) ==
  <<Call(r, "get", "capabilities"), Call(r, "get", "rest"),
    Call(r, "get", "abs"), Call(r, "get", "rel")>>

\* Domain.ResetStatistics: the main node's statistics belong to one domain.
resetStatistics(r) ==
  <<Call(r, "reset", "domain")>>
    \o IF req[r].domain = acTotalPlatformPowerDomainId
       THEN <<Call(r, "reset", "main")>> ELSE <<>>

\* The calls of a request whose domain was found.
CallsOf(r) ==
  CASE req[r].kind = "get" -> getDomain(r)
    [] req[r].kind = "patch" -> setCapabilities(r) \o setLimitBiases(r)
    [] req[r].kind = "reset" -> resetStatistics(r)
    [] req[r].kind = "changeState" -> <<Call(r, "enable", "domain")>>

-----------------------------------------------------------------------------
(* Callbacks *)

\* Mutation of FinalCallback: the result so far is not looked at.
FinalCallbackAlways(rec) == TRUE

\* The domain is read back if nothing has gone wrong.
FinalCallback(rec) == rec.status = "ok"

\* Mutation of Continue: the callbacks of the read-back hold the FinalCallback too.
ContinueHeld(r, rec, new, queue) ==
  LET waits == rec.pending + Len(new) > 0
      again == ~waits /\ rec.final /\ FinalCallback(rec)
  IN /\ calls' = queue \o new \o (IF again THEN getDomain(r) ELSE <<>>)
     /\ req' = [req EXCEPT ![r] =
          IF again THEN [rec EXCEPT !.stage = "calls", !.pending = Len(getDomain(r))]
          ELSE [rec EXCEPT !.stage = IF waits THEN "calls" ELSE "done",
                           !.pending = @ + Len(new)]]

\* The handler or callback of r has made rec of its request and sent new calls;
\* queue is what is on its way besides.  With nothing left to wait for, the
\* FinalCallback runs, once, or the response is sent.
Continue(r, rec, new, queue) ==
  LET waits == rec.pending + Len(new) > 0
      again == ~waits /\ rec.final /\ FinalCallback(rec)
  IN /\ calls' = queue \o new \o (IF again THEN getDomain(r) ELSE <<>>)
     /\ req' = [req EXCEPT ![r] =
          IF again
          THEN [rec EXCEPT !.final = FALSE, !.error = FALSE, !.stage = "calls",
                           !.pending = Len(getDomain(r))]
          ELSE [rec EXCEPT !.stage = IF waits THEN "calls" ELSE "done",
                           !.pending = @ + Len(new)]]

\* The body of the request as a whole does not read.
Unreadable(r) == "all" \in req[r].bad

\* getDomainObjectPath found the domain in the mapper's answer and called its
\* handler.
Found(r) ==
  /\ req[r].stage = "find"
  /\ \/ /\ Unreadable(r)
        /\ Continue(r, Failed(req[r], "badRequest"), <<>>, calls)
     \/ /\ ~Unreadable(r)
        /\ LET final == [req[r] EXCEPT !.final = req[r].kind = "patch"] IN
             Continue(r, IF req[r].bad = {} THEN final ELSE Failed(final, "badRequest"),
                      CallsOf(r), calls)
  /\ UNCHANGED <<domain, later, others>>

\* The domain does not exist, or the mapper failed and its empty answer was
\* searched.
NotFound(r) ==
  /\ req[r].stage = "find"
  /\ Continue(r, Failed(req[r], "resourceNotFound"), <<>>, calls)
  /\ UNCHANGED <<domain, later, others>>

\* The request r has got an answer.
Answered(r) == [req[r] EXCEPT !.pending = @ - 1]

\* Mutation of getCapabilities: Max and Min are swapped.
getCapabilitiesSwapped(d) == [max |-> domain[d].min, min |-> domain[d].max]

getCapabilities(d) == [max |-> domain[d].max, min |-> domain[d].min]

\* The properties a read returns.
Read(d, arg) ==
  CASE arg = "capabilities" -> getCapabilities(d)
    [] arg \in limitBias -> [p \in {arg} |-> domain[d][p]]
    [] OTHER -> [p \in {} |-> Nobody]

ServeGet ==
  /\ calls # <<>> /\ Head(calls).op = "get"
  /\ LET r == Head(calls).by
         values == Read(req[r].domain, Head(calls).arg)
     IN Continue(r, [Answered(r) EXCEPT !.shown =
                       [p \in Props |-> IF p \in DOMAIN values THEN values[p] ELSE @[p]]],
                 <<>>, Tail(calls))
  /\ UNCHANGED <<domain, later, others>>

\* The history after w wrote p of d; new is {w} if w is a request.
Wrote(d, p, w, new) ==
  LET before == {r \in Requests : <<d, p, r, r>> \in later} \cup new IN
  later \cup {<<d, p, r, w>> : r \in before}

\* A write, a reset or a change of state: executed and answered.
Effect(r, c) ==
  /\ domain' = IF c.op = "set" THEN [domain EXCEPT ![req[r].domain][c.arg] = r] ELSE domain
  /\ later' = IF c.op = "set" THEN Wrote(req[r].domain, c.arg, r, {r}) ELSE later
  /\ UNCHANGED others

\* The answer to a write leaves the status alone; the other two report success.
OkStatus(rec, op) == IF op = "set" THEN rec.status ELSE "no_content"

ServeModify ==
  /\ calls # <<>> /\ Head(calls).op # "get"
  /\ LET c == Head(calls)
         r == c.by
     IN /\ Effect(r, c)
        /\ Continue(r, [Answered(r) EXCEPT !.status = OkStatus(req[r], c.op),
                                           !.done = @ \cup {c.arg}],
                    <<>>, Tail(calls))

\* How an error of each call is reported.
ErrorStatuses(op) ==
  CASE op = "set" -> {"badRequest"}
    [] op = "enable" -> {"notSupported", "internalError"}
    [] OTHER -> {"internalError"}

\* The service refuses the call.
ServeError ==
  /\ calls # <<>>
  /\ LET c == Head(calls) IN
       \E status \in ErrorStatuses(c.op) :
         Continue(c.by, Failed(Answered(c.by), status), <<>>, Tail(calls))
  /\ UNCHANGED <<domain, later, others>>

\* The call is executed, but its answer comes too late.
ServeTimeout ==
  /\ calls # <<>> /\ Head(calls).op # "get"
  /\ LET c == Head(calls)
         r == c.by
     IN /\ Effect(r, c)
        /\ \E status \in ErrorStatuses(c.op) \ {"notSupported"} :
             Continue(r, [Failed(Answered(r), status) EXCEPT !.done = @ \cup {c.arg}],
                      <<>>, Tail(calls))

-----------------------------------------------------------------------------
(* Requests and other users *)

Arrive(r, kind, d, body, bad) ==
  /\ req[r].stage = "new"
  /\ req' = [req EXCEPT ![r] = [Fresh EXCEPT !.stage = "find", !.kind = kind,
                                  !.domain = d, !.body = body, !.bad = bad]]
  /\ UNCHANGED <<domain, calls, later, others>>

\* What the routes accept: a part that does not read is there, and holds nothing.
SomeArrival(r) ==
  \E kind \in {"get", "patch", "reset", "changeState"}, d \in DomainIds :
    \E body \in IF kind = "patch" THEN Bodies ELSE {{}}, bad \in SUBSET Parts :
      /\ bad # {} => kind \in {"patch", "changeState"}
      /\ "all" \in bad => bad = {"all"} /\ body = {}
      /\ bad \subseteq {"all"} \/ kind = "patch"
      /\ "capabilities" \in bad => body \cap capabilities = {}
      /\ "limitBias" \in bad => body \cap limitBias = {}
      /\ Arrive(r, kind, d, body, bad)

\* Another user of the service writes a property.
OtherWrite(d, p) ==
  /\ others < MaxOthers
  /\ domain' = [domain EXCEPT ![d][p] = Nobody]
  /\ later' = Wrote(d, p, Nobody, {})
  /\ others' = others + 1
  /\ UNCHANGED <<calls, req>>

Serve == ServeGet \/ ServeModify \/ ServeError \/ ServeTimeout

Next ==
  \/ \E r \in Requests : SomeArrival(r) \/ Found(r) \/ NotFound(r)
  \/ Serve
  \/ \E d \in DomainIds, p \in Props : OtherWrite(d, p)

Spec == Init /\ [][Next]_vars

\* The service and the mapper answer every call, or it times out.
Fairness == WF_vars(Serve) /\ \A r \in Requests : WF_vars(Found(r) \/ NotFound(r))

FairSpec == Spec /\ Fairness

-----------------------------------------------------------------------------
(* Properties *)

\* The type of every variable; pending counts the calls of the request that are on
\* their way, so that a response is neither sent early nor held for ever.
TypeOK ==
  /\ domain \in [DomainIds -> [Props -> Requests \cup {Nobody}]]
  /\ calls \in Seq(CallType)
  /\ later \subseteq DomainIds \X Props \X Requests \X (Requests \cup {Nobody})
  /\ others \in 0..MaxOthers
  /\ \A r \in Requests :
       /\ req[r].stage \in {"new", "find", "calls", "done"}
       /\ req[r].kind \in {"get", "patch", "reset", "changeState"}
       /\ req[r].domain \in DomainIds
       /\ req[r].body \subseteq Props /\ req[r].bad \subseteq Parts
       /\ req[r].pending = Cardinality({i \in DOMAIN calls : calls[i].by = r})
       /\ req[r].stage = "calls" <=> req[r].pending > 0
       /\ req[r].final \in BOOLEAN /\ req[r].error \in BOOLEAN
       /\ req[r].status \in Success \cup Errors
       /\ req[r].shown \in [Props -> Requests \cup {Nobody}]
       /\ req[r].done \subseteq Props \cup {"domain", "main"}

Done(r, kind) == req[r].stage = "done" /\ req[r].kind = kind

\* A PATCH that succeeded wrote every property it carried, and one of which a part
\* did not read, or a write failed, did not succeed.  A change of state or a reset
\* that succeeded was executed: a reset of two statistics at least the second.
StatusTellsOutcome ==
  \A r \in Requests :
    /\ Done(r, "patch") /\ req[r].status \in Success =>
         req[r].done = req[r].body /\ req[r].bad = {}
    /\ Done(r, "changeState") /\ req[r].status \in Success => req[r].done = {"domain"}
    /\ Done(r, "reset") /\ req[r].status \in Success =>
         IF req[r].domain = acTotalPlatformPowerDomainId
         THEN "main" \in req[r].done ELSE "domain" \in req[r].done

\* A response with an error status describes the error: the description is not
\* lost when the domain is read back into the response.
ErrorIsDescribed ==
  \A r \in Requests :
    req[r].stage = "done" /\ req[r].status \in Errors => req[r].error

\* Two PATCH requests of the same properties of a domain are not mixed: unless one
\* of its writes was refused, all the properties are those of one of them.
NotTorn ==
  \A r, s \in Requests :
    /\ r # s /\ Done(r, "patch") /\ Done(s, "patch")
    /\ req[r].domain = req[s].domain
    /\ req[r].status \in Success /\ req[s].status \in Success
    => \A p, q \in req[r].body \cap req[s].body :
         domain[req[r].domain][p] = r => domain[req[r].domain][q] # s

\* The domain a successful PATCH answers with holds, for every property it wrote,
\* its own value or one written later, by whomever.
ReadBackFresh ==
  \A r \in Requests : Done(r, "patch") /\ req[r].status \in Success =>
    \A p \in req[r].body : <<req[r].domain, p, r, req[r].shown[p]>> \in later

\* Every request is answered: the read-back of a PATCH is reached, whatever became of
\* its writes and whoever else is in the queue, and does not start another one.
EventuallyAnswered ==
  \A r \in Requests : req[r].stage = "find" ~> req[r].stage = "done"

\* What the comment on the route says of a reset: the statistics of the main node
\* are reset as well as those of the domain.
ResetsBoth ==
  \A r \in Requests :
    Done(r, "reset") /\ req[r].status \in Success
      /\ req[r].domain = acTotalPlatformPowerDomainId
    => {"domain", "main"} \subseteq req[r].done

=============================================================================
