--------------------------- MODULE NmPoliciesProofs ---------------------------
(***************************************************************************)
(* The properties of NmPolicies for any number of requests in flight, any  *)
(* policies, domains and values, and any number of steps of other users.   *)
(*                                                                         *)
(* The invariant has a part about one request alone (Local), which its own *)
(* steps keep, and a part about a request and the service (Against), which *)
(* also the steps of everybody else have to keep: they do, because a       *)
(* policy that is written gets a version that nobody has seen.             *)
(***************************************************************************)
EXTENDS NmPolicies, SequenceTheorems, TLAPS

Calls == {"enable", "attributes", "statistics"}

Request ==
  [stage : {"new", "find", "read", "act", "after", "done"}, kind : Kinds,
   id : PolicyIds, domain : DomainIds, body : Params, bad : BOOLEAN, state : BOOLEAN,
   path : Path \cup {None}, read : Policy \cup {None}, calls : Seq(Calls),
   status : Statuses, shown : Policy \cup {None}, did : BOOLEAN, wrote : SUBSET Nat]

\* The policies of the service are as old as its last modification, or older.
ServiceInv(pol, now) ==
  /\ pol \in [Path -> Policy \cup {None}] /\ now \in Nat
  /\ \A p \in Path : pol[p] # None => pol[p].version <= now

-----------------------------------------------------------------------------
(* A request alone *)

\* What the request may carry, and the calls it has in flight.
FormInv(q) ==
  /\ q.kind = "create" => q.body \in Attributes
  /\ q.bad => q.kind \in {"patch", "changeState", "create"}
  /\ q.stage # "after" => q.calls = <<>>
  /\ q.stage = "after" =>
       /\ q.kind \in {"get", "patch", "create"}
       /\ \/ q.calls \in {<<"attributes", "statistics">>, <<"statistics">>}
          \/ q.kind = "create" /\ q.state /\ q.calls = <<"enable", "attributes", "statistics">>
  /\ q.stage \in {"find", "read"} => q.kind # "create"
  /\ q.stage \in {"new", "find", "read", "act"} => q.wrote = {}

\* What the request has done, and the status it shows for it.
StatusInv(q) ==
  /\ q.stage \in {"new", "find", "read", "act"} => ~q.did /\ q.status = "ok"
  /\ q.stage = "after" => /\ q.did <=> q.kind \in Modifying
                          /\ q.status \in {"ok", "created", "internalError"}
  /\ q.stage = "act" /\ q.kind # "create" => ~q.bad
  /\ q.did => ~q.bad
  /\ q.stage = "done" =>
       /\ q.did /\ q.status \in Refusals => q.kind = "delete" /\ q.status = "resourceNotFound"
       /\ q.status \in Success => (q.did <=> q.kind \in Modifying)

\* Whose policy it is about to modify.
OwnerInv(q) ==
  /\ q.stage \in {"new", "find"} \/ (q.stage = "act" /\ q.kind = "create") => q.path = None
  /\ q.stage = "act" /\ q.kind \in {"delete", "patch", "changeState"} =>
       \/ q.read.owner = "bmc"
       \/ q.kind = "changeState" /\ q.path.domain = HwProtection
  /\ q.stage = "after" /\ q.kind = "create" =>
       q.read.owner = "bmc" /\ q.wrote # {} /\ q.read.version \in q.wrote

Asked(q, policy) == \A a \in {"limit", "corr"} : q.body[a] # None => policy[a] = q.body[a]

\* What the response shows, once the policy has been read back.
ShownInv(q) ==
  /\ q.kind \in {"patch", "create"} /\ q.status \in Success
  /\ q.stage = "done" \/ (q.stage = "after" /\ q.calls = <<"statistics">>)
  => /\ q.shown # None
     /\ q.shown.version \in q.wrote =>
          Asked(q, q.shown) /\ (q.kind = "create" => q.shown.enabled = q.state)

Local(q) == FormInv(q) /\ StatusInv(q) /\ OwnerInv(q) /\ ShownInv(q)

-----------------------------------------------------------------------------
(* A request and the service *)

\* The policy at the path is the one that was read, or has another version.
ReadInv(q, pol, now) ==
  /\ q.stage = "read" => q.path \in Path
  /\ q.stage = "after" \/ (q.stage = "act" /\ q.kind # "create") =>
       /\ q.path \in Path /\ q.read \in Policy /\ q.read.version <= now
       /\ pol[q.path] # None /\ pol[q.path].version = q.read.version => pol[q.path] = q.read

\* The policy at the path is as the request has left it, or has another version.
WroteInv(q, pol, now) ==
  /\ q.wrote \subseteq 1..now
  /\ /\ q.stage = "after" /\ q.kind \in {"patch", "create"} /\ q.status \in Success
     /\ pol[q.path] # None /\ pol[q.path].version \in q.wrote
     => /\ Asked(q, pol[q.path])
        /\ q.kind = "create" =>
             pol[q.path].enabled = (q.state /\ q.calls \in {<<"attributes", "statistics">>,
                                                            <<"statistics">>})

Against(q, pol, now) == ReadInv(q, pol, now) /\ WroteInv(q, pol, now)

NmInv ==
  /\ ServiceInv(policies, clock) /\ others \in 0..MaxOthers
  /\ req \in [Requests -> Request]
  /\ \A r \in Requests : Local(req[r]) /\ Against(req[r], policies, clock)

-----------------------------------------------------------------------------
(* What the handlers do to the record of a request *)

\* What a request keeps from its arrival on.
SameForm(q, o) ==
  /\ q.kind = o.kind /\ q.id = o.id /\ q.domain = o.domain /\ q.body = o.body
  /\ q.bad = o.bad /\ q.state = o.state

\* The calls a request has in flight, from the longest list to the empty one.
LEMMA CallLists ==
  /\ <<>> \in Seq(Calls) /\ <<"statistics">> \in Seq(Calls)
  /\ <<"attributes", "statistics">> \in Seq(Calls)
  /\ <<"enable", "attributes", "statistics">> \in Seq(Calls)
  /\ Len(<<"statistics">>) = 1 /\ Len(<<"attributes", "statistics">>) = 2
  /\ Len(<<"enable", "attributes", "statistics">>) = 3
  /\ Tail(<<"statistics">>) = <<>> /\ Head(<<"statistics">>) = "statistics"
  /\ Tail(<<"attributes", "statistics">>) = <<"statistics">>
  /\ Head(<<"attributes", "statistics">>) = "attributes"
  /\ Tail(<<"enable", "attributes", "statistics">>) = <<"attributes", "statistics">>
  /\ Head(<<"enable", "attributes", "statistics">>) = "enable"
  /\ <<"statistics">> # <<>> /\ <<"attributes", "statistics">> # <<>>
  /\ <<"enable", "attributes", "statistics">> # <<>>
<1>1. /\ <<"statistics">> \in Seq(Calls)
      /\ <<"attributes", "statistics">> \in Seq(Calls)
      /\ <<"enable", "attributes", "statistics">> \in Seq(Calls)
  BY DEF Calls
<1>2. <<>> \in Seq(Calls)
  BY EmptySeq
<1>3. /\ Len(<<"statistics">>) = 1 /\ Len(<<"attributes", "statistics">>) = 2
      /\ Len(<<"enable", "attributes", "statistics">>) = 3
  OBVIOUS
<1>4. Tail(<<"statistics">>) = <<>> /\ Head(<<"statistics">>) = "statistics"
  OBVIOUS
<1>5. /\ Tail(<<"attributes", "statistics">>) = <<"statistics">>
      /\ Head(<<"attributes", "statistics">>) = "attributes"
  OBVIOUS
<1>6. /\ Tail(<<"enable", "attributes", "statistics">>) = <<"attributes", "statistics">>
      /\ Head(<<"enable", "attributes", "statistics">>) = "enable"
  OBVIOUS
<1>7. /\ <<"statistics">> # <<>> /\ <<"attributes", "statistics">> # <<>>
      /\ <<"enable", "attributes", "statistics">> # <<>>
  OBVIOUS
<1> QED BY <1>1, <1>2, <1>3, <1>4, <1>5, <1>6, <1>7

LEMMA EndIs ==
  ASSUME req \in [Requests -> Request], NEW r \in Requests, NEW status \in Statuses,
         End(r, status)
  PROVE  \E q \in Request :
           /\ req' = [req EXCEPT ![r] = q]
           /\ q.stage = "done" /\ q.status = status /\ SameForm(q, req[r])
           /\ q.path = req[r].path /\ q.read = req[r].read /\ q.calls = req[r].calls
           /\ q.shown = req[r].shown /\ q.did = req[r].did /\ q.wrote = req[r].wrote
<1> DEFINE q == [req[r] EXCEPT !.stage = "done", !.status = status]
<1>1. req' = [req EXCEPT ![r] = q]
  BY DEF End
<1>2. q \in Request
  BY DEF Request
<1>3. /\ q.stage = "done" /\ q.status = status /\ SameForm(q, req[r])
      /\ q.path = req[r].path /\ q.read = req[r].read /\ q.calls = req[r].calls
      /\ q.shown = req[r].shown /\ q.did = req[r].did /\ q.wrote = req[r].wrote
  BY DEF Request, SameForm
<1> QED BY <1>1, <1>2, <1>3

LEMMA FoundIs ==
  ASSUME req \in [Requests -> Request], policies \in [Path -> Policy \cup {None}],
         NEW r \in Requests, NEW p \in Path, Found(r, p)
  PROVE  \E q \in Request :
           /\ req' = [req EXCEPT ![r] = q]
           /\ q.stage = NextStage(req[r].kind) /\ q.path = p /\ q.read = policies[p]
           /\ q.calls = IF req[r].kind = "get" THEN <<"attributes", "statistics">> ELSE <<>>
           /\ SameForm(q, req[r]) /\ q.status = req[r].status
           /\ q.shown = req[r].shown /\ q.did = req[r].did /\ q.wrote = req[r].wrote
<1> DEFINE next == NextStage(req[r].kind)
           calls == IF req[r].kind = "get" THEN <<"attributes", "statistics">> ELSE <<>>
           q == [req[r] EXCEPT !.stage = next, !.path = p, !.read = policies[p],
                               !.calls = calls]
<1>1. req' = [req EXCEPT ![r] = q]
  BY DEF Found
<1>2. next \in {"act", "read", "after"}
  BY DEF NextStage
<1>3. calls \in Seq(Calls)
  BY CallLists
<1> HIDE DEF next, calls
<1>4. q \in Request
  <2> DEFINE x == policies[p]
  <2>1. x \in Policy \cup {None} /\ req[r] \in Request /\ p \in Path \cup {None}
    OBVIOUS
  <2> HIDE DEF x
  <2> QED BY <1>2, <1>3, <2>1 DEF Request
<1>5. /\ q.stage = next /\ q.path = p /\ q.read = policies[p] /\ q.calls = calls
      /\ SameForm(q, req[r]) /\ q.status = req[r].status
      /\ q.shown = req[r].shown /\ q.did = req[r].did /\ q.wrote = req[r].wrote
  BY DEF Request, SameForm
<1> QED BY <1>1, <1>4, <1>5 DEF next, calls

LEMMA ReadIs ==
  ASSUME req \in [Requests -> Request], NEW r \in Requests, NEW policy \in Policy,
         req' = [req EXCEPT ![r].stage = "act", ![r].read = policy]
  PROVE  \E q \in Request :
           /\ req' = [req EXCEPT ![r] = q]
           /\ q.stage = "act" /\ q.read = policy
           /\ SameForm(q, req[r]) /\ q.path = req[r].path /\ q.calls = req[r].calls
           /\ q.status = req[r].status
           /\ q.shown = req[r].shown /\ q.did = req[r].did /\ q.wrote = req[r].wrote
<1> DEFINE q == [req[r] EXCEPT !.stage = "act", !.read = policy]
<1>1. req' = [req EXCEPT ![r] = q]
  OBVIOUS
<1>2. q \in Request
  BY DEF Request
<1>3. /\ q.stage = "act" /\ q.read = policy
      /\ SameForm(q, req[r]) /\ q.path = req[r].path /\ q.calls = req[r].calls
      /\ q.status = req[r].status
      /\ q.shown = req[r].shown /\ q.did = req[r].did /\ q.wrote = req[r].wrote
  BY DEF Request, SameForm
<1> QED BY <1>1, <1>2, <1>3

\* The answer came.
AnswerCame(q, o, status, path, policy, calls, version) ==
  /\ q.stage = IF calls = <<>> THEN "done" ELSE "after"
  /\ q.status = status /\ q.path = path /\ q.read = policy /\ q.calls = calls
  /\ q.did = TRUE /\ q.wrote = {version} /\ SameForm(q, o) /\ q.shown = o.shown

\* The call timed out.
AnswerLate(q, o) ==
  /\ q.stage = "done" /\ q.did = TRUE /\ q.status = ErrorStatus(o.kind, "timeout")
  /\ SameForm(q, o) /\ q.path = o.path /\ q.read = o.read /\ q.calls = o.calls
  /\ q.shown = o.shown /\ q.wrote = o.wrote

LEMMA ErrorStatusType ==
  ASSUME NEW kind, NEW error
  PROVE  /\ ErrorStatus(kind, error) \in Refusals \cup {"internalError"}
         /\ kind # "delete" => ErrorStatus(kind, "timeout") = "internalError"
         /\ kind = "delete" => ErrorStatus(kind, "timeout") = "resourceNotFound"
<1>1. \A e : dbusErrorToBmcwebMessage(e) \in Refusals \cup {"internalError"}
  BY DEF dbusErrorToBmcwebMessage, Refusals
<1>2. dbusErrorToBmcwebMessage("timeout") = "internalError"
  BY DEF dbusErrorToBmcwebMessage
<1>3. ErrorStatus(kind, error) \in Refusals \cup {"internalError"}
  BY <1>1 DEF ErrorStatus, Refusals
<1>4. kind # "delete" => ErrorStatus(kind, "timeout") = "internalError"
  BY <1>2 DEF ErrorStatus
<1>5. kind = "delete" => ErrorStatus(kind, "timeout") = "resourceNotFound"
  BY DEF ErrorStatus
<1> QED BY <1>3, <1>4, <1>5

LEMMA AnsweredIs ==
  ASSUME req \in [Requests -> Request], NEW r \in Requests, clock \in Nat,
         NEW status \in Statuses, NEW path \in Path, NEW policy \in Policy \cup {None},
         NEW calls \in Seq(Calls), Answered(r, status, path, policy, calls)
  PROVE  \E q \in Request :
           /\ req' = [req EXCEPT ![r] = q]
           /\ \/ AnswerCame(q, req[r], status, path, policy, calls, clock + 1)
              \/ AnswerLate(q, req[r])
<1> DEFINE next == IF calls = <<>> THEN "done" ELSE "after"
           late == ErrorStatus(req[r].kind, "timeout")
           mine == {clock + 1}
           q1 == [req[r] EXCEPT !.stage = next, !.status = status, !.path = path,
                    !.read = policy, !.calls = calls, !.did = TRUE, !.wrote = mine]
           q2 == [req[r] EXCEPT !.stage = "done", !.did = TRUE, !.status = late]
<1>t. req[r] \in Request /\ next \in {"done", "after"} /\ mine \in SUBSET Nat
      /\ path \in Path \cup {None}
  OBVIOUS
<1>l. late \in Statuses
  BY ErrorStatusType DEF Statuses
<1>c. req' = [req EXCEPT ![r] = q1] \/ req' = [req EXCEPT ![r] = q2]
  BY DEF Answered
<1> HIDE DEF next, late, mine
<1>1. CASE req' = [req EXCEPT ![r] = q1]
  <2>1. q1 \in Request
    BY <1>t DEF Request
  <2>2. AnswerCame(q1, req[r], status, path, policy, calls, clock + 1)
    BY <1>t DEF AnswerCame, Request, SameForm, next, mine
  <2> HIDE DEF q1
  <2> QED BY <1>1, <2>1, <2>2
<1>2. CASE req' = [req EXCEPT ![r] = q2]
  <2>1. q2 \in Request
    BY <1>t, <1>l DEF Request
  <2>2. AnswerLate(q2, req[r])
    BY <1>t DEF AnswerLate, Request, SameForm, late
  <2> HIDE DEF q2
  <2> QED BY <1>2, <2>1, <2>2
<1> QED BY <1>c, <1>1, <1>2

\* The record after a callback.
After(q, o, status, shown, wrote) ==
  /\ q.stage = IF Len(o.calls) = 1 THEN "done" ELSE "after"
  /\ q.calls = Tail(o.calls) /\ q.status = status /\ q.shown = shown
  /\ q.wrote = o.wrote \cup wrote /\ SameForm(q, o)
  /\ q.path = o.path /\ q.read = o.read /\ q.did = o.did

LEMMA FollowedIs ==
  ASSUME req \in [Requests -> Request], NEW r \in Requests,
         NEW status \in Statuses, NEW shown \in Policy \cup {None},
         NEW wrote \in SUBSET Nat, req[r].calls # <<>>, Followed(r, status, shown, wrote)
  PROVE  \E q \in Request :
           req' = [req EXCEPT ![r] = q] /\ After(q, req[r], status, shown, wrote)
<1> DEFINE next == IF Len(req[r].calls) = 1 THEN "done" ELSE "after"
           calls == Tail(req[r].calls)
           all == req[r].wrote \cup wrote
           q == [req[r] EXCEPT !.calls = calls, !.status = status, !.shown = shown,
                               !.wrote = all, !.stage = next]
<1>1. req' = [req EXCEPT ![r] = q]
  BY DEF Followed
<1>2. req[r] \in Request /\ next \in {"done", "after"}
  OBVIOUS
<1>3. calls \in Seq(Calls)
  <2>1. req[r].calls \in Seq(Calls)
    BY <1>2 DEF Request
  <2> QED BY <2>1, HeadTailProperties
<1>4. all \in SUBSET Nat
  <2>1. req[r].wrote \in SUBSET Nat
    BY <1>2 DEF Request
  <2> QED BY <2>1
<1> HIDE DEF next, calls, all
<1>5. q \in Request
  BY <1>2, <1>3, <1>4 DEF Request
<1>6. /\ q.stage = next /\ q.calls = calls /\ q.status = status /\ q.shown = shown
      /\ q.wrote = all /\ SameForm(q, req[r])
      /\ q.path = req[r].path /\ q.read = req[r].read /\ q.did = req[r].did
  BY <1>2 DEF Request, SameForm
<1>7. After(q, req[r], status, shown, wrote)
  BY <1>6 DEF After, next, calls, all
<1> HIDE DEF q
<1> QED BY <1>1, <1>5, <1>7

LEMMA FreshType ==
  /\ Fresh \in Request /\ Local(Fresh) /\ Fresh.path = None /\ Fresh.wrote = {}
  /\ Fresh.stage = "new" /\ Fresh.calls = <<>> /\ Fresh.did = FALSE /\ Fresh.status = "ok"
<1>1. (CHOOSE i \in PolicyIds : TRUE) \in PolicyIds /\ (CHOOSE d \in DomainIds : TRUE) \in DomainIds
  BY NmAssumption, Zenon
<1>2. [limit |-> None, corr |-> None] \in Params
  BY DEF Params
<1>3. Fresh \in Request
  BY <1>1, <1>2, CallLists DEF Fresh, Request, Kinds, Statuses, Success
<1>4. /\ Fresh.path = None /\ Fresh.wrote = {} /\ Fresh.kind = "list"
      /\ Fresh.stage = "new" /\ Fresh.calls = <<>> /\ Fresh.did = FALSE /\ Fresh.bad = FALSE
      /\ Fresh.status = "ok"
  BY DEF Fresh
<1>5. Local(Fresh)
  BY <1>4 DEF Local, FormInv, StatusInv, OwnerInv, ShownInv
<1> QED BY <1>3, <1>4, <1>5

-----------------------------------------------------------------------------
(* What a modification of the service leaves true *)

\* The service puts a policy of a new version at the path, or removes what is there.
Written(p, policy) ==
  /\ policies' = [policies EXCEPT ![p] = policy] /\ clock' = clock + 1
  /\ policy # None => policy.version = clock + 1

LEMMA ServiceWritten ==
  ASSUME ServiceInv(policies, clock), NEW p \in Path, NEW policy \in Policy \cup {None},
         Written(p, policy)
  PROVE  ServiceInv(policies', clock')
<1>1. policies' \in [Path -> Policy \cup {None}] /\ clock' \in Nat
  BY DEF ServiceInv, Written
<1>2. ASSUME NEW x \in Path, policies'[x] # None PROVE policies'[x].version <= clock'
  <2>1. CASE x = p
    <3>1. policies'[x] = policy
      BY <2>1 DEF ServiceInv, Written
    <3>2. policy.version = clock + 1
      BY <1>2, <3>1 DEF Written
    <3> QED BY <3>1, <3>2 DEF ServiceInv, Written
  <2>2. CASE x # p
    <3>1. policies'[x] = policies[x]
      BY <2>2 DEF ServiceInv, Written
    <3>2. policies[x] \in Policy /\ policies[x].version <= clock
      BY <1>2, <3>1 DEF ServiceInv
    <3>3. policies[x].version \in Nat
      BY <3>2 DEF Policy
    <3> QED BY <3>1, <3>2, <3>3 DEF ServiceInv, Written
  <2> QED BY <2>1, <2>2
<1> QED BY <1>1, <1>2 DEF ServiceInv

\* A request that knows the policy by its version is not misled by another one.
LEMMA AgainstWritten ==
  ASSUME ServiceInv(policies, clock), NEW q \in Request, Against(q, policies, clock),
         NEW p \in Path, NEW policy \in Policy \cup {None}, Written(p, policy)
  PROVE  Against(q, policies', clock')
<1>1. clock \in Nat /\ clock' = clock + 1 /\ q.wrote \subseteq 1..clock
  BY DEF Against, WroteInv, ServiceInv, Written
<1>2. ASSUME NEW x \in Path
      PROVE  \/ policies'[x] = policies[x]
             \/ policies'[x] # None => policies'[x].version = clock + 1
  BY DEF ServiceInv, Written
<1>3. ReadInv(q, policies', clock')
  <2>1. q.stage = "read" => q.path \in Path
    BY DEF Against, ReadInv
  <2>2. ASSUME q.stage = "after" \/ (q.stage = "act" /\ q.kind # "create")
        PROVE  /\ q.path \in Path /\ q.read \in Policy /\ q.read.version <= clock'
               /\ policies'[q.path] # None /\ policies'[q.path].version = q.read.version =>
                    policies'[q.path] = q.read
    <3>1. /\ q.path \in Path /\ q.read \in Policy /\ q.read.version <= clock
          /\ policies[q.path] # None /\ policies[q.path].version = q.read.version =>
               policies[q.path] = q.read
      BY <2>2 DEF Against, ReadInv
    <3>2. q.read.version \in Nat
      BY <3>1 DEF Policy
    <3>3. q.read.version <= clock' /\ q.read.version # clock + 1
      BY <1>1, <3>1, <3>2
    <3> QED BY <1>2, <3>1, <3>3
  <2> QED BY <2>1, <2>2 DEF ReadInv
<1>4. WroteInv(q, policies', clock')
  <2>1. q.wrote \subseteq 1..clock' /\ clock + 1 \notin q.wrote
    BY <1>1
  <2>2. q.stage = "after" => q.path \in Path
    BY DEF Against, ReadInv
  <2>3. CASE q.stage = "after" /\ policies'[q.path] = policies[q.path]
    BY <2>1, <2>3 DEF Against, WroteInv
  <2>4. CASE /\ q.stage = "after"
             /\ policies'[q.path] # None => policies'[q.path].version = clock + 1
    BY <2>1, <2>4 DEF WroteInv
  <2>5. CASE q.stage # "after"
    BY <2>1, <2>5 DEF WroteInv
  <2> QED BY <1>2, <2>2, <2>3, <2>4, <2>5
<1> QED BY <1>3, <1>4 DEF Against

\* A step of request r, with the service as it was ...
LEMMA QuietStep ==
  ASSUME NmInv, NEW r \in Requests, NEW q \in Request, req' = [req EXCEPT ![r] = q],
         Local(q), Against(q, policies, clock), UNCHANGED <<policies, clock, others>>
  PROVE  NmInv'
<1>1. req' \in [Requests -> Request] /\ \A s \in Requests : req'[s] = IF s = r THEN q ELSE req[s]
  BY DEF NmInv
<1>2. \A s \in Requests : Local(req'[s]) /\ Against(req'[s], policies, clock)
  BY <1>1 DEF NmInv
<1>3. \A s \in Requests : Local(req'[s]) /\ Against(req'[s], policies', clock')
  BY <1>2
<1>4. ServiceInv(policies', clock') /\ others' \in 0..MaxOthers
  BY DEF NmInv
<1> QED BY <1>1, <1>3, <1>4 DEF NmInv

\* ... or with one policy written.
LEMMA WritingStep ==
  ASSUME NmInv, NEW r \in Requests, NEW q \in Request, req' = [req EXCEPT ![r] = q],
         NEW p \in Path, NEW policy \in Policy \cup {None}, Written(p, policy),
         UNCHANGED others, Local(q), Against(q, policies', clock')
  PROVE  NmInv'
<1>1. req' \in [Requests -> Request] /\ \A s \in Requests : req'[s] = IF s = r THEN q ELSE req[s]
  BY DEF NmInv
<1>2. ServiceInv(policies, clock) /\ others' \in 0..MaxOthers
  BY DEF NmInv
<1>3. ServiceInv(policies', clock')
  BY <1>2, ServiceWritten
<1>4. ASSUME NEW s \in Requests PROVE Local(req'[s]) /\ Against(req'[s], policies', clock')
  <2>1. CASE s = r
    BY <1>1, <2>1
  <2>2. CASE s # r
    <3>1. req'[s] = req[s] /\ req[s] \in Request
      BY <1>1, <2>2 DEF NmInv
    <3>2. Local(req[s]) /\ Against(req[s], policies, clock)
      BY DEF NmInv
    <3> QED BY <1>2, <3>1, <3>2, AgainstWritten
  <2> QED BY <2>1, <2>2
<1> QED BY <1>1, <1>2, <1>3, <1>4 DEF NmInv

LEMMA InitNm == Init => NmInv
<1> SUFFICES ASSUME Init PROVE NmInv
  OBVIOUS
<1>1. ServiceInv(policies, clock)
  <2>1. \A policy \in Initial : policy \in Policy /\ policy.version = 0
    BY NmAssumption
  <2>2. policies \in [Path -> Initial \cup {None}] /\ clock = 0
    BY DEF Init
  <2>3. policies \in [Path -> Policy \cup {None}]
    BY <2>1, <2>2
  <2>4. \A p \in Path : policies[p] # None => policies[p].version = 0
    BY <2>1, <2>2
  <2> QED BY <2>2, <2>3, <2>4 DEF ServiceInv
<1>2. others \in 0..MaxOthers
  BY NmAssumption DEF Init
<1>3. req \in [Requests -> Request] /\ \A r \in Requests : req[r] = Fresh
  BY FreshType DEF Init
<1>4. Against(Fresh, policies, clock)
  BY FreshType DEF Against, ReadInv, WroteInv
<1> QED BY <1>1, <1>2, <1>3, <1>4, FreshType DEF NmInv

LEMMA OthersNm == NmInv /\ Others => NmInv'
<1> SUFFICES ASSUME NmInv, Others PROVE NmInv'
  OBVIOUS
<1>1. PICK p \in Path, policy \in Policy \cup {None} :
        /\ Written(p, policy) /\ others < MaxOthers /\ others' = others + 1 /\ UNCHANGED req
  <2>c. clock + 1 \in Nat
    BY DEF NmInv, ServiceInv
  <2>1. CASE \E p \in Path : OtherDelete(p)
    BY <2>1 DEF OtherDelete, Written
  <2>2. ASSUME NEW p \in Path, NEW owner \in {"bmc", "other"}, NEW v \in Values,
               OtherCreate(p, [owner |-> owner, limit |-> v, corr |-> v, extra |-> TRUE,
                               enabled |-> FALSE, version |-> clock + 1])
        PROVE  \E x \in Path, policy \in Policy \cup {None} :
                 Written(x, policy) /\ others < MaxOthers /\ others' = others + 1 /\ UNCHANGED req
    <3> DEFINE new == [owner |-> owner, limit |-> v, corr |-> v, extra |-> TRUE,
                       enabled |-> FALSE, version |-> clock + 1]
    <3>1. new \in Policy /\ new.version = clock + 1
      BY <2>c DEF Policy
    <3> HIDE DEF new
    <3>2. OtherCreate(p, new)
      BY <2>2 DEF new
    <3> QED BY <3>1, <3>2 DEF OtherCreate, Written
  <2> QED BY <2>1, <2>2 DEF Others
<1>2. ServiceInv(policies', clock') /\ others' \in 0..MaxOthers
  BY <1>1, ServiceWritten, NmAssumption DEF NmInv
<1>3. ASSUME NEW r \in Requests PROVE Local(req[r]) /\ Against(req[r], policies', clock')
  BY <1>1, AgainstWritten DEF NmInv
<1> QED BY <1>1, <1>2, <1>3 DEF NmInv

-----------------------------------------------------------------------------
(* The steps of a request that leave the service alone *)

LEMMA ArrivalNm ==
  ASSUME NmInv, NEW r \in Requests, SomeArrival(r)
  PROVE  NmInv'
<1>1. PICK kind \in Kinds, id \in PolicyIds, domain \in DomainIds, bad \in BOOLEAN,
           state \in BOOLEAN :
        \E body \in IF kind = "create" THEN Bodies \cap Attributes
                    ELSE IF kind = "patch" THEN Bodies ELSE {Fresh.body} :
          /\ bad => kind \in {"patch", "changeState", "create"}
          /\ Arrive(r, kind, id, domain, body, bad, state)
  BY DEF SomeArrival
<1>2. PICK body \in Params : /\ Arrive(r, kind, id, domain, body, bad, state)
                             /\ kind = "create" => body \in Attributes
  <2>1. Fresh.body \in Params
    BY FreshType DEF Request
  <2> QED BY <1>1, <2>1, NmAssumption
<1> DEFINE stage == IF kind = "create" THEN "act" ELSE "find"
           q == [Fresh EXCEPT !.stage = stage, !.kind = kind, !.id = id, !.domain = domain,
                              !.body = body, !.bad = bad, !.state = state]
<1>3. req' = [req EXCEPT ![r] = q] /\ UNCHANGED <<policies, clock, others>>
  BY <1>2 DEF Arrive
<1>4. q \in Request
  <2>1. Fresh \in Request /\ stage \in {"act", "find"}
    BY FreshType
  <2> HIDE DEF stage
  <2> QED BY <2>1 DEF Request
<1>5. /\ q.stage = stage /\ q.kind = kind /\ q.body = body /\ q.bad = bad
      /\ q.path = None /\ q.calls = <<>> /\ q.wrote = {} /\ q.did = FALSE
      /\ q.status = "ok"
  BY FreshType DEF Request
<1> HIDE DEF q
<1>6. FormInv(q)
  BY <1>1, <1>2, <1>5 DEF FormInv
<1>7. StatusInv(q)
  BY <1>5 DEF StatusInv
<1>8. OwnerInv(q) /\ ShownInv(q)
  BY <1>5 DEF OwnerInv, ShownInv
<1>9. Against(q, policies, clock)
  BY <1>5 DEF Against, ReadInv, WroteInv
<1> QED BY <1>3, <1>4, <1>6, <1>7, <1>8, <1>9, QuietStep DEF Local

\* The request ends before it has modified anything.
LEMMA EndNm ==
  ASSUME NmInv, NEW r \in Requests, NEW status \in Statuses, End(r, status),
         UNCHANGED <<policies, clock, others>>, req[r].stage \in {"find", "read", "act"},
         status \in Success => req[r].kind \notin Modifying
  PROVE  NmInv'
<1>1. PICK q \in Request :
        /\ req' = [req EXCEPT ![r] = q]
        /\ q.stage = "done" /\ q.status = status /\ SameForm(q, req[r])
        /\ q.path = req[r].path /\ q.read = req[r].read /\ q.calls = req[r].calls
        /\ q.shown = req[r].shown /\ q.did = req[r].did /\ q.wrote = req[r].wrote
  BY EndIs DEF NmInv
<1>2. Local(req[r])
  BY DEF NmInv
<1>3. FormInv(q)
  BY <1>1, <1>2 DEF Local, FormInv, SameForm
<1>4. ~q.did
  BY <1>1, <1>2 DEF Local, StatusInv
<1>5. StatusInv(q)
  BY <1>1, <1>4 DEF StatusInv, SameForm
<1>6. OwnerInv(q)
  BY <1>1 DEF OwnerInv
<1>7. ShownInv(q)
  BY <1>1 DEF ShownInv, SameForm, Modifying
<1>8. q.wrote = {}
  BY <1>1, <1>2 DEF Local, FormInv
<1>9. Against(q, policies, clock)
  BY <1>1, <1>8 DEF Against, ReadInv, WroteInv
<1> QED BY <1>1, <1>3, <1>5, <1>6, <1>7, <1>9, QuietStep DEF Local

\* The search has found the policy.
LEMMA FoundNm ==
  ASSUME NmInv, NEW r \in Requests, NEW p \in Path, Found(r, p), policies[p] # None,
         UNCHANGED <<policies, clock, others>>, req[r].stage = "find",
         req[r].kind \in {"delete", "get", "patch", "changeState", "reset"},
         req[r].kind = "delete" => policies[p].owner = "bmc"
  PROVE  NmInv'
<1>1. PICK q \in Request :
        /\ req' = [req EXCEPT ![r] = q]
        /\ q.stage = NextStage(req[r].kind) /\ q.path = p /\ q.read = policies[p]
        /\ q.calls = IF req[r].kind = "get" THEN <<"attributes", "statistics">> ELSE <<>>
        /\ SameForm(q, req[r]) /\ q.status = req[r].status
        /\ q.shown = req[r].shown /\ q.did = req[r].did /\ q.wrote = req[r].wrote
  BY FoundIs DEF NmInv, ServiceInv
<1>2. Local(req[r])
  BY DEF NmInv
<1>3. /\ q.kind \in {"delete", "reset"} => q.stage = "act"
      /\ q.kind \in {"patch", "changeState"} => q.stage = "read"
      /\ q.kind = "get" => q.stage = "after"
      /\ q.kind \in {"delete", "get", "patch", "changeState", "reset"}
      /\ q.kind = req[r].kind /\ q.bad = req[r].bad
  BY <1>1 DEF NextStage, SameForm
<1>4. q.wrote = {} /\ ~q.did
  BY <1>1, <1>2 DEF Local, FormInv, StatusInv
<1>5. FormInv(q)
  BY <1>1, <1>2, <1>3, <1>4 DEF Local, FormInv
<1>6. StatusInv(q)
  <2>1. q.stage = "act" => ~q.bad
    BY <1>2, <1>3 DEF Local, FormInv
  <2>2. q.status = "ok"
    BY <1>1, <1>2 DEF Local, StatusInv
  <2> QED BY <1>3, <1>4, <2>1, <2>2 DEF StatusInv, Modifying
<1>7. OwnerInv(q) /\ ShownInv(q)
  BY <1>1, <1>3 DEF OwnerInv, ShownInv
<1>8. Against(q, policies, clock)
  <2>1. policies[p] \in Policy /\ policies[p].version <= clock
    BY DEF NmInv, ServiceInv
  <2> QED BY <1>1, <1>3, <1>4, <2>1 DEF Against, ReadInv, WroteInv
<1> QED BY <1>1, <1>5, <1>6, <1>7, <1>8, QuietStep DEF Local

LEMMA FindNm ==
  ASSUME NmInv, NEW r \in Requests, FindPolicy(r) \/ FindFailed(r)
  PROVE  NmInv'
<1>1. req[r].stage = "find" /\ UNCHANGED <<policies, clock, others>>
  BY DEF FindPolicy, FindFailed
<1>2. ASSUME NEW status \in Refusals \cup {"internalError"}, End(r, status) PROVE NmInv'
  <2>1. status \in Statuses /\ status \notin Success
    BY <1>2 DEF Statuses, Refusals, Success
  <2> QED BY <1>1, <1>2, <2>1, EndNm
<1>3. CASE FindFailed(r)
  BY <1>2, <1>3 DEF FindFailed, Refusals
<1>4. CASE req[r].kind = "list" /\ End(r, "ok")
  <2>1. "ok" \in Statuses
    BY DEF Statuses, Success
  <2> QED BY <1>1, <1>4, <2>1, EndNm DEF Modifying
<1>5. CASE End(r, "resourceNotFound")
  BY <1>2, <1>5 DEF Refusals
<1>6. ASSUME req[r].kind = "delete", NEW p \in Deletable(req[r].id), Found(r, p) PROVE NmInv'
  BY <1>1, <1>6, FoundNm DEF Deletable, Existing
<1>7. ASSUME req[r].kind \in {"get", "patch", "changeState", "reset"},
             NEW p \in Matching(req[r].id), Found(r, p)
      PROVE  NmInv'
  BY <1>1, <1>7, FoundNm DEF Matching, Existing
<1> QED BY <1>3, <1>4, <1>5, <1>6, <1>7 DEF FindPolicy

LEMMA ReadNm ==
  ASSUME NmInv, NEW r \in Requests, ReadPolicy(r) \/ ReadFailed(r)
  PROVE  NmInv'
<1>1. req[r].stage = "read" /\ UNCHANGED <<policies, clock, others>>
  BY DEF ReadPolicy, ReadFailed
<1>2. ASSUME NEW status \in Refusals \cup {"internalError"}, End(r, status) PROVE NmInv'
  <2>1. status \in Statuses /\ status \notin Success
    BY <1>2 DEF Statuses, Refusals, Success
  <2> QED BY <1>1, <1>2, <2>1, EndNm
<1> DEFINE policy == policies[req[r].path]
<1>3. CASE /\ policy # None /\ ~Denied(r, policy) /\ ~Rejects(r)
           /\ req' = [req EXCEPT ![r].stage = "act", ![r].read = policy]
  <2>1. Local(req[r]) /\ req[r].path \in Path
    BY <1>1 DEF NmInv, Against, ReadInv
  <2>2. policy \in Policy /\ policy.version <= clock
    BY <1>3, <2>1 DEF NmInv, ServiceInv
  <2>3. PICK q \in Request :
          /\ req' = [req EXCEPT ![r] = q]
          /\ q.stage = "act" /\ q.read = policy
          /\ SameForm(q, req[r]) /\ q.path = req[r].path /\ q.calls = req[r].calls
          /\ q.status = req[r].status
          /\ q.shown = req[r].shown /\ q.did = req[r].did /\ q.wrote = req[r].wrote
    BY <1>3, <2>2, ReadIs DEF NmInv
  <2>4. ~q.bad
    BY <1>3, <2>3 DEF Rejects, SameForm
  <2>5. FormInv(q)
    BY <1>1, <2>1, <2>3 DEF Local, FormInv, SameForm
  <2>6. StatusInv(q)
    BY <1>1, <2>1, <2>3, <2>4 DEF Local, StatusInv, SameForm
  <2>7. q.kind # "create"
    BY <1>1, <2>1, <2>3 DEF Local, FormInv, SameForm
  <2>8. OwnerInv(q)
    <3>1. \/ policy.owner = "bmc"
          \/ req[r].kind = "changeState" /\ req[r].path.domain = HwProtection
      BY <1>3 DEF Denied, isPolicyReadOnly, isHwProtectionPolicy
    <3> QED BY <2>3, <2>7, <3>1 DEF OwnerInv, SameForm
  <2>9. ShownInv(q)
    BY <2>3 DEF ShownInv
  <2>10. q.wrote = {}
    BY <1>1, <2>1, <2>3 DEF Local, FormInv
  <2>11. Against(q, policies, clock)
    BY <2>1, <2>2, <2>3, <2>10 DEF Against, ReadInv, WroteInv
  <2> QED BY <1>1, <2>3, <2>5, <2>6, <2>8, <2>9, <2>11, QuietStep DEF Local
<1>4. CASE \/ End(r, "internalError") \/ End(r, "operationNotAllowed") \/ End(r, "badRequest")
  BY <1>2, <1>4 DEF Refusals
<1> QED BY <1>3, <1>4 DEF ReadPolicy, ReadFailed

LEMMA QuietNm ==
  ASSUME NmInv, NEW r \in Requests,
         CreateRejected(r) \/ ResetStatistics(r) \/ ActRefused(r)
  PROVE  NmInv'
<1>1. req[r].stage = "act" /\ UNCHANGED <<policies, clock, others>>
  BY DEF CreateRejected, ResetStatistics, ActRefused, Acting
<1>2. ASSUME NEW status \in Refusals \cup {"internalError"}, End(r, status) PROVE NmInv'
  <2>1. status \in Statuses /\ status \notin Success
    BY <1>2 DEF Statuses, Refusals, Success
  <2> QED BY <1>1, <1>2, <2>1, EndNm
<1>3. CASE CreateRejected(r)
  BY <1>2, <1>3 DEF CreateRejected, Refusals
<1>4. CASE ResetStatistics(r)
  <2>1. "no_content" \in Statuses /\ req[r].kind \notin Modifying /\ End(r, "no_content")
    BY <1>4 DEF Statuses, Success, ResetStatistics, Acting, Modifying
  <2> QED BY <1>1, <2>1, EndNm
<1>5. CASE ActRefused(r)
  <2>1. PICK error \in PossibleErrors(r) : End(r, ErrorStatus(req[r].kind, error))
    BY <1>5 DEF ActRefused
  <2>2. ErrorStatus(req[r].kind, error) \in Refusals \cup {"internalError"}
    BY ErrorStatusType
  <2> QED BY <1>2, <2>1, <2>2
<1> QED BY <1>3, <1>4, <1>5

-----------------------------------------------------------------------------
(* The modifying calls *)

\* The call was executed, and its answer is late.
LEMMA LateNm ==
  ASSUME NmInv, NEW r \in Requests, NEW q \in Request, AnswerLate(q, req[r]),
         req[r].stage = "act", req[r].kind \in Modifying, ~req[r].bad
  PROVE  Local(q) /\ Against(q, policies', clock')
<1>1. Local(req[r])
  BY DEF NmInv
<1>2. /\ q.stage = "done" /\ q.calls = <<>> /\ q.wrote = {} /\ ~q.bad /\ q.did = TRUE
      /\ q.kind = req[r].kind /\ q.body = req[r].body
  BY <1>1 DEF AnswerLate, SameForm, Local, FormInv
<1>3. /\ q.kind # "delete" => q.status = "internalError"
      /\ q.kind = "delete" => q.status = "resourceNotFound"
  BY <1>2, ErrorStatusType DEF AnswerLate
<1>4. "internalError" \notin Refusals \cup Success /\ "resourceNotFound" \notin Success
  BY DEF Refusals, Success
<1>5. FormInv(q)
  BY <1>1, <1>2 DEF Local, FormInv
<1>6. StatusInv(q)
  BY <1>2, <1>3, <1>4 DEF StatusInv
<1>7. OwnerInv(q) /\ ShownInv(q)
  BY <1>2, <1>3, <1>4 DEF OwnerInv, ShownInv
<1>8. Against(q, policies', clock')
  BY <1>2 DEF Against, ReadInv, WroteInv
<1> QED BY <1>5, <1>6, <1>7, <1>8 DEF Local

\* What a request that is about to modify a policy knows.
LEMMA ActingKnows ==
  ASSUME NmInv, NEW r \in Requests, req[r].stage = "act", req[r].kind # "create"
  PROVE  /\ req[r] \in Request /\ Local(req[r]) /\ ServiceInv(policies, clock)
         /\ req[r].path \in Path /\ req[r].read \in Policy
         /\ req[r].read.version \in Nat /\ req[r].read.version <= clock /\ ~req[r].bad
<1>1. req[r] \in Request /\ Local(req[r]) /\ ServiceInv(policies, clock)
  BY DEF NmInv
<1>2. req[r].path \in Path /\ req[r].read \in Policy /\ req[r].read.version <= clock
  BY DEF NmInv, Against, ReadInv
<1>3. ~req[r].bad
  BY <1>1 DEF Local, StatusInv
<1>4. req[r].read.version \in Nat
  BY <1>2 DEF Policy
<1> QED BY <1>1, <1>2, <1>3, <1>4

LEMMA MergeIs ==
  ASSUME NEW policy \in Policy, NEW body \in Params
  PROVE  /\ Merge(policy, body) \in Policy
         /\ Merge(policy, body).limit = IF body.limit = None THEN policy.limit ELSE body.limit
         /\ Merge(policy, body).corr = IF body.corr = None THEN policy.corr ELSE body.corr
         /\ Merge(policy, body).extra = FALSE
<1> DEFINE limit == IF body.limit = None THEN policy.limit ELSE body.limit
           corr == IF body.corr = None THEN policy.corr ELSE body.corr
<1>1. limit \in Values /\ corr \in Values
  BY DEF Policy, Params
<1>2. Merge(policy, body) = [policy EXCEPT !.limit = limit, !.corr = corr, !.extra = FALSE]
  BY DEF Merge, Policy
<1> HIDE DEF limit, corr
<1>3. [policy EXCEPT !.limit = limit, !.corr = corr, !.extra = FALSE] \in Policy
  BY <1>1 DEF Policy
<1>4. /\ [policy EXCEPT !.limit = limit, !.corr = corr, !.extra = FALSE].limit = limit
      /\ [policy EXCEPT !.limit = limit, !.corr = corr, !.extra = FALSE].corr = corr
  BY DEF Policy
<1> QED BY <1>2, <1>3, <1>4 DEF limit, corr

LEMMA EnableIs ==
  ASSUME NEW policy \in Policy, NEW enabled \in BOOLEAN, NEW version \in Nat, NEW new,
         new = [policy EXCEPT !.enabled = enabled, !.version = version]
  PROVE  /\ new \in Policy /\ new.version = version /\ new.owner = policy.owner
         /\ new.enabled = enabled /\ new.limit = policy.limit /\ new.corr = policy.corr
BY DEF Policy

LEMMA UpdateNm ==
  ASSUME NmInv, NEW r \in Requests, UpdatePolicy(r)
  PROVE  NmInv'
<1> DEFINE p == req[r].path
           old == policies[p]
           body == req[r].body
           new == [Merge(req[r].read, body) EXCEPT !.owner = old.owner,
                                                   !.enabled = old.enabled, !.version = clock + 1]
<1>1. /\ req[r].stage = "act" /\ req[r].kind = "patch" /\ old # None
      /\ Write(p, new) /\ Answered(r, "ok", p, req[r].read, <<"attributes", "statistics">>)
  BY DEF UpdatePolicy, Acting
<1>2. /\ req[r] \in Request /\ Local(req[r]) /\ ServiceInv(policies, clock)
      /\ p \in Path /\ req[r].read \in Policy
      /\ req[r].read.version \in Nat /\ req[r].read.version <= clock /\ ~req[r].bad
  BY <1>1, ActingKnows
<1>3. old \in Policy /\ body \in Params /\ clock \in Nat
  BY <1>1, <1>2 DEF ServiceInv, Request
<1>4. /\ new \in Policy /\ new.version = clock + 1
      /\ body.limit # None => new.limit = body.limit
      /\ body.corr # None => new.corr = body.corr
  <2> DEFINE merged == Merge(req[r].read, body)
  <2>1. /\ merged \in Policy
        /\ body.limit # None => merged.limit = body.limit
        /\ body.corr # None => merged.corr = body.corr
    BY <1>2, <1>3, MergeIs
  <2>2. old.owner \in {"bmc", "other"} /\ old.enabled \in BOOLEAN /\ clock + 1 \in Nat
    BY <1>3 DEF Policy
  <2> HIDE DEF merged
  <2>3. new = [merged EXCEPT !.owner = old.owner, !.enabled = old.enabled, !.version = clock + 1]
    BY DEF merged
  <2>4. /\ new \in Policy /\ new.version = clock + 1
        /\ new.limit = merged.limit /\ new.corr = merged.corr
    <3> DEFINE owner == old.owner
               enabled == old.enabled
    <3>1. owner \in {"bmc", "other"} /\ enabled \in BOOLEAN
      BY <2>2
    <3>2. new = [merged EXCEPT !.owner = owner, !.enabled = enabled, !.version = clock + 1]
      BY <2>3
    <3> HIDE DEF new, owner, enabled
    <3> QED BY <2>1, <2>2, <3>1, <3>2 DEF Policy
  <2> QED BY <2>1, <2>4
<1> HIDE DEF new
<1>5. Written(p, new) /\ UNCHANGED others
  BY <1>1, <1>4 DEF Write, Written
<1>6. PICK q \in Request :
        /\ req' = [req EXCEPT ![r] = q]
        /\ \/ AnswerCame(q, req[r], "ok", p, req[r].read, <<"attributes", "statistics">>, clock + 1)
           \/ AnswerLate(q, req[r])
  <2>1. "ok" \in Statuses
    BY DEF Statuses, Success
  <2> QED BY <1>1, <1>2, <1>3, <2>1, CallLists, AnsweredIs DEF NmInv
<1>7. CASE AnswerLate(q, req[r])
  BY <1>1, <1>2, <1>4, <1>5, <1>6, <1>7, LateNm, WritingStep DEF Modifying
<1>8. CASE AnswerCame(q, req[r], "ok", p, req[r].read, <<"attributes", "statistics">>, clock + 1)
  <2>1. /\ q.stage = "after" /\ q.status = "ok" /\ q.path = p /\ q.read = req[r].read
        /\ q.calls = <<"attributes", "statistics">> /\ q.did = TRUE /\ q.wrote = {clock + 1}
        /\ q.kind = "patch" /\ q.body = body /\ ~q.bad
    BY <1>1, <1>2, <1>8 DEF AnswerCame, SameForm
  <2>2. FormInv(q) /\ StatusInv(q)
    BY <2>1 DEF FormInv, StatusInv, Modifying
  <2>3. OwnerInv(q) /\ ShownInv(q)
    BY <2>1 DEF OwnerInv, ShownInv
  <2>4. policies'[p] = new /\ clock' = clock + 1
    BY <1>2, <1>5 DEF Written, ServiceInv
  <2>5. ReadInv(q, policies', clock')
    <3>1. new.version # q.read.version /\ q.read.version <= clock'
      BY <1>2, <1>3, <1>4, <2>1, <2>4
    <3> QED BY <1>2, <2>1, <2>4, <3>1 DEF ReadInv
  <2>6. WroteInv(q, policies', clock')
    <3>1. q.wrote \subseteq 1..clock'
      BY <1>3, <2>1, <2>4
    <3>2. Asked(q, new)
      BY <1>4, <2>1 DEF Asked
    <3> QED BY <2>1, <2>4, <3>1, <3>2 DEF WroteInv
  <2> QED BY <1>2, <1>4, <1>5, <1>6, <2>2, <2>3, <2>5, <2>6, WritingStep DEF Local, Against
<1> QED BY <1>6, <1>7, <1>8

\* The modification ends the request.
LEMMA DoneNm ==
  ASSUME NmInv, NEW r \in Requests, NEW q \in Request, NEW p \in Path, NEW policy,
         AnswerCame(q, req[r], "no_content", p, policy, <<>>, clock + 1),
         req[r].kind \in {"delete", "changeState"}, ~req[r].bad, clock' = clock + 1
  PROVE  Local(q) /\ Against(q, policies', clock')
<1>1. /\ q.stage = "done" /\ q.calls = <<>> /\ q.wrote = {clock + 1} /\ ~q.bad /\ q.did = TRUE
      /\ q.kind \in {"delete", "changeState"} /\ q.status = "no_content"
  BY DEF AnswerCame, SameForm
<1>2. "no_content" \notin Refusals
  BY DEF Refusals
<1>3. FormInv(q) /\ StatusInv(q)
  BY <1>1, <1>2 DEF FormInv, StatusInv, Modifying
<1>4. OwnerInv(q) /\ ShownInv(q)
  BY <1>1 DEF OwnerInv, ShownInv
<1>5. q.wrote \subseteq 1..clock'
  BY <1>1 DEF NmInv, ServiceInv
<1>6. Against(q, policies', clock')
  BY <1>1, <1>5 DEF Against, ReadInv, WroteInv
<1> QED BY <1>3, <1>4, <1>6 DEF Local

LEMMA DeleteNm ==
  ASSUME NmInv, NEW r \in Requests, DeletePolicy(r) \/ SetEnabled(r)
  PROVE  NmInv'
<1> DEFINE p == req[r].path
           changed == [policies[p] EXCEPT !.enabled = req[r].state, !.version = clock + 1]
<1>1. /\ req[r].stage = "act" /\ req[r].kind \in {"delete", "changeState"} /\ policies[p] # None
      /\ Write(p, None) \/ Write(p, changed)
      /\ Answered(r, "no_content", p, req[r].read, <<>>)
  BY DEF DeletePolicy, SetEnabled, Acting
<1>2. /\ req[r] \in Request /\ Local(req[r]) /\ ServiceInv(policies, clock)
      /\ p \in Path /\ req[r].read \in Policy /\ ~req[r].bad
  BY <1>1, ActingKnows
<1>3. changed \in Policy /\ changed.version = clock + 1
  <2>1. policies[p] \in Policy /\ req[r].state \in BOOLEAN /\ clock + 1 \in Nat
    BY <1>1, <1>2 DEF ServiceInv, Request
  <2> HIDE DEF p
  <2> QED BY <2>1 DEF Policy
<1> HIDE DEF changed
<1>4. PICK policy \in Policy \cup {None} : Written(p, policy) /\ UNCHANGED others
  BY <1>1, <1>3 DEF Write, Written
<1>5. PICK q \in Request :
        /\ req' = [req EXCEPT ![r] = q]
        /\ \/ AnswerCame(q, req[r], "no_content", p, req[r].read, <<>>, clock + 1)
           \/ AnswerLate(q, req[r])
  <2>1. "no_content" \in Statuses /\ clock \in Nat
    BY <1>2 DEF Statuses, Success, ServiceInv
  <2> QED BY <1>1, <1>2, <2>1, CallLists, AnsweredIs DEF NmInv
<1>6. Local(q) /\ Against(q, policies', clock')
  <2>1. clock' = clock + 1
    BY <1>4 DEF Written
  <2> QED BY <1>1, <1>2, <1>5, <2>1, LateNm, DoneNm DEF Modifying
<1> QED BY <1>2, <1>4, <1>5, <1>6, WritingStep

LEMMA CreateCallsIs ==
  ASSUME NEW state \in BOOLEAN
  PROVE  /\ CreateCalls(state) \in Seq(Calls) /\ CreateCalls(state) # <<>>
         /\ state => CreateCalls(state) = <<"enable", "attributes", "statistics">>
         /\ ~state => CreateCalls(state) = <<"attributes", "statistics">>
<1>1. <<"enable">> \o <<"attributes", "statistics">> = <<"enable", "attributes", "statistics">>
  <2> DEFINE s == <<"enable">>
             t == <<"attributes", "statistics">>
             u == <<"enable", "attributes", "statistics">>
  <2>1. s \in Seq(Calls) /\ t \in Seq(Calls) /\ u \in Seq(Calls)
    BY DEF Calls
  <2>2. Len(s) = 1 /\ Len(t) = 2 /\ Len(u) = 3
    OBVIOUS
  <2>3. /\ s[1] = "enable" /\ t[1] = "attributes" /\ t[2] = "statistics"
        /\ u[1] = "enable" /\ u[2] = "attributes" /\ u[3] = "statistics"
    OBVIOUS
  <2> HIDE DEF s, t, u
  <2>4. /\ s \o t \in Seq(Calls) /\ Len(s \o t) = Len(s) + Len(t)
        /\ \A i \in 1..Len(s) + Len(t) :
             (s \o t)[i] = IF i <= Len(s) THEN s[i] ELSE t[i - Len(s)]
    BY <2>1, ConcatProperties
  <2>5. \A i \in 1..3 : (s \o t)[i] = u[i]
    <3>1. Len(s) + Len(t) = 3
      BY <2>2
    <3>2. (s \o t)[1] = s[1] /\ (s \o t)[2] = t[1] /\ (s \o t)[3] = t[2]
      <4>1. 1 \in 1..Len(s) + Len(t) /\ 1 <= Len(s)
        BY <2>2, <3>1
      <4>2. 2 \in 1..Len(s) + Len(t) /\ ~(2 <= Len(s)) /\ 2 - Len(s) = 1
        BY <2>2, <3>1
      <4>3. 3 \in 1..Len(s) + Len(t) /\ ~(3 <= Len(s)) /\ 3 - Len(s) = 2
        BY <2>2, <3>1
      <4> QED BY <2>4, <4>1, <4>2, <4>3
    <3>3. \A i \in 1..3 : i = 1 \/ i = 2 \/ i = 3
      OBVIOUS
    <3> QED BY <2>3, <3>2, <3>3
  <2>6. s \o t = u
    BY <2>1, <2>2, <2>4, <2>5, SeqEqual
  <2> QED BY <2>6 DEF s, t, u
<1>2. <<>> \o <<"attributes", "statistics">> = <<"attributes", "statistics">>
  BY CallLists, ConcatEmptySeq
<1>3. /\ state => CreateCalls(state) = <<"enable", "attributes", "statistics">>
      /\ ~state => CreateCalls(state) = <<"attributes", "statistics">>
  BY <1>1, <1>2 DEF CreateCalls
<1>4. CASE state
  BY <1>3, <1>4, CallLists
<1>5. CASE ~state
  BY <1>3, <1>5, CallLists
<1> QED BY <1>4, <1>5

LEMMA CreateNm ==
  ASSUME NmInv, NEW r \in Requests, CreateWithId(r)
  PROVE  NmInv'
<1> DEFINE p == [domain |-> req[r].domain, id |-> req[r].id]
           body == req[r].body
           new == [owner |-> "bmc", limit |-> body.limit, corr |-> body.corr, extra |-> FALSE,
                   enabled |-> FALSE, version |-> clock + 1]
           calls == CreateCalls(req[r].state)
<1>1. /\ req[r].stage = "act" /\ req[r].kind = "create" /\ ~req[r].bad
      /\ Write(p, new) /\ Answered(r, "created", p, new, calls)
  BY DEF CreateWithId, Acting
<1>2. req[r] \in Request /\ Local(req[r]) /\ ServiceInv(policies, clock) /\ clock \in Nat
  BY DEF NmInv, ServiceInv
<1>3. p \in Path /\ body \in Attributes /\ req[r].state \in BOOLEAN
  BY <1>1, <1>2 DEF Request, Path, Local, FormInv
<1>4. /\ new \in Policy /\ new.version = clock + 1 /\ new.owner = "bmc"
      /\ new.limit = body.limit /\ new.corr = body.corr /\ new.enabled = FALSE
  <2>1. body.limit \in Values /\ body.corr \in Values /\ clock + 1 \in Nat
    BY <1>2, <1>3 DEF Attributes
  <2> HIDE DEF body
  <2> QED BY <2>1 DEF Policy
<1> HIDE DEF new, p
<1>5. Written(p, new) /\ UNCHANGED others
  BY <1>1, <1>4 DEF Write, Written
<1>6. /\ calls \in Seq(Calls) /\ calls # <<>>
      /\ req[r].state => calls = <<"enable", "attributes", "statistics">>
      /\ ~req[r].state => calls = <<"attributes", "statistics">>
  BY <1>3, CreateCallsIs
<1> HIDE DEF calls
<1>7. PICK q \in Request :
        /\ req' = [req EXCEPT ![r] = q]
        /\ \/ AnswerCame(q, req[r], "created", p, new, calls, clock + 1)
           \/ AnswerLate(q, req[r])
  <2>1. "created" \in Statuses
    BY DEF Statuses, Success
  <2> QED BY <1>1, <1>2, <1>3, <1>4, <1>6, <2>1, AnsweredIs DEF NmInv
<1>8. CASE AnswerLate(q, req[r])
  BY <1>1, <1>3, <1>4, <1>5, <1>7, <1>8, LateNm, WritingStep DEF Modifying
<1>9. CASE AnswerCame(q, req[r], "created", p, new, calls, clock + 1)
  <2>1. /\ q.stage = "after" /\ q.status = "created" /\ q.path = p /\ q.read = new
        /\ q.calls = calls /\ q.did = TRUE /\ q.wrote = {clock + 1}
        /\ q.kind = "create" /\ q.body = body /\ ~q.bad /\ q.state = req[r].state
    BY <1>1, <1>6, <1>9 DEF AnswerCame, SameForm
  <2>2. FormInv(q)
    BY <1>3, <1>6, <2>1 DEF FormInv
  <2>3. StatusInv(q)
    BY <2>1 DEF StatusInv, Modifying
  <2>4. OwnerInv(q)
    BY <1>4, <2>1 DEF OwnerInv
  <2>5. ShownInv(q)
    <3>1. calls # <<"statistics">>
      BY <1>6
    <3> QED BY <2>1, <3>1 DEF ShownInv
  <2>6. policies'[p] = new /\ clock' = clock + 1
    BY <1>2, <1>3, <1>5 DEF Written, ServiceInv
  <2>7. ReadInv(q, policies', clock')
    BY <1>2, <1>3, <1>4, <2>1, <2>6 DEF ReadInv
  <2>8. WroteInv(q, policies', clock')
    <3>1. q.wrote \subseteq 1..clock'
      BY <1>2, <2>1, <2>6
    <3>2. Asked(q, new)
      BY <1>4, <2>1 DEF Asked
    <3>3. ~(q.state /\ q.calls \in {<<"attributes", "statistics">>, <<"statistics">>})
      BY <1>6, <2>1
    <3>4. new.enabled = (q.state /\ q.calls \in {<<"attributes", "statistics">>, <<"statistics">>})
      BY <1>4, <3>3
    <3> QED BY <2>1, <2>6, <3>1, <3>2, <3>4 DEF WroteInv
  <2> QED BY <1>3, <1>4, <1>5, <1>7, <2>2, <2>3, <2>4, <2>5, <2>7, <2>8, WritingStep
          DEF Local, Against
<1> QED BY <1>7, <1>8, <1>9

-----------------------------------------------------------------------------
(* The calls that follow *)

LEMMA FollowingKnows ==
  ASSUME NmInv, NEW r \in Requests, NEW call, Following(r, call)
  PROVE  /\ req[r] \in Request /\ Local(req[r]) /\ Against(req[r], policies, clock)
         /\ ServiceInv(policies, clock) /\ clock \in Nat
         /\ req[r].path \in Path /\ req[r].read \in Policy
         /\ req[r].stage = "after" /\ req[r].kind \in {"get", "patch", "create"}
         /\ req[r].status \in Statuses /\ req[r].shown \in Policy \cup {None}
         /\ req[r].calls \in {<<"enable", "attributes", "statistics">>,
                              <<"attributes", "statistics">>, <<"statistics">>}
         /\ call = "enable" => /\ req[r].kind = "create" /\ req[r].state
                               /\ req[r].calls = <<"enable", "attributes", "statistics">>
         /\ call = "attributes" => req[r].calls = <<"attributes", "statistics">>
         /\ call = "statistics" => req[r].calls = <<"statistics">>
<1>1. /\ req[r] \in Request /\ Local(req[r]) /\ Against(req[r], policies, clock)
      /\ ServiceInv(policies, clock) /\ clock \in Nat
  BY DEF NmInv, ServiceInv
<1>2. req[r].stage = "after" /\ Head(req[r].calls) = call
  BY DEF Following
<1>3. req[r].path \in Path /\ req[r].read \in Policy
  BY <1>1, <1>2 DEF Against, ReadInv
<1>4. req[r].status \in Statuses /\ req[r].shown \in Policy \cup {None}
  BY <1>1 DEF Request
<1>5. /\ req[r].kind \in {"get", "patch", "create"}
      /\ \/ req[r].calls \in {<<"attributes", "statistics">>, <<"statistics">>}
         \/ /\ req[r].kind = "create" /\ req[r].state
            /\ req[r].calls = <<"enable", "attributes", "statistics">>
  BY <1>1, <1>2 DEF Local, FormInv
<1>6. CASE req[r].calls = <<"statistics">>
  BY <1>1, <1>2, <1>3, <1>4, <1>5, <1>6, CallLists
<1>7. CASE req[r].calls = <<"attributes", "statistics">>
  BY <1>1, <1>2, <1>3, <1>4, <1>5, <1>7, CallLists
<1>8. CASE /\ req[r].kind = "create" /\ req[r].state
           /\ req[r].calls = <<"enable", "attributes", "statistics">>
  BY <1>1, <1>2, <1>3, <1>4, <1>5, <1>8, CallLists
<1> QED BY <1>5, <1>6, <1>7, <1>8

\* ... and what is true of it.
Followup(q, o, status, shown, wrote) ==
  /\ After(q, o, status, shown, wrote)
  /\ FormInv(q) /\ StatusInv(q) /\ OwnerInv(q)
  /\ o.calls = <<"statistics">> => q.stage = "done"
  /\ o.calls = <<"attributes", "statistics">> => q.stage = "after" /\ q.calls = <<"statistics">>
  /\ o.calls = <<"enable", "attributes", "statistics">> =>
       q.stage = "after" /\ q.calls = <<"attributes", "statistics">>

LEMMA FollowNm ==
  ASSUME NmInv, NEW r \in Requests, NEW call, Following(r, call),
         NEW status \in {req[r].status, "internalError"}, NEW shown \in Policy \cup {None},
         NEW wrote \in SUBSET Nat, Followed(r, status, shown, wrote)
  PROVE  \E q \in Request :
           req' = [req EXCEPT ![r] = q] /\ Followup(q, req[r], status, shown, wrote)
<1> DEFINE o == req[r]
<1>1. /\ o \in Request /\ Local(o) /\ o.stage = "after" /\ o.kind \in {"get", "patch", "create"}
      /\ o.status \in Statuses
      /\ o.calls \in {<<"enable", "attributes", "statistics">>,
                      <<"attributes", "statistics">>, <<"statistics">>}
  BY FollowingKnows
<1>2. PICK q \in Request : req' = [req EXCEPT ![r] = q] /\ After(q, o, status, shown, wrote)
  <2>1. status \in Statuses
    BY <1>1 DEF Statuses
  <2>2. o.calls # <<>>
    BY <1>1, CallLists
  <2>3. req \in [Requests -> Request]
    BY DEF NmInv
  <2> QED BY <2>1, <2>2, <2>3, FollowedIs, Zenon
<1>3. /\ o.calls = <<"statistics">> => q.stage = "done" /\ q.calls = <<>>
      /\ o.calls = <<"attributes", "statistics">> => q.stage = "after" /\ q.calls = <<"statistics">>
      /\ o.calls = <<"enable", "attributes", "statistics">> =>
           q.stage = "after" /\ q.calls = <<"attributes", "statistics">>
  <2>1. CASE o.calls = <<"statistics">>
    BY <1>2, <2>1, CallLists DEF After
  <2>2. CASE o.calls = <<"attributes", "statistics">>
    BY <1>2, <2>2, CallLists DEF After
  <2>3. CASE o.calls = <<"enable", "attributes", "statistics">>
    BY <1>2, <2>3, CallLists DEF After
  <2> QED BY <1>1, <2>1, <2>2, <2>3
<1>4. /\ q.stage \in {"after", "done"} /\ (q.stage = "done" => q.calls = <<>>)
      /\ q.stage = "after" => q.calls \in {<<"attributes", "statistics">>, <<"statistics">>}
      /\ q.kind = o.kind /\ q.bad = o.bad /\ q.body = o.body
  BY <1>1, <1>2, <1>3 DEF After, SameForm
<1>5. FormInv(q)
  BY <1>1, <1>4 DEF Local, FormInv
<1>6. StatusInv(q)
  <2>1. q.did = o.did /\ q.status = status
    BY <1>2 DEF After
  <2>2. q.status \in {"ok", "created", "internalError"} /\ (q.did <=> q.kind \in Modifying)
        /\ (q.did => ~q.bad)
    BY <1>1, <1>4, <2>1 DEF Local, StatusInv
  <2>3. {"ok", "created", "internalError"} \cap Refusals = {}
    BY DEF Refusals
  <2> QED BY <1>4, <2>2, <2>3 DEF StatusInv
<1>7. OwnerInv(q)
  <2>1. q.read = o.read /\ o.wrote \subseteq q.wrote
    BY <1>2 DEF After
  <2> QED BY <1>1, <1>4, <2>1 DEF Local, OwnerInv
<1>8. Followup(q, o, status, shown, wrote)
  BY <1>2, <1>3, <1>5, <1>6, <1>7 DEF Followup
<1> QED BY <1>2, <1>8

\* A callback that reports an error, while the service is as it was.
LEMMA FollowErrorNm ==
  ASSUME NmInv, NEW r \in Requests, NEW call, Following(r, call),
         Followed(r, "internalError", req[r].shown, {}), UNCHANGED <<policies, clock, others>>
  PROVE  NmInv'
<1>1. /\ Against(req[r], policies, clock) /\ req[r].shown \in Policy \cup {None}
      /\ req[r].stage = "after"
  BY FollowingKnows
<1>2. PICK q \in Request :
        /\ req' = [req EXCEPT ![r] = q] /\ Followup(q, req[r], "internalError", req[r].shown, {})
  <2>1. {} \in SUBSET Nat /\ "internalError" \in {req[r].status, "internalError"}
    OBVIOUS
  <2> QED BY <1>1, <2>1, FollowNm, Zenon
<1>3. /\ q.status = "internalError" /\ q.status \notin Success /\ q.wrote = req[r].wrote
      /\ q.path = req[r].path /\ q.read = req[r].read /\ q.stage \in {"done", "after"}
  BY <1>2 DEF Followup, After, Success
<1>4. ShownInv(q)
  BY <1>3 DEF ShownInv
<1>5. Against(q, policies, clock)
  BY <1>1, <1>3 DEF Against, ReadInv, WroteInv
<1> QED BY <1>2, <1>4, <1>5, QuietStep DEF Local, Followup

LEMMA AttributesNm ==
  ASSUME NmInv, NEW r \in Requests, GetAttributes(r)
  PROVE  NmInv'
<1> DEFINE policy == policies[req[r].path]
           o == req[r]
<1>1. Following(r, "attributes") /\ UNCHANGED <<policies, clock, others>>
  BY DEF GetAttributes
<1>2. CASE policy # None /\ Followed(r, o.status, policy, {})
  <2>1. /\ ServiceInv(policies, clock) /\ o.path \in Path /\ o.stage = "after"
        /\ Against(o, policies, clock) /\ o.calls = <<"attributes", "statistics">>
        /\ o.state \in BOOLEAN
    BY <1>1, FollowingKnows DEF Request
  <2>2. policy \in Policy
    BY <1>2, <2>1 DEF ServiceInv
  <2>3. PICK q \in Request :
          /\ req' = [req EXCEPT ![r] = q] /\ After(q, o, o.status, policy, {})
          /\ FormInv(q) /\ StatusInv(q) /\ OwnerInv(q)
          /\ q.stage = "after" /\ q.calls = <<"statistics">>
    <3>1. o.status \in {o.status, "internalError"} /\ {} \in SUBSET Nat
      OBVIOUS
    <3>2. \E q \in Request :
            req' = [req EXCEPT ![r] = q] /\ Followup(q, o, o.status, policy, {})
      BY <1>1, <1>2, <2>1, <2>2, <3>1, FollowNm, Zenon
    <3> QED BY <1>1, <1>2, <2>1, <2>2, <3>2, Zenon DEF Followup
  <2>4. /\ q.status = o.status /\ q.shown = policy /\ q.wrote = o.wrote /\ q.kind = o.kind
        /\ q.body = o.body /\ q.state = o.state /\ q.path = o.path /\ q.read = o.read
    BY <2>3 DEF After, SameForm
  <2>5. ASSUME q.kind \in {"patch", "create"}, q.status \in Success, policy.version \in q.wrote
        PROVE  Asked(q, policy) /\ (q.kind = "create" => policy.enabled = q.state)
    <3>1. /\ Asked(o, policy)
          /\ o.kind = "create" =>
               policy.enabled = (o.state /\ o.calls \in {<<"attributes", "statistics">>,
                                                         <<"statistics">>})
      BY <1>2, <2>1, <2>4, <2>5 DEF Against, WroteInv
    <3>2. (o.state /\ o.calls \in {<<"attributes", "statistics">>, <<"statistics">>}) = o.state
      BY <2>1
    <3>3. Asked(q, policy)
      BY <2>4, <3>1 DEF Asked
    <3> QED BY <2>4, <3>1, <3>2, <3>3
  <2>6. ShownInv(q)
    BY <1>2, <2>4, <2>5 DEF ShownInv
  <2>7. ReadInv(q, policies, clock)
    BY <2>1, <2>3, <2>4 DEF Against, ReadInv
  <2>8. WroteInv(q, policies, clock)
    <3>1. q.wrote \subseteq 1..clock
      BY <2>1, <2>4 DEF Against, WroteInv
    <3>2. q.state = (q.state /\ q.calls \in {<<"attributes", "statistics">>, <<"statistics">>})
      BY <2>1, <2>3, <2>4
    <3>3. policies[q.path] = policy
      BY <2>4
    <3> HIDE DEF policy
    <3> QED BY <2>5, <3>1, <3>2, <3>3 DEF WroteInv
  <2> QED BY <1>1, <2>3, <2>6, <2>7, <2>8, QuietStep DEF Local, Against
<1>3. CASE Followed(r, "internalError", o.shown, {})
  BY <1>1, <1>3, FollowErrorNm
<1> QED BY <1>2, <1>3 DEF GetAttributes

LEMMA StatisticsNm ==
  ASSUME NmInv, NEW r \in Requests, GetStatistics(r)
  PROVE  NmInv'
<1> DEFINE o == req[r]
<1>1. Following(r, "statistics") /\ UNCHANGED <<policies, clock, others>>
  BY DEF GetStatistics
<1>2. CASE Followed(r, o.status, o.shown, {})
  <2>1. /\ o.stage = "after" /\ Local(o) /\ Against(o, policies, clock)
        /\ o.calls = <<"statistics">> /\ o.shown \in Policy \cup {None}
    BY <1>1, FollowingKnows
  <2>2. PICK q \in Request :
          /\ req' = [req EXCEPT ![r] = q] /\ After(q, o, o.status, o.shown, {})
          /\ FormInv(q) /\ StatusInv(q) /\ OwnerInv(q) /\ q.stage = "done"
    <3>1. o.status \in {o.status, "internalError"} /\ {} \in SUBSET Nat
      OBVIOUS
    <3>2. \E q \in Request :
            req' = [req EXCEPT ![r] = q] /\ Followup(q, o, o.status, o.shown, {})
      BY <1>1, <1>2, <2>1, <3>1, FollowNm, Zenon
    <3> QED BY <1>1, <1>2, <2>1, <3>2, Zenon DEF Followup
  <2>3. /\ q.status = o.status /\ q.shown = o.shown /\ q.wrote = o.wrote /\ q.kind = o.kind
        /\ q.body = o.body /\ q.state = o.state
    BY <2>2 DEF After, SameForm
  <2>4. ShownInv(q)
    BY <2>1, <2>3 DEF Local, ShownInv, Asked
  <2>5. Against(q, policies, clock)
    BY <2>1, <2>2, <2>3 DEF Against, ReadInv, WroteInv
  <2> QED BY <1>1, <2>2, <2>4, <2>5, QuietStep DEF Local
<1>3. CASE Followed(r, "internalError", o.shown, {})
  BY <1>1, <1>3, FollowErrorNm
<1> QED BY <1>2, <1>3 DEF GetStatistics

LEMMA EnableNm ==
  ASSUME NmInv, NEW r \in Requests, EnableCreated(r)
  PROVE  NmInv'
<1> DEFINE o == req[r]
           p == o.path
           old == policies[p]
           new == [old EXCEPT !.enabled = TRUE, !.version = clock + 1]
           mine == IF Unchanged(r) THEN {clock + 1} ELSE {}
<1>1. Following(r, "enable")
  BY DEF EnableCreated
<1>2. /\ ServiceInv(policies, clock) /\ clock \in Nat /\ p \in Path /\ o.stage = "after"
      /\ Local(o) /\ Against(o, policies, clock) /\ o.kind = "create" /\ o.state
      /\ o.calls = <<"enable", "attributes", "statistics">> /\ o.shown \in Policy \cup {None}
      /\ o.read \in Policy /\ o.state \in BOOLEAN
  BY <1>1, FollowingKnows DEF Request
<1>3. CASE /\ old # None /\ Write(p, new) /\ Followed(r, o.status, o.shown, mine)
  <2>1. old \in Policy /\ clock + 1 \in Nat
    BY <1>2, <1>3 DEF ServiceInv
  <2>2. /\ new \in Policy /\ new.version = clock + 1 /\ new.enabled = TRUE
        /\ new.limit = old.limit /\ new.corr = old.corr
    <3> HIDE DEF old
    <3> QED BY <2>1 DEF Policy
  <2> HIDE DEF new
  <2>3. Written(p, new) /\ UNCHANGED others
    BY <1>3, <2>2 DEF Write, Written
  <2>4. mine \in SUBSET Nat
    BY <2>1
  <2>5. PICK q \in Request :
          /\ req' = [req EXCEPT ![r] = q] /\ After(q, o, o.status, o.shown, mine)
          /\ FormInv(q) /\ StatusInv(q) /\ OwnerInv(q)
          /\ q.stage = "after" /\ q.calls = <<"attributes", "statistics">>
    <3>1. o.status \in {o.status, "internalError"} /\ {} \in SUBSET Nat
      OBVIOUS
    <3>2. \E q \in Request :
            req' = [req EXCEPT ![r] = q] /\ Followup(q, o, o.status, o.shown, mine)
      BY <1>1, <1>2, <1>3, <2>4, <3>1, FollowNm, Zenon
    <3> QED BY <1>1, <1>2, <1>3, <2>4, <3>2, Zenon DEF Followup
  <2>6. /\ q.status = o.status /\ q.shown = o.shown /\ q.wrote = o.wrote \cup mine
        /\ q.kind = o.kind /\ q.body = o.body /\ q.state = o.state /\ q.path = p /\ q.read = o.read
    BY <2>5 DEF After, SameForm
  <2>7. ShownInv(q)
    BY <2>5 DEF ShownInv
  <2>8. policies'[p] = new /\ clock' = clock + 1
    BY <1>2, <2>3 DEF Written, ServiceInv
  <2>9. ReadInv(q, policies', clock')
    <3>1. o.read.version <= clock /\ o.read.version \in Nat
      BY <1>2 DEF Against, ReadInv, Policy
    <3>2. o.read.version <= clock' /\ new.version # o.read.version
      BY <1>2, <2>2, <2>8, <3>1
    <3> QED BY <1>2, <2>5, <2>6, <2>8, <3>2 DEF ReadInv
  <2>10. WroteInv(q, policies', clock')
    <3>1. o.wrote \subseteq 1..clock
      BY <1>2 DEF Against, WroteInv
    <3>2. q.wrote \subseteq 1..clock'
      BY <1>2, <2>6, <2>8, <3>1
    <3>3. CASE Unchanged(r)
      <4>1. old = o.read
        BY <1>2, <1>3, <3>3 DEF Against, ReadInv, Unchanged
      <4>2. o.read.version \in o.wrote
        BY <1>2 DEF Local, OwnerInv
      <4>3. q.status \in Success => Asked(o, old)
        BY <1>2, <1>3, <2>6, <4>1, <4>2 DEF Against, WroteInv
      <4>4. q.status \in Success => Asked(q, new)
        BY <2>2, <2>6, <4>3 DEF Asked
      <4>5. new.enabled = (q.state /\ q.calls \in {<<"attributes", "statistics">>, <<"statistics">>})
        BY <1>2, <2>2, <2>5, <2>6
      <4> QED BY <2>6, <2>8, <3>2, <4>4, <4>5 DEF WroteInv
    <3>4. CASE ~Unchanged(r)
      <4>1. new.version \notin q.wrote
        BY <1>2, <2>2, <2>6, <3>1, <3>4
      <4> QED BY <2>6, <2>8, <3>2, <4>1 DEF WroteInv
    <3> QED BY <3>3, <3>4
  <2> QED BY <1>2, <2>2, <2>3, <2>5, <2>7, <2>9, <2>10, WritingStep DEF Local, Against
<1>4. CASE /\ Followed(r, "internalError", o.shown, {})
           /\ UNCHANGED <<policies, clock, others>>
  BY <1>1, <1>4, FollowErrorNm
<1> QED BY <1>3, <1>4 DEF EnableCreated

-----------------------------------------------------------------------------
(* The theorems *)

LEMMA NextNm == NmInv /\ [Next]_vars => NmInv'
<1> SUFFICES ASSUME NmInv, [Next]_vars PROVE NmInv'
  OBVIOUS
<1>1. ASSUME NEW r \in Requests, Step(r) PROVE NmInv'
  BY <1>1, QuietNm, FindNm, ReadNm, UpdateNm, DeleteNm, CreateNm, EnableNm, AttributesNm,
     StatisticsNm DEF Step
<1>2. CASE UNCHANGED vars
  BY <1>2 DEF vars, NmInv
<1> QED BY <1>1, <1>2, ArrivalNm, OthersNm DEF Next

\* NmInv: every request and the service agree at every point of every interleaving.
THEOREM NmInvariant == Spec => []NmInv
BY InitNm, NextNm, PTL DEF Spec

\* The type invariant, with the form of the list of calls and the bound of the versions
\* a request has given.
THEOREM TypeCorrect == Spec => []TypeOK
<1>1. NmInv => TypeOK
  <2> SUFFICES ASSUME NmInv PROVE TypeOK
    OBVIOUS
  <2>1. policies \in [Path -> Policy \cup {None}] /\ clock \in Nat /\ others \in 0..MaxOthers
    BY DEF NmInv, ServiceInv
  <2>2. ASSUME NEW r \in Requests
        PROVE  /\ req[r].stage \in {"new", "find", "read", "act", "after", "done"}
               /\ req[r].kind \in Kinds /\ req[r].id \in PolicyIds
               /\ req[r].domain \in DomainIds /\ req[r].body \in Params
               /\ req[r].bad \in BOOLEAN /\ req[r].state \in BOOLEAN
               /\ req[r].path \in Path \cup {None}
               /\ req[r].read \in Policy \cup {None}
               /\ req[r].calls \in Seq({"enable", "attributes", "statistics"})
               /\ req[r].status \in Statuses
               /\ req[r].shown \in Policy \cup {None}
               /\ req[r].did \in BOOLEAN
    <3>1. req[r] \in Request
      BY DEF NmInv
    <3> QED BY <3>1 DEF Request, Calls
  <2>3. ASSUME NEW r \in Requests PROVE req[r].stage = "after" <=> req[r].calls # <<>>
    <3>1. FormInv(req[r])
      BY DEF NmInv, Local
    <3>2. req[r].stage = "after" =>
            req[r].calls \in {<<"attributes", "statistics">>, <<"statistics">>,
                              <<"enable", "attributes", "statistics">>}
      BY <3>1 DEF FormInv
    <3>3. req[r].stage # "after" => req[r].calls = <<>>
      BY <3>1 DEF FormInv
    <3> QED BY <3>2, <3>3, CallLists
  <2>4. \A r \in Requests : req[r].wrote \subseteq 1..clock
    BY DEF NmInv, Against, WroteInv
  <2> QED BY <2>1, <2>2, <2>3, <2>4 DEF TypeOK
<1> QED BY <1>1, NmInvariant, PTL

\* The status a client sees tells what its request did, whatever other requests and
\* other users of the service do in between.
THEOREM StatusAlwaysTrue == Spec => []StatusTellsTheTruth
<1>1. NmInv => StatusTellsTheTruth
  BY DEF NmInv, Local, StatusInv, StatusTellsTheTruth
<1> QED BY <1>1, NmInvariant, PTL

\* A successful POST or PATCH answers with what it asked for, unless somebody else has
\* changed the policy before it was read back.
THEOREM ResponseAlwaysShowsResult == Spec => []ResponseShowsResult
<1>1. NmInv => ResponseShowsResult
  BY DEF NmInv, Local, ShownInv, Asked, ResponseShowsResult
<1> QED BY <1>1, NmInvariant, PTL

\* A step changes the record of one request only.
LEMMA OnlyOwn ==
  ASSUME NmInv, NEW s \in Requests, SomeArrival(s) \/ Step(s), NEW r \in Requests, r # s
  PROVE  req'[r] = req[r]
<1>1. req \in [Requests -> Request]
  BY DEF NmInv
<1>2. \A status : End(s, status) => req'[r] = req[r]
  BY <1>1 DEF End
<1>3. \A p : Found(s, p) => req'[r] = req[r]
  BY <1>1 DEF Found
<1>4. \A a, b, c, d : Answered(s, a, b, c, d) => req'[r] = req[r]
  BY <1>1 DEF Answered
<1>5. \A a, b, c : Followed(s, a, b, c) => req'[r] = req[r]
  BY <1>1 DEF Followed
<1>6. CASE SomeArrival(s)
  <2>1. PICK new : req' = [req EXCEPT ![s] = new]
    BY <1>6 DEF SomeArrival, Arrive
  <2> QED BY <1>1, <2>1
<1>7. CASE FindPolicy(s) \/ FindFailed(s)
  BY <1>2, <1>3, <1>7, Zenon DEF FindPolicy, FindFailed
<1>8. CASE ReadPolicy(s) \/ ReadFailed(s)
  <2>1. \A policy : req' = [req EXCEPT ![s].stage = "act", ![s].read = policy] => req'[r] = req[r]
    BY <1>1
  <2> QED BY <1>2, <1>8, <2>1 DEF ReadPolicy, ReadFailed
<1>9. CASE CreateRejected(s) \/ ResetStatistics(s) \/ ActRefused(s)
  BY <1>2, <1>9 DEF CreateRejected, ResetStatistics, ActRefused
<1>10. CASE UpdatePolicy(s) \/ DeletePolicy(s) \/ SetEnabled(s) \/ CreateWithId(s)
  BY <1>4, <1>10 DEF UpdatePolicy, DeletePolicy, SetEnabled, CreateWithId
<1>11. CASE EnableCreated(s) \/ GetAttributes(s) \/ GetStatistics(s)
  BY <1>5, <1>11 DEF EnableCreated, GetAttributes, GetStatistics
<1> QED BY <1>6, <1>7, <1>8, <1>9, <1>10, <1>11 DEF Step

\* The handlers that modify a policy that is there.
LEMMA WhoModifies ==
  ASSUME NmInv, Next, NEW r \in Requests, Modifies(r)
  PROVE  UpdatePolicy(r) \/ DeletePolicy(r) \/ SetEnabled(r) \/ EnableCreated(r)
<1>1. req'[r] # req[r] /\ req[r].path # None /\ policies' # policies
  BY DEF Modifies
<1>2. ~Others
  BY <1>1 DEF Others, OtherCreate, OtherDelete
<1>3. PICK s \in Requests : SomeArrival(s) \/ Step(s)
  BY <1>2 DEF Next
<1>4. s = r
  BY <1>1, <1>3, OnlyOwn
<1>5. ~SomeArrival(s)
  BY <1>1 DEF SomeArrival, Arrive
<1>6. \/ UpdatePolicy(r) \/ DeletePolicy(r) \/ SetEnabled(r) \/ EnableCreated(r)
      \/ CreateWithId(r)
  BY <1>1, <1>3, <1>4, <1>5 DEF Step, CreateRejected, FindPolicy, FindFailed, ReadPolicy,
     ReadFailed, ResetStatistics, ActRefused, GetAttributes, GetStatistics
<1>7. ~CreateWithId(r)
  BY <1>1 DEF CreateWithId, Acting, NmInv, Local, OwnerInv
<1> QED BY <1>6, <1>7

\* The policy that was checked and the policy that is modified.
LEMMA SamePolicy ==
  ASSUME NmInv, NEW r \in Requests, policies[req[r].path] # None, Unchanged(r),
         req[r].stage = "after" \/ (req[r].stage = "act" /\ req[r].kind # "create")
  PROVE  policies[req[r].path] = req[r].read
BY DEF NmInv, Against, ReadInv, Unchanged

\* A Redfish request modifies a policy of another owner only if it was put in the place
\* of the one that was checked, for any number of requests and of other users.
THEOREM OwnerAlwaysRespected == Spec => OwnerRespected
<1>1. NmInv /\ [Next]_vars =>
        [\A r \in Requests : Modifies(r) =>
           \/ policies[req[r].path].owner = "bmc"
           \/ ~Unchanged(r)
           \/ req[r].kind = "changeState" /\ req[r].path.domain = HwProtection]_vars
  <2> SUFFICES ASSUME NmInv, Next, NEW r \in Requests, Modifies(r), Unchanged(r)
               PROVE  \/ policies[req[r].path].owner = "bmc"
                      \/ req[r].kind = "changeState" /\ req[r].path.domain = HwProtection
    OBVIOUS
  <2>1. Local(req[r]) /\ policies[req[r].path] # None
    BY DEF NmInv, Modifies
  <2>2. CASE UpdatePolicy(r) \/ DeletePolicy(r) \/ SetEnabled(r)
    <3>1. req[r].stage = "act" /\ req[r].kind \in {"delete", "patch", "changeState"}
      BY <2>2 DEF UpdatePolicy, DeletePolicy, SetEnabled, Acting
    <3> QED BY <2>1, <3>1, SamePolicy DEF Local, OwnerInv
  <2>3. CASE EnableCreated(r)
    <3>1. req[r].stage = "after" /\ req[r].kind = "create"
      BY <2>3, FollowingKnows DEF EnableCreated
    <3> QED BY <2>1, <3>1, SamePolicy DEF Local, OwnerInv
  <2> QED BY <2>2, <2>3, WhoModifies
<1> QED BY <1>1, NmInvariant, PTL DEF Spec, OwnerRespected

\* What PATCH does to every attribute, for any number of requests and of other users:
\* it sets those in the body, writes back the others as they were read, which is what
\* they are unless somebody modified the policy in between, empties SuspendPeriods and
\* Thresholds, and leaves owner and state alone.
THEOREM PatchAlwaysWritesWhatItRead == Spec => PatchWritesWhatItRead
<1> DEFINE Patched(r) ==
      LET old == policies[req[r].path]
          new == policies'[req[r].path]
          kept == IF Unchanged(r) THEN old ELSE req[r].read
      IN /\ \A a \in {"limit", "corr"} :
              new[a] = IF req[r].body[a] # None THEN req[r].body[a] ELSE kept[a]
         /\ ~new.extra
         /\ new.owner = old.owner /\ new.enabled = old.enabled
<1>1. NmInv /\ [Next]_vars =>
        [\A r \in Requests : req[r].kind = "patch" /\ Modifies(r) => Patched(r)]_vars
  <2> SUFFICES ASSUME NmInv, Next, NEW r \in Requests, Modifies(r), req[r].kind = "patch"
               PROVE  Patched(r)
    OBVIOUS
  <2> DEFINE p == req[r].path
             read == req[r].read
             body == req[r].body
             old == policies[p]
             merged == Merge(read, body)
  <2>1. UpdatePolicy(r)
    <3>1. ~DeletePolicy(r) /\ ~SetEnabled(r)
      BY DEF DeletePolicy, SetEnabled, Acting
    <3>2. ~EnableCreated(r)
      BY FollowingKnows DEF EnableCreated
    <3> QED BY <3>1, <3>2, WhoModifies
  <2>2. /\ req[r].stage = "act" /\ old # None
        /\ policies' = [policies EXCEPT ![p] =
             [merged EXCEPT !.owner = old.owner, !.enabled = old.enabled, !.version = clock + 1]]
    BY <2>1 DEF UpdatePolicy, Acting, Write
  <2>3. /\ p \in Path /\ read \in Policy /\ body \in Params /\ old \in Policy
        /\ policies \in [Path -> Policy \cup {None}]
    BY <2>2, ActingKnows DEF ServiceInv, Request
  <2>4. /\ merged \in Policy
        /\ merged.limit = IF body.limit = None THEN read.limit ELSE body.limit
        /\ merged.corr = IF body.corr = None THEN read.corr ELSE body.corr
        /\ merged.extra = FALSE
    BY <2>3, MergeIs
  <2>5. Unchanged(r) => old = read
    BY <2>2, SamePolicy
  <2> HIDE DEF merged
  <2>6. policies'[p] = [merged EXCEPT !.owner = old.owner, !.enabled = old.enabled,
                                      !.version = clock + 1]
    BY <2>2, <2>3
  <2>7. /\ policies'[p].owner = old.owner /\ policies'[p].enabled = old.enabled
        /\ policies'[p].limit = merged.limit /\ policies'[p].corr = merged.corr
    BY <2>4, <2>6 DEF Policy
  <2>8. policies'[p].extra = FALSE
    BY <2>4, <2>6, Zenon DEF Policy
  <2>9. ~policies'[p].extra
    BY <2>8, Zenon
  <2>10. /\ policies'[p].limit = IF body.limit # None THEN body.limit
                                 ELSE IF Unchanged(r) THEN old.limit ELSE read.limit
         /\ policies'[p].corr = IF body.corr # None THEN body.corr
                                ELSE IF Unchanged(r) THEN old.corr ELSE read.corr
    BY <2>4, <2>5, <2>7
  <2> QED BY <2>7, <2>9, <2>10
<1> QED BY <1>1, NmInvariant, PTL DEF Spec, PatchWritesWhatItRead

=============================================================================
