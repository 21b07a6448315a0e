-------------------------- MODULE PowerControlProofs --------------------------
(***************************************************************************)
(* The Redfish Power routes, for any requests, components, bodies and      *)
(* faults: what a PATCH that succeeds has done, where its entries go, what *)
(* a GET shows and who may undo a limit.                                   *)
(***************************************************************************)
EXTENDS PowerControl, FiniteSetTheorems, WellFoundedInduction, TLAPS

-----------------------------------------------------------------------------
(* Types *)

Lookups == {"chassis", "header", "object", "path"}
Main == {"chassis", "object", "path"}
Ops == {"components", "read", "set", "storage", "update", "disable", "enable"}
Args == Domains \cup Holders \cup LimitProps \cup {"defaults", "Enabled", "PowerLimitStorage"}
Body == Entries \cup {NoEntry}
Lists(d) == {t[d] : t \in Topologies}
Comps == {c \in UNION {[D -> UNION {Lists(d) : d \in Domains}] : D \in SUBSET Domains} :
            \A d \in DOMAIN c : c[d] \in Lists(d)}
Writers == Requests \cup {Default}
Shown == UNION {[N -> Writers] : N \in SUBSET Nodes}
Deeds == Nodes \X Ops \X Args
Statuses == {"ok", "no_content", "serviceInUnknownState", "resourceNotFound", "internalError",
             "badRequest"}

CallSet == [by : Requests, op : Ops, node : Nodes, arg : Args]

Request ==
  [stage : {"new", "busy", "done", "lost"}, kind : {"getAll", "getOne", "patchAll", "patchOne"},
   name : Names \cup {root}, entries : Seq(Body), base : Seq(Nodes), lookups : SUBSET Lookups,
   comps : Comps, layout : Seq(Nodes), shape : {"array", "node", "mixed"}, shown : Shown,
   status : Statuses, listed : BOOLEAN, done : SUBSET Deeds, failed : SUBSET Deeds,
   earlier : SUBSET Requests]

TypeInv ==
  /\ present \in Topologies
  /\ policy \in [Nodes -> [limit : Writers, enabled : Writers]]
  /\ calls \in Seq(CallSet) /\ req \in [Requests -> Request]
  /\ crashed \in BOOLEAN /\ overlap \subseteq Requests \X Requests
  /\ faults \in Nat /\ changes \in Nat /\ faults + changes <= MaxFaults

-----------------------------------------------------------------------------
(* One request and its calls.  q is the record of the request r, Q the     *)
(* queue: the same predicates are about a state and about the next one.    *)

L == "LimitInWatts"

PatchOf(q) == q.kind \in {"patchOne", "patchAll"}
TargetsOf(q) ==
  IF ~PatchOf(q) \/ ~q.listed THEN {}
  ELSE IF q.kind = "patchOne" THEN {<<q.name, q.entries[1]>>}
  ELSE {<<q.layout[i], q.entries[i]>> : i \in DOMAIN q.layout \cap DOMAIN q.entries}

\* No call of r is on its way.
Quiet(r, Q) == \A i \in DOMAIN Q : Q[i].by # r

\* Nothing but questions has been asked for the request.
Early(q) == ~q.listed /\ q.done = {} /\ q.shape = "array"

\* The domains that are read before d is.
Before(d) == CASE d = cpuDomainId -> {}
               [] d = memoryDomainId -> {cpuDomainId}
               [] d = pcieDomainId -> {cpuDomainId, memoryDomainId}

Valued(q, n, p) == \E t \in TargetsOf(q) : t[1] = n /\ t[2].power[p] = "value"
Nulled(q, n) == \E t \in TargetsOf(q) : t[1] = n /\ \E p \in LimitProps : t[2].power[p] = "null"
Stored(q, n) == \E t \in TargetsOf(q) : t[1] = n /\ t[2].oem = "value"

\* A call is one that its request, as it is, may have made.
Fits(c, q) ==
  /\ c.op = "components" => /\ c.node = root /\ c.arg \in Domains /\ Early(q)
                            /\ q.lookups \cap Main = {} /\ DOMAIN q.comps = Before(c.arg)
  /\ c.op = "read" => /\ q.kind \in {"getAll", "getOne"} /\ c.arg \in Holders
                      /\ q.kind = "getOne" => q.listed
  /\ c.op = "set" => c.arg \in LimitProps /\ Valued(q, c.node, c.arg)
  /\ c.op = "enable" => /\ c.arg \in LimitProps /\ Valued(q, c.node, c.arg)
                        /\ <<c.node, "set", c.arg>> \in q.done
  /\ c.op = "update" => c.arg = "defaults" /\ Nulled(q, c.node)
  /\ c.op = "disable" => c.arg = "Enabled" /\ Nulled(q, c.node)
  /\ c.op = "storage" => c.arg = "PowerLimitStorage" /\ Stored(q, c.node)

FitsInv(r, q, Q) == \A i \in DOMAIN Q : Q[i].by = r => Fits(Q[i], q)

\* A request is busy just while something holds its response.
StageInv(r, q, Q) ==
  /\ q.stage = "busy" => q.lookups # {} \/ ~Quiet(r, Q)
  /\ q.stage # "busy" => q.lookups = {}
  /\ q.stage \in {"new", "done"} => Quiet(r, Q)

\* Until the components are known, one thing is under way at a time.
EarlyInv(r, q, Q) ==
  /\ "header" \in q.lookups => q.kind = "getAll"
  /\ "chassis" \in q.lookups => q.kind # "patchAll"
  /\ "path" \in q.lookups => q.kind = "patchAll"
  /\ q.stage = "new" => Early(q)
  /\ \A l \in q.lookups \cap Main :
       /\ Early(q) /\ DOMAIN q.comps = {} /\ Quiet(r, Q)
       /\ \A m \in q.lookups \cap Main : m = l
  /\ \A i, j \in DOMAIN Q :
       Q[i].by = r /\ Q[j].by = r /\ Q[i].op = "components" => i = j

BodyInv(q) ==
  /\ q.kind = "patchOne" => Len(q.entries) = 1
  /\ q.kind = "patchAll" => Len(q.entries) = Len(q.base)
  /\ q.kind = "patchAll" /\ q.listed =>
       \A i, j \in DOMAIN q.layout : q.layout[i] = q.layout[j] => i = j

\* The array of a GET of one node is replaced with the last answer.
ShapeInv(r, q, Q) ==
  q.kind = "getOne" =>
    /\ q.shape # "mixed"
    /\ q.shape = "node" => Quiet(r, Q)
    /\ q.listed /\ q.shape = "array" /\ q.stage # "lost" => ~Quiet(r, Q)

Pending(r, op, n, a, Q) == \E i \in DOMAIN Q : Q[i] = Call(r, op, n, a)

\* Of the calls of a PATCH none has been forgotten, unless the response says so.
ValueInv(r, q, Q, n, p) ==
  \/ Pending(r, "set", n, p, Q)
  \/ /\ <<n, "set", p>> \in q.done
     /\ Pending(r, "enable", n, p, Q) \/ <<n, "enable", p>> \in q.done

StoreInv(r, q, Q, n) ==
  \/ Pending(r, "storage", n, "PowerLimitStorage", Q)
  \/ <<n, "storage", "PowerLimitStorage">> \in q.done

SuccessInv(r, q, Q) ==
  q.listed /\ q.status = "no_content" /\ q.stage # "lost" =>
    \A t \in TargetsOf(q) :
      /\ ~Bad(t[2])
      /\ \A p \in LimitProps : t[2].power[p] = "value" => ValueInv(r, q, Q, t[1], p)
      /\ t[2].oem = "value" => StoreInv(r, q, Q, t[1])

\* A request resets a policy before it sets its limit, and disables it after
\* each update.
ResetFirst(r, n, Q) ==
  \A i, j \in DOMAIN Q :
    /\ Q[i].by = r /\ Q[i].node = n /\ Q[i].op = "set" /\ Q[i].arg = L
    /\ Q[j].by = r /\ Q[j].node = n /\ Q[j].op \in {"update", "disable"}
    => j < i
ResetOver(r, n, Q) ==
  \A i \in DOMAIN Q : Q[i].by = r /\ Q[i].node = n => Q[i].op \notin {"update", "disable"}
DisableFollows(r, n, Q) ==
  \A i \in DOMAIN Q :
    Q[i].by = r /\ Q[i].node = n /\ Q[i].op = "update" =>
      \E j \in DOMAIN Q : j > i /\ Q[j] = Call(r, "disable", n, "Enabled")

OrderInv(r, q, Q) ==
  \A n \in Nodes :
    /\ ResetFirst(r, n, Q)
    /\ <<n, "set", L>> \in q.done => ResetOver(r, n, Q)
    /\ q.stage # "lost" => DisableFollows(r, n, Q)
    /\ <<n, "enable", L>> \in q.done => <<n, "set", L>> \in q.done

ReqInv(r, q, Q) ==
  /\ FitsInv(r, q, Q) /\ StageInv(r, q, Q) /\ EarlyInv(r, q, Q) /\ BodyInv(q)
  /\ ShapeInv(r, q, Q) /\ SuccessInv(r, q, Q) /\ OrderInv(r, q, Q)

-----------------------------------------------------------------------------
(* All requests *)

\* The response to an earlier request was sent before.
EarlierInv == \A r, s \in Requests : s \in req[r].earlier => req[s].stage = "done"

OverlapInv ==
  \A r, s \in Requests : Busy(r) /\ Busy(s) /\ r # s => <<r, s>> \in overlap

\* While the components stay the same, everybody has read the same ones.
SameInv ==
  changes = 0 =>
    /\ ~crashed
    /\ \A r \in Requests :
         /\ \A d \in DOMAIN req[r].comps : req[r].comps[d] = present[d]
         /\ req[r].kind = "getAll" =>
              req[r].layout = <<>> \/ req[r].layout = buildDomainPolicyMap(present)
         /\ req[r].kind = "patchAll" =>
              /\ req[r].base = buildDomainPolicyMap(present)
              /\ req[r].listed => req[r].layout = req[r].base
         /\ \A w \in req[r].done : Exists(w[1])

\* Another request may leave the limit of n the default, or is about to disable n.
Reason(n, r) ==
  \E s \in Requests \ {r} :
    /\ Resets(s, n)
    /\ \/ <<r, s>> \in overlap
       \/ \E i \in DOMAIN calls : calls[i] = Call(s, "disable", n, "Enabled")
       \/ <<n, "disable", "Enabled">> \in req[s].failed
       \/ req[s].stage = "lost"

\* LimitKept, and the same while r may still enable the policy.
KeptInv ==
  changes < 2 =>
    \A n \in Nodes, r \in Requests :
      /\ policy[n].limit = Default /\ GivesLimit(r, n) /\ <<n, "set", L>> \in req[r].done
      /\ policy[n].enabled = r \/ (Busy(r) /\ Exists(n))
      => Reason(n, r)

\* Another PATCH that was not over when r arrived.
Excuse(r) == \E s \in Requests \ {r} : Patch(s) /\ s \notin req[r].earlier /\ Targets(s) # {}

\* What a PATCH did stays, or there is an excuse; and a GET has seen it.
StaysInv ==
  changes = 0 =>
    /\ \A r \in Requests, n \in Nodes :
         GivesLimit(r, n) /\ ~Excuse(r) =>
           /\ <<n, "set", L>> \in req[r].done => policy[n].limit = r
           /\ <<n, "enable", L>> \in req[r].done => policy[n].enabled # Default
    /\ \A g, r \in Requests : r \in req[g].earlier /\ Succeeded(r) /\ ~Excuse(r) =>
         \A n \in DOMAIN req[g].shown : GivesLimit(r, n) => req[g].shown[n] = r

\* The inductive invariant.
IInv ==
  /\ TypeInv /\ (\A r \in Requests : ReqInv(r, req[r], calls))
  /\ EarlierInv /\ OverlapInv /\ SameInv /\ KeptInv /\ StaysInv

-----------------------------------------------------------------------------
(* Sequences *)

\* A set of numbers that is not empty has a least element.
LEMMA Least ==
  ASSUME NEW S \in SUBSET Nat, S # {}
  PROVE  \E x \in S : \A y \in S : x <= y
<1>1. PICK x \in S : \A y \in S : ~(<<y, x>> \in OpToRel(<, Nat))
  BY NatLessThanWellFounded, WFMin, Zenon
<1>2. \A y \in S : y < x => <<y, x>> \in {ss \in Nat \X Nat : ss[1] < ss[2]}
  OBVIOUS
<1>3. \A y \in S : ~(y < x)
  BY <1>1, <1>2, Zenon DEF OpToRel
<1> QED BY <1>3

LEMMA ConcatFacts ==
  ASSUME NEW S, NEW a \in Seq(S), NEW b \in Seq(S)
  PROVE  /\ a \o b \in Seq(S) /\ Len(a \o b) = Len(a) + Len(b)
         /\ \A i \in 1..Len(a) : (a \o b)[i] = a[i]
         /\ \A i \in 1..Len(b) : (a \o b)[Len(a) + i] = b[i]
         /\ \A i \in DOMAIN (a \o b) : i \in 1..Len(a) \/ (i - Len(a) \in 1..Len(b) /\ (a \o b)[i] = b[i - Len(a)])
OBVIOUS

\* The steps of FlattenSeq.
Flattens(g, ss, n) ==
  /\ DOMAIN g = 1..n
  /\ \A i \in 1..n : g[i] = IF i = 1 THEN ss[i] ELSE g[i - 1] \o ss[i]

LEMMA FlattensExists ==
  ASSUME NEW ss, NEW n \in Nat
  PROVE  \E g : g = [i \in 1..n |-> IF i = 1 THEN ss[i] ELSE g[i - 1] \o ss[i]]
<1> DEFINE Ok(m) == \E g : g = [i \in 1..m |-> IF i = 1 THEN ss[i] ELSE g[i - 1] \o ss[i]]
           B == {m \in Nat : ~Ok(m)}
<1>1. SUFFICES B = {}
  OBVIOUS
<1>2. SUFFICES ASSUME B # {} PROVE FALSE
  OBVIOUS
<1>3. PICK m \in B : \A k \in B : m <= k
  BY <1>2, Least
<1>4. m # 0
  <2>1. [i \in 1..0 |-> ss[i]] = [i \in 1..0 |-> IF i = 1 THEN ss[i] ELSE [j \in 1..0 |-> ss[j]][i - 1] \o ss[i]]
    OBVIOUS
  <2> QED BY <2>1, <1>3
<1>5. m - 1 \in Nat /\ ~(m - 1 \in B)
  <2>1. m \in Nat
    OBVIOUS
  <2> HIDE DEF B
  <2> QED BY <1>3, <1>4, <2>1
<1>6. PICK g : g = [i \in 1..(m - 1) |-> IF i = 1 THEN ss[i] ELSE g[i - 1] \o ss[i]]
  BY <1>5
<1> DEFINE h == [i \in 1..m |-> IF i = m THEN (IF i = 1 THEN ss[i] ELSE g[i - 1] \o ss[i]) ELSE g[i]]
<1>7. \A i \in 1..m : h[i] = IF i = 1 THEN ss[i] ELSE h[i - 1] \o ss[i]
  <2> SUFFICES ASSUME NEW i \in 1..m PROVE h[i] = IF i = 1 THEN ss[i] ELSE h[i - 1] \o ss[i]
    OBVIOUS
  <2>0. m \in Nat
    BY <1>3
  <2>1. CASE i = 1
    BY <2>1, <1>6, <2>0
  <2>2. CASE i # 1
    <3>1. i - 1 \in 1..m /\ i - 1 # m
      BY <2>2, <2>0
    <3>2. h[i - 1] = g[i - 1]
      BY <3>1
    <3>3. h[i] = g[i - 1] \o ss[i]
      <4>1. CASE i = m
        BY <4>1, <2>2
      <4>2. CASE i # m
        <5>1. i \in 1..(m - 1)
          BY <4>2, <2>0
        <5>2. g[i] = g[i - 1] \o ss[i]
          BY <5>1, <1>6, <2>2
        <5> QED BY <5>2, <4>2
      <4> QED BY <4>1, <4>2
    <3> QED BY <2>2, <3>2, <3>3
  <2> QED BY <2>1, <2>2
<1>8. h = [i \in 1..m |-> IF i = 1 THEN ss[i] ELSE h[i - 1] \o ss[i]]
  <2>1. h = [i \in 1..m |-> h[i]]
    OBVIOUS
  <2> HIDE DEF h
  <2> QED BY <2>1, <1>7
<1>9. Ok(m)
  BY <1>8
<1> QED BY <1>9, <1>3

LEMMA FlattenDef ==
  ASSUME NEW ss, Len(ss) \in Nat, Len(ss) # 0
  PROVE  \E g : Flattens(g, ss, Len(ss)) /\ FlattenSeq(ss) = g[Len(ss)]
<1> DEFINE n == Len(ss)
           g == CHOOSE f : f = [i \in 1..n |-> IF i = 1 THEN ss[i] ELSE f[i - 1] \o ss[i]]
<1>1. g = [i \in 1..n |-> IF i = 1 THEN ss[i] ELSE g[i - 1] \o ss[i]]
  BY FlattensExists
<1>2. FlattenSeq(ss) = g[n]
  BY DEF FlattenSeq
<1> HIDE DEF g
<1>3. Flattens(g, ss, n)
  BY <1>1 DEF Flattens
<1> QED BY <1>2, <1>3

\* Element k of F is element off[k] of the segment seg[k], of the first m segments of ss,
\* in their order and with none left out.
Placed(F, ss, m, seg, off) ==
  /\ seg \in [1..Len(F) -> 1..m] /\ off \in [1..Len(F) -> Nat]
  /\ \A k \in 1..Len(F) : off[k] \in 1..Len(ss[seg[k]]) /\ F[k] = ss[seg[k]][off[k]]
  /\ \A k, l \in 1..Len(F) :
       k < l => seg[k] < seg[l] \/ (seg[k] = seg[l] /\ off[k] < off[l])
  /\ \A i \in 1..m : \A j \in 1..Len(ss[i]) : \E k \in 1..Len(F) : seg[k] = i /\ off[k] = j

\* One more segment.
LEMMA PlacedNext ==
  ASSUME NEW S, NEW F \in Seq(S), NEW ss \in Seq(Seq(S)), NEW m \in Nat, m + 1 \in 1..Len(ss),
         NEW seg, NEW off, Placed(F, ss, m, seg, off)
  PROVE  \E seg2, off2 : Placed(F \o ss[m + 1], ss, m + 1, seg2, off2)
<1> DEFINE b == ss[m + 1]
<1>1. b \in Seq(S)
  OBVIOUS
<1> HIDE DEF b
<1> DEFINE G == F \o b
<1>2. /\ G \in Seq(S) /\ Len(G) = Len(F) + Len(b)
      /\ \A i \in 1..Len(F) : G[i] = F[i]
      /\ \A i \in 1..Len(b) : G[Len(F) + i] = b[i]
  BY <1>1, ConcatFacts
<1>3. Len(F) \in Nat /\ Len(b) \in Nat
  BY <1>1
<1> HIDE DEF G
<1> DEFINE lf == Len(F)
           lb == Len(b)
           lg == Len(G)
           seg2 == [k \in 1..lg |-> IF k <= lf THEN seg[k] ELSE m + 1]
           off2 == [k \in 1..lg |-> IF k <= lf THEN off[k] ELSE k - lf]
<1>4. lf \in Nat /\ lb \in Nat /\ lg = lf + lb
  BY <1>2, <1>3
<1>5. /\ seg \in [1..lf -> 1..m] /\ off \in [1..lf -> Nat]
      /\ \A k \in 1..lf : off[k] \in 1..Len(ss[seg[k]]) /\ F[k] = ss[seg[k]][off[k]]
      /\ \A k, l \in 1..lf :
           k < l => seg[k] < seg[l] \/ (seg[k] = seg[l] /\ off[k] < off[l])
      /\ \A i \in 1..m : \A j \in 1..Len(ss[i]) : \E k \in 1..lf : seg[k] = i /\ off[k] = j
  BY DEF Placed
<1> HIDE DEF lf, lb, lg
<1>6. \A k \in 1..lg : \/ k \in 1..lf /\ seg2[k] = seg[k] /\ off2[k] = off[k] /\ G[k] = F[k]
                       \/ /\ k > lf /\ k - lf \in 1..lb /\ seg2[k] = m + 1 /\ off2[k] = k - lf
                          /\ G[k] = b[k - lf]
  <2> SUFFICES ASSUME NEW k \in 1..lg
               PROVE  \/ k \in 1..lf /\ seg2[k] = seg[k] /\ off2[k] = off[k] /\ G[k] = F[k]
                      \/ /\ k > lf /\ k - lf \in 1..lb /\ seg2[k] = m + 1 /\ off2[k] = k - lf
                         /\ G[k] = b[k - lf]
    OBVIOUS
  <2>1. CASE k <= lf
    BY <2>1, <1>4, <1>2 DEF lf
  <2>2. CASE k > lf
    <3>1. k - lf \in 1..lb /\ lf + (k - lf) = k
      BY <2>2, <1>4
    <3>2. G[lf + (k - lf)] = b[k - lf]
      BY <3>1, <1>2 DEF lf, lb
    <3> QED BY <2>2, <3>1, <3>2, <1>4
  <2> QED BY <2>1, <2>2, <1>4
<1>7. \A k \in 1..lf : k \in 1..lg /\ seg2[k] = seg[k] /\ off2[k] = off[k]
  BY <1>4
<1>8. \A j \in 1..lb : lf + j \in 1..lg /\ seg2[lf + j] = m + 1 /\ off2[lf + j] = j
  BY <1>4
<1>14. \A k \in 1..lg : k > lf => seg2[k] = m + 1 /\ off2[k] = k - lf
  BY <1>4
<1>9. seg2 \in [1..lg -> 1..(m + 1)] /\ off2 \in [1..lg -> Nat]
  <2>1. \A k \in 1..lg : seg2[k] \in 1..(m + 1) /\ off2[k] \in Nat
    BY <1>6, <1>5, <1>4
  <2> QED BY <2>1
<1> HIDE DEF seg2, off2
<1>10. \A k \in 1..lg : off2[k] \in 1..Len(ss[seg2[k]]) /\ G[k] = ss[seg2[k]][off2[k]]
  <2> SUFFICES ASSUME NEW k \in 1..lg
               PROVE  off2[k] \in 1..Len(ss[seg2[k]]) /\ G[k] = ss[seg2[k]][off2[k]]
    OBVIOUS
  <2>1. CASE k \in 1..lf /\ seg2[k] = seg[k] /\ off2[k] = off[k] /\ G[k] = F[k]
    BY <2>1, <1>5
  <2>2. CASE k - lf \in 1..lb /\ seg2[k] = m + 1 /\ off2[k] = k - lf /\ G[k] = b[k - lf]
    BY <2>2 DEF lb, b
  <2> QED BY <2>1, <2>2, <1>6
<1>11. \A k, l \in 1..lg :
         k < l => seg2[k] < seg2[l] \/ (seg2[k] = seg2[l] /\ off2[k] < off2[l])
  <2> SUFFICES ASSUME NEW k \in 1..lg, NEW l \in 1..lg, k < l
               PROVE  seg2[k] < seg2[l] \/ (seg2[k] = seg2[l] /\ off2[k] < off2[l])
    OBVIOUS
  <2>1. CASE l \in 1..lf
    <3>1. k \in 1..lf
      BY <2>1, <1>4
    <3> QED BY <2>1, <3>1, <1>7, <1>5
  <2>2. CASE l > lf /\ k \in 1..lf
    <3>1. seg2[l] = m + 1
      BY <2>2, <1>14
    <3>2. seg2[k] = seg[k] /\ seg[k] \in 1..m
      BY <2>2, <1>7, <1>5
    <3> QED BY <3>1, <3>2
  <2>3. CASE l > lf /\ k > lf
    <3>1. seg2[l] = m + 1 /\ off2[l] = l - lf
      BY <2>3, <1>14
    <3>2. seg2[k] = m + 1 /\ off2[k] = k - lf
      BY <2>3, <1>14
    <3> QED BY <3>1, <3>2, <1>4
  <2> QED BY <2>1, <2>2, <2>3, <1>4
<1>12. \A i \in 1..(m + 1) : \A j \in 1..Len(ss[i]) : \E k \in 1..lg : seg2[k] = i /\ off2[k] = j
  <2> SUFFICES ASSUME NEW i \in 1..(m + 1), NEW j \in 1..Len(ss[i])
               PROVE  \E k \in 1..lg : seg2[k] = i /\ off2[k] = j
    OBVIOUS
  <2>1. CASE i \in 1..m
    <3>1. PICK k \in 1..lf : seg[k] = i /\ off[k] = j
      BY <2>1, <1>5
    <3> QED BY <3>1, <1>7
  <2>2. CASE i = m + 1
    <3>1. j \in 1..lb
      BY <2>2 DEF lb, b
    <3> QED BY <2>2, <3>1, <1>8
  <2> QED BY <2>1, <2>2
<1>13. Placed(G, ss, m + 1, seg2, off2)
  BY <1>9, <1>10, <1>11, <1>12 DEF Placed, lg
<1> QED BY <1>13 DEF G, b

LEMMA FlattenFacts ==
  ASSUME NEW S, NEW ss \in Seq(Seq(S))
  PROVE  /\ FlattenSeq(ss) \in Seq(S)
         /\ \E seg, off : Placed(FlattenSeq(ss), ss, Len(ss), seg, off)
<1>0. Len(ss) \in Nat
  OBVIOUS
<1>1. CASE Len(ss) = 0
  <2>1. FlattenSeq(ss) = ss
    BY <1>1 DEF FlattenSeq
  <2>2. ss = << >>
    BY <1>1
  <2>3. FlattenSeq(ss) \in Seq(S) /\ Len(FlattenSeq(ss)) = 0
    BY <2>1, <2>2
  <2> DEFINE e == [k \in 1..0 |-> 0]
  <2>4. e \in [1..0 -> 1..0] /\ e \in [1..0 -> Nat]
    OBVIOUS
  <2> HIDE DEF e
  <2>5. Placed(FlattenSeq(ss), ss, Len(ss), e, e)
    BY <2>3, <2>4, <1>1 DEF Placed
  <2> QED BY <2>3, <2>5
<1>2. CASE Len(ss) # 0
  <2>1. PICK g : Flattens(g, ss, Len(ss)) /\ FlattenSeq(ss) = g[Len(ss)]
    BY <1>0, <1>2, FlattenDef
  <2> DEFINE n == Len(ss)
             Ok(m) == g[m] \in Seq(S) /\ \E seg, off : Placed(g[m], ss, m, seg, off)
             B == {m \in 1..n : ~Ok(m)}
  <2>2. \A m \in 1..n : g[m] = IF m = 1 THEN ss[m] ELSE g[m - 1] \o ss[m]
    BY <2>1 DEF Flattens
  <2>3. Ok(1)
    <3>1. g[1] = ss[1] /\ 1 \in 1..n
      BY <2>2, <1>0, <1>2
    <3>2. g[1] \in Seq(S)
      BY <3>1
    <3> DEFINE F == g[1]
               seg == [k \in 1..Len(F) |-> 1]
               off == [k \in 1..Len(F) |-> k]
    <3>3. Len(F) \in Nat
      BY <3>2
    <3>4. Placed(F, ss, 1, seg, off)
      <4>1. seg \in [1..Len(F) -> 1..1] /\ off \in [1..Len(F) -> Nat]
        BY <3>3
      <4>2. \A k \in 1..Len(F) : off[k] = k /\ seg[k] = 1
        OBVIOUS
      <4> HIDE DEF seg, off
      <4> QED BY <4>1, <4>2, <3>1, <3>3 DEF Placed
    <3> QED BY <3>2, <3>4
  <2>4. B = {}
    <3> SUFFICES ASSUME B # {} PROVE FALSE
      OBVIOUS
    <3>1. B \in SUBSET Nat
      OBVIOUS
    <3>2. PICK m \in B : \A k \in B : m <= k
      BY <3>1, Least
    <3>3. m \in 1..n /\ ~Ok(m)
      OBVIOUS
    <3>4. m # 1
      BY <3>3, <2>3
    <3>5. m - 1 \in 1..n /\ m - 1 < m /\ (m - 1) + 1 = m
      BY <3>3, <3>4, <1>0
    <3>6. m - 1 \notin B
      <4> HIDE DEF B
      <4> QED BY <3>2, <3>5, <3>3
    <3>7. Ok(m - 1)
      BY <3>6, <3>5
    <3> DEFINE p == m - 1
    <3>8. p \in Nat /\ p + 1 = m /\ Ok(p)
      BY <3>5, <3>7
    <3>9. g[m] = g[p] \o ss[m]
      BY <2>2, <3>3, <3>4
    <3> HIDE DEF p
    <3>10. g[m] \in Seq(S)
      <4>1. ss[m] \in Seq(S)
        BY <3>3
      <4> QED BY <3>8, <3>9, <4>1, ConcatFacts
    <3>11. PICK seg, off : Placed(g[p], ss, p, seg, off)
      BY <3>8
    <3>12. \E seg2, off2 : Placed(g[p] \o ss[p + 1], ss, p + 1, seg2, off2)
      BY <3>8, <3>11, <3>3, PlacedNext
    <3>13. Ok(m)
      BY <3>8, <3>9, <3>10, <3>12
    <3> QED BY <3>13, <3>3
  <2>5. n \in 1..n
    BY <1>0, <1>2
  <2>6. Ok(n)
    BY <2>4, <2>5
  <2> QED BY <2>1, <2>6
<1> QED BY <1>1, <1>2

\* The elements of w are those of a and b.
Joins(w, a, b) ==
  /\ \A i \in DOMAIN w : (\E j \in DOMAIN a : w[i] = a[j]) \/ \E j \in DOMAIN b : w[i] = b[j]
  /\ \A i \in DOMAIN a : \E j \in DOMAIN w : w[j] = a[i]
  /\ \A i \in DOMAIN b : \E j \in DOMAIN w : w[j] = b[i]

LEMMA ConcatElem ==
  ASSUME NEW S, NEW a \in Seq(S), NEW b \in Seq(S)
  PROVE  a \o b \in Seq(S) /\ Joins(a \o b, a, b)
<1> DEFINE w == a \o b
<1>1. /\ w \in Seq(S) /\ Len(w) = Len(a) + Len(b)
      /\ \A i \in 1..Len(a) : w[i] = a[i]
      /\ \A i \in 1..Len(b) : w[Len(a) + i] = b[i]
      /\ \A i \in DOMAIN w : i \in 1..Len(a) \/ (i - Len(a) \in 1..Len(b) /\ w[i] = b[i - Len(a)])
  BY ConcatFacts
<1>2. /\ Len(a) \in Nat /\ Len(b) \in Nat
      /\ DOMAIN a = 1..Len(a) /\ DOMAIN b = 1..Len(b) /\ DOMAIN w = 1..Len(w)
  BY <1>1
<1> HIDE DEF w
<1>3. \A i \in DOMAIN w : (\E j \in DOMAIN a : w[i] = a[j]) \/ \E j \in DOMAIN b : w[i] = b[j]
  BY <1>1, <1>2
<1>4. \A i \in DOMAIN a : \E j \in DOMAIN w : w[j] = a[i]
  BY <1>1, <1>2
<1>5. ASSUME NEW i \in DOMAIN b PROVE \E j \in DOMAIN w : w[j] = b[i]
  <2>1. Len(a) + i \in DOMAIN w /\ w[Len(a) + i] = b[i]
    BY <1>1, <1>2, <1>5
  <2> QED BY <2>1
<1>6. Joins(w, a, b)
  BY <1>3, <1>4, <1>5 DEF Joins
<1> QED BY <1>1, <1>6 DEF w

LEMMA QuietConcat ==
  ASSUME NEW a \in Seq(CallSet), NEW b \in Seq(CallSet), NEW r
  PROVE  Quiet(r, a \o b) <=> Quiet(r, a) /\ Quiet(r, b)
<1> DEFINE w == a \o b
<1>1. Joins(w, a, b)
  BY ConcatElem
<1> HIDE DEF w
<1>2. Quiet(r, w) <=> Quiet(r, a) /\ Quiet(r, b)
  BY <1>1 DEF Quiet, Joins
<1> QED BY <1>2 DEF w

LEMMA ResetFirstConcat ==
  ASSUME NEW a \in Seq(CallSet), NEW b \in Seq(CallSet), NEW r, NEW n,
         ResetFirst(r, n, a), ResetFirst(r, n, b),
         \/ ResetOver(r, n, b)
         \/ \A i \in DOMAIN a : a[i].by = r => a[i].op # "set"
  PROVE  ResetFirst(r, n, a \o b)
<1> DEFINE w == a \o b
<1>1. /\ w \in Seq(CallSet) /\ Len(w) = Len(a) + Len(b)
      /\ \A i \in 1..Len(a) : w[i] = a[i]
      /\ \A i \in DOMAIN w : i \in 1..Len(a) \/ (i - Len(a) \in 1..Len(b) /\ w[i] = b[i - Len(a)])
  BY ConcatFacts
<1>2. Len(a) \in Nat /\ Len(b) \in Nat /\ DOMAIN a = 1..Len(a) /\ DOMAIN b = 1..Len(b) /\ DOMAIN w = 1..Len(w)
  BY <1>1
<1> HIDE DEF w
<1> SUFFICES ASSUME NEW i \in DOMAIN w, NEW j \in DOMAIN w,
                    w[i].by = r /\ w[i].node = n /\ w[i].op = "set" /\ w[i].arg = L,
                    w[j].by = r /\ w[j].node = n /\ w[j].op \in {"update", "disable"}
             PROVE  j < i
  BY DEF ResetFirst, w
<1>3. CASE i \in 1..Len(a) /\ j \in 1..Len(a)
  BY <1>1, <1>2, <1>3 DEF ResetFirst
<1>4. CASE i \notin 1..Len(a) /\ j \in 1..Len(a)
  BY <1>1, <1>2, <1>4
<1>5. CASE i \in 1..Len(a) /\ j \notin 1..Len(a)
  BY <1>1, <1>2, <1>5 DEF ResetOver
<1>6. CASE i \notin 1..Len(a) /\ j \notin 1..Len(a)
  <2>1. i - Len(a) \in DOMAIN b /\ w[i] = b[i - Len(a)] /\ j - Len(a) \in DOMAIN b /\ w[j] = b[j - Len(a)]
    BY <1>1, <1>2, <1>6
  <2>2. j - Len(a) < i - Len(a)
    BY <2>1 DEF ResetFirst
  <2> QED BY <2>2, <1>2
<1> QED BY <1>3, <1>4, <1>5, <1>6

LEMMA DisableConcat ==
  ASSUME NEW a \in Seq(CallSet), NEW b \in Seq(CallSet), NEW r, NEW n,
         DisableFollows(r, n, a), DisableFollows(r, n, b)
  PROVE  DisableFollows(r, n, a \o b)
<1> DEFINE w == a \o b
<1>1. /\ w \in Seq(CallSet) /\ Len(w) = Len(a) + Len(b)
      /\ \A i \in 1..Len(a) : w[i] = a[i]
      /\ \A i \in 1..Len(b) : w[Len(a) + i] = b[i]
      /\ \A i \in DOMAIN w : i \in 1..Len(a) \/ (i - Len(a) \in 1..Len(b) /\ w[i] = b[i - Len(a)])
  BY ConcatFacts
<1>2. Len(a) \in Nat /\ Len(b) \in Nat /\ DOMAIN a = 1..Len(a) /\ DOMAIN b = 1..Len(b) /\ DOMAIN w = 1..Len(w)
  BY <1>1
<1> HIDE DEF w
<1> SUFFICES ASSUME NEW i \in DOMAIN w, w[i].by = r /\ w[i].node = n /\ w[i].op = "update"
             PROVE  \E j \in DOMAIN w : j > i /\ w[j] = Call(r, "disable", n, "Enabled")
  BY DEF DisableFollows, w
<1>3. CASE i \in 1..Len(a)
  <2>1. PICK j \in DOMAIN a : j > i /\ a[j] = Call(r, "disable", n, "Enabled")
    BY <1>1, <1>2, <1>3 DEF DisableFollows
  <2>2. j \in DOMAIN w /\ w[j] = a[j]
    BY <2>1, <1>1, <1>2
  <2> QED BY <2>1, <2>2
<1>4. CASE i \notin 1..Len(a)
  <2>1. i - Len(a) \in DOMAIN b /\ w[i] = b[i - Len(a)]
    BY <1>1, <1>2, <1>4
  <2>2. PICK j \in DOMAIN b : j > i - Len(a) /\ b[j] = Call(r, "disable", n, "Enabled")
    BY <2>1 DEF DisableFollows
  <2>3. Len(a) + j \in DOMAIN w /\ w[Len(a) + j] = b[j] /\ Len(a) + j > i
    BY <2>1, <2>2, <1>1, <1>2
  <2> QED BY <2>2, <2>3
<1> QED BY <1>3, <1>4

LEMMA TailFacts ==
  ASSUME NEW S, NEW a \in Seq(S), a # << >>
  PROVE  /\ Tail(a) \in Seq(S) /\ Len(Tail(a)) = Len(a) - 1 /\ Len(a) \in Nat /\ Len(a) > 0
         /\ Head(a) = a[1] /\ Head(a) \in S
         /\ \A i \in DOMAIN Tail(a) : i + 1 \in DOMAIN a /\ Tail(a)[i] = a[i + 1]
         /\ \A i \in DOMAIN a : i = 1 \/ (i - 1 \in DOMAIN Tail(a) /\ Tail(a)[i - 1] = a[i])
OBVIOUS

\* A queue without its first element, or a prefix of it, is as orderly.
LEMMA TailOrder ==
  ASSUME NEW a \in Seq(CallSet), a # << >>, NEW r, NEW n
  PROVE  /\ Quiet(r, a) => Quiet(r, Tail(a))
         /\ Head(a).by # r /\ Quiet(r, Tail(a)) => Quiet(r, a)
         /\ ResetFirst(r, n, a) => ResetFirst(r, n, Tail(a))
         /\ ResetOver(r, n, a) => ResetOver(r, n, Tail(a))
         /\ DisableFollows(r, n, a) => DisableFollows(r, n, Tail(a))
         /\ ResetFirst(r, n, a) /\ Head(a).by = r /\ Head(a).node = n /\ Head(a).op = "set" /\ Head(a).arg = L
              => ResetOver(r, n, a)
<1> DEFINE b == Tail(a)
<1>1. /\ b \in Seq(CallSet) /\ Len(b) = Len(a) - 1 /\ Len(a) \in Nat /\ Len(a) > 0 /\ Head(a) = a[1]
      /\ \A i \in DOMAIN b : i + 1 \in DOMAIN a /\ b[i] = a[i + 1]
      /\ \A i \in DOMAIN a : i = 1 \/ (i - 1 \in DOMAIN b /\ b[i - 1] = a[i])
  BY TailFacts
<1>2. DOMAIN a = 1..Len(a) /\ DOMAIN b = 1..Len(b)
  BY <1>1
<1> HIDE DEF b
<1>3. Quiet(r, a) => Quiet(r, b)
  BY <1>1 DEF Quiet
<1>4. Head(a).by # r /\ Quiet(r, b) => Quiet(r, a)
  BY <1>1 DEF Quiet
<1>5. ResetFirst(r, n, a) => ResetFirst(r, n, b)
  <2> SUFFICES ASSUME ResetFirst(r, n, a), NEW i \in DOMAIN b, NEW j \in DOMAIN b,
                    b[i].by = r /\ b[i].node = n /\ b[i].op = "set" /\ b[i].arg = L,
                    b[j].by = r /\ b[j].node = n /\ b[j].op \in {"update", "disable"}
               PROVE  j < i
    BY DEF ResetFirst
  <2>1. i + 1 \in DOMAIN a /\ j + 1 \in DOMAIN a /\ b[i] = a[i + 1] /\ b[j] = a[j + 1]
    BY <1>1
  <2>2. j + 1 < i + 1
    BY <2>1 DEF ResetFirst
  <2> QED BY <2>2, <1>2, <1>1
<1>6. ResetOver(r, n, a) => ResetOver(r, n, b)
  BY <1>1 DEF ResetOver
<1>7. DisableFollows(r, n, a) => DisableFollows(r, n, b)
  <2> SUFFICES ASSUME DisableFollows(r, n, a),
                      NEW i \in DOMAIN b, b[i].by = r /\ b[i].node = n /\ b[i].op = "update"
               PROVE  \E j \in DOMAIN b : j > i /\ b[j] = Call(r, "disable", n, "Enabled")
    BY DEF DisableFollows
  <2>1. i + 1 \in DOMAIN a /\ b[i] = a[i + 1]
    BY <1>1
  <2>2. PICK j \in DOMAIN a : j > i + 1 /\ a[j] = Call(r, "disable", n, "Enabled")
    BY <2>1 DEF DisableFollows
  <2>3. j - 1 \in DOMAIN b /\ b[j - 1] = a[j] /\ j - 1 > i
    BY <1>1, <1>2, <2>2
  <2> QED BY <2>2, <2>3
<1>8. ResetFirst(r, n, a) /\ Head(a).by = r /\ Head(a).node = n /\ Head(a).op = "set" /\ Head(a).arg = L
        => ResetOver(r, n, a)
  <2> SUFFICES ASSUME ResetFirst(r, n, a),
                      a[1].by = r /\ a[1].node = n /\ a[1].op = "set" /\ a[1].arg = L,
                      NEW i \in DOMAIN a, a[i].by = r, a[i].node = n, a[i].op \in {"update", "disable"}
               PROVE  FALSE
    BY <1>1 DEF ResetOver
  <2>1. 1 \in DOMAIN a
    BY <1>1, <1>2
  <2>2. i < 1
    BY <2>1 DEF ResetFirst
  <2> QED BY <2>2, <1>2
<1> QED BY <1>3, <1>4, <1>5, <1>6, <1>7, <1>8 DEF b

-----------------------------------------------------------------------------
(* The calls of a PATCH *)

\* c is a call that r makes for the entry e of the node n.
Made(c, r, n, e) ==
  /\ c.by = r /\ c.node = n
  /\ \/ c.op = "set" /\ c.arg \in LimitProps /\ e.power[c.arg] = "value"
     \/ c.op = "update" /\ c.arg = "defaults" /\ \E p \in LimitProps : e.power[p] = "null"
     \/ c.op = "disable" /\ c.arg = "Enabled" /\ \E p \in LimitProps : e.power[p] = "null"
     \/ c.op = "storage" /\ c.arg = "PowerLimitStorage" /\ e.oem = "value"

AllMade(Q, r, n, e) == \A i \in DOMAIN Q : Made(Q[i], r, n, e)

\* Q are the calls for e, in their order; all of them but the storage if ~whole.
Entire(Q, r, n, e) ==
  /\ Q \in Seq(CallSet) /\ AllMade(Q, r, n, e)
  /\ ResetFirst(r, n, Q) /\ DisableFollows(r, n, Q)

Carries(Q, r, n, e) ==
  e.powerReads => \A p \in LimitProps : e.power[p] = "value" => Pending(r, "set", n, p, Q)

LEMMA BodyEntry == Body \subseteq Entry
<1>1. [p \in LimitProps |-> "absent"] \in [LimitProps -> {"absent", "null", "value", "invalid"}]
  OBVIOUS
<1>2. NoEntry \in Entry
  BY <1>1 DEF NoEntry, Entry
<1> QED BY <1>2, PowerControlAssumption DEF Body

LEMMA CallIn ==
  ASSUME NEW r \in Requests, NEW n \in Nodes, NEW o \in Ops, NEW a \in Args
  PROVE  Call(r, o, n, a) \in CallSet
BY DEF Call, CallSet

LEMMA CallFields ==
  ASSUME NEW r, NEW n, NEW o, NEW a
  PROVE  /\ Call(r, o, n, a).by = r /\ Call(r, o, n, a).op = o
         /\ Call(r, o, n, a).node = n /\ Call(r, o, n, a).arg = a
BY DEF Call

LEMMA EntireConcat ==
  ASSUME NEW r, NEW n, NEW e, NEW a, NEW b,
         Entire(a, r, n, e), Entire(b, r, n, e),
         \/ ResetOver(r, n, b)
         \/ \A i \in DOMAIN a : a[i].by = r => a[i].op # "set"
  PROVE  Entire(a \o b, r, n, e)
<1>1. a \in Seq(CallSet) /\ b \in Seq(CallSet)
  BY DEF Entire
<1> DEFINE w == a \o b
<1>2. w \in Seq(CallSet) /\ ResetFirst(r, n, w) /\ DisableFollows(r, n, w)
  <2>1. w \in Seq(CallSet)
    BY <1>1
  <2>2. ResetFirst(r, n, w)
    BY <1>1, ResetFirstConcat, Zenon DEF Entire
  <2>3. DisableFollows(r, n, w)
    BY <1>1, DisableConcat, Zenon DEF Entire
  <2> QED BY <2>1, <2>2, <2>3
<1>3. Joins(w, a, b)
  BY <1>1, ConcatElem
<1> HIDE DEF w
<1>4. AllMade(w, r, n, e)
  BY <1>3 DEF Entire, AllMade, Joins
<1>5. Entire(w, r, n, e)
  BY <1>2, <1>4 DEF Entire
<1> QED BY <1>5 DEF w

\* The resets, one for each null.
LEMMA ResetsFacts ==
  ASSUME NEW r \in Requests, NEW n \in Nodes, NEW e, NEW c \in Nat,
         c > 0 => \E p \in LimitProps : e.power[p] = "null"
  PROVE  LET U == FlattenSeq([i \in 1..c |-> updatePolicyToDefaults(r, n)]) IN
         Entire(U, r, n, e) /\ \A i \in DOMAIN U : U[i].op \in {"update", "disable"}
<1> DEFINE u == Call(r, "update", n, "defaults")
           d == Call(r, "disable", n, "Enabled")
           ss == [i \in 1..c |-> <<u, d>>]
           U == FlattenSeq(ss)
<1>1. u \in CallSet /\ d \in CallSet
  BY CallIn DEF Ops, Args
<1>2. /\ u.by = r /\ u.op = "update" /\ u.node = n /\ u.arg = "defaults"
      /\ d.by = r /\ d.op = "disable" /\ d.node = n /\ d.arg = "Enabled"
  BY CallFields
<1>3. ss = [i \in 1..c |-> updatePolicyToDefaults(r, n)]
  BY DEF updatePolicyToDefaults
<1> HIDE DEF u
<1>d. d = Call(r, "disable", n, "Enabled")
  OBVIOUS
<1> HIDE DEF d
<1>4. <<u, d>> \in Seq(CallSet) /\ Len(<<u, d>>) = 2 /\ <<u, d>>[1] = u /\ <<u, d>>[2] = d
  BY <1>1
<1>5. ss \in Seq(Seq(CallSet)) /\ Len(ss) = c /\ \A i \in 1..c : ss[i] = <<u, d>>
  BY <1>4
<1> HIDE DEF ss
<1>6. U \in Seq(CallSet) /\ \E seg, off : Placed(U, ss, c, seg, off)
  BY <1>5, FlattenFacts
<1>7. PICK seg, off : Placed(U, ss, c, seg, off)
  BY <1>6
<1> HIDE DEF U
<1>8. Len(U) \in Nat /\ DOMAIN U = 1..Len(U)
  BY <1>6
<1>9. /\ seg \in [1..Len(U) -> 1..c] /\ off \in [1..Len(U) -> Nat]
      /\ \A k \in 1..Len(U) : off[k] \in 1..Len(ss[seg[k]]) /\ U[k] = ss[seg[k]][off[k]]
      /\ \A k, l \in 1..Len(U) :
           k < l => seg[k] < seg[l] \/ (seg[k] = seg[l] /\ off[k] < off[l])
      /\ \A i \in 1..c : \A j \in 1..Len(ss[i]) : \E k \in 1..Len(U) : seg[k] = i /\ off[k] = j
  BY <1>7 DEF Placed
<1>10. \A k \in DOMAIN U : (off[k] = 1 /\ U[k] = u) \/ (off[k] = 2 /\ U[k] = d)
  <2> SUFFICES ASSUME NEW k \in DOMAIN U PROVE (off[k] = 1 /\ U[k] = u) \/ (off[k] = 2 /\ U[k] = d)
    OBVIOUS
  <2>1. seg[k] \in 1..c /\ off[k] \in 1..Len(ss[seg[k]]) /\ U[k] = ss[seg[k]][off[k]]
    BY <1>8, <1>9
  <2>2. ss[seg[k]] = <<u, d>>
    BY <2>1, <1>5
  <2> DEFINE x == <<u, d>>
  <2>3. Len(x) = 2 /\ x[1] = u /\ x[2] = d
    BY <1>4
  <2> HIDE DEF x
  <2>4. off[k] \in 1..2 /\ U[k] = x[off[k]]
    BY <2>1, <2>2, <2>3 DEF x
  <2> QED BY <2>3, <2>4
<1>11. AllMade(U, r, n, e)
  <2> SUFFICES ASSUME NEW k \in DOMAIN U PROVE Made(U[k], r, n, e)
    BY DEF AllMade
  <2>1. c > 0
    BY <1>8, <1>9
  <2> QED BY <2>1, <1>10, <1>2 DEF Made
<1>12. ResetFirst(r, n, U)
  BY <1>10, <1>2 DEF ResetFirst
<1>13. DisableFollows(r, n, U)
  <2> SUFFICES ASSUME NEW k \in DOMAIN U, U[k].op = "update"
               PROVE  \E j \in DOMAIN U : j > k /\ U[j] = d
    BY <1>d DEF DisableFollows
  <2>1. off[k] = 1
    BY <1>10, <1>2
  <2> DEFINE i == seg[k]
  <2>2. i \in 1..c
    BY <1>8, <1>9
  <2> HIDE DEF i
  <2>6. Len(ss[i]) = 2
    BY <2>2, <1>4, <1>5
  <2>7. 2 \in 1..Len(ss[i])
    BY <2>6
  <2>8. \E j \in 1..Len(U) : seg[j] = i /\ off[j] = 2
    BY <2>2, <2>7, <1>9
  <2>3. PICK j \in DOMAIN U : seg[j] = seg[k] /\ off[j] = 2
    BY <2>8, <1>8 DEF i
  <2>4. U[j] = d
    BY <2>3, <1>10
  <2>5. j > k
    <3>1. j # k
      BY <2>1, <2>3
    <3>2. ~(j < k)
      <4>1. SUFFICES ASSUME j < k PROVE FALSE
        OBVIOUS
      <4>2. seg[j] < seg[k] \/ off[j] < off[k]
        BY <4>1, <1>8, <1>9
      <4> QED BY <4>2, <2>1, <2>3, <2>2 DEF i
    <3> QED BY <3>1, <3>2, <1>8
  <2> QED BY <2>4, <2>5
<1>14. Entire(U, r, n, e) /\ \A i \in DOMAIN U : U[i].op \in {"update", "disable"}
  BY <1>6, <1>10, <1>11, <1>12, <1>13, <1>2 DEF Entire
<1> QED BY <1>14, <1>3 DEF U

LEMMA EmptyEntire ==
  ASSUME NEW r, NEW n, NEW e
  PROVE  Entire(<< >>, r, n, e) /\ DOMAIN << >> = {}
<1>1. << >> \in Seq(CallSet) /\ DOMAIN << >> = {}
  OBVIOUS
<1> QED BY <1>1 DEF Entire, AllMade, ResetFirst, DisableFollows

LEMMA OneEntire ==
  ASSUME NEW r, NEW n, NEW e, NEW c \in CallSet, Made(c, r, n, e), c.op \notin {"update", "disable"}
  PROVE  /\ Entire(<<c>>, r, n, e) /\ ResetOver(r, n, <<c>>)
         /\ 1 \in DOMAIN <<c>> /\ <<c>>[1] = c /\ \A i \in DOMAIN <<c>> : <<c>>[i] = c
<1> DEFINE q == <<c>>
<1>1. q \in Seq(CallSet) /\ DOMAIN q = {1} /\ q[1] = c
  OBVIOUS
<1> HIDE DEF q
<1>2. \A i \in DOMAIN q : q[i] = c
  BY <1>1
<1>3. Entire(q, r, n, e) /\ ResetOver(r, n, q)
  BY <1>1, <1>2 DEF Entire, AllMade, ResetFirst, DisableFollows, ResetOver
<1> QED BY <1>1, <1>2, <1>3 DEF q

LEMMA PendingConcat ==
  ASSUME NEW a \in Seq(CallSet), NEW b \in Seq(CallSet), NEW r, NEW o, NEW n, NEW x,
         Pending(r, o, n, x, a) \/ Pending(r, o, n, x, b)
  PROVE  Pending(r, o, n, x, a \o b)
<1> DEFINE w == a \o b
<1>1. Joins(w, a, b)
  BY ConcatElem
<1> HIDE DEF w
<1>2. Pending(r, o, n, x, w)
  BY <1>1 DEF Pending, Joins
<1> QED BY <1>2 DEF w

\* Only values.
OnlySets(Q, r, n, e) == Entire(Q, r, n, e) /\ ResetOver(r, n, Q)

LEMMA OnlySetsConcat ==
  ASSUME NEW r, NEW n, NEW e, NEW a, NEW b, OnlySets(a, r, n, e), OnlySets(b, r, n, e)
  PROVE  OnlySets(a \o b, r, n, e)
<1>1. a \in Seq(CallSet) /\ b \in Seq(CallSet)
  BY DEF OnlySets, Entire
<1> DEFINE w == a \o b
<1>2. Entire(w, r, n, e)
  BY EntireConcat DEF OnlySets
<1>3. Joins(w, a, b)
  BY <1>1, ConcatElem
<1> HIDE DEF w
<1>4. ResetOver(r, n, w)
  BY <1>3 DEF Joins, ResetOver, OnlySets
<1> QED BY <1>2, <1>4 DEF OnlySets, w

LEMMA SetCallFacts ==
  ASSUME NEW r \in Requests, NEW n \in Nodes, NEW e, NEW p \in LimitProps
  PROVE  /\ OnlySets(SetCall(r, n, e, p), r, n, e)
         /\ e.power[p] = "value" => Pending(r, "set", n, p, SetCall(r, n, e, p))
<1> DEFINE c == Call(r, "set", n, p)
<1>1. c \in CallSet
  BY CallIn DEF Ops, Args
<1>2. c.by = r /\ c.op = "set" /\ c.node = n /\ c.arg = p
  BY CallFields
<1>c. c = Call(r, "set", n, p)
  OBVIOUS
<1> HIDE DEF c
<1>3. CASE e.power[p] = "value"
  <2>1. SetCall(r, n, e, p) = <<c>>
    BY <1>3, <1>c DEF SetCall
  <2>2. Made(c, r, n, e)
    BY <1>2, <1>3 DEF Made
  <2>3. Entire(<<c>>, r, n, e) /\ ResetOver(r, n, <<c>>) /\ 1 \in DOMAIN <<c>> /\ <<c>>[1] = c
    BY <2>2, <1>1, <1>2, OneEntire
  <2>4. Pending(r, "set", n, p, <<c>>)
    BY <2>3, <1>c DEF Pending
  <2> QED BY <2>1, <2>3, <2>4 DEF OnlySets
<1>4. CASE e.power[p] # "value"
  <2>1. SetCall(r, n, e, p) = << >>
    BY <1>4 DEF SetCall
  <2>2. OnlySets(<< >>, r, n, e)
    BY EmptyEntire DEF OnlySets, ResetOver
  <2> QED BY <2>1, <2>2, <1>4
<1> QED BY <1>3, <1>4

LEMMA OemFacts ==
  ASSUME NEW r \in Requests, NEW n \in Nodes, NEW e
  PROVE  /\ OnlySets(patchOem(r, n, e), r, n, e)
         /\ \A i \in DOMAIN patchOem(r, n, e) : patchOem(r, n, e)[i].op # "set"
         /\ e.oem = "value" =>
              Pending(r, "storage", n, "PowerLimitStorage", patchOem(r, n, e))
<1> DEFINE c == Call(r, "storage", n, "PowerLimitStorage")
<1>1. c \in CallSet
  BY CallIn DEF Ops, Args
<1>2. c.by = r /\ c.op = "storage" /\ c.node = n /\ c.arg = "PowerLimitStorage"
  BY CallFields
<1>c. c = Call(r, "storage", n, "PowerLimitStorage")
  OBVIOUS
<1> HIDE DEF c
<1>3. CASE e.oem = "value"
  <2> DEFINE q == <<c>>
  <2>1. patchOem(r, n, e) = q
    BY <1>3, <1>c DEF patchOem
  <2>2. Made(c, r, n, e)
    BY <1>2, <1>3 DEF Made
  <2>3. /\ Entire(q, r, n, e) /\ ResetOver(r, n, q)
        /\ 1 \in DOMAIN q /\ q[1] = c /\ \A i \in DOMAIN q : q[i] = c
    BY <2>2, <1>1, <1>2, OneEntire
  <2> HIDE DEF q
  <2>4. Pending(r, "storage", n, "PowerLimitStorage", q)
    BY <2>3, <1>c DEF Pending
  <2> QED BY <2>1, <2>3, <2>4, <1>2 DEF OnlySets
<1>4. CASE e.oem # "value"
  <2>1. patchOem(r, n, e) = << >>
    BY <1>4 DEF patchOem
  <2>2. OnlySets(<< >>, r, n, e)
    BY EmptyEntire DEF OnlySets, ResetOver
  <2> QED BY <2>1, <2>2, <1>4, EmptyEntire
<1> QED BY <1>3, <1>4

LEMMA NullsFinite ==
  ASSUME NEW e
  PROVE  LET N == {p \in LimitProps : e.power[p] = "null"} IN
         Cardinality(N) \in Nat /\ (Cardinality(N) > 0 => \E p \in LimitProps : e.power[p] = "null")
<1> DEFINE N == {p \in LimitProps : e.power[p] = "null"}
<1>1. IsFiniteSet(LimitProps)
  <2>1. IsFiniteSet({}) /\ LimitProps = (({} \cup {"LimitInWatts"}) \cup {"LimitException"}) \cup {"CorrectionInMs"}
    BY FS_EmptySet DEF LimitProps
  <2> QED BY <2>1, FS_AddElement
<1>2. N \subseteq LimitProps
  OBVIOUS
<1>3. IsFiniteSet(N) /\ Cardinality(N) \in Nat
  BY <1>1, <1>2, FS_Subset, FS_CardinalityType
<1>4. Cardinality(N) > 0 => N # {}
  BY <1>3, FS_EmptySet
<1> QED BY <1>3, <1>4

LEMMA PowerLimitFacts ==
  ASSUME NEW r \in Requests, NEW n \in Nodes, NEW e
  PROVE  Entire(patchPowerLimit(r, n, e), r, n, e) /\ Carries(patchPowerLimit(r, n, e), r, n, e)
<1> DEFINE c == Cardinality({p \in LimitProps : e.power[p] = "null"})
           U == FlattenSeq([i \in 1..c |-> updatePolicyToDefaults(r, n)])
           s1 == SetCall(r, n, e, "LimitInWatts")
           s2 == SetCall(r, n, e, "LimitException")
           s3 == SetCall(r, n, e, "CorrectionInMs")
           V == IF e.powerReads THEN s1 \o s2 \o s3 ELSE << >>
<1>1. patchPowerLimit(r, n, e) = U \o V
  BY DEF patchPowerLimit
<1>2. c \in Nat /\ (c > 0 => \E p \in LimitProps : e.power[p] = "null")
  BY NullsFinite
<1> HIDE DEF c
<1>3. Entire(U, r, n, e) /\ \A i \in DOMAIN U : U[i].op \in {"update", "disable"}
  BY <1>2, ResetsFacts
<1> HIDE DEF U
<1>4. /\ OnlySets(s1, r, n, e) /\ OnlySets(s2, r, n, e) /\ OnlySets(s3, r, n, e)
      /\ e.power["LimitInWatts"] = "value" => Pending(r, "set", n, "LimitInWatts", s1)
      /\ e.power["LimitException"] = "value" => Pending(r, "set", n, "LimitException", s2)
      /\ e.power["CorrectionInMs"] = "value" => Pending(r, "set", n, "CorrectionInMs", s3)
  BY SetCallFacts DEF LimitProps
<1> HIDE DEF s1, s2, s3
<1>5. OnlySets(s1 \o s2, r, n, e) /\ OnlySets((s1 \o s2) \o s3, r, n, e)
  BY <1>4, OnlySetsConcat
<1>6. /\ U \in Seq(CallSet) /\ s1 \in Seq(CallSet) /\ s2 \in Seq(CallSet) /\ s3 \in Seq(CallSet)
      /\ s1 \o s2 \in Seq(CallSet) /\ (s1 \o s2) \o s3 \in Seq(CallSet)
  BY <1>3, <1>4, <1>5 DEF OnlySets, Entire
<1>7. OnlySets(V, r, n, e)
  BY <1>5, EmptyEntire DEF OnlySets, ResetOver
<1>8. Carries(V, r, n, e)
  <2> SUFFICES ASSUME e.powerReads, NEW p \in LimitProps, e.power[p] = "value"
               PROVE  Pending(r, "set", n, p, (s1 \o s2) \o s3)
    BY DEF Carries
  <2>1. CASE p = "CorrectionInMs"
    BY <2>1, <1>4, <1>6, PendingConcat
  <2>2. CASE p = "LimitInWatts"
    <3>1. Pending(r, "set", n, p, s1 \o s2)
      BY <2>2, <1>4, <1>6, PendingConcat
    <3> QED BY <3>1, <1>6, PendingConcat
  <2>3. CASE p = "LimitException"
    <3>1. Pending(r, "set", n, p, s1 \o s2)
      BY <2>3, <1>4, <1>6, PendingConcat
    <3> QED BY <3>1, <1>6, PendingConcat
  <2> QED BY <2>1, <2>2, <2>3 DEF LimitProps
<1> HIDE DEF V
<1>9. Entire(U \o V, r, n, e)
  BY <1>3, <1>7, EntireConcat DEF OnlySets
<1>10. Carries(U \o V, r, n, e)
  <2>1. V \in Seq(CallSet)
    BY <1>7 DEF OnlySets, Entire
  <2>2. ASSUME NEW p, Pending(r, "set", n, p, V) PROVE Pending(r, "set", n, p, U \o V)
    BY <1>6, <2>1, <2>2, PendingConcat
  <2> QED BY <2>2, <1>8 DEF Carries
<1> QED BY <1>1, <1>9, <1>10

\* All calls of an entry.
Whole(Q, r, n, e) ==
  /\ Entire(Q, r, n, e) /\ Carries(Q, r, n, e)
  /\ e.oem = "value" => Pending(r, "storage", n, "PowerLimitStorage", Q)

LEMMA EntryFacts ==
  ASSUME NEW r \in Requests, NEW n \in Nodes, NEW e
  PROVE  LET o == patchOem(r, n, e)
             p == patchPowerLimit(r, n, e)
         IN /\ Whole((o \o p) \o o, r, n, e) /\ Whole((o \o p) \o << >>, r, n, e)
            /\ Whole(p \o o, r, n, e)
<1> DEFINE o == patchOem(r, n, e)
           p == patchPowerLimit(r, n, e)
           z == << >>
<1>1. OnlySets(o, r, n, e) /\ (\A i \in DOMAIN o : o[i].op # "set")
  BY OemFacts
<1>2. e.oem = "value" => Pending(r, "storage", n, "PowerLimitStorage", o)
  BY OemFacts
<1>3. Entire(p, r, n, e) /\ Carries(p, r, n, e)
  BY PowerLimitFacts
<1>4. Entire(z, r, n, e) /\ ResetOver(r, n, z)
  BY EmptyEntire DEF ResetOver
<1> HIDE DEF o, p, z
<1>5. Entire(o \o p, r, n, e)
  BY <1>1, <1>3, EntireConcat DEF OnlySets
<1>6. Entire((o \o p) \o o, r, n, e) /\ Entire(p \o o, r, n, e) /\ Entire((o \o p) \o z, r, n, e)
  BY <1>1, <1>3, <1>4, <1>5, EntireConcat DEF OnlySets
<1>7. o \in Seq(CallSet) /\ p \in Seq(CallSet) /\ z \in Seq(CallSet) /\ o \o p \in Seq(CallSet)
  BY <1>1, <1>3, <1>4, <1>5 DEF OnlySets, Entire
<1>8. ASSUME NEW op, NEW a, Pending(r, op, n, a, o) \/ Pending(r, op, n, a, p)
      PROVE  Pending(r, op, n, a, (o \o p) \o o) /\ Pending(r, op, n, a, (o \o p) \o z)
               /\ Pending(r, op, n, a, p \o o)
  <2>1. Pending(r, op, n, a, o \o p)
    BY <1>7, <1>8, PendingConcat
  <2> QED BY <2>1, <1>7, <1>8, PendingConcat
<1>9. Carries((o \o p) \o o, r, n, e) /\ Carries((o \o p) \o z, r, n, e) /\ Carries(p \o o, r, n, e)
  BY <1>3, <1>8 DEF Carries
<1>10. Whole((o \o p) \o o, r, n, e) /\ Whole((o \o p) \o z, r, n, e) /\ Whole(p \o o, r, n, e)
  BY <1>2, <1>6, <1>8, <1>9 DEF Whole
<1> QED BY <1>10 DEF o, p, z

\* F are the calls that r sends for the entries es of the first m nodes of list.
Sent(F, r, m, list, es) ==
  /\ F \in Seq(CallSet)
  /\ \A k \in DOMAIN F : \E i \in 1..m : Made(F[k], r, list[i], es[i])
  /\ \A n \in Nodes : ResetFirst(r, n, F) /\ DisableFollows(r, n, F)
  /\ \A i \in 1..m :
       /\ Carries(F, r, list[i], es[i])
       /\ es[i].oem = "value" => Pending(r, "storage", list[i], "PowerLimitStorage", F)

LEMMA SentOne ==
  ASSUME NEW r, NEW n, NEW e, NEW F, Whole(F, r, n, e)
  PROVE  Sent(F, r, 1, <<n>>, <<e>>)
<1>1. /\ F \in Seq(CallSet) /\ \A i \in DOMAIN F : Made(F[i], r, n, e)
      /\ ResetFirst(r, n, F) /\ DisableFollows(r, n, F) /\ Carries(F, r, n, e)
      /\ e.oem = "value" => Pending(r, "storage", n, "PowerLimitStorage", F)
  BY DEF Whole, Entire, AllMade
<1>2. \A i \in 1..1 : <<n>>[i] = n /\ <<e>>[i] = e
  OBVIOUS
<1>3. 1 \in 1..1
  OBVIOUS
<1>4. \A k \in DOMAIN F : \E i \in 1..1 : Made(F[k], r, <<n>>[i], <<e>>[i])
  BY <1>1, <1>2, <1>3
<1>5. \A m \in Nodes : ResetFirst(r, m, F) /\ DisableFollows(r, m, F)
  <2> SUFFICES ASSUME NEW m \in Nodes, m # n PROVE ResetFirst(r, m, F) /\ DisableFollows(r, m, F)
    BY <1>1
  <2>1. \A i \in DOMAIN F : F[i].node # m
    BY <1>1 DEF Made
  <2> QED BY <2>1 DEF ResetFirst, DisableFollows
<1> QED BY <1>1, <1>2, <1>4, <1>5 DEF Sent

LEMMA SentAll ==
  ASSUME NEW r, NEW m \in Nat, NEW list, NEW es, NEW ss,
         DOMAIN ss = 1..m, ss = [i \in 1..m |-> ss[i]],
         \A i \in 1..m : Whole(ss[i], r, list[i], es[i]),
         \A i, j \in 1..m : list[i] = list[j] => i = j
  PROVE  Sent(FlattenSeq(ss), r, m, list, es)
<1> DEFINE F == FlattenSeq(ss)
<1>1. \A i \in 1..m : ss[i] \in Seq(CallSet)
  BY DEF Whole, Entire
<1>2. ss \in Seq(Seq(CallSet)) /\ Len(ss) = m
  <2>1. ss \in [1..m -> Seq(CallSet)]
    BY <1>1
  <2> QED BY <2>1
<1>3. F \in Seq(CallSet) /\ \E seg, off : Placed(F, ss, m, seg, off)
  BY <1>2, FlattenFacts
<1>4. PICK seg, off : Placed(F, ss, m, seg, off)
  BY <1>3
<1> HIDE DEF F
<1>5. Len(F) \in Nat /\ DOMAIN F = 1..Len(F)
  BY <1>3
<1>6. /\ seg \in [1..Len(F) -> 1..m] /\ off \in [1..Len(F) -> Nat]
      /\ \A k \in 1..Len(F) : off[k] \in 1..Len(ss[seg[k]]) /\ F[k] = ss[seg[k]][off[k]]
      /\ \A k, l \in 1..Len(F) :
           k < l => seg[k] < seg[l] \/ (seg[k] = seg[l] /\ off[k] < off[l])
      /\ \A i \in 1..m : \A j \in 1..Len(ss[i]) : \E k \in 1..Len(F) : seg[k] = i /\ off[k] = j
  BY <1>4 DEF Placed
<1>7. \A k \in DOMAIN F : /\ seg[k] \in 1..m /\ off[k] \in DOMAIN ss[seg[k]] /\ off[k] \in Nat
                          /\ F[k] = ss[seg[k]][off[k]] /\ Made(F[k], r, list[seg[k]], es[seg[k]])
  <2> SUFFICES ASSUME NEW k \in DOMAIN F
               PROVE  /\ seg[k] \in 1..m /\ off[k] \in DOMAIN ss[seg[k]] /\ off[k] \in Nat
                      /\ F[k] = ss[seg[k]][off[k]] /\ Made(F[k], r, list[seg[k]], es[seg[k]])
    OBVIOUS
  <2>1. seg[k] \in 1..m /\ off[k] \in 1..Len(ss[seg[k]]) /\ off[k] \in Nat /\ F[k] = ss[seg[k]][off[k]]
    BY <1>5, <1>6
  <2> DEFINE i == seg[k]
  <2>2. i \in 1..m
    BY <2>1
  <2> HIDE DEF i
  <2>3. DOMAIN ss[i] = 1..Len(ss[i]) /\ AllMade(ss[i], r, list[i], es[i])
    BY <1>1, <2>2 DEF Whole, Entire
  <2> QED BY <2>1, <2>2, <2>3 DEF AllMade, i
<1>8. \A n \in Nodes : ResetFirst(r, n, F)
  <2> SUFFICES ASSUME NEW n, NEW k \in DOMAIN F, NEW l \in DOMAIN F,
                    F[k].by = r /\ F[k].node = n /\ F[k].op = "set" /\ F[k].arg = L,
                    F[l].by = r /\ F[l].node = n /\ F[l].op \in {"update", "disable"}
               PROVE  l < k
    BY DEF ResetFirst
  <2>1. list[seg[k]] = n /\ list[seg[l]] = n
    BY <1>7 DEF Made
  <2>2. seg[k] = seg[l]
    BY <2>1, <1>7
  <2> DEFINE i == seg[k]
  <2>3. i \in 1..m /\ ResetFirst(r, list[i], ss[i])
    BY <1>7 DEF Whole, Entire
  <2>4. off[k] \in DOMAIN ss[i] /\ off[l] \in DOMAIN ss[i] /\ F[k] = ss[i][off[k]] /\ F[l] = ss[i][off[l]]
    BY <2>2, <1>7
  <2>5. off[l] < off[k]
    BY <2>1, <2>3, <2>4 DEF ResetFirst
  <2>6. k # l
    BY <2>5, <1>7
  <2>7. ~(k < l)
    <3> SUFFICES ASSUME k < l PROVE FALSE
      OBVIOUS
    <3>1. seg[k] < seg[l] \/ off[k] < off[l]
      BY <1>5, <1>6
    <3>3. off[k] \in Nat /\ off[l] \in Nat /\ seg[k] \in 1..m
      BY <1>7
    <3>2. seg[k] \in Nat
      BY <3>3
    <3> QED BY <3>1, <3>2, <3>3, <2>2, <2>5
  <2> QED BY <2>6, <2>7, <1>5
<1>9. \A i \in 1..m : \A j \in DOMAIN ss[i] : \E k \in DOMAIN F : seg[k] = i /\ off[k] = j /\ F[k] = ss[i][j]
  <2> SUFFICES ASSUME NEW i \in 1..m, NEW j \in DOMAIN ss[i]
               PROVE  \E k \in DOMAIN F : seg[k] = i /\ off[k] = j /\ F[k] = ss[i][j]
    OBVIOUS
  <2>1. j \in 1..Len(ss[i])
    BY <1>1
  <2>2. PICK k \in 1..Len(F) : seg[k] = i /\ off[k] = j
    BY <2>1, <1>6
  <2> QED BY <2>2, <1>7, <1>5
<1>10. \A n \in Nodes : DisableFollows(r, n, F)
  <2> SUFFICES ASSUME NEW n, NEW k \in DOMAIN F, F[k].by = r /\ F[k].node = n /\ F[k].op = "update"
               PROVE  \E j \in DOMAIN F : j > k /\ F[j] = Call(r, "disable", n, "Enabled")
    BY DEF DisableFollows
  <2> DEFINE i == seg[k]
             a == off[k]
  <2>1. i \in 1..m /\ a \in DOMAIN ss[i] /\ F[k] = ss[i][a] /\ list[i] = n
    BY <1>7 DEF Made
  <2>2. DisableFollows(r, list[i], ss[i])
    BY <2>1 DEF Whole, Entire
  <2>3. PICK b \in DOMAIN ss[i] : b > a /\ ss[i][b] = Call(r, "disable", n, "Enabled")
    BY <2>1, <2>2 DEF DisableFollows
  <2>4. PICK j \in DOMAIN F : seg[j] = i /\ off[j] = b /\ F[j] = ss[i][b]
    BY <2>1, <1>9
  <2>5. a \in Nat /\ b \in Nat /\ i \in Nat
    BY <1>7, <2>4
  <2>6. j # k
    BY <2>3, <2>4, <2>5
  <2>7. ~(j < k)
    <3> SUFFICES ASSUME j < k PROVE FALSE
      OBVIOUS
    <3>1. seg[j] < seg[k] \/ off[j] < off[k]
      BY <1>5, <1>6
    <3> QED BY <3>1, <2>3, <2>4, <2>5
  <2> QED BY <2>3, <2>4, <2>6, <2>7, <1>5
<1>11. ASSUME NEW i \in 1..m, NEW o, NEW n, NEW x, Pending(r, o, n, x, ss[i])
       PROVE  Pending(r, o, n, x, F)
  BY <1>9, <1>11 DEF Pending
<1>12. ASSUME NEW i \in 1..m
       PROVE  /\ Carries(F, r, list[i], es[i])
              /\ es[i].oem = "value" => Pending(r, "storage", list[i], "PowerLimitStorage", F)
  <2>1. Whole(ss[i], r, list[i], es[i])
    OBVIOUS
  <2> QED BY <2>1, <1>11 DEF Whole, Carries
<1>13. \A k \in DOMAIN F : \E i \in 1..m : Made(F[k], r, list[i], es[i])
  BY <1>7
<1>14. Sent(F, r, m, list, es)
  BY <1>3, <1>8, <1>10, <1>12, <1>13 DEF Sent
<1> QED BY <1>14 DEF F

-----------------------------------------------------------------------------
(* The array of nodes *)

\* The components of all domains, each as some topology has them.
FullComps(c) == c \in Comps /\ DOMAIN c = Domains

LEMMA ElementIn ==
  ASSUME NEW S, NEW s \in Seq(S)
  PROVE  \A i \in DOMAIN s : s[i] \in S
OBVIOUS

LEMMA ListsFacts ==
  ASSUME NEW d \in Domains, NEW s \in Lists(d)
  PROVE  /\ s \in Seq(0..254) /\ \A i, j \in DOMAIN s : s[i] = s[j] => i = j
         /\ \A i \in DOMAIN s : <<d, s[i]>> \in Nodes /\ s[i] # allDevices
         /\ <<d, allDevices>> \in Nodes /\ root \in Nodes
<1>1. PICK t \in Topologies : s = t[d]
  BY DEF Lists
<1>2. t \in [Domains -> Seq(0..254)]
  BY PowerControlAssumption
<1>3. s \in Seq(0..254)
  BY <1>1, <1>2
<1>4. \A i, j \in DOMAIN s : s[i] = s[j] => i = j
  BY <1>1, PowerControlAssumption
<1>5. \A i \in DOMAIN s : s[i] # allDevices
  <2>1. \A i \in DOMAIN s : s[i] \in 0..254
    BY <1>3, ElementIn
  <2> QED BY <2>1 DEF allDevices
<1>6. /\ \A i \in DOMAIN s : <<d, s[i]>> \in NodesOf(t)
      /\ <<d, allDevices>> \in NodesOf(t) /\ root \in NodesOf(t)
  BY <1>1 DEF NodesOf
<1>7. NodesOf(t) \subseteq Nodes
  BY DEF Nodes
<1> QED BY <1>3, <1>4, <1>5, <1>6, <1>7

\* A group of nodes of an array.
Group(c, d) == [i \in DOMAIN c[d] |-> <<d, c[d][i]>>] \o <<<<d, allDevices>>>>

GroupIs(g, c, d) ==
  /\ g \in Seq(Nodes) /\ c[d] \in Seq(0..254) /\ Len(c[d]) \in Nat /\ DOMAIN c[d] = 1..Len(c[d])
  /\ Len(g) = Len(c[d]) + 1 /\ DOMAIN g = 1..(Len(c[d]) + 1)
  /\ \A i \in 1..Len(c[d]) : g[i] = <<d, c[d][i]>>
  /\ g[Len(c[d]) + 1] = <<d, allDevices>>
  /\ \A i, j \in DOMAIN g : g[i] = g[j] => i = j
  /\ \A i \in DOMAIN g : g[i][1] = d

LEMMA GroupFacts ==
  ASSUME NEW c, FullComps(c), NEW d \in Domains
  PROVE  GroupIs(Group(c, d), c, d)
<1> DEFINE s == c[d]
<1>1. s \in Lists(d)
  BY DEF FullComps, Comps
<1>2. /\ s \in Seq(0..254) /\ \A i, j \in DOMAIN s : s[i] = s[j] => i = j
      /\ \A i \in DOMAIN s : <<d, s[i]>> \in Nodes /\ s[i] # allDevices
      /\ <<d, allDevices>> \in Nodes
  BY <1>1, ListsFacts
<1> HIDE DEF s
<1> DEFINE a == [i \in DOMAIN s |-> <<d, s[i]>>]
           z == <<d, allDevices>>
           b == <<z>>
           g == a \o b
<1>3. Len(s) \in Nat /\ DOMAIN s = 1..Len(s)
  BY <1>2
<1>4. a \in Seq(Nodes) /\ Len(a) = Len(s) /\ \A i \in 1..Len(s) : a[i] = <<d, s[i]>>
  <2>1. a \in [1..Len(s) -> Nodes]
    BY <1>2, <1>3
  <2> QED BY <2>1, <1>3
<1>5. z \in Nodes
  BY <1>2
<1>z. z[1] = d /\ z[2] = allDevices
  OBVIOUS
<1>zd. z = <<d, allDevices>>
  OBVIOUS
<1> HIDE DEF a, z
<1>6. b \in Seq(Nodes) /\ Len(b) = 1 /\ b[1] = z
  BY <1>5
<1> HIDE DEF b
<1>7. /\ g \in Seq(Nodes) /\ Len(g) = Len(a) + Len(b)
      /\ \A i \in 1..Len(a) : g[i] = a[i]
      /\ \A i \in 1..Len(b) : g[Len(a) + i] = b[i]
  BY <1>4, <1>6, ConcatFacts
<1> HIDE DEF g
<1>8. /\ Len(g) = Len(s) + 1 /\ DOMAIN g = 1..(Len(s) + 1)
      /\ \A i \in 1..Len(s) : g[i] = <<d, s[i]>>
  BY <1>7, <1>4, <1>6, <1>3
<1>9. g[Len(s) + 1] = z
  BY <1>7, <1>4, <1>6, <1>3
<1>10. \A i \in DOMAIN g : (i \in 1..Len(s) /\ g[i] = <<d, s[i]>>) \/ (i = Len(s) + 1 /\ g[i] = z)
  BY <1>8, <1>9, <1>3
<1>11. \A i \in DOMAIN g : g[i][1] = d
  BY <1>10, <1>z
<1>12. ASSUME NEW i \in DOMAIN g, NEW j \in DOMAIN g, g[i] = g[j] PROVE i = j
  <2>1. \A k \in 1..Len(s) : <<d, s[k]>>[2] = s[k] /\ s[k] # allDevices
    BY <1>2, <1>3
  <2>2. \A k \in 1..Len(s) : g[k][2] = s[k] /\ s[k] # allDevices
    BY <2>1, <1>8
  <2>3. i \in 1..Len(s) \/ (i = Len(s) + 1 /\ g[i][2] = allDevices)
    BY <1>10, <1>z
  <2>4. j \in 1..Len(s) \/ (j = Len(s) + 1 /\ g[j][2] = allDevices)
    BY <1>10, <1>z
  <2> QED BY <2>2, <2>3, <2>4, <1>12, <1>2, <1>3
<1>13. GroupIs(g, c, d)
  BY <1>2, <1>3, <1>7, <1>8, <1>9, <1>zd, <1>11, <1>12 DEF GroupIs, s
<1> QED BY <1>13 DEF Group, g, a, b, z, s

\* The nodes in the order of the array: root, then the groups.
ArrayIs(b, c) ==
  LET l1 == Len(c[pcieDomainId])
      l2 == Len(c[cpuDomainId])
      l3 == Len(c[memoryDomainId])
      g1 == Group(c, pcieDomainId)
      g2 == Group(c, cpuDomainId)
      g3 == Group(c, memoryDomainId)
  IN /\ b \in Seq(Nodes) /\ Len(b) = 4 + l1 + l2 + l3 /\ DOMAIN b = 1..(4 + l1 + l2 + l3)
     /\ b[1] = root
     /\ \A i \in 1..(l1 + 1) : b[1 + i] = g1[i]
     /\ \A i \in 1..(l2 + 1) : b[2 + l1 + i] = g2[i]
     /\ \A i \in 1..(l3 + 1) : b[3 + l1 + l2 + i] = g3[i]

\* w is a, then b.
Follows(w, a, b) ==
  /\ w \in Seq(Nodes) /\ Len(w) = Len(a) + Len(b)
  /\ \A i \in 1..Len(a) : w[i] = a[i]
  /\ \A i \in 1..Len(b) : w[Len(a) + i] = b[i]

LEMMA FollowsFacts ==
  ASSUME NEW a \in Seq(Nodes), NEW b \in Seq(Nodes)
  PROVE  Follows(a \o b, a, b)
BY ConcatFacts DEF Follows

LEMMA ArrayFacts ==
  ASSUME NEW c, FullComps(c)
  PROVE  ArrayIs(buildDomainPolicyMap(c), c)
<1> DEFINE l1 == Len(c[pcieDomainId])
           l2 == Len(c[cpuDomainId])
           l3 == Len(c[memoryDomainId])
           g1 == Group(c, pcieDomainId)
           g2 == Group(c, cpuDomainId)
           g3 == Group(c, memoryDomainId)
           z == <<root>>
           b == ((z \o g1) \o g2) \o g3
<1>1. buildDomainPolicyMap(c) = b
  BY DEF buildDomainPolicyMap, Group
<1>2. pcieDomainId \in Domains /\ cpuDomainId \in Domains /\ memoryDomainId \in Domains
  BY DEF Domains
<1>3. GroupIs(g1, c, pcieDomainId) /\ GroupIs(g2, c, cpuDomainId) /\ GroupIs(g3, c, memoryDomainId)
  BY <1>2, GroupFacts
<1>r. root \in Nodes
  <2>1. c[pcieDomainId] \in Lists(pcieDomainId)
    BY <1>2 DEF FullComps, Comps
  <2> QED BY <2>1, <1>2, ListsFacts
<1>4. z \in Seq(Nodes) /\ Len(z) = 1 /\ z[1] = root
  BY <1>r
<1> HIDE DEF g1, g2, g3, z
<1>5. /\ g1 \in Seq(Nodes) /\ l1 \in Nat /\ Len(g1) = l1 + 1
      /\ g2 \in Seq(Nodes) /\ l2 \in Nat /\ Len(g2) = l2 + 1
      /\ g3 \in Seq(Nodes) /\ l3 \in Nat /\ Len(g3) = l3 + 1
  BY <1>3 DEF GroupIs
<1> HIDE DEF l1, l2, l3
<1> DEFINE x == z \o g1
           y == x \o g2
           w == y \o g3
<1>6. /\ x \in Seq(Nodes) /\ Len(x) = 2 + l1 /\ x[1] = root
      /\ \A i \in 1..(l1 + 1) : x[1 + i] = g1[i]
  <2>1. Follows(x, z, g1)
    BY <1>4, <1>5, FollowsFacts
  <2> HIDE DEF x
  <2> QED BY <2>1, <1>4, <1>5 DEF Follows
<1> HIDE DEF x
<1>7. /\ y \in Seq(Nodes) /\ Len(y) = 3 + l1 + l2
      /\ \A i \in 1..(2 + l1) : y[i] = x[i]
      /\ \A i \in 1..(l2 + 1) : y[2 + l1 + i] = g2[i]
  <2>1. Follows(y, x, g2)
    BY <1>5, <1>6, FollowsFacts
  <2> HIDE DEF y
  <2> QED BY <2>1, <1>5, <1>6 DEF Follows
<1> HIDE DEF y
<1>8. /\ w \in Seq(Nodes) /\ Len(w) = 4 + l1 + l2 + l3
      /\ \A i \in 1..(3 + l1 + l2) : w[i] = y[i]
      /\ \A i \in 1..(l3 + 1) : w[3 + l1 + l2 + i] = g3[i]
  <2>1. Follows(w, y, g3)
    BY <1>5, <1>7, FollowsFacts
  <2> HIDE DEF w
  <2> QED BY <2>1, <1>5, <1>7 DEF Follows
<1> HIDE DEF w
<1>9. w[1] = root /\ \A i \in 1..(l1 + 1) : w[1 + i] = g1[i]
  <2>1. w[1] = y[1] /\ y[1] = x[1]
    BY <1>5, <1>7, <1>8
  <2>2. ASSUME NEW i \in 1..(l1 + 1) PROVE w[1 + i] = g1[i]
    <3>1. 1 + i \in 1..(3 + l1 + l2) /\ 1 + i \in 1..(2 + l1)
      BY <1>5
    <3>2. w[1 + i] = y[1 + i] /\ y[1 + i] = x[1 + i] /\ x[1 + i] = g1[i]
      BY <3>1, <1>6, <1>7, <1>8
    <3> QED BY <3>2
  <2> QED BY <2>1, <2>2, <1>6
<1>10. \A i \in 1..(l2 + 1) : w[2 + l1 + i] = g2[i]
  <2> SUFFICES ASSUME NEW i \in 1..(l2 + 1) PROVE w[2 + l1 + i] = g2[i]
    OBVIOUS
  <2>1. 2 + l1 + i \in 1..(3 + l1 + l2)
    BY <1>5
  <2>2. w[2 + l1 + i] = y[2 + l1 + i]
    BY <2>1, <1>8
  <2> QED BY <2>2, <1>7
<1>11. DOMAIN w = 1..(4 + l1 + l2 + l3)
  BY <1>8
<1>12. ArrayIs(w, c)
  BY <1>8, <1>9, <1>10, <1>11 DEF ArrayIs, l1, l2, l3, g1, g2, g3
<1> QED BY <1>1, <1>12 DEF w, y, x


\* The index k of a node in the array tells its group.
PlaceIn(b, c, k) ==
  LET l1 == Len(c[pcieDomainId])
      l2 == Len(c[cpuDomainId])
      l3 == Len(c[memoryDomainId])
  IN \/ k = 1 /\ b[k] = root
     \/ /\ k - 1 \in 1..(l1 + 1) /\ b[k][1] = pcieDomainId
        /\ b[k] = Group(c, pcieDomainId)[k - 1]
     \/ /\ k - (2 + l1) \in 1..(l2 + 1) /\ b[k][1] = cpuDomainId
        /\ b[k] = Group(c, cpuDomainId)[k - (2 + l1)]
     \/ /\ k - (3 + l1 + l2) \in 1..(l3 + 1) /\ b[k][1] = memoryDomainId
        /\ b[k] = Group(c, memoryDomainId)[k - (3 + l1 + l2)]

LEMMA ArrayCases ==
  ASSUME NEW c, FullComps(c), NEW b, ArrayIs(b, c), NEW k \in DOMAIN b
  PROVE  PlaceIn(b, c, k)
<1> DEFINE l1 == Len(c[pcieDomainId])
           l2 == Len(c[cpuDomainId])
           l3 == Len(c[memoryDomainId])
           g1 == Group(c, pcieDomainId)
           g2 == Group(c, cpuDomainId)
           g3 == Group(c, memoryDomainId)
<1>1. GroupIs(g1, c, pcieDomainId) /\ GroupIs(g2, c, cpuDomainId) /\ GroupIs(g3, c, memoryDomainId)
  BY GroupFacts DEF Domains
<1>2. /\ Len(b) = 4 + l1 + l2 + l3 /\ DOMAIN b = 1..(4 + l1 + l2 + l3)
      /\ b[1] = root
      /\ \A i \in 1..(l1 + 1) : b[1 + i] = g1[i]
      /\ \A i \in 1..(l2 + 1) : b[2 + l1 + i] = g2[i]
      /\ \A i \in 1..(l3 + 1) : b[3 + l1 + l2 + i] = g3[i]
  BY DEF ArrayIs
<1> HIDE DEF g1, g2, g3
<1>3. /\ l1 \in Nat /\ l2 \in Nat /\ l3 \in Nat
      /\ \A i \in 1..(l1 + 1) : g1[i][1] = pcieDomainId
      /\ \A i \in 1..(l2 + 1) : g2[i][1] = cpuDomainId
      /\ \A i \in 1..(l3 + 1) : g3[i][1] = memoryDomainId
  BY <1>1 DEF GroupIs
<1> HIDE DEF l1, l2, l3
<1>4. CASE k = 1
  BY <1>4, <1>2 DEF PlaceIn
<1>5. CASE k - 1 \in 1..(l1 + 1)
  <2>1. 1 + (k - 1) = k
    BY <1>2
  <2>2. b[k] = g1[k - 1] /\ b[k][1] = pcieDomainId
    BY <2>1, <1>2, <1>3, <1>5
  <2> QED BY <2>2, <1>5 DEF l1, g1, PlaceIn
<1>6. CASE k - (2 + l1) \in 1..(l2 + 1)
  <2>1. 2 + l1 + (k - (2 + l1)) = k
    BY <1>2, <1>3
  <2>2. b[k] = g2[k - (2 + l1)] /\ b[k][1] = cpuDomainId
    BY <2>1, <1>2, <1>3, <1>6
  <2> QED BY <2>2, <1>6 DEF l1, l2, g2, PlaceIn
<1>7. CASE k - (3 + l1 + l2) \in 1..(l3 + 1)
  <2>1. 3 + l1 + l2 + (k - (3 + l1 + l2)) = k
    BY <1>2, <1>3
  <2>2. b[k] = g3[k - (3 + l1 + l2)] /\ b[k][1] = memoryDomainId
    BY <2>1, <1>2, <1>3, <1>7
  <2> QED BY <2>2, <1>7 DEF l1, l2, l3, g3, PlaceIn
<1>8. k \in 1..(4 + l1 + l2 + l3)
  BY <1>2
<1>9. \/ k = 1 \/ k - 1 \in 1..(l1 + 1) \/ k - (2 + l1) \in 1..(l2 + 1)
      \/ k - (3 + l1 + l2) \in 1..(l3 + 1)
  BY <1>3, <1>8
<1> QED BY <1>4, <1>5, <1>6, <1>7, <1>9

LEMMA BuildFacts ==
  ASSUME NEW c, FullComps(c)
  PROVE  /\ buildDomainPolicyMap(c) \in Seq(Nodes)
         /\ \A i, j \in DOMAIN buildDomainPolicyMap(c) :
              buildDomainPolicyMap(c)[i] = buildDomainPolicyMap(c)[j] => i = j
<1> DEFINE b == buildDomainPolicyMap(c)
<1>1. ArrayIs(b, c)
  BY ArrayFacts
<1> HIDE DEF b
<1>2. b \in Seq(Nodes)
  BY <1>1 DEF ArrayIs
<1>3. ASSUME NEW i \in DOMAIN b, NEW j \in DOMAIN b, b[i] = b[j] PROVE i = j
  <2> DEFINE l1 == Len(c[pcieDomainId])
             l2 == Len(c[cpuDomainId])
             l3 == Len(c[memoryDomainId])
             g1 == Group(c, pcieDomainId)
             g2 == Group(c, cpuDomainId)
             g3 == Group(c, memoryDomainId)
             In(k) == \/ k = 1 /\ b[k] = root
                      \/ /\ k - 1 \in 1..(l1 + 1) /\ b[k][1] = pcieDomainId
                         /\ b[k] = g1[k - 1]
                      \/ /\ k - (2 + l1) \in 1..(l2 + 1) /\ b[k][1] = cpuDomainId
                         /\ b[k] = g2[k - (2 + l1)]
                      \/ /\ k - (3 + l1 + l2) \in 1..(l3 + 1) /\ b[k][1] = memoryDomainId
                         /\ b[k] = g3[k - (3 + l1 + l2)]
  <2>1. GroupIs(g1, c, pcieDomainId) /\ GroupIs(g2, c, cpuDomainId) /\ GroupIs(g3, c, memoryDomainId)
    BY GroupFacts DEF Domains
  <2>2. In(i) /\ In(j)
    <3>1. PlaceIn(b, c, i) /\ PlaceIn(b, c, j)
      BY <1>1, ArrayCases
    <3> QED BY <3>1 DEF PlaceIn
  <2> HIDE DEF g1, g2, g3
  <2>3. /\ l1 \in Nat /\ l2 \in Nat /\ l3 \in Nat
        /\ \A k, l \in 1..(l1 + 1) : g1[k] = g1[l] => k = l
        /\ \A k, l \in 1..(l2 + 1) : g2[k] = g2[l] => k = l
        /\ \A k, l \in 1..(l3 + 1) : g3[k] = g3[l] => k = l
    BY <2>1 DEF GroupIs
  <2> HIDE DEF l1, l2, l3
  <2>4. i \in Nat /\ j \in Nat
    BY <1>2
  <2>5. root[1] = dcTotalPowerDomainId
    BY DEF root
  <2>6. CASE i = 1 /\ b[i] = root
    BY <2>2, <2>5, <2>6, <1>3 DEF dcTotalPowerDomainId, pcieDomainId, cpuDomainId, memoryDomainId
  <2>7. CASE i - 1 \in 1..(l1 + 1) /\ b[i][1] = pcieDomainId /\ b[i] = g1[i - 1]
    <3>1. j - 1 \in 1..(l1 + 1) /\ b[j] = g1[j - 1]
      BY <2>2, <2>5, <2>7, <1>3 DEF dcTotalPowerDomainId, pcieDomainId, cpuDomainId, memoryDomainId
    <3>2. i - 1 = j - 1
      BY <2>7, <3>1, <2>3, <1>3
    <3> QED BY <3>2, <2>4
  <2>8. CASE i - (2 + l1) \in 1..(l2 + 1) /\ b[i][1] = cpuDomainId /\ b[i] = g2[i - (2 + l1)]
    <3>1. j - (2 + l1) \in 1..(l2 + 1) /\ b[j] = g2[j - (2 + l1)]
      BY <2>2, <2>5, <2>8, <1>3 DEF dcTotalPowerDomainId, pcieDomainId, cpuDomainId, memoryDomainId
    <3>2. i - (2 + l1) = j - (2 + l1)
      BY <2>8, <3>1, <2>3, <1>3
    <3> QED BY <3>2, <2>4, <2>3
  <2>9. CASE i - (3 + l1 + l2) \in 1..(l3 + 1) /\ b[i][1] = memoryDomainId /\ b[i] = g3[i - (3 + l1 + l2)]
    <3>1. j - (3 + l1 + l2) \in 1..(l3 + 1) /\ b[j] = g3[j - (3 + l1 + l2)]
      BY <2>2, <2>5, <2>9, <1>3 DEF dcTotalPowerDomainId, pcieDomainId, cpuDomainId, memoryDomainId
    <3>2. i - (3 + l1 + l2) = j - (3 + l1 + l2)
      BY <2>9, <3>1, <2>3, <1>3
    <3> QED BY <3>2, <2>4, <2>3
  <2> QED BY <2>2, <2>6, <2>7, <2>8, <2>9
<1> QED BY <1>2, <1>3 DEF b

LEMMA GroupPlaces ==
  ASSUME NEW c, FullComps(c), NEW d \in Domains, NEW o \in Nat
  PROVE  getNmDmtfGroup(o, c[d], d) = {<<o + i - 1, Group(c, d)[i]>> : i \in 1..(Len(c[d]) + 1)}
<1> DEFINE s == c[d]
           g == Group(c, d)
<1>1. GroupIs(g, c, d)
  BY GroupFacts
<1> HIDE DEF g
<1>2. /\ Len(s) \in Nat /\ DOMAIN s = 1..Len(s)
      /\ \A i \in 1..Len(s) : g[i] = <<d, s[i]>>
      /\ g[Len(s) + 1] = <<d, allDevices>>
  BY <1>1 DEF GroupIs
<1> HIDE DEF s
<1>3. getNmDmtfGroup(o, s, d) \subseteq {<<o + i - 1, g[i]>> : i \in 1..(Len(s) + 1)}
  <2> SUFFICES ASSUME NEW x \in getNmDmtfGroup(o, s, d)
               PROVE  \E i \in 1..(Len(s) + 1) : x = <<o + i - 1, g[i]>>
    OBVIOUS
  <2>1. CASE \E i \in DOMAIN s : x = <<o + i - 1, <<d, s[i]>>>>
    <3>1. PICK i \in DOMAIN s : x = <<o + i - 1, <<d, s[i]>>>>
      BY <2>1
    <3>2. i \in 1..(Len(s) + 1) /\ g[i] = <<d, s[i]>>
      BY <3>1, <1>2
    <3> QED BY <3>1, <3>2
  <2>2. CASE x = <<o + Len(s), <<d, allDevices>>>>
    <3>1. Len(s) + 1 \in 1..(Len(s) + 1) /\ o + (Len(s) + 1) - 1 = o + Len(s)
      BY <1>2
    <3>2. x = <<o + (Len(s) + 1) - 1, g[Len(s) + 1]>>
      BY <3>1, <2>2, <1>2
    <3> QED BY <3>1, <3>2
  <2> QED BY <2>1, <2>2 DEF getNmDmtfGroup
<1>4. {<<o + i - 1, g[i]>> : i \in 1..(Len(s) + 1)} \subseteq getNmDmtfGroup(o, s, d)
  <2> SUFFICES ASSUME NEW i \in 1..(Len(s) + 1)
               PROVE  <<o + i - 1, g[i]>> \in getNmDmtfGroup(o, s, d)
    OBVIOUS
  <2>1. CASE i \in 1..Len(s)
    <3>1. i \in DOMAIN s /\ g[i] = <<d, s[i]>>
      BY <2>1, <1>2
    <3> QED BY <3>1 DEF getNmDmtfGroup
  <2>2. CASE i = Len(s) + 1
    <3>1. o + i - 1 = o + Len(s) /\ g[i] = <<d, allDevices>>
      BY <2>2, <1>2
    <3> QED BY <3>1 DEF getNmDmtfGroup
  <2> QED BY <2>1, <2>2, <1>2
<1> QED BY <1>3, <1>4 DEF s, g

\* An array read back from its places.
LEMMA PlacesArray ==
  ASSUME NEW b \in Seq(Nodes)
  PROVE  LET places == {<<k - 1, b[k]>> : k \in 1..Len(b)} IN
         [i \in 1..Cardinality(places) |-> CHOOSE n \in Nodes : <<i - 1, n>> \in places] = b
<1> DEFINE N == Len(b)
           places == {<<k - 1, b[k]>> : k \in 1..N}
           f == [k \in 1..N |-> <<k - 1, b[k]>>]
<1>1. N \in Nat /\ DOMAIN b = 1..N /\ b = [i \in 1..N |-> b[i]]
  OBVIOUS
<1> HIDE DEF N
<1>2. f \in Bijection(1..N, places)
  <2>1. f \in [1..N -> places]
    OBVIOUS
  <2>2. \A k, l \in 1..N : f[k] = f[l] => k = l
    <3> SUFFICES ASSUME NEW k \in 1..N, NEW l \in 1..N, f[k] = f[l] PROVE k = l
      OBVIOUS
    <3>1. <<k - 1, b[k]>> = <<l - 1, b[l]>>
      OBVIOUS
    <3>2. k - 1 = l - 1
      BY <3>1
    <3> QED BY <3>2, <1>1
  <2>3. \A x \in places : \E k \in 1..N : f[k] = x
    OBVIOUS
  <2> HIDE DEF f, places
  <2>4. DOMAIN f = 1..N
    BY <2>1
  <2> QED BY <2>1, <2>2, <2>3, <2>4 DEF Bijection, Injection, Surjection, IsInjective
<1>3. IsFiniteSet(1..N) /\ Cardinality(1..N) = N
  <2>1. 1 \in Int /\ N \in Int
    BY <1>1
  <2>2. IsFiniteSet(1..N) /\ Cardinality(1..N) = IF 1 > N THEN 0 ELSE N - 1 + 1
    BY <2>1, FS_Interval
  <2> QED BY <2>2, <1>1
<1>4. Cardinality(places) = N
  BY <1>2, <1>3, FS_Bijection DEF ExistsBijection
<1>5. ASSUME NEW i \in 1..N PROVE (CHOOSE n \in Nodes : <<i - 1, n>> \in places) = b[i]
  <2>1. b[i] \in Nodes /\ <<i - 1, b[i]>> \in places
    BY <1>1
  <2>2. ASSUME NEW n \in Nodes, <<i - 1, n>> \in places PROVE n = b[i]
    <3>1. PICK k \in 1..N : <<i - 1, n>> = <<k - 1, b[k]>>
      BY <2>2
    <3>2. i - 1 = k - 1 /\ n = b[k]
      BY <3>1
    <3>3. i = k
      BY <3>2, <1>1
    <3> QED BY <3>2, <3>3
  <2> HIDE DEF places
  <2> DEFINE m == CHOOSE n \in Nodes : <<i - 1, n>> \in places
  <2>3. m \in Nodes /\ <<i - 1, m>> \in places
    BY <2>1
  <2> HIDE DEF m
  <2>4. m = b[i]
    BY <2>2, <2>3
  <2> QED BY <2>4 DEF m
<1> DEFINE ch(i) == CHOOSE n \in Nodes : <<i - 1, n>> \in places
<1>6. \A i \in 1..N : ch(i) = b[i]
  BY <1>5
<1> HIDE DEF ch
<1>7. [i \in 1..N |-> ch(i)] = [i \in 1..N |-> b[i]]
  BY <1>6
<1>8. [i \in 1..Cardinality(places) |-> ch(i)] = b
  BY <1>1, <1>4, <1>7
<1> QED BY <1>8 DEF ch, N

\* The array that a GET shows is the list that a PATCH applies to.
LEMMA CollectIsBuild ==
  ASSUME NEW c, FullComps(c)
  PROVE  collectNmDmtfData(c) = buildDomainPolicyMap(c)
<1> DEFINE b == buildDomainPolicyMap(c)
           l1 == Len(c[pcieDomainId])
           l2 == Len(c[cpuDomainId])
           l3 == Len(c[memoryDomainId])
           g1 == Group(c, pcieDomainId)
           g2 == Group(c, cpuDomainId)
           g3 == Group(c, memoryDomainId)
           N == 4 + l1 + l2 + l3
           P1 == {<<1 + i - 1, g1[i]>> : i \in 1..(l1 + 1)}
           P2 == {<<2 + l1 + i - 1, g2[i]>> : i \in 1..(l2 + 1)}
           P3 == {<<3 + l1 + l2 + i - 1, g3[i]>> : i \in 1..(l3 + 1)}
           places == {<<powerRootNode, root>>} \cup P1 \cup P2 \cup P3
           all == {<<k - 1, b[k]>> : k \in 1..N}
<1>1. ArrayIs(b, c)
  BY ArrayFacts
<1>2. GroupIs(g1, c, pcieDomainId) /\ GroupIs(g2, c, cpuDomainId) /\ GroupIs(g3, c, memoryDomainId)
  BY GroupFacts DEF Domains
<1>3. l1 \in Nat /\ l2 \in Nat /\ l3 \in Nat
  BY <1>2 DEF GroupIs
<1>b. /\ b \in Seq(Nodes) /\ Len(b) = N /\ DOMAIN b = 1..N
      /\ b[1] = root
      /\ \A i \in 1..(l1 + 1) : b[1 + i] = g1[i]
      /\ \A i \in 1..(l2 + 1) : b[2 + l1 + i] = g2[i]
      /\ \A i \in 1..(l3 + 1) : b[3 + l1 + l2 + i] = g3[i]
  BY <1>1 DEF ArrayIs
<1> HIDE DEF b
<1>c. ASSUME NEW k \in 1..N
      PROVE  \/ k = 1 /\ b[k] = root
             \/ k - 1 \in 1..(l1 + 1) /\ b[k] = g1[k - 1]
             \/ k - (2 + l1) \in 1..(l2 + 1) /\ b[k] = g2[k - (2 + l1)]
             \/ k - (3 + l1 + l2) \in 1..(l3 + 1) /\ b[k] = g3[k - (3 + l1 + l2)]
  <2>1. PlaceIn(b, c, k)
    BY <1>1, <1>b, ArrayCases
  <2> QED BY <2>1 DEF PlaceIn
<1> HIDE DEF g1, g2, g3, l1, l2, l3
<1> HIDE DEF P1, P2, P3
<1>4. /\ getNmDmtfGroup(1, c[pcieDomainId], pcieDomainId) = P1
      /\ getNmDmtfGroup(2 + l1, c[cpuDomainId], cpuDomainId) = P2
      /\ getNmDmtfGroup(3 + l1 + l2, c[memoryDomainId], memoryDomainId) = P3
  <2> DEFINE o2 == 2 + l1
             o3 == 3 + l1 + l2
  <2>1. 1 \in Nat /\ o2 \in Nat /\ o3 \in Nat
    BY <1>3
  <2>2. pcieDomainId \in Domains /\ cpuDomainId \in Domains /\ memoryDomainId \in Domains
    BY DEF Domains
  <2> HIDE DEF o2, o3
  <2>3. getNmDmtfGroup(1, c[pcieDomainId], pcieDomainId) = P1
    BY <2>1, <2>2, GroupPlaces DEF P1, l1, g1
  <2>4. getNmDmtfGroup(o2, c[cpuDomainId], cpuDomainId)
          = {<<o2 + i - 1, g2[i]>> : i \in 1..(l2 + 1)}
    BY <2>1, <2>2, GroupPlaces DEF l2, g2
  <2>5. getNmDmtfGroup(o3, c[memoryDomainId], memoryDomainId)
          = {<<o3 + i - 1, g3[i]>> : i \in 1..(l3 + 1)}
    BY <2>1, <2>2, GroupPlaces DEF l3, g3
  <2> QED BY <2>3, <2>4, <2>5 DEF P2, P3, o2, o3
<1>5. collectNmDmtfData(c)
        = [i \in 1..Cardinality(places) |-> CHOOSE n \in Nodes : <<i - 1, n>> \in places]
  <2>1. places = {<<powerRootNode, root>>}
                   \cup getNmDmtfGroup(1, c[pcieDomainId], pcieDomainId)
                   \cup getNmDmtfGroup(2 + Len(c[pcieDomainId]), c[cpuDomainId], cpuDomainId)
                   \cup getNmDmtfGroup(3 + Len(c[pcieDomainId]) + Len(c[cpuDomainId]),
                                       c[memoryDomainId], memoryDomainId)
    BY <1>4 DEF l1, l2
  <2> HIDE DEF places
  <2> QED BY <2>1 DEF collectNmDmtfData
<1> USE DEF P1, P2, P3
<1>6. places \subseteq all
  <2>1. <<powerRootNode, root>> \in all
    <3>1. 1 \in 1..N /\ 1 - 1 = powerRootNode
      BY <1>3 DEF powerRootNode
    <3>2. <<1 - 1, b[1]>> \in all
      BY <3>1
    <3> QED BY <3>1, <3>2, <1>b
  <2>2. ASSUME NEW i \in 1..(l1 + 1) PROVE <<1 + i - 1, g1[i]>> \in all
    <3>1. 1 + i \in 1..N /\ b[1 + i] = g1[i]
      BY <1>3, <1>b
    <3> QED BY <3>1
  <2>3. ASSUME NEW i \in 1..(l2 + 1) PROVE <<2 + l1 + i - 1, g2[i]>> \in all
    <3> DEFINE k == 2 + l1 + i
    <3>1. k \in 1..N /\ b[k] = g2[i]
      BY <1>3, <1>b
    <3>2. <<k - 1, g2[i]>> \in all
      <4> HIDE DEF k
      <4> QED BY <3>1
    <3>3. 2 + l1 + i - 1 = k - 1
      BY <1>3
    <3> HIDE DEF all, k
    <3> QED BY <3>2, <3>3
  <2>4. ASSUME NEW i \in 1..(l3 + 1) PROVE <<3 + l1 + l2 + i - 1, g3[i]>> \in all
    <3> DEFINE k == 3 + l1 + l2 + i
    <3>1. k \in 1..N /\ b[k] = g3[i]
      BY <1>3, <1>b
    <3>2. <<k - 1, g3[i]>> \in all
      <4> HIDE DEF k
      <4> QED BY <3>1
    <3>3. 3 + l1 + l2 + i - 1 = k - 1
      BY <1>3
    <3> HIDE DEF all, k
    <3> QED BY <3>2, <3>3
  <2> HIDE DEF all
  <2> QED BY <2>1, <2>2, <2>3, <2>4
<1>7. all \subseteq places
  <2> SUFFICES ASSUME NEW k \in 1..N PROVE <<k - 1, b[k]>> \in places
    OBVIOUS
  <2>1. CASE k = 1 /\ b[k] = root
    <3>1. k - 1 = powerRootNode
      BY <2>1 DEF powerRootNode
    <3> QED BY <2>1, <3>1
  <2>2. CASE k - 1 \in 1..(l1 + 1) /\ b[k] = g1[k - 1]
    <3>1. 1 + (k - 1) - 1 = k - 1
      BY <1>3
    <3>2. <<k - 1, b[k]>> \in P1
      BY <2>2, <3>1
    <3> QED BY <3>2
  <2>3. CASE k - (2 + l1) \in 1..(l2 + 1) /\ b[k] = g2[k - (2 + l1)]
    <3>1. 2 + l1 + (k - (2 + l1)) - 1 = k - 1
      BY <1>3
    <3>2. <<k - 1, b[k]>> \in P2
      BY <2>3, <3>1
    <3> QED BY <3>2
  <2>4. CASE k - (3 + l1 + l2) \in 1..(l3 + 1) /\ b[k] = g3[k - (3 + l1 + l2)]
    <3>1. 3 + l1 + l2 + (k - (3 + l1 + l2)) - 1 = k - 1
      BY <1>3
    <3>2. <<k - 1, b[k]>> \in P3
      BY <2>4, <3>1
    <3> QED BY <3>2
  <2> QED BY <2>1, <2>2, <2>3, <2>4, <1>c
<1>8. places = {<<k - 1, b[k]>> : k \in 1..Len(b)}
  BY <1>6, <1>7, <1>b
<1> HIDE DEF places
<1> QED BY <1>5, <1>8, <1>b, PlacesArray DEF b

-----------------------------------------------------------------------------
(* The queue, for a request that does not act *)

\* The calls of s are in W what they are in Q, k places on.
Shift(s, Q, W, k) ==
  /\ \A i \in DOMAIN Q : Q[i].by = s => i + k \in DOMAIN W /\ W[i + k] = Q[i]
  /\ \A j \in DOMAIN W : W[j].by = s => j - k \in DOMAIN Q /\ Q[j - k] = W[j]

LEMMA ShiftTail ==
  ASSUME NEW Q \in Seq(CallSet), Q # << >>, NEW s, Head(Q).by # s
  PROVE  Shift(s, Q, Tail(Q), -1)
<1> DEFINE W == Tail(Q)
<1>1. /\ W \in Seq(CallSet) /\ Len(Q) \in Nat /\ Len(W) = Len(Q) - 1 /\ Len(Q) > 0
      /\ Head(Q) = Q[1]
      /\ \A i \in DOMAIN W : i + 1 \in DOMAIN Q /\ W[i] = Q[i + 1]
      /\ \A i \in DOMAIN Q : i = 1 \/ (i - 1 \in DOMAIN W /\ W[i - 1] = Q[i])
  BY TailFacts
<1> HIDE DEF W
<1>2. DOMAIN Q \subseteq Int /\ DOMAIN W \subseteq Int
  BY <1>1
<1>3. \A i \in Int : i + (-1) = i - 1 /\ i - (-1) = i + 1
  OBVIOUS
<1>4. Shift(s, Q, W, -1)
  BY <1>1, <1>2, <1>3 DEF Shift
<1> QED BY <1>4 DEF W

LEMMA ShiftConcat ==
  ASSUME NEW Q \in Seq(CallSet), NEW W \in Seq(CallSet), NEW X \in Seq(CallSet), NEW s, NEW k \in Int,
         Shift(s, Q, W, k), Quiet(s, X)
  PROVE  Shift(s, Q, W \o X, k)
<1> DEFINE V == W \o X
<1>1. /\ V \in Seq(CallSet) /\ Len(V) = Len(W) + Len(X)
      /\ \A i \in 1..Len(W) : V[i] = W[i]
      /\ \A i \in DOMAIN V : i \in 1..Len(W) \/ (i - Len(W) \in 1..Len(X) /\ V[i] = X[i - Len(W)])
  BY ConcatFacts
<1>2. /\ Len(W) \in Nat /\ Len(X) \in Nat /\ DOMAIN W = 1..Len(W) /\ DOMAIN X = 1..Len(X)
      /\ DOMAIN V = 1..Len(V)
  BY <1>1
<1> HIDE DEF V
<1>3. ASSUME NEW i \in DOMAIN Q, Q[i].by = s PROVE i + k \in DOMAIN V /\ V[i + k] = Q[i]
  <2>1. i + k \in DOMAIN W /\ W[i + k] = Q[i]
    BY <1>3 DEF Shift
  <2> QED BY <2>1, <1>1, <1>2
<1>4. ASSUME NEW j \in DOMAIN V, V[j].by = s PROVE j - k \in DOMAIN Q /\ Q[j - k] = V[j]
  <2>1. j \in DOMAIN W
    BY <1>4, <1>1, <1>2 DEF Quiet
  <2>2. V[j] = W[j]
    BY <2>1, <1>1, <1>2
  <2> QED BY <2>1, <2>2, <1>4 DEF Shift
<1>5. Shift(s, Q, V, k)
  BY <1>3, <1>4 DEF Shift
<1> QED BY <1>5 DEF V

LEMMA ShiftNone ==
  ASSUME NEW Q \in Seq(CallSet), NEW s
  PROVE  Shift(s, Q, Q, 0)
<1>1. \A i \in DOMAIN Q : i + 0 = i /\ i - 0 = i
  OBVIOUS
<1> QED BY <1>1 DEF Shift

LEMMA ShiftPending ==
  ASSUME NEW Q \in Seq(CallSet), NEW W \in Seq(CallSet), NEW s, NEW k \in Int, Shift(s, Q, W, k)
  PROVE  /\ Quiet(s, Q) <=> Quiet(s, W)
         /\ \A o, n, a : Pending(s, o, n, a, Q) => Pending(s, o, n, a, W)
<1>1. \A o, n, a : Call(s, o, n, a).by = s
  BY CallFields
<1>2. \A i \in DOMAIN Q : Q[i].by = s => i + k \in DOMAIN W /\ W[i + k] = Q[i]
  BY DEF Shift
<1>3. \A j \in DOMAIN W : W[j].by = s => j - k \in DOMAIN Q /\ Q[j - k] = W[j]
  BY DEF Shift
<1>4. Quiet(s, Q) => Quiet(s, W)
  BY <1>3 DEF Quiet
<1>5. Quiet(s, W) => Quiet(s, Q)
  BY <1>2 DEF Quiet
<1>6. ASSUME NEW o, NEW n, NEW a, Pending(s, o, n, a, Q) PROVE Pending(s, o, n, a, W)
  <2>1. PICK i \in DOMAIN Q : Q[i] = Call(s, o, n, a)
    BY <1>6 DEF Pending
  <2>2. i + k \in DOMAIN W /\ W[i + k] = Q[i]
    BY <2>1, <1>1, <1>2
  <2> QED BY <2>1, <2>2 DEF Pending
<1> QED BY <1>4, <1>5, <1>6

\* What others do to the queue does not disturb a request.
LEMMA Frame ==
  ASSUME NEW Q \in Seq(CallSet), NEW W \in Seq(CallSet), NEW s, NEW q, NEW k \in Int,
         Shift(s, Q, W, k), ReqInv(s, q, Q)
  PROVE  ReqInv(s, q, W)
<1>1. \A i \in DOMAIN Q : Q[i].by = s => i + k \in DOMAIN W /\ W[i + k] = Q[i]
  BY DEF Shift
<1>2. \A j \in DOMAIN W : W[j].by = s => j - k \in DOMAIN Q /\ Q[j - k] = W[j]
  BY DEF Shift
<1>3. Quiet(s, Q) <=> Quiet(s, W)
  BY ShiftPending
<1>4. \A o, n, a : Pending(s, o, n, a, Q) => Pending(s, o, n, a, W)
  BY ShiftPending
<1>5. DOMAIN Q \subseteq Int /\ DOMAIN W \subseteq Int
  OBVIOUS
<1>6. FitsInv(s, q, W)
  BY <1>2 DEF ReqInv, FitsInv
<1>7. StageInv(s, q, W) /\ ShapeInv(s, q, W) /\ BodyInv(q)
  BY <1>3 DEF ReqInv, StageInv, ShapeInv
<1>8. EarlyInv(s, q, W)
  <2>1. ASSUME NEW i \in DOMAIN W, NEW j \in DOMAIN W,
               W[i].by = s /\ W[j].by = s /\ W[i].op = "components"
        PROVE  i = j
    <3>1. i - k \in DOMAIN Q /\ j - k \in DOMAIN Q /\ Q[i - k] = W[i] /\ Q[j - k] = W[j]
      BY <2>1, <1>2
    <3>2. i - k = j - k
      BY <3>1, <2>1 DEF ReqInv, EarlyInv
    <3> QED BY <3>2, <1>5
  <2>2. EarlyInv(s, q, Q)
    BY DEF ReqInv
  <2> QED BY <2>1, <2>2, <1>3 DEF EarlyInv
<1>9. SuccessInv(s, q, W)
  <2>1. SuccessInv(s, q, Q)
    BY DEF ReqInv
  <2> QED BY <2>1, <1>4 DEF SuccessInv, ValueInv, StoreInv
<1>10. ASSUME NEW n \in Nodes
       PROVE  /\ ResetFirst(s, n, Q) => ResetFirst(s, n, W)
              /\ ResetOver(s, n, Q) => ResetOver(s, n, W)
              /\ DisableFollows(s, n, Q) => DisableFollows(s, n, W)
  <2>1. ASSUME ResetFirst(s, n, Q), NEW i \in DOMAIN W, NEW j \in DOMAIN W,
                    W[i].by = s /\ W[i].node = n /\ W[i].op = "set" /\ W[i].arg = L,
                    W[j].by = s /\ W[j].node = n /\ W[j].op \in {"update", "disable"}
        PROVE  j < i
    <3>1. i - k \in DOMAIN Q /\ j - k \in DOMAIN Q /\ Q[i - k] = W[i] /\ Q[j - k] = W[j]
      BY <2>1, <1>2
    <3>2. j - k < i - k
      BY <3>1, <2>1 DEF ResetFirst
    <3> QED BY <3>2, <1>5
  <2>2. ResetOver(s, n, Q) => ResetOver(s, n, W)
    BY <1>2 DEF ResetOver
  <2>3. ASSUME DisableFollows(s, n, Q), NEW i \in DOMAIN W,
               W[i].by = s /\ W[i].node = n /\ W[i].op = "update"
        PROVE  \E j \in DOMAIN W : j > i /\ W[j] = Call(s, "disable", n, "Enabled")
    <3>1. i - k \in DOMAIN Q /\ Q[i - k] = W[i]
      BY <2>3, <1>2
    <3>2. PICK j \in DOMAIN Q : j > i - k /\ Q[j] = Call(s, "disable", n, "Enabled")
      BY <3>1, <2>3 DEF DisableFollows
    <3>3. Q[j].by = s
      BY <3>2, CallFields
    <3>4. j + k \in DOMAIN W /\ W[j + k] = Q[j] /\ j + k > i
      BY <3>2, <3>3, <1>1, <1>5
    <3> QED BY <3>2, <3>4
  <2> QED BY <2>1, <2>2, <2>3 DEF ResetFirst, DisableFollows
<1>11. OrderInv(s, q, W)
  <2>1. OrderInv(s, q, Q)
    BY DEF ReqInv
  <2> QED BY <2>1, <1>10 DEF OrderInv
<1> QED BY <1>6, <1>7, <1>8, <1>9, <1>11 DEF ReqInv

-----------------------------------------------------------------------------
(* The request that acts *)

\* What a request never changes once it has arrived.
Ident(q2, q) ==
  /\ q2.kind = q.kind /\ q2.name = q.name /\ q2.entries = q.entries /\ q2.base = q.base
  /\ q2.earlier = q.earlier

\* q2 is rec, its response sent if nothing in Q or among its lookups holds it.
Closes(q2, rec, r, Q) ==
  /\ q2 \in Request /\ q2.stage \in {"busy", "done"}
  /\ (q2.stage = "busy") <=> (rec.lookups # {} \/ ~Quiet(r, Q))
  /\ Ident(q2, rec)
  /\ q2.lookups = rec.lookups /\ q2.comps = rec.comps /\ q2.layout = rec.layout
  /\ q2.shape = rec.shape /\ q2.shown = rec.shown /\ q2.status = rec.status
  /\ q2.listed = rec.listed /\ q2.done = rec.done /\ q2.failed = rec.failed

After(r, rec, Q) == [rec EXCEPT !.stage = IF Waits(r, rec, Q) THEN "busy" ELSE "done"]

LEMMA AfterCloses ==
  ASSUME NEW rec \in Request, NEW r, NEW Q
  PROVE  Closes(After(r, rec, Q), rec, r, Q)
<1> DEFINE st == IF Waits(r, rec, Q) THEN "busy" ELSE "done"
           q2 == [rec EXCEPT !.stage = st]
<1>1. st \in {"busy", "done"} /\ ((st = "busy") <=> (rec.lookups # {} \/ ~Quiet(r, Q)))
  BY DEF Waits, Quiet
<1>2. After(r, rec, Q) = q2
  BY DEF After
<1> HIDE DEF st
<1>3. q2 \in Request
  BY <1>1 DEF Request
<1>4. /\ q2.stage = st /\ Ident(q2, rec)
      /\ q2.lookups = rec.lookups /\ q2.comps = rec.comps /\ q2.layout = rec.layout
      /\ q2.shape = rec.shape /\ q2.shown = rec.shown /\ q2.status = rec.status
      /\ q2.listed = rec.listed /\ q2.done = rec.done /\ q2.failed = rec.failed
  BY DEF Request, Ident
<1> HIDE DEF q2
<1> QED BY <1>1, <1>2, <1>3, <1>4 DEF Closes

LEMMA ContinueIs ==
  ASSUME NEW r \in Requests, NEW rec, NEW Q, Continue(r, rec, Q)
  PROVE  calls' = Q /\ req' = [req EXCEPT ![r] = After(r, rec, Q)]
BY DEF Continue, After

LEMMA AppendIs ==
  ASSUME NEW Q \in Seq(CallSet), NEW c \in CallSet
  PROVE  Append(Q, c) = Q \o <<c>> /\ <<c>> \in Seq(CallSet) /\ Append(Q, c) \in Seq(CallSet)
OBVIOUS

\* The questions to the mapper fit the kind of the request.
Asking(q) ==
  /\ "header" \in q.lookups => q.kind = "getAll"
  /\ "chassis" \in q.lookups => q.kind # "patchAll"
  /\ "path" \in q.lookups => q.kind = "patchAll"
  /\ \A l \in q.lookups \cap Main :
       DOMAIN q.comps = {} /\ \A m \in q.lookups \cap Main : m = l

\* A request of which no node was found, and no call is on its way.
LEMMA EarlyQuiet ==
  ASSUME NEW r, NEW rec, NEW Q, NEW q2, Closes(q2, rec, r, Q),
         Early(rec), BodyInv(rec), Asking(rec), Quiet(r, Q)
  PROVE  ReqInv(r, q2, Q)
<1>1. /\ q2.stage \in {"busy", "done"} /\ q2.lookups = rec.lookups /\ q2.listed = rec.listed
      /\ q2.kind = rec.kind /\ q2.done = rec.done /\ q2.shape = rec.shape /\ q2.comps = rec.comps
      /\ q2.stage = "busy" => q2.lookups # {}
      /\ q2.stage # "busy" => q2.lookups = {}
  BY DEF Closes, Ident
<1>2. Early(q2)
  BY <1>1 DEF Early
<1>3. FitsInv(r, q2, Q) /\ StageInv(r, q2, Q)
  BY <1>1 DEF FitsInv, StageInv, Quiet
<1>4. EarlyInv(r, q2, Q)
  BY <1>1, <1>2 DEF EarlyInv, Asking, Quiet
<1>5. BodyInv(q2)
  BY DEF BodyInv, Closes, Ident, Early
<1>6. ShapeInv(r, q2, Q) /\ SuccessInv(r, q2, Q)
  BY <1>2 DEF ShapeInv, SuccessInv, Early
<1>7. OrderInv(r, q2, Q)
  BY <1>2 DEF OrderInv, Early, Quiet, ResetFirst, ResetOver, DisableFollows
<1> QED BY <1>3, <1>4, <1>5, <1>6, <1>7 DEF ReqInv

\* The same while it asks for the components of d.
LEMMA EarlyAsks ==
  ASSUME NEW r \in Requests, NEW rec, NEW Q0 \in Seq(CallSet), NEW d \in Domains, NEW q2,
         Closes(q2, rec, r, Append(Q0, Call(r, "components", root, d))),
         Early(rec), BodyInv(rec), Asking(rec), Quiet(r, Q0), root \in Nodes,
         rec.lookups \cap Main = {}, DOMAIN rec.comps = Before(d)
  PROVE  ReqInv(r, q2, Append(Q0, Call(r, "components", root, d)))
<1> DEFINE c == Call(r, "components", root, d)
           Q == Append(Q0, c)
<1>1. c \in CallSet
  BY CallIn DEF Ops, Args
<1>2. c.by = r /\ c.op = "components" /\ c.node = root /\ c.arg = d
  BY CallFields
<1>0. Closes(q2, rec, r, Q)
  OBVIOUS
<1> HIDE DEF c
<1>3. /\ Q \in Seq(CallSet) /\ DOMAIN Q = 1..(Len(Q0) + 1) /\ Len(Q0) \in Nat
      /\ Q[Len(Q0) + 1] = c /\ \A i \in 1..Len(Q0) : i \in DOMAIN Q0 /\ Q[i] = Q0[i]
  BY <1>1
<1> HIDE DEF Q
<1>4. \A i \in DOMAIN Q : Q[i].by = r => i = Len(Q0) + 1 /\ Q[i] = c
  BY <1>3 DEF Quiet
<1>5. Len(Q0) + 1 \in DOMAIN Q /\ ~Quiet(r, Q)
  BY <1>2, <1>3 DEF Quiet
<1>6. /\ q2.stage = "busy" /\ q2.lookups = rec.lookups /\ q2.listed = rec.listed
      /\ q2.kind = rec.kind /\ q2.done = rec.done /\ q2.shape = rec.shape /\ q2.comps = rec.comps
  BY <1>0, <1>5 DEF Closes, Ident
<1>7. Early(q2)
  BY <1>6 DEF Early
<1>8. Fits(c, q2)
  BY <1>2, <1>6, <1>7 DEF Fits
<1>9. FitsInv(r, q2, Q) /\ StageInv(r, q2, Q)
  BY <1>4, <1>5, <1>6, <1>8 DEF FitsInv, StageInv
<1>10. EarlyInv(r, q2, Q)
  <2>1. \A i, j \in DOMAIN Q : Q[i].by = r /\ Q[j].by = r => i = j
    BY <1>4
  <2>2. q2.lookups \cap Main = {}
    BY <1>6
  <2> QED BY <1>6, <2>1, <2>2 DEF EarlyInv, Asking
<1>11. BodyInv(q2)
  BY <1>0 DEF BodyInv, Closes, Ident, Early
<1>12. ShapeInv(r, q2, Q) /\ SuccessInv(r, q2, Q)
  BY <1>7 DEF ShapeInv, SuccessInv, Early
<1>13. OrderInv(r, q2, Q)
  BY <1>7, <1>4, <1>2 DEF OrderInv, Early, ResetFirst, ResetOver, DisableFollows
<1>14. ReqInv(r, q2, Q)
  BY <1>9, <1>10, <1>11, <1>12, <1>13 DEF ReqInv
<1> QED BY <1>14 DEF Q, c

\* A GET that has found its nodes and reads them.
LEMMA ReadsSent ==
  ASSUME NEW r, NEW rec, NEW Q0 \in Seq(CallSet), NEW X \in Seq(CallSet), NEW q2,
         Closes(q2, rec, r, Q0 \o X), Quiet(r, Q0), ~Quiet(r, X),
         \A i \in DOMAIN X : X[i].by = r /\ X[i].op = "read" /\ X[i].arg \in Holders,
         rec.kind \in {"getAll", "getOne"}, rec.kind = "getOne" => rec.listed,
         rec.done = {}, rec.shape = "array", rec.lookups \cap Main = {}, Asking(rec)
  PROVE  ReqInv(r, q2, Q0 \o X)
<1> DEFINE Q == Q0 \o X
<1>0. Closes(q2, rec, r, Q)
  OBVIOUS
<1>1. Joins(Q, Q0, X)
  BY ConcatElem
<1>2. ~Quiet(r, Q)
  BY QuietConcat
<1> HIDE DEF Q
<1>3. \A i \in DOMAIN Q : Q[i].by = r => Q[i].op = "read" /\ Q[i].arg \in Holders
  BY <1>1 DEF Joins, Quiet
<1>4. /\ q2.stage = "busy" /\ q2.lookups = rec.lookups /\ q2.listed = rec.listed
      /\ q2.kind = rec.kind /\ q2.done = rec.done /\ q2.shape = rec.shape
  BY <1>0, <1>2 DEF Closes, Ident
<1>5. FitsInv(r, q2, Q) /\ StageInv(r, q2, Q)
  BY <1>2, <1>3, <1>4 DEF FitsInv, Fits, StageInv
<1>6. EarlyInv(r, q2, Q)
  <2>2. q2.lookups \cap Main = {}
    BY <1>4
  <2> QED BY <1>3, <1>4, <2>2 DEF EarlyInv, Asking
<1>7. BodyInv(q2)
  BY <1>4 DEF BodyInv
<1>8. ShapeInv(r, q2, Q)
  BY <1>2, <1>4 DEF ShapeInv
<1>9. SuccessInv(r, q2, Q)
  BY <1>4 DEF SuccessInv, TargetsOf, PatchOf
<1>10. OrderInv(r, q2, Q)
  BY <1>3, <1>4 DEF OrderInv, ResetFirst, ResetOver, DisableFollows
<1>11. ReqInv(r, q2, Q)
  BY <1>5, <1>6, <1>7, <1>8, <1>9, <1>10 DEF ReqInv
<1> QED BY <1>11 DEF Q

LEMMA SameTargets ==
  ASSUME NEW q2, NEW q, Ident(q2, q), q2.layout = q.layout, q2.listed = q.listed
  PROVE  TargetsOf(q2) = TargetsOf(q) /\ (BodyInv(q) => BodyInv(q2)) /\ (PatchOf(q2) <=> PatchOf(q))
BY DEF Ident, TargetsOf, PatchOf, BodyInv

LEMMA MadeFits ==
  ASSUME NEW c, NEW r, NEW n, NEW e, NEW q, Made(c, r, n, e), <<n, e>> \in TargetsOf(q)
  PROVE  Fits(c, q)
<1>1. <<n, e>>[1] = n /\ <<n, e>>[2] = e
  OBVIOUS
<1> DEFINE t == <<n, e>>
<1>2. t \in TargetsOf(q) /\ t[1] = n /\ t[2] = e
  BY <1>1
<1> HIDE DEF t
<1>3. c.op = "set" => c.arg \in LimitProps /\ Valued(q, c.node, c.arg)
  BY <1>2 DEF Made, Valued
<1>4. c.op = "update" => c.arg = "defaults" /\ Nulled(q, c.node)
  BY <1>2 DEF Made, Nulled
<1>5. c.op = "disable" => c.arg = "Enabled" /\ Nulled(q, c.node)
  BY <1>2 DEF Made, Nulled
<1>6. c.op = "storage" => c.arg = "PowerLimitStorage" /\ Stored(q, c.node)
  BY <1>2 DEF Made, Stored
<1>7. c.op \in {"set", "update", "disable", "storage"}
  BY DEF Made
<1> QED BY <1>3, <1>4, <1>5, <1>6, <1>7 DEF Fits

\* A PATCH that has found its nodes and sends the calls for its entries.
LEMMA PatchSent ==
  ASSUME NEW r, NEW rec, NEW Q0 \in Seq(CallSet), NEW F, NEW m, NEW list, NEW es, NEW q2,
         Sent(F, r, m, list, es), Closes(q2, rec, r, Q0 \o F), Quiet(r, Q0),
         rec.done = {}, rec.lookups = {}, rec.kind \in {"patchOne", "patchAll"}, BodyInv(rec),
         \A i \in 1..m : <<list[i], es[i]>> \in TargetsOf(rec),
         rec.status = "no_content" =>
           \A t \in TargetsOf(rec) : ~Bad(t[2]) /\ \E i \in 1..m : t[1] = list[i] /\ t[2] = es[i]
  PROVE  ReqInv(r, q2, Q0 \o F)
<1> DEFINE Q == Q0 \o F
<1>0. Closes(q2, rec, r, Q)
  OBVIOUS
<1>f. F \in Seq(CallSet)
  BY DEF Sent
<1>1. Joins(Q, Q0, F) /\ Q \in Seq(CallSet)
  BY <1>f, ConcatElem
<1>2. \A n \in Nodes : ResetFirst(r, n, Q) /\ DisableFollows(r, n, Q)
  <2> SUFFICES ASSUME NEW n \in Nodes PROVE ResetFirst(r, n, Q) /\ DisableFollows(r, n, Q)
    OBVIOUS
  <2>1. ResetFirst(r, n, Q0) /\ DisableFollows(r, n, Q0) /\ \A i \in DOMAIN Q0 : Q0[i].by = r => Q0[i].op # "set"
    BY DEF Quiet, ResetFirst, DisableFollows
  <2>2. ResetFirst(r, n, F) /\ DisableFollows(r, n, F)
    BY DEF Sent
  <2> QED BY <2>1, <2>2, <1>f, ResetFirstConcat, DisableConcat
<1>3. \A o, n, a : Pending(r, o, n, a, F) => Pending(r, o, n, a, Q)
  BY <1>1 DEF Joins, Pending
<1> HIDE DEF Q
<1>4. /\ q2.stage \in {"busy", "done"} /\ q2.lookups = {} /\ q2.listed = rec.listed
      /\ q2.kind = rec.kind /\ q2.done = {} /\ q2.status = rec.status
      /\ q2.layout = rec.layout /\ Ident(q2, rec)
      /\ (q2.stage = "busy") <=> ~Quiet(r, Q)
  BY <1>0 DEF Closes, Ident
<1>5. TargetsOf(q2) = TargetsOf(rec) /\ BodyInv(q2)
  BY <1>4, SameTargets
<1>6. \A k \in DOMAIN Q : Q[k].by = r =>
        \E i \in 1..m : Made(Q[k], r, list[i], es[i])
  BY <1>1 DEF Joins, Quiet, Sent
<1>7. FitsInv(r, q2, Q)
  <2> SUFFICES ASSUME NEW k \in DOMAIN Q, Q[k].by = r PROVE Fits(Q[k], q2)
    BY DEF FitsInv
  <2>1. PICK i \in 1..m : Made(Q[k], r, list[i], es[i])
    BY <1>6
  <2>2. <<list[i], es[i]>> \in TargetsOf(q2)
    BY <1>5
  <2> QED BY <2>1, <2>2, MadeFits
<1>8. StageInv(r, q2, Q)
  BY <1>4 DEF StageInv
<1>9. EarlyInv(r, q2, Q)
  <2>1. \A k \in DOMAIN Q : Q[k].by = r => Q[k].op # "components"
    BY <1>6 DEF Made
  <2> QED BY <2>1, <1>4 DEF EarlyInv
<1>10. ShapeInv(r, q2, Q)
  BY <1>4 DEF ShapeInv
<1>11. SuccessInv(r, q2, Q)
  <2> SUFFICES ASSUME q2.status = "no_content", NEW t \in TargetsOf(q2)
               PROVE  /\ ~Bad(t[2])
                      /\ \A p \in LimitProps : t[2].power[p] = "value" => ValueInv(r, q2, Q, t[1], p)
                      /\ t[2].oem = "value" => StoreInv(r, q2, Q, t[1])
    BY DEF SuccessInv
  <2>1. ~Bad(t[2]) /\ \E i \in 1..m : t[1] = list[i] /\ t[2] = es[i]
    BY <1>4, <1>5
  <2>2. PICK i \in 1..m : t[1] = list[i] /\ t[2] = es[i]
    BY <2>1
  <2>3. t[2].powerReads
    BY <2>1 DEF Bad
  <2>4. Carries(F, r, t[1], t[2])
    BY <2>2 DEF Sent
  <2>5. t[2].oem = "value" => Pending(r, "storage", t[1], "PowerLimitStorage", F)
    BY <2>2 DEF Sent
  <2> QED BY <2>1, <2>3, <2>4, <2>5, <1>3 DEF Carries, ValueInv, StoreInv
<1>12. OrderInv(r, q2, Q)
  BY <1>2, <1>4 DEF OrderInv
<1>13. ReqInv(r, q2, Q)
  BY <1>5, <1>7, <1>8, <1>9, <1>10, <1>11, <1>12 DEF ReqInv
<1> QED BY <1>13 DEF Q

\* q2 is q when its process has ended.
Lost(q2, q) ==
  /\ q2 \in Request /\ q2.stage = "lost" /\ q2.lookups = {} /\ Ident(q2, q)
  /\ q2.comps = q.comps /\ q2.layout = q.layout /\ q2.shape = q.shape /\ q2.shown = q.shown
  /\ q2.status = q.status /\ q2.listed = q.listed /\ q2.done = q.done /\ q2.failed = q.failed

LEMMA PrefixFacts ==
  ASSUME NEW Q \in Seq(CallSet), NEW m \in 0..Len(Q)
  PROVE  /\ SubSeq(Q, 1, m) \in Seq(CallSet)
         /\ \A i \in DOMAIN SubSeq(Q, 1, m) : i \in DOMAIN Q /\ SubSeq(Q, 1, m)[i] = Q[i]
OBVIOUS

LEMMA LostReq ==
  ASSUME NEW Q \in Seq(CallSet), NEW m \in 0..Len(Q), NEW s, NEW q, NEW q2,
         ReqInv(s, q, Q), Lost(q2, q)
  PROVE  ReqInv(s, q2, SubSeq(Q, 1, m))
<1> DEFINE W == SubSeq(Q, 1, m)
<1>1. W \in Seq(CallSet) /\ \A i \in DOMAIN W : i \in DOMAIN Q /\ W[i] = Q[i]
  BY PrefixFacts
<1> HIDE DEF W
<1>2. /\ q2.stage = "lost" /\ q2.lookups = {} /\ q2.listed = q.listed /\ q2.kind = q.kind
      /\ q2.done = q.done /\ q2.shape = q.shape /\ q2.comps = q.comps /\ q2.layout = q.layout
      /\ Ident(q2, q)
  BY DEF Lost, Ident
<1>3. TargetsOf(q2) = TargetsOf(q) /\ BodyInv(q2)
  BY <1>2, SameTargets DEF ReqInv
<1>4. \A i \in DOMAIN Q : Q[i].by = s => Fits(Q[i], q)
  BY DEF ReqInv, FitsInv
<1>5. ASSUME NEW c, Fits(c, q) PROVE Fits(c, q2)
  BY <1>2, <1>3, <1>5 DEF Fits, Early, Valued, Nulled, Stored
<1>6. FitsInv(s, q2, W)
  BY <1>1, <1>4, <1>5 DEF FitsInv
<1>7. StageInv(s, q2, W)
  BY <1>2 DEF StageInv
<1>8. EarlyInv(s, q2, W)
  <2>1. \A i, j \in DOMAIN Q : Q[i].by = s /\ Q[j].by = s /\ Q[i].op = "components" => i = j
    BY DEF ReqInv, EarlyInv
  <2> QED BY <2>1, <1>1, <1>2 DEF EarlyInv
<1>9. ShapeInv(s, q2, W)
  BY <1>1, <1>2 DEF ReqInv, ShapeInv, Quiet
<1>10. SuccessInv(s, q2, W)
  BY <1>2 DEF SuccessInv
<1>11. OrderInv(s, q2, W)
  <2>1. OrderInv(s, q, Q)
    BY DEF ReqInv
  <2> QED BY <2>1, <1>1, <1>2 DEF OrderInv, ResetFirst, ResetOver
<1> QED BY <1>3, <1>6, <1>7, <1>8, <1>9, <1>10, <1>11 DEF ReqInv, W

LEMMA PendingTail ==
  ASSUME NEW Q \in Seq(CallSet), Q # << >>, NEW r, NEW o, NEW n, NEW a, Pending(r, o, n, a, Q)
  PROVE  Head(Q) = Call(r, o, n, a) \/ Pending(r, o, n, a, Tail(Q))
<1>1. /\ Head(Q) = Q[1]
      /\ \A i \in DOMAIN Q : i = 1 \/ (i - 1 \in DOMAIN Tail(Q) /\ Tail(Q)[i - 1] = Q[i])
  BY TailFacts
<1> QED BY <1>1 DEF Pending

\* The answer to the call c of r at the head of the queue, unless it is about components.
\* X are the calls its callback makes.
Served(r, q, Q, X, rec, q2) ==
  /\ Q # << >> /\ Head(Q).by = r /\ Head(Q).op # "components"
  /\ \A i \in DOMAIN X : X[i].by = r /\ X[i].op = "enable" /\ Fits(X[i], rec)
  /\ Ident(rec, q) /\ rec.lookups = q.lookups /\ rec.comps = q.comps /\ rec.layout = q.layout
  /\ rec.listed = q.listed
  /\ \/ rec.done = q.done
     \/ rec.done = q.done \cup {<<Head(Q).node, Head(Q).op, Head(Q).arg>>}
  /\ Closes(q2, rec, r, Tail(Q) \o X)

\* What the answer leaves of the invariant of r, in the queue W.
ServedInv(r, q, q2, W) ==
  /\ FitsInv(r, q2, W) /\ StageInv(r, q2, W) /\ EarlyInv(r, q2, W) /\ BodyInv(q2)
  /\ OrderInv(r, q2, W) /\ TargetsOf(q2) = TargetsOf(q) /\ q2.stage # "lost"

LEMMA ServedReq ==
  ASSUME NEW Q \in Seq(CallSet), NEW X \in Seq(CallSet), NEW r, NEW q, NEW rec, NEW q2,
         ReqInv(r, q, Q), q.stage = "busy", Served(r, q, Q, X, rec, q2)
  PROVE  ServedInv(r, q, q2, Tail(Q) \o X)
<1> DEFINE c == Head(Q)
           T == Tail(Q)
           W == T \o X
<1>1. /\ Q # << >> /\ c.by = r /\ c.op # "components"
      /\ \A i \in DOMAIN X : X[i].by = r /\ X[i].op = "enable" /\ Fits(X[i], rec)
      /\ Ident(rec, q) /\ rec.lookups = q.lookups /\ rec.comps = q.comps /\ rec.layout = q.layout
      /\ rec.listed = q.listed
      /\ Closes(q2, rec, r, W)
  BY DEF Served
<1>d. rec.done = q.done \/ rec.done = q.done \cup {<<c.node, c.op, c.arg>>}
  BY DEF Served
<1>2. /\ T \in Seq(CallSet) /\ Len(Q) \in Nat /\ Len(Q) > 0 /\ c = Q[1] /\ 1 \in DOMAIN Q
      /\ \A i \in DOMAIN T : i + 1 \in DOMAIN Q /\ T[i] = Q[i + 1]
  BY <1>1, TailFacts
<1>o. ASSUME NEW n
      PROVE  /\ ResetFirst(r, n, Q) => ResetFirst(r, n, T)
             /\ ResetOver(r, n, Q) => ResetOver(r, n, T)
             /\ DisableFollows(r, n, Q) => DisableFollows(r, n, T)
             /\ ResetFirst(r, n, Q) /\ c.node = n /\ c.op = "set" /\ c.arg = L => ResetOver(r, n, Q)
  BY <1>1, TailOrder
<1>3. Joins(W, T, X) /\ W \in Seq(CallSet)
  BY <1>2, ConcatElem
<1>w. W = T \o X
  OBVIOUS
<1> HIDE DEF c, T, W
<1>4. /\ Ident(q2, q) /\ q2.lookups = q.lookups /\ q2.comps = q.comps /\ q2.layout = q.layout
      /\ q2.listed = q.listed /\ q2.kind = q.kind /\ q2.done = rec.done
      /\ q2.stage \in {"busy", "done"}
      /\ (q2.stage = "busy") <=> (q2.lookups # {} \/ ~Quiet(r, W))
  BY <1>1 DEF Closes, Ident
<1>5. TargetsOf(q2) = TargetsOf(q) /\ BodyInv(q2)
  BY <1>4, SameTargets DEF ReqInv
<1>6. \A i \in DOMAIN Q : Q[i].by = r => Q[i].op # "components"
  <2>1. \A i, j \in DOMAIN Q : Q[i].by = r /\ Q[j].by = r /\ Q[i].op = "components" => i = j
    BY DEF ReqInv, EarlyInv
  <2> QED BY <2>1, <1>1, <1>2
<1>7. q.lookups \cap Main = {}
  <2>1. \A l \in q.lookups \cap Main : Quiet(r, Q)
    BY DEF ReqInv, EarlyInv
  <2> QED BY <2>1, <1>1, <1>2 DEF Quiet
<1>8. \A i \in DOMAIN W : W[i].by = r =>
        \/ \E j \in DOMAIN Q : W[i] = Q[j]
        \/ \E j \in DOMAIN X : W[i] = X[j]
  BY <1>2, <1>3 DEF Joins
<1>9. FitsInv(r, q2, W)
  <2> SUFFICES ASSUME NEW i \in DOMAIN W, W[i].by = r PROVE Fits(W[i], q2)
    BY DEF FitsInv
  <2>1. \A t : t \in q.done => t \in q2.done
    BY <1>4, <1>d
  <2>2. CASE \E j \in DOMAIN Q : W[i] = Q[j]
    <3>1. Fits(W[i], q) /\ W[i].op # "components"
      BY <2>2, <1>6 DEF ReqInv, FitsInv
    <3> QED BY <3>1, <2>1, <1>4, <1>5 DEF Fits, Valued, Nulled, Stored
  <2>3. CASE \E j \in DOMAIN X : W[i] = X[j]
    <3>1. Fits(W[i], rec) /\ W[i].op = "enable"
      BY <2>3, <1>1
    <3>2. TargetsOf(rec) = TargetsOf(q)
      BY <1>1, SameTargets
    <3> QED BY <3>1, <3>2, <1>4, <1>5 DEF Fits, Valued
  <2> QED BY <2>2, <2>3, <1>8
<1>10. StageInv(r, q2, W)
  BY <1>4 DEF StageInv
<1>11. EarlyInv(r, q2, W)
  <2>1. \A i \in DOMAIN W : W[i].by = r => W[i].op # "components"
    BY <1>1, <1>6, <1>8
  <2>2. /\ "header" \in q.lookups => q.kind = "getAll"
        /\ "chassis" \in q.lookups => q.kind # "patchAll"
        /\ "path" \in q.lookups => q.kind = "patchAll"
    BY DEF ReqInv, EarlyInv
  <2> QED BY <2>1, <2>2, <1>4, <1>7 DEF EarlyInv
<1>12. OrderInv(r, q2, W)
  <2> SUFFICES ASSUME NEW n \in Nodes
               PROVE  /\ ResetFirst(r, n, W)
                      /\ <<n, "set", L>> \in q2.done => ResetOver(r, n, W)
                      /\ DisableFollows(r, n, W)
                      /\ <<n, "enable", L>> \in q2.done => <<n, "set", L>> \in q2.done
    BY DEF OrderInv
  <2>1. /\ ResetFirst(r, n, Q)
        /\ <<n, "set", L>> \in q.done => ResetOver(r, n, Q)
        /\ q.stage # "lost" => DisableFollows(r, n, Q)
        /\ <<n, "enable", L>> \in q.done => <<n, "set", L>> \in q.done
    BY DEF ReqInv, OrderInv
  <2>2. ResetFirst(r, n, X) /\ ResetOver(r, n, X) /\ DisableFollows(r, n, X)
    BY <1>1 DEF ResetFirst, ResetOver, DisableFollows
  <2>3. ResetFirst(r, n, W)
    BY <2>1, <2>2, <1>o, <1>2, <1>w, ResetFirstConcat
  <2>4. ResetOver(r, n, Q) => ResetOver(r, n, W)
    <3> SUFFICES ASSUME ResetOver(r, n, Q) PROVE ResetOver(r, n, W)
      OBVIOUS
    <3>1. ResetOver(r, n, T)
      BY <1>o
    <3> QED BY <3>1, <2>2, <1>3 DEF ResetOver, Joins
  <2>5. <<n, "set", L>> \in q2.done => ResetOver(r, n, W)
    <3> SUFFICES ASSUME <<n, "set", L>> \in q2.done PROVE ResetOver(r, n, Q)
      BY <2>4
    <3>1. CASE <<n, "set", L>> \in q.done
      BY <3>1, <2>1
    <3>2. CASE <<n, "set", L>> = <<c.node, c.op, c.arg>>
      BY <3>2, <2>1, <1>o
    <3> QED BY <3>1, <3>2, <1>4, <1>d
  <2>6. DisableFollows(r, n, W)
    <3>1. q.stage # "lost" => DisableFollows(r, n, T)
      BY <2>1, <1>o
    <3>2. q.stage # "lost"
      OBVIOUS
    <3> QED BY <3>1, <3>2, <2>2, <1>2, <1>w, DisableConcat
  <2>7. <<n, "enable", L>> \in q2.done => <<n, "set", L>> \in q2.done
    <3> SUFFICES ASSUME <<n, "enable", L>> \in q2.done PROVE <<n, "set", L>> \in q.done
      BY <1>4, <1>d
    <3>1. CASE <<n, "enable", L>> \in q.done
      BY <3>1, <2>1
    <3>2. CASE <<n, "enable", L>> = <<c.node, c.op, c.arg>>
      <4>1. Fits(c, q)
        BY <1>1, <1>2 DEF ReqInv, FitsInv
      <4> QED BY <3>2, <4>1 DEF Fits
    <3> QED BY <3>1, <3>2, <1>4, <1>d
  <2> QED BY <2>3, <2>5, <2>6, <2>7
<1>13. ServedInv(r, q, q2, W)
  BY <1>5, <1>4, <1>9, <1>10, <1>11, <1>12 DEF ServedInv
<1> QED BY <1>13 DEF W, T

\* The answer to a read.
LEMMA ServedRead ==
  ASSUME NEW Q \in Seq(CallSet), NEW r, NEW q \in Request, NEW rec, NEW q2,
         ReqInv(r, q, Q), q.stage = "busy", Served(r, q, Q, << >>, rec, q2), Head(Q).op = "read",
         q.shape = "array" => rec.shape = Shape(q, r, Tail(Q))
  PROVE  ReqInv(r, q2, Tail(Q) \o << >>)
<1> DEFINE T == Tail(Q)
           X == << >>
           W == T \o X
<1>1. X \in Seq(CallSet) /\ Quiet(r, X)
  BY DEF Quiet
<1>2. /\ Q # << >> /\ Head(Q).by = r /\ Ident(rec, q) /\ rec.listed = q.listed
      /\ Closes(q2, rec, r, W)
  BY DEF Served
<1>3. ServedInv(r, q, q2, W)
  <2> DEFINE G(x) == Served(r, q, Q, x, rec, q2)
  <2>1. G(X)
    OBVIOUS
  <2> HIDE DEF X
  <2>2. ServedInv(r, q, q2, Tail(Q) \o X)
    BY <2>1, <1>1, ServedReq
  <2> QED BY <2>2
<1>4. /\ T \in Seq(CallSet) /\ Head(Q) = Q[1] /\ 1 \in DOMAIN Q
      /\ \A i \in DOMAIN T : i + 1 \in DOMAIN Q /\ T[i] = Q[i + 1]
  BY <1>2, TailFacts
<1>5. Quiet(r, W) <=> Quiet(r, T)
  BY <1>1, <1>4, QuietConcat
<1>w. W = Tail(Q) \o << >>
  OBVIOUS
<1> HIDE DEF W
<1>6. Fits(Head(Q), q)
  BY <1>2, <1>4 DEF ReqInv, FitsInv
<1>7. q.kind \in {"getAll", "getOne"} /\ (q.kind = "getOne" => q.listed)
  BY <1>6 DEF Fits
<1>8. q2.kind = q.kind /\ q2.shape = rec.shape
  BY <1>2 DEF Closes, Ident
<1>9. SuccessInv(r, q2, W)
  BY <1>7, <1>8 DEF SuccessInv, TargetsOf, PatchOf
<1>10. ShapeInv(r, q2, W)
  <2> SUFFICES ASSUME q.kind = "getOne"
               PROVE  /\ q2.shape # "mixed"
                      /\ q2.shape = "node" => Quiet(r, T)
                      /\ q2.shape = "array" => ~Quiet(r, T)
    BY <1>5, <1>8 DEF ShapeInv
  <2>1. ~Quiet(r, Q)
    BY <1>2, <1>4 DEF Quiet
  <2>2. q.shape = "array"
    BY <2>1 DEF ReqInv, ShapeInv, Request
  <2>3. q2.shape = Shape(q, r, T)
    BY <2>2, <1>8
  <2> HIDE DEF T
  <2>4. CASE \E i \in DOMAIN T : T[i].by = r /\ T[i].arg \in Holders
    <3>1. q2.shape = "array"
      BY <2>2, <2>3, <2>4 DEF Shape
    <3> QED BY <3>1, <2>4 DEF Quiet
  <2>5. CASE ~\E i \in DOMAIN T : T[i].by = r /\ T[i].arg \in Holders
    <3>1. q2.shape = "node"
      BY <2>2, <2>3, <2>5 DEF Shape
    <3>2. \A i \in DOMAIN T : T[i].by = r => T[i].op \in Ops /\ T[i].op # "components" /\ Fits(T[i], q)
      <4> SUFFICES ASSUME NEW i \in DOMAIN T, T[i].by = r
                   PROVE  T[i].op \in Ops /\ T[i].op # "components" /\ Fits(T[i], q)
        OBVIOUS
      <4>1. i + 1 \in DOMAIN Q /\ T[i] = Q[i + 1]
        BY <1>4
      <4>2. T[i] \in CallSet
        BY <1>4
      <4>3. i + 1 # 1
        BY <1>4
      <4>4. T[i].op # "components"
        BY <4>1, <4>3, <1>2, <1>4 DEF ReqInv, EarlyInv
      <4> QED BY <4>1, <4>2, <4>4 DEF ReqInv, FitsInv, CallSet
    <3>3. TargetsOf(q) = {}
      BY <1>7 DEF TargetsOf, PatchOf
    <3>4. \A i \in DOMAIN T : T[i].by = r => T[i].op = "read"
      BY <3>2, <3>3 DEF Ops, Fits, Valued, Nulled, Stored
    <3>5. \A i \in DOMAIN T : T[i].by # r
      BY <3>2, <3>4, <2>5 DEF Fits
    <3> QED BY <3>1, <3>5 DEF Quiet
  <2> QED BY <2>4, <2>5
<1> QED BY <1>3, <1>9, <1>10, <1>w DEF ReqInv, ServedInv


\* The answer to a call that changes a policy: a refusal is in the status, and enabling
\* follows setting.
LEMMA ServedCall ==
  ASSUME NEW Q \in Seq(CallSet), NEW X \in Seq(CallSet), NEW r, NEW q \in Request, NEW rec, NEW q2,
         ReqInv(r, q, Q), q.stage = "busy", Served(r, q, Q, X, rec, q2), Modifies(Head(Q)),
         rec.status = "no_content" =>
           /\ q.status = "no_content"
           /\ Head(Q).op \in {"set", "storage", "enable"} =>
                <<Head(Q).node, Head(Q).op, Head(Q).arg>> \in rec.done
           /\ Head(Q).op = "set" => Pending(r, "enable", Head(Q).node, Head(Q).arg, X)
  PROVE  ReqInv(r, q2, Tail(Q) \o X) /\ PatchOf(q)
<1> DEFINE T == Tail(Q)
           W == T \o X
           c == Head(Q)
<1>1. /\ Q # << >> /\ c.by = r /\ Ident(rec, q) /\ rec.listed = q.listed
      /\ Closes(q2, rec, r, W)
      /\ q.done \subseteq rec.done
  BY DEF Served
<1>2. ServedInv(r, q, q2, W)
  BY ServedReq
<1>3. T \in Seq(CallSet) /\ c = Q[1] /\ 1 \in DOMAIN Q
  BY <1>1, TailFacts
<1>4. ASSUME NEW o, NEW n, NEW a, Pending(r, o, n, a, Q)
      PROVE  c = Call(r, o, n, a) \/ Pending(r, o, n, a, W)
  BY <1>1, <1>3, <1>4, PendingTail, PendingConcat
<1>5. ASSUME NEW o, NEW n, NEW a, Pending(r, o, n, a, X)
      PROVE  Pending(r, o, n, a, W)
  BY <1>3, <1>5, PendingConcat
<1>w. W = Tail(Q) \o X
  OBVIOUS
<1>6. Fits(c, q) /\ c.op \in {"set", "storage", "update", "disable", "enable"}
  BY <1>1, <1>3 DEF ReqInv, FitsInv, Modifies
<1>7. PatchOf(q)
  BY <1>6 DEF Fits, Valued, Nulled, Stored, TargetsOf
<1>8. /\ q2.kind = q.kind /\ q2.status = rec.status /\ q2.done = rec.done /\ q2.listed = q.listed
  BY <1>1 DEF Closes, Ident
<1>9. ShapeInv(r, q2, W)
  BY <1>7, <1>8 DEF ShapeInv, PatchOf
<1>10. SuccessInv(r, q2, W)
  <2> SUFFICES ASSUME q2.listed, q2.status = "no_content", NEW t \in TargetsOf(q)
               PROVE  /\ ~Bad(t[2])
                      /\ \A p \in LimitProps : t[2].power[p] = "value" => ValueInv(r, q2, W, t[1], p)
                      /\ t[2].oem = "value" => StoreInv(r, q2, W, t[1])
    BY <1>2 DEF SuccessInv, ServedInv
  <2>1. /\ q.status = "no_content"
        /\ c.op \in {"set", "storage", "enable"} => <<c.node, c.op, c.arg>> \in q2.done
        /\ c.op = "set" => Pending(r, "enable", c.node, c.arg, W)
    BY <1>5, <1>8
  <2>2. q.listed /\ q.stage # "lost"
    BY <1>8
  <2>3. /\ ~Bad(t[2])
        /\ \A p \in LimitProps : t[2].power[p] = "value" => ValueInv(r, q, Q, t[1], p)
        /\ t[2].oem = "value" => StoreInv(r, q, Q, t[1])
    BY <2>1, <2>2 DEF ReqInv, SuccessInv
  <2>s. \A x : x \in q.done => x \in q2.done
    BY <1>1, <1>8
  <2> HIDE DEF c, W
  <2>4. ASSUME NEW p \in LimitProps, ValueInv(r, q, Q, t[1], p) PROVE ValueInv(r, q2, W, t[1], p)
    <3>1. CASE Pending(r, "set", t[1], p, Q)
      <4>1. CASE c = Call(r, "set", t[1], p)
        <5>1. c.op = "set" /\ c.node = t[1] /\ c.arg = p
          BY <4>1, CallFields
        <5> QED BY <5>1, <2>1 DEF ValueInv
      <4> QED BY <3>1, <4>1, <1>4 DEF ValueInv
    <3>2. CASE <<t[1], "set", p>> \in q.done /\ Pending(r, "enable", t[1], p, Q)
      <4>1. CASE c = Call(r, "enable", t[1], p)
        <5>1. c.op = "enable" /\ c.node = t[1] /\ c.arg = p
          BY <4>1, CallFields
        <5> QED BY <5>1, <2>1, <2>s, <3>2 DEF ValueInv
      <4> QED BY <3>2, <4>1, <1>4, <2>s DEF ValueInv
    <3>3. CASE <<t[1], "set", p>> \in q.done /\ <<t[1], "enable", p>> \in q.done
      BY <3>3, <2>s DEF ValueInv
    <3> QED BY <2>4, <3>1, <3>2, <3>3 DEF ValueInv
  <2>5. ASSUME StoreInv(r, q, Q, t[1]) PROVE StoreInv(r, q2, W, t[1])
    <3>1. CASE Pending(r, "storage", t[1], "PowerLimitStorage", Q)
      <4>1. CASE c = Call(r, "storage", t[1], "PowerLimitStorage")
        <5>1. c.op = "storage" /\ c.node = t[1] /\ c.arg = "PowerLimitStorage"
          BY <4>1, CallFields
        <5> QED BY <5>1, <2>1 DEF StoreInv
      <4> QED BY <3>1, <4>1, <1>4 DEF StoreInv
    <3> QED BY <2>5, <3>1, <2>s DEF StoreInv
  <2> QED BY <2>3, <2>4, <2>5
<1> QED BY <1>2, <1>7, <1>9, <1>10, <1>w DEF ReqInv, ServedInv

-----------------------------------------------------------------------------
(* A step, for all requests *)

GivesOf(q, n) == \E e \in Entries : <<n, e>> \in TargetsOf(q) /\ e.power[L] = "value"
ResetsOf(q, n) == \E e \in Entries : <<n, e>> \in TargetsOf(q) /\ \E p \in LimitProps : e.power[p] = "null"
ReasonOf(n, x, R, Q, O) ==
  \E s \in Requests \ {x} :
    /\ ResetsOf(R[s], n)
    /\ \/ <<x, s>> \in O \/ Pending(s, "disable", n, "Enabled", Q)
       \/ <<n, "disable", "Enabled">> \in R[s].failed \/ R[s].stage = "lost"
BusyOf(s, R, Q) == R[s].stage = "busy" \/ ~Quiet(s, Q)
ExcuseOf(x, R) == \E s \in Requests \ {x} : s \notin R[x].earlier /\ TargetsOf(R[s]) # {}

LEMMA TargetsIs ==
  ASSUME NEW s
  PROVE  Targets(s) = TargetsOf(req[s]) /\ Targets(s)' = TargetsOf(req'[s])
BY DEF Targets, TargetsOf, Patch, PatchOf

LEMMA GivesIs ==
  ASSUME NEW s, NEW n
  PROVE  /\ GivesLimit(s, n) <=> GivesOf(req[s], n)
         /\ GivesLimit(s, n)' <=> GivesOf(req'[s], n)
         /\ Resets(s, n) <=> ResetsOf(req[s], n)
         /\ Resets(s, n)' <=> ResetsOf(req'[s], n)
BY TargetsIs DEF GivesLimit, GivesOf, Resets, ResetsOf, L

LEMMA ReasonIs ==
  ASSUME NEW x, NEW n
  PROVE  /\ Reason(n, x) <=> ReasonOf(n, x, req, calls, overlap)
         /\ Reason(n, x)' <=> ReasonOf(n, x, req', calls', overlap')
BY GivesIs DEF Reason, ReasonOf, Pending

LEMMA BusyIs ==
  ASSUME NEW s
  PROVE  (Busy(s) <=> BusyOf(s, req, calls)) /\ (Busy(s)' <=> BusyOf(s, req', calls'))
BY DEF Busy, BusyOf, Quiet

LEMMA ExcuseIs ==
  ASSUME NEW x
  PROVE  (Excuse(x) <=> ExcuseOf(x, req)) /\ (Excuse(x)' <=> ExcuseOf(x, req'))
<1>1. \A s : Patch(s) /\ Targets(s) # {} <=> TargetsOf(req[s]) # {}
  BY DEF Targets, TargetsOf, Patch, PatchOf
<1>2. \A s : Patch(s)' /\ Targets(s)' # {} <=> TargetsOf(req'[s]) # {}
  BY DEF Targets, TargetsOf, Patch, PatchOf
<1> QED BY <1>1, <1>2 DEF Excuse, ExcuseOf

\* What the request may become in a step that does not carry out a call of it.
Grows(q, q2) ==
  /\ q2.done = q.done /\ (TargetsOf(q) # {} => q.failed \subseteq q2.failed)
  /\ TargetsOf(q) \subseteq TargetsOf(q2) /\ (q.done # {} => TargetsOf(q2) = TargetsOf(q))
  /\ q.done # {} => q2.earlier = q.earlier
  /\ q.stage = "lost" => q2.stage = "lost"

\* A limit is the default for the reasons it was before.
LEMMA KeptNeutral ==
  ASSUME KeptInv, policy' = policy, present' = present, changes' = changes,
         overlap \subseteq overlap',
         \A s \in Requests : Grows(req[s], req'[s]),
         \A s \in Requests : Busy(s)' /\ req[s].done # {} => Busy(s),
         \A s \in Requests, n \in Nodes : Pending(s, "disable", n, "Enabled", calls) =>
           \/ Pending(s, "disable", n, "Enabled", calls')
           \/ <<n, "disable", "Enabled">> \in req'[s].failed \/ req'[s].stage = "lost"
  PROVE  KeptInv'
<1> SUFFICES ASSUME changes' < 2, NEW n \in Nodes, NEW x \in Requests,
                    policy'[n].limit = Default, GivesLimit(x, n)', <<n, "set", L>> \in req'[x].done,
                    policy'[n].enabled = x \/ (Busy(x)' /\ Exists(n)')
             PROVE  ReasonOf(n, x, req', calls', overlap')
  BY ReasonIs DEF KeptInv
<1>1. req[x].done # {} /\ <<n, "set", L>> \in req[x].done
  BY DEF Grows
<1>2. TargetsOf(req'[x]) = TargetsOf(req[x])
  BY <1>1 DEF Grows
<1>3. GivesLimit(x, n)
  BY <1>2, GivesIs DEF GivesOf
<1>4. policy[n].enabled = x \/ (Busy(x) /\ Exists(n))
  BY <1>1 DEF Exists
<1>5. Reason(n, x)
  BY <1>1, <1>3, <1>4 DEF KeptInv
<1>6. PICK s \in Requests \ {x} :
        /\ ResetsOf(req[s], n)
        /\ \/ <<x, s>> \in overlap \/ Pending(s, "disable", n, "Enabled", calls)
           \/ <<n, "disable", "Enabled">> \in req[s].failed \/ req[s].stage = "lost"
  BY <1>5, ReasonIs DEF ReasonOf
<1>7. ResetsOf(req'[s], n)
  BY <1>6 DEF ResetsOf, Grows
<1>8. \/ <<x, s>> \in overlap' \/ Pending(s, "disable", n, "Enabled", calls')
      \/ <<n, "disable", "Enabled">> \in req'[s].failed \/ req'[s].stage = "lost"
  <2>1. TargetsOf(req[s]) # {}
    BY <1>6 DEF ResetsOf
  <2> QED BY <1>6, <2>1 DEF Grows
<1> QED BY <1>7, <1>8 DEF ReasonOf

\* What a PATCH did stays: the first part of StaysInv.
Stays1 ==
  changes = 0 =>
    \A r \in Requests, n \in Nodes :
      GivesLimit(r, n) /\ ~Excuse(r) =>
        /\ <<n, "set", L>> \in req[r].done => policy[n].limit = r
        /\ <<n, "enable", L>> \in req[r].done => policy[n].enabled # Default

LEMMA StaysNeutral ==
  ASSUME StaysInv, policy' = policy, changes' = changes,
         \A s \in Requests : Grows(req[s], req'[s])
  PROVE  Stays1'
<1> SUFFICES ASSUME changes' = 0, NEW x \in Requests, NEW n \in Nodes,
                    GivesLimit(x, n)', ~Excuse(x)', req'[x].done # {}
             PROVE  /\ <<n, "set", L>> \in req'[x].done => policy'[n].limit = x
                    /\ <<n, "enable", L>> \in req'[x].done => policy'[n].enabled # Default
  BY DEF Stays1
<1>1. req'[x].done = req[x].done /\ TargetsOf(req'[x]) = TargetsOf(req[x])
      /\ req'[x].earlier = req[x].earlier
  BY DEF Grows
<1>2. GivesLimit(x, n)
  BY <1>1, GivesIs DEF GivesOf
<1>3. ~ExcuseOf(x, req)
  BY <1>1, ExcuseIs DEF ExcuseOf, Grows
<1>4. ~Excuse(x)
  BY <1>3, ExcuseIs
<1> QED BY <1>1, <1>2, <1>4 DEF StaysInv

\* A PATCH that succeeded has enabled the limit, and a GET that reads it shows it.
LEMMA SuccessShown ==
  ASSUME IInv, changes = 0, NEW x \in Requests, NEW n \in Nodes, Succeeded(x), GivesLimit(x, n), ~Excuse(x)
  PROVE  getPowerLimit(n) = x
<1>1. PICK e \in Entries : <<n, e>> \in TargetsOf(req[x]) /\ e.power[L] = "value"
  BY GivesIs DEF GivesOf
<1> DEFINE t == <<n, e>>
<1>2. t \in TargetsOf(req[x]) /\ t[1] = n /\ t[2].power[L] = "value"
  BY <1>1
<1> HIDE DEF t
<1>3. req[x].listed
  BY <1>2 DEF TargetsOf
<1>4. req[x].status = "no_content" /\ req[x].stage = "done"
  BY DEF Succeeded
<1>5. ReqInv(x, req[x], calls)
  BY DEF IInv
<1>6. Quiet(x, calls)
  BY <1>4, <1>5 DEF ReqInv, StageInv
<1>7. L \in LimitProps
  BY DEF L, LimitProps
<1>8. ValueInv(x, req[x], calls, n, L)
  BY <1>2, <1>3, <1>4, <1>5, <1>7 DEF ReqInv, SuccessInv
<1>9. ~Pending(x, "set", n, L, calls) /\ ~Pending(x, "enable", n, L, calls)
  BY <1>6, CallFields DEF Pending, Quiet
<1>10. <<n, "set", L>> \in req[x].done /\ <<n, "enable", L>> \in req[x].done
  BY <1>8, <1>9 DEF ValueInv
<1>11. policy[n].limit = x /\ policy[n].enabled # Default
  BY <1>10 DEF IInv, StaysInv
<1> QED BY <1>11 DEF getPowerLimit

\* What a GET shows: the second part of StaysInv.
Stays2 ==
  changes = 0 =>
    \A g, r \in Requests : r \in req[g].earlier /\ Succeeded(r) /\ ~Excuse(r) =>
      \A n \in DOMAIN req[g].shown : GivesLimit(r, n) => req[g].shown[n] = r

Sees(q, q2) ==
  /\ q.stage = "done" => q2 = q
  /\ TargetsOf(q) \subseteq TargetsOf(q2)
  /\ q2.earlier = q.earlier \/ DOMAIN q2.shown = {}
  /\ \A n \in DOMAIN q2.shown :
       \/ n \in DOMAIN q.shown /\ q2.shown[n] = q.shown[n]
       \/ n \in Nodes /\ q2.shown[n] = getPowerLimit(n)

LEMMA SeenStep ==
  ASSUME IInv, changes' = changes, \A s \in Requests : Sees(req[s], req'[s])
  PROVE  Stays2'
<1> SUFFICES ASSUME changes' = 0, NEW g \in Requests, NEW x \in Requests,
                    x \in req'[g].earlier, Succeeded(x)', ~Excuse(x)',
                    NEW n \in DOMAIN req'[g].shown, GivesLimit(x, n)'
             PROVE  req'[g].shown[n] = x
  BY DEF Stays2
<1>1. x \in req[g].earlier
  BY DEF Sees
<1>2. req[x].stage = "done"
  BY <1>1 DEF IInv, EarlierInv
<1>3. req'[x] = req[x]
  BY <1>2 DEF Sees
<1>4. GivesLimit(x, n) /\ Succeeded(x)
  BY <1>3, GivesIs DEF Succeeded
<1>5. ~ExcuseOf(x, req)
  BY <1>3, ExcuseIs DEF ExcuseOf, Sees
<1>6. ~Excuse(x)
  BY <1>5, ExcuseIs
<1>7. CASE n \in DOMAIN req[g].shown /\ req'[g].shown[n] = req[g].shown[n]
  BY <1>1, <1>4, <1>6, <1>7 DEF IInv, StaysInv
<1>8. CASE n \in Nodes /\ req'[g].shown[n] = getPowerLimit(n)
  BY <1>4, <1>6, <1>8, SuccessShown
<1> QED BY <1>7, <1>8 DEF Sees

LEMMA StaysSplit == (StaysInv' <=> Stays1' /\ Stays2')
BY DEF StaysInv, Stays1, Stays2

SameOf(q, t) ==
  /\ \A d \in DOMAIN q.comps : q.comps[d] = t[d]
  /\ q.kind = "getAll" => q.layout = <<>> \/ q.layout = buildDomainPolicyMap(t)
  /\ q.kind = "patchAll" => q.base = buildDomainPolicyMap(t) /\ (q.listed => q.layout = q.base)
  /\ \A w \in q.done : w[1] \in NodesOf(t)

LEMMA SameIs ==
  /\ SameInv <=> (changes = 0 => ~crashed /\ \A s \in Requests : SameOf(req[s], present))
  /\ SameInv' <=> (changes' = 0 => ~crashed' /\ \A s \in Requests : SameOf(req'[s], present'))
BY DEF SameInv, SameOf, Exists

\* A step in which r becomes q2 and the queue W; the calls of the others stay in it.
Turn(r, q2, W) ==
  /\ r \in Requests /\ req[r].stage = "busy"
  /\ req' = [req EXCEPT ![r] = q2] /\ calls' = W /\ W \in Seq(CallSet)
  /\ q2 \in Request /\ q2.stage \in {"busy", "done"} /\ Ident(q2, req[r]) /\ ReqInv(r, q2, W)
  /\ \A s \in Requests \ {r} : \E k \in Int : Shift(s, calls, W, k)

\* What a turn of r preserves, whatever it does to the policies.
Turned(r, q2) ==
  /\ req' \in [Requests -> Request] /\ calls' \in Seq(CallSet)
  /\ \A s \in Requests : ReqInv(s, req'[s], calls')
  /\ EarlierInv' /\ OverlapInv'
  /\ req'[r] = q2 /\ \A s \in Requests \ {r} : req'[s] = req[s]
  /\ \A s \in Requests : Busy(s)' => Busy(s)
  /\ \A s \in Requests \ {r} : \A o, n, a : Pending(s, o, n, a, calls) => Pending(s, o, n, a, calls')

LEMMA TurnReq ==
  ASSUME IInv, NEW r, NEW q2, NEW W, Turn(r, q2, W), overlap' = overlap
  PROVE  Turned(r, q2)
<1>1. /\ r \in Requests /\ req[r].stage = "busy" /\ req' = [req EXCEPT ![r] = q2]
      /\ calls' = W /\ W \in Seq(CallSet) /\ q2 \in Request
      /\ Ident(q2, req[r]) /\ ReqInv(r, q2, W)
      /\ \A s \in Requests \ {r} : \E k \in Int : Shift(s, calls, W, k)
  BY DEF Turn
<1>2. req \in [Requests -> Request] /\ calls \in Seq(CallSet)
  BY DEF IInv, TypeInv
<1>3. req' \in [Requests -> Request] /\ req'[r] = q2 /\ \A s \in Requests \ {r} : req'[s] = req[s]
  BY <1>1, <1>2
<1>4. ASSUME NEW s \in Requests \ {r}
      PROVE  /\ ReqInv(s, req[s], W) /\ (Quiet(s, calls) <=> Quiet(s, W))
             /\ \A o, n, a : Pending(s, o, n, a, calls) => Pending(s, o, n, a, W)
  <2>1. PICK k \in Int : Shift(s, calls, W, k)
    BY <1>1
  <2>2. ReqInv(s, req[s], calls)
    BY DEF IInv
  <2> QED BY <2>1, <2>2, <1>1, <1>2, Frame, ShiftPending
<1>5. \A s \in Requests : ReqInv(s, req'[s], calls')
  BY <1>1, <1>3, <1>4
<1>6. EarlierInv'
  <2> SUFFICES ASSUME NEW x \in Requests, NEW s \in Requests, s \in req'[x].earlier
               PROVE  req'[s].stage = "done"
    BY DEF EarlierInv
  <2>1. s \in req[x].earlier
    BY <1>1, <1>3 DEF Ident
  <2>2. req[s].stage = "done"
    BY <2>1 DEF IInv, EarlierInv
  <2> QED BY <2>2, <1>1, <1>3
<1>7. ASSUME NEW s \in Requests, Busy(s)' PROVE Busy(s)
  <2>1. CASE s = r
    BY <2>1, <1>1 DEF Busy
  <2>2. CASE s # r
    <3>1. BusyOf(s, req', W)
      BY <1>7, <1>1, BusyIs
    <3>2. BusyOf(s, req, calls)
      BY <3>1, <2>2, <1>3, <1>4 DEF BusyOf
    <3> QED BY <3>2, BusyIs
  <2> QED BY <2>1, <2>2
<1>8. OverlapInv'
  BY <1>7 DEF IInv, OverlapInv
<1> QED BY <1>1, <1>3, <1>4, <1>5, <1>6, <1>7, <1>8 DEF Turned

\* No call of r that disables a policy is forgotten.
DisablesKept(r, q2, W) ==
  \A n \in Nodes : Pending(r, "disable", n, "Enabled", calls) =>
    Pending(r, "disable", n, "Enabled", W) \/ <<n, "disable", "Enabled">> \in q2.failed

\* A turn in which the service does nothing.
LEMMA TurnNeutral ==
  ASSUME IInv, NEW r, NEW q2, NEW W, Turn(r, q2, W),
         UNCHANGED <<present, policy, crashed, changes, overlap>>,
         faults' \in Nat /\ faults' + changes <= MaxFaults,
         Grows(req[r], q2), Sees(req[r], q2), DisablesKept(r, q2, W),
         changes = 0 /\ SameOf(req[r], present) => SameOf(q2, present)
  PROVE  IInv'
<1>1. Turned(r, q2)
  BY TurnReq
<1>2. r \in Requests /\ calls' = W
  BY DEF Turn
<1>3. req'[r] = q2 /\ \A s \in Requests \ {r} : req'[s] = req[s]
  BY <1>1 DEF Turned
<1>4. TypeInv'
  BY <1>1 DEF IInv, TypeInv, Turned
<1>5. \A s \in Requests : Grows(req[s], req'[s])
  BY <1>3 DEF Grows
<1>6. \A s \in Requests : Sees(req[s], req'[s])
  <2>1. \A s \in Requests \ {r} : Sees(req[s], req'[s])
    BY <1>3 DEF Sees
  <2> QED BY <2>1, <1>3
<1>7. SameInv'
  BY <1>3, SameIs DEF IInv
<1>8. KeptInv'
  <2>1. \A s \in Requests, n \in Nodes : Pending(s, "disable", n, "Enabled", calls) =>
           \/ Pending(s, "disable", n, "Enabled", calls')
           \/ <<n, "disable", "Enabled">> \in req'[s].failed \/ req'[s].stage = "lost"
    BY <1>1, <1>2, <1>3 DEF Turned, DisablesKept
  <2>2. \A s \in Requests : Busy(s)' => Busy(s)
    BY <1>1 DEF Turned
  <2>3. KeptInv
    BY DEF IInv
  <2> QED BY <2>1, <2>2, <2>3, <1>5, KeptNeutral
<1>9. StaysInv'
  <2>1. StaysInv
    BY DEF IInv
  <2> QED BY <2>1, <1>5, <1>6, StaysNeutral, SeenStep, StaysSplit
<1>10. (\A s \in Requests : ReqInv(s, req[s], calls))'
  BY <1>1 DEF Turned
<1> QED BY <1>1, <1>4, <1>7, <1>8, <1>9, <1>10 DEF IInv, Turned

-----------------------------------------------------------------------------
(* The answers of the mapper *)

\* rec is q but for its questions, its status and its stage.
Same(rec, q) ==
  /\ rec \in Request /\ Ident(rec, q)
  /\ rec.comps = q.comps /\ rec.layout = q.layout /\ rec.shape = q.shape /\ rec.shown = q.shown
  /\ rec.listed = q.listed /\ rec.done = q.done /\ rec.failed = q.failed

LEMMA SameRefl ==
  ASSUME NEW q \in Request
  PROVE  Same(q, q)
BY DEF Same, Ident

LEMMA AskedIs ==
  ASSUME NEW q \in Request, NEW l, NEW next \in SUBSET Lookups
  PROVE  /\ Same(Asked(q, l, next), q) /\ Asked(q, l, next).lookups = (q.lookups \ {l}) \cup next
         /\ Asked(q, l, next).status = q.status
<1> DEFINE M == (q.lookups \ {l}) \cup next
           q2 == [q EXCEPT !.lookups = M]
<1>1. M \in SUBSET Lookups
  BY DEF Request
<1>2. Asked(q, l, next) = q2
  BY DEF Asked
<1> HIDE DEF M
<1>3. q2 \in Request
  BY <1>1 DEF Request
<1>4. /\ q2.lookups = M /\ q2.status = q.status /\ Ident(q2, q)
      /\ q2.comps = q.comps /\ q2.layout = q.layout /\ q2.shape = q.shape /\ q2.shown = q.shown
      /\ q2.listed = q.listed /\ q2.done = q.done /\ q2.failed = q.failed
  BY DEF Request, Ident
<1> HIDE DEF q2
<1> QED BY <1>2, <1>3, <1>4 DEF Same, M

LEMMA StatusIs ==
  ASSUME NEW q \in Request, NEW st \in Statuses
  PROVE  /\ Same(Status(q, st), q) /\ Status(q, st).lookups = q.lookups
         /\ Status(q, st).status = st
<1> DEFINE q2 == [q EXCEPT !.status = st]
<1>2. Status(q, st) = q2
  BY DEF Status
<1>3. q2 \in Request
  BY DEF Request
<1>4. /\ q2.lookups = q.lookups /\ q2.status = st /\ Ident(q2, q)
      /\ q2.comps = q.comps /\ q2.layout = q.layout /\ q2.shape = q.shape /\ q2.shown = q.shown
      /\ q2.listed = q.listed /\ q2.done = q.done /\ q2.failed = q.failed
  BY DEF Request, Ident
<1> HIDE DEF q2
<1> QED BY <1>2, <1>3, <1>4 DEF Same

LEMMA SameTrans ==
  ASSUME NEW a, NEW b, NEW c, Same(a, b), Same(b, c)
  PROVE  Same(a, c)
BY DEF Same, Ident

LEMMA ErrorIs ==
  ASSUME NEW q \in Request
  PROVE  Same(componentsError(q), q) /\ componentsError(q).lookups = q.lookups
<1>1. "serviceInUnknownState" \in Statuses
  BY DEF Statuses
<1>2. componentsError(q) = q \/ componentsError(q) = Status(q, "serviceInUnknownState")
  BY DEF componentsError
<1> QED BY <1>1, <1>2, SameRefl, StatusIs

LEMMA ConcatNone ==
  ASSUME NEW S, NEW a \in Seq(S)
  PROVE  a \o << >> = a /\ << >> \in Seq(S) /\ DOMAIN << >> = {}
OBVIOUS

LEMMA BeforeIs ==
  /\ Before(cpuDomainId) = {} /\ Before(memoryDomainId) = {cpuDomainId}
  /\ Before(pcieDomainId) = {cpuDomainId, memoryDomainId}
BY DEF Before, cpuDomainId, memoryDomainId, pcieDomainId

LEMMA RootNode == root \in Nodes \/ Topologies = {}
BY DEF Nodes, NodesOf

\* The calls of the others stay in the queue when r's call is answered and r makes new ones.
LEMMA OthersShift ==
  ASSUME NEW Q \in Seq(CallSet), NEW r, NEW T, NEW X \in Seq(CallSet),
         T = Q \/ (Q # << >> /\ Head(Q).by = r /\ T = Tail(Q)),
         \A i \in DOMAIN X : X[i].by = r
  PROVE  /\ T \in Seq(CallSet) /\ T \o X \in Seq(CallSet)
         /\ \A s \in Requests \ {r} : \E k \in Int : Shift(s, Q, T \o X, k)
<1>1. T \in Seq(CallSet)
  BY TailFacts
<1>2. T \o X \in Seq(CallSet)
  BY <1>1, ConcatElem
<1>3. ASSUME NEW s \in Requests \ {r} PROVE \E k \in Int : Shift(s, Q, T \o X, k)
  <2>1. Quiet(s, X)
    BY DEF Quiet
  <2>2. \E k \in Int : Shift(s, Q, T, k)
    <3>1. CASE T = Q
      BY <3>1, ShiftNone
    <3>2. CASE Q # << >> /\ Head(Q).by = r /\ T = Tail(Q)
      <4>1. Shift(s, Q, T, -1)
        BY <3>2, ShiftTail
      <4> QED BY <4>1
    <3> QED BY <3>1, <3>2
  <2>3. PICK k \in Int : Shift(s, Q, T, k)
    BY <2>2
  <2>4. Shift(s, Q, T \o X, k)
    BY <2>1, <2>3, <1>1, ShiftConcat
  <2> QED BY <2>4
<1> QED BY <1>1, <1>2, <1>3

LEMMA CloseTurn ==
  ASSUME IInv, NEW r \in Requests, req[r].stage = "busy", NEW rec \in Request, NEW W \in Seq(CallSet),
         \A s \in Requests \ {r} : \E k \in Int : Shift(s, calls, W, k),
         Continue(r, rec, W), Ident(rec, req[r]), ReqInv(r, After(r, rec, W), W)
  PROVE  Turn(r, After(r, rec, W), W)
<1> DEFINE q2 == After(r, rec, W)
<1>1. Closes(q2, rec, r, W)
  BY AfterCloses
<1>2. calls' = W /\ req' = [req EXCEPT ![r] = q2]
  BY ContinueIs
<1> HIDE DEF q2
<1>3. Ident(q2, req[r])
  BY <1>1 DEF Closes, Ident
<1>4. ReqInv(r, q2, W)
  BY DEF q2
<1>5. Turn(r, q2, W)
  BY <1>1, <1>2, <1>3, <1>4 DEF Turn, Closes
<1> QED BY <1>5 DEF q2

\* A request that only asks, or ends.
LEMMA SameNeutral ==
  ASSUME NEW q, NEW rec, NEW q2, NEW r, NEW W, Same(rec, q), Closes(q2, rec, r, W), q.stage = "busy"
  PROVE  /\ Grows(q, q2) /\ Sees(q, q2) /\ (SameOf(q, present) => SameOf(q2, present))
         /\ q2.failed = q.failed
<1>1. /\ Ident(q2, q) /\ q2.comps = q.comps /\ q2.layout = q.layout /\ q2.shown = q.shown
      /\ q2.listed = q.listed /\ q2.done = q.done /\ q2.failed = q.failed
  BY DEF Same, Closes, Ident
<1>2. TargetsOf(q2) = TargetsOf(q)
  BY <1>1, SameTargets
<1>3. Grows(q, q2)
  BY <1>1, <1>2 DEF Grows, Ident
<1>4. Sees(q, q2)
  BY <1>1, <1>2 DEF Sees, Ident
<1>5. SameOf(q, present) => SameOf(q2, present)
  BY <1>1 DEF SameOf, Ident
<1> QED BY <1>1, <1>3, <1>4, <1>5

LEMMA SameTurn ==
  ASSUME IInv, NEW r \in Requests, req[r].stage = "busy", NEW rec, NEW X \in Seq(CallSet),
         Same(rec, req[r]), \A i \in DOMAIN X : X[i].by = r,
         Continue(r, rec, calls \o X), ReqInv(r, After(r, rec, calls \o X), calls \o X),
         UNCHANGED <<present, policy, crashed, faults, changes, overlap>>
  PROVE  IInv'
<1> DEFINE W == calls \o X
           q2 == After(r, rec, W)
<1>1. calls \in Seq(CallSet) /\ faults \in Nat /\ faults + changes <= MaxFaults
  BY DEF IInv, TypeInv
<1>2. W \in Seq(CallSet) /\ \A s \in Requests \ {r} : \E k \in Int : Shift(s, calls, W, k)
  BY <1>1, OthersShift
<1>3. rec \in Request /\ Ident(rec, req[r])
  BY DEF Same
<1>4. Turn(r, q2, W)
  BY <1>2, <1>3, CloseTurn
<1>5. Closes(q2, rec, r, W)
  BY <1>3, AfterCloses
<1>6. \A n \in Nodes : Pending(r, "disable", n, "Enabled", calls) => Pending(r, "disable", n, "Enabled", W)
  BY <1>1, PendingConcat
<1> HIDE DEF q2, W
<1>7. /\ Grows(req[r], q2) /\ Sees(req[r], q2) /\ (SameOf(req[r], present) => SameOf(q2, present))
  BY <1>5, SameNeutral
<1>8. DisablesKept(r, q2, W)
  BY <1>6 DEF DisablesKept
<1> QED BY <1>1, <1>4, <1>7, <1>8, TurnNeutral

\* The answer to the question l, which leads to the next one, to the components or nowhere.
LEMMA MapperTurn ==
  ASSUME IInv, NEW r \in Requests, NEW l \in Main, l \in req[r].lookups, NEW rec, NEW next,
         Same(rec, req[r]), rec.lookups = (req[r].lookups \ {l}) \cup next,
         \/ next \in {{}, {"object"}} /\ Continue(r, rec, calls)
         \/ next = {"path"} /\ req[r].kind = "patchAll" /\ Continue(r, rec, calls)
         \/ next = {} /\ getComponents(r, rec),
         UNCHANGED <<present, policy, crashed, faults, changes, overlap>>
  PROVE  IInv'
<1> DEFINE q == req[r]
           c == Call(r, "components", root, cpuDomainId)
<1>1. ReqInv(r, q, calls) /\ calls \in Seq(CallSet) /\ present \in Topologies
  BY DEF IInv, TypeInv
<1>2. /\ "header" \in q.lookups => q.kind = "getAll"
      /\ "chassis" \in q.lookups => q.kind # "patchAll"
      /\ "path" \in q.lookups => q.kind = "patchAll"
      /\ Early(q) /\ DOMAIN q.comps = {} /\ Quiet(r, calls)
      /\ \A m \in q.lookups \cap Main : m = l
  BY <1>1 DEF ReqInv, EarlyInv
<1>3. q.stage = "busy" /\ BodyInv(q)
  BY <1>1 DEF ReqInv, StageInv
<1> HIDE DEF q
<1>4. /\ Early(rec) /\ BodyInv(rec) /\ rec.kind = q.kind /\ rec \in Request
      /\ DOMAIN rec.comps = {}
  BY <1>2, <1>3 DEF q, Same, Ident, Early, BodyInv
<1>5. rec.lookups \cap Main = next \cap Main
  BY <1>2 DEF q
<1>6. Asking(rec)
  BY <1>2, <1>4, <1>5 DEF q, Asking, Main
<1>7. CASE Continue(r, rec, calls)
  <2> DEFINE X == << >>
  <2>1. X \in Seq(CallSet) /\ DOMAIN X = {} /\ calls \o X = calls
    BY <1>1, ConcatNone
  <2> HIDE DEF X
  <2>2. Closes(After(r, rec, calls), rec, r, calls)
    BY <1>4, AfterCloses
  <2>3. ReqInv(r, After(r, rec, calls), calls)
    BY <2>2, <1>2, <1>4, <1>6, EarlyQuiet
  <2> QED BY <1>3, <1>7, <2>1, <2>3, SameTurn DEF q
<1>8. CASE next = {} /\ getComponents(r, rec)
  <2> DEFINE X == <<c>>
  <2>1. root \in Nodes
    BY <1>1, RootNode
  <2>2. c \in CallSet /\ c.by = r
    BY <2>1, CallIn, CallFields DEF Ops, Args, Domains
  <2>3. Append(calls, c) = calls \o X /\ X \in Seq(CallSet)
    BY <2>2, <1>1, AppendIs
  <2>4. \A i \in DOMAIN X : X[i].by = r
    BY <2>2
  <2>5. Continue(r, rec, Append(calls, c))
    BY <1>8 DEF getComponents
  <2>6. rec.lookups \cap Main = {} /\ cpuDomainId \in Domains /\ DOMAIN rec.comps = Before(cpuDomainId)
    BY <1>4, <1>5, <1>8, BeforeIs DEF Domains
  <2>7. Closes(After(r, rec, Append(calls, c)), rec, r, Append(calls, c))
    BY <1>4, AfterCloses
  <2>8. ReqInv(r, After(r, rec, Append(calls, c)), Append(calls, c))
    BY <2>1, <2>6, <2>7, <1>1, <1>2, <1>4, <1>6, EarlyAsks
  <2> HIDE DEF X, c
  <2> QED BY <2>3, <2>4, <2>5, <2>8, <1>3, SameTurn DEF q
<1> QED BY <1>7, <1>8

LEMMA ChassisStep ==
  ASSUME IInv, NEW r \in Requests, chassisHandler(r)
  PROVE  IInv'
<1>1. req[r] \in Request /\ "chassis" \in Main /\ "chassis" \in req[r].lookups
  BY DEF IInv, TypeInv, Main, chassisHandler
<1>2. UNCHANGED <<present, policy, crashed, faults, changes, overlap>>
  BY DEF chassisHandler
<1>3. PICK found \in BOOLEAN :
        LET rec == Asked(req[r], "chassis", IF found THEN {"object"} ELSE {})
            patch == found /\ rec.kind = "patchOne"
        IN Continue(r, IF patch THEN Status(rec, "no_content") ELSE rec, calls)
  BY DEF chassisHandler
<1> DEFINE next == IF found THEN {"object"} ELSE {}
           rec == Asked(req[r], "chassis", next)
<1>4. next \in {{}, {"object"}} /\ next \in SUBSET Lookups /\ "no_content" \in Statuses
  BY DEF Lookups, Statuses
<1>5. Continue(r, rec, calls) \/ Continue(r, Status(rec, "no_content"), calls)
  BY <1>3
<1> HIDE DEF next
<1>6. Same(rec, req[r]) /\ rec.lookups = (req[r].lookups \ {"chassis"}) \cup next
  BY <1>1, <1>4, AskedIs
<1> HIDE DEF rec
<1>7. /\ Same(Status(rec, "no_content"), req[r])
      /\ Status(rec, "no_content").lookups = (req[r].lookups \ {"chassis"}) \cup next
  BY <1>4, <1>6, StatusIs, SameTrans DEF Same
<1> QED BY <1>1, <1>2, <1>4, <1>5, <1>6, <1>7, MapperTurn

LEMMA SelectStep ==
  ASSUME IInv, NEW r \in Requests, selectNmService(r)
  PROVE  IInv'
<1>1. req[r] \in Request /\ "object" \in Main /\ "object" \in req[r].lookups
  BY DEF IInv, TypeInv, Main, selectNmService
<1>2. UNCHANGED <<present, policy, crashed, faults, changes, overlap>>
  BY DEF selectNmService
<1> DEFINE rec == Asked(req[r], "object", {})
           Z == {}
           P == {"path"}
           M == req[r].lookups \ {"object"}
<1>3. /\ Z \in SUBSET Lookups /\ P \in SUBSET Lookups
      /\ "internalError" \in Statuses /\ "badRequest" \in Statuses
  BY DEF Lookups, Statuses
<1>4. Same(rec, req[r]) /\ rec.lookups = M
  <2>1. Same(Asked(req[r], "object", Z), req[r]) /\ Asked(req[r], "object", Z).lookups = M \cup Z
    BY <1>1, <1>3, AskedIs
  <2> QED BY <2>1
<1>5. \/ Continue(r, Status(rec, "internalError"), calls)
      \/ Continue(r, rec, calls)
      \/ Continue(r, Status(rec, "badRequest"), calls)
      \/ rec.kind = "patchAll" /\ Continue(r, Asked(rec, "object", P), calls)
      \/ getComponents(r, rec)
      \/ Continue(r, componentsError(rec), calls)
  BY DEF selectNmService
<1> HIDE DEF rec
<1>6. rec \in Request /\ rec.kind = req[r].kind
  BY <1>4 DEF Same, Ident
<1>7. /\ Same(Status(rec, "internalError"), req[r]) /\ Status(rec, "internalError").lookups = M
      /\ Same(Status(rec, "badRequest"), req[r]) /\ Status(rec, "badRequest").lookups = M
      /\ Same(componentsError(rec), req[r]) /\ componentsError(rec).lookups = M
  BY <1>3, <1>4, <1>6, StatusIs, ErrorIs, SameTrans
<1>8. Same(Asked(rec, "object", P), req[r]) /\ Asked(rec, "object", P).lookups = M \cup P
  <2>1. Same(Asked(rec, "object", P), rec) /\ Asked(rec, "object", P).lookups = (rec.lookups \ {"object"}) \cup P
    BY <1>3, <1>6, AskedIs
  <2>2. rec.lookups \ {"object"} = M
    BY <1>4
  <2> QED BY <2>1, <2>2, <1>4, SameTrans
<1>9. M = (req[r].lookups \ {"object"}) \cup Z
  OBVIOUS
<1>10. Z \in {{}, {"object"}} /\ P = {"path"} /\ Z = {}
  OBVIOUS
<1>11. M \cup P = (req[r].lookups \ {"object"}) \cup P
  OBVIOUS
<1> HIDE DEF M, P, Z
<1>12. CASE rec.kind = "patchAll" /\ Continue(r, Asked(rec, "object", P), calls)
  BY <1>12, <1>1, <1>2, <1>6, <1>8, <1>10, <1>11, MapperTurn
<1>13. CASE Continue(r, rec, calls) \/ getComponents(r, rec)
  BY <1>13, <1>1, <1>2, <1>4, <1>9, <1>10, MapperTurn
<1>14. CASE \/ Continue(r, Status(rec, "internalError"), calls)
            \/ Continue(r, Status(rec, "badRequest"), calls)
            \/ Continue(r, componentsError(rec), calls)
  BY <1>14, <1>1, <1>2, <1>7, <1>9, <1>10, MapperTurn
<1> QED BY <1>5, <1>12, <1>13, <1>14

LEMMA PathStep ==
  ASSUME IInv, NEW r \in Requests, setPowerCapOverride(r)
  PROVE  IInv'
<1>1. req[r] \in Request /\ "path" \in Main /\ "path" \in req[r].lookups
  BY DEF IInv, TypeInv, Main, setPowerCapOverride
<1>2. UNCHANGED <<present, policy, crashed, faults, changes, overlap>>
  BY DEF setPowerCapOverride
<1> DEFINE Z == {}
           rec == Asked(req[r], "path", Z)
           M == (req[r].lookups \ {"path"}) \cup Z
<1>3. Z \in SUBSET Lookups /\ "resourceNotFound" \in Statuses /\ Z = {}
  BY DEF Statuses
<1>4. \/ Continue(r, Status(rec, "resourceNotFound"), calls)
      \/ Continue(r, rec, calls) \/ getComponents(r, rec)
  BY DEF setPowerCapOverride
<1> HIDE DEF Z
<1>5. Same(rec, req[r]) /\ rec.lookups = M
  BY <1>1, <1>3, AskedIs
<1> HIDE DEF rec
<1>6. /\ Same(Status(rec, "resourceNotFound"), req[r])
      /\ Status(rec, "resourceNotFound").lookups = M
  BY <1>3, <1>5, StatusIs, SameTrans DEF Same
<1> QED BY <1>1, <1>2, <1>3, <1>4, <1>5, <1>6, MapperTurn

LEMMA HeaderStep ==
  ASSUME IInv, NEW r \in Requests, doPowerHeader(r)
  PROVE  IInv'
<1> DEFINE q == req[r]
           Z == {}
           X == << >>
           rec0 == Asked(q, "header", Z)
<1>1. q \in Request /\ "header" \in q.lookups /\ calls \in Seq(CallSet)
  BY DEF IInv, TypeInv, doPowerHeader
<1>2. UNCHANGED <<present, policy, crashed, faults, changes, overlap>>
  BY DEF doPowerHeader
<1>3. Z \in SUBSET Lookups /\ "resourceNotFound" \in Statuses /\ Z = {}
  BY DEF Statuses
<1>4. Continue(r, Status(rec0, "resourceNotFound"), calls) \/ Continue(r, rec0, calls)
  BY DEF doPowerHeader
<1>x. X \in Seq(CallSet) /\ DOMAIN X = {} /\ calls \o X = calls
  BY <1>1, ConcatNone
<1>q. ReqInv(r, q, calls)
  BY DEF IInv
<1> HIDE DEF Z, X
<1>5. Same(rec0, q) /\ rec0.lookups = (q.lookups \ {"header"}) \cup Z
  BY <1>1, <1>3, AskedIs
<1>d. q = req[r]
  OBVIOUS
<1> HIDE DEF rec0, q
<1>6. Same(Status(rec0, "resourceNotFound"), q) /\ Status(rec0, "resourceNotFound").lookups = rec0.lookups
  BY <1>3, <1>5, StatusIs, SameTrans DEF Same
<1>7. PICK rec : Continue(r, rec, calls) /\ Same(rec, q) /\ rec.lookups = q.lookups \ {"header"}
  BY <1>3, <1>4, <1>5, <1>6
<1> DEFINE q2 == After(r, rec, calls)
<1>8. Closes(q2, rec, r, calls)
  BY <1>7, AfterCloses DEF Same
<1> HIDE DEF q2
<1>9. /\ Ident(q2, q) /\ q2.comps = q.comps /\ q2.layout = q.layout /\ q2.shape = q.shape
      /\ q2.listed = q.listed /\ q2.done = q.done /\ q2.lookups = q.lookups \ {"header"}
      /\ q2.kind = q.kind /\ q2.stage \in {"busy", "done"}
      /\ (q2.stage = "busy") <=> (q2.lookups # {} \/ ~Quiet(r, calls))
  BY <1>7, <1>8 DEF Same, Closes, Ident
<1>10. q.kind = "getAll" /\ q.stage = "busy"
  BY <1>q, <1>1 DEF ReqInv, EarlyInv, StageInv
<1>11. TargetsOf(q2) = TargetsOf(q) /\ BodyInv(q2)
  BY <1>9, <1>q, SameTargets DEF ReqInv
<1>12. q2.lookups \cap Main = q.lookups \cap Main
  BY <1>9 DEF Main
<1>13. ASSUME NEW c, Fits(c, q) PROVE Fits(c, q2)
  BY <1>9, <1>11, <1>12, <1>13 DEF Fits, Early, Valued, Nulled, Stored
<1>14. FitsInv(r, q2, calls) /\ StageInv(r, q2, calls)
  BY <1>q, <1>9, <1>13 DEF ReqInv, FitsInv, StageInv
<1>15. EarlyInv(r, q2, calls)
  <2>1. EarlyInv(r, q, calls)
    BY <1>q DEF ReqInv
  <2> QED BY <2>1, <1>9, <1>12 DEF EarlyInv, Early
<1>16. ShapeInv(r, q2, calls) /\ SuccessInv(r, q2, calls)
  BY <1>9, <1>10 DEF ShapeInv, SuccessInv, TargetsOf, PatchOf
<1>17. OrderInv(r, q2, calls)
  <2>1. OrderInv(r, q, calls)
    BY <1>q DEF ReqInv
  <2> QED BY <2>1, <1>9, <1>10 DEF OrderInv
<1>18. ReqInv(r, q2, calls)
  BY <1>11, <1>14, <1>15, <1>16, <1>17 DEF ReqInv
<1> QED BY <1>2, <1>7, <1>10, <1>18, <1>x, <1>d, SameTurn DEF q2

-----------------------------------------------------------------------------
(* A request arrives *)

LEMMA FreshIs ==
  /\ Fresh \in Request /\ Early(Fresh) /\ DOMAIN Fresh.comps = {} /\ DOMAIN Fresh.shown = {}
  /\ Fresh.layout = << >> /\ Fresh.stage = "new" /\ Fresh.lookups = {} /\ Fresh.kind = "getAll"
  /\ Fresh.earlier = {} /\ Fresh.done = {}
<1> DEFINE c == [d \in {} |-> << >>]
           sh == [n \in {} |-> Default]
<1>1. c \in [{} -> UNION {Lists(d) : d \in Domains}] /\ DOMAIN c = {}
  OBVIOUS
<1>2. {} \in SUBSET Domains /\ {} \in SUBSET Nodes
  OBVIOUS
<1>3. c \in UNION {[D -> UNION {Lists(d) : d \in Domains}] : D \in SUBSET Domains}
  BY <1>1, <1>2
<1>4. c \in Comps
  BY <1>1, <1>3 DEF Comps
<1>5. sh \in [{} -> Writers] /\ DOMAIN sh = {}
  OBVIOUS
<1>6. sh \in Shown
  BY <1>2, <1>5 DEF Shown
<1>7. /\ << >> \in Seq(Body) /\ << >> \in Seq(Nodes) /\ "ok" \in Statuses /\ {} \in SUBSET Lookups
      /\ {} \in SUBSET Deeds /\ {} \in SUBSET Requests /\ root \in Names \cup {root}
  BY DEF Statuses
<1>8. Fresh = [stage |-> "new", kind |-> "getAll", name |-> root, entries |-> << >>,
          base |-> << >>, lookups |-> {}, comps |-> c, layout |-> << >>,
          shape |-> "array", shown |-> sh, status |-> "ok",
          listed |-> FALSE, done |-> {}, failed |-> {}, earlier |-> {}]
  BY DEF Fresh
<1> HIDE DEF c, sh
<1>9. Fresh \in Request
  BY <1>4, <1>6, <1>7, <1>8 DEF Request
<1>10. /\ Fresh.comps = c /\ Fresh.shown = sh /\ Fresh.layout = << >> /\ Fresh.stage = "new"
       /\ Fresh.lookups = {} /\ Fresh.kind = "getAll" /\ ~Fresh.listed /\ Fresh.done = {}
       /\ Fresh.shape = "array" /\ Fresh.earlier = {}
  BY <1>8
<1> QED BY <1>1, <1>5, <1>9, <1>10 DEF Early

\* The record of a request that has arrived.
Begun(q2, kind, name, entries, base, early) ==
  /\ q2 \in Request /\ q2.stage = "busy" /\ q2.kind = kind /\ q2.name = name
  /\ q2.entries = entries /\ q2.base = base /\ q2.earlier = early
  /\ Early(q2) /\ DOMAIN q2.comps = {} /\ DOMAIN q2.shown = {} /\ q2.layout = << >>
  /\ q2.lookups # {} /\ Asking(q2)

LEMMA BegunIs ==
  ASSUME NEW kind \in {"getAll", "getOne", "patchAll", "patchOne"}, NEW name \in Names \cup {root},
         NEW entries \in Seq(Body), NEW base \in Seq(Nodes), NEW early \in SUBSET Requests
  PROVE  Begun([Fresh EXCEPT !.stage = "busy", !.kind = kind, !.name = name,
                  !.entries = entries, !.base = base,
                  !.status = IF kind = "patchAll" THEN "no_content" ELSE "ok",
                  !.lookups = CASE kind = "getAll" -> {"chassis", "header"}
                                [] kind = "patchAll" -> {"object"}
                                [] OTHER -> {"chassis"},
                  !.earlier = early], kind, name, entries, base, early)
<1> DEFINE st == IF kind = "patchAll" THEN "no_content" ELSE "ok"
           lk == CASE kind = "getAll" -> {"chassis", "header"}
                   [] kind = "patchAll" -> {"object"}
                   [] OTHER -> {"chassis"}
           q2 == [Fresh EXCEPT !.stage = "busy", !.kind = kind, !.name = name,
                  !.entries = entries, !.base = base, !.status = st, !.lookups = lk, !.earlier = early]
<1>1. st \in Statuses
  BY DEF Statuses
<1>2. \/ kind = "getAll" /\ lk = {"chassis", "header"}
      \/ kind = "patchAll" /\ lk = {"object"}
      \/ kind \notin {"getAll", "patchAll"} /\ lk = {"chassis"}
  OBVIOUS
<1>3. lk \in SUBSET Lookups /\ lk # {}
  BY <1>2 DEF Lookups
<1> HIDE DEF st, lk
<1>4. q2 \in Request
  BY <1>1, <1>3, FreshIs DEF Request
<1>5. /\ q2.stage = "busy" /\ q2.kind = kind /\ q2.name = name /\ q2.entries = entries
      /\ q2.base = base /\ q2.earlier = early /\ q2.lookups = lk
      /\ q2.comps = Fresh.comps /\ q2.shown = Fresh.shown /\ q2.layout = Fresh.layout
      /\ q2.shape = Fresh.shape /\ q2.done = Fresh.done /\ q2.listed = Fresh.listed
  BY FreshIs DEF Request
<1>6. q2 = [Fresh EXCEPT !.stage = "busy", !.kind = kind, !.name = name,
                  !.entries = entries, !.base = base, !.status = st, !.lookups = lk, !.earlier = early]
  OBVIOUS
<1> HIDE DEF q2
<1>7. Early(q2) /\ DOMAIN q2.comps = {}
  BY <1>5, FreshIs DEF Early
<1>8. Asking(q2)
  BY <1>2, <1>5, <1>7 DEF Asking, Main
<1>9. Begun(q2, kind, name, entries, base, early)
  BY <1>3, <1>4, <1>5, <1>7, <1>8, FreshIs DEF Begun
<1> QED BY <1>9, <1>6 DEF st, lk

LEMMA ArriveStep ==
  ASSUME IInv, NEW r \in Requests, NEW kind \in {"getAll", "getOne", "patchAll", "patchOne"},
         NEW name \in Names \cup {root}, NEW entries \in Seq(Body), NEW base \in Seq(Nodes),
         Arrive(r, kind, name, entries, base),
         kind = "patchOne" => Len(entries) = 1,
         kind = "patchAll" => Len(entries) = Len(base),
         kind = "patchAll" /\ changes = 0 => base = buildDomainPolicyMap(present)
  PROVE  IInv'
<1> DEFINE early == {s \in Requests : req[s].stage = "done"}
           q2 == req'[r]
<1>1. req[r].stage = "new" /\ UNCHANGED <<present, policy, calls, crashed, faults, changes>>
  BY DEF Arrive
<1>t. TypeInv /\ req \in [Requests -> Request] /\ calls \in Seq(CallSet)
  BY DEF IInv, TypeInv
<1>2. early \in SUBSET Requests
  OBVIOUS
<1>3. Begun(q2, kind, name, entries, base, early)
  <2>1. q2 = [Fresh EXCEPT !.stage = "busy", !.kind = kind, !.name = name,
                  !.entries = entries, !.base = base,
                  !.status = IF kind = "patchAll" THEN "no_content" ELSE "ok",
                  !.lookups = CASE kind = "getAll" -> {"chassis", "header"}
                                [] kind = "patchAll" -> {"object"}
                                [] OTHER -> {"chassis"},
                  !.earlier = early]
    BY <1>t DEF Arrive
  <2> HIDE DEF q2, early
  <2> QED BY <2>1, <1>2, BegunIs
<1>4. \A s \in Requests \ {r} : req'[s] = req[s]
  BY <1>t DEF Arrive
<1>5. req' \in [Requests -> Request]
  <2>1. DOMAIN req' = Requests /\ req' = [s \in Requests |-> req'[s]]
    BY <1>t DEF Arrive
  <2>2. \A s \in Requests : req'[s] \in Request
    BY <1>3, <1>4, <1>t DEF Begun
  <2> QED BY <2>1, <2>2
<1>o. overlap' = overlap \cup UNION {{<<r, s>>, <<s, r>>} : s \in {s \in Requests : Busy(s)}}
  BY DEF Arrive
<1>6. ReqInv(r, req[r], calls)
  BY DEF IInv
<1>7. Quiet(r, calls) /\ Early(req[r]) /\ req[r].done = {}
  BY <1>1, <1>6 DEF ReqInv, StageInv, EarlyInv, Early
<1> HIDE DEF q2, early
<1>8. /\ q2 \in Request /\ q2.stage = "busy" /\ Early(q2) /\ q2.lookups # {} /\ Asking(q2)
      /\ q2.kind = kind /\ q2.entries = entries /\ q2.base = base /\ q2.layout = << >>
      /\ q2.earlier = early /\ DOMAIN q2.shown = {} /\ q2.done = {} /\ DOMAIN q2.comps = {}
      /\ ~q2.listed
  BY <1>3 DEF Begun, Early
<1>9. Closes(q2, q2, r, calls)
  BY <1>8 DEF Closes, Ident
<1>10. BodyInv(q2)
  BY <1>8 DEF BodyInv
<1>11. ReqInv(r, q2, calls)
  BY <1>7, <1>8, <1>9, <1>10, EarlyQuiet
<1>12. (\A s \in Requests : ReqInv(s, req[s], calls))'
  <2>1. \A s \in Requests \ {r} : ReqInv(s, req[s], calls)
    BY DEF IInv
  <2> QED BY <2>1, <1>1, <1>4, <1>11 DEF q2
<1>13. TypeInv'
  <2>1. overlap' \subseteq Requests \X Requests
    BY <1>o, <1>t DEF TypeInv
  <2> QED BY <2>1, <1>1, <1>5, <1>t DEF TypeInv
<1>14. EarlierInv'
  <2> SUFFICES ASSUME NEW x \in Requests, NEW s \in Requests, s \in req'[x].earlier
               PROVE  req'[s].stage = "done"
    BY DEF EarlierInv
  <2>1. req[s].stage = "done"
    <3>1. CASE x = r
      BY <3>1, <1>8 DEF q2, early
    <3>2. CASE x # r
      BY <3>2, <1>4 DEF IInv, EarlierInv
    <3> QED BY <3>1, <3>2
  <2>2. s # r
    BY <2>1, <1>1
  <2> QED BY <2>1, <2>2, <1>4
<1>15. OverlapInv'
  <2> SUFFICES ASSUME NEW x \in Requests, NEW s \in Requests, Busy(x)', Busy(s)', x # s
               PROVE  <<x, s>> \in overlap'
    BY DEF OverlapInv
  <2>1. \A y \in Requests \ {r} : Busy(y)' => Busy(y)
    BY <1>1, <1>4 DEF Busy
  <2>2. CASE x = r
    BY <2>1, <2>2, <1>o
  <2>3. CASE s = r
    BY <2>1, <2>3, <1>o
  <2>4. CASE x # r /\ s # r
    BY <2>1, <2>4, <1>o DEF IInv, OverlapInv
  <2> QED BY <2>2, <2>3, <2>4
<1>16. SameInv'
  <2>1. (base = buildDomainPolicyMap(present) /\ kind = "patchAll") \/ kind # "patchAll" => SameOf(q2, present)
    BY <1>8 DEF SameOf
  <2> QED BY <2>1, <1>1, <1>4, SameIs DEF IInv, q2
<1>17. TargetsOf(req[r]) = {} /\ TargetsOf(q2) = {}
  BY <1>7, <1>8 DEF TargetsOf, Early
<1>18. \A s \in Requests : Grows(req[s], req'[s])
  <2>1. Grows(req[r], q2)
    BY <1>1, <1>7, <1>8, <1>17 DEF Grows
  <2>2. \A s \in Requests \ {r} : Grows(req[s], req'[s])
    BY <1>4 DEF Grows
  <2> QED BY <2>1, <2>2 DEF q2
<1>19. \A s \in Requests : Sees(req[s], req'[s])
  <2>1. Sees(req[r], q2)
    BY <1>1, <1>8, <1>17 DEF Sees
  <2>2. \A s \in Requests \ {r} : Sees(req[s], req'[s])
    BY <1>4 DEF Sees
  <2> QED BY <2>1, <2>2 DEF q2
<1>20. KeptInv'
  <2>1. KeptInv /\ overlap \subseteq overlap'
    BY <1>o DEF IInv
  <2>2. \A s \in Requests : Busy(s)' /\ req[s].done # {} => Busy(s)
    BY <1>1, <1>4, <1>7 DEF Busy
  <2> QED BY <2>1, <2>2, <1>1, <1>18, KeptNeutral
<1>21. StaysInv'
  <2>1. StaysInv
    BY DEF IInv
  <2> QED BY <2>1, <1>1, <1>18, <1>19, StaysNeutral, SeenStep, StaysSplit
<1> QED BY <1>12, <1>13, <1>14, <1>15, <1>16, <1>20, <1>21 DEF IInv

LEMMA ArrivalStep ==
  ASSUME IInv, NEW r \in Requests, SomeArrival(r)
  PROVE  IInv'
<1>1. << >> \in Seq(Body) /\ << >> \in Seq(Nodes)
  OBVIOUS
<1> DEFINE Z == << >>
<1>z. Z \in Seq(Body) /\ Z \in Seq(Nodes)
  BY <1>1
<1>2. CASE Arrive(r, "getAll", root, << >>, << >>)
  <2>1. Arrive(r, "getAll", root, Z, Z)
    BY <1>2
  <2> HIDE DEF Z
  <2> QED BY <2>1, <1>z, ArriveStep
<1>3. CASE \E name \in Names : Arrive(r, "getOne", name, << >>, << >>)
  <2>1. PICK name \in Names : Arrive(r, "getOne", name, Z, Z)
    BY <1>3
  <2> HIDE DEF Z
  <2> QED BY <2>1, <1>z, ArriveStep
<1>4. CASE \E name \in Names, e \in Entries : Arrive(r, "patchOne", name, <<e>>, << >>)
  <2>1. PICK name \in Names, e \in Entries : Arrive(r, "patchOne", name, <<e>>, Z)
    BY <1>4
  <2>2. <<e>> \in Seq(Body) /\ Len(<<e>>) = 1
    BY DEF Body
  <2> HIDE DEF Z
  <2> DEFINE es == <<e>>
  <2> HIDE DEF es
  <2>3. Arrive(r, "patchOne", name, es, Z) /\ es \in Seq(Body) /\ Len(es) = 1
    BY <2>1, <2>2 DEF es
  <2> QED BY <2>3, <1>z, ArriveStep
<1>5. CASE \E g \in Requests :
             /\ req[g].kind = "getAll" /\ req[g].stage = "done"
             /\ LET base == req[g].layout IN
                \E e, f \in Entries, i, j \in DOMAIN base :
                  /\ i <= j /\ (i = j => e = f)
                  /\ Arrive(r, "patchAll", root,
                            [k \in DOMAIN base |->
                               IF k = i THEN e ELSE IF k = j THEN f ELSE NoEntry], base)
  <2>1. PICK g \in Requests :
             /\ req[g].kind = "getAll" /\ req[g].stage = "done"
             /\ LET base == req[g].layout IN
                \E e, f \in Entries, i, j \in DOMAIN base :
                  /\ i <= j /\ (i = j => e = f)
                  /\ Arrive(r, "patchAll", root,
                            [k \in DOMAIN base |->
                               IF k = i THEN e ELSE IF k = j THEN f ELSE NoEntry], base)
    BY <1>5
  <2> DEFINE base == req[g].layout
  <2>2. PICK e \in Entries, f \in Entries, i \in DOMAIN base, j \in DOMAIN base :
          Arrive(r, "patchAll", root,
                 [k \in DOMAIN base |-> IF k = i THEN e ELSE IF k = j THEN f ELSE NoEntry], base)
    BY <2>1
  <2> DEFINE es == [k \in DOMAIN base |-> IF k = i THEN e ELSE IF k = j THEN f ELSE NoEntry]
  <2>3. base \in Seq(Nodes)
    BY DEF IInv, TypeInv, Request
  <2>4. changes = 0 => base = << >> \/ base = buildDomainPolicyMap(present)
    BY <2>1 DEF IInv, SameInv
  <2>b. base = req[g].layout
    OBVIOUS
  <2> HIDE DEF base
  <2>5. Len(base) \in Nat /\ DOMAIN base = 1..Len(base) /\ base # << >>
    BY <2>2, <2>3
  <2>6. \A k \in DOMAIN base : es[k] \in Body
    BY DEF Body
  <2>7. es \in [1..Len(base) -> Body]
    BY <2>5, <2>6
  <2>8. es \in Seq(Body) /\ Len(es) = Len(base)
    BY <2>5, <2>7
  <2>9. Arrive(r, "patchAll", root, es, base)
    BY <2>2
  <2> HIDE DEF es
  <2> QED BY <2>3, <2>4, <2>5, <2>8, <2>9, ArriveStep
<1> QED BY <1>2, <1>3, <1>4, <1>5 DEF SomeArrival

-----------------------------------------------------------------------------
(* The service changes a policy *)

\* The policies p2 are p after the call c.
Acts(c, p, p2) ==
  /\ p2 \in [Nodes -> [limit : Writers, enabled : Writers]]
  /\ \A n \in Nodes : n # c.node => p2[n] = p[n]
  /\ IF c.op = "set" /\ c.arg = L THEN p2[c.node].limit = c.by
     ELSE IF c.op = "update" THEN p2[c.node].limit = Default ELSE p2[c.node].limit = p[c.node].limit
  /\ IF c.op = "enable" THEN p2[c.node].enabled = c.by
     ELSE IF c.op = "disable" THEN p2[c.node].enabled = Default
     ELSE p2[c.node].enabled = p[c.node].enabled

LEMMA EffectActs ==
  ASSUME NEW c \in CallSet, policy \in [Nodes -> [limit : Writers, enabled : Writers]], Effect(c)
  PROVE  Acts(c, policy, policy')
<1>1. c.node \in Nodes /\ c.by \in Writers /\ Default \in Writers
  BY DEF CallSet, Writers
<1> DEFINE m == c.node
<1>2. policy[m] \in [limit : Writers, enabled : Writers]
  BY <1>1
<1>3. CASE c.op = "set" /\ c.arg = "LimitInWatts"
  <2>1. policy' = [policy EXCEPT ![m].limit = c.by]
    BY <1>3 DEF Effect
  <2> QED BY <2>1, <1>1, <1>2, <1>3 DEF Acts, L
<1>4. CASE c.op = "update"
  <2>1. policy' = [policy EXCEPT ![m].limit = Default]
    BY <1>4 DEF Effect
  <2> QED BY <2>1, <1>1, <1>2, <1>4 DEF Acts, L
<1>5. CASE c.op = "enable"
  <2>1. policy' = [policy EXCEPT ![m].enabled = c.by]
    BY <1>5 DEF Effect
  <2> QED BY <2>1, <1>1, <1>2, <1>5 DEF Acts, L
<1>6. CASE c.op = "disable"
  <2>1. policy' = [policy EXCEPT ![m].enabled = Default]
    BY <1>6 DEF Effect
  <2> QED BY <2>1, <1>1, <1>2, <1>6 DEF Acts, L
<1>7. CASE ~(c.op = "set" /\ c.arg = "LimitInWatts") /\ c.op \notin {"update", "enable", "disable"}
  <2>1. policy' = policy
    BY <1>7 DEF Effect
  <2> QED BY <2>1, <1>1, <1>2, <1>7 DEF Acts, L
<1> QED BY <1>3, <1>4, <1>5, <1>6, <1>7

\* What the step in which the service carries out c does to a request.
ActedOn(s, q, q2, c) ==
  /\ TargetsOf(q2) = TargetsOf(q) /\ q2.earlier = q.earlier /\ q.failed \subseteq q2.failed
  /\ q.stage = "lost" => q2.stage = "lost"
  /\ q2.done = q.done \/ (s = c.by /\ q2.done = q.done \cup {<<c.node, c.op, c.arg>>})

\* The request whose call is carried out.
LEMMA ActorFacts ==
  ASSUME IInv, calls # << >>, Modifies(Head(calls)), NEW r, r = Head(calls).by
  PROVE  LET c == Head(calls) IN
         /\ r \in Requests /\ c \in CallSet /\ ReqInv(r, req[r], calls) /\ Fits(c, req[r]) /\ Busy(r)
         /\ req[r].stage \in {"busy", "lost"} /\ TargetsOf(req[r]) # {}
         /\ c.op \in {"update", "disable"} =>
              /\ ResetsOf(req[r], c.node) /\ <<c.node, "set", L>> \notin req[r].done
              /\ <<c.node, "enable", L>> \notin req[r].done
         /\ c.op = "update" => req[r].stage = "lost" \/ Pending(r, "disable", c.node, "Enabled", calls)
<1> DEFINE c == Head(calls)
           q == req[r]
<1>1. calls \in Seq(CallSet) /\ req \in [Requests -> Request]
  BY DEF IInv, TypeInv
<1>2. c \in CallSet /\ c = calls[1] /\ 1 \in DOMAIN calls
  BY <1>1, TailFacts
<1>3. r \in Requests /\ c.by = r /\ c.node \in Nodes
  BY <1>2 DEF CallSet
<1>4. ReqInv(r, q, calls)
  BY <1>3 DEF IInv
<1>m. c.op \in {"set", "storage", "update", "disable", "enable"}
  BY DEF Modifies
<1>q. q \in Request
  BY <1>1, <1>3
<1>b. Busy(r)
  BY <1>2, <1>3 DEF Busy
<1> HIDE DEF c, q
<1>5. Fits(c, q)
  BY <1>2, <1>3, <1>4 DEF ReqInv, FitsInv
<1>6. ~Quiet(r, calls)
  BY <1>2, <1>3 DEF Quiet
<1>7. q.stage \in {"busy", "lost"}
  BY <1>4, <1>6, <1>q DEF ReqInv, StageInv, Request
<1>8. TargetsOf(q) # {}
  BY <1>5, <1>m DEF Fits, Valued, Nulled, Stored
<1>9. ASSUME c.op \in {"update", "disable"}
      PROVE  /\ ResetsOf(q, c.node) /\ <<c.node, "set", L>> \notin q.done
             /\ <<c.node, "enable", L>> \notin q.done
  <2>1. PICK t \in TargetsOf(q) : t[1] = c.node /\ \E p \in LimitProps : t[2].power[p] = "null"
    BY <1>5, <1>9 DEF Fits, Nulled
  <2>2. ResetsOf(q, c.node)
    <3>1. \A p \in LimitProps : NoEntry.power[p] = "absent"
      BY DEF NoEntry
    <3>2. t[2] # NoEntry
      BY <2>1, <3>1
    <3>3. t = <<t[1], t[2]>> /\ t[2] \in Body
      <4>1. CASE q.kind = "patchOne"
        <5>1. t = <<q.name, q.entries[1]>>
          BY <4>1 DEF TargetsOf
        <5>2. Len(q.entries) = 1 /\ q.entries \in Seq(Body)
          BY <4>1, <1>4, <1>q DEF ReqInv, BodyInv, Request
        <5>3. q.entries[1] \in Body
          BY <5>2
        <5> QED BY <5>1, <5>3
      <4>2. CASE q.kind # "patchOne"
        <5>1. PICK i \in DOMAIN q.layout \cap DOMAIN q.entries : t = <<q.layout[i], q.entries[i]>>
          BY <4>2 DEF TargetsOf
        <5>2. q.entries \in Seq(Body)
          BY <1>q DEF Request
        <5>3. q.entries[i] \in Body
          BY <5>2, ElementIn
        <5> QED BY <5>1, <5>3
      <4> QED BY <4>1, <4>2
    <3>4. t[2] \in Entries
      BY <3>2, <3>3 DEF Body
    <3>5. <<c.node, t[2]>> \in TargetsOf(q)
      BY <2>1, <3>3
    <3> QED BY <2>1, <3>4, <3>5 DEF ResetsOf
  <2>3. ~ResetOver(r, c.node, calls)
    BY <1>2, <1>3, <1>9 DEF ResetOver
  <2>4. /\ <<c.node, "set", L>> \in q.done => ResetOver(r, c.node, calls)
        /\ <<c.node, "enable", L>> \in q.done => <<c.node, "set", L>> \in q.done
    BY <1>3, <1>4 DEF ReqInv, OrderInv
  <2> QED BY <2>2, <2>3, <2>4
<1>10. ASSUME c.op = "update", q.stage # "lost"
       PROVE  Pending(r, "disable", c.node, "Enabled", calls)
  <2>1. DisableFollows(r, c.node, calls)
    BY <1>3, <1>4, <1>10 DEF ReqInv, OrderInv
  <2> QED BY <2>1, <1>2, <1>3, <1>10 DEF DisableFollows, Pending
<1> QED BY <1>2, <1>3, <1>4, <1>5, <1>7, <1>8, <1>9, <1>10, <1>b DEF c, q

LEMMA KeptActed ==
  ASSUME IInv, calls # << >>, NEW c, c = Head(calls), Modifies(c), Exists(c.node),
         Acts(c, policy, policy'),
         present' = present, changes' = changes, overlap' = overlap,
         \A s \in Requests : ActedOn(s, req[s], req'[s], c),
         \A s \in Requests : Busy(s)' => Busy(s),
         \A s \in Requests, n \in Nodes : Pending(s, "disable", n, "Enabled", calls) =>
           c = Call(s, "disable", n, "Enabled") \/ Pending(s, "disable", n, "Enabled", calls')
  PROVE  KeptInv'
<1> SUFFICES ASSUME changes' < 2, NEW n \in Nodes, NEW x \in Requests,
                    policy'[n].limit = Default, GivesLimit(x, n)', <<n, "set", L>> \in req'[x].done,
                    policy'[n].enabled = x \/ (Busy(x)' /\ Exists(n)')
             PROVE  ReasonOf(n, x, req', calls', overlap')
  BY ReasonIs DEF KeptInv
<1> DEFINE r == c.by
<1>1. /\ r \in Requests /\ c \in CallSet /\ Busy(r)
      /\ c.op \in {"update", "disable"} =>
           /\ ResetsOf(req[r], c.node) /\ <<c.node, "set", L>> \notin req[r].done
      /\ c.op = "update" => req[r].stage = "lost" \/ Pending(r, "disable", c.node, "Enabled", calls)
  BY ActorFacts
<1>2. c.op \in {"set", "storage", "update", "disable", "enable"}
  BY DEF Modifies
<1>3. Default \notin Requests
  BY PowerControlAssumption
<1>4. GivesLimit(x, n) /\ TargetsOf(req'[r]) = TargetsOf(req[r])
  <2>1. \A s \in Requests : TargetsOf(req'[s]) = TargetsOf(req[s])
    BY DEF ActedOn
  <2> QED BY <2>1, <1>1, GivesIs DEF GivesOf
<1>5. CASE n = c.node /\ c.op = "set" /\ c.arg = L
  BY <1>1, <1>3, <1>5 DEF Acts
<1>6. ASSUME ~(n = c.node /\ c.op = "set" /\ c.arg = L) PROVE <<n, "set", L>> \in req[x].done
  <2>1. <<n, "set", L>> # <<c.node, c.op, c.arg>>
    BY <1>6
  <2> QED BY <2>1 DEF ActedOn
<1>7. CASE n = c.node /\ c.op = "update"
  <2>1. x # r
    BY <1>1, <1>6, <1>7
  <2>2. ResetsOf(req'[r], n)
    BY <1>1, <1>4, <1>7 DEF ResetsOf
  <2>3. CASE req[r].stage = "lost"
    <3>1. req'[r].stage = "lost"
      BY <2>3, <1>1 DEF ActedOn
    <3> QED BY <3>1, <2>1, <2>2, <1>1 DEF ReasonOf
  <2>4. CASE Pending(r, "disable", n, "Enabled", calls)
    <3>1. c # Call(r, "disable", n, "Enabled")
      BY <1>7, CallFields
    <3>2. Pending(r, "disable", n, "Enabled", calls')
      BY <2>4, <3>1, <1>1
    <3> QED BY <3>2, <2>1, <2>2, <1>1 DEF ReasonOf
  <2> QED BY <2>3, <2>4, <1>1, <1>7
<1>8. CASE n = c.node /\ c.op = "disable"
  <2>1. x # r
    BY <1>1, <1>6, <1>8
  <2>2. ResetsOf(req'[r], n)
    BY <1>1, <1>4, <1>8 DEF ResetsOf
  <2>3. policy'[n].enabled = Default
    BY <1>8 DEF Acts
  <2>4. Busy(x)
    BY <2>3, <1>3
  <2>5. <<x, r>> \in overlap'
    BY <2>1, <2>4, <1>1 DEF IInv, OverlapInv
  <2> QED BY <2>1, <2>2, <2>5, <1>1 DEF ReasonOf
<1>9. CASE ~(n = c.node /\ c.op = "set" /\ c.arg = L) /\ ~(n = c.node /\ c.op \in {"update", "disable"})
  <2>1. policy[n].limit = Default
    BY <1>9 DEF Acts
  <2>2. policy'[n].enabled = policy[n].enabled \/ (n = c.node /\ policy'[n].enabled = r)
    BY <1>9 DEF Acts
  <2>3. policy[n].enabled = x \/ (Busy(x) /\ Exists(n))
    <3>1. Exists(n)' <=> Exists(n)
      BY DEF Exists
    <3> QED BY <3>1, <2>2, <1>1
  <2>4. Reason(n, x)
    BY <2>1, <2>3, <1>4, <1>6, <1>9 DEF IInv, KeptInv
  <2>5. PICK s \in Requests \ {x} :
          /\ ResetsOf(req[s], n)
          /\ \/ <<x, s>> \in overlap \/ Pending(s, "disable", n, "Enabled", calls)
             \/ <<n, "disable", "Enabled">> \in req[s].failed \/ req[s].stage = "lost"
    BY <2>4, ReasonIs DEF ReasonOf
  <2>6. ResetsOf(req'[s], n)
    <3>1. TargetsOf(req'[s]) = TargetsOf(req[s])
      BY DEF ActedOn
    <3> QED BY <2>5, <3>1 DEF ResetsOf
  <2>7. c # Call(s, "disable", n, "Enabled")
    BY <1>9, CallFields
  <2>8. \/ <<x, s>> \in overlap' \/ Pending(s, "disable", n, "Enabled", calls')
        \/ <<n, "disable", "Enabled">> \in req'[s].failed \/ req'[s].stage = "lost"
    BY <2>5, <2>7 DEF ActedOn
  <2> QED BY <2>6, <2>8 DEF ReasonOf
<1> QED BY <1>5, <1>7, <1>8, <1>9, <1>2

LEMMA StaysActed ==
  ASSUME IInv, calls # << >>, NEW c, c = Head(calls), Modifies(c), Acts(c, policy, policy'),
         changes' = changes, \A s \in Requests : ActedOn(s, req[s], req'[s], c)
  PROVE  Stays1'
<1> SUFFICES ASSUME changes' = 0, NEW x \in Requests, NEW n \in Nodes,
                    GivesLimit(x, n)', ~Excuse(x)'
             PROVE  /\ <<n, "set", L>> \in req'[x].done => policy'[n].limit = x
                    /\ <<n, "enable", L>> \in req'[x].done => policy'[n].enabled # Default
  BY DEF Stays1
<1> DEFINE r == c.by
<1>1. /\ r \in Requests /\ c \in CallSet /\ req[r].stage \in {"busy", "lost"}
      /\ TargetsOf(req[r]) # {}
      /\ c.op \in {"update", "disable"} =>
           /\ <<c.node, "set", L>> \notin req[r].done /\ <<c.node, "enable", L>> \notin req[r].done
  BY ActorFacts
<1>2. \A s \in Requests : TargetsOf(req'[s]) = TargetsOf(req[s]) /\ req'[s].earlier = req[s].earlier
  BY DEF ActedOn
<1>3. GivesLimit(x, n) /\ ~Excuse(x)
  BY <1>2, GivesIs, ExcuseIs DEF GivesOf, ExcuseOf
<1>4. r = x
  <2> SUFFICES ASSUME r # x PROVE FALSE
    OBVIOUS
  <2>1. r \in req[x].earlier
    BY <1>1, <1>3, ExcuseIs DEF ExcuseOf
  <2>2. req[r].stage = "done"
    BY <2>1, <1>1 DEF IInv, EarlierInv
  <2> QED BY <2>2, <1>1
<1>5. /\ <<n, "set", L>> \in req[x].done => policy[n].limit = x
      /\ <<n, "enable", L>> \in req[x].done => policy[n].enabled # Default
  BY <1>3 DEF IInv, StaysInv
<1>6. Default \notin Requests
  BY PowerControlAssumption
<1>7. \A w \in req'[x].done : w \in req[x].done \/ w = <<c.node, c.op, c.arg>>
  BY DEF ActedOn
<1>8. CASE n # c.node
  <2>1. policy'[n] = policy[n]
    BY <1>8 DEF Acts
  <2>2. <<n, "set", L>> # <<c.node, c.op, c.arg>> /\ <<n, "enable", L>> # <<c.node, c.op, c.arg>>
    BY <1>8
  <2> QED BY <2>1, <2>2, <1>5, <1>7
<1>9. CASE n = c.node
  <2>1. ASSUME <<n, "set", L>> \in req'[x].done PROVE policy'[n].limit = x
    <3>1. CASE c.op = "set" /\ c.arg = L
      BY <3>1, <1>4, <1>9 DEF Acts
    <3>2. CASE ~(c.op = "set" /\ c.arg = L)
      <4>1. <<n, "set", L>> # <<c.node, c.op, c.arg>>
        BY <3>2
      <4>2. <<n, "set", L>> \in req[x].done
        BY <4>1, <1>7, <2>1
      <4>3. c.op # "update"
        BY <4>2, <1>1, <1>4, <1>9
      <4>4. policy'[n].limit = policy[n].limit
        BY <4>3, <3>2, <1>9 DEF Acts
      <4> QED BY <4>2, <4>4, <1>5
    <3> QED BY <3>1, <3>2
  <2>2. ASSUME <<n, "enable", L>> \in req'[x].done PROVE policy'[n].enabled # Default
    <3>1. CASE c.op = "enable"
      BY <3>1, <1>4, <1>6, <1>9 DEF Acts
    <3>2. CASE c.op # "enable"
      <4>1. <<n, "enable", L>> # <<c.node, c.op, c.arg>>
        BY <3>2
      <4>2. <<n, "enable", L>> \in req[x].done
        BY <4>1, <1>7, <2>2
      <4>3. c.op # "disable"
        BY <4>2, <1>1, <1>4, <1>9
      <4>4. policy'[n].enabled = policy[n].enabled
        BY <4>3, <3>2, <1>9 DEF Acts
      <4> QED BY <4>2, <4>4, <1>5
    <3> QED BY <3>1, <3>2
  <2> QED BY <2>1, <2>2
<1> QED BY <1>8, <1>9

\* A turn in which the service carries out the call at the head of the queue.
LEMMA TurnActed ==
  ASSUME IInv, calls # << >>, NEW c, c = Head(calls), Modifies(c), Exists(c.node), Effect(c),
         NEW q2, NEW W, Turn(c.by, q2, W),
         UNCHANGED <<present, crashed, changes, overlap>>,
         faults' \in Nat /\ faults' + changes <= MaxFaults,
         ActedOn(c.by, req[c.by], q2, c), Sees(req[c.by], q2),
         \A n \in Nodes : Pending(c.by, "disable", n, "Enabled", calls) =>
           c = Call(c.by, "disable", n, "Enabled") \/ Pending(c.by, "disable", n, "Enabled", W),
         changes = 0 /\ SameOf(req[c.by], present) => SameOf(q2, present)
  PROVE  IInv'
<1> DEFINE r == c.by
<1>1. Turned(r, q2)
  BY TurnReq
<1>2. r \in Requests /\ calls' = W /\ c \in CallSet
  BY ActorFacts DEF Turn
<1>3. req'[r] = q2 /\ \A s \in Requests \ {r} : req'[s] = req[s]
  BY <1>1 DEF Turned
<1>a. Acts(c, policy, policy')
  BY <1>2, EffectActs DEF IInv, TypeInv
<1>4. TypeInv'
  BY <1>1, <1>a DEF IInv, TypeInv, Turned, Acts
<1>5. \A s \in Requests : ActedOn(s, req[s], req'[s], c)
  <2>1. \A s \in Requests \ {r} : ActedOn(s, req[s], req'[s], c)
    BY <1>3 DEF ActedOn
  <2> QED BY <2>1, <1>3
<1>6. \A s \in Requests : Sees(req[s], req'[s])
  <2>1. \A s \in Requests \ {r} : Sees(req[s], req'[s])
    BY <1>3 DEF Sees
  <2> QED BY <2>1, <1>3
<1>7. SameInv'
  BY <1>3, SameIs DEF IInv
<1>8. KeptInv'
  <2>1. \A s \in Requests, n \in Nodes : Pending(s, "disable", n, "Enabled", calls) =>
           c = Call(s, "disable", n, "Enabled") \/ Pending(s, "disable", n, "Enabled", calls')
    <3>1. \A s \in Requests \ {r}, n \in Nodes : Pending(s, "disable", n, "Enabled", calls) =>
            Pending(s, "disable", n, "Enabled", calls')
      BY <1>1 DEF Turned
    <3> QED BY <3>1, <1>2
  <2>2. \A s \in Requests : Busy(s)' => Busy(s)
    BY <1>1 DEF Turned
  <2> QED BY <2>1, <2>2, <1>5, <1>a, KeptActed
<1>9. StaysInv'
  BY <1>5, <1>6, <1>a, StaysActed, SeenStep, StaysSplit
<1>10. (\A s \in Requests : ReqInv(s, req[s], calls))'
  BY <1>1 DEF Turned
<1> QED BY <1>1, <1>4, <1>7, <1>8, <1>9, <1>10 DEF IInv, Turned

-----------------------------------------------------------------------------
(* The service answers *)

LEMMA HeadFacts ==
  ASSUME IInv, calls # << >>, NEW c, c = Head(calls)
  PROVE  /\ c \in CallSet /\ c.by \in Requests /\ c.node \in Nodes /\ c.op \in Ops /\ c.arg \in Args
         /\ req[c.by] \in Request /\ ReqInv(c.by, req[c.by], calls) /\ Fits(c, req[c.by])
         /\ Tail(calls) \in Seq(CallSet) /\ calls \in Seq(CallSet)
<1>1. calls \in Seq(CallSet) /\ req \in [Requests -> Request]
  BY DEF IInv, TypeInv
<1>2. c \in CallSet /\ c = calls[1] /\ 1 \in DOMAIN calls /\ Tail(calls) \in Seq(CallSet)
  BY <1>1, TailFacts
<1>3. c.by \in Requests /\ c.node \in Nodes /\ c.op \in Ops /\ c.arg \in Args
  BY <1>2 DEF CallSet
<1>4. ReqInv(c.by, req[c.by], calls)
  BY <1>3 DEF IInv
<1>5. Fits(c, req[c.by])
  BY <1>2, <1>4 DEF ReqInv, FitsInv
<1> QED BY <1>1, <1>2, <1>3, <1>4, <1>5

\* The callback of the call at the head of the queue makes rec of its request, and the calls X.
LEMMA ServedTurn ==
  ASSUME IInv, calls # << >>, NEW c, c = Head(calls), req[c.by].stage = "busy",
         NEW rec \in Request, Ident(rec, req[c.by]), NEW X \in Seq(CallSet),
         \A i \in DOMAIN X : X[i].by = c.by, Continue(c.by, rec, Tail(calls) \o X),
         ReqInv(c.by, After(c.by, rec, Tail(calls) \o X), Tail(calls) \o X)
  PROVE  Turn(c.by, After(c.by, rec, Tail(calls) \o X), Tail(calls) \o X)
<1>1. calls \in Seq(CallSet) /\ c.by \in Requests
  BY HeadFacts
<1> DEFINE T == Tail(calls)
<1>2. /\ T \o X \in Seq(CallSet)
      /\ \A s \in Requests \ {c.by} : \E k \in Int : Shift(s, calls, T \o X, k)
  BY <1>1, OthersShift
<1> QED BY <1>1, <1>2, CloseTurn

LEMMA FollowUpIs ==
  ASSUME NEW c \in CallSet
  PROVE  /\ FollowUp(c) \in Seq(CallSet)
         /\ \A i \in DOMAIN FollowUp(c) :
              c.op = "set" /\ FollowUp(c)[i] = Call(c.by, "enable", c.node, c.arg)
         /\ c.op = "set" => Pending(c.by, "enable", c.node, c.arg, FollowUp(c))
<1> DEFINE e == [c EXCEPT !.op = "enable"]
<1>1. e = Call(c.by, "enable", c.node, c.arg) /\ e \in CallSet
  BY DEF CallSet, Call, Ops
<1> HIDE DEF e
<1>2. CASE c.op = "set"
  <2>1. FollowUp(c) = <<e>>
    BY <1>2 DEF FollowUp, e
  <2>2. <<e>> \in Seq(CallSet) /\ DOMAIN <<e>> = {1} /\ <<e>>[1] = e
    BY <1>1
  <2> QED BY <2>1, <2>2, <1>1, <1>2 DEF Pending
<1>3. CASE c.op # "set"
  <2>1. FollowUp(c) = << >> /\ << >> \in Seq(CallSet) /\ DOMAIN << >> = {}
    BY <1>3 DEF FollowUp
  <2> QED BY <2>1, <1>3
<1> QED BY <1>2, <1>3

LEMMA ModifyStep ==
  ASSUME IInv, ServeModify
  PROVE  IInv'
<1> DEFINE c == Head(calls)
           r == c.by
           q == req[r]
           w == <<c.node, c.op, c.arg>>
           D == q.done \cup {w}
           rec == [q EXCEPT !.done = D]
           X == FollowUp(c)
           W == Tail(calls) \o X
           q2 == After(r, rec, W)
<1>1. /\ calls # << >> /\ Modifies(c) /\ q.stage = "busy" /\ Exists(c.node) /\ Effect(c)
      /\ Continue(r, rec, W)
      /\ UNCHANGED <<present, crashed, faults, changes, overlap>>
  BY DEF ServeModify
<1>2. /\ c \in CallSet /\ r \in Requests /\ c.node \in Nodes /\ c.op \in Ops /\ c.arg \in Args
      /\ q \in Request /\ ReqInv(r, q, calls) /\ Fits(c, q)
      /\ Tail(calls) \in Seq(CallSet) /\ calls \in Seq(CallSet)
  BY <1>1, HeadFacts
<1>x. /\ X \in Seq(CallSet)
      /\ \A i \in DOMAIN X : c.op = "set" /\ X[i] = Call(r, "enable", c.node, c.arg)
      /\ c.op = "set" => Pending(r, "enable", c.node, c.arg, X)
  BY <1>2, FollowUpIs
<1>w. w \in Deeds /\ w = <<c.node, c.op, c.arg>>
  BY <1>2 DEF Deeds
<1>d. D \in SUBSET Deeds /\ D = q.done \cup {w}
  BY <1>2, <1>w DEF Request
<1>c. c = Head(calls) /\ r = c.by /\ q = req[r] /\ W = Tail(calls) \o X
  OBVIOUS
<1> HIDE DEF c, r, q, w, D, X, W
<1>3. rec \in Request
  BY <1>2, <1>d DEF Request
<1>4. /\ Ident(rec, q) /\ rec.lookups = q.lookups /\ rec.comps = q.comps /\ rec.layout = q.layout
      /\ rec.listed = q.listed /\ rec.done = D /\ rec.status = q.status /\ rec.shown = q.shown
      /\ rec.failed = q.failed
  BY <1>2 DEF Request, Ident
<1>5. Closes(q2, rec, r, W)
  BY <1>3, AfterCloses
<1>q. q2 = After(r, rec, W)
  OBVIOUS
<1> HIDE DEF rec, q2
<1>6. TargetsOf(rec) = TargetsOf(q)
  BY <1>4, SameTargets
<1>7. \A i \in DOMAIN X : X[i].by = r /\ X[i].op = "enable" /\ Fits(X[i], rec)
  <2> SUFFICES ASSUME NEW i \in DOMAIN X PROVE X[i].by = r /\ X[i].op = "enable" /\ Fits(X[i], rec)
    OBVIOUS
  <2>1. c.op = "set" /\ X[i].by = r /\ X[i].op = "enable" /\ X[i].node = c.node /\ X[i].arg = c.arg
    BY <1>x, CallFields
  <2>2. c.arg \in LimitProps /\ Valued(q, c.node, c.arg)
    BY <1>2, <2>1 DEF Fits
  <2>3. Valued(rec, c.node, c.arg) /\ <<c.node, "set", c.arg>> \in rec.done
    BY <2>1, <2>2, <1>4, <1>6, <1>d, <1>w DEF Valued
  <2> QED BY <2>1, <2>2, <2>3 DEF Fits
<1>m. c.op \in {"set", "storage", "update", "disable", "enable"}
  BY <1>1 DEF Modifies
<1>8. Served(r, q, calls, X, rec, q2)
  BY <1>1, <1>c, <1>d, <1>w, <1>m, <1>4, <1>5, <1>7 DEF Served
<1>9. ReqInv(r, q2, W)
  BY <1>1, <1>2, <1>8, <1>c, <1>x, <1>4, <1>d, <1>w, ServedCall
<1>10. Turn(r, q2, W)
  <2>1. Continue(r, rec, Tail(calls) \o X) /\ ReqInv(r, After(r, rec, Tail(calls) \o X), Tail(calls) \o X)
    BY <1>1, <1>9, <1>c, <1>q
  <2> QED BY <2>1, <1>1, <1>3, <1>4, <1>7, <1>x, <1>c, <1>q, ServedTurn
<1>11. /\ Ident(q2, q) /\ q2.comps = q.comps /\ q2.layout = q.layout /\ q2.listed = q.listed
       /\ q2.done = D /\ q2.shown = q.shown /\ q2.failed = q.failed
  BY <1>4, <1>5 DEF Closes, Ident
<1>12. TargetsOf(q2) = TargetsOf(q)
  BY <1>11, SameTargets
<1>13. ActedOn(r, q, q2, c)
  BY <1>1, <1>11, <1>12, <1>c, <1>d, <1>w DEF ActedOn, Ident
<1>14. Sees(q, q2)
  BY <1>1, <1>11, <1>12 DEF Sees, Ident
<1>15. \A n \in Nodes : Pending(r, "disable", n, "Enabled", calls) =>
         c = Call(r, "disable", n, "Enabled") \/ Pending(r, "disable", n, "Enabled", W)
  BY <1>1, <1>2, <1>c, <1>x, PendingTail, PendingConcat
<1>16. SameOf(q, present) => SameOf(q2, present)
  <2>1. w[1] \in NodesOf(present)
    BY <1>1, <1>w DEF Exists
  <2>2. \A v \in q2.done : v \in q.done \/ v = w
    BY <1>11, <1>d
  <2> QED BY <2>1, <2>2, <1>11 DEF SameOf, Ident
<1>17. faults' \in Nat /\ faults' + changes <= MaxFaults
  BY <1>1 DEF IInv, TypeInv
<1> QED BY <1>1, <1>10, <1>13, <1>14, <1>15, <1>16, <1>17, <1>c, TurnActed

LEMMA ShapeIn ==
  ASSUME NEW q \in Request, NEW r, NEW T
  PROVE  Shape(q, r, T) \in {"array", "node", "mixed"}
BY DEF Shape, Request

\* What a read that succeeded makes of the response.
ReadRec(q, sh, m, a) ==
  LET rec == [q EXCEPT !.shape = sh] IN
  IF a = "powerLimit"
  THEN [rec EXCEPT !.shown = [n \in DOMAIN @ \cup {m} |-> IF n = m THEN getPowerLimit(n) ELSE @[n]]]
  ELSE rec

ReadIs(rec, q, sh) ==
  /\ rec \in Request /\ Ident(rec, q) /\ rec.lookups = q.lookups
  /\ rec.comps = q.comps /\ rec.layout = q.layout /\ rec.shape = sh
  /\ rec.listed = q.listed /\ rec.done = q.done /\ rec.failed = q.failed
  /\ \A n \in DOMAIN rec.shown :
       \/ n \in DOMAIN q.shown /\ rec.shown[n] = q.shown[n]
       \/ n \in Nodes /\ rec.shown[n] = getPowerLimit(n)

LEMMA ReadRecord ==
  ASSUME TypeInv, NEW q \in Request, NEW sh \in {"array", "node", "mixed"}, NEW m \in Nodes, NEW a
  PROVE  ReadIs(ReadRec(q, sh, m, a), q, sh)
<1> DEFINE rec == [q EXCEPT !.shape = sh]
           S == [n \in DOMAIN q.shown \cup {m} |-> IF n = m THEN getPowerLimit(n) ELSE q.shown[n]]
           R == [rec EXCEPT !.shown = S]
<1>1. rec \in Request /\ rec.shown = q.shown
  BY DEF Request
<1>2. /\ Ident(rec, q) /\ rec.lookups = q.lookups
      /\ rec.comps = q.comps /\ rec.layout = q.layout /\ rec.shape = sh
      /\ rec.listed = q.listed /\ rec.done = q.done /\ rec.failed = q.failed
  BY DEF Request, Ident
<1>3. PICK N \in SUBSET Nodes : q.shown \in [N -> Writers]
  BY DEF Request, Shown
<1>4. getPowerLimit(m) \in Writers
  BY DEF getPowerLimit, TypeInv, Writers
<1>5. N \cup {m} \in SUBSET Nodes /\ S \in [N \cup {m} -> Writers]
  BY <1>3, <1>4
<1>6. S \in Shown
  BY <1>5 DEF Shown
<1>7. \A n \in DOMAIN S :
        \/ n \in DOMAIN q.shown /\ S[n] = q.shown[n]
        \/ n \in Nodes /\ S[n] = getPowerLimit(n)
  OBVIOUS
<1>8. [rec EXCEPT !.shown = [n \in DOMAIN @ \cup {m} |-> IF n = m THEN getPowerLimit(n) ELSE @[n]]] = R
  BY <1>1
<1> HIDE DEF S
<1>9. R \in Request
  BY <1>1, <1>6 DEF Request
<1>10. /\ R.shown = S /\ Ident(R, rec) /\ R.lookups = rec.lookups
       /\ R.comps = rec.comps /\ R.layout = rec.layout /\ R.shape = rec.shape
       /\ R.listed = rec.listed /\ R.done = rec.done /\ R.failed = rec.failed
  BY <1>1 DEF Request, Ident
<1> HIDE DEF R, rec
<1>11. CASE a = "powerLimit"
  <2>1. Ident(R, q)
    BY <1>2, <1>10 DEF Ident
  <2>2. \A n \in DOMAIN R.shown :
          \/ n \in DOMAIN q.shown /\ R.shown[n] = q.shown[n]
          \/ n \in Nodes /\ R.shown[n] = getPowerLimit(n)
    BY <1>7, <1>10
  <2>3. ReadIs(R, q, sh)
    BY <1>2, <1>9, <1>10, <2>1, <2>2 DEF ReadIs
  <2>4. ReadRec(q, sh, m, a) = R
    BY <1>8, <1>11 DEF ReadRec, rec
  <2> QED BY <2>3, <2>4
<1>12. CASE a # "powerLimit"
  <2>1. \A n \in DOMAIN rec.shown : n \in DOMAIN q.shown /\ rec.shown[n] = q.shown[n]
    BY <1>1
  <2>2. ReadIs(rec, q, sh)
    BY <1>1, <1>2, <2>1 DEF ReadIs
  <2>3. ReadRec(q, sh, m, a) = rec
    BY <1>12 DEF ReadRec, rec
  <2> QED BY <2>2, <2>3
<1> QED BY <1>11, <1>12

LEMMA ReadStep ==
  ASSUME IInv, ServeRead
  PROVE  IInv'
<1> DEFINE c == Head(calls)
           r == c.by
           q == req[r]
           T == Tail(calls)
           X == << >>
           W == T \o X
           sh == Shape(q, r, T)
           rec == ReadRec(q, sh, c.node, c.arg)
           q2 == After(r, rec, W)
<1>1. /\ calls # << >> /\ c.op = "read" /\ q.stage = "busy" /\ Exists(c.node)
      /\ Continue(r, rec, T)
      /\ UNCHANGED <<present, policy, crashed, faults, changes, overlap>>
  BY DEF ServeRead, ReadRec
<1>2. /\ c \in CallSet /\ r \in Requests /\ c.node \in Nodes
      /\ q \in Request /\ ReqInv(r, q, calls)
      /\ T \in Seq(CallSet) /\ calls \in Seq(CallSet)
  BY <1>1, HeadFacts
<1>3. sh \in {"array", "node", "mixed"}
  BY <1>2, ShapeIn
<1>c. c = Head(calls) /\ r = c.by /\ q = req[r] /\ T = Tail(calls) /\ W = T \o X /\ X = << >> /\ sh = Shape(q, r, T)
  OBVIOUS
<1>w. W = T /\ X \in Seq(CallSet) /\ DOMAIN X = {}
  BY <1>2, ConcatNone
<1> HIDE DEF c, r, q, T, W, sh, X
<1>4. TypeInv
  BY DEF IInv
<1>5. /\ rec \in Request /\ Ident(rec, q) /\ rec.lookups = q.lookups
      /\ rec.comps = q.comps /\ rec.layout = q.layout /\ rec.shape = sh
      /\ rec.listed = q.listed /\ rec.done = q.done /\ rec.failed = q.failed
      /\ \A n \in DOMAIN rec.shown :
                 \/ n \in DOMAIN q.shown /\ rec.shown[n] = q.shown[n]
                 \/ n \in Nodes /\ rec.shown[n] = getPowerLimit(n)
  BY <1>2, <1>3, <1>4, ReadRecord DEF ReadIs
<1> HIDE DEF rec
<1>6. Closes(q2, rec, r, W)
  BY <1>5, AfterCloses
<1>q. q2 = After(r, rec, W)
  OBVIOUS
<1> HIDE DEF q2
<1>7. Served(r, q, calls, X, rec, q2)
  BY <1>1, <1>5, <1>6, <1>c, <1>w DEF Served
<1>8. ReqInv(r, q2, W)
  <2>1. Served(r, q, calls, << >>, rec, q2)
    BY <1>7, <1>c
  <2>2. ReqInv(r, q2, Tail(calls) \o << >>)
    BY <2>1, <1>1, <1>2, <1>5, <1>c, ServedRead
  <2> QED BY <2>2, <1>c
<1>9. Turn(r, q2, W)
  <2>1. Continue(r, rec, Tail(calls) \o X) /\ ReqInv(r, After(r, rec, Tail(calls) \o X), Tail(calls) \o X)
    BY <1>1, <1>8, <1>c, <1>q, <1>w
  <2> QED BY <2>1, <1>1, <1>5, <1>c, <1>q, <1>w, ServedTurn
<1>10. /\ Ident(q2, q) /\ q2.comps = q.comps /\ q2.layout = q.layout /\ q2.listed = q.listed
       /\ q2.done = q.done /\ q2.shown = rec.shown /\ q2.failed = q.failed
  BY <1>5, <1>6 DEF Closes, Ident
<1>11. TargetsOf(q2) = TargetsOf(q)
  BY <1>10, SameTargets
<1>12. Grows(q, q2)
  BY <1>1, <1>10, <1>11 DEF Grows, Ident
<1>13. Sees(q, q2)
  BY <1>1, <1>5, <1>10, <1>11 DEF Sees, Ident
<1>14. DisablesKept(r, q2, W)
  <2> SUFFICES ASSUME NEW n \in Nodes, Pending(r, "disable", n, "Enabled", calls)
               PROVE  Pending(r, "disable", n, "Enabled", W)
    BY DEF DisablesKept
  <2>1. c # Call(r, "disable", n, "Enabled")
    BY <1>1, CallFields
  <2> QED BY <2>1, <1>1, <1>2, <1>c, <1>w, PendingTail
<1>15. SameOf(q, present) => SameOf(q2, present)
  BY <1>10 DEF SameOf, Ident
<1>16. faults' \in Nat /\ faults' + changes <= MaxFaults
  BY <1>1 DEF IInv, TypeInv
<1> QED BY <1>1, <1>9, <1>12, <1>13, <1>14, <1>15, <1>16, <1>c, TurnNeutral

LEMMA ErrorResponse ==
  ASSUME NEW c \in CallSet, NEW q \in Request, NEW rec \in ErrorResponses(c, q)
  PROVE  /\ Same(rec, q) /\ rec.lookups = q.lookups
         /\ c.op \in {"set", "storage", "enable"} => rec.status = "badRequest"
         /\ c.op \in {"update", "disable"} => rec.status = q.status
<1>1. "internalError" \in Statuses /\ "badRequest" \in Statuses
  BY DEF Statuses
<1>2. c.op \in Ops
  BY DEF CallSet
<1>3. CASE c.op = "components"
  <2>1. rec = componentsError(q)
    BY <1>3 DEF ErrorResponses
  <2> QED BY <2>1, <1>3, ErrorIs
<1>4. CASE c.op = "read"
  <2>1. rec = q \/ rec = Status(q, "internalError")
    BY <1>4 DEF ErrorResponses
  <2> QED BY <2>1, <1>1, <1>4, SameRefl, StatusIs
<1>5. CASE c.op \in {"set", "storage", "enable"}
  <2>1. rec = Status(q, "badRequest")
    BY <1>5 DEF ErrorResponses
  <2> QED BY <2>1, <1>1, <1>5, StatusIs
<1>6. CASE c.op \in {"update", "disable"}
  <2>1. rec = q
    BY <1>6 DEF ErrorResponses
  <2> QED BY <2>1, <1>6, SameRefl
<1> QED BY <1>2, <1>3, <1>4, <1>5, <1>6 DEF Ops

ErrorRec(rec0, sh, F) == [rec0 EXCEPT !.shape = sh, !.failed = F]

ErrorIsRec(rec, rec0, sh, F) ==
  /\ rec \in Request /\ Ident(rec, rec0) /\ rec.lookups = rec0.lookups
  /\ rec.comps = rec0.comps /\ rec.layout = rec0.layout /\ rec.shape = sh
  /\ rec.shown = rec0.shown /\ rec.status = rec0.status
  /\ rec.listed = rec0.listed /\ rec.done = rec0.done /\ rec.failed = F

LEMMA ErrorRecord ==
  ASSUME NEW rec0 \in Request, NEW sh \in {"array", "node", "mixed"}, NEW F \in SUBSET Deeds
  PROVE  ErrorIsRec(ErrorRec(rec0, sh, F), rec0, sh, F)
<1> DEFINE rec == [rec0 EXCEPT !.shape = sh, !.failed = F]
<1>1. rec \in Request
  BY DEF Request
<1>2. /\ Ident(rec, rec0) /\ rec.lookups = rec0.lookups
      /\ rec.comps = rec0.comps /\ rec.layout = rec0.layout /\ rec.shape = sh
      /\ rec.shown = rec0.shown /\ rec.status = rec0.status
      /\ rec.listed = rec0.listed /\ rec.done = rec0.done /\ rec.failed = F
  BY DEF Request, Ident
<1>3. ErrorRec(rec0, sh, F) = rec
  BY DEF ErrorRec
<1> HIDE DEF rec
<1> QED BY <1>1, <1>2, <1>3 DEF ErrorIsRec

\* An error of the call c of r makes rec of the request, in the queue T.
Errs(rec, q, c, r, T) ==
  /\ rec \in Request /\ Ident(rec, q) /\ rec.lookups = q.lookups /\ rec.comps = q.comps
  /\ rec.layout = q.layout /\ rec.listed = q.listed /\ rec.done = q.done
  /\ rec.shape = IF c.op = "read" /\ q.shape = "array" THEN Shape(q, r, T) ELSE q.shape
  /\ c.op \in {"set", "storage", "enable"} => rec.status = "badRequest"
  /\ c.op \in {"update", "disable"} => rec.status = q.status

LEMMA ErrorReq ==
  ASSUME NEW Q \in Seq(CallSet), Q # << >>, NEW c, c = Head(Q), NEW r, r = c.by,
         NEW q \in Request, q.stage = "busy", ReqInv(r, q, Q), NEW rec, NEW q2,
         Errs(rec, q, c, r, Tail(Q)),
         Closes(q2, rec, r, Tail(Q))
  PROVE  ReqInv(r, q2, Tail(Q))
<1> DEFINE T == Tail(Q)
           X == << >>
<1>1. /\ T \in Seq(CallSet) /\ c = Q[1] /\ 1 \in DOMAIN Q /\ c \in CallSet
      /\ \A i \in DOMAIN T : i + 1 \in DOMAIN Q /\ T[i] = Q[i + 1]
  BY TailFacts
<1>2. T \o X = T /\ X \in Seq(CallSet) /\ DOMAIN X = {}
  BY <1>1, ConcatNone
<1>3. c.op \in Ops /\ Fits(c, q)
  BY <1>1 DEF CallSet, ReqInv, FitsInv
<1>t. T = Tail(Q) /\ X = << >>
  OBVIOUS
<1>r. /\ rec \in Request /\ Ident(rec, q) /\ rec.lookups = q.lookups /\ rec.comps = q.comps
      /\ rec.layout = q.layout /\ rec.listed = q.listed /\ rec.done = q.done
      /\ rec.shape = IF c.op = "read" /\ q.shape = "array" THEN Shape(q, r, Tail(Q)) ELSE q.shape
      /\ c.op \in {"set", "storage", "enable"} => rec.status = "badRequest"
      /\ c.op \in {"update", "disable"} => rec.status = q.status
  BY DEF Errs
<1> HIDE DEF T, X
<1>4. CASE c.op = "components"
  <2>1. Early(q) /\ q.lookups \cap Main = {}
    BY <1>3, <1>4 DEF Fits
  <2>2. Early(rec)
    BY <2>1, <1>4, <1>r DEF Early
  <2>3. BodyInv(rec)
    BY <1>r, SameTargets DEF ReqInv
  <2>4. Asking(rec)
    BY <2>1, <1>r DEF Asking, ReqInv, EarlyInv, Ident
  <2>5. Quiet(r, T)
    <3> SUFFICES ASSUME NEW i \in DOMAIN T, T[i].by = r PROVE FALSE
      BY DEF Quiet
    <3>1. i + 1 \in DOMAIN Q /\ Q[i + 1].by = r
      BY <1>1
    <3>2. 1 = i + 1
      BY <3>1, <1>1, <1>4 DEF ReqInv, EarlyInv
    <3> QED BY <3>2, <1>1
  <2> QED BY <2>2, <2>3, <2>4, <2>5, <1>t, EarlyQuiet
<1>5. ASSUME c.op # "components" PROVE Served(r, q, Q, X, rec, q2)
  BY <1>2, <1>5, <1>t, <1>r DEF Served
<1>6. CASE c.op = "read"
  <2>1. Served(r, q, Q, << >>, rec, q2)
    BY <1>5, <1>6, <1>t
  <2>2. ReqInv(r, q2, Tail(Q) \o << >>)
    BY <2>1, <1>6, <1>r, ServedRead
  <2> QED BY <2>2, <1>2, <1>t
<1>7. CASE c.op \notin {"components", "read"}
  <2>1. Modifies(c)
    BY <1>3, <1>7 DEF Ops, Modifies
  <2>2. rec.status = "no_content" => q.status = "no_content" /\ c.op \notin {"set", "storage", "enable"}
    BY <2>1, <1>r DEF Modifies
  <2>3. Served(r, q, Q, X, rec, q2)
    BY <1>5, <1>7
  <2>4. ReqInv(r, q2, Tail(Q) \o X)
    BY <2>1, <2>2, <2>3, <1>2, ServedCall
  <2> QED BY <2>4, <1>2, <1>t
<1> QED BY <1>4, <1>6, <1>7

LEMMA ErrorStep ==
  ASSUME IInv, ServeError
  PROVE  IInv'
<1> DEFINE c == Head(calls)
           r == c.by
           q == req[r]
           T == Tail(calls)
           X == << >>
           W == T \o X
           w == <<c.node, c.op, c.arg>>
           sh == IF c.op = "read" /\ q.shape = "array" THEN Shape(q, r, T) ELSE q.shape
<1>1. /\ calls # << >> /\ q.stage = "busy"
      /\ UNCHANGED <<present, crashed, changes, overlap>>
      /\ UNCHANGED policy \/ (Modifies(c) /\ Exists(c.node) /\ Effect(c))
      /\ \/ faults + changes < MaxFaults /\ faults' = faults + 1
         \/ UNCHANGED faults
  BY DEF ServeError
<1>2. /\ c \in CallSet /\ r \in Requests /\ c.node \in Nodes /\ c.op \in Ops /\ c.arg \in Args
      /\ q \in Request /\ ReqInv(r, q, calls)
      /\ T \in Seq(CallSet) /\ calls \in Seq(CallSet)
  BY <1>1, HeadFacts
<1>3. PICK rec0 \in ErrorResponses(c, q) :
        Continue(r, [rec0 EXCEPT !.shape = sh, !.failed = IF Modifies(c) THEN @ \cup {w} ELSE @], T)
  BY DEF ServeError
<1>4. sh \in {"array", "node", "mixed"}
  <2>1. q.shape \in {"array", "node", "mixed"}
    BY <1>2 DEF Request
  <2> QED BY <2>1, <1>2, ShapeIn
<1>w. W = T /\ X \in Seq(CallSet) /\ DOMAIN X = {}
  BY <1>2, ConcatNone
<1>e. w \in Deeds /\ w = <<c.node, c.op, c.arg>>
  BY <1>2 DEF Deeds
<1>c. c = Head(calls) /\ r = c.by /\ q = req[r] /\ T = Tail(calls) /\ W = T \o X
  OBVIOUS
<1>s. sh = IF c.op = "read" /\ q.shape = "array" THEN Shape(q, r, T) ELSE q.shape
  OBVIOUS
<1> HIDE DEF c, r, q, T, W, sh, X, w
<1>5. /\ Same(rec0, q) /\ rec0.lookups = q.lookups
      /\ c.op \in {"set", "storage", "enable"} => rec0.status = "badRequest"
      /\ c.op \in {"update", "disable"} => rec0.status = q.status
  BY <1>2, ErrorResponse
<1>6. rec0 \in Request /\ rec0.failed = q.failed
  BY <1>5 DEF Same
<1> DEFINE F == IF Modifies(c) THEN q.failed \cup {w} ELSE q.failed
           rec == ErrorRec(rec0, sh, F)
<1>7. Continue(r, rec, T)
  <2>1. [rec0 EXCEPT !.shape = sh, !.failed = IF Modifies(c) THEN @ \cup {w} ELSE @] = rec
    BY <1>6 DEF Request, ErrorRec
  <2> QED BY <2>1, <1>3
<1>8. F \in SUBSET Deeds /\ q.failed \subseteq F /\ (Modifies(c) => w \in F)
  BY <1>2, <1>e DEF Request
<1> HIDE DEF F
<1>9. /\ rec \in Request /\ Ident(rec, rec0) /\ rec.lookups = rec0.lookups
      /\ rec.comps = rec0.comps /\ rec.layout = rec0.layout /\ rec.shape = sh
      /\ rec.shown = rec0.shown /\ rec.status = rec0.status
      /\ rec.listed = rec0.listed /\ rec.done = rec0.done /\ rec.failed = F
  BY <1>4, <1>6, <1>8, ErrorRecord DEF ErrorIsRec
<1> HIDE DEF rec
<1>10. /\ Ident(rec, q) /\ rec.lookups = q.lookups /\ rec.comps = q.comps /\ rec.layout = q.layout
       /\ rec.shown = q.shown /\ rec.listed = q.listed /\ rec.done = q.done
  BY <1>5, <1>9 DEF Same, Ident
<1> DEFINE q2 == After(r, rec, W)
<1>11. Closes(q2, rec, r, W)
  BY <1>9, AfterCloses
<1>q. q2 = After(r, rec, W)
  OBVIOUS
<1> HIDE DEF q2
<1>12. ReqInv(r, q2, W)
  <2>1. Closes(q2, rec, r, Tail(calls))
    BY <1>11, <1>c, <1>w
  <2>2. rec.shape = IF c.op = "read" /\ q.shape = "array" THEN Shape(q, r, Tail(calls)) ELSE q.shape
    BY <1>9, <1>s, <1>c
  <2>4. Errs(rec, q, c, r, Tail(calls))
    BY <2>2, <1>5, <1>9, <1>10 DEF Errs
  <2>3. ReqInv(r, q2, Tail(calls))
    BY <2>1, <2>4, <1>1, <1>2, <1>c, ErrorReq
  <2> QED BY <2>3, <1>c, <1>w
<1>13. Turn(r, q2, W)
  <2>1. Continue(r, rec, Tail(calls) \o X) /\ ReqInv(r, After(r, rec, Tail(calls) \o X), Tail(calls) \o X)
    BY <1>7, <1>12, <1>c, <1>q, <1>w
  <2> QED BY <2>1, <1>1, <1>9, <1>10, <1>c, <1>q, <1>w, ServedTurn
<1>14. /\ Ident(q2, q) /\ q2.comps = q.comps /\ q2.layout = q.layout /\ q2.listed = q.listed
       /\ q2.done = q.done /\ q2.shown = q.shown /\ q2.failed = F
  BY <1>9, <1>10, <1>11 DEF Closes, Ident
<1>15. TargetsOf(q2) = TargetsOf(q)
  BY <1>14, SameTargets
<1>16. Sees(q, q2)
  BY <1>1, <1>14, <1>15 DEF Sees, Ident
<1>17. SameOf(q, present) => SameOf(q2, present)
  BY <1>14 DEF SameOf, Ident
<1>18. faults' \in Nat /\ faults' + changes <= MaxFaults
  <2>1. faults \in Nat /\ changes \in Nat /\ faults + changes <= MaxFaults /\ MaxFaults \in Nat
    BY PowerControlAssumption DEF IInv, TypeInv
  <2> QED BY <2>1, <1>1
<1>19. \A n \in Nodes : Pending(r, "disable", n, "Enabled", calls) =>
         c = Call(r, "disable", n, "Enabled") \/ Pending(r, "disable", n, "Enabled", W)
  BY <1>1, <1>2, <1>c, <1>w, PendingTail
<1>20. CASE UNCHANGED policy
  <2>1. Grows(q, q2)
    BY <1>1, <1>8, <1>14, <1>15 DEF Grows, Ident
  <2>2. DisablesKept(r, q2, W)
    <3> SUFFICES ASSUME NEW n \in Nodes, c = Call(r, "disable", n, "Enabled")
                 PROVE  <<n, "disable", "Enabled">> \in q2.failed
      BY <1>19 DEF DisablesKept
    <3>1. c.op = "disable" /\ c.node = n /\ c.arg = "Enabled"
      BY CallFields
    <3> QED BY <3>1, <1>8, <1>14, <1>e DEF Modifies
  <2> QED BY <2>1, <2>2, <1>1, <1>13, <1>16, <1>17, <1>18, <1>20, <1>c, TurnNeutral
<1>21. CASE Modifies(c) /\ Exists(c.node) /\ Effect(c)
  <2>1. ActedOn(r, q, q2, c)
    BY <1>1, <1>8, <1>14, <1>15 DEF ActedOn, Ident
  <2> QED BY <2>1, <1>1, <1>13, <1>16, <1>17, <1>18, <1>19, <1>21, <1>c, TurnActed
<1> QED BY <1>1, <1>20, <1>21

\* A call of a request that is lost leaves the queue.
LEMMA LostTail ==
  ASSUME NEW Q \in Seq(CallSet), Q # << >>, NEW r, NEW q, q.stage = "lost", ReqInv(r, q, Q)
  PROVE  ReqInv(r, q, Tail(Q))
<1> DEFINE T == Tail(Q)
<1>1. /\ T \in Seq(CallSet) /\ DOMAIN T \subseteq Int
      /\ \A i \in DOMAIN T : i + 1 \in DOMAIN Q /\ T[i] = Q[i + 1]
  BY TailFacts
<1>2. ASSUME NEW n
      PROVE  /\ ResetFirst(r, n, Q) => ResetFirst(r, n, T)
             /\ ResetOver(r, n, Q) => ResetOver(r, n, T)
  BY TailOrder
<1>3. Quiet(r, Q) => Quiet(r, T)
  BY TailOrder
<1>t. T = Tail(Q)
  OBVIOUS
<1> HIDE DEF T
<1>4. FitsInv(r, q, T) /\ StageInv(r, q, T) /\ BodyInv(q) /\ ShapeInv(r, q, T) /\ SuccessInv(r, q, T)
  BY <1>1, <1>3 DEF ReqInv, FitsInv, StageInv, ShapeInv, SuccessInv
<1>5. EarlyInv(r, q, T)
  <2>1. q.lookups = {} /\ EarlyInv(r, q, Q)
    BY DEF ReqInv, StageInv
  <2>2. ASSUME NEW i \in DOMAIN T, NEW j \in DOMAIN T,
               T[i].by = r /\ T[j].by = r /\ T[i].op = "components"
        PROVE  i = j
    <3>1. i + 1 = j + 1
      BY <2>1, <2>2, <1>1 DEF EarlyInv
    <3> QED BY <3>1, <1>1
  <2> QED BY <2>1, <2>2 DEF EarlyInv
<1>6. OrderInv(r, q, T)
  <2>1. OrderInv(r, q, Q)
    BY DEF ReqInv
  <2> QED BY <2>1, <1>2 DEF OrderInv
<1> QED BY <1>4, <1>5, <1>6, <1>t DEF ReqInv

LEMMA LostStep ==
  ASSUME IInv, ServeLost
  PROVE  IInv'
<1> DEFINE c == Head(calls)
           r == c.by
           T == Tail(calls)
<1>1. /\ calls # << >> /\ req[r].stage = "lost" /\ calls' = T
      /\ UNCHANGED policy \/ (Exists(c.node) /\ Effect(c))
      /\ UNCHANGED <<present, req, crashed, faults, changes, overlap>>
  BY DEF ServeLost
<1>2. c \in CallSet /\ r \in Requests /\ T \in Seq(CallSet) /\ calls \in Seq(CallSet) /\ c.op \in Ops
  BY <1>1, HeadFacts
<1>c. c = Head(calls) /\ r = c.by /\ T = Tail(calls)
  OBVIOUS
<1> HIDE DEF c, r, T
<1>3. \A s \in Requests : ReqInv(s, req[s], T)
  <2> SUFFICES ASSUME NEW s \in Requests PROVE ReqInv(s, req[s], T)
    OBVIOUS
  <2>1. ReqInv(s, req[s], calls)
    BY DEF IInv
  <2>2. CASE s = r
    BY <2>1, <2>2, <1>1, <1>2, <1>c, LostTail
  <2>3. CASE s # r
    <3>1. Shift(s, calls, T, -1)
      BY <2>3, <1>1, <1>2, <1>c, ShiftTail
    <3> QED BY <2>1, <3>1, <1>2, Frame
  <2> QED BY <2>2, <2>3
<1>4. (\A s \in Requests : ReqInv(s, req[s], calls))'
  BY <1>1, <1>3
<1>5. \A s \in Requests : Busy(s)' => Busy(s)
  <2> SUFFICES ASSUME NEW s \in Requests, Busy(s)' PROVE Busy(s)
    OBVIOUS
  <2>1. Quiet(s, calls) => Quiet(s, T)
    BY <1>1, <1>2, <1>c, TailOrder
  <2> QED BY <2>1, <1>1, BusyIs DEF BusyOf
<1>6. EarlierInv' /\ OverlapInv'
  BY <1>1, <1>5 DEF IInv, EarlierInv, OverlapInv
<1>7. SameInv'
  BY <1>1, SameIs DEF IInv
<1>8. \A s \in Requests, n \in Nodes : Pending(s, "disable", n, "Enabled", calls) =>
        c = Call(s, "disable", n, "Enabled") \/ Pending(s, "disable", n, "Enabled", T)
  BY <1>1, <1>2, <1>c, PendingTail
<1>9. \A s \in Requests : Sees(req[s], req'[s])
  BY <1>1 DEF Sees
<1>10. Stays2'
  BY <1>1, <1>9, SeenStep
<1>11. CASE policy' = policy
  <2>1. TypeInv'
    BY <1>1, <1>2, <1>11 DEF IInv, TypeInv
  <2>2. \A s \in Requests : Grows(req[s], req'[s])
    BY <1>1 DEF Grows
  <2>3. KeptInv'
    <3>1. \A s \in Requests, n \in Nodes : c = Call(s, "disable", n, "Enabled") => s = r
      BY <1>c, CallFields
    <3>2. KeptInv
      BY DEF IInv
    <3>3. \A s \in Requests, n \in Nodes : Pending(s, "disable", n, "Enabled", calls) =>
           \/ Pending(s, "disable", n, "Enabled", calls')
           \/ <<n, "disable", "Enabled">> \in req'[s].failed \/ req'[s].stage = "lost"
      BY <3>1, <1>1, <1>8
    <3> QED BY <3>2, <3>3, <2>2, <1>1, <1>5, <1>11, KeptNeutral
  <2>4. StaysInv
    BY DEF IInv
  <2>5. StaysInv'
    BY <2>2, <2>4, <1>1, <1>10, <1>11, StaysNeutral, StaysSplit
  <2> QED BY <2>1, <2>3, <2>5, <1>4, <1>6, <1>7 DEF IInv
<1>12. CASE Modifies(c) /\ Exists(c.node) /\ Effect(c)
  <2>a. Acts(c, policy, policy')
    BY <1>2, <1>12, EffectActs DEF IInv, TypeInv
  <2>1. TypeInv'
    BY <1>1, <1>2, <2>a DEF IInv, TypeInv, Acts
  <2>2. \A s \in Requests : ActedOn(s, req[s], req'[s], c)
    BY <1>1 DEF ActedOn
  <2>3. KeptInv'
    BY <2>a, <2>2, <1>1, <1>5, <1>8, <1>12, <1>c, KeptActed
  <2>4. StaysInv'
    BY <2>a, <2>2, <1>1, <1>10, <1>12, <1>c, StaysActed, StaysSplit
  <2> QED BY <2>1, <2>3, <2>4, <1>4, <1>6, <1>7 DEF IInv
<1>13. CASE ~Modifies(c) /\ Effect(c)
  <2>1. policy' = policy
    BY <1>13 DEF Modifies, Effect
  <2> QED BY <2>1, <1>11
<1> QED BY <1>1, <1>11, <1>12, <1>13

LEMMA ChangeStep ==
  ASSUME IInv, ChangeComponents
  PROVE  IInv'
<1>1. /\ faults + changes < MaxFaults /\ changes' = changes + 1
      /\ UNCHANGED <<calls, req, crashed, faults, overlap>>
  BY DEF ChangeComponents
<1>2. PICK t \in Topologies :
        /\ present' = t
        /\ policy' = [n \in Nodes |-> IF n \in NodesOf(t) /\ n \in NodesOf(present)
                                      THEN policy[n]
                                      ELSE [limit |-> Default, enabled |-> Default]]
  BY DEF ChangeComponents
<1>3. faults \in Nat /\ changes \in Nat /\ MaxFaults \in Nat
  BY PowerControlAssumption DEF IInv, TypeInv
<1>4. changes' \in Nat /\ changes' # 0 /\ faults + changes' <= MaxFaults /\ (changes' < 2 => changes = 0)
  BY <1>1, <1>3
<1>5. TypeInv'
  <2>1. policy' \in [Nodes -> [limit : Writers, enabled : Writers]]
    BY <1>2 DEF IInv, TypeInv, Writers
  <2> QED BY <2>1, <1>1, <1>2, <1>4 DEF IInv, TypeInv
<1>6. (\A s \in Requests : ReqInv(s, req[s], calls))'
  BY <1>1 DEF IInv
<1>7. EarlierInv' /\ OverlapInv'
  BY <1>1 DEF IInv, EarlierInv, OverlapInv, Busy
<1>8. SameInv' /\ StaysInv'
  BY <1>4 DEF SameInv, StaysInv
<1>9. KeptInv'
  <2> SUFFICES ASSUME changes' < 2, NEW n \in Nodes, NEW x \in Requests,
                      policy'[n].limit = Default, GivesLimit(x, n)', <<n, "set", L>> \in req'[x].done,
                      policy'[n].enabled = x \/ (Busy(x)' /\ Exists(n)')
               PROVE  Reason(n, x)'
    BY DEF KeptInv
  <2>1. changes = 0 /\ changes < 2
    BY <1>4
  <2>2. <<n, "set", L>> \in req[x].done /\ (Busy(x)' <=> Busy(x))
    BY <1>1 DEF Busy
  <2>3. n \in NodesOf(present)
    <3>1. \A w \in req[x].done : Exists(w[1])
      BY <2>1 DEF IInv, SameInv
    <3> DEFINE v == <<n, "set", L>>
    <3>2. v \in req[x].done /\ v[1] = n
      BY <2>2
    <3> HIDE DEF v
    <3> QED BY <3>1, <3>2 DEF Exists
  <2>4. n \in NodesOf(t)
    <3> SUFFICES ASSUME n \notin NodesOf(t) PROVE FALSE
      OBVIOUS
    <3>1. policy'[n].enabled = Default /\ ~Exists(n)'
      BY <1>2 DEF Exists
    <3> QED BY <3>1, PowerControlAssumption
  <2>5. policy'[n] = policy[n]
    BY <2>3, <2>4, <1>2
  <2>6. GivesLimit(x, n)
    BY <1>1, GivesIs
  <2>7. Reason(n, x)
    BY <2>1, <2>2, <2>3, <2>5, <2>6 DEF IInv, KeptInv, Exists
  <2> QED BY <2>7, <1>1, ReasonIs
<1> QED BY <1>5, <1>6, <1>7, <1>8, <1>9 DEF IInv

-----------------------------------------------------------------------------
(* The service says which components a domain has *)

\* The call c of r at the head of the queue asks for components; T is the rest.
CompsHead(c, r, q, T) ==
  /\ calls # << >> /\ c = Head(calls) /\ r = c.by /\ q = req[r] /\ T = Tail(calls)
  /\ c.op = "components" /\ q.stage = "busy"

\* Its request has asked for nothing else.
CompsAsked(d, r, q, T) ==
  /\ r \in Requests /\ q \in Request /\ T \in Seq(CallSet) /\ calls \in Seq(CallSet)
  /\ d \in Domains /\ Early(q) /\ BodyInv(q) /\ Asking(q) /\ q.lookups \cap Main = {}
  /\ DOMAIN q.comps = Before(d) /\ Quiet(r, T) /\ root \in Nodes

LEMMA CompsAlone ==
  ASSUME IInv, NEW c, NEW r, NEW q, NEW T, CompsHead(c, r, q, T)
  PROVE  CompsAsked(c.arg, r, q, T)
<1>1. /\ calls # << >> /\ c = Head(calls) /\ r = c.by /\ q = req[r] /\ T = Tail(calls)
      /\ c.op = "components" /\ q.stage = "busy"
  BY DEF CompsHead
<1>2. /\ r \in Requests /\ q \in Request /\ ReqInv(r, q, calls) /\ Fits(c, q)
      /\ T \in Seq(CallSet) /\ calls \in Seq(CallSet)
  BY <1>1, HeadFacts
<1>3. /\ c = calls[1] /\ 1 \in DOMAIN calls
      /\ \A i \in DOMAIN T : i \in Int /\ i + 1 \in DOMAIN calls /\ T[i] = calls[i + 1]
      /\ \A i \in DOMAIN T : i # 0
  BY <1>1, <1>2, TailFacts
<1>4. /\ c.node = root /\ c.arg \in Domains /\ Early(q) /\ q.lookups \cap Main = {}
      /\ DOMAIN q.comps = Before(c.arg)
  BY <1>1, <1>2 DEF Fits
<1>5. BodyInv(q) /\ EarlyInv(r, q, calls)
  BY <1>2 DEF ReqInv
<1>6. Asking(q)
  BY <1>4, <1>5 DEF Asking, EarlyInv
<1>7. Quiet(r, T)
  <2> SUFFICES ASSUME NEW i \in DOMAIN T, T[i].by = r PROVE FALSE
    BY DEF Quiet
  <2>1. i + 1 \in DOMAIN calls /\ calls[i + 1].by = r
    BY <1>3
  <2>2. 1 = i + 1
    BY <2>1, <1>1, <1>3, <1>5 DEF EarlyInv
  <2> QED BY <2>2, <1>3
<1>8. root \in Nodes
  BY RootNode DEF IInv, TypeInv
<1> QED BY <1>2, <1>4, <1>5, <1>6, <1>7, <1>8 DEF CompsAsked

\* The request with the components of d.
CompsRec(q, d) ==
  [q EXCEPT !.comps = [x \in DOMAIN @ \cup {d} |-> IF x = d THEN present[d] ELSE @[x]]]

CompsIs(rec, q, d) ==
  /\ rec \in Request /\ Ident(rec, q) /\ rec.lookups = q.lookups /\ rec.stage = q.stage
  /\ rec.layout = q.layout /\ rec.shape = q.shape /\ rec.shown = q.shown /\ rec.status = q.status
  /\ rec.listed = q.listed /\ rec.done = q.done /\ rec.failed = q.failed
  /\ DOMAIN rec.comps = DOMAIN q.comps \cup {d} /\ rec.comps[d] = present[d]
  /\ \A x \in DOMAIN q.comps : x # d => rec.comps[x] = q.comps[x]

LEMMA CompsRecord ==
  ASSUME TypeInv, NEW q \in Request, NEW d \in Domains
  PROVE  CompsIs(CompsRec(q, d), q, d)
<1> DEFINE f == q.comps
           g == [x \in DOMAIN f \cup {d} |-> IF x = d THEN present[d] ELSE f[x]]
           A == UNION {Lists(e) : e \in Domains}
           rec == [q EXCEPT !.comps = g]
<1>1. f \in Comps
  BY DEF Request
<1>2. PICK D \in SUBSET Domains : f \in [D -> A]
  BY <1>1 DEF Comps
<1>3. \A x \in DOMAIN f : f[x] \in Lists(x)
  BY <1>1 DEF Comps
<1>4. present[d] \in Lists(d)
  BY DEF TypeInv, Lists
<1>5. D \cup {d} \in SUBSET Domains /\ DOMAIN f = D
  BY <1>2
<1>6. \A x \in D \cup {d} : g[x] \in Lists(x)
  BY <1>3, <1>4, <1>5
<1>7. g \in [D \cup {d} -> A]
  <2>1. \A x \in D \cup {d} : g[x] \in A
    BY <1>5, <1>6
  <2> QED BY <2>1, <1>5
<1>8. g \in Comps
  BY <1>5, <1>6, <1>7 DEF Comps
<1>9. DOMAIN g = DOMAIN f \cup {d} /\ g[d] = present[d] /\ \A x \in DOMAIN f : x # d => g[x] = f[x]
  OBVIOUS
<1>10. CompsRec(q, d) = rec
  BY DEF CompsRec
<1> HIDE DEF g
<1>11. rec \in Request
  BY <1>8 DEF Request
<1>12. /\ Ident(rec, q) /\ rec.lookups = q.lookups /\ rec.stage = q.stage
       /\ rec.layout = q.layout /\ rec.shape = q.shape /\ rec.shown = q.shown /\ rec.status = q.status
       /\ rec.listed = q.listed /\ rec.done = q.done /\ rec.failed = q.failed /\ rec.comps = g
  BY DEF Request, Ident
<1> HIDE DEF rec
<1> QED BY <1>9, <1>10, <1>11, <1>12 DEF CompsIs

\* With the components of d the request has asked for nothing else either.
CompsKnown(rec, q) ==
  /\ rec \in Request /\ Ident(rec, q) /\ Early(rec) /\ BodyInv(rec) /\ rec.lookups = q.lookups
  /\ rec.lookups \cap Main = {} /\ Asking(rec) /\ rec.shown = q.shown /\ rec.failed = q.failed
  /\ rec.layout = q.layout /\ rec.stage = q.stage
  /\ changes = 0 /\ SameOf(q, present) => SameOf(rec, present)

LEMMA CompsRead ==
  ASSUME IInv, NEW r, NEW q, NEW T, NEW d, CompsAsked(d, r, q, T)
  PROVE  CompsKnown(CompsRec(q, d), q) /\ DOMAIN CompsRec(q, d).comps = Before(d) \cup {d}
<1> DEFINE rec == CompsRec(q, d)
<1>1. /\ q \in Request /\ d \in Domains /\ Early(q) /\ BodyInv(q) /\ Asking(q)
      /\ q.lookups \cap Main = {} /\ DOMAIN q.comps = Before(d)
  BY DEF CompsAsked
<1>2. TypeInv
  BY DEF IInv
<1>3. CompsIs(rec, q, d)
  BY <1>1, <1>2, CompsRecord
<1> HIDE DEF rec
<1>4. Ident(rec, q) /\ rec.layout = q.layout /\ rec.listed = q.listed
  BY <1>3 DEF CompsIs
<1>5. BodyInv(rec)
  BY <1>1, <1>4, SameTargets
<1>6. Early(rec)
  BY <1>1, <1>3 DEF Early, CompsIs
<1>7. Asking(rec)
  BY <1>1, <1>3 DEF Asking, CompsIs, Ident
<1>8. SameOf(q, present) => SameOf(rec, present)
  <2>1. ASSUME SameOf(q, present) PROVE \A x \in DOMAIN rec.comps : rec.comps[x] = present[x]
    BY <2>1, <1>3 DEF SameOf, CompsIs
  <2>2. rec.kind = q.kind /\ rec.base = q.base /\ rec.done = q.done
    BY <1>3 DEF CompsIs, Ident
  <2> QED BY <2>1, <2>2, <1>4 DEF SameOf
<1>9. CompsKnown(rec, q)
  BY <1>1, <1>3, <1>5, <1>6, <1>7, <1>8 DEF CompsKnown, CompsIs
<1>10. DOMAIN rec.comps = Before(d) \cup {d}
  BY <1>1, <1>3 DEF CompsIs
<1> QED BY <1>9, <1>10 DEF rec

\* The callback makes rec of the request, and the calls X.
LEMMA CompsTurn ==
  ASSUME IInv, NEW c, NEW r, NEW q, NEW T, CompsHead(c, r, q, T), NEW rec \in Request, Ident(rec, q),
         rec.done = {}, rec.shown = q.shown, rec.failed = q.failed, NEW X \in Seq(CallSet),
         \A i \in DOMAIN X : X[i].by = r, Continue(r, rec, T \o X),
         ReqInv(r, After(r, rec, T \o X), T \o X),
         UNCHANGED <<present, policy, crashed, faults, changes, overlap>>,
         changes = 0 /\ SameOf(q, present) => SameOf(rec, present)
  PROVE  IInv'
<1> DEFINE W == T \o X
           q2 == After(r, rec, W)
<1>1. /\ calls # << >> /\ c = Head(calls) /\ r = c.by /\ q = req[r] /\ T = Tail(calls)
      /\ c.op = "components" /\ q.stage = "busy"
  BY DEF CompsHead
<1>2. CompsAsked(c.arg, r, q, T)
  BY CompsAlone
<1>3. r \in Requests /\ T \in Seq(CallSet) /\ calls \in Seq(CallSet) /\ ~q.listed /\ q.done = {}
  BY <1>2 DEF CompsAsked, Early
<1>4. Turn(r, q2, W)
  BY <1>1, ServedTurn
<1>5. Closes(q2, rec, r, W)
  BY AfterCloses
<1>w. W = T \o X
  OBVIOUS
<1> HIDE DEF W, q2
<1>6. /\ Ident(q2, rec) /\ q2.comps = rec.comps /\ q2.layout = rec.layout /\ q2.listed = rec.listed
      /\ q2.done = rec.done /\ q2.shown = rec.shown /\ q2.failed = rec.failed
  BY <1>5 DEF Closes
<1>7. Ident(q2, q)
  BY <1>6 DEF Ident
<1>8. TargetsOf(q) = {}
  BY <1>3 DEF TargetsOf
<1>9. Grows(q, q2)
  BY <1>1, <1>3, <1>6, <1>7, <1>8 DEF Grows, Ident
<1>10. Sees(q, q2)
  BY <1>1, <1>6, <1>7, <1>8 DEF Sees, Ident
<1>11. DisablesKept(r, q2, W)
  <2> SUFFICES ASSUME NEW n \in Nodes, Pending(r, "disable", n, "Enabled", calls)
               PROVE  Pending(r, "disable", n, "Enabled", W)
    BY DEF DisablesKept
  <2>1. c # Call(r, "disable", n, "Enabled")
    BY <1>1, CallFields
  <2>2. Pending(r, "disable", n, "Enabled", T)
    BY <2>1, <1>1, <1>3, PendingTail
  <2> QED BY <2>2, <1>3, <1>w, PendingConcat
<1>12. changes = 0 /\ SameOf(q, present) => SameOf(q2, present)
  <2>1. SameOf(rec, present) => SameOf(q2, present)
    BY <1>6 DEF SameOf, Ident
  <2> QED BY <2>1
<1>13. faults' \in Nat /\ faults' + changes <= MaxFaults
  BY DEF IInv, TypeInv
<1> QED BY <1>1, <1>4, <1>9, <1>10, <1>11, <1>12, <1>13, TurnNeutral

\* The next domain is asked for.
LEMMA CompsNext ==
  ASSUME IInv, NEW c, NEW r, NEW q, NEW T, CompsHead(c, r, q, T), NEW e \in Domains,
         Before(e) = Before(c.arg) \cup {c.arg},
         Continue(r, CompsRec(q, c.arg), Append(T, Call(r, "components", root, e))),
         UNCHANGED <<present, policy, crashed, faults, changes, overlap>>
  PROVE  IInv'
<1> DEFINE rec == CompsRec(q, c.arg)
           n == Call(r, "components", root, e)
           X == <<n>>
<1>1. CompsAsked(c.arg, r, q, T)
  BY CompsAlone
<1>2. r \in Requests /\ T \in Seq(CallSet) /\ Quiet(r, T) /\ root \in Nodes
  BY <1>1 DEF CompsAsked
<1>3. CompsKnown(rec, q) /\ DOMAIN rec.comps = Before(e)
  BY <1>1, CompsRead
<1> HIDE DEF rec
<1>4. /\ rec \in Request /\ Ident(rec, q) /\ Early(rec) /\ BodyInv(rec)
      /\ rec.lookups \cap Main = {} /\ Asking(rec) /\ rec.shown = q.shown /\ rec.failed = q.failed
      /\ changes = 0 /\ SameOf(q, present) => SameOf(rec, present)
  BY <1>3 DEF CompsKnown
<1>5. n \in CallSet /\ n.by = r
  BY <1>2, CallIn, CallFields DEF Ops, Args, Domains
<1>6. Append(T, n) = T \o X /\ X \in Seq(CallSet)
  BY <1>2, <1>5, AppendIs
<1>7. \A i \in DOMAIN X : X[i].by = r
  BY <1>5
<1>8. Closes(After(r, rec, Append(T, n)), rec, r, Append(T, n))
  BY <1>4, AfterCloses
<1>9. ReqInv(r, After(r, rec, Append(T, n)), Append(T, n))
  BY <1>2, <1>3, <1>4, <1>8, EarlyAsks
<1>10. Continue(r, rec, Append(T, n)) /\ rec.done = {}
  BY <1>4 DEF rec, Early
<1> HIDE DEF X, n
<1>11. Continue(r, rec, T \o X) /\ ReqInv(r, After(r, rec, T \o X), T \o X)
  BY <1>6, <1>9, <1>10
<1> QED BY <1>4, <1>6, <1>7, <1>10, <1>11, CompsTurn

\* A group of nodes in the order a GET reads them.
LEMMA ReadGroup ==
  ASSUME NEW c, FullComps(c), NEW d \in Domains
  PROVE  <<<<d, allDevices>>>> \o [i \in DOMAIN c[d] |-> <<d, c[d][i]>>] \in Seq(Nodes)
<1> DEFINE a == <<<<d, allDevices>>>>
           b == [i \in DOMAIN c[d] |-> <<d, c[d][i]>>]
<1>1. c[d] \in Lists(d)
  BY DEF FullComps, Comps
<1>2. /\ c[d] \in Seq(0..254) /\ \A i \in DOMAIN c[d] : <<d, c[d][i]>> \in Nodes
      /\ <<d, allDevices>> \in Nodes
  BY <1>1, ListsFacts
<1>3. DOMAIN c[d] = 1..Len(c[d]) /\ Len(c[d]) \in Nat
  BY <1>2
<1>4. b \in Seq(Nodes)
  BY <1>2, <1>3
<1>5. a \in Seq(Nodes)
  BY <1>2
<1> HIDE DEF a, b
<1>6. a \o b \in Seq(Nodes)
  BY <1>4, <1>5, ConcatFacts
<1> QED BY <1>6 DEF a, b

LEMMA ReadOrderFacts ==
  ASSUME NEW c, FullComps(c)
  PROVE  ReadOrder(c) \in Seq(Nodes) /\ 1 \in DOMAIN ReadOrder(c)
<1> DEFINE group(d) == <<<<d, allDevices>>>> \o [i \in DOMAIN c[d] |-> <<d, c[d][i]>>]
           a == <<root>>
           g1 == group(pcieDomainId)
           g2 == group(cpuDomainId)
           g3 == group(memoryDomainId)
<1>1. g1 \in Seq(Nodes) /\ g2 \in Seq(Nodes) /\ g3 \in Seq(Nodes)
  BY ReadGroup DEF Domains
<1>2. root \in Nodes
  <2>1. cpuDomainId \in Domains
    BY DEF Domains
  <2>2. c[cpuDomainId] \in Lists(cpuDomainId)
    BY <2>1 DEF FullComps, Comps
  <2> QED BY <2>1, <2>2, ListsFacts
<1>3. a \in Seq(Nodes) /\ Len(a) = 1
  BY <1>2
<1>4. ReadOrder(c) = ((a \o g1) \o g2) \o g3
  BY DEF ReadOrder
<1> HIDE DEF a, g1, g2, g3
<1>5. Follows(a \o g1, a, g1)
  BY <1>1, <1>3, FollowsFacts
<1>6. Follows((a \o g1) \o g2, a \o g1, g2)
  BY <1>1, <1>5, FollowsFacts DEF Follows
<1>7. Follows(((a \o g1) \o g2) \o g3, (a \o g1) \o g2, g3)
  BY <1>1, <1>6, FollowsFacts DEF Follows
<1>8. ReadOrder(c) \in Seq(Nodes) /\ Len(ReadOrder(c)) = 1 + Len(g1) + Len(g2) + Len(g3)
  BY <1>3, <1>4, <1>5, <1>6, <1>7 DEF Follows
<1> HIDE DEF ReadOrder
<1>9. Len(g1) \in Nat /\ Len(g2) \in Nat /\ Len(g3) \in Nat
  BY <1>1
<1>10. Len(ReadOrder(c)) \in Nat /\ Len(ReadOrder(c)) >= 1
  BY <1>8, <1>9
<1> QED BY <1>8, <1>10

\* X are reads of r, at least one.
Reads(X, r) ==
  /\ X \in Seq(CallSet) /\ ~Quiet(r, X)
  /\ \A i \in DOMAIN X : X[i].by = r /\ X[i].op = "read" /\ X[i].arg \in Holders

LEMMA ReadCallsFacts ==
  ASSUME NEW r \in Requests, NEW n \in Nodes
  PROVE  Reads(ReadCalls(r, n), r) /\ 1 \in DOMAIN ReadCalls(r, n)
<1>1. NodeReads \in Seq(Holders) /\ DOMAIN NodeReads = 1..7
  BY DEF NodeReads, Holders
<1>2. \A i \in 1..7 : NodeReads[i] \in Holders
  BY <1>1, ElementIn
<1>3. \A i \in 1..7 : Call(r, "read", n, NodeReads[i]) \in CallSet
  BY <1>2, CallIn DEF Args, Ops
<1>4. ReadCalls(r, n) = [i \in 1..7 |-> Call(r, "read", n, NodeReads[i])]
  BY <1>1 DEF ReadCalls
<1>5. ReadCalls(r, n) \in Seq(CallSet) /\ DOMAIN ReadCalls(r, n) = 1..7
  BY <1>3, <1>4
<1>6. \A i \in 1..7 : /\ ReadCalls(r, n)[i].by = r /\ ReadCalls(r, n)[i].op = "read"
                      /\ ReadCalls(r, n)[i].arg \in Holders
  BY <1>2, <1>4, CallFields
<1>7. 1 \in 1..7
  OBVIOUS
<1> QED BY <1>5, <1>6, <1>7 DEF Reads, Quiet

LEMMA ReadsAll ==
  ASSUME NEW r \in Requests, NEW nodes \in Seq(Nodes), 1 \in DOMAIN nodes
  PROVE  Reads(FlattenSeq([i \in DOMAIN nodes |-> ReadCalls(r, nodes[i])]), r)
<1> DEFINE ss == [i \in DOMAIN nodes |-> ReadCalls(r, nodes[i])]
           F == FlattenSeq(ss)
<1>1. Len(nodes) \in Nat /\ DOMAIN nodes = 1..Len(nodes)
  OBVIOUS
<1>2. \A i \in DOMAIN nodes : nodes[i] \in Nodes
  BY ElementIn
<1>3. \A i \in DOMAIN nodes : Reads(ReadCalls(r, nodes[i]), r) /\ 1 \in DOMAIN ReadCalls(r, nodes[i])
  BY <1>2, ReadCallsFacts
<1>4. \A i \in DOMAIN nodes : Reads(ss[i], r) /\ 1 \in DOMAIN ss[i]
  BY <1>3
<1>5. DOMAIN ss = 1..Len(nodes) /\ ss = [i \in 1..Len(nodes) |-> ss[i]]
  BY <1>1
<1> HIDE DEF ss
<1>6. \A i \in 1..Len(nodes) : ss[i] \in Seq(CallSet)
  BY <1>1, <1>4 DEF Reads
<1>7. ss \in Seq(Seq(CallSet)) /\ Len(ss) = Len(nodes)
  BY <1>1, <1>5, <1>6
<1>8. F \in Seq(CallSet) /\ \E seg, off : Placed(F, ss, Len(ss), seg, off)
  BY <1>7, FlattenFacts
<1>9. PICK seg, off : Placed(F, ss, Len(ss), seg, off)
  BY <1>8
<1>f. F = FlattenSeq(ss)
  OBVIOUS
<1> HIDE DEF F
<1>10. /\ DOMAIN F = 1..Len(F)
       /\ \A i \in DOMAIN nodes : DOMAIN ss[i] = 1..Len(ss[i])
  BY <1>1, <1>6, <1>8
<1>11. \A k \in DOMAIN F : seg[k] \in DOMAIN nodes /\ off[k] \in DOMAIN ss[seg[k]] /\ F[k] = ss[seg[k]][off[k]]
  BY <1>1, <1>7, <1>9, <1>10 DEF Placed
<1>12. \A k \in DOMAIN F : F[k].by = r /\ F[k].op = "read" /\ F[k].arg \in Holders
  BY <1>4, <1>11 DEF Reads
<1>13. \E k \in DOMAIN F : TRUE
  <2>1. 1 \in 1..Len(ss) /\ 1 \in 1..Len(ss[1])
    BY <1>1, <1>4, <1>7, <1>10
  <2>2. \E k \in 1..Len(F) : seg[k] = 1 /\ off[k] = 1
    BY <2>1, <1>9 DEF Placed
  <2> QED BY <2>2, <1>10
<1>14. Reads(F, r)
  BY <1>8, <1>12, <1>13 DEF Reads, Quiet
<1> QED BY <1>14, <1>f DEF ss

\* The components of all domains are read; while they do not change they are those present.
CompsAll(rec) ==
  /\ FullComps(rec.comps)
  /\ changes = 0 /\ SameOf(rec, present) => rec.comps = present

LEMMA CompsLast ==
  ASSUME IInv, NEW r, NEW q, NEW T, CompsAsked(pcieDomainId, r, q, T)
  PROVE  CompsKnown(CompsRec(q, pcieDomainId), q) /\ CompsAll(CompsRec(q, pcieDomainId))
<1> DEFINE rec == CompsRec(q, pcieDomainId)
<1>1. CompsKnown(rec, q) /\ DOMAIN rec.comps = Before(pcieDomainId) \cup {pcieDomainId}
  BY CompsRead
<1> HIDE DEF rec
<1>2. DOMAIN rec.comps = Domains
  BY <1>1, BeforeIs DEF Domains
<1>3. rec.comps \in Comps
  BY <1>1 DEF CompsKnown, Request
<1>4. ASSUME SameOf(rec, present) PROVE rec.comps = present
  <2>1. \A d \in Domains : rec.comps[d] = present[d]
    BY <1>2, <1>4 DEF SameOf
  <2>2. rec.comps = [d \in Domains |-> rec.comps[d]]
    BY <1>2, <1>3 DEF Comps
  <2>3. present \in [Domains -> Seq(0..254)]
    BY PowerControlAssumption DEF IInv, TypeInv
  <2>4. present = [d \in Domains |-> present[d]]
    BY <2>3
  <2> QED BY <2>1, <2>2, <2>4
<1> QED BY <1>1, <1>2, <1>3, <1>4 DEF CompsAll, FullComps, rec

\* Nothing is sent for a node that is not there, or cannot be read.
LEMMA CompsEnd ==
  ASSUME IInv, NEW c, NEW r, NEW q, NEW T, CompsHead(c, r, q, T), NEW rec, CompsKnown(rec, q),
         NEW st \in Statuses, Continue(r, Status(rec, st), T),
         UNCHANGED <<present, policy, crashed, faults, changes, overlap>>
  PROVE  IInv'
<1> DEFINE rec2 == Status(rec, st)
           X == << >>
<1>1. CompsAsked(c.arg, r, q, T)
  BY CompsAlone
<1>2. r \in Requests /\ T \in Seq(CallSet) /\ Quiet(r, T)
  BY <1>1 DEF CompsAsked
<1>3. /\ rec \in Request /\ Ident(rec, q) /\ Early(rec) /\ BodyInv(rec)
      /\ rec.lookups \cap Main = {} /\ Asking(rec) /\ rec.shown = q.shown /\ rec.failed = q.failed
      /\ changes = 0 /\ SameOf(q, present) => SameOf(rec, present)
  BY DEF CompsKnown
<1>4. Same(rec2, rec) /\ rec2.lookups = rec.lookups
  BY <1>3, StatusIs
<1>5. T \o X = T /\ X \in Seq(CallSet) /\ DOMAIN X = {}
  BY <1>2, ConcatNone
<1>6. Continue(r, rec2, T)
  OBVIOUS
<1> HIDE DEF rec2, X
<1>7. /\ rec2 \in Request /\ Ident(rec2, rec) /\ rec2.comps = rec.comps /\ rec2.layout = rec.layout
      /\ rec2.shape = rec.shape /\ rec2.shown = rec.shown /\ rec2.listed = rec.listed
      /\ rec2.done = rec.done /\ rec2.failed = rec.failed
  BY <1>4 DEF Same
<1>8. Early(rec2) /\ Asking(rec2) /\ rec2.done = {}
  BY <1>3, <1>4, <1>7 DEF Early, Asking, Ident
<1>9. BodyInv(rec2)
  BY <1>3, <1>7, SameTargets
<1>10. ReqInv(r, After(r, rec2, T), T)
  BY <1>2, <1>7, <1>8, <1>9, AfterCloses, EarlyQuiet
<1>11. Ident(rec2, q)
  BY <1>3, <1>7 DEF Ident
<1>12. SameOf(rec, present) => SameOf(rec2, present)
  BY <1>7 DEF SameOf, Ident
<1>13. Continue(r, rec2, T \o X) /\ ReqInv(r, After(r, rec2, T \o X), T \o X)
  BY <1>5, <1>6, <1>10
<1> QED BY <1>3, <1>5, <1>7, <1>8, <1>11, <1>12, <1>13, CompsTurn

\* A GET reads the nodes of X.
LEMMA CompsReads ==
  ASSUME IInv, NEW c, NEW r, NEW q, NEW T, CompsHead(c, r, q, T), NEW rec \in Request, NEW X,
         Reads(X, r), Continue(r, rec, T \o X), Ident(rec, q), rec.lookups = q.lookups,
         rec.done = {}, rec.shown = q.shown, rec.failed = q.failed, rec.shape = "array",
         rec.kind \in {"getAll", "getOne"}, rec.kind = "getOne" => rec.listed,
         changes = 0 /\ SameOf(q, present) => SameOf(rec, present),
         UNCHANGED <<present, policy, crashed, faults, changes, overlap>>
  PROVE  IInv'
<1>1. CompsAsked(c.arg, r, q, T)
  BY CompsAlone
<1>2. /\ r \in Requests /\ T \in Seq(CallSet) /\ Quiet(r, T) /\ q.lookups \cap Main = {}
      /\ Asking(q)
  BY <1>1 DEF CompsAsked
<1>3. Asking(rec) /\ rec.lookups \cap Main = {}
  BY <1>2 DEF Asking, Ident
<1>4. /\ X \in Seq(CallSet) /\ ~Quiet(r, X)
      /\ \A i \in DOMAIN X : X[i].by = r /\ X[i].op = "read" /\ X[i].arg \in Holders
  BY DEF Reads
<1>5. Closes(After(r, rec, T \o X), rec, r, T \o X)
  BY AfterCloses
<1>6. ReqInv(r, After(r, rec, T \o X), T \o X)
  BY <1>2, <1>3, <1>4, <1>5, ReadsSent
<1> QED BY <1>4, <1>6, CompsTurn

\* rec with the nodes found.
FoundIs(rec2, rec, list, li, st) ==
  /\ rec2 \in Request /\ Ident(rec2, rec) /\ rec2.lookups = rec.lookups /\ rec2.comps = rec.comps
  /\ rec2.stage = rec.stage
  /\ rec2.layout = list /\ rec2.shape = rec.shape /\ rec2.shown = rec.shown /\ rec2.status = st
  /\ rec2.listed = li /\ rec2.done = rec.done /\ rec2.failed = rec.failed

FoundRec(rec, list, li, st) == [rec EXCEPT !.status = st, !.layout = list, !.listed = li]

LEMMA FoundRecord ==
  ASSUME NEW rec \in Request, NEW list \in Seq(Nodes), NEW li \in BOOLEAN, NEW st \in Statuses
  PROVE  FoundIs(FoundRec(rec, list, li, st), rec, list, li, st)
<1> DEFINE rec2 == [rec EXCEPT !.status = st, !.layout = list, !.listed = li]
<1>1. rec2 \in Request
  BY DEF Request
<1>2. /\ Ident(rec2, rec) /\ rec2.lookups = rec.lookups /\ rec2.comps = rec.comps
      /\ rec2.stage = rec.stage
      /\ rec2.layout = list /\ rec2.shape = rec.shape /\ rec2.shown = rec.shown /\ rec2.status = st
      /\ rec2.done = rec.done /\ rec2.failed = rec.failed
  BY DEF Request, Ident
<1>3. rec2.listed = li
  BY Zenon DEF Request
<1>4. FoundRec(rec, list, li, st) = rec2
  BY DEF FoundRec
<1> HIDE DEF rec2
<1> QED BY <1>1, <1>2, <1>3, <1>4 DEF FoundIs

LEMMA ShowStep ==
  ASSUME IInv, NEW c, NEW r, NEW q, NEW T, CompsHead(c, r, q, T), c.arg = pcieDomainId,
         ShowNodes(r, CompsRec(q, pcieDomainId), T),
         UNCHANGED <<present, policy, crashed, faults, changes, overlap>>
  PROVE  IInv'
<1> DEFINE rec == CompsRec(q, pcieDomainId)
           nodes == ReadOrder(rec.comps)
           list == buildDomainPolicyMap(rec.comps)
           X == FlattenSeq([i \in DOMAIN nodes |-> ReadCalls(r, nodes[i])])
           Y == ReadCalls(r, rec.name)
<1>1. CompsAsked(pcieDomainId, r, q, T)
  BY CompsAlone
<1>2. CompsKnown(rec, q) /\ CompsAll(rec)
  BY <1>1, CompsLast
<1>3. r \in Requests
  BY <1>1 DEF CompsAsked
<1>4. \/ /\ rec.kind = "getAll"
         /\ Continue(r, [rec EXCEPT !.layout = collectNmDmtfData(rec.comps)], T \o X)
      \/ /\ rec.kind = "getOne" /\ Contains(list, rec.name)
         /\ Continue(r, [rec EXCEPT !.listed = TRUE], T \o Y)
      \/ Continue(r, Status(rec, "resourceNotFound"), T)
  BY DEF ShowNodes
<1> HIDE DEF rec
<1>5. /\ rec \in Request /\ Ident(rec, q) /\ Early(rec) /\ rec.lookups = q.lookups
      /\ rec.shown = q.shown /\ rec.failed = q.failed /\ rec.done = {} /\ rec.shape = "array"
      /\ changes = 0 /\ SameOf(q, present) => SameOf(rec, present)
  BY <1>2 DEF CompsKnown, Early
<1>6. FullComps(rec.comps)
  BY <1>2 DEF CompsAll
<1>7. list \in Seq(Nodes) /\ collectNmDmtfData(rec.comps) = list
  BY <1>6, BuildFacts, CollectIsBuild
<1>8. nodes \in Seq(Nodes) /\ 1 \in DOMAIN nodes
  BY <1>6, ReadOrderFacts
<1>9. Reads(X, r)
  BY <1>3, <1>8, ReadsAll
<1>l. list = buildDomainPolicyMap(rec.comps)
  OBVIOUS
<1> HIDE DEF list, nodes, X
<1>10. CASE rec.kind = "getAll" /\ Continue(r, [rec EXCEPT !.layout = collectNmDmtfData(rec.comps)], T \o X)
  <2> DEFINE rec2 == [rec EXCEPT !.layout = list]
  <2>1. rec2 \in Request
    BY <1>5, <1>7 DEF Request
  <2>2. /\ Ident(rec2, rec) /\ rec2.lookups = rec.lookups /\ rec2.comps = rec.comps
        /\ rec2.layout = list /\ rec2.shape = rec.shape /\ rec2.shown = rec.shown
        /\ rec2.done = rec.done /\ rec2.failed = rec.failed
    BY <1>5 DEF Request, Ident
  <2>3. Continue(r, rec2, T \o X)
    BY <1>7, <1>10
  <2> HIDE DEF rec2
  <2>4. Ident(rec2, q) /\ rec2.kind = "getAll"
    BY <2>2, <1>5, <1>10 DEF Ident
  <2>5. ASSUME changes = 0, SameOf(rec, present) PROVE SameOf(rec2, present)
    <3>1. rec.comps = present
      BY <2>5, <1>2 DEF CompsAll
    <3>2. list = buildDomainPolicyMap(present)
      BY <3>1, <1>l
    <3> QED BY <2>2, <2>4, <2>5, <3>2 DEF SameOf
  <2> QED BY <2>1, <2>2, <2>3, <2>4, <2>5, <1>5, <1>9, CompsReads
<1>11. CASE rec.kind = "getOne" /\ Contains(list, rec.name) /\ Continue(r, [rec EXCEPT !.listed = TRUE], T \o Y)
  <2> DEFINE rec2 == [rec EXCEPT !.listed = TRUE]
  <2>1. rec2 \in Request
    BY <1>5 DEF Request
  <2>2. /\ Ident(rec2, rec) /\ rec2.lookups = rec.lookups /\ rec2.comps = rec.comps
        /\ rec2.layout = rec.layout /\ rec2.shape = rec.shape /\ rec2.shown = rec.shown
        /\ rec2.done = rec.done /\ rec2.failed = rec.failed
    BY <1>5 DEF Request, Ident
  <2>3. rec2.listed = TRUE
    BY <1>5, Zenon DEF Request
  <2>4. Continue(r, rec2, T \o Y)
    BY <1>11
  <2> HIDE DEF rec2
  <2>5. Ident(rec2, q) /\ rec2.kind = "getOne"
    BY <2>2, <1>5, <1>11 DEF Ident
  <2>6. SameOf(rec, present) => SameOf(rec2, present)
    BY <2>2, <2>5 DEF SameOf
  <2>7. rec.name \in Nodes
    <3>1. \E i \in 1..Len(list) : list[i] = rec.name
      BY <1>11 DEF Contains
    <3>2. \A i \in DOMAIN list : list[i] \in Nodes
      BY <1>7, ElementIn
    <3> QED BY <3>1, <3>2, <1>7
  <2>8. Reads(Y, r)
    BY <2>7, <1>3, ReadCallsFacts
  <2> HIDE DEF Y
  <2> QED BY <2>1, <2>2, <2>3, <2>4, <2>5, <2>6, <2>8, <1>5, CompsReads
<1>12. CASE Continue(r, Status(rec, "resourceNotFound"), T)
  <2>1. "resourceNotFound" \in Statuses
    BY DEF Statuses
  <2> QED BY <2>1, <1>2, <1>12, CompsEnd
<1> QED BY <1>4, <1>10, <1>11, <1>12

\* A PATCH, now rec, sends the calls F for the first m of its entries.
Patched(rec, q, F, r, m, list, es) ==
  /\ rec \in Request /\ Ident(rec, q) /\ rec.lookups = q.lookups /\ rec.done = {} /\ PatchOf(rec)
  /\ BodyInv(rec) /\ Sent(F, r, m, list, es) /\ \A i \in 1..m : <<list[i], es[i]>> \in TargetsOf(rec)
  /\ rec.status = "no_content" =>
       \A t \in TargetsOf(rec) : ~Bad(t[2]) /\ \E i \in 1..m : t[1] = list[i] /\ t[2] = es[i]

LEMMA PatchReq ==
  ASSUME NEW d, NEW r, NEW q, NEW T, CompsAsked(d, r, q, T), NEW rec, NEW F, NEW m, NEW list, NEW es,
         Patched(rec, q, F, r, m, list, es)
  PROVE  /\ F \in Seq(CallSet) /\ \A i \in DOMAIN F : F[i].by = r
         /\ ReqInv(r, After(r, rec, T \o F), T \o F)
<1>1. /\ rec \in Request /\ Ident(rec, q) /\ rec.lookups = q.lookups /\ rec.done = {}
      /\ rec.kind \in {"patchOne", "patchAll"}
      /\ BodyInv(rec) /\ Sent(F, r, m, list, es) /\ \A i \in 1..m : <<list[i], es[i]>> \in TargetsOf(rec)
      /\ rec.status = "no_content" =>
           \A t \in TargetsOf(rec) : ~Bad(t[2]) /\ \E i \in 1..m : t[1] = list[i] /\ t[2] = es[i]
  BY DEF Patched, PatchOf
<1>2. q \in Request /\ T \in Seq(CallSet) /\ Quiet(r, T) /\ q.lookups \cap Main = {} /\ Asking(q)
  BY DEF CompsAsked
<1>3. rec.lookups = {}
  <2>1. q.lookups \subseteq Lookups
    BY <1>2 DEF Request
  <2>2. "header" \notin q.lookups
    BY <1>1, <1>2 DEF Asking, Ident
  <2> QED BY <2>1, <2>2, <1>1, <1>2 DEF Lookups, Main
<1>4. F \in Seq(CallSet) /\ \A i \in DOMAIN F : F[i].by = r
  BY <1>1 DEF Sent, Made
<1>5. Closes(After(r, rec, T \o F), rec, r, T \o F)
  BY <1>1, AfterCloses
<1>6. ReqInv(r, After(r, rec, T \o F), T \o F)
  BY <1>1, <1>2, <1>3, <1>5, PatchSent
<1> QED BY <1>4, <1>6

LEMMA CompsPatch ==
  ASSUME IInv, NEW c, NEW r, NEW q, NEW T, CompsHead(c, r, q, T),
         NEW rec, NEW F, NEW m, NEW list, NEW es, Patched(rec, q, F, r, m, list, es),
         Continue(r, rec, T \o F), rec.shown = q.shown, rec.failed = q.failed,
         changes = 0 /\ SameOf(q, present) => SameOf(rec, present),
         UNCHANGED <<present, policy, crashed, faults, changes, overlap>>
  PROVE  IInv'
<1>1. CompsAsked(c.arg, r, q, T)
  BY CompsAlone
<1>2. /\ F \in Seq(CallSet) /\ \A i \in DOMAIN F : F[i].by = r
      /\ ReqInv(r, After(r, rec, T \o F), T \o F)
  BY <1>1, PatchReq
<1>3. rec \in Request /\ Ident(rec, q) /\ rec.done = {}
  BY DEF Patched
<1> QED BY <1>2, <1>3, CompsTurn

LEMMA ConcatAssoc ==
  ASSUME NEW S, NEW a \in Seq(S), NEW b \in Seq(S), NEW d \in Seq(S)
  PROVE  (a \o b) \o d = a \o (b \o d)
OBVIOUS

LEMMA PatchOneStep ==
  ASSUME IInv, NEW c, NEW r, NEW q, NEW T, CompsHead(c, r, q, T), c.arg = pcieDomainId,
         PatchNode(r, CompsRec(q, pcieDomainId), T),
         UNCHANGED <<present, policy, crashed, faults, changes, overlap>>
  PROVE  IInv'
<1> DEFINE rec == CompsRec(q, pcieDomainId)
           e == rec.entries[1]
           n == rec.name
           list == buildDomainPolicyMap(rec.comps)
           p == patchPowerLimit(r, n, e)
           o == patchOem(r, n, e)
           st == IF Bad(e) THEN "badRequest" ELSE rec.status
           rec2 == FoundRec(rec, rec.layout, TRUE, st)
<1>1. CompsAsked(pcieDomainId, r, q, T)
  BY CompsAlone
<1>2. CompsKnown(rec, q) /\ CompsAll(rec)
  BY <1>1, CompsLast
<1>3. r \in Requests /\ T \in Seq(CallSet)
  BY <1>1 DEF CompsAsked
<1>4. /\ rec.kind = "patchOne"
      /\ \/ Continue(r, Status(rec, "badRequest"), T)
         \/ Continue(r, Status(rec, "resourceNotFound"), T)
         \/ /\ Contains(list, n)
            /\ Continue(r, [rec EXCEPT !.status = IF Bad(e) THEN "badRequest" ELSE @, !.listed = TRUE],
                        (T \o p) \o o)
  BY DEF PatchNode
<1> HIDE DEF rec
<1>5. /\ rec \in Request /\ Ident(rec, q) /\ Early(rec) /\ BodyInv(rec) /\ rec.lookups = q.lookups
      /\ rec.shown = q.shown /\ rec.failed = q.failed /\ rec.done = {}
      /\ changes = 0 /\ SameOf(q, present) => SameOf(rec, present)
  BY <1>2 DEF CompsKnown, Early
<1>6. "badRequest" \in Statuses /\ "resourceNotFound" \in Statuses
  BY DEF Statuses
<1>7. CASE Continue(r, Status(rec, "badRequest"), T) \/ Continue(r, Status(rec, "resourceNotFound"), T)
  BY <1>2, <1>6, <1>7, CompsEnd
<1>8. CASE /\ Contains(list, n)
           /\ Continue(r, [rec EXCEPT !.status = IF Bad(e) THEN "badRequest" ELSE @, !.listed = TRUE],
                       (T \o p) \o o)
  <2>1. FullComps(rec.comps)
    BY <1>2 DEF CompsAll
  <2>2. list \in Seq(Nodes)
    BY <2>1, BuildFacts
  <2>3. n \in Nodes
    <3>1. \E i \in 1..Len(list) : list[i] = n
      BY <1>8 DEF Contains
    <3>2. \A i \in DOMAIN list : list[i] \in Nodes
      BY <2>2, ElementIn
    <3> QED BY <3>1, <3>2, <2>2
  <2>4. p \in Seq(CallSet) /\ o \in Seq(CallSet)
    BY <2>3, <1>3, PowerLimitFacts, OemFacts DEF Entire, OnlySets
  <2>5. Whole(p \o o, r, n, e)
    BY <2>3, <1>3, EntryFacts
  <2>6. Sent(p \o o, r, 1, <<n>>, <<e>>)
    BY <2>5, SentOne
  <2>7. (T \o p) \o o = T \o (p \o o)
    BY <2>4, <1>3, ConcatAssoc
  <2>8. st \in Statuses /\ rec.layout \in Seq(Nodes) /\ TRUE \in BOOLEAN
    BY <1>5, <1>6 DEF Request
  <2>9. FoundIs(rec2, rec, rec.layout, TRUE, st)
    BY <2>8, <1>5, FoundRecord
  <2>10. [rec EXCEPT !.status = IF Bad(e) THEN "badRequest" ELSE @, !.listed = TRUE] = rec2
    BY <1>5 DEF FoundRec, Request
  <2>11. Continue(r, rec2, T \o (p \o o))
    BY <2>7, <2>10, <1>8
  <2>f. rec2.status = "no_content" => ~Bad(e)
    BY <2>9 DEF FoundIs
  <2> HIDE DEF rec2, st, list, p, o
  <2>12. /\ rec2 \in Request /\ Ident(rec2, rec) /\ rec2.lookups = rec.lookups /\ rec2.comps = rec.comps
         /\ rec2.layout = rec.layout /\ rec2.shown = rec.shown /\ rec2.done = rec.done
         /\ rec2.failed = rec.failed /\ rec2.listed = TRUE
    BY <2>9 DEF FoundIs
  <2>13. rec2.kind = "patchOne" /\ rec2.name = n /\ rec2.entries[1] = e /\ Ident(rec2, q)
    BY <2>12, <1>4, <1>5 DEF Ident
  <2>14. TargetsOf(rec2) = {<<n, e>>}
    BY <2>12, <2>13 DEF TargetsOf, PatchOf
  <2>15. BodyInv(rec2)
    BY <2>12, <2>13, <1>4, <1>5 DEF BodyInv, Ident
  <2>16. <<n>>[1] = n /\ <<e>>[1] = e /\ 1..1 = {1} /\ <<n, e>>[1] = n /\ <<n, e>>[2] = e
    OBVIOUS
  <2> HIDE DEF n, e
  <2>17. \A i \in 1..1 : <<<<n>>[i], <<e>>[i]>> \in TargetsOf(rec2)
    BY <2>14, <2>16
  <2>18. rec2.status = "no_content" =>
           \A t \in TargetsOf(rec2) : ~Bad(t[2]) /\ \E i \in 1..1 : t[1] = <<n>>[i] /\ t[2] = <<e>>[i]
    BY <2>f, <2>14, <2>16
  <2>19. Patched(rec2, q, p \o o, r, 1, <<n>>, <<e>>)
    BY <2>6, <2>12, <2>13, <2>15, <2>17, <2>18, <1>5 DEF Patched, PatchOf
  <2>20. SameOf(rec, present) => SameOf(rec2, present)
    BY <2>12, <2>13 DEF SameOf
  <2> QED BY <2>11, <2>12, <2>19, <2>20, <1>5, CompsPatch
<1> QED BY <1>4, <1>7, <1>8

\* Where the loop over the entries of a PATCH of the array stops.
StopSet(list, es) == {i \in DOMAIN es : i > Len(list) \/ ~es[i].reads}
Reach(list, es) ==
  IF StopSet(list, es) = {} THEN Len(es)
  ELSE (CHOOSE i \in StopSet(list, es) : \A j \in StopSet(list, es) : i <= j) - 1

LEMMA ReachFacts ==
  ASSUME NEW list \in Seq(Nodes), NEW es \in Seq(Body)
  PROVE  /\ Reach(list, es) \in Nat /\ Reach(list, es) <= Len(es) /\ Reach(list, es) <= Len(list)
         /\ StopSet(list, es) = {} => Reach(list, es) = Len(es)
         /\ StopSet(list, es) # {} => Reach(list, es) < Len(es)
<1> DEFINE S == StopSet(list, es)
           k == Len(list)
           l == Len(es)
<1>1. k \in Nat /\ l \in Nat /\ DOMAIN es = 1..l
  OBVIOUS
<1>2. S \subseteq 1..l /\ \A i \in 1..l : i > k => i \in S
  BY <1>1 DEF StopSet
<1>3. Reach(list, es) = IF S = {} THEN l ELSE (CHOOSE i \in S : \A j \in S : i <= j) - 1
  BY DEF Reach
<1> HIDE DEF S, k, l
<1>4. CASE S = {}
  <2>1. l <= k
    <3> SUFFICES ASSUME l > k PROVE FALSE
      BY <1>1
    <3>1. l \in S
      BY <1>1, <1>2
    <3> QED BY <3>1, <1>4
  <2> QED BY <2>1, <1>1, <1>3, <1>4 DEF S, k, l
<1>5. CASE S # {}
  <2>1. S \in SUBSET Nat
    BY <1>1, <1>2
  <2>2. \E i \in S : \A j \in S : i <= j
    BY <2>1, <1>5, Least
  <2> DEFINE x == CHOOSE i \in S : \A j \in S : i <= j
  <2>3. x \in S /\ \A j \in S : x <= j
    BY <2>2
  <2>4. Reach(list, es) = x - 1
    BY <1>3, <1>5
  <2> HIDE DEF x
  <2>5. x \in 1..l
    BY <2>3, <1>2
  <2>6. x - 1 <= k
    <3> SUFFICES ASSUME x - 1 > k PROVE FALSE
      BY <2>5, <1>1
    <3>1. k + 1 \in 1..l /\ k + 1 > k
      BY <2>5, <1>1
    <3>2. k + 1 \in S
      BY <3>1, <1>2
    <3>3. x <= k + 1
      BY <3>2, <2>3
    <3> QED BY <3>3, <2>5, <1>1
  <2>7. x - 1 \in Nat /\ x - 1 <= l /\ x - 1 < l
    BY <2>5, <1>1
  <2> QED BY <2>4, <2>6, <2>7, <1>5 DEF S, k, l
<1> QED BY <1>4, <1>5

\* A request when its process has ended.
Lose(q) == [q EXCEPT !.stage = "lost", !.lookups = {}]

LEMMA LoseRecord ==
  ASSUME NEW q \in Request
  PROVE  Lost(Lose(q), q)
<1> DEFINE q2 == [q EXCEPT !.stage = "lost", !.lookups = {}]
<1>1. q2 \in Request
  BY DEF Request
<1>2. /\ q2.stage = "lost" /\ q2.lookups = {} /\ Ident(q2, q)
      /\ q2.comps = q.comps /\ q2.layout = q.layout /\ q2.shape = q.shape /\ q2.shown = q.shown
      /\ q2.status = q.status /\ q2.done = q.done /\ q2.failed = q.failed /\ q2.listed = q.listed
  BY DEF Request, Ident
<1>3. Lose(q) = q2
  BY DEF Lose
<1> HIDE DEF q2
<1> QED BY <1>1, <1>2, <1>3 DEF Lost

\* The server ends in the callback of a PATCH of the array.
LEMMA CrashStep ==
  ASSUME IInv, NEW c, NEW r, NEW q, NEW T, CompsHead(c, r, q, T),
         NEW rec, NEW F, NEW m, NEW list, NEW es, Patched(rec, q, F, r, m, list, es),
         rec.stage = q.stage, rec.failed = q.failed, Crash(r, rec, T \o F), changes # 0,
         UNCHANGED <<present, policy, faults, changes, overlap>>
  PROVE  IInv'
<1> DEFINE Q == T \o F
<1>1. /\ calls # << >> /\ c = Head(calls) /\ r = c.by /\ q = req[r] /\ T = Tail(calls)
      /\ c.op = "components" /\ q.stage = "busy"
  BY DEF CompsHead
<1>2. CompsAsked(c.arg, r, q, T)
  BY CompsAlone
<1>3. r \in Requests /\ q \in Request /\ calls \in Seq(CallSet) /\ ~q.listed /\ q.done = {}
  BY <1>2 DEF CompsAsked, Early
<1>4. /\ F \in Seq(CallSet) /\ \A i \in DOMAIN F : F[i].by = r
      /\ ReqInv(r, After(r, rec, Q), Q)
  BY <1>2, PatchReq
<1>5. rec \in Request /\ Ident(rec, q) /\ rec.done = {}
  BY DEF Patched
<1>6. Q \in Seq(CallSet) /\ \A s \in Requests \ {r} : \E k \in Int : Shift(s, calls, Q, k)
  BY <1>1, <1>3, <1>4, OthersShift
<1>7. PICK z \in 0..Len(Q) : calls' = SubSeq(Q, 1, z)
  BY DEF Crash
<1>8. req \in [Requests -> Request]
  BY DEF IInv, TypeInv
<1>9. /\ req'[r] = Lose(rec) /\ crashed' = TRUE
      /\ req' = [s \in Requests |-> req'[s]]
      /\ \A s \in Requests \ {r} : req'[s] = IF req[s].stage = "busy" THEN Lose(req[s]) ELSE req[s]
  <2> DEFINE last == [req EXCEPT ![r] = rec]
  <2>1. last[r] = rec /\ \A s \in Requests \ {r} : last[s] = req[s]
    BY <1>3, <1>8
  <2>2. req' = [s \in Requests |-> IF last[s].stage = "busy"
                                   THEN [last[s] EXCEPT !.stage = "lost", !.lookups = {}] ELSE last[s]]
    BY DEF Crash
  <2>4. crashed' = TRUE
    BY Zenon DEF Crash
  <2> HIDE DEF last
  <2>3. \A s \in Requests : req'[s] = IF last[s].stage = "busy" THEN Lose(last[s]) ELSE last[s]
    BY <2>2 DEF Lose
  <2>5. req' = [s \in Requests |-> req'[s]]
    BY <2>2
  <2> QED BY <2>1, <2>3, <2>4, <2>5, <1>1, <1>3
<1>q. Q = T \o F
  OBVIOUS
<1> HIDE DEF Q
<1> DEFINE P == SubSeq(Q, 1, z)
<1>10. P \in Seq(CallSet) /\ \A i \in DOMAIN P : i \in DOMAIN Q /\ P[i] = Q[i]
  BY <1>6, PrefixFacts
<1>11. \A s : Quiet(s, Q) => Quiet(s, P)
  BY <1>10 DEF Quiet
<1>12. Lost(req'[r], rec)
  BY <1>5, <1>9, LoseRecord
<1>13. ReqInv(r, req'[r], P)
  <2> DEFINE a == After(r, rec, Q)
  <2>1. Closes(a, rec, r, Q) /\ ReqInv(r, a, Q)
    BY <1>4, <1>5, AfterCloses
  <2> HIDE DEF a
  <2>2. Lost(req'[r], a)
    BY <2>1, <1>12 DEF Lost, Closes, Ident
  <2> QED BY <2>1, <2>2, <1>6, LostReq
<1>p. calls' = P /\ P = SubSeq(Q, 1, z)
  BY <1>7
<1> HIDE DEF P
<1>14. ASSUME NEW s \in Requests \ {r}
       PROVE  /\ req'[s] \in Request /\ ReqInv(s, req'[s], P)
              /\ req[s].stage \in {"busy", "lost"} => Lost(req'[s], req[s])
              /\ req[s].stage \in {"new", "done"} => req'[s] = req[s] /\ Quiet(s, calls)
              /\ Quiet(s, calls) => Quiet(s, P)
  <2>1. s \in Requests /\ s # r /\ req[s] \in Request /\ ReqInv(s, req[s], calls)
    BY <1>8 DEF IInv
  <2>2. PICK k \in Int : Shift(s, calls, Q, k)
    BY <1>6
  <2>3. ReqInv(s, req[s], Q)
    BY <2>1, <2>2, <1>3, <1>6, Frame
  <2>4. Quiet(s, calls) => Quiet(s, P)
    BY <2>2, <1>3, <1>6, <1>11, ShiftPending
  <2>5. req'[s] = IF req[s].stage = "busy" THEN Lose(req[s]) ELSE req[s]
    BY <1>9
  <2>6. CASE req[s].stage \in {"busy", "lost"}
    <3>1. Lost(req'[s], req[s])
      <4>1. CASE req[s].stage = "busy"
        BY <4>1, <2>1, <2>5, LoseRecord
      <4>2. CASE req[s].stage = "lost"
        <5>1. req[s].lookups = {} /\ req'[s] = req[s]
          BY <4>2, <2>1, <2>5 DEF ReqInv, StageInv
        <5> QED BY <5>1, <4>2, <2>1 DEF Lost, Ident
      <4> QED BY <2>6, <4>1, <4>2
    <3>2. ReqInv(s, req'[s], P)
      BY <3>1, <2>3, <1>6, <1>p, LostReq
    <3>3. req'[s] \in Request
      BY <3>1 DEF Lost
    <3> QED BY <3>1, <3>2, <3>3, <2>4, <2>6
  <2>7. CASE req[s].stage \in {"new", "done"}
    <3>1. req'[s] = req[s] /\ Quiet(s, calls)
      BY <2>1, <2>5, <2>7 DEF ReqInv, StageInv
    <3>2. Quiet(s, P)
      BY <3>1, <2>4
    <3>3. Shift(s, calls, P, 0)
      BY <3>1, <3>2 DEF Quiet, Shift
    <3>4. ReqInv(s, req[s], P)
      <4>1. 0 \in Int
        OBVIOUS
      <4> QED BY <4>1, <3>3, <2>1, <1>3, <1>10, Frame
    <3> QED BY <3>1, <3>4, <2>1, <2>4, <2>7
  <2>8. req[s].stage \in {"new", "busy", "done", "lost"}
    BY <2>1 DEF Request
  <2> QED BY <2>6, <2>7, <2>8
<1>15. req' \in [Requests -> Request]
  <2>1. \A s \in Requests : req'[s] \in Request
    BY <1>12, <1>14 DEF Lost
  <2> QED BY <2>1, <1>9
<1>16. TypeInv'
  <2>1. crashed' \in BOOLEAN
    BY <1>9
  <2> QED BY <2>1, <1>10, <1>15, <1>p DEF IInv, TypeInv
<1>17. (\A s \in Requests : ReqInv(s, req[s], calls))'
  BY <1>13, <1>14, <1>p
<1>18. \A s \in Requests : Busy(s)' => Busy(s)
  <2> SUFFICES ASSUME NEW s \in Requests, Busy(s)' PROVE Busy(s)
    OBVIOUS
  <2>1. CASE s = r
    BY <2>1, <1>1, BusyIs DEF BusyOf
  <2>2. CASE s # r
    <3>1. req'[s].stage = "busy" => req[s].stage = "busy"
      BY <2>2, <1>9 DEF Lose
    <3>2. ~Quiet(s, calls') => ~Quiet(s, calls)
      BY <2>2, <1>14, <1>p
    <3> QED BY <3>1, <3>2, BusyIs DEF BusyOf
  <2> QED BY <2>1, <2>2
<1>19. \A s \in Requests : /\ req'[s].earlier = req[s].earlier
                           /\ req[s].stage = "done" => req'[s] = req[s]
  <2>1. req'[r].earlier = q.earlier
    BY <1>5, <1>12 DEF Lost, Ident
  <2>2. ASSUME NEW s \in Requests \ {r}
        PROVE  req'[s].earlier = req[s].earlier /\ (req[s].stage = "done" => req'[s] = req[s])
    <3>1. req[s] \in Request
      BY <1>8
    <3>2. req[s].stage \in {"new", "busy", "done", "lost"}
      BY <3>1 DEF Request
    <3> QED BY <3>2, <1>14 DEF Lost, Ident
  <2> QED BY <2>1, <2>2, <1>1
<1>20. EarlierInv' /\ OverlapInv'
  BY <1>18, <1>19 DEF IInv, EarlierInv, OverlapInv
<1>21. SameInv' /\ StaysInv'
  BY DEF SameInv, StaysInv
<1>22. \A s \in Requests : Grows(req[s], req'[s])
  <2>1. Grows(q, req'[r])
    <3>1. TargetsOf(q) = {}
      BY <1>3 DEF TargetsOf
    <3>2. req'[r].done = q.done
      BY <1>3, <1>5, <1>12 DEF Lost
    <3> QED BY <3>1, <3>2, <1>1, <1>3 DEF Grows
  <2>2. ASSUME NEW s \in Requests \ {r} PROVE Grows(req[s], req'[s])
    <3>1. req[s] \in Request
      BY <1>8
    <3>2. req[s].stage \in {"new", "busy", "done", "lost"}
      BY <3>1 DEF Request
    <3>3. CASE req[s].stage \in {"busy", "lost"}
      <4>1. Lost(req'[s], req[s])
        BY <3>3, <1>14
      <4>2. TargetsOf(req'[s]) = TargetsOf(req[s])
        BY <4>1, SameTargets DEF Lost
      <4> QED BY <4>1, <4>2 DEF Lost, Ident, Grows
    <3>4. CASE req[s].stage \in {"new", "done"}
      BY <3>4, <1>14 DEF Grows
    <3> QED BY <3>2, <3>3, <3>4
  <2> QED BY <2>1, <2>2, <1>1
<1>23. \A s \in Requests, n \in Nodes : Pending(s, "disable", n, "Enabled", calls) => req'[s].stage = "lost"
  <2> SUFFICES ASSUME NEW s \in Requests, NEW n \in Nodes, Pending(s, "disable", n, "Enabled", calls)
               PROVE  req'[s].stage = "lost"
    OBVIOUS
  <2>1. ~Quiet(s, calls)
    BY CallFields DEF Pending, Quiet
  <2>2. CASE s = r
    BY <2>2, <1>12 DEF Lost
  <2>3. CASE s # r
    <3>1. req[s] \in Request
      BY <1>8
    <3>2. req[s].stage \in {"new", "busy", "done", "lost"}
      BY <3>1 DEF Request
    <3> QED BY <3>2, <2>1, <2>3, <1>14 DEF Lost
  <2> QED BY <2>2, <2>3
<1>24. KeptInv'
  <2>1. KeptInv
    BY DEF IInv
  <2> QED BY <2>1, <1>18, <1>22, <1>23, KeptNeutral
<1> QED BY <1>16, <1>17, <1>20, <1>21, <1>24 DEF IInv

\* The calls for an entry of a PATCH of the array; again as in PatchNodes.
EntryCalls(r, list, es, again, i) ==
  patchOem(r, list[i], es[i]) \o patchPowerLimit(r, list[i], es[i])
    \o IF again THEN patchOem(r, list[i], es[i]) ELSE <<>>

LEMMA EntriesSent ==
  ASSUME NEW r \in Requests, NEW list \in Seq(Nodes), NEW es, NEW again \in BOOLEAN,
         NEW n \in Nat, n <= Len(list), \A i, j \in DOMAIN list : list[i] = list[j] => i = j
  PROVE  Sent(FlattenSeq([i \in 1..n |-> EntryCalls(r, list, es, again, i)]), r, n, list, es)
<1> DEFINE ss == [i \in 1..n |-> EntryCalls(r, list, es, again, i)]
<1>1. DOMAIN list = 1..Len(list) /\ Len(list) \in Nat
  OBVIOUS
<1>2. \A i \in 1..n : i \in DOMAIN list
  BY <1>1
<1>3. \A i \in 1..n : list[i] \in Nodes
  BY <1>2, ElementIn
<1>4. ASSUME NEW i \in 1..n PROVE Whole(EntryCalls(r, list, es, again, i), r, list[i], es[i])
  <2> DEFINE x == list[i]
             e == es[i]
             o == patchOem(r, x, e)
             p == patchPowerLimit(r, x, e)
  <2>1. x \in Nodes
    BY <1>3
  <2>2. EntryCalls(r, list, es, again, i) = IF again THEN (o \o p) \o o ELSE (o \o p) \o << >>
    BY DEF EntryCalls
  <2> HIDE DEF x, e
  <2>3. Whole((o \o p) \o o, r, x, e) /\ Whole((o \o p) \o << >>, r, x, e)
    BY <2>1, EntryFacts
  <2>4. Whole(EntryCalls(r, list, es, again, i), r, x, e)
    BY <2>2, <2>3
  <2> QED BY <2>4 DEF x, e
<1>5. \A i \in 1..n : Whole(ss[i], r, list[i], es[i])
  BY <1>4
<1>6. DOMAIN ss = 1..n /\ ss = [i \in 1..n |-> ss[i]]
  OBVIOUS
<1>7. \A i, j \in 1..n : list[i] = list[j] => i = j
  BY <1>2
<1> HIDE DEF ss
<1>8. Sent(FlattenSeq(ss), r, n, list, es)
  BY <1>5, <1>6, <1>7, SentAll
<1> QED BY <1>8 DEF ss

LEMMA PatchAllStep ==
  ASSUME IInv, NEW c, NEW r, NEW q, NEW T, CompsHead(c, r, q, T), c.arg = pcieDomainId,
         PatchNodes(r, CompsRec(q, pcieDomainId), T),
         UNCHANGED <<present, policy, faults, changes, overlap>>
  PROVE  IInv'
<1> DEFINE rec == CompsRec(q, pcieDomainId)
           list == buildDomainPolicyMap(rec.comps)
           es == rec.entries
           S == StopSet(list, es)
           n == Reach(list, es)
<1>1. CompsAsked(pcieDomainId, r, q, T)
  BY CompsAlone
<1>2. CompsKnown(rec, q) /\ CompsAll(rec)
  BY <1>1, CompsLast
<1>3. r \in Requests /\ T \in Seq(CallSet) /\ q = req[r]
  BY <1>1 DEF CompsAsked, CompsHead
<1> DEFINE bad == (S # {} /\ n < Len(list)) \/ \E i \in 1..n : Bad(es[i])
           st == IF bad THEN "badRequest" ELSE rec.status
           rec2 == FoundRec(rec, list, TRUE, st)
<1>4. rec.kind = "patchAll"
  BY DEF PatchNodes
<1>5. PICK again \in BOOLEAN :
        LET sent == T \o FlattenSeq([i \in 1..n |-> EntryCalls(r, list, es, again, i)])
            applied == [rec EXCEPT !.status = IF bad THEN "badRequest" ELSE @,
                                   !.layout = list, !.listed = TRUE]
        IN IF S # {} /\ n >= Len(list) THEN Crash(r, applied, sent)
           ELSE Continue(r, applied, sent) /\ UNCHANGED crashed
  BY DEF PatchNodes, StopSet, Reach, EntryCalls
<1> DEFINE F == FlattenSeq([i \in 1..n |-> EntryCalls(r, list, es, again, i)])
<1> HIDE DEF rec
<1>6. /\ rec \in Request /\ Ident(rec, q) /\ Early(rec) /\ BodyInv(rec) /\ rec.lookups = q.lookups
      /\ rec.shown = q.shown /\ rec.failed = q.failed /\ rec.done = {} /\ rec.stage = q.stage
      /\ changes = 0 /\ SameOf(q, present) => SameOf(rec, present)
  BY <1>2 DEF CompsKnown, Early
<1>7. [rec EXCEPT !.status = IF bad THEN "badRequest" ELSE @, !.layout = list, !.listed = TRUE] = rec2
  BY <1>6 DEF FoundRec, Request
<1>8. \/ S # {} /\ n >= Len(list) /\ Crash(r, rec2, T \o F)
      \/ ~(S # {} /\ n >= Len(list)) /\ Continue(r, rec2, T \o F) /\ UNCHANGED crashed
  BY <1>5, <1>7
<1>9. FullComps(rec.comps)
  BY <1>2 DEF CompsAll
<1>10. list \in Seq(Nodes) /\ \A i, j \in DOMAIN list : list[i] = list[j] => i = j
  BY <1>9, BuildFacts
<1>11. es \in Seq(Body) /\ rec.status \in Statuses /\ Len(es) = Len(rec.base)
  BY <1>4, <1>6 DEF Request, BodyInv
<1>l. list = buildDomainPolicyMap(rec.comps) /\ es = rec.entries
  OBVIOUS
<1> HIDE DEF list, es
<1>12. /\ n \in Nat /\ n <= Len(es) /\ n <= Len(list)
       /\ S = {} => n = Len(es)
       /\ S # {} => n < Len(es)
  BY <1>10, <1>11, ReachFacts
<1> HIDE DEF n, S
<1>13. Sent(F, r, n, list, es)
  BY <1>3, <1>10, <1>12, EntriesSent
<1>14. st \in Statuses /\ TRUE \in BOOLEAN
  BY <1>11 DEF Statuses
<1>15. st = "no_content" => ~bad
  OBVIOUS
<1> HIDE DEF F, bad, st
<1>16. FoundIs(rec2, rec, list, TRUE, st)
  BY <1>6, <1>10, <1>14, FoundRecord
<1> HIDE DEF rec2
<1>17. /\ rec2 \in Request /\ Ident(rec2, rec) /\ rec2.lookups = rec.lookups /\ rec2.comps = rec.comps
       /\ rec2.stage = rec.stage /\ rec2.layout = list /\ rec2.shown = rec.shown /\ rec2.status = st
       /\ rec2.listed = TRUE /\ rec2.done = rec.done /\ rec2.failed = rec.failed
  BY <1>16 DEF FoundIs
<1>18. Ident(rec2, q) /\ rec2.kind = "patchAll" /\ rec2.entries = es /\ rec2.base = rec.base
  BY <1>4, <1>6, <1>17, <1>l DEF Ident
<1>19. TargetsOf(rec2) = {<<list[i], es[i]>> : i \in DOMAIN list \cap DOMAIN es}
  BY <1>17, <1>18 DEF TargetsOf, PatchOf
<1>20. BodyInv(rec2)
  BY <1>10, <1>11, <1>17, <1>18 DEF BodyInv
<1>21. /\ DOMAIN list = 1..Len(list) /\ DOMAIN es = 1..Len(es)
       /\ Len(list) \in Nat /\ Len(es) \in Nat
  BY <1>10, <1>11
<1> DEFINE k == Len(list)
           l == Len(es)
<1>b. /\ DOMAIN list = 1..k /\ DOMAIN es = 1..l /\ k \in Nat /\ l \in Nat /\ n \in Nat
      /\ n <= k /\ n <= l /\ (S = {} => n = l)
  BY <1>12, <1>21
<1> HIDE DEF k, l
<1>22. \A i \in 1..n : i \in DOMAIN list \cap DOMAIN es
  BY <1>b
<1>23. \A i \in 1..n : <<list[i], es[i]>> \in TargetsOf(rec2)
  BY <1>19, <1>22
<1>24. ASSUME rec2.status = "no_content", NEW t \in TargetsOf(rec2)
       PROVE  ~Bad(t[2]) /\ \E i \in 1..n : t[1] = list[i] /\ t[2] = es[i]
  <2>1. ~bad
    BY <1>15, <1>17, <1>24
  <2>2. ~(S # {} /\ n < Len(list)) /\ \A i \in 1..n : ~Bad(es[i])
    BY <2>1 DEF bad
  <2>e. ~(S # {} /\ n < k)
    BY <2>2 DEF k
  <2>3. PICK i \in DOMAIN list \cap DOMAIN es : t = <<list[i], es[i]>>
    BY <1>19, <1>24
  <2>4. i \in 1..n
    BY <2>e, <1>b
  <2>5. t[1] = list[i] /\ t[2] = es[i]
    BY <2>3
  <2> QED BY <2>2, <2>4, <2>5
<1>25. Patched(rec2, q, F, r, n, list, es)
  BY <1>6, <1>13, <1>17, <1>18, <1>20, <1>23, <1>24 DEF Patched, PatchOf
<1>26. ASSUME changes = 0, SameOf(rec, present)
       PROVE  SameOf(rec2, present) /\ rec.base = list
  <2>1. list = buildDomainPolicyMap(present)
    BY <1>2, <1>26, <1>l DEF CompsAll
  <2>2. rec.base = list
    BY <2>1, <1>4, <1>26 DEF SameOf
  <2> QED BY <2>1, <2>2, <1>17, <1>18, <1>26 DEF SameOf
<1>27. CASE Continue(r, rec2, T \o F) /\ UNCHANGED crashed
  BY <1>6, <1>17, <1>25, <1>26, <1>27, CompsPatch
<1>28. CASE S # {} /\ n >= Len(list) /\ Crash(r, rec2, T \o F)
  <2>1. changes # 0
    <3> SUFFICES ASSUME changes = 0 PROVE FALSE
      OBVIOUS
    <3>1. SameOf(q, present)
      BY <1>3, SameIs DEF IInv
    <3>2. rec.base = list
      BY <3>1, <1>6, <1>26
    <3> QED BY <3>2, <1>11, <1>12, <1>21, <1>28
  <2> QED BY <2>1, <1>6, <1>17, <1>25, <1>28, CrashStep
<1> QED BY <1>8, <1>27, <1>28

LEMMA ComponentsStep ==
  ASSUME IInv, ServeComponents
  PROVE  IInv'
<1> DEFINE c == Head(calls)
           r == c.by
           q == req[r]
           T == Tail(calls)
           rec == CompsRec(q, c.arg)
<1>1. /\ CompsHead(c, r, q, T) /\ UNCHANGED <<present, policy, faults, changes, overlap>>
      /\ \/ /\ c.arg = cpuDomainId /\ UNCHANGED crashed
            /\ Continue(r, rec, Append(T, Call(r, "components", root, memoryDomainId)))
         \/ /\ c.arg = memoryDomainId /\ UNCHANGED crashed
            /\ Continue(r, rec, Append(T, Call(r, "components", root, pcieDomainId)))
         \/ c.arg = pcieDomainId /\ ShowNodes(r, rec, T) /\ UNCHANGED crashed
         \/ c.arg = pcieDomainId /\ PatchNode(r, rec, T) /\ UNCHANGED crashed
         \/ c.arg = pcieDomainId /\ PatchNodes(r, rec, T)
  BY DEF ServeComponents, CompsHead, CompsRec
<1> HIDE DEF c, r, q, T
<1>2. CASE /\ c.arg = cpuDomainId /\ UNCHANGED crashed
           /\ Continue(r, rec, Append(T, Call(r, "components", root, memoryDomainId)))
  <2>1. memoryDomainId \in Domains /\ Before(memoryDomainId) = Before(c.arg) \cup {c.arg}
    BY <1>2, BeforeIs DEF Domains
  <2> QED BY <2>1, <1>1, <1>2, CompsNext
<1>3. CASE /\ c.arg = memoryDomainId /\ UNCHANGED crashed
           /\ Continue(r, rec, Append(T, Call(r, "components", root, pcieDomainId)))
  <2>1. pcieDomainId \in Domains /\ Before(pcieDomainId) = Before(c.arg) \cup {c.arg}
    BY <1>3, BeforeIs DEF Domains
  <2> QED BY <2>1, <1>1, <1>3, CompsNext
<1>4. CASE c.arg = pcieDomainId /\ ShowNodes(r, rec, T) /\ UNCHANGED crashed
  BY <1>1, <1>4, ShowStep
<1>5. CASE c.arg = pcieDomainId /\ PatchNode(r, rec, T) /\ UNCHANGED crashed
  BY <1>1, <1>5, PatchOneStep
<1>6. CASE c.arg = pcieDomainId /\ PatchNodes(r, rec, T)
  BY <1>1, <1>6, PatchAllStep
<1> QED BY <1>1, <1>2, <1>3, <1>4, <1>5, <1>6

-----------------------------------------------------------------------------
(* The invariant holds in every state *)

LEMMA InitInv ==
  ASSUME Init
  PROVE  IInv
<1>1. /\ present \in Topologies /\ calls = << >> /\ overlap = {} /\ crashed = FALSE
      /\ faults = 0 /\ changes = 0
      /\ policy = [n \in Nodes |-> [limit |-> Default, enabled |-> Default]]
  BY Zenon DEF Init
<1>2. \A r \in Requests : req[r] = Fresh
  BY DEF Init
<1>3. req \in [Requests -> Request]
  BY FreshIs DEF Init
<1>4. << >> \in Seq(CallSet) /\ DOMAIN << >> = {}
  OBVIOUS
<1>5. TypeInv
  <2>1. policy \in [Nodes -> [limit : Writers, enabled : Writers]]
    BY <1>1 DEF Writers
  <2>2. faults \in Nat /\ changes \in Nat /\ faults + changes <= MaxFaults
    BY <1>1, PowerControlAssumption
  <2>3. crashed \in BOOLEAN /\ overlap \subseteq Requests \X Requests
    BY <1>1
  <2> QED BY <2>1, <2>2, <2>3, <1>1, <1>3, <1>4 DEF TypeInv
<1>6. \A r \in Requests : ReqInv(r, req[r], calls)
  <2> SUFFICES ASSUME NEW r PROVE ReqInv(r, Fresh, << >>)
    BY <1>1, <1>2
  <2>1. FitsInv(r, Fresh, << >>) /\ StageInv(r, Fresh, << >>)
    BY <1>4, FreshIs DEF FitsInv, StageInv, Quiet
  <2>2. EarlyInv(r, Fresh, << >>)
    BY <1>4, FreshIs DEF EarlyInv
  <2>3. BodyInv(Fresh) /\ ShapeInv(r, Fresh, << >>)
    BY FreshIs DEF BodyInv, ShapeInv
  <2>4. SuccessInv(r, Fresh, << >>)
    BY FreshIs DEF SuccessInv, Early
  <2>5. OrderInv(r, Fresh, << >>)
    BY <1>4, FreshIs DEF OrderInv, ResetFirst, DisableFollows
  <2> QED BY <2>1, <2>2, <2>3, <2>4, <2>5 DEF ReqInv
<1>7. EarlierInv
  BY <1>2, FreshIs DEF EarlierInv
<1>8. OverlapInv
  BY <1>1, <1>2, <1>4, FreshIs DEF OverlapInv, Busy
<1>9. SameInv
  <2>1. SameOf(Fresh, present)
    BY FreshIs DEF SameOf
  <2> QED BY <2>1, <1>1, <1>2, SameIs
<1>10. KeptInv
  BY <1>2, FreshIs DEF KeptInv
<1>11. StaysInv
  BY <1>2, FreshIs DEF StaysInv
<1> QED BY <1>5, <1>6, <1>7, <1>8, <1>9, <1>10, <1>11 DEF IInv

LEMMA StutterInv ==
  ASSUME IInv, UNCHANGED vars
  PROVE  IInv'
<1>1. /\ present' = present /\ policy' = policy /\ calls' = calls /\ req' = req
      /\ crashed' = crashed /\ faults' = faults /\ changes' = changes /\ overlap' = overlap
  BY DEF vars
<1>2. TypeInv'
  BY <1>1 DEF IInv, TypeInv
<1>3. (\A r \in Requests : ReqInv(r, req[r], calls))'
  BY <1>1 DEF IInv
<1>4. \A s \in Requests : Busy(s)' => Busy(s)
  BY <1>1 DEF Busy
<1>5. EarlierInv' /\ OverlapInv'
  BY <1>1, <1>4 DEF IInv, EarlierInv, OverlapInv
<1>6. SameInv'
  BY <1>1, SameIs DEF IInv
<1>7. \A s \in Requests : Grows(req[s], req'[s]) /\ Sees(req[s], req'[s])
  BY <1>1 DEF Grows, Sees
<1>8. KeptInv /\ StaysInv
  BY DEF IInv
<1>9. KeptInv'
  BY <1>1, <1>4, <1>7, <1>8, KeptNeutral
<1>10. Stays1'
  BY <1>1, <1>7, <1>8, StaysNeutral
<1>11. Stays2'
  BY <1>1, <1>7, SeenStep
<1>12. StaysInv'
  BY <1>10, <1>11, StaysSplit
<1> QED BY <1>2, <1>3, <1>5, <1>6, <1>9, <1>12 DEF IInv

LEMMA NextInv ==
  ASSUME IInv, [Next]_vars
  PROVE  IInv'
<1>1. CASE Next
  <2>1. ASSUME NEW r \in Requests, SomeArrival(r) PROVE IInv'
    BY <2>1, ArrivalStep
  <2>2. ASSUME NEW r \in Requests, MapperAnswers(r) PROVE IInv'
    BY <2>2, ChassisStep, HeaderStep, SelectStep, PathStep DEF MapperAnswers
  <2>3. ASSUME Serve PROVE IInv'
    BY <2>3, ComponentsStep, ReadStep, ModifyStep, ErrorStep, LostStep DEF Serve
  <2>4. ASSUME ChangeComponents PROVE IInv'
    BY <2>4, ChangeStep
  <2> QED BY <1>1, <2>1, <2>2, <2>3, <2>4 DEF Next
<1>2. CASE UNCHANGED vars
  BY <1>2, StutterInv
<1> QED BY <1>1, <1>2

\* IInv: the requests, the queue and the service agree in every interleaving of
\* requests, answers, refusals, changes of the components and crashes.
THEOREM PowerInvariant == Spec => []IInv
<1>1. Init => IInv
  BY InitInv
<1>2. IInv /\ [Next]_vars => IInv'
  BY NextInv
<1> QED BY <1>1, <1>2, PTL DEF Spec

\* The type of every variable; a response is outstanding just while a lookup or a call
\* of its request is under way, unless the server has ended.
THEOREM TypeCorrect == Spec => []TypeOK
<1>1. IInv => TypeOK
  <2> SUFFICES ASSUME IInv PROVE TypeOK
    OBVIOUS
  <2>1. TypeInv
    BY DEF IInv
  <2>2. /\ present \in Topologies /\ crashed \in BOOLEAN /\ overlap \subseteq Requests \X Requests
        /\ policy \in [Nodes -> [limit : Requests \cup {Default}, enabled : Requests \cup {Default}]]
    BY <2>1 DEF TypeInv, Writers
  <2>3. \A i \in DOMAIN calls : calls[i].by \in Requests /\ calls[i].node \in Nodes
    <3>1. \A i \in DOMAIN calls : calls[i] \in CallSet
      BY <2>1, ElementIn DEF TypeInv
    <3> QED BY <3>1 DEF CallSet
  <2>4. faults \in 0..MaxFaults /\ changes \in 0..MaxFaults
    BY <2>1, PowerControlAssumption DEF TypeInv
  <2>5. ASSUME NEW r \in Requests
        PROVE  /\ req[r].lookups \subseteq {"chassis", "header", "object", "path"}
               /\ req[r].stage = "busy" <=>
                    /\ req[r].stage # "lost"
                    /\ req[r].lookups # {} \/ \E i \in DOMAIN calls : calls[i].by = r
               /\ req[r].shape \in {"array", "node", "mixed"}
               /\ DOMAIN req[r].shown \subseteq Nodes
    <3>1. req[r] \in Request
      BY <2>1 DEF TypeInv
    <3>2. /\ req[r].stage \in {"new", "busy", "done", "lost"} /\ req[r].lookups \subseteq Lookups
          /\ req[r].shape \in {"array", "node", "mixed"} /\ req[r].shown \in Shown
      BY <3>1 DEF Request
    <3>3. DOMAIN req[r].shown \subseteq Nodes
      BY <3>2 DEF Shown
    <3>4. StageInv(r, req[r], calls)
      BY DEF IInv, ReqInv
    <3>5. req[r].stage = "busy" <=> /\ req[r].stage # "lost"
                                    /\ req[r].lookups # {} \/ ~Quiet(r, calls)
      BY <3>2, <3>4 DEF StageInv
    <3>6. ~Quiet(r, calls) <=> \E i \in DOMAIN calls : calls[i].by = r
      BY DEF Quiet
    <3> QED BY <3>2, <3>3, <3>5, <3>6 DEF Lookups
  <2> QED BY <2>2, <2>3, <2>4, <2>5 DEF TypeOK
<1> QED BY <1>1, PowerInvariant, PTL

\* While the components stay the same, buildDomainPolicyMap has each entry of an echoed
\* array where collectNmDmtfData showed it, whatever the components are, and list.at
\* does not end the server.
THEOREM AlwaysAppliedWhereMeant == Spec => []AppliedWhereMeant
<1>1. IInv => AppliedWhereMeant
  BY DEF IInv, SameInv, AppliedWhereMeant
<1> QED BY <1>1, PowerInvariant, PTL

\* A PATCH that found its policies and answers with no content has set every value it
\* carried and enabled the policy after it: no call is lost and no refusal kept quiet.
THEOREM SuccessAlwaysApplied == Spec => []SuccessMeansApplied
<1>1. IInv => SuccessMeansApplied
  <2> SUFFICES ASSUME IInv, NEW r \in Requests, Succeeded(r), Patch(r), NEW t \in Targets(r)
               PROVE  /\ ~Bad(t[2])
                      /\ \A p \in LimitProps : t[2].power[p] = "value" =>
                           {<<t[1], "set", p>>, <<t[1], "enable", p>>} \subseteq req[r].done
                      /\ t[2].oem = "value" => <<t[1], "storage", "PowerLimitStorage">> \in req[r].done
    BY DEF SuccessMeansApplied
  <2> DEFINE q == req[r]
  <2>1. q.stage = "done" /\ q.status = "no_content" /\ t \in TargetsOf(q)
    BY TargetsIs DEF Succeeded
  <2>2. q.listed
    BY <2>1 DEF TargetsOf
  <2>3. SuccessInv(r, q, calls) /\ StageInv(r, q, calls)
    BY DEF IInv, ReqInv
  <2>4. Quiet(r, calls)
    BY <2>1, <2>3 DEF StageInv
  <2>5. \A o, n, a : ~Pending(r, o, n, a, calls)
    BY <2>4, CallFields DEF Quiet, Pending
  <2>6. /\ ~Bad(t[2])
        /\ \A p \in LimitProps : t[2].power[p] = "value" => ValueInv(r, q, calls, t[1], p)
        /\ t[2].oem = "value" => StoreInv(r, q, calls, t[1])
    BY <2>1, <2>2, <2>3 DEF SuccessInv
  <2> QED BY <2>5, <2>6 DEF ValueInv, StoreInv
<1> QED BY <1>1, PowerInvariant, PTL

\* The limit that an enabled policy was given turns into the default only through a
\* request that resets it beside the one that set it, or whose disablePolicy is missing.
THEOREM LimitAlwaysKept == Spec => []LimitKept
<1>1. IInv => LimitKept
  <2> SUFFICES ASSUME IInv, NEW n \in Nodes, NEW r \in Requests, changes < 2,
                      policy[n].enabled = r, policy[n].limit = Default,
                      GivesLimit(r, n), <<n, "set", "LimitInWatts">> \in req[r].done
               PROVE  Reason(n, r)
    BY DEF LimitKept, Reason
  <2> QED BY DEF IInv, KeptInv, L
<1> QED BY <1>1, PowerInvariant, PTL

\* A GET that arrives after the success of a PATCH shows its limit, unless another PATCH
\* of a node was not over when that one arrived.
THEOREM AlwaysReadsWhatWasSet == Spec => []ReadsWhatWasSet
<1>1. IInv => ReadsWhatWasSet
  <2> SUFFICES ASSUME IInv, NEW g \in Requests, NEW r \in Requests, r \in req[g].earlier,
                      Succeeded(r), NEW n \in DOMAIN req[g].shown, GivesLimit(r, n), changes = 0
               PROVE  req[g].shown[n] = r \/ Excuse(r)
    BY DEF ReadsWhatWasSet, Excuse
  <2> QED BY DEF IInv, StaysInv
<1> QED BY <1>1, PowerInvariant, PTL

\* The FinalCallback of a GET of one node runs with the last answer: the response is the
\* node, and no answer is written into the response after that.
THEOREM OneNodeAlwaysShown == Spec => []OneNodeShown
<1>1. IInv => OneNodeShown
  <2> SUFFICES ASSUME IInv, NEW r \in Requests, req[r].kind = "getOne"
               PROVE  /\ req[r].shape # "mixed"
                      /\ req[r].stage = "done" /\ req[r].listed => req[r].shape = "node"
    BY DEF OneNodeShown
  <2>1. req[r] \in Request
    BY DEF IInv, TypeInv
  <2>2. req[r].shape \in {"array", "node", "mixed"}
    BY <2>1 DEF Request
  <2>3. ShapeInv(r, req[r], calls) /\ StageInv(r, req[r], calls)
    BY DEF IInv, ReqInv
  <2> QED BY <2>2, <2>3 DEF ShapeInv, StageInv
<1> QED BY <1>1, PowerInvariant, PTL

=============================================================================
