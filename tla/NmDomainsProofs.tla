--------------------------- MODULE NmDomainsProofs ---------------------------
(***************************************************************************)
(* The properties of NmDomains for any number of requests, any domains and *)
(* bodies, and any number of writes of other users.                        *)
(*                                                                         *)
(* The calls of a request that are on their way are contiguous in the      *)
(* queue (Contiguous), and so a PATCH that has written some but not all of *)
(* its properties is the one being served (PartialInv): nobody else writes *)
(* in between.  Of two PATCH requests that have overwritten each other,    *)
(* one therefore has writes left that will settle the matter (PairsInv).   *)
(***************************************************************************)
EXTENDS NmDomains, FiniteSetTheorems, SequenceTheorems, TLAPS

Request ==
  [stage : {"new", "find", "calls", "done"}, kind : {"get", "patch", "reset", "changeState"},
   domain : DomainIds, body : SUBSET Props, bad : SUBSET Parts, pending : Nat,
   final : BOOLEAN, status : Success \cup Errors, error : BOOLEAN,
   shown : [Props -> Requests \cup {Nobody}], done : SUBSET (Props \cup {"domain", "main"})]

\* The places of the calls of r in a queue, and the calls in a queue.
Own(q, r) == {i \in DOMAIN q : q[i].by = r}
Elems(q) == {q[i] : i \in DOMAIN q}

-----------------------------------------------------------------------------
(* The inductive invariant *)

TypeInv ==
  /\ domain \in [DomainIds -> [Props -> Requests \cup {Nobody}]]
  /\ calls \in Seq(CallType)
  /\ later \subseteq DomainIds \X Props \X Requests \X (Requests \cup {Nobody})
  /\ others \in 0..MaxOthers
  /\ req \in [Requests -> Request]

\* A response waits for the calls that are on their way, and only for those.
CountInv ==
  \A r \in Requests :
    /\ req[r].pending = Cardinality(Own(calls, r))
    /\ req[r].stage = "calls" <=> Own(calls, r) # {}

\* What one request has sent is contiguous.
Contiguous(q) ==
  \A i, j, k \in DOMAIN q : i < k /\ k < j /\ q[i].by = q[j].by => q[k].by = q[i].by

\* A call on its way is one its request makes in its present state.
Fits(c, q) ==
  /\ c.op = "get" => q.kind = "get" \/ (q.kind = "patch" /\ ~q.final)
  /\ c.op = "set" => q.kind = "patch" /\ q.final /\ c.arg \in q.body
  /\ c.op = "enable" => q.kind = "changeState"
  /\ c.op = "reset" => q.kind = "reset" /\ (c.arg = "main" => q.domain = acTotalPlatformPowerDomainId)

CallInv == \A c \in Elems(calls) : Fits(c, req[c.by])

\* The request alone.
FormInv(q) ==
  /\ q.stage \in {"new", "find"} => q.done = {} /\ q.status = "ok" /\ ~q.final
  /\ q.final => q.kind = "patch"
  /\ q.kind = "patch" => q.done \subseteq q.body /\ q.status # "no_content"
  /\ q.kind = "changeState" => q.done \subseteq {"domain"}
  /\ q.status \in Errors => q.error
  /\ q.final /\ q.stage = "done" => q.status \in Errors
  /\ q.stage = "done" /\ q.status \in Success =>
       /\ q.kind = "changeState" => q.done = {"domain"}
       /\ q.kind = "reset" => IF q.domain = acTotalPlatformPowerDomainId
                              THEN "main" \in q.done ELSE "domain" \in q.done

\* A PATCH that writes, and one that reads back.
Writing(q) == q.kind = "patch" /\ q.final
ReadingBack(q) == q.kind = "patch" /\ ~q.final /\ q.stage \in {"calls", "done"}

\* Unless something has failed, every property was written or will be.
WriteInv(r, q, queue) ==
  /\ Writing(q) /\ q.status = "ok" =>
       q.bad = {} /\ \A p \in q.body : p \in q.done \/ Call(r, "set", p) \in Elems(queue)
  /\ ReadingBack(q) /\ q.status = "ok" => q.bad = {} /\ q.done = q.body

\* The main node's statistics are reset last.
ResetInv(r, q, queue) ==
  q.kind = "reset" /\ q.domain = acTotalPlatformPowerDomainId /\ Own(queue, r) # {} =>
    \E i \in Own(queue, r) : queue[i].arg = "main" /\ \A j \in Own(queue, r) : j <= i

\* The read that shows p.
Shows(p) == IF p \in capabilities THEN "capabilities" ELSE p

\* The history: the value of a property is the last one written.
LaterInv(r, q, dom, lat) ==
  /\ q.kind = "patch" => \A p \in q.done : <<q.domain, p, r, r>> \in lat
  /\ \A d \in DomainIds, p \in Props :
       <<d, p, r, r>> \in lat => <<d, p, r, dom[d][p]>> \in lat

\* What is shown is fresh or will be read.
FreshInv(r, q, queue, lat) ==
  ReadingBack(q) /\ q.status = "ok" =>
    \A p \in q.body : \/ <<q.domain, p, r, q.shown[p]>> \in lat
                      \/ Call(r, "get", Shows(p)) \in Elems(queue)

\* The value of a property belongs to a PATCH that has written it.
WriterInv(r, q, dom) ==
  \A d \in DomainIds, p \in Props :
    dom[d][p] = r => q.kind = "patch" /\ q.domain = d /\ p \in q.done

\* A PATCH that has written a part is being served, and no other request has
\* overwritten that part.
PartialInv(r, q, queue, dom) ==
  Writing(q) /\ q.done # {} /\ Own(queue, r) # {} =>
    /\ queue[1].by = r
    /\ \A p \in q.done : dom[q.domain][p] \in {r, Nobody}

\* Two PATCH requests are mixed only as long as one of them is going to write more.
PairInv(r, s, q, o, queue, dom) ==
  /\ q.kind = "patch" /\ o.kind = "patch" /\ q.domain = o.domain
  /\ q.status = "ok" /\ o.status = "ok"
  => \A p, x \in q.body \cap o.body :
       dom[q.domain][p] = r /\ dom[q.domain][x] = s =>
         Call(r, "set", x) \in Elems(queue) \/ Call(s, "set", p) \in Elems(queue)

RequestInv ==
  \A r \in Requests :
    /\ FormInv(req[r]) /\ WriteInv(r, req[r], calls) /\ ResetInv(r, req[r], calls)
    /\ FreshInv(r, req[r], calls, later)

ServiceInv ==
  \A r \in Requests :
    /\ LaterInv(r, req[r], domain, later) /\ WriterInv(r, req[r], domain)
    /\ PartialInv(r, req[r], calls, domain)

PairsInv ==
  \A r, s \in Requests : r # s => PairInv(r, s, req[r], req[s], calls, domain)

DomInv ==
  /\ TypeInv /\ CountInv /\ Contiguous(calls) /\ CallInv /\ RequestInv
  /\ ServiceInv /\ PairsInv

-----------------------------------------------------------------------------
(* Queues *)

\* What is left of a queue when its head is served.
LEMMA TailOfQueue ==
  ASSUME NEW q \in Seq(CallType), q # <<>>
  PROVE  /\ Head(q) \in CallType /\ Head(q) = q[1] /\ Tail(q) \in Seq(CallType)
         /\ Len(q) \in Nat \ {0} /\ DOMAIN q = 1..Len(q) /\ DOMAIN Tail(q) = 1..(Len(q) - 1)
         /\ \A i \in DOMAIN Tail(q) : Tail(q)[i] = q[i + 1]
<1>1. Len(q) \in Nat \ {0} /\ DOMAIN q = 1..Len(q)
  BY EmptySeq, LenProperties
<1>2. /\ Head(q) \in CallType /\ Tail(q) \in Seq(CallType) /\ Len(Tail(q)) = Len(q) - 1
      /\ \A i \in 1..Len(Tail(q)) : Tail(q)[i] = q[i + 1]
  BY HeadTailProperties
<1>3. DOMAIN Tail(q) = 1..(Len(q) - 1)
  BY <1>2, LenProperties
<1>4. Head(q) = q[1]
  OBVIOUS
<1> QED BY <1>1, <1>2, <1>3, <1>4

LEMMA TailElems ==
  ASSUME NEW q \in Seq(CallType), q # <<>>
  PROVE  Elems(q) = {Head(q)} \cup Elems(Tail(q))
<1> DEFINE t == Tail(q)
           h == Head(q)
<1>1. /\ h = q[1] /\ Len(q) \in Nat \ {0} /\ DOMAIN q = 1..Len(q)
      /\ DOMAIN t = 1..(Len(q) - 1) /\ \A i \in DOMAIN t : t[i] = q[i + 1]
  BY TailOfQueue
<1> HIDE DEF t, h
<1>2. \A i \in DOMAIN q : i = 1 \/ i - 1 \in DOMAIN t
  BY <1>1
<1>3. \A i \in DOMAIN q : i = 1 \/ t[i - 1] = q[i]
  BY <1>1, <1>2
<1>4. \A i \in DOMAIN t : i + 1 \in DOMAIN q
  BY <1>1
<1>5. Elems(q) \subseteq {h} \cup Elems(t)
  BY <1>1, <1>2, <1>3 DEF Elems
<1>6. {h} \cup Elems(t) \subseteq Elems(q)
  BY <1>1, <1>4 DEF Elems
<1> QED BY <1>5, <1>6 DEF t, h

LEMMA TailContiguous ==
  ASSUME NEW q \in Seq(CallType), q # <<>>, Contiguous(q)
  PROVE  /\ Contiguous(Tail(q))
         /\ Own(Tail(q), Head(q).by) # {} => Tail(q)[1].by = Head(q).by
<1>1. \A i \in DOMAIN Tail(q) : i \in Int /\ i + 1 \in DOMAIN q /\ Tail(q)[i] = q[i + 1]
  BY TailOfQueue
<1>2. Contiguous(Tail(q))
  <2> SUFFICES ASSUME NEW i \in DOMAIN Tail(q), NEW j \in DOMAIN Tail(q),
                      NEW k \in DOMAIN Tail(q), i < k, k < j,
                      Tail(q)[i].by = Tail(q)[j].by
               PROVE  Tail(q)[k].by = Tail(q)[i].by
    BY DEF Contiguous
  <2>1. i + 1 < k + 1 /\ k + 1 < j + 1
    BY <1>1
  <2>2. q[i + 1].by = q[j + 1].by
    BY <1>1
  <2>3. q[k + 1].by = q[i + 1].by
    BY <1>1, <2>1, <2>2, Zenon DEF Contiguous
  <2> QED BY <1>1, <2>3
<1>3. ASSUME Own(Tail(q), Head(q).by) # {}
      PROVE  Tail(q)[1].by = Head(q).by
  <2>1. PICK j \in DOMAIN Tail(q) : Tail(q)[j].by = Head(q).by
    BY <1>3 DEF Own
  <2>2. j + 1 \in DOMAIN q /\ q[j + 1].by = q[1].by /\ 1 \in DOMAIN q /\ j \in Int /\ j >= 1
    BY <2>1, <1>1, TailOfQueue
  <2>3. CASE j = 1
    BY <2>1, <2>3
  <2>4. CASE j > 1
    <3>1. 2 \in DOMAIN q /\ 1 \in DOMAIN Tail(q)
      BY <2>2, <2>4, TailOfQueue
    <3>2. q[2].by = q[1].by
      BY <2>2, <2>4, <3>1 DEF Contiguous
    <3> QED BY <3>1, <3>2, <1>1, TailOfQueue
  <2> QED BY <2>2, <2>3, <2>4
<1> QED BY <1>2, <1>3

LEMMA OwnFinite ==
  ASSUME NEW q \in Seq(CallType), NEW r
  PROVE  /\ IsFiniteSet(Own(q, r)) /\ Cardinality(Own(q, r)) \in Nat
         /\ Cardinality(Own(q, r)) = 0 <=> Own(q, r) = {}
         /\ Own(q, r) \subseteq 1..Len(q) /\ Len(q) \in Nat
<1>1. Len(q) \in Nat /\ DOMAIN q = 1..Len(q)
  BY LenProperties
<1>2. Own(q, r) \subseteq 1..Len(q)
  BY <1>1 DEF Own
<1>3. IsFiniteSet(1..Len(q))
  BY <1>1, FS_Interval
<1>4. IsFiniteSet(Own(q, r))
  BY <1>2, <1>3, FS_Subset
<1> QED BY <1>1, <1>2, <1>4, FS_CardinalityType, FS_EmptySet

\* Serving a call leaves its request one call less, and the others theirs.
LEMMA TailOwn ==
  ASSUME NEW q \in Seq(CallType), q # <<>>, NEW r
  PROVE  /\ \A i : i \in Own(Tail(q), r) <=> i \in Nat /\ i # 0 /\ i + 1 \in Own(q, r)
         /\ Cardinality(Own(Tail(q), r)) =
              IF Head(q).by = r THEN Cardinality(Own(q, r)) - 1 ELSE Cardinality(Own(q, r))
         /\ Head(q).by # r => (Own(Tail(q), r) = {} <=> Own(q, r) = {})
<1> DEFINE S == Own(q, r) \ {1}
           T == Own(Tail(q), r)
           f == [i \in S |-> i - 1]
<1>1. \A i : i \in T <=> i \in Nat /\ i # 0 /\ i + 1 \in Own(q, r)
  BY TailOfQueue DEF Own
<1>2. \A i \in Own(q, r) : i \in Nat /\ i # 0
  BY OwnFinite
<1>3. f \in Bijection(S, T)
  <2>1. f \in [S -> T]
    BY <1>1, <1>2
  <2>2. \A a, b \in S : f[a] = f[b] => a = b
    BY <1>2
  <2>3. \A t \in T : \E a \in S : f[a] = t
    <3> TAKE t \in T
    <3>1. t + 1 \in S /\ t \in Nat
      BY <1>1
    <3>2. f[t + 1] = t
      BY <3>1
    <3> QED BY <3>1, <3>2
  <2> QED BY <2>1, <2>2, <2>3 DEF Bijection, Injection, Surjection, IsInjective
<1>4. IsFiniteSet(Own(q, r)) /\ Cardinality(Own(q, r)) \in Nat
  BY OwnFinite
<1>5. /\ IsFiniteSet(S)
      /\ Cardinality(S) = IF 1 \in Own(q, r) THEN Cardinality(Own(q, r)) - 1
                          ELSE Cardinality(Own(q, r))
  BY <1>4, FS_RemoveElement
<1>6. Cardinality(T) = Cardinality(S)
  BY <1>3, <1>5, FS_Bijection DEF ExistsBijection
<1>7. 1 \in Own(q, r) <=> Head(q).by = r
  BY TailOfQueue DEF Own
<1>8. Head(q).by # r => (T = {} <=> Own(q, r) = {})
  <2> SUFFICES ASSUME Head(q).by # r PROVE T = {} <=> Own(q, r) = {}
    OBVIOUS
  <2>1. \A i \in Own(q, r) : i - 1 \in T
    <3> TAKE i \in Own(q, r)
    <3>1. i # 1 /\ i \in Nat /\ i # 0
      BY <1>2, <1>7
    <3> QED BY <1>1, <3>1
  <2>2. \A i \in T : i + 1 \in Own(q, r)
    BY <1>1
  <2> QED BY <2>1, <2>2
<1>9. Cardinality(T) = IF Head(q).by = r THEN Cardinality(Own(q, r)) - 1
                       ELSE Cardinality(Own(q, r))
  BY <1>5, <1>6, <1>7
<1> QED BY <1>1, <1>8, <1>9

\* Calls are sent.
LEMMA Sending ==
  ASSUME NEW q \in Seq(CallType), NEW n \in Seq(CallType)
  PROVE  /\ q \o n \in Seq(CallType) /\ Len(q) \in Nat /\ Len(n) \in Nat
         /\ DOMAIN q = 1..Len(q) /\ DOMAIN n = 1..Len(n)
         /\ DOMAIN (q \o n) = 1..(Len(q) + Len(n))
         /\ \A i \in DOMAIN q : i \in DOMAIN (q \o n) /\ (q \o n)[i] = q[i]
         /\ \A i \in DOMAIN n : i + Len(q) \in DOMAIN (q \o n) /\ (q \o n)[i + Len(q)] = n[i]
         /\ \A i \in DOMAIN (q \o n) :
              \/ i \in DOMAIN q
              \/ i > Len(q) /\ i - Len(q) \in DOMAIN n /\ (q \o n)[i] = n[i - Len(q)]
<1>1. /\ Len(q) \in Nat /\ Len(n) \in Nat /\ DOMAIN q = 1..Len(q) /\ DOMAIN n = 1..Len(n)
  BY LenProperties
<1>2. /\ q \o n \in Seq(CallType) /\ Len(q \o n) = Len(q) + Len(n)
      /\ \A i \in 1..(Len(q) + Len(n)) :
           (q \o n)[i] = IF i <= Len(q) THEN q[i] ELSE n[i - Len(q)]
  BY ConcatProperties
<1>3. DOMAIN (q \o n) = 1..(Len(q) + Len(n))
  BY <1>2, LenProperties
<1> HIDE DEF CallType
<1> DEFINE w == q \o n
<1>4. /\ DOMAIN w = 1..(Len(q) + Len(n))
      /\ \A i \in 1..(Len(q) + Len(n)) : w[i] = IF i <= Len(q) THEN q[i] ELSE n[i - Len(q)]
  BY <1>2, <1>3
<1> HIDE DEF w
<1>5. \A i \in DOMAIN q : i \in DOMAIN w /\ w[i] = q[i]
  BY <1>1, <1>4
<1>6. \A i \in DOMAIN n : i + Len(q) \in DOMAIN w /\ w[i + Len(q)] = n[i]
  BY <1>1, <1>4
<1>7. \A i \in DOMAIN w : \/ i \in DOMAIN q
                          \/ i > Len(q) /\ i - Len(q) \in DOMAIN n /\ w[i] = n[i - Len(q)]
  BY <1>1, <1>4
<1> QED BY <1>1, <1>2, <1>3, <1>5, <1>6, <1>7 DEF w

LEMMA SendingElems ==
  ASSUME NEW q \in Seq(CallType), NEW n \in Seq(CallType)
  PROVE  Elems(q \o n) = Elems(q) \cup Elems(n)
<1> DEFINE w == q \o n
<1>1. /\ \A i \in DOMAIN q : i \in DOMAIN w /\ w[i] = q[i]
      /\ \A i \in DOMAIN n : i + Len(q) \in DOMAIN w /\ w[i + Len(q)] = n[i]
      /\ \A i \in DOMAIN w : i \in DOMAIN q \/ (i - Len(q) \in DOMAIN n /\ w[i] = n[i - Len(q)])
  BY Sending
<1> HIDE DEF w
<1>2. Elems(q) \subseteq Elems(w)
  BY <1>1 DEF Elems
<1>3. Elems(n) \subseteq Elems(w)
  BY <1>1 DEF Elems
<1>4. Elems(w) \subseteq Elems(q) \cup Elems(n)
  BY <1>1 DEF Elems
<1> QED BY <1>2, <1>3, <1>4 DEF w

\* A block of calls of a request that has none on their way.
LEMMA SendingBlock ==
  ASSUME NEW q \in Seq(CallType), NEW n \in Seq(CallType), NEW r,
         \A i \in DOMAIN n : n[i].by = r, Own(q, r) = {}
  PROVE  /\ Contiguous(q) => Contiguous(q \o n)
         /\ Cardinality(Own(q \o n, r)) = Len(n)
         /\ \A s : s # r => Own(q \o n, s) = Own(q, s)
         /\ \A i : i \in Own(q \o n, r) <=> i - Len(q) \in DOMAIN n /\ i \in Int
<1> DEFINE w == q \o n
<1>1. /\ Len(q) \in Nat /\ Len(n) \in Nat /\ DOMAIN q = 1..Len(q) /\ DOMAIN n = 1..Len(n)
      /\ DOMAIN w = 1..(Len(q) + Len(n))
      /\ \A i \in DOMAIN q : i \in DOMAIN w /\ w[i] = q[i] /\ q[i].by # r
      /\ \A i \in DOMAIN w : i \in DOMAIN q \/ (i > Len(q) /\ w[i].by = r)
  BY Sending DEF Own
<1> HIDE DEF w
<1>2. ASSUME Contiguous(q) PROVE Contiguous(w)
  <2> SUFFICES ASSUME NEW i \in DOMAIN w, NEW j \in DOMAIN w, NEW k \in DOMAIN w, i < k, k < j,
                      w[i].by = w[j].by
               PROVE  w[k].by = w[i].by
    BY DEF Contiguous
  <2>1. CASE j \in DOMAIN q
    <3>1. i \in DOMAIN q /\ k \in DOMAIN q
      BY <1>1, <2>1
    <3>2. q[i].by = q[j].by => q[k].by = q[i].by
      BY <2>1, <3>1, <1>2 DEF Contiguous
    <3> QED BY <1>1, <2>1, <3>1, <3>2
  <2>2. CASE j \notin DOMAIN q
    <3>1. i \notin DOMAIN q
      BY <1>1, <2>2
    <3>2. k \notin DOMAIN q
      BY <1>1, <3>1
    <3> QED BY <1>1, <3>1, <3>2
  <2> QED BY <2>1, <2>2
<1>3. Own(w, r) = (Len(q) + 1)..(Len(q) + Len(n))
  BY <1>1 DEF Own
<1>4. Cardinality(Own(w, r)) = Len(n)
  <2>1. Len(q) + 1 \in Int /\ Len(q) + Len(n) \in Int
    BY <1>1
  <2>2. Cardinality((Len(q) + 1)..(Len(q) + Len(n))) =
          IF Len(q) + 1 > Len(q) + Len(n) THEN 0 ELSE (Len(q) + Len(n)) - (Len(q) + 1) + 1
    BY <2>1, FS_Interval
  <2> QED BY <1>1, <1>3, <2>2
<1>5. \A s : s # r => Own(w, s) = Own(q, s)
  BY <1>1 DEF Own
<1>6. \A i : i \in Own(w, r) <=> i - Len(q) \in DOMAIN n /\ i \in Int
  BY <1>1, <1>3
<1> QED BY <1>2, <1>4, <1>5, <1>6 DEF w

-----------------------------------------------------------------------------
(* What the handlers send *)

\* Every element of a queue of r is a call of r.
By(n, r) == n \in Seq(CallType) /\ \A c \in Elems(n) : c.by = r

LEMMA ByEach ==
  ASSUME NEW n, NEW r, By(n, r)
  PROVE  \A i \in DOMAIN n : n[i].by = r
BY DEF By, Elems

LEMMA ByConcat ==
  ASSUME NEW n, NEW m, NEW r, By(n, r), By(m, r)
  PROVE  By(n \o m, r) /\ Elems(n \o m) = Elems(n) \cup Elems(m)
<1>1. n \in Seq(CallType) /\ m \in Seq(CallType)
  BY DEF By
<1>2. n \o m \in Seq(CallType) /\ Elems(n \o m) = Elems(n) \cup Elems(m)
  BY <1>1, Sending, SendingElems
<1> QED BY <1>2 DEF By

LEMMA Nothing == ASSUME NEW r PROVE By(<<>>, r) /\ Elems(<<>>) = {}
<1>1. <<>> \in Seq(CallType)
  BY EmptySeq
<1>2. Elems(<<>>) = {}
  BY DEF Elems
<1> QED BY <1>1, <1>2 DEF By

LEMMA One ==
  ASSUME NEW c \in CallType
  PROVE  By(<<c>>, c.by) /\ Elems(<<c>>) = {c} /\ <<c>> # <<>>
<1>1. <<c>> \in Seq(CallType) /\ <<c>> # <<>>
  OBVIOUS
<1>2. Elems(<<c>>) = {c}
  BY DEF Elems
<1> QED BY <1>1, <1>2 DEF By

LEMMA CallTypes ==
  ASSUME NEW r \in Requests
  PROVE  /\ \A p \in Props : /\ Call(r, "set", p) \in CallType /\ Call(r, "set", p).by = r
                             /\ Call(r, "set", p).op = "set" /\ Call(r, "set", p).arg = p
         /\ \A a \in {"capabilities", "abs", "rel", "rest"} :
              /\ Call(r, "get", a) \in CallType /\ Call(r, "get", a).by = r
              /\ Call(r, "get", a).op = "get" /\ Call(r, "get", a).arg = a
         /\ \A a \in {"domain", "main"} :
              /\ Call(r, "reset", a) \in CallType /\ Call(r, "reset", a).by = r
              /\ Call(r, "reset", a).op = "reset" /\ Call(r, "reset", a).arg = a
         /\ Call(r, "enable", "domain") \in CallType /\ Call(r, "enable", "domain").by = r
         /\ Call(r, "enable", "domain").op = "enable" /\ Call(r, "enable", "domain").arg = "domain"
BY DEF Call, CallType

\* The parts of a call.
LEMMA CallParts ==
  ASSUME NEW c \in CallType
  PROVE  /\ c.by \in Requests /\ c = Call(c.by, c.op, c.arg)
         /\ \/ c.op = "set" /\ c.arg \in Props
            \/ c.op = "get" /\ c.arg \in {"capabilities", "abs", "rel", "rest"}
            \/ c.op = "reset" /\ c.arg \in {"domain", "main"}
            \/ c.op = "enable" /\ c.arg = "domain"
BY DEF Call, CallType

\* The reads of a domain show every property.
LEMMA GetDomain ==
  ASSUME NEW r \in Requests
  PROVE  /\ By(getDomain(r), r) /\ Len(getDomain(r)) = 4 /\ getDomain(r) # <<>>
         /\ \A c \in Elems(getDomain(r)) : c.op = "get"
         /\ \A p \in Props : Call(r, "get", Shows(p)) \in Elems(getDomain(r))
<1> DEFINE a == Call(r, "get", "capabilities")
           b == Call(r, "get", "rest")
           c == Call(r, "get", "abs")
           d == Call(r, "get", "rel")
<1>1. /\ a \in CallType /\ b \in CallType /\ c \in CallType /\ d \in CallType
      /\ a.by = r /\ b.by = r /\ c.by = r /\ d.by = r
      /\ a.op = "get" /\ b.op = "get" /\ c.op = "get" /\ d.op = "get"
  BY CallTypes
<1>2. getDomain(r) = <<a, b, c, d>>
  BY DEF getDomain
<1>3. \A p \in Props : Call(r, "get", Shows(p)) \in {a, b, c, d}
  BY DEF Shows, Props, capabilities, limitBias
<1> HIDE DEF a, b, c, d
<1>4. Elems(<<a, b, c, d>>) = {a, b, c, d}
  BY DEF Elems
<1>5. Len(<<a, b, c, d>>) = 4 /\ <<a, b, c, d>> # <<>> /\ <<a, b, c, d>> \in Seq(CallType)
  BY <1>1
<1> QED BY <1>1, <1>2, <1>3, <1>4, <1>5 DEF By

LEMMA WantedCalls ==
  ASSUME NEW r \in Requests, NEW p \in Props
  PROVE  /\ By(Wanted(r, p), r)
         /\ Elems(Wanted(r, p)) = IF p \in req[r].body THEN {Call(r, "set", p)} ELSE {}
<1>1. Call(r, "set", p) \in CallType /\ Call(r, "set", p).by = r
  BY CallTypes
<1> QED BY <1>1, One, Nothing DEF Wanted

LEMMA PatchCalls ==
  ASSUME NEW r \in Requests, NEW n, n = setCapabilities(r) \o setLimitBiases(r)
  PROVE  /\ By(n, r)
         /\ \A c \in Elems(n) : c.op = "set" /\ c.arg \in req[r].body
         /\ req[r].bad = {} => \A p \in req[r].body \cap Props : Call(r, "set", p) \in Elems(n)
<1> DEFINE W(p) == IF p \in req[r].body THEN {Call(r, "set", p)} ELSE {}
           a == setCapabilities(r)
           b == setLimitBiases(r)
<1>1. /\ By(a, r) /\ Elems(a) \subseteq W("max") \cup W("min")
      /\ req[r].bad = {} => Elems(a) = W("max") \cup W("min")
  <2>1. "max" \in Props /\ "min" \in Props
    BY DEF Props, capabilities
  <2>2. /\ By(Wanted(r, "max"), r) /\ By(Wanted(r, "min"), r)
        /\ Elems(Wanted(r, "max")) = W("max") /\ Elems(Wanted(r, "min")) = W("min")
    BY <2>1, WantedCalls
  <2> HIDE DEF W
  <2>3. /\ By(Wanted(r, "max") \o Wanted(r, "min"), r)
        /\ Elems(Wanted(r, "max") \o Wanted(r, "min")) = W("max") \cup W("min")
    BY <2>2, ByConcat
  <2> QED BY <2>3, Nothing DEF setCapabilities
<1>2. /\ By(b, r) /\ Elems(b) \subseteq W("abs") \cup W("rel")
      /\ req[r].bad = {} => Elems(b) = W("abs") \cup W("rel")
  <2>1. "abs" \in Props /\ "rel" \in Props
    BY DEF Props, limitBias
  <2>2. /\ By(Wanted(r, "abs"), r) /\ By(Wanted(r, "rel"), r)
        /\ Elems(Wanted(r, "abs")) = W("abs") /\ Elems(Wanted(r, "rel")) = W("rel")
    BY <2>1, WantedCalls
  <2> HIDE DEF W
  <2>3. /\ By(Wanted(r, "abs") \o Wanted(r, "rel"), r)
        /\ Elems(Wanted(r, "abs") \o Wanted(r, "rel")) = W("abs") \cup W("rel")
    BY <2>2, ByConcat
  <2> QED BY <2>3, Nothing DEF setLimitBiases
<1>3. By(n, r) /\ Elems(n) = Elems(a) \cup Elems(b)
  BY <1>1, <1>2, ByConcat
<1> HIDE DEF a, b
<1>4. \A p \in Props : /\ Call(r, "set", p).op = "set" /\ Call(r, "set", p).arg = p
                       /\ W(p) = IF p \in req[r].body THEN {Call(r, "set", p)} ELSE {}
  BY CallTypes
<1>5. Props = {"max", "min", "abs", "rel"}
  BY DEF Props, capabilities, limitBias
<1>6. \A c \in Elems(n) : \E p \in Props : c \in W(p)
  BY <1>1, <1>2, <1>3, <1>5
<1>7. req[r].bad = {} => \A p \in Props : W(p) \subseteq Elems(n)
  BY <1>1, <1>2, <1>3, <1>5
<1> HIDE DEF W
<1> QED BY <1>3, <1>4, <1>6, <1>7

LEMMA ResetCalls ==
  ASSUME NEW r \in Requests, NEW n, n = resetStatistics(r)
  PROVE  /\ By(n, r) /\ n # <<>>
         /\ \A c \in Elems(n) :
              c.op = "reset" /\ (c.arg = "main" => req[r].domain = acTotalPlatformPowerDomainId)
         /\ req[r].domain = acTotalPlatformPowerDomainId =>
              Len(n) = 2 /\ n[2].arg = "main"
<1> DEFINE a == Call(r, "reset", "domain")
           b == Call(r, "reset", "main")
<1>1. /\ a \in CallType /\ b \in CallType /\ a.by = r /\ b.by = r
      /\ a.op = "reset" /\ b.op = "reset" /\ a.arg = "domain" /\ b.arg = "main"
  BY CallTypes
<1>2. n = <<a>> \o (IF req[r].domain = acTotalPlatformPowerDomainId THEN <<b>> ELSE <<>>)
  BY DEF resetStatistics
<1> HIDE DEF a, b
<1>3. CASE req[r].domain = acTotalPlatformPowerDomainId
  <2>1. n = <<a>> \o <<b>>
    BY <1>2, <1>3
  <2>2. /\ By(<<a>>, r) /\ By(<<b>>, r) /\ Elems(<<a>>) = {a} /\ Elems(<<b>>) = {b}
    <3>1. By(<<a>>, a.by) /\ Elems(<<a>>) = {a}
      BY <1>1, One, Zenon
    <3>2. By(<<b>>, b.by) /\ Elems(<<b>>) = {b}
      BY <1>1, One, Zenon
    <3> QED BY <1>1, <3>1, <3>2, Zenon
  <2>3. By(n, r) /\ Elems(n) = {a, b}
    <3>1. By(n, r) /\ Elems(n) = Elems(<<a>>) \cup Elems(<<b>>)
      BY <2>1, <2>2, ByConcat, Zenon
    <3> QED BY <2>2, <3>1, Zenon
  <2>4. Len(<<a>>) = 1 /\ Len(<<b>>) = 1 /\ <<b>>[1] = b
    OBVIOUS
  <2>5. Len(n) = 2 /\ n[2] = b
    <3>1. <<a>> \in Seq(CallType) /\ <<b>> \in Seq(CallType)
      BY <2>2 DEF By
    <3>2. /\ Len(<<a>> \o <<b>>) = 1 + 1
          /\ \A i \in 1..(1 + 1) : (<<a>> \o <<b>>)[i] = IF i <= 1 THEN <<a>>[i] ELSE <<b>>[i - 1]
      BY <2>4, <3>1, ConcatProperties
    <3> QED BY <2>1, <2>4, <3>2
  <2>6. n # <<>>
    BY <2>5
  <2> QED BY <1>1, <1>3, <2>3, <2>5, <2>6
<1>4. CASE req[r].domain # acTotalPlatformPowerDomainId
  <2>1. n = <<a>>
    BY <1>2, <1>4
  <2> QED BY <1>1, <1>4, <2>1, One
<1> QED BY <1>3, <1>4

-----------------------------------------------------------------------------
(* What comes after a callback *)

Keeps(q, m) ==
  /\ q.kind = m.kind /\ q.domain = m.domain /\ q.body = m.body /\ q.bad = m.bad
  /\ q.status = m.status /\ q.shown = m.shown /\ q.done = m.done

\* The request waits for answers; it reads the domain back; it is answered.
Waiting(r, q, m, new, queue) ==
  /\ q.stage = "calls" /\ q.final = m.final /\ q.error = m.error
  /\ Own(calls', r) # {}
  /\ calls' = queue \o new /\ Elems(calls') = Elems(queue) \cup Elems(new)

Rereads(r, q, m, new, queue) ==
  /\ q.stage = "calls" /\ ~q.final /\ m.final /\ m.status = "ok"
  /\ new = <<>> /\ Own(queue, r) = {} /\ Own(calls', r) # {}
  /\ calls' = queue \o getDomain(r) /\ Elems(calls') = Elems(queue) \cup Elems(getDomain(r))

Answers(r, q, m, new, queue) ==
  /\ q.stage = "done" /\ q.final = m.final /\ q.error = m.error
  /\ ~(m.final /\ m.status = "ok")
  /\ new = <<>> /\ Own(queue, r) = {} /\ calls' = queue

\* The three things that Continue can do to the request, in terms of its fields.
LEMMA Continued ==
  ASSUME TypeInv, NEW r \in Requests, NEW m \in Request, NEW new, NEW queue \in Seq(CallType),
         Continue(r, m, new, queue), By(new, r),
         m.pending = Cardinality(Own(queue, r)), Own(queue, r) = {} \/ new = <<>>
  PROVE  /\ req'[r] \in Request /\ Keeps(req'[r], m)
         /\ calls' \in Seq(CallType)
         /\ req' = [req EXCEPT ![r] = req'[r]]
         /\ req'[r].pending = Cardinality(Own(calls', r))
         /\ \/ Waiting(r, req'[r], m, new, queue) \/ Rereads(r, req'[r], m, new, queue)
            \/ Answers(r, req'[r], m, new, queue)
<1> DEFINE waits == m.pending + Len(new) > 0
           again == ~waits /\ m.final /\ FinalCallback(m)
           g == getDomain(r)
           back == [m EXCEPT !.final = FALSE, !.error = FALSE, !.stage = "calls",
                             !.pending = Len(g)]
           on == [m EXCEPT !.stage = IF waits THEN "calls" ELSE "done",
                           !.pending = @ + Len(new)]
           q == IF again THEN back ELSE on
<1>1. new \in Seq(CallType) /\ Len(new) \in Nat /\ (Len(new) = 0 <=> new = <<>>)
  BY EmptySeq, LenProperties DEF By
<1>2. m.pending \in Nat /\ (m.pending = 0 <=> Own(queue, r) = {})
  BY OwnFinite
<1>3. /\ calls' = queue \o new \o (IF again THEN g ELSE <<>>)
      /\ req' = [req EXCEPT ![r] = q]
  BY DEF Continue
<1>4. By(g, r) /\ Len(g) = 4 /\ g \in Seq(CallType)
  BY GetDomain DEF By
<1> HIDE DEF g
<1>5. back \in Request /\ Keeps(back, m) /\ back.stage = "calls" /\ ~back.final
      /\ back.pending = 4
  <2>1. back = [m EXCEPT !.final = FALSE, !.error = FALSE, !.stage = "calls", !.pending = 4]
    BY <1>4
  <2> HIDE DEF back
  <2>2. back \in Request
    BY <2>1 DEF Request
  <2>3. back.final = FALSE
    BY <2>1, Zenon DEF Request
  <2>4. Keeps(back, m) /\ back.stage = "calls" /\ back.pending = 4
    BY <2>1 DEF Request, Keeps
  <2> QED BY <2>2, <2>3, <2>4
<1>6. /\ on \in Request /\ Keeps(on, m) /\ on.stage = IF waits THEN "calls" ELSE "done"
      /\ on.final = m.final /\ on.error = m.error /\ on.pending = m.pending + Len(new)
  <2> DEFINE stage == IF waits THEN "calls" ELSE "done"
             n == m.pending + Len(new)
  <2>1. n \in Nat /\ stage \in {"calls", "done"}
    BY <1>1, <1>2
  <2>2. on = [m EXCEPT !.stage = stage, !.pending = n]
    OBVIOUS
  <2> HIDE DEF stage, n, waits, on
  <2>3. on \in Request
    BY <2>1, <2>2 DEF Request
  <2>4. /\ Keeps(on, m) /\ on.stage = stage /\ on.pending = n
        /\ on.final = m.final /\ on.error = m.error
    BY <2>2 DEF Request, Keeps
  <2> QED BY <2>3, <2>4 DEF stage, n
<1> HIDE DEF back, on
<1>7. req'[r] = q /\ req' = [req EXCEPT ![r] = req'[r]]
  BY <1>3 DEF TypeInv
<1>8. queue \o <<>> = queue /\ queue \o new \in Seq(CallType)
  BY <1>1, ConcatEmptySeq, Sending
<1>9. queue \o new \o <<>> = queue \o new
  BY <1>8, ConcatEmptySeq
<1>10. CASE again
  <2>1. Len(new) = 0 /\ m.pending = 0
    BY <1>1, <1>2, <1>10
  <2>2. new = <<>> /\ Own(queue, r) = {}
    BY <2>1, <1>1, <1>2
  <2>3. calls' = queue \o g /\ req'[r] = back
    BY <1>3, <1>7, <1>8, <1>10, <2>2
  <2>4. \A i \in DOMAIN g : g[i].by = r
    BY <1>4, ByEach
  <2>5. Cardinality(Own(queue \o g, r)) = 4
    BY <1>4, <2>2, <2>4, SendingBlock
  <2>6. /\ Elems(queue \o g) = Elems(queue) \cup Elems(g)
        /\ queue \o g \in Seq(CallType)
    BY <1>4, Sending, SendingElems
  <2>7. Own(queue \o g, r) # {}
    <3> DEFINE w == queue \o g
    <3>1. Cardinality(Own(w, r)) = 4 /\ w \in Seq(CallType)
      BY <2>5, <2>6
    <3> HIDE DEF w
    <3>2. Own(w, r) # {}
      BY <3>1, OwnFinite
    <3> QED BY <3>2 DEF w
  <2>8. m.final /\ m.status = "ok"
    BY <1>10 DEF FinalCallback
  <2>9. Rereads(r, req'[r], m, new, queue)
    BY <1>5, <2>2, <2>3, <2>6, <2>7, <2>8 DEF Rereads, g
  <2> QED BY <1>5, <1>7, <2>3, <2>5, <2>6, <2>9
<1>11. CASE ~again /\ waits
  <2>1. calls' = queue \o new /\ req'[r] = on
    BY <1>3, <1>7, <1>9, <1>11
  <2>2. Cardinality(Own(calls', r)) = m.pending + Len(new)
    <3>1. CASE new = <<>>
      BY <1>1, <1>2, <1>8, <2>1, <3>1
    <3>2. CASE Own(queue, r) = {}
      <4>1. \A i \in DOMAIN new : new[i].by = r
        BY ByEach
      <4>2. Cardinality(Own(queue \o new, r)) = Len(new)
        BY <1>1, <3>2, <4>1, SendingBlock
      <4> QED BY <1>1, <1>2, <2>1, <3>2, <4>2
    <3> QED BY <3>1, <3>2
  <2>3. Elems(calls') = Elems(queue) \cup Elems(new) /\ calls' \in Seq(CallType)
    BY <1>1, <1>8, <2>1, SendingElems
  <2>4. Own(calls', r) # {}
    BY <1>1, <1>2, <1>11, <2>2, <2>3, OwnFinite
  <2>5. Waiting(r, req'[r], m, new, queue)
    BY <1>6, <1>11, <2>1, <2>3, <2>4 DEF Waiting
  <2> QED BY <1>6, <1>7, <2>1, <2>2, <2>3, <2>5
<1>12. CASE ~again /\ ~waits
  <2>1. Len(new) = 0 /\ m.pending = 0
    BY <1>1, <1>2, <1>12
  <2>2. new = <<>> /\ Own(queue, r) = {}
    BY <2>1, <1>1, <1>2
  <2>3. calls' = queue /\ req'[r] = on
    BY <1>3, <1>7, <1>8, <1>12, <2>2
  <2>4. ~(m.final /\ m.status = "ok")
    BY <1>12 DEF FinalCallback
  <2>5. Answers(r, req'[r], m, new, queue)
    BY <1>6, <1>12, <2>2, <2>3, <2>4 DEF Answers
  <2>6. req'[r].pending = Cardinality(Own(calls', r))
    <3>1. on.pending = m.pending
      BY <1>2, <1>6, <2>1
    <3> QED BY <2>3, <3>1
  <2> QED BY <1>6, <1>7, <2>3, <2>5, <2>6
<1> QED BY <1>10, <1>11, <1>12

\* The queue is left alone, or a call of r at its head is served.
Moved(r, queue) ==
  \/ queue = calls
  \/ calls # <<>> /\ Head(calls).by = r /\ queue = Tail(calls)

\* In either case the other requests keep their calls, in their order.
LEMMA OthersCalls ==
  ASSUME calls \in Seq(CallType), NEW r \in Requests, NEW queue, Moved(r, queue)
  PROVE  /\ queue \in Seq(CallType)
         /\ Contiguous(calls) => Contiguous(queue)
         /\ Elems(queue) \subseteq Elems(calls)
         /\ \A c \in Elems(calls) : c.by # r => c \in Elems(queue)
         /\ \A s : s # r =>
              /\ Cardinality(Own(queue, s)) = Cardinality(Own(calls, s))
              /\ Own(queue, s) = {} <=> Own(calls, s) = {}
         /\ \A s, q : s # r /\ ResetInv(s, q, calls) => ResetInv(s, q, queue)
<1>1. CASE queue = calls
  BY <1>1
<1>2. CASE calls # <<>> /\ Head(calls).by = r /\ queue = Tail(calls)
  <2>1. queue \in Seq(CallType) /\ Elems(calls) = {Head(calls)} \cup Elems(queue)
    BY <1>2, TailOfQueue, TailElems
  <2>2. Contiguous(calls) => Contiguous(queue)
    BY <1>2, TailContiguous
  <2>3. ASSUME NEW s, s # r
        PROVE  /\ Cardinality(Own(queue, s)) = Cardinality(Own(calls, s))
               /\ Own(queue, s) = {} <=> Own(calls, s) = {}
    BY <1>2, <2>3, TailOwn
  <2>4. ASSUME NEW s, s # r, NEW q, ResetInv(s, q, calls)
        PROVE  ResetInv(s, q, queue)
    <3> SUFFICES ASSUME q.kind = "reset", q.domain = acTotalPlatformPowerDomainId,
                        Own(queue, s) # {}
                 PROVE  \E i \in Own(queue, s) :
                          queue[i].arg = "main" /\ \A j \in Own(queue, s) : j <= i
      BY DEF ResetInv
    <3>1. PICK k \in Own(calls, s) :
            calls[k].arg = "main" /\ \A j \in Own(calls, s) : j <= k
      BY <2>3, <2>4 DEF ResetInv
    <3>2. \A i : i \in Own(queue, s) <=> i \in Nat /\ i # 0 /\ i + 1 \in Own(calls, s)
      BY <1>2, TailOwn
    <3>3. k \in 1..Len(calls) /\ Len(calls) \in Nat
      BY OwnFinite
    <3>4. k # 1
      BY <1>2, <2>4, TailOfQueue DEF Own
    <3>5. k - 1 \in Own(queue, s)
      BY <3>2, <3>3, <3>4
    <3>6. queue[k - 1] = calls[k]
      <4>1. k - 1 \in DOMAIN queue /\ (k - 1) + 1 = k
        BY <3>3, <3>5 DEF Own
      <4> QED BY <1>2, <4>1, TailOfQueue
    <3>7. \A j \in Own(queue, s) : j <= k - 1
      BY <3>1, <3>2, <3>3
    <3> QED BY <3>1, <3>5, <3>6, <3>7
  <2> QED BY <1>2, <2>1, <2>2, <2>3, <2>4
<1> QED BY <1>1, <1>2 DEF Moved

\* A step of r that leaves the records and the calls of all others alone.
Alone(r) ==
  /\ \A s \in Requests : s # r => req'[s] = req[s]
  /\ \A c : c.by # r => (c \in Elems(calls') <=> c \in Elems(calls))
  /\ \A s \in Requests : s # r /\ ResetInv(s, req[s], calls) => ResetInv(s, req[s], calls')

\* The parts of the invariant that are about the queue, after any callback of r; and
\* what the callback leaves as it was.
LEMMA QueueKept ==
  ASSUME TypeInv, CountInv, Contiguous(calls),
         NEW r \in Requests, NEW m \in Request, NEW new, NEW queue, Moved(r, queue),
         Continue(r, m, new, queue), By(new, r),
         m.pending = Cardinality(Own(queue, r)), Own(queue, r) = {} \/ new = <<>>
  PROVE  /\ req' \in [Requests -> Request] /\ calls' \in Seq(CallType)
         /\ CountInv' /\ Contiguous(calls') /\ Alone(r)
         /\ \A i \in DOMAIN queue : i \in DOMAIN calls' /\ calls'[i] = queue[i]
<1>1. /\ queue \in Seq(CallType) /\ Contiguous(queue)
      /\ \A c : c.by # r => (c \in Elems(queue) <=> c \in Elems(calls))
      /\ \A s : s # r =>
           /\ Cardinality(Own(queue, s)) = Cardinality(Own(calls, s))
           /\ Own(queue, s) = {} <=> Own(calls, s) = {}
      /\ \A s, q : s # r /\ ResetInv(s, q, calls) => ResetInv(s, q, queue)
  BY OthersCalls DEF TypeInv
<1>2. /\ req'[r] \in Request /\ calls' \in Seq(CallType)
      /\ req' = [req EXCEPT ![r] = req'[r]]
      /\ req'[r].pending = Cardinality(Own(calls', r))
      /\ \/ Waiting(r, req'[r], m, new, queue) \/ Rereads(r, req'[r], m, new, queue)
         \/ Answers(r, req'[r], m, new, queue)
  BY <1>1, Continued
<1>3. PICK n : By(n, r) /\ calls' = queue \o n /\ (Own(queue, r) = {} \/ n = <<>>)
  <2>1. CASE Waiting(r, req'[r], m, new, queue)
    BY <2>1 DEF Waiting
  <2>2. CASE Rereads(r, req'[r], m, new, queue)
    BY <2>2, GetDomain DEF Rereads
  <2>3. CASE Answers(r, req'[r], m, new, queue)
    <3>1. calls' = queue \o <<>> /\ By(<<>>, r)
      BY <1>1, <2>3, ConcatEmptySeq, Nothing DEF Answers
    <3> QED BY <3>1
  <2> QED BY <1>2, <2>1, <2>2, <2>3
<1>4. n \in Seq(CallType) /\ \A i \in DOMAIN n : n[i].by = r
  BY <1>3, ByEach DEF By
<1>5. Elems(calls') = Elems(queue) \cup Elems(n) /\ \A c \in Elems(n) : c.by = r
  BY <1>1, <1>3, <1>4, SendingElems DEF By
<1>6. Contiguous(calls') /\ \A s : s # r => Own(calls', s) = Own(queue, s)
  <2>1. CASE n = <<>>
    <3>1. calls' = queue
      BY <1>1, <1>3, <2>1, ConcatEmptySeq
    <3> QED BY <1>1, <3>1
  <2>2. CASE Own(queue, r) = {}
    <3>1. /\ Contiguous(queue) => Contiguous(queue \o n)
          /\ \A s : s # r => Own(queue \o n, s) = Own(queue, s)
      BY <1>1, <1>4, <2>2, SendingBlock
    <3> QED BY <1>1, <1>3, <3>1, Zenon
  <2> QED BY <1>3, <2>1, <2>2
<1>7. \A i \in DOMAIN queue : i \in DOMAIN calls' /\ calls'[i] = queue[i]
  BY <1>1, <1>3, <1>4, Sending
<1>8. req' \in [Requests -> Request] /\ \A s \in Requests : s # r => req'[s] = req[s]
  BY <1>2 DEF TypeInv
<1>9. CountInv'
  <2> SUFFICES ASSUME NEW s \in Requests
               PROVE  /\ req'[s].pending = Cardinality(Own(calls', s))
                      /\ req'[s].stage = "calls" <=> Own(calls', s) # {}
    BY DEF CountInv, Own
  <2>1. CASE s # r
    BY <1>1, <1>6, <1>8, <2>1 DEF CountInv
  <2>2. CASE s = r
    BY <1>2, <2>2 DEF Waiting, Rereads, Answers
  <2> QED BY <2>1, <2>2
<1>10. ASSUME NEW s \in Requests, s # r, ResetInv(s, req[s], calls)
       PROVE  ResetInv(s, req[s], calls')
  <2>1. ResetInv(s, req[s], queue)
    BY <1>1, <1>10
  <2>2. Own(calls', s) = Own(queue, s) /\ \A i \in Own(queue, s) : calls'[i] = queue[i]
    BY <1>6, <1>7, <1>10 DEF Own
  <2> QED BY <2>1, <2>2 DEF ResetInv
<1>11. \A c : c.by # r => (c \in Elems(calls') <=> c \in Elems(calls))
  BY <1>1, <1>5
<1>12. Alone(r)
  BY <1>8, <1>10, <1>11 DEF Alone
<1> QED BY <1>2, <1>6, <1>7, <1>8, <1>9, <1>12

LEMMA OwnElems ==
  ASSUME NEW q, NEW s
  PROVE  Own(q, s) # {} <=> \E c \in Elems(q) : c.by = s
BY DEF Own, Elems

\* The others keep their invariants, and every call has an owner it fits.
LEMMA OthersKept ==
  ASSUME DomInv, NEW r \in Requests, Alone(r), later \subseteq later',
         calls' \in Seq(CallType),
         \A c \in Elems(calls') : c.by = r => Fits(c, req'[r]),
         FormInv(req'[r]), WriteInv(r, req'[r], calls'), ResetInv(r, req'[r], calls'),
         FreshInv(r, req'[r], calls', later')
  PROVE  CallInv' /\ RequestInv'
<1>1. CallInv'
  <2> SUFFICES ASSUME NEW c \in Elems(calls') PROVE Fits(c, req'[c.by])
    BY DEF CallInv, Elems
  <2>1. c \in CallType
    BY LenProperties DEF Elems
  <2>2. c.by \in Requests
    BY <2>1, CallParts
  <2>3. CASE c.by # r
    BY <2>2, <2>3 DEF Alone, DomInv, CallInv
  <2> QED BY <2>3
<1>2. RequestInv'
  <2> SUFFICES ASSUME NEW s \in Requests, s # r
               PROVE  /\ FormInv(req'[s]) /\ WriteInv(s, req'[s], calls')
                      /\ ResetInv(s, req'[s], calls') /\ FreshInv(s, req'[s], calls', later')
    BY DEF RequestInv
  <2>1. req'[s] = req[s]
    BY DEF Alone
  <2>2. /\ FormInv(req[s]) /\ WriteInv(s, req[s], calls)
        /\ ResetInv(s, req[s], calls) /\ FreshInv(s, req[s], calls, later)
    BY DEF DomInv, RequestInv
  <2>3. ResetInv(s, req[s], calls')
    BY <2>2 DEF Alone
  <2>4. \A op, a : Call(s, op, a) \in Elems(calls) => Call(s, op, a) \in Elems(calls')
    <3>1. \A op, a : Call(s, op, a).by = s
      BY DEF Call
    <3> QED BY <3>1 DEF Alone
  <2>5. WriteInv(s, req[s], calls')
    BY <2>2, <2>4 DEF WriteInv
  <2>6. FreshInv(s, req[s], calls', later')
    BY <2>2, <2>4 DEF FreshInv
  <2> QED BY <2>1, <2>2, <2>3, <2>5, <2>6
<1> QED BY <1>1, <1>2

\* A request that has written nothing does not disturb what is known of the service.
LEMMA BeforeWrites ==
  ASSUME DomInv, NEW r \in Requests, Alone(r), UNCHANGED <<domain, later>>,
         req' \in [Requests -> Request], req[r].done = {}, req'[r].done = {},
         \A i \in DOMAIN calls : i \in DOMAIN calls' /\ calls'[i] = calls[i]
  PROVE  ServiceInv' /\ PairsInv'
<1>1. \A d \in DomainIds, p \in Props : domain[d][p] # r
  BY DEF DomInv, ServiceInv, WriterInv
<1>2. ServiceInv'
  <2> SUFFICES ASSUME NEW s \in Requests
               PROVE  /\ LaterInv(s, req'[s], domain', later') /\ WriterInv(s, req'[s], domain')
                      /\ PartialInv(s, req'[s], calls', domain')
    BY DEF ServiceInv
  <2>1. /\ LaterInv(s, req[s], domain, later) /\ WriterInv(s, req[s], domain)
        /\ PartialInv(s, req[s], calls, domain)
    BY DEF DomInv, ServiceInv
  <2>2. CASE s = r
    <3>1. LaterInv(r, req'[r], domain', later')
      BY <2>1, <2>2 DEF LaterInv
    <3>2. WriterInv(r, req'[r], domain')
      BY <1>1 DEF WriterInv
    <3>3. PartialInv(r, req'[r], calls', domain')
      BY DEF PartialInv
    <3> QED BY <2>2, <3>1, <3>2, <3>3
  <2>3. CASE s # r
    <3>1. req'[s] = req[s]
      BY <2>3 DEF Alone
    <3>2. Own(calls', s) # {} => Own(calls, s) # {}
      BY <2>3, OwnElems DEF Alone
    <3>3. ASSUME Own(calls, s) # {} PROVE calls'[1] = calls[1]
      <4>1. 1 \in DOMAIN calls
        BY <3>3, OwnFinite, LenProperties DEF DomInv, TypeInv
      <4> QED BY <4>1
    <3>4. PartialInv(s, req[s], calls', domain)
      BY <2>1, <3>2, <3>3 DEF PartialInv
    <3> QED BY <2>1, <3>1, <3>4
  <2> QED BY <2>2, <2>3
<1>3. PairsInv'
  <2> SUFFICES ASSUME NEW s \in Requests, NEW t \in Requests, s # t
               PROVE  PairInv(s, t, req'[s], req'[t], calls', domain')
    BY DEF PairsInv
  <2>1. CASE s = r \/ t = r
    <3> SUFFICES ASSUME req'[s].domain \in DomainIds, req'[s].body \subseteq Props,
                        NEW p \in req'[s].body \cap req'[t].body,
                        NEW x \in req'[s].body \cap req'[t].body,
                        domain[req'[s].domain][p] = s, domain[req'[s].domain][x] = t
                 PROVE  FALSE
      BY DEF PairInv, Request
    <3> QED BY <1>1, <2>1
  <2>2. CASE s # r /\ t # r
    <3>1. req'[s] = req[s] /\ req'[t] = req[t]
      BY <2>2 DEF Alone
    <3>2. PairInv(s, t, req[s], req[t], calls, domain)
      BY DEF DomInv, PairsInv
    <3>3. \A op, a : /\ Call(s, op, a) \in Elems(calls) => Call(s, op, a) \in Elems(calls')
                     /\ Call(t, op, a) \in Elems(calls) => Call(t, op, a) \in Elems(calls')
      <4>1. \A op, a : Call(s, op, a).by = s /\ Call(t, op, a).by = t
        BY DEF Call
      <4> QED BY <2>2, <4>1 DEF Alone
    <3> QED BY <3>1, <3>2, <3>3 DEF PairInv
  <2> QED BY <2>1, <2>2
<1> QED BY <1>2, <1>3

-----------------------------------------------------------------------------
(* Requests that begin *)

\* A call that fits a record fits another one with the same kind and phase.
LEMMA FitsSame ==
  ASSUME NEW c, NEW q, NEW m, Fits(c, m), Keeps(q, m), q.final = m.final
  PROVE  Fits(c, q)
BY DEF Fits, Keeps

\* A PATCH that is about to read back may make the calls for that.
LEMMA FitsBack ==
  ASSUME NEW r \in Requests, NEW q, q.kind = "patch", ~q.final,
         NEW c \in Elems(getDomain(r))
  PROVE  Fits(c, q)
BY GetDomain DEF Fits

\* The record with which a request continues after its domain was looked up.
Ready(r, m, new) ==
  /\ m \in Request /\ By(new, r) /\ m.pending = 0 /\ m.done = {}
  /\ m.status = "ok" \/ (m.status \in Errors /\ m.error)
  /\ m.final => m.kind = "patch"
  /\ \A c \in Elems(new) : Fits(c, m)
  /\ m.status = "ok" =>
       /\ m.kind # "patch" => new # <<>>
       /\ m.kind = "patch" =>
            /\ m.final /\ m.bad = {}
            /\ \A p \in m.body : Call(r, "set", p) \in Elems(new)
  /\ m.kind = "reset" /\ m.domain = acTotalPlatformPowerDomainId /\ new # <<>> =>
       Len(new) = 2 /\ new[2].arg = "main"

LEMMA Starts ==
  ASSUME DomInv, NEW r \in Requests, req[r].stage = "find", NEW m, NEW new, Ready(r, m, new),
         Continue(r, m, new, calls), UNCHANGED <<domain, later, others>>
  PROVE  DomInv'
<1> DEFINE q == req'[r]
<1>1. TypeInv /\ CountInv /\ Contiguous(calls) /\ calls \in Seq(CallType)
  BY DEF DomInv, TypeInv
<1>2. Own(calls, r) = {} /\ req[r].done = {} /\ Cardinality(Own(calls, r)) = 0
  BY <1>1, OwnFinite DEF DomInv, CountInv, RequestInv, FormInv
<1>3. m \in Request /\ By(new, r) /\ m.pending = 0 /\ m.done = {}
  BY DEF Ready
<1>4. Moved(r, calls)
  BY DEF Moved
<1>5. /\ req' \in [Requests -> Request] /\ calls' \in Seq(CallType)
      /\ CountInv' /\ Contiguous(calls') /\ Alone(r)
      /\ \A i \in DOMAIN calls : i \in DOMAIN calls' /\ calls'[i] = calls[i]
  <2>1. m.pending = Cardinality(Own(calls, r))
    BY <1>2, <1>3
  <2>2. Own(calls, r) = {} \/ new = <<>>
    BY <1>2
  <2>3. /\ req' \in [Requests -> Request] /\ calls' \in Seq(CallType)
        /\ CountInv' /\ Contiguous(calls') /\ Alone(r)
    BY <1>1, <1>3, <1>4, <2>1, <2>2, QueueKept
  <2>4. \A i \in DOMAIN calls : i \in DOMAIN calls' /\ calls'[i] = calls[i]
    BY <1>1, <1>3, <1>4, <2>1, <2>2, QueueKept
  <2> QED BY <2>3, <2>4
<1>6. /\ q \in Request /\ Keeps(q, m)
      /\ \/ Waiting(r, q, m, new, calls) \/ Rereads(r, q, m, new, calls)
         \/ Answers(r, q, m, new, calls)
  <2>1. Cardinality(Own(calls, r)) = m.pending
    BY <1>2, <1>3
  <2> QED BY <1>1, <1>2, <1>3, <2>1, Continued, Zenon
<1>7. TypeInv'
  BY <1>1, <1>5 DEF TypeInv
<1> HIDE DEF q
<1>8. \A c \in Elems(calls) : c.by # r
  BY <1>2, OwnElems
<1>9. /\ q.kind = m.kind /\ q.domain = m.domain /\ q.body = m.body /\ q.bad = m.bad
      /\ q.status = m.status /\ q.done = {} /\ q.body \subseteq Props
  BY <1>3, <1>6 DEF Keeps, Request
<1>10. \A c \in Elems(calls') : c.by = r => Fits(c, q)
  <2>1. CASE Waiting(r, q, m, new, calls)
    <3>1. \A c \in Elems(new) : Fits(c, m)
      BY DEF Ready
    <3> QED BY <1>6, <1>8, <2>1, <3>1, FitsSame DEF Waiting
  <2>2. CASE Rereads(r, q, m, new, calls)
    <3>1. q.kind = "patch" /\ ~q.final
      BY <1>9, <2>2 DEF Rereads, Ready
    <3> QED BY <1>8, <2>2, <3>1, FitsBack DEF Rereads
  <2>3. CASE Answers(r, q, m, new, calls)
    BY <1>8, <2>3 DEF Answers
  <2> QED BY <1>6, <2>1, <2>2, <2>3
<1>11. new = <<>> => Elems(new) = {}
  BY Nothing
<1>12. FormInv(q)
  <2>1. CASE Waiting(r, q, m, new, calls)
    BY <1>9, <2>1 DEF Waiting, Ready, FormInv, Errors, Success
  <2>2. CASE Rereads(r, q, m, new, calls)
    BY <1>9, <2>2 DEF Rereads, Ready, FormInv, Errors, Success
  <2>3. CASE Answers(r, q, m, new, calls)
    <3>1. m.status # "ok"
      BY <2>3 DEF Answers, Ready
    <3> QED BY <1>9, <2>3, <3>1 DEF Answers, Ready, FormInv, Errors, Success
  <2> QED BY <1>6, <2>1, <2>2, <2>3
<1>13. WriteInv(r, q, calls')
  <2>1. CASE Waiting(r, q, m, new, calls)
    <3>1. q.status = "ok" /\ q.kind = "patch" =>
            q.final /\ q.bad = {} /\ \A p \in q.body : Call(r, "set", p) \in Elems(calls')
      BY <1>9, <2>1 DEF Waiting, Ready
    <3> QED BY <3>1 DEF WriteInv, ReadingBack, Writing
  <2>2. CASE Rereads(r, q, m, new, calls)
    <3>1. q.bad = {} /\ q.body = {} /\ ~q.final
      BY <1>9, <1>11, <2>2 DEF Rereads, Ready
    <3> QED BY <1>9, <3>1 DEF WriteInv, Writing, ReadingBack
  <2>3. CASE Answers(r, q, m, new, calls)
    <3>1. m.status # "ok"
      BY <2>3 DEF Answers, Ready
    <3> QED BY <1>9, <3>1 DEF WriteInv
  <2> QED BY <1>6, <2>1, <2>2, <2>3
<1>14. FreshInv(r, q, calls', later')
  <2>1. CASE Waiting(r, q, m, new, calls)
    BY <1>9, <2>1 DEF Waiting, Ready, FreshInv, ReadingBack
  <2>2. CASE Rereads(r, q, m, new, calls)
    BY <1>9, <2>2, GetDomain DEF Rereads, FreshInv
  <2>3. CASE Answers(r, q, m, new, calls)
    <3>1. m.status # "ok"
      BY <2>3 DEF Answers, Ready
    <3> QED BY <1>9, <3>1 DEF FreshInv
  <2> QED BY <1>6, <2>1, <2>2, <2>3
<1>15. ResetInv(r, q, calls')
  <2> SUFFICES ASSUME q.kind = "reset", q.domain = acTotalPlatformPowerDomainId,
                      Own(calls', r) # {}
               PROVE  \E i \in Own(calls', r) :
                        calls'[i].arg = "main" /\ \A j \in Own(calls', r) : j <= i
    BY DEF ResetInv
  <2>1. ~Rereads(r, q, m, new, calls)
    BY <1>9 DEF Rereads, Ready
  <2>2. ~Answers(r, q, m, new, calls)
    BY <1>2 DEF Answers
  <2>3. calls' = calls \o new
    BY <1>6, <2>1, <2>2 DEF Waiting
  <2>4. new # <<>>
    <3>1. CASE new = <<>>
      <4>1. calls' = calls
        BY <1>1, <2>3, <3>1, ConcatEmptySeq
      <4> QED BY <1>2, <4>1
    <3> QED BY <3>1
  <2>5. Len(new) = 2 /\ new[2].arg = "main"
    BY <1>9, <2>4 DEF Ready
  <2>6. new \in Seq(CallType) /\ \A i \in DOMAIN new : new[i].by = r
    BY <1>3, ByEach DEF By
  <2>7. \A i : i \in Own(calls \o new, r) <=> i - Len(calls) \in DOMAIN new /\ i \in Int
    BY <1>1, <1>2, <2>6, SendingBlock
  <2>8. /\ Len(calls) \in Nat /\ DOMAIN new = 1..2
        /\ (calls \o new)[2 + Len(calls)] = new[2]
    BY <1>1, <2>5, <2>6, Sending
  <2> DEFINE w == calls \o new
  <2> HIDE DEF w
  <2>9. /\ 2 + Len(calls) \in Own(w, r) /\ w[2 + Len(calls)].arg = "main"
        /\ \A j \in Own(w, r) : j <= 2 + Len(calls)
    BY <2>5, <2>7, <2>8 DEF w
  <2> QED BY <2>3, <2>9 DEF w
<1>16. CallInv' /\ RequestInv'
  BY <1>5, <1>10, <1>12, <1>13, <1>14, <1>15, OthersKept DEF q
<1>17. ServiceInv' /\ PairsInv'
  BY <1>2, <1>5, <1>9, BeforeWrites DEF q
<1> QED BY <1>5, <1>7, <1>16, <1>17 DEF DomInv

\* What is known of a request whose domain is being looked up.
LEMMA Looked ==
  ASSUME DomInv, NEW r \in Requests, req[r].stage = "find"
  PROVE  /\ req[r] \in Request /\ req[r].pending = 0 /\ req[r].done = {}
         /\ req[r].status = "ok" /\ req[r].final = FALSE
<1>1. req[r] \in Request
  BY DEF DomInv, TypeInv
<1>2. req[r].done = {} /\ req[r].status = "ok" /\ ~req[r].final
  BY DEF DomInv, RequestInv, FormInv
<1>3. Own(calls, r) = {} /\ calls \in Seq(CallType)
  BY DEF DomInv, TypeInv, CountInv
<1>4. req[r].pending = 0
  BY <1>3, OwnFinite DEF DomInv, CountInv
<1>5. req[r].final \in BOOLEAN
  BY <1>1 DEF Request
<1>6. req[r].final = FALSE
  BY <1>2, <1>5, Zenon
<1> QED BY <1>1, <1>2, <1>4, <1>6

\* The record after an error: status and error are set.
Fails(q, m, status) ==
  /\ q \in Request /\ q.status = status /\ q.error = TRUE
  /\ q.stage = m.stage /\ q.pending = m.pending /\ q.final = m.final
  /\ q.kind = m.kind /\ q.domain = m.domain /\ q.body = m.body /\ q.bad = m.bad
  /\ q.done = m.done /\ q.shown = m.shown

LEMMA FailedRecord ==
  ASSUME NEW m \in Request, NEW status \in Errors
  PROVE  Fails(Failed(m, status), m, status)
<1> DEFINE q == Failed(m, status)
<1>1. q = [m EXCEPT !.status = status, !.error = TRUE]
  BY DEF Failed
<1> HIDE DEF q
<1>2. q \in Request
  BY <1>1 DEF Request
<1>3. q.error = TRUE
  BY <1>1, Zenon DEF Request
<1>4. /\ q.status = status /\ q.stage = m.stage /\ q.pending = m.pending /\ q.final = m.final
      /\ q.kind = m.kind /\ q.domain = m.domain /\ q.body = m.body /\ q.bad = m.bad
      /\ q.done = m.done /\ q.shown = m.shown
  BY <1>1 DEF Request
<1> QED BY <1>2, <1>3, <1>4 DEF Fails, q

\* A request that is refused at once is answered.
LEMMA RefusedReady ==
  ASSUME DomInv, NEW r \in Requests, req[r].stage = "find", NEW status \in Errors
  PROVE  Ready(r, Failed(req[r], status), <<>>)
<1> DEFINE m == Failed(req[r], status)
<1>1. /\ m \in Request /\ m.status = status /\ m.error = TRUE /\ m.pending = 0
      /\ m.final = FALSE /\ m.done = {}
  <2>1. /\ req[r] \in Request /\ req[r].pending = 0 /\ req[r].done = {}
        /\ req[r].final = FALSE
    BY Looked
  <2>2. /\ m \in Request /\ m.status = status /\ m.error = TRUE
        /\ m.pending = req[r].pending /\ m.final = req[r].final /\ m.done = req[r].done
    <3>1. Fails(m, req[r], status)
      BY <2>1, FailedRecord, Zenon
    <3> QED BY <3>1 DEF Fails
  <2> QED BY <2>1, <2>2, Zenon
<1> HIDE DEF m
<1>2. m.status # "ok" /\ m.status \in Errors
  BY <1>1 DEF Errors
<1> QED BY <1>1, <1>2, Nothing DEF Ready, m

\* What a request that was found sends.
LEMMA FoundReady ==
  ASSUME DomInv, NEW r \in Requests, req[r].stage = "find", ~Unreadable(r), NEW final, NEW m,
         final = [req[r] EXCEPT !.final = req[r].kind = "patch"],
         m = IF req[r].bad = {} THEN final ELSE Failed(final, "badRequest")
  PROVE  Ready(r, m, CallsOf(r))
<1> DEFINE o == req[r]
           new == CallsOf(r)
           b == (o.kind = "patch")
<1>1. o \in Request /\ o.pending = 0 /\ o.done = {} /\ o.status = "ok" /\ o.final = FALSE
  BY Looked
<1>2. o.kind \in {"get", "patch", "reset", "changeState"} /\ o.body \subseteq Props
  BY <1>1 DEF Request
<1>3. /\ final \in Request /\ final.status = "ok" /\ final.pending = 0 /\ final.done = {}
      /\ final.kind = o.kind /\ final.domain = o.domain /\ final.body = o.body
      /\ final.bad = o.bad /\ (final.final <=> o.kind = "patch")
  <2>1. b \in BOOLEAN /\ final = [o EXCEPT !.final = b]
    OBVIOUS
  <2> HIDE DEF b, o
  <2>2. final \in Request
    BY <1>1, <2>1 DEF Request
  <2>3. final.final = b
    BY <1>1, <2>1, Zenon DEF Request
  <2>4. /\ final.status = "ok" /\ final.pending = 0 /\ final.done = {}
        /\ final.kind = o.kind /\ final.domain = o.domain /\ final.body = o.body
        /\ final.bad = o.bad
    BY <1>1, <2>1 DEF Request
  <2> QED BY <2>2, <2>3, <2>4 DEF b
<1>4. /\ m \in Request /\ m.pending = 0 /\ m.done = {} /\ m.kind = o.kind
      /\ m.domain = o.domain /\ m.body = o.body /\ m.bad = o.bad
      /\ (m.final <=> o.kind = "patch")
      /\ (m.status = "ok" /\ m.bad = {}) \/ (m.status \in Errors /\ m.error /\ m.status # "ok")
  <2>1. CASE req[r].bad = {}
    BY <1>3, <2>1
  <2>2. CASE req[r].bad # {}
    <3>1. "badRequest" \in Errors /\ "badRequest" # "ok"
      BY DEF Errors
    <3>2. m = Failed(final, "badRequest")
      BY <2>2
    <3>3. /\ m \in Request /\ m.status = "badRequest" /\ m.error = TRUE
          /\ m.pending = final.pending /\ m.final = final.final
          /\ m.kind = final.kind /\ m.domain = final.domain /\ m.body = final.body
          /\ m.bad = final.bad /\ m.done = final.done
      <4>1. Fails(m, final, "badRequest")
        BY <1>3, <3>1, <3>2, FailedRecord, Zenon
      <4> QED BY <4>1 DEF Fails
    <3> QED BY <1>3, <3>1, <3>3
  <2> QED BY <2>1, <2>2
<1> HIDE DEF o
<1>5. CASE o.kind = "get"
  <2>1. new = getDomain(r)
    BY <1>5 DEF CallsOf, o
  <2>2. By(new, r) /\ new # <<>> /\ \A c \in Elems(new) : c.op = "get"
    BY <2>1, GetDomain
  <2>3. \A c \in Elems(new) : Fits(c, m)
    BY <1>4, <1>5, <2>2 DEF Fits
  <2> HIDE DEF new
  <2>4. Ready(r, m, new)
    BY <1>4, <1>5, <2>2, <2>3 DEF Ready
  <2> QED BY <2>4 DEF new
<1>6. CASE o.kind = "patch"
  <2>1. new = setCapabilities(r) \o setLimitBiases(r)
    BY <1>6 DEF CallsOf, o
  <2> HIDE DEF new
  <2>2. /\ By(new, r) /\ \A c \in Elems(new) : c.op = "set" /\ c.arg \in o.body
        /\ o.bad = {} => \A p \in o.body \cap Props : Call(r, "set", p) \in Elems(new)
    BY <2>1, PatchCalls DEF o
  <2>3. \A c \in Elems(new) : Fits(c, m)
    BY <1>4, <1>6, <2>2 DEF Fits
  <2>4. Ready(r, m, new)
    BY <1>2, <1>4, <1>6, <2>2, <2>3 DEF Ready
  <2> QED BY <2>4 DEF new
<1>7. CASE o.kind = "reset"
  <2>1. new = resetStatistics(r)
    BY <1>7 DEF CallsOf, o
  <2> HIDE DEF new
  <2>2. /\ By(new, r) /\ new # <<>>
        /\ \A c \in Elems(new) :
             c.op = "reset" /\ (c.arg = "main" => o.domain = acTotalPlatformPowerDomainId)
        /\ o.domain = acTotalPlatformPowerDomainId => Len(new) = 2 /\ new[2].arg = "main"
    BY <2>1, ResetCalls DEF o
  <2>3. \A c \in Elems(new) : Fits(c, m)
    BY <1>4, <1>7, <2>2 DEF Fits
  <2>4. Ready(r, m, new)
    BY <1>4, <1>7, <2>2, <2>3 DEF Ready
  <2> QED BY <2>4 DEF new
<1>8. CASE o.kind = "changeState"
  <2> DEFINE c == Call(r, "enable", "domain")
  <2>1. new = <<c>>
    BY <1>8 DEF CallsOf, o
  <2>2. c \in CallType /\ c.by = r /\ c.op = "enable"
    BY CallTypes
  <2> HIDE DEF new, c
  <2>3. By(<<c>>, c.by) /\ Elems(<<c>>) = {c} /\ <<c>> # <<>>
    BY <2>2, One, Zenon
  <2>4. By(new, r) /\ Elems(new) = {c} /\ new # <<>>
    BY <2>1, <2>2, <2>3, Zenon
  <2>5. Fits(c, m)
    BY <1>4, <1>8, <2>2 DEF Fits
  <2>6. Ready(r, m, new)
    BY <1>4, <1>8, <2>4, <2>5 DEF Ready
  <2> QED BY <2>6 DEF new
<1> QED BY <1>2, <1>5, <1>6, <1>7, <1>8

LEMMA FoundStep == ASSUME DomInv, NEW r \in Requests, Found(r) PROVE DomInv'
<1>1. req[r].stage = "find" /\ UNCHANGED <<domain, later, others>>
  BY DEF Found
<1>2. CASE Unreadable(r)
  <2>1. "badRequest" \in Errors
    BY DEF Errors
  <2>2. Continue(r, Failed(req[r], "badRequest"), <<>>, calls)
    BY <1>2 DEF Found
  <2> QED BY <1>1, <2>1, <2>2, RefusedReady, Starts
<1>3. CASE ~Unreadable(r)
  <2> DEFINE final == [req[r] EXCEPT !.final = req[r].kind = "patch"]
             m == IF req[r].bad = {} THEN final ELSE Failed(final, "badRequest")
  <2>1. Continue(r, m, CallsOf(r), calls)
    BY <1>3 DEF Found
  <2>2. Ready(r, m, CallsOf(r))
    BY <1>1, <1>3, FoundReady
  <2> HIDE DEF m
  <2> QED BY <1>1, <2>1, <2>2, Starts
<1> QED BY <1>2, <1>3

LEMMA NotFoundStep == ASSUME DomInv, NEW r \in Requests, NotFound(r) PROVE DomInv'
<1>1. "resourceNotFound" \in Errors
  BY DEF Errors
<1>2. /\ req[r].stage = "find" /\ UNCHANGED <<domain, later, others>>
      /\ Continue(r, Failed(req[r], "resourceNotFound"), <<>>, calls)
  BY DEF NotFound
<1> QED BY <1>1, <1>2, RefusedReady, Starts

LEMMA FreshType ==
  /\ Fresh \in Request /\ Fresh.stage = "new" /\ Fresh.done = {} /\ Fresh.status = "ok"
  /\ Fresh.final = FALSE /\ Fresh.pending = 0 /\ Fresh.kind = "get"
<1> DEFINE d == CHOOSE d \in DomainIds : TRUE
           shown == [p \in Props |-> Nobody]
<1>1. d \in DomainIds
  BY NmDomainsAssumption
<1>2. shown \in [Props -> Requests \cup {Nobody}]
  OBVIOUS
<1> HIDE DEF d, shown
<1>3. Fresh = [stage |-> "new", kind |-> "get", domain |-> d, body |-> {}, bad |-> {},
               pending |-> 0, final |-> FALSE, status |-> "ok", error |-> FALSE,
               shown |-> shown, done |-> {}]
  BY DEF Fresh, d, shown
<1>4. Fresh \in Request
  BY <1>1, <1>2, <1>3 DEF Request, Success
<1>5. /\ Fresh.stage = "new" /\ Fresh.done = {} /\ Fresh.status = "ok" /\ Fresh.pending = 0
      /\ Fresh.kind = "get"
  BY <1>3
<1>6. Fresh.final = FALSE
  BY <1>3, Zenon
<1> QED BY <1>4, <1>5, <1>6

LEMMA InitDom == Init => DomInv
<1> SUFFICES ASSUME Init PROVE DomInv
  OBVIOUS
<1>1. /\ calls = <<>> /\ later = {} /\ others = 0 /\ req = [r \in Requests |-> Fresh]
      /\ domain = [d \in DomainIds |-> [p \in Props |-> Nobody]]
  BY DEF Init
<1>2. TypeInv
  BY <1>1, FreshType, EmptySeq, NmDomainsAssumption DEF TypeInv
<1>3. /\ DOMAIN calls = {} /\ Elems(calls) = {} /\ \A r : Own(calls, r) = {}
  BY <1>1, Nothing DEF Own
<1>4. \A r \in Requests : req[r] = Fresh
  BY <1>1
<1>5. CountInv
  BY <1>3, <1>4, FreshType, FS_EmptySet DEF CountInv
<1>6. Contiguous(calls) /\ CallInv
  BY <1>3 DEF Contiguous, CallInv
<1>7. FormInv(Fresh)
  BY FreshType DEF FormInv, Errors
<1>8. RequestInv
  <2>1. \A r : WriteInv(r, Fresh, calls) /\ ResetInv(r, Fresh, calls)
    BY FreshType DEF WriteInv, ResetInv, Writing, ReadingBack
  <2>2. \A r : FreshInv(r, Fresh, calls, later)
    BY FreshType DEF FreshInv, ReadingBack
  <2> QED BY <1>4, <1>7, <2>1, <2>2 DEF RequestInv
<1>9. \A d \in DomainIds, p \in Props : domain[d][p] \notin Requests
  BY <1>1, NmDomainsAssumption
<1>10. ServiceInv
  <2>1. \A r \in Requests : LaterInv(r, Fresh, domain, later)
    BY <1>1, FreshType DEF LaterInv
  <2>2. \A r \in Requests : WriterInv(r, Fresh, domain)
    BY <1>9 DEF WriterInv
  <2>3. \A r \in Requests : PartialInv(r, Fresh, calls, domain)
    BY FreshType DEF PartialInv
  <2> QED BY <1>4, <2>1, <2>2, <2>3 DEF ServiceInv
<1>11. PairsInv
  BY <1>4, FreshType DEF PairsInv, PairInv
<1> QED BY <1>2, <1>5, <1>6, <1>8, <1>10, <1>11 DEF DomInv

LEMMA ArrivalStep == ASSUME DomInv, NEW r \in Requests, SomeArrival(r) PROVE DomInv'
<1>1. PICK kind \in {"get", "patch", "reset", "changeState"}, d \in DomainIds,
           body \in SUBSET Props, bad \in SUBSET Parts : Arrive(r, kind, d, body, bad)
  BY NmDomainsAssumption DEF SomeArrival
<1> DEFINE q == [Fresh EXCEPT !.stage = "find", !.kind = kind, !.domain = d, !.body = body,
                              !.bad = bad]
<1>2. /\ req[r].stage = "new" /\ req' = [req EXCEPT ![r] = q]
      /\ UNCHANGED <<domain, calls, later, others>>
  BY <1>1 DEF Arrive
<1>3. q \in Request
  BY FreshType DEF Request
<1>4. q.stage = "find" /\ q.done = {} /\ q.status = "ok" /\ q.pending = 0
  BY FreshType DEF Request
<1>5. q.final = FALSE
  BY FreshType, Zenon DEF Request
<1> HIDE DEF q
<1>6. TypeInv /\ req' \in [Requests -> Request] /\ req'[r] = q
  BY <1>2, <1>3 DEF DomInv, TypeInv
<1>7. Alone(r)
  BY <1>2, <1>6 DEF Alone, TypeInv
<1>8. TypeInv'
  BY <1>2, <1>6 DEF TypeInv
<1>9. Own(calls, r) = {} /\ req[r].done = {}
  BY <1>2 DEF DomInv, CountInv, RequestInv, FormInv
<1>10. CountInv'
  <2> SUFFICES ASSUME NEW s \in Requests
               PROVE  /\ req'[s].pending = Cardinality(Own(calls', s))
                      /\ req'[s].stage = "calls" <=> Own(calls', s) # {}
    BY DEF CountInv, Own
  <2>1. CASE s # r
    BY <1>2, <1>7, <2>1 DEF Alone, DomInv, CountInv
  <2>2. CASE s = r
    BY <1>2, <1>4, <1>6, <1>9, <2>2, FS_EmptySet
  <2> QED BY <2>1, <2>2
<1>11. Contiguous(calls')
  BY <1>2 DEF DomInv
<1>12. \A c \in Elems(calls') : c.by # r
  BY <1>2, <1>9, OwnElems
<1>13. /\ FormInv(q) /\ WriteInv(r, q, calls') /\ ResetInv(r, q, calls')
       /\ FreshInv(r, q, calls', later')
  <2>1. FormInv(q)
    BY <1>4, <1>5 DEF FormInv, Errors
  <2>2. WriteInv(r, q, calls') /\ FreshInv(r, q, calls', later')
    BY <1>4, <1>5 DEF WriteInv, FreshInv, Writing, ReadingBack
  <2>3. ResetInv(r, q, calls')
    BY <1>2, <1>9 DEF ResetInv
  <2> QED BY <2>1, <2>2, <2>3
<1>14. CallInv' /\ RequestInv'
  BY <1>2, <1>6, <1>7, <1>12, <1>13, OthersKept DEF TypeInv
<1>15. ServiceInv' /\ PairsInv'
  BY <1>2, <1>4, <1>6, <1>7, <1>9, BeforeWrites
<1> QED BY <1>8, <1>10, <1>11, <1>14, <1>15 DEF DomInv

-----------------------------------------------------------------------------
(* Writes *)

\* w has written p of d: the history after a write, by a request or by another user.
Written(d, p, w) ==
  /\ domain' \in [DomainIds -> [Props -> Requests \cup {Nobody}]]
  /\ \A e \in DomainIds, x \in Props :
       domain'[e][x] = IF e = d /\ x = p THEN w ELSE domain[e][x]
  /\ later \subseteq later'
  /\ later' \subseteq DomainIds \X Props \X Requests \X (Requests \cup {Nobody})
  /\ w \in Requests => <<d, p, w, w>> \in later'
  /\ \A s \in Requests, e \in DomainIds, x \in Props :
       /\ <<e, x, s, s>> \in later => <<e, x, s, domain[e][x]>> \in later
       /\ <<e, x, s, s>> \in later'
       => <<e, x, s, domain'[e][x]>> \in later'

LEMMA WriteHistory ==
  ASSUME TypeInv, NEW d \in DomainIds, NEW p \in Props, NEW w \in Requests \cup {Nobody},
         NEW new, new = {w} \cap Requests,
         domain' = [domain EXCEPT ![d][p] = w], later' = Wrote(d, p, w, new)
  PROVE  Written(d, p, w)
<1> DEFINE before == {s \in Requests : <<d, p, s, s>> \in later} \cup new
           added == {<<d, p, s, w>> : s \in before}
<1>1. later' = later \cup added
  BY DEF Wrote
<1>2. before \subseteq Requests
  OBVIOUS
<1>3. /\ domain' \in [DomainIds -> [Props -> Requests \cup {Nobody}]]
      /\ \A e \in DomainIds, x \in Props :
           domain'[e][x] = IF e = d /\ x = p THEN w ELSE domain[e][x]
  BY DEF TypeInv
<1>4. later' \subseteq DomainIds \X Props \X Requests \X (Requests \cup {Nobody})
  <2>1. \A s \in before :
          <<d, p, s, w>> \in DomainIds \X Props \X Requests \X (Requests \cup {Nobody})
    BY <1>2
  <2> HIDE DEF before
  <2>2. added \subseteq DomainIds \X Props \X Requests \X (Requests \cup {Nobody})
    BY <2>1
  <2> QED BY <1>1, <2>2 DEF TypeInv
<1>5. w \in Requests => <<d, p, w, w>> \in later'
  BY <1>1
<1>6. ASSUME NEW s \in Requests, NEW e \in DomainIds, NEW x \in Props,
             <<e, x, s, s>> \in later => <<e, x, s, domain[e][x]>> \in later,
             <<e, x, s, s>> \in later'
      PROVE  <<e, x, s, domain'[e][x]>> \in later'
  <2>1. CASE e = d /\ x = p
    <3>1. s \in before
      <4>1. CASE <<d, p, s, s>> \in later
        BY <4>1
      <4>2. CASE <<d, p, s, s>> \in added
        BY <4>2
      <4> QED BY <1>1, <1>6, <2>1, <4>1, <4>2
    <3> QED BY <1>1, <1>3, <2>1, <3>1
  <2>2. CASE ~(e = d /\ x = p)
    <3>1. <<e, x, s, s>> \notin added
      BY <2>2
    <3> QED BY <1>1, <1>3, <1>6, <2>2, <3>1
  <2> QED BY <2>1, <2>2
<1> HIDE DEF added, before
<1> QED BY <1>1, <1>3, <1>4, <1>5, <1>6 DEF Written

LEMMA OtherWriteStep ==
  ASSUME DomInv, NEW d \in DomainIds, NEW p \in Props, OtherWrite(d, p)
  PROVE  DomInv'
<1>1. /\ domain' = [domain EXCEPT ![d][p] = Nobody] /\ later' = Wrote(d, p, Nobody, {})
      /\ others < MaxOthers /\ others' = others + 1 /\ UNCHANGED <<calls, req>>
  BY DEF OtherWrite
<1>2. {} = {Nobody} \cap Requests
  BY NmDomainsAssumption
<1>3. TypeInv
  BY DEF DomInv
<1>4. /\ domain' \in [DomainIds -> [Props -> Requests \cup {Nobody}]]
      /\ \A e \in DomainIds, x \in Props :
           domain'[e][x] = IF e = d /\ x = p THEN Nobody ELSE domain[e][x]
      /\ later \subseteq later'
      /\ later' \subseteq DomainIds \X Props \X Requests \X (Requests \cup {Nobody})
      /\ \A s \in Requests, e \in DomainIds, x \in Props :
           /\ <<e, x, s, s>> \in later => <<e, x, s, domain[e][x]>> \in later
           /\ <<e, x, s, s>> \in later'
           => <<e, x, s, domain'[e][x]>> \in later'
  <2>1. Written(d, p, Nobody)
    BY <1>1, <1>2, <1>3, WriteHistory
  <2> QED BY <2>1 DEF Written
<1>5. TypeInv'
  BY <1>1, <1>3, <1>4, NmDomainsAssumption DEF TypeInv
<1>6. CountInv' /\ Contiguous(calls') /\ CallInv'
  BY <1>1 DEF DomInv, CountInv, CallInv
<1>7. RequestInv'
  <2> SUFFICES ASSUME NEW s \in Requests
               PROVE  /\ FormInv(req[s]) /\ WriteInv(s, req[s], calls)
                      /\ ResetInv(s, req[s], calls) /\ FreshInv(s, req[s], calls, later')
    BY <1>1 DEF RequestInv
  <2>1. /\ FormInv(req[s]) /\ WriteInv(s, req[s], calls)
        /\ ResetInv(s, req[s], calls) /\ FreshInv(s, req[s], calls, later)
    BY DEF DomInv, RequestInv
  <2>2. FreshInv(s, req[s], calls, later')
    BY <1>4, <2>1 DEF FreshInv
  <2> QED BY <2>1, <2>2
<1>8. \A e \in DomainIds, x \in Props : domain'[e][x] \in Requests => domain'[e][x] = domain[e][x]
  BY <1>4, NmDomainsAssumption
<1>9. \A e \in DomainIds, x \in Props : domain'[e][x] \in {domain[e][x], Nobody}
  BY <1>4
<1>10. ServiceInv'
  <2> SUFFICES ASSUME NEW s \in Requests
               PROVE  /\ LaterInv(s, req[s], domain', later') /\ WriterInv(s, req[s], domain')
                      /\ PartialInv(s, req[s], calls, domain')
    BY <1>1 DEF ServiceInv
  <2>1. /\ LaterInv(s, req[s], domain, later) /\ WriterInv(s, req[s], domain)
        /\ PartialInv(s, req[s], calls, domain)
    BY DEF DomInv, ServiceInv
  <2>2. LaterInv(s, req[s], domain', later')
    BY <1>4, <2>1 DEF LaterInv
  <2>3. WriterInv(s, req[s], domain')
    BY <1>8, <2>1 DEF WriterInv
  <2>4. PartialInv(s, req[s], calls, domain')
    <3>1. req[s].domain \in DomainIds /\ FormInv(req[s]) /\ req[s].body \subseteq Props
      BY <1>3 DEF DomInv, RequestInv, TypeInv, Request
    <3>2. Writing(req[s]) => req[s].done \subseteq Props
      BY <3>1 DEF FormInv, Writing
    <3> QED BY <1>9, <2>1, <3>1, <3>2 DEF PartialInv
  <2> QED BY <2>2, <2>3, <2>4
<1>11. PairsInv'
  <2> SUFFICES ASSUME NEW s \in Requests, NEW t \in Requests, s # t
               PROVE  PairInv(s, t, req[s], req[t], calls, domain')
    BY <1>1 DEF PairsInv
  <2>1. PairInv(s, t, req[s], req[t], calls, domain)
    BY DEF DomInv, PairsInv
  <2>2. req[s].domain \in DomainIds /\ req[s].body \subseteq Props
    BY <1>3 DEF TypeInv, Request
  <2> QED BY <1>8, <2>1, <2>2 DEF PairInv
<1> QED BY <1>5, <1>6, <1>7, <1>10, <1>11 DEF DomInv

-----------------------------------------------------------------------------
(* Answers *)

\* What an answer leaves alone.
SameForm(m, o) ==
  /\ m.kind = o.kind /\ m.domain = o.domain /\ m.body = o.body /\ m.bad = o.bad
  /\ m.final = o.final

\* How the request o, after the answer to its call c, becomes m: a read was answered; a
\* write was executed; a reset or a change of state was; the call was refused.
GotAnswer(c, o, m) ==
  /\ c.op = "get" /\ UNCHANGED <<domain, later>>
  /\ m.status = o.status /\ m.error = o.error /\ m.done = o.done
  /\ \A p \in Props : m.shown[p] = IF Shows(p) = c.arg THEN domain[o.domain][p] ELSE o.shown[p]

Succeeds(m, o, status) == m.status = status /\ m.error = o.error
Reports(m) == m.status \in Errors /\ m.error

SetAnswer(c, o, m) ==
  /\ c.op = "set" /\ Written(o.domain, c.arg, c.by)
  /\ m.done = o.done \cup {c.arg} /\ m.shown = o.shown
  /\ Succeeds(m, o, o.status) \/ Reports(m)

DidAnswer(c, o, m) ==
  /\ c.op \in {"reset", "enable"} /\ UNCHANGED <<domain, later>>
  /\ m.done = o.done \cup {c.arg} /\ m.shown = o.shown
  /\ Succeeds(m, o, "no_content") \/ Reports(m)

ErrorAnswer(o, m) ==
  /\ UNCHANGED <<domain, later>> /\ m.done = o.done /\ m.shown = o.shown /\ Reports(m)

Serves(c, o, m) ==
  /\ calls # <<>> /\ c = Head(calls) /\ o = req[c.by] /\ m \in Request
  /\ m.pending = o.pending - 1 /\ SameForm(m, o) /\ UNCHANGED others
  /\ Continue(c.by, m, <<>>, Tail(calls))
  /\ GotAnswer(c, o, m) \/ SetAnswer(c, o, m) \/ DidAnswer(c, o, m) \/ ErrorAnswer(o, m)

\* The request whose call is served, and the record its callback begins with.
LEMMA HeadCall ==
  ASSUME DomInv, calls # <<>>, NEW c, c = Head(calls)
  PROVE  /\ c \in CallType /\ c.by \in Requests /\ req[c.by] \in Request
         /\ Fits(c, req[c.by]) /\ req[c.by].stage = "calls"
         /\ req[c.by].pending \in Nat \ {0} /\ c \in Elems(calls)
         /\ 1 \in Own(calls, c.by)
<1>1. calls \in Seq(CallType) /\ req \in [Requests -> Request]
  BY DEF DomInv, TypeInv
<1>2. c \in CallType /\ c = calls[1] /\ 1 \in DOMAIN calls
  BY <1>1, TailOfQueue
<1>3. c.by \in Requests
  BY <1>2, CallParts
<1>4. c \in Elems(calls) /\ 1 \in Own(calls, c.by)
  BY <1>2 DEF Elems, Own
<1>5. Fits(c, req[c.by])
  BY <1>4 DEF DomInv, CallInv
<1>6. req[c.by].stage = "calls" /\ req[c.by].pending = Cardinality(Own(calls, c.by))
  BY <1>3, <1>4 DEF DomInv, CountInv
<1>7. req[c.by].pending \in Nat \ {0}
  BY <1>1, <1>4, <1>6, OwnFinite
<1> QED BY <1>1, <1>2, <1>3, <1>4, <1>5, <1>6, <1>7

LEMMA AnsweredRecord ==
  ASSUME NEW r, req[r] \in Request, req[r].pending \in Nat \ {0}, NEW m, m = Answered(r)
  PROVE  /\ m \in Request /\ m.pending = req[r].pending - 1 /\ SameForm(m, req[r])
         /\ m.status = req[r].status /\ m.error = req[r].error
         /\ m.done = req[r].done /\ m.shown = req[r].shown
<1> DEFINE n == req[r].pending - 1
           o == req[r]
<1>1. n \in Nat /\ m = [o EXCEPT !.pending = n] /\ o \in Request
  BY DEF Answered
<1> HIDE DEF n, o
<1>2. m \in Request
  BY <1>1 DEF Request
<1>3. /\ m.pending = n /\ SameForm(m, o) /\ m.status = o.status /\ m.error = o.error
      /\ m.done = o.done /\ m.shown = o.shown
  BY <1>1 DEF Request, SameForm
<1> QED BY <1>2, <1>3 DEF n, o

\* The values a read returns are those of the properties it shows.
LEMMA ReadValues ==
  ASSUME TypeInv, NEW d \in DomainIds, NEW a \in {"capabilities", "abs", "rel", "rest"},
         NEW values, values = Read(d, a), NEW p \in Props
  PROVE  /\ p \in DOMAIN values <=> Shows(p) = a
         /\ p \in DOMAIN values => values[p] = domain[d][p]
<1>1. p \in {"max", "min", "abs", "rel"}
  BY DEF Props, capabilities, limitBias
<1>2. CASE a = "capabilities"
  <2>1. values = getCapabilities(d)
    BY <1>2 DEF Read, limitBias
  <2>2. DOMAIN values = {"max", "min"}
    BY <2>1 DEF getCapabilities
  <2>3. values["max"] = domain[d]["max"] /\ values["min"] = domain[d]["min"]
    BY <2>1 DEF getCapabilities
  <2>4. Shows(p) = a <=> p \in {"max", "min"}
    BY <1>1, <1>2 DEF Shows, capabilities
  <2> QED BY <2>2, <2>3, <2>4
<1>3. CASE a \in {"abs", "rel"}
  <2>1. values = [x \in {a} |-> domain[d][x]]
    BY <1>3 DEF Read, limitBias
  <2>2. Shows(p) = a <=> p = a
    BY <1>1, <1>3 DEF Shows, capabilities
  <2>3. DOMAIN values = {a} /\ values[a] = domain[d][a]
    BY <2>1
  <2> QED BY <2>2, <2>3
<1>4. CASE a = "rest"
  <2>1. values = [x \in {} |-> Nobody]
    BY <1>4 DEF Read, limitBias
  <2>2. DOMAIN values = {}
    BY <2>1
  <2>3. Shows(p) # a
    BY <1>1, <1>4 DEF Shows, capabilities
  <2> QED BY <2>2, <2>3
<1> QED BY <1>2, <1>3, <1>4

LEMMA GetServes ==
  ASSUME DomInv, ServeGet
  PROVE  \E m : Serves(Head(calls), req[Head(calls).by], m)
<1> DEFINE c == Head(calls)
           r == c.by
           o == req[r]
           a == Answered(r)
           values == Read(o.domain, c.arg)
           shown == [p \in Props |-> IF p \in DOMAIN values THEN values[p] ELSE a.shown[p]]
           m == [a EXCEPT !.shown = shown]
<1>1. /\ calls # <<>> /\ c.op = "get" /\ UNCHANGED <<domain, later, others>>
      /\ Continue(r, m, <<>>, Tail(calls))
  BY DEF ServeGet
<1>2. c \in CallType /\ r \in Requests /\ o \in Request /\ o.pending \in Nat \ {0}
  BY <1>1, HeadCall
<1>3. /\ a \in Request /\ a.pending = o.pending - 1 /\ SameForm(a, o)
      /\ a.status = o.status /\ a.error = o.error /\ a.done = o.done /\ a.shown = o.shown
  BY <1>2, AnsweredRecord
<1>4. c.arg \in {"capabilities", "abs", "rel", "rest"}
  BY <1>1, <1>2, CallParts
<1>5. o.domain \in DomainIds /\ o.shown \in [Props -> Requests \cup {Nobody}] /\ TypeInv
  BY <1>2 DEF Request, DomInv
<1>6. \A p \in Props : /\ p \in DOMAIN values <=> Shows(p) = c.arg
                       /\ p \in DOMAIN values => values[p] = domain[o.domain][p]
  BY <1>4, <1>5, ReadValues
<1> HIDE DEF values, a, o, r, c
<1>7. \A p \in Props :
        shown[p] = IF Shows(p) = c.arg THEN domain[o.domain][p] ELSE o.shown[p]
  BY <1>3, <1>6
<1>8. shown \in [Props -> Requests \cup {Nobody}]
  BY <1>5, <1>7 DEF TypeInv
<1> HIDE DEF shown
<1>9. m \in Request
  BY <1>3, <1>8 DEF Request
<1>10. /\ m.pending = a.pending /\ SameForm(m, a) /\ m.status = a.status /\ m.error = a.error
       /\ m.done = a.done /\ m.shown = shown
  BY <1>3, <1>8 DEF Request, SameForm
<1> HIDE DEF m
<1>11. SameForm(m, o) /\ m.pending = o.pending - 1
  BY <1>3, <1>10 DEF SameForm
<1>12. GotAnswer(c, o, m)
  BY <1>1, <1>3, <1>7, <1>10 DEF GotAnswer
<1>13. Serves(c, o, m)
  BY <1>1, <1>9, <1>11, <1>12 DEF Serves, c, o, r
<1> QED BY <1>13 DEF c, o, r

LEMMA ErrorServes ==
  ASSUME DomInv, ServeError
  PROVE  \E m : Serves(Head(calls), req[Head(calls).by], m)
<1> DEFINE c == Head(calls)
           r == c.by
           o == req[r]
           a == Answered(r)
<1>1. PICK status \in ErrorStatuses(c.op) : Continue(r, Failed(a, status), <<>>, Tail(calls))
  BY DEF ServeError
<1>2. calls # <<>> /\ UNCHANGED <<domain, later, others>>
  BY DEF ServeError
<1>3. c \in CallType /\ r \in Requests /\ o \in Request /\ o.pending \in Nat \ {0}
  BY <1>2, HeadCall
<1>4. status \in Errors
  BY <1>3, CallParts DEF ErrorStatuses, Errors
<1>5. /\ a \in Request /\ a.pending = o.pending - 1 /\ SameForm(a, o)
      /\ a.status = o.status /\ a.error = o.error /\ a.done = o.done /\ a.shown = o.shown
  BY <1>3, AnsweredRecord
<1> DEFINE m == Failed(a, status)
<1> HIDE DEF a, o, r, c
<1>6. Fails(m, a, status)
  BY <1>4, <1>5, FailedRecord, Zenon
<1> HIDE DEF m
<1>7. m \in Request /\ m.pending = o.pending - 1 /\ SameForm(m, o)
  BY <1>5, <1>6 DEF Fails, SameForm
<1>8. ErrorAnswer(o, m)
  BY <1>2, <1>4, <1>5, <1>6 DEF Fails, ErrorAnswer, Reports
<1>9. Serves(c, o, m)
  BY <1>1, <1>2, <1>7, <1>8 DEF Serves, c, o, r, m
<1> QED BY <1>9 DEF c, o, r

LEMMA EffectIs ==
  ASSUME DomInv, calls # <<>>, NEW c, c = Head(calls), c.op # "get", Effect(c.by, c)
  PROVE  /\ UNCHANGED others /\ c.arg \in Props \cup {"domain", "main"}
         /\ \/ c.op = "set" /\ Written(req[c.by].domain, c.arg, c.by)
            \/ c.op \in {"reset", "enable"} /\ UNCHANGED <<domain, later>>
<1> DEFINE r == c.by
           d == req[r].domain
<1>1. c \in CallType /\ r \in Requests /\ req[r] \in Request
  BY HeadCall
<1>2. UNCHANGED others
  BY DEF Effect
<1>3. /\ c.op \in {"set", "reset", "enable"} /\ (c.op = "set" => c.arg \in Props)
      /\ c.arg \in Props \cup {"domain", "main"}
  BY <1>1, CallParts
<1>4. CASE c.op = "set"
  <2>1. domain' = [domain EXCEPT ![d][c.arg] = r] /\ later' = Wrote(d, c.arg, r, {r})
    BY <1>4 DEF Effect
  <2>2. d \in DomainIds /\ TypeInv /\ {r} = {r} \cap Requests /\ r \in Requests \cup {Nobody}
    BY <1>1 DEF Request, DomInv
  <2> HIDE DEF r, d
  <2>3. Written(d, c.arg, r)
    BY <1>3, <1>4, <2>1, <2>2, WriteHistory
  <2> QED BY <1>2, <1>3, <1>4, <2>3 DEF r, d
<1>5. CASE c.op # "set"
  BY <1>2, <1>3, <1>5 DEF Effect
<1> QED BY <1>4, <1>5

LEMMA ModifyServes ==
  ASSUME DomInv, ServeModify
  PROVE  \E m : Serves(Head(calls), req[Head(calls).by], m)
<1> DEFINE c == Head(calls)
           r == c.by
           o == req[r]
           a == Answered(r)
           status == OkStatus(o, c.op)
           done == a.done \cup {c.arg}
           m == [a EXCEPT !.status = status, !.done = done]
<1>1. /\ calls # <<>> /\ c.op # "get" /\ Effect(r, c)
      /\ Continue(r, [a EXCEPT !.status = status, !.done = @ \cup {c.arg}], <<>>, Tail(calls))
  BY DEF ServeModify
<1>2. c \in CallType /\ r \in Requests /\ o \in Request /\ o.pending \in Nat \ {0}
  BY <1>1, HeadCall
<1>3. /\ a \in Request /\ a.pending = o.pending - 1 /\ SameForm(a, o)
      /\ a.status = o.status /\ a.error = o.error /\ a.done = o.done /\ a.shown = o.shown
  BY <1>2, AnsweredRecord
<1>4. /\ UNCHANGED others /\ c.arg \in Props \cup {"domain", "main"}
      /\ \/ c.op = "set" /\ Written(o.domain, c.arg, r)
         \/ c.op \in {"reset", "enable"} /\ UNCHANGED <<domain, later>>
  BY <1>1, EffectIs
<1>5. status \in Success \cup Errors /\ status = IF c.op = "set" THEN o.status ELSE "no_content"
  BY <1>2 DEF OkStatus, Request, Success
<1> HIDE DEF status, a, o, r, c
<1>6. Continue(r, m, <<>>, Tail(calls))
  BY <1>1
<1>7. done \in SUBSET (Props \cup {"domain", "main"})
  BY <1>3, <1>4 DEF Request
<1> HIDE DEF done
<1>8. m \in Request
  BY <1>3, <1>5, <1>7 DEF Request
<1>9. /\ m.pending = a.pending /\ SameForm(m, a) /\ m.status = status /\ m.error = a.error
      /\ m.done = done /\ m.shown = a.shown
  BY <1>3 DEF Request, SameForm
<1> HIDE DEF m
<1>10. SameForm(m, o) /\ m.pending = o.pending - 1
  BY <1>3, <1>9 DEF SameForm
<1>11. m.done = o.done \cup {c.arg} /\ m.shown = o.shown /\ m.error = o.error
  BY <1>3, <1>9 DEF done
<1>12. SetAnswer(c, o, m) \/ DidAnswer(c, o, m)
  <2>1. CASE c.op = "set" /\ Written(o.domain, c.arg, r)
    BY <1>5, <1>9, <1>11, <2>1 DEF SetAnswer, Succeeds, r
  <2>2. CASE c.op \in {"reset", "enable"} /\ UNCHANGED <<domain, later>>
    BY <1>5, <1>9, <1>11, <2>2 DEF DidAnswer, Succeeds
  <2> QED BY <1>4, <2>1, <2>2
<1>13. Serves(c, o, m)
  BY <1>1, <1>4, <1>6, <1>8, <1>10, <1>12 DEF Serves, c, o, r
<1> QED BY <1>13 DEF c, o, r

LEMMA TimeoutServes ==
  ASSUME DomInv, ServeTimeout
  PROVE  \E m : Serves(Head(calls), req[Head(calls).by], m)
<1> DEFINE c == Head(calls)
           r == c.by
           o == req[r]
           a == Answered(r)
<1>1. calls # <<>> /\ c.op # "get" /\ Effect(r, c)
  BY DEF ServeTimeout
<1>2. PICK status \in ErrorStatuses(c.op) \ {"notSupported"} :
        Continue(r, [Failed(a, status) EXCEPT !.done = @ \cup {c.arg}], <<>>, Tail(calls))
  BY DEF ServeTimeout
<1> DEFINE b == Failed(a, status)
           done == b.done \cup {c.arg}
           m == [b EXCEPT !.done = done]
<1>3. c \in CallType /\ r \in Requests /\ o \in Request /\ o.pending \in Nat \ {0}
  BY <1>1, HeadCall
<1>4. /\ a \in Request /\ a.pending = o.pending - 1 /\ SameForm(a, o)
      /\ a.status = o.status /\ a.error = o.error /\ a.done = o.done /\ a.shown = o.shown
  BY <1>3, AnsweredRecord
<1>5. /\ UNCHANGED others /\ c.arg \in Props \cup {"domain", "main"}
      /\ \/ c.op = "set" /\ Written(o.domain, c.arg, r)
         \/ c.op \in {"reset", "enable"} /\ UNCHANGED <<domain, later>>
  BY <1>1, EffectIs
<1>6. status \in Errors
  BY <1>3, CallParts DEF ErrorStatuses, Errors
<1> HIDE DEF a, o, r, c
<1>7. Fails(b, a, status)
  BY <1>4, <1>6, FailedRecord, Zenon
<1>8. Continue(r, m, <<>>, Tail(calls))
  BY <1>2
<1> HIDE DEF b
<1>9. b \in Request /\ SameForm(b, o) /\ b.pending = o.pending - 1 /\ b.shown = o.shown
      /\ b.done = o.done /\ b.status = status /\ b.error = TRUE
  BY <1>4, <1>7 DEF Fails, SameForm
<1>10. done \in SUBSET (Props \cup {"domain", "main"})
  BY <1>5, <1>9 DEF Request
<1> HIDE DEF done
<1>11. m \in Request
  BY <1>9, <1>10 DEF Request
<1>12. /\ m.pending = b.pending /\ SameForm(m, b) /\ m.status = b.status /\ m.error = b.error
       /\ m.done = done /\ m.shown = b.shown
  BY <1>9 DEF Request, SameForm
<1> HIDE DEF m
<1>13. SameForm(m, o) /\ m.pending = o.pending - 1
  BY <1>9, <1>12 DEF SameForm
<1>14. m.done = o.done \cup {c.arg} /\ m.shown = o.shown
  BY <1>9, <1>12 DEF done
<1>15. Reports(m)
  BY <1>6, <1>9, <1>12 DEF Reports
<1>16. SetAnswer(c, o, m) \/ DidAnswer(c, o, m)
  BY <1>5, <1>14, <1>15 DEF SetAnswer, DidAnswer, r
<1>17. Serves(c, o, m)
  BY <1>1, <1>5, <1>8, <1>11, <1>13, <1>16 DEF Serves, c, o, r
<1> QED BY <1>17 DEF c, o, r

\* What becomes of the request after that: it waits for more, reads back, or ends.
GoesOn(r, q, m) ==
  /\ q.stage = "calls" /\ q.final = m.final /\ q.error = m.error
  /\ Own(Tail(calls), r) # {} /\ calls' = Tail(calls)

GoesBack(r, q, m) ==
  /\ q.stage = "calls" /\ ~q.final /\ m.final /\ m.status = "ok"
  /\ Own(Tail(calls), r) = {}
  /\ Elems(calls') = Elems(Tail(calls)) \cup Elems(getDomain(r))

Ends(r, q, m) ==
  /\ q.stage = "done" /\ q.final = m.final /\ q.error = m.error
  /\ ~(m.final /\ m.status = "ok")
  /\ Own(Tail(calls), r) = {} /\ calls' = Tail(calls)

Goes(r, q, m) == GoesOn(r, q, m) \/ GoesBack(r, q, m) \/ Ends(r, q, m)

LEMMA ServedQueue ==
  ASSUME DomInv, NEW c, NEW o, NEW m, Serves(c, o, m)
  PROVE  /\ req' \in [Requests -> Request] /\ calls' \in Seq(CallType)
         /\ CountInv' /\ Contiguous(calls') /\ Alone(c.by)
         /\ Keeps(req'[c.by], m) /\ Goes(c.by, req'[c.by], m)
         /\ Elems(Tail(calls)) \subseteq Elems(calls')
<1> DEFINE r == c.by
           queue == Tail(calls)
           new == <<>>
<1>1. /\ calls # <<>> /\ c = Head(calls) /\ o = req[r] /\ m \in Request
      /\ m.pending = o.pending - 1 /\ Continue(r, m, new, queue)
  BY DEF Serves
<1>2. r \in Requests /\ TypeInv /\ CountInv /\ Contiguous(calls) /\ calls \in Seq(CallType)
  BY <1>1, HeadCall DEF DomInv, TypeInv
<1>3. Moved(r, queue) /\ By(new, r) /\ Elems(new) = {}
  BY <1>1, Nothing DEF Moved
<1>4. m.pending = Cardinality(Own(queue, r))
  <2>1. Cardinality(Own(queue, r)) = Cardinality(Own(calls, r)) - 1
    BY <1>1, <1>2, TailOwn
  <2>2. o.pending = Cardinality(Own(calls, r))
    BY <1>1, <1>2 DEF CountInv
  <2> QED BY <1>1, <2>1, <2>2
<1>5. queue \in Seq(CallType)
  BY <1>1, <1>2, TailOfQueue
<1>6. Own(queue, r) = {} \/ new = <<>>
  OBVIOUS
<1> HIDE DEF r, queue, new
<1>7. /\ req' \in [Requests -> Request] /\ calls' \in Seq(CallType)
      /\ CountInv' /\ Contiguous(calls') /\ Alone(r)
  BY <1>1, <1>2, <1>3, <1>4, <1>6, QueueKept
<1>8. /\ Keeps(req'[r], m)
      /\ \/ Waiting(r, req'[r], m, new, queue) \/ Rereads(r, req'[r], m, new, queue)
         \/ Answers(r, req'[r], m, new, queue)
  BY <1>1, <1>2, <1>3, <1>4, <1>5, <1>6, Continued
<1>9. queue \o new = queue
  BY <1>5, ConcatEmptySeq DEF new
<1>10. Goes(r, req'[r], m) /\ Elems(queue) \subseteq Elems(calls')
  <2>1. CASE Waiting(r, req'[r], m, new, queue)
    <3>1. calls' = queue
      BY <1>9, <2>1 DEF Waiting
    <3>2. GoesOn(r, req'[r], m)
      BY <2>1, <3>1 DEF Waiting, GoesOn, queue
    <3> QED BY <3>1, <3>2 DEF Goes
  <2>2. CASE Rereads(r, req'[r], m, new, queue)
    <3>1. GoesBack(r, req'[r], m)
      BY <2>2 DEF Rereads, GoesBack, queue
    <3> QED BY <2>2, <3>1 DEF Goes, Rereads
  <2>3. CASE Answers(r, req'[r], m, new, queue)
    <3>1. Ends(r, req'[r], m)
      BY <2>3 DEF Answers, Ends, queue
    <3> QED BY <2>3, <3>1 DEF Goes, Answers
  <2> QED BY <1>8, <2>1, <2>2, <2>3
<1> QED BY <1>7, <1>8, <1>10 DEF r, queue

\* The calls besides the one that is served.
LEMMA Besides ==
  ASSUME DomInv, NEW c, NEW o, NEW m, Serves(c, o, m)
  PROVE  /\ Elems(calls) = {c} \cup Elems(Tail(calls))
         /\ Own(Tail(calls), c.by) = {} => \A e \in Elems(Tail(calls)) : e.by # c.by
<1>1. calls # <<>> /\ c = Head(calls) /\ calls \in Seq(CallType)
  BY DEF Serves, DomInv, TypeInv
<1> QED BY <1>1, TailElems, OwnElems

\* Of which kind the request is, by the call that is served.
LEMMA KindServed ==
  ASSUME DomInv, NEW c, NEW o, NEW m, Serves(c, o, m)
  PROVE  /\ o.kind = "patch" /\ o.final => c.op = "set" /\ c.arg \in o.body
         /\ o.kind = "patch" /\ ~o.final => c.op = "get"
         /\ o.kind = "changeState" => c.op = "enable" /\ c.arg = "domain"
         /\ o.kind = "reset" =>
              c.op = "reset" /\ (o.domain = acTotalPlatformPowerDomainId \/ c.arg = "domain")
         /\ c.op = "set" => o.kind = "patch" /\ c.arg \in o.body
         /\ c.op \in {"reset", "enable"} => o.kind # "patch"
         /\ o.stage = "calls" /\ o \in Request /\ c \in CallType /\ c.by \in Requests
         /\ o = req[c.by]
<1>1. calls # <<>> /\ c = Head(calls) /\ o = req[c.by]
  BY DEF Serves
<1>2. /\ c \in CallType /\ c.by \in Requests /\ o \in Request /\ Fits(c, o)
      /\ o.stage = "calls"
  BY <1>1, HeadCall
<1>3. \/ c.op = "set" /\ c.arg \in Props
      \/ c.op = "get" /\ c.arg \in {"capabilities", "abs", "rel", "rest"}
      \/ c.op = "reset" /\ c.arg \in {"domain", "main"}
      \/ c.op = "enable" /\ c.arg = "domain"
  BY <1>2, CallParts
<1> QED BY <1>1, <1>2, <1>3 DEF Fits

LEMMA ServedFits ==
  ASSUME DomInv, NEW c, NEW o, NEW m, Serves(c, o, m)
  PROVE  \A e \in Elems(calls') : e.by = c.by => Fits(e, req'[c.by])
<1> DEFINE r == c.by
           q == req'[r]
<1>1. Keeps(q, m) /\ Goes(r, q, m)
  BY ServedQueue
<1>2. SameForm(m, o) /\ o = req[r] /\ r \in Requests
  BY KindServed DEF Serves
<1>3. /\ Elems(calls) = {c} \cup Elems(Tail(calls))
      /\ Own(Tail(calls), r) = {} => \A e \in Elems(Tail(calls)) : e.by # r
  BY Besides
<1>4. /\ q.kind = o.kind /\ q.domain = o.domain /\ q.body = o.body
      /\ m.kind = o.kind /\ m.final = o.final
  BY <1>1, <1>2 DEF Keeps, SameForm
<1>5. \A e \in Elems(calls) : e.by = r => Fits(e, o)
  BY <1>2 DEF DomInv, CallInv
<1> HIDE DEF q, r
<1>6. CASE GoesOn(r, q, m)
  <2>1. \A e : Fits(e, o) => Fits(e, q)
    BY <1>4, <1>6 DEF GoesOn, Fits
  <2> QED BY <1>3, <1>5, <1>6, <2>1 DEF GoesOn, q, r
<1>7. CASE GoesBack(r, q, m)
  <2>1. q.kind = "patch" /\ ~q.final
    BY <1>2, <1>4, <1>7 DEF GoesBack, DomInv, RequestInv, FormInv
  <2>2. \A e \in Elems(getDomain(r)) : Fits(e, q)
    BY <1>2, <2>1, FitsBack
  <2> QED BY <1>3, <1>7, <2>2 DEF GoesBack, q, r
<1>8. CASE Ends(r, q, m)
  BY <1>3, <1>8 DEF Ends, q, r
<1> QED BY <1>1, <1>6, <1>7, <1>8 DEF Goes

LEMMA ServedForm ==
  ASSUME DomInv, NEW c, NEW o, NEW m, Serves(c, o, m)
  PROVE  FormInv(req'[c.by])
<1> DEFINE r == c.by
           q == req'[r]
<1>1. Keeps(q, m) /\ Goes(r, q, m)
  BY ServedQueue
<1>2. /\ SameForm(m, o) /\ m \in Request
      /\ GotAnswer(c, o, m) \/ SetAnswer(c, o, m) \/ DidAnswer(c, o, m) \/ ErrorAnswer(o, m)
  BY DEF Serves
<1>3. FormInv(o)
  BY KindServed DEF DomInv, RequestInv
<1>4. /\ q.kind = o.kind /\ q.domain = o.domain /\ q.body = o.body
      /\ m.kind = o.kind /\ m.final = o.final /\ q.done = m.done /\ q.status = m.status
  BY <1>1, <1>2 DEF Keeps, SameForm
<1>5. m.status \in Success \cup Errors
  BY <1>2 DEF Request
<1>6. q.stage \in {"calls", "done"} /\ (q.final => m.final)
  BY <1>1 DEF Goes, GoesOn, GoesBack, Ends
<1>7. q.final => q.kind = "patch"
  BY <1>3, <1>4, <1>6 DEF FormInv
<1>8. q.kind = "patch" => q.done \subseteq q.body /\ q.status # "no_content"
  <2> SUFFICES ASSUME o.kind = "patch"
               PROVE  m.done \subseteq o.body /\ m.status # "no_content"
    BY <1>4
  <2>1. o.done \subseteq o.body /\ o.status # "no_content"
    BY <1>3 DEF FormInv
  <2>2. \A status \in Errors : status # "no_content"
    BY DEF Errors
  <2>3. CASE GotAnswer(c, o, m)
    BY <2>1, <2>3 DEF GotAnswer
  <2>4. CASE SetAnswer(c, o, m)
    <3>1. c.arg \in o.body
      BY <2>4, KindServed DEF SetAnswer
    <3> QED BY <2>1, <2>2, <2>4, <3>1 DEF SetAnswer, Succeeds, Reports
  <2>5. CASE DidAnswer(c, o, m)
    BY <2>5, KindServed DEF DidAnswer
  <2>6. CASE ErrorAnswer(o, m)
    BY <2>1, <2>2, <2>6 DEF ErrorAnswer, Reports
  <2> QED BY <1>2, <2>3, <2>4, <2>5, <2>6
<1>9. q.kind = "changeState" => q.done \subseteq {"domain"}
  BY <1>2, <1>3, <1>4, KindServed DEF FormInv, GotAnswer, SetAnswer, DidAnswer, ErrorAnswer
<1>10. m.status \in Errors => m.error
  BY <1>2, <1>3
     DEF FormInv, GotAnswer, SetAnswer, DidAnswer, ErrorAnswer, Succeeds, Reports, Errors
<1>11. q.status \in Errors => q.error
  <2>1. "ok" \notin Errors
    BY DEF Errors
  <2> QED BY <1>1, <1>4, <1>10, <2>1 DEF Goes, GoesOn, GoesBack, Ends
<1>12. q.stage = "done" => Ends(r, q, m)
  BY <1>1 DEF Goes, GoesOn, GoesBack
<1>13. q.final /\ q.stage = "done" => q.status \in Errors
  BY <1>4, <1>5, <1>6, <1>7, <1>8, <1>12 DEF Ends, Success
<1>14. ASSUME q.stage = "done", q.status \in Success
       PROVE  /\ q.kind = "changeState" => q.done = {"domain"}
              /\ q.kind = "reset" => IF q.domain = acTotalPlatformPowerDomainId
                                     THEN "main" \in q.done ELSE "domain" \in q.done
  <2>1. ~ErrorAnswer(o, m)
    BY <1>4, <1>14 DEF ErrorAnswer, Reports, Success, Errors
  <2>2. ASSUME q.kind = "changeState" PROVE q.done = {"domain"}
    <3>1. c.op = "enable" /\ c.arg = "domain"
      BY <1>4, <2>2, KindServed
    <3>2. DidAnswer(c, o, m)
      BY <1>2, <2>1, <3>1 DEF GotAnswer, SetAnswer
    <3>3. "domain" \in q.done
      BY <1>4, <3>1, <3>2 DEF DidAnswer
    <3> QED BY <1>9, <2>2, <3>3
  <2>3. ASSUME q.kind = "reset"
        PROVE  IF q.domain = acTotalPlatformPowerDomainId
               THEN "main" \in q.done ELSE "domain" \in q.done
    <3>1. c.op = "reset" /\ (o.domain = acTotalPlatformPowerDomainId \/ c.arg = "domain")
      BY <1>4, <2>3, KindServed
    <3>2. DidAnswer(c, o, m)
      BY <1>2, <2>1, <3>1 DEF GotAnswer, SetAnswer
    <3>3. c.arg \in q.done
      BY <1>4, <3>2 DEF DidAnswer
    <3>4. CASE q.domain # acTotalPlatformPowerDomainId
      BY <1>4, <3>1, <3>3, <3>4
    <3>5. CASE q.domain = acTotalPlatformPowerDomainId
      <4>1. Own(Tail(calls), r) = {}
        BY <1>12, <1>14 DEF Ends
      <4>2. calls # <<>> /\ c = Head(calls) /\ r \in Requests /\ calls \in Seq(CallType)
        BY KindServed DEF Serves, DomInv, TypeInv
      <4>3. 1 \in Own(calls, r)
        BY <4>2, HeadCall
      <4>4. ResetInv(r, o, calls)
        BY <4>2, KindServed DEF DomInv, RequestInv
      <4>5. PICK i \in Own(calls, r) : calls[i].arg = "main"
        BY <1>4, <2>3, <3>5, <4>3, <4>4 DEF ResetInv
      <4>6. i \in 1..Len(calls) /\ Len(calls) \in Nat
        BY <4>2, OwnFinite
      <4>7. i = 1
        <5>1. CASE i # 1
          <6>1. i - 1 \in Own(Tail(calls), r)
            BY <4>2, <4>6, <5>1, TailOwn
          <6> QED BY <4>1, <6>1
        <5> QED BY <5>1
      <4>8. c = calls[1]
        BY <4>2, TailOfQueue
      <4> QED BY <3>3, <3>5, <4>5, <4>7, <4>8
    <3> QED BY <3>4, <3>5
  <2> QED BY <2>2, <2>3
<1> HIDE DEF q
<1> QED BY <1>6, <1>7, <1>8, <1>9, <1>11, <1>13, <1>14 DEF FormInv, q

\* What an answer does to a PATCH that nothing has failed of: one that writes has
\* written, and one that reads back has read.
LEMMA PatchAnswer ==
  ASSUME DomInv, NEW c, NEW o, NEW m, Serves(c, o, m), o.kind = "patch", m.status = "ok"
  PROVE  /\ o.status = "ok"
         /\ o.final => SetAnswer(c, o, m)
         /\ ~o.final => GotAnswer(c, o, m)
<1>1. GotAnswer(c, o, m) \/ SetAnswer(c, o, m) \/ DidAnswer(c, o, m) \/ ErrorAnswer(o, m)
  BY DEF Serves
<1>2. ~Reports(m)
  BY DEF Reports, Errors
<1>3. ~ErrorAnswer(o, m) /\ ~DidAnswer(c, o, m)
  BY <1>2, KindServed DEF ErrorAnswer, DidAnswer
<1>4. o.final => ~GotAnswer(c, o, m)
  BY KindServed DEF GotAnswer
<1>5. ~o.final => ~SetAnswer(c, o, m)
  BY KindServed DEF SetAnswer
<1>6. SetAnswer(c, o, m) \/ GotAnswer(c, o, m) => o.status = "ok"
  BY <1>2 DEF SetAnswer, GotAnswer, Succeeds
<1> QED BY <1>1, <1>3, <1>4, <1>5, <1>6

LEMMA ServedWrites ==
  ASSUME DomInv, NEW c, NEW o, NEW m, Serves(c, o, m)
  PROVE  WriteInv(c.by, req'[c.by], calls')
<1> DEFINE r == c.by
           q == req'[r]
<1>1. Keeps(q, m) /\ Goes(r, q, m) /\ Elems(Tail(calls)) \subseteq Elems(calls')
  BY ServedQueue
<1>2. SameForm(m, o) /\ o = req[r] /\ r \in Requests
  BY KindServed DEF Serves
<1>3. /\ Elems(calls) = {c} \cup Elems(Tail(calls))
      /\ Own(Tail(calls), r) = {} => \A e \in Elems(Tail(calls)) : e.by # r
  BY Besides
<1>4. /\ q.kind = o.kind /\ q.domain = o.domain /\ q.body = o.body /\ q.bad = o.bad
      /\ m.kind = o.kind /\ m.final = o.final /\ q.done = m.done /\ q.status = m.status
  BY <1>1, <1>2 DEF Keeps, SameForm
<1>5. WriteInv(r, o, calls) /\ o.stage = "calls"
  BY <1>2, KindServed DEF DomInv, RequestInv
\* A write of a PATCH that goes on writing, or now reads back.
<1>6. ASSUME o.kind = "patch", o.final, m.status = "ok"
      PROVE  /\ q.bad = {}
             /\ \A p \in q.body : p \in q.done \/ Call(r, "set", p) \in Elems(Tail(calls))
  <2>1. o.status = "ok" /\ SetAnswer(c, o, m)
    BY <1>6, PatchAnswer
  <2>2. o.bad = {} /\ \A p \in o.body : p \in o.done \/ Call(r, "set", p) \in Elems(calls)
    BY <1>5, <1>6, <2>1 DEF WriteInv, Writing
  <2>3. \A p : Call(r, "set", p).arg = p
    BY DEF Call
  <2>4. m.done = o.done \cup {c.arg}
    BY <2>1 DEF SetAnswer
  <2>5. \A p \in o.body : p \in m.done \/ Call(r, "set", p) \in Elems(Tail(calls))
    BY <1>3, <2>2, <2>3, <2>4
  <2> QED BY <1>4, <2>2, <2>5
<1>7. ASSUME Writing(q), q.status = "ok"
      PROVE  q.bad = {} /\ \A p \in q.body : p \in q.done \/ Call(r, "set", p) \in Elems(calls')
  <2>1. GoesOn(r, q, m)
    BY <1>1, <1>4, <1>7 DEF Goes, GoesBack, Ends, Writing
  <2>2. o.kind = "patch" /\ o.final /\ m.status = "ok"
    BY <1>4, <1>7, <2>1 DEF Writing, GoesOn
  <2> QED BY <1>1, <1>6, <2>2
<1>8. ASSUME ReadingBack(q), q.status = "ok"
      PROVE  q.bad = {} /\ q.done = q.body
  <2>1. o.kind = "patch" /\ m.status = "ok"
    BY <1>4, <1>8 DEF ReadingBack
  <2>2. CASE o.final
    <3>1. GoesBack(r, q, m)
      BY <1>1, <1>4, <1>8, <2>2 DEF Goes, GoesOn, Ends, ReadingBack
    <3>2. \A p : Call(r, "set", p).by = r
      BY DEF Call
    <3>3. q.bad = {} /\ q.body \subseteq q.done
      BY <1>3, <1>6, <2>1, <2>2, <3>1, <3>2 DEF GoesBack
    <3>4. q.done \subseteq q.body
      BY <1>4, <2>1, ServedForm DEF FormInv
    <3> QED BY <3>3, <3>4
  <2>3. CASE ~o.final
    <3>1. o.status = "ok" /\ GotAnswer(c, o, m)
      BY <2>1, <2>3, PatchAnswer
    <3>2. o.bad = {} /\ o.done = o.body
      BY <1>5, <2>1, <2>3, <3>1 DEF WriteInv, ReadingBack
    <3> QED BY <1>4, <3>1, <3>2 DEF GotAnswer
  <2> QED BY <2>2, <2>3
<1> HIDE DEF q
<1> QED BY <1>7, <1>8 DEF WriteInv, q

LEMMA ServedReset ==
  ASSUME DomInv, NEW c, NEW o, NEW m, Serves(c, o, m)
  PROVE  ResetInv(c.by, req'[c.by], calls')
<1> DEFINE r == c.by
           q == req'[r]
<1> SUFFICES ASSUME q.kind = "reset", q.domain = acTotalPlatformPowerDomainId,
                    Own(calls', r) # {}
             PROVE  \E i \in Own(calls', r) :
                      calls'[i].arg = "main" /\ \A j \in Own(calls', r) : j <= i
  BY DEF ResetInv
<1>1. Keeps(q, m) /\ Goes(r, q, m)
  BY ServedQueue
<1>2. SameForm(m, o) /\ o = req[r] /\ r \in Requests
  BY KindServed DEF Serves
<1>3. q.kind = o.kind /\ q.domain = o.domain /\ m.kind = o.kind /\ m.final = o.final
  BY <1>1, <1>2 DEF Keeps, SameForm
<1>4. GoesOn(r, q, m)
  <2>1. ~GoesBack(r, q, m)
    BY <1>2, <1>3 DEF GoesBack, DomInv, RequestInv, FormInv
  <2>2. ~Ends(r, q, m)
    BY DEF Ends
  <2> QED BY <1>1, <2>1, <2>2 DEF Goes
<1>5. calls' = Tail(calls) /\ Own(Tail(calls), r) # {}
  BY <1>4 DEF GoesOn
<1>6. calls # <<>> /\ calls \in Seq(CallType)
  BY DEF Serves, DomInv, TypeInv
<1>7. \A i : i \in Own(calls', r) <=> i \in Nat /\ i # 0 /\ i + 1 \in Own(calls, r)
  BY <1>5, <1>6, TailOwn
<1>8. Own(calls, r) # {}
  BY <1>7
<1>9. ResetInv(r, o, calls)
  BY <1>2 DEF DomInv, RequestInv
<1>10. PICK k \in Own(calls, r) : calls[k].arg = "main" /\ \A j \in Own(calls, r) : j <= k
  BY <1>3, <1>8, <1>9 DEF ResetInv
<1>11. k \in 1..Len(calls) /\ Len(calls) \in Nat
  BY <1>6, OwnFinite
<1>12. k # 1
  <2>1. PICK j \in Own(calls', r) : TRUE
    OBVIOUS
  <2>2. j + 1 <= k /\ j \in Nat /\ j # 0
    BY <1>7, <1>10, <2>1
  <2> QED BY <2>2
<1>13. k - 1 \in Own(calls', r)
  BY <1>7, <1>11, <1>12
<1>14. calls'[k - 1] = calls[k]
  <2>1. k - 1 \in DOMAIN Tail(calls) /\ (k - 1) + 1 = k
    BY <1>5, <1>11, <1>13 DEF Own
  <2> QED BY <1>5, <1>6, <2>1, TailOfQueue
<1>15. \A j \in Own(calls', r) : j <= k - 1
  BY <1>7, <1>10, <1>11
<1> QED BY <1>10, <1>13, <1>14, <1>15

LEMMA ServedFresh ==
  ASSUME DomInv, NEW c, NEW o, NEW m, Serves(c, o, m)
  PROVE  FreshInv(c.by, req'[c.by], calls', later')
<1> DEFINE r == c.by
           q == req'[r]
<1> SUFFICES ASSUME ReadingBack(q), q.status = "ok", NEW p \in q.body
             PROVE  \/ <<q.domain, p, r, q.shown[p]>> \in later'
                    \/ Call(r, "get", Shows(p)) \in Elems(calls')
  BY DEF FreshInv
<1>1. Keeps(q, m) /\ Goes(r, q, m) /\ Elems(Tail(calls)) \subseteq Elems(calls')
  BY ServedQueue
<1>2. SameForm(m, o) /\ o = req[r] /\ r \in Requests /\ o \in Request /\ o.stage = "calls"
  BY KindServed DEF Serves
<1>3. /\ q.kind = o.kind /\ q.domain = o.domain /\ q.body = o.body /\ m.final = o.final
      /\ q.shown = m.shown /\ q.status = m.status
  BY <1>1, <1>2 DEF Keeps, SameForm
<1>4. o.kind = "patch" /\ m.status = "ok" /\ p \in Props /\ o.domain \in DomainIds
  BY <1>2, <1>3 DEF ReadingBack, Request
<1>5. CASE o.final
  <2>1. GoesBack(r, q, m)
    BY <1>1, <1>3, <1>5 DEF Goes, GoesOn, Ends, ReadingBack
  <2>2. Call(r, "get", Shows(p)) \in Elems(getDomain(r))
    BY <1>2, <1>4, GetDomain
  <2> QED BY <2>1, <2>2 DEF GoesBack
<1>6. CASE ~o.final
  <2>1. o.status = "ok" /\ GotAnswer(c, o, m)
    BY <1>4, <1>6, PatchAnswer
  <2>2. ReadingBack(o)
    BY <1>2, <1>4, <1>6 DEF ReadingBack
  <2>3. /\ WriteInv(r, o, calls) /\ FreshInv(r, o, calls, later)
        /\ LaterInv(r, o, domain, later)
    BY <1>2 DEF DomInv, RequestInv, ServiceInv
  <2>4. m.shown[p] = IF Shows(p) = c.arg THEN domain[o.domain][p] ELSE o.shown[p]
    BY <1>4, <2>1 DEF GotAnswer
  <2>5. later' = later
    BY <2>1 DEF GotAnswer
  <2>6. CASE Shows(p) = c.arg
    <3>1. p \in o.done
      BY <1>3, <2>1, <2>2, <2>3 DEF WriteInv
    <3>2. <<o.domain, p, r, domain[o.domain][p]>> \in later
      BY <1>4, <2>3, <3>1 DEF LaterInv
    <3> QED BY <1>3, <2>4, <2>5, <2>6, <3>2
  <2>7. CASE Shows(p) # c.arg
    <3>1. \/ <<o.domain, p, r, o.shown[p]>> \in later
          \/ Call(r, "get", Shows(p)) \in Elems(calls)
      BY <1>3, <2>1, <2>2, <2>3 DEF FreshInv
    <3>2. Call(r, "get", Shows(p)) # c
      BY <2>7 DEF Call
    <3>3. Elems(calls) = {c} \cup Elems(Tail(calls))
      BY Besides
    <3> QED BY <1>1, <1>3, <2>4, <2>5, <2>7, <3>1, <3>2, <3>3
  <2> QED BY <2>6, <2>7
<1> QED BY <1>5, <1>6

\* What an answer does to the service: a property of the request's domain gets its
\* value, or nothing happens.  What the request has written stays written.
LEMMA AnswerEffect ==
  ASSUME DomInv, NEW c, NEW o, NEW m, Serves(c, o, m)
  PROVE  /\ \/ SetAnswer(c, o, m) /\ Written(o.domain, c.arg, c.by) /\ c.op = "set"
                                  /\ m.done = o.done \cup {c.arg}
            \/ UNCHANGED <<domain, later>> /\ (o.kind = "patch" => m.done = o.done)
         /\ o.done \subseteq m.done /\ later \subseteq later'
<1>1. GotAnswer(c, o, m) \/ SetAnswer(c, o, m) \/ DidAnswer(c, o, m) \/ ErrorAnswer(o, m)
  BY DEF Serves
<1>2. CASE GotAnswer(c, o, m)
  BY <1>2 DEF GotAnswer
<1>3. CASE SetAnswer(c, o, m)
  BY <1>3 DEF SetAnswer, Written
<1>4. CASE DidAnswer(c, o, m)
  BY <1>4, KindServed DEF DidAnswer
<1>5. CASE ErrorAnswer(o, m)
  BY <1>5 DEF ErrorAnswer
<1> QED BY <1>1, <1>2, <1>3, <1>4, <1>5

LEMMA ServedService ==
  ASSUME DomInv, NEW c, NEW o, NEW m, Serves(c, o, m)
  PROVE  ServiceInv'
<1> DEFINE r == c.by
           q == req'[r]
<1> SUFFICES ASSUME NEW s \in Requests
             PROVE  /\ LaterInv(s, req'[s], domain', later') /\ WriterInv(s, req'[s], domain')
                    /\ PartialInv(s, req'[s], calls', domain')
  BY DEF ServiceInv
<1>1. Keeps(q, m) /\ Goes(r, q, m) /\ Alone(r)
  BY ServedQueue
<1>2. SameForm(m, o) /\ o = req[r] /\ r \in Requests /\ c \in CallType /\ o \in Request
  BY KindServed DEF Serves
<1>3. /\ q.kind = o.kind /\ q.domain = o.domain /\ q.body = o.body /\ m.final = o.final
      /\ q.done = m.done
  BY <1>1, <1>2 DEF Keeps, SameForm
<1>4. /\ LaterInv(s, req[s], domain, later) /\ WriterInv(s, req[s], domain)
      /\ PartialInv(s, req[s], calls, domain)
  BY DEF DomInv, ServiceInv
<1>5. /\ \/ SetAnswer(c, o, m) /\ Written(o.domain, c.arg, r) /\ c.op = "set"
                               /\ m.done = o.done \cup {c.arg}
         \/ UNCHANGED <<domain, later>> /\ (o.kind = "patch" => m.done = o.done)
      /\ o.done \subseteq m.done /\ later \subseteq later'
  BY AnswerEffect
<1>6. \A e \in DomainIds, x \in Props :
        <<e, x, s, s>> \in later' => <<e, x, s, domain'[e][x]>> \in later'
  BY <1>4, <1>5 DEF LaterInv, Written
<1>7. calls # <<>> /\ c = Head(calls) /\ calls \in Seq(CallType) /\ 1 \in Own(calls, r)
      /\ c = calls[1]
  BY HeadCall, TailOfQueue DEF Serves, DomInv, TypeInv
<1>8. CASE s # r
  <2>1. req'[s] = req[s]
    BY <1>1, <1>8 DEF Alone
  <2>2. LaterInv(s, req[s], domain', later')
    BY <1>4, <1>5, <1>6 DEF LaterInv
  <2>3. WriterInv(s, req[s], domain')
    BY <1>4, <1>5, <1>8 DEF WriterInv, Written
  <2>4. PartialInv(s, req[s], calls', domain')
    <3>1. Own(calls', s) # {} => Own(calls, s) # {}
      BY <1>1, <1>8, OwnElems DEF Alone
    <3> QED BY <1>4, <1>7, <1>8, <3>1 DEF PartialInv
  <2> QED BY <2>1, <2>2, <2>3, <2>4
<1>9. CASE s = r
  <2>1. LaterInv(r, q, domain', later')
    <3>1. q.kind = "patch" => \A p \in q.done : <<q.domain, p, r, r>> \in later'
      <4>1. CASE Written(o.domain, c.arg, r) /\ m.done = o.done \cup {c.arg}
        BY <1>2, <1>3, <1>4, <1>5, <1>9, <4>1 DEF LaterInv, Written
      <4>2. CASE o.kind = "patch" => m.done = o.done
        BY <1>2, <1>3, <1>4, <1>5, <1>9, <4>2 DEF LaterInv
      <4> QED BY <1>5, <4>1, <4>2
    <3> QED BY <1>6, <1>9, <3>1 DEF LaterInv
  <2>2. WriterInv(r, q, domain')
    <3> SUFFICES ASSUME NEW e \in DomainIds, NEW x \in Props, domain'[e][x] = r
                 PROVE  q.kind = "patch" /\ q.domain = e /\ x \in q.done
      BY DEF WriterInv
    <3>1. CASE domain[e][x] = r
      BY <1>2, <1>3, <1>4, <1>5, <1>9, <3>1 DEF WriterInv
    <3>2. CASE domain[e][x] # r
      <4>1. c.op = "set" /\ Written(o.domain, c.arg, r) /\ m.done = o.done \cup {c.arg}
        BY <1>5, <3>2
      <4>2. e = o.domain /\ x = c.arg
        BY <3>2, <4>1 DEF Written
      <4>3. o.kind = "patch"
        BY <4>1, KindServed
      <4> QED BY <1>3, <4>1, <4>2, <4>3
    <3> QED BY <3>1, <3>2
  <2>3. PartialInv(r, q, calls', domain')
    <3> SUFFICES ASSUME Writing(q), q.done # {}, Own(calls', r) # {}
                 PROVE  /\ calls'[1].by = r
                        /\ \A p \in q.done : domain'[q.domain][p] \in {r, Nobody}
      BY DEF PartialInv
    <3>1. GoesOn(r, q, m)
      BY <1>1 DEF Goes, GoesBack, Ends, Writing
    <3>2. calls'[1].by = r
      <4>1. Contiguous(calls)
        BY DEF DomInv
      <4> QED BY <1>7, <3>1, <4>1, TailContiguous DEF GoesOn
    <3>3. Writing(o) /\ c.arg \in o.body
      BY <1>3, <3>1, KindServed DEF GoesOn, Writing
    <3>4. o.done # {} => \A p \in o.done : domain[o.domain][p] \in {r, Nobody}
      BY <1>2, <1>4, <1>7, <1>9, <3>3 DEF PartialInv
    <3>5. o.domain \in DomainIds /\ o.body \subseteq Props /\ o.done \subseteq o.body
      BY <1>2, <3>3 DEF Request, DomInv, RequestInv, FormInv, Writing
    <3>6. \A p \in q.done : domain'[o.domain][p] \in {r, Nobody}
      <4>1. CASE Written(o.domain, c.arg, r) /\ m.done = o.done \cup {c.arg}
        BY <1>3, <3>3, <3>4, <3>5, <4>1 DEF Written
      <4>2. CASE UNCHANGED domain /\ (o.kind = "patch" => m.done = o.done)
        BY <1>3, <3>3, <3>4, <4>2 DEF Writing
      <4> QED BY <1>5, <4>1, <4>2
    <3> QED BY <1>3, <3>2, <3>6
  <2> QED BY <1>9, <2>1, <2>2, <2>3
<1> QED BY <1>8, <1>9

LEMMA PairSymmetric ==
  ASSUME NEW r, NEW s, NEW q, NEW o, NEW queue, NEW dom, PairInv(r, s, q, o, queue, dom)
  PROVE  PairInv(s, r, o, q, queue, dom)
BY DEF PairInv

\* The request being served, and any other one.
LEMMA ServedPair ==
  ASSUME DomInv, NEW c, NEW o, NEW m, Serves(c, o, m), NEW t \in Requests, t # c.by
  PROVE  PairInv(c.by, t, req'[c.by], req'[t], calls', domain')
<1> DEFINE r == c.by
           q == req'[r]
           u == req[t]
<1>1. Keeps(q, m) /\ Goes(r, q, m) /\ Alone(r) /\ Elems(Tail(calls)) \subseteq Elems(calls')
  BY ServedQueue
<1>2. SameForm(m, o) /\ o = req[r] /\ r \in Requests /\ c \in CallType /\ o \in Request
  BY KindServed DEF Serves
<1>3. /\ q.kind = o.kind /\ q.domain = o.domain /\ q.body = o.body /\ q.status = m.status
      /\ q.done = m.done
  BY <1>1, <1>2 DEF Keeps, SameForm
<1>4. req'[t] = u
  BY <1>1 DEF Alone
<1> SUFFICES ASSUME o.kind = "patch", u.kind = "patch", o.domain = u.domain,
                    m.status = "ok", u.status = "ok",
                    NEW p \in o.body \cap u.body, NEW x \in o.body \cap u.body,
                    domain'[o.domain][p] = r, domain'[o.domain][x] = t
             PROVE  \/ Call(r, "set", x) \in Elems(calls')
                    \/ Call(t, "set", p) \in Elems(calls')
  BY <1>3, <1>4 DEF PairInv
<1>5. o.domain \in DomainIds /\ o.body \subseteq Props
  BY <1>2 DEF Request
<1>6. /\ Elems(calls) = {c} \cup Elems(Tail(calls))
  BY Besides
<1>7. \A a, b, y : Call(a, b, y).by = a /\ Call(a, b, y).op = b /\ Call(a, b, y).arg = y
  BY DEF Call
<1>8. /\ Call(r, "set", x) \in Elems(calls) /\ Call(r, "set", x) # c
           => Call(r, "set", x) \in Elems(calls')
      /\ Call(t, "set", p) \in Elems(calls) => Call(t, "set", p) \in Elems(calls')
  BY <1>1, <1>6, <1>7
<1>9. /\ o.status = "ok" /\ o.final => SetAnswer(c, o, m)
      /\ ~o.final => GotAnswer(c, o, m)
  BY PatchAnswer
<1>10. o.status = "ok"
  BY PatchAnswer
<1>11. PairInv(r, t, o, u, calls, domain)
  BY <1>2 DEF DomInv, PairsInv
<1>12. domain[o.domain][p] = r /\ domain[o.domain][x] = t =>
         Call(r, "set", x) \in Elems(calls) \/ Call(t, "set", p) \in Elems(calls)
  BY <1>10, <1>11 DEF PairInv
<1>13. CASE GotAnswer(c, o, m)
  <2>1. UNCHANGED domain /\ c.op = "get"
    BY <1>13 DEF GotAnswer
  <2>2. Call(r, "set", x) # c
    BY <1>7, <2>1
  <2> QED BY <1>8, <1>12, <2>1, <2>2
<1>14. CASE SetAnswer(c, o, m)
  <2>1. Written(o.domain, c.arg, r)
    BY <1>14 DEF SetAnswer
  <2>2. \A y \in Props : domain'[o.domain][y] = IF y = c.arg THEN r ELSE domain[o.domain][y]
    BY <1>5, <2>1 DEF Written
  <2>3. x # c.arg /\ domain[o.domain][x] = t
    BY <1>5, <2>2
  <2>4. Call(r, "set", x) # c
    BY <1>7, <2>3
  <2>5. CASE p # c.arg
    <3>1. domain[o.domain][p] = r
      BY <1>5, <2>2, <2>5
    <3> QED BY <1>8, <1>12, <2>3, <2>4, <3>1
  <2>6. CASE p = c.arg
    <3>1. Writing(o)
      BY <1>14, <1>9 DEF Writing, SetAnswer, GotAnswer
    <3>2. x \in o.done \/ Call(r, "set", x) \in Elems(calls)
      BY <1>2, <1>10, <3>1 DEF DomInv, RequestInv, WriteInv
    <3>3. x \notin o.done
      <4>1. PartialInv(r, o, calls, domain)
        BY <1>2 DEF DomInv, ServiceInv
      <4>2. Own(calls, r) # {}
        BY HeadCall DEF Serves
      <4>3. t # Nobody
        BY NmDomainsAssumption
      <4> QED BY <2>3, <3>1, <4>1, <4>2, <4>3 DEF PartialInv
    <3> QED BY <1>8, <2>4, <3>2, <3>3
  <2> QED BY <2>5, <2>6
<1> QED BY <1>9, <1>10, <1>13, <1>14

LEMMA ServedPairs ==
  ASSUME DomInv, NEW c, NEW o, NEW m, Serves(c, o, m)
  PROVE  PairsInv'
<1> DEFINE r == c.by
<1> SUFFICES ASSUME NEW s \in Requests, NEW t \in Requests, s # t
             PROVE  PairInv(s, t, req'[s], req'[t], calls', domain')
  BY DEF PairsInv
<1>1. CASE s = r
  BY <1>1, ServedPair
<1>2. CASE t = r
  BY <1>2, ServedPair, PairSymmetric
<1>3. CASE s # r /\ t # r
  <2>1. Alone(r)
    BY ServedQueue
  <2>2. req'[s] = req[s] /\ req'[t] = req[t]
    BY <1>3, <2>1 DEF Alone
  <2>3. PairInv(s, t, req[s], req[t], calls, domain)
    BY DEF DomInv, PairsInv
  <2>4. req[s].domain \in DomainIds /\ req[s].body \subseteq Props
    BY DEF DomInv, TypeInv, Request
  <2>5. \A e \in DomainIds, x \in Props : domain'[e][x] \in {s, t} => domain'[e][x] = domain[e][x]
    <3>1. o.domain \in DomainIds /\ c.by \in Requests
      BY KindServed DEF Request
    <3>2. Written(o.domain, c.arg, r) \/ UNCHANGED domain
      BY AnswerEffect
    <3>3. CASE Written(o.domain, c.arg, r)
      BY <1>3, <3>1, <3>3 DEF Written
    <3> QED BY <3>2, <3>3
  <2>6. \A op, a : /\ Call(s, op, a) \in Elems(calls) => Call(s, op, a) \in Elems(calls')
                   /\ Call(t, op, a) \in Elems(calls) => Call(t, op, a) \in Elems(calls')
    <3>1. \A op, a : Call(s, op, a).by = s /\ Call(t, op, a).by = t
      BY DEF Call
    <3> QED BY <1>3, <2>1, <3>1 DEF Alone
  <2> QED BY <2>2, <2>3, <2>4, <2>5, <2>6 DEF PairInv
<1> QED BY <1>1, <1>2, <1>3

LEMMA ServeStep == ASSUME DomInv, Serve PROVE DomInv'
<1>1. PICK m : Serves(Head(calls), req[Head(calls).by], m)
  BY GetServes, ModifyServes, ErrorServes, TimeoutServes DEF Serve
<1> DEFINE c == Head(calls)
           o == req[Head(calls).by]
<1>2. Serves(c, o, m)
  BY <1>1
<1>3. c.by \in Requests
  BY <1>1, KindServed
<1> HIDE DEF c, o
<1>4. /\ req' \in [Requests -> Request] /\ calls' \in Seq(CallType)
      /\ CountInv' /\ Contiguous(calls') /\ Alone(c.by)
  BY <1>2, ServedQueue
<1>5. TypeInv'
  <2>1. /\ domain' \in [DomainIds -> [Props -> Requests \cup {Nobody}]]
        /\ later' \subseteq DomainIds \X Props \X Requests \X (Requests \cup {Nobody})
    BY <1>2, AnswerEffect DEF Written, DomInv, TypeInv
  <2>2. others' = others
    BY <1>2 DEF Serves
  <2> QED BY <1>4, <2>1, <2>2 DEF DomInv, TypeInv
<1>6. later \subseteq later'
  BY <1>2, AnswerEffect
<1>7. /\ FormInv(req'[c.by]) /\ WriteInv(c.by, req'[c.by], calls')
      /\ ResetInv(c.by, req'[c.by], calls') /\ FreshInv(c.by, req'[c.by], calls', later')
  BY <1>2, ServedForm, ServedWrites, ServedReset, ServedFresh
<1>8. \A e \in Elems(calls') : e.by = c.by => Fits(e, req'[c.by])
  BY <1>2, ServedFits
<1>9. CallInv' /\ RequestInv'
  BY <1>3, <1>4, <1>6, <1>7, <1>8, OthersKept
<1>10. ServiceInv' /\ PairsInv'
  BY <1>2, ServedService, ServedPairs
<1> QED BY <1>4, <1>5, <1>9, <1>10 DEF DomInv

-----------------------------------------------------------------------------
(* Theorems *)

LEMMA NextDom == DomInv /\ [Next]_vars => DomInv'
<1> SUFFICES ASSUME DomInv, [Next]_vars PROVE DomInv'
  OBVIOUS
<1>1. CASE UNCHANGED vars
  <2>1. UNCHANGED <<domain, calls, req, later, others>>
    BY <1>1 DEF vars
  <2>2. TypeInv' /\ CountInv' /\ Contiguous(calls') /\ CallInv'
    BY <2>1 DEF DomInv, TypeInv, CountInv, CallInv
  <2>3. RequestInv' /\ ServiceInv' /\ PairsInv'
    BY <2>1 DEF DomInv, RequestInv, ServiceInv, PairsInv
  <2> QED BY <2>2, <2>3 DEF DomInv
<1>2. CASE \E r \in Requests : SomeArrival(r) \/ Found(r) \/ NotFound(r)
  BY <1>2, ArrivalStep, FoundStep, NotFoundStep
<1>3. CASE Serve
  BY <1>3, ServeStep
<1>4. CASE \E d \in DomainIds, p \in Props : OtherWrite(d, p)
  BY <1>4, OtherWriteStep
<1> QED BY <1>1, <1>2, <1>3, <1>4 DEF Next

\* The invariant of the domain handlers: the queue of calls, what each request has done
\* and is still going to do, and whose values the service holds.
THEOREM DomInvariant == Spec => []DomInv
BY InitDom, NextDom, PTL DEF Spec

\* The type of every variable; in particular a response waits for exactly the calls of
\* its request that are on their way, however the requests are mixed in the queue.
THEOREM TypeCorrect == Spec => []TypeOK
<1>1. DomInv => TypeOK
  <2> SUFFICES ASSUME DomInv PROVE TypeOK
    OBVIOUS
  <2>1. TypeInv /\ CountInv
    BY DEF DomInv
  <2>2. ASSUME NEW r \in Requests
        PROVE  /\ req[r].pending = Cardinality({i \in DOMAIN calls : calls[i].by = r})
               /\ req[r].stage = "calls" <=> req[r].pending > 0
    <3>1. req[r].pending = Cardinality(Own(calls, r))
      BY <2>1 DEF CountInv
    <3>2. req[r].stage = "calls" <=> Own(calls, r) # {}
      BY <2>1 DEF CountInv
    <3>3. Cardinality(Own(calls, r)) \in Nat /\ (Cardinality(Own(calls, r)) = 0 <=> Own(calls, r) = {})
      BY <2>1, OwnFinite DEF TypeInv
    <3>4. req[r].stage = "calls" <=> req[r].pending > 0
      BY <3>1, <3>2, <3>3
    <3> QED BY <3>1, <3>4 DEF Own
  <2>3. ASSUME NEW r \in Requests
        PROVE  /\ req[r].stage \in {"new", "find", "calls", "done"}
               /\ req[r].kind \in {"get", "patch", "reset", "changeState"}
               /\ req[r].domain \in DomainIds
               /\ req[r].body \subseteq Props /\ req[r].bad \subseteq Parts
               /\ req[r].status \in Success \cup Errors
               /\ req[r].shown \in [Props -> Requests \cup {Nobody}]
               /\ req[r].done \subseteq Props \cup {"domain", "main"}
    BY <2>1 DEF TypeInv, Request
  <2>4. \A r \in Requests : req[r].final \in BOOLEAN /\ req[r].error \in BOOLEAN
    BY <2>1 DEF TypeInv, Request
  <2> QED BY <2>1, <2>2, <2>3, <2>4 DEF TypeOK, TypeInv
<1> QED BY <1>1, DomInvariant, PTL

\* The status of a response tells what the request did: a PATCH that succeeded wrote all
\* it carried, a reset or a change of state that succeeded was executed.
THEOREM StatusAlwaysTellsOutcome == Spec => []StatusTellsOutcome
<1>1. DomInv => StatusTellsOutcome
  <2> SUFFICES ASSUME DomInv, NEW r \in Requests, req[r].stage = "done",
                      req[r].status \in Success
               PROVE  /\ req[r].kind = "patch" => req[r].done = req[r].body /\ req[r].bad = {}
                      /\ req[r].kind = "changeState" => req[r].done = {"domain"}
                      /\ req[r].kind = "reset" =>
                           IF req[r].domain = acTotalPlatformPowerDomainId
                           THEN "main" \in req[r].done ELSE "domain" \in req[r].done
    BY DEF StatusTellsOutcome, Done
  <2>1. FormInv(req[r]) /\ WriteInv(r, req[r], calls)
    BY DEF DomInv, RequestInv
  <2>2. req[r].kind = "patch" => req[r].status = "ok" /\ ~req[r].final
    <3>1. req[r].status \notin Errors
      BY DEF Success, Errors
    <3> QED BY <2>1, <3>1 DEF FormInv, Success
  <2>3. req[r].kind = "patch" => req[r].done = req[r].body /\ req[r].bad = {}
    BY <2>1, <2>2 DEF WriteInv, ReadingBack
  <2> QED BY <2>1, <2>3 DEF FormInv
<1> QED BY <1>1, DomInvariant, PTL

\* A response with an error status has the description of an error: the read-back that
\* would overwrite it is not begun.
THEOREM ErrorAlwaysDescribed == Spec => []ErrorIsDescribed
<1>1. DomInv => ErrorIsDescribed
  BY DEF DomInv, RequestInv, FormInv, ErrorIsDescribed
<1> QED BY <1>1, DomInvariant, PTL

\* Two PATCH requests of one domain that both succeed are not mixed.
THEOREM NeverTorn == Spec => []NotTorn
<1>1. DomInv => NotTorn
  <2> SUFFICES ASSUME DomInv, NEW r \in Requests, NEW s \in Requests, r # s,
                      Done(r, "patch"), Done(s, "patch"), req[r].domain = req[s].domain,
                      req[r].status \in Success, req[s].status \in Success,
                      NEW p \in req[r].body \cap req[s].body,
                      NEW q \in req[r].body \cap req[s].body,
                      domain[req[r].domain][p] = r, domain[req[r].domain][q] = s
               PROVE  FALSE
    BY DEF NotTorn
  <2>1. FormInv(req[r]) /\ FormInv(req[s])
    BY DEF DomInv, RequestInv
  <2>2. req[r].status = "ok" /\ req[s].status = "ok"
    BY <2>1 DEF FormInv, Success, Done
  <2>3. PairInv(r, s, req[r], req[s], calls, domain)
    BY DEF DomInv, PairsInv
  <2>4. Call(r, "set", q) \in Elems(calls) \/ Call(s, "set", p) \in Elems(calls)
    BY <2>2, <2>3 DEF PairInv, Done
  <2>5. Own(calls, r) = {} /\ Own(calls, s) = {}
    BY DEF DomInv, CountInv, Done
  <2>6. Call(r, "set", q).by = r /\ Call(s, "set", p).by = s
    BY DEF Call
  <2> QED BY <2>4, <2>5, <2>6, OwnElems
<1> QED BY <1>1, DomInvariant, PTL

\* A successful PATCH answers with its own values or later ones.
THEOREM ReadBackAlwaysFresh == Spec => []ReadBackFresh
<1>1. DomInv => ReadBackFresh
  <2> SUFFICES ASSUME DomInv, NEW r \in Requests, Done(r, "patch"), req[r].status \in Success,
                      NEW p \in req[r].body
               PROVE  <<req[r].domain, p, r, req[r].shown[p]>> \in later
    BY DEF ReadBackFresh
  <2>1. FormInv(req[r]) /\ FreshInv(r, req[r], calls, later)
    BY DEF DomInv, RequestInv
  <2>2. req[r].status = "ok" /\ ReadingBack(req[r])
    <3>1. req[r].status \notin Errors
      BY DEF Success, Errors
    <3> QED BY <2>1, <3>1 DEF FormInv, Success, Done, ReadingBack
  <2>3. Own(calls, r) = {}
    BY DEF DomInv, CountInv, Done
  <2>4. Call(r, "get", Shows(p)) \notin Elems(calls)
    <3>1. Call(r, "get", Shows(p)).by = r
      BY DEF Call
    <3> QED BY <2>3, <3>1, OwnElems
  <2> QED BY <2>1, <2>2, <2>4 DEF FreshInv
<1> QED BY <1>1, DomInvariant, PTL

=============================================================================
