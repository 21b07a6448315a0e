--------------------------- MODULE TpmiCacheProofs ---------------------------
(***************************************************************************)
(* Proofs about TpmiCache: type correctness, that the callback of a        *)
(* successful Set always finds its cache entry, and that the cache agrees  *)
(* with the service once nothing is in flight.                             *)
(***************************************************************************)
EXTENDS TpmiCache, FiniteSetTheorems, TLAPS

-----------------------------------------------------------------------------
(* Sequences: what the two ends of a channel do to its elements. *)

LEMMA TailFacts ==
  ASSUME NEW S, NEW s \in Seq(S), s # <<>>
  PROVE  /\ Tail(s) \in Seq(S)
         /\ Head(s) \in S
         /\ Head(s) = s[1]
         /\ Len(s) \in Nat /\ Len(s) >= 1
         /\ Len(Tail(s)) = Len(s) - 1
         /\ \A i \in 1..Len(s) - 1 : Tail(s)[i] = s[i + 1]
  OBVIOUS

LEMMA AppendFacts ==
  ASSUME NEW S, NEW s \in Seq(S), NEW e \in S
  PROVE  /\ Append(s, e) \in Seq(S)
         /\ Len(s) \in Nat
         /\ Len(Append(s, e)) = Len(s) + 1
         /\ \A i \in 1..Len(s) : Append(s, e)[i] = s[i]
         /\ Append(s, e)[Len(s) + 1] = e
  OBVIOUS

LEMMA ConcatFacts ==
  ASSUME NEW S, NEW s \in Seq(S), NEW t \in Seq(S)
  PROVE  /\ s \o t \in Seq(S)
         /\ Len(s) \in Nat /\ Len(t) \in Nat
         /\ Len(s \o t) = Len(s) + Len(t)
         /\ \A i \in 1..Len(s) : (s \o t)[i] = s[i]
         /\ \A i \in 1..Len(t) : (s \o t)[Len(s) + i] = t[i]
  OBVIOUS

-----------------------------------------------------------------------------
(* The constants and the messages. *)

LEMMA PathFacts ==
  /\ \A c \in CPUs : sstObjectPath(c) \in Path /\ cpuObjectPath(c) \in Path
  /\ \A c \in CPUs : sstObjectPath(c) \in FeaturePath
  /\ \A p \in Path : p.cpuIndex \in CPUs
  /\ \A p \in Path : p.featureID = sstTPMIID => p = sstObjectPath(p.cpuIndex)
  /\ \A c, d \in CPUs : sstObjectPath(c) = sstObjectPath(d) => c = d
  BY DEF Path, sstObjectPath, cpuObjectPath, FeaturePath, sstTPMIID,
         invalidPathComponent

LEMMA PublishedFacts ==
  /\ \A p \in Path : PublishedAt(p) \subseteq
       IF p \in FeaturePath THEN FeatureProps ELSE CpuProps
  /\ CpuProps \subseteq Props /\ FeatureProps \subseteq Props
  /\ None \notin CpuProps /\ None \notin FeatureProps
  BY PublishedAssumption DEF PublishedAt, FeaturePath, Props

LEMMA MessageFacts ==
  /\ \A p \in Path, f \in Props : Added(p, f) \in Message
  /\ \A p \in Path : Removed(p) \in Message
  /\ \A p \in Path, f \in Props \cup {None} : GetAllReply(p, f) \in Message
  /\ \A p \in Path, prop \in MutableProperty :
       SetReply(p, prop) \in Message /\ SetError(p, prop) \in Message
  BY DEF Added, Removed, GetAllReply, SetReply, SetError, Message, MutableProperty

LEMMA RequestFacts ==
  /\ \A p \in Path : Relevant(p) => GetAll(p) \in Request
  /\ \A c \in CPUs, prop \in MutableProperty : Set(c, prop) \in Request
  /\ \A r \in Request : \/ \E p \in Path : Relevant(p) /\ r = GetAll(p)
                        \/ \E c \in CPUs, prop \in MutableProperty : r = Set(c, prop)
  BY DEF Request

LEMMA RequestFields ==
  ASSUME NEW r \in Request
  PROVE  /\ r.path \in Path
         /\ r.type \in {"GetAll", "Set"}
         /\ r.type = "GetAll" => Relevant(r.path)
         /\ r.type = "Set" => /\ r.prop \in MutableProperty
                              /\ r.path.featureID = sstTPMIID
<1>1. CASE \E p \in Path : Relevant(p) /\ r = GetAll(p)
  BY <1>1 DEF GetAll
<1>2. CASE \E c \in CPUs, prop \in MutableProperty : r = Set(c, prop)
  BY <1>2, PathFacts DEF Set, sstObjectPath
<1> QED BY <1>1, <1>2, RequestFacts

\* An error reply changes nothing in the cache.
LEMMA ErrorReplyFields ==
  ASSUME NEW r \in Request
  PROVE  /\ ErrorReply(r) \in Message
         /\ ErrorReply(r).type \in {"GetAllReply", "SetError"}
         /\ ErrorReply(r).props = None
         /\ ErrorReply(r).type = "GetAllReply" => Relevant(ErrorReply(r).path)
         /\ ErrorReply(r).type = "SetError" =>
              /\ ErrorReply(r).path.featureID = sstTPMIID
              /\ ErrorReply(r).prop \in MutableProperty
  BY RequestFields, MessageFacts DEF ErrorReply, GetAllReply, SetError

LEMMA WriteType ==
  \A f \in FeatureProps, prop \in MutableProperty :
    /\ Write(f, prop) \in FeatureProps
    /\ Write(f, prop).locked = f.locked /\ Write(f, prop).ok = f.ok
  BY DEF Write, FeatureProps, MutableProperty

LEMMA SetCallsType ==
  \A c \in CPUs, f \in FeatureProps :
    /\ SetCalls(c, f) \in Seq(Request)
    /\ \A i \in 1..Len(SetCalls(c, f)) : SetCalls(c, f)[i].path = sstObjectPath(c)
  BY RequestFacts DEF SetCalls, FeatureProps, MutableProperty, Set

\* Walking an unordered_map sends one GetAll for each path.
LEMMA OrderingsType ==
  ASSUME NEW S \in SUBSET Path, \A p \in S : Relevant(p), NEW q \in Orderings(S)
  PROVE  /\ [i \in DOMAIN q |-> GetAll(q[i])] \in Seq(Request)
         /\ \A i \in 1..Len([j \in DOMAIN q |-> GetAll(q[j])]) :
              [j \in DOMAIN q |-> GetAll(q[j])][i].type = "GetAll"
<1>1. Cardinality(S) \in Nat
  BY PublishedAssumption, FS_Subset, FS_CardinalityType
<1>2. q \in [1..Cardinality(S) -> S]
  BY DEF Orderings
<1>3. \A i \in 1..Cardinality(S) : GetAll(q[i]) \in Request /\ GetAll(q[i]).type = "GetAll"
  BY <1>2, RequestFacts DEF GetAll
<1> QED BY <1>1, <1>2, <1>3

-----------------------------------------------------------------------------
(* Type correctness.  MessagesOK is proved with it: what a message carries  *)
(* is what the cache will hold.                                             *)

TypeInv == TypeOK /\ MessagesOK

LEMMA InitType == Init => TypeInv
<1> SUFFICES ASSUME Init PROVE TypeInv
  OBVIOUS
<1>1. /\ svc \in [Path -> Props \cup {None}]
      /\ \A p \in Path : svc[p] # None =>
           svc[p] \in IF p \in FeaturePath THEN FeatureProps ELSE CpuProps
  BY PublishedAssumption, PublishedFacts DEF Init
<1>2. toService \in Seq(Request) /\ toClient \in Seq(Message) /\ MessagesOK
  BY DEF Init, MessagesOK
<1>3. events \in 0..MaxEvents
  BY PublishedAssumption DEF Init
<1> QED BY <1>1, <1>2, <1>3 DEF Init, TypeInv, TypeOK

\* A message that MessagesOK accepts.
GoodMessage(m) ==
  /\ m \in Message
  /\ m.type = "Added" => m.props # None
  /\ m.type = "GetAllReply" => Relevant(m.path)
  /\ m.type \in {"SetReply", "SetError"} =>
       m.path.featureID = sstTPMIID /\ m.prop \in MutableProperty
  /\ m.props # None =>
       m.props \in IF m.path \in FeaturePath THEN FeatureProps ELSE CpuProps

\* Appending a good message, or dropping the head, keeps the channel good.
LEMMA ChannelAppend ==
  ASSUME TypeInv, NEW m, GoodMessage(m), toClient' = Append(toClient, m)
  PROVE  toClient' \in Seq(Message) /\ MessagesOK'
<1>1. toClient \in Seq(Message) /\ m \in Message
  BY DEF TypeInv, TypeOK, GoodMessage
<1>2. /\ Len(toClient') = Len(toClient) + 1 /\ Len(toClient) \in Nat
      /\ \A i \in 1..Len(toClient) : toClient'[i] = toClient[i]
      /\ toClient'[Len(toClient) + 1] = m
      /\ toClient' \in Seq(Message)
  BY <1>1, AppendFacts
<1>3. ASSUME NEW i \in 1..Len(toClient') PROVE GoodMessage(toClient'[i])
  <2>1. CASE i \in 1..Len(toClient)
    BY <2>1, <1>1, <1>2 DEF TypeInv, MessagesOK, GoodMessage
  <2>2. CASE i = Len(toClient) + 1
    BY <2>2, <1>2
  <2> QED BY <2>1, <2>2, <1>2
<1> QED BY <1>2, <1>3 DEF MessagesOK, GoodMessage

LEMMA ChannelTail ==
  ASSUME TypeInv, toClient # <<>>, toClient' = Tail(toClient)
  PROVE  /\ toClient' \in Seq(Message) /\ MessagesOK'
         /\ GoodMessage(Head(toClient))
<1>1. toClient \in Seq(Message)
  BY DEF TypeInv, TypeOK
<1>2. /\ toClient' \in Seq(Message)
      /\ Head(toClient) = toClient[1] /\ Head(toClient) \in Message
      /\ Len(toClient) \in Nat /\ Len(toClient) >= 1
      /\ Len(toClient') = Len(toClient) - 1
      /\ \A i \in 1..Len(toClient) - 1 : toClient'[i] = toClient[i + 1]
  BY <1>1, TailFacts
<1>3. \A i \in 1..Len(toClient) : GoodMessage(toClient[i])
  BY <1>1 DEF TypeInv, MessagesOK, GoodMessage
<1>4. \A i \in 1..Len(toClient') : GoodMessage(toClient'[i])
  BY <1>2, <1>3
<1> QED BY <1>2, <1>3, <1>4 DEF MessagesOK, GoodMessage

\* A signal is sent only to a registered match.
LEMMA EmitType ==
  ASSUME TypeInv, NEW m, GoodMessage(m), Emit(m)
  PROVE  toClient' \in Seq(Message) /\ MessagesOK'
<1>1. CASE matched
  BY <1>1, ChannelAppend DEF Emit
<1>2. CASE ~matched
  BY <1>2 DEF Emit, TypeInv, TypeOK, MessagesOK
<1> QED BY <1>1, <1>2

\* What adding or removing an interface does to the types.
LEMMA AddInterfaceType ==
  ASSUME TypeInv, NEW p \in Path, NEW f,
         f \in IF p \in FeaturePath THEN FeatureProps ELSE CpuProps,
         addInterface(p, f)
  PROVE  /\ cpus' \in [CPUs -> CpuProps \cup {None}]
         /\ features' \in [CPUs -> FeatureProps \cup {None}]
         /\ toService' \in Seq(Request)
<1>1. CASE p.featureID = invalidPathComponent
  BY <1>1, PathFacts DEF addInterface, addCPU, TypeInv, TypeOK, FeaturePath
<1>2. CASE p.featureID # invalidPathComponent
  <2>1. addSSTFeature(p.cpuIndex, f) /\ f \in FeatureProps /\ p.cpuIndex \in CPUs
    BY <1>2, PathFacts DEF addInterface, FeaturePath
  <2>2. SetCalls(p.cpuIndex, f) \in Seq(Request)
    BY <2>1, SetCallsType
  <2>3. toService \o SetCalls(p.cpuIndex, f) \in Seq(Request)
    BY <2>2, ConcatFacts DEF TypeInv, TypeOK
  <2> QED BY <2>1, <2>3 DEF addSSTFeature, removeFeature, TypeInv, TypeOK
<1> QED BY <1>1, <1>2

LEMMA RemoveInterfaceType ==
  ASSUME TypeInv, NEW p \in Path, removeInterface(p)
  PROVE  /\ cpus' \in [CPUs -> CpuProps \cup {None}]
         /\ features' \in [CPUs -> FeatureProps \cup {None}]
         /\ toService' \in Seq(Request)
  BY PathFacts DEF removeInterface, removeCPU, removeFeature, TypeInv, TypeOK

LEMMA NextType == TypeInv /\ [Next]_vars => TypeInv'
<1> SUFFICES ASSUME TypeInv, [Next]_vars PROVE TypeInv'
  OBVIOUS
<1> USE DEF TypeInv
<1>1. ASSUME NEW p \in Path, NEW f \in PublishedAt(p), AddObject(p, f)
      PROVE  TypeInv'
  <2>1. f \in (IF p \in FeaturePath THEN FeatureProps ELSE CpuProps) /\ f \in Props
        /\ f # None
    BY PublishedFacts
  <2>2. GoodMessage(Added(p, f))
    BY <2>1, MessageFacts DEF GoodMessage, Added
  <2>3. toClient' \in Seq(Message) /\ MessagesOK'
    BY <1>1, <2>2, EmitType DEF AddObject
  <2>4. events' \in 0..MaxEvents
    BY <1>1, PublishedAssumption DEF AddObject, TypeOK
  <2>5. everBad' \subseteq CPUs
    BY <1>1, PathFacts DEF AddObject, TypeOK
  <2> QED BY <1>1, <2>1, <2>3, <2>4, <2>5 DEF AddObject, TypeOK
<1>2. ASSUME NEW p \in Path, RemoveObject(p)
      PROVE  TypeInv'
  <2>1. GoodMessage(Removed(p))
    BY MessageFacts DEF GoodMessage, Removed
  <2>2. toClient' \in Seq(Message) /\ MessagesOK'
    BY <1>2, <2>1, EmitType DEF RemoveObject
  <2>3. events' \in 0..MaxEvents
    BY <1>2, PublishedAssumption DEF RemoveObject, TypeOK
  <2> QED BY <1>2, <2>2, <2>3 DEF RemoveObject, TypeOK
<1>3. CASE ServiceCrash
  <2>1. events' \in 0..MaxEvents
    BY <1>3, PublishedAssumption DEF ServiceCrash, TypeOK
  <2> QED BY <1>3, <2>1 DEF ServiceCrash, TypeOK, MessagesOK
<1>4. CASE ServiceRestart
  BY <1>4 DEF ServiceRestart, TypeOK, MessagesOK
<1>5. ASSUME toService # <<>>
      PROVE  /\ Tail(toService) \in Seq(Request)
             /\ Head(toService) \in Request
             /\ Head(toService).path \in Path
             /\ GoodMessage(ErrorReply(Head(toService)))
  <2>1. Tail(toService) \in Seq(Request) /\ Head(toService) \in Request
    BY <1>5, TailFacts DEF TypeOK
  <2> QED BY <2>1, RequestFields, ErrorReplyFields DEF GoodMessage
<1>6. CASE CallBounced
  BY <1>6, <1>5, ChannelAppend DEF CallBounced, TypeOK, envVars
<1>7. CASE ServeGetAll
  <2> DEFINE r == Head(toService)
  <2>1. r.path \in Path /\ Relevant(r.path) /\ Tail(toService) \in Seq(Request)
    BY <1>7, <1>5, RequestFields DEF ServeGetAll
  <2>2. GoodMessage(GetAllReply(r.path, svc[r.path]))
    BY <2>1, MessageFacts DEF GoodMessage, GetAllReply, TypeOK
  <2>3. toClient' \in Seq(Message) /\ MessagesOK'
    BY <1>7, <2>2, ChannelAppend DEF ServeGetAll
  <2> QED BY <1>7, <2>1, <2>3 DEF ServeGetAll, TypeOK, envVars
<1>8. CASE ServeSet
  <2> DEFINE r == Head(toService)
  <2>1. /\ r.path \in Path /\ r.path \in FeaturePath
        /\ r.prop \in MutableProperty /\ r.path.featureID = sstTPMIID
        /\ Tail(toService) \in Seq(Request)
    BY <1>8, <1>5, RequestFields
       DEF ServeSet, FeaturePath, sstTPMIID, invalidPathComponent
  <2>2. GoodMessage(SetReply(r.path, r.prop)) /\ GoodMessage(ErrorReply(r))
    BY <1>8, <1>5, <2>1, MessageFacts DEF ServeSet, GoodMessage, SetReply
  <2>3. toClient' \in Seq(Message) /\ MessagesOK'
    BY <1>8, <2>2, ChannelAppend DEF ServeSet
  <2>4. /\ svc' \in [Path -> Props \cup {None}]
        /\ \A p \in Path : svc'[p] # None =>
             svc'[p] \in IF p \in FeaturePath THEN FeatureProps ELSE CpuProps
    <3>1. CASE svc' = svc
      BY <3>1 DEF TypeOK
    <3>2. CASE svc[r.path] # None /\ svc' = [svc EXCEPT ![r.path] = Write(svc[r.path], r.prop)]
      <4>1. svc[r.path] \in FeatureProps
        BY <3>2, <2>1 DEF TypeOK
      <4>2. Write(svc[r.path], r.prop) \in FeatureProps
        BY <4>1, <2>1, WriteType
      <4> QED BY <3>2, <4>2, <2>1, PublishedFacts DEF TypeOK
    <3> QED BY <1>8, <3>1, <3>2 DEF ServeSet
  <2> QED BY <1>8, <2>1, <2>3, <2>4 DEF ServeSet, TypeOK
<1>9. CASE CallLost
  <2>1. events' \in 0..MaxEvents
    BY <1>9, PublishedAssumption DEF CallLost, TypeOK
  <2>2. missed' \subseteq CPUs
    BY <1>9, <1>5, PathFacts DEF CallLost, TypeOK
  <2> QED BY <1>9, <2>1, <2>2, <1>5, ChannelAppend DEF CallLost, TypeOK
<1>10. CASE MapperReply
  <2>1. events' \in 0..MaxEvents
    BY <1>10, PublishedAssumption DEF MapperReply, TypeOK
  <2> QED BY <1>10, <2>1 DEF MapperReply, TypeOK, MessagesOK
<1>11. CASE Construct
  BY <1>11 DEF Construct, TypeOK, MessagesOK, envVars
<1>12. CASE handleGetTPMISubTree
  <2>1. toService' \in Seq(Request)
    <3>1. PICK q \in Orderings({p \in mapper.paths : Relevant(p)}) :
            toService' = toService \o [i \in DOMAIN q |-> GetAll(q[i])]
      BY <1>12 DEF handleGetTPMISubTree
    <3>2. [i \in DOMAIN q |-> GetAll(q[i])] \in Seq(Request)
      BY OrderingsType DEF TypeOK
    <3> QED BY <3>1, <3>2, ConcatFacts DEF TypeOK
  <2> QED BY <1>12, <2>1 DEF handleGetTPMISubTree, TypeOK, MessagesOK, envVars
<1>13. CASE handleTPMISignal
  <2> DEFINE m == Head(toClient)
  <2>1. /\ toClient' \in Seq(Message) /\ MessagesOK'
        /\ GoodMessage(m) /\ m.path \in Path
    BY <1>13, ChannelTail DEF handleTPMISignal, Receive, GoodMessage, Message
  <2>2. /\ cpus' \in [CPUs -> CpuProps \cup {None}]
        /\ features' \in [CPUs -> FeatureProps \cup {None}]
        /\ toService' \in Seq(Request)
    <3>1. CASE Ignore
      BY <3>1 DEF Ignore, TypeOK
    <3>2. CASE Relevant(m.path) /\ m.type = "Added" /\ addInterface(m.path, m.props)
      BY <3>2, <2>1, AddInterfaceType DEF GoodMessage
    <3>3. CASE removeInterface(m.path)
      BY <3>3, <2>1, RemoveInterfaceType
    <3> QED BY <1>13, <3>1, <3>2, <3>3 DEF handleTPMISignal
  <2> QED BY <1>13, <2>1, <2>2 DEF handleTPMISignal, Receive, TypeOK, envVars
<1>14. CASE handleGetAllReply
  <2> DEFINE m == Head(toClient)
  <2>1. /\ toClient' \in Seq(Message) /\ MessagesOK'
        /\ GoodMessage(m) /\ m.path \in Path
    BY <1>14, ChannelTail DEF handleGetAllReply, Receive, GoodMessage, Message
  <2>2. /\ cpus' \in [CPUs -> CpuProps \cup {None}]
        /\ features' \in [CPUs -> FeatureProps \cup {None}]
        /\ toService' \in Seq(Request)
    <3>1. CASE Ignore
      BY <3>1 DEF Ignore, TypeOK
    <3>2. CASE m.props # None /\ addInterface(m.path, m.props)
      BY <3>2, <2>1, AddInterfaceType DEF GoodMessage
    <3> QED BY <1>14, <3>1, <3>2 DEF handleGetAllReply
  <2> QED BY <1>14, <2>1, <2>2 DEF handleGetAllReply, Receive, TypeOK, envVars
<1>15. CASE handleSetReply
  <2> DEFINE m == Head(toClient)
             c == m.path.cpuIndex
  <2>1. /\ toClient' \in Seq(Message) /\ MessagesOK'
        /\ GoodMessage(m) /\ c \in CPUs /\ m.prop \in MutableProperty
    <3>1. /\ toClient # <<>> /\ toClient' = Tail(toClient)
          /\ m.type \in {"SetReply", "SetError"}
      BY <1>15 DEF handleSetReply, Receive
    <3>2. toClient' \in Seq(Message) /\ MessagesOK' /\ GoodMessage(m)
      BY <3>1, ChannelTail
    <3>3. m.path \in Path
      BY <3>2 DEF GoodMessage, Message
    <3> QED BY <3>1, <3>2, <3>3, PathFacts DEF GoodMessage
  <2>2. features' \in [CPUs -> FeatureProps \cup {None}] /\ thrown' \subseteq CPUs
    <3>1. CASE UNCHANGED <<features, thrown>>
      BY <3>1 DEF TypeOK
    <3>2. CASE /\ features[c] # None /\ UNCHANGED thrown
               /\ features' = [features EXCEPT ![c] = Write(features[c], m.prop)]
      <4>1. Write(features[c], m.prop) \in FeatureProps
        BY <3>2, <2>1, WriteType DEF TypeOK
      <4> QED BY <3>2, <4>1 DEF TypeOK
    <3>3. CASE thrown' = thrown \cup {c} /\ UNCHANGED features
      BY <3>3, <2>1 DEF TypeOK
    <3> QED BY <1>15, <3>1, <3>2, <3>3 DEF handleSetReply
  <2> QED BY <1>15, <2>1, <2>2 DEF handleSetReply, Receive, TypeOK, envVars
<1>16. CASE UNCHANGED vars
  BY <1>16 DEF vars, TypeOK, MessagesOK
<1> QED
  BY <1>1, <1>2, <1>3, <1>4, <1>6, <1>7, <1>8, <1>9, <1>10, <1>11, <1>12, <1>13,
     <1>14, <1>15, <1>16 DEF Next, Environment, Service, Client

\* Every reachable state has the types of TypeOK, whatever the service publishes
\* and in whatever order its messages arrive.
THEOREM TypeCorrect == Spec => []TypeOK
<1>1. Spec => []TypeInv
  BY InitType, NextType, PTL DEF Spec
<1>2. TypeInv => TypeOK
  BY DEF TypeInv
<1> QED BY <1>1, <1>2, PTL

-----------------------------------------------------------------------------
(***************************************************************************)
(* A Set reply finds its entry.  The steps fall into three kinds: those    *)
(* that append to the channel to the cache, those that leave it alone, and *)
(* the callbacks, which take its head.  A lemma for each kind shows that   *)
(* the three properties of the channel survive.                            *)
(***************************************************************************)

ChannelInv == ErasedIsAddedAgain /\ PendingHasEntry /\ ReplyHasEntry

LEMMA AppendStep ==
  ASSUME TypeInv, ChannelInv, NEW m \in Message,
         toClient' = Append(toClient, m), features' = features,
         everBad \subseteq everBad',
         \A c \in CPUs \ everBad' :
           /\ Settable(c)' => Settable(c) \/ Adds(m, c)
           /\ Settable(c)' => ~Erases(m, c)
           /\ SetPending(c)' => SetPending(c)
           /\ m.type = "SetReply" /\ m.path = sstObjectPath(c) =>
                Settable(c) /\ SetPending(c)
  PROVE  ChannelInv'
<1>1. /\ Len(toClient') = Len(toClient) + 1 /\ Len(toClient) \in Nat
      /\ \A i \in 1..Len(toClient) : toClient'[i] = toClient[i]
      /\ toClient'[Len(toClient) + 1] = m
  BY AppendFacts DEF TypeInv, TypeOK
<1>2. ASSUME NEW c \in CPUs \ everBad', Settable(c)', NEW k \in 1..Len(toClient'),
             Erases(toClient'[k], c)
      PROVE  \E j \in k+1..Len(toClient') : Adds(toClient'[j], c)
  <2>1. k \in 1..Len(toClient) /\ Erases(toClient[k], c)
    BY <1>1, <1>2
  <2>2. CASE Adds(m, c)
    BY <2>1, <2>2, <1>1
  <2>3. CASE Settable(c)
    BY <2>1, <2>3, <1>1, <1>2 DEF ChannelInv, ErasedIsAddedAgain
  <2> QED BY <2>2, <2>3, <1>2
<1>3. ASSUME NEW c \in CPUs \ everBad', Settable(c)', SetPending(c)',
             \A k \in 1..Len(toClient') : ~Adds(toClient'[k], c)
      PROVE  features'[c] # None
  <2>1. ~Adds(m, c) /\ \A k \in 1..Len(toClient) : ~Adds(toClient[k], c)
    BY <1>1, <1>3
  <2> QED BY <2>1, <1>3 DEF ChannelInv, PendingHasEntry
<1>4. ASSUME NEW c \in CPUs \ everBad', NEW i \in 1..Len(toClient'),
             toClient'[i].type = "SetReply", toClient'[i].path = sstObjectPath(c)
      PROVE  /\ \A k \in 1..i-1 : Erases(toClient'[k], c) =>
                  \E j \in k+1..i-1 : Adds(toClient'[j], c)
             /\ (\A k \in 1..i-1 : ~Adds(toClient'[k], c)) => features'[c] # None
  <2>1. c \in CPUs \ everBad
    OBVIOUS
  <2>2. CASE i \in 1..Len(toClient)
    <3>1. toClient'[i] = toClient[i]
          /\ \A k \in 1..i-1 : toClient'[k] = toClient[k]
      BY <2>2, <1>1
    <3> QED BY <2>1, <2>2, <3>1, <1>4 DEF ChannelInv, ReplyHasEntry
  <2>3. CASE i = Len(toClient) + 1
    <3>1. Settable(c) /\ SetPending(c)
      BY <2>3, <1>1, <1>4
    <3>2. \A k \in 1..i-1 : toClient'[k] = toClient[k]
      BY <2>3, <1>1
    <3>3. \A k \in 1..i-1 : Erases(toClient[k], c) =>
            \E j \in k+1..i-1 : Adds(toClient[j], c)
      BY <2>1, <2>3, <3>1, <1>1 DEF ChannelInv, ErasedIsAddedAgain
    <3>4. (\A k \in 1..i-1 : ~Adds(toClient[k], c)) => features[c] # None
      BY <2>1, <2>3, <3>1, <1>1 DEF ChannelInv, PendingHasEntry
    <3> QED BY <3>2, <3>3, <3>4, <2>3, <1>1
  <2> QED BY <2>2, <2>3, <1>1
<1> QED BY <1>2, <1>3, <1>4
        DEF ChannelInv, ErasedIsAddedAgain, PendingHasEntry, ReplyHasEntry

LEMMA SilentStep ==
  ASSUME TypeInv, ChannelInv, toClient' = toClient, features' = features,
         everBad \subseteq everBad',
         \A c \in CPUs \ everBad' :
           /\ Settable(c)' => Settable(c) \/ toClient = <<>>
           /\ Settable(c)' /\ SetPending(c)' => Settable(c) /\ SetPending(c)
  PROVE  ChannelInv'
<1>1. toClient = <<>> => Len(toClient) = 0
  OBVIOUS
<1>2. ErasedIsAddedAgain'
  BY <1>1 DEF ChannelInv, ErasedIsAddedAgain
<1>3. PendingHasEntry'
  BY DEF ChannelInv, PendingHasEntry
<1>4. ReplyHasEntry'
  BY DEF ChannelInv, ReplyHasEntry
<1> QED BY <1>2, <1>3, <1>4 DEF ChannelInv

LEMMA TailStep ==
  ASSUME TypeInv, ChannelInv, toClient # <<>>, toClient' = Tail(toClient),
         svc' = svc, everBad' = everBad,
         \A c \in CPUs \ everBad :
           /\ Adds(Head(toClient), c) => features'[c] # None
           /\ features[c] # None /\ ~Erases(Head(toClient), c) => features'[c] # None
           /\ SetPending(c)' => SetPending(c) \/ Adds(Head(toClient), c)
  PROVE  ChannelInv'
<1>1. /\ Head(toClient) = toClient[1]
      /\ Len(toClient) \in Nat /\ Len(toClient) >= 1
      /\ Len(toClient') = Len(toClient) - 1
      /\ \A i \in 1..Len(toClient) - 1 : toClient'[i] = toClient[i + 1]
  BY TailFacts DEF TypeInv, TypeOK
<1>2. \A c \in CPUs : Settable(c)' = Settable(c)
  BY DEF Settable
<1>3. ASSUME NEW c \in CPUs \ everBad, Settable(c), NEW k \in 1..Len(toClient'),
             Erases(toClient'[k], c)
      PROVE  \E j \in k+1..Len(toClient') : Adds(toClient'[j], c)
  <2>1. k + 1 \in 1..Len(toClient) /\ Erases(toClient[k + 1], c)
    BY <1>1, <1>3
  <2>2. PICK j \in k+2..Len(toClient) : Adds(toClient[j], c)
    BY <2>1, <1>3 DEF ChannelInv, ErasedIsAddedAgain
  <2>3. j - 1 \in k+1..Len(toClient') /\ toClient'[j - 1] = toClient[j]
    BY <2>2, <1>1
  <2> QED BY <2>2, <2>3
<1>4. ASSUME NEW c \in CPUs \ everBad, Settable(c), SetPending(c)',
             \A k \in 1..Len(toClient') : ~Adds(toClient'[k], c)
      PROVE  features'[c] # None
  <2>1. CASE Adds(toClient[1], c)
    BY <2>1, <1>1
  <2>2. CASE ~Adds(toClient[1], c)
    <3>1. \A k \in 1..Len(toClient) : ~Adds(toClient[k], c)
      <4>1. ASSUME NEW k \in 2..Len(toClient) PROVE ~Adds(toClient[k], c)
        <5>1. k - 1 \in 1..Len(toClient') /\ toClient'[k - 1] = toClient[k]
          BY <1>1
        <5> QED BY <5>1, <1>4
      <4> QED BY <4>1, <2>2, <1>1
    <3>2. features[c] # None
      BY <3>1, <2>2, <1>1, <1>4 DEF ChannelInv, PendingHasEntry
    <3>3. ~Erases(toClient[1], c)
      BY <3>1, <1>1, <1>4 DEF ChannelInv, ErasedIsAddedAgain
    <3> QED BY <3>2, <3>3, <1>1
  <2> QED BY <2>1, <2>2
<1>5. ASSUME NEW c \in CPUs \ everBad, NEW i \in 1..Len(toClient'),
             toClient'[i].type = "SetReply", toClient'[i].path = sstObjectPath(c)
      PROVE  /\ \A k \in 1..i-1 : Erases(toClient'[k], c) =>
                  \E j \in k+1..i-1 : Adds(toClient'[j], c)
             /\ (\A k \in 1..i-1 : ~Adds(toClient'[k], c)) => features'[c] # None
  <2>1. /\ i + 1 \in 1..Len(toClient) /\ toClient'[i] = toClient[i + 1]
    BY <1>1
  <2>2. /\ \A k \in 1..i : Erases(toClient[k], c) =>
             \E j \in k+1..i : Adds(toClient[j], c)
        /\ (\A k \in 1..i : ~Adds(toClient[k], c)) => features[c] # None
    BY <2>1, <1>5 DEF ChannelInv, ReplyHasEntry
  <2>3. ASSUME NEW k \in 1..i-1, Erases(toClient'[k], c)
        PROVE  \E j \in k+1..i-1 : Adds(toClient'[j], c)
    <3>1. k + 1 \in 1..i /\ Erases(toClient[k + 1], c)
      BY <2>3, <1>1
    <3>2. PICK j \in k+2..i : Adds(toClient[j], c)
      BY <3>1, <2>2
    <3>3. j - 1 \in k+1..i-1 /\ toClient'[j - 1] = toClient[j]
      BY <3>2, <1>1
    <3> QED BY <3>2, <3>3
  <2>4. ASSUME \A k \in 1..i-1 : ~Adds(toClient'[k], c)
        PROVE  features'[c] # None
    <3>1. CASE Adds(toClient[1], c)
      BY <3>1, <1>1
    <3>2. CASE ~Adds(toClient[1], c)
      <4>1. \A k \in 1..i : ~Adds(toClient[k], c)
        <5>1. ASSUME NEW k \in 2..i PROVE ~Adds(toClient[k], c)
          <6>1. k - 1 \in 1..i-1 /\ toClient'[k - 1] = toClient[k]
            BY <1>1
          <6> QED BY <6>1, <2>4
        <5> QED BY <5>1, <3>2
      <4>2. features[c] # None /\ ~Erases(toClient[1], c)
        BY <4>1, <2>2
      <4> QED BY <4>2, <1>1
    <3> QED BY <3>1, <3>2
  <2> QED BY <2>3, <2>4
<1> QED BY <1>2, <1>3, <1>4, <1>5
        DEF ChannelInv, ErasedIsAddedAgain, PendingHasEntry, ReplyHasEntry

-----------------------------------------------------------------------------
(* The inductive invariant. *)

IInv == TypeInv /\ EntryInv

LEMMA InitEntry == Init => EntryInv
<1> SUFFICES ASSUME Init PROVE EntryInv
  OBVIOUS
<1>1. toClient = <<>> /\ toService = <<>> /\ Len(toClient) = 0 /\ Len(toService) = 0
  BY DEF Init
<1>2. MessagesOK /\ ErasedIsAddedAgain /\ PendingHasEntry /\ ReplyHasEntry
  BY <1>1 DEF MessagesOK, ErasedIsAddedAgain, PendingHasEntry, ReplyHasEntry,
              SetPending
<1>3. QuietBefore /\ BadRecorded /\ SetReplyFindsEntry
  BY DEF Init, QuietBefore, BadRecorded, SetReplyFindsEntry
<1> QED BY <1>2, <1>3 DEF EntryInv

\* Dropping the head of the calls makes no Set pending that was not.
LEMMA ServedPending ==
  ASSUME TypeInv, toService # <<>>, toService' = Tail(toService)
  PROVE  \A c \in CPUs : SetPending(c)' => SetPending(c)
<1>1. /\ Len(toService) \in Nat /\ Len(toService') = Len(toService) - 1
      /\ \A i \in 1..Len(toService) - 1 : toService'[i] = toService[i + 1]
  BY TailFacts DEF TypeInv, TypeOK
<1> SUFFICES ASSUME NEW c \in CPUs, SetPending(c)' PROVE SetPending(c)
  OBVIOUS
<1>2. PICK i \in 1..Len(toService') :
        toService'[i].type = "Set" /\ toService'[i].path = sstObjectPath(c)
  BY DEF SetPending
<1>3. i + 1 \in 1..Len(toService) /\ toService[i + 1] = toService'[i]
  BY <1>1
<1> QED BY <1>2, <1>3 DEF SetPending

\* New calls make a Set pending only when one of them is a Set for that CPU.
LEMMA CalledPending ==
  ASSUME TypeInv, NEW q \in Seq(Request), toService' = toService \o q, NEW c \in CPUs,
         \A i \in 1..Len(q) : ~(q[i].type = "Set" /\ q[i].path = sstObjectPath(c))
  PROVE  SetPending(c)' => SetPending(c)
<1>1. /\ Len(toService) \in Nat /\ Len(q) \in Nat
      /\ Len(toService') = Len(toService) + Len(q)
      /\ \A i \in 1..Len(toService) : toService'[i] = toService[i]
      /\ \A i \in 1..Len(q) : toService'[Len(toService) + i] = q[i]
  BY ConcatFacts DEF TypeInv, TypeOK
<1> SUFFICES ASSUME SetPending(c)' PROVE SetPending(c)
  OBVIOUS
<1>2. PICK i \in 1..Len(toService') :
        toService'[i].type = "Set" /\ toService'[i].path = sstObjectPath(c)
  BY DEF SetPending
<1>3. CASE i \in 1..Len(toService)
  BY <1>1, <1>2, <1>3 DEF SetPending
<1>4. CASE i \notin 1..Len(toService)
  <2>1. i - Len(toService) \in 1..Len(q) /\ toService'[i] = q[i - Len(toService)]
    BY <1>1, <1>4
  <2> QED BY <2>1, <1>2
<1> QED BY <1>3, <1>4

\* What the message at the head does to the entries and to the pending calls.
LEMMA AddInterfaceEffect ==
  ASSUME TypeInv, NEW p \in Path, Relevant(p), NEW f,
         f \in IF p \in FeaturePath THEN FeatureProps ELSE CpuProps,
         addInterface(p, f), NEW c \in CPUs
  PROVE  /\ p = sstObjectPath(c) /\ Usable(f) => features'[c] # None
         /\ features[c] # None /\ ~(p = sstObjectPath(c) /\ ~Usable(f)) =>
              features'[c] # None
         /\ SetPending(c)' => SetPending(c) \/ (p = sstObjectPath(c) /\ Usable(f))
<1>1. CASE p.featureID = invalidPathComponent
  <2>1. features' = features /\ toService' = toService /\ p # sstObjectPath(c)
    BY <1>1 DEF addInterface, addCPU, sstObjectPath, sstTPMIID, invalidPathComponent
  <2> QED BY <2>1 DEF SetPending
<1>2. CASE p.featureID # invalidPathComponent
  <2> DEFINE d == p.cpuIndex
  <2>1. /\ p.featureID = sstTPMIID /\ d \in CPUs /\ p = sstObjectPath(d)
        /\ f \in FeatureProps /\ f # None /\ addSSTFeature(d, f)
    BY <1>2, PathFacts, PublishedFacts DEF Relevant, addInterface, FeaturePath
  <2>2. (p = sstObjectPath(c)) <=> (d = c)
    BY <2>1, PathFacts
  <2>3. features \in [CPUs -> FeatureProps \cup {None}]
    BY DEF TypeInv, TypeOK
  <2>4. CASE Usable(f)
    <3>1. /\ features' = [features EXCEPT ![d] = f]
          /\ toService' = toService \o SetCalls(d, f)
      BY <2>1, <2>4 DEF addSSTFeature, removeFeature
    <3>2. d # c => (SetPending(c)' => SetPending(c))
      <4> SUFFICES ASSUME d # c PROVE SetPending(c)' => SetPending(c)
        OBVIOUS
      <4>1. SetCalls(d, f) \in Seq(Request)
            /\ \A i \in 1..Len(SetCalls(d, f)) : SetCalls(d, f)[i].path # sstObjectPath(c)
        BY <2>1, SetCallsType, PathFacts
      <4> QED BY <4>1, <3>1, CalledPending
    <3> QED BY <2>1, <2>2, <2>3, <2>4, <3>1, <3>2
  <2>5. CASE ~Usable(f)
    <3>1. features' = [features EXCEPT ![d] = None] /\ toService' = toService
      BY <2>1, <2>5 DEF addSSTFeature, removeFeature
    <3>2. SetPending(c)' => SetPending(c)
      BY <3>1 DEF SetPending
    <3> QED BY <2>1, <2>2, <2>3, <2>5, <3>1, <3>2
  <2> QED BY <2>4, <2>5
<1> QED BY <1>1, <1>2

LEMMA RemoveInterfaceEffect ==
  ASSUME TypeInv, NEW p \in Path, Relevant(p), removeInterface(p), NEW c \in CPUs
  PROVE  /\ features[c] # None /\ p # sstObjectPath(c) => features'[c] # None
         /\ SetPending(c)' => SetPending(c)
<1>1. toService' = toService
  BY DEF removeInterface, removeCPU, removeFeature
<1>2. ASSUME p.featureID = invalidPathComponent PROVE features' = features
  BY <1>2 DEF removeInterface, removeCPU
<1>3. ASSUME p.featureID # invalidPathComponent, features[c] # None,
             p # sstObjectPath(c)
      PROVE  features'[c] # None
  <2>1. p.featureID = sstTPMIID /\ p.cpuIndex \in CPUs /\ p = sstObjectPath(p.cpuIndex)
    BY <1>3, PathFacts DEF Relevant
  <2>2. features' = [features EXCEPT ![p.cpuIndex] = None] /\ p.cpuIndex # c
    BY <1>3, <2>1 DEF removeInterface, removeFeature
  <2> QED BY <1>3, <2>1, <2>2 DEF TypeInv, TypeOK
<1>4. SetPending(c)' => SetPending(c)
  BY <1>1 DEF SetPending
<1> QED BY <1>2, <1>3, <1>4

LEMMA NextEntry == IInv /\ [Next]_vars => EntryInv'
<1> SUFFICES ASSUME IInv, [Next]_vars PROVE EntryInv'
  OBVIOUS
<1>t. TypeInv /\ ChannelInv /\ QuietBefore /\ BadRecorded /\ SetReplyFindsEntry
  BY DEF IInv, EntryInv, ChannelInv
<1>m. MessagesOK'
  BY <1>t, NextType DEF TypeInv
<1>q. ASSUME ChannelInv', QuietBefore', BadRecorded', SetReplyFindsEntry'
      PROVE  EntryInv'
  BY <1>q, <1>m DEF EntryInv, ChannelInv
<1>1. ASSUME NEW p \in Path, NEW f \in PublishedAt(p), AddObject(p, f)
      PROVE  EntryInv'
  <2>1. /\ svc' = [svc EXCEPT ![p] = f] /\ svc[p] = None /\ Emit(Added(p, f))
        /\ features' = features /\ toService' = toService /\ matched' = matched
        /\ thrown' = thrown /\ everBad \subseteq everBad'
        /\ p.featureID = sstTPMIID /\ ~f.ok => p.cpuIndex \in everBad'
    BY <1>1 DEF AddObject
  <2>2. /\ f \in IF p \in FeaturePath THEN FeatureProps ELSE CpuProps
        /\ f \in Props /\ f # None /\ svc \in [Path -> Props \cup {None}]
    BY <1>t, PublishedFacts DEF TypeInv, TypeOK
  <2>3. \A c \in CPUs : SetPending(c)' = SetPending(c)
    BY <2>1 DEF SetPending
  <2>4. \A c \in CPUs : p # sstObjectPath(c) =>
          Settable(c)' = Settable(c) /\ svc'[sstObjectPath(c)] = svc[sstObjectPath(c)]
    BY <2>1, <2>2, PathFacts DEF Settable
  <2>5. ASSUME NEW c \in CPUs \ everBad', p = sstObjectPath(c)
        PROVE  f.ok /\ f \in FeatureProps /\ svc'[sstObjectPath(c)] = f
    <3>1. p.featureID = sstTPMIID /\ p.cpuIndex = c /\ p \in FeaturePath
      BY <2>5, PathFacts DEF sstObjectPath
    <3>2. f \in FeatureProps
      BY <2>2, <3>1
    <3>3. svc'[p] = f
      BY <2>1, <2>2
    <3>4. f.ok
      BY <3>1, <2>1, <2>5
    <3> QED BY <2>5, <3>2, <3>3, <3>4
  <2>6. BadRecorded'
    BY <1>t, <2>1, <2>4, <2>5 DEF BadRecorded
  <2>7. QuietBefore'
    BY <1>t, <2>1 DEF QuietBefore, Emit
  <2>8. SetReplyFindsEntry'
    BY <1>t, <2>1 DEF SetReplyFindsEntry
  <2>9. CASE matched
    <3> DEFINE m == Added(p, f)
    <3>1. m \in Message /\ toClient' = Append(toClient, m)
      BY <2>1, <2>2, <2>9, MessageFacts DEF Emit
    <3>2. ASSUME NEW c \in CPUs \ everBad'
          PROVE  /\ Settable(c)' => Settable(c) \/ Adds(m, c)
                 /\ Settable(c)' => ~Erases(m, c)
                 /\ ~(m.type = "SetReply")
      <4>1. m.type = "Added" /\ m.path = p /\ m.props = f
        BY DEF Added
      <4>2. CASE p = sstObjectPath(c)
        BY <4>1, <4>2, <2>2, <2>5 DEF Adds, Erases, Settable, Usable
      <4>3. CASE p # sstObjectPath(c)
        BY <4>1, <4>3, <2>4 DEF Adds, Erases
      <4> QED BY <4>1, <4>2, <4>3
    <3>3. ChannelInv'
      BY <1>t, <2>1, <2>3, <3>1, <3>2, AppendStep
    <3> QED BY <1>q, <3>3, <2>6, <2>7, <2>8
  <2>10. CASE ~matched
    <3>1. toClient' = toClient /\ toClient = <<>>
          /\ \A c \in CPUs : ~SetPending(c)
      BY <1>t, <2>1, <2>10 DEF Emit, QuietBefore, SetPending
    <3>2. ChannelInv'
      BY <1>t, <2>1, <2>3, <3>1, SilentStep
    <3> QED BY <1>q, <3>2, <2>6, <2>7, <2>8
  <2> QED BY <2>9, <2>10
<1>2. ASSUME NEW p \in Path, RemoveObject(p)
      PROVE  EntryInv'
  <2>1. /\ svc' = [svc EXCEPT ![p] = None] /\ Emit(Removed(p))
        /\ features' = features /\ toService' = toService /\ matched' = matched
        /\ thrown' = thrown /\ everBad' = everBad
        /\ svc \in [Path -> Props \cup {None}]
    BY <1>2, <1>t DEF RemoveObject, TypeInv, TypeOK
  <2>2. \A c \in CPUs :
          /\ SetPending(c)' = SetPending(c)
          /\ Settable(c)' => Settable(c) /\ p # sstObjectPath(c)
          /\ svc'[sstObjectPath(c)] \in {svc[sstObjectPath(c)], None}
    BY <2>1, PathFacts DEF SetPending, Settable
  <2>3. BadRecorded' /\ QuietBefore' /\ SetReplyFindsEntry'
    BY <1>t, <2>1, <2>2 DEF BadRecorded, QuietBefore, SetReplyFindsEntry, Emit
  <2>4. CASE matched
    <3> DEFINE m == Removed(p)
    <3>1. /\ m \in Message /\ toClient' = Append(toClient, m)
          /\ m.type = "Removed" /\ m.path = p
      BY <2>1, <2>4, MessageFacts DEF Emit, Removed
    <3>2. \A c \in CPUs \ everBad' :
            /\ Settable(c)' => ~Erases(m, c)
            /\ ~(m.type = "SetReply")
      BY <3>1, <2>2 DEF Erases
    <3>3. ChannelInv'
      BY <1>t, <2>1, <2>2, <3>1, <3>2, AppendStep
    <3> QED BY <1>q, <3>3, <2>3
  <2>5. CASE ~matched
    <3>1. ChannelInv'
      BY <1>t, <2>1, <2>2, <2>5, SilentStep DEF Emit
    <3> QED BY <1>q, <3>1, <2>3
  <2> QED BY <2>4, <2>5
<1>3. CASE ServiceCrash
  <2>1. /\ \A p \in Path : svc'[p] = None
        /\ features' = features /\ toService' = toService /\ toClient' = toClient
        /\ matched' = matched /\ thrown' = thrown /\ everBad' = everBad
    BY <1>3 DEF ServiceCrash
  <2>2. \A c \in CPUs : ~Settable(c)'
    BY <2>1, PathFacts DEF Settable
  <2>3. ChannelInv'
    BY <1>t, <2>1, <2>2, SilentStep
  <2>4. BadRecorded' /\ QuietBefore' /\ SetReplyFindsEntry'
    BY <1>t, <2>1, PathFacts DEF BadRecorded, QuietBefore, SetReplyFindsEntry
  <2> QED BY <1>q, <2>3, <2>4
\* Steps that leave the service, the channels and the entries as they are.
<1>4. ASSUME svc' = svc, features' = features, toService' = toService,
             toClient' = toClient, matched' = matched \/ matched',
             thrown' = thrown, everBad' = everBad
      PROVE  EntryInv'
  <2>1. \A c \in CPUs : Settable(c)' = Settable(c) /\ SetPending(c)' = SetPending(c)
    BY <1>4 DEF Settable, SetPending
  <2>2. ChannelInv'
    BY <1>t, <1>4, <2>1, SilentStep
  <2>3. BadRecorded' /\ QuietBefore' /\ SetReplyFindsEntry'
    BY <1>t, <1>4 DEF BadRecorded, QuietBefore, SetReplyFindsEntry
  <2> QED BY <1>q, <2>2, <2>3
<1>5. CASE ServiceRestart \/ MapperReply \/ Construct \/ UNCHANGED vars
  BY <1>4, <1>5 DEF ServiceRestart, MapperReply, Construct, vars, envVars
\* The calls that are answered with an error or with the properties of the moment.
<1>6. ASSUME NEW m \in Message, toService # <<>>, toService' = Tail(toService),
             toClient' = Append(toClient, m),
             svc' = svc, features' = features, matched' = matched,
             thrown' = thrown, everBad' = everBad,
             m.type # "SetReply",
             \A c \in CPUs \ everBad : Settable(c) => ~Erases(m, c)
      PROVE  EntryInv'
  <2>1. \A c \in CPUs : Settable(c)' = Settable(c) /\ (SetPending(c)' => SetPending(c))
    BY <1>t, <1>6, ServedPending DEF Settable
  <2>2. ChannelInv'
    BY <1>t, <1>6, <2>1, AppendStep
  <2>3. BadRecorded' /\ QuietBefore' /\ SetReplyFindsEntry'
    BY <1>t, <1>6 DEF BadRecorded, QuietBefore, SetReplyFindsEntry
  <2> QED BY <1>q, <2>2, <2>3
<1>7. ASSUME toService # <<>>
      PROVE  /\ Head(toService) \in Request
             /\ Head(toService) = toService[1] /\ 1 \in 1..Len(toService)
             /\ ErrorReply(Head(toService)) \in Message
             /\ ErrorReply(Head(toService)).type # "SetReply"
             /\ \A c \in CPUs : ~Erases(ErrorReply(Head(toService)), c)
  <2>1. Head(toService) \in Request /\ Head(toService) = toService[1]
        /\ 1 \in 1..Len(toService)
    BY <1>7, <1>t, TailFacts DEF TypeInv, TypeOK
  <2>2. /\ ErrorReply(Head(toService)) \in Message
        /\ ErrorReply(Head(toService)).type \in {"GetAllReply", "SetError"}
        /\ ErrorReply(Head(toService)).props = None
    BY <2>1, ErrorReplyFields
  <2>3. \A c \in CPUs : ~Erases(ErrorReply(Head(toService)), c)
    BY <2>2 DEF Erases
  <2> QED BY <2>1, <2>2, <2>3
<1>8. CASE CallBounced \/ CallLost
  BY <1>6, <1>7, <1>8 DEF CallBounced, CallLost, envVars
<1>9. CASE ServeGetAll
  <2> DEFINE r == Head(toService)
             m == GetAllReply(r.path, svc[r.path])
  <2>1. r.path \in Path /\ svc[r.path] \in Props \cup {None}
    BY <1>9, <1>7, <1>t, RequestFields DEF ServeGetAll, TypeInv, TypeOK
  <2>2. m \in Message /\ m.type = "GetAllReply" /\ m.path = r.path
        /\ m.props = svc[r.path]
    BY <2>1, MessageFacts DEF GetAllReply
  <2>3. ASSUME NEW c \in CPUs \ everBad, Settable(c)
        PROVE  ~Erases(m, c)
    BY <1>t, <2>2, <2>3 DEF Erases, Settable, BadRecorded, Usable
  <2> QED BY <1>6, <1>9, <2>2, <2>3 DEF ServeGetAll, envVars
<1>10. CASE ServeSet
  <2> DEFINE r == Head(toService)
             d == r.path.cpuIndex
  <2>1. /\ toService # <<>> /\ toService' = Tail(toService) /\ r.type = "Set"
        /\ features' = features /\ matched' = matched
        /\ thrown' = thrown /\ everBad' = everBad
    BY <1>10 DEF ServeSet
  <2>2. CASE svc' = svc /\ toClient' = Append(toClient, ErrorReply(r))
    BY <1>6, <1>7, <2>1, <2>2
  <2>3. CASE /\ svc[r.path] # None /\ ~svc[r.path].locked
             /\ svc' = [svc EXCEPT ![r.path] = Write(svc[r.path], r.prop)]
             /\ toClient' = Append(toClient, SetReply(r.path, r.prop))
    <3> DEFINE m == SetReply(r.path, r.prop)
    <3>1. /\ r.path \in Path /\ r.path.featureID = sstTPMIID
          /\ r.prop \in MutableProperty
          /\ d \in CPUs /\ r.path = sstObjectPath(d)
      BY <1>7, <2>1, RequestFields, PathFacts
    <3>2. svc[r.path] \in FeatureProps /\ svc \in [Path -> Props \cup {None}]
      BY <1>t, <2>3, <3>1, PathFacts DEF TypeInv, TypeOK
    <3>3. /\ svc'[r.path] \in FeatureProps /\ svc'[r.path] # None
          /\ svc'[r.path].locked = svc[r.path].locked
          /\ svc'[r.path].ok = svc[r.path].ok
          /\ \A p \in Path : p # r.path => svc'[p] = svc[p]
      BY <2>3, <3>1, <3>2, WriteType, PublishedFacts
    <3>4. \A c \in CPUs : Settable(c)' = Settable(c)
      <4> SUFFICES ASSUME NEW c \in CPUs PROVE Settable(c)' = Settable(c)
        OBVIOUS
      <4>1. sstObjectPath(c) \in Path
        BY PathFacts
      <4>2. CASE sstObjectPath(c) = r.path
        BY <4>2, <3>3, <2>3 DEF Settable
      <4>3. CASE sstObjectPath(c) # r.path
        BY <4>1, <4>3, <3>3 DEF Settable
      <4> QED BY <4>2, <4>3
    <3>5. m \in Message /\ m.type = "SetReply" /\ m.path = r.path
      BY <3>1, MessageFacts DEF SetReply
    <3>6. \A c \in CPUs : ~Erases(m, c)
      BY <3>5 DEF Erases
    <3>7. ASSUME NEW c \in CPUs, m.path = sstObjectPath(c)
          PROVE  Settable(c) /\ SetPending(c)
      BY <1>7, <2>1, <2>3, <3>1, <3>5, <3>7 DEF Settable, SetPending
    <3>8. \A c \in CPUs : SetPending(c)' => SetPending(c)
      BY <1>t, <2>1, ServedPending
    <3>9. ChannelInv'
      BY <1>t, <2>1, <2>3, <3>4, <3>5, <3>6, <3>7, <3>8, AppendStep
    <3>10. BadRecorded'
      <4> SUFFICES ASSUME NEW c \in CPUs \ everBad, svc'[sstObjectPath(c)] # None
                   PROVE  svc'[sstObjectPath(c)].ok
        BY <2>1 DEF BadRecorded
      <4>1. CASE sstObjectPath(c) = r.path
        BY <1>t, <2>3, <3>3, <4>1 DEF BadRecorded
      <4>2. CASE sstObjectPath(c) # r.path
        BY <1>t, <3>3, <4>2, PathFacts DEF BadRecorded
      <4> QED BY <4>1, <4>2
    <3>11. QuietBefore' /\ SetReplyFindsEntry'
      BY <1>t, <2>1 DEF QuietBefore, SetReplyFindsEntry
    <3> QED BY <1>q, <3>9, <3>10, <3>11
  <2> QED BY <1>10, <2>2, <2>3 DEF ServeSet
<1>11. CASE handleGetTPMISubTree
  <2>1. /\ svc' = svc /\ features' = features /\ toClient' = toClient
        /\ matched' = matched /\ matched /\ thrown' = thrown /\ everBad' = everBad
    BY <1>11 DEF handleGetTPMISubTree, Running, envVars
  <2>2. \A c \in CPUs : SetPending(c)' => SetPending(c)
    <3>1. PICK q \in Orderings({p \in mapper.paths : Relevant(p)}) :
            toService' = toService \o [i \in DOMAIN q |-> GetAll(q[i])]
      BY <1>11 DEF handleGetTPMISubTree
    <3> DEFINE calls == [i \in DOMAIN q |-> GetAll(q[i])]
    <3>2. {p \in mapper.paths : Relevant(p)} \in SUBSET Path
      BY <1>t DEF TypeInv, TypeOK
    <3>3. calls \in Seq(Request) /\ \A i \in 1..Len(calls) : calls[i].type = "GetAll"
      BY <3>2, OrderingsType
    <3>4. toService' = toService \o calls
      BY <3>1
    <3> HIDE DEF calls
    <3> QED BY <1>t, <3>3, <3>4, CalledPending
  <2>3. \A c \in CPUs : Settable(c)' = Settable(c)
    BY <2>1 DEF Settable
  <2>4. ChannelInv'
    BY <1>t, <2>1, <2>2, <2>3, SilentStep
  <2>5. BadRecorded' /\ QuietBefore' /\ SetReplyFindsEntry'
    BY <1>t, <2>1 DEF BadRecorded, QuietBefore, SetReplyFindsEntry
  <2> QED BY <1>q, <2>4, <2>5
\* The callbacks that take the head of the channel.
<1>12. ASSUME NEW types, Receive(types), thrown' \subseteq thrown \cup everBad,
              \A c \in CPUs \ everBad :
                /\ Adds(Head(toClient), c) => features'[c] # None
                /\ features[c] # None /\ ~Erases(Head(toClient), c) => features'[c] # None
                /\ SetPending(c)' => SetPending(c) \/ Adds(Head(toClient), c)
       PROVE  EntryInv'
  <2>1. /\ toClient # <<>> /\ toClient' = Tail(toClient) /\ svc' = svc
        /\ everBad' = everBad /\ matched' = matched /\ matched
    BY <1>12 DEF Receive, Running, envVars
  <2>2. ChannelInv'
    BY <1>t, <1>12, <2>1, TailStep
  <2>3. BadRecorded' /\ QuietBefore' /\ SetReplyFindsEntry'
    BY <1>t, <1>12, <2>1 DEF BadRecorded, QuietBefore, SetReplyFindsEntry
  <2> QED BY <1>q, <2>2, <2>3
<1>13. ASSUME NEW types, Receive(types)
       PROVE  /\ GoodMessage(Head(toClient))
              /\ Head(toClient).path \in Path /\ Head(toClient).type \in types
  BY <1>13, <1>t, ChannelTail DEF Receive, GoodMessage, Message
<1>14. CASE handleTPMISignal
  <2> DEFINE m == Head(toClient)
  <2>1. /\ Receive({"Added", "Removed"}) /\ thrown' = thrown
        /\ GoodMessage(m) /\ m.path \in Path /\ m.type \in {"Added", "Removed"}
    BY <1>14, <1>13 DEF handleTPMISignal
  <2>2. ASSUME NEW c \in CPUs \ everBad
        PROVE  /\ Adds(m, c) => features'[c] # None
               /\ features[c] # None /\ ~Erases(m, c) => features'[c] # None
               /\ SetPending(c)' => SetPending(c) \/ Adds(m, c)
    <3>1. CASE ~Relevant(m.path) /\ Ignore
      <4>1. m.path # sstObjectPath(c)
        BY <3>1 DEF Relevant, decodePath, sstObjectPath, sstTPMIID
      <4> QED BY <3>1, <4>1 DEF Ignore, Adds, Erases, SetPending
    <3>2. CASE Relevant(m.path) /\ m.type = "Added" /\ addInterface(m.path, m.props)
      <4>1. m.props # None
            /\ m.props \in IF m.path \in FeaturePath THEN FeatureProps ELSE CpuProps
        BY <3>2, <2>1 DEF GoodMessage
      <4>2. /\ m.path = sstObjectPath(c) /\ Usable(m.props) => features'[c] # None
            /\ features[c] # None /\ ~(m.path = sstObjectPath(c) /\ ~Usable(m.props)) =>
                 features'[c] # None
            /\ SetPending(c)' => SetPending(c)
                                 \/ (m.path = sstObjectPath(c) /\ Usable(m.props))
        BY <1>t, <2>1, <3>2, <4>1, AddInterfaceEffect
      <4> QED BY <3>2, <4>1, <4>2 DEF Adds, Erases
    <3>3. CASE Relevant(m.path) /\ m.type = "Removed" /\ removeInterface(m.path)
      BY <1>t, <2>1, <3>3, RemoveInterfaceEffect DEF Adds, Erases
    <3> QED BY <1>14, <3>1, <3>2, <3>3 DEF handleTPMISignal
  <2> QED BY <1>12, <2>1, <2>2
<1>15. CASE handleGetAllReply
  <2> DEFINE m == Head(toClient)
  <2>1. /\ Receive({"GetAllReply"}) /\ thrown' = thrown
        /\ GoodMessage(m) /\ m.path \in Path /\ m.type = "GetAllReply"
    BY <1>15, <1>13 DEF handleGetAllReply
  <2>2. ASSUME NEW c \in CPUs \ everBad
        PROVE  /\ Adds(m, c) => features'[c] # None
               /\ features[c] # None /\ ~Erases(m, c) => features'[c] # None
               /\ SetPending(c)' => SetPending(c) \/ Adds(m, c)
    <3>1. CASE m.props = None /\ Ignore
      BY <2>1, <3>1 DEF Ignore, Adds, Erases, SetPending
    <3>2. CASE m.props # None /\ addInterface(m.path, m.props)
      <4>1. Relevant(m.path)
            /\ m.props \in IF m.path \in FeaturePath THEN FeatureProps ELSE CpuProps
        BY <3>2, <2>1 DEF GoodMessage
      <4>2. /\ m.path = sstObjectPath(c) /\ Usable(m.props) => features'[c] # None
            /\ features[c] # None /\ ~(m.path = sstObjectPath(c) /\ ~Usable(m.props)) =>
                 features'[c] # None
            /\ SetPending(c)' => SetPending(c)
                                 \/ (m.path = sstObjectPath(c) /\ Usable(m.props))
        BY <1>t, <2>1, <3>2, <4>1, AddInterfaceEffect
      <4> QED BY <2>1, <3>2, <4>2 DEF Adds, Erases
    <3> QED BY <1>15, <3>1, <3>2 DEF handleGetAllReply
  <2> QED BY <1>12, <2>1, <2>2
<1>16. CASE handleSetReply
  <2> DEFINE m == Head(toClient)
             d == m.path.cpuIndex
  <2>1. /\ Receive({"SetReply", "SetError"}) /\ toService' = toService
        /\ GoodMessage(m) /\ m.path \in Path /\ m.type \in {"SetReply", "SetError"}
    BY <1>16, <1>13 DEF handleSetReply
  <2>2. d \in CPUs /\ m.path = sstObjectPath(d) /\ m.prop \in MutableProperty
    BY <2>1, PathFacts DEF GoodMessage
  <2>3. \A c \in CPUs : ~Adds(m, c) /\ SetPending(c)' = SetPending(c)
    BY <2>1 DEF Adds, SetPending
  <2>4. ASSUME NEW c \in CPUs PROVE features[c] # None => features'[c] # None
    <3>1. CASE UNCHANGED features
      BY <3>1
    <3>2. CASE /\ features[d] # None
               /\ features' = [features EXCEPT ![d] = Write(features[d], m.prop)]
      <4>1. Write(features[d], m.prop) # None
        BY <1>t, <2>2, <3>2, WriteType, PublishedFacts DEF TypeInv, TypeOK
      <4> QED BY <1>t, <2>2, <3>2, <4>1 DEF TypeInv, TypeOK
    <3> QED BY <1>16, <3>1, <3>2 DEF handleSetReply
  <2>5. thrown' \subseteq thrown \cup everBad
    <3>1. CASE thrown' = thrown
      BY <3>1
    <3>2. CASE m.type = "SetReply" /\ features[d] = None /\ thrown' = thrown \cup {d}
      <4>1. toClient[1] = m /\ 1 \in 1..Len(toClient)
        BY <1>t, <2>1, TailFacts DEF Receive, TypeInv, TypeOK
      <4>2. d \notin everBad => features[d] # None
        BY <1>t, <2>2, <3>2, <4>1 DEF ChannelInv, ReplyHasEntry
      <4> QED BY <3>2, <4>2
    <3> QED BY <1>16, <3>1, <3>2 DEF handleSetReply
  <2> QED BY <1>12, <2>1, <2>3, <2>4, <2>5
<1> QED
  BY <1>1, <1>2, <1>3, <1>5, <1>8, <1>9, <1>10, <1>11, <1>14, <1>15, <1>16
     DEF Next, Environment, Service, Client

LEMMA IInvInductive == Spec => []IInv
<1>1. Init => IInv
  BY InitType, InitEntry DEF IInv
<1>2. IInv /\ [Next]_vars => IInv'
  BY NextType, NextEntry DEF IInv
<1> QED BY <1>1, <1>2, PTL DEF Spec

\* The invariant the run checks holds for every set of CPUs, of published
\* properties and for every number of events.
THEOREM EntryInvariant == Spec => []EntryInv
<1>1. IInv => EntryInv
  BY DEF IInv
<1> QED BY <1>1, IInvInductive, PTL

\* The callback of a successful Set never throws for a CPU all of whose SST
\* objects unpacked, in whatever order signals, replies, removals, crashes and
\* restarts arrive.
THEOREM SetReplyFindsEntryAlways == Spec => []SetReplyFindsEntry
<1>1. IInv => SetReplyFindsEntry
  BY DEF IInv, EntryInv
<1> QED BY <1>1, IInvInductive, PTL

-----------------------------------------------------------------------------
(***************************************************************************)
(* Once nothing is in flight the cache agrees with the service.  The cache *)
(* lags behind the service by what is in the channel: handling all of that *)
(* would leave at every path the properties the service has, unless a      *)
(* GetAll for the path is still to come.  What handling a channel leaves is *)
(* set by its last message that replaces the entry, and by the Set replies *)
(* behind that one.                                                        *)
(***************************************************************************)

\* What the cache keeps of an object's properties, and what it holds at a path.
Kept(p, v) ==
  IF v # None /\ (IF p.featureID = invalidPathComponent THEN v.ok ELSE Usable(v))
  THEN v ELSE None
Entry(p) ==
  IF p.featureID = invalidPathComponent THEN cpus[p.cpuIndex] ELSE features[p.cpuIndex]

\* The properties of its object according to a message.
Says(m) == IF m.type = "Removed" THEN None ELSE m.props

\* A message that replaces the entry of p, and one that writes a property in it.
Replaces(m, p) ==
  /\ m.path = p
  /\ m.type \in {"Added", "Removed"} \/ (m.type = "GetAllReply" /\ m.props # None)
Sets(m, p) == m.path = p /\ m.type = "SetReply"

\* An entry with the properties of S written, if there is one.
Written(v, S) ==
  IF v = None THEN None
  ELSE LET w == IF "enabled" \in S THEN Write(v, "enabled") ELSE v
       IN IF "usePCS" \in S THEN Write(w, "usePCS") ELSE w

\* The properties written by the messages of q behind the one at i.
SetBehind(q, i, p) ==
  {prop \in MutableProperty : \E j \in i+1..Len(q) : Sets(q[j], p) /\ q[j].prop = prop}

\* Handling q leaves w at p, where the cache holds e.
Leaves(e, q, p, w) ==
  /\ \A i \in 1..Len(q) :
       Replaces(q[i], p) /\ (\A j \in i+1..Len(q) : ~Replaces(q[j], p)) =>
         Written(Kept(p, Says(q[i])), SetBehind(q, i, p)) = w
  /\ (\A j \in 1..Len(q) : ~Replaces(q[j], p)) => Written(e, SetBehind(q, 0, p)) = w

\* What one message leaves of the entry e at p.
Handled(e, m, p) ==
  IF Replaces(m, p) THEN Kept(p, Says(m))
  ELSE IF Sets(m, p) THEN Written(e, {m.prop}) ELSE e

\* The cache will ask for the properties at p.
Asked(p) ==
  \/ mapper.state \in {"idle", "asked"}
  \/ mapper.state = "replied" /\ p \in mapper.paths
  \/ \E i \in 1..Len(toService) : toService[i].type = "GetAll" /\ toService[i].path = p

\* The paths the cache is to follow.
Followed == {p \in Path : Relevant(p) /\ p.cpuIndex \notin missed /\ p \notin orphan}

FollowInv ==
  thrown = {} =>
    \A p \in Followed : \/ Leaves(Entry(p), toClient, p, Kept(p, svc[p]))
                        \/ svc[p] # None /\ Asked(p)

PartiesInv ==
  /\ mapper.state = "idle" <=> ~matched
  /\ ~matched => \A c \in CPUs : cpus[c] = None
  /\ mapper.state = "failed" => missed = CPUs
  /\ ~up => \A p \in Path : svc[p] = None

-----------------------------------------------------------------------------
(* Entries and the channel. *)

Value(p) == (IF p \in FeaturePath THEN FeatureProps ELSE CpuProps) \cup {None}

LEMMA WrittenNothing == \A v : Written(v, {}) = v
  BY DEF Written

LEMMA WriteTwice ==
  ASSUME NEW f \in FeatureProps
  PROVE  /\ Write(Write(f, "enabled"), "enabled") = Write(f, "enabled")
         /\ Write(Write(f, "usePCS"), "usePCS") = Write(f, "usePCS")
         /\ Write(Write(f, "usePCS"), "enabled") = Write(Write(f, "enabled"), "usePCS")
  BY DEF Write, FeatureProps

\* Writes may be collected, before or after others.
LEMMA WrittenMore ==
  ASSUME NEW v \in FeatureProps \cup {None}, NEW S \in SUBSET MutableProperty,
         NEW prop \in MutableProperty
  PROVE  /\ Written(v, S) \in FeatureProps \cup {None}
         /\ Written(Written(v, {prop}), S) = Written(v, S \cup {prop})
         /\ Written(Written(v, S), {prop}) = Written(v, S \cup {prop})
<1>1. CASE v = None
  BY <1>1 DEF Written
<1>2. CASE v # None
  <2> DEFINE e == Write(v, "enabled")
             u == Write(v, "usePCS")
             b == Write(e, "usePCS")
  <2>1. v \in FeatureProps /\ e \in FeatureProps /\ u \in FeatureProps /\ b \in FeatureProps
    BY <1>2, WriteType DEF MutableProperty
  <2>2. e # None /\ u # None /\ b # None
    BY <2>1, PublishedFacts
  <2>3. /\ Write(e, "enabled") = e /\ Write(u, "usePCS") = u /\ Write(u, "enabled") = b
        /\ Write(b, "enabled") = b /\ Write(b, "usePCS") = b
    BY <2>1, WriteTwice
  <2>4. prop = "enabled" \/ prop = "usePCS"
    BY DEF MutableProperty
  <2>5. b = Write(e, "usePCS")
    OBVIOUS
  <2> HIDE DEF e, u, b
  <2>6. \A T : Written(v, T) = IF "enabled" \in T THEN IF "usePCS" \in T THEN b ELSE e
                               ELSE IF "usePCS" \in T THEN u ELSE v
    BY <1>2, <2>5 DEF Written, e, u
  <2>7. /\ Written(e, S) = IF "usePCS" \in S THEN b ELSE e
        /\ Written(u, S) = IF "enabled" \in S THEN b ELSE u
    BY <2>2, <2>3, <2>5 DEF Written
  <2>8. /\ Written(v, {"enabled"}) = e /\ Written(v, {"usePCS"}) = u
        /\ Written(e, {"enabled"}) = e /\ Written(e, {"usePCS"}) = b
        /\ Written(u, {"enabled"}) = b /\ Written(u, {"usePCS"}) = u
        /\ Written(b, {"enabled"}) = b /\ Written(b, {"usePCS"}) = b
    BY <1>2, <2>2, <2>3, <2>5 DEF Written, e, u
  <2> QED BY <2>1, <2>4, <2>6, <2>7, <2>8
<1> QED BY <1>1, <1>2

\* The last message that replaces the entry decides.
LEMMA AppendReplaces ==
  ASSUME NEW q \in Seq(Message), NEW m \in Message, NEW p, NEW e, Replaces(m, p)
  PROVE  Leaves(e, Append(q, m), p, Kept(p, Says(m)))
<1> DEFINE w == Append(q, m)
           n == Len(q)
<1>1. n \in Nat /\ Len(w) = n + 1 /\ w[n + 1] = m
  BY AppendFacts
<1> HIDE DEF w, n
<1>2. SetBehind(w, n + 1, p) = {}
  BY <1>1 DEF SetBehind
<1>3. ASSUME NEW i \in 1..Len(w), \A j \in i+1..Len(w) : ~Replaces(w[j], p)
      PROVE  i = n + 1
  BY <1>1, <1>3
<1>4. ~(\A j \in 1..Len(w) : ~Replaces(w[j], p))
  BY <1>1
<1>5. Leaves(e, w, p, Kept(p, Says(m)))
  BY <1>1, <1>2, <1>3, <1>4, WrittenNothing DEF Leaves
<1> QED BY <1>5 DEF w

\* A message at the end of the channel does to what the channel leaves ...
LEMMA AppendLeaves ==
  ASSUME NEW q \in Seq(Message), NEW m, NEW p \in Path, NEW e \in Value(p), NEW v,
         \A i \in 1..Len(q) : GoodMessage(q[i]), GoodMessage(m), Leaves(e, q, p, v)
  PROVE  Leaves(e, Append(q, m), p, Handled(v, m, p))
<1> DEFINE w == Append(q, m)
           n == Len(q)
<1>0. m \in Message
  BY DEF GoodMessage
<1>1. /\ n \in Nat /\ Len(w) = n + 1 /\ w[n + 1] = m
      /\ \A i \in 1..n : w[i] = q[i]
  BY <1>0, AppendFacts
<1>2. Len(q) = n
  OBVIOUS
<1> HIDE DEF w, n
<1>3. CASE Replaces(m, p)
  BY <1>3, <1>0, AppendReplaces DEF Handled
<1>4. CASE ~Replaces(m, p) /\ ~Sets(m, p)
  <2>1. ASSUME NEW i \in 0..n PROVE SetBehind(w, i, p) = SetBehind(q, i, p)
    <3>1. ASSUME NEW j \in i+1..Len(w), Sets(w[j], p)
          PROVE  j \in i+1..n /\ w[j] = q[j]
      BY <3>1, <1>1, <1>4
    <3>2. \A j \in i+1..n : j \in i+1..Len(w) /\ w[j] = q[j]
      BY <1>1
    <3> QED BY <3>1, <3>2, <1>2 DEF SetBehind
  <2>2. ASSUME NEW i \in 1..Len(w), Replaces(w[i], p),
               \A j \in i+1..Len(w) : ~Replaces(w[j], p)
        PROVE  Written(Kept(p, Says(w[i])), SetBehind(w, i, p)) = v
    <3>1. i \in 1..n /\ w[i] = q[i]
      BY <2>2, <1>1, <1>4
    <3>2. \A j \in i+1..n : ~Replaces(q[j], p)
      BY <3>1, <2>2, <1>1
    <3> QED BY <3>1, <3>2, <2>1, <2>2, <1>2 DEF Leaves
  <2>3. ASSUME \A j \in 1..Len(w) : ~Replaces(w[j], p)
        PROVE  Written(e, SetBehind(w, 0, p)) = v
    <3>1. \A j \in 1..n : ~Replaces(q[j], p)
      BY <2>3, <1>1
    <3>2. 0 \in 0..n
      BY <1>1
    <3> QED BY <3>1, <3>2, <2>1, <1>2 DEF Leaves
  <2>4. Leaves(e, w, p, v)
    BY <2>2, <2>3 DEF Leaves
  <2> QED BY <2>4, <1>4 DEF Handled, w
<1>5. CASE ~Replaces(m, p) /\ Sets(m, p)
  <2>1. p \in FeaturePath /\ m.prop \in MutableProperty
    BY <1>5 DEF GoodMessage, Sets, FeaturePath, sstTPMIID, invalidPathComponent
  <2>2. ASSUME NEW i \in 0..n
        PROVE  /\ SetBehind(w, i, p) = SetBehind(q, i, p) \cup {m.prop}
               /\ SetBehind(q, i, p) \in SUBSET MutableProperty
    <3>1. ASSUME NEW j \in i+1..Len(w)
          PROVE  w[j] = m \/ (j \in i+1..n /\ w[j] = q[j])
      BY <1>1
    <3>2. \A j \in i+1..n : j \in i+1..Len(w) /\ w[j] = q[j]
      BY <1>1
    <3>3. n + 1 \in i+1..Len(w)
      BY <1>1
    <3> QED BY <3>1, <3>2, <3>3, <2>1, <1>1, <1>2, <1>5 DEF SetBehind
  <2>3. ASSUME NEW i \in 1..Len(w), Replaces(w[i], p),
               \A j \in i+1..Len(w) : ~Replaces(w[j], p)
        PROVE  Written(Kept(p, Says(w[i])), SetBehind(w, i, p)) = Written(v, {m.prop})
    <3>1. i \in 1..n /\ w[i] = q[i]
      BY <2>3, <1>1, <1>5
    <3>2. \A j \in i+1..n : ~Replaces(q[j], p)
      BY <3>1, <2>3, <1>1
    <3>3. Written(Kept(p, Says(q[i])), SetBehind(q, i, p)) = v
      BY <3>1, <3>2, <2>3, <1>2 DEF Leaves
    <3>4. Kept(p, Says(q[i])) \in FeatureProps \cup {None}
      BY <3>1, <2>1, <2>3, <1>2 DEF GoodMessage, Kept, Replaces, Says
    <3>5. Written(v, {m.prop}) = Written(Kept(p, Says(q[i])), SetBehind(q, i, p) \cup {m.prop})
      <4> DEFINE k == Kept(p, Says(q[i]))
                 S == SetBehind(q, i, p)
      <4>1. k \in FeatureProps \cup {None} /\ S \in SUBSET MutableProperty /\ Written(k, S) = v
        BY <3>1, <3>3, <3>4, <2>2
      <4> HIDE DEF k, S
      <4>2. Written(v, {m.prop}) = Written(k, S \cup {m.prop})
        BY <4>1, <2>1, WrittenMore
      <4> QED BY <4>2 DEF k, S
    <3>6. i \in 0..n
      BY <3>1, <1>1
    <3>7. SetBehind(w, i, p) = SetBehind(q, i, p) \cup {m.prop}
      BY <3>6, <2>2
    <3> QED BY <3>1, <3>5, <3>7, Zenon
  <2>4. ASSUME \A j \in 1..Len(w) : ~Replaces(w[j], p)
        PROVE  Written(e, SetBehind(w, 0, p)) = Written(v, {m.prop})
    <3>1. \A j \in 1..n : ~Replaces(q[j], p)
      BY <2>4, <1>1
    <3>2. 0 \in 0..n /\ e \in FeatureProps \cup {None}
      BY <1>1, <2>1 DEF Value
    <3>3. Written(e, SetBehind(q, 0, p)) = v
      BY <3>1, <1>2 DEF Leaves
    <3>4. Written(v, {m.prop}) = Written(e, SetBehind(q, 0, p) \cup {m.prop})
      <4> DEFINE S == SetBehind(q, 0, p)
      <4>1. S \in SUBSET MutableProperty /\ Written(e, S) = v
        BY <3>2, <3>3, <2>2
      <4> HIDE DEF S
      <4>2. Written(v, {m.prop}) = Written(e, S \cup {m.prop})
        BY <4>1, <3>2, <2>1, WrittenMore
      <4> QED BY <4>2 DEF S
    <3> QED BY <3>2, <3>4, <2>2
  <2>5. Leaves(e, w, p, Written(v, {m.prop}))
    BY <2>3, <2>4 DEF Leaves
  <2> QED BY <2>5, <1>5 DEF Handled, w
<1> QED BY <1>3, <1>4, <1>5

\* ... what handling the message at its head does to the entry.
LEMMA TailLeaves ==
  ASSUME NEW q \in Seq(Message), q # <<>>, NEW p \in Path, NEW e \in Value(p), NEW v,
         \A i \in 1..Len(q) : GoodMessage(q[i]), Leaves(e, q, p, v)
  PROVE  Leaves(Handled(e, Head(q), p), Tail(q), p, v)
<1> DEFINE w == Tail(q)
           n == Len(q)
           m == Head(q)
           h == Handled(e, m, p)
<1>1. /\ n \in Nat /\ n >= 1 /\ Len(w) = n - 1 /\ m = q[1]
      /\ \A i \in 1..Len(w) : w[i] = q[i + 1]
  BY TailFacts
<1>2. Len(q) = n
  OBVIOUS
<1> HIDE DEF w, n, m, h
<1>3. ASSUME NEW i \in 0..n-1 PROVE SetBehind(w, i, p) = SetBehind(q, i + 1, p)
  <2>1. \A j \in i+1..Len(w) : j + 1 \in i+2..n /\ w[j] = q[j + 1]
    BY <1>1
  <2>2. \A j \in i+2..n : j - 1 \in i+1..Len(w) /\ w[j - 1] = q[j]
    BY <1>1
  <2>3. (i + 1) + 1 = i + 2
    OBVIOUS
  <2> QED BY <2>1, <2>2, <2>3, <1>2 DEF SetBehind
<1>4. ASSUME NEW i \in 1..Len(w), Replaces(w[i], p),
             \A j \in i+1..Len(w) : ~Replaces(w[j], p)
      PROVE  Written(Kept(p, Says(w[i])), SetBehind(w, i, p)) = v
  <2>1. i + 1 \in 1..n /\ w[i] = q[i + 1] /\ i \in 0..n-1
    BY <1>1
  <2>2. ASSUME NEW j \in (i + 1)+1..n PROVE ~Replaces(q[j], p)
    <3>1. j - 1 \in i+1..Len(w) /\ w[j - 1] = q[j]
      BY <1>1
    <3> QED BY <3>1, <1>4
  <2> QED BY <2>1, <2>2, <1>2, <1>3, <1>4 DEF Leaves
<1>5. ASSUME \A j \in 1..Len(w) : ~Replaces(w[j], p)
      PROVE  Written(h, SetBehind(w, 0, p)) = v
  <2>1. ASSUME NEW j \in 2..n PROVE ~Replaces(q[j], p)
    <3>1. j - 1 \in 1..Len(w) /\ w[j - 1] = q[j]
      BY <1>1
    <3> QED BY <3>1, <1>5
  <2>2. SetBehind(w, 0, p) = SetBehind(q, 1, p)
    BY <1>1, <1>3
  <2>3. CASE Replaces(m, p)
    <3>1. Written(Kept(p, Says(m)), SetBehind(q, 1, p)) = v
      BY <2>1, <2>3, <1>1, <1>2 DEF Leaves
    <3> QED BY <3>1, <2>2, <2>3 DEF h, Handled
  <2>4. CASE ~Replaces(m, p)
    <3>1. Written(e, SetBehind(q, 0, p)) = v
      <4>1. \A j \in 1..n : ~Replaces(q[j], p)
        <5>1. \A j \in 1..n : j = 1 \/ j \in 2..n
          BY <1>1
        <5> QED BY <5>1, <2>1, <2>4, <1>1
      <4> QED BY <4>1, <1>2 DEF Leaves
    <3>2. \A j \in 1..n : j = 1 \/ j \in 2..n
      BY <1>1
    <3>3. \A j \in 2..n : j \in 1..n
      BY <1>1
    <3>4. 1 \in 1..n /\ 0 + 1 = 1 /\ 1 + 1 = 2
      BY <1>1
    <3>5. CASE ~Sets(m, p)
      <4>1. SetBehind(q, 0, p) = SetBehind(q, 1, p)
        BY <3>2, <3>3, <3>4, <3>5, <1>1, <1>2 DEF SetBehind
      <4> QED BY <4>1, <3>1, <3>5, <2>2, <2>4 DEF h, Handled
    <3>6. CASE Sets(m, p)
      <4>1. GoodMessage(m)
        BY <1>1, <1>2, <3>4
      <4>2. p \in FeaturePath /\ m.prop \in MutableProperty
        BY <3>6, <4>1 DEF GoodMessage, Sets, FeaturePath, sstTPMIID, invalidPathComponent
      <4>3. /\ SetBehind(q, 0, p) = SetBehind(q, 1, p) \cup {m.prop}
            /\ SetBehind(q, 1, p) \in SUBSET MutableProperty
        BY <3>2, <3>3, <3>4, <3>6, <4>2, <1>1, <1>2 DEF SetBehind
      <4>4. e \in FeatureProps \cup {None}
        BY <4>2 DEF Value
      <4>5. h = Written(e, {m.prop})
        BY <3>6, <2>4 DEF h, Handled
      <4> QED BY <4>2, <4>3, <4>4, <4>5, <3>1, <2>2, WrittenMore
    <3> QED BY <3>5, <3>6
  <2> QED BY <2>3, <2>4
<1>6. Leaves(h, w, p, v)
  BY <1>4, <1>5 DEF Leaves
<1> QED BY <1>6 DEF h, w, m

-----------------------------------------------------------------------------
(* The steps of the parties. *)

Follows(p) ==
  \/ Leaves(Entry(p), toClient, p, Kept(p, svc[p]))
  \/ svc[p] # None /\ Asked(p)

LEMMA EntryType ==
  ASSUME TypeInv, NEW p \in Path
  PROVE  Entry(p) \in Value(p)
  BY PathFacts DEF TypeInv, TypeOK, Entry, Value, FeaturePath

LEMMA GoodChannel ==
  ASSUME TypeInv
  PROVE  toClient \in Seq(Message) /\ \A i \in 1..Len(toClient) : GoodMessage(toClient[i])
<1>1. toClient \in Seq(Message)
  BY DEF TypeInv, TypeOK
<1> QED BY <1>1 DEF TypeInv, MessagesOK, GoodMessage

\* The service sends the properties it has now, ...
LEMMA SendState ==
  ASSUME TypeInv, NEW p \in Path, NEW m \in Message, toClient' = Append(toClient, m),
         Replaces(m, p), Says(m) = svc'[p]
  PROVE  Follows(p)'
<1>1. Leaves(Entry(p)', Append(toClient, m), p, Kept(p, Says(m)))
  BY AppendReplaces, GoodChannel
<1> QED BY <1>1 DEF Follows

\* ... or something that does to the entry what was done to the object.
LEMMA SendChange ==
  ASSUME TypeInv, NEW p \in Path, NEW m, GoodMessage(m), toClient' = Append(toClient, m),
         cpus' = cpus, features' = features, Follows(p),
         Kept(p, svc'[p]) = Handled(Kept(p, svc[p]), m, p),
         svc[p] # None /\ Asked(p) => svc'[p] # None /\ Asked(p)'
  PROVE  Follows(p)'
<1>1. CASE Leaves(Entry(p), toClient, p, Kept(p, svc[p]))
  <2>1. Leaves(Entry(p), toClient', p, Kept(p, svc'[p]))
    <3> DEFINE e == Entry(p)
               k == Kept(p, svc[p])
    <3>1. e \in Value(p)
      BY EntryType
    <3>2. Leaves(e, toClient, p, k)
      BY <1>1
    <3> HIDE DEF e, k
    <3>3. Leaves(e, Append(toClient, m), p, Handled(k, m, p))
      BY <3>1, <3>2, AppendLeaves, GoodChannel
    <3> QED BY <3>3 DEF e, k
  <2>2. Entry(p)' = Entry(p)
    BY DEF Entry
  <2> QED BY <2>1, <2>2 DEF Follows
<1>2. CASE svc[p] # None /\ Asked(p)
  BY <1>2 DEF Follows
<1> QED BY <1>1, <1>2 DEF Follows

\* The cache handles the message at the head of the channel.
LEMMA HandleHead ==
  ASSUME TypeInv, NEW p \in Path, toClient # <<>>, toClient' = Tail(toClient), svc' = svc,
         Entry(p)' = Handled(Entry(p), Head(toClient), p), Follows(p),
         Asked(p) => Asked(p)'
  PROVE  Follows(p)'
<1>1. CASE Leaves(Entry(p), toClient, p, Kept(p, svc[p]))
  <2> DEFINE e == Entry(p)
             k == Kept(p, svc[p])
  <2>1. e \in Value(p) /\ Leaves(e, toClient, p, k)
    BY <1>1, EntryType
  <2> HIDE DEF e, k
  <2>2. Leaves(Handled(e, Head(toClient), p), Tail(toClient), p, k)
    BY <2>1, TailLeaves, GoodChannel
  <2> QED BY <2>2 DEF e, k, Follows
<1>2. CASE svc[p] # None /\ Asked(p)
  BY <1>2 DEF Follows
<1> QED BY <1>1, <1>2 DEF Follows

\* Nothing happens between the service and the cache.
LEMMA NothingSent ==
  ASSUME NEW p \in Path, toClient' = toClient, cpus' = cpus, features' = features,
         svc'[p] = svc[p], Follows(p), svc[p] # None /\ Asked(p) => Asked(p)'
  PROVE  Follows(p)'
<1>1. Entry(p)' = Entry(p)
  BY DEF Entry
<1> QED BY <1>1 DEF Follows

\* Calls that are sent, or served, leave the other calls where they are.
LEMMA AskedMore ==
  ASSUME TypeInv, NEW p, NEW s \in Seq(Request), toService' = toService \o s,
         mapper' = mapper, Asked(p)
  PROVE  Asked(p)'
<1>1. /\ Len(toService) \in Nat /\ Len(s) \in Nat
      /\ Len(toService') = Len(toService) + Len(s)
      /\ \A i \in 1..Len(toService) : toService'[i] = toService[i]
  BY ConcatFacts DEF TypeInv, TypeOK
<1>2. \A i \in 1..Len(toService) : i \in 1..Len(toService')
  BY <1>1
<1> QED BY <1>1, <1>2 DEF Asked

LEMMA AskedServed ==
  ASSUME TypeInv, NEW p, toService # <<>>, toService' = Tail(toService),
         mapper' = mapper, Asked(p),
         ~(Head(toService).type = "GetAll" /\ Head(toService).path = p)
  PROVE  Asked(p)'
<1>1. /\ Len(toService) \in Nat /\ Len(toService') = Len(toService) - 1
      /\ Head(toService) = toService[1] /\ Len(toService) >= 1
      /\ \A i \in 1..Len(toService) - 1 : toService'[i] = toService[i + 1]
  BY TailFacts DEF TypeInv, TypeOK
<1>2. ASSUME NEW i \in 1..Len(toService), toService[i].type = "GetAll", toService[i].path = p
      PROVE  \E j \in 1..Len(toService') : toService'[j].type = "GetAll" /\ toService'[j].path = p
  <2>1. i # 1
    BY <1>1, <1>2
  <2>2. i - 1 \in 1..Len(toService') /\ toService'[i - 1] = toService[i]
    BY <2>1, <1>1
  <2> QED BY <2>2, <1>2
<1> QED BY <1>2 DEF Asked

\* The answer of the mapper: a GetAll is sent for each path in it.
LEMMA OrderingsReach ==
  ASSUME NEW S \in SUBSET Path, NEW q \in Orderings(S), NEW p \in S
  PROVE  \E i \in 1..Cardinality(S) : q[i] = p
<1>1. IsFiniteSet(S) /\ Cardinality(S) \in Nat
  BY PublishedAssumption, FS_Subset, FS_CardinalityType
<1>2. q \in [1..Cardinality(S) -> S] /\ \A i, j \in DOMAIN q : q[i] = q[j] => i = j
  BY DEF Orderings
<1>3. q \in Injection(1..Cardinality(S), S)
  BY <1>2 DEF Injection, IsInjective
<1>4. Cardinality(1..Cardinality(S)) = Cardinality(S)
  <2>1. IsFiniteSet(1..Cardinality(S)) /\ Cardinality(1..Cardinality(S)) = Cardinality(S)
    BY <1>1, FS_Interval
  <2> QED BY <2>1
<1>5. q \in Surjection(1..Cardinality(S), S)
  <2> DEFINE D == 1..Cardinality(S)
  <2>1. q \in Injection(D, S) /\ Cardinality(D) = Cardinality(S)
    BY <1>3, <1>4
  <2> HIDE DEF D
  <2>2. Cardinality(D) = Cardinality(S) <=> q \in Surjection(D, S)
    BY <1>1, <2>1, FS_Injection, Zenon
  <2> QED BY <2>1, <2>2 DEF D
<1> QED BY <1>5 DEF Surjection

-----------------------------------------------------------------------------
(* The inductive invariant. *)

DrainInv == IInv /\ PartiesInv /\ FollowInv

LEMMA RelevantPath ==
  ASSUME NEW p \in Path, Relevant(p)
  PROVE  /\ p.cpuIndex \in CPUs
         /\ p.featureID = invalidPathComponent => p = cpuObjectPath(p.cpuIndex)
         /\ p.featureID # invalidPathComponent => p = sstObjectPath(p.cpuIndex)
  BY DEF Relevant, Path, cpuObjectPath, sstObjectPath

LEMMA InitFollow == Init => PartiesInv /\ FollowInv
<1> SUFFICES ASSUME Init PROVE PartiesInv /\ FollowInv
  OBVIOUS
<1>1. PartiesInv
  BY DEF Init, PartiesInv
<1>2. ASSUME NEW p \in Followed
      PROVE  Leaves(Entry(p), toClient, p, Kept(p, svc[p])) \/ (svc[p] # None /\ Asked(p))
  <2>1. Asked(p)
    BY DEF Init, Asked
  <2>2. ASSUME svc[p] = None PROVE Leaves(Entry(p), toClient, p, Kept(p, svc[p]))
    <3>1. Len(toClient) = 0 /\ Entry(p) = None /\ Kept(p, svc[p]) = None
      BY <2>2, RelevantPath DEF Init, Entry, Kept, Followed
    <3> QED BY <3>1 DEF Leaves, Written
  <2> QED BY <2>1, <2>2
<1> QED BY <1>1, <1>2 DEF FollowInv

LEMMA NextParties == IInv /\ PartiesInv /\ [Next]_vars => PartiesInv'
<1> SUFFICES ASSUME IInv, PartiesInv, [Next]_vars PROVE PartiesInv'
  OBVIOUS
<1>t. TypeInv /\ TypeOK /\ QuietBefore
  BY DEF IInv, EntryInv, TypeInv
<1>1. ASSUME NEW p \in Path, NEW f \in PublishedAt(p), AddObject(p, f)
      PROVE  PartiesInv'
  BY <1>1 DEF AddObject, PartiesInv
<1>2. ASSUME NEW p \in Path, RemoveObject(p)
      PROVE  PartiesInv'
  BY <1>2 DEF RemoveObject, PartiesInv
<1>3. CASE ServiceCrash
  BY <1>3 DEF ServiceCrash, PartiesInv
<1>4. CASE CallLost
  <2>1. missed' \subseteq CPUs /\ missed \subseteq missed'
    BY <1>4, <1>t, NextType DEF CallLost, TypeInv, TypeOK
  <2> QED BY <1>4, <2>1 DEF CallLost, PartiesInv
<1>5. CASE ServiceRestart
  BY <1>5 DEF ServiceRestart, PartiesInv
<1>6. CASE CallBounced \/ ServeGetAll
  BY <1>6 DEF CallBounced, ServeGetAll, PartiesInv, envVars
<1>7. CASE ServeSet
  BY <1>7 DEF ServeSet, PartiesInv
<1>8. CASE MapperReply
  BY <1>8 DEF MapperReply, PartiesInv
<1>9. CASE Construct
  BY <1>9 DEF Construct, PartiesInv, envVars
<1>10. CASE handleGetTPMISubTree
  BY <1>10 DEF handleGetTPMISubTree, Running, PartiesInv, envVars
<1>11. CASE handleTPMISignal \/ handleGetAllReply \/ handleSetReply
  <2>1. matched /\ UNCHANGED <<mapper, matched, svc, up, missed>>
    BY <1>11 DEF handleTPMISignal, handleGetAllReply, handleSetReply, Receive, Running, envVars
  <2> QED BY <2>1 DEF PartiesInv
<1>12. CASE UNCHANGED vars
  BY <1>12 DEF vars, PartiesInv
<1> QED
  BY <1>1, <1>2, <1>3, <1>4, <1>5, <1>6, <1>7, <1>8, <1>9, <1>10, <1>11, <1>12
     DEF Next, Environment, Service, Client

\* What a callback leaves of an entry.
LEMMA AddInterfaceEntry ==
  ASSUME TypeInv, NEW d \in Path, Relevant(d), NEW f, f # None, addInterface(d, f),
         f \in IF d \in FeaturePath THEN FeatureProps ELSE CpuProps,
         NEW p \in Path, Relevant(p)
  PROVE  /\ Entry(p)' = IF p = d THEN Kept(d, f) ELSE Entry(p)
         /\ mapper' = mapper => (Asked(p) => Asked(p)')
<1>0. /\ cpus \in [CPUs -> CpuProps \cup {None}]
      /\ features \in [CPUs -> FeatureProps \cup {None}]
      /\ toService \in Seq(Request)
  BY DEF TypeInv, TypeOK
<1>1. CASE d.featureID = invalidPathComponent
  <2>1. /\ cpus' = [cpus EXCEPT ![d.cpuIndex] = Kept(d, f)]
        /\ features' = features /\ toService' = toService
    BY <1>1 DEF addInterface, addCPU, Kept
  <2>2. Entry(p)' = IF p = d THEN Kept(d, f) ELSE Entry(p)
    BY <1>0, <1>1, <2>1, RelevantPath DEF Entry, cpuObjectPath
  <2> QED BY <2>1, <2>2 DEF Asked
<1>2. CASE d.featureID # invalidPathComponent
  <2>1. addSSTFeature(d.cpuIndex, f) /\ d.cpuIndex \in CPUs /\ f \in FeatureProps
    BY <1>2, PathFacts DEF addInterface, FeaturePath
  <2>2. /\ cpus' = cpus /\ features' = [features EXCEPT ![d.cpuIndex] = Kept(d, f)]
        /\ \E s \in Seq(Request) : toService' = toService \o s
    <3>1. CASE Usable(f)
      BY <3>1, <2>1, <1>2, SetCallsType DEF addSSTFeature, Kept
    <3>2. CASE ~Usable(f)
      <4>1. toService \o <<>> = toService /\ <<>> \in Seq(Request)
        BY <1>0
      <4> QED BY <3>2, <4>1, <2>1, <1>2 DEF addSSTFeature, removeFeature, Kept
    <3> QED BY <3>1, <3>2
  <2>3. Entry(p)' = IF p = d THEN Kept(d, f) ELSE Entry(p)
    BY <1>0, <1>2, <2>1, <2>2, RelevantPath DEF Entry, sstObjectPath
  <2> QED BY <2>2, <2>3, AskedMore
<1> QED BY <1>1, <1>2

LEMMA RemoveInterfaceEntry ==
  ASSUME TypeInv, NEW d \in Path, Relevant(d), removeInterface(d), NEW p \in Path, Relevant(p)
  PROVE  /\ Entry(p)' = IF p = d THEN None ELSE Entry(p)
         /\ mapper' = mapper => (Asked(p) => Asked(p)')
<1>0. /\ cpus \in [CPUs -> CpuProps \cup {None}]
      /\ features \in [CPUs -> FeatureProps \cup {None}]
  BY DEF TypeInv, TypeOK
<1>1. CASE d.featureID = invalidPathComponent
  <2>1. /\ cpus' = [cpus EXCEPT ![d.cpuIndex] = None]
        /\ features' = features /\ toService' = toService
    BY <1>1 DEF removeInterface, removeCPU
  <2>2. Entry(p)' = IF p = d THEN None ELSE Entry(p)
    BY <1>0, <1>1, <2>1, RelevantPath DEF Entry, cpuObjectPath
  <2> QED BY <2>1, <2>2 DEF Asked
<1>2. CASE d.featureID # invalidPathComponent
  <2>1. /\ features' = [features EXCEPT ![d.cpuIndex] = None]
        /\ cpus' = cpus /\ toService' = toService
    BY <1>2 DEF removeInterface, removeFeature
  <2>2. Entry(p)' = IF p = d THEN None ELSE Entry(p)
    BY <1>0, <1>2, <2>1, RelevantPath DEF Entry, sstObjectPath
  <2> QED BY <2>1, <2>2 DEF Asked
<1> QED BY <1>1, <1>2

LEMMA NextFollow == DrainInv /\ [Next]_vars => FollowInv'
<1> SUFFICES ASSUME DrainInv, [Next]_vars, thrown' = {}, NEW p \in Followed'
             PROVE  Follows(p)'
  BY DEF FollowInv, Follows
<1>t. /\ TypeInv /\ TypeOK /\ QuietBefore /\ PartiesInv /\ FollowInv
      /\ svc \in [Path -> Props \cup {None}]
      /\ p \in Path /\ Relevant(p) /\ p.cpuIndex \in CPUs
      /\ p.cpuIndex \notin missed' /\ p \notin orphan'
  BY PathFacts DEF DrainInv, IInv, EntryInv, TypeInv, TypeOK, Followed
<1>f. ASSUME thrown = {}, p.cpuIndex \notin missed, p \notin orphan
      PROVE  Follows(p)
  BY <1>f, <1>t DEF FollowInv, Followed, Follows
<1>1. ASSUME NEW d \in Path, NEW f \in PublishedAt(d), AddObject(d, f)
      PROVE  Follows(p)'
  <2>1. /\ svc' = [svc EXCEPT ![d] = f] /\ Emit(Added(d, f)) /\ orphan' = orphan \ {d}
        /\ UNCHANGED <<toService, mapper, matched, cpus, features, thrown, missed>>
    BY <1>1 DEF AddObject
  <2>2. f \in Props /\ f # None /\ (f \in IF d \in FeaturePath THEN FeatureProps ELSE CpuProps)
    BY PublishedFacts
  <2>3. Asked(p)' = Asked(p)
    BY <2>1 DEF Asked
  <2>4. GoodMessage(Added(d, f))
    BY <2>2, MessageFacts DEF GoodMessage, Added
  <2>5. CASE d = p /\ matched
    <3>1. Replaces(Added(d, f), p) /\ Says(Added(d, f)) = svc'[p]
      BY <2>1, <2>5, <1>t DEF Replaces, Added, Says
    <3> QED BY <3>1, <2>1, <2>4, <2>5, <1>t, SendState DEF Emit, GoodMessage
  <2>6. CASE d = p /\ ~matched
    <3>1. Asked(p)
      BY <2>6, <1>t DEF PartiesInv, Asked
    <3>2. svc'[p] # None
      BY <2>1, <2>2, <2>6, <1>t
    <3> QED BY <3>1, <3>2, <2>3 DEF Follows
  <2>7. CASE d # p
    <3>1. Follows(p) /\ svc'[p] = svc[p]
      BY <2>1, <2>7, <1>f, <1>t
    <3>2. CASE matched
      <4>1. Handled(Kept(p, svc[p]), Added(d, f), p) = Kept(p, svc'[p])
        BY <2>7, <3>1 DEF Handled, Replaces, Sets, Added
      <4> QED BY <4>1, <3>1, <3>2, <2>1, <2>3, <2>4, <1>t, SendChange DEF Emit
    <3>3. CASE ~matched
      BY <3>1, <3>3, <2>1, <2>3, <1>t, NothingSent DEF Emit
    <3> QED BY <3>2, <3>3
  <2> QED BY <2>5, <2>6, <2>7
<1>2. ASSUME NEW d \in Path, RemoveObject(d)
      PROVE  Follows(p)'
  <2>1. /\ svc' = [svc EXCEPT ![d] = None] /\ Emit(Removed(d))
        /\ UNCHANGED <<toService, mapper, matched, cpus, features, thrown, orphan, missed>>
    BY <1>2 DEF RemoveObject
  <2>2. Follows(p)
    BY <2>1, <1>f, <1>t
  <2>3. Asked(p)' = Asked(p)
    BY <2>1 DEF Asked
  <2>4. GoodMessage(Removed(d))
    BY MessageFacts DEF GoodMessage, Removed
  <2>5. CASE d = p /\ matched
    <3>1. Replaces(Removed(d), p) /\ Says(Removed(d)) = svc'[p]
      BY <2>1, <2>5, <1>t DEF Replaces, Removed, Says
    <3> QED BY <3>1, <2>1, <2>4, <2>5, <1>t, SendState DEF Emit, GoodMessage
  <2>6. CASE d = p /\ ~matched
    <3>1. Len(toClient') = 0 /\ Entry(p)' = None /\ Kept(p, svc'[p]) = None
      BY <2>1, <2>6, <1>t DEF QuietBefore, PartiesInv, Entry, Kept, Emit
    <3> QED BY <3>1 DEF Follows, Leaves, Written
  <2>7. CASE d # p
    <3>1. svc'[p] = svc[p]
      BY <2>1, <2>7, <1>t
    <3>2. CASE matched
      <4>1. Handled(Kept(p, svc[p]), Removed(d), p) = Kept(p, svc'[p])
        BY <2>7, <3>1 DEF Handled, Replaces, Sets, Removed
      <4> QED BY <4>1, <3>1, <3>2, <2>1, <2>2, <2>3, <2>4, <1>t, SendChange DEF Emit
    <3>3. CASE ~matched
      BY <3>1, <3>3, <2>1, <2>2, <2>3, <1>t, NothingSent DEF Emit
    <3> QED BY <3>2, <3>3
  <2> QED BY <2>5, <2>6, <2>7
<1>3. CASE ServiceCrash
  <2>1. /\ svc[p] = None /\ svc'[p] = None /\ p \notin orphan
        /\ UNCHANGED <<toClient, cpus, features, thrown, missed>>
    BY <1>3, <1>t DEF ServiceCrash
  <2> QED BY <2>1, <1>f, <1>t, NothingSent
<1>4. CASE ServiceRestart
  <2>1. /\ UNCHANGED <<svc, toService, toClient, mapper, cpus, features, thrown, orphan, missed>>
    BY <1>4 DEF ServiceRestart
  <2>2. Asked(p)' = Asked(p)
    BY <2>1 DEF Asked
  <2> QED BY <2>1, <2>2, <1>f, <1>t, NothingSent
\* An error changes nothing; it may answer the GetAll of an object that is gone.
<1>5. ASSUME toService # <<>>, toService' = Tail(toService),
             toClient' = Append(toClient, ErrorReply(Head(toService))),
             UNCHANGED <<svc, mapper, cpus, features>>, Follows(p),
             svc[p] = None \/ ~(Head(toService).type = "GetAll" /\ Head(toService).path = p)
      PROVE  Follows(p)'
  <2> DEFINE m == ErrorReply(Head(toService))
  <2>1. Head(toService) \in Request
    BY <1>5, <1>t, TailFacts DEF TypeOK
  <2>2. GoodMessage(m) /\ ~Replaces(m, p) /\ ~Sets(m, p)
    BY <2>1, ErrorReplyFields DEF GoodMessage, Replaces, Sets
  <2>3. Handled(Kept(p, svc[p]), m, p) = Kept(p, svc'[p])
    BY <2>2, <1>5 DEF Handled
  <2>4. svc[p] # None /\ Asked(p) => svc'[p] # None /\ Asked(p)'
    BY <1>5, <1>t, AskedServed
  <2> QED BY <2>2, <2>3, <2>4, <1>5, <1>t, SendChange
<1>6. CASE CallBounced
  <2>1. /\ UNCHANGED <<svc, mapper, cpus, features, thrown, orphan, missed>>
        /\ svc[p] = None
    BY <1>6, <1>t DEF CallBounced, envVars, PartiesInv
  <2> QED BY <2>1, <1>5, <1>6, <1>f, <1>t DEF CallBounced
<1>7. CASE CallLost
  <2>1. /\ UNCHANGED <<svc, mapper, cpus, features, thrown, orphan>>
        /\ p.cpuIndex \notin missed /\ Head(toService).path # p
    BY <1>7, <1>t DEF CallLost
  <2> QED BY <2>1, <1>5, <1>7, <1>f, <1>t DEF CallLost
<1>8. CASE ServeGetAll
  <2> DEFINE r == Head(toService)
             m == GetAllReply(r.path, svc[r.path])
  <2>1. /\ UNCHANGED <<svc, mapper, cpus, features, thrown, orphan, missed>>
        /\ toClient' = Append(toClient, m) /\ r.type = "GetAll"
        /\ toService # <<>> /\ toService' = Tail(toService)
    BY <1>8 DEF ServeGetAll, envVars
  <2>2. r \in Request
    BY <2>1, <1>t, TailFacts DEF TypeOK
  <2>3. r.path \in Path /\ Relevant(r.path) /\ Follows(p)
    BY <2>1, <2>2, <1>f, <1>t, RequestFields
  <2>4. GoodMessage(m)
    BY <2>3, <1>t, MessageFacts DEF TypeOK, GoodMessage, GetAllReply
  <2>5. CASE r.path = p /\ svc[p] # None
    <3>1. Replaces(m, p) /\ Says(m) = svc'[p] /\ m \in Message
      BY <2>1, <2>4, <2>5 DEF Replaces, GetAllReply, GoodMessage, Says
    <3> QED BY <3>1, <2>1, <1>t, SendState
  <2>6. CASE ~(r.path = p /\ svc[p] # None)
    <3>1. ~Replaces(m, p) /\ ~Sets(m, p)
      BY <2>6 DEF Replaces, Sets, GetAllReply
    <3>2. Handled(Kept(p, svc[p]), m, p) = Kept(p, svc'[p])
      BY <3>1, <2>1 DEF Handled
    <3>3. svc[p] # None /\ Asked(p) => svc'[p] # None /\ Asked(p)'
      BY <2>1, <2>6, <1>t, AskedServed
    <3> QED BY <3>2, <3>3, <2>1, <2>3, <2>4, <1>t, SendChange
  <2> QED BY <2>5, <2>6
<1>9. CASE ServeSet
  <2> DEFINE r == Head(toService)
             f == svc[r.path]
             m == SetReply(r.path, r.prop)
  <2>1. /\ UNCHANGED <<mapper, cpus, features, thrown, orphan, missed>> /\ r.type = "Set"
        /\ toService # <<>> /\ toService' = Tail(toService)
    BY <1>9 DEF ServeSet
  <2>2. r \in Request
    BY <2>1, <1>t, TailFacts DEF TypeOK
  <2>3. /\ r.path \in Path /\ r.prop \in MutableProperty /\ r.path \in FeaturePath
        /\ r.path.featureID = sstTPMIID /\ Follows(p)
    BY <2>1, <2>2, <1>f, <1>t, RequestFields, PathFacts
       DEF FeaturePath, sstTPMIID, invalidPathComponent
  <2>4. CASE f # None /\ ~f.locked
    <3>1. /\ svc' = [svc EXCEPT ![r.path] = Write(f, r.prop)]
          /\ toClient' = Append(toClient, m)
      BY <1>9, <2>4 DEF ServeSet
    <3>2. f \in FeatureProps
      BY <2>3, <2>4, <1>t DEF TypeOK
    <3>3. /\ Write(f, r.prop) \in FeatureProps /\ Write(f, r.prop) # None
          /\ Write(f, r.prop).locked = f.locked /\ Write(f, r.prop).ok = f.ok
      BY <3>2, <2>3, WriteType, PublishedFacts
    <3>4. GoodMessage(m)
      BY <2>3, MessageFacts DEF GoodMessage, SetReply
    <3>5. svc[p] # None /\ Asked(p) => svc'[p] # None /\ Asked(p)'
      <4>1. svc[p] # None => svc'[p] # None
        BY <3>1, <3>3, <1>t
      <4> QED BY <4>1, <2>1, <1>t, AskedServed
    <3>6. Kept(p, svc'[p]) = Handled(Kept(p, svc[p]), m, p)
      <4>1. CASE r.path = p
        <5>1. Handled(Kept(p, f), m, p) = Written(Kept(p, f), {r.prop})
          BY <4>1 DEF Handled, Replaces, Sets, SetReply
        <5>2. Written(f, {r.prop}) = Write(f, r.prop)
          BY <2>3, <2>4 DEF Written, MutableProperty
        <5>3. /\ Kept(p, f) = IF f.ok THEN f ELSE None
              /\ Kept(p, Write(f, r.prop)) = IF f.ok THEN Write(f, r.prop) ELSE None
          BY <4>1, <3>3, <2>3, <2>4 DEF Kept, Usable, sstTPMIID, invalidPathComponent
        <5>4. svc'[p] = Write(f, r.prop) /\ svc[p] = f
          BY <4>1, <3>1, <1>t
        <5>5. Written(None, {r.prop}) = None
          BY DEF Written
        <5> QED BY <5>1, <5>2, <5>3, <5>4, <5>5
      <4>2. CASE r.path # p
        <5>1. svc'[p] = svc[p]
          BY <4>2, <3>1, <1>t
        <5> QED BY <5>1, <4>2 DEF Handled, Replaces, Sets, SetReply
      <4> QED BY <4>1, <4>2
    <3> QED BY <3>1, <3>4, <3>5, <3>6, <2>1, <2>3, <1>t, SendChange
  <2>5. CASE ~(f # None /\ ~f.locked)
    <3>1. svc' = svc /\ toClient' = Append(toClient, ErrorReply(r))
      BY <1>9, <2>5 DEF ServeSet
    <3> QED BY <3>1, <2>1, <2>3, <1>5
  <2> QED BY <2>4, <2>5
<1>10. CASE MapperReply
  <2>1. /\ UNCHANGED <<svc, toService, toClient, cpus, features, thrown, orphan>>
        /\ mapper' = [state |-> "replied", paths |-> {d \in Path : svc[d] # None}]
        /\ missed' = missed
    BY <1>10, <1>t DEF MapperReply
  <2>2. svc[p] # None => Asked(p)'
    BY <2>1, <1>t DEF Asked
  <2> QED BY <2>1, <2>2, <1>f, <1>t, NothingSent
<1>11. CASE Construct
  <2>1. /\ UNCHANGED <<svc, toService, toClient, cpus, features, thrown, orphan, missed>>
        /\ mapper' = [state |-> "asked", paths |-> {}]
    BY <1>11 DEF Construct, envVars
  <2>2. Asked(p)'
    BY <2>1 DEF Asked
  <2> QED BY <2>1, <2>2, <1>f, <1>t, NothingSent
<1>12. CASE handleGetTPMISubTree
  <2> DEFINE S == {d \in mapper.paths : Relevant(d)}
  <2>1. /\ UNCHANGED <<svc, toClient, cpus, features, thrown, orphan, missed>>
        /\ mapper.state \in {"replied", "failed"}
    BY <1>12 DEF handleGetTPMISubTree, envVars
  <2>2. mapper.state = "replied"
    BY <2>1, <1>t DEF PartiesInv
  <2>3. S \in SUBSET Path /\ \A d \in S : Relevant(d)
    BY <1>t DEF TypeOK
  <2>4. PICK q \in Orderings(S) : toService' = toService \o [i \in DOMAIN q |-> GetAll(q[i])]
    BY <1>12 DEF handleGetTPMISubTree
  <2> DEFINE s == [i \in DOMAIN q |-> GetAll(q[i])]
  <2>5. s \in Seq(Request)
    BY <2>3, OrderingsType
  <2>6. Cardinality(S) \in Nat /\ DOMAIN q = 1..Cardinality(S)
    BY <2>3, PublishedAssumption, FS_Subset, FS_CardinalityType DEF Orderings
  <2>7. Len(s) = Cardinality(S)
    BY <2>6
  <2>8. /\ Len(toService) \in Nat /\ Len(toService') = Len(toService) + Len(s)
        /\ \A i \in 1..Len(toService) : toService'[i] = toService[i]
        /\ \A i \in 1..Len(s) : toService'[Len(toService) + i] = s[i]
    BY <2>4, <2>5, <1>t, ConcatFacts DEF TypeOK
  <2>9. ASSUME p \in mapper.paths PROVE Asked(p)'
    <3>1. PICK i \in 1..Cardinality(S) : q[i] = p
      <4>1. p \in S
        BY <2>9, <1>t
      <4> HIDE DEF S
      <4> QED BY <4>1, <2>3, OrderingsReach
    <3>2. s[i] = GetAll(p)
      BY <3>1, <2>6
    <3>3. Len(toService) + i \in 1..Len(toService') /\ toService'[Len(toService) + i] = s[i]
      BY <3>1, <2>7, <2>8
    <3> QED BY <3>2, <3>3 DEF Asked, GetAll
  <2>10. Asked(p) => Asked(p)'
    <3>1. \A i \in 1..Len(toService) : i \in 1..Len(toService') /\ toService'[i] = toService[i]
      BY <2>6, <2>7, <2>8
    <3> QED BY <3>1, <2>2, <2>9 DEF Asked
  <2> QED BY <2>1, <2>10, <1>f, <1>t, NothingSent
<1>13. ASSUME NEW types, Receive(types), thrown' = thrown,
              Entry(p)' = Handled(Entry(p), Head(toClient), p), Asked(p) => Asked(p)'
       PROVE  Follows(p)'
  <2>1. /\ UNCHANGED <<svc, mapper, orphan, missed>>
        /\ toClient # <<>> /\ toClient' = Tail(toClient)
    BY <1>13 DEF Receive, envVars
  <2> QED BY <2>1, <1>13, <1>f, <1>t, HandleHead
<1>14. ASSUME NEW types, Receive(types)
       PROVE  /\ GoodMessage(Head(toClient)) /\ Head(toClient).path \in Path /\ mapper' = mapper
              /\ Head(toClient).type \in types
  BY <1>14, <1>t, ChannelTail DEF Receive, GoodMessage, Message
<1>15. CASE handleTPMISignal
  <2> DEFINE m == Head(toClient)
  <2>1. Receive({"Added", "Removed"}) /\ thrown' = thrown
    BY <1>15 DEF handleTPMISignal
  <2>2. GoodMessage(m) /\ m.path \in Path /\ mapper' = mapper /\ m.type \in {"Added", "Removed"}
    BY <2>1, <1>14
  <2>3. Replaces(m, p) <=> m.path = p
    BY <2>2 DEF Replaces
  <2>4. ~Sets(m, p)
    BY <2>2 DEF Sets
  <2>5. CASE ~Relevant(m.path) /\ Ignore
    <3>1. Entry(p)' = Entry(p) /\ (Asked(p) => Asked(p)') /\ m.path # p
      BY <2>2, <2>5, <1>t DEF Ignore, Entry, Asked
    <3> QED BY <3>1, <2>1, <2>3, <2>4, <1>13 DEF Handled
  <2>6. CASE Relevant(m.path) /\ m.type = "Added" /\ addInterface(m.path, m.props)
    <3>1. /\ Entry(p)' = IF p = m.path THEN Kept(m.path, m.props) ELSE Entry(p)
          /\ Asked(p) => Asked(p)'
      BY <2>2, <2>6, <1>t, AddInterfaceEntry DEF GoodMessage
    <3>2. Entry(p)' = Handled(Entry(p), m, p)
      BY <3>1, <2>3, <2>4, <2>6 DEF Handled, Says
    <3> QED BY <3>1, <3>2, <2>1, <1>13
  <2>7. CASE Relevant(m.path) /\ m.type = "Removed" /\ removeInterface(m.path)
    <3>1. /\ Entry(p)' = IF p = m.path THEN None ELSE Entry(p)
          /\ Asked(p) => Asked(p)'
      BY <2>2, <2>7, <1>t, RemoveInterfaceEntry
    <3>2. Kept(p, Says(m)) = None
      BY <2>7 DEF Kept, Says
    <3>3. Entry(p)' = Handled(Entry(p), m, p)
      BY <3>1, <3>2, <2>3, <2>4 DEF Handled
    <3> QED BY <3>1, <3>3, <2>1, <1>13
  <2> QED BY <1>15, <2>5, <2>6, <2>7 DEF handleTPMISignal
<1>16. CASE handleGetAllReply
  <2> DEFINE m == Head(toClient)
  <2>1. Receive({"GetAllReply"}) /\ thrown' = thrown
    BY <1>16 DEF handleGetAllReply
  <2>2. /\ GoodMessage(m) /\ m.path \in Path /\ mapper' = mapper /\ m.type = "GetAllReply"
        /\ Relevant(m.path)
    BY <2>1, <1>14 DEF GoodMessage
  <2>3. (Replaces(m, p) <=> (m.path = p /\ m.props # None)) /\ ~Sets(m, p)
    BY <2>2 DEF Replaces, Sets
  <2>4. CASE m.props = None /\ Ignore
    <3>1. Entry(p)' = Entry(p) /\ (Asked(p) => Asked(p)')
      BY <2>2, <2>4 DEF Ignore, Entry, Asked
    <3> QED BY <3>1, <2>1, <2>3, <2>4, <1>13 DEF Handled
  <2>5. CASE m.props # None /\ addInterface(m.path, m.props)
    <3>1. /\ Entry(p)' = IF p = m.path THEN Kept(m.path, m.props) ELSE Entry(p)
          /\ Asked(p) => Asked(p)'
      BY <2>2, <2>5, <1>t, AddInterfaceEntry DEF GoodMessage
    <3>2. Entry(p)' = Handled(Entry(p), m, p)
      BY <3>1, <2>2, <2>3, <2>5 DEF Handled, Says
    <3> QED BY <3>1, <3>2, <2>1, <1>13
  <2> QED BY <1>16, <2>4, <2>5 DEF handleGetAllReply
<1>17. CASE handleSetReply
  <2> DEFINE m == Head(toClient)
             c == m.path.cpuIndex
  <2>1. Receive({"SetReply", "SetError"}) /\ cpus' = cpus /\ toService' = toService
    BY <1>17 DEF handleSetReply
  <2>2. /\ GoodMessage(m) /\ m.path \in Path /\ mapper' = mapper
        /\ m.type \in {"SetReply", "SetError"}
    BY <2>1, <1>14
  <2>3. /\ m.path = sstObjectPath(c) /\ c \in CPUs /\ m.prop \in MutableProperty
        /\ m.path.featureID # invalidPathComponent
    BY <2>2, PathFacts DEF GoodMessage, sstTPMIID, invalidPathComponent
  <2>4. ~Replaces(m, p) /\ (Asked(p) => Asked(p)')
    BY <2>1, <2>2 DEF Replaces, Asked
  <2>5. CASE m.type = "SetError" /\ UNCHANGED <<features, thrown>>
    <3>1. Entry(p)' = Entry(p) /\ ~Sets(m, p)
      BY <2>1, <2>5 DEF Entry, Sets
    <3> QED BY <3>1, <2>1, <2>4, <2>5, <1>13 DEF Handled
  <2>6. CASE /\ m.type = "SetReply" /\ features[c] # None /\ thrown' = thrown
             /\ features' = [features EXCEPT ![c] = Write(features[c], m.prop)]
    <3>1. features \in [CPUs -> FeatureProps \cup {None}]
      BY <1>t DEF TypeOK
    <3>2. Entry(p)' = IF m.path = p THEN Write(features[c], m.prop) ELSE Entry(p)
      BY <3>1, <2>1, <2>3, <2>6, <1>t, RelevantPath DEF Entry, sstObjectPath
    <3>3. m.path = p => Entry(p) = features[c] /\ Sets(m, p)
      BY <2>3, <2>6 DEF Entry, Sets
    <3>4. Written(features[c], {m.prop}) = Write(features[c], m.prop)
      BY <2>3, <2>6 DEF Written, MutableProperty
    <3>5. Entry(p)' = Handled(Entry(p), m, p)
      BY <3>2, <3>3, <3>4, <2>4 DEF Handled, Sets
    <3> QED BY <3>5, <2>1, <2>4, <2>6, <1>13
  <2>7. CASE m.type = "SetReply" /\ features[c] = None /\ thrown' = thrown \cup {c}
    BY <2>7
  <2> QED BY <1>17, <2>5, <2>6, <2>7 DEF handleSetReply
<1>18. CASE UNCHANGED vars
  <2>1. UNCHANGED <<svc, toService, toClient, mapper, cpus, features, thrown, orphan, missed>>
    BY <1>18 DEF vars
  <2>2. Asked(p)' = Asked(p)
    BY <2>1 DEF Asked
  <2> QED BY <2>1, <2>2, <1>f, <1>t, NothingSent
<1> QED
  BY <1>1, <1>2, <1>3, <1>4, <1>6, <1>7, <1>8, <1>9, <1>10, <1>11, <1>12, <1>15, <1>16,
     <1>17, <1>18 DEF Next, Environment, Service, Client

\* Once nothing is in flight the cache holds, for every CPU none of whose calls
\* failed, exactly what the service publishes and the cache can use, however
\* publications, removals, restarts, replies and property writes have crossed.
THEOREM AlwaysAgreesWhenDrained == Spec => []DrainedAgreement
<1>1. Init => DrainInv
  BY InitType, InitEntry, InitFollow DEF DrainInv, IInv
<1>2. DrainInv /\ [Next]_vars => DrainInv'
  BY NextType, NextEntry, NextParties, NextFollow DEF DrainInv, IInv
<1>3. DrainInv => DrainedAgreement
  <2> SUFFICES ASSUME DrainInv, Drained, thrown = {} PROVE DrainedAgreement
    BY DEF DrainedAgreement
  <2>1. ASSUME NEW c \in CPUs \ missed,
               NEW p \in {cpuObjectPath(c), sstObjectPath(c)}, p \notin orphan
        PROVE  Entry(p) = Kept(p, svc[p])
    <3>1. p \in Followed
      <4>1. p \in Path
        BY PathFacts
      <4>2. p.cpuIndex = c /\ (p.featureID = -1 \/ p.featureID = 5)
        BY DEF cpuObjectPath, sstObjectPath, sstTPMIID, invalidPathComponent
      <4>3. Relevant(p)
        BY <4>2 DEF Relevant, decodePath, sstTPMIID, invalidPathComponent
      <4> QED BY <4>1, <4>2, <4>3, <2>1 DEF Followed
    <3>2. Len(toClient) = 0 /\ Len(toService) = 0 /\ mapper.state = "done"
      BY DEF Drained
    <3>3. ~Asked(p)
      BY <3>2 DEF Asked
    <3>4. Leaves(Entry(p), toClient, p, Kept(p, svc[p]))
      BY <3>1, <3>3 DEF DrainInv, FollowInv
    <3>5. SetBehind(toClient, 0, p) = {}
      BY <3>2 DEF SetBehind
    <3> QED BY <3>2, <3>4, <3>5, WrittenNothing DEF Leaves
  <2>2. \A c \in CPUs :
          /\ Entry(cpuObjectPath(c)) = cpus[c] /\ Entry(sstObjectPath(c)) = features[c]
          /\ \A v : Kept(cpuObjectPath(c), v) = IF v # None /\ v.ok THEN v ELSE None
          /\ \A v : Kept(sstObjectPath(c), v) = IF v # None /\ Usable(v) THEN v ELSE None
    BY DEF Entry, Kept, cpuObjectPath, sstObjectPath, sstTPMIID, invalidPathComponent
  <2> QED BY <2>1, <2>2 DEF DrainedAgreement
<1> QED BY <1>1, <1>2, <1>3, PTL DEF Spec

=============================================================================
