--------------------------- MODULE StartupProofs ---------------------------
(***************************************************************************)
(* Proofs about module Startup: its type invariant, that the ring holds    *)
(* what the discovery holds, that initRing is called once, that the ring   *)
(* does to its peers what Membership says, and that a watch which has      *)
(* delivered everything leaves exactly the pods that run.                  *)
(***************************************************************************)
EXTENDS Startup, SequenceTheorems, FiniteSetTheorems, TLAPS

Event == [pod : Pod, phase : {"Running", "ended"}]

(* What is known of this node: its pod never ends, so no event ends it, and *)
(* a first watch that found it has put it into peerMap, where it stays as  *)
(* long as no event can be of another pod with its address.                *)
MeInv ==
  /\ initDiscovery = "resolved" /\ alone(Me) => podIP[Me] \in peerMap
  /\ \A i \in DOMAIN events : pods[events[i].pod] # "absent"
  /\ pods[Me] \in {"absent", "running"}
  /\ \A i \in DOMAIN events : events[i].phase = "ended" => events[i].pod # Me
  /\ ring = "discovering" => view = {}

StartupInv == TypeOK /\ RingFollowsDiscovery /\ OneInit /\ MeInv

-----------------------------------------------------------------------------
(* The events of the watch *)

(* A change is the last event of an open watch, and no event otherwise.    *)
LEMMA Reported ==
  ASSUME TypeOK, NEW p \in Pod, NEW phase \in {"Running", "ended"}, report(p, phase)
  PROVE  /\ events' \in Seq(Event)
         /\ watch # "open" => events' = events
         /\ watch = "open" => /\ DOMAIN events' = 1 .. Len(events) + 1
                              /\ events'[Len(events) + 1] = [pod |-> p, phase |-> phase]
         /\ \A i \in DOMAIN events : i \in DOMAIN events' /\ events'[i] = events[i]
<1> DEFINE e == [pod |-> p, phase |-> phase]
<1>1. events \in Seq(Event) /\ e \in Event
  BY DEF TypeOK, Event
<1>2. CASE watch = "open"
  <2>1. events' = Append(events, e)
    BY <1>2 DEF report
  <2>2. /\ Append(events, e) \in Seq(Event)
        /\ Len(Append(events, e)) = Len(events) + 1
        /\ \A i \in 1 .. Len(events) : Append(events, e)[i] = events[i]
        /\ Append(events, e)[Len(events) + 1] = e
    BY <1>1, AppendProperties
  <2>3. DOMAIN events' = 1 .. Len(events) + 1
    BY <2>1, <2>2, LenProperties
  <2>4. DOMAIN events = 1 .. Len(events) /\ Len(events) \in Nat
    BY <1>1, LenProperties
  <2>5. QED
    BY <1>2, <2>1, <2>2, <2>3, <2>4
<1>3. CASE watch # "open"
  BY <1>1, <1>3 DEF report
<1>4. QED
  BY <1>2, <1>3

(* The list of a new watch has every pod that is there, and only those,    *)
(* each with its phase.                                                    *)
LEMMA Listed ==
  ASSUME TypeOK, watchOpens
  PROVE  /\ events' \in Seq(Event)
         /\ \A i \in DOMAIN events' :
              /\ pods[events'[i].pod] \in {"running", "ended"}
              /\ events'[i].phase = "Running" <=> pods[events'[i].pod] = "running"
         /\ \A p \in Pod : pods[p] \in {"running", "ended"} =>
              \E i \in DOMAIN events' : events'[i].pod = p
<1> DEFINE there == {p \in Pod : pods[p] \in {"running", "ended"}}
           n     == Cardinality(there)
           at(p) == [pod |-> p, phase |-> IF pods[p] = "running" THEN "Running" ELSE "ended"]
<1>1. PICK list \in SetToSeqs(there) : events' = [i \in DOMAIN list |-> at(list[i])]
  BY DEF watchOpens
<1>2. IsFiniteSet(there) /\ n \in Nat
  <2>1. IsFiniteSet(Pod) /\ there \in SUBSET Pod
    BY StartupAssumption
  <2>2. IsFiniteSet(there)
    BY <2>1, FS_Subset
  <2>3. QED
    BY <2>2, FS_CardinalityType
<1>3. list \in [1 .. n -> there] /\ \A i, j \in 1 .. n : i # j => list[i] # list[j]
  BY DEF SetToSeqs
<1>4. \A p \in there : \E i \in 1 .. n : list[i] = p
  <2>1. list \in Injection(1 .. n, there)
    BY <1>3 DEF Injection, IsInjective
  <2>2. Cardinality(1 .. n) = n
    BY <1>2, FS_Interval
  <2>3. list \in Surjection(1 .. n, there)
    BY <1>2, <2>1, <2>2, FS_Injection
  <2>4. QED
    BY <2>3 DEF Surjection
<1>5. DOMAIN events' = 1 .. n /\ \A i \in 1 .. n : events'[i] = at(list[i]) /\ list[i] \in there
  BY <1>1, <1>3
<1>6. events' \in Seq(Event)
  <2>1. \A i \in 1 .. n : at(list[i]) \in Event
    BY <1>3 DEF Event
  <2>2. events' \in [1 .. n -> Event]
    BY <1>1, <1>3, <2>1
  <2> HIDE DEF n
  <2>3. QED
    BY <1>2, <2>2, SeqDef
<1>7. ASSUME NEW i \in DOMAIN events'
      PROVE  /\ pods[events'[i].pod] \in {"running", "ended"}
             /\ events'[i].phase = "Running" <=> pods[events'[i].pod] = "running"
  BY <1>5, <1>7
<1>8. ASSUME NEW p \in Pod, pods[p] \in {"running", "ended"}
      PROVE  \E i \in DOMAIN events' : events'[i].pod = p
  <2>1. PICK i \in 1 .. n : list[i] = p
    BY <1>4, <1>8
  <2>2. i \in DOMAIN events' /\ events'[i].pod = p
    BY <1>5, <2>1
  <2>3. QED
    BY <2>2
<1>9. QED
  BY <1>6, <1>7, <1>8

(* A delivery takes the first event and leaves the others in their order.  *)
LEMMA Delivered ==
  ASSUME TypeOK, events # << >>, events' = Tail(events)
  PROVE  /\ 1 \in DOMAIN events /\ Head(events) = events[1] /\ Head(events) \in Event
         /\ events' \in Seq(Event)
         /\ DOMAIN events \subseteq Nat \ {0}
         /\ \A i \in DOMAIN events' : i + 1 \in DOMAIN events /\ events'[i] = events[i + 1]
         /\ \A i \in DOMAIN events : i > 1 => i - 1 \in DOMAIN events'
         /\ DOMAIN events' \subseteq Nat \ {0}
<1>1. events \in Seq(Event)
  BY DEF TypeOK, Event
<1>2. DOMAIN events = 1 .. Len(events) /\ Len(events) \in Nat /\ Len(events) # 0
  BY <1>1, LenProperties, EmptySeq
<1>3. /\ Tail(events) \in Seq(Event) /\ Len(Tail(events)) = Len(events) - 1
      /\ \A i \in 1 .. Len(Tail(events)) : Tail(events)[i] = events[i + 1]
  BY <1>1, HeadTailProperties
<1>4. DOMAIN events' = 1 .. Len(events) - 1
  BY <1>3, LenProperties
<1>5. Head(events) = events[1] /\ events[1] \in Event
  BY <1>1, <1>2
<1>6. QED
  BY <1>2, <1>3, <1>4, <1>5

-----------------------------------------------------------------------------
(* The type invariant, and the ring's peers *)

(* A pod that no other has shared its address with had it to itself before. *)
LEMMA AloneBefore ==
  ASSUME NEW p \in Pod, \A x \in Pod : pods[x] # "absent" => pods'[x] # "absent", alone(p)'
  PROVE  alone(p)
  BY DEF alone

(* Then no event that ends a pod is of its address.                        *)
LEMMA EndsOthers ==
  ASSUME MeInv, alone(Me), NEW i \in DOMAIN events, events[i] \in Event, events[i].phase = "ended"
  PROVE  podIP[events[i].pod] # podIP[Me]
<1>1. events[i].pod \in Pod \ {Me} /\ pods[events[i].pod] # "absent"
  BY DEF MeInv, Event
<1>2. QED
  BY <1>1 DEF alone

LEMMA InitStartup == Init => StartupInv
<1> SUFFICES ASSUME Init PROVE StartupInv
  OBVIOUS
<1>1. TypeOK
  <2>1. events \in Seq([pod : Pod, phase : {"Running", "ended"}])
    BY EmptySeq DEF Init
  <2>2. pods \in [Pod -> {"absent", "running", "ended", "deleted"}] /\ untold \subseteq Pod
    BY DEF Init
  <2>3. /\ watch \in {"opening", "open", "dead"} /\ watches \in 1 .. MaxWatches
        /\ isResolved \in BOOLEAN
        /\ initDiscovery \in {"pending", "resolved", "rejected"}
        /\ peerMap \subseteq Ip /\ view \subseteq Ip
    <3>1. MaxWatches \in Nat /\ MaxWatches # 0
      BY StartupAssumption
    <3>2. 1 \in 1 .. MaxWatches
      BY <3>1
    <3>3. QED
      BY <3>2 DEF Init
  <2>4. /\ ring \in {"discovering", "starting", "waiting", "ready", "failed"}
        /\ inits \in Nat
        /\ kv \in [isReady : BOOLEAN, isInitRunning : BOOLEAN, startupError : BOOLEAN]
        /\ ring # "discovering" => initDiscovery = "resolved"
        /\ kv.isReady = (ring = "ready") /\ kv.isInitRunning = ~ kv.isReady
    BY DEF Init
  <2>5. calls \in [Caller -> {"none", "waiting", "done", "thrown"}]
    BY DEF Init
  <2>6. QED
    BY <2>1, <2>2, <2>3, <2>4, <2>5 DEF TypeOK
<1>2. RingFollowsDiscovery /\ OneInit
  BY DEF Init, RingFollowsDiscovery, OneInit
<1>3. MeInv
  BY StartupAssumption DEF Init, MeInv
<1>4. QED
  BY <1>1, <1>2, <1>3 DEF StartupInv

(* What a change of the cluster does to the events is safe for this node   *)
(* when no event ends its pod.                                             *)
LEMMA ClusterStartup ==
  ASSUME StartupInv, NEW p \in Pod, NEW phase \in {"Running", "ended"}, report(p, phase),
         phase = "ended" => p # Me,
         NEW now \in {"running", "ended", "deleted"}, pods' = [pods EXCEPT ![p] = now],
         pods'[Me] \in {"absent", "running"}, untold' \subseteq Pod, unchangedByCluster
  PROVE  StartupInv'
<1>1. /\ pods' \in [Pod -> {"absent", "running", "ended", "deleted"}]
      /\ \A x \in Pod : pods[x] # "absent" => pods'[x] # "absent"
      /\ pods'[p] # "absent"
  BY DEF StartupInv, TypeOK
<1>2. alone(Me)' => alone(Me)
  BY <1>1, AloneBefore, StartupAssumption
<1>3. TypeOK'
  <2>1. events' \in Seq([pod : Pod, phase : {"Running", "ended"}])
    BY Reported DEF StartupInv, Event
  <2>2. QED
    BY <1>1, <2>1 DEF StartupInv, TypeOK, unchangedByCluster, peerRing, store
<1>4. RingFollowsDiscovery' /\ OneInit'
  BY <1>2 DEF StartupInv, RingFollowsDiscovery, OneInit, unchangedByCluster, peerRing, store
<1>5. MeInv'
  <2>1. ASSUME NEW i \in DOMAIN events'
        PROVE  /\ events'[i].phase = "ended" => events'[i].pod # Me
               /\ pods'[events'[i].pod] # "absent"
    <3>1. events \in Seq(Event)
      BY DEF StartupInv, TypeOK, Event
    <3>2. DOMAIN events = 1 .. Len(events) /\ Len(events) \in Nat
      BY <3>1, LenProperties
    <3>3. CASE i \in DOMAIN events
      <4>1. events'[i] = events[i]
        BY <3>3, Reported DEF StartupInv
      <4>2. events[i] \in Event
        BY <3>1, <3>2, <3>3
      <4>3. events[i].pod \in Pod
        BY <4>2 DEF Event
      <4>4. QED
        BY <1>1, <3>3, <4>1, <4>3 DEF StartupInv, MeInv
    <3>4. CASE i \notin DOMAIN events
      <4>1. /\ watch # "open" => events' = events
            /\ watch = "open" => DOMAIN events' = 1 .. Len(events) + 1
        BY Reported DEF StartupInv
      <4>2. watch = "open"
        BY <2>1, <3>4, <4>1
      <4>3. i \in 1 .. Len(events) + 1
        BY <2>1, <4>1, <4>2
      <4>4. i = Len(events) + 1
        BY <3>2, <3>4, <4>3
      <4>5. events'[i] = [pod |-> p, phase |-> phase]
        BY <4>2, <4>4, Reported DEF StartupInv
      <4>6. QED
        BY <1>1, <2>1, <4>5
    <3>5. QED
      BY <3>3, <3>4
  <2>2. QED
    BY <1>2, <2>1 DEF StartupInv, MeInv, unchangedByCluster, peerRing
<1>6. QED
  BY <1>3, <1>4, <1>5 DEF StartupInv

LEMMA OpensStartup == StartupInv /\ watchOpens => StartupInv'
<1> SUFFICES ASSUME StartupInv, watchOpens PROVE StartupInv'
  OBVIOUS
<1>1. TypeOK
  BY DEF StartupInv
<1>2. TypeOK'
  <2>1. events' \in Seq([pod : Pod, phase : {"Running", "ended"}])
    BY <1>1, Listed DEF Event
  <2>2. QED
    BY <1>1, <2>1 DEF TypeOK, watchOpens, cluster, peerRing, store
<1>3. pods' = pods /\ (alone(Me)' => alone(Me))
  BY DEF watchOpens, cluster, alone
<1>4. RingFollowsDiscovery' /\ OneInit'
  BY <1>3 DEF StartupInv, RingFollowsDiscovery, OneInit, watchOpens, peerRing, store
<1>5. MeInv'
  <2>1. ASSUME NEW i \in DOMAIN events'
        PROVE  /\ events'[i].phase = "ended" => events'[i].pod # Me
               /\ pods[events'[i].pod] # "absent"
    BY <1>1, <2>1, Listed DEF StartupInv, MeInv
  <2>2. QED
    BY <1>3, <2>1 DEF StartupInv, MeInv, watchOpens, cluster, peerRing
<1>6. QED
  BY <1>2, <1>4, <1>5 DEF StartupInv

LEMMA EndsStartup == StartupInv /\ watchEnds => StartupInv'
<1> SUFFICES ASSUME StartupInv, watchEnds PROVE StartupInv'
  OBVIOUS
<1>1. TypeOK
  BY DEF StartupInv
<1>2. TypeOK'
  <2>1. events' \in Seq([pod : Pod, phase : {"Running", "ended"}])
    BY EmptySeq DEF watchEnds
  <2>2. untold' \subseteq Pod
    BY <1>1 DEF watchEnds, TypeOK
  <2>3. UNCHANGED <<pods, peerMap, ring, view, inits, kv, calls>>
    BY DEF watchEnds, peerRing, store
  <2>4. watches' \in 1 .. MaxWatches
    <3>1. watches \in Nat /\ MaxWatches \in Nat /\ 1 <= watches /\ watches <= MaxWatches
      BY <1>1, StartupAssumption DEF TypeOK
    <3>2. watches' = watches \/ (watches < MaxWatches /\ watches' = watches + 1)
      BY DEF watchEnds
    <3>3. QED
      BY <3>1, <3>2
  <2>5. /\ watch' \in {"opening", "open", "dead"}
        /\ isResolved' \in BOOLEAN
        /\ initDiscovery' \in {"pending", "resolved", "rejected"}
        /\ ring # "discovering" => initDiscovery' = "resolved"
    BY <1>1 DEF TypeOK, watchEnds
  <2>6. QED
    BY <1>1, <2>1, <2>2, <2>3, <2>4, <2>5 DEF TypeOK
<1>3. pods' = pods /\ (alone(Me)' => alone(Me))
  BY DEF watchEnds, alone
<1>4. RingFollowsDiscovery' /\ OneInit'
  BY <1>3 DEF StartupInv, RingFollowsDiscovery, OneInit, watchEnds, peerRing, store
<1>5. MeInv'
  <2>1. initDiscovery' = "resolved" => initDiscovery = "resolved"
    BY DEF watchEnds
  <2>2. QED
    BY <1>3, <2>1 DEF StartupInv, MeInv, watchEnds, peerRing
<1>6. QED
  BY <1>2, <1>4, <1>5 DEF StartupInv

LEMMA EventStartup == StartupInv /\ onEvent => StartupInv'
<1> SUFFICES ASSUME StartupInv, onEvent PROVE StartupInv'
  OBVIOUS
<1> DEFINE e == Head(events)
<1>1. TypeOK /\ events # << >> /\ events' = Tail(events)
  BY DEF StartupInv, onEvent
<1>2. e \in Event /\ 1 \in DOMAIN events /\ e = events[1] /\ events' \in Seq(Event)
  BY <1>1, Delivered
<1>3. \A i \in DOMAIN events' : /\ events'[i].phase = "ended" => events'[i].pod # Me
                                /\ pods[events'[i].pod] # "absent"
  <2>1. SUFFICES ASSUME NEW i \in DOMAIN events'
                 PROVE  /\ events'[i].phase = "ended" => events'[i].pod # Me
                        /\ pods[events'[i].pod] # "absent"
    OBVIOUS
  <2>2. i + 1 \in DOMAIN events /\ events'[i] = events[i + 1]
    BY <1>1, <2>1, Delivered
  <2>3. QED
    BY <2>1, <2>2 DEF StartupInv, MeInv
<1>4. podIP[e.pod] \in Ip /\ e.pod \in Pod /\ e.phase \in {"Running", "ended"}
  BY <1>2, StartupAssumption DEF Event
<1>5. UNCHANGED <<pods, untold, watch, watches, ring, inits, kv, calls>>
  BY DEF onEvent, cluster, store
<1>6. alone(Me)' => alone(Me)
  BY <1>5 DEF alone
<1> HIDE DEF e
<1>7. CASE e.phase = "Running"
  <2>1. onRunning(e.pod)
    BY <1>7 DEF onEvent, e
  <2>2. TypeOK'
    <3>1. peerMap' \subseteq Ip /\ view' \subseteq Ip
      BY <1>1, <1>4, <2>1 DEF onRunning, TypeOK
    <3>2. /\ isResolved' \in BOOLEAN
          /\ initDiscovery' \in {"pending", "resolved", "rejected"}
          /\ initDiscovery = "resolved" => initDiscovery' = "resolved"
      BY <1>1, <2>1 DEF onRunning, TypeOK
    <3>3. QED
      BY <1>1, <1>2, <1>5, <3>1, <3>2 DEF TypeOK, Event
  <2>3. RingFollowsDiscovery'
    BY <1>5, <1>6, <2>1 DEF StartupInv, RingFollowsDiscovery, onRunning, registered
  <2>4. MeInv'
    <3>1. initDiscovery' = "resolved" /\ alone(Me)' => podIP[Me] \in peerMap'
      BY <1>6, <2>1 DEF StartupInv, MeInv, onRunning
    <3>2. ring' = "discovering" => view' = {}
      BY <1>5, <2>1 DEF StartupInv, MeInv, onRunning, registered
    <3>3. QED
      BY <1>3, <1>5, <3>1, <3>2 DEF StartupInv, MeInv
  <2>5. QED
    BY <1>5, <2>2, <2>3, <2>4 DEF StartupInv, OneInit
<1>8. CASE e.phase # "Running"
  <2>1. onEnded(e.pod)
    BY <1>8 DEF onEvent, e
  <2>2. alone(Me)' => podIP[e.pod] # podIP[Me]
    <3>1. e.phase = "ended"
      BY <1>4, <1>8
    <3>2. QED
      BY <1>2, <1>6, <3>1, EndsOthers DEF StartupInv
  <2>3. TypeOK'
    <3>1. peerMap' \subseteq Ip /\ view' \subseteq Ip
      BY <1>1, <2>1 DEF onEnded, TypeOK
    <3>2. QED
      BY <1>1, <1>2, <1>5, <2>1, <3>1 DEF TypeOK, Event, onEnded
  <2>4. RingFollowsDiscovery'
    BY <1>5, <1>6, <2>1, <2>2 DEF StartupInv, RingFollowsDiscovery, onEnded, registered
  <2>5. MeInv'
    <3>1. initDiscovery' = "resolved" /\ alone(Me)' => podIP[Me] \in peerMap'
      BY <1>6, <2>1, <2>2 DEF StartupInv, MeInv, onEnded
    <3>2. ring' = "discovering" => view' = {}
      BY <1>5, <2>1 DEF StartupInv, MeInv, onEnded, registered
    <3>3. QED
      BY <1>3, <1>5, <3>1, <3>2 DEF StartupInv, MeInv
  <2>6. QED
    BY <1>5, <2>3, <2>4, <2>5 DEF StartupInv, OneInit
<1>9. QED
  BY <1>7, <1>8

LEMMA CallsStartup ==
  ASSUME StartupInv, NEW c \in Caller, use(c) \/ init(c)
  PROVE  StartupInv'
<1>1. kv.isReady \/ kv.isInitRunning
  BY DEF StartupInv, TypeOK
<1>2. UNCHANGED <<cluster, discovery, peerRing, inits, kv>>
  BY <1>1 DEF use, init
<1>3. calls' \in [Caller -> {"none", "waiting", "done", "thrown"}]
  BY <1>1 DEF use, init, waitForUp, StartupInv, TypeOK
<1>4. TypeOK'
  BY <1>2, <1>3 DEF StartupInv, TypeOK, cluster, discovery, peerRing
<1>5. RingFollowsDiscovery' /\ OneInit' /\ MeInv'
  BY <1>2 DEF StartupInv, RingFollowsDiscovery, OneInit, MeInv, alone, cluster, discovery, peerRing
<1>6. QED
  BY <1>4, <1>5 DEF StartupInv

LEMMA NextStartup == StartupInv /\ [Next]_vars => StartupInv'
<1> SUFFICES ASSUME StartupInv, [Next]_vars PROVE StartupInv'
  OBVIOUS
<1>1. TypeOK
  BY DEF StartupInv
<1>2. ASSUME NEW p \in Pod, podRuns(p) PROVE StartupInv'
  <2>1. /\ pods' = [pods EXCEPT ![p] = "running"]
        /\ pods'[Me] \in {"absent", "running"} /\ untold' \subseteq Pod
        /\ report(p, "Running") /\ unchangedByCluster
    BY <1>1, <1>2 DEF podRuns, StartupInv, TypeOK, MeInv
  <2>2. QED
    BY <2>1, ClusterStartup
<1>3. ASSUME NEW p \in Pod, podEnds(p) PROVE StartupInv'
  <2>1. /\ pods' = [pods EXCEPT ![p] = "ended"]
        /\ pods'[Me] \in {"absent", "running"} /\ untold' \subseteq Pod
        /\ report(p, "ended") /\ unchangedByCluster /\ p # Me
    BY <1>1, <1>3 DEF podEnds, StartupInv, TypeOK, MeInv
  <2>2. QED
    BY <2>1, ClusterStartup
<1>4. ASSUME NEW p \in Pod, podIsDeleted(p) PROVE StartupInv'
  <2> DEFINE phase == IF pods[p] = "running" THEN "Running" ELSE "ended"
  <2>1. /\ pods' = [pods EXCEPT ![p] = "deleted"]
        /\ pods'[Me] \in {"absent", "running"} /\ untold' \subseteq Pod
        /\ report(p, phase) /\ unchangedByCluster /\ p # Me
        /\ phase \in {"Running", "ended"}
    BY <1>1, <1>4 DEF podIsDeleted, StartupInv, TypeOK, MeInv
  <2> HIDE DEF phase
  <2>2. QED
    BY <2>1, ClusterStartup
<1>5. CASE watchOpens
  BY <1>5, OpensStartup
<1>6. CASE watchEnds
  BY <1>6, EndsStartup
<1>7. CASE onEvent
  BY <1>7, EventStartup
<1>8. CASE joinRing
  <2>1. UNCHANGED <<cluster, discovery, store>> /\ ring' = "starting" /\ view' = peerMap
    BY <1>8 DEF joinRing
  <2>2. /\ initDiscovery = "resolved" /\ ring = "discovering"
        /\ alone(Me) => podIP[Me] \in peerMap
    BY <1>8 DEF joinRing, StartupInv, MeInv
  <2>3. TypeOK'
    BY <1>1, <2>1, <2>2 DEF TypeOK, cluster, discovery, store
  <2>4. RingFollowsDiscovery' /\ OneInit' /\ MeInv'
    BY <2>1, <2>2
    DEF StartupInv, RingFollowsDiscovery, OneInit, MeInv, alone, cluster, discovery, store
  <2>5. QED
    BY <2>3, <2>4 DEF StartupInv
<1>9. CASE netManagerStarts
  <2>1. TypeOK'
    BY <1>1, <1>9 DEF TypeOK, netManagerStarts, cluster, discovery, store
  <2>2. RingFollowsDiscovery' /\ OneInit' /\ MeInv'
    BY <1>9 DEF StartupInv, RingFollowsDiscovery, OneInit, MeInv, alone, netManagerStarts,
                cluster, discovery, store
  <2>3. QED
    BY <2>1, <2>2 DEF StartupInv
<1>10. CASE initFails
  <2>1. /\ ring' = ring \/ (ring = "starting" /\ ring' = "failed")
        /\ kv' = [kv EXCEPT !.startupError = TRUE]
        /\ UNCHANGED <<cluster, discovery, view, event, inits, calls>>
    BY <1>10 DEF initFails
  <2>2. TypeOK'
    BY <1>1, <2>1 DEF TypeOK, cluster, discovery
  <2>3. RingFollowsDiscovery' /\ OneInit' /\ MeInv'
    BY <2>1 DEF StartupInv, RingFollowsDiscovery, OneInit, MeInv, alone, cluster, discovery
  <2>4. QED
    BY <2>2, <2>3 DEF StartupInv
<1>11. CASE emitUp
  <2>1. UNCHANGED <<cluster, discovery, view, inits>> /\ ring = "waiting" /\ ring' = "ready"
    BY <1>11 DEF emitUp
  <2>2. kv' = [kv EXCEPT !.isReady = TRUE, !.isInitRunning = FALSE]
    BY <1>11 DEF emitUp
  <2>3. calls' \in [Caller -> {"none", "waiting", "done", "thrown"}]
    BY <1>1, <1>11 DEF emitUp, TypeOK
  <2>4. TypeOK'
    BY <1>1, <2>1, <2>2, <2>3 DEF TypeOK, cluster, discovery
  <2>5. RingFollowsDiscovery' /\ OneInit' /\ MeInv'
    BY <2>1 DEF StartupInv, RingFollowsDiscovery, OneInit, MeInv, alone, cluster, discovery
  <2>6. QED
    BY <2>4, <2>5 DEF StartupInv
<1>12. ASSUME NEW c \in Caller, use(c) \/ init(c) PROVE StartupInv'
  BY <1>12, CallsStartup
<1>13. CASE UNCHANGED vars
  <2>1. TypeOK'
    BY <1>1, <1>13 DEF TypeOK, vars, cluster, discovery, peerRing, store
  <2>2. RingFollowsDiscovery' /\ OneInit' /\ MeInv'
    BY <1>13 DEF StartupInv, RingFollowsDiscovery, OneInit, MeInv, alone, vars,
                 cluster, discovery, peerRing, store
  <2>3. QED
    BY <2>1, <2>2 DEF StartupInv
<1>14. QED
  BY <1>2, <1>3, <1>4, <1>5, <1>6, <1>7, <1>8, <1>9, <1>10, <1>11, <1>12, <1>13 DEF Next

(* The conjunction is inductive.                                           *)
LEMMA StartupInductive == Spec => []StartupInv
<1>1. QED
  BY InitStartup, NextStartup, PTL DEF Spec

(* The state of the discovery, of initRing and of KVStore keeps its types: *)
(* initRing is past its first await only when the first watch found this   *)
(* pod, and KVStore is ready exactly when initRing is done.                *)
THEOREM StartupTypeCorrect == Spec => []TypeOK
<1>1. StartupInv => TypeOK
  BY DEF StartupInv
<1>2. QED
  BY <1>1, StartupInductive, PTL

(* From initRing on the ring holds what the discovery holds, for any       *)
(* number of pods, watches and shared addresses, and this node among it as *)
(* long as no other pod has had its address.                               *)
THEOREM StartupRingFollows == Spec => []RingFollowsDiscovery
<1>1. StartupInv => RingFollowsDiscovery
  BY DEF StartupInv
<1>2. QED
  BY <1>1, StartupInductive, PTL

(* However many calls of init come, _initCache runs once.                  *)
THEOREM StartupOneInit == Spec => []OneInit
<1>1. StartupInv => OneInit
  BY DEF StartupInv
<1>2. QED
  BY <1>1, StartupInductive, PTL

-----------------------------------------------------------------------------
(* The ring implements Membership *)

(* No pod is as if it had never been, once it was.                         *)
LEMMA PodsRemain ==
  TypeOK /\ [Next]_vars => \A x \in Pod : pods[x] # "absent" => pods'[x] # "absent"
<1> SUFFICES ASSUME TypeOK, [Next]_vars, NEW x \in Pod, pods[x] # "absent"
             PROVE  pods'[x] # "absent"
  OBVIOUS
<1>1. ASSUME NEW p \in Pod, podRuns(p) \/ podEnds(p) \/ podIsDeleted(p)
      PROVE  pods'[x] # "absent"
  BY <1>1 DEF podRuns, podEnds, podIsDeleted, TypeOK
<1>2. CASE UNCHANGED pods
  BY <1>2
<1>3. watchOpens \/ watchEnds \/ onEvent \/ joinRing \/ netManagerStarts \/ initFails \/ emitUp
        \/ (\E c \in Caller : use(c) \/ init(c)) \/ UNCHANGED vars => UNCHANGED pods
  BY DEF watchOpens, watchEnds, onEvent, joinRing, netManagerStarts, initFails, emitUp, use, init,
         vars, cluster
<1>4. QED
  BY <1>1, <1>2, <1>3 DEF Next

LEMMA InitViews == Init => Views!Init
  BY DEF Init, Views!Init

(* Before initRing is called and when it is, the ring has no peers; a      *)
(* callback of the discovery adds or removes the one peer it names, and    *)
(* the node itself is not removed while its address is its own.            *)
LEMMA NextViews ==
  StartupInv /\ [Next]_vars
    => [alone(Me)' => Views!Next]_<<[n \in {podIP[Me]} |-> view], event>>
<1> DEFINE me    == podIP[Me]
           of(v) == [n \in {me} |-> v]
<1> SUFFICES ASSUME StartupInv, [Next]_vars, alone(Me)'
             PROVE  Views!Next \/ UNCHANGED <<view, event>>
  OBVIOUS
<1>1. alone(Me)
  <2>1. \A x \in Pod : pods[x] # "absent" => pods'[x] # "absent"
    BY PodsRemain DEF StartupInv
  <2>2. QED
    BY <2>1, AloneBefore, StartupAssumption
<1>2. me \in Ip /\ \A p \in Pod : podIP[p] \in Ip
  BY StartupAssumption
<1>3. CASE onEvent
  <2> DEFINE ip == podIP[Head(events).pod]
  <2>1. Head(events) \in Event /\ Head(events) = events[1] /\ 1 \in DOMAIN events
    BY <1>3, Delivered DEF StartupInv, onEvent
  <2>2. ip \in Ip
    BY <1>2, <2>1 DEF Event
  <2>3. registered => me \in view
    BY <1>1 DEF StartupInv, RingFollowsDiscovery, registered
  <2>4. CASE Head(events).phase = "Running"
    <3>1. onRunning(Head(events).pod)
      BY <1>3, <2>4 DEF onEvent
    <3>2. CASE ip \notin peerMap /\ registered
      <4>1. view' = view \cup {ip} /\ Called("onPeerAdded", ip)
        BY <3>1, <3>2 DEF onRunning
      <4>2. Views!Join(me, ip)
        BY <2>3, <3>2, <4>1 DEF Views!Join, Views!Handled, Called
      <4>3. QED
        BY <2>2, <4>2 DEF Views!Next
    <3>3. CASE ~ (ip \notin peerMap /\ registered)
      BY <3>1, <3>3 DEF onRunning
    <3>4. QED
      BY <3>2, <3>3
  <2>5. CASE Head(events).phase # "Running"
    <3>1. onEnded(Head(events).pod)
      BY <1>3, <2>5 DEF onEvent
    <3>2. CASE registered
      <4>1. view' = view \ {ip} /\ Called("onPeerRemoved", ip)
        BY <3>1, <3>2 DEF onEnded
      <4>2. ip # me
        <5>1. Head(events).phase = "ended"
          BY <2>1, <2>5 DEF Event
        <5>2. QED
          BY <1>1, <2>1, <5>1, EndsOthers DEF StartupInv
      <4>3. Views!Leave(me, ip)
        BY <2>3, <3>2, <4>1, <4>2 DEF Views!Leave, Views!Handled, Called
      <4>4. QED
        BY <2>2, <4>3 DEF Views!Next
    <3>3. CASE ~ registered
      BY <3>1, <3>3 DEF onEnded
    <3>4. QED
      BY <3>2, <3>3
  <2>6. QED
    BY <2>4, <2>5
<1>4. CASE joinRing
  <2>1. view = {} /\ me \in peerMap /\ peerMap \subseteq Ip
    BY <1>1, <1>4 DEF joinRing, StartupInv, MeInv, TypeOK
  <2>2. view' = peerMap /\ Called("initRing", me)
    BY <1>4 DEF joinRing
  <2>3. Views!Start(me)
    BY <2>1, <2>2 DEF Views!Start, Views!Handled, Called
  <2>4. QED
    BY <2>3 DEF Views!Next
<1>5. CASE emitUp
  <2>1. me \in view
    BY <1>1, <1>5 DEF emitUp, StartupInv, RingFollowsDiscovery
  <2>2. UNCHANGED view /\ Called("stealTokens", me)
    BY <1>5 DEF emitUp
  <2>3. Views!Other(me)
    BY <2>1, <2>2 DEF Views!Other, Views!Handled, Called
  <2>4. QED
    BY <2>3 DEF Views!Next
<1>6. ASSUME NEW p \in Pod, podRuns(p) \/ podEnds(p) \/ podIsDeleted(p)
      PROVE  UNCHANGED <<view, event>>
  BY <1>6 DEF podRuns, podEnds, podIsDeleted, unchangedByCluster, peerRing
<1>7. CASE watchOpens \/ watchEnds
  BY <1>7 DEF watchOpens, watchEnds, peerRing
<1>8. CASE netManagerStarts \/ initFails
  BY <1>8 DEF netManagerStarts, initFails
<1>9. ASSUME NEW c \in Caller, use(c) \/ init(c) PROVE UNCHANGED <<view, event>>
  BY <1>9 DEF use, init, peerRing
<1>10. CASE UNCHANGED vars
  BY <1>10 DEF vars, peerRing
<1>11. QED
  BY <1>3, <1>4, <1>5, <1>6, <1>7, <1>8, <1>9, <1>10 DEF Next

(* The discovery uses the ring as module Ring assumes, as long as no other *)
(* pod has had the address of this one: initRing once, with this node      *)
(* among the active peers, callbacks only after it, and no removal of this *)
(* node itself.                                                            *)
THEOREM StartupRefinesMembership == Spec => StartupImplementsMembership
<1>1. StartupInv /\ [Next]_vars
        => [alone(Me)' => Views!Next]_<<[n \in {podIP[Me]} |-> view], event>>
  BY NextViews
<1>2. QED
  BY <1>1, InitViews, StartupInductive, PTL DEF Spec, StartupImplementsMembership

-----------------------------------------------------------------------------
(* The discovery and the pods *)

NoneOf(x) == \A i \in DOMAIN events : events[i].pod # x
LastOf(x, i) == events[i].pod = x /\ \A j \in DOMAIN events : j > i => events[j].pod # x

\* What the last event of a pod says is how it is.
EventsInv ==
  /\ watch # "open" => events = << >>
  /\ \A i \in DOMAIN events : pods[events[i].pod] # "absent"
  /\ \A x \in Pod \ untold : \A i \in DOMAIN events :
       LastOf(x, i) => (events[i].phase = "Running" <=> pods[x] = "running")

\* With no event on its way the discovery knows how a pod is; without a watch
\* it does not hold one that the next list will not have.
Known(x) ==
  /\ watch = "open" /\ NoneOf(x) => (podIP[x] \in peerMap <=> pods[x] = "running")
  /\ watch # "open" /\ pods[x] \in {"absent", "deleted"} => podIP[x] \notin peerMap

PeersInv == \A x \in Pod \ untold : alone(x) => Known(x)

LEMMA InitPeers == Init => EventsInv /\ PeersInv
  BY DEF Init, EventsInv, PeersInv, Known

(* A pod comes, ends or goes: an open watch gets an event of it, and a pod *)
(* that had none alone keeps its address to itself.                        *)
LEMMA ClusterPeers ==
  ASSUME TypeOK, EventsInv, PeersInv, NEW p \in Pod, NEW phase \in {"Running", "ended"},
         report(p, phase), unchangedByCluster,
         NEW now \in {"running", "ended", "deleted"}, pods' = [pods EXCEPT ![p] = now],
         untold \subseteq untold', untold' \subseteq Pod,
         p \notin untold' => (phase = "Running" <=> now = "running"),
         p \notin untold' => watch = "open" \/ now # "deleted"
  PROVE  EventsInv' /\ PeersInv'
<1>1. events \in Seq(Event) /\ DOMAIN events = 1 .. Len(events) /\ Len(events) \in Nat
  <2>1. events \in Seq(Event)
    BY DEF TypeOK, Event
  <2>2. QED
    BY <2>1, LenProperties
<1>2. /\ watch' = watch /\ peerMap' = peerMap
      /\ pods'[p] = now /\ \A x \in Pod \ {p} : pods'[x] = pods[x]
  BY DEF unchangedByCluster, TypeOK
<1>3. watch # "open" => events' = events
  BY Reported
<1>4. ASSUME watch = "open"
      PROVE  /\ DOMAIN events' = 1 .. Len(events) + 1
             /\ events'[Len(events) + 1] = [pod |-> p, phase |-> phase]
  BY <1>4, Reported
<1>5. \A i \in DOMAIN events : i \in DOMAIN events' /\ events'[i] = events[i]
  BY Reported
<1>6. \A x \in Pod : pods[x] # "absent" => pods'[x] # "absent"
  BY <1>2
<1>7. \A i \in DOMAIN events : events[i] \in Event
  BY <1>1
<1>8. EventsInv'
  <2>1. watch' # "open" => events' = << >>
    BY <1>2, <1>3 DEF EventsInv
  <2>2. CASE watch # "open"
    <3>1. events' = << >>
      BY <1>3, <2>2 DEF EventsInv
    <3>2. QED
      BY <2>1, <3>1 DEF EventsInv
  <2>3. CASE watch = "open"
    <3>1. ASSUME NEW i \in DOMAIN events'
          PROVE  i \in DOMAIN events \/ i = Len(events) + 1
      BY <1>1, <1>4, <2>3, <3>1
    <3>2. ASSUME NEW i \in DOMAIN events' PROVE pods'[events'[i].pod] # "absent"
      <4>1. CASE i \in DOMAIN events
        BY <1>5, <1>6, <1>7, <4>1 DEF EventsInv, Event
      <4>2. CASE i = Len(events) + 1
        BY <1>2, <1>4, <2>3, <4>2
      <4>3. QED
        BY <3>1, <3>2, <4>1, <4>2
    <3>3. ASSUME NEW x \in Pod \ untold', NEW i \in DOMAIN events', LastOf(x, i)'
          PROVE  events'[i].phase = "Running" <=> pods'[x] = "running"
      <4>1. events'[i].pod = x /\ \A j \in DOMAIN events' : j > i => events'[j].pod # x
        BY <3>3 DEF LastOf
      <4>2. CASE x = p
        <5>1. Len(events) + 1 \in DOMAIN events' /\ events'[Len(events) + 1].pod = x
          BY <1>1, <1>4, <2>3, <4>2
        <5>2. ~ (Len(events) + 1 > i)
          BY <4>1, <5>1
        <5>3. i = Len(events) + 1
          BY <1>1, <1>4, <2>3, <5>2
        <5>4. QED
          BY <1>2, <1>4, <2>3, <3>3, <4>2, <5>3
      <4>3. CASE x # p
        <5>1. i \in DOMAIN events
          BY <1>4, <2>3, <3>1, <4>1, <4>3
        <5>2. LastOf(x, i)
          BY <1>5, <4>1, <5>1 DEF LastOf
        <5>3. x \in Pod \ untold
          BY <3>3
        <5>4. events[i].phase = "Running" <=> pods[x] = "running"
          BY <5>1, <5>2, <5>3 DEF EventsInv
        <5>5. QED
          BY <1>2, <1>5, <4>3, <5>1, <5>3, <5>4
      <4>4. QED
        BY <4>2, <4>3
    <3>4. QED
      BY <2>1, <3>2, <3>3 DEF EventsInv
  <2>4. QED
    BY <2>2, <2>3
<1>9. PeersInv'
  <2>1. SUFFICES ASSUME NEW x \in Pod \ untold', alone(x)' PROVE Known(x)'
    BY DEF PeersInv
  <2>2. x \in Pod \ untold
    OBVIOUS
  <2>3. alone(x)
    BY <1>6, <2>1 DEF alone
  <2>4. Known(x)
    BY <2>2, <2>3 DEF PeersInv
  <2>5. CASE x = p
    <3>1. watch = "open" => ~ NoneOf(x)'
      BY <1>1, <1>4, <2>5 DEF NoneOf
    <3>2. QED
      BY <1>2, <2>1, <2>5, <3>1 DEF Known
  <2>6. CASE x # p
    <3>1. NoneOf(x)' => NoneOf(x)
      BY <1>5 DEF NoneOf
    <3>2. pods'[x] = pods[x]
      BY <1>2, <2>2, <2>6
    <3>3. QED
      BY <1>2, <2>4, <3>1, <3>2 DEF Known
  <2>7. QED
    BY <2>5, <2>6
<1>10. QED
  BY <1>8, <1>9

(* A list has one event of every pod that is there, of any other none.     *)
LEMMA OpensPeers == TypeOK /\ EventsInv /\ PeersInv /\ watchOpens => EventsInv' /\ PeersInv'
<1> SUFFICES ASSUME TypeOK, EventsInv, PeersInv, watchOpens PROVE EventsInv' /\ PeersInv'
  OBVIOUS
<1>1. /\ watch = "opening" /\ watch' = "open"
      /\ pods' = pods /\ untold' = untold /\ peerMap' = peerMap
  BY DEF watchOpens, cluster
<1>2. \A i \in DOMAIN events' :
        /\ pods[events'[i].pod] \in {"running", "ended"}
        /\ events'[i].phase = "Running" <=> pods[events'[i].pod] = "running"
  BY Listed
<1>3. EventsInv'
  BY <1>1, <1>2 DEF EventsInv, LastOf
<1>4. PeersInv'
  <2>1. SUFFICES ASSUME NEW x \in Pod \ untold, alone(x), NoneOf(x)'
                 PROVE  podIP[x] \in peerMap <=> pods[x] = "running"
    BY <1>1 DEF PeersInv, Known, alone
  <2>2. pods[x] \notin {"running", "ended"}
    <3>1. x \in Pod
      OBVIOUS
    <3>2. \A i \in DOMAIN events' : events'[i].pod # x
      BY <2>1 DEF NoneOf
    <3>3. QED
      BY <3>1, <3>2, Listed
  <2>3. pods[x] \in {"absent", "deleted"}
    BY <2>2 DEF TypeOK
  <2>4. Known(x)
    BY <2>1 DEF PeersInv
  <2>5. QED
    BY <1>1, <2>2, <2>3, <2>4 DEF Known
<1>5. QED
  BY <1>3, <1>4

(* With its last event a pod that is gone leaves those whose end is told.  *)
LEMMA EndsPeers == TypeOK /\ EventsInv /\ PeersInv /\ watchEnds => EventsInv' /\ PeersInv'
<1> SUFFICES ASSUME TypeOK, EventsInv, PeersInv, watchEnds PROVE EventsInv' /\ PeersInv'
  OBVIOUS
<1>1. /\ watch \in {"opening", "open"} /\ watch' # "open" /\ events' = << >>
      /\ pods' = pods /\ peerMap' = peerMap
      /\ untold' = untold \cup {p \in Pod : pods[p] = "deleted" /\ ~ NoneOf(p)}
  BY DEF watchEnds, NoneOf
<1>2. EventsInv'
  BY <1>1 DEF EventsInv
<1>3. PeersInv'
  <2>1. SUFFICES ASSUME NEW x \in Pod \ untold', alone(x), pods[x] \in {"absent", "deleted"}
                 PROVE  podIP[x] \notin peerMap
    BY <1>1 DEF PeersInv, Known, alone
  <2>2. x \in Pod \ untold /\ Known(x)
    BY <1>1, <2>1 DEF PeersInv
  <2>3. NoneOf(x)
    BY <1>1, <2>1 DEF EventsInv, NoneOf
  <2>4. QED
    BY <1>1, <2>1, <2>2, <2>3 DEF Known
<1>4. QED
  BY <1>2, <1>3

(* The last event of a pod makes the discovery hold it just when it runs;  *)
(* an event of another pod is of another address.                          *)
LEMMA EventPeers == TypeOK /\ EventsInv /\ PeersInv /\ onEvent => EventsInv' /\ PeersInv'
<1> SUFFICES ASSUME TypeOK, EventsInv, PeersInv, onEvent PROVE EventsInv' /\ PeersInv'
  OBVIOUS
<1> DEFINE e == Head(events)
<1>1. events # << >> /\ events' = Tail(events)
  BY DEF onEvent
<1>2. /\ 1 \in DOMAIN events /\ e = events[1] /\ e \in Event
      /\ DOMAIN events \subseteq Nat \ {0} /\ DOMAIN events' \subseteq Nat \ {0}
      /\ \A i \in DOMAIN events' : i + 1 \in DOMAIN events /\ events'[i] = events[i + 1]
      /\ \A i \in DOMAIN events : i > 1 => i - 1 \in DOMAIN events'
  BY <1>1, Delivered
<1>3. /\ watch = "open" /\ watch' = watch /\ pods' = pods /\ untold' = untold
  BY <1>1 DEF onEvent, EventsInv, cluster
<1>4. peerMap' = IF e.phase = "Running" THEN peerMap \cup {podIP[e.pod]}
                                         ELSE peerMap \ {podIP[e.pod]}
  BY DEF onEvent, onRunning, onEnded
<1> HIDE DEF e
<1>5. EventsInv'
  <2>1. ASSUME NEW x \in Pod \ untold, NEW i \in DOMAIN events', LastOf(x, i)'
        PROVE  events'[i].phase = "Running" <=> pods[x] = "running"
    <3>1. i + 1 \in DOMAIN events /\ events'[i] = events[i + 1] /\ i \in Nat
      BY <1>2, <2>1
    <3>2. ASSUME NEW j \in DOMAIN events, j > i + 1 PROVE events[j].pod # x
      <4>1. j \in Nat /\ j - 1 \in DOMAIN events' /\ j - 1 > i
        BY <1>2, <3>1, <3>2
      <4>2. events'[j - 1].pod # x /\ events'[j - 1] = events[j - 1 + 1]
        BY <1>2, <2>1, <4>1 DEF LastOf
      <4>3. QED
        BY <4>1, <4>2
    <3>3. LastOf(x, i + 1)
      BY <2>1, <3>1, <3>2 DEF LastOf
    <3>4. QED
      BY <2>1, <3>1, <3>3 DEF EventsInv
  <2>2. \A i \in DOMAIN events' : pods[events'[i].pod] # "absent"
    BY <1>2 DEF EventsInv
  <2>3. QED
    BY <1>3, <2>1, <2>2 DEF EventsInv
<1>6. PeersInv'
  <2>1. SUFFICES ASSUME NEW x \in Pod \ untold, alone(x), NoneOf(x)'
                 PROVE  podIP[x] \in peerMap' <=> pods[x] = "running"
    BY <1>3 DEF PeersInv, Known, alone
  <2>2. ASSUME NEW j \in DOMAIN events, j > 1 PROVE events[j].pod # x
    <3>1. j \in Nat /\ j - 1 \in DOMAIN events' /\ j - 1 + 1 = j
      BY <1>2, <2>2
    <3>2. events'[j - 1].pod # x /\ events'[j - 1] = events[j - 1 + 1]
      BY <1>2, <2>1, <3>1 DEF NoneOf
    <3>3. QED
      BY <3>1, <3>2
  <2>3. CASE e.pod = x
    <3>1. LastOf(x, 1)
      BY <1>2, <2>2, <2>3 DEF LastOf
    <3>2. e.phase = "Running" <=> pods[x] = "running"
      BY <1>2, <2>1, <3>1 DEF EventsInv
    <3>3. QED
      BY <1>4, <2>3, <3>2
  <2>4. CASE e.pod # x
    <3>1. e.pod \in Pod /\ pods[e.pod] # "absent"
      BY <1>2 DEF Event, EventsInv
    <3>2. podIP[e.pod] # podIP[x]
      BY <2>1, <2>4, <3>1 DEF alone
    <3>3. \A i \in DOMAIN events : events[i].pod # x
      <4>1. \A i \in DOMAIN events : i = 1 \/ i > 1
        BY <1>2
      <4>2. QED
        BY <1>2, <2>2, <2>4, <4>1
    <3>4. podIP[x] \in peerMap <=> pods[x] = "running"
      BY <1>3, <2>1, <3>3 DEF PeersInv, Known, NoneOf
    <3>5. QED
      BY <1>4, <3>2, <3>4
  <2>5. QED
    BY <2>3, <2>4
<1>7. QED
  BY <1>5, <1>6

LEMMA NextPeers == StartupInv /\ EventsInv /\ PeersInv /\ [Next]_vars => EventsInv' /\ PeersInv'
<1> SUFFICES ASSUME StartupInv, EventsInv, PeersInv, [Next]_vars PROVE EventsInv' /\ PeersInv'
  OBVIOUS
<1>1. TypeOK
  BY DEF StartupInv
<1>2. ASSUME NEW p \in Pod, podRuns(p) PROVE EventsInv' /\ PeersInv'
  <2>1. /\ pods' = [pods EXCEPT ![p] = "running"] /\ report(p, "Running")
        /\ untold' = untold /\ unchangedByCluster /\ untold \subseteq Pod
    BY <1>1, <1>2 DEF podRuns, TypeOK
  <2>2. QED
    BY <1>1, <2>1, ClusterPeers
<1>3. ASSUME NEW p \in Pod, podEnds(p) PROVE EventsInv' /\ PeersInv'
  <2>1. /\ pods' = [pods EXCEPT ![p] = "ended"] /\ report(p, "ended")
        /\ untold' = untold /\ unchangedByCluster /\ untold \subseteq Pod
    BY <1>1, <1>3 DEF podEnds, TypeOK
  <2>2. QED
    BY <1>1, <2>1, ClusterPeers
<1>4. ASSUME NEW p \in Pod, podIsDeleted(p) PROVE EventsInv' /\ PeersInv'
  <2> DEFINE phase == IF pods[p] = "running" THEN "Running" ELSE "ended"
  <2>1. /\ pods' = [pods EXCEPT ![p] = "deleted"] /\ report(p, phase)
        /\ unchangedByCluster /\ phase \in {"Running", "ended"}
    BY <1>4 DEF podIsDeleted
  <2>2. untold \subseteq untold' /\ untold' \subseteq Pod
    BY <1>1, <1>4 DEF podIsDeleted, TypeOK
  <2>3. p \notin untold' => phase = "ended" /\ watch = "open"
    BY <1>4 DEF podIsDeleted
  <2> HIDE DEF phase
  <2>4. p \notin untold' => (phase = "Running" <=> "deleted" = "running")
    BY <2>3
  <2>5. QED
    BY <1>1, <2>1, <2>2, <2>3, <2>4, ClusterPeers
<1>5. CASE watchOpens
  BY <1>1, <1>5, OpensPeers
<1>6. CASE watchEnds
  BY <1>1, <1>6, EndsPeers
<1>7. CASE onEvent
  BY <1>1, <1>7, EventPeers
<1>8. CASE UNCHANGED <<cluster, discovery>>
  <2>1. UNCHANGED <<pods, untold, watch, events, peerMap>>
    BY <1>8 DEF cluster, discovery
  <2>2. EventsInv'
    BY <2>1 DEF EventsInv, LastOf
  <2>3. PeersInv'
    BY <2>1 DEF PeersInv, Known, NoneOf, alone
  <2>4. QED
    BY <2>2, <2>3
<1>9. joinRing \/ netManagerStarts \/ initFails \/ emitUp \/ (\E c \in Caller : use(c) \/ init(c))
        \/ UNCHANGED vars
      => UNCHANGED <<cluster, discovery>>
  BY DEF joinRing, netManagerStarts, initFails, emitUp, use, init, vars
<1>10. QED
  BY <1>2, <1>3, <1>4, <1>5, <1>6, <1>7, <1>8, <1>9 DEF Next

(* A watch that has delivered all it knows leaves the discovery with the   *)
(* pods that run, and no others: for any number of pods and of watches,    *)
(* whatever a watch listed and lost on the way.                            *)
THEOREM StartupFollowsPods == Spec => []DiscoveryFollowsPods
<1>1. EventsInv /\ PeersInv => DiscoveryFollowsPods
  <2>1. SUFFICES ASSUME PeersInv, watch = "open", events = << >>,
                        NEW x \in Pod \ untold, alone(x)
                 PROVE  podIP[x] \in peerMap <=> pods[x] = "running"
    BY DEF DiscoveryFollowsPods
  <2>2. NoneOf(x)
    BY <2>1 DEF NoneOf
  <2>3. QED
    BY <2>1, <2>2 DEF PeersInv, Known
<1>2. QED
  BY <1>1, InitPeers, NextPeers, StartupInductive, PTL DEF Spec
=============================================================================
