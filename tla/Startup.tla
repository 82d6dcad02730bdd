------------------------------ MODULE Startup ------------------------------
(***************************************************************************)
(* How one node comes up and follows its peers: KVStore (packages/         *)
(* kv-store/src/kv.ts) starts PeerRing.initRing (packages/core/src/        *)
(* peer-ring.ts), which starts K8sPeerDiscovery (packages/discovery-k8s/   *)
(* src/discovery-k8s.ts), which watches the pods and calls the ring back.  *)
(* The cluster and its watch are external.  A watch lists the pods it      *)
(* finds, in any order, and then reports every change; it may end at any   *)
(* time, and what was not delivered is lost.                               *)
(***************************************************************************)
EXTENDS FiniteSets, SequencesExt

CONSTANTS Pod, Ip,
          Me,            \* the pod of this node, HOSTNAME
          podIP,         \* the address of each pod; one that has ended frees its
          Caller,        \* the calls of clients to the KVStore
          MaxWatches     \* bound: watches ever opened

ASSUME StartupAssumption ==
  /\ IsFiniteSet(Pod) /\ Me \in Pod
  /\ podIP \in [Pod -> Ip]
  /\ MaxWatches \in Nat \ {0}

VARIABLES pods,           \* the life of each pod
          untold,         \* history: deleted pods whose end no event will tell
          watch,          \* the request for the watch: opening, open, dead
          watches,        \* how many were opened
          events,         \* what the watch has yet to deliver
          isResolved,     \* the flag of the current initWatch
          initDiscovery,  \* the promise of the first initWatch
          peerMap,        \* the addresses in peerMap
          ring,           \* initRing: how far it is
          view,           \* the peers in PeerRing.nodes, {} until initRing has them
          event,          \* the last handler of the ring, as in Membership
          inits,          \* the calls of _initCache
          kv,             \* isReady, isInitRunning, startupError
          calls           \* the calls of clients

cluster   == <<pods, untold>>
discovery == <<watch, watches, events, isResolved, initDiscovery, peerMap>>
peerRing  == <<ring, view, event>>
store     == <<inits, kv, calls>>
vars      == <<cluster, discovery, peerRing, store>>

\* A pod has its address to itself while it runs, and that of this node from
\* the start, before it is reported as running; an ended one keeps it in its
\* status, though another may have it by then.
uses(f, p) == f[p] = "running" \/ p = Me

Init ==
  /\ pods \in {f \in [Pod -> {"absent", "running", "ended"}] :
                 f[Me] = "absent" /\ \A p, q \in Pod :
                   p # q /\ uses(f, p) /\ uses(f, q) => podIP[p] # podIP[q]}
  /\ untold = {}
  /\ watch = "opening" /\ watches = 1
  /\ events = << >>
  /\ isResolved = FALSE
  /\ initDiscovery = "pending"
  /\ peerMap = {}
  /\ ring = "discovering"
  /\ view = {}
  /\ event = [handler |-> "none", node |-> {}, peer |-> {}]
  /\ inits = 1
  /\ kv = [isReady |-> FALSE, isInitRunning |-> TRUE, startupError |-> FALSE]
  /\ calls = [c \in Caller |-> "none"]

-----------------------------------------------------------------------------
(* The cluster *)

\* The event has the phase and the address that the pod has now.
report(p, phase) ==
  events' = IF watch = "open" THEN Append(events, [pod |-> p, phase |-> phase]) ELSE events

unchangedByCluster ==
  UNCHANGED <<watch, watches, isResolved, initDiscovery, peerMap, peerRing, store>>

podRuns(p) ==
  /\ pods[p] = "absent"
  /\ \A q \in Pod \ {p} : uses(pods, q) => podIP[q] # podIP[p]
  /\ pods' = [pods EXCEPT ![p] = "running"]
  /\ report(p, "Running")
  /\ UNCHANGED untold
  /\ unchangedByCluster

\* Failed, Succeeded or Terminating.  The pod of this node outlives it.
podEnds(p) ==
  /\ p # Me /\ pods[p] = "running"
  /\ pods' = [pods EXCEPT ![p] = "ended"]
  /\ report(p, "ended")
  /\ UNCHANGED untold
  /\ unchangedByCluster

\* A pod deleted while it runs is reported with the phase it had.
podIsDeleted(p) ==
  /\ p # Me /\ pods[p] \in {"running", "ended"}
  /\ pods' = [pods EXCEPT ![p] = "deleted"]
  /\ report(p, IF pods[p] = "running" THEN "Running" ELSE "ended")
  /\ untold' = IF pods[p] = "running" \/ watch # "open" THEN untold \cup {p} ELSE untold
  /\ unchangedByCluster

-----------------------------------------------------------------------------
(* The watch *)

\* The list of pods that are there, each with its phase.
watchOpens ==
  /\ watch = "opening"
  /\ watch' = "open"
  /\ LET there == {p \in Pod : pods[p] \in {"running", "ended"}}
     IN  \E list \in SetToSeqs(there) :
           events' = [i \in DOMAIN list |->
                        [pod |-> list[i],
                         phase |-> IF pods[list[i]] = "running" THEN "Running" ELSE "ended"]]
  /\ UNCHANGED <<cluster, watches, isResolved, initDiscovery, peerMap, peerRing, store>>

\* The third argument of watch: an error ends it for good and rejects the
\* promise if it is still pending; without one initWatch is called again,
\* with a promise of its own.  The abort of stop ends the watch too.
watchEnds ==
  /\ watch \in {"opening", "open"}
  /\ events' = << >>
  /\ untold' = untold \cup {p \in Pod : pods[p] = "deleted" /\ \E i \in DOMAIN events : events[i].pod = p}
  /\ \/ /\ watch' = "dead"
        /\ initDiscovery' = IF watches = 1 /\ initDiscovery = "pending"
                            THEN "rejected" ELSE initDiscovery
        /\ UNCHANGED <<watches, isResolved>>
     \/ /\ watches < MaxWatches
        /\ watch' = "opening"
        /\ watches' = watches + 1
        /\ isResolved' = FALSE
        /\ UNCHANGED initDiscovery
  /\ UNCHANGED <<pods, peerMap, peerRing, store>>

Called(name, ip) == event' = [handler |-> name, node |-> {podIP[Me]}, peer |-> {ip}]

\* Mutant: the callbacks are registered when the server is up.
registeredLate == ring \in {"waiting", "ready"}

\* Mutant: they are registered before initDiscovery.
registeredEarly == TRUE

\* Whether initRing has registered its callbacks, which a failure leaves.
registered == ring # "discovering"

\* The second argument of watch, for a pod that runs.
onRunning(p) ==
  /\ peerMap' = peerMap \cup {podIP[p]}
  /\ IF podIP[p] \notin peerMap /\ registered
     THEN /\ view' = view \cup {podIP[p]}
          /\ Called("onPeerAdded", podIP[p])
     ELSE UNCHANGED <<view, event>>
  /\ IF p = Me /\ ~ isResolved
     THEN /\ isResolved' = TRUE
          /\ initDiscovery' = IF watches = 1 THEN "resolved" ELSE initDiscovery
     ELSE UNCHANGED <<isResolved, initDiscovery>>

\* Mutant: without callbacks there is nothing to do.
onEndedLater(p) ==
  /\ IF registered
     THEN /\ peerMap' = peerMap \ {podIP[p]}
          /\ view' = view \ {podIP[p]}
          /\ Called("onPeerRemoved", podIP[p])
     ELSE UNCHANGED <<peerMap, view, event>>
  /\ UNCHANGED <<isResolved, initDiscovery>>

\* And for one that has ended, known or not.
onEnded(p) ==
  /\ peerMap' = peerMap \ {podIP[p]}
  /\ IF registered
     THEN /\ view' = view \ {podIP[p]}
          /\ Called("onPeerRemoved", podIP[p])
     ELSE UNCHANGED <<view, event>>
  /\ UNCHANGED <<isResolved, initDiscovery>>

onEvent ==
  /\ events # << >>
  /\ events' = Tail(events)
  /\ IF Head(events).phase = "Running" THEN onRunning(Head(events).pod)
                                       ELSE onEnded(Head(events).pod)
  /\ UNCHANGED <<cluster, watch, watches, ring, store>>

-----------------------------------------------------------------------------
(* initRing *)

\* Mutant: initDiscovery is not awaited.
joinRingEarly ==
  /\ ring = "discovering" /\ podIP[Me] \in peerMap
  /\ ring' = "starting"
  /\ view' = peerMap
  /\ Called("initRing", podIP[Me])
  /\ UNCHANGED <<cluster, discovery, store>>

\* From the end of initDiscovery to netManager.start(): the snapshot of the
\* active peers and the registration of the callbacks have no event between.
joinRing ==
  /\ ring = "discovering" /\ initDiscovery = "resolved"
  /\ ring' = "starting"
  /\ view' = peerMap
  /\ Called("initRing", podIP[Me])
  /\ UNCHANGED <<cluster, discovery, store>>

\* The server is up, and the delay of the data transfer begins.
netManagerStarts ==
  /\ ring = "starting"
  /\ ring' = "waiting"
  /\ UNCHANGED <<cluster, discovery, view, event, store>>

\* The server does not come up, or initDiscovery was rejected: so is initRing,
\* and _initCache; the constructor keeps the error.
initFails ==
  /\ ~ kv.startupError
  /\ ring = "starting" \/ (ring = "discovering" /\ initDiscovery = "rejected")
  /\ kv' = [kv EXCEPT !.startupError = TRUE]
  /\ ring' = IF ring = "starting" THEN "failed" ELSE ring
  /\ UNCHANGED <<cluster, discovery, view, event, inits, calls>>

\* After the delay and the transfer initRing is done; KVStore is up, and says
\* so to the calls that wait.
emitUp ==
  /\ ring = "waiting"
  /\ ring' = "ready"
  /\ Called("stealTokens", podIP[Me])
  /\ kv' = [kv EXCEPT !.isReady = TRUE, !.isInitRunning = FALSE]
  /\ calls' = [c \in Caller |-> IF calls[c] = "waiting" THEN "done" ELSE calls[c]]
  /\ UNCHANGED <<cluster, discovery, view, inits>>

-----------------------------------------------------------------------------
(* The calls of clients *)

\* Mutant: a node that is up is waited for.
waitForUpAlways(c) ==
  calls' = [calls EXCEPT ![c] = IF kv.startupError THEN "thrown" ELSE "waiting"]

\* A listener for KVEvents.up, unless the start has failed or is over.
waitForUp(c) ==
  calls' = [calls EXCEPT ![c] = IF kv.startupError THEN "thrown"
                                ELSE IF kv.isReady THEN "done" ELSE "waiting"]

\* set, get or delete, up to execute.
use(c) ==
  /\ calls[c] = "none"
  /\ waitForUp(c)
  /\ UNCHANGED <<cluster, discovery, peerRing, inits, kv>>

\* Mutant: only isReady is looked at.
initEager(c) ==
  /\ calls[c] = "none"
  /\ IF kv.isReady
     THEN /\ calls' = [calls EXCEPT ![c] = "done"]
          /\ UNCHANGED inits
     ELSE /\ inits' = inits + 1
          /\ UNCHANGED calls
  /\ UNCHANGED <<cluster, discovery, peerRing, kv>>

\* init: isInitRunning stays set when the start has failed.
init(c) ==
  /\ calls[c] = "none"
  /\ IF kv.isReady
     THEN /\ calls' = [calls EXCEPT ![c] = "done"]
          /\ UNCHANGED inits
     ELSE IF kv.isInitRunning
     THEN /\ waitForUp(c)
          /\ UNCHANGED inits
     ELSE /\ inits' = inits + 1
          /\ UNCHANGED calls
  /\ UNCHANGED <<cluster, discovery, peerRing, kv>>

Next ==
  \/ \E p \in Pod : podRuns(p) \/ podEnds(p) \/ podIsDeleted(p)
  \/ watchOpens \/ watchEnds \/ onEvent
  \/ joinRing \/ netManagerStarts \/ initFails \/ emitUp
  \/ \E c \in Caller : use(c) \/ init(c)

Spec == Init /\ [][Next]_vars

\* The pod of this process is reported as running in the end, requests are
\* answered and events delivered, and initRing goes on or fails; that its
\* transfer ends is TransferEnds of module Transfer.
Fairness ==
  /\ WF_vars(podRuns(Me))
  /\ WF_vars(watchOpens) /\ WF_vars(onEvent)
  /\ WF_vars(joinRing) /\ WF_vars(netManagerStarts) /\ WF_vars(initFails) /\ WF_vars(emitUp)

FairSpec == Spec /\ Fairness

-----------------------------------------------------------------------------
(* The type invariant: every variable has its type, initRing is past its   *)
(* first await only when the first watch found this pod, and KVStore ready *)
(* only when initRing is done.                                             *)
TypeOK ==
  /\ pods \in [Pod -> {"absent", "running", "ended", "deleted"}]
  /\ untold \subseteq Pod
  /\ watch \in {"opening", "open", "dead"} /\ watches \in 1 .. MaxWatches
  /\ events \in Seq([pod : Pod, phase : {"Running", "ended"}])
  /\ isResolved \in BOOLEAN
  /\ initDiscovery \in {"pending", "resolved", "rejected"}
  /\ peerMap \subseteq Ip /\ view \subseteq Ip
  /\ ring \in {"discovering", "starting", "waiting", "ready", "failed"}
  /\ inits \in Nat
  /\ kv \in [isReady : BOOLEAN, isInitRunning : BOOLEAN, startupError : BOOLEAN]
  /\ calls \in [Caller -> {"none", "waiting", "done", "thrown"}]
  /\ ring # "discovering" => initDiscovery = "resolved"
  /\ kv.isReady = (ring = "ready") /\ kv.isInitRunning = ~ kv.isReady

\* No other pod has ever had the address of p.
alone(p) == \A q \in Pod \ {p} : podIP[q] = podIP[p] => pods[q] = "absent"

(* From initRing on the ring holds the peers that the discovery holds: no  *)
(* join or removal falls between the snapshot and the callbacks, and none  *)
(* is reported to one of the two only.  This node is among them unless     *)
(* another pod has had its address: the map and the callbacks go by the    *)
(* address, so the end of that pod, when it is reported after this one     *)
(* runs, takes this node out of its own map and ring.                      *)
RingFollowsDiscovery ==
  ring # "discovering" => view = peerMap /\ (alone(Me) => podIP[Me] \in view)

(* Once a watch has delivered what it knows, the discovery holds exactly   *)
(* the pods that run, however often the watch began anew and whatever was  *)
(* lost in between; but for pods whose end no event told, and addresses    *)
(* that more than one pod has had.                                         *)
DiscoveryFollowsPods ==
  watch = "open" /\ events = << >> =>
    \A p \in Pod \ untold : alone(p) => (podIP[p] \in peerMap <=> pods[p] = "running")

(* initRing runs once, however many calls of init come, and before, during *)
(* or after a start that fails: a second one would allocate every peer     *)
(* again.                                                                  *)
OneInit == inits = 1

(* A call that came before the node was up is let go in the end, unless    *)
(* the start fails, or the first watch ended, without an error, before it  *)
(* reported this pod: then nobody resolves initDiscovery.                  *)
CallsGoOn ==
  \A c \in Caller : calls[c] = "waiting" ~>
    \/ calls[c] # "waiting" \/ kv.startupError
    \/ initDiscovery = "pending" /\ watches > 1

\* The ring's side of it is what module Membership says.
Views == INSTANCE Membership
           WITH Peer <- Ip, Node <- {podIP[Me]},
                view <- [n \in {podIP[Me]} |-> view], event <- event

(* The discovery uses the ring as module Ring assumes, as long as no other *)
(* pod has had the address of this one: initRing once, with this node      *)
(* among the active peers, callbacks only after it, and no removal of this *)
(* node itself.  Once another has had it, this node may be missing from    *)
(* the active peers, or be removed: that pod's end is reported as its own. *)
StartupImplementsMembership ==
  Views!Init /\ [][alone(Me)' => Views!Next]_<<[n \in {podIP[Me]} |-> view], event>>
=============================================================================
