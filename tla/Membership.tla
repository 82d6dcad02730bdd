----------------------------- MODULE Membership -----------------------------
(***************************************************************************)
(* What a node's ring promises to the rest of PeerRing about membership:   *)
(* each node knows a set of peers; initRing sets it, each callback of the  *)
(* discovery adds or removes exactly the peer it names, and nothing else   *)
(* ever changes it.                                                        *)
(***************************************************************************)
CONSTANTS Peer, Node

VARIABLES view,    \* the peers a node knows; empty until it is started
          event    \* the last handler: its name, its node, its argument

Handled(name, n, peer) == event' = [handler |-> name, node |-> {n}, peer |-> {peer}]

Init ==
  /\ view = [n \in Node |-> {}]
  /\ event = [handler |-> "none", node |-> {}, peer |-> {}]

Start(n) ==
  /\ view[n] = {}
  /\ \E S \in SUBSET Peer : n \in S /\ view' = [view EXCEPT ![n] = S]
  /\ Handled("initRing", n, n)

Join(n, peer) ==
  /\ n \in view[n]
  /\ view' = [view EXCEPT ![n] = @ \cup {peer}]
  /\ Handled("onPeerAdded", n, peer)

Leave(n, peer) ==
  /\ n \in view[n]
  /\ peer # n
  /\ view' = [view EXCEPT ![n] = @ \ {peer}]
  /\ Handled("onPeerRemoved", n, peer)

Other(n) ==
  /\ n \in view[n]
  /\ UNCHANGED view
  /\ \E name \in {"stealTokens", "coolDown"} : Handled(name, n, n)

Next ==
  \E n \in Node :
    \/ Start(n)
    \/ Other(n)
    \/ \E peer \in Peer : Join(n, peer) \/ Leave(n, peer)

Spec == Init /\ [][Next]_<<view, event>>
=============================================================================
