------------------------------ MODULE RpcProofs ------------------------------
(***************************************************************************)
(* Proofs about module Rpc, for any nodes, requests and routes: its type   *)
(* invariant, that the map of pending requests is exactly the requests     *)
(* that wait, and that a node with pending requests has its cleaner        *)
(* scheduled.  The last two need each other's types and one more fact: a   *)
(* cleared timer belongs to a stopped node.                                *)
(***************************************************************************)
EXTENDS Rpc, SequenceTheorems, TLAPS

StaleIsStopped == \A n \in Node : timer[n] = "stale" => serving[n] = "stopped"

\* The types that the pending requests depend on.
PendingTypes ==
  /\ serving \in [Node -> {"down", "up", "stopped"}]
  /\ timer \in [Node -> {"none", "armed", "stale"}]
  /\ pending \in [Node -> SUBSET Req]
  /\ ticks \in [Req -> 0 .. 2]
  /\ promise \in [Req -> {"none", "waiting", "sent", "resolved", "rejected"}]

IInv == PendingTypes /\ SentIsPending /\ PendingHasTimer /\ StaleIsStopped

\* The variables IInv is about.
core == <<serving, timer, pending, ticks, promise>>

-----------------------------------------------------------------------------
(* What the helpers do to the pending requests. *)

(* register makes a request that was not yet sent pending at its caller,   *)
(* with the cleaner scheduled.                                             *)
LEMMA RegisterIInv ==
  ASSUME IInv, NEW r \in Req, promise[r] \in {"none", "waiting"},
         register(Caller[r], r), UNCHANGED <<serving, ticks>>
  PROVE  IInv'
<1>1. Caller[r] \in Node
  BY RouteAssumption
<1>2. PendingTypes'
  BY <1>1 DEF IInv, PendingTypes, register, setupRequestCleaner
<1>3. SentIsPending'
  BY <1>1 DEF IInv, PendingTypes, SentIsPending, register
<1>4. PendingHasTimer'
  BY <1>1 DEF IInv, PendingTypes, PendingHasTimer, StaleIsStopped, register, setupRequestCleaner
<1>5. StaleIsStopped'
  BY <1>1 DEF IInv, PendingTypes, StaleIsStopped, register, setupRequestCleaner
<1> QED
  BY <1>2, <1>3, <1>4, <1>5 DEF IInv

(* A request that changes its promise before it is sent, to anything but   *)
(* "sent", leaves the pending requests as they are.                        *)
LEMMA UnsentIInv ==
  ASSUME IInv, NEW r \in Req, promise[r] \in {"none", "waiting"},
         NEW how \in {"waiting", "rejected"},
         promise' = [promise EXCEPT ![r] = how], UNCHANGED <<serving, timer, pending, ticks>>
  PROVE  IInv'
<1>1. PendingTypes'
  BY DEF IInv, PendingTypes
<1>2. SentIsPending'
  BY DEF IInv, PendingTypes, SentIsPending
<1>3. PendingHasTimer' /\ StaleIsStopped'
  BY DEF IInv, PendingHasTimer, StaleIsStopped
<1> QED
  BY <1>1, <1>2, <1>3 DEF IInv

(* settle takes a pending request from the map and settles it.             *)
LEMMA SettleIInv ==
  ASSUME IInv, NEW n \in Node, NEW r \in pending[n],
         NEW how \in {"resolved", "rejected"},
         settle(n, r, how), UNCHANGED <<serving, timer>>
  PROVE  IInv'
<1>1. r \in Req /\ n = Caller[r]
  BY DEF IInv, PendingTypes, SentIsPending
<1>2. PendingTypes'
  BY <1>1 DEF IInv, PendingTypes, settle
<1>3. SentIsPending'
  BY <1>1 DEF IInv, PendingTypes, SentIsPending, settle
<1>4. PendingHasTimer' /\ StaleIsStopped'
  BY DEF IInv, PendingTypes, PendingHasTimer, StaleIsStopped, settle
<1> QED
  BY <1>2, <1>3, <1>4 DEF IInv

-----------------------------------------------------------------------------
(* The invariant is inductive. *)

(* At the start nothing is sent and nothing is pending.                    *)
LEMMA InitIInv == Init => IInv
  BY DEF Init, IInv, PendingTypes, SentIsPending, PendingHasTimer, StaleIsStopped

(* start schedules the cleaner, and a node that is down has no stale one.  *)
LEMMA StartIInv ==
  ASSUME IInv, NEW n \in Node, start(n)
  PROVE  IInv'
<1> USE DEF start, setupRequestCleaner
<1>1. PendingTypes'
  BY DEF IInv, PendingTypes
<1>2. SentIsPending'
  BY DEF IInv, SentIsPending
<1>3. PendingHasTimer'
  BY DEF IInv, PendingTypes, PendingHasTimer, StaleIsStopped
<1>4. StaleIsStopped'
  BY DEF IInv, PendingTypes, StaleIsStopped
<1> QED
  BY <1>1, <1>2, <1>3, <1>4 DEF IInv

(* stop clears the timer and ends what PendingHasTimer asks of the node.   *)
LEMMA StopIInv ==
  ASSUME IInv, NEW n \in Node, stop(n)
  PROVE  IInv'
<1> USE DEF stop
<1>1. PendingTypes'
  BY DEF IInv, PendingTypes
<1>2. SentIsPending'
  BY DEF IInv, SentIsPending
<1>3. PendingHasTimer'
  BY DEF IInv, PendingTypes, PendingHasTimer
<1>4. StaleIsStopped'
  BY DEF IInv, PendingTypes, StaleIsStopped
<1> QED
  BY <1>1, <1>2, <1>3, <1>4 DEF IInv

(* The cleaner rejects some pending requests, and gives itself up only if  *)
(* none is left.                                                           *)
LEMMA CleanupIInv ==
  ASSUME IInv, NEW n \in Node, cleanupPendingRequests(n)
  PROVE  IInv'
<1>1. PICK late \in SUBSET pending[n] :
        /\ timer[n] = "armed"
        /\ {r \in pending[n] : ticks[r] = 2} \subseteq late
        /\ pending' = [pending EXCEPT ![n] = @ \ late]
        /\ promise' = [r \in Req |-> IF r \in late THEN "rejected" ELSE promise[r]]
        /\ ticks' = [r \in Req |-> IF r \in late THEN 0
                                  ELSE IF r \in pending[n] THEN ticks[r] + 1 ELSE ticks[r]]
        /\ timer' = [timer EXCEPT ![n] = IF late = pending[n] THEN "none" ELSE "armed"]
        /\ UNCHANGED serving
  BY DEF cleanupPendingRequests
<1>2. PendingTypes'
  <2>1. \A r \in Req : r \in pending[n] /\ r \notin late => ticks[r] \in 0 .. 1
    BY <1>1 DEF IInv, PendingTypes
  <2>2. ticks' \in [Req -> 0 .. 2]
    BY <1>1, <2>1 DEF IInv, PendingTypes
  <2> QED
    BY <1>1, <2>2 DEF IInv, PendingTypes
<1>3. SentIsPending'
  BY <1>1 DEF IInv, PendingTypes, SentIsPending
<1>4. PendingHasTimer'
  BY <1>1 DEF IInv, PendingTypes, PendingHasTimer
<1>5. StaleIsStopped'
  BY <1>1 DEF IInv, PendingTypes, StaleIsStopped
<1> QED
  BY <1>2, <1>3, <1>4, <1>5 DEF IInv

(* makeRequest, at once or after 'drain', registers the request, or leaves *)
(* it unsent.                                                              *)
LEMMA MakeRequestIInv ==
  ASSUME IInv, NEW r \in Req,
         makeRequestConnecting(r) \/ makeRequestConnected(r) \/ drain(r)
  PROVE  IInv'
<1>1. CASE makeRequestConnecting(r)
  BY <1>1, RegisterIInv DEF makeRequestConnecting
<1>2. CASE drain(r)
  BY <1>2, RegisterIInv DEF drain
<1>3. CASE makeRequestConnected(r)
  <2>1. promise[r] = "none" /\ UNCHANGED <<serving, ticks>>
    BY <1>3 DEF makeRequestConnected
  <2>2. CASE register(Caller[r], r)
    BY <2>1, <2>2, RegisterIInv
  <2>3. CASE /\ promise' = [promise EXCEPT ![r] = "waiting"]
             /\ UNCHANGED <<pending, timer>>
    BY <2>1, <2>3, UnsentIInv
  <2>4. CASE /\ promise' = [promise EXCEPT ![r] = "rejected"]
             /\ UNCHANGED <<pending, timer>>
    BY <2>1, <2>4, UnsentIInv
  <2> QED
    BY <1>3, <2>2, <2>3, <2>4 DEF makeRequestConnected
<1> QED
  BY <1>1, <1>2, <1>3

(* Incoming data and the end of a stream settle at most one request, which *)
(* is pending at that node.                                                *)
LEMMA StreamIInv ==
  ASSUME IInv, NEW s \in DOMAIN streams, NEW n \in Node,
         break(s) \/ onIncomingReply(n, s) \/ onIncomingRequest(n, s) \/ close(n, s)
  PROVE  IInv'
<1>1. CASE UNCHANGED core
  BY <1>1 DEF core, IInv, PendingTypes, SentIsPending, PendingHasTimer, StaleIsStopped
<1>2. CASE break(s) \/ onIncomingRequest(n, s)
  BY <1>1, <1>2 DEF break, onIncomingRequest, core
<1>3. CASE onIncomingReply(n, s)
  BY <1>3, SettleIInv DEF onIncomingReply, isReply
<1>4. CASE close(n, s)
  <2>1. UNCHANGED <<serving, timer>>
    BY <1>4 DEF close
  <2>2. \/ UNCHANGED <<pending, ticks, promise>>
        \/ streams[s].opener \in pending[n] /\ settle(n, streams[s].opener, "rejected")
    BY <1>4 DEF close
  <2> QED
    BY <1>1, <2>1, <2>2, SettleIInv DEF core
<1> QED
  BY <1>2, <1>3, <1>4

(* Every step preserves the invariant, whichever handler takes it.         *)
LEMMA NextIInv == IInv /\ [Next]_vars => IInv'
<1> SUFFICES ASSUME IInv, [Next]_vars PROVE IInv'
  OBVIOUS
<1>1. CASE UNCHANGED core
  BY <1>1 DEF core, IInv, PendingTypes, SentIsPending, PendingHasTimer, StaleIsStopped
<1>2. CASE \E n \in Node : start(n) \/ stop(n) \/ cleanupPendingRequests(n)
  BY <1>2, StartIInv, StopIInv, CleanupIInv
<1>3. CASE \E r \in Req : makeRequestConnecting(r) \/ makeRequestConnected(r) \/ drain(r)
  BY <1>3, MakeRequestIInv
<1>4. CASE \E call \in running : reply(call)
  BY <1>1, <1>4 DEF reply, core
<1>5. CASE \E s \in DOMAIN streams, n \in Node :
             break(s) \/ onIncomingReply(n, s) \/ onIncomingRequest(n, s) \/ close(n, s)
  BY <1>5, StreamIInv
<1>6. CASE \E s \in DOMAIN streams : break(s)
  BY <1>1, <1>6 DEF break, core
<1> QED
  BY <1>1, <1>2, <1>3, <1>4, <1>5, <1>6 DEF Next, vars, core

-----------------------------------------------------------------------------
(* The types of the network. *)

NetTypes ==
  /\ connections \in [Node -> [Node -> 0 .. Len(streams)]]
  /\ streams \in Seq(Stream)
  /\ via \in [Req -> 0 .. Len(streams)]
  /\ running \subseteq [at : Node, stream : 1 .. Len(streams), msg : Message]
  /\ ran \in [Req -> 0 .. 2]

(* The other end of a stream is a node.                                    *)
LEMMA OtherType ==
  ASSUME NEW s \in Stream, NEW n
  PROVE  Other(s, n) \in Node
  BY DEF Other, Stream

(* Writing a message on a stream leaves a stream.                          *)
LEMMA SentType ==
  ASSUME NEW s \in Stream, NEW n, NEW msg \in Message
  PROVE  Sent(s, n, msg) \in Stream
<1> DEFINE o == Other(s, n)
<1>1. o \in Node
  BY OtherType
<1>2. s.inbox \in [Node -> Seq(Message)]
  BY DEF Stream
<1>3. Append(s.inbox[o], msg) \in Seq(Message)
  BY <1>1, <1>2
<1> HIDE DEF o
<1>4. [s.inbox EXCEPT ![o] = Append(@, msg)] \in [Node -> Seq(Message)]
  BY <1>1, <1>2, <1>3
<1>5. [s EXCEPT !.inbox = [s.inbox EXCEPT ![o] = Append(@, msg)]] \in Stream
  BY <1>4 DEF Stream
<1> QED
  BY <1>5 DEF Sent, o

(* Changing one stream for another keeps the number of streams, and with   *)
(* it the types of everything that names one.                              *)
LEMMA EditStreams ==
  ASSUME NetTypes, NEW s \in DOMAIN streams, NEW x \in Stream,
         streams' = [streams EXCEPT ![s] = x]
  PROVE  streams' \in Seq(Stream) /\ Len(streams') = Len(streams)
  BY DEF NetTypes

(* When no stream is opened the types of everything that names a stream    *)
(* do not change.                                                          *)
LEMMA SameNet ==
  ASSUME NetTypes, streams' \in Seq(Stream), Len(streams') = Len(streams),
         UNCHANGED <<connections, via, running, ran>>
  PROVE  NetTypes'
  BY DEF NetTypes

(* At the start there are no streams.                                      *)
LEMMA InitNet == Init => NetTypes
  BY DEF Init, NetTypes

(* makeRequest opens a stream and takes it for its connection.             *)
LEMMA ConnectingNet ==
  ASSUME IInv, NetTypes, NEW r \in Req, makeRequestConnecting(r)
  PROVE  NetTypes'
<1> DEFINE n == Caller[r]
           m == Callee[r]
           opened == [client |-> n, server |-> m, opener |-> r, alive |-> serving[m] = "up",
                      ended |-> {}, closed |-> {},
                      inbox |-> [x \in Node |-> << >>]]
           msg == [mid |-> r, body |-> "request"]
           x == Sent(opened, n, msg)
<1>1. n \in Node /\ m \in Node
  BY RouteAssumption
<1>2. opened \in Stream
  BY <1>1 DEF Stream
<1>3. msg \in Message
  BY DEF Message, Body
<1>4. /\ streams' = Append(streams, x)
      /\ connections' = [connections EXCEPT ![n][m] = Len(streams) + 1]
      /\ via' = [via EXCEPT ![r] = Len(streams) + 1]
      /\ UNCHANGED <<running, ran>>
  BY DEF makeRequestConnecting
<1> HIDE DEF opened, msg, n, m
<1>5. x \in Stream
  BY <1>2, <1>3, SentType
<1> HIDE DEF x
<1>6. streams' \in Seq(Stream) /\ Len(streams') = Len(streams) + 1
  BY <1>4, <1>5 DEF NetTypes
<1>7. Len(streams) \in Nat
  BY DEF NetTypes
<1> DEFINE Ids == 0 .. Len(streams')
<1>k. (\A k \in 0 .. Len(streams) : k \in Ids) /\ Len(streams) + 1 \in Ids
  BY <1>6, <1>7
<1> HIDE DEF Ids
<1>8. connections' \in [Node -> [Node -> Ids]]
  <2>1. connections \in [Node -> [Node -> Ids]]
    BY <1>k DEF NetTypes
  <2>2. [connections[n] EXCEPT ![m] = Len(streams) + 1] \in [Node -> Ids]
    BY <2>1, <1>1, <1>k
  <2> QED
    BY <1>4, <2>1, <2>2
<1>9. via' \in [Req -> Ids]
  BY <1>4, <1>k DEF NetTypes
<1>10. running' \subseteq [at : Node, stream : 1 .. Len(streams'), msg : Message]
  <2>1. 1 .. Len(streams) \subseteq 1 .. Len(streams')
    BY <1>6, <1>7
  <2> QED
    BY <1>4, <2>1 DEF NetTypes
<1> QED
  BY <1>4, <1>6, <1>8, <1>9, <1>10 DEF NetTypes, Ids

(* On a connection it has, makeRequest names that stream, and writes on it *)
(* now or later.                                                           *)
LEMMA ConnectedNet ==
  ASSUME IInv, NetTypes, NEW r \in Req, makeRequestConnected(r) \/ drain(r)
  PROVE  NetTypes'
<1> DEFINE n == Caller[r]
           s == connections[n][Callee[r]]
           msg == [mid |-> r, body |-> "request"]
<1>1. msg \in Message
  BY DEF Message, Body
<1>2. n \in Node /\ Callee[r] \in Node
  BY RouteAssumption
<1> HIDE DEF msg
<1>3. ASSUME NEW k \in DOMAIN streams,
             streams' = [streams EXCEPT ![k] = Sent(@, n, msg)] \/ UNCHANGED streams
      PROVE  streams' \in Seq(Stream) /\ Len(streams') = Len(streams)
  <2>1. streams[k] \in Stream
    BY DEF NetTypes
  <2>2. Sent(streams[k], n, msg) \in Stream
    BY <1>1, <2>1, SentType
  <2> HIDE DEF n
  <2>3. CASE streams' = [streams EXCEPT ![k] = Sent(streams[k], n, msg)]
    BY <2>2, <2>3, EditStreams
  <2> QED
    BY <1>3, <2>3 DEF NetTypes
<1>4. CASE makeRequestConnected(r)
  <2>1. s \in DOMAIN streams
    <3>1. connections[Caller[r]][Callee[r]] \in 0 .. Len(streams)
      BY RouteAssumption DEF NetTypes
    <3>2. s \in 0 .. Len(streams) /\ s # 0
      BY <3>1, <1>4 DEF makeRequestConnected
    <3> QED
      BY <3>2 DEF NetTypes
  <2>2. /\ via' = [via EXCEPT ![r] = s]
        /\ streams' = [streams EXCEPT ![s] = Sent(@, n, msg)] \/ UNCHANGED streams
        /\ UNCHANGED <<connections, running, ran>>
    BY <1>4 DEF makeRequestConnected, msg
  <2> HIDE DEF s, n
  <2>3. streams' \in Seq(Stream) /\ Len(streams') = Len(streams)
    BY <1>3, <2>1, <2>2
  <2>4. s \in 0 .. Len(streams)
    BY <2>1 DEF NetTypes
  <2> QED
    BY <2>2, <2>3, <2>4 DEF NetTypes
<1>5. CASE drain(r)
  <2>1. /\ streams' = [streams EXCEPT ![via[r]] = Sent(@, n, msg)]
        /\ UNCHANGED <<connections, via, running, ran>>
    BY <1>5 DEF drain, msg
  <2> HIDE DEF n
  <2>2. CASE via[r] \in DOMAIN streams
    BY <1>3, <2>1, <2>2, SameNet
  <2>3. CASE via[r] \notin DOMAIN streams
    <3>1. streams' = streams
      BY <2>1, <2>3 DEF NetTypes
    <3> QED
      BY <2>1, <3>1, SameNet DEF NetTypes
  <2> QED
    BY <2>2, <2>3
<1> QED
  BY <1>4, <1>5

(* The data handler takes a message off the stream, and may make it the    *)
(* connection and end the one there was.                                   *)
LEMMA AdoptNet ==
  ASSUME NetTypes, NEW s \in DOMAIN streams, NEW n \in Node,
         streams[s].inbox[n] # << >>, adopt(n, s)
  PROVE  /\ streams' \in Seq(Stream) /\ Len(streams') = Len(streams)
         /\ connections' \in [Node -> [Node -> 0 .. Len(streams)]]
<1> DEFINE m == Other(streams[s], n)
           old == connections[n][m]
           read(x) == [x EXCEPT !.inbox[n] = Tail(@)]
           end(x) == [x EXCEPT !.ended = @ \cup {n}]
<1>1. \A k \in DOMAIN streams : streams[k] \in Stream
  BY DEF NetTypes
<1>2. m \in Node
  BY <1>1, OtherType
<1>3. read(streams[s]) \in Stream
  <2>1. streams[s].inbox \in [Node -> Seq(Message)]
    BY <1>1 DEF Stream
  <2>2. Tail(streams[s].inbox[n]) \in Seq(Message)
    BY <2>1
  <2>3. [streams[s].inbox EXCEPT ![n] = Tail(@)] \in [Node -> Seq(Message)]
    BY <2>1, <2>2
  <2> QED
    BY <1>1, <2>3 DEF Stream
<1>4. \A k \in DOMAIN streams : end(streams[k]) \in Stream
  BY <1>1 DEF Stream
<1>5. CASE n = streams[s].server /\ old # s
  <2>1. /\ connections' = [connections EXCEPT ![n][m] = s]
        /\ streams' = [k \in DOMAIN streams |->
                         CASE k = s   -> read(streams[k])
                           [] k = old -> end(streams[k])
                           [] OTHER   -> streams[k]]
    BY <1>5 DEF adopt
  <2> HIDE DEF m, old, read, end
  <2>2. DOMAIN streams = 1 .. Len(streams) /\ Len(streams) \in Nat
    BY DEF NetTypes
  <2>3. \A k \in 1 .. Len(streams) : streams'[k] \in Stream
    BY <1>1, <1>3, <1>4, <2>1, <2>2
  <2>4. streams' = [k \in 1 .. Len(streams) |-> streams'[k]]
    BY <2>1, <2>2
  <2>5. streams' \in Seq(Stream) /\ Len(streams') = Len(streams)
    BY <2>2, <2>3, <2>4
  <2>6. s \in 0 .. Len(streams)
    BY <2>2
  <2> QED
    BY <1>2, <2>1, <2>5, <2>6 DEF NetTypes
<1>6. CASE ~ (n = streams[s].server /\ old # s)
  <2>1. /\ streams' = [streams EXCEPT ![s] = read(streams[s])]
        /\ UNCHANGED connections
    BY <1>6 DEF adopt
  <2> HIDE DEF read
  <2> QED
    BY <1>3, <2>1, EditStreams DEF NetTypes
<1> QED
  BY <1>5, <1>6

(* A message that comes in starts at most one command, on its stream.      *)
LEMMA IncomingNet ==
  ASSUME NetTypes, NEW s \in DOMAIN streams, NEW n \in Node,
         onIncomingReply(n, s) \/ onIncomingRequest(n, s)
  PROVE  NetTypes'
<1> DEFINE msg == Head(streams[s].inbox[n])
<1>1. streams[s].inbox[n] # << >> /\ adopt(n, s)
  BY DEF onIncomingReply, onIncomingRequest
<1>2. /\ streams' \in Seq(Stream) /\ Len(streams') = Len(streams)
      /\ connections' \in [Node -> [Node -> 0 .. Len(streams)]]
  BY <1>1, AdoptNet
<1>3. msg \in Message /\ s \in 1 .. Len(streams)
  <2>1. streams[s] \in Stream /\ s \in 1 .. Len(streams)
    BY DEF NetTypes
  <2>2. streams[s].inbox[n] \in Seq(Message)
    BY <2>1 DEF Stream
  <2> QED
    BY <1>1, <2>1, <2>2
<1>4. UNCHANGED <<via, ran>> /\ running' \subseteq running \cup {[at |-> n, stream |-> s, msg |-> msg]}
  BY DEF onIncomingReply, onIncomingRequest
<1> HIDE DEF msg
<1>5. running' \subseteq [at : Node, stream : 1 .. Len(streams), msg : Message]
  BY <1>3, <1>4 DEF NetTypes
<1> QED
  BY <1>2, <1>4, <1>5 DEF NetTypes

(* A reply is a message on the stream of its request.                      *)
LEMMA ReplyNet ==
  ASSUME NetTypes, NEW call \in running, reply(call)
  PROVE  NetTypes'
<1>1. /\ call.stream \in DOMAIN streams /\ call.msg.mid \in Req
      /\ streams[call.stream] \in Stream
  BY DEF NetTypes, Message
<1>2. PICK body \in Body :
        streams' = [streams EXCEPT ![call.stream] =
                      Sent(@, call.at, [mid |-> call.msg.mid, body |-> body])]
  BY DEF reply, answers, Body
<1> DEFINE x == Sent(streams[call.stream], call.at, [mid |-> call.msg.mid, body |-> body])
<1>3. x \in Stream
  <2>1. [mid |-> call.msg.mid, body |-> body] \in Message
    BY <1>1 DEF Message
  <2> QED
    BY <1>1, <2>1, SentType
<1>4. streams' = [streams EXCEPT ![call.stream] = x]
  BY <1>2
<1> HIDE DEF x
<1>5. streams' \in Seq(Stream) /\ Len(streams') = Len(streams)
  BY <1>1, <1>3, <1>4, EditStreams
<1>6. UNCHANGED <<connections, via>> /\ running' \subseteq running
  BY DEF reply
<1>7. ran' \in [Req -> 0 .. 2]
  BY <1>1 DEF reply, NetTypes
<1> QED
  BY <1>5, <1>6, <1>7 DEF NetTypes

(* A stream that breaks is still a stream.                                 *)
LEMMA BreakNet ==
  ASSUME NetTypes, NEW s \in DOMAIN streams, break(s)
  PROVE  NetTypes'
<1> DEFINE x == [streams[s] EXCEPT !.alive = FALSE, !.inbox = [n \in Node |-> << >>]]
<1>1. x \in Stream
  <2>1. streams[s] \in Stream
    BY DEF NetTypes
  <2>2. [n \in Node |-> << >>] \in [Node -> Seq(Message)]
    OBVIOUS
  <2> QED
    BY <2>1, <2>2 DEF Stream
<1>2. streams' = [streams EXCEPT ![s] = x] /\ UNCHANGED <<connections, via, running, ran>>
  BY DEF break
<1> HIDE DEF x
<1> QED
  BY <1>1, <1>2, EditStreams, SameNet

(* A stream that closes leaves the connections of that node.               *)
LEMMA CloseNet ==
  ASSUME NetTypes, NEW s \in DOMAIN streams, NEW n \in Node, close(n, s)
  PROVE  NetTypes'
<1> DEFINE x == [streams[s] EXCEPT !.closed = @ \cup {n}, !.inbox[n] = << >>]
<1>1. streams' = [streams EXCEPT ![s] = x]
  BY DEF close
<1>2. x \in Stream
  <2>1. streams[s] \in Stream
    BY DEF NetTypes
  <2>2. streams[s].inbox \in [Node -> Seq(Message)] /\ << >> \in Seq(Message)
    BY <2>1 DEF Stream
  <2>3. [streams[s].inbox EXCEPT ![n] = << >>] \in [Node -> Seq(Message)]
    BY <2>2
  <2> QED
    BY <2>1, <2>3 DEF Stream
<1>3. /\ connections' = [connections EXCEPT
                           ![n] = [m \in Node |-> IF @[m] = s THEN 0 ELSE @[m]]]
      /\ UNCHANGED <<via, running, ran>>
  BY DEF close, forget
<1> HIDE DEF x
<1>4. streams' \in Seq(Stream) /\ Len(streams') = Len(streams)
  BY <1>1, <1>2, EditStreams
<1>5. connections' \in [Node -> [Node -> 0 .. Len(streams)]]
  BY <1>3 DEF NetTypes
<1> QED
  BY <1>3, <1>4, <1>5 DEF NetTypes

(* Every step preserves the types of the network.                          *)
LEMMA NextNet == IInv /\ NetTypes /\ [Next]_vars => NetTypes'
<1> SUFFICES ASSUME IInv, NetTypes, [Next]_vars PROVE NetTypes'
  OBVIOUS
<1>1. CASE UNCHANGED <<connections, streams, via, running, ran>>
  BY <1>1 DEF NetTypes
<1>2. CASE \E n \in Node : start(n) \/ stop(n) \/ cleanupPendingRequests(n)
  BY <1>1, <1>2 DEF start, stop, cleanupPendingRequests
<1>3. CASE \E r \in Req : makeRequestConnecting(r) \/ makeRequestConnected(r) \/ drain(r)
  BY <1>3, ConnectingNet, ConnectedNet
<1>4. CASE \E call \in running : reply(call)
  BY <1>4, ReplyNet
<1>5. CASE \E s \in DOMAIN streams :
             \/ break(s)
             \/ \E n \in Node : onIncomingReply(n, s) \/ onIncomingRequest(n, s) \/ close(n, s)
  BY <1>5, BreakNet, IncomingNet, CloseNet
<1> QED
  BY <1>1, <1>2, <1>3, <1>4, <1>5 DEF Next, vars

-----------------------------------------------------------------------------
(* The connections.  A server takes for its connection the stream of a     *)
(* message that came in, so the invariant also needs that nothing comes in *)
(* on a stream the node has seen closed.                                   *)

ClosedIsSilent ==
  \A s \in DOMAIN streams, n \in Node :
    n \in streams[s].closed => streams[s].inbox[n] = << >>

OpenInv == NetTypes /\ ClosedIsSilent /\ ConnectionsOpen

\* x may take the place of stream s: the same ends, closed at the same nodes.
SameEnds(s, x) ==
  /\ x \in Stream
  /\ x.client = streams[s].client /\ x.server = streams[s].server
  /\ x.closed = streams[s].closed
  /\ \A n \in Node : n \in x.closed => x.inbox[n] = << >>

(* Streams that keep their ends and stay silent where they are closed keep *)
(* the connections open.                                                   *)
LEMMA SameEndsOpen ==
  ASSUME OpenInv, NetTypes', DOMAIN streams' = DOMAIN streams,
         \A s \in DOMAIN streams : SameEnds(s, streams'[s]), UNCHANGED connections
  PROVE  OpenInv'
<1>1. ClosedIsSilent'
  BY DEF SameEnds, ClosedIsSilent
<1>2. ASSUME NEW n \in Node, NEW m \in Node, connections'[n][m] # 0
      PROVE  LET s == streams'[connections'[n][m]]
             IN  {s.client, s.server} = {n, m} /\ n \notin s.closed
  <2>1. connections[n][m] \in DOMAIN streams /\ connections[n][m] # 0
    BY <1>2 DEF OpenInv, NetTypes
  <2> QED
    BY <2>1 DEF OpenInv, ConnectionsOpen, SameEnds
<1> QED
  BY <1>1, <1>2 DEF OpenInv, ConnectionsOpen

(* Writing a message on a stream keeps its ends, and reaches nobody who    *)
(* has seen it closed.                                                     *)
LEMMA SentSameEnds ==
  ASSUME OpenInv, NEW s \in DOMAIN streams, NEW n, NEW msg \in Message
  PROVE  SameEnds(s, Sent(streams[s], n, msg))
<1> DEFINE st == streams[s]
           o == Other(st, n)
<1>1. st \in Stream /\ \A x \in Node : x \in st.closed => st.inbox[x] = << >>
  BY DEF OpenInv, NetTypes, ClosedIsSilent
<1>2. Sent(st, n, msg) \in Stream
  BY <1>1, SentType
<1>3. CASE Sent(st, n, msg) = st
  BY <1>1, <1>3 DEF SameEnds
<1>4. CASE o \notin st.closed /\ Sent(st, n, msg) = [st EXCEPT !.inbox[o] = Append(@, msg)]
  <2>1. \A x \in st.closed : x # o
    BY <1>4
  <2>2. st.inbox \in [Node -> Seq(Message)] /\ o \in Node
    BY <1>1, OtherType DEF Stream
  <2> HIDE DEF o
  <2> QED
    BY <1>1, <1>2, <1>4, <2>1, <2>2 DEF SameEnds, Stream
<1> QED
  BY <1>3, <1>4 DEF Sent

(* Changing one stream for another with the same ends keeps the            *)
(* connections open.                                                       *)
LEMMA EditOpen ==
  ASSUME OpenInv, NetTypes', NEW s \in DOMAIN streams, NEW x, SameEnds(s, x),
         streams' = [streams EXCEPT ![s] = x], UNCHANGED connections
  PROVE  OpenInv'
<1>1. DOMAIN streams' = DOMAIN streams
  OBVIOUS
<1>2. ASSUME NEW k \in DOMAIN streams
      PROVE  SameEnds(k, streams'[k])
  <2>1. CASE k = s
    BY <2>1
  <2>2. CASE k # s
    BY <2>2 DEF SameEnds, OpenInv, NetTypes, ClosedIsSilent
  <2> QED
    BY <2>1, <2>2
<1> QED
  BY <1>1, <1>2, SameEndsOpen

(* What does not touch the streams or the connections keeps them open.     *)
LEMMA IdleOpen ==
  ASSUME OpenInv, NetTypes', UNCHANGED <<streams, connections>>
  PROVE  OpenInv'
  BY DEF OpenInv, ClosedIsSilent, ConnectionsOpen

(* A stream just opened is closed to nobody.                               *)
LEMMA ConnectingOpen ==
  ASSUME OpenInv, NetTypes', NEW r \in Req, makeRequestConnecting(r)
  PROVE  OpenInv'
<1> DEFINE a == Caller[r]
           b == Callee[r]
           opened == [client |-> a, server |-> b, opener |-> r, alive |-> serving[b] = "up",
                      ended |-> {}, closed |-> {},
                      inbox |-> [y \in Node |-> << >>]]
           x == Sent(opened, a, [mid |-> r, body |-> "request"])
           k == Len(streams) + 1
<1>1. a \in Node /\ b \in Node
  BY RouteAssumption
<1>2. x.client = a /\ x.server = b /\ x.closed = {}
  BY DEF Sent
<1>3. streams' = Append(streams, x) /\ connections' = [connections EXCEPT ![a][b] = k]
  BY DEF makeRequestConnecting
<1> HIDE DEF x, a, b
<1>4. /\ streams \in Seq(Stream) /\ Len(streams) \in Nat
      /\ connections \in [Node -> [Node -> 0 .. Len(streams)]]
  BY DEF OpenInv, NetTypes
<1>5. /\ DOMAIN streams' = 1 .. k /\ DOMAIN streams = 1 .. Len(streams)
      /\ streams'[k] = x
      /\ \A s \in DOMAIN streams : streams'[s] = streams[s]
  BY <1>3, <1>4
<1>6. ClosedIsSilent'
  <2> SUFFICES ASSUME NEW s \in DOMAIN streams', NEW n \in Node, n \in streams'[s].closed
               PROVE  streams'[s].inbox[n] = << >>
    BY DEF ClosedIsSilent
  <2>1. s \in DOMAIN streams
    BY <1>2, <1>4, <1>5
  <2> QED
    BY <1>5, <2>1 DEF OpenInv, ClosedIsSilent
<1>7. ASSUME NEW n \in Node, NEW m \in Node, connections'[n][m] # 0
      PROVE  LET s == streams'[connections'[n][m]]
             IN  {s.client, s.server} = {n, m} /\ n \notin s.closed
  <2>1. CASE n = a /\ m = b
    <3>1. connections'[n][m] = k
      BY <1>1, <1>3, <1>4, <2>1
    <3> QED
      BY <1>2, <1>5, <2>1, <3>1
  <2>2. CASE ~ (n = a /\ m = b)
    <3>1. connections'[n][m] = connections[n][m]
      BY <1>1, <1>3, <1>4, <2>2
    <3>2. connections[n][m] \in DOMAIN streams
      BY <1>4, <1>5, <1>7, <3>1
    <3>3. streams'[connections[n][m]] = streams[connections[n][m]]
      BY <1>5, <3>2
    <3>4. LET s == streams[connections[n][m]]
          IN  {s.client, s.server} = {n, m} /\ n \notin s.closed
      BY <1>7, <3>1 DEF OpenInv, ConnectionsOpen
    <3> QED
      BY <3>1, <3>3, <3>4
  <2> QED
    BY <2>1, <2>2
<1> QED
  BY <1>6, <1>7 DEF OpenInv, ConnectionsOpen

(* Writing on a stream, now, later or in reply, changes no connection.     *)
LEMMA WriteOpen ==
  ASSUME OpenInv, NetTypes',
         \/ \E r \in Req : makeRequestConnected(r) \/ drain(r)
         \/ \E call \in running : reply(call)
  PROVE  OpenInv'
<1>1. ASSUME NEW s, NEW n, NEW msg \in Message,
             streams' = [streams EXCEPT ![s] = Sent(@, n, msg)], UNCHANGED connections
      PROVE  OpenInv'
  <2>1. CASE s \in DOMAIN streams
    <3> DEFINE x == Sent(streams[s], n, msg)
    <3>1. SameEnds(s, x)
      BY <1>1, <2>1, SentSameEnds
    <3>2. streams' = [streams EXCEPT ![s] = x]
      BY <1>1
    <3> HIDE DEF x
    <3> QED
      BY <1>1, <2>1, <3>1, <3>2, EditOpen
  <2>2. CASE s \notin DOMAIN streams
    <3>1. streams' = streams
      BY <1>1, <2>2 DEF OpenInv, NetTypes
    <3> QED
      BY <1>1, <3>1, IdleOpen
  <2> QED
    BY <2>1, <2>2
<1>2. ASSUME NEW r \in Req, makeRequestConnected(r)
      PROVE  OpenInv'
  <2>1. [mid |-> r, body |-> "request"] \in Message
    BY DEF Message, Body
  <2>2. CASE UNCHANGED streams
    BY <1>2, <2>2, IdleOpen DEF makeRequestConnected
  <2>3. CASE streams' = [streams EXCEPT ![connections[Caller[r]][Callee[r]]] =
                           Sent(@, Caller[r], [mid |-> r, body |-> "request"])]
    BY <1>1, <1>2, <2>1, <2>3 DEF makeRequestConnected
  <2> QED
    BY <1>2, <2>2, <2>3 DEF makeRequestConnected
<1>3. ASSUME NEW r \in Req, drain(r)
      PROVE  OpenInv'
  <2>1. [mid |-> r, body |-> "request"] \in Message
    BY DEF Message, Body
  <2> QED
    BY <1>1, <1>3, <2>1 DEF drain
<1>4. ASSUME NEW call \in running, reply(call)
      PROVE  OpenInv'
  <2>1. PICK body \in Body :
          streams' = [streams EXCEPT ![call.stream] =
                        Sent(@, call.at, [mid |-> call.msg.mid, body |-> body])]
    BY <1>4 DEF reply, answers, Body
  <2>2. [mid |-> call.msg.mid, body |-> body] \in Message
    BY <1>4 DEF OpenInv, NetTypes, Message
  <2> QED
    BY <1>1, <1>4, <2>1, <2>2 DEF reply
<1> QED
  BY <1>2, <1>3, <1>4

(* A message that comes in does so on a stream that is open to its reader. *)
LEMMA AdoptOpen ==
  ASSUME OpenInv, NetTypes', NEW s \in DOMAIN streams, NEW n \in Node,
         streams[s].inbox[n] # << >>, adopt(n, s)
  PROVE  OpenInv'
<1> DEFINE m == Other(streams[s], n)
           old == connections[n][m]
           read(x) == [x EXCEPT !.inbox[n] = Tail(@)]
           end(x) == [x EXCEPT !.ended = @ \cup {n}]
<1>1. /\ \A k \in DOMAIN streams : streams[k] \in Stream
      /\ DOMAIN streams = 1 .. Len(streams) /\ Len(streams) \in Nat
      /\ connections \in [Node -> [Node -> 0 .. Len(streams)]]
  BY DEF OpenInv, NetTypes
<1>2. n \notin streams[s].closed
  BY DEF OpenInv, ClosedIsSilent
<1>3. \A k \in DOMAIN streams :
        /\ SameEnds(k, streams[k])
        /\ streams[k].inbox \in [Node -> Seq(Message)] /\ streams[k].ended \subseteq Node
  BY <1>1 DEF SameEnds, OpenInv, ClosedIsSilent, Stream
<1>4. SameEnds(s, read(streams[s]))
  <2>1. [streams[s].inbox EXCEPT ![n] = Tail(@)] \in [Node -> Seq(Message)]
    BY <1>3
  <2> QED
    <3>1. streams[s] \in Stream
      BY <1>1
    <3>2. /\ read(streams[s]).client = streams[s].client
          /\ read(streams[s]).server = streams[s].server
          /\ read(streams[s]).closed = streams[s].closed
          /\ read(streams[s]).inbox = [streams[s].inbox EXCEPT ![n] = Tail(@)]
      BY <3>1 DEF Stream
    <3>3. read(streams[s]) \in Stream
      BY <3>1, <2>1 DEF Stream
    <3>4. \A x \in Node \ {n} : read(streams[s]).inbox[x] = streams[s].inbox[x]
      BY <3>2, <1>3
    <3> QED
      BY <3>2, <3>3, <3>4, <1>2, <1>3 DEF SameEnds
<1>5. \A k \in DOMAIN streams : SameEnds(k, end(streams[k]))
  <2> SUFFICES ASSUME NEW k \in DOMAIN streams PROVE SameEnds(k, end(streams[k]))
    OBVIOUS
  <2>1. streams[k] \in Stream
    BY <1>1
  <2>2. end(streams[k]) \in Stream
    BY <2>1 DEF Stream
  <2>3. /\ end(streams[k]).client = streams[k].client
        /\ end(streams[k]).server = streams[k].server
        /\ end(streams[k]).closed = streams[k].closed
        /\ end(streams[k]).inbox = streams[k].inbox
    BY <2>1 DEF Stream
  <2> QED
    BY <2>2, <2>3, <1>3 DEF SameEnds
<1>6. CASE n = streams[s].server /\ old # s
  <2>1. /\ connections' = [connections EXCEPT ![n][m] = s]
        /\ streams' = [k \in DOMAIN streams |->
                         CASE k = s   -> read(streams[k])
                           [] k = old -> end(streams[k])
                           [] OTHER   -> streams[k]]
    BY <1>6 DEF adopt
  <2>2. m \in Node /\ {streams[s].client, streams[s].server} = {n, m}
    BY <1>1, <1>6, OtherType DEF Other
  <2> HIDE DEF m, old, read, end
  <2>3. DOMAIN streams' = DOMAIN streams /\ \A k \in DOMAIN streams : SameEnds(k, streams'[k])
    BY <1>3, <1>4, <1>5, <2>1
  <2>4. ClosedIsSilent'
    BY <2>3 DEF SameEnds, ClosedIsSilent
  <2>5. ASSUME NEW p \in Node, NEW q \in Node, connections'[p][q] # 0
        PROVE  LET st == streams'[connections'[p][q]]
               IN  {st.client, st.server} = {p, q} /\ p \notin st.closed
    <3>1. CASE p = n /\ q = m
      <4>1. connections'[p][q] = s
        BY <1>1, <2>1, <2>2, <3>1
      <4> QED
        BY <1>2, <2>2, <2>3, <3>1, <4>1 DEF SameEnds
    <3>2. CASE ~ (p = n /\ q = m)
      <4>1. connections'[p][q] = connections[p][q]
        BY <1>1, <2>1, <2>2, <3>2
      <4>2. connections[p][q] \in DOMAIN streams
        BY <1>1, <2>5, <4>1
      <4>3. LET st == streams[connections[p][q]]
            IN  {st.client, st.server} = {p, q} /\ p \notin st.closed
        BY <2>5, <4>1 DEF OpenInv, ConnectionsOpen
      <4>4. SameEnds(connections[p][q], streams'[connections[p][q]])
        BY <2>3, <4>2
      <4> QED
        BY <4>1, <4>3, <4>4 DEF SameEnds
    <3> QED
      BY <3>1, <3>2
  <2> QED
    BY <2>4, <2>5 DEF OpenInv, ConnectionsOpen
<1>7. CASE ~ (n = streams[s].server /\ old # s)
  <2>1. streams' = [streams EXCEPT ![s] = read(streams[s])] /\ UNCHANGED connections
    BY <1>7 DEF adopt
  <2> HIDE DEF read
  <2> QED
    BY <1>4, <2>1, EditOpen
<1> QED
  BY <1>6, <1>7

(* A stream that breaks loses what was on its way and is closed to the     *)
(* same nodes.                                                             *)
LEMMA BreakOpen ==
  ASSUME OpenInv, NetTypes', NEW s \in DOMAIN streams, break(s)
  PROVE  OpenInv'
<1> DEFINE x == [streams[s] EXCEPT !.alive = FALSE, !.inbox = [n \in Node |-> << >>]]
<1>1. streams[s] \in Stream /\ [n \in Node |-> << >>] \in [Node -> Seq(Message)]
  BY DEF OpenInv, NetTypes
<1>2. SameEnds(s, x)
  BY <1>1 DEF SameEnds, Stream
<1>3. streams' = [streams EXCEPT ![s] = x] /\ UNCHANGED connections
  BY DEF break
<1> HIDE DEF x
<1> QED
  BY <1>2, <1>3, EditOpen

(* A stream that closes at a node is silent there and nobody's connection  *)
(* at that node.                                                           *)
LEMMA CloseOpen ==
  ASSUME OpenInv, NetTypes', NEW s \in DOMAIN streams, NEW n \in Node, close(n, s)
  PROVE  OpenInv'
<1> DEFINE x == [streams[s] EXCEPT !.closed = @ \cup {n}, !.inbox[n] = << >>]
<1>1. streams' = [streams EXCEPT ![s] = x]
  BY DEF close
<1>2. connections' = [connections EXCEPT
                        ![n] = [m \in Node |-> IF @[m] = s THEN 0 ELSE @[m]]]
  BY DEF close, forget
<1>3. /\ streams[s] \in Stream /\ streams[s].inbox \in [Node -> Seq(Message)]
      /\ connections \in [Node -> [Node -> 0 .. Len(streams)]]
      /\ DOMAIN streams = 1 .. Len(streams)
  <2>1. streams \in Seq(Stream) /\ connections \in [Node -> [Node -> 0 .. Len(streams)]]
    BY DEF OpenInv, NetTypes
  <2>2. streams[s] \in Stream /\ DOMAIN streams = 1 .. Len(streams)
    BY <2>1
  <2> QED
    BY <2>1, <2>2 DEF Stream
<1>4. /\ x.client = streams[s].client /\ x.server = streams[s].server
      /\ x.closed = streams[s].closed \cup {n}
      /\ \A p \in Node : x.inbox[p] = IF p = n THEN << >> ELSE streams[s].inbox[p]
  BY <1>3 DEF Stream
<1> HIDE DEF x
<1>5. streams'[s] = x /\ \A k \in DOMAIN streams : k # s => streams'[k] = streams[k]
  BY <1>1
<1>6. ClosedIsSilent'
  <2> SUFFICES ASSUME NEW k \in DOMAIN streams', NEW p \in Node, p \in streams'[k].closed
               PROVE  streams'[k].inbox[p] = << >>
    BY DEF ClosedIsSilent
  <2>1. k \in DOMAIN streams
    BY <1>1
  <2> QED
    BY <1>4, <1>5, <2>1 DEF OpenInv, ClosedIsSilent
<1>7. ASSUME NEW p \in Node, NEW q \in Node, connections'[p][q] # 0
      PROVE  LET st == streams'[connections'[p][q]]
             IN  {st.client, st.server} = {p, q} /\ p \notin st.closed
  <2>1. connections'[p][q] = connections[p][q] /\ (p = n => connections[p][q] # s)
    BY <1>2, <1>3, <1>7
  <2>2. connections[p][q] \in DOMAIN streams
    BY <1>3, <1>7, <2>1
  <2>3. LET st == streams[connections[p][q]]
        IN  {st.client, st.server} = {p, q} /\ p \notin st.closed
    BY <1>7, <2>1 DEF OpenInv, ConnectionsOpen
  <2>4. CASE connections[p][q] = s
    BY <1>4, <1>5, <2>1, <2>3, <2>4
  <2>5. CASE connections[p][q] # s
    BY <1>5, <2>1, <2>2, <2>3, <2>5
  <2> QED
    BY <2>4, <2>5
<1> QED
  BY <1>6, <1>7 DEF OpenInv, ConnectionsOpen

(* Every step keeps the connections open.                                  *)
LEMMA NextOpen == IInv /\ OpenInv /\ [Next]_vars => OpenInv'
<1> SUFFICES ASSUME IInv, OpenInv, [Next]_vars PROVE OpenInv'
  OBVIOUS
<1>1. NetTypes'
  BY NextNet DEF OpenInv
<1>2. CASE UNCHANGED <<streams, connections>>
  BY <1>1, <1>2, IdleOpen
<1>3. CASE \E n \in Node : start(n) \/ stop(n) \/ cleanupPendingRequests(n)
  BY <1>2, <1>3 DEF start, stop, cleanupPendingRequests
<1>4. CASE \E r \in Req : makeRequestConnecting(r) \/ makeRequestConnected(r) \/ drain(r)
  BY <1>1, <1>4, ConnectingOpen, WriteOpen
<1>5. CASE \E call \in running : reply(call)
  BY <1>1, <1>5, WriteOpen
<1>6. CASE \E s \in DOMAIN streams, n \in Node : onIncomingReply(n, s) \/ onIncomingRequest(n, s)
  BY <1>1, <1>6, AdoptOpen DEF onIncomingReply, onIncomingRequest
<1>7. CASE \E s \in DOMAIN streams : break(s) \/ \E n \in Node : close(n, s)
  BY <1>1, <1>7, BreakOpen, CloseOpen
<1> QED
  BY <1>2, <1>3, <1>4, <1>5, <1>6, <1>7 DEF Next, vars

(* At the start there are no connections.                                  *)
LEMMA InitOpen == Init => OpenInv
  BY InitNet DEF Init, OpenInv, ClosedIsSilent, ConnectionsOpen

-----------------------------------------------------------------------------
(* The theorems. *)

(* The inductive invariant holds in every reachable state.                 *)
LEMMA AlwaysIInv == Spec => []IInv
  BY InitIInv, NextIInv, PTL DEF Spec

(* In every reachable state a request waits for its reply exactly if it is *)
(* in the pending map of its caller.                                       *)
THEOREM PendingIsSent == Spec => []SentIsPending
<1>1. IInv => SentIsPending
  BY DEF IInv
<1> QED
  BY <1>1, AlwaysIInv, PTL

(* A node that has pending requests and was not stopped always has its     *)
(* cleaner scheduled.                                                      *)
THEOREM CleanerIsScheduled == Spec => []PendingHasTimer
<1>1. IInv => PendingHasTimer
  BY DEF IInv
<1> QED
  BY <1>1, AlwaysIInv, PTL

(* Every variable of module Rpc always has its type.                       *)
THEOREM RpcTypeCorrect == Spec => []TypeOK
<1>1. IInv /\ NetTypes => TypeOK
  BY DEF IInv, PendingTypes, NetTypes, TypeOK
<1>2. Spec => [](IInv /\ NetTypes)
  BY InitIInv, NextIInv, InitNet, NextNet, PTL DEF Spec
<1> QED
  BY <1>1, <1>2, PTL
(* The connection of a node to a peer is always a stream between the two   *)
(* that the node has not seen closed.                                      *)
THEOREM ConnectionsStayOpen == Spec => []ConnectionsOpen
<1>1. Spec => [](IInv /\ OpenInv)
  BY InitIInv, NextIInv, InitOpen, NextOpen, PTL DEF Spec
<1>2. OpenInv => ConnectionsOpen
  BY DEF OpenInv
<1> QED
  BY <1>1, <1>2, PTL

(* A connection is taken out of the map by the close of its own stream: an *)
(* open one puts another stream, with a number of its own, into the map,   *)
(* and an adopted one too.                                                 *)
LEMMA StepKeeps ==
  ASSUME NetTypes, [Next]_vars, NEW n \in Node, NEW m \in Node,
         connections[n][m] # 0, connections'[n][m] = 0
  PROVE  n \in streams'[connections[n][m]].closed
<1>1. /\ connections \in [Node -> [Node -> 0 .. Len(streams)]]
      /\ streams \in Seq(Stream) /\ DOMAIN streams = 1 .. Len(streams) /\ Len(streams) \in Nat
  BY DEF NetTypes
<1>2. CASE UNCHANGED connections
  BY <1>2
<1>3. CASE \E p \in Node : start(p) \/ stop(p) \/ cleanupPendingRequests(p)
  BY <1>2, <1>3 DEF start, stop, cleanupPendingRequests
<1>4. ASSUME NEW r \in Req, makeRequestConnecting(r) PROVE FALSE
  <2>1. connections' = [connections EXCEPT ![Caller[r]][Callee[r]] = Len(streams) + 1]
    BY <1>4 DEF makeRequestConnecting
  <2> QED
    BY <2>1, <1>1
<1>5. CASE \E r \in Req : makeRequestConnected(r) \/ drain(r)
  BY <1>2, <1>5 DEF makeRequestConnected, drain
<1>6. CASE \E call \in running : reply(call)
  BY <1>2, <1>6 DEF reply
<1>7. CASE \E s \in DOMAIN streams : break(s)
  BY <1>2, <1>7 DEF break
<1>8. ASSUME NEW s \in DOMAIN streams, NEW p \in Node, adopt(p, s) PROVE FALSE
  <2>1. CASE UNCHANGED connections
    BY <2>1
  <2>2. CASE connections' = [connections EXCEPT ![p][Other(streams[s], p)] = s]
    BY <2>2, <1>1, s # 0
  <2> QED
    BY <2>1, <2>2, <1>8 DEF adopt
<1>9. CASE \E s \in DOMAIN streams, p \in Node : onIncomingReply(p, s) \/ onIncomingRequest(p, s)
  BY <1>8, <1>9 DEF onIncomingReply, onIncomingRequest
<1>10. ASSUME NEW s \in DOMAIN streams, NEW p \in Node, close(p, s)
       PROVE  n \in streams'[connections[n][m]].closed
  <2> DEFINE x == [streams[s] EXCEPT !.closed = @ \cup {p}, !.inbox[p] = << >>]
  <2>1. connections' = [connections EXCEPT ![p] = [q \in Node |-> IF @[q] = s THEN 0 ELSE @[q]]]
    BY <1>10 DEF close, forget
  <2>2. streams' = [streams EXCEPT ![s] = x]
    BY <1>10 DEF close
  <2>3. p = n /\ connections[n][m] = s
    BY <2>1, <1>1
  <2>4. streams[s] \in Stream
    BY <1>1
  <2>5. x.closed = streams[s].closed \cup {p}
    BY <2>4 DEF Stream
  <2> HIDE DEF x
  <2>6. streams'[s] = x
    BY <2>2
  <2> QED
    BY <2>3, <2>5, <2>6
<1> QED
  BY <1>2, <1>3, <1>4, <1>5, <1>6, <1>7, <1>9, <1>10 DEF Next, vars

(* A node loses the connection to a peer only when it sees that very       *)
(* stream closed, never by the late close of another.                      *)
THEOREM ConnectionsAreKept == Spec => ConnectionsKept
<1>1. NetTypes /\ [Next]_vars
      => [\A n, m \in Node : connections[n][m] # 0 /\ connections'[n][m] = 0
            => n \in streams'[connections[n][m]].closed]_vars
  BY StepKeeps
<1>2. Spec => [](IInv /\ NetTypes)
  BY InitIInv, NextIInv, InitNet, NextNet, PTL DEF Spec
<1> QED
  BY <1>1, <1>2, PTL DEF Spec, ConnectionsKept
==============================================================================
