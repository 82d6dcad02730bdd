-------------------------------- MODULE Rpc --------------------------------
(***************************************************************************)
(* Requests between nodes (class RpcNetManager, packages/core/src/rpc/     *)
(* manager.ts): makeRequest, the map of pending requests and the timer     *)
(* that cleans it, the data handler of both ends of a stream, start and    *)
(* stop.  The streams themselves (@grpc/grpc-js) are external.             *)
(*                                                                         *)
(* A stream is a bidirectional call: its client opened it, and either end  *)
(* sends requests and replies on it.  A reply has the id (`mid`) of its    *)
(* request.  Every step below is one callback of the event loop; between   *)
(* `executeCallback(command)` and its answer others run.                   *)
(***************************************************************************)
EXTENDS Integers, Sequences, FiniteSets

CONSTANTS Node, Req,        \* the nodes; the ids of all requests
          Caller, Callee,   \* the node that makes a request, the node it goes to
          Answering,        \* the requests whose handler returns a command, as get
          MaxStreams        \* bound: streams ever opened

ASSUME RouteAssumption ==
  /\ Caller \in [Req -> Node] /\ Callee \in [Req -> Node]
  /\ \A r \in Req : Caller[r] # Callee[r]
  /\ Answering \subseteq Req
  /\ MaxStreams \in Nat

VARIABLES serving,      \* start not called, the server is up, stop called
          timer,        \* timeoutRef: undefined, scheduled, or cleared by stop
          pending,      \* pendinRequests of each node
          ticks,        \* the runs of the cleaner that a pending request outlived
          connections,  \* each node's map from peer to stream, 0 for none
          streams,      \* every stream ever opened
          promise,      \* of each request; "waiting" is for the 'drain' event
          via,          \* the stream of each request, 0 for none
          running,      \* the calls of executeCallback not yet answered
          ran           \* how often the command of each request was run, by any
                        \* node: 0, 1, or 2 for more than once

vars == <<serving, timer, pending, ticks, connections, streams, promise, via, running, ran>>

\* "request": a command; "value": a reply with a command; "empty": a reply
\* with EmptyReply; "bare": a reply with neither a command nor an error.
Body    == {"request", "value", "empty", "bare"}
Message == [mid : Req, body : Body]

\* `ended` are the ends that called end(), `closed` those that had 'end',
\* 'close' or 'error'.
Stream ==
  [client : Node, server : Node, opener : Req, alive : BOOLEAN, ended : SUBSET Node, closed : SUBSET Node, inbox : [Node -> Seq(Message)]]

Init ==
  /\ serving = [n \in Node |-> "down"]
  /\ timer = [n \in Node |-> "none"]
  /\ pending = [n \in Node |-> {}]
  /\ ticks = [r \in Req |-> 0]
  /\ connections = [n \in Node |-> [m \in Node |-> 0]]
  /\ streams = << >>
  /\ promise = [r \in Req |-> "none"]
  /\ via = [r \in Req |-> 0]
  /\ running = {}
  /\ ran = [r \in Req |-> 0]

Other(s, n) == IF s.client = n THEN s.server ELSE s.client

\* Whether node n may still write on the stream: its peer may be gone.
Open(s, n) ==
  /\ s.alive
  /\ n \notin s.ended
  /\ n \in s.closed => n = s.server

\* The stream once n has written a message that was not refused.
Sent(s, n, msg) ==
  IF Open(s, n) /\ Other(s, n) \notin s.closed
  THEN [s EXCEPT !.inbox[Other(s, n)] = Append(@, msg)]
  ELSE s

-----------------------------------------------------------------------------
(* start, stop and the cleaner *)

\* Unless timeoutRef is set: it stays set when stop has cleared the timer.
setupRequestCleaner(n) == timer' = [timer EXCEPT ![n] = IF @ = "none" THEN "armed" ELSE @]

start(n) ==
  /\ serving[n] = "down"
  /\ serving' = [serving EXCEPT ![n] = "up"]
  /\ setupRequestCleaner(n)
  /\ UNCHANGED <<pending, ticks, connections, streams, promise, via, running, ran>>

stop(n) ==
  /\ serving[n] = "up"
  /\ serving' = [serving EXCEPT ![n] = "stopped"]
  /\ timer' = [timer EXCEPT ![n] = IF @ = "armed" THEN "stale" ELSE @]
  /\ UNCHANGED <<pending, ticks, connections, streams, promise, via, running, ran>>

\* Mutant: the timer is not set up again.
cleanupPendingRequestsOnce(n) ==
  \E late \in SUBSET pending[n] :
    /\ timer[n] = "armed"
    /\ {r \in pending[n] : ticks[r] = 2} \subseteq late
    /\ pending' = [pending EXCEPT ![n] = @ \ late]
    /\ promise' = [r \in Req |-> IF r \in late THEN "rejected" ELSE promise[r]]
    /\ ticks' = [r \in Req |-> IF r \in late THEN 0
                              ELSE IF r \in pending[n] THEN ticks[r] + 1 ELSE ticks[r]]
    /\ timer' = [timer EXCEPT ![n] = "none"]
    /\ UNCHANGED <<serving, connections, streams, via, running, ran>>

\* Mutant: only the requests that just came are looked at.
cleanupPendingRequestsYoung(n) ==
  \E late \in SUBSET {r \in pending[n] : ticks[r] = 0} :
    /\ timer[n] = "armed"
    /\ pending' = [pending EXCEPT ![n] = @ \ late]
    /\ promise' = [r \in Req |-> IF r \in late THEN "rejected" ELSE promise[r]]
    /\ ticks' = [r \in Req |-> IF r \in late THEN 0
                              ELSE IF r \in pending[n] THEN ticks[r] + 1 ELSE ticks[r]]
    /\ timer' = [timer EXCEPT ![n] = IF late = pending[n] THEN "none" ELSE "armed"]
    /\ UNCHANGED <<serving, connections, streams, via, running, ran>>

\* A request is at most as old as the timer when it sees its first run, and
\* at least as old at the second, where it may still stay by a tie.
cleanupPendingRequests(n) ==
  \E late \in SUBSET pending[n] :
    /\ timer[n] = "armed"
    /\ {r \in pending[n] : ticks[r] = 2} \subseteq late
    /\ pending' = [pending EXCEPT ![n] = @ \ late]
    /\ promise' = [r \in Req |-> IF r \in late THEN "rejected" ELSE promise[r]]
    /\ ticks' = [r \in Req |-> IF r \in late THEN 0
                              ELSE IF r \in pending[n] THEN ticks[r] + 1 ELSE ticks[r]]
    /\ timer' = [timer EXCEPT ![n] = IF late = pending[n] THEN "none" ELSE "armed"]
    /\ UNCHANGED <<serving, connections, streams, via, running, ran>>

\* Mutant: the entry of a settled request is left in the map.
settleKeeping(n, r, how) ==
  /\ promise' = [promise EXCEPT ![r] = how]
  /\ UNCHANGED <<pending, ticks>>

\* A pending request is settled and leaves the map.
settle(n, r, how) ==
  /\ promise' = [promise EXCEPT ![r] = how]
  /\ pending' = [pending EXCEPT ![n] = @ \ {r}]
  /\ ticks' = [ticks EXCEPT ![r] = 0]

-----------------------------------------------------------------------------
(* makeRequest *)

\* Mutant: the promise is resolved as soon as the request is written.
registerDone(n, r) ==
  /\ promise' = [promise EXCEPT ![r] = "resolved"]
  /\ UNCHANGED <<pending, timer>>

\* Mutant: the cleaner is not set up.
registerUntimed(n, r) ==
  /\ promise' = [promise EXCEPT ![r] = "sent"]
  /\ pending' = [pending EXCEPT ![n] = @ \cup {r}]
  /\ UNCHANGED timer

\* The write's callback ran without an error: the request is pending.
register(n, r) ==
  /\ promise' = [promise EXCEPT ![r] = "sent"]
  /\ pending' = [pending EXCEPT ![n] = @ \cup {r}]
  /\ setupRequestCleaner(n)

\* No usable connection: open one and write at once.
makeRequestConnecting(r) ==
  LET n == Caller[r]
      m == Callee[r]
      s == connections[n][m]
      opened == [client |-> n, server |-> m, opener |-> r, alive |-> serving[m] = "up",
                 ended |-> {}, closed |-> {},
                 inbox |-> [x \in Node |-> << >>]]
  IN  /\ promise[r] = "none"
      /\ s # 0 => n \in streams[s].closed
      /\ Len(streams) < MaxStreams
      /\ streams' = Append(streams, Sent(opened, n, [mid |-> r, body |-> "request"]))
      /\ connections' = [connections EXCEPT ![n][m] = Len(streams) + 1]
      /\ via' = [via EXCEPT ![r] = Len(streams) + 1]
      /\ register(n, r)
      /\ UNCHANGED <<serving, ticks, running, ran>>

\* Reuse the connection: write at once, or wait for 'drain', or find by the
\* write's error that the stream is gone.
makeRequestConnected(r) ==
  LET n == Caller[r]
      s == connections[n][Callee[r]]
  IN  /\ promise[r] = "none"
      /\ s # 0 /\ n \notin streams[s].closed
      /\ via' = [via EXCEPT ![r] = s]
      /\ \/ /\ streams' = [streams EXCEPT ![s] = Sent(@, n, [mid |-> r, body |-> "request"])]
            /\ register(n, r)
         \/ /\ promise' = [promise EXCEPT ![r] = "waiting"]
            /\ UNCHANGED <<streams, pending, timer>>
         \/ /\ ~ Open(streams[s], n)
            /\ promise' = [promise EXCEPT ![r] = "rejected"]
            /\ UNCHANGED <<streams, pending, timer>>
      /\ UNCHANGED <<serving, ticks, connections, running, ran>>

\* 'drain': a stream that is gone or that was ended never emits it.
drain(r) ==
  LET n == Caller[r]
      s == via[r]
  IN  /\ promise[r] = "waiting"
      /\ Open(streams[s], n)
      /\ streams' = [streams EXCEPT ![s] = Sent(@, n, [mid |-> r, body |-> "request"])]
      /\ register(n, r)
      /\ UNCHANGED <<serving, ticks, connections, via, running, ran>>

-----------------------------------------------------------------------------
(* Incoming data *)

\* The data handler of executeCommand: a server takes the stream of the last
\* message for its connection to the peer and ends the one it had.
adopt(n, s) ==
  LET m   == Other(streams[s], n)
      old == connections[n][m]
  IN  IF n = streams[s].server /\ old # s
      THEN /\ connections' = [connections EXCEPT ![n][m] = s]
           /\ streams' = [k \in DOMAIN streams |->
                CASE k = s   -> [streams[k] EXCEPT !.inbox[n] = Tail(@)]
                  [] k = old -> [streams[k] EXCEPT !.ended = @ \cup {n}]
                  [] OTHER   -> streams[k]]
      ELSE /\ streams' = [streams EXCEPT ![s].inbox[n] = Tail(@)]
           /\ UNCHANGED connections

\* Mutant: a reply is known by the node that made its request.
isReplyOnce(n, msg) == n = Caller[msg.mid] /\ msg.body # "bare"

\* A message of a pending request is its reply.
isReply(n, msg) == msg.mid \in pending[n] /\ msg.body # "bare"

onIncomingReply(n, s) ==
  LET msg == Head(streams[s].inbox[n])
  IN  /\ streams[s].inbox[n] # << >>
      /\ isReply(n, msg)
      /\ adopt(n, s)
      /\ settle(n, msg.mid, "resolved")
      /\ UNCHANGED <<serving, timer, via, running, ran>>

\* Any other message with a command is a request, whatever it was.
onIncomingRequest(n, s) ==
  LET msg == Head(streams[s].inbox[n])
  IN  /\ streams[s].inbox[n] # << >>
      /\ ~ isReply(n, msg)
      /\ adopt(n, s)
      /\ running' = running \cup (IF msg.body = "bare" THEN {}
                                  ELSE {[at |-> n, stream |-> s, msg |-> msg]})
      /\ UNCHANGED <<serving, timer, pending, ticks, promise, via, ran>>

\* Mutant: a handler that returns nothing is answered with the command itself.
answersEchoing(msg) ==
  IF msg.body = "empty" THEN {"empty"} ELSE {"value", "bare"}

\* What may answer a message: a command if the handler returns one, EmptyReply
\* if not; an error is caught, and its reply carries neither it nor a command.
\* execute runs no handler for EmptyReply.
answers(msg) ==
  IF msg.body = "empty"
  THEN {"empty"}
  ELSE {"empty", "bare"} \cup (IF msg.mid \in Answering THEN {"value"} ELSE {})

\* executeCallback is done: write the reply; a failed write is only logged.
\* The answer to a get is a get, so it too is a run of the command.
reply(call) ==
  /\ call \in running
  /\ \E body \in answers(call.msg) :
       streams' = [streams EXCEPT ![call.stream] =
                     Sent(@, call.at, [mid |-> call.msg.mid, body |-> body])]
  /\ running' = running \ {call}
  /\ ran' = [ran EXCEPT ![call.msg.mid] =
               IF call.msg.body = "empty" THEN @ ELSE IF @ = 0 THEN 1 ELSE 2]
  /\ UNCHANGED <<serving, timer, pending, ticks, connections, promise, via>>

-----------------------------------------------------------------------------
(* The end of a stream *)

\* The network or the process at the other end fails.
break(s) ==
  /\ streams[s].alive
  /\ streams[s].closed # {streams[s].client, streams[s].server}
  /\ streams' = [streams EXCEPT ![s].alive = FALSE, ![s].inbox = [n \in Node |-> << >>]]
  /\ UNCHANGED <<serving, timer, pending, ticks, connections, promise, via, running, ran>>

\* Mutant: the handler is not registered.
forgetNothing(n, s) == UNCHANGED connections

\* Mutant: the connection to that peer is dropped whichever stream it is.
forgetPeer(n, s) == connections' = [connections EXCEPT ![n][Other(streams[s], n)] = 0]

\* handleConClose: the stream leaves n's map.
forget(n, s) ==
  connections' = [connections EXCEPT
                    ![n] = [m \in Node |-> IF @[m] = s THEN 0 ELSE @[m]]]

\* 'end' or 'close' at node n, or 'error', which for a client may be
\* UNAVAILABLE: that rejects the opener's request.
close(n, s) ==
  LET st == streams[s]
  IN  /\ n \in {st.client, st.server} \ st.closed
      /\ \/ ~ st.alive
         \/ Other(st, n) \in st.ended /\ st.inbox[n] = << >>
         \/ n = st.server /\ n \in st.ended
      /\ forget(n, s)
      /\ streams' = [streams EXCEPT ![s].closed = @ \cup {n}, ![s].inbox[n] = << >>]
      /\ \/ UNCHANGED <<pending, ticks, promise>>
         \/ /\ n = st.client /\ ~ st.alive
            /\ IF st.opener \in pending[n]
               THEN settle(n, st.opener, "rejected")
               ELSE UNCHANGED <<pending, ticks, promise>>
      /\ UNCHANGED <<serving, timer, via, running, ran>>

Next ==
  \/ \E n \in Node : start(n) \/ stop(n) \/ cleanupPendingRequests(n)
  \/ \E r \in Req : makeRequestConnecting(r) \/ makeRequestConnected(r) \/ drain(r)
  \/ \E call \in running : reply(call)
  \/ \E s \in DOMAIN streams :
       \/ break(s)
       \/ \E n \in Node : onIncomingReply(n, s) \/ onIncomingRequest(n, s) \/ close(n, s)

Spec == Init /\ [][Next]_vars

\* What the event loop and the network do in the end: timers fire, data and
\* the events of a stream are delivered, a command that was started finishes.
Fairness ==
  /\ \A n \in Node : WF_vars(cleanupPendingRequests(n))
  /\ \A r \in Req : WF_vars(drain(r))
  /\ WF_vars(\E call \in running : reply(call))
  /\ \A s \in 1 .. MaxStreams : \A n \in Node :
       WF_vars(s \in DOMAIN streams /\ (onIncomingReply(n, s) \/ onIncomingRequest(n, s) \/ close(n, s)))

FairSpec == Spec /\ Fairness

-----------------------------------------------------------------------------
(* The type invariant: every variable has its type.                        *)
TypeOK ==
  /\ serving \in [Node -> {"down", "up", "stopped"}]
  /\ timer \in [Node -> {"none", "armed", "stale"}]
  /\ pending \in [Node -> SUBSET Req]
  /\ ticks \in [Req -> 0 .. 2]
  /\ connections \in [Node -> [Node -> 0 .. Len(streams)]]
  /\ streams \in Seq(Stream)
  /\ promise \in [Req -> {"none", "waiting", "sent", "resolved", "rejected"}]
  /\ via \in [Req -> 0 .. Len(streams)]
  /\ running \subseteq [at : Node, stream : 1 .. Len(streams), msg : Message]
  /\ ran \in [Req -> 0 .. 2]

(* A request that waits for its reply is in the pending map of its caller, *)
(* where the cleaner and the reply find it, and nothing else is: no run of *)
(* the cleaner, close of a stream or reply settles a request and leaves it *)
(* there, or takes it away unsettled.                                      *)
SentIsPending ==
  \A r \in Req, n \in Node : r \in pending[n] <=> promise[r] = "sent" /\ n = Caller[r]

(* Until stop, a node with pending requests has its cleaner scheduled,     *)
(* though the cleaner is set up only by makeRequest and gives itself up    *)
(* when it leaves the map empty.                                           *)
PendingHasTimer ==
  \A n \in Node : pending[n] # {} /\ serving[n] # "stopped" => timer[n] = "armed"

(* A node's connection to a peer is a stream between the two that the node *)
(* has not seen closed, whatever streams the peers open to each other and  *)
(* whatever is still on its way on those they gave up.                     *)
ConnectionsOpen ==
  \A n, m \in Node : connections[n][m] # 0 =>
    LET s == streams[connections[n][m]]
    IN  {s.client, s.server} = {n, m} /\ n \notin s.closed

(* A node loses its connection to a peer only when it sees that very       *)
(* stream closed: the late close of a stream it had before does not take   *)
(* away its successor.                                                     *)
ConnectionsKept ==
  [][\A n, m \in Node :
       connections[n][m] # 0 /\ connections'[n][m] = 0
         => n \in streams'[connections[n][m]].closed]_vars

(* A command that changes a store is run at most once by all nodes         *)
(* together, and a request that is resolved had its command run exactly    *)
(* once, whenever its messages come.  Only what a handler answers with a   *)
(* command may be run again, and only after it was given up: the answer to *)
(* a late get is run as a get by the caller, whose answer the callee runs. *)
RunOnce ==
  \A r \in Req :
    /\ ran[r] = 2 => r \in Answering /\ promise[r] = "rejected"
    /\ promise[r] = "resolved" => ran[r] = 1

\* The promise, without what it waits for.
callState ==
  [r \in Req |-> IF promise[r] \in {"waiting", "sent"} THEN "open" ELSE promise[r]]

Requests == INSTANCE Calls WITH call <- callState, ran <- ran

(* Over streams that both ends open, break and give up, over timeouts and  *)
(* late replies, a request is what module Calls says: settled once, its    *)
(* command run before it is answered and not after, and run more than once *)
(* only when it was given up and what it runs returns a command.           *)
RpcImplementsCalls == Requests!Spec

Settled(r) == promise[r] \in {"resolved", "rejected"}

(* A request that was written is settled in the end, by its reply, by the  *)
(* cleaner or by its stream's error, unless its caller stops.              *)
SentSettles ==
  \A r \in Req : promise[r] = "sent" ~> Settled(r) \/ serving[Caller[r]] = "stopped"

-----------------------------------------------------------------------------
(* What a comment and a test say and the code does not do: refuted by a    *)
(* run.                                                                    *)

(* "this is a response, so resolve it", and the test that expects no call  *)
(* of executeCallback on a response: a reply that comes back to the node   *)
(* that made the request is not run as a command there.                    *)
RepliesAreNotExecuted ==
  \A call \in running : call.at # Caller[call.msg.mid]
=============================================================================
