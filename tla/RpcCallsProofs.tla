--------------------------- MODULE RpcCallsProofs ---------------------------
(***************************************************************************)
(* Proofs that the requests of module Rpc are what module Calls says: each *)
(* is settled at most once, its command is run exactly once before it is   *)
(* answered and not afterwards, and at most once at all unless its answer  *)
(* is a command and it was given up.  A command is run by whoever takes a  *)
(* message of its request from a stream, so the invariant follows that     *)
(* message back and forth: there is at most one, it is on its way between  *)
(* the two nodes or being run at one of them, and there is none of a       *)
(* request that is resolved.                                               *)
(***************************************************************************)
EXTENDS RpcProofs

\* Message i of those on their way to p on stream k is msg.
Has(k, p, i, msg) ==
  /\ k \in DOMAIN streams /\ p \in Node
  /\ i \in 1 .. Len(streams[k].inbox[p])
  /\ streams[k].inbox[p][i] = msg

request(r) == [mid |-> r, body |-> "request"]

\* The request has left makeRequest, or failed there.
Made(r) == promise[r] \notin {"none", "waiting"}

Ends(s) == {s.client, s.server}

\* The request of a message on its way to p or being run there is open or was
\* given up.  Only the callee gets the request itself, and gets a command as
\* an answer to an answer only when the request was given up.
Live(msg, p) ==
  /\ Made(msg.mid) /\ promise[msg.mid] # "resolved"
  /\ msg.body = "request" => p = Callee[msg.mid] /\ ran[msg.mid] = 0
  /\ msg.body # "request" => ran[msg.mid] # 0
  /\ msg.body = "value" => /\ msg.mid \in Answering
                           /\ p = Callee[msg.mid] => promise[msg.mid] = "rejected"

\* A message that is live, at an end of a stream between its two nodes.
Fits(k, p, msg) ==
  /\ msg \in Message
  /\ Ends(streams[k]) = {Caller[msg.mid], Callee[msg.mid]}
  /\ p \in {Caller[msg.mid], Callee[msg.mid]}
  /\ Live(msg, p)

OneMessage ==
  \A k, l, p, q, i, j, x, y :
    Has(k, p, i, x) /\ Has(l, q, j, y) /\ x.mid = y.mid => k = l /\ p = q /\ i = j

WireInv ==
  \A k, p, i, msg : Has(k, p, i, msg) =>
    /\ Fits(k, p, msg)
    /\ \A call \in running : call.msg.mid # msg.mid

RunningInv ==
  \A call \in running :
    /\ Fits(call.stream, call.at, call.msg)
    /\ call.msg.body # "bare"
    /\ call.msg.body = "value" => promise[call.msg.mid] = "rejected"
    /\ \A other \in running : other.msg.mid = call.msg.mid => other = call

PromiseInv ==
  \A r \in Req : /\ ran[r] \in 0 .. 2
                 /\ promise[r] = "resolved" => ran[r] = 1
                 /\ ran[r] = 2 => r \in Answering /\ promise[r] = "rejected"
                 /\ ~ Made(r) => ran[r] = 0

ViaInv ==
  \A r \in Req : /\ promise[r] = "waiting" => via[r] # 0
                 /\ via[r] # 0 => Ends(streams[via[r]]) = {Caller[r], Callee[r]}

RanInv == OneMessage /\ WireInv /\ RunningInv /\ PromiseInv /\ ViaInv

-----------------------------------------------------------------------------
(* What the steps do to the messages on their way. *)

\* The streams keep their ends, and none is taken away.
EndsKept ==
  /\ DOMAIN streams \subseteq DOMAIN streams'
  /\ \A k \in DOMAIN streams : Ends(streams'[k]) = Ends(streams[k])

\* Nothing new is on its way.
NothingNew == \A k, p, i, msg : Has(k, p, i, msg)' => Has(k, p, i, msg)

\* At most one message is, at the end of one inbox.
Wrote(s, to, new) ==
  \E n :
    \A k, p, i, msg : Has(k, p, i, msg)' =>
      Has(k, p, i, msg) \/ (k = s /\ p = to /\ i = n /\ msg = new)

\* Node n takes the first of its messages on stream s.
Took(s, n) ==
  \A k, p, i, msg : Has(k, p, i, msg)' =>
    Has(k, p, IF k = s /\ p = n THEN i + 1 ELSE i, msg)

(* A stream between caller and callee has the one at the other end of the  *)
(* other.                                                                  *)
LEMMA OtherEnd ==
  ASSUME NEW s, NEW r \in Req, Ends(s) = {Caller[r], Callee[r]}
  PROVE  Other(s, Caller[r]) = Callee[r] /\ Other(s, Callee[r]) = Caller[r]
  BY RouteAssumption DEF Other, Ends

(* Writing on a stream adds at most the message, at the end of the inbox   *)
(* of the other end.                                                       *)
LEMMA SentWrites ==
  ASSUME NetTypes, NEW s \in DOMAIN streams, NEW n, NEW new \in Message,
         streams' = [streams EXCEPT ![s] = Sent(@, n, new)]
  PROVE  Wrote(s, Other(streams[s], n), new) /\ EndsKept
<1> DEFINE to == Other(streams[s], n)
           x == Sent(streams[s], n, new)
<1>1. streams[s] \in Stream /\ to \in Node
  BY OtherType DEF NetTypes
<1>2. streams[s].inbox \in [Node -> Seq(Message)]
  BY <1>1 DEF Stream
<1>3. /\ x.client = streams[s].client /\ x.server = streams[s].server
      /\ \/ x.inbox = streams[s].inbox
         \/ x.inbox = [streams[s].inbox EXCEPT ![to] = Append(@, new)]
  BY <1>1 DEF Sent, Stream
<1>4. /\ DOMAIN streams' = DOMAIN streams /\ streams'[s] = x
      /\ \A k \in DOMAIN streams : k # s => streams'[k] = streams[k]
  OBVIOUS
<1> HIDE DEF to, x
<1>5. EndsKept
  BY <1>3, <1>4 DEF EndsKept, Ends
<1>6. ASSUME NEW k, NEW p, NEW i, NEW msg, Has(k, p, i, msg)'
      PROVE  Has(k, p, i, msg) \/ (k = s /\ p = to /\ i = Len(streams[s].inbox[to]) + 1 /\ msg = new)
  <2>1. CASE k # s
    BY <1>4, <1>6, <2>1 DEF Has
  <2>2. CASE k = s /\ x.inbox[p] = streams[s].inbox[p]
    BY <1>4, <1>6, <2>2 DEF Has
  <2>3. CASE k = s /\ p = to /\ x.inbox[p] = Append(streams[s].inbox[p], new)
    <3> DEFINE q == streams[s].inbox[to]
    <3>1. q \in Seq(Message) /\ i \in 1 .. Len(Append(q, new)) /\ Append(q, new)[i] = msg
      BY <1>1, <1>2, <1>4, <1>6, <2>3 DEF Has
    <3> HIDE DEF q
    <3>2. (i \in 1 .. Len(q) /\ q[i] = msg) \/ (i = Len(q) + 1 /\ msg = new)
      BY <3>1
    <3> QED
      BY <1>1, <2>3, <3>2 DEF Has, q
  <2> QED
    BY <1>2, <1>3, <1>6, <2>1, <2>2, <2>3 DEF Has
<1> DEFINE end == Len(streams[s].inbox[to]) + 1
<1>7. \A k, p, i, msg : Has(k, p, i, msg)' =>
        Has(k, p, i, msg) \/ (k = s /\ p = to /\ i = end /\ msg = new)
  BY <1>6
<1> HIDE DEF end
<1>8. Wrote(s, to, new)
  BY <1>7 DEF Wrote
<1> QED
  BY <1>5, <1>8 DEF to

(* Streams that keep their ends, and whose inboxes are kept or emptied,    *)
(* have nothing new.                                                       *)
LEMMA EmptiedIsNothingNew ==
  ASSUME NetTypes, NEW s \in DOMAIN streams, NEW x,
         streams' = [streams EXCEPT ![s] = x], Ends(x) = Ends(streams[s]),
         \A p \in Node : x.inbox[p] \in {streams[s].inbox[p], << >>}
  PROVE  NothingNew /\ EndsKept
<1>1. /\ DOMAIN streams' = DOMAIN streams /\ streams'[s] = x
      /\ \A k \in DOMAIN streams : k # s => streams'[k] = streams[k]
  OBVIOUS
<1>2. ASSUME NEW k, NEW p, NEW i, NEW msg, Has(k, p, i, msg)'
      PROVE  Has(k, p, i, msg)
  <2>1. CASE k # s
    BY <1>1, <1>2, <2>1 DEF Has
  <2>2. CASE k = s /\ x.inbox[p] = streams[s].inbox[p]
    BY <1>1, <1>2, <2>2 DEF Has
  <2>3. CASE k = s /\ x.inbox[p] = << >>
    BY <1>1, <1>2, <2>3 DEF Has
  <2> QED
    BY <1>2, <2>1, <2>2, <2>3 DEF Has
<1> QED
  BY <1>1, <1>2 DEF NothingNew, EndsKept

(* Reading takes one message from one inbox, whether the stream becomes    *)
(* the connection or was it already.                                       *)
LEMMA AdoptTakes ==
  ASSUME NetTypes, NEW s \in DOMAIN streams, NEW n \in Node,
         streams[s].inbox[n] # << >>, adopt(n, s)
  PROVE  Took(s, n) /\ EndsKept /\ Has(s, n, 1, Head(streams[s].inbox[n]))
<1> DEFINE old == connections[n][Other(streams[s], n)]
           read(x) == [x EXCEPT !.inbox[n] = Tail(@)]
           end(x) == [x EXCEPT !.ended = @ \cup {n}]
<1>1. \A k \in DOMAIN streams :
        streams[k] \in Stream /\ streams[k].inbox \in [Node -> Seq(Message)]
  <2>1. \A k \in DOMAIN streams : streams[k] \in Stream
    BY DEF NetTypes
  <2> QED
    BY <2>1 DEF Stream
<1>2. /\ read(streams[s]).inbox = [streams[s].inbox EXCEPT ![n] = Tail(@)]
      /\ Ends(read(streams[s])) = Ends(streams[s])
  BY <1>1 DEF Stream, Ends
<1>3. \A k \in DOMAIN streams : /\ end(streams[k]).inbox = streams[k].inbox
                                /\ Ends(end(streams[k])) = Ends(streams[k])
  BY <1>1 DEF Stream, Ends
<1>4. /\ DOMAIN streams' = DOMAIN streams /\ streams'[s] = read(streams[s])
      /\ \A k \in DOMAIN streams : k # s => streams'[k] \in {streams[k], end(streams[k])}
  <2>1. CASE n = streams[s].server /\ old # s
    <3>1. streams' = [k \in DOMAIN streams |->
                        CASE k = s   -> read(streams[k])
                          [] k = old -> end(streams[k])
                          [] OTHER   -> streams[k]]
      BY <2>1 DEF adopt
    <3> HIDE DEF read, end, old
    <3> QED
      BY <2>1, <3>1
  <2>2. CASE ~ (n = streams[s].server /\ old # s)
    <3>1. streams' = [streams EXCEPT ![s] = read(streams[s])]
      BY <2>2 DEF adopt
    <3> HIDE DEF read, end
    <3> QED
      BY <3>1
  <2> QED
    BY <2>1, <2>2
<1> HIDE DEF old, read, end
<1>5. EndsKept
  BY <1>2, <1>3, <1>4 DEF EndsKept
<1>6. ASSUME NEW k, NEW p, NEW i, NEW msg, Has(k, p, i, msg)'
      PROVE  Has(k, p, IF k = s /\ p = n THEN i + 1 ELSE i, msg)
  <2>1. CASE k # s
    <3>1. streams'[k].inbox = streams[k].inbox
      BY <1>3, <1>4, <1>6, <2>1 DEF Has
    <3> QED
      BY <1>4, <1>6, <2>1, <3>1 DEF Has
  <2>2. CASE k = s /\ p # n
    <3>1. streams'[k].inbox[p] = streams[k].inbox[p]
      BY <1>1, <1>2, <1>4, <1>6, <2>2 DEF Has
    <3> QED
      BY <1>4, <1>6, <2>2, <3>1 DEF Has
  <2>3. CASE k = s /\ p = n
    <3> DEFINE q == streams[s].inbox[n]
    <3>1. q \in Seq(Message) /\ q # << >>
      BY <1>1
    <3>2. streams'[k].inbox[p] = Tail(q)
      BY <1>1, <1>2, <1>4, <2>3
    <3>3. i \in 1 .. Len(Tail(q)) /\ Tail(q)[i] = msg
      BY <1>6, <3>2 DEF Has
    <3> HIDE DEF q
    <3>4. i + 1 \in 1 .. Len(q) /\ q[i + 1] = msg
      BY <3>1, <3>3
    <3> QED
      BY <2>3, <3>4 DEF Has, q
  <2> QED
    BY <2>1, <2>2, <2>3
<1>7. Has(s, n, 1, Head(streams[s].inbox[n]))
  BY <1>1 DEF Has
<1> QED
  BY <1>5, <1>6, <1>7 DEF Took

-----------------------------------------------------------------------------
(* The invariant is inductive. *)

(* At the start nothing is on its way and nothing was made.                *)
LEMMA InitRan == Init => RanInv
<1> SUFFICES ASSUME Init PROVE RanInv
  OBVIOUS
<1>1. \A k, p, i, msg : ~ Has(k, p, i, msg)
  BY DEF Init, Has
<1>2. OneMessage /\ WireInv
  BY <1>1 DEF OneMessage, WireInv
<1>3. RunningInv /\ PromiseInv /\ ViaInv
  BY DEF Init, RunningInv, PromiseInv, ViaInv, Made
<1> QED
  BY <1>2, <1>3 DEF RanInv

\* The promise of a message that is on its way stays or is rejected.
StaysOrFails(r) ==
  promise'[r] = promise[r] \/ (promise[r] = "sent" /\ promise'[r] = "rejected")

\* No promise is resolved, and none goes back.
Onward ==
  \A r \in Req :
    \/ StaysOrFails(r)
    \/ ~ Made(r) /\ promise'[r] \in {"waiting", "sent", "rejected"}

(* A message stays live on its stream while its command is not run and its *)
(* request not resolved.                                                   *)
LEMMA FitsKept ==
  ASSUME EndsKept, NEW k \in DOMAIN streams, NEW p, NEW msg, Fits(k, p, msg),
         ran'[msg.mid] = ran[msg.mid], StaysOrFails(msg.mid)
  PROVE  Fits(k, p, msg)'
<1>1. Ends(streams[k])' = Ends(streams[k])
  BY DEF EndsKept, Ends
<1>2. Live(msg, p) /\ promise'[msg.mid] \in {promise[msg.mid], "rejected"}
  BY DEF Fits, StaysOrFails
<1>3. Made(msg.mid)' /\ promise'[msg.mid] # "resolved"
  BY <1>2 DEF Live, Made
<1>4. promise[msg.mid] = "rejected" => promise'[msg.mid] = "rejected"
  BY DEF StaysOrFails
<1>5. Live(msg, p)'
  BY <1>2, <1>3, <1>4 DEF Live
<1> QED
  BY <1>1, <1>5 DEF Fits

(* Such a message is of a request that was made.                           *)
LEMMA FitsMade ==
  ASSUME Onward, NEW k, NEW p, NEW msg, Fits(k, p, msg)
  PROVE  msg.mid \in Req /\ StaysOrFails(msg.mid)
<1>1. msg.mid \in Req /\ Made(msg.mid)
  BY DEF Fits, Message, Live
<1> QED
  BY <1>1 DEF Onward

(* The part about the streams a request waits for.                         *)
LEMMA ViaRan ==
  ASSUME NetTypes, ViaInv, EndsKept, UNCHANGED via,
         \A r \in Req : promise'[r] = "waiting" => promise[r] = "waiting"
  PROVE  ViaInv'
<1> SUFFICES ASSUME NEW r \in Req
             PROVE  /\ promise'[r] = "waiting" => via[r] # 0
                    /\ via[r] # 0 => Ends(streams'[via[r]]) = {Caller[r], Callee[r]}
  BY DEF ViaInv
<1>1. via[r] # 0 => via[r] \in DOMAIN streams
  BY DEF NetTypes
<1> QED
  BY <1>1 DEF ViaInv, EndsKept

(* What is being run stays what it is while no command ends.               *)
LEMMA RunningKept ==
  ASSUME NetTypes, RanInv, EndsKept, Onward, UNCHANGED <<running, ran>>
  PROVE  RunningInv'
<1> SUFFICES ASSUME NEW call \in running
             PROVE  /\ Fits(call.stream, call.at, call.msg)'
                    /\ call.msg.body # "bare"
                    /\ call.msg.body = "value" => promise'[call.msg.mid] = "rejected"
                    /\ \A other \in running : other.msg.mid = call.msg.mid => other = call
  BY DEF RunningInv
<1>1. /\ Fits(call.stream, call.at, call.msg) /\ call.stream \in DOMAIN streams
      /\ call.msg.body # "bare"
      /\ call.msg.body = "value" => promise[call.msg.mid] = "rejected"
      /\ \A other \in running : other.msg.mid = call.msg.mid => other = call
  BY DEF RanInv, RunningInv, NetTypes
<1>2. StaysOrFails(call.msg.mid)
  BY <1>1, FitsMade
<1>3. Fits(call.stream, call.at, call.msg)'
  BY <1>1, <1>2, FitsKept
<1> QED
  BY <1>1, <1>2, <1>3 DEF StaysOrFails

(* While nothing is written, read or run, what is on its way, being run    *)
(* and run already stays what it is.                                       *)
LEMMA QuietRan ==
  ASSUME NetTypes, RanInv, NothingNew, EndsKept, Onward, UNCHANGED <<running, ran>>, ViaInv'
  PROVE  RanInv'
<1>1. OneMessage'
  BY DEF RanInv, OneMessage, NothingNew
<1>2. WireInv'
  <2> SUFFICES ASSUME NEW k, NEW p, NEW i, NEW msg, Has(k, p, i, msg)'
               PROVE  Fits(k, p, msg)' /\ \A call \in running : call.msg.mid # msg.mid
    BY DEF WireInv
  <2>1. Has(k, p, i, msg) /\ k \in DOMAIN streams
    BY DEF NothingNew, Has
  <2>2. Fits(k, p, msg) /\ \A call \in running : call.msg.mid # msg.mid
    BY <2>1 DEF RanInv, WireInv
  <2> QED
    BY <2>1, <2>2, FitsKept, FitsMade
<1>3. RunningInv'
  BY RunningKept
<1>4. PromiseInv'
  BY DEF RanInv, PromiseInv, Onward, StaysOrFails, Made
<1> QED
  BY <1>1, <1>2, <1>3, <1>4 DEF RanInv

(* A request that is made and perhaps written to its callee had no message *)
(* on its way before.                                                      *)
LEMMA WrittenRan ==
  ASSUME NetTypes, RanInv, EndsKept, NEW r \in Req, ~ Made(r), NEW s,
         Wrote(s, Callee[r], request(r)), Ends(streams'[s]) = {Caller[r], Callee[r]},
         promise' = [promise EXCEPT ![r] = "sent"],
         promise \in [Req -> {"none", "waiting", "sent", "resolved", "rejected"}],
         UNCHANGED <<running, ran>>, ViaInv'
  PROVE  RanInv'
<1>1. promise'[r] = "sent" /\ ran[r] = 0 /\ Onward
  BY DEF Made, RanInv, PromiseInv, Onward, StaysOrFails
<1>2. \A k, p, i, msg : Has(k, p, i, msg) => msg.mid # r
  BY DEF RanInv, WireInv, Fits, Live
<1>3. \A call \in running : call.msg.mid # r
  BY DEF RanInv, RunningInv, Fits, Live
<1>4. PICK n : \A k, p, i, msg : Has(k, p, i, msg)' =>
        Has(k, p, i, msg) \/ (k = s /\ p = Callee[r] /\ i = n /\ msg = request(r))
  BY DEF Wrote
<1>5. /\ request(r) \in Message /\ request(r).mid = r /\ request(r).body = "request"
  BY DEF Message, Body, request
<1>6. OneMessage'
  <2> SUFFICES ASSUME NEW k, NEW l, NEW p, NEW q, NEW i, NEW j, NEW x, NEW y,
                      Has(k, p, i, x)', Has(l, q, j, y)', x.mid = y.mid
               PROVE  k = l /\ p = q /\ i = j
    BY DEF OneMessage
  <2>1. CASE Has(k, p, i, x) /\ Has(l, q, j, y)
    BY <2>1 DEF RanInv, OneMessage
  <2>2. CASE x = request(r) \/ y = request(r)
    BY <1>2, <1>4, <1>5, <2>2
  <2> QED
    BY <1>4, <2>1, <2>2
<1>7. WireInv'
  <2> SUFFICES ASSUME NEW k, NEW p, NEW i, NEW msg, Has(k, p, i, msg)'
               PROVE  Fits(k, p, msg)' /\ \A call \in running : call.msg.mid # msg.mid
    BY DEF WireInv
  <2>1. CASE Has(k, p, i, msg)
    <3>1. k \in DOMAIN streams /\ Fits(k, p, msg) /\ \A call \in running : call.msg.mid # msg.mid
      BY <2>1 DEF Has, RanInv, WireInv
    <3> QED
      BY <1>1, <3>1, FitsKept, FitsMade
  <2>2. CASE k = s /\ p = Callee[r] /\ msg = request(r)
    <3>1. Live(msg, p)'
      BY <1>1, <1>5, <2>2 DEF Live, Made
    <3>2. Ends(streams[k])' = {Caller[r], Callee[r]}
      BY <2>2 DEF Ends
    <3> QED
      BY <1>3, <1>5, <2>2, <3>1, <3>2 DEF Fits
  <2> QED
    BY <1>4, <2>1, <2>2
<1>8. RunningInv'
  BY <1>1, RunningKept
<1>9. PromiseInv'
  BY <1>1 DEF RanInv, PromiseInv, Onward, StaysOrFails, Made
<1> QED
  BY <1>6, <1>7, <1>8, <1>9 DEF RanInv

(* A message that is taken, to be run or not: no other message of its      *)
(* request is left, and none is being run.                                 *)
LEMMA TakenRan ==
  ASSUME NetTypes, RanInv, EndsKept, NEW s \in DOMAIN streams, NEW n \in Node,
         Took(s, n), NEW msg, Has(s, n, 1, msg), UNCHANGED ran,
         \A r \in Req : r # msg.mid => promise'[r] = promise[r],
         \/ UNCHANGED running
         \/ /\ running' = running \cup {[at |-> n, stream |-> s, msg |-> msg]}
            /\ UNCHANGED promise /\ msg.body # "bare"
            /\ msg.body = "value" => promise[msg.mid] = "rejected",
         PromiseInv', ViaInv'
  PROVE  RanInv'
<1> DEFINE new == [at |-> n, stream |-> s, msg |-> msg]
           was(k, p, i) == IF k = s /\ p = n THEN i + 1 ELSE i
<1>1. new.msg = msg /\ new.stream = s /\ new.at = n
  OBVIOUS
<1>2. Fits(s, n, msg) /\ \A call \in running : call.msg.mid # msg.mid
  BY DEF RanInv, WireInv
<1>3. \/ UNCHANGED running
      \/ /\ running' = running \cup {new}
         /\ UNCHANGED promise /\ msg.body # "bare"
         /\ msg.body = "value" => promise[msg.mid] = "rejected"
  OBVIOUS
<1> HIDE DEF new
<1>4. \A k, p, i, x : Has(k, p, i, x)' => Has(k, p, was(k, p, i), x) /\ i \in Nat \ {0}
  <2> SUFFICES ASSUME NEW k, NEW p, NEW i, NEW x, Has(k, p, i, x)'
               PROVE  Has(k, p, was(k, p, i), x) /\ i \in Nat \ {0}
    OBVIOUS
  <2>1. Has(k, p, was(k, p, i), x)
    BY DEF Took
  <2>2. i \in Int
    BY DEF Has
  <2>3. i >= 1
    BY <2>2 DEF Has
  <2> QED
    BY <2>1, <2>2, <2>3
<1>5. OneMessage'
  <2> SUFFICES ASSUME NEW k, NEW l, NEW p, NEW q, NEW i, NEW j, NEW x, NEW y,
                      Has(k, p, i, x)', Has(l, q, j, y)', x.mid = y.mid
               PROVE  k = l /\ p = q /\ i = j
    BY DEF OneMessage
  <2>1. Has(k, p, was(k, p, i), x) /\ Has(l, q, was(l, q, j), y) /\ i \in Nat /\ j \in Nat
    BY <1>4
  <2>2. k = l /\ p = q /\ was(k, p, i) = was(l, q, j)
    BY <2>1 DEF RanInv, OneMessage
  <2> QED
    BY <2>1, <2>2
<1>6. ASSUME NEW k, NEW p, NEW i, NEW x, Has(k, p, i, x)'
      PROVE  x.mid # msg.mid
  <2>1. Has(k, p, was(k, p, i), x) /\ i \in Nat \ {0}
    BY <1>4, <1>6
  <2>2. x.mid = msg.mid => k = s /\ p = n /\ was(k, p, i) = 1
    BY <2>1 DEF RanInv, OneMessage
  <2> QED
    BY <2>1, <2>2
<1>7. ASSUME NEW k \in DOMAIN streams, NEW p, NEW x, Fits(k, p, x), x.mid # msg.mid
      PROVE  Fits(k, p, x)'
  <2>1. x.mid \in Req
    BY <1>7 DEF Fits, Message
  <2>2. StaysOrFails(x.mid)
    BY <1>7, <2>1 DEF StaysOrFails
  <2> QED
    BY <1>7, <2>2, FitsKept
<1>8. WireInv'
  <2> SUFFICES ASSUME NEW k, NEW p, NEW i, NEW x, Has(k, p, i, x)'
               PROVE  Fits(k, p, x)' /\ \A call \in running' : call.msg.mid # x.mid
    BY DEF WireInv
  <2>1. Has(k, p, was(k, p, i), x) /\ x.mid # msg.mid
    BY <1>4, <1>6
  <2>2. k \in DOMAIN streams /\ Fits(k, p, x) /\ \A call \in running : call.msg.mid # x.mid
    BY <2>1 DEF Has, RanInv, WireInv
  <2> QED
    BY <1>1, <1>3, <1>7, <2>1, <2>2
<1>9. RunningInv'
  <2>1. ASSUME NEW call \in running
        PROVE  /\ Fits(call.stream, call.at, call.msg)'
               /\ call.msg.body # "bare"
               /\ call.msg.body = "value" => promise'[call.msg.mid] = "rejected"
    <3>1. /\ Fits(call.stream, call.at, call.msg) /\ call.stream \in DOMAIN streams
          /\ call.msg.body # "bare"
          /\ call.msg.body = "value" => promise[call.msg.mid] = "rejected"
      BY DEF RanInv, RunningInv, NetTypes
    <3>2. call.msg.mid # msg.mid /\ call.msg.mid \in Req
      BY <1>2, <3>1 DEF Fits, Message
    <3> QED
      BY <1>7, <3>1, <3>2
  <2>2. ASSUME UNCHANGED promise PROVE Fits(s, n, msg)'
    BY <1>2, <2>2, FitsKept DEF StaysOrFails
  <2>3. \A call, other \in running : other.msg.mid = call.msg.mid => other = call
    BY DEF RanInv, RunningInv
  <2>4. CASE UNCHANGED running
    BY <2>1, <2>3, <2>4 DEF RunningInv
  <2>5. CASE /\ running' = running \cup {new}
             /\ UNCHANGED promise /\ msg.body # "bare"
             /\ msg.body = "value" => promise[msg.mid] = "rejected"
    <3>1. /\ Fits(new.stream, new.at, new.msg)' /\ new.msg.body # "bare"
          /\ new.msg.body = "value" => promise'[new.msg.mid] = "rejected"
      BY <1>1, <2>2, <2>5
    <3>2. \A call, other \in running' : other.msg.mid = call.msg.mid => other = call
      BY <1>1, <1>2, <2>3, <2>5
    <3> QED
      BY <2>1, <2>5, <3>1, <3>2 DEF RunningInv
  <2> QED
    BY <1>3, <2>4, <2>5
<1> QED
  BY <1>5, <1>8, <1>9 DEF RanInv

(* The answer to a message is the only one of its request: the command was *)
(* run, and once more only if the message was itself an answer.            *)
LEMMA RepliedRan ==
  ASSUME NetTypes, RanInv, NEW call \in running, reply(call), EndsKept,
         NEW to, to = Other(streams[call.stream], call.at),
         NEW body \in answers(call.msg), NEW new, new = [mid |-> call.msg.mid, body |-> body],
         Wrote(call.stream, to, new)
  PROVE  RanInv'
<1> DEFINE r == call.msg.mid
<1>1. /\ Fits(call.stream, call.at, call.msg) /\ r \in Req /\ call.stream \in DOMAIN streams
      /\ call.msg.body # "bare"
      /\ call.msg.body = "value" => promise[r] = "rejected"
      /\ \A other \in running : other.msg.mid = r => other = call
  <2>1. /\ Fits(call.stream, call.at, call.msg)
        /\ call.msg.body # "bare"
        /\ call.msg.body = "value" => promise[r] = "rejected"
        /\ \A other \in running : other.msg.mid = r => other = call
    BY DEF RanInv, RunningInv
  <2>2. r \in Req /\ call.stream \in DOMAIN streams
    BY DEF NetTypes, Message
  <2> QED
    BY <2>1, <2>2
<1>2. /\ running' = running \ {call} /\ UNCHANGED <<promise, via>>
      /\ ran' = [ran EXCEPT ![r] = IF call.msg.body = "empty" THEN @ ELSE IF @ = 0 THEN 1 ELSE 2]
  BY DEF reply
<1>3. ran \in [Req -> 0 .. 2] /\ \A x \in Req : x # r => ran'[x] = ran[x]
  BY <1>1, <1>2 DEF NetTypes
<1>4. ran'[r] = IF call.msg.body = "empty" THEN ran[r] ELSE IF ran[r] = 0 THEN 1 ELSE 2
  BY <1>1, <1>2, <1>3
<1>5. Live(call.msg, call.at) /\ Made(r) /\ promise[r] # "resolved"
  BY <1>1 DEF Fits, Live
<1>6. /\ body \in Body \ {"request"}
      /\ body = "value" => r \in Answering /\ call.msg.body # "empty"
  BY DEF answers, Body
<1>7. /\ call.msg \in Message
      /\ call.msg.body \in {"request", "value", "empty", "bare"}
  BY <1>1 DEF Fits, Message, Body
<1>8. new.mid = r /\ new.body = body /\ new \in Message
  BY <1>1, <1>6 DEF Message
<1>9. \A k, p, i, msg : Has(k, p, i, msg) => msg.mid # r
  BY DEF RanInv, WireInv
<1>10. /\ Ends(streams[call.stream]) = {Caller[r], Callee[r]}
       /\ \/ call.at = Caller[r] /\ to = Callee[r]
          \/ call.at = Callee[r] /\ to = Caller[r]
  BY <1>1, OtherEnd DEF Fits
<1> HIDE DEF r
<1>11. PICK n : \A k, p, i, msg : Has(k, p, i, msg)' =>
        Has(k, p, i, msg) \/ (k = call.stream /\ p = to /\ i = n /\ msg = new)
  BY DEF Wrote
<1>12. Fits(call.stream, to, new)'
  <2>1. ran'[r] # 0
    BY <1>3, <1>4, <1>5 DEF Live, r
  <2>2. body = "value" /\ to = Callee[r] => promise[r] = "rejected"
    <3> SUFFICES ASSUME body = "value", to = Callee[r] PROVE promise[r] = "rejected"
      OBVIOUS
    <3>1. call.at # Callee[r]
      BY <1>1, <1>10, RouteAssumption
    <3>2. call.msg.body # "request" /\ call.msg.body # "empty"
      BY <1>5, <1>6, <3>1 DEF Live, r
    <3> QED
      BY <1>1, <1>7, <3>2
  <2>3. Live(new, to)'
    <3>1. new.body # "request" /\ promise' = promise
      BY <1>2, <1>6, <1>8
    <3>2. Made(new.mid)' /\ promise'[new.mid] # "resolved"
      BY <1>5, <1>8, <3>1 DEF Made
    <3>3. new.body = "value" => new.mid \in Answering /\ (to = Callee[new.mid] => promise'[new.mid] = "rejected")
      BY <1>6, <1>8, <2>2, <3>1
    <3> QED
      BY <1>8, <2>1, <3>1, <3>2, <3>3 DEF Live
  <2>4. Ends(streams[call.stream])' = {Caller[r], Callee[r]}
    BY <1>1, <1>10 DEF EndsKept, Ends
  <2>5. to \in {Caller[r], Callee[r]}
    BY <1>10
  <2> QED
    BY <1>8, <2>3, <2>4, <2>5 DEF Fits
<1>13. ASSUME NEW k \in DOMAIN streams, NEW p, NEW msg, Fits(k, p, msg), msg.mid # r
       PROVE  Fits(k, p, msg)'
  <2>1. msg.mid \in Req
    BY <1>13 DEF Fits, Message
  <2> QED
    BY <1>2, <1>3, <1>13, <2>1, FitsKept DEF StaysOrFails
<1>14. OneMessage'
  <2> SUFFICES ASSUME NEW k, NEW l, NEW p, NEW q, NEW i, NEW j, NEW x, NEW y,
                      Has(k, p, i, x)', Has(l, q, j, y)', x.mid = y.mid
               PROVE  k = l /\ p = q /\ i = j
    BY DEF OneMessage
  <2>1. CASE Has(k, p, i, x) /\ Has(l, q, j, y)
    BY <2>1 DEF RanInv, OneMessage
  <2>2. CASE x = new \/ y = new
    BY <1>8, <1>9, <1>11, <2>2
  <2> QED
    BY <1>11, <2>1, <2>2
<1>15. WireInv'
  <2> SUFFICES ASSUME NEW k, NEW p, NEW i, NEW msg, Has(k, p, i, msg)'
               PROVE  Fits(k, p, msg)' /\ \A other \in running' : other.msg.mid # msg.mid
    BY DEF WireInv
  <2>1. CASE Has(k, p, i, msg)
    <3>1. k \in DOMAIN streams /\ Fits(k, p, msg) /\ \A other \in running : other.msg.mid # msg.mid
      BY <2>1 DEF Has, RanInv, WireInv
    <3> QED
      BY <1>2, <1>9, <1>13, <2>1, <3>1
  <2>2. CASE k = call.stream /\ p = to /\ msg = new
    <3>1. \A other \in running' : other.msg.mid # r
      BY <1>1, <1>2
    <3> QED
      BY <1>8, <1>12, <2>2, <3>1
  <2> QED
    BY <1>11, <2>1, <2>2
<1>16. RunningInv'
  <2> SUFFICES ASSUME NEW other \in running'
               PROVE  /\ Fits(other.stream, other.at, other.msg)'
                      /\ other.msg.body # "bare"
                      /\ other.msg.body = "value" => promise'[other.msg.mid] = "rejected"
                      /\ \A x \in running' : x.msg.mid = other.msg.mid => x = other
    BY DEF RunningInv
  <2>1. other \in running /\ other.msg.mid # r
    BY <1>1, <1>2
  <2>2. /\ Fits(other.stream, other.at, other.msg) /\ other.stream \in DOMAIN streams
        /\ other.msg.body # "bare"
        /\ other.msg.body = "value" => promise[other.msg.mid] = "rejected"
        /\ \A x \in running : x.msg.mid = other.msg.mid => x = other
    BY <2>1 DEF RanInv, RunningInv, NetTypes
  <2>3. Fits(other.stream, other.at, other.msg)'
    BY <1>13, <2>1, <2>2
  <2> QED
    BY <1>2, <2>2, <2>3
<1>17. PromiseInv'
  <2> SUFFICES ASSUME NEW x \in Req
               PROVE  /\ ran'[x] \in 0 .. 2
                      /\ promise[x] = "resolved" => ran'[x] = 1
                      /\ ran'[x] = 2 => x \in Answering /\ promise[x] = "rejected"
                      /\ ~ Made(x) => ran'[x] = 0
    BY <1>2 DEF PromiseInv, Made
  <2>1. CASE x # r
    BY <1>3, <2>1 DEF RanInv, PromiseInv
  <2>2. CASE x = r
    <3>1. ran'[r] \in 0 .. 2
      BY <1>1, <1>3, <1>4
    <3>2. ran'[r] = 2 => r \in Answering /\ promise[r] = "rejected"
      <4>1. CASE ran[r] = 2
        BY <1>1, <4>1 DEF RanInv, PromiseInv
      <4>2. CASE ran[r] # 2 /\ ran'[r] = 2
        <5>1. call.msg.body # "empty" /\ ran[r] # 0
          BY <1>4, <4>2
        <5>2. call.msg.body = "value"
          BY <1>1, <1>5, <1>7, <5>1 DEF Live, r
        <5> QED
          BY <1>1, <1>5, <5>2 DEF Live, r
      <4> QED
        BY <4>1, <4>2
    <3> QED
      BY <1>5, <2>2, <3>1, <3>2
  <2> QED
    BY <2>1, <2>2
<1>18. ViaInv'
  BY <1>2, ViaRan DEF RanInv
<1> QED
  BY <1>14, <1>15, <1>16, <1>17, <1>18 DEF RanInv

(* Where nothing happens to the streams, nothing new is on its way.        *)
LEMMA SameStreams ==
  ASSUME UNCHANGED streams
  PROVE  NothingNew /\ EndsKept /\ \A s, to, new : Wrote(s, to, new)
<1>1. NothingNew /\ EndsKept
  BY DEF NothingNew, EndsKept, Has
<1>2. \A s, to, new : Wrote(s, to, new)
  BY DEF Wrote, Has
<1> QED
  BY <1>1, <1>2

(* makeRequest, on a connection it opens.                                  *)
LEMMA ConnectingRan ==
  ASSUME IInv, OpenInv, RanInv, NEW r \in Req, makeRequestConnecting(r)
  PROVE  RanInv'
<1> DEFINE a == Caller[r]
           b == Callee[r]
           opened == [client |-> a, server |-> b, opener |-> r, alive |-> serving[b] = "up",
                      ended |-> {}, closed |-> {},
                      inbox |-> [y \in Node |-> << >>]]
           x == Sent(opened, a, request(r))
           k0 == Len(streams) + 1
<1>1. a \in Node /\ b \in Node /\ a # b
  BY RouteAssumption
<1>2. /\ streams' = Append(streams, x) /\ via' = [via EXCEPT ![r] = k0]
      /\ promise[r] = "none" /\ promise' = [promise EXCEPT ![r] = "sent"]
      /\ UNCHANGED <<running, ran>>
  BY DEF makeRequestConnecting, register, request
<1>3. /\ x.client = a /\ x.server = b
      /\ \/ x.inbox = [y \in Node |-> << >>]
         \/ x.inbox = [[y \in Node |-> << >>] EXCEPT ![b] = Append(@, request(r))]
  <2>1. opened.client = a /\ opened.server = b /\ opened.inbox = [y \in Node |-> << >>]
    OBVIOUS
  <2>2. Other(opened, a) = b
    BY <2>1 DEF Other
  <2> HIDE DEF a, b
  <2>3. x = opened \/ x = [opened EXCEPT !.inbox[b] = Append(@, request(r))]
    BY <2>2 DEF Sent
  <2> QED
    BY <2>1, <2>3
<1>4. streams \in Seq(Stream) /\ via \in [Req -> 0 .. Len(streams)] /\ NetTypes
  BY DEF OpenInv, NetTypes
<1> HIDE DEF x, a, b
<1>5. /\ DOMAIN streams = 1 .. Len(streams) /\ DOMAIN streams' = 1 .. k0 /\ streams'[k0] = x
      /\ \A k \in DOMAIN streams : streams'[k] = streams[k] /\ k # k0
  BY <1>2, <1>4
<1>6. EndsKept
  BY <1>5 DEF EndsKept
<1>7. \A p \in Node : x.inbox[p] = << >> \/ (p = b /\ x.inbox[p] = << request(r) >>)
  <2> DEFINE none == [y \in Node |-> << >>]
             one == << request(r) >>
  <2>1. (\A p \in Node : none[p] = << >>) /\ DOMAIN none = Node
    OBVIOUS
  <2>2. x.inbox = none \/ x.inbox = [none EXCEPT ![b] = one]
    <3>1. Append(<< >>, request(r)) = one
      OBVIOUS
    <3> QED
      BY <1>1, <1>3, <2>1, <3>1
  <2> HIDE DEF none, one
  <2>3. \A p \in Node : x.inbox[p] = << >> \/ (p = b /\ x.inbox[p] = one)
    BY <1>1, <2>1, <2>2
  <2> QED
    BY <2>3 DEF one
<1> HIDE DEF k0
<1>8. \A k, p, i, msg : Has(k, p, i, msg)' =>
        Has(k, p, i, msg) \/ (k = k0 /\ p = b /\ i = 1 /\ msg = request(r))
  <2> SUFFICES ASSUME NEW k, NEW p, NEW i, NEW msg, Has(k, p, i, msg)'
               PROVE  Has(k, p, i, msg) \/ (k = k0 /\ p = b /\ i = 1 /\ msg = request(r))
    OBVIOUS
  <2>1. CASE k \in DOMAIN streams
    BY <1>5, <2>1 DEF Has
  <2>2. CASE k = k0
    BY <1>5, <1>7, <2>2 DEF Has
  <2> QED
    BY <1>4, <1>5, <2>1, <2>2 DEF Has, k0
<1>9. Wrote(k0, Callee[r], request(r)) /\ Ends(streams'[k0]) = {Caller[r], Callee[r]}
  <2>1. Wrote(k0, Callee[r], request(r))
    BY <1>8 DEF Wrote, b
  <2>2. Ends(x) = {Caller[r], Callee[r]}
    BY <1>3 DEF Ends, a, b
  <2> QED
    BY <1>5, <2>1, <2>2
<1>10. ViaInv'
  <2> SUFFICES ASSUME NEW y \in Req
               PROVE  /\ promise'[y] = "waiting" => via'[y] # 0
                      /\ via'[y] # 0 => Ends(streams'[via'[y]]) = {Caller[y], Callee[y]}
    BY DEF ViaInv
  <2>1. CASE y = r
    <3>1. via'[y] = k0 /\ promise'[y] = "sent"
      BY <1>2, <1>4, <2>1 DEF IInv, PendingTypes
    <3> QED
      BY <1>3, <1>4, <1>5, <2>1, <3>1 DEF Ends, a, b, k0
  <2>2. CASE y # r
    <3>1. via'[y] = via[y] /\ promise'[y] = promise[y] /\ via[y] \in 0 .. Len(streams)
      BY <1>2, <1>4, <2>2 DEF IInv, PendingTypes
    <3> QED
      BY <1>5, <3>1 DEF RanInv, ViaInv
  <2> QED
    BY <2>1, <2>2
<1> QED
  BY <1>2, <1>4, <1>6, <1>9, <1>10, WrittenRan DEF Made, IInv, PendingTypes

(* makeRequest on a connection it has, now or after 'drain'.               *)
LEMMA ConnectedRan ==
  ASSUME IInv, OpenInv, RanInv, NetTypes', NEW r \in Req, makeRequestConnected(r) \/ drain(r)
  PROVE  RanInv'
<1> DEFINE s == IF promise[r] = "none" THEN connections[Caller[r]][Callee[r]] ELSE via[r]
<1>1. /\ promise \in [Req -> {"none", "waiting", "sent", "resolved", "rejected"}]
      /\ NetTypes /\ request(r) \in Message /\ ~ Made(r)
  BY DEF IInv, PendingTypes, OpenInv, Message, Body, request, makeRequestConnected, drain, Made
<1>2. s \in DOMAIN streams /\ s # 0 /\ Ends(streams[s]) = {Caller[r], Callee[r]}
  <2>1. CASE makeRequestConnected(r)
    <3>1. Caller[r] \in Node /\ Callee[r] \in Node
      BY RouteAssumption
    <3>2. s = connections[Caller[r]][Callee[r]] /\ s # 0
      BY <2>1 DEF makeRequestConnected
    <3>3. s \in 0 .. Len(streams) /\ DOMAIN streams = 1 .. Len(streams) /\ Len(streams) \in Nat
      BY <1>1, <3>1, <3>2 DEF NetTypes
    <3>4. Ends(streams[s]) = {Caller[r], Callee[r]}
      BY <3>1, <3>2 DEF OpenInv, ConnectionsOpen, Ends
    <3> HIDE DEF s
    <3> QED
      BY <3>2, <3>3, <3>4
  <2>2. CASE drain(r)
    <3>1. promise[r] = "waiting" /\ s = via[r]
      BY <2>2 DEF drain
    <3>2. s # 0 /\ Ends(streams[s]) = {Caller[r], Callee[r]}
      BY <3>1 DEF RanInv, ViaInv
    <3>3. s \in 0 .. Len(streams) /\ DOMAIN streams = 1 .. Len(streams) /\ Len(streams) \in Nat
      BY <1>1, <3>1 DEF NetTypes
    <3> HIDE DEF s
    <3> QED
      BY <3>2, <3>3
  <2> QED
    BY <2>1, <2>2
<1>3. /\ UNCHANGED <<running, ran>> /\ via' = [via EXCEPT ![r] = s]
      /\ \/ /\ streams' = [streams EXCEPT ![s] = Sent(@, Caller[r], request(r))]
            /\ promise' = [promise EXCEPT ![r] = "sent"]
         \/ /\ UNCHANGED streams
            /\ \E how \in {"waiting", "rejected"} : promise' = [promise EXCEPT ![r] = how]
  <2>1. CASE makeRequestConnected(r)
    <3>1. s = connections[Caller[r]][Callee[r]]
      BY <2>1 DEF makeRequestConnected
    <3> HIDE DEF s
    <3> QED
      BY <2>1, <3>1 DEF makeRequestConnected, register, request
  <2>2. CASE drain(r)
    <3>1. s = via[r] /\ UNCHANGED via
      BY <2>2 DEF drain
    <3>2. via' = [via EXCEPT ![r] = s]
      BY <1>1, <3>1 DEF NetTypes
    <3> HIDE DEF s
    <3> QED
      BY <2>2, <3>1, <3>2 DEF drain, register, request
  <2> QED
    BY <2>1, <2>2
<1> HIDE DEF s
<1>4. /\ EndsKept
      /\ \/ UNCHANGED streams
         \/ Wrote(s, Callee[r], request(r)) /\ promise' = [promise EXCEPT ![r] = "sent"]
  BY <1>1, <1>2, <1>3, SentWrites, SameStreams, OtherEnd
<1>5. ViaInv'
  <2> SUFFICES ASSUME NEW y \in Req
               PROVE  /\ promise'[y] = "waiting" => via'[y] # 0
                      /\ via'[y] # 0 => Ends(streams'[via'[y]]) = {Caller[y], Callee[y]}
    BY DEF ViaInv
  <2>1. CASE y = r
    BY <1>1, <1>2, <1>3, <1>4, <2>1 DEF EndsKept, NetTypes
  <2>2. CASE y # r
    <3>1. via'[y] = via[y] /\ promise'[y] = promise[y]
      BY <1>1, <1>3, <2>2 DEF NetTypes
    <3>2. via[y] # 0 => via[y] \in DOMAIN streams
      BY <1>1 DEF NetTypes
    <3> QED
      BY <1>4, <3>1, <3>2 DEF RanInv, ViaInv, EndsKept
  <2> QED
    BY <2>1, <2>2
<1>6. CASE UNCHANGED streams /\ \E how \in {"waiting", "rejected"} : promise' = [promise EXCEPT ![r] = how]
  <2>1. Onward
    BY <1>1, <1>6 DEF Onward, StaysOrFails
  <2> QED
    BY <1>1, <1>3, <1>4, <1>5, <1>6, <2>1, SameStreams, QuietRan
<1>7. CASE promise' = [promise EXCEPT ![r] = "sent"]
  <2>1. Wrote(s, Callee[r], request(r))
    BY <1>4, SameStreams
  <2>2. Ends(streams'[s]) = {Caller[r], Callee[r]}
    BY <1>2, <1>4 DEF EndsKept
  <2> QED
    BY <1>1, <1>3, <1>4, <1>5, <1>7, <2>1, <2>2, WrittenRan
<1> QED
  BY <1>3, <1>6, <1>7

(* The cleaner, start and stop do nothing to the streams.                  *)
LEMMA IdleRan ==
  ASSUME IInv, OpenInv, RanInv, NEW n \in Node,
         start(n) \/ stop(n) \/ cleanupPendingRequests(n)
  PROVE  RanInv'
<1>1. UNCHANGED <<streams, via, running, ran>> /\ NetTypes
  BY DEF start, stop, cleanupPendingRequests, OpenInv
<1>2. \A r \in Req : StaysOrFails(r)
  <2>1. /\ promise \in [Req -> {"none", "waiting", "sent", "resolved", "rejected"}]
        /\ \A r \in pending[n] : r \in Req /\ promise[r] = "sent"
    BY DEF IInv, PendingTypes, SentIsPending
  <2>2. CASE UNCHANGED promise
    BY <2>2 DEF StaysOrFails
  <2>3. CASE \E late \in SUBSET pending[n] :
               promise' = [r \in Req |-> IF r \in late THEN "rejected" ELSE promise[r]]
    BY <2>1, <2>3 DEF StaysOrFails
  <2> QED
    BY <2>2, <2>3 DEF start, stop, cleanupPendingRequests
<1>3. Onward
  BY <1>2 DEF Onward
<1>4. NothingNew /\ EndsKept
  BY <1>1, SameStreams
<1>5. ViaInv'
  BY <1>1, <1>2, <1>4, ViaRan DEF RanInv, StaysOrFails
<1> QED
  BY <1>1, <1>3, <1>4, <1>5, QuietRan

(* What a message that comes in says of its request: if its node still     *)
(* waits for it, its command was run exactly once.                         *)
LEMMA HeadRan ==
  ASSUME IInv, OpenInv, RanInv, NEW s \in DOMAIN streams, NEW n \in Node,
         streams[s].inbox[n] # << >>, adopt(n, s), NEW msg, msg = Head(streams[s].inbox[n])
  PROVE  /\ Took(s, n) /\ EndsKept /\ Has(s, n, 1, msg) /\ Fits(s, n, msg) /\ msg.mid \in Req
         /\ msg.mid \in pending[n] => promise[msg.mid] = "sent" /\ ran[msg.mid] = 1
         /\ msg.body = "value" /\ msg.mid \notin pending[n] => promise[msg.mid] = "rejected"
<1>1. Took(s, n) /\ EndsKept /\ Has(s, n, 1, msg)
  BY AdoptTakes DEF OpenInv
<1>2. Fits(s, n, msg) /\ msg.mid \in Req
  BY <1>1 DEF RanInv, WireInv, Fits, Message
<1>3. Live(msg, n) /\ n \in {Caller[msg.mid], Callee[msg.mid]}
  BY <1>2 DEF Fits
<1>4. ASSUME msg.mid \in pending[n]
      PROVE  promise[msg.mid] = "sent" /\ ran[msg.mid] = 1
  <2>1. promise[msg.mid] = "sent" /\ n = Caller[msg.mid]
    BY <1>2, <1>4 DEF IInv, SentIsPending
  <2>2. ran[msg.mid] # 0
    BY <1>2, <1>3, <2>1, RouteAssumption DEF Live
  <2>3. ran[msg.mid] \in 0 .. 2 /\ ran[msg.mid] # 2
    BY <1>2, <2>1 DEF RanInv, PromiseInv
  <2>4. \A x \in 0 .. 2 : x # 0 /\ x # 2 => x = 1
    OBVIOUS
  <2> QED
    BY <2>1, <2>2, <2>3, <2>4
<1>5. ASSUME msg.body = "value", msg.mid \notin pending[n]
      PROVE  promise[msg.mid] = "rejected"
  <2>1. CASE n = Callee[msg.mid]
    BY <1>3, <1>5, <2>1 DEF Live
  <2>2. CASE n = Caller[msg.mid]
    <3>1. promise[msg.mid] # "sent"
      BY <1>2, <1>5, <2>2 DEF IInv, SentIsPending
    <3> QED
      BY <1>2, <1>3, <3>1 DEF Live, Made, IInv, PendingTypes
  <2> QED
    BY <1>3, <2>1, <2>2
<1> QED
  BY <1>1, <1>2, <1>4, <1>5

(* A message that comes in is the reply of a request that was run once, or *)
(* is to be run.                                                           *)
LEMMA IncomingRan ==
  ASSUME IInv, OpenInv, RanInv, NEW s \in DOMAIN streams, NEW n \in Node,
         onIncomingReply(n, s) \/ onIncomingRequest(n, s)
  PROVE  RanInv'
<1> DEFINE msg == Head(streams[s].inbox[n])
<1>1. streams[s].inbox[n] # << >> /\ adopt(n, s) /\ NetTypes /\ UNCHANGED <<via, ran>>
  BY DEF onIncomingReply, onIncomingRequest, OpenInv
<1>2. /\ Took(s, n) /\ EndsKept /\ Has(s, n, 1, msg) /\ Fits(s, n, msg) /\ msg.mid \in Req
      /\ msg.mid \in pending[n] => promise[msg.mid] = "sent" /\ ran[msg.mid] = 1
      /\ msg.body = "value" /\ msg.mid \notin pending[n] => promise[msg.mid] = "rejected"
  BY <1>1, HeadRan
<1>3. promise \in [Req -> {"none", "waiting", "sent", "resolved", "rejected"}]
  BY DEF IInv, PendingTypes
<1>4. CASE onIncomingReply(n, s)
  <2>1. /\ msg.mid \in pending[n] /\ promise' = [promise EXCEPT ![msg.mid] = "resolved"]
        /\ UNCHANGED running
    BY <1>4 DEF onIncomingReply, isReply, settle
  <2> HIDE DEF msg
  <2>2. \A r \in Req : promise'[r] = IF r = msg.mid THEN "resolved" ELSE promise[r]
    BY <1>3, <2>1
  <2>3. PromiseInv'
    BY <1>1, <1>2, <2>1, <2>2 DEF RanInv, PromiseInv, Made
  <2>4. ViaInv'
    BY <1>1, <1>2, <2>2, ViaRan DEF RanInv
  <2>5. \A r \in Req : r # msg.mid => promise'[r] = promise[r]
    BY <2>2
  <2> QED
    BY <1>1, <1>2, <2>1, <2>3, <2>4, <2>5, TakenRan
<1>5. CASE onIncomingRequest(n, s)
  <2>1. /\ UNCHANGED promise /\ ~ isReply(n, msg)
        /\ running' = running \cup (IF msg.body = "bare" THEN {}
                                    ELSE {[at |-> n, stream |-> s, msg |-> msg]})
    BY <1>5 DEF onIncomingRequest
  <2> HIDE DEF msg
  <2>2. msg.body = "value" => promise[msg.mid] = "rejected"
    BY <1>2, <2>1 DEF isReply
  <2>3. PromiseInv'
    BY <1>1, <2>1 DEF RanInv, PromiseInv, Made
  <2>4. ViaInv'
    BY <1>1, <1>2, <2>1, ViaRan DEF RanInv
  <2>5. \A r \in Req : r # msg.mid => promise'[r] = promise[r]
    BY <2>1
  <2>6. \/ UNCHANGED running
        \/ /\ running' = running \cup {[at |-> n, stream |-> s, msg |-> msg]}
           /\ UNCHANGED promise /\ msg.body # "bare"
           /\ msg.body = "value" => promise[msg.mid] = "rejected"
    BY <2>1, <2>2
  <2> QED
    BY <1>1, <1>2, <2>3, <2>4, <2>5, <2>6, TakenRan
<1> QED
  BY <1>4, <1>5

(* A command that is done is answered on the stream it came on.            *)
LEMMA ReplyRan ==
  ASSUME OpenInv, RanInv, NEW call \in running, reply(call)
  PROVE  RanInv'
<1>1. NetTypes /\ call.stream \in DOMAIN streams /\ call.msg \in Message /\ call.msg.mid \in Req
  BY DEF OpenInv, NetTypes, Message
<1>2. PICK body \in answers(call.msg) :
        streams' = [streams EXCEPT ![call.stream] =
                      Sent(@, call.at, [mid |-> call.msg.mid, body |-> body])]
  BY DEF reply
<1>3. [mid |-> call.msg.mid, body |-> body] \in Message
  BY <1>1, <1>2 DEF Message, answers, Body
<1>4. EndsKept /\ Wrote(call.stream, Other(streams[call.stream], call.at),
                        [mid |-> call.msg.mid, body |-> body])
  BY <1>1, <1>2, <1>3, SentWrites
<1> QED
  BY <1>1, <1>4, RepliedRan

(* A stream that breaks or closes loses messages and rejects at most one   *)
(* request.                                                                *)
LEMMA EndedRan ==
  ASSUME IInv, OpenInv, RanInv, NEW s \in DOMAIN streams,
         break(s) \/ \E n \in Node : close(n, s)
  PROVE  RanInv'
<1>1. NetTypes /\ streams[s] \in Stream
  BY DEF OpenInv, NetTypes
<1>2. CASE break(s)
  <2> DEFINE x == [streams[s] EXCEPT !.alive = FALSE, !.inbox = [n \in Node |-> << >>]]
  <2>1. streams' = [streams EXCEPT ![s] = x] /\ UNCHANGED <<promise, via, running, ran>>
    BY <1>2 DEF break
  <2>2. Ends(x) = Ends(streams[s]) /\ \A p \in Node : x.inbox[p] = << >>
    BY <1>1 DEF Stream, Ends
  <2> HIDE DEF x
  <2>9. \A p \in Node : x.inbox[p] \in {streams[s].inbox[p], << >>}
    BY <2>2
  <2>3. NothingNew /\ EndsKept
    BY <1>1, <2>1, <2>2, <2>9, EmptiedIsNothingNew
  <2>4. Onward
    BY <2>1 DEF Onward, StaysOrFails
  <2>5. ViaInv'
    BY <1>1, <2>1, <2>3, ViaRan DEF RanInv
  <2> QED
    BY <1>1, <2>1, <2>3, <2>4, <2>5, QuietRan
<1>3. ASSUME NEW n \in Node, close(n, s) PROVE RanInv'
  <2> DEFINE x == [streams[s] EXCEPT !.closed = @ \cup {n}, !.inbox[n] = << >>]
  <2>1. streams' = [streams EXCEPT ![s] = x] /\ UNCHANGED <<via, running, ran>>
    <3>1. /\ streams' = [streams EXCEPT ![s].closed = @ \cup {n}, ![s].inbox[n] = << >>]
          /\ UNCHANGED <<via, running, ran>>
      BY <1>3 DEF close
    <3> QED
      BY <3>1
  <2>2. streams[s].inbox \in [Node -> Seq(Message)]
    BY <1>1 DEF Stream
  <2>3. Ends(x) = Ends(streams[s]) /\ x.inbox = [streams[s].inbox EXCEPT ![n] = << >>]
    BY <1>1 DEF Stream, Ends
  <2>4. \A p \in Node : x.inbox[p] \in {streams[s].inbox[p], << >>}
    BY <2>2, <2>3
  <2> HIDE DEF x
  <2>5. NothingNew /\ EndsKept
    BY <1>1, <2>1, <2>3, <2>4, EmptiedIsNothingNew
  <2>6. \A r \in Req : StaysOrFails(r)
    <3>1. /\ promise \in [Req -> {"none", "waiting", "sent", "resolved", "rejected"}]
          /\ \A r \in pending[n] : r \in Req /\ promise[r] = "sent"
      BY DEF IInv, PendingTypes, SentIsPending
    <3>2. \/ UNCHANGED promise
          \/ \E r \in pending[n] : promise' = [promise EXCEPT ![r] = "rejected"]
      BY <1>3 DEF close, settle
    <3> QED
      BY <3>1, <3>2 DEF StaysOrFails
  <2>7. Onward
    BY <2>6 DEF Onward
  <2>8. ViaInv'
    BY <1>1, <2>1, <2>5, <2>6, ViaRan DEF RanInv, StaysOrFails
  <2> QED
    BY <1>1, <2>1, <2>5, <2>7, <2>8, QuietRan
<1> QED
  BY <1>2, <1>3

(* Every step keeps the invariant.                                         *)
LEMMA NextRan == IInv /\ OpenInv /\ RanInv /\ [Next]_vars => RanInv'
<1> SUFFICES ASSUME IInv, OpenInv, RanInv, [Next]_vars PROVE RanInv'
  OBVIOUS
<1>1. NetTypes' /\ NetTypes
  BY NextNet DEF OpenInv
<1>2. CASE UNCHANGED vars
  <2>1. NothingNew /\ EndsKept /\ Onward
    BY <1>2, SameStreams DEF vars, Onward, StaysOrFails
  <2>2. ViaInv'
    BY <1>1, <1>2, <2>1, ViaRan DEF vars, RanInv
  <2> QED
    BY <1>1, <1>2, <2>1, <2>2, QuietRan DEF vars
<1>3. CASE \E n \in Node : start(n) \/ stop(n) \/ cleanupPendingRequests(n)
  BY <1>3, IdleRan
<1>4. CASE \E r \in Req : makeRequestConnecting(r) \/ makeRequestConnected(r) \/ drain(r)
  BY <1>1, <1>4, ConnectingRan, ConnectedRan
<1>5. CASE \E call \in running : reply(call)
  BY <1>5, ReplyRan
<1>6. CASE \E s \in DOMAIN streams, n \in Node : onIncomingReply(n, s) \/ onIncomingRequest(n, s)
  BY <1>6, IncomingRan
<1>7. CASE \E s \in DOMAIN streams : break(s) \/ \E n \in Node : close(n, s)
  BY <1>7, EndedRan
<1> QED
  BY <1>2, <1>3, <1>4, <1>5, <1>6, <1>7 DEF Next

(* All of it holds in every reachable state.                               *)
LEMMA AlwaysRan == Spec => [](IInv /\ OpenInv /\ RanInv)
  BY InitIInv, NextIInv, InitOpen, NextOpen, InitRan, NextRan, PTL DEF Spec

-----------------------------------------------------------------------------
(* Every step is one of module Calls. *)

(* The promises start as those of Calls.                                   *)
LEMMA InitCalls == Init => Requests!Init
  BY DEF Init, Requests!Init, callState

(* A step that leaves the promises and the commands run is a stutter.      *)
LEMMA QuietCalls ==
  ASSUME UNCHANGED <<promise, ran>>
  PROVE  UNCHANGED <<callState, ran>>
  BY DEF callState

(* The promises that a step rejects were open: together they fail.         *)
LEMMA RejectedCalls ==
  ASSUME PendingTypes, UNCHANGED ran, NEW late \in SUBSET Req,
         \A r \in late : promise[r] = "sent",
         promise' = [r \in Req |-> IF r \in late THEN "rejected" ELSE promise[r]]
  PROVE  Requests!Fail(late)
  BY DEF Requests!Fail, callState

(* makeRequest makes a request or fails at once; 'drain' is not seen.      *)
LEMMA MakeCalls ==
  ASSUME PendingTypes, NEW r \in Req,
         makeRequestConnecting(r) \/ makeRequestConnected(r) \/ drain(r)
  PROVE  Requests!Make(r) \/ Requests!FailAtOnce(r) \/ UNCHANGED <<callState, ran>>
<1>1. /\ UNCHANGED ran
      /\ \/ /\ promise[r] = "none"
            /\ \E how \in {"sent", "waiting", "rejected"} : promise' = [promise EXCEPT ![r] = how]
         \/ promise[r] = "waiting" /\ promise' = [promise EXCEPT ![r] = "sent"]
  BY DEF makeRequestConnecting, makeRequestConnected, drain, register
<1>2. promise \in [Req -> {"none", "waiting", "sent", "resolved", "rejected"}]
  BY DEF PendingTypes
<1> QED
  BY <1>1, <1>2 DEF callState, Requests!Make, Requests!FailAtOnce

(* A reply to a pending request answers it: it was run.                    *)
LEMMA AnswerCalls ==
  ASSUME IInv, OpenInv, RanInv, NEW s \in DOMAIN streams, NEW n \in Node, onIncomingReply(n, s)
  PROVE  \E r \in Req : Requests!Answer(r)
<1> DEFINE msg == Head(streams[s].inbox[n])
<1>1. /\ streams[s].inbox[n] # << >> /\ adopt(n, s) /\ UNCHANGED ran
      /\ msg.mid \in pending[n] /\ promise' = [promise EXCEPT ![msg.mid] = "resolved"]
  BY DEF onIncomingReply, isReply, settle
<1>2. msg.mid \in Req /\ promise[msg.mid] = "sent" /\ ran[msg.mid] = 1
  BY <1>1, HeadRan
<1>3. promise \in [Req -> {"none", "waiting", "sent", "resolved", "rejected"}]
  BY DEF IInv, PendingTypes
<1> HIDE DEF msg
<1> QED
  BY <1>1, <1>2, <1>3 DEF callState, Requests!Answer

(* The end of a command is seen as its run, whatever became of the         *)
(* promise, that of an answer with a command as a further run of it; the   *)
(* reply to EmptyReply is not seen.                                        *)
LEMMA RunCalls ==
  ASSUME OpenInv, RanInv, NEW call \in running, reply(call)
  PROVE  \/ \E r \in Req : Requests!Run(r) \/ Requests!RunAgain(r)
         \/ UNCHANGED <<callState, ran>>
<1> DEFINE r == call.msg.mid
<1>1. Fits(call.stream, call.at, call.msg) /\ call.msg.body # "bare"
  BY DEF RanInv, RunningInv
<1>2. /\ r \in Req /\ ran \in [Req -> 0 .. 2] /\ Live(call.msg, call.at)
      /\ call.msg.body \in {"request", "value", "empty"}
  BY <1>1 DEF OpenInv, NetTypes, Fits, Message, Body
<1>3. /\ UNCHANGED promise
      /\ ran' = [ran EXCEPT ![r] = IF call.msg.body = "empty" THEN @ ELSE IF @ = 0 THEN 1 ELSE 2]
  BY DEF reply
<1>4. UNCHANGED callState
  BY <1>3 DEF callState
<1>5. CASE call.msg.body = "request"
  <2>1. ran[r] = 0 /\ Made(r)
    BY <1>2, <1>5 DEF Live
  <2> HIDE DEF r
  <2>2. ran' = [ran EXCEPT ![r] = 1]
    BY <1>2, <1>3, <1>5, <2>1
  <2>3. callState[r] # "none"
    BY <1>2, <2>1 DEF callState, Made
  <2> QED
    BY <1>2, <1>4, <2>1, <2>2, <2>3 DEF Requests!Run
<1>6. CASE call.msg.body = "value"
  <2>1. ran[r] # 0 /\ r \in Answering /\ promise[r] = "rejected"
    BY <1>2, <1>6 DEF Live, RanInv, RunningInv
  <2> HIDE DEF r
  <2>2. ran' = [ran EXCEPT ![r] = 2]
    BY <1>2, <1>3, <1>6, <2>1
  <2>3. callState[r] = "rejected"
    BY <1>2, <2>1 DEF callState
  <2> QED
    BY <1>2, <1>4, <2>1, <2>2, <2>3 DEF Requests!RunAgain
<1>7. CASE call.msg.body = "empty"
  <2> HIDE DEF r
  <2>1. UNCHANGED ran
    BY <1>2, <1>3, <1>7
  <2> QED
    BY <1>4, <2>1
<1> QED
  BY <1>2, <1>5, <1>6, <1>7

(* The cleaner, and a stream that closes with an error, fail what was sent. *)
LEMMA FailCalls ==
  ASSUME IInv, NEW n \in Node,
         cleanupPendingRequests(n) \/ \E s \in DOMAIN streams : close(n, s)
  PROVE  (\E S \in SUBSET Req : Requests!Fail(S)) \/ UNCHANGED <<callState, ran>>
<1>1. /\ promise \in [Req -> {"none", "waiting", "sent", "resolved", "rejected"}]
      /\ \A r \in pending[n] : r \in Req /\ promise[r] = "sent"
  BY DEF IInv, PendingTypes, SentIsPending
<1>2. CASE cleanupPendingRequests(n)
  <2>1. PICK late \in SUBSET pending[n] :
          promise' = [r \in Req |-> IF r \in late THEN "rejected" ELSE promise[r]]
    BY <1>2 DEF cleanupPendingRequests
  <2>2. UNCHANGED ran
    BY <1>2 DEF cleanupPendingRequests
  <2>3. Requests!Fail(late)
    BY <1>1, <2>1, <2>2, RejectedCalls DEF IInv
  <2> QED
    BY <1>1, <2>1, <2>3
<1>3. ASSUME NEW s \in DOMAIN streams, close(n, s)
      PROVE  (\E S \in SUBSET Req : Requests!Fail(S)) \/ UNCHANGED <<callState, ran>>
  <2> DEFINE r == streams[s].opener
  <2>1. /\ UNCHANGED ran
        /\ \/ UNCHANGED promise
           \/ r \in pending[n] /\ promise' = [promise EXCEPT ![r] = "rejected"]
    BY <1>3 DEF close, settle
  <2> HIDE DEF r
  <2>2. CASE UNCHANGED promise
    BY <2>1, <2>2, QuietCalls
  <2>3. CASE r \in pending[n] /\ promise' = [promise EXCEPT ![r] = "rejected"]
    <3>1. promise' = [y \in Req |-> IF y \in {r} THEN "rejected" ELSE promise[y]]
      BY <1>1, <2>3
    <3>2. Requests!Fail({r}) /\ {r} \in SUBSET Req
      BY <1>1, <2>1, <2>3, <3>1, RejectedCalls DEF IInv
    <3> QED
      BY <3>2
  <2> QED
    BY <2>1, <2>2, <2>3
<1> QED
  BY <1>2, <1>3

(* Every step is a step of Calls or a stutter.                             *)
LEMMA NextCalls ==
  IInv /\ OpenInv /\ RanInv /\ [Next]_vars => [Requests!Next]_<<callState, ran>>
<1> SUFFICES ASSUME IInv, OpenInv, RanInv, [Next]_vars
             PROVE  Requests!Next \/ UNCHANGED <<callState, ran>>
  OBVIOUS
<1>1. CASE UNCHANGED vars
  BY <1>1, QuietCalls DEF vars
<1>2. CASE \E n \in Node : start(n) \/ stop(n)
  BY <1>2, QuietCalls DEF start, stop
<1>3. CASE \E n \in Node : cleanupPendingRequests(n) \/ \E s \in DOMAIN streams : close(n, s)
  BY <1>3, FailCalls DEF Requests!Next
<1>4. CASE \E r \in Req : makeRequestConnecting(r) \/ makeRequestConnected(r) \/ drain(r)
  BY <1>4, MakeCalls DEF Requests!Next, IInv
<1>5. CASE \E call \in running : reply(call)
  BY <1>5, RunCalls DEF Requests!Next
<1>6. CASE \E s \in DOMAIN streams, n \in Node : onIncomingReply(n, s)
  BY <1>6, AnswerCalls DEF Requests!Next
<1>7. CASE \E s \in DOMAIN streams, n \in Node : onIncomingRequest(n, s)
  BY <1>7, QuietCalls DEF onIncomingRequest
<1>8. CASE \E s \in DOMAIN streams : break(s)
  BY <1>8, QuietCalls DEF break
<1> QED
  BY <1>1, <1>2, <1>3, <1>4, <1>5, <1>6, <1>7, <1>8 DEF Next

-----------------------------------------------------------------------------
(* The theorems. *)

(* A command whose handler returns nothing is run at most once by all      *)
(* nodes together, one that is run again was given up, and a request that  *)
(* is resolved had its command run exactly once.                           *)
THEOREM CommandsRunOnce == Spec => []RunOnce
<1>1. RanInv => RunOnce
  BY DEF RanInv, PromiseInv, RunOnce
<1> QED
  BY <1>1, AlwaysRan, PTL

(* The network manager implements the requests of module Calls: a promise  *)
(* is settled once, its command is run only after it was made, and only    *)
(* what was run is answered; only a command whose answer is a command, and *)
(* which was given up, is run more than once; over any number of nodes,    *)
(* requests and streams.                                                   *)
THEOREM RequestsAreCalls == Spec => RpcImplementsCalls
<1>1. IInv /\ OpenInv /\ RanInv /\ [Next]_vars => [Requests!Next]_<<callState, ran>>
  BY NextCalls
<1> QED
  BY <1>1, InitCalls, AlwaysRan, PTL DEF Spec, RpcImplementsCalls, Requests!Spec
=============================================================================
