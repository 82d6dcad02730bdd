------------------------------- MODULE Calls -------------------------------
(***************************************************************************)
(* What the network manager promises of a request, whatever happens to the *)
(* streams below it: the promise is settled at most once; the command is   *)
(* run only once the request was made, but perhaps long after the promise  *)
(* was rejected; only a command that was run is answered, and one that was *)
(* answered is not run again.  A command whose handler returns nothing (a  *)
(* set, a delete) is run at most once; one whose handler returns a command *)
(* (a get) may be run again and again, by either node, once its promise    *)
(* was rejected.  This is what execute of PeerRing relies on.              *)
(***************************************************************************)
EXTENDS Naturals

CONSTANTS Req, Answering

VARIABLES call,   \* the promise of each request
          ran     \* how often its command was run: 0, 1, or 2 for more than once

Init ==
  /\ call = [r \in Req |-> "none"]
  /\ ran = [r \in Req |-> 0]

Make(r) ==
  /\ call[r] = "none"
  /\ call' = [call EXCEPT ![r] = "open"]
  /\ UNCHANGED ran

Run(r) ==
  /\ call[r] # "none"
  /\ ran[r] = 0
  /\ ran' = [ran EXCEPT ![r] = 1]
  /\ UNCHANGED call

\* The answer to a get that was given up comes back as a get.
RunAgain(r) ==
  /\ r \in Answering
  /\ call[r] = "rejected"
  /\ ran[r] # 0
  /\ ran' = [ran EXCEPT ![r] = 2]
  /\ UNCHANGED call

Answer(r) ==
  /\ call[r] = "open"
  /\ ran[r] = 1
  /\ call' = [call EXCEPT ![r] = "resolved"]
  /\ UNCHANGED ran

\* Some requests fail together: one that could not even be written, all that
\* are over time.
Fail(S) ==
  /\ \A r \in S : call[r] = "open"
  /\ call' = [r \in Req |-> IF r \in S THEN "rejected" ELSE call[r]]
  /\ UNCHANGED ran

FailAtOnce(r) ==
  /\ call[r] = "none"
  /\ call' = [call EXCEPT ![r] = "rejected"]
  /\ UNCHANGED ran

Next ==
  \/ \E r \in Req : Make(r) \/ Run(r) \/ RunAgain(r) \/ Answer(r) \/ FailAtOnce(r)
  \/ \E S \in SUBSET Req : Fail(S)

Spec == Init /\ [][Next]_<<call, ran>>
=============================================================================
