---------------------------- MODULE RequestReply ----------------------------
(***************************************************************************)
(* What the peer transport promises its callers (spec.md 4.1 and 5): a     *)
(* call of send_request or Request::send returns the peer's answer to its  *)
(* own request or a None, whatever the order of the peer's answers, and a  *)
(* dispatch_request returns nothing; once the worker is gone every call    *)
(* returns, since there is no timeout.                                     *)
(*                                                                         *)
(* PeerTransport implements it under the mapping in PeerTransport's        *)
(* refinement section: a call waiting for room in the channel or for its   *)
(* reply is pending here.                                                  *)
(***************************************************************************)
EXTENDS Naturals

CONSTANTS Callers, Requests

Ops == {"send_request", "send", "dispatch"}

NoneResponse == [none |-> "Response::None"]
NoSend == [none |-> "Option::None"]
NoResult == [none |-> "()"]
Answer(r) == [answer |-> r]

VARIABLE call

\* The values a call of op for request r may return.
Returns(op, r) ==
    CASE op = "dispatch" -> {NoResult}
      [] op = "send_request" -> {Answer(r), NoneResponse}
      [] OTHER -> {Answer(r), NoneResponse, NoSend}

Init == call = [c \in Callers |-> [op |-> "none", req |-> "none",
                                   st |-> "idle", res |-> NoResult]]

\* A task calls the peer.
Invoke(c, op, r) ==
    /\ call[c].st = "idle"
    /\ call' = [call EXCEPT ![c] = [op |-> op, req |-> r, st |-> "pending",
                                    res |-> NoResult]]

\* The call returns one of the values its operation allows.
Return(c, v) ==
    /\ call[c].st = "pending"
    /\ v \in Returns(call[c].op, call[c].req)
    /\ call' = [call EXCEPT ![c].st = "done", ![c].res = v]

Next ==
    \/ \E c \in Callers, op \in Ops, r \in Requests : Invoke(c, op, r)
    \/ \E c \in Callers, v \in {NoResult, NoneResponse, NoSend} \cup
                                {Answer(r) : r \in Requests} : Return(c, v)

\* Only the promised values are returned ...
SafetySpec == Init /\ [][Next]_call

\* ... and every pending call returns.
Fairness ==
    \A c \in Callers : WF_call(\E v \in Returns(call[c].op, call[c].req) : Return(c, v))

Spec == SafetySpec /\ Fairness

=============================================================================
