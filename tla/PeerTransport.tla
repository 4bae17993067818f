---------------------------- MODULE PeerTransport ----------------------------
(***************************************************************************)
(* The request transport to one peer: Peer::send_request and               *)
(* Peer::dispatch_request, Request::send and Protocol::unwrap_response in  *)
(* src/src/cluster/rpc/request.rs.                                         *)
(*                                                                         *)
(* Callers put an RpcEvent on the peer's bounded mpsc channel: a           *)
(* NeedResponse carries the request and the sending half of a fresh        *)
(* oneshot channel, a FireAndForget only the request. The peer's worker    *)
(* (outside src/) reads the channel in order, writes each request to the   *)
(* connection, and, when the peer's frame for a NeedResponse arrives, in   *)
(* whatever order the peer answers, sends unwrap_response of it on that    *)
(* request's oneshot. When the worker exits, its receiver and every        *)
(* oneshot sender it holds or that is still queued are dropped.            *)
(***************************************************************************)
EXTENDS Naturals, Sequences

CONSTANTS
    Callers,     \* tasks that each make one call to the peer
    Requests,    \* the requests they send
    Capacity     \* the bound of the peer's mpsc channel

ASSUME TransportAssumption ==
    /\ Callers # {}
    /\ Requests # {}
    /\ Capacity \in Nat \ {0}

\* The three ways a caller reaches the peer.
Ops == {"send_request", "send", "dispatch"}

\* Response::None, and the None of Request::send's Option<Response>.
NoneResponse == [none |-> "Response::None"]
NoSend == [none |-> "Option::None"]

\* The result of a call that has not returned, or of dispatch_request.
NoResult == [none |-> "()"]

\* The peer's answer to a request, and the frames the connection can carry.
Answer(r) == [answer |-> r]
Answers == {Answer(r) : r \in Requests}
Frames == [kind: {"response"}, res: Answers] \cup [kind: {"request"}, req: Requests]

\* A oneshot receiver: nothing sent yet, the sender dropped, or a response.
Empty == [oneshot |-> "empty"]
Dropped == [oneshot |-> "dropped"]

\* The RpcEvents: FireAndForget { request } and NeedResponse { request,
\* response_tx }, the oneshot sender named by the call that made it.
Events == [ff: {TRUE}, req: Requests] \cup [ff: {FALSE}, req: Requests, slot: Callers]

\* A caller's call: its operation, request, position and result.
Calls == [op: Ops \cup {"none"}, req: Requests \cup {"none"},
          pc: {"idle", "send", "wait", "done"},
          res: Answers \cup {NoneResponse, NoSend, NoResult}]

VARIABLES
    call,        \* each caller's call: op, request, where it is, result
    chan,        \* the RpcEvents queued on the mpsc channel
    open,        \* the worker still holds the channel's receiver
    inflight,    \* NeedResponse events the worker has written to the peer
    slot,        \* each oneshot receiver
    queued       \* callers whose event entered the channel

vars == <<call, chan, open, inflight, slot, queued>>

Idle == [op |-> "none", req |-> "none", pc |-> "idle", res |-> NoResult]

-----------------------------------------------------------------------------
(* request.rs                                                              *)

\* Mutant: one reply channel shared by every call to the peer.
SharedReplySlot(c) == CHOOSE x \in Callers : TRUE

\* Lines 32 and 74: every call creates its own oneshot channel.
ReplySlot(c) == c

\* Lines 64-69: Protocol::unwrap_response; any frame but a Response is
\* read as Response::None.
UnwrapResponse(f) == IF f.kind = "response" THEN f.res ELSE NoneResponse

\* Mutant: the channel is unbounded (mpsc::unbounded_channel).
CanSendUnbounded(ch, o) == TRUE

\* Mutant: a closed channel is not noticed by a sender waiting for room.
CanSendOnlyWithRoom(ch, o) == o /\ Len(ch) < Capacity

\* Lines 33-39, 50 and 75-80: mpsc::Sender::send waits for room in the
\* channel and fails once the receiver is gone.
CanSend(ch, o) == ~o \/ Len(ch) < Capacity

\* Lines 31-43, 48-53 and 73-81: the caller's send on the channel. A failed
\* send of send_request returns Response::None (42), of dispatch_request is
\* logged (51), of Request::send returns None (81).
Send(c) ==
    LET k == call[c] IN
    /\ k.pc = "send"
    /\ CanSend(chan, open)
    /\ IF open
       THEN /\ chan' = Append(chan,
                 IF k.op = "dispatch" THEN [ff |-> TRUE, req |-> k.req]
                 ELSE [ff |-> FALSE, req |-> k.req, slot |-> ReplySlot(c)])
            /\ queued' = queued \cup {c}
            /\ call' = [call EXCEPT ![c].pc = IF k.op = "dispatch" THEN "done"
                                                 ELSE "wait"]
       ELSE /\ call' = [call EXCEPT ![c].pc = "done",
                                    ![c].res = CASE k.op = "send_request" -> NoneResponse
                                                 [] k.op = "send" -> NoSend
                                                 [] OTHER -> NoResult]
            /\ UNCHANGED <<chan, queued>>
    /\ UNCHANGED <<open, inflight, slot>>

\* Mutant: the caller waits for a value and never sees the sender dropped.
ReadReplyValueOnly(op, v) == IF v = Dropped THEN Empty ELSE v

\* Mutant: Request::send ends with rx.await.ok(), None for a dropped sender.
ReadReplyOk(op, v) ==
    IF v = Dropped THEN IF op = "send" THEN NoSend ELSE NoneResponse ELSE v

\* Lines 44 and 82: rx.await is ready when the oneshot holds a value or its
\* sender is dropped; unwrap_or(Response::None) maps the second to None
\* (wrapped in Some by Request::send).
ReadReply(op, v) == IF v = Dropped THEN NoneResponse ELSE v

\* Lines 44 and 82: the caller resumes with the reply (Some(reply) for
\* Request::send, written as the reply itself).
AwaitReply(c) ==
    /\ call[c].pc = "wait"
    /\ ReadReply(call[c].op, slot[ReplySlot(c)]) # Empty
    /\ call' = [call EXCEPT ![c].pc = "done",
                            ![c].res = ReadReply(call[c].op, slot[ReplySlot(c)])]
    /\ UNCHANGED <<chan, open, inflight, slot, queued>>

-----------------------------------------------------------------------------
(* The callers, the worker and the peer (outside src/)                     *)

Init ==
    /\ call = [c \in Callers |-> Idle]
    /\ chan = <<>>
    /\ open = TRUE
    /\ inflight = {}
    /\ slot = [c \in Callers |-> Empty]
    /\ queued = {}

\* A task calls the peer.
Call(c, op, r) ==
    /\ call[c].pc = "idle"
    /\ call' = [call EXCEPT ![c] = [op |-> op, req |-> r, pc |-> "send",
                                    res |-> NoResult]]
    /\ UNCHANGED <<chan, open, inflight, slot, queued>>

\* The worker takes the next event and writes its request to the peer.
WorkerTake ==
    /\ open
    /\ chan # <<>>
    /\ inflight' = IF Head(chan).ff THEN inflight ELSE inflight \cup {Head(chan)}
    /\ chan' = Tail(chan)
    /\ UNCHANGED <<call, open, slot, queued>>

\* The peer's frame for a request in flight arrives, in any order; the
\* worker sends unwrap_response of it on the request's oneshot.
PeerAnswer(e, f) ==
    /\ open
    /\ e \in inflight
    /\ slot' = [slot EXCEPT ![e.slot] = UnwrapResponse(f)]
    /\ inflight' = inflight \ {e}
    /\ UNCHANGED <<call, chan, open, queued>>

\* The connection is lost and the worker exits: the channel's receiver and
\* every oneshot sender it holds or that is queued are dropped.
WorkerExit ==
    /\ open
    /\ open' = FALSE
    /\ slot' = [c \in Callers |->
                  IF \E e \in inflight \cup {chan[i] : i \in 1..Len(chan)} :
                        ~e.ff /\ e.slot = c
                  THEN Dropped ELSE slot[c]]
    /\ chan' = <<>>
    /\ inflight' = {}
    /\ UNCHANGED <<call, queued>>

\* Every call has returned and the worker has nothing left to do.
Finished ==
    /\ \A c \in Callers : call[c].pc = "done"
    /\ chan = <<>>
    /\ inflight = {}
    /\ UNCHANGED vars

\* The peer answers a request with the frame it is owed or with a frame of
\* the wrong kind.
FramesFor(e) == {[kind |-> "response", res |-> Answer(e.req)],
                 [kind |-> "request", req |-> e.req]}

Next ==
    \/ \E c \in Callers, op \in Ops, r \in Requests : Call(c, op, r)
    \/ \E c \in Callers : Send(c)
    \/ \E c \in Callers : AwaitReply(c)
    \/ WorkerTake
    \/ \E e \in inflight : \E f \in FramesFor(e) : PeerAnswer(e, f)
    \/ WorkerExit
    \/ Finished

\* The callers are async tasks and the worker a tokio task: each runs when
\* it can. The peer is assumed to answer every request or lose the
\* connection (the code has no timeout of its own).
Fairness ==
    /\ \A c \in Callers : WF_vars(Send(c)) /\ WF_vars(AwaitReply(c))
    /\ WF_vars(WorkerTake)
    /\ WF_vars(\E e \in inflight : \E f \in FramesFor(e) : PeerAnswer(e, f))

Spec == Init /\ [][Next]_vars /\ Fairness

-----------------------------------------------------------------------------
(* Properties                                                              *)

\* Every variable is of its type.
TypeOK ==
    /\ call \in [Callers -> Calls]
    /\ \A c \in Callers :
         call[c].pc # "idle" => call[c].op \in Ops /\ call[c].req \in Requests
    /\ chan \in Seq(Events)
    /\ Len(chan) <= Capacity
    /\ open \in BOOLEAN
    /\ inflight \subseteq [ff: {FALSE}, req: Requests, slot: Callers]
    /\ slot \in [Callers -> Answers \cup {Empty, Dropped, NoneResponse}]
    /\ queued \subseteq Callers

\* Correlation (spec 4.1, 8): however the peer orders its answers, a call of
\* send_request or Request::send returns the answer to its own request or a
\* None, never the answer meant for another call.
OwnResponse ==
    \A c \in Callers :
        call[c].pc = "done" /\ call[c].res \in Answers
            => call[c].res = Answer(call[c].req)

\* Request::send returns None only when its request never entered the
\* channel: a caller that retries on None never sends a request twice.
NoSendMeansNotQueued ==
    \A c \in Callers : call[c].res = NoSend => c \notin queued

\* Every send_request, dispatch_request and Request::send returns, whether
\* the peer answers or the connection is lost while the caller is waiting
\* for room in the channel or for the reply.
EveryCallReturns ==
    \A c \in Callers : call[c].pc \in {"send", "wait"} ~> call[c].pc = "done"

-----------------------------------------------------------------------------
(* Refinement of RequestReply                                              *)

\* A call waiting for room in the channel or for its reply is pending.
AbstractCall ==
    [c \in Callers |->
        [op |-> call[c].op, req |-> call[c].req,
         st |-> IF call[c].pc \in {"send", "wait"} THEN "pending" ELSE call[c].pc,
         res |-> call[c].res]]

RR == INSTANCE RequestReply WITH call <- AbstractCall

\* send_request, Request::send and dispatch_request keep the contract of
\* spec.md 4.1 as a whole: each returns only a value its operation allows
\* for its own request (its peer's answer or a None), and every call
\* returns under the fairness of the callers' and the worker's tasks.
ImplementsRequestReply == RR!Spec

=============================================================================
