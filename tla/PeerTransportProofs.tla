------------------------- MODULE PeerTransportProofs -------------------------
(***************************************************************************)
(* Proofs about PeerTransport: the correlation of send_request's replies   *)
(* and the meaning of Request::send's None, for every set of callers and   *)
(* requests and every channel bound.                                       *)
(***************************************************************************)
EXTENDS PeerTransport, SequenceTheorems, TLAPS

\* The RpcEvents the channel holds, and those the worker has written to the
\* peer and still holds the oneshot sender of.
Pending == {chan[i] : i \in 1..Len(chan)} \cup inflight

\* The inductive invariant. A call that has not been sent yet has an empty
\* oneshot, nothing queued and no event in the channel or at the worker; a
\* NeedResponse event, wherever it is, carries the request of the call whose
\* oneshot it holds; so whatever the peer's frame is, unwrap_response of it
\* put on that oneshot is the call's own answer or Response::None.
TInv ==
    /\ TypeOK
    /\ \A c \in Callers :
         call[c].pc \in {"idle", "send"} =>
            /\ call[c].res = NoResult
            /\ slot[c] = Empty
            /\ c \notin queued
            /\ \A e \in Pending : e.ff \/ e.slot # c
    /\ \A e \in Pending : ~e.ff => e.req = call[e.slot].req
    /\ \A c \in Callers : slot[c] \in Answers => slot[c] = Answer(call[c].req)
    /\ OwnResponse
    /\ NoSendMeansNotQueued

-----------------------------------------------------------------------------
(* Lemmas                                                                  *)

\* The failure values a call can return, and the states of a oneshot, are
\* never answers of the peer.
LEMMA NotAnswers ==
    /\ NoneResponse \notin Answers
    /\ NoSend \notin Answers
    /\ NoResult \notin Answers
    /\ Empty \notin Answers
    /\ Dropped \notin Answers
    /\ Empty # Dropped
    /\ Empty # NoneResponse
    /\ NoResult # NoSend
    /\ NoneResponse # NoSend
BY DEF NoneResponse, NoSend, NoResult, Empty, Dropped, Answers, Answer

\* A channel with one more event appended: its events and its length.
LEMMA AppendElems ==
    ASSUME NEW s \in Seq(Events), NEW x \in Events
    PROVE  /\ {Append(s, x)[i] : i \in 1..Len(Append(s, x))}
                 = {s[i] : i \in 1..Len(s)} \cup {x}
           /\ Append(s, x) \in Seq(Events)
           /\ Len(Append(s, x)) = Len(s) + 1
BY AppendProperties

\* The channel once the worker took its head.
LEMMA TailElems ==
    ASSUME NEW s \in Seq(Events), s # <<>>
    PROVE  /\ {Tail(s)[i] : i \in 1..Len(Tail(s))} \subseteq {s[i] : i \in 1..Len(s)}
           /\ Head(s) \in {s[i] : i \in 1..Len(s)}
           /\ Head(s) \in Events
           /\ Tail(s) \in Seq(Events)
           /\ Len(Tail(s)) = Len(s) - 1
BY HeadTailProperties

\* A call with its position, and possibly its result, changed is a call.
LEMMA CallUpdate ==
    ASSUME NEW f \in [Callers -> Calls], NEW c \in Callers,
           NEW pc \in {"idle", "send", "wait", "done"},
           NEW res \in Answers \cup {NoneResponse, NoSend, NoResult}
    PROVE  /\ [f EXCEPT ![c].pc = pc] \in [Callers -> Calls]
           /\ [f EXCEPT ![c].pc = pc, ![c].res = res] \in [Callers -> Calls]
BY DEF Calls

\* Every pending event is an RpcEvent, and a NeedResponse names a caller.
LEMMA PendingEvents ==
    ASSUME TypeOK
    PROVE  /\ Pending \subseteq Events
           /\ \A e \in Pending : ~e.ff => e.slot \in Callers
<1>1. \A i \in 1..Len(chan) : chan[i] \in Events
    BY ElementOfSeq DEF TypeOK
<1>2. inflight \subseteq Events
    BY DEF TypeOK, Events
<1>3. Pending \subseteq Events
    BY <1>1, <1>2 DEF Pending
<1>4. QED
    BY <1>3 DEF Events

-----------------------------------------------------------------------------
(* The invariant                                                           *)

LEMMA InitTInv == Init => TInv
<1> SUFFICES ASSUME Init PROVE TInv
    OBVIOUS
<1>1. TypeOK
    <2>1. \A c \in Callers : call[c] = Idle
        BY DEF Init
    <2>2. chan \in Seq(Events)
        BY DEF Init
    <2>3. slot \in [Callers -> Answers \cup {Empty, Dropped, NoneResponse}]
        BY DEF Init
    <2>4. Len(chan) <= Capacity
        BY TransportAssumption DEF Init
    <2>5. call \in [Callers -> Calls]
        BY <2>1 DEF Init, Idle, Calls
    <2>6. QED
        BY <2>1, <2>2, <2>3, <2>4, <2>5 DEF Init, TypeOK, Idle
<1>2. Pending = {} /\ queued = {}
    BY DEF Init, Pending
<1>3. \A c \in Callers : call[c].res = NoResult /\ slot[c] = Empty
    BY DEF Init, Idle
<1>4. QED
    BY <1>1, <1>2, <1>3, NotAnswers DEF TInv, OwnResponse, NoSendMeansNotQueued

\* A task starts a call: its oneshot is still empty and no event names it.
LEMMA CallTInv ==
    ASSUME TInv, NEW c \in Callers, NEW op \in Ops, NEW r \in Requests,
           Call(c, op, r)
    PROVE  TInv'
<1>1. call[c].pc = "idle" /\ slot[c] = Empty /\ c \notin queued
      /\ \A e \in Pending : e.ff \/ e.slot # c
    BY DEF Call, TInv
<1>2. Pending' = Pending
    BY DEF Call, Pending
<1>3. \A d \in Callers \ {c} : call'[d] = call[d]
    BY DEF Call, TInv, TypeOK
<1>4. call'[c] = [op |-> op, req |-> r, pc |-> "send", res |-> NoResult]
    BY DEF Call, TInv, TypeOK
<1>5. call' \in [Callers -> Calls]
    <2>1. [op |-> op, req |-> r, pc |-> "send", res |-> NoResult] \in Calls
        BY DEF Calls
    <2>2. QED
        BY <2>1 DEF Call, TInv, TypeOK
<1>6. TypeOK'
    BY <1>3, <1>4, <1>5 DEF Call, TInv, TypeOK
<1>7. QED
    BY <1>1, <1>2, <1>3, <1>4, <1>6, NotAnswers
    DEF Call, TInv, OwnResponse, NoSendMeansNotQueued

\* A caller's send on the channel, which enqueues its event or fails.
LEMMA SendTInv ==
    ASSUME TInv, NEW c \in Callers, Send(c)
    PROVE  TInv'
<1>1. /\ call[c].pc = "send" /\ call[c].op \in Ops /\ call[c].req \in Requests
      /\ call[c].res = NoResult /\ slot[c] = Empty /\ c \notin queued
      /\ \A e \in Pending : e.ff \/ e.slot # c
    BY DEF Send, TInv, TypeOK
<1>2. UNCHANGED <<open, inflight, slot>>
    BY DEF Send
<1>3. ASSUME NEW ev, NEW pc \in {"wait", "done"},
             ev \in Events,
             ev.ff \/ (ev.slot = c /\ ev.req = call[c].req),
             open, chan' = Append(chan, ev), queued' = queued \cup {c},
             call' = [call EXCEPT ![c].pc = pc]
      PROVE  TInv'
    <2>1. Len(chan) < Capacity
        BY <1>3 DEF Send, CanSend
    <2>0. chan \in Seq(Events)
        BY DEF TInv, TypeOK
    <2>2. Pending' = Pending \cup {ev}
        BY <1>2, <1>3, <2>0, AppendElems DEF Pending
    <2>3. \A d \in Callers : /\ call'[d].req = call[d].req
                             /\ call'[d].op = call[d].op
                             /\ call'[d].res = call[d].res
                             /\ call'[d].pc = IF d = c THEN pc ELSE call[d].pc
        BY <1>3 DEF TInv, TypeOK
    <2>4. call' \in [Callers -> Calls]
        BY <1>3, CallUpdate DEF TInv, TypeOK
    <2>5. chan' \in Seq(Events) /\ Len(chan') <= Capacity
        BY <1>3, <2>0, <2>1, AppendElems, TransportAssumption
    <2>6. TypeOK'
        BY <1>1, <1>2, <1>3, <2>3, <2>4, <2>5 DEF TInv, TypeOK
    <2>7. QED
        BY <1>1, <1>2, <1>3, <2>2, <2>3, <2>6, NotAnswers
        DEF TInv, OwnResponse, NoSendMeansNotQueued
<1>4. CASE open /\ call[c].op = "dispatch"
    <2>1. [ff |-> TRUE, req |-> call[c].req] \in Events
        BY <1>1 DEF Events
    <2>2. QED
        BY <1>1, <1>4, <2>1, <1>3 DEF Send
<1>5. CASE open /\ call[c].op # "dispatch"
    <2>1. [ff |-> FALSE, req |-> call[c].req, slot |-> c] \in Events
        BY <1>1 DEF Events
    <2>2. QED
        BY <1>1, <1>5, <2>1, <1>3 DEF Send, ReplySlot
<1>6. CASE ~open
    <2>1. UNCHANGED <<chan, queued>>
        BY <1>6 DEF Send
    <2>2. PICK fail \in {NoneResponse, NoSend, NoResult} :
                call' = [call EXCEPT ![c].pc = "done", ![c].res = fail]
        <3>1. CASE call[c].op = "send_request"
            BY <1>6, <3>1 DEF Send
        <3>2. CASE call[c].op = "send"
            BY <1>6, <3>2 DEF Send
        <3>3. CASE call[c].op = "dispatch"
            BY <1>6, <3>3 DEF Send
        <3>4. QED
            BY <1>1, <3>1, <3>2, <3>3 DEF Ops
    <2>3. fail \in {NoneResponse, NoSend, NoResult}
        OBVIOUS
    <2>4. \A d \in Callers : /\ call'[d].req = call[d].req
                             /\ call'[d].op = call[d].op
                             /\ call'[d].res = IF d = c THEN fail ELSE call[d].res
                             /\ call'[d].pc = IF d = c THEN "done" ELSE call[d].pc
        BY <2>2 DEF TInv, TypeOK
    <2>5. call' \in [Callers -> Calls]
        BY <2>2, <2>3, CallUpdate DEF TInv, TypeOK
    <2>6. TypeOK'
        BY <1>1, <1>2, <2>1, <2>4, <2>5 DEF TInv, TypeOK
    <2>7. \A d \in Callers : call'[d].pc \in {"idle", "send"} =>
            /\ call'[d].res = NoResult
            /\ slot'[d] = Empty
            /\ d \notin queued'
            /\ \A e \in Pending' : e.ff \/ e.slot # d
        BY <1>2, <2>1, <2>4 DEF TInv, Pending
    <2>8. \A e \in Pending' : ~e.ff => e.req = call'[e.slot].req
        <3>1. \A e \in Pending : ~e.ff => e.slot \in Callers
            BY PendingEvents DEF TInv
        <3>2. QED
            BY <1>2, <2>1, <2>4, <3>1 DEF TInv, Pending
    <2>9. \A d \in Callers : slot'[d] \in Answers => slot'[d] = Answer(call'[d].req)
        BY <1>2, <2>4 DEF TInv
    <2>10. OwnResponse'
        BY <2>3, <2>4, NotAnswers DEF TInv, OwnResponse
    <2>11. NoSendMeansNotQueued'
        BY <1>1, <2>1, <2>4 DEF TInv, NoSendMeansNotQueued
    <2>12. QED
        BY <2>6, <2>7, <2>8, <2>9, <2>10, <2>11 DEF TInv
<1>7. QED
    BY <1>4, <1>5, <1>6

\* A caller resumes with what its oneshot holds.
LEMMA AwaitReplyTInv ==
    ASSUME TInv, NEW c \in Callers, AwaitReply(c)
    PROVE  TInv'
<1>1. /\ call[c].pc = "wait"
      /\ slot[c] \in Answers \cup {Dropped, NoneResponse}
    BY NotAnswers DEF AwaitReply, ReadReply, ReplySlot, TInv, TypeOK
<1>2. call' = [call EXCEPT ![c].pc = "done", ![c].res = ReadReply(call[c].op, slot[c])]
    BY DEF AwaitReply, ReplySlot
<1>3. ReadReply(call[c].op, slot[c]) \in Answers => slot[c] \in Answers
    BY NotAnswers DEF ReadReply
<1>4. ReadReply(call[c].op, slot[c]) \in Answers \cup {NoneResponse}
    BY <1>1 DEF ReadReply
<1>5. \A d \in Callers : /\ call'[d].req = call[d].req
                         /\ call'[d].op = call[d].op
                         /\ call'[d].res = IF d = c THEN ReadReply(call[c].op, slot[c])
                                           ELSE call[d].res
                         /\ call'[d].pc = IF d = c THEN "done" ELSE call[d].pc
    BY <1>2 DEF TInv, TypeOK
<1>6. UNCHANGED <<chan, open, inflight, slot, queued>>
    BY DEF AwaitReply
<1>7. call' \in [Callers -> Calls]
    BY <1>2, <1>4, CallUpdate DEF TInv, TypeOK
<1>8. TypeOK'
    BY <1>1, <1>5, <1>6, <1>7 DEF TInv, TypeOK
<1>9. \A d \in Callers : call'[d].pc \in {"idle", "send"} =>
        /\ call'[d].res = NoResult
        /\ slot'[d] = Empty
        /\ d \notin queued'
        /\ \A e \in Pending' : e.ff \/ e.slot # d
    BY <1>5, <1>6 DEF TInv, Pending
<1>10. \A e \in Pending' : ~e.ff => e.req = call'[e.slot].req
    BY <1>5, <1>6, PendingEvents DEF TInv, Pending
<1>11. \A d \in Callers : slot'[d] \in Answers => slot'[d] = Answer(call'[d].req)
    BY <1>5, <1>6 DEF TInv
<1>12. OwnResponse'
    <2>1. ReadReply(call[c].op, slot[c]) \in Answers
          => ReadReply(call[c].op, slot[c]) = Answer(call[c].req)
        <3>1. CASE slot[c] = Dropped
            BY <3>1, NotAnswers DEF ReadReply
        <3>2. CASE slot[c] # Dropped
            <4>1. ReadReply(call[c].op, slot[c]) = slot[c]
                BY <3>2 DEF ReadReply
            <4>2. QED
                BY <4>1 DEF TInv
        <3>3. QED
            BY <3>1, <3>2
    <2>2. QED
        BY <1>5, <2>1 DEF TInv, OwnResponse
<1>13. NoSendMeansNotQueued'
    BY <1>4, <1>5, <1>6, NotAnswers DEF TInv, NoSendMeansNotQueued
<1>14. QED
    BY <1>8, <1>9, <1>10, <1>11, <1>12, <1>13 DEF TInv

\* The worker moves the channel's head to the requests in flight.
LEMMA WorkerTakeTInv ==
    ASSUME TInv, WorkerTake
    PROVE  TInv'
<1>1. chan \in Seq(Events) /\ chan # <<>>
    BY DEF TInv, TypeOK, WorkerTake
<1>2. /\ chan' = Tail(chan)
      /\ inflight' = IF Head(chan).ff THEN inflight ELSE inflight \cup {Head(chan)}
      /\ UNCHANGED <<call, open, slot, queued>>
    BY DEF WorkerTake
<1>3. Pending' \subseteq Pending
    BY <1>1, <1>2, TailElems DEF Pending
<1>4. chan' \in Seq(Events) /\ Len(chan') <= Capacity
    <2>1. chan' \in Seq(Events) /\ Len(chan') = Len(chan) - 1
        BY <1>1, <1>2, TailElems
    <2>2. Len(chan) <= Capacity /\ Len(chan) \in Nat
        BY <1>1 DEF TInv, TypeOK
    <2>3. QED
        BY <2>1, <2>2, TransportAssumption
<1>5. inflight' \subseteq [ff: {FALSE}, req: Requests, slot: Callers]
    BY <1>1, <1>2, TailElems DEF TInv, TypeOK, Events
<1>6. TypeOK'
    BY <1>2, <1>4, <1>5 DEF TInv, TypeOK
<1>7. QED
    BY <1>2, <1>3, <1>6 DEF TInv, OwnResponse, NoSendMeansNotQueued

\* The peer's frame for a request in flight reaches that request's oneshot.
LEMMA PeerAnswerTInv ==
    ASSUME TInv, NEW e \in inflight, NEW f \in FramesFor(e), PeerAnswer(e, f)
    PROVE  TInv'
<1>1. e \in Pending /\ ~e.ff /\ e.slot \in Callers /\ e.req \in Requests
    BY DEF TInv, TypeOK, Pending
<1>2. /\ slot' = [slot EXCEPT ![e.slot] = UnwrapResponse(f)]
      /\ inflight' = inflight \ {e}
      /\ UNCHANGED <<call, chan, open, queued>>
    BY DEF PeerAnswer
<1>3. UnwrapResponse(f) \in {Answer(e.req), NoneResponse}
    BY DEF FramesFor, UnwrapResponse
<1>4. e.req = call[e.slot].req /\ call[e.slot].pc \notin {"idle", "send"}
    BY <1>1 DEF TInv
<1>5. Pending' \subseteq Pending
    BY <1>2 DEF Pending
<1>6. Answer(e.req) \in Answers
    BY <1>1 DEF Answers
<1>7. TypeOK'
    BY <1>1, <1>2, <1>3, <1>6 DEF TInv, TypeOK
<1>8. \A d \in Callers : slot'[d] \in Answers => slot'[d] = Answer(call'[d].req)
    BY <1>1, <1>2, <1>3, <1>4, NotAnswers DEF TInv, TypeOK
<1>9. \A d \in Callers : call'[d].pc \in {"idle", "send"} => slot'[d] = slot[d]
    BY <1>1, <1>2, <1>4 DEF TInv, TypeOK
<1>10. QED
    BY <1>2, <1>5, <1>7, <1>8, <1>9 DEF TInv, OwnResponse, NoSendMeansNotQueued

\* The worker exits: every oneshot sender it holds or that is queued is
\* dropped, and nothing is pending any more.
LEMMA WorkerExitTInv ==
    ASSUME TInv, WorkerExit
    PROVE  TInv'
<1>1. /\ slot' = [d \in Callers |-> IF \E e \in Pending : ~e.ff /\ e.slot = d
                                     THEN Dropped ELSE slot[d]]
      /\ chan' = <<>> /\ inflight' = {} /\ open' = FALSE
      /\ UNCHANGED <<call, queued>>
    BY DEF WorkerExit, Pending
<1>2. Pending' = {}
    BY <1>1 DEF Pending
<1>3. \A d \in Callers : call[d].pc \in {"idle", "send"} => slot'[d] = slot[d]
    BY <1>1 DEF TInv
<1>4. \A d \in Callers : slot'[d] \in {slot[d], Dropped}
    BY <1>1
<1>5. TypeOK'
    <2>1. slot' \in [Callers -> Answers \cup {Empty, Dropped, NoneResponse}]
        BY <1>1 DEF TInv, TypeOK
    <2>2. chan' \in Seq(Events) /\ Len(chan') <= Capacity
        BY <1>1, TransportAssumption
    <2>3. call' \in [Callers -> Calls] /\ queued' \subseteq Callers
        BY <1>1 DEF TInv, TypeOK
    <2>4. \A c \in Callers :
            call'[c].pc # "idle" => call'[c].op \in Ops /\ call'[c].req \in Requests
        BY <1>1 DEF TInv, TypeOK
    <2>5. QED
        BY <1>1, <2>1, <2>2, <2>3, <2>4 DEF TypeOK
<1>6. \A d \in Callers : slot'[d] \in Answers => slot'[d] = slot[d]
    BY <1>4, NotAnswers
<1>7. QED
    BY <1>1, <1>2, <1>3, <1>5, <1>6 DEF TInv, OwnResponse, NoSendMeansNotQueued

\* TInv is preserved by every step of the transport.
LEMMA StepTInv == TInv /\ [Next]_vars => TInv'
<1> SUFFICES ASSUME TInv, [Next]_vars PROVE TInv'
    OBVIOUS
<1>1. CASE \E c \in Callers, op \in Ops, r \in Requests : Call(c, op, r)
    BY <1>1, CallTInv
<1>2. CASE \E c \in Callers : Send(c)
    BY <1>2, SendTInv
<1>3. CASE \E c \in Callers : AwaitReply(c)
    BY <1>3, AwaitReplyTInv
<1>4. CASE WorkerTake
    BY <1>4, WorkerTakeTInv
<1>5. CASE \E e \in inflight : \E f \in FramesFor(e) : PeerAnswer(e, f)
    BY <1>5, PeerAnswerTInv
<1>6. CASE WorkerExit
    BY <1>6, WorkerExitTInv
<1>7. CASE Finished \/ UNCHANGED vars
    <2>1. UNCHANGED <<call, chan, open, inflight, slot, queued>>
        BY <1>7 DEF Finished, vars
    <2>2. TypeOK'
        BY <2>1 DEF TInv, TypeOK
    <2>3. Pending' = Pending
        BY <2>1 DEF Pending
    <2>4. QED
        BY <2>1, <2>2, <2>3 DEF TInv, OwnResponse, NoSendMeansNotQueued
<1>8. QED
    BY <1>1, <1>2, <1>3, <1>4, <1>5, <1>6, <1>7 DEF Next

-----------------------------------------------------------------------------
(* Theorems                                                                *)

\* TInv holds in every state of the transport.
THEOREM TInvHolds == Spec => []TInv
BY InitTInv, StepTInv, PTL DEF Spec

\* The transport is well typed in every state, whatever the callers, the
\* requests and the bound: in particular the peer's mpsc channel never holds
\* more than its capacity (tx.send awaits room, request.rs lines 33-39 and
\* 75-80), and what the worker keeps in flight is only NeedResponse events,
\* each carrying the reply slot of a caller.
THEOREM TypeCorrect == Spec => []TypeOK
<1>1. TInv => TypeOK
    BY DEF TInv
<1>2. QED
    BY <1>1, TInvHolds, PTL

\* Correlation of send_request (request.rs, lines 31-44) and Request::send
\* (73-83): whatever order the peer answers in and whenever the connection
\* is lost, a call that returns an answer returns the answer to its own
\* request.
THEOREM OwnResponseHolds == Spec => []OwnResponse
<1>1. TInv => OwnResponse
    BY DEF TInv
<1>2. QED
    BY <1>1, TInvHolds, PTL

\* Request::send (lines 73-83) returns None only for a request that never
\* entered the peer's channel; a lost reply is Some(Response::None).
THEOREM NoSendHolds == Spec => []NoSendMeansNotQueued
<1>1. TInv => NoSendMeansNotQueued
    BY DEF TInv
<1>2. QED
    BY <1>1, TInvHolds, PTL

-----------------------------------------------------------------------------
(* Refinement of RequestReply                                              *)

\* A call waiting for its reply was made with send_request or Request::send:
\* dispatch_request never waits (request.rs, line 52).
WaitInv == \A c \in Callers : call[c].pc = "wait" => call[c].op # "dispatch"

\* No step of the transport makes a dispatch_request call wait for a reply.
LEMMA WaitStep == TInv /\ WaitInv /\ [Next]_vars => WaitInv'
<1> SUFFICES ASSUME TInv, WaitInv, [Next]_vars,
                    NEW d \in Callers, call'[d].pc = "wait"
             PROVE  call'[d].op # "dispatch"
    BY DEF WaitInv
<1>1. CASE \E c \in Callers, op \in Ops, r \in Requests : Call(c, op, r)
    BY <1>1 DEF Call, TInv, TypeOK, WaitInv
<1>2. CASE \E c \in Callers : Send(c)
    <2>1. PICK c \in Callers : Send(c)
        BY <1>2
    <2>2. CASE open
        <3>1. call' = [call EXCEPT ![c].pc = IF call[c].op = "dispatch" THEN "done" ELSE "wait"]
            BY <2>1, <2>2 DEF Send
        <3>2. QED
            BY <3>1 DEF TInv, TypeOK, Calls, WaitInv
    <2>3. CASE ~open
        <3>1. PICK v \in {NoneResponse, NoSend, NoResult} :
                 call' = [call EXCEPT ![c].pc = "done", ![c].res = v]
            BY <2>1, <2>3 DEF Send
        <3>2. QED
            BY <3>1 DEF TInv, TypeOK, Calls, WaitInv
    <2>4. QED
        BY <2>2, <2>3
<1>3. CASE \E c \in Callers : AwaitReply(c)
    BY <1>3 DEF AwaitReply, TInv, TypeOK, WaitInv
<1>4. CASE ~(\E c \in Callers, op \in Ops, r \in Requests : Call(c, op, r))
           /\ ~(\E c \in Callers : Send(c)) /\ ~(\E c \in Callers : AwaitReply(c))
    <2>1. call' = call
        BY <1>4 DEF Next, vars, WorkerTake, PeerAnswer, WorkerExit, Finished
    <2>2. QED
        BY <2>1 DEF WaitInv
<1>5. QED
    BY <1>1, <1>2, <1>3, <1>4

\* In every reachable state, only send_request and Request::send calls wait.
LEMMA WaitHolds == Spec => []WaitInv
<1>1. Init => WaitInv
    BY DEF Init, Idle, WaitInv
<1>2. QED
    BY <1>1, WaitStep, TInvHolds, PTL DEF Spec

\* A call that returns v, a value its operation allows for its own request,
\* is a Return step of RequestReply.
LEMMA ReturnStep ==
    ASSUME TypeOK, NEW c \in Callers, call[c].pc \in {"send", "wait"},
           NEW v \in RR!Returns(call[c].op, call[c].req),
           call' = [call EXCEPT ![c].pc = "done", ![c].res = v]
    PROVE  RR!Next
<1>1. v \in {RR!NoResult, RR!NoneResponse, RR!NoSend} \cup {RR!Answer(r) : r \in Requests}
    BY DEF RR!Returns, TypeOK
<1>2. AbstractCall' = [AbstractCall EXCEPT ![c].st = "done", ![c].res = v]
    <2>1. \A d \in Callers \ {c} : call'[d] = call[d]
        BY DEF TypeOK
    <2>2. call'[c] = [op |-> call[c].op, req |-> call[c].req, pc |-> "done", res |-> v]
        BY DEF TypeOK, Calls
    <2>3. AbstractCall'[c] = [op |-> call[c].op, req |-> call[c].req, st |-> "done", res |-> v]
        BY <2>2 DEF AbstractCall
    <2>4. [AbstractCall EXCEPT ![c].st = "done", ![c].res = v][c]
             = [op |-> call[c].op, req |-> call[c].req, st |-> "done", res |-> v]
        BY DEF AbstractCall
    <2>5. \A d \in Callers \ {c} : AbstractCall'[d] = AbstractCall[d]
        BY <2>1 DEF AbstractCall
    <2>6. \A d \in Callers :
             AbstractCall'[d] = [AbstractCall EXCEPT ![c].st = "done", ![c].res = v][d]
        <3> TAKE d \in Callers
        <3>1. CASE d = c
            BY <2>3, <2>4, <3>1
        <3>2. CASE d # c
            <4>1. [AbstractCall EXCEPT ![c].st = "done", ![c].res = v][d] = AbstractCall[d]
                BY <3>2 DEF AbstractCall
            <4>2. QED
                BY <2>5, <3>2, <4>1
        <3>3. QED
            BY <3>1, <3>2
    <2>7. QED
        BY <2>6, Zenon DEF AbstractCall
<1>3. RR!Return(c, v)
    BY <1>2 DEF RR!Return, AbstractCall
<1>4. QED
    BY <1>1, <1>3 DEF RR!Next

\* Every step of the transport is a step of RequestReply or leaves the
\* callers' view unchanged.
LEMMA RefinementStep ==
    TInv /\ WaitInv /\ [Next]_vars => [RR!Next]_AbstractCall
<1> SUFFICES ASSUME TInv, WaitInv, [Next]_vars PROVE [RR!Next]_AbstractCall
    OBVIOUS
<1>0. TypeOK
    BY DEF TInv
<1>1. ASSUME NEW c \in Callers, NEW op \in Ops, NEW r \in Requests, Call(c, op, r)
      PROVE  RR!Next
    <2>1. AbstractCall' = [AbstractCall EXCEPT ![c] = [op |-> op, req |-> r,
                                 st |-> "pending", res |-> RR!NoResult]]
        BY <1>0, <1>1 DEF Call, AbstractCall, TypeOK, Calls, NoResult, RR!NoResult
    <2>2. RR!Invoke(c, op, r)
        BY <1>0, <1>1, <2>1 DEF Call, RR!Invoke, AbstractCall
    <2>3. QED
        BY <2>2 DEF RR!Next, Ops, RR!Ops
<1>2. ASSUME NEW c \in Callers, Send(c) PROVE [RR!Next]_AbstractCall
    <2>1. call[c].pc = "send" /\ call[c].res = NoResult
        BY <1>2 DEF Send, TInv
    <2>2. call[c].op \in Ops
        BY <1>0, <2>1 DEF TypeOK
    <2>3. CASE open /\ call[c].op # "dispatch"
        <3>1. call' = [call EXCEPT ![c].pc = "wait"]
            BY <1>2, <2>3 DEF Send
        <3>2. AbstractCall' = AbstractCall
            BY <1>0, <2>1, <3>1 DEF AbstractCall, TypeOK, Calls
        <3>3. QED
            BY <3>2
    <2>4. CASE open /\ call[c].op = "dispatch"
        <3>1. call' = [call EXCEPT ![c].pc = "done", ![c].res = NoResult]
            BY <1>0, <1>2, <2>1, <2>4 DEF Send, TypeOK, Calls
        <3>2. NoResult \in RR!Returns(call[c].op, call[c].req)
            BY <2>4 DEF RR!Returns, NoResult, RR!NoResult
        <3>3. QED
            BY <1>0, <2>1, <3>1, <3>2, ReturnStep
    <2>5. CASE ~open
        <3>1. PICK v \in {NoneResponse, NoSend, NoResult} :
                 /\ call' = [call EXCEPT ![c].pc = "done", ![c].res = v]
                 /\ call[c].op = "send_request" => v = NoneResponse
                 /\ call[c].op = "send" => v = NoSend
                 /\ call[c].op = "dispatch" => v = NoResult
            BY <1>2, <2>5 DEF Send
        <3>2. v \in RR!Returns(call[c].op, call[c].req)
            BY <2>2, <3>1 DEF Ops, RR!Returns, NoneResponse, NoSend, NoResult,
               RR!NoneResponse, RR!NoSend, RR!NoResult
        <3>3. QED
            BY <1>0, <2>1, <3>1, <3>2, ReturnStep
    <2>6. QED
        BY <2>3, <2>4, <2>5
<1>3. ASSUME NEW c \in Callers, AwaitReply(c) PROVE RR!Next
    <2>1. call[c].pc = "wait" /\ call[c].op \in {"send_request", "send"}
        BY <1>0, <1>3 DEF AwaitReply, WaitInv, TypeOK, Ops
    <2>2. slot[c] \in Answers \cup {Dropped, NoneResponse}
        BY <1>0, <1>3, NotAnswers DEF AwaitReply, ReadReply, ReplySlot, TypeOK
    <2>3. slot[c] \in Answers => slot[c] = Answer(call[c].req)
        BY DEF TInv
    <2>4. ReadReply(call[c].op, slot[c]) \in RR!Returns(call[c].op, call[c].req)
        BY <2>1, <2>2, <2>3, NotAnswers
        DEF ReadReply, RR!Returns, Answer, RR!Answer, NoneResponse, RR!NoneResponse
    <2>5. QED
        BY <1>0, <1>3, <2>1, <2>4, ReturnStep DEF AwaitReply, ReplySlot
<1>4. CASE UNCHANGED call
    BY <1>4 DEF AbstractCall
<1>5. QED
    BY <1>1, <1>2, <1>3, <1>4
    DEF Next, vars, WorkerTake, PeerAnswer, WorkerExit, Finished

\* send_request, Request::send and dispatch_request (request.rs, lines
\* 31-83) keep the safety part of their contract: under the mapping
\* AbstractCall, every behaviour of the transport is one of RequestReply,
\* in which a call returns only a value its operation allows for its own
\* request.
THEOREM Refinement == Spec => RR!SafetySpec
<1>1. Init => RR!Init
    BY DEF Init, Idle, RR!Init, AbstractCall, NoResult, RR!NoResult
<1>2. QED
    BY <1>1, RefinementStep, TInvHolds, WaitHolds, PTL DEF Spec, RR!SafetySpec

=============================================================================
