-------------------------- MODULE DeploymentProofs --------------------------
(***************************************************************************)
(* Proofs about Deployment: the clocks of UpstreamCalls, its answers, and  *)
(* the start of the API, for every value of the constants.                 *)
(*                                                                         *)
(* A step of UpstreamCalls either touches one slot, and then Slot reduces  *)
(* the invariant to that slot, or all of them at once (a tick, a stop, a   *)
(* crash).                                                                 *)
(***************************************************************************)
EXTENDS Deployment, TLAPS

\* The timeouts are positive numbers, and no deadline is as long as none.
LEMMA Numbers ==
  /\ RequestTimeout \in Nat /\ ClientTimeout \in Nat /\ ServiceTimeout \in Nat
  /\ Interval \in Nat /\ PollLimit \in Nat /\ ShutdownTimeout \in Nat
  /\ OrdinaryEdge \in Nat /\ DeviceEdge \in Nat /\ RedisSlack \in Nat
  /\ Unlimited \in Nat
  /\ PollLimit < Unlimited /\ ClientTimeout < Unlimited /\ ServiceTimeout < Unlimited
<1>1. /\ RequestTimeout \in Nat \ {0} /\ ClientTimeout \in Nat \ {0}
      /\ ServiceTimeout \in Nat \ {0} /\ Interval \in Nat \ {0} /\ PollLimit \in Nat \ {0}
      /\ ShutdownTimeout \in Nat \ {0} /\ OrdinaryEdge \in Nat \ {0} /\ DeviceEdge \in Nat \ {0}
      /\ RedisSlack \in Nat \ {0}
  BY TimeoutAssumptions DEF TimeoutAssumptions, Timeouts
<1> QED
  BY <1>1 DEF Unlimited

\* What Call makes of a request (the contexts of the Directory's calls).
LEMMA CallFacts ==
  ASSUME NEW q \in Request, NEW op \in Ops
  PROVE  /\ Call(q, op) \in Request
         /\ Call(q, op).op = op /\ Call(q, op).sent = FALSE
         /\ Call(q, op).kind = q.kind /\ Call(q, op).left = q.left /\ Call(q, op).age = q.age
         /\ Call(q, op).redis = q.redis
         /\ Call(q, op).rpc <= q.left
         /\ op # "poll" => Call(q, op).rpc <= ClientTimeout
<1> DEFINE limit == IF op = "poll" THEN PollLimit ELSE ClientTimeout
<1>1. limit \in Nat /\ limit < Unlimited /\ (op # "poll" => limit = ClientTimeout)
  BY Numbers
<1>2. q.left \in Timer
  BY DEF Request
<1> HIDE DEF limit
<1>3. /\ Lesser(q.left, limit) \in Timer
      /\ Lesser(q.left, limit) <= q.left
      /\ Lesser(q.left, limit) <= limit
  BY <1>1, <1>2, Numbers DEF Lesser, Timer
<1>4. Call(q, op) = [q EXCEPT !.op = op, !.sent = FALSE, !.rpc = Lesser(q.left, limit)]
  BY DEF Call, limit
<1> QED
  BY <1>1, <1>3, <1>4 DEF Request, Timer

\* An idle slot is in order.
LEMMA EmptySlot ==
  /\ NoRequest \in Request
  /\ NoHandler \in Handler
  /\ SlotOK(NoRequest, NoHandler)
  BY Numbers DEF NoRequest, NoHandler, Request, Handler, Timer, SlotOK, HandlerOK, AgeOK,
     DrainOK, Ops, RedisOps

\* A step that touches one slot of the requests, and leaves it in order.
LEMMA Slot ==
  ASSUME CallsInv, NEW r \in Requests,
         req' \in [Requests -> Request], srv' \in [Requests -> Handler],
         \A p \in Requests \ {r} : req'[p] = req[p] /\ srv'[p] = srv[p],
         SlotOK(req'[r], srv'[r]),
         UNCHANGED upVars
  PROVE  CallsInv'
<1>1. TypeOK' /\ StopInv'
  BY DEF CallsInv, TypeOK, StopInv, upVars
<1>2. ASSUME NEW p \in Requests PROVE SlotOK(req[p], srv[p])'
  BY DEF CallsInv, SlotOK, HandlerOK, AgeOK, DrainOK, upVars
<1> QED
  BY <1>1, <1>2 DEF CallsInv

\* The slot of a request that is over, its handler canceled.
LEMMA LeftSlot ==
  ASSUME CallsInv, NEW r \in Requests
  PROVE  CancelHandler(r) \in Handler /\ SlotOK(NoRequest, CancelHandler(r))
<1>1. SlotOK(req[r], srv[r]) /\ srv[r] \in Handler
  BY DEF CallsInv, TypeOK
<1>2. /\ CancelHandler(r) \in Handler
      /\ CancelHandler(r).at = srv[r].at /\ CancelHandler(r).timer = srv[r].timer
      /\ CancelHandler(r).canceled = (srv[r].at # "none")
  BY <1>1 DEF CancelHandler, Handler, Handling
<1>3. NoRequest.op = "none"
  BY DEF NoRequest
<1> QED
  BY <1>1, <1>2, <1>3 DEF SlotOK, HandlerOK, AgeOK, DrainOK, Ops

-----------------------------------------------------------------------------
(* The API's handlers.                                                     *)

\* A request that arrives, or goes on without a call that was sent.
LEMMA UnsentStep ==
  ASSUME CallsInv, NEW r \in Requests, NEW q \in Request, AgeOK(q),
         q.sent = FALSE \/ q.op \notin Ops,
         srv[r].at = "none" \/ srv[r].canceled,
         req' = [req EXCEPT ![r] = q], srv' = srv, UNCHANGED upVars
  PROVE  CallsInv'
<1>1. SlotOK(q, srv[r])
  BY DEF CallsInv, SlotOK, HandlerOK, DrainOK
<1> QED
  BY <1>1, Slot DEF CallsInv, TypeOK

\* A request that starts with a call.
LEMMA FirstCall ==
  ASSUME NEW q \in Request, NEW op \in Ops, q.redis = 0,
         \/ q.kind = "logindevice" /\ op = "code" /\ q.age = 0
         \/ q.kind = "refresh" /\ op = "refresh" /\ q.left <= ServiceTimeout
            /\ q.age = ServiceTimeout - q.left
  PROVE  Call(q, op) \in Request /\ AgeOK(Call(q, op)) /\ Call(q, op).sent = FALSE
<1> DEFINE x == Call(q, op)
<1>1. /\ x \in Request /\ x.op = op /\ x.sent = FALSE /\ x.kind = q.kind /\ x.left = q.left
      /\ x.age = q.age /\ x.redis = q.redis
      /\ x.rpc <= q.left /\ (op # "poll" => x.rpc <= ClientTimeout)
  BY CallFacts
<1>2. q.left \in Nat /\ q.age \in Nat /\ x.rpc \in Nat
  BY <1>1, Numbers DEF Request, Timer
<1> HIDE DEF x
<1>3. AgeOK(x)
  BY <1>1, <1>2, Numbers DEF AgeOK, Ops, RedisOps
<1> QED
  BY <1>1, <1>3 DEF x

\* Callback, LoginDeviceFlow, CallbackDeviceFlow and RefreshToken.
LEMMA ArrivalStep ==
  ASSUME CallsInv, NEW r \in Requests, Arrival(r)
  PROVE  CallsInv'
<1>1. ASSUME NEW q \in Request, AgeOK(q), q.sent = FALSE, Arrive(r, q) PROVE CallsInv'
  BY <1>1, UnsentStep DEF Arrive, Handling
<1>2. CASE Callback(r) \/ CallbackDeviceFlow(r)
  <2>1. ASSUME NEW kind \in {"callback", "device"}
        PROVE  Popping(kind) \in Request /\ AgeOK(Popping(kind)) /\ Popping(kind).sent = FALSE
    <3> DEFINE q == Popping(kind)
    <3>1. /\ q \in Request /\ q.kind = kind /\ q.op = "pop" /\ q.sent = FALSE
          /\ q.left = Unlimited /\ q.age = 0 /\ q.redis = 0
      BY EmptySlot DEF Popping, NoRequest, Request, Kinds, RedisOps
    <3> HIDE DEF q
    <3>2. AgeOK(q)
      BY <3>1 DEF AgeOK, Ops, RedisOps
    <3> QED
      BY <3>1, <3>2 DEF q
  <2> QED
    BY <1>1, <1>2, <2>1 DEF Callback, CallbackDeviceFlow
<1>3. CASE LoginDeviceFlow(r)
  <2> DEFINE q == [NoRequest EXCEPT !.kind = "logindevice"]
  <2>1. q \in Request /\ q.kind = "logindevice" /\ q.redis = 0 /\ q.age = 0
    BY EmptySlot DEF NoRequest, Request, Kinds
  <2>2. Arrive(r, Call(q, "code"))
    BY <1>3 DEF LoginDeviceFlow
  <2> HIDE DEF q
  <2> QED
    BY <1>1, <2>1, <2>2, FirstCall DEF Ops
<1>4. CASE RefreshToken(r)
  <2>1. PICK left \in 1 .. ServiceTimeout :
          Arrive(r, Call([NoRequest EXCEPT !.kind = "refresh", !.left = left,
                                           !.age = ServiceTimeout - left], "refresh"))
    BY <1>4 DEF RefreshToken
  <2> DEFINE q == [NoRequest EXCEPT !.kind = "refresh", !.left = left,
                                    !.age = ServiceTimeout - left]
  <2>2. left \in Timer /\ left <= ServiceTimeout /\ ServiceTimeout - left \in Nat
    BY Numbers DEF Timer
  <2>3. /\ q \in Request /\ q.kind = "refresh" /\ q.redis = 0 /\ q.left = left
        /\ q.age = ServiceTimeout - left
    BY <2>2, EmptySlot DEF NoRequest, Request, Kinds
  <2>4. Arrive(r, Call(q, "refresh"))
    BY <2>1
  <2> HIDE DEF q
  <2> QED
    BY <1>1, <2>2, <2>3, <2>4, FirstCall DEF Ops
<1> QED
  BY <1>2, <1>3, <1>4 DEF Arrival

\* A request that is answered while it has no handler, or whose handler ends
\* with it.
LEMMA AnsweredStep ==
  ASSUME CallsInv, NEW r \in Requests, NEW status, NEW why, Answered(r, status, why),
         \/ srv' = srv /\ srv[r].at = "none"
         \/ srv' = srv /\ srv[r].canceled
         \/ srv' = [srv EXCEPT ![r] = NoHandler]
         \/ srv' = [srv EXCEPT ![r] = CancelHandler(r)],
         UNCHANGED upVars
  PROVE  CallsInv'
<1>1. req' = [req EXCEPT ![r] = NoRequest] /\ req \in [Requests -> Request]
  BY DEF Answered, CallsInv, TypeOK
<1>2. srv \in [Requests -> Handler] /\ SlotOK(req[r], srv[r])
  BY DEF CallsInv, TypeOK
<1>3. NoRequest.op = "none"
  BY DEF NoRequest
<1>4. CASE srv' = srv /\ (srv[r].at = "none" \/ srv[r].canceled)
  <2>1. SlotOK(NoRequest, srv[r])
    BY <1>2, <1>3, <1>4 DEF SlotOK, HandlerOK, AgeOK, DrainOK, Ops
  <2> QED
    BY <1>1, <1>2, <1>4, <2>1, Slot, EmptySlot
<1>5. CASE srv' = [srv EXCEPT ![r] = NoHandler]
  BY <1>1, <1>2, <1>5, Slot, EmptySlot
<1>6. CASE srv' = [srv EXCEPT ![r] = CancelHandler(r)]
  BY <1>1, <1>2, <1>6, Slot, EmptySlot, LeftSlot
<1> QED
  BY <1>4, <1>5, <1>6

\* A request goes on after a call that succeeded, and its handler has ended.
LEMMA ProceedStep ==
  ASSUME CallsInv, NEW r \in Requests, Calling(r), Proceed(r),
         srv' = [srv EXCEPT ![r] = NoHandler], UNCHANGED upVars
  PROVE  CallsInv'
<1> DEFINE q == req[r]
           cut == [q EXCEPT !.left = Lesser(q.left, ServiceTimeout)]
           stored == [q EXCEPT !.op = "store"]
<1>1. /\ q \in Request /\ q.op \in Ops /\ AgeOK(q) /\ req \in [Requests -> Request]
      /\ srv \in [Requests -> Handler]
  BY DEF CallsInv, TypeOK, SlotOK, Calling
<1>2. ASSUME NEW x \in Request, x.sent = FALSE \/ x.op \notin Ops, AgeOK(x),
             req' = [req EXCEPT ![r] = x]
      PROVE  CallsInv'
  <2>1. SlotOK(x, NoHandler)
    BY <1>2, EmptySlot DEF SlotOK, HandlerOK, DrainOK, NoHandler
  <2> QED
    BY <1>1, <1>2, <2>1, Slot, EmptySlot
<1>3. CASE q.op = "code"
  <2> DEFINE x == [q EXCEPT !.op = "keep", !.sent = FALSE, !.rpc = 0]
  <2>1. /\ x \in Request /\ x.op = "keep" /\ x.kind = q.kind /\ x.age = q.age
        /\ x.redis = q.redis /\ x.left = q.left
    <3>1. 0 \in Timer /\ "keep" \in Ops \cup RedisOps \cup {"none", "store"}
      BY Numbers DEF Timer, RedisOps
    <3> HIDE DEF q
    <3> QED
      BY <1>1, <3>1 DEF Request
  <2>2. q.kind = "logindevice" /\ q.age + q.rpc <= q.redis + ClientTimeout
    <3>1. q.kind \in Kinds
      BY <1>1, <1>3 DEF AgeOK, Request
    <3> HIDE DEF q
    <3> QED
      BY <1>1, <1>3, <3>1 DEF AgeOK, Kinds, Ops, RedisOps
  <2>3. q.age \in Nat /\ q.rpc \in Nat /\ q.redis \in Nat
    BY <1>1, Numbers DEF Request, Timer
  <2>4. req' = [req EXCEPT ![r] = x]
    BY <1>3 DEF Proceed
  <2> HIDE DEF x, q
  <2>5. AgeOK(x) /\ x.op \notin Ops
    BY <2>1, <2>2, <2>3, Numbers DEF AgeOK, Ops, RedisOps
  <2> QED
    BY <1>2, <2>1, <2>4, <2>5
<1>4. CASE q.op = "poll"
  <2> DEFINE x == Call(q, "exchange")
  <2>1. /\ x \in Request /\ x.op = "exchange" /\ x.sent = FALSE /\ x.kind = q.kind
        /\ x.age = q.age /\ x.left = q.left /\ x.rpc <= x.left /\ x.redis = q.redis
    BY <1>1, CallFacts DEF Ops
  <2>2. q.kind = "device"
    BY <1>1, <1>4 DEF AgeOK, Kinds, Request, Ops, RedisOps
  <2> HIDE DEF x
  <2>3. AgeOK(x)
    BY <1>1, <1>4, <2>1, <2>2 DEF AgeOK, RedisOps
  <2>4. req' = [req EXCEPT ![r] = x]
    BY <1>4 DEF Proceed, x
  <2> QED
    BY <1>2, <2>1, <2>3, <2>4
<1>5. CASE q.op = "exchange"
  <2>1. cut \in Request /\ cut.kind = q.kind /\ cut.age = q.age /\ cut.left <= q.left
        /\ cut.left <= ServiceTimeout /\ cut.redis = q.redis
    BY <1>1, Numbers DEF Lesser, Request, Timer
  <2> DEFINE x == Call(cut, "verify")
  <2> HIDE DEF cut
  <2>2. /\ x \in Request /\ x.op = "verify" /\ x.sent = FALSE /\ x.kind = q.kind
        /\ x.age = q.age /\ x.left = cut.left /\ x.rpc <= x.left /\ x.redis = q.redis
    BY <2>1, CallFacts DEF Ops
  <2>3. q.rpc \in Nat /\ q.left \in Nat /\ q.age \in Nat /\ cut.left \in Nat /\ q.redis \in Nat
    BY <1>1, <2>1, Numbers DEF Request, Timer
  <2> HIDE DEF x, q
  <2>4. AgeOK(x)
    BY <1>1, <1>5, <2>1, <2>2, <2>3, Numbers DEF AgeOK, Ops, RedisOps
  <2>5. req' = [req EXCEPT ![r] = x]
    BY <1>5 DEF Proceed, x, cut, q
  <2> QED
    BY <1>2, <2>2, <2>4, <2>5
<1>6. ASSUME q.op \in {"refresh", "verify"}
      PROVE  stored \in Request /\ AgeOK(stored) /\ stored.op \notin Ops
  BY <1>1, <1>6, Numbers DEF AgeOK, Ops, RedisOps, Request, Timer
<1>7. CASE q.op = "refresh"
  <2> DEFINE x == Call(q, "verify")
  <2>1. /\ x \in Request /\ x.op = "verify" /\ x.sent = FALSE /\ x.kind = q.kind
        /\ x.age = q.age /\ x.left = q.left /\ x.rpc <= x.left /\ x.redis = q.redis
    BY <1>1, CallFacts DEF Ops
  <2>2. q.kind \in {"refresh", "device"}
    BY <1>1, <1>7 DEF AgeOK, Kinds, Request, Ops, RedisOps
  <2>3. req' \in {[req EXCEPT ![r] = x], [req EXCEPT ![r] = stored]}
    BY <1>7 DEF Proceed
  <2> HIDE DEF x
  <2>4. AgeOK(x)
    BY <1>1, <1>7, <2>1, <2>2 DEF AgeOK, RedisOps
  <2> QED
    BY <1>2, <1>6, <1>7, <2>1, <2>3, <2>4
<1>8. CASE q.op = "verify"
  <2>1. req' = [req EXCEPT ![r] = stored]
    BY <1>8 DEF Proceed
  <2> QED
    BY <1>2, <1>6, <1>8, <2>1
<1> QED
  BY <1>1, <1>3, <1>4, <1>5, <1>7, <1>8 DEF Ops

\* The call runs out of time.
LEMMA ClientDeadlineStep ==
  ASSUME CallsInv, NEW r \in Requests, ClientDeadline(r)
  PROVE  CallsInv'
  BY AnsweredStep DEF ClientDeadline, Fail

\* The flow is taken: a callback goes on without a deadline, a device completion
\* under its flow's.
LEMMA FlowTakenStep ==
  ASSUME CallsInv, NEW r \in Requests, FlowTaken(r)
  PROVE  CallsInv'
<1> DEFINE q == req[r]
<1>1. /\ q \in Request /\ q.op = "pop" /\ AgeOK(q) /\ srv' = srv /\ UNCHANGED upVars
      /\ srv[r].at = "none" \/ srv[r].canceled
  BY DEF CallsInv, TypeOK, SlotOK, HandlerOK, FlowTaken, Ops
<1>2. q.age \in Nat /\ q.redis \in Nat /\ q.age <= q.redis /\ q.left = Unlimited
  BY <1>1 DEF Request, AgeOK
<1>3. CASE q.kind = "callback" /\ req' = [req EXCEPT ![r] = Call(@, "exchange")]
  <2> DEFINE x == Call(q, "exchange")
  <2>1. /\ x \in Request /\ x.op = "exchange" /\ x.sent = FALSE /\ x.kind = q.kind
        /\ x.age = q.age /\ x.left = q.left /\ x.rpc <= x.left /\ x.redis = q.redis
        /\ x.rpc <= ClientTimeout
    BY <1>1, CallFacts DEF Ops
  <2>2. x.rpc \in Nat
    BY <2>1, Numbers DEF Request, Timer
  <2>3. req' = [req EXCEPT ![r] = x]
    BY <1>3
  <2> HIDE DEF x, q
  <2>4. AgeOK(x)
    BY <1>2, <1>3, <2>1, <2>2, Numbers DEF AgeOK, Ops, RedisOps
  <2> QED
    BY <1>1, <2>1, <2>3, <2>4, UnsentStep
<1>4. CASE q.kind = "device"
           /\ \E left \in (IF q.redis > 0 THEN 0 ELSE 1) .. PollLimit :
                req' = [req EXCEPT ![r] = Call([@ EXCEPT !.left = left], "poll")]
  <2>1. PICK left \in (IF q.redis > 0 THEN 0 ELSE 1) .. PollLimit :
          req' = [req EXCEPT ![r] = Call([@ EXCEPT !.left = left], "poll")]
    BY <1>4
  <2>2. left \in Timer /\ left \in Nat /\ left <= PollLimit
    BY Numbers DEF Timer
  <2> DEFINE y == [q EXCEPT !.left = left]
             x == Call(y, "poll")
  <2>3. /\ y \in Request /\ y.kind = q.kind /\ y.age = q.age /\ y.redis = q.redis
        /\ y.left = left
    BY <1>1, <2>2 DEF Request
  <2>4. req' = [req EXCEPT ![r] = x]
    BY <2>1
  <2> HIDE DEF y
  <2>5. /\ x \in Request /\ x.op = "poll" /\ x.sent = FALSE /\ x.kind = q.kind
        /\ x.age = q.age /\ x.left = left /\ x.rpc <= x.left /\ x.redis = q.redis
    BY <2>3, CallFacts DEF Ops
  <2> HIDE DEF x, q
  <2>6. AgeOK(x)
    BY <1>2, <1>4, <2>2, <2>5, Numbers DEF AgeOK, Ops, RedisOps
  <2> QED
    BY <1>1, <2>4, <2>5, <2>6, UnsentStep
<1>5. CASE \E status, why : Answered(r, status, why)
  BY <1>1, <1>5, AnsweredStep
<1> QED
  BY <1>3, <1>4, <1>5 DEF FlowTaken

\* Redis answers or fails, and the request is answered.
LEMMA RedisStep ==
  ASSUME CallsInv, NEW r \in Requests,
         FlowRefused(r) \/ FlowKept(r) \/ RedisFails(r) \/ RedisTimesOut(r)
  PROVE  CallsInv'
<1>1. srv[r].at = "none" \/ srv[r].canceled
  BY DEF FlowRefused, FlowKept, RedisFails, RedisTimesOut, InRedis, CallsInv, SlotOK,
     HandlerOK, Ops, RedisOps
<1>2. srv' = srv /\ UNCHANGED upVars
  BY DEF FlowRefused, FlowKept, RedisFails, RedisTimesOut
<1>3. \E status, why : Answered(r, status, why)
  BY DEF FlowRefused, FlowKept, RedisFails, RedisTimesOut
<1> QED
  BY <1>1, <1>2, <1>3, AnsweredStep

\* The write of the credential ends, or runs out of time.
LEMMA StoreStep ==
  ASSUME CallsInv, NEW r \in Requests, StoreEnds(r) \/ StoreDeadline(r)
  PROVE  CallsInv'
<1>1. srv[r].at = "none" \/ srv[r].canceled
  BY DEF StoreEnds, StoreDeadline, CallsInv, SlotOK, HandlerOK, Ops
<1>2. srv' = srv /\ UNCHANGED upVars
  BY DEF StoreEnds, StoreDeadline
<1>3. \E status, why : Answered(r, status, why)
  BY DEF StoreEnds, StoreDeadline
<1> QED
  BY <1>1, <1>2, <1>3, AnsweredStep

\* The callers of some requests go away.
LEMMA ClientsLeaveStep ==
  ASSUME CallsInv, NEW rs, ClientsLeave(rs)
  PROVE  CallsInv'
<1>1. TypeOK' /\ StopInv'
  <2>1. \A r \in Requests : CancelHandler(r) \in Handler
    BY LeftSlot
  <2> QED
    BY <2>1, EmptySlot DEF ClientsLeave, CallsInv, TypeOK, StopInv, upVars
<1>2. ASSUME NEW r \in Requests PROVE SlotOK(req[r], srv[r])'
  <2>1. CASE r \in rs
    <3>1. req'[r] = NoRequest /\ srv'[r] = CancelHandler(r) /\ UNCHANGED upVars
      BY <2>1 DEF ClientsLeave
    <3> QED
      BY <3>1, LeftSlot DEF SlotOK, HandlerOK, AgeOK, DrainOK, upVars
  <2>2. CASE r \notin rs
    <3>1. req'[r] = req[r] /\ srv'[r] = srv[r] /\ UNCHANGED upVars
      BY <2>2 DEF ClientsLeave
    <3> QED
      BY <3>1 DEF CallsInv, SlotOK, HandlerOK, AgeOK, DrainOK, upVars
  <2> QED
    BY <2>1, <2>2
<1> QED
  BY <1>1, <1>2 DEF CallsInv

-----------------------------------------------------------------------------
(* The server's handlers.                                                  *)

\* The time of an HTTP request.
LEMMA HttpTimerFacts ==
  ASSUME CallsInv, NEW r \in Requests
  PROVE  HttpTimer(r) \in Nat /\ HttpTimer(r) <= RequestTimeout
<1>1. req[r].rpc \in Nat
  BY Numbers DEF CallsInv, TypeOK, Request, Timer
<1> QED
  BY <1>1, Numbers DEF HttpTimer, Lesser

\* A call reaches a handler, or is refused.
LEMMA DispatchStep ==
  ASSUME CallsInv, NEW r \in Requests, Dispatch(r)
  PROVE  CallsInv'
<1>1. /\ req[r] \in Request /\ req \in [Requests -> Request] /\ srv \in [Requests -> Handler]
      /\ SlotOK(req[r], srv[r]) /\ req[r].op \in Ops /\ req[r].sent = FALSE
      /\ up = "serving" /\ UNCHANGED upVars
  BY DEF CallsInv, TypeOK, Dispatch, Calling, Request
<1>2. srv[r].at = "none" \/ srv[r].canceled
  BY <1>1 DEF SlotOK, HandlerOK
<1> DEFINE q == [req[r] EXCEPT !.sent = TRUE]
           h == [at |-> "http", timer |-> HttpTimer(r), canceled |-> FALSE]
<1>3. CASE req' = [req EXCEPT ![r].sent = TRUE] /\ srv' = [srv EXCEPT ![r] = h]
  <2>1. /\ q \in Request /\ q.sent = TRUE /\ q.op = req[r].op /\ q.kind = req[r].kind
        /\ q.left = req[r].left /\ q.rpc = req[r].rpc /\ q.age = req[r].age
    BY <1>1 DEF Request
  <2>2. h \in Handler /\ h.timer <= RequestTimeout
    BY HttpTimerFacts DEF Handler
  <2>3. SlotOK(q, h)
    BY <1>1, <2>1, <2>2 DEF SlotOK, HandlerOK, AgeOK, DrainOK
  <2>4. req' = [req EXCEPT ![r] = q]
    BY <1>1, <1>3
  <2>5. /\ req' \in [Requests -> Request] /\ srv' \in [Requests -> Handler]
        /\ req'[r] = q /\ srv'[r] = h
        /\ \A p \in Requests \ {r} : req'[p] = req[p] /\ srv'[p] = srv[p]
    <3> HIDE DEF q, h
    <3> QED BY <1>1, <1>3, <2>1, <2>2, <2>4
  <2> HIDE DEF q, h
  <2> QED
    BY <1>1, <2>3, <2>5, Slot
<1>4. CASE (\E status, why : Answered(r, status, why)) /\ srv' = srv
  BY <1>1, <1>2, <1>4, AnsweredStep
<1> QED
  BY <1>3, <1>4 DEF Dispatch, Fail

\* No server takes the call.
LEMMA RefusedStep ==
  ASSUME CallsInv, NEW r \in Requests, Refused(r)
  PROVE  CallsInv'
<1>1. srv[r].at = "none" \/ srv[r].canceled
  BY DEF Refused, CallsInv, SlotOK, HandlerOK
<1> QED
  BY <1>1, AnsweredStep DEF Refused, Fail

\* A live handler has its call.
LEMMA LiveHandler ==
  ASSUME CallsInv, NEW r \in Requests, srv[r].at # "none", ~srv[r].canceled
  PROVE  Calling(r) /\ req[r].sent
  BY DEF CallsInv, SlotOK, HandlerOK, Calling

\* The provider has answered.
LEMMA HttpEndsStep ==
  ASSUME CallsInv, NEW r \in Requests, HttpEnds(r)
  PROVE  CallsInv'
<1>1. Calling(r)
  BY LiveHandler DEF HttpEnds
<1>2. srv' = [srv EXCEPT ![r] = NoHandler] /\ UNCHANGED upVars
  BY DEF HttpEnds
<1>3. Proceed(r) \/ \E status, why : Answered(r, status, why)
  BY DEF HttpEnds, Fail
<1> QED
  BY <1>1, <1>2, <1>3, ProceedStep, AnsweredStep

\* A poll goes to sleep, or wakes up.
LEMMA PollStep ==
  ASSUME CallsInv, NEW r \in Requests, PollPending(r) \/ PollWakes(r)
  PROVE  CallsInv'
<1>1. /\ req \in [Requests -> Request] /\ srv \in [Requests -> Handler]
      /\ SlotOK(req[r], srv[r]) /\ req' = req /\ UNCHANGED upVars
  BY DEF CallsInv, TypeOK, PollPending, PollWakes
<1>2. CASE PollPending(r)
  <2> DEFINE h == [srv[r] EXCEPT !.at = "sleep", !.timer = Interval]
  <2>1. /\ h \in Handler /\ h.at = "sleep" /\ h.canceled = FALSE
        /\ srv' = [srv EXCEPT ![r] = h]
    BY <1>1, <1>2, Numbers DEF PollPending, Handler
  <2>2. req[r].op = "poll" /\ srv[r].at = "http" /\ ~srv[r].canceled
    BY <1>2 DEF PollPending, Outcomes
  <2>3. SlotOK(req[r], h)
    BY <1>1, <2>1, <2>2 DEF SlotOK, HandlerOK, AgeOK, DrainOK
  <2> QED
    BY <1>1, <2>1, <2>3, Slot
<1>3. CASE PollWakes(r)
  <2> DEFINE h == [srv[r] EXCEPT !.at = "http", !.timer = HttpTimer(r)]
  <2>1. /\ h \in Handler /\ h.at = "http" /\ h.canceled = srv[r].canceled
        /\ h.timer <= RequestTimeout /\ srv' = [srv EXCEPT ![r] = h] /\ srv[r].at = "sleep"
    BY <1>1, <1>3, HttpTimerFacts DEF PollWakes, WakeDue, Handler
  <2>2. SlotOK(req[r], h)
    BY <1>1, <2>1 DEF SlotOK, HandlerOK, AgeOK, DrainOK
  <2> QED
    BY <1>1, <2>1, <2>2, Slot
<1> QED
  BY <1>2, <1>3

\* An HTTP request or a sleep ends with its context.
LEMMA ContextEndsStep ==
  ASSUME CallsInv, NEW r \in Requests, HttpTimesOut(r) \/ PollCanceled(r)
  PROVE  CallsInv'
<1>1. /\ req \in [Requests -> Request] /\ srv \in [Requests -> Handler]
      /\ SlotOK(req[r], srv[r]) /\ srv' = [srv EXCEPT ![r] = NoHandler] /\ UNCHANGED upVars
  BY DEF CallsInv, TypeOK, HttpTimesOut, PollCanceled
<1>2. CASE srv[r].canceled
  <2>1. req' = req
    BY <1>2 DEF HttpTimesOut, PollCanceled
  <2>2. SlotOK(req[r], NoHandler)
    BY <1>1, <1>2, EmptySlot DEF SlotOK, HandlerOK, AgeOK, DrainOK, NoHandler
  <2> QED
    BY <1>1, <2>1, <2>2, Slot, EmptySlot
<1>3. CASE ~srv[r].canceled
  BY <1>1, <1>3, AnsweredStep DEF HttpTimesOut, PollCanceled, Fail
<1> QED
  BY <1>2, <1>3

\* Every step of a request and of its handler.
LEMMA CallStepInv ==
  ASSUME CallsInv, NEW r \in Requests, CallStep(r)
  PROVE  CallsInv'
  BY DispatchStep, RefusedStep, HttpEndsStep, PollStep, StoreStep, ClientsLeaveStep,
     ClientDeadlineStep, ContextEndsStep, FlowTakenStep, RedisStep DEF CallStep, Due

-----------------------------------------------------------------------------
(* The server's life, and time.                                            *)

\* A step of the process that leaves the slots alone or clears all of them.
LEMMA ProcessStep ==
  ASSUME CallsInv, Run \/ StartFails \/ Serve \/ StopSignal \/ Stopped
  PROVE  CallsInv'
<1>1. req' = req /\ srv' = srv
  BY DEF Run, StartFails, Serve, StopSignal, Stopped, UpOnly
<1>2. TypeOK' /\ StopInv'
  BY <1>1, Numbers DEF CallsInv, TypeOK, StopInv, Run, StartFails, Serve, StopSignal, Stopped,
     UpOnly
<1>3. ASSUME NEW r \in Requests PROVE SlotOK(req[r], srv[r])'
  <2>1. SlotOK(req[r], srv[r]) /\ req[r] \in Request /\ srv[r] \in Handler
    BY DEF CallsInv, TypeOK
  <2>2. HandlerOK(req[r], srv[r])' /\ AgeOK(req[r])'
    BY <1>1, <2>1 DEF SlotOK, HandlerOK, AgeOK
  <2>3. CASE StopSignal
    <3>1. up' = "draining" /\ drain' = ShutdownTimeout
      BY <2>3 DEF StopSignal
    <3>2. req[r].op \in Ops /\ req[r].sent /\ req[r].op # "poll" => srv[r].timer < ShutdownTimeout
      BY <2>1, TimeoutAssumptions, Numbers DEF TimeoutAssumptions, SlotOK, HandlerOK, Handler
    <3> QED
      BY <1>1, <2>2, <3>1, <3>2 DEF SlotOK, DrainOK
  <2>4. CASE Stopped
    BY <1>1, <2>2, <2>4 DEF SlotOK, DrainOK, Stopped, StopDue, AllReturned, Handling
  <2>5. CASE Run \/ StartFails \/ Serve
    BY <1>1, <2>1, <2>2, <2>5 DEF SlotOK, DrainOK, Run, StartFails, Serve
  <2> QED
    BY <2>3, <2>4, <2>5
<1> QED
  BY <1>2, <1>3 DEF CallsInv

\* The forced stop and the crash cut every call that was sent.
LEMMA CutStep ==
  ASSUME CallsInv, ForceStop \/ Crash
  PROVE  CallsInv'
<1>1. TypeOK' /\ StopInv'
  <2>1. \A r \in Requests : CancelHandler(r) \in Handler
    BY LeftSlot
  <2>2. up' \in {"down", "stopping"} /\ drain' \in 0 .. ShutdownTimeout /\ since' \in Nat
        /\ oai' \in BOOLEAN /\ (up' = "stopping" => since' <= ShutdownTimeout)
    BY Numbers DEF ForceStop, Crash, ForceDue, CallsInv, TypeOK, StopInv
  <2>3. req' \in [Requests -> Request]
    BY EmptySlot DEF ForceStop, Crash, CutCalls, CallsInv, TypeOK
  <2>4. srv' \in [Requests -> Handler]
    BY <2>1, EmptySlot DEF ForceStop, Crash, CallsInv, TypeOK
  <2> QED
    BY <2>2, <2>3, <2>4 DEF TypeOK, StopInv
<1>2. ASSUME NEW r \in Requests PROVE SlotOK(req[r], srv[r])'
  <2> DEFINE live == req[r].op \in Ops /\ req[r].sent
  <2>1. SlotOK(req[r], srv[r]) /\ req[r] \in Request /\ srv[r] \in Handler
    BY DEF CallsInv, TypeOK
  <2>2. req'[r] = IF live THEN NoRequest ELSE req[r]
    BY DEF ForceStop, Crash, CutCalls, Calling
  <2>3. ~(req'[r].op \in Ops /\ req'[r].sent) /\ AgeOK(req'[r])
    BY <2>1, <2>2, EmptySlot DEF NoRequest, Ops, SlotOK
  <2>4. CASE ForceStop
    <3>1. up' = "stopping" /\ srv'[r] = CancelHandler(r)
      BY <2>4 DEF ForceStop
    <3>2. /\ CancelHandler(r).at = srv[r].at /\ CancelHandler(r).timer = srv[r].timer
          /\ CancelHandler(r).canceled = (srv[r].at # "none")
      BY <2>1 DEF CancelHandler, Handler, Handling
    <3> QED
      BY <2>1, <2>3, <3>1, <3>2 DEF SlotOK, HandlerOK, AgeOK, DrainOK
  <2>5. CASE Crash
    <3>1. up' = "down" /\ srv'[r] = NoHandler
      BY <2>5 DEF Crash
    <3> QED
      BY <2>3, <3>1 DEF SlotOK, HandlerOK, AgeOK, DrainOK, NoHandler
  <2> QED
    BY <2>4, <2>5
<1> QED
  BY <1>1, <1>2 DEF CallsInv

\* What a tick makes of a request whose timers are not due.
LEMMA TickRequest ==
  ASSUME NEW q \in Request, AgeOK(q), q.op # "none",
         q.op \in Ops => q.rpc # 0, q.op = "store" => q.left # 0,
         NEW x, x = [q EXCEPT !.left = IF @ = Unlimited THEN @ ELSE Less(@),
                              !.rpc = Less(@), !.age = @ + 1,
                              !.redis = IF q.op \in RedisOps THEN @ + 1 ELSE @]
  PROVE  x \in Request /\ AgeOK(x) /\ x.op = q.op /\ x.sent = q.sent
<1>1. q.left \in Timer /\ q.rpc \in Timer /\ q.age \in Nat /\ q.redis \in Nat
  BY DEF Request
<1>2. /\ Less(q.left) \in Timer /\ Less(q.rpc) \in Timer /\ q.age + 1 \in Nat
      /\ q.left # 0 => Less(q.left) = q.left - 1
      /\ q.rpc # 0 => Less(q.rpc) = q.rpc - 1
  BY <1>1, Numbers DEF Less, Timer
<1> DEFINE redis == IF q.op \in RedisOps THEN q.redis + 1 ELSE q.redis
<1>12. redis \in Nat
  BY <1>1
<1>13. x = [q EXCEPT !.left = IF @ = Unlimited THEN @ ELSE Less(@),
                     !.rpc = Less(@), !.age = @ + 1, !.redis = redis]
  OBVIOUS
<1> HIDE DEF redis
<1>3. /\ x \in Request /\ x.kind = q.kind /\ x.op = q.op /\ x.sent = q.sent
      /\ x.left = (IF q.left = Unlimited THEN q.left ELSE Less(q.left))
      /\ x.rpc = Less(q.rpc) /\ x.age = q.age + 1
      /\ x.redis = redis
  BY <1>1, <1>2, <1>12, <1>13 DEF Request
<1>4. q.op \notin RedisOps => q.left # 0
  BY <1>1, Numbers DEF AgeOK, Timer, Request
<1>5. q.op \in Ops => q.rpc <= q.left /\ x.rpc <= x.left
  BY <1>1, <1>2, <1>3, <1>4, Numbers DEF AgeOK, Timer, Ops, RedisOps
<1>6. q.op \notin RedisOps /\ q.left # Unlimited => x.left # Unlimited /\ x.age + x.left = q.age + q.left
  BY <1>1, <1>2, <1>3, <1>4, Numbers DEF Timer
<1>7. q.op \in Ops => x.age + x.rpc = q.age + q.rpc
  BY <1>1, <1>2, <1>3, Numbers DEF Timer
<1>8. q.op \in RedisOps => x.age = q.age + 1 /\ x.redis = q.redis + 1
  BY <1>3 DEF redis
<1>9. q.op \notin RedisOps => x.redis = q.redis
  BY <1>3 DEF redis
<1>10. q.op \in RedisOps => AgeOK(x)
  BY <1>1, <1>3, <1>8, Numbers DEF AgeOK, Ops, RedisOps
<1>11. q.op \notin RedisOps => AgeOK(x)
  BY <1>3, <1>5, <1>6, <1>7, <1>9 DEF AgeOK, Ops, RedisOps
<1> QED
  BY <1>3, <1>10, <1>11

\* Time passes.
LEMMA TickStep ==
  ASSUME CallsInv, Tick
  PROVE  CallsInv'
<1>1. up' = up /\ oai' = oai /\ drain' = Less(drain)
      /\ since' = IF up \in {"draining", "stopping"} THEN since + 1 ELSE since
  BY DEF Tick
<1>2. drain \in 0 .. ShutdownTimeout /\ since \in Nat
  BY DEF CallsInv, TypeOK
<1>3. Less(drain) \in 0 .. ShutdownTimeout /\ (drain # 0 => Less(drain) = drain - 1)
  BY <1>2, Numbers DEF Less
<1>4. up = "draining" => drain # 0
  BY DEF Tick, ForceDue
<1>5. up # "stopping"
  <2> SUFFICES ASSUME up = "stopping" PROVE FALSE
    OBVIOUS
  <2>1. PICK r \in Requests : srv[r].at # "none"
    BY DEF Tick, StopDue, AllReturned, Handling
  <2>2. srv[r].canceled /\ srv[r].at \in {"http", "sleep"}
    BY <2>1 DEF CallsInv, TypeOK, SlotOK, DrainOK, Handler
  <2> QED
    BY <2>2 DEF Tick, RequestDue, HttpDue, CancelDue
<1>6. StopInv'
  BY <1>1, <1>2, <1>3, <1>4, <1>5, Numbers DEF CallsInv, StopInv
<1>7. ASSUME NEW r \in Requests
      PROVE  /\ req'[r] \in Request /\ srv'[r] \in Handler /\ SlotOK(req[r], srv[r])'
  <2>1. SlotOK(req[r], srv[r]) /\ req[r] \in Request /\ srv[r] \in Handler
    BY DEF CallsInv, TypeOK
  <2>2. req[r].op # "none" =>
          (req[r].op \in Ops => req[r].rpc # 0) /\ (req[r].op = "store" => req[r].left # 0)
    BY DEF Tick, RequestDue, Calling
  <2>3. req'[r] \in Request /\ AgeOK(req'[r]) /\ req'[r].op = req[r].op
        /\ req'[r].sent = req[r].sent
    <3>1. CASE req[r].op = "none"
      BY <2>1, <3>1 DEF Tick, SlotOK
    <3>2. CASE req[r].op # "none"
      <4>1. req'[r] = [req[r] EXCEPT !.left = IF @ = Unlimited THEN @ ELSE Less(@),
                                     !.rpc = Less(@), !.age = @ + 1,
                                     !.redis = IF req[r].op \in RedisOps THEN @ + 1 ELSE @]
        BY <3>2 DEF Tick, InRedis
      <4> QED
        BY <2>1, <2>2, <3>2, <4>1, TickRequest DEF SlotOK
    <3> QED
      BY <3>1, <3>2
  <2>4. srv'[r] = [srv[r] EXCEPT !.timer = Less(srv[r].timer)]
    BY DEF Tick
  <2>5. srv[r].timer \in Nat
    BY <2>1 DEF Handler
  <2>6. Less(srv[r].timer) \in Nat /\ Less(srv[r].timer) <= srv[r].timer
        /\ (srv[r].timer # 0 => Less(srv[r].timer) = srv[r].timer - 1)
    BY <2>5 DEF Less
  <2>7. srv'[r] \in Handler /\ srv'[r].at = srv[r].at /\ srv'[r].canceled = srv[r].canceled
        /\ srv'[r].timer = Less(srv[r].timer)
    BY <2>1, <2>4, <2>6 DEF Handler
  <2>8. HandlerOK(req'[r], srv'[r])
    BY <2>1, <2>3, <2>5, <2>6, <2>7, Numbers DEF SlotOK, HandlerOK
  <2>9. DrainOK(req[r], srv[r])'
    <3>1. ASSUME up = "draining", req[r].op \in Ops, req[r].sent, req[r].op # "poll"
          PROVE  Less(srv[r].timer) < Less(drain)
      <4>1. srv[r].at = "http"
        BY <2>1, <3>1 DEF SlotOK, HandlerOK, Handler
      <4>2. srv[r].timer # 0
        BY <4>1 DEF Tick, RequestDue, HttpDue
      <4>3. srv[r].timer < drain
        BY <2>1, <3>1 DEF SlotOK, DrainOK
      <4> QED
        BY <1>2, <1>3, <1>4, <2>5, <2>6, <3>1, <4>2, <4>3
    <3> QED
      BY <1>1, <2>1, <2>3, <2>7, <3>1 DEF SlotOK, DrainOK
  <2> QED
    BY <2>3, <2>7, <2>8, <2>9 DEF SlotOK, HandlerOK, AgeOK
<1>8. req' \in [Requests -> Request] /\ srv' \in [Requests -> Handler]
  <2>1. req' = [r \in Requests |-> req'[r]] /\ srv' = [r \in Requests |-> srv'[r]]
    BY DEF Tick
  <2> QED
    BY <1>7, <2>1
<1>9. TypeOK'
  BY <1>1, <1>2, <1>3, <1>8 DEF CallsInv, TypeOK
<1> QED
  BY <1>6, <1>7, <1>9 DEF CallsInv

\* The invariant of the calls at the start.
LEMMA CallsInit == Init => CallsInv
<1> SUFFICES ASSUME Init PROVE CallsInv
  OBVIOUS
<1>1. TypeOK /\ StopInv
  <2>1. drain \in 0 .. ShutdownTimeout /\ since \in Nat /\ up = "down"
    BY Numbers DEF Init
  <2>2. oai \in BOOLEAN
    BY DEF Init
  <2>3. req \in [Requests -> Request] /\ srv \in [Requests -> Handler]
    BY EmptySlot DEF Init
  <2> QED
    BY <2>1, <2>2, <2>3 DEF TypeOK, StopInv
<1>2. ASSUME NEW r \in Requests PROVE SlotOK(req[r], srv[r])
  <2>1. req[r] = NoRequest /\ srv[r] = NoHandler
    BY DEF Init
  <2> QED
    BY <2>1, EmptySlot
<1> QED
  BY <1>1, <1>2 DEF CallsInv

\* Every step of UpstreamCalls.
LEMMA CallsNext ==
  ASSUME CallsInv, [Next]_vars
  PROVE  CallsInv'
<1>1. CASE \E r \in Requests : Arrival(r) \/ CallStep(r)
  BY <1>1, ArrivalStep, CallStepInv
<1>2. CASE ClientsLeave(Active)
  BY <1>2, ClientsLeaveStep
<1>3. CASE Process
  BY <1>3, ProcessStep, CutStep DEF Process
<1>4. CASE Tick
  BY <1>4, TickStep
<1>5. CASE UNCHANGED vars
  BY <1>5 DEF vars, CallsInv, TypeOK, StopInv, SlotOK, HandlerOK, AgeOK, DrainOK
<1> QED
  BY <1>1, <1>2, <1>3, <1>4, <1>5 DEF Next

-----------------------------------------------------------------------------
(* The answers.                                                            *)

\* What AnswerIsJust asks of one answer.
Just(status, why) ==
  /\ status = 400 => why \in Blamed
  /\ status = 504 => why = "time"
  /\ status = 503 => why \notin Blamed \cup {"bad"}
  /\ status = 200 <=> why = "ok"

\* The codes that an event may come back as from a call.
Caused(op, code, why) ==
  \/ code = "DeadlineExceeded" /\ why = "time"
  \/ code = "FailedPrecondition" /\ why = "unconfigured"
  \/ code = "InvalidArgument" /\ why = "blank" /\ op = "exchange"
  \/ code = "Unavailable" /\ why = "shutdown"
  \/ why \in Outcomes(op) \ {"ok", "pending"} /\ code \in ServerCodes(op, why)

\* The tables from codes to errors to statuses blame the right one.
LEMMA StatusIsJust ==
  ASSUME NEW kind, NEW op \in Ops, NEW code, NEW why, Caused(op, code, why)
  PROVE  Just(FailureStatus(kind, op, code), why)
<1>1. CASE op \in {"code", "poll"}
  <2>1. FailureStatus(kind, op, code) = deviceFlowErrorResponse(deviceFlowError(code))
    BY <1>1 DEF FailureStatus
  <2>2. \/ code = "DeadlineExceeded" /\ why = "time"
        \/ code = "FailedPrecondition" /\ why \in {"unconfigured", "forbidden"}
        \/ code = "Unavailable" /\ why \in {"shutdown", "outage"}
        \/ code = "Unauthenticated" /\ why = "rejected"
        \/ code = "Internal" /\ why = "bad"
    BY <1>1 DEF Caused, Outcomes, ServerCodes, deviceHTTPError
  <2> QED
    BY <2>1, <2>2 DEF Just, Blamed, deviceFlowErrorResponse, deviceFlowError
<1>2. CASE op = "exchange"
  <2>1. FailureStatus(kind, op, code) = ExchangeStatus(ExchangeError(code))
    BY <1>2 DEF FailureStatus
  <2>2. \/ code = "DeadlineExceeded" /\ why = "time"
        \/ code = "FailedPrecondition" /\ why = "unconfigured"
        \/ code = "InvalidArgument" /\ why = "blank"
        \/ code = "Unavailable" /\ why \in {"shutdown", "outage"}
        \/ code = "Unauthenticated" /\ why = "rejected"
        \/ code = "Internal" /\ why = "bad"
    BY <1>2 DEF Caused, Outcomes, ServerCodes, exchangeErrorCode
  <2> QED
    BY <2>1, <2>2 DEF Just, Blamed, ExchangeStatus, ExchangeError
<1>3. CASE op = "refresh"
  <2>1. FailureStatus(kind, op, code) = RefreshStatus(RefreshError(code))
    BY <1>3 DEF FailureStatus
  <2>2. \/ code = "DeadlineExceeded" /\ why = "time"
        \/ code = "FailedPrecondition" /\ why = "unconfigured"
        \/ code = "Unavailable" /\ why \in {"shutdown", "outage"}
        \/ code = "Unauthenticated" /\ why = "rejected"
        \/ code = "Internal" /\ why = "bad"
    BY <1>3 DEF Caused, Outcomes, ServerCodes, exchangeErrorCode
  <2> QED
    BY <2>1, <2>2 DEF Just, Blamed, RefreshStatus, RefreshError
<1>4. CASE op = "verify"
  <2>1. FailureStatus(kind, op, code) = VerifyStatus(kind, providerError(code))
    BY <1>4 DEF FailureStatus
  <2>2. \/ code = "DeadlineExceeded" /\ why = "time"
        \/ code = "FailedPrecondition" /\ why = "unconfigured"
        \/ code = "Unavailable" /\ why \in {"shutdown", "outage"}
        \/ code = "Unauthenticated" /\ why \in {"rejected", "bad", "outage"}
    BY <1>4 DEF Caused, Outcomes, ServerCodes, VerifierCode
  <2>3. \/ VerifyStatus(kind, providerError(code)) = 502
        \/ code # "Unauthenticated" /\ VerifyStatus(kind, providerError(code)) = 503
    BY <2>2 DEF VerifyStatus, providerError, RefreshStatus
  <2> QED
    BY <2>1, <2>2, <2>3 DEF Just, Blamed
<1> QED
  BY <1>1, <1>2, <1>3, <1>4 DEF Ops

\* A failed call is answered justly.
LEMMA FailIsJust ==
  ASSUME NEW r \in Requests, Calling(r), NEW code, NEW why, Caused(req[r].op, code, why),
         Fail(r, code, why)
  PROVE  AnswerIsJust'
<1>1. Just(FailureStatus(req[r].kind, req[r].op, code), why)
  BY StatusIsJust DEF Calling
<1> QED
  BY <1>1 DEF Fail, Answered, Just, AnswerIsJust

\* The requests that a stop cuts are told so.
LEMMA CutIsJust ==
  ASSUME CallsInv, CutCalls
  PROVE  AnswerIsJust'
<1>1. ASSUME NEW r \in Requests, Calling(r)
      PROVE  Just(FailureStatus(req[r].kind, req[r].op, "Unavailable"), "shutdown")
  BY <1>1, StatusIsJust DEF Calling, Caused
<1>2. ASSUME NEW a \in answers' PROVE Just(a.status, a.why)
  <2>1. PICK r \in Requests :
          /\ Calling(r)
          /\ a = [status |-> FailureStatus(req[r].kind, req[r].op, "Unavailable"),
                  why |-> "shutdown"]
    BY <1>2 DEF CutCalls
  <2> QED
    BY <1>1, <2>1
<1> QED
  BY <1>2 DEF AnswerIsJust, Just

\* Every step answers justly.
LEMMA AnswersNext ==
  ASSUME CallsInv, AnswerIsJust, [Next]_vars
  PROVE  AnswerIsJust'
<1>1. Silent => AnswerIsJust'
  BY DEF Silent, AnswerIsJust
<1>2. ASSUME NEW r \in Requests, Answered(r, 200, "ok") \/ Answered(r, 500, "store")
                                 \/ Answered(r, 500, "time")
                                 \/ Answered(r, 504, "time") \/ Answered(r, 500, "redis")
                                 \/ Answered(r, 400, "flow") \/ Answered(r, 400, "denied")
      PROVE  AnswerIsJust'
  BY <1>2 DEF Answered, AnswerIsJust, Blamed
<1>3. ASSUME NEW r \in Requests, Arrival(r) PROVE AnswerIsJust'
  BY <1>1, <1>3 DEF Arrival, Callback, LoginDeviceFlow, CallbackDeviceFlow, RefreshToken, Arrive
<1>4. ASSUME NEW r \in Requests, Dispatch(r) PROVE AnswerIsJust'
  BY <1>1, <1>4, FailIsJust DEF Dispatch, Caused
<1>5. ASSUME NEW r \in Requests, Refused(r) PROVE AnswerIsJust'
  BY <1>5, FailIsJust DEF Refused, Caused
<1>6. ASSUME NEW r \in Requests, HttpEnds(r) PROVE AnswerIsJust'
  <2>1. Calling(r)
    BY <1>6, LiveHandler DEF HttpEnds
  <2>2. CASE Proceed(r)
    <3>1. Silent \/ Answered(r, 200, "ok")
      BY <2>1, <2>2 DEF Proceed, Calling, Ops
    <3> QED
      BY <1>1, <1>2, <3>1
  <2>3. CASE ~Proceed(r)
    <3>1. PICK outcome \in Outcomes(req[r].op) \ {"pending"} :
            \E code \in ServerCodes(req[r].op, outcome) :
              code # "OK" /\ Fail(r, code, outcome)
      BY <1>6, <2>3 DEF HttpEnds
    <3>2. PICK code \in ServerCodes(req[r].op, outcome) :
            code # "OK" /\ Fail(r, code, outcome)
      BY <3>1
    <3>3. outcome # "ok"
      BY <3>2 DEF ServerCodes
    <3>4. Caused(req[r].op, code, outcome)
      BY <3>2, <3>3 DEF Caused
    <3> QED
      BY <2>1, <3>2, <3>4, FailIsJust
  <2> QED
    BY <2>2, <2>3
<1>7. ASSUME NEW r \in Requests, PollPending(r) \/ PollWakes(r) \/ ClientsLeave({r})
      PROVE AnswerIsJust'
  BY <1>1, <1>7 DEF PollPending, PollWakes, ClientsLeave
<1>16. ASSUME NEW r \in Requests, FlowTaken(r) \/ FlowRefused(r) \/ FlowKept(r)
                                  \/ RedisFails(r) \/ RedisTimesOut(r)
      PROVE  AnswerIsJust'
  BY <1>1, <1>2, <1>16 DEF FlowTaken, FlowRefused, FlowKept, RedisFails, RedisTimesOut
<1>8. ASSUME NEW r \in Requests, StoreEnds(r) \/ StoreDeadline(r) PROVE AnswerIsJust'
  BY <1>2, <1>8 DEF StoreEnds, StoreDeadline
<1>9. ASSUME NEW r \in Requests, ClientDeadline(r) PROVE AnswerIsJust'
  BY <1>9, FailIsJust DEF ClientDeadline, Caused
<1>10. ASSUME NEW r \in Requests, HttpTimesOut(r) \/ PollCanceled(r) PROVE AnswerIsJust'
  <2>1. srv[r].at # "none"
    BY <1>10 DEF HttpTimesOut, PollCanceled, HttpDue, CancelDue
  <2>2. CASE srv[r].canceled
    BY <1>1, <1>10, <2>2 DEF HttpTimesOut, PollCanceled
  <2>3. CASE ~srv[r].canceled
    BY <1>10, <2>1, <2>3, LiveHandler, FailIsJust DEF HttpTimesOut, PollCanceled, Caused
  <2> QED
    BY <2>2, <2>3
<1>11. CASE ClientsLeave(Active) \/ Tick
  BY <1>1, <1>11 DEF ClientsLeave, Tick
<1>12. CASE Run \/ StartFails \/ Serve \/ StopSignal \/ Stopped
  BY <1>1, <1>12 DEF Run, StartFails, Serve, StopSignal, Stopped, UpOnly
<1>13. CASE ForceStop \/ Crash
  BY <1>13, CutIsJust DEF ForceStop, Crash
<1>14. CASE UNCHANGED vars
  BY <1>14 DEF vars, AnswerIsJust
<1>15. ASSUME NEW r \in Requests, CallStep(r) PROVE AnswerIsJust'
  BY <1>4, <1>5, <1>6, <1>7, <1>8, <1>9, <1>10, <1>15, <1>16 DEF CallStep, Due
<1> QED
  BY <1>3, <1>11, <1>12, <1>13, <1>14, <1>15 DEF Next, Process

-----------------------------------------------------------------------------
(* The API.                                                                *)

\* A step of the upstream service or of its calls that leaves the API alone.
LEMMA CallsKeepApi ==
  ASSUME DeploymentInv, CallsInv', UNCHANGED apiVars,
         api # "serving" => \A r \in Requests : req'[r].op = "none"
  PROVE  DeploymentInv'
<1>1. api' = api /\ policy' = policy /\ enforced' = enforced /\ seed' = seed
  BY DEF apiVars
<1>2. NoOrphans'
  <2>1. \A r \in Requests : req'[r].op = "none" => (srv'[r].at # "none" => srv'[r].canceled)
    BY DEF CallsInv, SlotOK, HandlerOK, Ops
  <2> QED
    BY <1>1, <2>1 DEF NoOrphans, Handling
<1>3. EnforcerOK' /\ \A role \in Roles : SeedOK(role)'
  BY <1>1 DEF DeploymentInv, EnforcerOK, SeedOK
<1> QED
  BY <1>1, <1>2, <1>3 DEF DeploymentInv

\* The calls of an API that does not serve stay ended.
LEMMA NoNewCalls ==
  ASSUME DeploymentInv, api # "serving", (\E r \in Requests : CallStep(r)) \/ Process \/ Tick
  PROVE  \A r \in Requests : req'[r].op = "none"
<1>1. \A r \in Requests : req[r].op = "none" /\ (srv[r].at # "none" => srv[r].canceled)
  BY DEF DeploymentInv, NoOrphans, Handling
<1>2. CASE Process
  <2>1. CASE Run \/ StartFails \/ Serve \/ StopSignal \/ Stopped
    BY <1>1, <2>1 DEF Run, StartFails, Serve, StopSignal, Stopped, UpOnly
  <2>2. CASE ForceStop \/ Crash
    BY <1>1, <2>2 DEF ForceStop, Crash, CutCalls, Calling, Ops
  <2> QED
    BY <1>2, <2>1, <2>2 DEF Process
<1>3. CASE Tick
  BY <1>1, <1>3 DEF Tick
<1>4. ASSUME NEW r \in Requests, CallStep(r) PROVE req' = req
  <2>1. ~Calling(r) /\ ~InRedis(r) /\ req[r].op \notin {"store", "pop", "keep"} /\ r \notin Active
    BY <1>1 DEF Calling, InRedis, Ops, RedisOps, Active
  <2>2. CASE HttpEnds(r) \/ PollPending(r) \/ PollWakes(r) \/ HttpTimesOut(r) \/ PollCanceled(r)
    BY <1>1, <2>2 DEF HttpEnds, PollPending, PollWakes, HttpTimesOut, PollCanceled, HttpDue,
       CancelDue
  <2>3. CASE ClientsLeave({r})
    BY <2>1, <2>3 DEF ClientsLeave
  <2> QED
    BY <1>4, <2>1, <2>2, <2>3 DEF CallStep, Due, Dispatch, Refused, StoreEnds, ClientDeadline,
       StoreDeadline, FlowTaken, FlowRefused, FlowKept, RedisFails, RedisTimesOut
<1> QED
  BY <1>1, <1>2, <1>3, <1>4

\* A process that exits forgets its enforcer; the table stays.
LEMMA ExitFacts ==
  ASSUME DeploymentInv, Exit
  PROVE  /\ api' = "down" /\ policy' = policy
         /\ enforced' \in [Roles -> SUBSET Permissions]
         /\ seed' \in [Roles -> {"todo", "cleared", "done"}]
         /\ EnforcerOK' /\ \A role \in Roles : SeedOK(role)'
  BY DEF Exit, NoPolicies, Unseeded, EnforcerOK, SeedOK

\* A statement of the seeding loop.
LEMMA SeedStep ==
  ASSUME DeploymentInv, NEW role \in Roles,
         Skip(role) \/ DeletePermissionsForUser(role) \/ AddPermissionForUser(role)
  PROVE  /\ api = "seed" /\ api' = "seed"
         /\ policy' \in [Roles -> SUBSET Permissions] /\ enforced' = policy'
         /\ seed' \in [Roles -> {"todo", "cleared", "done"}]
         /\ \A other \in Roles : SeedOK(other)'
<1>1. /\ policy \in [Roles -> SUBSET Permissions] /\ seed \in [Roles -> {"todo", "cleared", "done"}]
      /\ \A other \in Roles : SeedOK(other)
  BY DEF DeploymentInv
<1>2. api = "seed" /\ api' = "seed" /\ enforced = policy
  BY DEF Skip, DeletePermissionsForUser, AddPermissionForUser, TakesUp, DeploymentInv, EnforcerOK
<1>3. CASE Skip(role)
  BY <1>1, <1>2, <1>3 DEF Skip, Seeded, SeedOK
<1>4. CASE DeletePermissionsForUser(role)
  BY <1>1, <1>2, <1>4 DEF DeletePermissionsForUser, SeedOK
<1>5. CASE AddPermissionForUser(role)
  <2>1. policy[role] = {}
    BY <1>1, <1>5 DEF AddPermissionForUser, SeedOK
  <2>2. policy' = [policy EXCEPT ![role] = {"dashboard"}]
    BY <1>5, <2>1 DEF AddPermissionForUser
  <2>3. enforced' = policy'
    BY <1>2, <1>5 DEF AddPermissionForUser
  <2>4. seed' = [seed EXCEPT ![role] = "done"]
    BY <1>5 DEF AddPermissionForUser
  <2> QED
    BY <1>1, <1>2, <2>2, <2>3, <2>4 DEF SeedOK, Permissions
<1> QED
  BY <1>3, <1>4, <1>5

\* The other steps of the start leave the table alone.
LEMMA AdvanceStep ==
  ASSUME DeploymentInv,
         \/ loadAPIConfiguration \/ ConnectDatabase \/ ConnectRedis \/ createBootstrapUser
         \/ newEnforcer \/ SeedDefaultPolicies \/ NewClient \/ NewRemoteOIDCAuth \/ Listen
  PROVE  /\ api # "serving" /\ api' \in Stages \cup {"serving"}
         /\ policy' = policy
         /\ enforced' \in [Roles -> SUBSET Permissions]
         /\ seed' \in [Roles -> {"todo", "cleared", "done"}]
         /\ EnforcerOK' /\ \A role \in Roles : SeedOK(role)'
<1>1. /\ policy \in [Roles -> SUBSET Permissions] /\ seed \in [Roles -> {"todo", "cleared", "done"}]
      /\ enforced \in [Roles -> SUBSET Permissions]
      /\ EnforcerOK /\ \A role \in Roles : SeedOK(role)
  BY DEF DeploymentInv
<1>2. CASE newEnforcer
  BY <1>1, <1>2 DEF newEnforcer, Advance, Stages, Unseeded, EnforcerOK, SeedOK
<1>3. ASSUME UNCHANGED enforcerVars PROVE \A role \in Roles : SeedOK(role)'
  BY <1>1, <1>3 DEF enforcerVars, SeedOK
<1>4. CASE loadAPIConfiguration \/ ConnectDatabase \/ ConnectRedis \/ createBootstrapUser
  BY <1>1, <1>3, <1>4 DEF loadAPIConfiguration, ConnectDatabase, ConnectRedis,
     createBootstrapUser, Advance, Stages, EnforcerOK, enforcerVars
<1>5. CASE SeedDefaultPolicies
  BY <1>1, <1>3, <1>5 DEF SeedDefaultPolicies, Advance, Stages, EnforcerOK, enforcerVars
<1>6. CASE NewClient \/ NewRemoteOIDCAuth \/ Listen
  BY <1>1, <1>3, <1>6 DEF NewClient, NewRemoteOIDCAuth, Listen, Advance, Stages, EnforcerOK,
     enforcerVars
<1> QED
  BY <1>2, <1>4, <1>5, <1>6

\* A step of the start, or its end.
LEMMA StartStep ==
  ASSUME DeploymentInv, ApiStarts \/ StartAborted, UNCHANGED vars
  PROVE  DeploymentInv'
<1>1. CallsInv' /\ req' = req /\ srv' = srv
  BY CallsNext DEF DeploymentInv, vars
<1>2. /\ api # "serving" /\ api' \in Stages \cup {"down", "serving"}
      /\ policy' \in [Roles -> SUBSET Permissions]
      /\ enforced' \in [Roles -> SUBSET Permissions]
      /\ seed' \in [Roles -> {"todo", "cleared", "done"}]
      /\ EnforcerOK' /\ \A role \in Roles : SeedOK(role)'
  <2>1. CASE StartAborted
    BY <2>1, ExitFacts DEF StartAborted, Stages, DeploymentInv
  <2>2. CASE \E role \in Roles :
               Skip(role) \/ DeletePermissionsForUser(role) \/ AddPermissionForUser(role)
    BY <2>2, SeedStep DEF Stages, EnforcerOK
  <2>3. CASE \/ loadAPIConfiguration \/ ConnectDatabase \/ ConnectRedis \/ createBootstrapUser
             \/ newEnforcer \/ SeedDefaultPolicies \/ NewClient \/ NewRemoteOIDCAuth \/ Listen
    BY <2>3, AdvanceStep DEF DeploymentInv
  <2> QED
    BY <2>1, <2>2, <2>3 DEF ApiStarts
<1>3. NoOrphans'
  BY <1>1, <1>2 DEF DeploymentInv, NoOrphans, Handling
<1> QED
  BY <1>1, <1>2, <1>3 DEF DeploymentInv

\* The API dies.
LEMMA KillStep ==
  ASSUME DeploymentInv, Kill
  PROVE  DeploymentInv' /\ [Next]_vars
<1>1. [Next]_vars
  BY DEF Kill, Next
<1>2. CallsInv'
  BY <1>1, CallsNext DEF DeploymentInv
<1>3. ASSUME NEW r \in Requests PROVE req'[r].op = "none"
  <2>1. CASE Active = {}
    BY <2>1 DEF Kill, Active, vars
  <2>2. CASE Active # {}
    BY <2>2 DEF Kill, ClientsLeave, Active, NoRequest
  <2> QED
    BY <2>1, <2>2
<1>4. \A r \in Requests : srv'[r].at # "none" => srv'[r].canceled
  BY <1>2, <1>3 DEF CallsInv, SlotOK, HandlerOK, Ops
<1>5. NoOrphans'
  BY <1>3, <1>4 DEF NoOrphans, Handling
<1> QED
  BY <1>1, <1>2, <1>5, ExitFacts DEF DeploymentInv, Kill

\* Every step of the deployment is one of the calls, or leaves them alone.
LEMMA DeploymentStep ==
  ASSUME DeploymentInv, [DeploymentNext]_deploymentVars
  PROVE  DeploymentInv' /\ [Next]_vars
<1>1. CASE (ApiStarts \/ StartAborted) /\ UNCHANGED vars
  BY <1>1, StartStep
<1>2. CASE Kill
  BY <1>2, KillStep
<1>3. CASE api = "serving" /\ (\E r \in Requests : Arrival(r)) /\ UNCHANGED apiVars
  BY <1>3, CallsKeepApi, CallsNext DEF DeploymentInv, Next
<1>4. CASE ((\E r \in Requests : CallStep(r)) \/ Process \/ Tick) /\ UNCHANGED apiVars
  BY <1>4, CallsKeepApi, CallsNext, NoNewCalls DEF DeploymentInv, Next
<1>5. CASE UNCHANGED deploymentVars
  <2>1. UNCHANGED vars /\ UNCHANGED apiVars
    BY <1>5 DEF deploymentVars
  <2>2. CallsInv'
    BY <2>1, CallsNext DEF DeploymentInv
  <2>3. api # "serving" => \A r \in Requests : req'[r].op = "none"
    BY <2>1 DEF vars, DeploymentInv, NoOrphans
  <2> QED
    BY <2>1, <2>2, <2>3, CallsKeepApi
<1> QED
  BY <1>1, <1>2, <1>3, <1>4, <1>5 DEF DeploymentNext

-----------------------------------------------------------------------------
(* The theorems.                                                           *)

\* The inductive invariant of the deployment holds in every state.
THEOREM DeploymentInvariance == DeploymentSpec => []DeploymentInv
<1>1. DeploymentInit => DeploymentInv
  <2> SUFFICES ASSUME DeploymentInit PROVE DeploymentInv
    OBVIOUS
  <2>1. CallsInv
    BY CallsInit DEF DeploymentInit
  <2>2. \A r \in Requests : req[r].op = "none" /\ srv[r].at = "none"
    BY DEF DeploymentInit, Init, NoRequest, NoHandler
  <2>3. /\ api = "down" /\ policy \in [Roles -> SUBSET Permissions]
        /\ enforced \in [Roles -> SUBSET Permissions]
        /\ seed \in [Roles -> {"todo", "cleared", "done"}]
        /\ \A role \in Roles : seed[role] = "todo"
    BY DEF DeploymentInit, NoPolicies, Unseeded
  <2>4. NoOrphans
    BY <2>2 DEF NoOrphans, Handling
  <2>5. EnforcerOK /\ \A role \in Roles : SeedOK(role)
    BY <2>3 DEF EnforcerOK, SeedOK
  <2> QED
    BY <2>1, <2>3, <2>4, <2>5 DEF DeploymentInv
<1>2. DeploymentInv /\ [DeploymentNext]_deploymentVars => DeploymentInv'
  BY DeploymentStep
<1> QED
  BY <1>1, <1>2, PTL DEF DeploymentSpec

\* The gateway waits longer than any OAuth request can take to which Redis is
\* fast enough (the response header timeouts of the gateway, 30 s and 16 min,
\* against the deadlines of the handlers and whatever PopFlow, popDeviceFlow and
\* storeDeviceFlow spend in Redis before them or after).
THEOREM GatewayWaitsLongest == DeploymentSpec => []GatewayOutwaits
<1>1. DeploymentInv => GatewayOutwaits
  <2> SUFFICES ASSUME DeploymentInv, NEW r \in Requests, req[r].op # "none",
                      req[r].redis <= RedisSlack
               PROVE  req[r].age < ResponseHeaderTimeout(req[r].kind)
    BY DEF GatewayOutwaits
  <2> DEFINE q == req[r]
  <2>1. q \in Request /\ AgeOK(q)
    BY DEF DeploymentInv, CallsInv, TypeOK, SlotOK
  <2>2. q.age \in Nat /\ q.left \in Nat /\ q.rpc \in Nat /\ q.redis \in Nat
        /\ q.kind \in Kinds /\ q.redis <= RedisSlack
    BY <2>1, Numbers DEF Request, Timer, AgeOK
  <2>3. q.kind = "device" => q.age <= q.redis + PollLimit
    BY <2>1, <2>2, Numbers DEF AgeOK
  <2>4. q.kind # "device" => q.age <= q.redis + ClientTimeout + ServiceTimeout
    BY <2>1, <2>2, Numbers DEF AgeOK, Kinds, RedisOps
  <2> HIDE DEF q
  <2>5. q.age < ResponseHeaderTimeout(q.kind)
    BY <2>2, <2>3, <2>4, Numbers, TimeoutAssumptions DEF TimeoutAssumptions,
       ResponseHeaderTimeout
  <2> QED
    BY <2>5 DEF q
<1> QED
  BY <1>1, DeploymentInvariance, PTL

\* A stop of the upstream service ends in time and cuts nothing but polls
\* (GracefulStop and the forced Stop of Serve).
THEOREM StopsAreClean == DeploymentSpec => []StopIsClean
<1>1. DeploymentInv => StopIsClean
  <2> SUFFICES ASSUME DeploymentInv PROVE StopIsClean
    OBVIOUS
  <2>1. up \in {"draining", "stopping"} => since <= ShutdownTimeout
    BY Numbers DEF DeploymentInv, CallsInv, TypeOK, StopInv
  <2>2. ASSUME ForceDue, NEW r \in Requests, Calling(r), req[r].sent PROVE req[r].op = "poll"
    <3>1. srv[r].timer \in Nat
      BY DEF DeploymentInv, CallsInv, TypeOK, Handler
    <3> QED
      BY <2>2, <3>1 DEF ForceDue, Calling, DeploymentInv, CallsInv, SlotOK, DrainOK
  <2> QED
    BY <2>1, <2>2 DEF StopIsClean
<1> QED
  BY <1>1, DeploymentInvariance, PTL

\* The status of an OAuth request names the true cause (exchangeErrorCode, the
\* errors of the Directory, the handlers' switches).
THEOREM AnswersAreJust == DeploymentSpec => []AnswerIsJust
<1>1. DeploymentInit => AnswerIsJust
  BY DEF DeploymentInit, Init, AnswerIsJust
<1>2. DeploymentInv /\ AnswerIsJust /\ [DeploymentNext]_deploymentVars => AnswerIsJust'
  BY DeploymentStep, AnswersNext DEF DeploymentInv
<1> QED
  BY <1>1, <1>2, DeploymentInvariance, PTL DEF DeploymentSpec

\* An API that serves has the permissions of its version, whatever it found
\* (the seeding loop of SeedDefaultPolicies and its error returns).
THEOREM PoliciesAreExact == DeploymentSpec => []ServesExactPolicies
<1>1. DeploymentInv => ServesExactPolicies
  BY DEF DeploymentInv, EnforcerOK, SeedOK, ServesExactPolicies
<1> QED
  BY <1>1, DeploymentInvariance, PTL

\* Seen from the upstream service, an API that starts, fails and dies does
\* nothing that UpstreamCalls does not allow.
THEOREM DeploymentImplementsCalls == DeploymentSpec => Spec
<1>1. DeploymentInit => Init
  BY DEF DeploymentInit
<1>2. DeploymentInv /\ [DeploymentNext]_deploymentVars => [Next]_vars
  BY DeploymentStep
<1> QED
  BY <1>1, <1>2, DeploymentInvariance, PTL DEF DeploymentSpec, Spec
=============================================================================
