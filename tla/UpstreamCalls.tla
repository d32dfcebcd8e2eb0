---------------------------- MODULE UpstreamCalls ----------------------------
(***************************************************************************)
(* The OAuth requests of the API on their way to the provider, with their  *)
(* clocks: the gateway waits for the API, a handler runs under the         *)
(* deadlines of its flow and its service, every call of the Directory has  *)
(* a timeout of its own, the upstream server limits the HTTP request it    *)
(* makes, and a server that is told to stop drains its calls before it     *)
(* cuts them.  Every failure comes back as a gRPC code, becomes an error   *)
(* of the Directory and then an HTTP status.                               *)
(*                                                                         *)
(* Time is a count of ticks left on every timer.  Time passes only when no *)
(* timer that has run out is still waiting for its reaction.               *)
(*                                                                         *)
(* What the requests store, and for whom, is in OAuthRefresh and           *)
(* OAuthLogin; chat streams are in ChatStream.                             *)
(***************************************************************************)
EXTENDS Naturals

CONSTANTS
  Requests,         \* slots in which the API serves OAuth requests
  RequestTimeout,   \* UPSTREAM_OAUTH_TIMEOUT: one HTTP request of the server
  ClientTimeout,    \* UPSTREAM_GRPC_TIMEOUT: one call of the Directory
  ServiceTimeout,   \* the 15 s of RefreshToken and SaveToken
  Interval,         \* the provider's polling interval
  PollLimit,        \* 15 min: the life of a device flow and of its poll
  ShutdownTimeout,  \* UPSTREAM_SHUTDOWN_TIMEOUT
  RedisLimit,       \* what go-redis lets the commands of a request take
  OrdinaryEdge,     \* the gateway's response header timeout
  DeviceEdge,       \* its timeout for a device completion, 16 min
  RedisSlack        \* what these timeouts leave a request for Redis

Timeouts == {RequestTimeout, ClientTimeout, ServiceTimeout, Interval, PollLimit,
             ShutdownTimeout, RedisLimit, OrdinaryEdge, DeviceEdge, RedisSlack}

\* The relations between the defaults of the configuration (8 s and 10 s,
\* 10 s + 15 s and 30 s, 15 min and 16 min), which leave Redis just under 5 s
\* and 1 min.  Nothing relates RedisLimit to them: the requests wait for Redis
\* without a deadline of their own, by the timeouts and retries of go-redis.
ASSUME TimeoutAssumptions ==
  /\ Timeouts \subseteq Nat \ {0}
  /\ RequestTimeout < ShutdownTimeout
  /\ RedisSlack + ClientTimeout + ServiceTimeout < OrdinaryEdge
  /\ RedisSlack + PollLimit < DeviceEdge

\* A context without a deadline: longer than every timeout.
Unlimited == PollLimit + ClientTimeout + ServiceTimeout + RequestTimeout

Lesser(x, y) == IF x <= y THEN x ELSE y

Kinds == {"callback", "device", "refresh", "logindevice"}
Ops == {"code", "poll", "exchange", "refresh", "verify"}
RedisOps == {"pop", "keep"}
Codes == {"OK", "InvalidArgument", "FailedPrecondition", "Unauthenticated",
          "Unavailable", "DeadlineExceeded", "Canceled", "Internal"}

VARIABLES
  up,      \* the upstream process: down, starting, serving, draining or stopping
  oai,     \* whether it was started with a configured provider
  drain,   \* ticks until the forced stop
  since,   \* ticks since the stop signal
  req,     \* request slot -> where the API's request stands
  srv,     \* request slot -> the server's handler of the request's call
  answers  \* the answers given in this step: status, and the event behind it

vars == <<up, oai, drain, since, req, srv, answers>>
upVars == <<up, oai, drain, since>>

\* A step that answers nobody.
Silent == answers' = {}

NoRequest == [kind |-> "none", op |-> "none", sent |-> FALSE,
              left |-> Unlimited,  \* ticks left of the deadlines of flow and service
              rpc |-> 0,           \* ticks left of the call
              redis |-> 0,         \* ticks spent in Redis
              age |-> 0]           \* ticks the gateway has waited
NoHandler == [at |-> "none", timer |-> 0, canceled |-> FALSE]

Active == {r \in Requests : req[r].op # "none"}
Calling(r) == req[r].op \in Ops
InRedis(r) == req[r].op \in RedisOps
Handling(r) == srv[r].at # "none"
AllReturned == \A r \in Requests : ~Handling(r)

Init ==
  /\ up = "down"
  /\ oai = FALSE
  /\ drain = 0
  /\ since = 0
  /\ req = [r \in Requests |-> NoRequest]
  /\ srv = [r \in Requests |-> NoHandler]
  /\ answers = {}

-----------------------------------------------------------------------------
(* From what happened to a gRPC code, a Directory error and a status.      *)

\* Mutant: whatever the provider's error is, the grant is blamed.
exchangeErrorCode_AllRejected(outcome) == {"Unauthenticated"}

\* The code of a token request that failed while its context was alive: only
\* invalid_grant is a refusal, 429 and 5xx and the network are an outage.
exchangeErrorCode(outcome) ==
  CASE outcome = "rejected" -> {"Unauthenticated"}
    [] outcome = "outage"   -> {"Unavailable"}
    [] outcome = "bad"      -> {"Internal"}

\* The verifier reports what it cannot classify as a bad token; whether it can
\* tell an outage of the key endpoint depends on how the library wraps it.
VerifierCode(outcome) ==
  CASE outcome = "outage" -> {"Unavailable", "Unauthenticated"}
    [] outcome \in {"rejected", "bad"} -> {"Unauthenticated"}

\* The status of a device endpoint.  403 and 404, while polling, only mean that
\* the approval is still missing.
deviceHTTPError(outcome) ==
  CASE outcome = "forbidden" -> {"FailedPrecondition"}
    [] outcome = "rejected"  -> {"Unauthenticated"}
    [] outcome = "outage"    -> {"Unavailable"}
    [] outcome = "bad"       -> {"Internal"}

Outcomes(op) == {"ok", "rejected", "outage", "bad"}
                \cup (IF op = "code" THEN {"forbidden"} ELSE {})
                \cup (IF op = "poll" THEN {"pending"} ELSE {})

ServerCodes(op, outcome) ==
  IF outcome = "ok" THEN {"OK"}
  ELSE CASE op \in {"exchange", "refresh"} -> exchangeErrorCode(outcome)
         [] op = "verify"                  -> VerifierCode(outcome)
         [] op \in {"code", "poll"}        -> deviceHTTPError(outcome)

\* The Directory's errors, call by call.
deviceFlowError(code) ==
  CASE code = "InvalidArgument"    -> "InvalidDeviceFlow"
    [] code = "FailedPrecondition" -> "ProviderUnavailable"
    [] code = "Unauthenticated"    -> "DeviceFlowRejected"
    [] code = "DeadlineExceeded"   -> "DeviceFlowTimeout"
    [] code = "Canceled"           -> "Canceled"
    [] code = "Unavailable"        -> "UpstreamUnavailable"
    [] OTHER                       -> "DeviceFlowFailed"

providerError(code) ==
  CASE code = "FailedPrecondition"                     -> "ProviderUnavailable"
    [] code \in {"InvalidArgument", "Unauthenticated"} -> "InvalidIDToken"
    [] code = "Canceled"                               -> "Canceled"
    [] OTHER                                           -> "UpstreamUnavailable"

ExchangeError(code) ==
  CASE code = "InvalidArgument"    -> "InvalidExchange"
    [] code = "FailedPrecondition" -> "ProviderUnavailable"
    [] code = "Unauthenticated"    -> "ExchangeRejected"
    [] code = "Unavailable"        -> "UpstreamUnavailable"
    [] code = "DeadlineExceeded"   -> "ExchangeTimeout"
    [] code = "Canceled"           -> "Canceled"
    [] OTHER                       -> "ExchangeFailed"

RefreshError(code) ==
  CASE code = "InvalidArgument"    -> "InvalidRefresh"
    [] code = "FailedPrecondition" -> "ProviderUnavailable"
    [] code = "Unauthenticated"    -> "RefreshRejected"
    [] code = "Unavailable"        -> "UpstreamUnavailable"
    [] code = "DeadlineExceeded"   -> "RefreshTimeout"
    [] code = "Canceled"           -> "Canceled"
    [] OTHER                       -> "RefreshFailed"

\* The handlers' statuses.
deviceFlowErrorResponse(err) ==
  CASE err \in {"InvalidDeviceFlow", "DeviceFlowRejected"}    -> 400
    [] err = "DeviceFlowTimeout"                              -> 504
    [] err = "Canceled"                                       -> 408
    [] err \in {"ProviderUnavailable", "UpstreamUnavailable"} -> 503
    [] OTHER                                                  -> 502

ExchangeStatus(err) ==
  CASE err \in {"InvalidExchange", "ExchangeRejected"}        -> 400
    [] err \in {"ProviderUnavailable", "UpstreamUnavailable"} -> 503
    [] err = "ExchangeTimeout"                                -> 504
    [] OTHER                                                  -> 502

RefreshStatus(err) ==
  CASE err \in {"InvalidRefresh", "RefreshRejected"}          -> 400
    [] err \in {"ProviderUnavailable", "UpstreamUnavailable"} -> 503
    [] err = "RefreshTimeout"                                 -> 504
    [] err = "Canceled"                                       -> 408
    [] err \in {"RefreshFailed", "InvalidIDToken"}            -> 502
    [] OTHER                                                  -> 500

\* SaveToken keeps an outage apart from a bad identity; a refresh does not.
VerifyStatus(kind, err) ==
  IF kind = "refresh" THEN RefreshStatus("InvalidIDToken")
  ELSE IF err \in {"UpstreamUnavailable", "ProviderUnavailable"} THEN 503 ELSE 502

FailureStatus(kind, op, code) ==
  CASE op \in {"code", "poll"} -> deviceFlowErrorResponse(deviceFlowError(code))
    [] op = "exchange"         -> ExchangeStatus(ExchangeError(code))
    [] op = "refresh"          -> RefreshStatus(RefreshError(code))
    [] op = "verify"           -> VerifyStatus(kind, providerError(code))

-----------------------------------------------------------------------------
(* The API's handlers.                                                     *)

\* q with the call op ahead of it: under the Directory's own timeout, and never
\* longer than the context of the request.
Call(q, op) ==
  [q EXCEPT !.op = op, !.sent = FALSE,
            !.rpc = Lesser(q.left, IF op = "poll" THEN PollLimit ELSE ClientTimeout)]

\* The gateway starts to wait for request q.
Arrive(r, q) ==
  /\ req[r].op = "none"
  /\ ~Handling(r)
  /\ req' = [req EXCEPT ![r] = q]
  /\ Silent
  /\ UNCHANGED <<upVars, srv>>

\* The browser's callback and a device completion begin with taking their flow
\* from Redis, without a deadline so far.
Popping(kind) == [NoRequest EXCEPT !.kind = kind, !.op = "pop"]

Callback(r) == Arrive(r, Popping("callback"))

CallbackDeviceFlow(r) == Arrive(r, Popping("device"))

\* A device code is asked for.
LoginDeviceFlow(r) == Arrive(r, Call([NoRequest EXCEPT !.kind = "logindevice"], "code"))

\* A refresh that has its row lock: the wait for the lock is on its clock.
RefreshToken(r) ==
  \E left \in 1 .. ServiceTimeout :
    Arrive(r, Call([NoRequest EXCEPT !.kind = "refresh", !.left = left,
                                     !.age = ServiceTimeout - left], "refresh"))

Answered(r, status, why) ==
  /\ req' = [req EXCEPT ![r] = NoRequest]
  /\ answers' = {[status |-> status, why |-> why]}

\* The flow is taken.  A callback goes on if the provider sent it a code.  A
\* device completion runs until its flow expires, which may be now if Redis was
\* slow: the flow was alive when it was read, and is deleted after that.
FlowTaken(r) ==
  /\ req[r].op = "pop"
  /\ \/ /\ req[r].kind = "callback"
        /\ req' = [req EXCEPT ![r] = Call(@, "exchange")]
        /\ Silent
     \/ /\ req[r].kind = "callback"
        /\ Answered(r, 400, "denied")
     \/ /\ req[r].kind = "device"
        /\ \E left \in (IF req[r].redis > 0 THEN 0 ELSE 1) .. PollLimit :
             req' = [req EXCEPT ![r] = Call([@ EXCEPT !.left = left], "poll")]
        /\ Silent
  /\ UNCHANGED <<upVars, srv>>

\* The flow is unknown, another's, used or expired.
FlowRefused(r) ==
  /\ req[r].op = "pop"
  /\ Answered(r, 400, "flow")
  /\ UNCHANGED <<upVars, srv>>

\* The device flow is kept for its completion, and the browser gets its code.
FlowKept(r) ==
  /\ req[r].op = "keep"
  /\ Answered(r, 200, "ok")
  /\ UNCHANGED <<upVars, srv>>

RedisFails(r) ==
  /\ InRedis(r)
  /\ Answered(r, 500, "redis")
  /\ UNCHANGED <<upVars, srv>>

RedisDue(r) == InRedis(r) /\ req[r].redis >= RedisLimit

\* go-redis gives up.
RedisTimesOut(r) == RedisDue(r) /\ RedisFails(r)

\* The request goes on after a call that succeeded.  SaveToken starts its own
\* deadline; a refresh verifies an identity only if the reply carries one.
Proceed(r) ==
  LET q == req[r]
  IN CASE q.op = "code" ->
            /\ req' = [req EXCEPT ![r] = [q EXCEPT !.op = "keep", !.sent = FALSE, !.rpc = 0]]
            /\ Silent
       [] q.op = "poll" ->
            /\ req' = [req EXCEPT ![r] = Call(q, "exchange")]
            /\ Silent
       [] q.op = "exchange" ->
            /\ req' = [req EXCEPT ![r] = Call([q EXCEPT !.left = Lesser(q.left, ServiceTimeout)],
                                              "verify")]
            /\ Silent
       [] q.op = "refresh" ->
            /\ req' \in {[req EXCEPT ![r] = Call(q, "verify")],
                         [req EXCEPT ![r] = [q EXCEPT !.op = "store"]]}
            /\ Silent
       [] q.op = "verify" ->
            /\ req' = [req EXCEPT ![r] = [q EXCEPT !.op = "store"]]
            /\ Silent

Fail(r, code, why) == Answered(r, FailureStatus(req[r].kind, req[r].op, code), why)

\* The handler's call is canceled if there is a handler.
CancelHandler(r) == [srv[r] EXCEPT !.canceled = Handling(r)]

\* Mutant: a call that is waiting for its connection does not watch its deadline.
ClientDeadline_SentOnly(r) ==
  /\ Calling(r) /\ req[r].sent
  /\ req[r].rpc = 0
  /\ Fail(r, "DeadlineExceeded", "time")
  /\ srv' = [srv EXCEPT ![r] = CancelHandler(r)]
  /\ UNCHANGED upVars

\* The Directory's call runs out of time.
ClientDeadline(r) ==
  /\ Calling(r)
  /\ req[r].rpc = 0
  /\ Fail(r, "DeadlineExceeded", "time")
  /\ srv' = [srv EXCEPT ![r] = CancelHandler(r)]
  /\ UNCHANGED upVars

\* The credential is written, or the write fails.
StoreEnds(r) ==
  /\ req[r].op = "store"
  /\ Answered(r, 200, "ok") \/ Answered(r, 500, "store")
  /\ UNCHANGED <<upVars, srv>>

\* The service's deadline passes in the database.
StoreDeadline(r) ==
  /\ req[r].op = "store"
  /\ req[r].left = 0
  /\ Answered(r, IF req[r].kind = "refresh" THEN 504 ELSE 500, "time")
  /\ UNCHANGED <<upVars, srv>>

\* The callers of the requests rs go away: their contexts end and nobody is
\* answered.
ClientsLeave(rs) ==
  /\ rs # {} /\ rs \subseteq Active
  /\ req' = [r \in Requests |-> IF r \in rs THEN NoRequest ELSE req[r]]
  /\ srv' = [r \in Requests |-> IF r \in rs THEN CancelHandler(r) ELSE srv[r]]
  /\ Silent
  /\ UNCHANGED <<upVars>>

-----------------------------------------------------------------------------
(* The server's handlers.                                                  *)

\* The time one HTTP request of a handler may take.
HttpTimer(r) == Lesser(RequestTimeout, req[r].rpc)

\* The call reaches a handler.  A provider that is not configured, or a blank
\* authorization code, is refused at once.
Dispatch(r) ==
  /\ Calling(r) /\ ~req[r].sent
  /\ up = "serving"
  /\ \/ /\ oai
        /\ req' = [req EXCEPT ![r].sent = TRUE]
        /\ srv' = [srv EXCEPT ![r] = [at |-> "http", timer |-> HttpTimer(r), canceled |-> FALSE]]
        /\ Silent
     \/ /\ ~oai
        /\ Fail(r, "FailedPrecondition", "unconfigured")
        /\ UNCHANGED srv
     \/ /\ req[r].op = "exchange" /\ req[r].kind = "callback"
        /\ Fail(r, "InvalidArgument", "blank")
        /\ UNCHANGED srv
  /\ UNCHANGED upVars

\* No server takes the call: retries are disabled.
Refused(r) ==
  /\ Calling(r) /\ ~req[r].sent
  /\ up # "serving"
  /\ Fail(r, "Unavailable", "shutdown")
  /\ UNCHANGED <<upVars, srv>>

\* The handler returns with a result of the provider.
HttpEnds(r) ==
  /\ srv[r].at = "http" /\ ~srv[r].canceled
  /\ \E outcome \in Outcomes(req[r].op) \ {"pending"} :
       \E code \in ServerCodes(req[r].op, outcome) :
         IF code = "OK" THEN Proceed(r) ELSE Fail(r, code, outcome)
  /\ srv' = [srv EXCEPT ![r] = NoHandler]
  /\ UNCHANGED upVars

\* postToken: the approval is still missing, the poll sleeps for the interval.
PollPending(r) ==
  /\ srv[r].at = "http" /\ ~srv[r].canceled
  /\ "pending" \in Outcomes(req[r].op)
  /\ srv' = [srv EXCEPT ![r].at = "sleep", ![r].timer = Interval]
  /\ Silent
  /\ UNCHANGED <<upVars, req>>

HttpDue(r) == srv[r].at = "http" /\ (srv[r].timer = 0 \/ srv[r].canceled)

\* The HTTP request ends with its context.
HttpTimesOut(r) ==
  /\ HttpDue(r)
  /\ IF srv[r].canceled THEN (UNCHANGED req /\ Silent) ELSE Fail(r, "DeadlineExceeded", "time")
  /\ srv' = [srv EXCEPT ![r] = NoHandler]
  /\ UNCHANGED upVars

WakeDue(r) == srv[r].at = "sleep" /\ srv[r].timer = 0

PollWakes(r) ==
  /\ WakeDue(r)
  /\ srv' = [srv EXCEPT ![r].at = "http", ![r].timer = HttpTimer(r)]
  /\ Silent
  /\ UNCHANGED <<upVars, req>>

CancelDue(r) == srv[r].at = "sleep" /\ (srv[r].canceled \/ req[r].rpc = 0)

\* The sleep of a poll ends with its context.
PollCanceled(r) ==
  /\ CancelDue(r)
  /\ IF srv[r].canceled THEN (UNCHANGED req /\ Silent) ELSE Fail(r, "DeadlineExceeded", "time")
  /\ srv' = [srv EXCEPT ![r] = NoHandler]
  /\ UNCHANGED upVars

-----------------------------------------------------------------------------
(* The server's life.                                                      *)

UpOnly == Silent /\ UNCHANGED <<drain, since, req, srv>>

\* The process starts with a provider in its configuration, or without one.
Run ==
  /\ up = "down"
  /\ up' = "starting"
  /\ oai' \in BOOLEAN
  /\ UpOnly

\* The provider's discovery or the listener fails: the process exits.
StartFails ==
  /\ up = "starting"
  /\ up' = "down"
  /\ UNCHANGED oai
  /\ UpOnly

\* The provider is discovered, the listener is open, health says so.
Serve ==
  /\ up = "starting"
  /\ up' = "serving"
  /\ UNCHANGED oai
  /\ UpOnly

\* Mutant: the forced stop is armed with the timeout of an HTTP request.
StopSignal_OneRequest ==
  /\ up = "serving"
  /\ up' = "draining"
  /\ drain' = RequestTimeout
  /\ since' = 0
  /\ Silent
  /\ UNCHANGED <<oai, req, srv>>

\* SIGTERM: health is withdrawn, the forced stop is armed, no new call gets in.
StopSignal ==
  /\ up = "serving"
  /\ up' = "draining"
  /\ drain' = ShutdownTimeout
  /\ since' = 0
  /\ Silent
  /\ UNCHANGED <<oai, req, srv>>

StopDue == up \in {"draining", "stopping"} /\ AllReturned

\* GracefulStop and Serve return when the last handler has.
Stopped ==
  /\ StopDue
  /\ up' = "down"
  /\ drain' = 0
  /\ since' = 0
  /\ Silent
  /\ UNCHANGED <<oai, req, srv>>

\* The connections are closed: callers see Unavailable, handlers are canceled.
CutCalls ==
  LET cut == {r \in Requests : Calling(r) /\ req[r].sent}
  IN /\ req' = [r \in Requests |-> IF r \in cut THEN NoRequest ELSE req[r]]
     /\ answers' = {[status |-> FailureStatus(req[r].kind, req[r].op, "Unavailable"),
                     why |-> "shutdown"] : r \in cut}

ForceDue == up = "draining" /\ drain = 0

\* grpcServer.Stop, when the drain takes too long.
ForceStop ==
  /\ ForceDue
  /\ up' = "stopping"
  /\ CutCalls
  /\ srv' = [r \in Requests |-> CancelHandler(r)]
  /\ UNCHANGED <<oai, drain, since>>

\* The process dies.
Crash ==
  /\ up # "down"
  /\ up' = "down"
  /\ drain' = 0
  /\ since' = 0
  /\ CutCalls
  /\ srv' = [r \in Requests |-> NoHandler]
  /\ UNCHANGED oai

-----------------------------------------------------------------------------
(* Time.                                                                   *)

RequestDue(r) ==
  \/ Calling(r) /\ req[r].rpc = 0
  \/ req[r].op = "store" /\ req[r].left = 0
  \/ RedisDue(r)
  \/ HttpDue(r)
  \/ WakeDue(r)
  \/ CancelDue(r)

Less(n) == IF n = 0 THEN 0 ELSE n - 1

\* Every timer comes a tick closer, unless one that has run out has not had its
\* effect yet.
Tick ==
  /\ \A r \in Requests : ~RequestDue(r)
  /\ ~ForceDue /\ ~StopDue
  /\ req' = [r \in Requests |->
               IF req[r].op = "none" THEN req[r]
               ELSE [req[r] EXCEPT !.left = IF @ = Unlimited THEN @ ELSE Less(@),
                                     !.rpc = Less(@), !.age = @ + 1,
                                     !.redis = IF InRedis(r) THEN @ + 1 ELSE @]]
  /\ srv' = [r \in Requests |-> [srv[r] EXCEPT !.timer = Less(@)]]
  /\ drain' = Less(drain)
  /\ since' = IF up \in {"draining", "stopping"} THEN since + 1 ELSE since
  /\ Silent
  /\ UNCHANGED <<up, oai>>

-----------------------------------------------------------------------------
Due(r) ==
  \/ ClientDeadline(r) \/ StoreDeadline(r) \/ RedisTimesOut(r)
  \/ HttpTimesOut(r) \/ PollWakes(r) \/ PollCanceled(r)

Arrival(r) == Callback(r) \/ LoginDeviceFlow(r) \/ CallbackDeviceFlow(r) \/ RefreshToken(r)

CallStep(r) ==
  \/ Dispatch(r) \/ Refused(r) \/ HttpEnds(r) \/ PollPending(r) \/ StoreEnds(r)
  \/ FlowTaken(r) \/ FlowRefused(r) \/ FlowKept(r) \/ RedisFails(r)
  \/ ClientsLeave({r})
  \/ Due(r)

Process == Run \/ StartFails \/ Serve \/ StopSignal \/ Stopped \/ ForceStop \/ Crash

Next ==
  \/ \E r \in Requests : Arrival(r) \/ CallStep(r)
  \/ ClientsLeave(Active)
  \/ Process
  \/ Tick

\* Timers fire, a stopping server ends, and time passes whatever else happens.
Fairness ==
  /\ \A r \in Requests : WF_vars(Due(r))
  /\ WF_vars(Stopped) /\ WF_vars(ForceStop)
  /\ SF_vars(Tick)

Spec == Init /\ [][Next]_vars
FairSpec == Spec /\ Fairness

-----------------------------------------------------------------------------
(* Properties                                                              *)

\* Mutant: a device completion is proxied like every other request.
ResponseHeaderTimeout_Ordinary(kind) == OrdinaryEdge

\* What the gateway's transport waits for the API's answer.
ResponseHeaderTimeout(kind) == IF kind = "device" THEN DeviceEdge ELSE OrdinaryEdge

\* The gateway never gives up on an OAuth request before the API has answered
\* it by its own deadlines, however long the approval, the exchange, the
\* verification and the write take, if Redis took no more of the request than
\* RedisSlack.  Past that the code has no deadline that would keep the promise:
\* the gateway may answer 502 for a credential that is being saved.
GatewayOutwaits ==
  \A r \in Requests :
    req[r].op # "none" /\ req[r].redis <= RedisSlack =>
      req[r].age < ResponseHeaderTimeout(req[r].kind)

\* Stopping the upstream service is over within the shutdown timeout, so that
\* the container's grace period never ends in a kill, and cuts nothing but
\* device polls: when the forced stop comes, every exchange, refresh and
\* verification that was running has ended by itself, and no rotated token is
\* lost to a restart.
StopIsClean ==
  /\ up \in {"draining", "stopping"} => since <= ShutdownTimeout
  /\ ForceDue => \A r \in Requests : Calling(r) /\ req[r].sent => req[r].op = "poll"

\* What is the fault of the grant, the code or the flow.
Blamed == {"rejected", "blank", "denied", "flow"}

\* The status tells the user the truth: a grant is only called rejected when
\* the provider rejected it or denied it in its callback (or the code was
\* blank, or the flow is not one that can be taken), a timeout is one, an
\* unavailable service is never the grant's fault, and 200 means done.
AnswerIsJust ==
  \A a \in answers :
    /\ a.status = 400 => a.why \in Blamed
    /\ a.status = 504 => a.why = "time"
    /\ a.status = 503 => a.why \notin Blamed \cup {"bad"}
    /\ a.status = 200 <=> a.why = "ok"

\* Every request is answered or dropped, even if the approval never comes and
\* the server takes no call.
EveryRequestEnds ==
  \A r \in Requests : req[r].op # "none" ~> req[r].op = "none"

-----------------------------------------------------------------------------
(* The inductive invariant behind the bounds.                              *)

Timer == 0 .. Unlimited
Request == [kind: Kinds \cup {"none"}, op: Ops \cup RedisOps \cup {"none", "store"},
            sent: BOOLEAN, left: Timer, rpc: Timer, redis: Nat, age: Nat]
Handler == [at: {"none", "http", "sleep"}, timer: Nat, canceled: BOOLEAN]

\* Every variable holds a value of its kind.
TypeOK ==
  /\ up \in {"down", "starting", "serving", "draining", "stopping"}
  /\ oai \in BOOLEAN
  /\ drain \in 0 .. ShutdownTimeout
  /\ since \in Nat
  /\ req \in [Requests -> Request]
  /\ srv \in [Requests -> Handler]

\* A call that was sent has a live handler, and a live handler its call.
HandlerOK(q, h) ==
  /\ q.op \in Ops /\ q.sent <=> h.at # "none" /\ ~h.canceled
  /\ h.at = "sleep" /\ ~h.canceled => q.op = "poll"
  /\ h.at = "http" => h.timer <= RequestTimeout

\* How old a request can be, by the time it spent in Redis and the deadlines it
\* still has ahead.
AgeOK(q) ==
  q.op # "none" =>
    /\ q.kind # "none"
    /\ q.op \in Ops => q.rpc <= q.left
    /\ q.op = "pop" => q.kind \in {"callback", "device"} /\ q.left = Unlimited /\ q.age <= q.redis
    /\ q.op = "keep" => q.age <= q.redis + ClientTimeout
    /\ q.kind = "logindevice" <=> q.op \in {"code", "keep"}
    /\ q.kind = "refresh" => q.op \in {"refresh", "verify", "store"}
    /\ q.kind = "device" /\ q.op # "pop" =>
         q.left # Unlimited /\ q.age + q.left <= q.redis + PollLimit
    /\ q.kind = "refresh" => q.left # Unlimited /\ q.age + q.left <= ServiceTimeout
    /\ q.kind \in {"callback", "logindevice"} =>
         \/ q.op \in RedisOps
         \/ q.op \in {"exchange", "code"} /\ q.age + q.rpc <= q.redis + ClientTimeout
         \/ q.op \in {"verify", "store"} /\ q.left # Unlimited
            /\ q.age + q.left <= q.redis + ClientTimeout + ServiceTimeout

\* What a stop has still to wait for.
DrainOK(q, h) ==
  /\ up = "draining" /\ q.op \in Ops /\ q.sent /\ q.op # "poll" => h.timer < drain
  /\ up = "stopping" /\ h.at # "none" => h.canceled
  /\ up \in {"down", "starting"} => h.at = "none"

\* How long it has waited.
StopInv ==
  /\ up = "draining" => since + drain = ShutdownTimeout
  /\ up = "stopping" => since <= ShutdownTimeout

SlotOK(q, h) == HandlerOK(q, h) /\ AgeOK(q) /\ DrainOK(q, h)

\* The conjunction is preserved by every step.
CallsInv == TypeOK /\ StopInv /\ \A r \in Requests : SlotOK(req[r], srv[r])
=============================================================================
