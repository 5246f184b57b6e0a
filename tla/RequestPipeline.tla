----------------------------- MODULE RequestPipeline -----------------------------
(***************************************************************************)
(* A request on its way through gin: the handler chain main() and           *)
(* SetupRoutes put together, with authentication, panics and the writing of *)
(* the response.  gin runs a chain with one index per request: a middleware  *)
(* that calls Next() runs the rest of the chain inside its own frame, and    *)
(* one that returns without it lets the innermost loop go on to the next     *)
(* handler, unless the index was moved past the end by an abort.             *)
(*                                                                         *)
(* Requests share no variable here; the server that runs them is in Server. *)
(* What the service does with a request is in UploadService.                *)
(***************************************************************************)
EXTENDS Integers, Sequences

CONSTANTS
    Conns,     \* the requests in flight at the same time
    Users,     \* the subjects of tokens
    NoUser,    \* no user in the request context
    Arrivals   \* the requests clients send

Routes == {"upload", "public", "unmatched"}

(* A bearer token, by what the parser and ValidateToken tell apart. *)
Token == [wellFormed : BOOLEAN, ecdsa : BOOLEAN, signed : BOOLEAN,
          expired : BOOLEAN, type : {"access", "refresh"}, user : Users]

(* The Authorization header is absent, or not "Bearer <token>", or holds the  *)
(* token; the body is one that does not bind or pass validation, or one that  *)
(* does; the client may name its request with X-Request-ID.                   *)
Arrival == [route : Routes, authorization : {"missing", "badFormat", "bearer"},
            token : Token, body : {"unreadable", "valid"}, named : BOOLEAN]

ASSUME ArrivalsAssumption == Arrivals \subseteq Arrival /\ Arrivals # {}
ASSUME NoUserAssumption == NoUser \notin Users

VARIABLE req  \* the request on each connection

-----------------------------------------------------------------------------
(* The chains. *)

(* Mutant of GlobalChain: the metrics are registered before ErrorHandler. *)
GlobalChainMetricsFirst ==
    <<"Recovery", "RequestContext", "PrometheusMetrics", "ErrorHandler", "OTel">>

GlobalChain ==
    <<"Recovery", "RequestContext", "ErrorHandler", "PrometheusMetrics", "OTel">>

(* Mutant of Chain: ErrorHandler is registered for the uploads alone. *)
ChainUploadErrorsOnly ==
    [upload    |-> GlobalChain \o <<"Authenticate", "UploadHandler">>,
     public    |-> <<"Recovery", "RequestContext", "PrometheusMetrics", "OTel", "PublicHandler">>,
     unmatched |-> GlobalChain]

(* A route that does not match still runs the global middleware. *)
Chain == [upload    |-> GlobalChain \o <<"Authenticate", "UploadHandler">>,
          public    |-> GlobalChain \o <<"PublicHandler">>,
          unmatched |-> GlobalChain]

Handler == {"Recovery", "RequestContext", "ErrorHandler", "PrometheusMetrics", "OTel",
            "Authenticate", "UploadHandler", "PublicHandler"}

(* The index c.Abort() sets: past the end of any chain. *)
AbortIndex == 63

RequestIDs == {"none", "sent", "generated"}
ServiceCodes == {200, 201, 400, 404, 410, 500}
Codes == ServiceCodes \cup {401}

(* `frames' are the middlewares whose call of Next() has not returned, the     *)
(* innermost last; `stage' is "enter" when the handler at `index' is about to  *)
(* run, "after" when the innermost Next() has returned, "service" while the    *)
(* upload handler waits for the service, "unwind" while a panic travels up.    *)
Request ==
    [stage    : {"idle", "enter", "service", "after", "unwind", "done"},
     arrival  : Arrival,
     index    : Nat,
     frames   : Seq(Handler),
     traceID  : RequestIDs,       \* under CtxTraceIDKey in the request context
     user     : Users \cup {NoUser},
     status   : Codes,            \* the writer's status
     bodies   : Seq([code : Codes, requestID : RequestIDs]),
     errors   : Nat,              \* Len(c.Errors)
     counted  : Seq(Codes),       \* the increments of http_requests_total
     called   : BOOLEAN,          \* history: the service was called
     panicked : BOOLEAN]          \* history: a handler panicked

PipelineTypeOK == req \in [Conns -> Request]

At(c, h) == req[c].stage = "enter" /\ Chain[req[c].arrival.route][req[c].index] = h
Top(r) == r.frames[Len(r.frames)]
Set(c, r) == req' = [req EXCEPT ![c] = r]

-----------------------------------------------------------------------------
(* gin. *)

(* The test of the loop in Next(). *)
Loop(r) ==
    [r EXCEPT !.stage = IF r.index <= Len(Chain[r.arrival.route]) THEN "enter" ELSE "after"]

(* A middleware calls Next(); a handler returns to the innermost Next().       *)
CallNext(r, h) == Loop([r EXCEPT !.frames = Append(@, h), !.index = @ + 1])
Return(r) == Loop([r EXCEPT !.index = @ + 1])
Leave(r) == Return([r EXCEPT !.frames = SubSeq(@, 1, Len(@) - 1)])
Abort(r) == [r EXCEPT !.index = AbortIndex]
Panic(r) == [r EXCEPT !.stage = "unwind", !.panicked = TRUE]

(* Once something was written the status stays what it is. *)
Written(r, code, id) ==
    [r EXCEPT !.status = IF r.bodies = <<>> THEN code ELSE @,
              !.bodies = Append(@, [code |-> code, requestID |-> id])]

(* c.JSON: a write that fails (the client is gone) is added to c.Errors and    *)
(* aborts; so do the writes that follow it.                                   *)
JSON(r, code, id) ==
    LET failed == Abort([Written(r, code, id) EXCEPT !.errors = @ + 1])
    IN IF r.errors > 0 THEN {failed} ELSE {Written(r, code, id), failed}

AbortJSON(r, code, id) == {Abort(w) : w \in JSON(r, code, id)}

-----------------------------------------------------------------------------
(* Token validation. *)

(* jwt.ParseWithClaims: the first check that fails.  An error of the key       *)
(* function, which refuses other methods than ECDSA, is an unverifiable token  *)
(* that also Is ErrSignatureInvalid.                                          *)
ParseError(t) ==
    IF ~t.wellFormed THEN "malformed"
    ELSE IF ~t.ecdsa \/ ~t.signed THEN "signature"
    ELSE IF t.expired THEN "expired"
    ELSE "nil"

ValidateToken(t) ==
    IF ParseError(t) = "expired" THEN "ErrExpiredToken"
    ELSE IF ParseError(t) = "signature" THEN "ErrInvalidSignature"
    ELSE IF ParseError(t) # "nil" THEN "ErrInvalidToken"
    ELSE IF t.type # "access" THEN "ErrInvalidTokenType"
    ELSE "nil"

(* TraceIDFromContext is given the gin context, which holds the id under a     *)
(* plain string and does not look into the request's context: a miss.          *)
TraceIDOfGinContext(r) == "none"

-----------------------------------------------------------------------------
(* The handlers of the chain, on the way in. *)

Idle(a) ==
    [stage |-> "idle", arrival |-> a, index |-> 1, frames |-> <<>>, traceID |-> "none",
     user |-> NoUser, status |-> IF a.route = "unmatched" THEN 404 ELSE 200,
     bodies |-> <<>>, errors |-> 0, counted |-> <<>>, called |-> FALSE, panicked |-> FALSE]

(* A free connection. *)
Free == Idle(CHOOSE a \in Arrivals : TRUE)

(* The engine takes a request from a free connection. *)
Receive(c) ==
    /\ req[c].stage = "idle"
    /\ \E a \in Arrivals : Set(c, Loop(Idle(a)))

(* gin.Recovery, ErrorHandler, PrometheusMetrics and otelgin call Next() at     *)
(* once; what they do comes after.                                             *)
EnterMiddleware(c) ==
    \E h \in {"Recovery", "ErrorHandler", "PrometheusMetrics", "OTel"} :
        At(c, h) /\ Set(c, CallNext(req[c], h))

RequestContext(c) ==
    /\ At(c, "RequestContext")
    /\ LET id == IF req[c].arrival.named THEN "sent" ELSE "generated"
       IN Set(c, CallNext([req[c] EXCEPT !.traceID = id], "RequestContext"))

(* Mutant of Authenticate: c.JSON in place of c.AbortWithStatusJSON. *)
AuthenticateWithoutAbort(c) ==
    LET a == req[c].arrival
        rejected == a.authorization # "bearer" \/ ValidateToken(a.token) # "nil"
    IN /\ At(c, "Authenticate")
       /\ \/ /\ rejected
             /\ \E w \in JSON(req[c], 401, TraceIDOfGinContext(req[c])) : Set(c, Return(w))
          \/ /\ ~rejected
             /\ Set(c, CallNext([req[c] EXCEPT !.user = a.token.user], "Authenticate"))
          \/ Set(c, Panic(req[c]))

(* A missing or malformed header, or any error of ValidateToken, is a 401.     *)
Authenticate(c) ==
    LET a == req[c].arrival
        rejected == a.authorization # "bearer" \/ ValidateToken(a.token) # "nil"
    IN /\ At(c, "Authenticate")
       /\ \/ /\ rejected
             /\ \E w \in AbortJSON(req[c], 401, TraceIDOfGinContext(req[c])) : Set(c, Return(w))
          \/ /\ ~rejected
             /\ Set(c, CallNext([req[c] EXCEPT !.user = a.token.user], "Authenticate"))
          \/ Set(c, Panic(req[c]))

(* The upload handlers bind and validate, and then wait for the service.       *)
UploadHandler(c) ==
    /\ At(c, "UploadHandler")
    /\ \/ /\ req[c].arrival.body = "unreadable"
          /\ \E w \in JSON(req[c], 400, req[c].traceID) : Set(c, Return(w))
       \/ /\ req[c].arrival.body = "valid"
          /\ Set(c, [req[c] EXCEPT !.stage = "service", !.called = TRUE])

(* The service returns, and its result or its error is mapped to a code; or a   *)
(* call below panics.  Successful answers carry no request id.                 *)
ServiceReturns(c) ==
    /\ req[c].stage = "service"
    /\ \/ \E code \in ServiceCodes :
            \E w \in JSON(req[c], code, IF code < 400 THEN "none" ELSE req[c].traceID) :
                Set(c, Return(w))
       \/ Set(c, Panic(req[c]))

(* Swagger UI misses a file, a scrape of /metrics fails. *)
PublicCodes == {200, 404, 500}

(* Swagger, the OpenAPI document and /metrics write to the writer directly:     *)
(* a failed write is no context error.                                         *)
PublicHandler(c) ==
    /\ At(c, "PublicHandler")
    /\ \/ \E code \in PublicCodes : Set(c, Return(Written(req[c], code, "none")))
       \/ Set(c, Panic(req[c]))

-----------------------------------------------------------------------------
(* The way out: what the middlewares do after Next(), and in their defers. *)

RecordMetrics(r) == [r EXCEPT !.counted = Append(@, r.status)]

(* Mutant of ReportErrors: >= in place of >. *)
ReportErrorsAlways(r) == IF r.errors >= 0 THEN JSON(r, 400, r.traceID) ELSE {r}

(* ErrorHandler's second duty: errors nobody handled. *)
ReportErrors(r) == IF r.errors > 0 THEN JSON(r, 400, r.traceID) ELSE {r}

(* Each middleware finishes when its call of Next() returns. *)
AfterNext(c) ==
    /\ req[c].stage = "after" /\ req[c].frames # <<>>
    /\ LET h == Top(req[c])
       IN \/ h = "PrometheusMetrics" /\ Set(c, Leave(RecordMetrics(req[c])))
          \/ h = "ErrorHandler" /\ \E w \in ReportErrors(req[c]) : Set(c, Leave(w))
          \/ h \notin {"PrometheusMetrics", "ErrorHandler"} /\ Set(c, Leave(req[c]))

(* Mutant of Recovered: c.JSON in place of c.AbortWithStatusJSON. *)
RecoveredWithoutAbort(r) == JSON(r, 500, r.traceID)

(* ErrorHandler's recover. *)
Recovered(r) == AbortJSON(r, 500, r.traceID)

(* A panic leaves each frame through its defers: PrometheusMetrics has none,    *)
(* ErrorHandler and gin.Recovery recover.                                      *)
Unwind(c) ==
    /\ req[c].stage = "unwind" /\ req[c].frames # <<>>
    /\ LET r == req[c]
           h == Top(r)
       IN IF h = "ErrorHandler" THEN \E w \in Recovered(r) : Set(c, Leave(w))
          ELSE IF h = "Recovery" THEN Set(c, Leave(Abort([r EXCEPT !.status = 500])))
          ELSE Set(c, [r EXCEPT !.frames = SubSeq(@, 1, Len(@) - 1)])

(* The engine finishes: an unmatched route gets its body now. *)
Finish(c) ==
    /\ req[c].stage = "after" /\ req[c].frames = <<>>
    /\ LET r == req[c]
       IN Set(c, [IF r.arrival.route = "unmatched" /\ r.bodies = <<>>
                  THEN Written(r, 404, "none") ELSE r EXCEPT !.stage = "done"])

(* The response is sent and the connection is free. *)
Release(c) == req[c].stage = "done" /\ Set(c, Free)

(* A step of the goroutine that serves a request. *)
Handle(c) ==
    \/ EnterMiddleware(c) \/ RequestContext(c) \/ Authenticate(c) \/ UploadHandler(c)
    \/ ServiceReturns(c) \/ PublicHandler(c) \/ AfterNext(c) \/ Unwind(c) \/ Finish(c)
    \/ Release(c)

-----------------------------------------------------------------------------
(* Safety. *)

(* What a token must be, said once and for all, whatever the order of the      *)
(* checks.                                                                     *)
Proves(a, user) ==
    /\ a.authorization = "bearer"
    /\ a.token.wellFormed /\ a.token.ecdsa /\ a.token.signed /\ ~a.token.expired
    /\ a.token.type = "access" /\ a.token.user = user

(* The service is called only for the user the request's token proves: also    *)
(* when a handler before it has answered, has panicked, or could not write.     *)
ServiceActsForProvenUser ==
    \A c \in Conns : req[c].called =>
        req[c].arrival.route = "upload" /\ Proves(req[c].arrival, req[c].user)

(* A finished request has been answered with one body, and the status it was    *)
(* answered with first is the one that was sent, unless writing failed; a       *)
(* request that panicked was answered 500, under its own id.                    *)
AnsweredOnce ==
    \A c \in Conns : req[c].stage = "done" =>
        /\ req[c].bodies # <<>>
        /\ req[c].status = req[c].bodies[1].code
        /\ Len(req[c].bodies) = 1 \/ req[c].errors > 0
        /\ req[c].panicked => req[c].bodies[1] = [code |-> 500, requestID |-> req[c].traceID]

(* A finished request is in http_requests_total exactly once, under the status  *)
(* the client was sent, although the middlewares outside PrometheusMetrics can  *)
(* still answer; one that panicked is in none.                                 *)
CountedAsSent ==
    \A c \in Conns : req[c].stage = "done" =>
        req[c].counted = IF req[c].panicked THEN <<>> ELSE <<req[c].status>>

(* ErrorHandler is around every handler that can panic, however deep: no client *)
(* is left with the empty 500 of gin.Recovery.                                 *)
PanicsAreRecovered ==
    \A c \in Conns : req[c].stage = "unwind" =>
        \E i \in 1..Len(req[c].frames) : req[c].frames[i] = "ErrorHandler"

(* The steps a request may still take: three for each handler it has not come to  *)
(* (the way in, the call of the service, the way out), one for each frame, and    *)
(* the engine's last.                                                           *)
StepsLeft(r) ==
    LET toRun == Len(Chain[r.arrival.route]) + 1 - r.index
    IN IF r.stage \in {"idle", "done"} THEN 0
       ELSE IF r.stage = "enter" THEN 3 * toRun + Len(r.frames) + 1
       ELSE IF r.stage = "service" THEN 3 * toRun + Len(r.frames)
       ELSE Len(r.frames) + 1

(* gin's loops are nested, one for each Next() on the stack, and share the index:  *)
(* after an abort or a recovered panic none of them may start a handler again.    *)
(* Whatever happens to a request, each of its steps brings it nearer to its end,   *)
(* so it takes at most as many as were left when it came in.                      *)
RequestsRunOut ==
    [][\A c \in Conns : req[c].stage \notin {"idle", "done"} /\ req'[c] # req[c]
         => StepsLeft(req'[c]) < StepsLeft(req[c])]_req

-----------------------------------------------------------------------------
(* The inductive invariant, in three parts. *)

(* The frames are the handlers of the chain from its start, and the index says   *)
(* whether the chain goes on; a panic starts inside ErrorHandler's frame.        *)
FramesOK(r) ==
    LET chain == Chain[r.arrival.route]
    IN /\ Len(r.frames) <= Len(chain)
       /\ \A i \in 1..Len(r.frames) : r.frames[i] = chain[i]
       /\ r.stage \in {"enter", "service"} =>
            r.index = Len(r.frames) + 1 /\ r.index <= Len(chain)
       /\ r.stage = "service" => chain[r.index] = "UploadHandler"
       /\ r.stage = "after" => r.index > Len(chain)
       /\ r.stage = "unwind" => Len(r.frames) >= 3

(* Whoever stands behind Authenticate has passed it, and has not called yet.      *)
UserOK(r) ==
    /\ r.called \/ (r.stage = "enter" /\ Chain[r.arrival.route][r.index] = "UploadHandler")
         => r.arrival.route = "upload" /\ Proves(r.arrival, r.user)
    /\ r.stage = "enter" => ~r.called
    /\ r.stage = "service" => r.called

(* Nothing is answered on the way in; on the way out the first answer stays the   *)
(* status, and PrometheusMetrics counts it when four frames are left.            *)
AnswerOK(r) ==
    /\ r.stage = "idle" => r.bodies = <<>>
    /\ r.stage \in {"enter", "service", "unwind"} =>
         r.bodies = <<>> /\ r.counted = <<>> /\ (r.panicked <=> r.stage = "unwind")
    /\ r.bodies = <<>> =>
         /\ r.errors = 0 /\ r.stage # "done"
         /\ r.arrival.route = "unmatched" => r.status = 404
         /\ r.stage = "after" => r.arrival.route = "unmatched" /\ ~r.panicked
    /\ r.bodies # <<>> => r.status = r.bodies[1].code
    /\ Len(r.bodies) <= 1 \/ r.errors > 0
    /\ r.stage \in {"after", "done"} =>
         IF r.panicked
         THEN /\ r.counted = <<>> /\ Len(r.frames) < 3
              /\ r.bodies[1] = [code |-> 500, requestID |-> r.traceID]
         ELSE r.counted = IF Len(r.frames) >= 4 THEN <<>> ELSE <<r.status>>
    /\ r.stage = "done" => r.frames = <<>>

RequestInv(r) == FramesOK(r) /\ UserOK(r) /\ AnswerOK(r)
================================================================================
