------------------------------ MODULE HttpEdge ------------------------------
(***************************************************************************)
(* What surrounds the application for one HTTP request, in the order that  *)
(* setup_app puts it (observability.py): LoggingContextMiddleware          *)
(* (logger/middleware.py), inside it MultipartBodyLimitMiddleware          *)
(* (middleware/body_limit.py), inside that the exception handlers          *)
(* (fastapi_utils.py) and the route.                                       *)
(*                                                                         *)
(* The framework parses the body of a route before it runs anything of it  *)
(* ("parsed"); a handler may also read the body itself, and begin to       *)
(* answer before it has read it ("streams").                               *)
(***************************************************************************)
EXTENDS Integers, Sequences

CONSTANTS
    MaxBody,      \* max_body_size
    ChunkSizes,   \* sizes of the http.request messages
    BodyCap       \* bound on the bodies that nothing limits

ASSUME EdgeAssumption ==
    MaxBody \in Nat /\ BodyCap \in Nat /\ BodyCap > MaxBody /\ ChunkSizes \subseteq 1..BodyCap

VARIABLES
    request,   \* what arrives
    at,        \* where the request is
    received,  \* received: bytes limited_receive has counted
    taken,     \* history: bytes the application was given
    rejected,  \* rejected
    early,     \* the handler began to answer before it had read the body
    starts,    \* the http.response.start messages that left the body limit
    ctx,       \* request_id_var and user_id_var
    header,    \* X-Request-ID of the response, "" = none
    log,       \* the lines the middleware logged
    crashed    \* an exception left the middleware: the server answers or hangs up

edgeVars == <<request, at, received, taken, rejected, early, starts, ctx, header, log,
              crashed>>
bodyVars == <<received, taken, rejected>>

Outside == [id |-> "-", user |-> "nobody"]

\* The status the exception handlers answer with
ExceptionStatus ==
    [RequestValidationError |-> 422, AtsigError |-> 500, NotFoundError |-> 404,
     ForbiddenError |-> 403, UnauthorizedError |-> 401, BadRequestError |-> 400,
     ConflictError |-> 409, ServiceUnavailableError |-> 503,
     UpstreamError |-> 502, UpstreamTimeout |-> 504]   \* the status_code of an UpstreamError

\* What the handler comes to: nothing raised, an exception with a handler, or another
Raises == {"none", "Exception"} \cup DOMAIN ExceptionStatus

Requests ==
    [multipart : BOOLEAN,
     declared : {-1, 1, MaxBody, MaxBody + 1},    \* content-length, -1 = none, or no digits
     route : {"bodyless", "parsed", "streams"},
     sentId : {"valid", "refused"},      \* X-Request-ID; no header counts as refused
     user : {"nobody", "user"},          \* what the unverified token says
     raises : Raises]

\* A GET without anything particular
PlainRequest == [multipart |-> FALSE, declared |-> -1, route |-> "bodyless",
                 sentId |-> "refused", user |-> "user", raises |-> "none"]

EdgeTypeOK ==
    /\ request \in Requests
    /\ at \in {"arrived", "limit", "body", "app", "cut", "done"}
    /\ received \in 0..(BodyCap + MaxBody) /\ taken \in 0..(BodyCap + MaxBody)
    /\ rejected \in BOOLEAN /\ early \in BOOLEAN /\ crashed \in BOOLEAN
    /\ starts \in Seq(Nat)
    /\ header \in {"", "valid", "generated"}

EdgeInit ==
    /\ request \in Requests
    /\ at = "arrived"
    /\ received = 0 /\ taken = 0 /\ rejected = FALSE
    /\ early = FALSE /\ starts = <<>>
    /\ ctx = Outside /\ header = "" /\ log = <<>> /\ crashed = FALSE

-----------------------------------------------------------------------------
(* LoggingContextMiddleware.dispatch *)

\* resolve_request_id
ResolvedId == IF request.sentId = "valid" THEN "valid" ELSE "generated"

InContext == [id |-> ResolvedId, user |-> request.user]

\* The context variables are set, and call_next starts the application.
Enter ==
    /\ at = "arrived"
    /\ ctx' = InContext
    /\ at' = "limit"
    /\ UNCHANGED <<request, bodyVars, early, starts, header, log, crashed>>

Line(kind, status) == [line |-> kind, status |-> status, context |-> ctx]

\* call_next returned at the first message: the access log and the header; the
\* finally block puts the context back.
CallNextReturns(status) ==
    /\ log' = Append(log, Line("access", status))
    /\ header' = ctx.id
    /\ ctx' = Outside

OnlyRaises == UNCHANGED <<log, ctx>>
\* call_next raised: logged in the context of the request.
CallNextRaises == log' = Append(log, Line("exception", 0)) /\ ctx' = Outside

\* An exception of the application: the server answers 500, outside of the
\* middleware, or breaks off the response that has begun.
Unhandled ==
    /\ crashed' = TRUE
    /\ IF starts = <<>> THEN CallNextRaises ELSE UNCHANGED <<log, ctx>>
    /\ UNCHANGED <<starts, header>>

\* A response start goes out; BaseHTTPMiddleware fails at a second one.
Start(status) ==
    /\ starts' = Append(starts, status)
    /\ IF starts = <<>> THEN CallNextReturns(status) /\ UNCHANGED crashed
                        ELSE crashed' = TRUE /\ UNCHANGED <<log, header, ctx>>

NoAnswer == UNCHANGED <<starts, log, header, ctx, crashed>>

-----------------------------------------------------------------------------
(* MultipartBodyLimitMiddleware *)

Limited == request.multipart

\* _reject
Refusal == 400
Reject == Start(Refusal)

\* guarded_send of the first message of an answer
UnguardedSend(status) == Start(status)
GuardedSend(status) == IF Limited /\ rejected THEN NoAnswer ELSE Start(status)

\* The declared length is checked, then the application runs.
CheckLength ==
    /\ at = "limit"
    /\ IF Limited /\ request.declared > MaxBody
         THEN Reject /\ at' = "done"
         ELSE at' = (IF request.route = "parsed" THEN "body" ELSE "app") /\ NoAnswer
    /\ UNCHANGED <<request, bodyVars, early>>

CountsLastOnly(k) == k
\* received += len(body)
Counted(k) == received + k

\* limited_receive has k more bytes, the last ones or not; the application goes
\* on at p when it has them all.
LimitedReceive(k, last, p) ==
    IF Limited /\ Counted(k) > MaxBody
      THEN /\ rejected' = TRUE /\ received' = Counted(k)
           /\ Reject
           /\ at' = "cut" /\ UNCHANGED taken
      ELSE /\ received' = IF Limited THEN Counted(k) ELSE received
           /\ taken' = taken + k
           /\ at' = IF last THEN p ELSE at
           /\ NoAnswer /\ UNCHANGED rejected

\* The framework reads the body ...
ReceiveBody(k, last) ==
    /\ at = "body" /\ taken + k <= BodyCap
    /\ LimitedReceive(k, last, "app")
    /\ UNCHANGED <<request, early>>

\* ... or the handler does.
HandlerReceives(k) ==
    /\ at = "app" /\ request.route = "streams" /\ taken + k <= BodyCap
    /\ LimitedReceive(k, FALSE, "app")
    /\ UNCHANGED <<request, early>>

\* The client hangs up while the body is read.
ClientLeaves ==
    /\ at = "body" \/ (at = "app" /\ request.route = "streams")
    /\ at' = "cut"
    /\ NoAnswer /\ UNCHANGED <<request, bodyVars, early>>

\* Whoever read the body got http.disconnect: ClientDisconnect comes through to
\* the body limit, which swallows it (and nothing else) after a refusal ...
CutRaises ==
    /\ at = "cut" /\ at' = "done"
    /\ IF Limited /\ rejected THEN NoAnswer ELSE Unhandled
    /\ UNCHANGED <<request, bodyVars, early>>

\* ... or the framework answers that it could not parse the body.
CutAnswers ==
    /\ at = "cut" /\ ~early /\ at' = "done"
    /\ GuardedSend(400)
    /\ UNCHANGED <<request, bodyVars, early>>

-----------------------------------------------------------------------------
(* The route *)

\* A streaming handler begins to answer before it has read the body.
StartsEarly ==
    /\ at = "app" /\ request.route = "streams" /\ ~early
    /\ early' = TRUE
    /\ GuardedSend(200)
    /\ UNCHANGED <<request, at, bodyVars>>

\* The handler ends, having read the body or seen its end cut off: its answer,
\* that of an exception handler, or no handler takes the exception (none can once
\* the answer has begun).  After a refusal an answer is dropped; an exception
\* goes through the body limit as it does without one.
HandlerEnds ==
    /\ at = "app" \/ (at = "cut" /\ request.route = "streams")
    /\ at' = "done"
    /\ CASE request.raises = "none" -> IF early THEN NoAnswer ELSE GuardedSend(200)
         [] request.raises \in DOMAIN ExceptionStatus /\ ~early ->
                GuardedSend(ExceptionStatus[request.raises])
         [] OTHER -> Unhandled
    /\ UNCHANGED <<request, bodyVars, early>>

\* A dependency refused the request.
RefusedBy(status) ==
    /\ at = "app" /\ at' = "done"
    /\ GuardedSend(status)
    /\ UNCHANGED <<request, bodyVars, early>>

\* A dependency failed with an exception that has no handler.
DependencyFails ==
    /\ at = "app" /\ at' = "done"
    /\ Unhandled
    /\ UNCHANGED <<request, bodyVars, early>>
=============================================================================
