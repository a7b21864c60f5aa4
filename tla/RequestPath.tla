----------------------------- MODULE RequestPath -----------------------------
(***************************************************************************)
(* One HTTP request all the way: HttpEdge around the dependencies and the  *)
(* handler of AuthGate.  The framework parses a body before it solves the  *)
(* first dependency.                                                       *)
(***************************************************************************)
EXTENDS AuthGate, HttpEdge

pathVars == <<vars, edgeVars>>

\* What the body and the errors of a request can be does not depend on its user:
\* everything else than plain requests is explored for one user and one route.
SomeUser ==
    /\ groups = {Evaluator} /\ claims = RequiredClaims /\ department = "none"
    /\ scopes = {Evaluator} /\ onInvalid = "401" /\ todo = <<"auth">>

PathInit ==
    /\ request = PlainRequest \/ SomeUser
    /\ EdgeInit /\ Init

\* The dependencies are solved and the handler is called.
Solve == at = "app" /\ GateStep /\ UNCHANGED edgeVars

InHandler == outcome = "handler" /\ UNCHANGED vars

StatusOf == [o \in {"401", "403", "503"} |->
                CASE o = "401" -> 401 [] o = "403" -> 403 [] OTHER -> 503]

\* The answer of a dependency that ends the request.
Refused ==
    /\ UNCHANGED vars
    /\ \/ outcome \in DOMAIN StatusOf /\ RefusedBy(StatusOf[outcome])
       \/ outcome = "500" /\ DependencyFails

Done == at = "done" /\ UNCHANGED pathVars

PathNext ==
    \/ Solve \/ Refused \/ Done
    \/ UNCHANGED vars /\ (Enter \/ CheckLength \/ CutRaises \/ CutAnswers)
    \/ UNCHANGED vars /\ (at = "app" => InHandler) /\ ClientLeaves
    \/ \E k \in ChunkSizes, last \in BOOLEAN : UNCHANGED vars /\ ReceiveBody(k, last)
    \/ InHandler /\ (StartsEarly \/ HandlerEnds)
    \/ \E k \in ChunkSizes : InHandler /\ HandlerReceives(k)

PathSpec == PathInit /\ [][PathNext]_pathVars

-----------------------------------------------------------------------------
(* Properties *)

\* A request gets one answer: one response start, or the server's 500 for an
\* exception, never both.  An exception after the refusal of the body leaves the
\* client with the refusal alone.  A handler that begins to answer while it still
\* reads a body over the limit is the exception: the refusal is its second start.
OneAnswer ==
    at = "done" /\ ~(early /\ (rejected \/ crashed)) =>
        IF crashed /\ ~rejected THEN starts = <<>> ELSE Len(starts) = 1

\* An upload over the limit: the application is never given more than
\* max_body_size bytes, nothing of a parsed route runs, and the refusal is all
\* the client is told, whatever else the application answers or raises.
UploadLimited ==
    request.multipart =>
        /\ taken <= MaxBody
        /\ (rejected \/ request.declared > MaxBody) /\ request.route = "parsed" =>
              outcome = "open" /\ decodes = 0
        /\ rejected /\ ~early /\ at = "done" => starts = <<Refusal>>

\* One line of the log for every request, written under the id and the user of
\* the request, with the status (and the id) the client gets; then the context
\* is what it was before.
LoggedOnce ==
    at = "done" =>
        /\ ctx = Outside
        /\ Len(log) = 1 /\ log[1].context = InContext
        /\ IF starts = <<>> THEN log[1].line = "exception"
                            ELSE /\ log[1].line = "access" /\ log[1].status = starts[1]
                                 /\ header = ResolvedId
=============================================================================
