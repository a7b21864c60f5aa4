-------------------------- MODULE RequestPathProofs --------------------------
(* Proofs about RequestPath: what the client, the log and the handler get, for *)
(* every limit, every size of the chunks and every sequence of dependencies.   *)
EXTENDS RequestPath, SequenceTheorems, TLAPS

-----------------------------------------------------------------------------
(* The edge: what has gone out, wherever the request is *)

AccessLine(status) == [line |-> "access", status |-> status, context |-> InContext]
ExceptionLine == [line |-> "exception", status |-> 0, context |-> InContext]

\* Nothing has gone out yet and the context is the request's.
Waiting == starts = <<>> /\ log = <<>> /\ ctx = InContext /\ ~crashed

\* The answer has begun with a status, is logged, and the context is restored.
Told(status) ==
    starts = <<status>> /\ log = <<AccessLine(status)>> /\ header = ResolvedId /\ ctx = Outside

\* The refusal of the body came after the start of the handler's own answer.
StartedTwice ==
    /\ starts = <<200, Refusal>> /\ log = <<AccessLine(200)>> /\ header = ResolvedId
    /\ ctx = Outside /\ crashed

\* The exception left before anything of an answer did.
NeverStarted == starts = <<>> /\ log = <<ExceptionLine>> /\ ctx = Outside /\ crashed

\* The application is running: it may have begun to answer.
Answering == IF early THEN Told(200) /\ ~crashed ELSE Waiting

\* What has gone out is a function of where the request is, whether its body was
\* refused, and whether its handler began to answer before that.
EdgeInv ==
    /\ rejected => Limited
    /\ at = "arrived" => /\ starts = <<>> /\ log = <<>> /\ ctx = Outside
                         /\ ~early /\ ~rejected /\ ~crashed
    /\ at \in {"limit", "body"} => Waiting /\ ~early /\ ~rejected
    /\ at = "app" => Answering /\ ~rejected
    /\ at = "cut" => IF rejected THEN IF early THEN StartedTwice ELSE Told(Refusal) /\ ~crashed
                                 ELSE Answering
    /\ at = "done" =>
         \/ NeverStarted /\ ~rejected
         \/ StartedTwice /\ early
         \/ Told(200) /\ early /\ crashed
         \/ Told(Refusal) /\ rejected /\ ~early
         \/ ~crashed /\ ~(rejected /\ ~early) /\ starts # <<>> /\ Told(starts[1])

\* What is counted is what the application was given, until the limit is passed;
\* and nothing of a parsed route runs before its body is in.
BodyInv ==
    /\ request \in Requests /\ received \in Nat /\ taken \in Nat
    /\ at \in {"arrived", "limit", "body", "app", "cut", "done"}
    /\ Limited => taken <= MaxBody /\ (~rejected => received = taken)
    /\ Limited /\ at \in {"body", "app"} => request.declared <= MaxBody
    /\ request.route = "parsed"
         /\ (at \in {"arrived", "limit", "body", "cut"} \/ rejected
             \/ (Limited /\ request.declared > MaxBody))
       => outcome = "open" /\ decodes = 0

\* Who was accepted: the token was there and decoded, and its groups do.
GateInv ==
    /\ groups \subseteq Paths /\ scopes \subseteq GroupEnum
    /\ context \in [Dependencies -> {"none", "anonymous", "user"}]
    /\ kept => hasToken
    /\ loading \/ authorized \/ context["context"] = "user" => kept
    /\ authorized => ValidateUserGroups(Groups, scopes)

\* The sequences the edge builds have at most two elements.
LEMMA ShortSequences ==
    /\ \A x : Append(<<>>, x) = <<x>>
    /\ \A x, y : Append(<<x>>, y) = <<x, y>>
    /\ \A x : <<x>> # <<>> /\ <<x>>[1] = x /\ Len(<<x>>) = 1
    /\ \A x, y : <<x, y>> # <<>> /\ <<x, y>>[1] = x /\ Len(<<x, y>>) = 2
<1>1. \A x : Append(<<>>, x) = <<x>>
  OBVIOUS
<1>2. ASSUME NEW x, NEW y PROVE Append(<<x>>, y) = <<x, y>>
  <2>1. <<x>> \in Seq({x, y}) /\ <<x, y>> \in Seq({x, y})
    OBVIOUS
  <2>2. /\ Append(<<x>>, y) \in Seq({x, y}) /\ Len(Append(<<x>>, y)) = 2
        /\ Append(<<x>>, y)[1] = x /\ Append(<<x>>, y)[2] = y
    BY <2>1, AppendProperties
  <2>3. Len(<<x, y>>) = 2 /\ <<x, y>>[1] = x /\ <<x, y>>[2] = y
    OBVIOUS
  <2> DEFINE s == Append(<<x>>, y)
             t == <<x, y>>
  <2>4. \A i \in 1..Len(s) : s[i] = t[i]
    BY <2>2, <2>3
  <2>5. s \in Seq({x, y}) /\ t \in Seq({x, y}) /\ Len(s) = Len(t)
    BY <2>1, <2>2, <2>3
  <2> HIDE DEF s, t
  <2>6. s = t
    BY <2>4, <2>5, SeqEqual
  <2> QED
    BY <2>6 DEF s, t
<1>3. \A x : <<x>> # <<>> /\ <<x>>[1] = x /\ Len(<<x>>) = 1
  OBVIOUS
<1>4. \A x, y : <<x, y>> # <<>> /\ <<x, y>>[1] = x /\ Len(<<x, y>>) = 2
  OBVIOUS
<1> QED
  BY <1>1, <1>2, <1>3, <1>4

\* The first response start is logged and leaves the context.
LEMMA FirstStart ==
    ASSUME NEW status, Waiting, Start(status), UNCHANGED request
    PROVE  Told(status)' /\ ~crashed'
<1>1. /\ starts' = <<status>> /\ header' = ctx.id /\ ctx' = Outside /\ crashed' = crashed
      /\ log' = <<[line |-> "access", status |-> status, context |-> ctx]>>
  BY ShortSequences, Zenon DEF Waiting, Start, CallNextReturns, Line
<1>2. ctx.id = ResolvedId /\ ctx = InContext
  BY DEF Waiting, InContext
<1>3. ResolvedId' = ResolvedId /\ InContext' = InContext
  BY DEF ResolvedId, InContext
<1> QED
  BY <1>1, <1>2, <1>3, Zenon DEF Told, AccessLine, Waiting

\* A second one breaks the response off.
LEMMA SecondStart ==
    ASSUME Told(200), Start(Refusal), UNCHANGED request
    PROVE  StartedTwice'
<1>1. starts # <<>> /\ starts' = <<200, Refusal>>
  BY ShortSequences, ZenonT(60) DEF Told, Start
<1>2. crashed' = TRUE /\ log' = log /\ header' = header /\ ctx' = ctx
  BY <1>1, Zenon DEF Start
<1>3. ResolvedId' = ResolvedId /\ InContext' = InContext
  BY DEF ResolvedId, InContext
<1> QED
  BY <1>1, <1>2, <1>3, Zenon DEF Told, StartedTwice, AccessLine

\* An exception before any start is logged in the context of the request ...
LEMMA UnhandledFirst ==
    ASSUME Waiting, Unhandled, UNCHANGED request
    PROVE  NeverStarted'
<1>1. /\ starts' = <<>> /\ crashed' = TRUE /\ ctx' = Outside
      /\ log' = <<[line |-> "exception", status |-> 0, context |-> ctx]>>
  BY ShortSequences, Zenon DEF Waiting, Unhandled, CallNextRaises, Line
<1>2. InContext' = InContext /\ ctx = InContext
  BY DEF ResolvedId, InContext, Waiting
<1> QED
  BY <1>1, <1>2, Zenon DEF NeverStarted, ExceptionLine

\* ... and after one changes nothing of what has gone out.
LEMMA UnhandledLater ==
    ASSUME NEW status, Told(status), Unhandled, UNCHANGED request
    PROVE  Told(status)' /\ crashed'
<1>1. starts # <<>>
  BY ShortSequences, Zenon DEF Told
<1>2. crashed' = TRUE /\ starts' = starts /\ log' = log /\ header' = header /\ ctx' = ctx
  BY <1>1, Zenon DEF Unhandled
<1>3. ResolvedId' = ResolvedId /\ InContext' = InContext
  BY DEF ResolvedId, InContext
<1> QED
  BY <1>2, <1>3, Zenon DEF Told, AccessLine

\* A step that sends nothing keeps what has gone out.
LEMMA SentNothing ==
    ASSUME NoAnswer, UNCHANGED request
    PROVE  /\ Waiting' = Waiting /\ StartedTwice' = StartedTwice /\ NeverStarted' = NeverStarted
           /\ \A status : Told(status)' = Told(status)
           /\ UNCHANGED <<starts, crashed, Limited>>
BY ZenonT(60) DEF NoAnswer, Waiting, StartedTwice, NeverStarted, Told, InContext, ResolvedId, AccessLine,
             ExceptionLine, Limited

\* Nothing of the edge changes, and neither does what has gone out.
LEMMA EdgeKept ==
    ASSUME EdgeInv, UNCHANGED edgeVars PROVE EdgeInv'
BY ZenonT(60) DEF edgeVars, EdgeInv, Waiting, StartedTwice, NeverStarted, Told, Answering, InContext,
             ResolvedId, AccessLine, ExceptionLine, Limited

\* The declared length is refused at once, or the application starts.
LEMMA CheckLengthEdge ==
    ASSUME EdgeInv, CheckLength PROVE EdgeInv'
<1> USE DEF EdgeInv, Answering
<1>1. at = "limit" /\ Waiting /\ ~early /\ ~rejected
  BY DEF CheckLength
<1>2. UNCHANGED <<request, rejected, early, Limited>>
  BY DEF CheckLength, bodyVars, Limited
<1>3. CASE Limited /\ request.declared > MaxBody
  <2>1. Told(Refusal)' /\ ~crashed' /\ at' = "done"
    BY <1>1, <1>2, <1>3, FirstStart, Zenon DEF CheckLength, Reject
  <2>2. starts' # <<>> /\ starts'[1] = Refusal
    BY <2>1, ShortSequences, Zenon DEF Told
  <2> QED
    BY <1>1, <1>2, <2>1, <2>2
<1>4. CASE ~(Limited /\ request.declared > MaxBody)
  <2>1. NoAnswer /\ at' \in {"body", "app"}
    BY <1>4, Zenon DEF CheckLength
  <2>2. Waiting'
    BY <1>1, <1>2, <2>1, SentNothing
  <2> QED
    BY <1>1, <1>2, <2>1, <2>2
<1> QED
  BY <1>3, <1>4

\* Bytes arrive: they pass, or the refusal goes out, the first start or the second.
LEMMA ReceiveEdge ==
    ASSUME EdgeInv, NEW k, NEW last, at \in {"body", "app"},
           LimitedReceive(k, last, "app"), UNCHANGED <<request, early>>
    PROVE  EdgeInv'
<1> USE DEF EdgeInv, Answering
<1>1. ~rejected /\ (IF early THEN Told(200) /\ ~crashed ELSE Waiting)
  OBVIOUS
<1>2. Limited' = Limited
  BY DEF Limited
<1>3. CASE Limited /\ Counted(k) > MaxBody
  <2>1. rejected' = TRUE /\ at' = "cut" /\ Start(Refusal)
    BY <1>3, Zenon DEF LimitedReceive, Reject
  <2>2. CASE early
    <3>1. StartedTwice'
      BY <1>1, <2>1, <2>2, SecondStart
    <3> QED
      BY <1>2, <1>3, <2>1, <2>2, <3>1, Zenon
  <2>3. CASE ~early
    <3>1. Told(Refusal)' /\ ~crashed'
      BY <1>1, <2>1, <2>3, FirstStart
    <3> QED
      BY <1>2, <1>3, <2>1, <2>3, <3>1, Zenon
  <2> QED
    BY <2>2, <2>3
<1>4. CASE ~(Limited /\ Counted(k) > MaxBody)
  <2>1. NoAnswer /\ rejected' = rejected /\ at' \in {at, "app"}
    BY <1>4, Zenon DEF LimitedReceive
  <2>2. Waiting' = Waiting /\ Told(200)' = Told(200) /\ crashed' = crashed
    BY <2>1, SentNothing, Zenon
  <2> QED
    BY <1>1, <1>2, <2>1, <2>2, Zenon
<1> QED
  BY <1>3, <1>4

\* The request ends with an answer of the application, its first start.
LEMMA AnswerEdge ==
    ASSUME EdgeInv, NEW status, Waiting, ~rejected, GuardedSend(status), at' = "done",
           UNCHANGED <<request, early, rejected>>
    PROVE  EdgeInv'
<1>1. Told(status)' /\ ~crashed'
  BY FirstStart, Zenon DEF GuardedSend
<1>2. starts' # <<>> /\ starts'[1] = status
  BY <1>1, ShortSequences, Zenon DEF Told
<1> QED
  BY <1>1, <1>2, Zenon DEF EdgeInv, Limited

\* The request ends with an exception nothing of the application takes.
LEMMA UnhandledEdge ==
    ASSUME EdgeInv, Answering, ~rejected, Unhandled, at' = "done",
           UNCHANGED <<request, early, rejected>>
    PROVE  EdgeInv'
<1>1. CASE early
  <2>1. Told(200)' /\ crashed'
    BY <1>1, UnhandledLater DEF Answering
  <2> QED
    BY <1>1, <2>1, Zenon DEF EdgeInv, Limited
<1>2. CASE ~early
  <2>1. NeverStarted'
    BY <1>2, UnhandledFirst DEF Answering
  <2> QED
    BY <1>2, <2>1, Zenon DEF EdgeInv, Limited
<1> QED
  BY <1>1, <1>2

\* The request ends after its refusal: whatever is answered or raised now, the
\* client has the refusal.
LEMMA RefusedEdge ==
    ASSUME EdgeInv, at = "cut", rejected, NoAnswer \/ Unhandled, at' = "done",
           UNCHANGED <<request, early, rejected>>
    PROVE  EdgeInv'
<1>1. CASE early
  <2>1. StartedTwice
    BY <1>1 DEF EdgeInv
  <2>2. starts # <<>>
    BY <2>1, ShortSequences, Zenon DEF StartedTwice
  <2>3. /\ starts' = starts /\ log' = log /\ header' = header /\ ctx' = ctx
        /\ crashed' = TRUE \/ crashed' = crashed
    BY <2>2, Zenon DEF NoAnswer, Unhandled
  <2>4. StartedTwice'
    BY <2>1, <2>3, Zenon DEF StartedTwice, AccessLine, InContext, ResolvedId
  <2> QED
    BY <1>1, <2>4, Zenon DEF EdgeInv, Limited
<1>2. CASE ~early
  <2>1. Told(Refusal)
    BY <1>2 DEF EdgeInv
  <2>2. Told(Refusal)'
    BY <2>1, UnhandledLater, SentNothing, Zenon
  <2> QED
    BY <1>2, <2>2, Zenon DEF EdgeInv, Limited
<1> QED
  BY <1>1, <1>2

\* The client left, or the body was refused: after a refusal nothing more goes out.
LEMMA CutEdge ==
    ASSUME EdgeInv, CutRaises \/ CutAnswers PROVE EdgeInv'
<1>1. at = "cut" /\ at' = "done" /\ UNCHANGED <<request, rejected, early>>
  BY DEF CutRaises, CutAnswers, bodyVars
<1>2. CASE rejected
  <2>1. NoAnswer
    BY <1>2, Zenon DEF CutRaises, CutAnswers, GuardedSend, EdgeInv
  <2> QED
    BY <1>1, <1>2, <2>1, RefusedEdge
<1>3. CASE ~rejected
  <2>1. Answering
    BY <1>1, <1>3 DEF EdgeInv
  <2>2. CASE CutRaises
    BY <1>1, <1>3, <2>1, <2>2, UnhandledEdge, Zenon DEF CutRaises
  <2>3. CASE CutAnswers
    <3>1. Waiting /\ GuardedSend(400)
      BY <2>1, <2>3 DEF CutAnswers, Answering
    <3> QED
      BY <1>1, <1>3, <3>1, AnswerEdge
  <2> QED
    BY <2>2, <2>3
<1> QED
  BY <1>2, <1>3

\* The handler begins its answer.
LEMMA StartsEdge ==
    ASSUME EdgeInv, StartsEarly PROVE EdgeInv'
<1>1. at = "app" /\ ~rejected /\ Answering /\ UNCHANGED <<request, rejected>>
  BY DEF StartsEarly, bodyVars, EdgeInv
<1>2. ~early /\ early' = TRUE /\ at' = "app" /\ Start(200)
  BY <1>1, Zenon DEF StartsEarly, GuardedSend
<1>3. Told(200)' /\ ~crashed'
  BY <1>1, <1>2, FirstStart DEF Answering
<1> QED
  BY <1>1, <1>2, <1>3, Zenon DEF EdgeInv, Answering, Limited

\* The handler ends, with its body or after it was cut off.
LEMMA HandlerEdge ==
    ASSUME EdgeInv, HandlerEnds PROVE EdgeInv'
<1>1. at \in {"app", "cut"} /\ at' = "done" /\ UNCHANGED <<request, rejected, early>>
  BY DEF HandlerEnds, bodyVars
<1>2. \/ early /\ NoAnswer
      \/ ~early /\ \E status : GuardedSend(status)
      \/ Unhandled
  BY Zenon DEF HandlerEnds
<1>3. CASE rejected
  <2>1. at = "cut" /\ Limited
    BY <1>1, <1>3 DEF EdgeInv
  <2>2. NoAnswer \/ Unhandled
    BY <1>2, <1>3, <2>1, Zenon DEF GuardedSend
  <2> QED
    BY <1>1, <1>3, <2>1, <2>2, RefusedEdge
<1>4. CASE ~rejected
  <2>1. Answering
    BY <1>1, <1>4 DEF EdgeInv
  <2>2. CASE early /\ NoAnswer
    <3>1. Told(200) /\ ~crashed
      BY <2>1, <2>2 DEF Answering
    <3>2. Told(200)' /\ crashed' = crashed
      BY <1>1, <2>2, <3>1, SentNothing, Zenon
    <3>3. starts' # <<>> /\ starts'[1] = 200
      BY <3>2, ShortSequences, Zenon DEF Told
    <3> QED
      BY <1>1, <1>4, <2>2, <3>1, <3>2, <3>3, Zenon DEF EdgeInv, Limited
  <2>3. CASE ~early /\ \E status : GuardedSend(status)
    <3>1. PICK status : GuardedSend(status)
      BY <2>3
    <3>2. Waiting
      BY <2>1, <2>3 DEF Answering
    <3> QED
      BY <1>1, <1>4, <3>1, <3>2, AnswerEdge
  <2>4. CASE Unhandled
    BY <1>1, <1>4, <2>1, <2>4, UnhandledEdge
  <2> QED
    BY <1>2, <2>2, <2>3, <2>4
<1> QED
  BY <1>3, <1>4

\* The dependencies are solved before the handler begins to answer.
SolvedFirst == early => outcome = "handler"

\* Every step keeps the edge.
LEMMA NextEdge ==
    ASSUME EdgeInv, SolvedFirst, [PathNext]_pathVars
    PROVE  EdgeInv' /\ SolvedFirst'
<1>1. CASE Solve
  <2>1. UNCHANGED edgeVars
    BY <1>1 DEF Solve
  <2>2. EdgeInv'
    BY <2>1, EdgeKept
  <2>3. early' = early /\ (outcome # "handler" \/ outcome' = outcome)
    BY <1>1, <2>1 DEF Solve, GateStep, Changes, GetAuth, GetAuthContext, GetOptionalAuthContext,
                     LoadRole, LoadFails, GiveContext, Handle, Solving, edgeVars
  <2> QED
    BY <2>2, <2>3, Zenon DEF SolvedFirst
<1>2. CASE Refused
  <2>1. /\ at = "app" /\ at' = "done" /\ UNCHANGED <<request, rejected, early, outcome>>
        /\ (\E status : GuardedSend(status)) \/ Unhandled
        /\ outcome # "handler"
    BY <1>2, Zenon DEF Refused, RefusedBy, DependencyFails, bodyVars, vars, StatusOf
  <2>2. ~early /\ Waiting /\ Answering /\ ~rejected
    BY <2>1 DEF EdgeInv, Answering, SolvedFirst
  <2>3. CASE Unhandled
    BY <2>1, <2>2, <2>3, UnhandledEdge DEF SolvedFirst
  <2>4. CASE \E status : GuardedSend(status)
    BY <2>1, <2>2, <2>4, AnswerEdge DEF SolvedFirst
  <2> QED
    BY <2>1, <2>3, <2>4
<1>3. CASE UNCHANGED vars /\ Enter
  <2>1. /\ at' = "limit" /\ ctx' = InContext /\ at = "arrived"
        /\ UNCHANGED <<request, rejected, early, starts, log, crashed, outcome>>
    BY <1>3 DEF Enter, bodyVars, vars
  <2>2. InContext' = InContext /\ Limited' = Limited
    BY <2>1 DEF InContext, ResolvedId, Limited
  <2> QED
    BY <2>1, <2>2, Zenon DEF EdgeInv, Waiting, SolvedFirst
<1>4. CASE UNCHANGED vars /\ CheckLength
  <2>1. UNCHANGED <<early, outcome>>
    BY <1>4 DEF CheckLength, vars
  <2> QED
    BY <1>4, <2>1, CheckLengthEdge, Zenon DEF SolvedFirst
<1>5. CASE UNCHANGED vars /\ (CutRaises \/ CutAnswers)
  <2>1. UNCHANGED <<early, outcome>>
    BY <1>5 DEF CutRaises, CutAnswers, vars
  <2> QED
    BY <1>5, <2>1, CutEdge, Zenon DEF SolvedFirst
<1>6. CASE UNCHANGED vars /\ (at = "app" => InHandler) /\ ClientLeaves
  <2>1. /\ at \in {"body", "app"} /\ at' = "cut" /\ NoAnswer
        /\ UNCHANGED <<request, rejected, early, outcome>>
    BY <1>6 DEF ClientLeaves, bodyVars, vars
  <2>2. /\ Waiting' = Waiting /\ Told(200)' = Told(200)
        /\ crashed' = crashed /\ Limited' = Limited
    BY <2>1, SentNothing, Zenon
  <2>3. ~rejected /\ Answering
    BY <2>1 DEF EdgeInv, Answering
  <2> QED
    BY <2>1, <2>2, <2>3, Zenon DEF EdgeInv, SolvedFirst, Answering
<1>7. CASE \E k \in ChunkSizes, last \in BOOLEAN : UNCHANGED vars /\ ReceiveBody(k, last)
  <2>1. PICK k, last : UNCHANGED vars /\ ReceiveBody(k, last)
    BY <1>7
  <2>2. UNCHANGED <<early, request, outcome>> /\ at = "body" /\ LimitedReceive(k, last, "app")
    BY <2>1 DEF ReceiveBody, vars
  <2> QED
    BY <2>2, ReceiveEdge DEF SolvedFirst
<1>8. CASE InHandler /\ (StartsEarly \/ HandlerEnds)
  <2>1. outcome' = "handler"
    BY <1>8 DEF InHandler, vars
  <2> QED
    BY <1>8, <2>1, StartsEdge, HandlerEdge DEF SolvedFirst
<1>9. CASE \E k \in ChunkSizes : InHandler /\ HandlerReceives(k)
  <2>1. PICK k : InHandler /\ HandlerReceives(k)
    BY <1>9
  <2>2. UNCHANGED <<early, request, outcome>> /\ at = "app" /\ LimitedReceive(k, FALSE, "app")
    BY <2>1 DEF HandlerReceives, InHandler, vars
  <2>3. PICK last : LimitedReceive(k, last, "app")
    BY <2>2, Zenon
  <2>4. EdgeInv'
    BY <2>2, <2>3, ReceiveEdge
  <2> QED
    BY <2>2, <2>4, Zenon DEF SolvedFirst
<1>10. CASE UNCHANGED pathVars
  <2>1. UNCHANGED edgeVars /\ UNCHANGED <<early, outcome>>
    BY <1>10 DEF pathVars, edgeVars, vars
  <2> QED
    BY <2>1, EdgeKept DEF SolvedFirst
<1> QED
  BY <1>1, <1>2, <1>3, <1>4, <1>5, <1>6, <1>7, <1>8, <1>9, <1>10 DEF PathNext, Done

\* The request has not arrived.
LEMMA InitEdge == PathInit => EdgeInv /\ SolvedFirst
BY Zenon DEF PathInit, EdgeInit, EdgeInv, SolvedFirst

\* What the client and the log have got follows where the request is
\* (LoggingContextMiddleware around MultipartBodyLimitMiddleware around the route).
THEOREM EdgeInvariance == PathSpec => [](EdgeInv /\ SolvedFirst)
<1> QED
  BY InitEdge, NextEdge, PTL DEF PathSpec

\* A request gets one answer, or the server's 500 for an exception, never both;
\* after a refusal the refusal is the one, whatever exception follows it.
THEOREM AnsweredOnce == PathSpec => []OneAnswer
<1>1. EdgeInv => OneAnswer
  <2> SUFFICES ASSUME EdgeInv, at = "done", ~(early /\ (rejected \/ crashed))
               PROVE  IF crashed /\ ~rejected THEN starts = <<>> ELSE Len(starts) = 1
    BY DEF OneAnswer
  <2>1. \/ NeverStarted /\ ~rejected
        \/ rejected /\ Told(Refusal)
        \/ ~crashed /\ Told(starts[1])
    BY Zenon DEF EdgeInv, StartedTwice
  <2> QED
    BY <2>1, ShortSequences, Zenon DEF NeverStarted, Told
<1> QED
  BY <1>1, EdgeInvariance, PTL

\* One line of the log per request, under its own id and user, with the status
\* the client got; then the context is what it was before.
THEOREM LogIsExact == PathSpec => []LoggedOnce
<1>1. EdgeInv => LoggedOnce
  <2> SUFFICES ASSUME EdgeInv, at = "done" PROVE LoggedOnce
    BY DEF LoggedOnce
  <2>0. ASSUME NEW status, Told(status) PROVE starts # <<>> /\ starts[1] = status
    BY <2>0, ShortSequences, Zenon DEF Told
  <2>1. \/ NeverStarted
        \/ StartedTwice
        \/ starts # <<>> /\ Told(starts[1])
    BY <2>0 DEF EdgeInv
  <2>2. CASE NeverStarted
    <3>1. log[1] = ExceptionLine /\ Len(log) = 1 /\ starts = <<>> /\ ctx = Outside
      BY <2>2, ShortSequences, Zenon DEF NeverStarted
    <3> QED
      BY <3>1 DEF ExceptionLine, LoggedOnce
  <2>3. CASE StartedTwice
    <3>1. /\ log[1] = AccessLine(200) /\ Len(log) = 1 /\ starts # <<>> /\ starts[1] = 200
          /\ ctx = Outside /\ header = ResolvedId
      BY <2>3, ShortSequences, Zenon DEF StartedTwice
    <3> QED
      BY <3>1 DEF AccessLine, LoggedOnce
  <2>4. CASE starts # <<>> /\ Told(starts[1])
    <3>1. /\ log[1] = AccessLine(starts[1]) /\ Len(log) = 1
          /\ ctx = Outside /\ header = ResolvedId
      BY <2>4, ShortSequences, Zenon DEF Told
    <3> QED
      BY <2>4, <3>1 DEF AccessLine, LoggedOnce
  <2> QED
    BY <2>1, <2>2, <2>3, <2>4
<1> QED
  BY <1>1, EdgeInvariance, PTL

-----------------------------------------------------------------------------
(* The body *)

\* Bytes arrive: what is counted and what is given stay within the limit.
LEMMA ReceiveBodyInv ==
    ASSUME BodyInv, EdgeInv, NEW k \in Nat, NEW last, at \in {"body", "app"},
           at = "body" \/ request.route = "streams",
           LimitedReceive(k, last, "app"), UNCHANGED <<request, outcome, decodes>>
    PROVE  BodyInv'
<1>1. ~rejected /\ Limited' = Limited
  BY DEF EdgeInv, Limited
<1>2. CASE Limited /\ Counted(k) > MaxBody
  <2>1. /\ rejected' = TRUE /\ received' = received + k /\ at' = "cut" /\ taken' = taken
    BY <1>2, Zenon DEF LimitedReceive, Counted
  <2>2. received' \in Nat
    BY <2>1 DEF BodyInv
  <2> QED
    BY <1>1, <2>1, <2>2 DEF BodyInv
<1>3. CASE ~(Limited /\ Counted(k) > MaxBody)
  <2>1. /\ rejected' = rejected /\ taken' = taken + k /\ at' \in {at, "app"}
        /\ received' = IF Limited THEN received + k ELSE received
    BY <1>3, Zenon DEF LimitedReceive, Counted
  <2>2. received' \in Nat /\ taken' \in Nat
    BY <2>1 DEF BodyInv
  <2>3. ASSUME Limited PROVE taken' <= MaxBody /\ received' = taken'
    BY <1>1, <1>3, <2>1, <2>3, EdgeAssumption DEF BodyInv, Counted
  <2> QED
    BY <1>1, <2>1, <2>2, <2>3 DEF BodyInv
<1> QED
  BY <1>2, <1>3

\* Every step keeps the account of the body.
LEMMA NextBody ==
    ASSUME BodyInv, EdgeInv, [PathNext]_pathVars
    PROVE  BodyInv'
<1> USE DEF BodyInv
<1>1. CASE Solve
  <2>1. at = "app" /\ UNCHANGED <<request, received, taken, at, rejected>>
    BY <1>1 DEF Solve, edgeVars
  <2>2. ~rejected /\ Limited' = Limited
    BY <2>1 DEF EdgeInv, Limited
  <2>3. request.declared \in Int /\ MaxBody \in Nat
    BY EdgeAssumption DEF Requests
  <2> QED
    BY <2>1, <2>2, <2>3
<1>2. CASE UNCHANGED vars /\ (Enter \/ CheckLength)
  <2>1. /\ at \in {"arrived", "limit"} /\ UNCHANGED <<request, received, taken, rejected, vars>>
        /\ at' \in {"limit", "body", "app", "done"}
        /\ at' \in {"body", "app"} => ~(Limited /\ request.declared > MaxBody)
        /\ at' = "app" => request.route # "parsed"
    BY <1>2, Zenon DEF Enter, CheckLength, bodyVars
  <2>2. Limited' = Limited /\ UNCHANGED <<outcome, decodes>>
    BY <2>1 DEF Limited, vars
  <2>3. request.declared \in Int /\ MaxBody \in Nat
    BY EdgeAssumption DEF Requests
  <2> QED
    BY <2>1, <2>2, <2>3
<1>3. CASE \E k \in ChunkSizes, last \in BOOLEAN : UNCHANGED vars /\ ReceiveBody(k, last)
  <2>1. PICK k \in ChunkSizes, last \in BOOLEAN : UNCHANGED vars /\ ReceiveBody(k, last)
    BY <1>3
  <2>2. /\ UNCHANGED <<request, outcome, decodes>> /\ at = "body" /\ LimitedReceive(k, last, "app")
        /\ k \in Nat
    BY <2>1, EdgeAssumption DEF ReceiveBody, vars
  <2> HIDE DEF BodyInv
  <2> QED
    BY <2>2, ReceiveBodyInv
<1>4. CASE \E k \in ChunkSizes : InHandler /\ HandlerReceives(k)
  <2>1. PICK k \in ChunkSizes : InHandler /\ HandlerReceives(k)
    BY <1>4
  <2>2. /\ UNCHANGED <<request, outcome, decodes>> /\ at = "app" /\ request.route = "streams"
        /\ k \in Nat
    BY <2>1, EdgeAssumption DEF HandlerReceives, InHandler, vars
  <2>3. PICK last : LimitedReceive(k, last, "app")
    BY <2>1, Zenon DEF HandlerReceives
  <2> HIDE DEF BodyInv
  <2> QED
    BY <2>2, <2>3, ReceiveBodyInv
<1>5. CASE \/ Refused
           \/ UNCHANGED vars /\ (CutRaises \/ CutAnswers)
           \/ InHandler /\ (StartsEarly \/ HandlerEnds)
           \/ UNCHANGED vars /\ (at = "app" => InHandler) /\ ClientLeaves
  <2>1. /\ at \in {"body", "app", "cut"} /\ at' \in {"done", "app", "cut"}
        /\ at' = "app" => at = "app"
        /\ at' = "cut" => at = "body" \/ request.route = "streams"
        /\ UNCHANGED <<request, received, taken, rejected, vars>>
    BY <1>5, Zenon DEF Refused, RefusedBy, DependencyFails, CutRaises, CutAnswers, InHandler,
                      StartsEarly, HandlerEnds, ClientLeaves, bodyVars
  <2>2. Limited' = Limited /\ UNCHANGED <<outcome, decodes>>
    BY <2>1 DEF Limited, vars
  <2>3. at \in {"body", "app"} => ~rejected
    BY DEF EdgeInv
  <2>4. request.declared \in Int /\ MaxBody \in Nat
    BY EdgeAssumption DEF Requests
  <2> QED
    BY <2>1, <2>2, <2>3, <2>4
<1>6. CASE UNCHANGED pathVars
  BY <1>6 DEF pathVars, edgeVars, vars, Limited
<1> QED
  BY <1>1, <1>2, <1>3, <1>4, <1>5, <1>6 DEF PathNext, Done

\* Nothing has been read.
LEMMA InitBody == PathInit => BodyInv
<1> SUFFICES ASSUME PathInit PROVE BodyInv
  OBVIOUS
<1>1. outcome = "open" /\ decodes = 0
  BY Zenon DEF PathInit, Init
<1>2. /\ request \in Requests /\ at = "arrived" /\ received = 0 /\ taken = 0
  BY Zenon DEF PathInit, EdgeInit
<1> QED
  BY <1>1, <1>2, EdgeAssumption DEF BodyInv

\* An upload over the limit is cut off: the application never has more than
\* max_body_size bytes of it, a parsed route does not run, and the client is told.
THEOREM UploadIsLimited == PathSpec => []UploadLimited
<1>1. PathInit => BodyInv /\ EdgeInv /\ SolvedFirst
  BY InitBody, InitEdge
<1>2. (BodyInv /\ EdgeInv /\ SolvedFirst) /\ [PathNext]_pathVars
        => (BodyInv /\ EdgeInv /\ SolvedFirst)'
  BY NextBody, NextEdge
<1>3. BodyInv /\ EdgeInv => UploadLimited
  <2> SUFFICES ASSUME BodyInv, EdgeInv, Limited PROVE UploadLimited
    BY DEF UploadLimited, Limited
  <2>1. taken <= MaxBody
    BY DEF BodyInv
  <2>2. ASSUME rejected \/ request.declared > MaxBody, request.route = "parsed"
        PROVE  outcome = "open" /\ decodes = 0
    BY <2>2 DEF BodyInv
  <2>3. ASSUME rejected, ~early, at = "done" PROVE starts = <<Refusal>>
    BY <2>3, Zenon DEF EdgeInv, Told
  <2> QED
    BY <2>1, <2>2, <2>3, Zenon DEF UploadLimited
<1> QED
  BY <1>1, <1>2, <1>3, PTL DEF PathSpec

-----------------------------------------------------------------------------
(* The dependencies *)

\* One decode: the claims are kept, or an error is all there is.
LEMMA DecodeKeeps ==
    ASSUME NEW v, DecodeOnce(v)
    PROVE  /\ v = "claims" => kept'
           /\ kept => kept' /\ v = "claims"
           /\ ~kept => v = verdict
BY Zenon DEF DecodeOnce, Keeps

\* What a step of the dependencies may come to: nothing accepted or refused, a
\* refusal, get_auth's acceptance, a context that starts to load, an anonymous
\* user without or with a token, a context that is given.
LEMMA GateSteps ==
    ASSUME GateStep
    PROVE  /\ UNCHANGED tokenVars
           /\ \/ /\ UNCHANGED <<kept, authorized, context>> /\ loading' = loading
              \/ /\ hasToken /\ (kept => kept') /\ UNCHANGED <<loading, authorized, context>>
              \/ /\ hasToken /\ kept' /\ ValidateUserGroups(Groups, scopes)
                 /\ UNCHANGED <<loading, context>>
              \/ /\ hasToken /\ kept' /\ UNCHANGED <<authorized, context>>
              \/ /\ kept' = kept /\ UNCHANGED <<loading, authorized>>
                 /\ context' = [context EXCEPT !["optional"] = "anonymous"]
                 /\ ~hasToken
              \/ /\ hasToken /\ (kept => kept') /\ UNCHANGED <<loading, authorized>>
                 /\ context' = [context EXCEPT !["optional"] = "anonymous"]
                 /\ (~kept /\ verdict = "401") \/ ~ContextBuilds
              \/ /\ loading /\ UNCHANGED <<kept, authorized>> /\ loading' = FALSE
                 /\ context' = [context EXCEPT ![Head(todo)] = "user"]
<1>1. CASE Changes \/ LoadRole \/ Handle
  BY <1>1 DEF Changes, LoadRole, Handle
<1>2. CASE LoadFails
  BY <1>2 DEF LoadFails, Refuse
<1>3. CASE GiveContext
  BY <1>3 DEF GiveContext
<1>4. CASE GetAuth /\ ~hasToken
  BY <1>4, Zenon DEF GetAuth, Refuse
<1>5. CASE GetAuth /\ hasToken
  <2>1. PICK v \in {"claims", "401", "503"} :
          /\ DecodeOnce(v)
          /\ CASE v # "claims" -> Refuse(v)
               [] v = "claims" /\ ~ValidateUserGroups(Groups, scopes) -> Refuse("403")
               [] OTHER -> /\ authorized' = TRUE /\ todo' = Tail(todo)
                           /\ UNCHANGED <<loading, context, outcome>>
    BY <1>5, Zenon DEF GetAuth
  <2>2. UNCHANGED tokenVars
    BY <1>5 DEF GetAuth
  <2>3. \/ UNCHANGED <<loading, authorized, context>>
        \/ v = "claims" /\ ValidateUserGroups(Groups, scopes) /\ UNCHANGED <<loading, context>>
    BY <2>1, Zenon DEF Refuse
  <2> QED
    BY <1>5, <2>1, <2>2, <2>3, DecodeKeeps, Zenon
<1>6. CASE GetAuthContext /\ ~hasToken
  BY <1>6, Zenon DEF GetAuthContext, Refuse
<1>7. CASE GetAuthContext /\ hasToken
  <2>1. PICK v \in {"claims", "401", "503"} :
          /\ DecodeOnce(v)
          /\ CASE v # "claims" -> Refuse(v)
               [] v = "claims" /\ ~ContextBuilds -> Refuse("401")
               [] OTHER -> BeginLoading
    BY <1>7, Zenon DEF GetAuthContext
  <2>2. UNCHANGED tokenVars
    BY <1>7 DEF GetAuthContext
  <2>3. \/ UNCHANGED <<loading, authorized, context>>
        \/ v = "claims" /\ UNCHANGED <<authorized, context>>
    BY <2>1, Zenon DEF Refuse, BeginLoading
  <2> QED
    BY <1>7, <2>1, <2>2, <2>3, DecodeKeeps, Zenon
<1>8. CASE GetOptionalAuthContext /\ ~hasToken
  BY <1>8, Zenon DEF GetOptionalAuthContext, Anonymous
<1>9. CASE GetOptionalAuthContext /\ hasToken
  <2>1. PICK v \in {"claims", "401", "503"} :
          /\ DecodeOnce(v)
          /\ CASE v # "claims" /\ ~IsHTTPException(v) -> Refuse(v)
               [] v # "claims" /\ IsHTTPException(v) -> InvalidToken
               [] v = "claims" /\ ~ContextBuilds -> InvalidToken
               [] OTHER -> BeginLoading
    BY <1>9, Zenon DEF GetOptionalAuthContext
  <2>2. UNCHANGED tokenVars
    BY <1>9 DEF GetOptionalAuthContext
  <2>3. \/ UNCHANGED <<loading, authorized, context>>
        \/ (v = "401" \/ ~ContextBuilds) /\ Anonymous
        \/ v = "claims" /\ UNCHANGED <<authorized, context>>
    BY <2>1, Zenon DEF Refuse, BeginLoading, InvalidToken, IsHTTPException
  <2>4. \/ UNCHANGED <<loading, authorized, context>>
        \/ /\ (~kept /\ verdict = "401") \/ ~ContextBuilds
           /\ UNCHANGED <<loading, authorized>>
           /\ context' = [context EXCEPT !["optional"] = "anonymous"]
        \/ v = "claims" /\ UNCHANGED <<authorized, context>>
    BY <2>1, <2>3, DecodeKeeps, Zenon DEF Anonymous
  <2> QED
    BY <1>9, <2>1, <2>2, <2>4, DecodeKeeps, Zenon
<1> QED
  BY <1>1, <1>2, <1>3, <1>4, <1>5, <1>6, <1>7, <1>8, <1>9 DEF GateStep

\* Every step keeps who was accepted.
LEMMA NextGate ==
    ASSUME GateInv, [PathNext]_pathVars
    PROVE  GateInv'
<1>1. CASE Solve
  <2>1. GateStep /\ UNCHANGED tokenVars
    BY <1>1, GateSteps DEF Solve
  <2>2. /\ UNCHANGED <<groups, scopes, hasToken, Groups>>
        /\ ValidateUserGroups(Groups, scopes)' = ValidateUserGroups(Groups, scopes)
    BY <2>1 DEF tokenVars, Groups, ValidateUserGroups
  <2>3. /\ context' \in [Dependencies -> {"none", "anonymous", "user"}]
        /\ context'["context"] = "user" => context["context"] = "user" \/ loading
    BY <2>1, GateSteps DEF GateInv, Dependencies
  <2>4. kept' => hasToken
    BY <2>1, GateSteps, Zenon DEF GateInv
  <2>5. loading' \/ authorized' \/ context'["context"] = "user" => kept'
    BY <2>1, <2>3, GateSteps, Zenon DEF GateInv
  <2>6. authorized' => ValidateUserGroups(Groups, scopes)
    BY <2>1, GateSteps, Zenon DEF GateInv
  <2> QED
    BY <2>2, <2>3, <2>4, <2>5, <2>6, Zenon DEF GateInv
<1>2. CASE UNCHANGED vars
  BY <1>2 DEF vars, tokenVars, GateInv, Groups, ValidateUserGroups
<1>3. Solve \/ UNCHANGED vars
  BY Zenon DEF PathNext, Refused, Done, InHandler, pathVars
<1> QED
  BY <1>1, <1>2, <1>3

\* No dependency has been solved.
LEMMA InitGate == PathInit => GateInv
<1> SUFFICES ASSUME PathInit PROVE GateInv
  OBVIOUS
<1>1. /\ groups \subseteq Paths
      /\ scopes \in {{}, {ProgramSecretary}, {Evaluator}, {Secretary, Admin}}
      /\ kept = FALSE /\ loading = FALSE /\ authorized = FALSE
      /\ context = [d \in Dependencies |-> "none"]
  BY Zenon DEF PathInit, Init
<1>2. scopes \subseteq GroupEnum
  BY <1>1 DEF GroupEnum
<1>3. context \in [Dependencies -> {"none", "anonymous", "user"}] /\ context["context"] = "none"
  BY <1>1 DEF Dependencies
<1> QED
  BY <1>1, <1>2, <1>3, Zenon DEF GateInv

\* Whoever was accepted had a token, it decoded, and its groups suffice.
THEOREM GateInvariance == PathSpec => []GateInv
BY InitGate, NextGate, PTL DEF PathSpec

\* A path is a sequence of parts.
Parts == {"Administrators", "Evaluators", "Applicants", "Secretary", "Department", "Program",
          "Agents", "Parent", "Child", "MSc"}

LEMMA PathsAreSequences == Paths \subseteq Seq(Parts) /\ GroupEnum \subseteq Seq(Parts)
<1>1. ASSUME NEW S PROVE /\ \A x \in S : <<x>> \in Seq(S)
                         /\ \A x, y \in S : <<x, y>> \in Seq(S)
                         /\ \A x, y, z \in S : <<x, y, z>> \in Seq(S)
  <2>1. \A x \in S : <<x>> \in Seq(S)
    OBVIOUS
  <2>2. \A x, y \in S : <<x, y>> \in Seq(S)
    OBVIOUS
  <2>3. \A x, y, z \in S : <<x, y, z>> \in Seq(S)
    OBVIOUS
  <2> QED
    BY <2>1, <2>2, <2>3
<1>2. /\ Admin \in Seq(Parts) /\ Evaluator \in Seq(Parts) /\ Applicant \in Seq(Parts)
      /\ Secretary \in Seq(Parts) /\ <<"Agents">> \in Seq(Parts)
  BY <1>1, ZenonT(60) DEF Parts, Admin, Evaluator, Applicant, Secretary
<1>3. /\ DepartmentSecretary \in Seq(Parts) /\ ProgramSecretary \in Seq(Parts)
      /\ ParentAgent \in Seq(Parts) /\ ChildAgent \in Seq(Parts)
      /\ <<"Applicants", "Administrators">> \in Seq(Parts)
      /\ <<"Secretary", "Program", "MSc">> \in Seq(Parts)
  BY <1>1, ZenonT(60) DEF Parts, DepartmentSecretary, ProgramSecretary, ParentAgent, ChildAgent
<1> QED
  BY <1>2, <1>3, ZenonT(60) DEF Paths, GroupEnum

\* The handler of a protected route runs only for a user with a group at or below a
\* required one, or an administrator (make_get_auth, validate_user_groups).
THEOREM HandlersAreAuthorized == PathSpec => []HandlerIsAuthorized
<1>1. GateInv => HandlerIsAuthorized
  <2> SUFFICES ASSUME GateInv, authorized, scopes # {}
               PROVE  \E g \in Groups : g = Admin \/ \E r \in scopes :
                         Len(r) <= Len(g) /\ SubSeq(g, 1, Len(r)) = r
    BY DEF HandlerIsAuthorized
  <2>1. (\E g \in Groups : g = Admin) \/ \E r \in scopes, g \in Groups : Within(g, r)
    BY Zenon DEF GateInv, ValidateUserGroups, SUPER_GROUPS
  <2>2. ASSUME NEW r \in scopes, NEW g \in Groups, Within(g, r)
        PROVE  Len(r) <= Len(g) /\ SubSeq(g, 1, Len(r)) = r
    <3>1. r \in Seq(Parts)
      BY PathsAreSequences DEF GateInv
    <3>2. SubSeq(r, 1, Len(r)) = r
      BY <3>1, SubSeqFull
    <3> QED
      BY <2>2, <3>2, Zenon DEF Within, IsPrefix
  <2> QED
    BY <2>1, <2>2, Zenon
<1> QED
  BY <1>1, GateInvariance, PTL

\* A step after which the optional context is anonymous and was not.
LEMMA AnonymousStep ==
    ASSUME GateInv, [PathNext]_pathVars,
           context["optional"] = "none", context'["optional"] = "anonymous"
    PROVE  ~hasToken \/ (~kept /\ verdict = "401") \/ ~ContextBuilds
<1>1. Solve \/ UNCHANGED vars
  BY Zenon DEF PathNext, Refused, Done, InHandler, pathVars
<1>2. GateStep
  BY <1>1 DEF Solve, vars
<1>3. context' # context
  OBVIOUS
<1>4. context' # [context EXCEPT ![Head(todo)] = "user"]
  BY DEF GateInv, Dependencies
<1> QED
  BY <1>2, <1>3, <1>4, GateSteps, Zenon

\* Once a dependency accepted the token, the optional context of the same request
\* does not take its user for anonymous, unless the claims are refused.
THEOREM IdentityIsOne == PathSpec => OneIdentity
<1>1. ASSUME GateInv, [PathNext]_pathVars
      PROVE  [context["optional"] = "none" /\ context'["optional"] = "anonymous" /\ ContextBuilds
                => ~authorized /\ context["context"] # "user"]_vars
  BY <1>1, AnonymousStep, Zenon DEF GateInv
<1> QED
  BY <1>1, GateInvariance, PTL DEF PathSpec, OneIdentity

\* Keycloak down never makes the user of a token anonymous: ServiceUnavailableError
\* goes through make_get_optional_auth_context.
THEOREM DownIsAnError == PathSpec => DownIsNotAnonymous
<1>1. ASSUME GateInv, [PathNext]_pathVars
      PROVE  [context["optional"] = "none" /\ context'["optional"] = "anonymous" /\ hasToken
                => verdict = "401" \/ ~ContextBuilds]_vars
  BY <1>1, AnonymousStep, Zenon
<1> QED
  BY <1>1, GateInvariance, PTL DEF PathSpec, DownIsNotAnonymous
=============================================================================
