---------------------------- MODULE CoreLifecycle ----------------------------
(***************************************************************************)
(* The clients a service owns, from the start to the end of its lifespan   *)
(* (bootstrap.py), the shared HTTP client (api_client/http_manager.py) and *)
(* the requests that use it (api_client/base.py).                          *)
(*                                                                         *)
(* The HTTP client belongs to the class: a request that finds none creates *)
(* it, whatever the lifespan is doing.  Every await is a point where other *)
(* coroutines run: the start and the stop of a client, the fetching of the *)
(* auth headers, and the exchange with the other service.                  *)
(***************************************************************************)
EXTENDS Integers, Sequences, FiniteSets

CONSTANTS
    Requests,    \* coroutines that call other services
    MayCancel,   \* the task of the lifespan may be cancelled
    OnStop,      \* number of on_stop callbacks
    MaxRuns,     \* bound on the lifespans of the process
    MaxClients   \* bound on the HTTP clients created

ASSUME CoreAssumption ==
    /\ MayCancel \in BOOLEAN
    /\ OnStop \in Nat /\ MaxRuns \in Nat /\ MaxClients \in Nat

VARIABLES
    drained,    \* requests are over before the lifespan stops its clients
    core,       \* the clients build_core built, in the order of starting
    phase,      \* where the lifespan is
    todo,       \* clients that start() still has to start
    started,    \* _started
    stopping,   \* client whose stop is awaited, or "none"
    failed,     \* start() raises once the clients are stopped
    steps,      \* on_stop callbacks left
    runs,       \* lifespans so far
    held,       \* "redis" when _redis is set, "storage" when _s3_client is
    client,     \* HttpClientManager.client, 0 = None
    closed,     \* HTTP clients with is_closed
    made,       \* HTTP clients 1..made were created
    unstopped,  \* history: clients whose stop failed, or was never reached
    pc, via, result   \* per request: position, client in use, outcome

coreVars == <<drained, core, phase, todo, started, stopping, failed, steps, runs>>
clientVars == <<held, client, closed, made, unstopped>>
requestVars == <<pc, via, result>>
vars == <<coreVars, clientVars, requestVars>>

Names == {"http", "redis", "storage"}
Elements(s) == {s[i] : i \in 1..Len(s)}
HttpOpen == (1..made) \ closed

TypeOK ==
    /\ drained \in BOOLEAN
    /\ core \in Seq(Names)
    /\ phase \in {"off", "starting", "serving", "stopping", "callbacks"}
    /\ Elements(todo) \subseteq Elements(core)
    /\ Elements(started) \subseteq Elements(core)
    /\ stopping \in Names \cup {"none"}
    /\ failed \in BOOLEAN /\ steps \in 0..OnStop /\ runs \in 0..MaxRuns
    /\ held \subseteq Names \ {"http"}
    /\ client \in 0..made /\ closed \subseteq 1..made /\ made \in 0..MaxClients
    /\ unstopped \subseteq Names
    /\ pc \in [Requests -> {"idle", "auth", "sent"}]
    /\ via \in [Requests -> 0..made]
    /\ result \in [Requests -> {"none", "ok", "404", "409", "400", "502", "504", "error", "crash"}]

\* build_core: each client only when it is asked for; _resources: their order.
Optional(name, S) == IF name \in S THEN <<name>> ELSE <<>>
Cores ==
    {Optional("http", S) \o Optional("redis", S) \o Optional("storage", S) : S \in SUBSET Names}

Init ==
    /\ drained \in BOOLEAN
    /\ core \in Cores
    /\ phase = "off" /\ todo = <<>> /\ started = <<>> /\ stopping = "none"
    /\ failed = FALSE /\ steps = 0 /\ runs = 0
    /\ held = {} /\ client = 0 /\ closed = {} /\ made = 0 /\ unstopped = {}
    /\ pc = [r \in Requests |-> "idle"]
    /\ via = [r \in Requests |-> 0]
    /\ result = [r \in Requests |-> "none"]

-----------------------------------------------------------------------------
(* HttpClientManager, RedisManager and S3Storage *)

AlwaysCreates == TRUE
OnlyWhenClosed == client \in closed
NeedsClient == client = 0 \/ client \in closed

\* init_client
InitHttp ==
    IF NeedsClient
      THEN made < MaxClients /\ made' = made + 1 /\ client' = made + 1
      ELSE UNCHANGED <<made, client>>

\* close_client, once aclose returned
CloseHttp == client' = 0

\* RedisManager.init_client and close_client
InitRedis == held' = held \cup {"redis"}
CloseRedis == held' = held \ {"redis"}

\* S3Storage.start and stop
StartStorage == held' = held \cup {"storage"}
StopStorage == held' = held \ {"storage"}

-----------------------------------------------------------------------------
(* Core *)

BeginLifespan ==
    /\ phase = "off" /\ runs < MaxRuns
    /\ phase' = "starting" /\ todo' = core /\ runs' = runs + 1 /\ failed' = FALSE
    /\ UNCHANGED <<drained, core, started, stopping, steps, clientVars, requestVars>>

\* await start(), and its entry in _started
StartClient ==
    /\ phase = "starting" /\ todo # <<>>
    /\ \/ Head(todo) = "http" /\ InitHttp /\ UNCHANGED held
       \/ Head(todo) = "redis" /\ InitRedis /\ UNCHANGED <<made, client>>
       \/ Head(todo) = "storage" /\ StartStorage /\ UNCHANGED <<made, client>>
    /\ started' = Append(started, Head(todo))
    /\ todo' = Tail(todo)
    /\ UNCHANGED <<drained, core, phase, stopping, failed, steps, runs, closed, unstopped, requestVars>>

\* A client can not be started, or the start is cancelled: except BaseException.
StartFails ==
    /\ phase = "starting" /\ todo # <<>>
    /\ phase' = "stopping" /\ failed' = TRUE /\ todo' = <<>>
    /\ UNCHANGED <<drained, core, started, stopping, steps, runs, clientVars, requestVars>>

Serve ==
    /\ phase = "starting" /\ todo = <<>>
    /\ phase' = "serving"
    /\ UNCHANGED <<drained, core, todo, started, stopping, failed, steps, runs, clientVars, requestVars>>

\* The application ends, normally or with an error.
Shutdown ==
    /\ phase = "serving"
    /\ drained => \A r \in Requests : pc[r] = "idle"
    /\ phase' = "stopping"
    /\ UNCHANGED <<drained, core, todo, started, stopping, failed, steps, runs, clientVars, requestVars>>

\* stop() takes the last client; aclose marks an HTTP client as closed first.
StopClient ==
    /\ phase = "stopping" /\ stopping = "none" /\ started # <<>>
    /\ stopping' = started[Len(started)]
    /\ started' = SubSeq(started, 1, Len(started) - 1)
    /\ closed' = IF stopping' = "http" /\ client # 0 THEN closed \cup {client} ELSE closed
    /\ UNCHANGED <<drained, core, phase, todo, failed, steps, runs, held, client, made, unstopped, requestVars>>

ClientStopped ==
    /\ stopping # "none"
    /\ stopping' = "none"
    /\ \/ stopping = "http" /\ CloseHttp /\ UNCHANGED held
       \/ stopping = "redis" /\ CloseRedis /\ UNCHANGED client
       \/ stopping = "storage" /\ StopStorage /\ UNCHANGED client
    /\ UNCHANGED <<drained, core, phase, todo, started, failed, steps, runs, closed, made, unstopped, requestVars>>

GivesUpStopping == <<>>
RetriesStop == Append(started, stopping)
StillToStop == started

\* A stop that raises is logged; the others go on.
StopFails ==
    /\ stopping # "none"
    /\ stopping' = "none"
    /\ started' = StillToStop
    /\ unstopped' = unstopped \cup {stopping}
    /\ UNCHANGED <<drained, core, phase, todo, failed, steps, runs, held, client, closed, made, requestVars>>

\* The end of stop(): a failed start raises, a shutdown runs the callbacks.
StopEnds ==
    /\ phase = "stopping" /\ started = <<>> /\ stopping = "none"
    /\ IF failed THEN phase' = "off" /\ UNCHANGED steps
                 ELSE phase' = "callbacks" /\ steps' = OnStop
    /\ UNCHANGED <<drained, core, todo, started, stopping, failed, runs, clientVars, requestVars>>

StepsLeft == steps > 0

\* One on_stop callback; its exception is logged.
Callback ==
    /\ phase = "callbacks" /\ StepsLeft
    /\ steps' = steps - 1
    /\ UNCHANGED <<drained, core, phase, todo, started, stopping, failed, runs, clientVars, requestVars>>

EndLifespan ==
    /\ phase = "callbacks" /\ steps = 0
    /\ phase' = "off"
    /\ UNCHANGED <<drained, core, todo, started, stopping, failed, steps, runs, clientVars, requestVars>>

\* CancelledError while a client stops or a callback runs is no Exception: it
\* leaves stop() and the lifespan.
CancelStop ==
    /\ MayCancel
    /\ stopping # "none" \/ (phase = "callbacks" /\ StepsLeft)
    /\ phase' = "off" /\ stopping' = "none" /\ steps' = 0
    /\ unstopped' = unstopped \cup Elements(started) \cup ({stopping} \ {"none"})
    /\ UNCHANGED <<drained, core, todo, started, failed, runs, held, client, closed, made, requestVars>>

CoreStep == StartClient \/ StartFails \/ Serve \/ StopClient \/ ClientStopped \/ StopFails
            \/ StopEnds \/ Callback \/ EndLifespan \/ CancelStop

-----------------------------------------------------------------------------
(* BaseAPI._request *)

\* API clients come from core.api_factory.  They are used while the application
\* runs; by what the server does not wait for (a background task, a consumer) at
\* any time.
MayCall ==
    /\ "http" \in Elements(core)
    /\ phase = "serving" \/ ~drained

\* Create the client when there is none, then await the auth headers.
BeginRequest(r) ==
    /\ pc[r] = "idle" /\ MayCall
    /\ InitHttp
    /\ pc' = [pc EXCEPT ![r] = "auth"]
    /\ result' = [result EXCEPT ![r] = "none"]
    /\ UNCHANGED <<coreVars, held, closed, unstopped, via>>

\* The token of the service can not be fetched.
AuthFails(r) ==
    /\ pc[r] = "auth"
    /\ pc' = [pc EXCEPT ![r] = "idle"]
    /\ result' = [result EXCEPT ![r] = "error"]
    /\ UNCHANGED <<coreVars, clientVars, via>>

\* manager.client.request(...): an error of its own when the client is gone.
Send(r) ==
    /\ pc[r] = "auth"
    /\ IF client = 0 \/ client \in closed
         THEN /\ pc' = [pc EXCEPT ![r] = "idle"]
              /\ result' = [result EXCEPT ![r] = "crash"]
              /\ UNCHANGED via
         ELSE /\ pc' = [pc EXCEPT ![r] = "sent"]
              /\ via' = [via EXCEPT ![r] = client]
              /\ UNCHANGED result
    /\ UNCHANGED <<coreVars, clientVars>>

\* The outcome for the caller of a 2xx, of 404, 409 and 400, of any other
\* status, of a timeout and of another network error.
Answers == {"ok", "404", "409", "400", "502", "504"}

Receive(r) ==
    /\ pc[r] = "sent"
    /\ pc' = [pc EXCEPT ![r] = "idle"]
    /\ via' = [via EXCEPT ![r] = 0]
    /\ \E a \in Answers : result' = [result EXCEPT ![r] = a]
    /\ UNCHANGED <<coreVars, clientVars>>

RequestStep(r) == AuthFails(r) \/ Send(r) \/ Receive(r)

\* The process has done its lifespans.
Over == phase = "off" /\ runs = MaxRuns /\ UNCHANGED vars

Next ==
    \/ BeginLifespan \/ Shutdown \/ CoreStep \/ Over
    \/ \E r \in Requests : BeginRequest(r) \/ RequestStep(r)

Spec == Init /\ [][Next]_vars

\* Coroutines that are ready run, and every await ends.
FairSpec == Spec /\ WF_vars(CoreStep) /\ \A r \in Requests : WF_vars(RequestStep(r))

-----------------------------------------------------------------------------
(* Properties *)

\* After a failed start or a shutdown nothing is left open, except a client
\* whose own stop failed or was cut short by a cancellation, and an HTTP client
\* that a request outliving the application created.
NothingLeftOpen ==
    phase = "off" => /\ held \subseteq unstopped
                     /\ drained /\ HttpOpen # {} => "http" \in unstopped

\* "a single instance of httpx.AsyncClient": no second one is open, and the one
\* that is open can be reached (and closed) through the manager.  (Only while no
\* request outlives the application: one that finds the client closing opens
\* another, which the close then forgets.)
OneHttpClient == drained => HttpOpen \subseteq {client}

\* "Ensure the HTTP client is initialized": a request that made sure of its
\* client has one to send with, although it awaits the auth headers in between
\* (under the same condition).
RequestsFindClient == drained => \A r \in Requests : result[r] # "crash"

\* A stop ends, whichever clients fail to stop.
StopCompletes == (phase = "stopping") ~> (phase = "off")
=============================================================================
