------------------------- MODULE CoreLifecycleProofs -------------------------
(* Proofs about CoreLifecycle: who is responsible for every client that is    *)
(* open, for every number of requests, callbacks, lifespans and failures.     *)
EXTENDS CoreLifecycle, SequenceTheorems, TLAPS

-----------------------------------------------------------------------------
(* The inductive invariant *)

\* The part of the type that the argument uses
Shape ==
    /\ core \in Seq(Names) /\ todo \in Seq(Names) /\ started \in Seq(Names)
    /\ stopping \in Names \cup {"none"}
    /\ phase \in {"off", "starting", "serving", "stopping", "callbacks"}
    /\ made \in Nat /\ client \in 0..made /\ closed \subseteq 1..made
    /\ held \subseteq {"redis", "storage"}
    /\ pc \in [Requests -> {"idle", "auth", "sent"}]
    /\ DOMAIN result = Requests

\* Whatever is held is in _started, or is being stopped, or was not stopped.
HeldIsKnown ==
    /\ stopping # "none" => phase = "stopping"
    /\ phase = "callbacks" => started = <<>>
    /\ phase = "off" => Elements(started) \subseteq unstopped
    /\ held \subseteq unstopped \cup Elements(started) \cup {stopping}

\* The HTTP client that is open is the manager's, and in _started, or was not stopped.
HttpIsKnown ==
    /\ HttpOpen \subseteq {client}
    /\ HttpOpen # {} => "http" \in unstopped \cup Elements(started)
    /\ stopping = "http" => HttpOpen = {}

\* Requests run only while the application serves, and then there is a client.
HttpIsThere ==
    /\ \A r \in Requests : pc[r] # "idle" => phase = "serving" /\ client \in HttpOpen
    /\ phase = "starting" /\ "http" \in Elements(core) =>
          "http" \in Elements(todo) \/ client \in HttpOpen
    /\ phase = "serving" /\ "http" \in Elements(core) => client \in HttpOpen

LifeInv ==
    /\ Shape /\ HeldIsKnown
    /\ drained => HttpIsKnown /\ HttpIsThere /\ RequestsFindClient

-----------------------------------------------------------------------------
(* Sequences of clients *)

LEMMA EmptyElements == Elements(<<>>) = {}
BY DEF Elements

LEMMA AppendElements ==
    ASSUME NEW s \in Seq(Names), NEW x \in Names
    PROVE  Append(s, x) \in Seq(Names) /\ Elements(Append(s, x)) = Elements(s) \cup {x}
<1> DEFINE t == Append(s, x)
<1>1. /\ t \in Seq(Names) /\ Len(t) = Len(s) + 1 /\ Len(s) \in Nat
      /\ \A i \in 1..Len(s) : t[i] = s[i]
      /\ t[Len(s) + 1] = x
  BY AppendProperties
<1> HIDE DEF t
<1>2. ASSUME NEW y PROVE y \in Elements(t) <=> y \in Elements(s) \/ y = x
  BY <1>1 DEF Elements
<1> QED
  BY <1>1, <1>2 DEF t

LEMMA HeadElements ==
    ASSUME NEW s \in Seq(Names), s # <<>>
    PROVE  /\ Head(s) \in Names /\ Tail(s) \in Seq(Names)
           /\ Elements(s) = {Head(s)} \cup Elements(Tail(s))
<1> DEFINE t == Tail(s)
<1>1. /\ Head(s) = s[1] /\ Head(s) \in Names /\ t \in Seq(Names)
      /\ Len(s) \in Nat \ {0} /\ Len(t) = Len(s) - 1
      /\ \A i \in 1..Len(t) : t[i] = s[i + 1]
  BY HeadTailProperties, EmptySeq
<1> HIDE DEF t
<1>2. ASSUME NEW y PROVE y \in Elements(s) => y = Head(s) \/ y \in Elements(t)
  <2> SUFFICES ASSUME NEW i \in 1..Len(s), y = s[i], i # 1 PROVE y \in Elements(t)
    BY <1>1 DEF Elements
  <2>1. i - 1 \in 1..Len(t) /\ t[i - 1] = s[i]
    BY <1>1
  <2> QED
    BY <2>1 DEF Elements
<1>3. ASSUME NEW y PROVE y = Head(s) \/ y \in Elements(t) => y \in Elements(s)
  BY <1>1 DEF Elements
<1> QED
  BY <1>1, <1>2, <1>3 DEF t

LEMMA LastElements ==
    ASSUME NEW s \in Seq(Names), s # <<>>
    PROVE  /\ s[Len(s)] \in Names /\ SubSeq(s, 1, Len(s) - 1) \in Seq(Names)
           /\ Elements(s) = Elements(SubSeq(s, 1, Len(s) - 1)) \cup {s[Len(s)]}
<1> DEFINE t == SubSeq(s, 1, Len(s) - 1)
<1>1. Len(s) \in Nat \ {0} /\ \A i \in 1..Len(s) : s[i] \in Names
  BY EmptySeq
<1>2. /\ t \in Seq(Names) /\ Len(t) = Len(s) - 1
      /\ \A i \in 1..(Len(s) - 1) : t[i] = s[i]
  <2> DEFINE n == Len(s) - 1
  <2>1. n \in Nat /\ \A i \in 1..n : s[i] \in Names
    BY <1>1
  <2> HIDE DEF n
  <2>2. /\ SubSeq(s, 1, n) \in Seq(Names)
        /\ Len(SubSeq(s, 1, n)) = IF 1 <= n THEN n - 1 + 1 ELSE 0
        /\ \A i \in 1..(n - 1 + 1) : SubSeq(s, 1, n)[i] = s[1 + i - 1]
    BY <2>1, SubSeqProperties
  <2>3. /\ SubSeq(s, 1, n) \in Seq(Names) /\ Len(SubSeq(s, 1, n)) = n
        /\ \A i \in 1..n : SubSeq(s, 1, n)[i] = s[i]
    BY <2>1, <2>2
  <2> QED
    BY <2>3 DEF n
<1> HIDE DEF t
<1>3. ASSUME NEW y PROVE y \in Elements(s) <=> y \in Elements(t) \/ y = s[Len(s)]
  BY <1>1, <1>2 DEF Elements
<1> QED
  BY <1>1, <1>2, <1>3 DEF t

\* The clients of a core, in their order
LEMMA CoresAreSequences == Cores \subseteq Seq(Names)
<1>1. ASSUME NEW S, NEW name \in Names PROVE Optional(name, S) \in Seq(Names)
  BY DEF Optional
<1>2. {"http", "redis", "storage"} \subseteq Names
  BY DEF Names
<1> SUFFICES ASSUME NEW S
             PROVE  Optional("http", S) \o Optional("redis", S) \o Optional("storage", S) \in Seq(Names)
  BY Zenon DEF Cores
<1> QED
  BY <1>1, <1>2, ConcatProperties

-----------------------------------------------------------------------------
(* The HTTP client *)

\* After init_client the manager's client is open, and no other one if none was.
LEMMA InitHttpOpens ==
    ASSUME Shape, InitHttp, closed' = closed
    PROVE  /\ made' \in Nat /\ client' \in 0..made' /\ closed' \subseteq 1..made'
           /\ client' \in HttpOpen'
           /\ HttpOpen \subseteq {client} => HttpOpen' \subseteq {client'}
<1>1. CASE NeedsClient
  BY <1>1 DEF InitHttp, NeedsClient, Shape, HttpOpen
<1>2. CASE ~NeedsClient
  BY <1>2 DEF InitHttp, NeedsClient, Shape, HttpOpen
<1> QED
  BY <1>1, <1>2

\* A client that is open is not created again.
LEMMA OpenIsKept ==
    ASSUME Shape, InitHttp, client \in HttpOpen
    PROVE  UNCHANGED <<made, client>>
BY DEF InitHttp, NeedsClient, Shape, HttpOpen

-----------------------------------------------------------------------------
(* The steps *)

\* Nothing is open, and nobody asks.
LEMMA InitLife == Init => LifeInv
<1> SUFFICES ASSUME Init PROVE LifeInv
  OBVIOUS
<1>1. Shape
  BY CoresAreSequences, EmptySeq DEF Init, Shape, Names
<1>2. HeldIsKnown
  BY EmptyElements DEF Init, HeldIsKnown
<1>3. HttpOpen = {}
  BY DEF Init, HttpOpen
<1>4. HttpIsKnown /\ HttpIsThere /\ RequestsFindClient
  BY <1>3 DEF Init, HttpIsKnown, HttpIsThere, RequestsFindClient
<1> QED
  BY <1>1, <1>2, <1>4 DEF LifeInv

\* The next client of build_core is started.
LEMMA StartClientLife ==
    ASSUME LifeInv, StartClient PROVE LifeInv'
<1> DEFINE n == Head(todo)
<1>1. /\ Shape /\ phase = "starting" /\ todo # <<>>
      /\ started' = Append(started, n) /\ todo' = Tail(todo)
      /\ UNCHANGED <<drained, core, phase, stopping, closed, unstopped, pc, result>>
  BY DEF LifeInv, StartClient, requestVars
<1>2. /\ n \in Names /\ todo' \in Seq(Names) /\ Elements(todo) = {n} \cup Elements(todo')
  BY <1>1, HeadElements DEF Shape
<1>3. started' \in Seq(Names) /\ Elements(started') = Elements(started) \cup {n}
  BY <1>1, <1>2, AppendElements DEF Shape
<1>4. held' = held \/ (held' = held \cup {n} /\ n # "http")
  BY DEF StartClient, InitRedis, StartStorage
<1>5. \/ n = "http" /\ InitHttp
      \/ n # "http" /\ UNCHANGED <<made, client, HttpOpen>>
  BY <1>1 DEF StartClient, HttpOpen
<1> HIDE DEF n
<1>6. Shape'
  <2>1. held' \subseteq {"redis", "storage"}
    BY <1>1, <1>2, <1>4 DEF Shape, Names
  <2>2. made' \in Nat /\ client' \in 0..made' /\ closed' \subseteq 1..made'
    BY <1>1, <1>5, InitHttpOpens DEF Shape
  <2> QED
    BY <1>1, <1>2, <1>3, <2>1, <2>2 DEF Shape
<1>7. HeldIsKnown'
  BY <1>1, <1>3, <1>4 DEF LifeInv, HeldIsKnown
<1>8. ASSUME drained PROVE HttpIsKnown' /\ HttpIsThere' /\ RequestsFindClient'
  <2>0. HttpIsKnown /\ HttpIsThere /\ RequestsFindClient
    BY <1>8 DEF LifeInv
  <2>1. RequestsFindClient'
    BY <1>1, <2>0, Zenon DEF RequestsFindClient
  <2>2. \A r \in Requests : pc'[r] = "idle"
    BY <1>1, <2>0 DEF HttpIsThere
  <2>3. CASE n = "http"
    <3>1. client' \in HttpOpen' /\ HttpOpen' \subseteq {client'}
      BY <1>1, <1>5, <2>0, <2>3, InitHttpOpens DEF HttpIsKnown
    <3>2. stopping' = "none"
      BY <1>1 DEF LifeInv, HeldIsKnown
    <3> QED
      BY <1>1, <1>3, <2>1, <2>2, <2>3, <3>1, <3>2 DEF HttpIsKnown, HttpIsThere
  <2>4. CASE n # "http"
    BY <1>1, <1>2, <1>3, <1>5, <2>0, <2>1, <2>2, <2>4 DEF HttpIsKnown, HttpIsThere
  <2> QED
    BY <2>3, <2>4
<1> QED
  BY <1>1, <1>6, <1>7, <1>8, Zenon DEF LifeInv

\* stop() takes the last client of _started; an HTTP client is closed at once.
LEMMA StopClientLife ==
    ASSUME LifeInv, StopClient PROVE LifeInv'
<1>1. /\ Shape /\ phase = "stopping" /\ stopping = "none" /\ started # <<>>
      /\ stopping' = started[Len(started)]
      /\ started' = SubSeq(started, 1, Len(started) - 1)
      /\ closed' = IF stopping' = "http" /\ client # 0 THEN closed \cup {client} ELSE closed
      /\ UNCHANGED <<drained, core, phase, todo, held, client, made, unstopped, pc, result>>
  BY DEF LifeInv, StopClient, requestVars
<1>2. /\ stopping' \in Names /\ started' \in Seq(Names)
      /\ Elements(started) = Elements(started') \cup {stopping'}
  BY <1>1, LastElements DEF Shape
<1>3. closed' \subseteq 1..made
  BY <1>1 DEF Shape
<1>4. Shape'
  BY <1>1, <1>2, <1>3 DEF Shape
<1>5. HeldIsKnown'
  BY <1>1, <1>2 DEF LifeInv, HeldIsKnown, Shape
<1>6. ASSUME drained PROVE HttpIsKnown' /\ HttpIsThere' /\ RequestsFindClient'
  <2>0. HttpIsKnown /\ HttpIsThere /\ RequestsFindClient
    BY <1>6 DEF LifeInv
  <2>1. RequestsFindClient'
    BY <1>1, <2>0, Zenon DEF RequestsFindClient
  <2>2. \A r \in Requests : pc'[r] = "idle"
    BY <1>1, <2>0 DEF HttpIsThere
  <2>3. CASE stopping' = "http"
    <3>1. HttpOpen' = {}
      BY <1>1, <2>0, <2>3 DEF HttpOpen, HttpIsKnown, Shape
    <3> QED
      BY <1>1, <2>1, <2>2, <3>1 DEF HttpIsKnown, HttpIsThere
  <2>4. CASE stopping' # "http"
    <3>1. HttpOpen' = HttpOpen
      BY <1>1, <2>4 DEF HttpOpen
    <3> QED
      BY <1>1, <1>2, <2>0, <2>1, <2>2, <2>4, <3>1 DEF HttpIsKnown, HttpIsThere
  <2> QED
    BY <2>3, <2>4
<1> QED
  BY <1>1, <1>4, <1>5, <1>6, Zenon DEF LifeInv

\* A stop ends, failed or not, or is cancelled: the client is forgotten, or noted.
LEMMA StoppedLife ==
    ASSUME LifeInv, ClientStopped \/ StopFails \/ CancelStop PROVE LifeInv'
<1>1. /\ Shape /\ (stopping # "none" \/ phase = "callbacks")
      /\ started' = started /\ stopping' = "none"
      /\ UNCHANGED <<drained, core, todo, closed, made, pc, result>>
  BY Zenon DEF LifeInv, ClientStopped, StopFails, CancelStop, StillToStop, requestVars
<1>2. \/ /\ phase' = phase /\ unstopped' = unstopped
         /\ held' = held \ {stopping} /\ client' = IF stopping = "http" THEN 0 ELSE client
      \/ /\ phase' = phase /\ unstopped' = unstopped \cup {stopping} /\ UNCHANGED <<held, client>>
      \/ /\ phase' = "off" /\ UNCHANGED <<held, client>>
         /\ unstopped' = unstopped \cup Elements(started) \cup ({stopping} \ {"none"})
  <2>1. CASE ClientStopped
    <3>1. phase' = phase /\ unstopped' = unstopped
      BY <2>1 DEF ClientStopped
    <3>2. "http" \notin held
      BY <1>1 DEF Shape
    <3> QED
      BY <2>1, <3>1, <3>2 DEF ClientStopped, CloseHttp, CloseRedis, StopStorage
  <2>2. CASE StopFails
    BY <2>2 DEF StopFails
  <2>3. CASE CancelStop
    BY <2>3 DEF CancelStop
  <2> QED
    BY <2>1, <2>2, <2>3
<1>3. phase \in {"stopping", "callbacks"}
  BY <1>1 DEF LifeInv, HeldIsKnown
<1>4. Shape'
  <2>1. phase' \in {phase, "off"} /\ held' \subseteq held /\ client' \in {0, client}
    BY <1>2
  <2>2. client' \in 0..made
    BY <1>1, <2>1 DEF Shape
  <2> QED
    BY <1>1, <2>1, <2>2 DEF Shape
<1>5. HeldIsKnown'
  <2>0. HeldIsKnown
    BY DEF LifeInv
  <2>1. held' \subseteq unstopped' \cup Elements(started) \cup {"none"}
    BY <1>2, <2>0 DEF HeldIsKnown
  <2>2. phase' = "callbacks" => started = <<>>
    BY <1>2, <2>0 DEF HeldIsKnown
  <2>3. phase' = "off" => Elements(started) \subseteq unstopped'
    BY <1>2, <1>3
  <2> QED
    BY <1>1, <2>1, <2>2, <2>3 DEF HeldIsKnown
<1>6. ASSUME drained PROVE HttpIsKnown' /\ HttpIsThere' /\ RequestsFindClient'
  <2>0. HttpIsKnown /\ HttpIsThere /\ RequestsFindClient
    BY <1>6 DEF LifeInv
  <2>1. RequestsFindClient'
    BY <1>1, <2>0, Zenon DEF RequestsFindClient
  <2>2. HttpOpen' = HttpOpen
    BY <1>1 DEF HttpOpen
  <2>3. HttpIsKnown'
    BY <1>1, <1>2, <2>0, <2>2 DEF HttpIsKnown
  <2>4. HttpIsThere'
    BY <1>1, <1>2, <1>3, <2>0 DEF HttpIsThere
  <2> QED
    BY <2>1, <2>3, <2>4
<1> QED
  BY <1>1, <1>4, <1>5, <1>6, Zenon DEF LifeInv

\* The lifespan goes on to its next phase and leaves the clients alone.
LEMMA PhaseLife ==
    ASSUME LifeInv,
           BeginLifespan \/ StartFails \/ Serve \/ Shutdown \/ StopEnds \/ Callback \/ EndLifespan
    PROVE  LifeInv'
<1>1. Shape /\ UNCHANGED <<drained, core, started, stopping, clientVars, requestVars>>
  BY DEF LifeInv, BeginLifespan, StartFails, Serve, Shutdown, StopEnds, Callback, EndLifespan
<1>2. /\ UNCHANGED <<held, client, closed, made, unstopped, pc, result, HttpOpen>>
  BY <1>1 DEF clientVars, requestVars, HttpOpen
<1>3. \/ phase = "off" /\ phase' = "starting" /\ todo' = core
      \/ phase = "starting" /\ phase' = "stopping" /\ todo' = <<>>
      \/ phase = "starting" /\ phase' = "serving" /\ todo = <<>> /\ todo' = todo
      \/ /\ phase = "serving" /\ phase' = "stopping" /\ todo' = todo
         /\ drained => \A r \in Requests : pc[r] = "idle"
      \/ phase = "stopping" /\ phase' \in {"off", "callbacks"} /\ started = <<>>
         /\ stopping = "none" /\ todo' = todo
      \/ phase = "callbacks" /\ phase' \in {"callbacks", "off"} /\ todo' = todo
  BY Zenon DEF BeginLifespan, StartFails, Serve, Shutdown, StopEnds, Callback, EndLifespan
<1>4. Shape'
  <2>1. todo' \in Seq(Names)
    BY <1>1, <1>3, EmptySeq DEF Shape
  <2> QED
    BY <1>1, <1>2, <1>3, <2>1 DEF Shape
<1>5. HeldIsKnown'
  <2>1. started = <<>> => Elements(started) = {}
    BY EmptyElements
  <2> QED
    BY <1>1, <1>2, <1>3, <2>1 DEF LifeInv, HeldIsKnown, Shape
<1>6. ASSUME drained PROVE HttpIsKnown' /\ HttpIsThere' /\ RequestsFindClient'
  <2>0. HttpIsKnown /\ HttpIsThere /\ RequestsFindClient
    BY <1>6 DEF LifeInv
  <2>1. RequestsFindClient'
    BY <1>1, <1>2, <2>0, Zenon DEF RequestsFindClient
  <2>2. HttpIsKnown'
    BY <1>1, <1>2, <2>0 DEF HttpIsKnown
  <2>3. todo = <<>> => Elements(todo) = {}
    BY EmptyElements
  <2>4. Elements(core)' = Elements(core) /\ Elements(todo)' = Elements(todo')
    BY <1>1 DEF Elements
  <2>5. HttpIsThere'
    BY <1>1, <1>2, <1>3, <1>6, <2>0, <2>3, <2>4 DEF HttpIsThere
  <2> QED
    BY <2>1, <2>2, <2>5
<1> QED
  BY <1>1, <1>4, <1>5, <1>6, Zenon DEF LifeInv

\* A request begins: while the application serves, its client is the one that is open.
LEMMA BeginRequestLife ==
    ASSUME LifeInv, NEW r \in Requests, BeginRequest(r) PROVE LifeInv'
<1>1. /\ Shape /\ MayCall /\ InitHttp /\ pc' = [pc EXCEPT ![r] = "auth"]
      /\ result' = [result EXCEPT ![r] = "none"]
      /\ UNCHANGED <<coreVars, held, closed, unstopped>>
  BY DEF LifeInv, BeginRequest
<1>2. UNCHANGED <<drained, core, phase, todo, started, stopping>>
  BY <1>1 DEF coreVars
<1>3. Shape'
  <2>1. made' \in Nat /\ client' \in 0..made' /\ closed' \subseteq 1..made'
    BY <1>1, InitHttpOpens
  <2> QED
    BY <1>1, <1>2, <2>1 DEF Shape
<1>4. HeldIsKnown'
  BY <1>1, <1>2 DEF LifeInv, HeldIsKnown
<1>5. ASSUME drained PROVE HttpIsKnown' /\ HttpIsThere' /\ RequestsFindClient'
  <2>0. HttpIsKnown /\ HttpIsThere /\ RequestsFindClient
    BY <1>5 DEF LifeInv
  <2>1. phase = "serving" /\ client \in HttpOpen
    BY <1>1, <1>5, <2>0 DEF MayCall, HttpIsThere
  <2>2. UNCHANGED <<made, client, HttpOpen>>
    BY <1>1, <2>1, OpenIsKept DEF HttpOpen
  <2>3. RequestsFindClient'
    BY <1>1, <1>2, <1>5, <2>0 DEF RequestsFindClient, Shape
  <2>4. HttpIsKnown'
    BY <1>1, <1>2, <2>0, <2>2 DEF HttpIsKnown
  <2>5. HttpIsThere'
    BY <1>2, <2>0, <2>1, <2>2 DEF HttpIsThere
  <2> QED
    BY <2>3, <2>4, <2>5
<1> QED
  BY <1>2, <1>3, <1>4, <1>5, Zenon DEF LifeInv

\* A request goes on: it finds the client it made sure of.
LEMMA RequestLife ==
    ASSUME LifeInv, NEW r \in Requests, RequestStep(r) PROVE LifeInv'
<1>1. /\ Shape /\ UNCHANGED <<coreVars, clientVars>>
      /\ pc[r] # "idle"
      /\ pc' = [pc EXCEPT ![r] = "idle"] \/ pc' = [pc EXCEPT ![r] = "sent"]
  BY DEF LifeInv, RequestStep, AuthFails, Send, Receive
<1>2. UNCHANGED <<drained, core, phase, todo, started, stopping, held, client, closed, made,
                  unstopped, HttpOpen>>
  BY <1>1 DEF coreVars, clientVars, HttpOpen
<1>3. \/ result' = result
      \/ \E a \in Answers \cup {"error"} : result' = [result EXCEPT ![r] = a]
      \/ client \notin HttpOpen /\ result' = [result EXCEPT ![r] = "crash"]
  BY <1>1 DEF RequestStep, AuthFails, Send, Receive, HttpOpen, Answers
<1>4. Shape'
  BY <1>1, <1>2, <1>3 DEF Shape
<1>5. HeldIsKnown'
  BY <1>2 DEF LifeInv, HeldIsKnown
<1>6. ASSUME drained PROVE HttpIsKnown' /\ HttpIsThere' /\ RequestsFindClient'
  <2>0. HttpIsKnown /\ HttpIsThere /\ RequestsFindClient
    BY <1>6 DEF LifeInv
  <2>1. client \in HttpOpen /\ phase = "serving"
    BY <1>1, <2>0 DEF HttpIsThere
  <2>2. HttpIsKnown'
    BY <1>2, <2>0 DEF HttpIsKnown
  <2>3. HttpIsThere'
    BY <1>1, <1>2, <2>0, <2>1 DEF HttpIsThere, Shape
  <2>4. \A q \in Requests : result[q] # "crash"
    BY <1>6, <2>0 DEF RequestsFindClient
  <2>5. \A q \in Requests : result'[q] # "crash"
    BY <1>1, <1>3, <2>1, <2>4 DEF Shape, Answers
  <2> QED
    BY <2>2, <2>3, <2>5 DEF RequestsFindClient
<1> QED
  BY <1>2, <1>4, <1>5, <1>6, Zenon DEF LifeInv

\* Every step keeps the account of the clients.
LEMMA NextLife == LifeInv /\ [Next]_vars => LifeInv'
<1> SUFFICES ASSUME LifeInv, [Next]_vars PROVE LifeInv'
  OBVIOUS
<1>1. CASE UNCHANGED vars
  BY <1>1 DEF vars, coreVars, clientVars, requestVars, LifeInv, Shape, HeldIsKnown, HttpIsKnown,
              HttpIsThere, HttpOpen, Elements, RequestsFindClient
<1> QED
  BY <1>1, StartClientLife, StopClientLife, StoppedLife, PhaseLife, BeginRequestLife, RequestLife
  DEF Next, CoreStep, Over

\* Whatever is open is known to the lifespan, and a request that is under way has
\* the client it made sure of.
THEOREM LifeInvariance == Spec => []LifeInv
BY InitLife, NextLife, PTL DEF Spec

\* Nothing is left open when a lifespan has ended: Core.stop reaches every client
\* that was started, also after a failed start and after a cancelled stop.
THEOREM ClientsAreClosed == Spec => []NothingLeftOpen
<1>1. LifeInv => NothingLeftOpen
  BY DEF LifeInv, NothingLeftOpen, HeldIsKnown, HttpIsKnown, Shape
<1> QED
  BY <1>1, LifeInvariance, PTL

\* HttpClientManager never has a second client open, as long as no request
\* outlives the application.
THEOREM HttpClientIsSingle == Spec => []OneHttpClient
<1>1. LifeInv => OneHttpClient
  BY DEF LifeInv, OneHttpClient, HttpIsKnown
<1> QED
  BY <1>1, LifeInvariance, PTL

\* BaseAPI._request finds the client that it made sure of before its await.
THEOREM ClientIsFound == Spec => []RequestsFindClient
<1>1. LifeInv => RequestsFindClient
  BY DEF LifeInv, RequestsFindClient
<1> QED
  BY <1>1, LifeInvariance, PTL
=============================================================================
