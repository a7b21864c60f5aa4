---------------------------- MODULE EventProducer ----------------------------
(***************************************************************************)
(* Publishing events (redis/producer.py): emit with its retries, emit_safe *)
(* which never raises, and emit into a pipeline that its caller executes.  *)
(*                                                                         *)
(* Every caller emits its events 1..N one after the other, next to the     *)
(* other callers.  An XADD that fails for the caller may have run ("lost") *)
(* or may still be on its way to Redis and run later ("late").             *)
(***************************************************************************)
EXTENDS Integers, Sequences, FiniteSets

CONSTANTS
    Callers,         \* coroutines that emit
    N,               \* events each of them emits
    Retries,         \* retries
    Unserializable,  \* event numbers whose payload json.dumps refuses
    MaxFaults        \* bound on failed XADDs

ASSUME ProducerAssumption ==
    /\ N \in Nat /\ Retries \in Nat /\ Unserializable \subseteq 1..N
    /\ MaxFaults \in Nat

VARIABLES
    mayRunLate,   \* can an XADD run after its caller gave it up?
    stream,   \* the entries: <<caller, event>>
    late,     \* XADDs given up and not run yet: <<caller, event, attempt>>
    pipe,     \* commands in the pipeline of each caller
    next,     \* event each caller emits next
    pc,       \* "idle", "sending" or "sleeping"
    mode,     \* how it is emitted: "emit", "safe", "pipe"
    attempt,  \* attempt
    results,  \* what emit came to: "id", "raised", "null", "queued"
    faults    \* failed XADDs so far

callerVars == <<next, pc, mode, attempt, results>>
vars == <<mayRunLate, stream, late, pipe, callerVars, faults>>

Events == 1..N
Modes == {"emit", "safe", "pipe"}

TypeOK ==
    /\ mayRunLate \in BOOLEAN
    /\ stream \in Seq(Callers \X Events)
    /\ late \subseteq Callers \X Events \X (1..(Retries + 1))
    /\ pipe \in [Callers -> Seq(Events)]
    /\ next \in [Callers -> 1..(N + 1)]
    /\ pc \in [Callers -> {"idle", "sending", "sleeping"}]
    /\ mode \in [Callers -> Modes]
    /\ attempt \in [Callers -> 1..(Retries + 1)]
    /\ results \in [Callers -> [Events -> {"none", "id", "raised", "null", "queued"}]]
    /\ faults \in 0..MaxFaults

Init ==
    /\ mayRunLate \in BOOLEAN
    /\ stream = <<>> /\ late = {}
    /\ pipe = [c \in Callers |-> <<>>]
    /\ next = [c \in Callers |-> 1]
    /\ pc = [c \in Callers |-> "idle"]
    /\ mode = [c \in Callers |-> "emit"]
    /\ attempt = [c \in Callers |-> 1]
    /\ results = [c \in Callers |-> [e \in Events |-> "none"]]
    /\ faults = 0

-----------------------------------------------------------------------------
\* emit ends with r, and its caller goes on.
Return(c, r) ==
    /\ results' = [results EXCEPT ![c][next[c]] = r]
    /\ next' = [next EXCEPT ![c] = @ + 1]
    /\ pc' = [pc EXCEPT ![c] = "idle"]

\* An exception in emit: emit_safe answers None instead.
Raised(m) == IF m = "safe" THEN "null" ELSE "raised"

\* emit begins: a payload that can not be serialized is refused at once, a
\* command for a pipeline only waits in it.
Emit(c) ==
    /\ pc[c] = "idle" /\ next[c] <= N
    /\ \E m \in Modes :
          /\ mode' = [mode EXCEPT ![c] = m]
          /\ CASE next[c] \in Unserializable ->
                    Return(c, Raised(m)) /\ UNCHANGED pipe
               [] next[c] \notin Unserializable /\ m = "pipe" ->
                    /\ Return(c, "queued")
                    /\ pipe' = [pipe EXCEPT ![c] = Append(@, next[c])]
               [] OTHER ->
                    /\ pc' = [pc EXCEPT ![c] = "sending"]
                    /\ UNCHANGED <<pipe, next, results>>
    /\ attempt' = [attempt EXCEPT ![c] = 1]
    /\ UNCHANGED <<mayRunLate, stream, late, faults>>

XaddOk(c) ==
    /\ pc[c] = "sending"
    /\ stream' = Append(stream, <<c, next[c]>>)
    /\ Return(c, "id")
    /\ UNCHANGED <<mayRunLate, late, pipe, mode, attempt, faults>>

\* attempt == attempts
IsLast(n) == n = Retries + 1

ReportsSuccess(m) == "id"
AfterLastFailure(m) == Raised(m)

RetriesInBackground(c) ==
    /\ pc[c] = "sending" /\ faults < MaxFaults
    /\ faults' = faults + 1
    /\ late' = late \cup {<<c, next[c], attempt[c]>>}
    /\ Return(c, "null")
    /\ UNCHANGED <<mayRunLate, stream, pipe, mode, attempt>>
\* The caller sees an exception: back off, or give up.
XaddFails(c) ==
    /\ pc[c] = "sending" /\ faults < MaxFaults
    /\ faults' = faults + 1
    /\ \/ UNCHANGED <<stream, late>>                                  \* never sent
       \/ stream' = Append(stream, <<c, next[c]>>) /\ UNCHANGED late   \* ran
       \/ mayRunLate /\ late' = late \cup {<<c, next[c], attempt[c]>>} /\ UNCHANGED stream
    /\ IF IsLast(attempt[c])
         THEN Return(c, AfterLastFailure(mode[c]))
         ELSE pc' = [pc EXCEPT ![c] = "sleeping"] /\ UNCHANGED <<next, results>>
    /\ UNCHANGED <<mayRunLate, pipe, mode, attempt>>

Wake(c) ==
    /\ pc[c] = "sleeping"
    /\ pc' = [pc EXCEPT ![c] = "sending"]
    /\ attempt' = [attempt EXCEPT ![c] = @ + 1]
    /\ UNCHANGED <<mayRunLate, stream, late, pipe, next, mode, results, faults>>

\* Redis runs an XADD nobody waits for any more.
LateRuns(x) ==
    /\ x \in late
    /\ late' = late \ {x}
    /\ stream' = Append(stream, <<x[1], x[2]>>)
    /\ UNCHANGED <<mayRunLate, pipe, callerVars, faults>>

\* The caller executes its pipeline, once; it runs as a whole or not at all, and
\* the call may fail in both cases.
Execute(c) ==
    /\ pc[c] = "idle" /\ pipe[c] # <<>>
    /\ pipe' = [pipe EXCEPT ![c] = <<>>]
    /\ stream' \in {stream, stream \o [i \in 1..Len(pipe[c]) |-> <<c, pipe[c][i]>>]}
    /\ \/ stream' # stream /\ UNCHANGED faults
       \/ faults < MaxFaults /\ faults' = faults + 1
    /\ UNCHANGED <<mayRunLate, late, callerVars>>

Over == late = {} /\ (\A c \in Callers : next[c] > N /\ pipe[c] = <<>>) /\ UNCHANGED vars

Next ==
    \/ \E c \in Callers : Emit(c) \/ XaddOk(c) \/ XaddFails(c) \/ Wake(c) \/ Execute(c)
    \/ \E x \in late : LateRuns(x)
    \/ Over

Spec == Init /\ [][Next]_vars

-----------------------------------------------------------------------------
(* Properties *)

Positions(c, e) == {i \in 1..Len(stream) : stream[i] = <<c, e>>}

\* emit is honest about what it published: an id means the event is in the
\* stream, and an event is there once more at most for every call that failed.
EmitIsHonest ==
    /\ \A c \in Callers, e \in Events : results[c][e] = "id" => Positions(c, e) # {}
    /\ Len(stream) - Cardinality({stream[i] : i \in 1..Len(stream)}) <= faults

\* The retries of an event do not overtake the caller's next one, as long as
\* Redis runs nothing after its caller gave it up: no copy of an event comes
\* after one the same caller emitted later (outside a pipeline).
InOrder ==
    ~mayRunLate =>
        \A c \in Callers, e, f \in Events :
            e < f /\ {results[c][e], results[c][f]} \cap {"queued"} = {} =>
                \A i \in Positions(c, e), j \in Positions(c, f) : i < j
=============================================================================
