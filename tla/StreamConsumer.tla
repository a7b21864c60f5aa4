--------------------------- MODULE StreamConsumer ---------------------------
(***************************************************************************)
(* Redis-stream event consumers (atsig_common/redis/consumer.py).          *)
(*                                                                         *)
(* A set of BaseRedisConsumer processes shares one consumer group of one   *)
(* stream.  Redis keeps, for the group, the id of the last delivered entry *)
(* and the pending entries list (PEL) with a delivery count and an idle    *)
(* time per entry.  Each process alternates between reclaiming idle        *)
(* pending entries (XAUTOCLAIM) and reading new ones (XREADGROUP), and     *)
(* handles a batch with one asyncio task per entry: process_message with   *)
(* retries, XACK, and the dead letter queue (DLQ) when the retries are     *)
(* used up.                                                                *)
(*                                                                         *)
(* Every await on Redis is a step of its own, with three outcomes: "ok",   *)
(* "error" (the command never ran) and "lost" (it ran and the reply never  *)
(* came; the caller sees the same exception).  Processes may die at any    *)
(* point.                                                                  *)
(***************************************************************************)
EXTENDS Integers, FiniteSets

CONSTANTS
    N,              \* entries the producers append; entry ids are 1..N
    Consumers,      \* the worker processes of the group
    Invalid,        \* entries without a valid envelope
    Poison,         \* entries whose handler may kill the process
    MaxRetries,     \* max_retries
    MaxDeliveries,  \* max_deliveries
    Concurrency,    \* concurrency (size of the semaphore)
    BatchSize,      \* batch_size
    MaxLen,         \* stream MAXLEN of the producers (>= N: never trims)
    GroupStartId,   \* group_start_id: "0" or "$"
    SlowHandlers,   \* may a handler outlast reclaim_idle_ms?
    MaxFaults       \* bound on failed Redis calls, crashes and stop() calls

Messages == 1..N

ASSUME SizesAssumption ==
    /\ N \in Nat
    /\ MaxRetries \in Nat \ {0}
    /\ MaxDeliveries \in Nat
    /\ Concurrency \in Nat \ {0}
    /\ BatchSize \in Nat \ {0}
    /\ MaxLen \in Nat
    /\ MaxFaults \in Nat

ASSUME KindsAssumption ==
    /\ Invalid \subseteq Messages
    /\ Poison \subseteq Messages
    /\ GroupStartId \in {"0", "$"}
    /\ SlowHandlers \in BOOLEAN

ASSUME ProcessesAssumption == IsFiniteSet(Consumers)

VARIABLES
    (* Redis *)
    added,          \* entries 1..added have been XADDed
    trimmed,        \* entries 1..trimmed are gone from the stream (MAXLEN)
    group,          \* the consumer group exists
    groupStart,     \* the id the group was created at
    lastDelivered,  \* last-delivered-id of the group
    pel,            \* delivery count of a pending entry, 0 = not pending
    idle,           \* pending entries idle for at least reclaim_idle_ms
    dead,           \* entries that were written to the DLQ
    (* processes *)
    pc,             \* where run() is
    running,        \* _is_running
    due,            \* last_reclaim is None or reclaim_interval_s ago
    cursor,         \* start_id of the reclaim scan, 0 = "0-0"
    task,           \* state of the coroutine that handles an entry
    attempt,        \* its attempt number
    slots,          \* free slots of _semaphore
    (* history *)
    applied,        \* entries process_message returned for
    kills,          \* times the handling of an entry killed the process
    faults          \* faults so far

redisVars   == <<added, trimmed, group, groupStart, lastDelivered, pel, idle, dead>>
loopVars    == <<pc, running, due, cursor>>
taskVars    == <<task, attempt, slots>>
historyVars == <<applied, kills, faults>>
vars == <<redisVars, loopVars, taskVars, historyVars>>

PCs == {"down", "top", "scan", "triage", "gatherC", "read", "gatherR"}

TaskStates == {"none", "claimed", "void", "waiting", "processing", "acking",
               "sleeping", "dlq", "dlqack"}

\* Delivery counts are only compared with MaxDeliveries, so they saturate.
DeliveryCap == MaxDeliveries + 1

TypeRedis ==
    /\ added \in 0..N
    /\ trimmed \in 0..added
    /\ group \in BOOLEAN
    /\ groupStart \in 0..added
    /\ lastDelivered \in groupStart..added
    /\ pel \in [Messages -> 0..DeliveryCap]
    /\ idle \subseteq Messages
    /\ dead \subseteq Messages

TypeLoop ==
    /\ pc \in [Consumers -> PCs]
    /\ running \in [Consumers -> BOOLEAN]
    /\ due \in [Consumers -> BOOLEAN]
    /\ cursor \in [Consumers -> 0..N]

TypeTask ==
    /\ task \in [Consumers -> [Messages -> TaskStates]]
    /\ attempt \in [Consumers -> [Messages -> Nat]]
    /\ slots \in [Consumers -> 0..Concurrency]

TypeHistory ==
    /\ applied \subseteq Messages
    /\ kills \in [Messages -> Nat]
    /\ faults \in 0..MaxFaults

TypeOK == TypeRedis /\ TypeLoop /\ TypeTask /\ TypeHistory

-----------------------------------------------------------------------------
(* Redis as the consumer uses it *)

Outcomes == {"ok", "error", "lost"}

\* The command took effect in Redis.
Ran(o) == o \in {"ok", "lost"}

\* The caller sees an exception.
Failed(o) == o \in {"error", "lost"}

Disturb == faults < MaxFaults /\ faults' = faults + 1

Outcome(o) == IF o = "ok" THEN UNCHANGED faults ELSE Disturb

Pending == {m \in Messages : pel[m] > 0}

\* B is the first (at most n) elements of S in stream order.
IsFirst(B, S, n) ==
    /\ B \subseteq S
    /\ Cardinality(B) <= n
    /\ \A x \in B, y \in S \ B : x < y
    /\ Cardinality(B) = n \/ B = S

\* Entries of B are delivered: the count goes up and the idle time restarts.
Deliver(B) ==
    /\ pel' = [m \in Messages |->
                 IF m \in B /\ pel[m] < DeliveryCap THEN pel[m] + 1 ELSE pel[m]]
    /\ idle' = idle \ B

\* XACK removes an entry from the PEL.
Settle(m) ==
    /\ pel' = [pel EXCEPT ![m] = 0]
    /\ idle' = idle \ {m}

\* xack with outcome o
Xack(m, o) ==
    /\ Outcome(o)
    /\ IF Ran(o) THEN Settle(m) ELSE UNCHANGED <<pel, idle>>

\* The producers' XADD, with approximate MAXLEN trimming.
Xadd ==
    /\ added < N
    /\ added' = added + 1
    /\ \E t \in trimmed..added' :
          /\ t = trimmed \/ added' - t >= MaxLen
          /\ trimmed' = t
    /\ UNCHANGED <<group, groupStart, lastDelivered, pel, idle, dead>>
    /\ UNCHANGED <<loopVars, taskVars, historyVars>>

\* The coroutine of m only waits for a free slot.
Starved(c, m) == task[c][m] = "waiting" /\ slots[c] = 0

\* reclaim_idle_ms pass since m was delivered.  It is configured longer than the
\* longest handling of one message (unless SlowHandlers): only an entry nobody
\* handles, or one that still waits for its slot, gets there.
BecomeIdle(m) ==
    /\ m \in Pending \ idle
    /\ SlowHandlers \/ \A c \in Consumers : task[c][m] = "none" \/ Starved(c, m)
    /\ idle' = idle \cup {m}
    /\ UNCHANGED <<added, trimmed, group, groupStart, lastDelivered, pel, dead>>
    /\ UNCHANGED <<loopVars, taskVars, historyVars>>

-----------------------------------------------------------------------------
(* The run() loop *)

NoTasks == [m \in Messages |-> "none"]
NoAttempts == [m \in Messages |-> 0]

Init ==
    /\ added = 0 /\ trimmed = 0
    /\ group = FALSE /\ groupStart = 0 /\ lastDelivered = 0
    /\ pel = [m \in Messages |-> 0]
    /\ idle = {} /\ dead = {}
    /\ pc = [c \in Consumers |-> "down"]
    /\ running = [c \in Consumers |-> FALSE]
    /\ due = [c \in Consumers |-> FALSE]
    /\ cursor = [c \in Consumers |-> 0]
    /\ task = [c \in Consumers |-> NoTasks]
    /\ attempt = [c \in Consumers |-> NoAttempts]
    /\ slots = [c \in Consumers |-> Concurrency]
    /\ applied = {} /\ kills = [m \in Messages |-> 0] /\ faults = 0

\* The id a group that is created now starts from.
GroupStart == IF GroupStartId = "0" THEN 0 ELSE added

\* _ensure_consumer_group: BUSYGROUP leaves an existing group alone.
EnsureConsumerGroup(o) ==
    /\ Outcome(o)
    /\ IF Ran(o) /\ ~group
         THEN /\ group' = TRUE
              /\ groupStart' = GroupStart
              /\ lastDelivered' = GroupStart
         ELSE UNCHANGED <<group, groupStart, lastDelivered>>

\* A (re)started process enters run(); it ends at once when the group can not
\* be ensured.
Start(c) ==
    /\ pc[c] = "down"
    /\ \E o \in Outcomes :
          /\ EnsureConsumerGroup(o)
          /\ IF Failed(o)
               THEN UNCHANGED <<pc, running, due>>
               ELSE /\ pc' = [pc EXCEPT ![c] = "top"]
                    /\ running' = [running EXCEPT ![c] = TRUE]
                    /\ due' = [due EXCEPT ![c] = TRUE]
    /\ UNCHANGED <<added, trimmed, pel, idle, dead, cursor, taskVars, applied, kills>>

\* reclaim_interval_s pass since the last reclaim.
IntervalElapses(c) ==
    /\ pc[c] # "down" /\ ~due[c]
    /\ due' = [due EXCEPT ![c] = TRUE]
    /\ UNCHANGED <<redisVars, pc, running, cursor, taskVars, historyVars>>

\* Where the head of the while loop goes.
NeverReclaims(c) == IF running[c] THEN "read" ELSE "down"
AfterTop(c) ==
    IF ~running[c] THEN "down" ELSE IF due[c] THEN "scan" ELSE "read"

LoopTop(c) ==
    /\ pc[c] = "top"
    /\ pc' = [pc EXCEPT ![c] = AfterTop(c)]
    /\ cursor' = [cursor EXCEPT ![c] = 0]
    /\ UNCHANGED <<redisVars, running, due, taskVars, historyVars>>

\* except Exception of run(): back off and loop again, or give up and raise.
LoopError(c) ==
    \/ pc' = [pc EXCEPT ![c] = "top"] /\ UNCHANGED running
    \/ pc' = [pc EXCEPT ![c] = "down"] /\ running' = [running EXCEPT ![c] = FALSE]

\* stop(), from another coroutine or a signal handler
Stop(c) ==
    /\ pc[c] # "down" /\ running[c]
    /\ Disturb
    /\ running' = [running EXCEPT ![c] = FALSE]
    /\ UNCHANGED <<redisVars, pc, due, cursor, taskVars, applied, kills>>

\* The process is gone, and with it every coroutine and the semaphore.
Die(c) ==
    /\ pc' = [pc EXCEPT ![c] = "down"]
    /\ running' = [running EXCEPT ![c] = FALSE]
    /\ task' = [task EXCEPT ![c] = NoTasks]
    /\ attempt' = [attempt EXCEPT ![c] = NoAttempts]
    /\ slots' = [slots EXCEPT ![c] = Concurrency]
    /\ due' = [due EXCEPT ![c] = FALSE]
    /\ cursor' = [cursor EXCEPT ![c] = 0]

Crash(c) ==
    /\ pc[c] # "down"
    /\ Disturb
    /\ Die(c)
    /\ UNCHANGED <<redisVars, applied, kills>>

-----------------------------------------------------------------------------
(* _reclaim_pending: scan the PEL in batches, triage each batch, handle it *)

\* The cursor XAUTOCLAIM returns with batch B: the pending entry after a full
\* batch, or the end of the scan.
NextCursor(B, next) ==
    LET rest == {m \in Pending : \A b \in B : m > b}
    IN  IF Cardinality(B) < BatchSize \/ rest = {}
          THEN next = 0
          ELSE next \in rest /\ \A m \in rest : next <= m

\* Claimed coroutines-to-be: an entry that was trimmed comes without fields.
Claimed(B) == [m \in Messages |->
    IF m \notin B THEN "none" ELSE IF m <= trimmed THEN "void" ELSE "claimed"]

\* min_idle_time = reclaim_idle_ms
ReclaimsAnyPending(c) == {m \in Pending : m >= cursor[c]}
Reclaimable(c) == {m \in idle : m >= cursor[c]}

Xautoclaim(c) ==
    /\ pc[c] = "scan" /\ running[c]
    /\ \E o \in Outcomes, B \in SUBSET Messages :
          /\ IsFirst(B, Reclaimable(c), BatchSize)
          /\ Outcome(o)
          /\ IF Ran(o) THEN Deliver(B) ELSE UNCHANGED <<pel, idle>>
          /\ IF Failed(o)
               THEN LoopError(c) /\ UNCHANGED <<cursor, task>>
               ELSE /\ \E next \in 0..N :
                          /\ NextCursor(B, next)
                          /\ cursor' = [cursor EXCEPT ![c] = next]
                    /\ task' = [task EXCEPT ![c] = Claimed(B)]
                    /\ pc' = [pc EXCEPT ![c] = "triage"]
                    /\ UNCHANGED running
    /\ UNCHANGED <<added, trimmed, group, groupStart, lastDelivered, dead, due, attempt, slots,
                   applied, kills>>

\* The while condition of the scan fails: the reclaim returns normally.
ScanStopped(c) ==
    /\ pc[c] = "scan" /\ ~running[c]
    /\ pc' = [pc EXCEPT ![c] = "read"]
    /\ due' = [due EXCEPT ![c] = FALSE]
    /\ UNCHANGED <<redisVars, running, cursor, taskVars, historyVars>>

\* Claimed entries _handle_reclaimed has not looked at yet, in order.
Untriaged(c) == {m \in Messages : task[c][m] \in {"claimed", "void"}}
IsNextUntriaged(c, m) == m \in Untriaged(c) /\ \A k \in Untriaged(c) : m <= k

\* First state of _handle_entry: straight to the DLQ without an attempt for an
\* invalid envelope.
FirstTask(m) == IF m \in Invalid THEN "dlq" ELSE "waiting"

\* deliveries is not None and deliveries > self.max_deliveries; the PEL row of
\* an entry that was ACKed meanwhile is gone, which reads as None.
LimitOffByOne(m) == pel[m] > MaxDeliveries + 1
OverLimit(m) == pel[m] > MaxDeliveries

\* A trimmed entry is only ACKed.  When that fails, the exception leaves
\* _handle_reclaimed and the rest of the batch is never handled here.
TriageVoid(c, m) ==
    /\ pc[c] = "triage" /\ IsNextUntriaged(c, m) /\ task[c][m] = "void"
    /\ \E o \in Outcomes :
          /\ Xack(m, o)
          /\ IF Failed(o)
               THEN /\ LoopError(c)
                    /\ task' = [task EXCEPT ![c] = NoTasks]
                    /\ attempt' = [attempt EXCEPT ![c] = NoAttempts]
               ELSE /\ task' = [task EXCEPT ![c][m] = "none"]
                    /\ UNCHANGED <<pc, running, attempt>>
    /\ UNCHANGED <<added, trimmed, group, groupStart, lastDelivered, dead, due, cursor, slots,
                   applied, kills>>

\* _delivery_count, then the DLQ or the normal handling; a failing XPENDING
\* reads as None as well.
TriageClaimed(c, m) ==
    /\ pc[c] = "triage" /\ IsNextUntriaged(c, m) /\ task[c][m] = "claimed"
    /\ \E known \in BOOLEAN :
          /\ IF known THEN UNCHANGED faults ELSE Disturb
          /\ task' = [task EXCEPT ![c][m] =
                        IF known /\ OverLimit(m) THEN "dlq" ELSE FirstTask(m)]
    /\ attempt' = [attempt EXCEPT ![c][m] = 1]
    /\ UNCHANGED <<redisVars, loopVars, slots, applied, kills>>

TriageDone(c) ==
    /\ pc[c] = "triage" /\ Untriaged(c) = {}
    /\ pc' = [pc EXCEPT ![c] = "gatherC"]
    /\ UNCHANGED <<redisVars, running, due, cursor, taskVars, historyVars>>

AllDone(c) == task[c] = NoTasks

\* asyncio.gather returned: next batch of the scan, or last_reclaim = now.
ReclaimDone(c) ==
    /\ pc[c] = "gatherC" /\ AllDone(c)
    /\ IF cursor[c] = 0
         THEN /\ pc' = [pc EXCEPT ![c] = "read"]
              /\ due' = [due EXCEPT ![c] = FALSE]
         ELSE pc' = [pc EXCEPT ![c] = "scan"] /\ UNCHANGED due
    /\ UNCHANGED <<redisVars, running, cursor, taskVars, historyVars>>

-----------------------------------------------------------------------------
(* Reading new entries *)

Undelivered == {m \in 1..added : m > lastDelivered /\ m > trimmed}

\* XREADGROUP ">": the next entries that still exist become pending.
Xreadgroup(c) ==
    /\ pc[c] = "read"
    /\ \E o \in Outcomes, B \in SUBSET Messages :
          /\ IsFirst(B, Undelivered, BatchSize)
          /\ Outcome(o)
          /\ IF Ran(o) THEN Deliver(B) ELSE UNCHANGED <<pel, idle>>
          /\ IF Ran(o) /\ B # {}
               THEN lastDelivered' \in B /\ \A m \in B : m <= lastDelivered'
               ELSE UNCHANGED lastDelivered
          /\ IF Failed(o)
               THEN LoopError(c) /\ UNCHANGED <<task, attempt>>
               ELSE /\ pc' = [pc EXCEPT ![c] = IF B = {} THEN "top" ELSE "gatherR"]
                    /\ task' = [task EXCEPT ![c] =
                          [m \in Messages |-> IF m \in B THEN FirstTask(m) ELSE "none"]]
                    /\ attempt' = [attempt EXCEPT ![c] =
                          [m \in Messages |-> IF m \in B THEN 1 ELSE 0]]
                    /\ UNCHANGED running
    /\ UNCHANGED <<added, trimmed, group, groupStart, dead, due, cursor, slots, applied, kills>>

ReadDone(c) ==
    /\ pc[c] = "gatherR" /\ AllDone(c)
    /\ pc' = [pc EXCEPT ![c] = "top"]
    /\ UNCHANGED <<redisVars, running, due, cursor, taskVars, historyVars>>

-----------------------------------------------------------------------------
(* _handle_entry and _dead_letter_reclaimed: the coroutine of one entry *)

Gathering(c) == pc[c] \in {"gatherC", "gatherR"}

InTask(c, m, s) == Gathering(c) /\ task[c][m] = s

\* The coroutine goes on at s; "none" ends it.
TaskTo(c, m, s) ==
    /\ task' = [task EXCEPT ![c][m] = s]
    /\ attempt' = [attempt EXCEPT ![c][m] = IF s = "none" THEN 0 ELSE @]

TakeSlot(c) == slots' = [slots EXCEPT ![c] = @ - 1]
FreeSlotTwice(c) == slots' = [slots EXCEPT ![c] = @ + 2]
SlotLeaks(c) == UNCHANGED slots
FreeSlot(c) == slots' = [slots EXCEPT ![c] = @ + 1]

\* async with self._semaphore
AcquireSlot(c, m) ==
    /\ InTask(c, m, "waiting") /\ slots[c] > 0
    /\ TakeSlot(c)
    /\ TaskTo(c, m, "processing")
    /\ UNCHANGED <<redisVars, loopVars, historyVars>>

\* process_message returns
ProcessOk(c, m) ==
    /\ InTask(c, m, "processing")
    /\ applied' = applied \cup {m}
    /\ TaskTo(c, m, "acking")
    /\ UNCHANGED <<redisVars, loopVars, slots, kills, faults>>

\* Any exception of an attempt: sleep before the next one, or the DLQ.
AcksWithoutDlq(c, m) == IF attempt[c][m] < MaxRetries THEN "sleeping" ELSE "dlqack"
AfterFailure(c, m) ==
    IF attempt[c][m] < MaxRetries THEN "sleeping" ELSE "dlq"

ProcessFails(c, m) ==
    /\ InTask(c, m, "processing")
    /\ FreeSlot(c)
    /\ TaskTo(c, m, AfterFailure(c, m))
    /\ UNCHANGED <<redisVars, loopVars, historyVars>>

\* NonRetryableError: break out of the attempts
ProcessNonRetryable(c, m) ==
    /\ InTask(c, m, "processing")
    /\ FreeSlot(c)
    /\ TaskTo(c, m, "dlq")
    /\ UNCHANGED <<redisVars, loopVars, historyVars>>

\* The handler takes the process down (out of memory, os._exit, a segfault).
ProcessKills(c, m) ==
    /\ InTask(c, m, "processing") /\ m \in Poison
    /\ kills' = [kills EXCEPT ![m] = @ + 1]
    /\ Die(c)
    /\ UNCHANGED <<redisVars, applied, faults>>

AckDoesNotReturn(c, m, o) == AfterFailure(c, m)
AfterAck(c, m, o) == IF Failed(o) THEN AfterFailure(c, m) ELSE "none"

\* XACK inside the attempt: when it fails the attempt failed, although the
\* message was processed.
XackProcessed(c, m) ==
    /\ InTask(c, m, "acking")
    /\ FreeSlot(c)
    /\ \E o \in Outcomes :
          /\ Xack(m, o)
          /\ TaskTo(c, m, AfterAck(c, m, o))
    /\ UNCHANGED <<added, trimmed, group, groupStart, lastDelivered, dead, loopVars, applied, kills>>

\* retry_delay is over: the next attempt
Wake(c, m) ==
    /\ InTask(c, m, "sleeping")
    /\ task' = [task EXCEPT ![c][m] = "waiting"]
    /\ attempt' = [attempt EXCEPT ![c][m] = @ + 1]
    /\ UNCHANGED <<redisVars, loopVars, slots, historyVars>>

DlqErrorIgnored(o) == "dlqack"
AfterDlq(o) == IF Failed(o) THEN "none" ELSE "dlqack"

\* _send_to_dlq: when it raises, the coroutine ends without an ACK.
SendToDlq(c, m) ==
    /\ InTask(c, m, "dlq")
    /\ \E o \in Outcomes :
          /\ Outcome(o)
          /\ dead' = IF Ran(o) THEN dead \cup {m} ELSE dead
          /\ TaskTo(c, m, AfterDlq(o))
    /\ UNCHANGED <<added, trimmed, group, groupStart, lastDelivered, pel, idle, loopVars, slots,
                   applied, kills>>

XackDead(c, m) ==
    /\ InTask(c, m, "dlqack")
    /\ \E o \in Outcomes : Xack(m, o)
    /\ TaskTo(c, m, "none")
    /\ UNCHANGED <<added, trimmed, group, groupStart, lastDelivered, dead, loopVars, slots,
                   applied, kills>>

-----------------------------------------------------------------------------
LoopStep(c) ==
    \/ LoopTop(c) \/ Xautoclaim(c) \/ ScanStopped(c) \/ TriageDone(c)
    \/ ReclaimDone(c) \/ Xreadgroup(c) \/ ReadDone(c)
    \/ \E m \in Messages : TriageVoid(c, m) \/ TriageClaimed(c, m)

TaskStep(c, m) ==
    \/ AcquireSlot(c, m) \/ ProcessOk(c, m) \/ ProcessFails(c, m)
    \/ ProcessNonRetryable(c, m) \/ ProcessKills(c, m) \/ XackProcessed(c, m)
    \/ Wake(c, m) \/ SendToDlq(c, m) \/ XackDead(c, m)

Next ==
    \/ Xadd
    \/ \E m \in Messages : BecomeIdle(m)
    \/ \E c \in Consumers :
          \/ Start(c) \/ IntervalElapses(c) \/ Stop(c) \/ Crash(c)
          \/ LoopStep(c)
          \/ \E m \in Messages : TaskStep(c, m)

Spec == Init /\ [][Next]_vars

\* Time passes, coroutines that can run do, and the orchestrator restarts a
\* process that ended.
Fairness ==
    /\ \A m \in Messages : WF_vars(BecomeIdle(m))
    /\ \A c \in Consumers :
          /\ WF_vars(Start(c)) /\ WF_vars(IntervalElapses(c)) /\ WF_vars(LoopStep(c))
          /\ \A m \in Messages : WF_vars(TaskStep(c, m))

FairSpec == Spec /\ Fairness

-----------------------------------------------------------------------------
(* Properties *)

\* No longer in the hands of the group.
Settled == {m \in Messages : groupStart < m /\ m <= lastDelivered /\ pel[m] = 0}

\* Entries nobody can handle any more: trimmed by MAXLEN, or in the stream
\* before a group that starts at "$".
Dropped == {m \in Messages : m <= trimmed \/ m <= groupStart}

\* No entry is lost: whatever fails or dies, an entry that left the PEL was
\* processed, is in the DLQ, or was trimmed (_send_to_dlq, _handle_entry,
\* _handle_reclaimed: only what was dealt with is ACKed).
NoMessageLost == Settled \subseteq applied \cup dead \cup Dropped

Holders(c) == {m \in Messages : task[c][m] \in {"processing", "acking"}}

\* The semaphore's slots are neither leaked nor doubled over retries, failed
\* ACKs and dead processes: free slots and running attempts make Concurrency.
SlotAccounting ==
    \A c \in Consumers : slots[c] + Cardinality(Holders(c)) = Concurrency

\* When reclaim_idle_ms exceeds the handling time of a message and a batch fits
\* the semaphore, no message is handled by two processes at the same time.
OneHandlerAtATime ==
    ~SlowHandlers /\ BatchSize <= Concurrency =>
        \A m \in Messages, c, d \in Consumers :
            task[c][m] # "none" /\ task[d][m] # "none" => c = d

\* A message that kills the process does so at most max_deliveries times, plus
\* once for each delivery count that Redis could not tell.
KillsBounded == \A m \in Messages : kills[m] <= MaxDeliveries + faults

\* As long as no call failed and no process died, nothing that was processed
\* also lands in the DLQ: the ACK of an attempt is its last step.
AppliedNotDead ==
    faults = 0 /\ (\A m \in Messages : kills[m] = 0) => applied \cap dead = {}

\* Every entry the group has to handle ends processed, in the DLQ or trimmed,
\* and is not left pending, however many processes die on the way.
EventuallySettled ==
    \A m \in Messages : (m <= added) ~> (m \in Settled \cup Dropped)

\* The invariant behind the three: where coroutines can be ...
TaskPlace ==
    \A c \in Consumers, m \in Messages :
        /\ pc[c] \notin {"triage", "gatherC", "gatherR"} => task[c][m] = "none"
        /\ pc[c] = "triage" => task[c][m] \in {"none", "claimed", "void", "waiting", "dlq"}
        /\ Gathering(c) => task[c][m] \notin {"claimed", "void"}

\* ... what a coroutine knows of its entry, which survives whatever the other
\* processes do meanwhile ...
TaskMeaning ==
    \A c \in Consumers, m \in Messages :
        /\ task[c][m] # "none" => m <= lastDelivered
        /\ task[c][m] = "acking" => m \in applied
        /\ task[c][m] = "dlqack" => m \in dead
        /\ task[c][m] = "void" => m <= trimmed

\* ... and what can be pending.
PelPlace ==
    /\ \A m \in Messages : pel[m] > 0 => groupStart < m /\ m <= lastDelivered
    /\ \A m \in idle : pel[m] > 0
    /\ ~group => lastDelivered = 0 /\ \A c \in Consumers : pc[c] = "down"

\* An entry is never ACKed on the word of a coroutine that does not know it
\* processed, dead-lettered or void: the inductive form of NoMessageLost.
LossInv == TaskPlace /\ TaskMeaning /\ PelPlace /\ NoMessageLost

\* The consumers implement at-least-once delivery.
Delivery == INSTANCE AtLeastOnce WITH
    accepted <- 1..added, dropped <- Dropped, settled <- Settled
ImplementsAtLeastOnce == Delivery!Spec
=============================================================================
