---------------------------- MODULE ConsumerLoop ----------------------------
(***************************************************************************)
(* The life of one run() of a BaseRedisConsumer: start, the loop with its  *)
(* failure counter and back-off, stop(), cancellation of the task and      *)
(* giving up (atsig_common/redis/consumer.py).  What happens to the        *)
(* messages meanwhile is StreamConsumer's subject; here a batch is one     *)
(* step.  A Redis call fails exactly when Redis is down.                   *)
(***************************************************************************)
EXTENDS Integers

CONSTANTS
    Limits,            \* values of max_loop_failures
    Delay,             \* loop_error_delay
    MaxDelay,          \* loop_error_max_delay
    FloatMaxExponent,  \* largest n for which 2^n converts to a float (1023)
    FailureCap,        \* bound on the failure counter of the model
    MaxOutages,        \* bound on the outages of Redis
    MayCancel          \* the task may be cancelled

ASSUME LoopAssumption ==
    /\ Limits \subseteq Nat /\ Delay \in Nat \ {0} /\ MaxDelay \in Nat \ {0}
    /\ FloatMaxExponent \in Nat
    /\ FailureCap \in Nat /\ (\A n \in Limits : FailureCap > n)
    /\ FailureCap > FloatMaxExponent + 1
    /\ Delay * 2^(FailureCap - 1) >= MaxDelay
    /\ MaxOutages \in Nat /\ MayCancel \in BOOLEAN

VARIABLES
    maxLoopFailures,   \* max_loop_failures of this consumer, 0 = never give up
    floatDelay,        \* its loop_error_delay is a float
    pc,        \* where run() is
    running,   \* _is_running
    failures,  \* failures in a row
    delay,     \* the back-off being slept, 0 = none
    due,       \* last_reclaim is None or reclaim_interval_s ago
    up,        \* Redis answers
    outages,   \* outages so far
    stopped    \* history: where run() was when stop() was called

config == <<maxLoopFailures, floatDelay>>
vars == <<config, pc, running, failures, delay, due, up, outages, stopped>>

Looping == {"top", "reclaiming", "reading", "handling", "backoff"}
Ended == {"returned", "raised", "cancelled"}

TypeOK ==
    /\ maxLoopFailures \in Limits /\ floatDelay \in BOOLEAN
    /\ pc \in Looping \cup Ended \cup {"ensuring"}
    /\ running \in BOOLEAN
    /\ failures \in 0..FailureCap
    /\ delay \in 0..MaxDelay
    /\ due \in BOOLEAN
    /\ up \in BOOLEAN
    /\ outages \in 0..MaxOutages
    /\ stopped \in {"no", "early", "loop"}

Init ==
    /\ maxLoopFailures \in Limits /\ floatDelay \in BOOLEAN
    /\ pc = "ensuring" /\ running = FALSE
    /\ failures = 0 /\ delay = 0
    /\ due = TRUE
    /\ up \in BOOLEAN /\ outages = 0 /\ stopped = "no"

\* await self._ensure_consumer_group(): its failure leaves run().
Ensure ==
    /\ pc = "ensuring"
    /\ IF up THEN pc' = "top" /\ running' = TRUE
             ELSE pc' = "raised" /\ UNCHANGED running
    /\ UNCHANGED <<config, failures, delay, due, up, outages, stopped>>

LoopTop ==
    /\ pc = "top"
    /\ pc' = IF ~running THEN "returned" ELSE IF due THEN "reclaiming" ELSE "reading"
    /\ UNCHANGED <<config, running, failures, delay, due, up, outages, stopped>>

BackOff(n) == IF Delay * 2^(n - 1) < MaxDelay THEN Delay * 2^(n - 1) ELSE MaxDelay

\* The delay and its limit are positive, so every back-off is.
ASSUME BackOffAssumption == \A n \in 1..FailureCap : BackOff(n) \in 1..MaxDelay

\* loop_error_delay * 2 ** (failures - 1) raises OverflowError.
Overflows(n) == floatDelay /\ n - 1 > FloatMaxExponent

NeverGiveUp(n) == FALSE
GiveUp(n) == maxLoopFailures # 0 /\ n >= maxLoopFailures

Increment(n) == IF n < FailureCap THEN n + 1 ELSE n

\* except Exception as loop_error
LoopError ==
    LET n == Increment(failures)
    IN  /\ failures' = n
        /\ CASE Overflows(n) -> pc' = "raised" /\ UNCHANGED <<running, delay>>
             [] ~Overflows(n) /\ GiveUp(n) ->
                    pc' = "raised" /\ running' = FALSE /\ UNCHANGED delay
             [] OTHER -> pc' = "backoff" /\ delay' = BackOff(n) /\ UNCHANGED running

\* await self._reclaim_pending() fails ...
ReclaimFails ==
    /\ pc = "reclaiming" /\ ~up
    /\ LoopError
    /\ UNCHANGED <<config, due, up, outages, stopped>>

\* The interval starts again when a reclaim succeeded.
DueStaysSet == TRUE
DueAfterReclaim == FALSE

\* ... or succeeds
Reclaim ==
    /\ pc = "reclaiming" /\ up
    /\ pc' = "reading"
    /\ due' = DueAfterReclaim
    /\ UNCHANGED <<config, running, failures, delay, up, outages, stopped>>

ReadFails ==
    /\ pc = "reading" /\ ~up
    /\ LoopError
    /\ UNCHANGED <<config, due, up, outages, stopped>>

FailuresAddUp == failures
FailuresAfterRead == 0

Read ==
    /\ pc = "reading" /\ up
    /\ failures' = FailuresAfterRead
    /\ pc' \in {"top", "handling"}
    /\ UNCHANGED <<config, running, delay, due, up, outages, stopped>>

Handled ==
    /\ pc = "handling"
    /\ pc' = "top"
    /\ UNCHANGED <<config, running, failures, delay, due, up, outages, stopped>>

\* asyncio.sleep(delay) returns
WakeUp ==
    /\ pc = "backoff"
    /\ pc' = "top" /\ delay' = 0
    /\ UNCHANGED <<config, running, failures, due, up, outages, stopped>>

RunStep == Ensure \/ LoopTop \/ ReclaimFails \/ Reclaim \/ ReadFails \/ Read
           \/ Handled \/ WakeUp

StopIgnored == TRUE
StopValue == FALSE

\* stop()
Stop ==
    /\ pc \notin Ended /\ stopped = "no"
    /\ stopped' = IF pc = "ensuring" THEN "early" ELSE "loop"
    /\ running' = StopValue
    /\ UNCHANGED <<config, pc, failures, delay, due, up, outages>>

OnlyReadsGuarded == {"reclaiming", "reading"}
\* The awaits inside the try block; the back-off sleeps in its except clause.
Guarded == {"reclaiming", "reading", "handling"}

\* task.cancel(): CancelledError is raised at the await run() is suspended in.
Cancel ==
    /\ MayCancel
    /\ pc \in {"ensuring", "reclaiming", "reading", "handling", "backoff"}
    /\ pc' = "cancelled"
    /\ IF pc \in Guarded THEN running' = FALSE ELSE UNCHANGED running
    /\ UNCHANGED <<config, failures, delay, due, up, outages, stopped>>

\* reclaim_interval_s pass
IntervalElapses ==
    /\ pc \in Looping /\ ~due
    /\ due' = TRUE
    /\ UNCHANGED <<config, pc, running, failures, delay, up, outages, stopped>>

RedisFails ==
    /\ up /\ outages < MaxOutages
    /\ up' = FALSE /\ outages' = outages + 1
    /\ UNCHANGED <<config, pc, running, failures, delay, due, stopped>>

RedisRecovers ==
    /\ ~up /\ up' = TRUE
    /\ UNCHANGED <<config, pc, running, failures, delay, due, outages, stopped>>

\* The run is over; nothing is left to do.
Over ==
    /\ pc \in Ended
    /\ UNCHANGED vars

Next == RunStep \/ Stop \/ Cancel \/ IntervalElapses \/ RedisFails \/ RedisRecovers
        \/ Over

Spec == Init /\ [][Next]_vars

\* The event loop runs a coroutine that is ready, and time passes.
FairSpec == Spec /\ WF_vars(RunStep) /\ WF_vars(IntervalElapses)

-----------------------------------------------------------------------------
(* Properties *)

\* Redis staying down makes run() raise, so that the orchestrator sees it,
\* instead of retrying silently for ever (unless stop() ends it first).
OutageEndsRun == maxLoopFailures # 0 => []<>up \/ <>(pc \in Ended)

\* An outage that is over is forgotten: once Redis stays up, failures that were
\* counted lead to a read that sets the count back, whatever the loop was doing,
\* so that outages long apart do not add up to giving up.
OutageIsForgotten ==
    <>[]up => (failures > 0 /\ pc \in Looping) ~> (failures = 0 \/ pc \in Ended)

\* What consumer.py:116 says of max_loop_failures: "0 means never give up".
ZeroNeverGivesUp ==
    [][maxLoopFailures = 0 /\ pc \in Looping => pc' # "raised"]_vars

\* A run() that has ended left _is_running FALSE, unless it was cancelled in the
\* sleep of its except clause or ended by the overflow of its back-off.
FlagFollowsRun ==
    pc \in Ended /\ running =>
        \/ pc = "cancelled" /\ delay # 0
        \/ pc = "raised" /\ Overflows(failures)

\* stop() ends run() once it is in its loop.
StopInLoopEnds == (stopped = "loop") ~> (pc \in Ended)

\* Pending entries are looked after again and again: a reclaim that is due
\* completes, or run() ends (or Redis stays down for a run() that never gives up).
ReclaimRecurs ==
    maxLoopFailures # 0 \/ []<>up => (due /\ pc \in Looping) ~> (~due \/ pc \in Ended)
=============================================================================
