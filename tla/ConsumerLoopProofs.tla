------------------------- MODULE ConsumerLoopProofs -------------------------
(* Proofs about ConsumerLoop: when run() ends and what it leaves behind, for  *)
(* every limit, delay and number of outages.                                  *)
EXTENDS ConsumerLoop, TLAPS

\* The sizes of the constants, without the arithmetic of the back-off.
LEMMA LoopSizes ==
    /\ Limits \subseteq Nat /\ MaxDelay \in Nat \ {0} /\ FloatMaxExponent \in Nat
    /\ FailureCap \in Nat \ {0} /\ MaxOutages \in Nat
BY LoopAssumption

USE LoopSizes DEF config

\* _is_running is set only once the group is ensured, and a back-off is a sleep of
\* some length: what makes FlagFollowsRun inductive.
FlagInv ==
    /\ TypeOK
    /\ pc = "ensuring" => running = FALSE
    /\ pc = "backoff" => delay # 0
    /\ FlagFollowsRun

\* The failure counter stays within its bound.
LEMMA IncrementType ==
    ASSUME TypeOK PROVE Increment(failures) \in 1..FailureCap
BY DEF Increment, TypeOK

\* What an exception in the loop comes to: a back-off, giving up, or the overflow
\* of the power of two in the except clause.
LEMMA LoopErrorCases ==
    ASSUME TypeOK, LoopError
    PROVE  /\ failures' \in 1..FailureCap
           /\ \/ pc' = "raised" /\ Overflows(failures') /\ UNCHANGED <<running, delay>>
              \/ pc' = "raised" /\ running' = FALSE /\ GiveUp(failures') /\ UNCHANGED delay
              \/ pc' = "backoff" /\ delay' \in 1..MaxDelay /\ UNCHANGED running
<1> DEFINE n == Increment(failures)
<1>1. failures' = n /\ n \in 1..FailureCap
  BY IncrementType DEF LoopError
<1>2. BackOff(n) \in 1..MaxDelay
  BY <1>1, BackOffAssumption
<1>3. \/ pc' = "raised" /\ Overflows(n) /\ UNCHANGED <<running, delay>>
      \/ pc' = "raised" /\ running' = FALSE /\ GiveUp(n) /\ UNCHANGED delay
      \/ pc' = "backoff" /\ delay' = BackOff(n) /\ UNCHANGED running
  BY Zenon DEF LoopError
<1> HIDE DEF n
<1> QED
  BY <1>1, <1>2, <1>3

\* An exception in the loop keeps the invariant.
LEMMA LoopErrorInv ==
    ASSUME FlagInv, LoopError, UNCHANGED <<config, due, up, outages, stopped>>
    PROVE  FlagInv'
<1>1. TypeOK
  BY DEF FlagInv
<1>2. maxLoopFailures' = maxLoopFailures /\ floatDelay' = floatDelay
  OBVIOUS
<1>3. failures' \in 1..FailureCap
  BY <1>1, LoopErrorCases
<1>4. CASE pc' = "raised" /\ Overflows(failures') /\ UNCHANGED <<running, delay>>
  <2>1. TypeOK'
    BY <1>1, <1>2, <1>3, <1>4 DEF TypeOK, Looping, Ended
  <2>2. FlagFollowsRun'
    BY <1>2, <1>4 DEF FlagFollowsRun, Overflows
  <2> QED
    BY <1>4, <2>1, <2>2 DEF FlagInv
<1>5. CASE pc' = "raised" /\ running' = FALSE /\ UNCHANGED delay
  <2>0. running' \in BOOLEAN
    BY <1>5, Zenon
  <2>1. TypeOK'
    BY <1>1, <1>2, <1>3, <1>5, <2>0 DEF TypeOK, Looping, Ended
  <2> QED
    BY <1>5, <2>1 DEF FlagInv, FlagFollowsRun
<1>6. CASE pc' = "backoff" /\ delay' \in 1..MaxDelay /\ UNCHANGED running
  <2>1. TypeOK'
    BY <1>1, <1>2, <1>3, <1>6 DEF TypeOK, Looping, Ended
  <2> QED
    BY <1>6, <2>1 DEF FlagInv, FlagFollowsRun, Ended
<1> QED
  BY <1>1, <1>4, <1>5, <1>6, LoopErrorCases

\* run() has not started.
LEMMA InitFlag == Init => FlagInv
<1> SUFFICES ASSUME Init PROVE FlagInv
  OBVIOUS
<1>0. running \in BOOLEAN /\ due \in BOOLEAN
  BY Zenon DEF Init
<1>1. TypeOK
  BY <1>0 DEF Init, TypeOK, Looping, Ended
<1> QED
  BY <1>1 DEF Init, FlagInv, FlagFollowsRun, Ended

\* Every step keeps the invariant.
LEMMA NextFlag == FlagInv /\ [Next]_vars => FlagInv'
<1> SUFFICES ASSUME FlagInv, [Next]_vars PROVE FlagInv'
  OBVIOUS
<1> USE DEF FlagInv, TypeOK, FlagFollowsRun, Overflows, Looping, Ended
<1>1. CASE Ensure
  BY <1>1 DEF Ensure
<1>2. CASE LoopTop
  BY <1>2 DEF LoopTop
<1>3. CASE ReclaimFails \/ ReadFails
  BY <1>3, LoopErrorInv DEF ReclaimFails, ReadFails
<1>4. CASE Reclaim
  BY <1>4 DEF Reclaim, DueAfterReclaim
<1>5. CASE Read
  BY <1>5 DEF Read, FailuresAfterRead
<1>6. CASE Handled
  BY <1>6 DEF Handled
<1>7. CASE WakeUp
  BY <1>7 DEF WakeUp
<1>8. CASE Stop
  BY <1>8 DEF Stop, StopValue
<1>9. CASE Cancel
  BY <1>9 DEF Cancel, Guarded
<1>10. CASE IntervalElapses
  BY <1>10 DEF IntervalElapses
<1>11. CASE RedisFails \/ RedisRecovers
  <2>1. up' \in BOOLEAN
    BY <1>11, Zenon DEF RedisFails, RedisRecovers
  <2>2. outages' \in 0..MaxOutages
    BY <1>11 DEF RedisFails, RedisRecovers
  <2>3. UNCHANGED <<config, pc, running, failures, delay, due, stopped>>
    BY <1>11 DEF RedisFails, RedisRecovers
  <2> QED
    BY <2>1, <2>2, <2>3
<1>12. CASE UNCHANGED vars
  BY <1>12 DEF vars
<1> QED
  BY <1>1, <1>2, <1>3, <1>4, <1>5, <1>6, <1>7, <1>8, <1>9, <1>10, <1>11, <1>12
     DEF Next, RunStep, Over

\* The invariant holds in every reachable state.
THEOREM FlagInvariance == Spec => []FlagInv
BY InitFlag, NextFlag, PTL DEF Spec

\* A run() that ended left _is_running FALSE, but for the two ends inside the
\* except clause: cancelled in its sleep, or the overflow of its back-off.
THEOREM FlagIsHonest == Spec => [](TypeOK /\ FlagFollowsRun)
<1>1. FlagInv => TypeOK /\ FlagFollowsRun
  BY DEF FlagInv
<1> QED
  BY <1>1, FlagInvariance, PTL
=============================================================================
