------------------------ MODULE StreamConsumerProofs ------------------------
(* Proofs about StreamConsumer, for every number of entries, processes,       *)
(* retries, deliveries and faults.                                            *)
EXTENDS StreamConsumer, FiniteSetTheorems, TLAPS

\* The inductive invariant: the types, what keeps messages from being lost, and
\* the accounting of the semaphore (without which a freed slot could exceed it).
Inv == TypeOK /\ LossInv
FullInv == Inv /\ SlotAccounting

USE SizesAssumption, KindsAssumption DEF redisVars, loopVars, taskVars, historyVars

-----------------------------------------------------------------------------
(* Initial states *)

\* The initial state is well-typed.
LEMMA InitType == Init => TypeOK
<1> SUFFICES ASSUME Init PROVE TypeOK
  OBVIOUS
<1>1. TypeRedis
  <2>1. group \in BOOLEAN
    BY Zenon DEF Init
  <2>2. pel \in [Messages -> 0..DeliveryCap]
    BY DEF Init, DeliveryCap
  <2>3. added \in 0..N /\ trimmed \in 0..added /\ groupStart \in 0..added
        /\ lastDelivered \in groupStart..added
    BY DEF Init
  <2>4. idle \subseteq Messages /\ dead \subseteq Messages
    BY Zenon DEF Init
  <2> QED
    BY <2>1, <2>2, <2>3, <2>4 DEF TypeRedis
<1>2. running \in [Consumers -> BOOLEAN] /\ due \in [Consumers -> BOOLEAN]
  BY Zenon DEF Init
<1>3. TypeLoop
  BY <1>2 DEF Init, TypeLoop, PCs
<1>4. TypeTask
  BY DEF Init, TypeTask, NoTasks, NoAttempts, TaskStates
<1>5. TypeHistory
  BY DEF Init, TypeHistory
<1> QED
  BY <1>1, <1>3, <1>4, <1>5 DEF TypeOK

\* Nothing is lost before anything was added.
LEMMA InitInv == Init => Inv
<1> SUFFICES ASSUME Init PROVE Inv
  OBVIOUS
<1>1. TypeOK
  BY InitType
<1>2. TaskPlace /\ TaskMeaning
  BY DEF Init, TaskPlace, TaskMeaning, NoTasks, Gathering
<1>3. PelPlace /\ NoMessageLost
  BY DEF Init, PelPlace, NoMessageLost, Settled, Messages
<1> QED
  BY <1>1, <1>2, <1>3 DEF Inv, LossInv

-----------------------------------------------------------------------------
(* Redis, and time *)

\* A failed call is charged to the fault budget.
LEMMA OutcomeType ==
    ASSUME TypeHistory, NEW o, Outcome(o) PROVE faults' \in 0..MaxFaults
BY DEF Outcome, Disturb, TypeHistory

\* A delivery keeps the type of the PEL.
LEMMA DeliverType ==
    ASSUME TypeRedis, NEW B \in SUBSET Messages, Deliver(B)
    PROVE  pel' \in [Messages -> 0..DeliveryCap] /\ idle' \subseteq Messages
BY DEF Deliver, TypeRedis, DeliveryCap

\* An ACK keeps the type of the PEL.
LEMMA XackType ==
    ASSUME TypeRedis, TypeHistory, NEW m \in Messages, NEW o, Xack(m, o)
    PROVE  /\ pel' \in [Messages -> 0..DeliveryCap] /\ idle' \subseteq Messages
           /\ faults' \in 0..MaxFaults
BY OutcomeType DEF Xack, Settle, TypeRedis, DeliveryCap

\* XADD: the new entry is undelivered, and trimming only enlarges Dropped.
LEMMA XaddInv == Inv /\ Xadd => Inv'
<1> SUFFICES ASSUME Inv, Xadd PROVE Inv'
  OBVIOUS
<1>1. TypeOK'
  BY DEF Xadd, Inv, TypeOK, TypeRedis, TypeLoop, TypeTask, TypeHistory
<1>2. TaskPlace'
  BY DEF Xadd, Inv, LossInv, TaskPlace, Gathering
<1>3. TaskMeaning' /\ PelPlace' /\ NoMessageLost'
  BY DEF Xadd, Inv, TypeOK, TypeRedis, LossInv, TaskMeaning, PelPlace, NoMessageLost,
         Settled, Dropped, Messages
<1> QED
  BY <1>1, <1>2, <1>3 DEF Inv, LossInv

\* Time passing changes nobody's coroutine.
LEMMA BecomeIdleInv ==
    ASSUME NEW m \in Messages, Inv, BecomeIdle(m) PROVE Inv'
<1>1. TypeOK'
  BY DEF BecomeIdle, Inv, TypeOK, TypeRedis, TypeLoop, TypeTask, TypeHistory
<1>2. TaskPlace' /\ TaskMeaning' /\ NoMessageLost'
  BY DEF BecomeIdle, Inv, LossInv, TaskPlace, TaskMeaning, Gathering, NoMessageLost,
         Settled, Dropped
<1>3. PelPlace'
  BY DEF BecomeIdle, Pending, Inv, LossInv, PelPlace
<1> QED
  BY <1>1, <1>2, <1>3 DEF Inv, LossInv

-----------------------------------------------------------------------------
(* The run() loop *)

\* Moving run() to a point where its coroutines may be changes nothing else.
LEMMA MoveLoop ==
    ASSUME Inv, NEW c \in Consumers, NEW p \in PCs,
           UNCHANGED <<redisVars, task, applied>>, pc' = [pc EXCEPT ![c] = p],
           group \/ p = "down",
           p \notin {"triage", "gatherC", "gatherR"} => \A m \in Messages : task[c][m] = "none",
           p = "triage" => pc[c] = "triage",
           p \in {"gatherC", "gatherR"} =>
               \A m \in Messages : task[c][m] \notin {"claimed", "void"}
    PROVE  LossInv' /\ pc' \in [Consumers -> PCs]
<1>1. pc' \in [Consumers -> PCs]
  BY DEF Inv, TypeOK, TypeLoop
<1>2. TaskPlace'
  BY DEF Inv, TypeOK, TypeLoop, LossInv, TaskPlace, Gathering
<1>3. TaskMeaning' /\ NoMessageLost'
  BY DEF Inv, LossInv, TaskMeaning, NoMessageLost, Settled, Dropped
<1>4. PelPlace'
  BY DEF Inv, TypeOK, TypeLoop, LossInv, PelPlace
<1> QED
  BY <1>1, <1>2, <1>3, <1>4 DEF LossInv

\* The head of the loop.
LEMMA LoopTopInv ==
    ASSUME NEW c \in Consumers, Inv, LoopTop(c) PROVE Inv'
<1>1. AfterTop(c) \in PCs \ {"triage", "gatherC", "gatherR"}
  BY DEF AfterTop, PCs
<1>2. group /\ \A m \in Messages : task[c][m] = "none"
  BY DEF LoopTop, Inv, LossInv, TaskPlace, PelPlace
<1>3. LossInv' /\ pc' \in [Consumers -> PCs]
  BY <1>1, <1>2, MoveLoop DEF LoopTop
<1>4. TypeOK'
  BY <1>3 DEF LoopTop, Inv, TypeOK, TypeRedis, TypeLoop, TypeTask, TypeHistory
<1> QED
  BY <1>3, <1>4 DEF Inv

\* The reclaim interval passing changes no coroutine.
LEMMA IntervalElapsesInv ==
    ASSUME NEW c \in Consumers, Inv, IntervalElapses(c) PROVE Inv'
BY DEF IntervalElapses, Inv, TypeOK, TypeRedis, TypeLoop, TypeTask, TypeHistory, LossInv,
       TaskPlace, TaskMeaning, PelPlace, NoMessageLost, Settled, Dropped, Gathering

\* stop() changes no coroutine.
LEMMA StopInv ==
    ASSUME NEW c \in Consumers, Inv, Stop(c) PROVE Inv'
BY DEF Stop, Disturb, Inv, TypeOK, TypeRedis, TypeLoop, TypeTask, TypeHistory, LossInv,
       TaskPlace, TaskMeaning, PelPlace, NoMessageLost, Settled, Dropped, Gathering

\* A dying process takes its coroutines along; its entries stay pending.
LEMMA DieInv ==
    ASSUME NEW c \in Consumers, Inv, Die(c), UNCHANGED <<redisVars, applied>>
    PROVE  TypeRedis' /\ TypeLoop' /\ TypeTask' /\ LossInv'
<1>1. TypeRedis'
  BY DEF Inv, TypeOK, TypeRedis
<1>2. TypeLoop'
  BY DEF Die, Inv, TypeOK, TypeLoop, PCs
<1>3. TypeTask'
  BY DEF Die, Inv, TypeOK, TypeTask, NoTasks, NoAttempts, TaskStates
<1>4. TaskPlace' /\ TaskMeaning'
  BY DEF Die, NoTasks, Inv, TypeOK, TypeLoop, TypeTask, LossInv, TaskPlace, TaskMeaning, Gathering
<1>5. PelPlace' /\ NoMessageLost'
  BY DEF Die, Inv, TypeOK, TypeLoop, LossInv, PelPlace, NoMessageLost, Settled, Dropped
<1> QED
  BY <1>1, <1>2, <1>3, <1>4, <1>5 DEF LossInv

\* A crash is a death that is charged to the fault budget.
LEMMA CrashInv ==
    ASSUME NEW c \in Consumers, Inv, Crash(c) PROVE Inv'
BY DieInv DEF Crash, Disturb, Inv, TypeOK, TypeHistory

\* A group that is created at the end of the stream drops what is in it; one
\* that exists is left alone.
LEMMA StartInv ==
    ASSUME NEW c \in Consumers, Inv, Start(c) PROVE Inv'
<1> PICK o \in Outcomes :
        /\ EnsureConsumerGroup(o)
        /\ IF Failed(o)
             THEN UNCHANGED <<pc, running, due>>
             ELSE /\ pc' = [pc EXCEPT ![c] = "top"]
                  /\ running' = [running EXCEPT ![c] = TRUE]
                  /\ due' = [due EXCEPT ![c] = TRUE]
  BY DEF Start
<1>1. UNCHANGED <<added, trimmed, pel, idle, dead, cursor, task, attempt, slots, applied, kills>>
  BY DEF Start
<1>2. faults' \in 0..MaxFaults
  BY OutcomeType DEF EnsureConsumerGroup, Inv, TypeOK
<1>3. \/ UNCHANGED <<pc, running, due>>
      \/ /\ pc' = [pc EXCEPT ![c] = "top"]
         /\ running' = [running EXCEPT ![c] = TRUE]
         /\ due' = [due EXCEPT ![c] = TRUE]
         /\ group'
  BY DEF EnsureConsumerGroup, Ran, Failed, Outcomes
<1>4. TypeLoop'
  BY <1>1, <1>3 DEF Inv, TypeOK, TypeLoop, PCs
<1>5. TypeTask' /\ TypeHistory'
  BY <1>1, <1>2 DEF Inv, TypeOK, TypeTask, TypeHistory
<1>6. TaskPlace'
  <2>1. CASE UNCHANGED pc
    BY <1>1, <2>1 DEF Inv, LossInv, TaskPlace, Gathering
  <2>2. CASE pc' = [pc EXCEPT ![c] = "top"]
    <3>1. \A m \in Messages : task[c][m] = "none"
      BY DEF Start, Inv, LossInv, TaskPlace
    <3> QED
      BY <1>1, <2>2, <3>1 DEF Inv, TypeOK, TypeLoop, LossInv, TaskPlace, Gathering
  <2> QED
    BY <1>3, <2>1, <2>2
<1>7. CASE UNCHANGED <<group, groupStart, lastDelivered>>
  <2>1. TypeRedis'
    BY <1>1, <1>7 DEF Inv, TypeOK, TypeRedis
  <2>2. TaskMeaning' /\ NoMessageLost'
    BY <1>1, <1>7 DEF Inv, LossInv, TaskMeaning, NoMessageLost, Settled, Dropped
  <2>3. PelPlace'
    BY <1>1, <1>3, <1>7 DEF Inv, LossInv, PelPlace
  <2> QED
    BY <1>4, <1>5, <1>6, <2>1, <2>2, <2>3 DEF Inv, TypeOK, LossInv
<1>8. CASE ~group /\ group' = TRUE /\ groupStart' = GroupStart /\ lastDelivered' = GroupStart
  <2>1. GroupStart \in 0..added
    BY DEF GroupStart, Inv, TypeOK, TypeRedis
  <2>2. TypeRedis'
    BY <1>1, <1>8, <2>1 DEF Inv, TypeOK, TypeRedis
  <2>3. \A m \in Messages : pel[m] = 0
    BY <1>8 DEF Inv, TypeOK, TypeRedis, LossInv, PelPlace, Messages
  <2>4. \A d \in Consumers, m \in Messages : task[d][m] = "none"
    BY <1>8 DEF Inv, LossInv, PelPlace, TaskPlace
  <2>5. TaskMeaning'
    BY <1>1, <2>4 DEF TaskMeaning
  <2>6. PelPlace'
    BY <1>1, <1>8, <2>3 DEF Inv, LossInv, PelPlace
  <2>7. Settled' = {}
    BY <1>8, <2>1, <2>2 DEF Settled, Messages, TypeRedis
  <2> QED
    BY <1>4, <1>5, <1>6, <2>2, <2>5, <2>6, <2>7 DEF Inv, TypeOK, LossInv, NoMessageLost
<1> QED
  BY <1>7, <1>8 DEF EnsureConsumerGroup

\* The exception of a failed call in the loop finds no coroutine running.
LEMMA LoopErrorInv ==
    ASSUME NEW c \in Consumers, Inv, LoopError(c), group
    PROVE  /\ pc' \in [Consumers -> PCs] /\ running' \in [Consumers -> BOOLEAN]
           /\ pc'[c] \in {"top", "down"}
           /\ \A d \in Consumers \ {c} : pc'[d] = pc[d]
BY DEF LoopError, Inv, TypeOK, TypeLoop, PCs

-----------------------------------------------------------------------------
(* Reclaiming *)

\* Claiming again what is pending settles nothing.
LEMMA ReclaimDelivery ==
    ASSUME Inv, NEW B \in SUBSET Messages, B \subseteq idle, Deliver(B),
           UNCHANGED <<added, trimmed, group, groupStart, lastDelivered, dead, applied>>
    PROVE  /\ NoMessageLost'
           /\ \A m \in Messages : pel'[m] > 0 <=> pel[m] > 0
           /\ \A m \in idle' : pel'[m] > 0
<1>1. \A m \in Messages : pel'[m] > 0 <=> pel[m] > 0
  BY DEF Deliver, Inv, TypeOK, TypeRedis, LossInv, PelPlace, DeliveryCap
<1>2. \A m \in Messages : pel'[m] = 0 <=> pel[m] = 0
  BY <1>1, DeliverType DEF Inv, TypeOK, TypeRedis, DeliveryCap
<1>3. Settled' = Settled /\ Dropped' = Dropped
  BY <1>2 DEF Settled, Dropped
<1>4. \A m \in idle' : pel'[m] > 0
  BY <1>1 DEF Deliver, Inv, TypeOK, TypeRedis, LossInv, PelPlace
<1> QED
  BY <1>1, <1>3, <1>4 DEF Inv, LossInv, NoMessageLost

\* XAUTOCLAIM, answered, failed or with its answer lost.
LEMMA XautoclaimInv ==
    ASSUME NEW c \in Consumers, Inv, Xautoclaim(c) PROVE Inv'
<1> PICK o \in Outcomes, B \in SUBSET Messages :
        /\ IsFirst(B, Reclaimable(c), BatchSize)
        /\ Outcome(o)
        /\ IF Ran(o) THEN Deliver(B) ELSE UNCHANGED <<pel, idle>>
        /\ IF Failed(o)
             THEN LoopError(c) /\ UNCHANGED <<cursor, task>>
             ELSE /\ \E next \in 0..N :
                        /\ NextCursor(B, next)
                        /\ cursor' = [cursor EXCEPT ![c] = next]
                  /\ task' = [task EXCEPT ![c] = Claimed(B)]
                  /\ pc' = [pc EXCEPT ![c] = "triage"]
                  /\ UNCHANGED running
  BY DEF Xautoclaim
<1>1. UNCHANGED <<added, trimmed, group, groupStart, lastDelivered, dead, due, attempt, slots,
                  applied, kills>>
  BY DEF Xautoclaim
<1>2. faults' \in 0..MaxFaults
  BY OutcomeType DEF Inv, TypeOK
<1>3. B \subseteq idle
  BY DEF IsFirst, Reclaimable
<1>4. pel' \in [Messages -> 0..DeliveryCap] /\ idle' \subseteq Messages
  BY DeliverType DEF Inv, TypeOK, TypeRedis
<1>5. TypeRedis' /\ TypeHistory'
  BY <1>1, <1>2, <1>4 DEF Inv, TypeOK, TypeRedis, TypeHistory
<1>6. /\ NoMessageLost'
      /\ \A m \in Messages : pel'[m] > 0 <=> pel[m] > 0
      /\ \A m \in idle' : pel'[m] > 0
  <2>1. CASE Ran(o)
    BY <1>1, <1>3, <2>1, ReclaimDelivery
  <2>2. CASE ~Ran(o)
    BY <1>1, <2>2 DEF Inv, LossInv, NoMessageLost, PelPlace, Settled, Dropped
  <2> QED
    BY <2>1, <2>2
<1>7. group /\ pc[c] = "scan" /\ \A m \in Messages : task[c][m] = "none"
  BY DEF Xautoclaim, Inv, LossInv, PelPlace, TaskPlace
<1>8. CASE Failed(o)
  <2>1. /\ pc' \in [Consumers -> PCs] /\ running' \in [Consumers -> BOOLEAN]
        /\ pc'[c] \in {"top", "down"}
        /\ \A d \in Consumers \ {c} : pc'[d] = pc[d]
    BY <1>7, <1>8, LoopErrorInv
  <2>2. TypeLoop' /\ TypeTask'
    BY <1>1, <1>8, <2>1 DEF Inv, TypeOK, TypeLoop, TypeTask
  <2>3. TaskPlace' /\ TaskMeaning'
    BY <1>1, <1>7, <1>8, <2>1 DEF Inv, LossInv, TaskPlace, TaskMeaning, Gathering
  <2>4. PelPlace'
    BY <1>1, <1>6, <1>7 DEF Inv, LossInv, PelPlace
  <2> QED
    BY <1>5, <1>6, <2>2, <2>3, <2>4 DEF Inv, TypeOK, LossInv
<1>9. CASE ~Failed(o)
  <2>1. TypeLoop'
    BY <1>1, <1>9 DEF Inv, TypeOK, TypeLoop, PCs
  <2>2. TypeTask'
    BY <1>1, <1>9 DEF Inv, TypeOK, TypeTask, Claimed, TaskStates
  <2>3. TaskPlace'
    BY <1>9 DEF Inv, TypeOK, TypeLoop, TypeTask, LossInv, TaskPlace, Gathering, Claimed
  <2>4. TaskMeaning'
    BY <1>1, <1>3, <1>9 DEF Inv, TypeOK, TypeTask, LossInv, TaskMeaning, PelPlace, Claimed
  <2>5. PelPlace'
    BY <1>1, <1>6, <1>7 DEF Inv, LossInv, PelPlace
  <2> QED
    BY <1>5, <1>6, <2>1, <2>2, <2>3, <2>4, <2>5 DEF Inv, TypeOK, LossInv
<1> QED
  BY <1>8, <1>9

\* The scan that finds stop() called.
LEMMA ScanStoppedInv ==
    ASSUME NEW c \in Consumers, Inv, ScanStopped(c) PROVE Inv'
<1>1. group /\ \A m \in Messages : task[c][m] = "none"
  BY DEF ScanStopped, Inv, LossInv, TaskPlace, PelPlace
<1>2. LossInv' /\ pc' \in [Consumers -> PCs]
  BY <1>1, MoveLoop DEF ScanStopped, PCs
<1>3. TypeOK'
  BY <1>2 DEF ScanStopped, Inv, TypeOK, TypeRedis, TypeLoop, TypeTask, TypeHistory
<1> QED
  BY <1>2, <1>3 DEF Inv

\* An ACK of an entry that was processed, dead-lettered or dropped loses nothing.
LEMMA AckDelivery ==
    ASSUME Inv, NEW m \in Messages, NEW o \in Outcomes, Xack(m, o),
           m \in applied \cup dead \cup Dropped,
           UNCHANGED <<added, trimmed, groupStart, lastDelivered, dead, applied>>
    PROVE  /\ NoMessageLost'
           /\ \A k \in Messages : pel'[k] > 0 => pel[k] > 0
           /\ \A k \in idle' : pel'[k] > 0
<1>1. CASE Settle(m)
  <2>1. \A k \in Messages : pel'[k] = IF k = m THEN 0 ELSE pel[k]
    BY <1>1 DEF Settle, Inv, TypeOK, TypeRedis
  <2>2. Settled' \subseteq Settled \cup {m} /\ Dropped' = Dropped
    BY <2>1 DEF Settled, Dropped
  <2>3. \A k \in idle' : pel'[k] > 0
    BY <1>1, <2>1 DEF Settle, Inv, TypeOK, TypeRedis, LossInv, PelPlace
  <2> QED
    BY <2>1, <2>2, <2>3 DEF Inv, LossInv, NoMessageLost
<1>2. CASE UNCHANGED <<pel, idle>>
  BY <1>2 DEF Inv, LossInv, NoMessageLost, PelPlace, Settled, Dropped
<1> QED
  BY <1>1, <1>2 DEF Xack

\* A trimmed entry is ACKed, or the whole claimed batch is abandoned.
LEMMA TriageVoidInv ==
    ASSUME NEW c \in Consumers, NEW m \in Messages, Inv, TriageVoid(c, m) PROVE Inv'
<1> PICK o \in Outcomes :
        /\ Xack(m, o)
        /\ IF Failed(o)
             THEN /\ LoopError(c)
                  /\ task' = [task EXCEPT ![c] = NoTasks]
                  /\ attempt' = [attempt EXCEPT ![c] = NoAttempts]
             ELSE /\ task' = [task EXCEPT ![c][m] = "none"]
                  /\ UNCHANGED <<pc, running, attempt>>
  BY DEF TriageVoid
<1>1. UNCHANGED <<added, trimmed, group, groupStart, lastDelivered, dead, due, cursor, slots,
                  applied, kills>>
  BY DEF TriageVoid
<1>2. m \in Dropped
  BY DEF TriageVoid, Inv, LossInv, TaskMeaning, Dropped
<1>3. /\ NoMessageLost'
      /\ \A k \in Messages : pel'[k] > 0 => pel[k] > 0
      /\ \A k \in idle' : pel'[k] > 0
  BY <1>1, <1>2, AckDelivery
<1>4. TypeRedis' /\ TypeHistory'
  BY <1>1, XackType DEF Inv, TypeOK, TypeRedis, TypeHistory
<1>5. group /\ pc[c] = "triage"
  BY DEF TriageVoid, Inv, LossInv, PelPlace
<1>6. CASE Failed(o)
  <2>1. /\ pc' \in [Consumers -> PCs] /\ running' \in [Consumers -> BOOLEAN]
        /\ pc'[c] \in {"top", "down"}
        /\ \A d \in Consumers \ {c} : pc'[d] = pc[d]
    BY <1>5, <1>6, LoopErrorInv
  <2>0. task' = [task EXCEPT ![c] = NoTasks] /\ attempt' = [attempt EXCEPT ![c] = NoAttempts]
    BY <1>6
  <2>2. TypeLoop' /\ TypeTask'
    BY <1>1, <2>0, <2>1 DEF Inv, TypeOK, TypeLoop, TypeTask, NoTasks, NoAttempts, TaskStates
  <2>3. TaskPlace' /\ TaskMeaning'
    BY <1>1, <2>0, <2>1 DEF Inv, TypeOK, TypeTask, LossInv, TaskPlace, TaskMeaning, Gathering, NoTasks
  <2>4. PelPlace'
    BY <1>1, <1>3, <1>5 DEF Inv, LossInv, PelPlace
  <2> QED
    BY <1>3, <1>4, <2>2, <2>3, <2>4 DEF Inv, TypeOK, LossInv
<1>7. CASE ~Failed(o)
  <2>0. task' = [task EXCEPT ![c][m] = "none"] /\ UNCHANGED <<pc, running, attempt>>
    BY <1>7
  <2>1. TypeLoop' /\ TypeTask'
    BY <1>1, <2>0 DEF Inv, TypeOK, TypeLoop, TypeTask, TaskStates
  <2>2. TaskPlace' /\ TaskMeaning'
    BY <1>1, <1>5, <2>0 DEF Inv, TypeOK, TypeTask, LossInv, TaskPlace, TaskMeaning, Gathering
  <2>3. PelPlace'
    BY <1>1, <1>3, <1>5, <1>7 DEF Inv, LossInv, PelPlace
  <2> QED
    BY <1>3, <1>4, <2>1, <2>2, <2>3 DEF Inv, TypeOK, LossInv
<1> QED
  BY <1>6, <1>7

\* The first state of a coroutine.
LEMMA FirstTaskType == ASSUME NEW m PROVE FirstTask(m) \in {"dlq", "waiting"}
BY DEF FirstTask

\* A claimed entry gets its coroutine.
LEMMA TriageClaimedInv ==
    ASSUME NEW c \in Consumers, NEW m \in Messages, Inv, TriageClaimed(c, m) PROVE Inv'
<1> PICK t \in {"dlq", "waiting"} : task' = [task EXCEPT ![c][m] = t]
  BY FirstTaskType DEF TriageClaimed
<1>1. /\ pc[c] = "triage" /\ task[c][m] = "claimed"
      /\ attempt' = [attempt EXCEPT ![c][m] = 1]
      /\ UNCHANGED <<redisVars, loopVars, slots, applied, kills>>
      /\ faults' \in 0..MaxFaults
  BY DEF TriageClaimed, Disturb, Inv, TypeOK, TypeHistory
<1>2. TypeRedis' /\ TypeLoop' /\ TypeTask' /\ TypeHistory'
  BY <1>1 DEF Inv, TypeOK, TypeRedis, TypeLoop, TypeTask, TypeHistory, TaskStates
<1>3. TaskPlace' /\ TaskMeaning'
  BY <1>1 DEF Inv, TypeOK, TypeTask, LossInv, TaskPlace, TaskMeaning, Gathering
<1>4. PelPlace' /\ NoMessageLost'
  BY <1>1 DEF Inv, LossInv, PelPlace, NoMessageLost, Settled, Dropped
<1> QED
  BY <1>2, <1>3, <1>4 DEF Inv, TypeOK, LossInv

\* The coroutines of a triaged batch start.
LEMMA TriageDoneInv ==
    ASSUME NEW c \in Consumers, Inv, TriageDone(c) PROVE Inv'
<1>1. group /\ \A m \in Messages : task[c][m] \notin {"claimed", "void"}
  BY DEF TriageDone, Untriaged, Inv, LossInv, PelPlace
<1>2. LossInv' /\ pc' \in [Consumers -> PCs]
  BY <1>1, MoveLoop DEF TriageDone, PCs
<1>3. TypeOK'
  BY <1>2 DEF TriageDone, Inv, TypeOK, TypeRedis, TypeLoop, TypeTask, TypeHistory
<1> QED
  BY <1>2, <1>3 DEF Inv

\* The gather of a reclaimed batch returns when every coroutine has ended.
LEMMA ReclaimDoneInv ==
    ASSUME NEW c \in Consumers, Inv, ReclaimDone(c) PROVE Inv'
<1>1. group /\ \A m \in Messages : task[c][m] = "none"
  BY DEF ReclaimDone, AllDone, NoTasks, Inv, LossInv, PelPlace
<1>2. PICK p \in {"read", "scan"} : pc' = [pc EXCEPT ![c] = p]
  BY DEF ReclaimDone
<1>3. LossInv' /\ pc' \in [Consumers -> PCs]
  BY <1>1, <1>2, MoveLoop DEF ReclaimDone, PCs
<1>4. TypeOK'
  BY <1>3 DEF ReclaimDone, Inv, TypeOK, TypeRedis, TypeLoop, TypeTask, TypeHistory
<1> QED
  BY <1>3, <1>4 DEF Inv

-----------------------------------------------------------------------------
(* Reading *)

\* XREADGROUP moves the group over an entry only by making it pending, or when
\* the entry was trimmed.
LEMMA ReadDelivery ==
    ASSUME Inv, NEW B \in SUBSET Messages, B # {},
           IsFirst(B, Undelivered, BatchSize), Deliver(B),
           lastDelivered' \in B, \A m \in B : m <= lastDelivered',
           UNCHANGED <<added, trimmed, group, groupStart, dead, applied>>
    PROVE  /\ NoMessageLost' /\ lastDelivered' \in lastDelivered..added
           /\ \A m \in Messages : pel'[m] > 0 => groupStart < m /\ m <= lastDelivered'
           /\ \A m \in idle' : pel'[m] > 0
<1>1. /\ lastDelivered' \in Undelivered
      /\ \A m \in B : m \in Undelivered
      /\ \A y \in Undelivered \ B : lastDelivered' < y
  BY DEF IsFirst
<1>2. lastDelivered' \in lastDelivered..added
  BY <1>1 DEF Undelivered, Inv, TypeOK, TypeRedis
<1>3. \A m \in Messages : pel'[m] > 0 => m \in B \/ pel[m] > 0
  BY DEF Deliver, Inv, TypeOK, TypeRedis
<1>4. \A m \in B : pel'[m] > 0
  BY DEF Deliver, Inv, TypeOK, TypeRedis, DeliveryCap
<1>5. \A m \in Messages \ B : pel'[m] = pel[m]
  BY DEF Deliver, Inv, TypeOK, TypeRedis
<1>6. \A m \in Messages : pel'[m] > 0 => groupStart < m /\ m <= lastDelivered'
  BY <1>1, <1>2, <1>3 DEF Undelivered, Inv, TypeOK, TypeRedis, LossInv, PelPlace, Messages
<1>7. \A m \in idle' : pel'[m] > 0
  BY <1>5 DEF Deliver, Inv, TypeOK, TypeRedis, LossInv, PelPlace
<1>8. \A m \in Settled' : m \in Settled \/ m <= trimmed
  <2> SUFFICES ASSUME NEW m \in Settled', ~(m <= trimmed) PROVE m \in Settled
    OBVIOUS
  <2>1. m \in Messages /\ groupStart < m /\ m <= lastDelivered' /\ pel'[m] = 0
    BY DEF Settled
  <2>2. m \notin B /\ pel[m] = 0
    BY <2>1, <1>4, <1>5
  <2>3. m \notin Undelivered
    BY <2>1, <2>2, <1>1, <1>2 DEF Inv, TypeOK, TypeRedis, Messages
  <2>4. m <= lastDelivered
    BY <2>1, <2>3, <1>2 DEF Undelivered, Inv, TypeOK, TypeRedis, Messages
  <2> QED
    BY <2>1, <2>2, <2>4 DEF Settled
<1>9. NoMessageLost'
  BY <1>8 DEF Inv, LossInv, NoMessageLost, Dropped, Settled
<1> QED
  BY <1>2, <1>6, <1>7, <1>9

\* XREADGROUP, answered, failed or with its answer lost.
LEMMA XreadgroupInv ==
    ASSUME NEW c \in Consumers, Inv, Xreadgroup(c) PROVE Inv'
<1>0. PICK o \in Outcomes, B \in SUBSET Messages :
        /\ IsFirst(B, Undelivered, BatchSize)
        /\ Outcome(o)
        /\ IF Ran(o) THEN Deliver(B) ELSE UNCHANGED <<pel, idle>>
        /\ IF Ran(o) /\ B # {}
             THEN lastDelivered' \in B /\ \A m \in B : m <= lastDelivered'
             ELSE UNCHANGED lastDelivered
        /\ IF Failed(o)
             THEN LoopError(c) /\ UNCHANGED <<task, attempt>>
             ELSE /\ pc' = [pc EXCEPT ![c] = IF B = {} THEN "top" ELSE "gatherR"]
                  /\ task' = [task EXCEPT ![c] =
                        [m \in Messages |-> IF m \in B THEN FirstTask(m) ELSE "none"]]
                  /\ attempt' = [attempt EXCEPT ![c] =
                        [m \in Messages |-> IF m \in B THEN 1 ELSE 0]]
                  /\ UNCHANGED running
  BY DEF Xreadgroup
<1>1. UNCHANGED <<added, trimmed, group, groupStart, dead, due, cursor, slots, applied, kills>>
  BY DEF Xreadgroup
<1>2. group /\ pc[c] = "read" /\ \A m \in Messages : task[c][m] = "none"
  BY DEF Xreadgroup, Inv, LossInv, PelPlace, TaskPlace
<1>3. pel' \in [Messages -> 0..DeliveryCap] /\ idle' \subseteq Messages /\ faults' \in 0..MaxFaults
  BY <1>0, DeliverType, OutcomeType DEF Inv, TypeOK, TypeRedis
<1>4. /\ NoMessageLost' /\ lastDelivered' \in lastDelivered..added
      /\ \A m \in Messages : pel'[m] > 0 => groupStart < m /\ m <= lastDelivered'
      /\ \A m \in idle' : pel'[m] > 0
  <2>1. CASE Ran(o) /\ B # {}
    BY <1>0, <1>1, <2>1, ReadDelivery
  <2>2. CASE ~(Ran(o) /\ B # {})
    <3>1. UNCHANGED <<pel, idle, lastDelivered>>
      <4>1. CASE ~Ran(o)
        BY <1>0, <4>1
      <4>2. CASE Ran(o) /\ B = {}
        BY <1>0, <4>2 DEF Deliver, Inv, TypeOK, TypeRedis
      <4> QED
        BY <2>2, <4>1, <4>2
    <3> QED
      BY <1>1, <3>1 DEF Inv, TypeOK, TypeRedis, LossInv, NoMessageLost, PelPlace, Settled, Dropped
  <2> QED
    BY <2>1, <2>2
<1>5. TypeRedis' /\ TypeHistory'
  BY <1>1, <1>3, <1>4 DEF Inv, TypeOK, TypeRedis, TypeHistory
<1>6. PelPlace'
  BY <1>1, <1>2, <1>4 DEF PelPlace
<1>7. \A d \in Consumers, m \in Messages : task[d][m] # "none" => m <= lastDelivered'
  BY <1>4 DEF Inv, TypeOK, TypeRedis, LossInv, TaskMeaning, Messages
<1>8. CASE Failed(o)
  <2>0. LoopError(c) /\ UNCHANGED <<task, attempt>>
    BY <1>0, <1>8
  <2>1. /\ pc' \in [Consumers -> PCs] /\ running' \in [Consumers -> BOOLEAN]
        /\ pc'[c] \in {"top", "down"}
        /\ \A d \in Consumers \ {c} : pc'[d] = pc[d]
    BY <1>2, <2>0, LoopErrorInv
  <2>2. TypeLoop' /\ TypeTask'
    BY <1>1, <2>0, <2>1 DEF Inv, TypeOK, TypeLoop, TypeTask
  <2>3. TaskPlace' /\ TaskMeaning'
    BY <1>1, <1>2, <1>7, <2>0, <2>1 DEF Inv, LossInv, TaskPlace, TaskMeaning, Gathering
  <2> QED
    BY <1>4, <1>5, <1>6, <2>2, <2>3 DEF Inv, TypeOK, LossInv
<1>9. CASE ~Failed(o)
  <2>0. /\ pc' = [pc EXCEPT ![c] = IF B = {} THEN "top" ELSE "gatherR"]
        /\ task' = [task EXCEPT ![c] =
              [m \in Messages |-> IF m \in B THEN FirstTask(m) ELSE "none"]]
        /\ attempt' = [attempt EXCEPT ![c] = [m \in Messages |-> IF m \in B THEN 1 ELSE 0]]
        /\ UNCHANGED running
    BY <1>0, <1>9
  <2>1. TypeLoop'
    BY <1>1, <2>0 DEF Inv, TypeOK, TypeLoop, PCs
  <2>2. TypeTask'
    BY <1>1, <2>0, FirstTaskType DEF Inv, TypeOK, TypeTask, TaskStates
  <2>3. \A m \in B : m <= lastDelivered'
    <3>1. Ran(o)
      BY <1>9 DEF Ran, Failed, Outcomes
    <3> QED
      BY <1>0, <3>1
  <2>4. \A m \in Messages : task'[c][m] = IF m \in B THEN FirstTask(m) ELSE "none"
    BY <2>0 DEF Inv, TypeOK, TypeTask
  <2>5. \A d \in Consumers \ {c} : task'[d] = task[d] /\ pc'[d] = pc[d]
    BY <2>0 DEF Inv, TypeOK, TypeTask, TypeLoop
  <2>6. pc'[c] = IF B = {} THEN "top" ELSE "gatherR"
    BY <2>0 DEF Inv, TypeOK, TypeLoop
  <2>7. TaskPlace'
    BY <2>4, <2>5, <2>6, FirstTaskType DEF Inv, LossInv, TaskPlace, Gathering
  <2>8. TaskMeaning'
    BY <1>1, <1>7, <2>3, <2>4, <2>5, FirstTaskType DEF Inv, LossInv, TaskMeaning
  <2> QED
    BY <1>4, <1>5, <1>6, <2>1, <2>2, <2>7, <2>8 DEF Inv, TypeOK, LossInv
<1> QED
  BY <1>8, <1>9

\* The gather of a read batch returns when every coroutine has ended.
LEMMA ReadDoneInv ==
    ASSUME NEW c \in Consumers, Inv, ReadDone(c) PROVE Inv'
<1>1. group /\ \A m \in Messages : task[c][m] = "none"
  BY DEF ReadDone, AllDone, NoTasks, Inv, LossInv, PelPlace
<1>2. LossInv' /\ pc' \in [Consumers -> PCs]
  BY <1>1, MoveLoop DEF ReadDone, PCs
<1>3. TypeOK'
  BY <1>2 DEF ReadDone, Inv, TypeOK, TypeRedis, TypeLoop, TypeTask, TypeHistory
<1> QED
  BY <1>2, <1>3 DEF Inv

-----------------------------------------------------------------------------
(* The coroutine of one entry *)

\* A step of a coroutine keeps the invariant when it is honest: it claims to
\* have processed or dead-lettered an entry only when it has, and ACKs nothing
\* else.
LEMMA CoroutineStep ==
    ASSUME Inv, NEW c \in Consumers, NEW m \in Messages,
           NEW t \in TaskStates \ {"claimed", "void"},
           Gathering(c), task[c][m] # "none", task' = [task EXCEPT ![c][m] = t],
           UNCHANGED <<added, trimmed, group, groupStart, lastDelivered, loopVars>>,
           applied \subseteq applied', dead \subseteq dead',
           t = "acking" => m \in applied', t = "dlqack" => m \in dead',
           NoMessageLost', \A k \in Messages : pel'[k] > 0 => pel[k] > 0,
           \A k \in idle' : pel'[k] > 0
    PROVE  LossInv'
<1>1. TaskPlace'
  BY DEF Inv, TypeOK, TypeTask, LossInv, TaskPlace, Gathering
<1>2. TaskMeaning'
  BY DEF Inv, TypeOK, TypeTask, LossInv, TaskMeaning
<1>3. PelPlace'
  BY DEF Inv, LossInv, PelPlace
<1> QED
  BY <1>1, <1>2, <1>3 DEF LossInv

\* What was dealt with stays dealt with.
LEMMA MoreIsDone ==
    ASSUME Inv, UNCHANGED <<trimmed, groupStart, lastDelivered, pel, idle>>,
           applied \subseteq applied', dead \subseteq dead'
    PROVE  /\ NoMessageLost' /\ \A k \in Messages : pel'[k] > 0 => pel[k] > 0
           /\ \A k \in idle' : pel'[k] > 0
BY DEF Inv, LossInv, NoMessageLost, PelPlace, Settled, Dropped

\* Where a coroutine goes after a failed attempt or an ACK.
LEMMA NextTaskStates ==
    ASSUME NEW c, NEW m, NEW o
    PROVE  /\ AfterFailure(c, m) \in {"sleeping", "dlq"}
           /\ AfterAck(c, m, o) \in {"sleeping", "dlq", "none"}
           /\ AfterDlq(o) \in {"none", "dlqack"}
           /\ AfterDlq(o) = "dlqack" <=> ~Failed(o)
BY DEF AfterFailure, AfterAck, AfterDlq

\* Moving a coroutine keeps the types of task and attempt.
LEMMA TaskToType ==
    ASSUME TypeTask, NEW c \in Consumers, NEW m \in Messages, NEW t \in TaskStates,
           TaskTo(c, m, t)
    PROVE  /\ task' \in [Consumers -> [Messages -> TaskStates]]
           /\ attempt' \in [Consumers -> [Messages -> Nat]]
BY DEF TaskTo, TypeTask

-----------------------------------------------------------------------------
(* The semaphore *)

\* Sets of entries are finite.
LEMMA EntriesFinite ==
    ASSUME NEW S \in SUBSET Messages
    PROVE  IsFiniteSet(S) /\ Cardinality(S) \in Nat
<1>1. IsFiniteSet(Messages)
  BY FS_Interval DEF Messages
<1> QED
  BY <1>1, FS_Subset, FS_CardinalityType

\* Steps that start and end no attempt keep the accounts.
LEMMA SlotKept ==
    ASSUME SlotAccounting, slots' = slots, \A d \in Consumers : Holders(d)' = Holders(d)
    PROVE  SlotAccounting'
BY DEF SlotAccounting

\* Taking a slot for an attempt.
LEMMA SlotTaken ==
    ASSUME FullInv, NEW c \in Consumers, NEW m \in Messages,
           task[c][m] = "waiting", slots[c] > 0, TakeSlot(c),
           task' = [task EXCEPT ![c][m] = "processing"]
    PROVE  SlotAccounting' /\ slots' \in [Consumers -> 0..Concurrency]
<1>1. slots' \in [Consumers -> 0..Concurrency] /\ slots'[c] = slots[c] - 1
      /\ \A d \in Consumers \ {c} : slots'[d] = slots[d]
  BY DEF TakeSlot, FullInv, Inv, TypeOK, TypeTask
<1>2. m \notin Holders(c) /\ Holders(c)' = Holders(c) \cup {m}
  BY DEF Holders, FullInv, Inv, TypeOK, TypeTask
<1>3. \A d \in Consumers \ {c} : Holders(d)' = Holders(d)
  BY DEF Holders, FullInv, Inv, TypeOK, TypeTask
<1>4. IsFiniteSet(Holders(c)) /\ Cardinality(Holders(c)) \in Nat
  BY EntriesFinite DEF Holders
<1>5. Cardinality(Holders(c)') = Cardinality(Holders(c)) + 1
  BY <1>2, <1>4, FS_AddElement
<1>6. slots[c] \in Nat
  BY DEF FullInv, Inv, TypeOK, TypeTask
<1>7. slots'[c] + Cardinality(Holders(c)') = Concurrency
  BY <1>1, <1>4, <1>5, <1>6 DEF FullInv, SlotAccounting
<1> QED
  BY <1>1, <1>3, <1>7 DEF FullInv, SlotAccounting

\* Freeing the slot of an attempt that ended: there is a slot to free.
LEMMA SlotFreed ==
    ASSUME FullInv, NEW c \in Consumers, NEW m \in Messages,
           task[c][m] \in {"processing", "acking"}, FreeSlot(c),
           NEW t \in TaskStates \ {"processing", "acking"},
           task' = [task EXCEPT ![c][m] = t]
    PROVE  SlotAccounting' /\ slots' \in [Consumers -> 0..Concurrency]
<1>1. m \in Holders(c) /\ Holders(c)' = Holders(c) \ {m}
  BY DEF Holders, FullInv, Inv, TypeOK, TypeTask
<1>2. \A d \in Consumers \ {c} : Holders(d)' = Holders(d)
  BY DEF Holders, FullInv, Inv, TypeOK, TypeTask
<1>3. IsFiniteSet(Holders(c)) /\ Cardinality(Holders(c)) \in Nat
  BY EntriesFinite DEF Holders
<1>4. Cardinality(Holders(c)') = Cardinality(Holders(c)) - 1
  <2>1. Cardinality(Holders(c) \ {m}) = Cardinality(Holders(c)) - 1
    BY <1>1, <1>3, FS_RemoveElement, Zenon
  <2> QED
    BY <1>1, <2>1, Zenon
<1>5. Cardinality(Holders(c)') \in Nat
  BY <1>1, EntriesFinite DEF Holders
<1>6. slots[c] \in Nat /\ slots[c] + Cardinality(Holders(c)) = Concurrency
  BY DEF FullInv, Inv, TypeOK, TypeTask, SlotAccounting
<1>7. slots[c] + 1 \in 0..Concurrency /\ slots[c] + 1 + Cardinality(Holders(c)') = Concurrency
  BY <1>3, <1>4, <1>5, <1>6
<1>8. slots' \in [Consumers -> 0..Concurrency] /\ slots'[c] = slots[c] + 1
      /\ \A d \in Consumers \ {c} : slots'[d] = slots[d]
  BY <1>7 DEF FreeSlot, FullInv, Inv, TypeOK, TypeTask
<1> QED
  BY <1>2, <1>7, <1>8 DEF FullInv, SlotAccounting

\* A process without attempts has all its slots.
LEMMA SlotsOfIdle ==
    ASSUME SlotAccounting, slots \in [Consumers -> 0..Concurrency], NEW c \in Consumers,
           \A d \in Consumers \ {c} : Holders(d)' = Holders(d) /\ slots'[d] = slots[d],
           Holders(c)' = {}, slots'[c] = Concurrency
    PROVE  SlotAccounting'
<1>1. slots'[c] + Cardinality(Holders(c)') = Concurrency
  BY FS_EmptySet
<1> QED
  BY <1>1 DEF SlotAccounting

\* Where no coroutine runs an attempt, every slot is free.
LEMMA AllSlotsFree ==
    ASSUME SlotAccounting, slots \in [Consumers -> 0..Concurrency], NEW c \in Consumers,
           \A m \in Messages : task[c][m] \notin {"processing", "acking"}
    PROVE  slots[c] = Concurrency
<1>1. Holders(c) = {}
  BY DEF Holders
<1>2. Cardinality(Holders(c)) = 0
  BY <1>1, FS_EmptySet
<1>3. slots[c] \in Int /\ slots[c] + Cardinality(Holders(c)) = Concurrency
  BY DEF SlotAccounting
<1> QED
  BY <1>2, <1>3

\* Death, a new batch, and every other step of run() keep the accounts.
LEMMA LoopKeepsSlots ==
    ASSUME FullInv, NEW c \in Consumers,
           \/ LoopTop(c) \/ ScanStopped(c) \/ TriageDone(c) \/ ReclaimDone(c) \/ ReadDone(c)
           \/ Start(c) \/ IntervalElapses(c) \/ Stop(c)
    PROVE  SlotAccounting'
<1>1. UNCHANGED <<task, slots>>
  BY DEF LoopTop, ScanStopped, TriageDone, ReclaimDone, ReadDone, Start, IntervalElapses, Stop
<1> QED
  BY <1>1, SlotKept DEF Holders, FullInv

\* A dead process has no attempts, and its successor a new semaphore.
LEMMA DieKeepsSlots ==
    ASSUME FullInv, NEW c \in Consumers, Die(c) PROVE SlotAccounting'
<1>1. \A d \in Consumers \ {c} : Holders(d)' = Holders(d) /\ slots'[d] = slots[d]
  BY DEF Die, Holders, FullInv, Inv, TypeOK, TypeTask
<1>2. Holders(c)' = {} /\ slots'[c] = Concurrency
  BY DEF Die, NoTasks, Holders, FullInv, Inv, TypeOK, TypeTask
<1> QED
  BY <1>1, <1>2, SlotsOfIdle DEF FullInv, Inv, TypeOK, TypeTask

\* A batch replaces coroutines of which none runs an attempt by others of which
\* none does.
LEMMA BatchKeepsSlots ==
    ASSUME FullInv, NEW c \in Consumers, ~Gathering(c), slots' = slots,
           NEW f \in [Messages -> TaskStates \ {"processing", "acking"}],
           task' = [task EXCEPT ![c] = f]
    PROVE  SlotAccounting'
<1>1. \A m \in Messages : task[c][m] \notin {"processing", "acking"}
  BY DEF FullInv, Inv, TypeOK, TypeLoop, PCs, LossInv, TaskPlace, Gathering
<1>2. slots[c] = Concurrency
  BY <1>1, AllSlotsFree DEF FullInv, Inv, TypeOK, TypeTask
<1>3. Holders(c)' = {}
  BY DEF Holders, FullInv, Inv, TypeOK, TypeTask
<1>4. \A d \in Consumers \ {c} : Holders(d)' = Holders(d)
  BY DEF Holders, FullInv, Inv, TypeOK, TypeTask
<1>5. \A d \in Consumers : slots'[d] = slots[d]
  OBVIOUS
<1>6. SlotAccounting /\ slots \in [Consumers -> 0..Concurrency]
  BY DEF FullInv, Inv, TypeOK, TypeTask
<1> QED
  BY <1>2, <1>3, <1>4, <1>5, <1>6, SlotsOfIdle

\* XAUTOCLAIM.
LEMMA XautoclaimSlots ==
    ASSUME FullInv, NEW c \in Consumers, Xautoclaim(c) PROVE SlotAccounting'
<1>1. PICK B \in SUBSET Messages : task' = task \/ task' = [task EXCEPT ![c] = Claimed(B)]
  BY DEF Xautoclaim
<1>2. slots' = slots /\ ~Gathering(c)
  BY DEF Xautoclaim, Gathering
<1>3. Claimed(B) \in [Messages -> TaskStates \ {"processing", "acking"}]
  BY DEF Claimed, TaskStates
<1>4. CASE task' = task
  BY <1>2, <1>4, SlotKept DEF Holders, FullInv
<1>5. CASE task' = [task EXCEPT ![c] = Claimed(B)]
  BY <1>2, <1>3, <1>5, BatchKeepsSlots
<1> QED
  BY <1>1, <1>4, <1>5

\* XREADGROUP.
LEMMA XreadgroupSlots ==
    ASSUME FullInv, NEW c \in Consumers, Xreadgroup(c) PROVE SlotAccounting'
<1>1. PICK B \in SUBSET Messages :
        \/ task' = task
        \/ task' = [task EXCEPT ![c] = [m \in Messages |-> IF m \in B THEN FirstTask(m) ELSE "none"]]
  BY DEF Xreadgroup
<1> DEFINE f == [m \in Messages |-> IF m \in B THEN FirstTask(m) ELSE "none"]
<1>2. slots' = slots /\ ~Gathering(c)
  BY DEF Xreadgroup, Gathering
<1>3. f \in [Messages -> TaskStates \ {"processing", "acking"}]
  BY FirstTaskType DEF TaskStates
<1>4. CASE task' = task
  BY <1>2, <1>4, SlotKept DEF Holders, FullInv
<1>5. CASE task' = [task EXCEPT ![c] = f]
  <2> HIDE DEF f
  <2> QED
    BY <1>2, <1>3, <1>5, BatchKeepsSlots
<1> QED
  BY <1>1, <1>4, <1>5

\* Triage.
LEMMA TriageSlots ==
    ASSUME FullInv, NEW c \in Consumers, NEW m \in Messages, TriageVoid(c, m) \/ TriageClaimed(c, m)
    PROVE  SlotAccounting'
<1>1. slots' = slots /\ ~Gathering(c) /\ pc[c] = "triage"
  BY DEF TriageVoid, TriageClaimed, Gathering
<1>2. \/ task' = [task EXCEPT ![c] = NoTasks]
      \/ \E t \in {"none", "dlq", "waiting"} : task' = [task EXCEPT ![c][m] = t]
  BY FirstTaskType DEF TriageVoid, TriageClaimed
<1>3. CASE task' = [task EXCEPT ![c] = NoTasks]
  <2>1. NoTasks \in [Messages -> TaskStates \ {"processing", "acking"}]
    BY DEF NoTasks, TaskStates
  <2> QED
    BY <1>1, <1>3, <2>1, BatchKeepsSlots
<1>4. ASSUME NEW t \in {"none", "dlq", "waiting"}, task' = [task EXCEPT ![c][m] = t]
      PROVE  SlotAccounting'
  <2>1. task[c][m] \notin {"processing", "acking"}
    BY <1>1 DEF FullInv, Inv, LossInv, TaskPlace
  <2>2. \A d \in Consumers : Holders(d)' = Holders(d)
    BY <1>4, <2>1 DEF Holders, FullInv, Inv, TypeOK, TypeTask
  <2> QED
    BY <1>1, <2>2, SlotKept DEF FullInv
<1> QED
  BY <1>2, <1>3, <1>4

-----------------------------------------------------------------------------
(* Steps of a coroutine *)

\* A coroutine gets its slot.
LEMMA AcquireSlotInv ==
    ASSUME NEW c \in Consumers, NEW m \in Messages, FullInv, AcquireSlot(c, m) PROVE FullInv'
<1>1. /\ Gathering(c) /\ task[c][m] = "waiting" /\ slots[c] > 0 /\ TakeSlot(c)
      /\ TaskTo(c, m, "processing") /\ task' = [task EXCEPT ![c][m] = "processing"]
      /\ UNCHANGED <<redisVars, loopVars, historyVars>>
  BY DEF AcquireSlot, InTask, TaskTo
<1>2. SlotAccounting' /\ slots' \in [Consumers -> 0..Concurrency]
  BY <1>1, SlotTaken
<1>3. TypeOK'
  BY <1>1, <1>2, TaskToType DEF FullInv, Inv, TypeOK, TypeRedis, TypeLoop, TypeTask, TypeHistory, TaskStates
<1>4. LossInv'
  <2>1. /\ NoMessageLost' /\ \A k \in Messages : pel'[k] > 0 => pel[k] > 0
        /\ \A k \in idle' : pel'[k] > 0
    BY <1>1, MoreIsDone DEF FullInv
  <2>2. "processing" \in TaskStates \ {"claimed", "void"}
    BY DEF TaskStates
  <2> QED
    BY <1>1, <2>1, <2>2, CoroutineStep DEF FullInv
<1> QED
  BY <1>2, <1>3, <1>4 DEF FullInv, Inv

\* process_message returned: the entry is applied before it can be ACKed.
LEMMA ProcessOkInv ==
    ASSUME NEW c \in Consumers, NEW m \in Messages, FullInv, ProcessOk(c, m) PROVE FullInv'
<1>1. /\ Gathering(c) /\ task[c][m] = "processing"
      /\ TaskTo(c, m, "acking") /\ task' = [task EXCEPT ![c][m] = "acking"]
      /\ applied' = applied \cup {m}
      /\ UNCHANGED <<redisVars, loopVars, slots, kills, faults>>
  BY DEF ProcessOk, InTask, TaskTo
<1>2. \A d \in Consumers : Holders(d)' = Holders(d)
  BY <1>1 DEF Holders, FullInv, Inv, TypeOK, TypeTask
<1>3. SlotAccounting'
  BY <1>1, <1>2, SlotKept DEF FullInv
<1>4. TypeOK'
  BY <1>1, TaskToType DEF FullInv, Inv, TypeOK, TypeRedis, TypeLoop, TypeTask, TypeHistory, TaskStates
<1>5. LossInv'
  <2>1. /\ NoMessageLost' /\ \A k \in Messages : pel'[k] > 0 => pel[k] > 0
        /\ \A k \in idle' : pel'[k] > 0
    BY <1>1, MoreIsDone DEF FullInv
  <2>2. "acking" \in TaskStates \ {"claimed", "void"}
    BY DEF TaskStates
  <2> QED
    BY <1>1, <2>1, <2>2, CoroutineStep DEF FullInv
<1> QED
  BY <1>3, <1>4, <1>5 DEF FullInv, Inv

\* A failed attempt frees its slot.
LEMMA ProcessFailedInv ==
    ASSUME NEW c \in Consumers, NEW m \in Messages, FullInv,
           ProcessFails(c, m) \/ ProcessNonRetryable(c, m)
    PROVE  FullInv'
<1>1. PICK t \in {"sleeping", "dlq"} :
        /\ Gathering(c) /\ task[c][m] = "processing" /\ FreeSlot(c)
        /\ TaskTo(c, m, t) /\ task' = [task EXCEPT ![c][m] = t]
        /\ UNCHANGED <<redisVars, loopVars, historyVars>>
  BY NextTaskStates DEF ProcessFails, ProcessNonRetryable, InTask, TaskTo
<1>2. SlotAccounting' /\ slots' \in [Consumers -> 0..Concurrency]
  BY <1>1, SlotFreed DEF TaskStates
<1>3. TypeOK'
  <2>1. TypeRedis' /\ TypeLoop' /\ TypeHistory'
    BY <1>1 DEF FullInv, Inv, TypeOK, TypeRedis, TypeLoop, TypeHistory
  <2>2. TypeTask /\ t \in TaskStates
    BY DEF FullInv, Inv, TypeOK, TaskStates
  <2>3. TypeTask'
    BY <1>1, <1>2, <2>2, TaskToType DEF TypeTask
  <2> QED
    BY <2>1, <2>3 DEF TypeOK
<1>4. LossInv'
  <2>1. /\ NoMessageLost' /\ \A k \in Messages : pel'[k] > 0 => pel[k] > 0
        /\ \A k \in idle' : pel'[k] > 0
    BY <1>1, MoreIsDone DEF FullInv
  <2>2. t \in TaskStates \ {"claimed", "void"}
    BY DEF TaskStates
  <2> QED
    BY <1>1, <2>1, <2>2, CoroutineStep DEF FullInv
<1> QED
  BY <1>2, <1>3, <1>4 DEF FullInv, Inv

\* A handler that kills the process.
LEMMA ProcessKillsInv ==
    ASSUME NEW c \in Consumers, NEW m \in Messages, FullInv, ProcessKills(c, m) PROVE FullInv'
<1>1. TypeRedis' /\ TypeLoop' /\ TypeTask' /\ LossInv'
  BY DieInv DEF ProcessKills, FullInv
<1>2. TypeHistory'
  BY DEF ProcessKills, FullInv, Inv, TypeOK, TypeHistory
<1>3. SlotAccounting'
  BY DieKeepsSlots DEF ProcessKills
<1> QED
  BY <1>1, <1>2, <1>3 DEF FullInv, Inv, TypeOK

\* The ACK of a processed entry.
LEMMA XackProcessedInv ==
    ASSUME NEW c \in Consumers, NEW m \in Messages, FullInv, XackProcessed(c, m) PROVE FullInv'
<1>0. PICK o \in Outcomes : Xack(m, o) /\ TaskTo(c, m, AfterAck(c, m, o))
  BY DEF XackProcessed
<1>a. PICK t \in {"sleeping", "dlq", "none"} : t = AfterAck(c, m, o)
  BY NextTaskStates
<1>1. /\ Gathering(c) /\ task[c][m] = "acking" /\ FreeSlot(c) /\ Xack(m, o)
      /\ TaskTo(c, m, t) /\ task' = [task EXCEPT ![c][m] = t]
      /\ UNCHANGED <<added, trimmed, group, groupStart, lastDelivered, dead, loopVars, applied, kills>>
  BY <1>0, <1>a DEF XackProcessed, InTask, TaskTo
<1>2. SlotAccounting' /\ slots' \in [Consumers -> 0..Concurrency]
  BY <1>1, SlotFreed DEF TaskStates
<1>3. TypeOK'
  <2>1. TypeRedis' /\ TypeHistory'
    BY <1>1, XackType DEF FullInv, Inv, TypeOK, TypeRedis, TypeHistory
  <2>2. TypeLoop'
    BY <1>1 DEF FullInv, Inv, TypeOK, TypeLoop
  <2>3. TypeTask /\ t \in TaskStates
    BY DEF FullInv, Inv, TypeOK, TaskStates
  <2>4. TypeTask'
    BY <1>1, <1>2, <2>3, TaskToType DEF TypeTask
  <2> QED
    BY <2>1, <2>2, <2>4 DEF TypeOK
<1>4. m \in applied
  BY <1>1 DEF FullInv, Inv, LossInv, TaskMeaning
<1>5. LossInv'
  BY <1>1, <1>4, CoroutineStep, AckDelivery DEF FullInv, TaskStates
<1> QED
  BY <1>2, <1>3, <1>5 DEF FullInv, Inv

\* The next attempt.
LEMMA WakeInv ==
    ASSUME NEW c \in Consumers, NEW m \in Messages, FullInv, Wake(c, m) PROVE FullInv'
<1>1. /\ Gathering(c) /\ task[c][m] = "sleeping" /\ task' = [task EXCEPT ![c][m] = "waiting"]
      /\ attempt' = [attempt EXCEPT ![c][m] = @ + 1]
      /\ UNCHANGED <<redisVars, loopVars, slots, historyVars>>
  BY DEF Wake, InTask
<1>2. \A d \in Consumers : Holders(d)' = Holders(d)
  BY <1>1 DEF Holders, FullInv, Inv, TypeOK, TypeTask
<1>3. SlotAccounting'
  BY <1>1, <1>2, SlotKept DEF FullInv
<1>4. TypeOK'
  BY <1>1 DEF FullInv, Inv, TypeOK, TypeRedis, TypeLoop, TypeTask, TypeHistory, TaskStates
<1>5. LossInv'
  <2>1. /\ NoMessageLost' /\ \A k \in Messages : pel'[k] > 0 => pel[k] > 0
        /\ \A k \in idle' : pel'[k] > 0
    BY <1>1, MoreIsDone DEF FullInv
  <2>2. "waiting" \in TaskStates \ {"claimed", "void"}
    BY DEF TaskStates
  <2> QED
    BY <1>1, <2>1, <2>2, CoroutineStep DEF FullInv
<1> QED
  BY <1>3, <1>4, <1>5 DEF FullInv, Inv

\* The DLQ: only an entry that is in it goes on to its ACK.
LEMMA SendToDlqInv ==
    ASSUME NEW c \in Consumers, NEW m \in Messages, FullInv, SendToDlq(c, m) PROVE FullInv'
<1>1. PICK o \in Outcomes, t \in {"none", "dlqack"} :
        /\ Gathering(c) /\ task[c][m] = "dlq" /\ Outcome(o)
        /\ dead' = IF Ran(o) THEN dead \cup {m} ELSE dead
        /\ t = "dlqack" => ~Failed(o)
        /\ TaskTo(c, m, t) /\ task' = [task EXCEPT ![c][m] = t]
        /\ UNCHANGED <<added, trimmed, group, groupStart, lastDelivered, pel, idle, loopVars, slots,
                       applied, kills>>
  BY NextTaskStates DEF SendToDlq, InTask, TaskTo
<1>2. \A d \in Consumers : Holders(d)' = Holders(d)
  BY <1>1 DEF Holders, FullInv, Inv, TypeOK, TypeTask
<1>3. SlotAccounting'
  BY <1>1, <1>2, SlotKept DEF FullInv
<1>4. TypeOK'
  BY <1>1, TaskToType, OutcomeType DEF FullInv, Inv, TypeOK, TypeRedis, TypeLoop, TypeTask, TypeHistory, TaskStates
<1>5. dead \subseteq dead' /\ (t = "dlqack" => m \in dead')
  BY <1>1 DEF Ran, Failed, Outcomes
<1>6. LossInv'
  BY <1>1, <1>5, CoroutineStep, MoreIsDone DEF FullInv, TaskStates
<1> QED
  BY <1>3, <1>4, <1>6 DEF FullInv, Inv

\* The ACK of a dead-lettered entry.
LEMMA XackDeadInv ==
    ASSUME NEW c \in Consumers, NEW m \in Messages, FullInv, XackDead(c, m) PROVE FullInv'
<1>1. PICK o \in Outcomes :
        /\ Gathering(c) /\ task[c][m] = "dlqack" /\ Xack(m, o)
        /\ TaskTo(c, m, "none") /\ task' = [task EXCEPT ![c][m] = "none"]
        /\ UNCHANGED <<added, trimmed, group, groupStart, lastDelivered, dead, loopVars, slots,
                       applied, kills>>
  BY DEF XackDead, InTask, TaskTo
<1>2. \A d \in Consumers : Holders(d)' = Holders(d)
  BY <1>1 DEF Holders, FullInv, Inv, TypeOK, TypeTask
<1>3. SlotAccounting'
  BY <1>1, <1>2, SlotKept DEF FullInv
<1>4. TypeOK'
  <2>1. TypeRedis' /\ TypeHistory'
    BY <1>1, XackType DEF FullInv, Inv, TypeOK, TypeRedis, TypeHistory
  <2>2. TypeLoop'
    BY <1>1 DEF FullInv, Inv, TypeOK, TypeLoop
  <2>3. TypeTask /\ "none" \in TaskStates
    BY DEF FullInv, Inv, TypeOK, TaskStates
  <2>4. TypeTask'
    BY <1>1, <2>3, TaskToType DEF TypeTask
  <2> QED
    BY <2>1, <2>2, <2>4 DEF TypeOK
<1>5. m \in dead
  BY <1>1 DEF FullInv, Inv, LossInv, TaskMeaning
<1>6. LossInv'
  <2>1. /\ NoMessageLost' /\ \A k \in Messages : pel'[k] > 0 => pel[k] > 0
        /\ \A k \in idle' : pel'[k] > 0
    BY <1>1, <1>5, AckDelivery DEF FullInv
  <2>2. "none" \in TaskStates \ {"claimed", "void"}
    BY DEF TaskStates
  <2> QED
    BY <1>1, <2>1, <2>2, CoroutineStep DEF FullInv
<1> QED
  BY <1>3, <1>4, <1>6 DEF FullInv, Inv

-----------------------------------------------------------------------------
(* Theorems *)

\* No attempt runs in an initial state.
LEMMA InitFull == Init => FullInv
<1> SUFFICES ASSUME Init PROVE FullInv
  OBVIOUS
<1>1. Inv
  BY InitInv
<1>2. \A c \in Consumers : Holders(c) = {} /\ slots[c] = Concurrency
  BY DEF Init, Holders, NoTasks
<1>3. SlotAccounting
  BY <1>2, FS_EmptySet DEF SlotAccounting
<1> QED
  BY <1>1, <1>3 DEF FullInv

\* Every step of every process preserves the invariant.
LEMMA NextFull == FullInv /\ [Next]_vars => FullInv'
<1> SUFFICES ASSUME FullInv, [Next]_vars PROVE FullInv'
  OBVIOUS
<1>0. Inv /\ SlotAccounting
  BY DEF FullInv
<1>1. CASE Xadd
  BY <1>0, <1>1, XaddInv, SlotKept DEF Xadd, Holders, FullInv
<1>2. ASSUME NEW m \in Messages, BecomeIdle(m) PROVE FullInv'
  BY <1>0, <1>2, BecomeIdleInv, SlotKept DEF BecomeIdle, Holders, FullInv
<1>3. ASSUME NEW c \in Consumers, Start(c) \/ IntervalElapses(c) \/ Stop(c) PROVE FullInv'
  BY <1>0, <1>3, StartInv, IntervalElapsesInv, StopInv, LoopKeepsSlots DEF FullInv
<1>4. ASSUME NEW c \in Consumers, Crash(c) PROVE FullInv'
  BY <1>0, <1>4, CrashInv, DieKeepsSlots DEF Crash, FullInv
<1>5. ASSUME NEW c \in Consumers, LoopStep(c) PROVE FullInv'
  <2>1. CASE LoopTop(c) \/ ScanStopped(c) \/ TriageDone(c) \/ ReclaimDone(c) \/ ReadDone(c)
    BY <1>0, <2>1, LoopTopInv, ScanStoppedInv, TriageDoneInv, ReclaimDoneInv, ReadDoneInv,
       LoopKeepsSlots DEF FullInv
  <2>2. CASE Xautoclaim(c)
    BY <1>0, <2>2, XautoclaimInv, XautoclaimSlots DEF FullInv
  <2>3. CASE Xreadgroup(c)
    BY <1>0, <2>3, XreadgroupInv, XreadgroupSlots DEF FullInv
  <2>4. ASSUME NEW m \in Messages, TriageVoid(c, m) \/ TriageClaimed(c, m) PROVE FullInv'
    BY <1>0, <2>4, TriageVoidInv, TriageClaimedInv, TriageSlots DEF FullInv
  <2> QED
    BY <1>5, <2>1, <2>2, <2>3, <2>4 DEF LoopStep
<1>6. ASSUME NEW c \in Consumers, NEW m \in Messages, TaskStep(c, m) PROVE FullInv'
  BY <1>6, AcquireSlotInv, ProcessOkInv, ProcessFailedInv, ProcessKillsInv, XackProcessedInv,
     WakeInv, SendToDlqInv, XackDeadInv DEF TaskStep
<1>7. CASE UNCHANGED vars
  <2>1. UNCHANGED <<redisVars, loopVars, taskVars, historyVars>>
    BY <1>7 DEF vars
  <2>2. TypeOK'
    BY <2>1 DEF FullInv, Inv, TypeOK, TypeRedis, TypeLoop, TypeTask, TypeHistory
  <2>3. LossInv'
    BY <2>1 DEF FullInv, Inv, LossInv, TaskPlace, TaskMeaning, PelPlace, NoMessageLost, Settled,
                Dropped, Gathering
  <2>4. SlotAccounting'
    BY <1>0, <2>1, SlotKept DEF Holders
  <2> QED
    BY <2>2, <2>3, <2>4 DEF FullInv, Inv
<1> QED
  BY <1>1, <1>2, <1>3, <1>4, <1>5, <1>6, <1>7 DEF Next

\* The invariant holds in every reachable state.
THEOREM FullInvariance == Spec => []FullInv
BY InitFull, NextFull, PTL DEF Spec

\* Every variable keeps its type; in particular the semaphore never exceeds its
\* size and the group never moves past the end of the stream.
THEOREM TypeCorrect == Spec => []TypeOK
<1>1. FullInv => TypeOK
  BY DEF FullInv, Inv
<1> QED
  BY <1>1, FullInvariance, PTL

\* No entry is lost, and the inductive invariant behind it holds, for any number
\* of processes, entries, retries, deliveries and faults.
THEOREM NothingIsLost == Spec => [](LossInv /\ NoMessageLost)
<1>1. FullInv => LossInv /\ NoMessageLost
  BY DEF FullInv, Inv, LossInv
<1> QED
  BY <1>1, FullInvariance, PTL

\* The concurrency limit is kept: slots are neither leaked nor doubled.
THEOREM SlotsAccounted == Spec => []SlotAccounting
<1>1. FullInv => SlotAccounting
  BY DEF FullInv
<1> QED
  BY <1>1, FullInvariance, PTL

-----------------------------------------------------------------------------
(* The consumers implement AtLeastOnce: an entry is settled by Redis only     *)
(* after it was processed, dead-lettered or dropped.                          *)

\* A step after which more is settled, and nothing that is settled is lost, is a
\* Settle step of AtLeastOnce.
LEMMA SettleStep ==
    ASSUME UNCHANGED <<added, trimmed, groupStart, applied, dead>>,
           Settled \subseteq Settled', NoMessageLost'
    PROVE  Delivery!Next
<1>1. Dropped' = Dropped
  BY DEF Dropped
<1>2. Settled' \subseteq Messages
  BY DEF Settled
<1>3. Delivery!Settle(Settled')
  BY <1>1 DEF Delivery!Settle, NoMessageLost
<1> QED
  BY <1>2, <1>3 DEF Delivery!Next

\* Settled only grows when ACKs only remove entries from the PEL and deliveries
\* only add entries that are pending or new.
LEMMA SettledGrows ==
    ASSUME TypeRedis, TypeRedis', groupStart' = groupStart, lastDelivered <= lastDelivered',
           \A m \in Messages : pel[m] = 0 /\ m <= lastDelivered => pel'[m] = 0
    PROVE  Settled \subseteq Settled'
BY DEF Settled, TypeRedis, Messages

\* XADD accepts an entry and may drop others.
LEMMA XaddRefines == FullInv /\ Xadd => Delivery!Next
<1> SUFFICES ASSUME FullInv, Xadd PROVE Delivery!Next
  OBVIOUS
<1> DEFINE new == added + 1
<1>1. new \in Messages \ (1..added) /\ 1..added' = (1..added) \cup {new}
  BY DEF Xadd, FullInv, Inv, TypeOK, TypeRedis, Messages
<1>2. Settled' = Settled
  BY DEF Xadd, Settled
<1>3. Dropped' \subseteq (1..added) \cup {new} /\ Dropped' = Dropped \cup Dropped'
  BY <1>1 DEF Xadd, Dropped, FullInv, Inv, TypeOK, TypeRedis, Messages
<1>4. Dropped' \in SUBSET Messages
  BY DEF Dropped
<1>5. Delivery!Accept(new, Dropped')
  BY <1>1, <1>2, <1>3 DEF Delivery!Accept, Xadd
<1> QED
  BY <1>1, <1>4, <1>5 DEF Delivery!Next

\* Creating the group may skip what is in the stream.
LEMMA StartRefines ==
    ASSUME FullInv, NEW c \in Consumers, Start(c), FullInv' PROVE Delivery!Next
<1>1. UNCHANGED <<added, trimmed, pel, dead, applied>>
  BY DEF Start
<1>2. CASE UNCHANGED <<group, groupStart, lastDelivered>>
  <2>1. Settled' = Settled
    BY <1>1, <1>2 DEF Settled
  <2> QED
    BY <1>1, <1>2, <2>1, SettleStep DEF FullInv, Inv, LossInv
<1>3. CASE ~group /\ groupStart' = GroupStart /\ lastDelivered' = GroupStart
  <2>1. GroupStart \in 0..added /\ lastDelivered = 0 /\ groupStart = 0
    BY <1>3 DEF GroupStart, FullInv, Inv, TypeOK, TypeRedis, LossInv, PelPlace
  <2>2. Settled = {} /\ Settled' = {}
    BY <1>3, <2>1 DEF Settled, Messages
  <2>3. Dropped' \subseteq 1..added /\ Dropped' = Dropped \cup Dropped'
    BY <1>1, <1>3, <2>1 DEF Dropped, FullInv, Inv, TypeOK, TypeRedis, Messages
  <2>4. Dropped' \in SUBSET Messages
    BY DEF Dropped
  <2>5. Delivery!Skip(Dropped')
    BY <1>1, <2>2, <2>3 DEF Delivery!Skip
  <2> QED
    BY <2>4, <2>5 DEF Delivery!Next
<1> QED
  BY <1>2, <1>3 DEF Start, EnsureConsumerGroup

\* process_message returning applies the entry.
LEMMA ProcessOkRefines ==
    ASSUME FullInv, NEW c \in Consumers, NEW m \in Messages, ProcessOk(c, m) PROVE Delivery!Next
<1>1. m \in 1..added
  BY DEF ProcessOk, InTask, FullInv, Inv, TypeOK, TypeRedis, LossInv, TaskMeaning, Messages
<1>2. Settled' = Settled /\ Dropped' = Dropped
  BY DEF ProcessOk, Settled, Dropped
<1>3. Delivery!Apply(m)
  BY <1>1, <1>2 DEF Delivery!Apply, ProcessOk
<1> QED
  BY <1>3 DEF Delivery!Next

\* Writing to the DLQ dead-letters the entry, when the write ran.
LEMMA SendToDlqRefines ==
    ASSUME FullInv, NEW c \in Consumers, NEW m \in Messages, SendToDlq(c, m), FullInv'
    PROVE  Delivery!Next
<1>1. m \in 1..added
  BY DEF SendToDlq, InTask, FullInv, Inv, TypeOK, TypeRedis, LossInv, TaskMeaning, Messages
<1>2. UNCHANGED <<added, trimmed, groupStart, lastDelivered, pel, applied>>
  BY DEF SendToDlq
<1>3. Settled' = Settled /\ Dropped' = Dropped
  BY <1>2 DEF Settled, Dropped
<1>4. CASE dead' = dead
  BY <1>2, <1>3, <1>4, SettleStep DEF FullInv, Inv, LossInv
<1>5. CASE dead' = dead \cup {m}
  <2>1. Delivery!DeadLetter(m)
    BY <1>1, <1>2, <1>3, <1>5 DEF Delivery!DeadLetter
  <2> QED
    BY <2>1 DEF Delivery!Next
<1> QED
  BY <1>4, <1>5 DEF SendToDlq

\* An ACK settles its entry.
LEMMA AckRefines ==
    ASSUME FullInv, FullInv', NEW m \in Messages, NEW o \in Outcomes, Xack(m, o),
           UNCHANGED <<added, trimmed, groupStart, lastDelivered, applied, dead>>
    PROVE  Delivery!Next
<1>1. \A k \in Messages : pel[k] = 0 => pel'[k] = 0
  BY DEF Xack, Settle, FullInv, Inv, TypeOK, TypeRedis
<1>2. Settled \subseteq Settled'
  BY <1>1, SettledGrows DEF FullInv, Inv, TypeOK, TypeRedis
<1> QED
  BY <1>2, SettleStep DEF FullInv, Inv, LossInv

\* A delivery settles at most trimmed entries the group moves over.
LEMMA DeliveryRefines ==
    ASSUME FullInv, FullInv', NEW c \in Consumers, Xautoclaim(c) \/ Xreadgroup(c)
    PROVE  Delivery!Next
<1>1. UNCHANGED <<added, trimmed, groupStart, applied, dead>>
  BY DEF Xautoclaim, Xreadgroup
<1>2. CASE Xautoclaim(c)
  <2>1. PICK B \in SUBSET Messages : B \subseteq idle /\ (Deliver(B) \/ pel' = pel)
    BY <1>2 DEF Xautoclaim, IsFirst, Reclaimable
  <2>2. \A m \in Messages : pel[m] = 0 => pel'[m] = 0
    BY <2>1 DEF Deliver, FullInv, Inv, TypeOK, TypeRedis, LossInv, PelPlace
  <2>3. lastDelivered' = lastDelivered
    BY <1>2 DEF Xautoclaim
  <2> QED
    BY <1>1, <2>2, <2>3, SettledGrows, SettleStep DEF FullInv, Inv, TypeOK, TypeRedis, LossInv
<1>3. CASE Xreadgroup(c)
  <2>1. PICK B \in SUBSET Messages :
           /\ B \subseteq Undelivered /\ (Deliver(B) \/ pel' = pel)
           /\ lastDelivered' \in B \/ lastDelivered' = lastDelivered
    BY <1>3 DEF Xreadgroup, IsFirst
  <2>a. \A m \in B : ~(m <= lastDelivered)
    BY <2>1 DEF Undelivered, FullInv, Inv, TypeOK, TypeRedis
  <2>2. \A m \in Messages : pel[m] = 0 /\ m <= lastDelivered => pel'[m] = 0
    BY <2>1, <2>a DEF Deliver
  <2>3. lastDelivered <= lastDelivered'
    BY <2>1 DEF Undelivered, FullInv, Inv, TypeOK, TypeRedis
  <2> QED
    BY <1>1, <2>2, <2>3, SettledGrows, SettleStep DEF FullInv, Inv, TypeOK, LossInv
<1> QED
  BY <1>2, <1>3

\* The initial state of the consumers is one of AtLeastOnce.
LEMMA InitRefines == Init => Delivery!Init
BY DEF Init, Delivery!Init, Dropped, Settled, Messages

\* Every step of the consumers is a step of AtLeastOnce or changes nothing there.
LEMMA NextRefines ==
    FullInv /\ FullInv' /\ [Next]_vars => Delivery!Next \/ UNCHANGED Delivery!vars
<1> SUFFICES ASSUME FullInv, FullInv', [Next]_vars
             PROVE  Delivery!Next \/ UNCHANGED Delivery!vars
  OBVIOUS
<1>0. ASSUME UNCHANGED <<redisVars, applied>> PROVE UNCHANGED Delivery!vars
  BY <1>0 DEF Delivery!vars, Dropped, Settled
<1>1. CASE Xadd
  BY <1>1, XaddRefines
<1>2. ASSUME NEW m \in Messages, BecomeIdle(m) PROVE UNCHANGED Delivery!vars
  BY <1>2 DEF BecomeIdle, Delivery!vars, Dropped, Settled
<1>3. ASSUME NEW c \in Consumers, Start(c) PROVE Delivery!Next
  BY <1>3, StartRefines
<1>4. ASSUME NEW c \in Consumers, IntervalElapses(c) \/ Stop(c) \/ Crash(c)
      PROVE  UNCHANGED Delivery!vars
  BY <1>0, <1>4 DEF IntervalElapses, Stop, Crash
<1>5. ASSUME NEW c \in Consumers, LoopStep(c) PROVE Delivery!Next \/ UNCHANGED Delivery!vars
  <2>1. CASE LoopTop(c) \/ ScanStopped(c) \/ TriageDone(c) \/ ReclaimDone(c) \/ ReadDone(c)
    BY <1>0, <2>1 DEF LoopTop, ScanStopped, TriageDone, ReclaimDone, ReadDone
  <2>2. CASE Xautoclaim(c) \/ Xreadgroup(c)
    BY <2>2, DeliveryRefines
  <2>3. ASSUME NEW m \in Messages, TriageVoid(c, m) PROVE Delivery!Next
    BY <2>3, AckRefines DEF TriageVoid
  <2>4. ASSUME NEW m \in Messages, TriageClaimed(c, m) PROVE UNCHANGED Delivery!vars
    BY <1>0, <2>4 DEF TriageClaimed
  <2> QED
    BY <1>5, <2>1, <2>2, <2>3, <2>4 DEF LoopStep
<1>6. ASSUME NEW c \in Consumers, NEW m \in Messages, TaskStep(c, m)
      PROVE  Delivery!Next \/ UNCHANGED Delivery!vars
  <2>1. CASE AcquireSlot(c, m) \/ ProcessFails(c, m) \/ ProcessNonRetryable(c, m)
             \/ ProcessKills(c, m) \/ Wake(c, m)
    BY <1>0, <2>1 DEF AcquireSlot, ProcessFails, ProcessNonRetryable, ProcessKills, Wake
  <2>2. CASE ProcessOk(c, m)
    BY <2>2, ProcessOkRefines
  <2>3. CASE SendToDlq(c, m)
    BY <2>3, SendToDlqRefines
  <2>4. CASE XackProcessed(c, m) \/ XackDead(c, m)
    BY <2>4, AckRefines DEF XackProcessed, XackDead
  <2> QED
    BY <1>6, <2>1, <2>2, <2>3, <2>4 DEF TaskStep
<1>7. CASE UNCHANGED vars
  BY <1>0, <1>7 DEF vars
<1> QED
  BY <1>1, <1>2, <1>3, <1>4, <1>5, <1>6, <1>7 DEF Next

\* The consumers implement at-least-once delivery, for any number of processes,
\* entries, retries, deliveries and faults.
THEOREM Refinement == Spec => ImplementsAtLeastOnce
<1>1. FullInv /\ FullInv' /\ [Next]_vars => [Delivery!Next]_(Delivery!vars)
  BY NextRefines
<1> QED
  BY <1>1, InitRefines, FullInvariance, PTL DEF Spec, ImplementsAtLeastOnce, Delivery!Spec

-----------------------------------------------------------------------------
(* Who handles an entry, and how often: exclusive handling, what a calm run   *)
(* leaves in the DLQ, and how often an entry can kill the process.            *)

(* Batches *)

\* Entries a process has a coroutine for.
Active(c) == {m \in Messages : task[c][m] # "none"}

\* A process never has more coroutines than batch_size: the gather of a batch
\* ends before the next batch is asked for.
BatchFits == \A c \in Consumers : Cardinality(Active(c)) <= BatchSize

\* The only steps that begin coroutines.
Delivers(c) == Xautoclaim(c) \/ Xreadgroup(c)

\* Every other step of any process only moves coroutines on or ends them.
LEMMA CoroutinesOnlyEnd ==
    ASSUME FullInv, [Next]_vars, \A c \in Consumers : ~Delivers(c)
    PROVE  \A d \in Consumers, k \in Messages : task'[d][k] # "none" => task[d][k] # "none"
<1> DEFINE OnlyEnd == \A d \in Consumers, k \in Messages :
                        task'[d][k] # "none" => task[d][k] # "none"
<1> SUFFICES OnlyEnd
  OBVIOUS
<1>1. UNCHANGED task => OnlyEnd
  OBVIOUS
<1>2. ASSUME NEW c \in Consumers, task' = [task EXCEPT ![c] = NoTasks] PROVE OnlyEnd
  BY <1>2 DEF NoTasks, FullInv, Inv, TypeOK, TypeTask
<1>3. ASSUME NEW c \in Consumers, NEW m \in Messages, NEW t, task[c][m] # "none",
             task' = [task EXCEPT ![c][m] = t]
      PROVE  OnlyEnd
  BY <1>3 DEF FullInv, Inv, TypeOK, TypeTask
<1> HIDE DEF OnlyEnd
<1>4. CASE Xadd
  BY <1>1, <1>4 DEF Xadd
<1>5. ASSUME NEW m \in Messages, BecomeIdle(m) PROVE OnlyEnd
  BY <1>1, <1>5 DEF BecomeIdle
<1>6. ASSUME NEW c \in Consumers, Start(c) \/ IntervalElapses(c) \/ Stop(c) PROVE OnlyEnd
  BY <1>1, <1>6 DEF Start, IntervalElapses, Stop
<1>7. ASSUME NEW c \in Consumers, Crash(c) PROVE OnlyEnd
  BY <1>2, <1>7 DEF Crash, Die
<1>8. ASSUME NEW c \in Consumers, LoopStep(c), ~Delivers(c) PROVE OnlyEnd
  <2>1. CASE LoopTop(c) \/ ScanStopped(c) \/ TriageDone(c) \/ ReclaimDone(c) \/ ReadDone(c)
    BY <1>1, <2>1 DEF LoopTop, ScanStopped, TriageDone, ReclaimDone, ReadDone
  <2>2. ASSUME NEW m \in Messages, TriageVoid(c, m) \/ TriageClaimed(c, m) PROVE OnlyEnd
    <3>1. \/ task' = [task EXCEPT ![c] = NoTasks]
          \/ task[c][m] # "none" /\ \E t : task' = [task EXCEPT ![c][m] = t]
      BY <2>2 DEF TriageVoid, TriageClaimed
    <3> QED
      BY <1>2, <1>3, <3>1
  <2> QED
    BY <1>8, <2>1, <2>2 DEF LoopStep, Delivers
<1>9. ASSUME NEW c \in Consumers, NEW m \in Messages, TaskStep(c, m) PROVE OnlyEnd
  <2>1. \/ task' = [task EXCEPT ![c] = NoTasks]
        \/ task[c][m] # "none" /\ \E t : task' = [task EXCEPT ![c][m] = t]
    BY <1>9 DEF TaskStep, AcquireSlot, ProcessOk, ProcessFails, ProcessNonRetryable, ProcessKills,
                XackProcessed, Wake, SendToDlq, XackDead, Die, TaskTo, InTask
  <2> QED
    BY <1>2, <1>3, <2>1
<1>10. CASE UNCHANGED vars
  BY <1>1, <1>10 DEF vars
<1> QED
  BY <1>4, <1>5, <1>6, <1>7, <1>8, <1>9, <1>10 DEF Next

\* Only the passing of time makes an entry idle.
LEMMA OnlyTimeMakesIdle ==
    ASSUME FullInv, [Next]_vars, \A m \in Messages : ~BecomeIdle(m)
    PROVE  idle' \subseteq idle
<1>1. CASE Xadd
  BY <1>1 DEF Xadd
<1>2. ASSUME NEW c \in Consumers, Start(c) \/ IntervalElapses(c) \/ Stop(c) \/ Crash(c)
      PROVE  UNCHANGED idle
  BY <1>2 DEF Start, IntervalElapses, Stop, Crash
<1>3. ASSUME NEW c \in Consumers, LoopStep(c) PROVE idle' \subseteq idle
  BY <1>3 DEF LoopStep, LoopTop, ScanStopped, TriageDone, ReclaimDone, ReadDone, Xautoclaim,
              Xreadgroup, Deliver, TriageVoid, TriageClaimed, Xack, Settle
<1>4. ASSUME NEW c \in Consumers, NEW m \in Messages, TaskStep(c, m) PROVE idle' \subseteq idle
  BY <1>4 DEF TaskStep, AcquireSlot, ProcessOk, ProcessFails, ProcessNonRetryable, ProcessKills,
              XackProcessed, Wake, SendToDlq, XackDead, Xack, Settle
<1>5. CASE UNCHANGED vars
  BY <1>5 DEF vars
<1> QED
  BY <1>1, <1>2, <1>3, <1>4, <1>5 DEF Next

\* XAUTOCLAIM and XREADGROUP begin coroutines for at most batch_size entries,
\* which were idle or never delivered, and restart their idle time.
LEMMA DeliveredBatch ==
    ASSUME FullInv, NEW c \in Consumers, Delivers(c)
    PROVE  \E B \in SUBSET Messages :
              /\ Cardinality(B) <= BatchSize
              /\ idle' \subseteq idle
              /\ \A k \in B : k \in idle \/ k > lastDelivered
              /\ \/ task' = task
                 \/ /\ \A d \in Consumers \ {c} : task'[d] = task[d]
                    /\ \A k \in Messages : task'[c][k] # "none" <=> k \in B
                    /\ idle' \cap B = {}
<1>1. CASE Xautoclaim(c)
  <2>1. PICK o \in Outcomes, B \in SUBSET Messages :
          /\ IsFirst(B, Reclaimable(c), BatchSize)
          /\ IF Ran(o) THEN Deliver(B) ELSE UNCHANGED <<pel, idle>>
          /\ IF Failed(o) THEN UNCHANGED task ELSE task' = [task EXCEPT ![c] = Claimed(B)]
    BY <1>1 DEF Xautoclaim
  <2>2. Cardinality(B) <= BatchSize /\ idle' \subseteq idle /\ \A k \in B : k \in idle
    BY <2>1 DEF IsFirst, Reclaimable, Deliver
  <2>3. CASE Failed(o)
    BY <2>1, <2>2, <2>3
  <2>4. CASE ~Failed(o)
    <3>1. Ran(o)
      BY <2>4 DEF Ran, Failed, Outcomes
    <3>2. task' = [task EXCEPT ![c] = Claimed(B)] /\ idle' \cap B = {}
      BY <2>1, <2>4, <3>1 DEF Deliver
    <3>3. \A k \in Messages : task'[c][k] # "none" <=> k \in B
      BY <3>2 DEF Claimed, FullInv, Inv, TypeOK, TypeTask
    <3>4. \A d \in Consumers \ {c} : task'[d] = task[d]
      BY <3>2 DEF FullInv, Inv, TypeOK, TypeTask
    <3> QED
      BY <2>2, <3>2, <3>3, <3>4
  <2> QED
    BY <2>3, <2>4
<1>2. CASE Xreadgroup(c)
  <2>1. PICK o \in Outcomes, B \in SUBSET Messages :
          /\ IsFirst(B, Undelivered, BatchSize)
          /\ IF Ran(o) THEN Deliver(B) ELSE UNCHANGED <<pel, idle>>
          /\ IF Failed(o) THEN UNCHANGED task
             ELSE task' = [task EXCEPT ![c] =
                             [m \in Messages |-> IF m \in B THEN FirstTask(m) ELSE "none"]]
    BY <1>2 DEF Xreadgroup
  <2>2. Cardinality(B) <= BatchSize /\ idle' \subseteq idle /\ \A k \in B : k > lastDelivered
    BY <2>1 DEF IsFirst, Undelivered, Deliver
  <2>3. CASE Failed(o)
    BY <2>1, <2>2, <2>3
  <2>4. CASE ~Failed(o)
    <3>1. Ran(o)
      BY <2>4 DEF Ran, Failed, Outcomes
    <3>2. /\ task' = [task EXCEPT ![c] =
                        [m \in Messages |-> IF m \in B THEN FirstTask(m) ELSE "none"]]
          /\ idle' \cap B = {}
      BY <2>1, <2>4, <3>1 DEF Deliver
    <3>3. \A k \in Messages : task'[c][k] # "none" <=> k \in B
      BY <3>2, FirstTaskType DEF FullInv, Inv, TypeOK, TypeTask
    <3>4. \A d \in Consumers \ {c} : task'[d] = task[d]
      BY <3>2 DEF FullInv, Inv, TypeOK, TypeTask
    <3> QED
      BY <2>2, <3>2, <3>3, <3>4
  <2> QED
    BY <2>3, <2>4
<1> QED
  BY <1>1, <1>2 DEF Delivers

\* Sets of active entries that shrink stay within the batch size.
LEMMA BatchFitsNext ==
    ASSUME FullInv, BatchFits, [Next]_vars PROVE BatchFits'
<1>1. ASSUME NEW d \in Consumers, Active(d)' \subseteq Active(d)
      PROVE  Cardinality(Active(d)') <= BatchSize
  <2>1. IsFiniteSet(Active(d)) /\ Cardinality(Active(d)) \in Nat
    BY EntriesFinite DEF Active
  <2>2. Cardinality(Active(d)') \in Nat /\ Cardinality(Active(d)') <= Cardinality(Active(d))
    BY <1>1, <2>1, FS_Subset, FS_CardinalityType
  <2> QED
    BY <2>1, <2>2 DEF BatchFits
<1>2. CASE \A c \in Consumers : ~Delivers(c)
  BY <1>1, <1>2, CoroutinesOnlyEnd DEF Active, BatchFits
<1>3. ASSUME NEW c \in Consumers, Delivers(c) PROVE BatchFits'
  <2>1. PICK B \in SUBSET Messages :
          /\ Cardinality(B) <= BatchSize
          /\ \/ task' = task
             \/ /\ \A d \in Consumers \ {c} : task'[d] = task[d]
                /\ \A k \in Messages : task'[c][k] # "none" <=> k \in B
    BY <1>3, DeliveredBatch
  <2>2. ASSUME NEW d \in Consumers PROVE Active(d)' = B \/ Active(d)' = Active(d)
    BY <2>1 DEF Active
  <2> QED
    BY <1>1, <2>1, <2>2 DEF BatchFits
<1> QED
  BY <1>2, <1>3

-----------------------------------------------------------------------------
(* Exclusive handling *)

\* With a semaphore at least as large as a batch, no coroutine waits for a slot
\* in vain.
LEMMA NobodyStarves ==
    ASSUME FullInv, BatchFits, BatchSize <= Concurrency, NEW c \in Consumers, NEW m \in Messages
    PROVE  ~Starved(c, m)
<1> SUFFICES ASSUME task[c][m] = "waiting", slots[c] = 0 PROVE FALSE
  BY DEF Starved
<1>1. Cardinality(Holders(c)) = Concurrency
  <2>1. slots[c] + Cardinality(Holders(c)) = Concurrency
    BY DEF FullInv, SlotAccounting
  <2>2. Cardinality(Holders(c)) \in Nat
    BY EntriesFinite DEF Holders
  <2> QED
    BY <2>1, <2>2
<1>2. m \notin Holders(c) /\ Holders(c) \cup {m} \subseteq Active(c)
  BY DEF Holders, Active
<1>3. IsFiniteSet(Holders(c)) /\ IsFiniteSet(Active(c))
  BY EntriesFinite DEF Holders, Active
<1>4. Cardinality(Holders(c) \cup {m}) = Cardinality(Holders(c)) + 1
  BY <1>2, <1>3, FS_AddElement
<1>5. Cardinality(Holders(c) \cup {m}) <= Cardinality(Active(c))
  BY <1>2, <1>3, FS_Subset
<1>6. Cardinality(Active(c)) \in Nat /\ Cardinality(Active(c)) <= BatchSize
  BY <1>3, FS_CardinalityType DEF BatchFits
<1> QED
  BY <1>1, <1>4, <1>5, <1>6

\* reclaim_idle_ms exceeds the handling time of a message, and a batch fits the
\* semaphore.
WellConfigured == ~SlowHandlers /\ BatchSize <= Concurrency

\* An entry somebody handles is not idle, and nobody else handles it.
OneCoroutine ==
    \A m \in Messages, c \in Consumers : task[c][m] # "none" =>
        m \notin idle /\ \A d \in Consumers : task[d][m] # "none" => d = c

\* Exclusive handling is preserved: an entry only becomes idle when nobody
\* handles it, and only idle and new entries are delivered.
LEMMA OneCoroutineNext ==
    ASSUME FullInv, BatchFits, WellConfigured, OneCoroutine, [Next]_vars PROVE OneCoroutine'
<1>1. ASSUME NEW m \in Messages, BecomeIdle(m) PROVE OneCoroutine'
  <2>1. \A c \in Consumers : task[c][m] = "none"
    BY <1>1, NobodyStarves DEF BecomeIdle, WellConfigured
  <2>2. idle' = idle \cup {m} /\ task' = task
    BY <1>1 DEF BecomeIdle
  <2> QED
    BY <2>1, <2>2 DEF OneCoroutine
<1>2. ASSUME NEW c \in Consumers, Delivers(c) PROVE OneCoroutine'
  <2>1. PICK B \in SUBSET Messages :
          /\ idle' \subseteq idle
          /\ \A k \in B : k \in idle \/ k > lastDelivered
          /\ \/ task' = task
             \/ /\ \A d \in Consumers \ {c} : task'[d] = task[d]
                /\ \A k \in Messages : task'[c][k] # "none" <=> k \in B
                /\ idle' \cap B = {}
    BY <1>2, DeliveredBatch
  <2>2. \A d \in Consumers, k \in B : task[d][k] = "none"
    <3> SUFFICES ASSUME NEW d \in Consumers, NEW k \in B, task[d][k] # "none" PROVE FALSE
      OBVIOUS
    <3>1. k \in Messages /\ (k \in idle \/ k > lastDelivered)
      BY <2>1
    <3>2. k <= lastDelivered
      BY <3>1 DEF FullInv, Inv, LossInv, TaskMeaning
    <3>3. k \notin idle
      BY <3>1 DEF OneCoroutine
    <3> QED
      BY <3>1, <3>2, <3>3 DEF FullInv, Inv, TypeOK, TypeRedis, Messages
  <2> QED
    BY <2>1, <2>2 DEF OneCoroutine
<1>3. CASE (\A m \in Messages : ~BecomeIdle(m)) /\ (\A c \in Consumers : ~Delivers(c))
  BY <1>3, OnlyTimeMakesIdle, CoroutinesOnlyEnd DEF OneCoroutine
<1> QED
  BY <1>1, <1>2, <1>3
-----------------------------------------------------------------------------
(* A calm run: no call failed, no process died or was stopped *)

Calm == faults = 0 /\ \A m \in Messages : kills[m] = 0

\* What an entry of a calm run looks like: it is handled as long as it is pending,
\* and what was done with it is what its coroutine is about to ACK.
CalmEntry(m) ==
    /\ m \notin idle
    /\ pel[m] > 0 => \E c \in Consumers : task[c][m] # "none"
    /\ m \in applied => m <= lastDelivered /\ \A c \in Consumers : task[c][m] \in {"none", "acking"}
    /\ m \in dead => m <= lastDelivered /\ \A c \in Consumers : task[c][m] \in {"none", "dlqack"}
    /\ ~(m \in applied /\ m \in dead)

CalmInv == Calm => \A m \in Messages : CalmEntry(m)

\* Faults and kills are only ever added.
LEMMA HistoryGrows ==
    ASSUME FullInv, [Next]_vars
    PROVE  faults' >= faults /\ \A m \in Messages : kills'[m] >= kills[m]
<1> DEFINE Grows == faults' >= faults /\ \A m \in Messages : kills'[m] >= kills[m]
<1>0. faults \in Nat /\ kills \in [Messages -> Nat]
  BY DEF FullInv, Inv, TypeOK, TypeHistory
<1>1. faults' \in {faults, faults + 1} /\ kills' = kills => Grows
  BY <1>0
<1>2. ASSUME NEW m \in Messages, faults' = faults, kills' = [kills EXCEPT ![m] = @ + 1]
      PROVE  Grows
  BY <1>0, <1>2
<1> SUFFICES Grows
  OBVIOUS
<1> HIDE DEF Grows
<1>3. CASE Xadd \/ \E m \in Messages : BecomeIdle(m)
  BY <1>1, <1>3 DEF Xadd, BecomeIdle
<1>4. ASSUME NEW c \in Consumers, Start(c) \/ IntervalElapses(c) \/ Stop(c) \/ Crash(c)
      PROVE  Grows
  BY <1>1, <1>4 DEF Start, EnsureConsumerGroup, Outcome, IntervalElapses, Stop, Crash, Disturb
<1>5. ASSUME NEW c \in Consumers, LoopStep(c) PROVE Grows
  BY <1>1, <1>5 DEF LoopStep, LoopTop, ScanStopped, TriageDone, ReclaimDone, ReadDone, Xautoclaim,
                    Xreadgroup, TriageVoid, TriageClaimed, Xack, Outcome, Disturb
<1>6. ASSUME NEW c \in Consumers, NEW m \in Messages, TaskStep(c, m) PROVE Grows
  <2>1. CASE ProcessKills(c, m)
    BY <1>2, <2>1 DEF ProcessKills
  <2>2. CASE ~ProcessKills(c, m)
    BY <1>1, <1>6, <2>2 DEF TaskStep, AcquireSlot, ProcessOk, ProcessFails, ProcessNonRetryable,
          XackProcessed, Wake, SendToDlq, XackDead, Xack, Outcome, Disturb
  <2> QED
    BY <2>1, <2>2
<1>7. CASE UNCHANGED vars
  BY <1>1, <1>7 DEF vars
<1> QED
  BY <1>3, <1>4, <1>5, <1>6, <1>7 DEF Next

\* A step that touches no coroutine and no entry.
LEMMA CalmQuiet ==
    ASSUME FullInv, NEW m \in Messages, CalmEntry(m), lastDelivered' \in Int,
           lastDelivered <= lastDelivered', UNCHANGED <<task, pel, idle, applied, dead>>
    PROVE  CalmEntry(m)'
BY DEF CalmEntry, FullInv, Inv, TypeOK, TypeRedis, Messages

\* A step of the coroutine of one entry: it goes on, or its entry is settled.
LEMMA CalmCoroutine ==
    ASSUME FullInv, OneCoroutine, \A k \in Messages : CalmEntry(k),
           NEW c \in Consumers, NEW m \in Messages, NEW t, task[c][m] # "none",
           task' = [task EXCEPT ![c][m] = t], idle' \subseteq idle, lastDelivered' = lastDelivered,
           \A k \in Messages \ {m} : /\ pel'[k] = pel[k]
                                     /\ k \in applied' <=> k \in applied
                                     /\ k \in dead' <=> k \in dead,
           t # "none" \/ ~(pel'[m] > 0),
           m \in applied' => t \in {"none", "acking"},
           m \in dead' => t \in {"none", "dlqack"},
           ~(m \in applied' /\ m \in dead')
    PROVE  \A k \in Messages : CalmEntry(k)'
<1>1. \A d \in Consumers, k \in Messages :
        task'[d][k] = IF d = c /\ k = m THEN t ELSE task[d][k]
  BY DEF FullInv, Inv, TypeOK, TypeTask
<1>2. \A d \in Consumers \ {c} : task[d][m] = "none"
  BY DEF OneCoroutine
<1>3. m <= lastDelivered
  BY DEF FullInv, Inv, LossInv, TaskMeaning
<1>4. CalmEntry(m)'
  BY <1>1, <1>2, <1>3 DEF CalmEntry
<1>5. ASSUME NEW k \in Messages \ {m} PROVE CalmEntry(k)'
  BY <1>1 DEF CalmEntry
<1> QED
  BY <1>4, <1>5

\* In a calm run nothing is ever reclaimed, and an entry meets one fate.
LEMMA CalmNext ==
    ASSUME FullInv, BatchFits, WellConfigured, OneCoroutine, CalmInv, FullInv', [Next]_vars
    PROVE  CalmInv'
<1> SUFFICES ASSUME Calm' PROVE \A m \in Messages : CalmEntry(m)'
  BY DEF CalmInv
<1>0. /\ faults = 0 /\ faults' = 0
      /\ \A m \in Messages : kills[m] = 0 /\ kills'[m] = 0
      /\ \A m \in Messages : CalmEntry(m)
  <2>1. faults \in Nat /\ kills \in [Messages -> Nat]
    BY DEF FullInv, Inv, TypeOK, TypeHistory
  <2>2. Calm
    BY <2>1, HistoryGrows DEF Calm
  <2> QED
    BY <2>2 DEF CalmInv, Calm
<1>a. ~Disturb
  BY <1>0 DEF Disturb
<1>b. \A o \in Outcomes : Outcome(o) => o = "ok" /\ Ran(o) /\ ~Failed(o)
  BY <1>a DEF Outcome, Ran, Failed
<1>c. lastDelivered' \in Int /\ lastDelivered \in Int
  BY DEF FullInv, Inv, TypeOK, TypeRedis
<1>d. idle = {}
  BY <1>0 DEF CalmEntry, FullInv, Inv, TypeOK, TypeRedis
<1>1. CASE Xadd \/ UNCHANGED vars
  BY <1>0, <1>1, <1>c, CalmQuiet DEF Xadd, vars
<1>2. ASSUME NEW m \in Messages, BecomeIdle(m) PROVE FALSE
  <2>1. \A c \in Consumers : task[c][m] = "none"
    BY <1>2, NobodyStarves DEF BecomeIdle, WellConfigured
  <2> QED
    BY <1>0, <1>2, <2>1 DEF BecomeIdle, Pending, CalmEntry
<1>3. ASSUME NEW c \in Consumers, Start(c) PROVE \A m \in Messages : CalmEntry(m)'
  <2>1. lastDelivered <= lastDelivered'
    BY <1>3, <1>c DEF Start, EnsureConsumerGroup, GroupStart, FullInv, Inv, TypeOK, TypeRedis,
                      LossInv, PelPlace
  <2> QED
    BY <1>0, <1>3, <1>c, <2>1, CalmQuiet DEF Start
<1>4. ASSUME NEW c \in Consumers, IntervalElapses(c)
      PROVE  \A m \in Messages : CalmEntry(m)'
  BY <1>0, <1>4, <1>c, CalmQuiet DEF IntervalElapses
<1>5. ASSUME NEW c \in Consumers, Stop(c) \/ Crash(c) PROVE FALSE
  BY <1>a, <1>5 DEF Stop, Crash
<1>6. ASSUME NEW c \in Consumers,
             LoopTop(c) \/ ScanStopped(c) \/ TriageDone(c) \/ ReclaimDone(c) \/ ReadDone(c)
      PROVE  \A m \in Messages : CalmEntry(m)'
  <2>1. UNCHANGED <<task, pel, idle, applied, dead, lastDelivered>>
    BY <1>6 DEF LoopTop, ScanStopped, TriageDone, ReclaimDone, ReadDone
  <2> QED
    BY <1>0, <1>c, <2>1, CalmQuiet
<1>7. ASSUME NEW c \in Consumers, Xautoclaim(c) PROVE \A m \in Messages : CalmEntry(m)'
  <2>1. PICK B \in SUBSET Messages :
          /\ IsFirst(B, Reclaimable(c), BatchSize)
          /\ Deliver(B) /\ task' = [task EXCEPT ![c] = Claimed(B)]
    BY <1>7, <1>b DEF Xautoclaim
  <2>2. B = {}
    BY <1>d, <2>1 DEF IsFirst, Reclaimable
  <2>3. \A m \in Messages : task[c][m] = "none"
    BY <1>7 DEF Xautoclaim, FullInv, Inv, LossInv, TaskPlace
  <2>4. task' = task
    <3>1. Claimed(B) = task[c]
      BY <2>2, <2>3 DEF Claimed, FullInv, Inv, TypeOK, TypeTask
    <3> QED
      BY <2>1, <3>1 DEF FullInv, Inv, TypeOK, TypeTask
  <2>5. pel' = pel /\ idle' = idle
    BY <2>1, <2>2 DEF Deliver, FullInv, Inv, TypeOK, TypeRedis
  <2>6. UNCHANGED <<applied, dead, lastDelivered>>
    BY <1>7 DEF Xautoclaim
  <2> QED
    BY <1>0, <1>c, <2>4, <2>5, <2>6, CalmQuiet
<1>8. ASSUME NEW c \in Consumers, Xreadgroup(c) PROVE \A m \in Messages : CalmEntry(m)'
  <2>1. PICK B \in SUBSET Messages :
          /\ IsFirst(B, Undelivered, BatchSize) /\ Deliver(B)
          /\ IF B # {} THEN lastDelivered' \in B /\ \A m \in B : m <= lastDelivered'
                       ELSE UNCHANGED lastDelivered
          /\ task' = [task EXCEPT ![c] =
                [m \in Messages |-> IF m \in B THEN FirstTask(m) ELSE "none"]]
    BY <1>8, <1>b DEF Xreadgroup
  <2>2. \A m \in Messages : task[c][m] = "none"
    BY <1>8 DEF Xreadgroup, FullInv, Inv, LossInv, TaskPlace
  <2>3. \A d \in Consumers, m \in Messages :
          task'[d][m] = IF d = c /\ m \in B THEN FirstTask(m) ELSE task[d][m]
    BY <2>1, <2>2 DEF FullInv, Inv, TypeOK, TypeTask
  <2>4. \A m \in B : m > lastDelivered
    BY <2>1 DEF IsFirst, Undelivered
  <2>5. lastDelivered <= lastDelivered'
    BY <1>c, <2>1, <2>4 DEF Messages
  <2>6. UNCHANGED <<applied, dead>> /\ idle' = {} /\ \A m \in Messages \ B : pel'[m] = pel[m]
    BY <1>8, <1>d, <2>1 DEF Xreadgroup, Deliver, FullInv, Inv, TypeOK, TypeRedis
  <2>7. ASSUME NEW m \in B PROVE CalmEntry(m)'
    <3>1. m \in Messages /\ m \notin applied /\ m \notin dead
      <4>1. m \in Messages
        OBVIOUS
      <4>2. m \in Int /\ ~(m <= lastDelivered)
        BY <1>c, <2>4, <4>1 DEF Messages
      <4> QED
        BY <1>0, <4>1, <4>2 DEF CalmEntry
    <3> QED
      BY <2>3, <2>6, <3>1, FirstTaskType DEF CalmEntry
  <2>8. ASSUME NEW m \in Messages \ B PROVE CalmEntry(m)'
    BY <1>0, <1>c, <2>3, <2>5, <2>6 DEF CalmEntry, Messages
  <2> QED
    BY <2>7, <2>8
<1>9. ASSUME NEW c \in Consumers, NEW m \in Messages, TriageVoid(c, m) \/ TriageClaimed(c, m)
      PROVE  \A k \in Messages : CalmEntry(k)'
  <2>0. task[c][m] \in {"claimed", "void"} /\ UNCHANGED <<applied, dead, lastDelivered>>
    BY <1>9 DEF TriageVoid, TriageClaimed
  <2>1. m \notin applied /\ m \notin dead
    BY <1>0, <2>0 DEF CalmEntry
  <2>2. CASE TriageVoid(c, m)
    <3>1. Settle(m) /\ task' = [task EXCEPT ![c][m] = "none"]
      BY <1>b, <2>2 DEF TriageVoid, Xack
    <3>2. idle' \subseteq idle /\ ~(pel'[m] > 0) /\ \A k \in Messages \ {m} : pel'[k] = pel[k]
      BY <3>1 DEF Settle, FullInv, Inv, TypeOK, TypeRedis
    <3> QED
      BY <1>0, <2>0, <2>1, <3>1, <3>2, CalmCoroutine
  <2>3. CASE TriageClaimed(c, m)
    <3>1. PICK t \in {"dlq", "waiting"} : task' = [task EXCEPT ![c][m] = t]
      BY <2>3, FirstTaskType DEF TriageClaimed
    <3>2. UNCHANGED <<idle, pel>>
      BY <2>3 DEF TriageClaimed
    <3> QED
      BY <1>0, <2>0, <2>1, <3>1, <3>2, CalmCoroutine
  <2> QED
    BY <1>9, <2>2, <2>3
<1>10. ASSUME NEW c \in Consumers, NEW m \in Messages, TaskStep(c, m)
       PROVE  \A k \in Messages : CalmEntry(k)'
  <2>1. CASE AcquireSlot(c, m) \/ ProcessFails(c, m) \/ ProcessNonRetryable(c, m) \/ Wake(c, m)
    <3>1. PICK t \in {"processing", "sleeping", "dlq", "waiting"} :
            /\ task[c][m] \in {"waiting", "processing", "sleeping"}
            /\ task' = [task EXCEPT ![c][m] = t]
            /\ UNCHANGED <<idle, pel, applied, dead, lastDelivered>>
      BY <2>1, NextTaskStates DEF AcquireSlot, ProcessFails, ProcessNonRetryable, Wake, InTask, TaskTo
    <3>2. m \notin applied /\ m \notin dead
      BY <1>0, <3>1 DEF CalmEntry
    <3> QED
      BY <1>0, <3>1, <3>2, CalmCoroutine
  <2>2. CASE ProcessOk(c, m)
    <3>1. /\ task[c][m] = "processing" /\ task' = [task EXCEPT ![c][m] = "acking"]
          /\ applied' = applied \cup {m} /\ UNCHANGED <<idle, pel, dead, lastDelivered>>
      BY <2>2 DEF ProcessOk, InTask, TaskTo
    <3>2. m \notin dead
      BY <1>0, <3>1 DEF CalmEntry
    <3> QED
      BY <1>0, <3>1, <3>2, CalmCoroutine
  <2>3. CASE ProcessKills(c, m)
    <3>1. kills'[m] = kills[m] + 1
      BY <2>3 DEF ProcessKills, FullInv, Inv, TypeOK, TypeHistory
    <3> QED
      BY <1>0, <3>1
  <2>4. CASE XackProcessed(c, m) \/ XackDead(c, m)
    <3>1. /\ task[c][m] \in {"acking", "dlqack"} /\ task' = [task EXCEPT ![c][m] = "none"]
          /\ Settle(m) /\ UNCHANGED <<applied, dead, lastDelivered>>
      BY <1>b, <2>4 DEF XackProcessed, XackDead, Xack, AfterAck, InTask, TaskTo
    <3>2. idle' \subseteq idle /\ ~(pel'[m] > 0) /\ \A k \in Messages \ {m} : pel'[k] = pel[k]
      BY <3>1 DEF Settle, FullInv, Inv, TypeOK, TypeRedis
    <3>3. ~(m \in applied /\ m \in dead)
      BY <1>0 DEF CalmEntry
    <3> QED
      BY <1>0, <3>1, <3>2, <3>3, CalmCoroutine
  <2>5. CASE SendToDlq(c, m)
    <3>1. /\ task[c][m] = "dlq" /\ task' = [task EXCEPT ![c][m] = "dlqack"]
          /\ dead' = dead \cup {m} /\ UNCHANGED <<idle, pel, applied, lastDelivered>>
      BY <1>b, <2>5, NextTaskStates DEF SendToDlq, InTask, TaskTo
    <3>2. m \notin applied
      BY <1>0, <3>1 DEF CalmEntry
    <3> QED
      BY <1>0, <3>1, <3>2, CalmCoroutine
  <2> QED
    BY <1>10, <2>1, <2>2, <2>3, <2>4, <2>5 DEF TaskStep
<1> QED
  BY <1>1, <1>2, <1>3, <1>4, <1>5, <1>6, <1>7, <1>8, <1>9, <1>10 DEF Next, LoopStep
-----------------------------------------------------------------------------
(* How often an entry can kill the process *)

\* Processes that claimed m and have not looked at its delivery count yet, those
\* that have a coroutine for it, and those whose coroutine may still run it.
Claims(m) == {c \in Consumers : task[c][m] \in {"claimed", "void"}}
Busy(m) == {c \in Consumers : task[c][m] \notin {"none", "claimed", "void"}}
Live(m) == {c \in Consumers : task[c][m] \in {"waiting", "processing", "acking", "sleeping"}}

\* Every kill, and every coroutine that may become one, was paid for by a delivery
\* within the limit or by a fault.  Beyond the limit a claim pays for nothing: it
\* goes to the DLQ, unless somebody else's ACK has removed the count meanwhile,
\* and then that other coroutine does not kill.
KillEntry(m) ==
    /\ kills[m] + Cardinality(Live(m)) <= MaxDeliveries + faults
    /\ pel[m] = 0 =>
          kills[m] + Cardinality(Live(m)) + Cardinality(Claims(m)) <= MaxDeliveries + faults
    /\ pel[m] \in 1..MaxDeliveries =>
          kills[m] + Cardinality(Busy(m)) + Cardinality(Claims(m)) <= pel[m] + faults
    /\ pel[m] = DeliveryCap /\ (m \in idle \/ Claims(m) # {}) =>
          kills[m] + Cardinality(Busy(m)) <= MaxDeliveries + faults
    /\ Claims(m) # {} => m \notin idle /\ Cardinality(Claims(m)) <= 1
    /\ m > lastDelivered => kills[m] = 0

\* Delivery counts are worth something: an entry is not claimed from a live
\* handler, and at least one delivery is allowed.
CountsMatter == ~SlowHandlers /\ MaxDeliveries > 0

KillInv == \A m \in Messages : KillEntry(m)

\* Sets of processes are finite, and smaller sets have smaller cardinalities.
LEMMA ProcessesFinite ==
    ASSUME NEW T \in SUBSET Consumers, NEW S \in SUBSET T
    PROVE  /\ IsFiniteSet(T) /\ IsFiniteSet(S)
           /\ Cardinality(T) \in Nat /\ Cardinality(S) \in Nat
           /\ Cardinality(S) <= Cardinality(T)
BY ProcessesAssumption, FS_Subset, FS_CardinalityType

\* The three sets, before and after a step.
LEMMA CrowdSizes ==
    ASSUME NEW m
    PROVE  /\ Cardinality(Live(m)) \in Nat /\ Cardinality(Live(m)') \in Nat
           /\ Cardinality(Busy(m)) \in Nat /\ Cardinality(Busy(m)') \in Nat
           /\ Cardinality(Claims(m)) \in Nat /\ Cardinality(Claims(m)') \in Nat
           /\ Cardinality(Live(m)) <= Cardinality(Busy(m))
           /\ Live(m) \subseteq Busy(m)
           /\ Claims(m) = {} => Cardinality(Claims(m)) = 0
           /\ Claims(m)' = {} => Cardinality(Claims(m)') = 0
<1>1. Live(m) \subseteq Busy(m) /\ Busy(m) \in SUBSET Consumers /\ Claims(m) \in SUBSET Consumers
  BY DEF Live, Busy, Claims
<1>2. Live(m)' \in SUBSET Consumers /\ Busy(m)' \in SUBSET Consumers /\ Claims(m)' \in SUBSET Consumers
  BY DEF Live, Busy, Claims
<1> HIDE DEF Live, Busy, Claims
<1> QED
  BY <1>1, <1>2, ProcessesFinite, FS_EmptySet

\* Fewer coroutines and more faults never break the bound.
LEMMA KillFewer ==
    ASSUME FullInv, FullInv', NEW m \in Messages, KillEntry(m),
           kills'[m] = kills[m], faults <= faults', pel'[m] = pel[m], m \in idle' => m \in idle,
           lastDelivered <= lastDelivered',
           Live(m)' \subseteq Live(m), Busy(m)' \subseteq Busy(m), Claims(m)' \subseteq Claims(m)
    PROVE  KillEntry(m)'
<1>1. Live(m) \in SUBSET Consumers /\ Busy(m) \in SUBSET Consumers /\ Claims(m) \in SUBSET Consumers
  BY DEF Live, Busy, Claims
<1>2. /\ Cardinality(Live(m)') <= Cardinality(Live(m))
      /\ Cardinality(Busy(m)') <= Cardinality(Busy(m))
      /\ Cardinality(Claims(m)') <= Cardinality(Claims(m))
  BY <1>1, ProcessesFinite
<1>3. /\ kills[m] \in Nat /\ faults \in Nat /\ faults' \in Nat /\ pel[m] \in Nat /\ m \in Nat
      /\ lastDelivered \in Nat /\ lastDelivered' \in Nat
  BY DEF FullInv, Inv, TypeOK, TypeRedis, TypeHistory, Messages, DeliveryCap
<1> QED
  BY <1>2, <1>3, CrowdSizes DEF KillEntry

\* XACK takes the count of an entry away.  That is paid for: by the coroutine that
\* ends here, by the fault that makes it go on, or nobody has claimed the entry.
LEMMA KillSettled ==
    ASSUME FullInv, FullInv', NEW m \in Messages, KillEntry(m),
           kills'[m] = kills[m], faults <= faults', pel'[m] = 0, m \notin idle',
           lastDelivered' = lastDelivered,
           Live(m)' \subseteq Live(m), Claims(m)' \subseteq Claims(m),
           \/ faults < faults'
           \/ \E c \in Busy(m) : c \notin Live(m)'
           \/ Claims(m)' = {}
    PROVE  KillEntry(m)'
<1>1. Live(m) \in SUBSET Consumers /\ Busy(m) \in SUBSET Consumers /\ Claims(m) \in SUBSET Consumers
  BY DEF Live, Busy, Claims
<1>2. /\ Cardinality(Live(m)') <= Cardinality(Live(m))
      /\ Cardinality(Claims(m)') <= Cardinality(Claims(m))
  BY <1>1, ProcessesFinite
<1>3. /\ kills[m] \in Nat /\ faults \in Nat /\ faults' \in Nat /\ pel[m] \in 0..DeliveryCap
      /\ m \in Nat /\ lastDelivered \in Nat
  BY DEF FullInv, Inv, TypeOK, TypeRedis, TypeHistory, Messages, DeliveryCap
<1>4. kills[m] + Cardinality(Live(m)') + Cardinality(Claims(m)') <= MaxDeliveries + faults'
  <2>1. CASE pel[m] # DeliveryCap
    <3>1. pel[m] = 0 \/ pel[m] \in 1..MaxDeliveries
      BY <1>3, <2>1 DEF DeliveryCap
    <3> QED
      BY <1>2, <1>3, <3>1, CrowdSizes DEF KillEntry
  <2>2. CASE Claims(m)' = {}
    <3>1. Cardinality(Claims(m)') = 0
      BY <2>2, FS_EmptySet
    <3>2. kills[m] + Cardinality(Live(m)) <= MaxDeliveries + faults
      BY DEF KillEntry
    <3> QED
      BY <1>2, <1>3, <3>1, <3>2, CrowdSizes
  <2>3. CASE pel[m] = DeliveryCap /\ Claims(m)' # {}
    <3>1. Cardinality(Claims(m)) <= 1 /\ kills[m] + Cardinality(Busy(m)) <= MaxDeliveries + faults
      BY <2>3 DEF KillEntry
    <3>2. CASE faults < faults'
      BY <1>2, <1>3, <3>1, <3>2, CrowdSizes
    <3>3. ASSUME NEW c \in Busy(m), c \notin Live(m)'
          PROVE  kills[m] + Cardinality(Live(m)') + Cardinality(Claims(m)') <= MaxDeliveries + faults'
      <4>1. Live(m)' \subseteq Busy(m) \ {c}
        BY <3>3, CrowdSizes
      <4>2. IsFiniteSet(Busy(m)) /\ Busy(m) \ {c} \in SUBSET Consumers
        BY <1>1, ProcessesFinite
      <4>3. Cardinality(Busy(m) \ {c}) = Cardinality(Busy(m)) - 1
        BY <4>2, FS_RemoveElement
      <4>4. Cardinality(Live(m)') <= Cardinality(Busy(m) \ {c})
        BY <4>1, <4>2, ProcessesFinite
      <4> QED
        BY <1>2, <1>3, <3>1, <4>3, <4>4, CrowdSizes
    <3> QED
      BY <2>3, <3>2, <3>3
  <2> QED
    BY <2>1, <2>2, <2>3
<1>5. Claims(m)' # {} => Cardinality(Claims(m)') <= 1
  BY <1>2, CrowdSizes DEF KillEntry
<1>6. /\ kills'[m] + Cardinality(Live(m)') <= MaxDeliveries + faults'
      /\ kills'[m] + Cardinality(Live(m)') + Cardinality(Claims(m)') <= MaxDeliveries + faults'
  BY <1>3, <1>4, CrowdSizes
<1>7. m > lastDelivered' => kills'[m] = 0
  BY DEF KillEntry
<1> QED
  BY <1>5, <1>6, <1>7 DEF KillEntry, DeliveryCap

\* A claim of an idle entry raises its count.
LEMMA KillClaimed ==
    ASSUME FullInv, FullInv', NEW m \in Messages, KillEntry(m), m \in idle, m \notin idle',
           kills'[m] = kills[m], faults <= faults', lastDelivered' = lastDelivered,
           pel'[m] = IF pel[m] < DeliveryCap THEN pel[m] + 1 ELSE pel[m],
           Live(m)' = Live(m), Busy(m)' = Busy(m),
           Claims(m)' = {} \/ \E c : Claims(m)' = {c}
    PROVE  KillEntry(m)'
<1>1. Claims(m) = {} /\ Cardinality(Claims(m)) = 0
  BY FS_EmptySet DEF KillEntry
<1>2. Cardinality(Claims(m)') \in 0..1
  <2>1. ASSUME Claims(m)' = {} PROVE Cardinality(Claims(m)') = 0
    BY <2>1, FS_EmptySet
  <2>2. ASSUME NEW c, Claims(m)' = {c} PROVE Cardinality(Claims(m)') = 1
    BY <2>2, FS_Singleton
  <2>3. Cardinality(Claims(m)') = 0 \/ Cardinality(Claims(m)') = 1
    BY <2>1, <2>2, Zenon
  <2> QED
    BY <2>3
<1>3. /\ kills[m] \in Nat /\ faults \in Nat /\ faults' \in Nat
      /\ m \in Nat /\ lastDelivered \in Nat
  BY DEF FullInv, Inv, TypeOK, TypeRedis, TypeHistory, Messages
<1>4. pel[m] \in 1..DeliveryCap
  BY DEF FullInv, Inv, TypeOK, TypeRedis, LossInv, PelPlace, DeliveryCap
<1>5. /\ Cardinality(Live(m)) \in Nat /\ Cardinality(Busy(m)) \in Nat
      /\ Cardinality(Live(m)) <= Cardinality(Busy(m))
  BY CrowdSizes
<1>6. kills[m] + Cardinality(Live(m)) <= MaxDeliveries + faults'
  BY <1>3, <1>5 DEF KillEntry
<1>7. pel'[m] # 0
  BY <1>4 DEF DeliveryCap
<1>8. pel'[m] \in 1..MaxDeliveries =>
        kills[m] + Cardinality(Busy(m)) + Cardinality(Claims(m)') <= pel'[m] + faults'
  <2> SUFFICES ASSUME pel'[m] \in 1..MaxDeliveries
               PROVE  kills[m] + Cardinality(Busy(m)) + Cardinality(Claims(m)') <= pel'[m] + faults'
    OBVIOUS
  <2>1. pel[m] \in 1..MaxDeliveries /\ pel'[m] = pel[m] + 1
    BY <1>4 DEF DeliveryCap
  <2>2. kills[m] + Cardinality(Busy(m)) + 0 <= pel[m] + faults
    BY <1>1, <2>1 DEF KillEntry
  <2> QED
    BY <1>2, <1>3, <1>5, <2>1, <2>2
<1>9. pel'[m] = DeliveryCap => kills[m] + Cardinality(Busy(m)) <= MaxDeliveries + faults'
  <2>1. CASE pel[m] = DeliveryCap
    BY <1>3, <1>5, <2>1 DEF KillEntry
  <2>2. CASE pel[m] = MaxDeliveries
    <3>1. kills[m] + Cardinality(Busy(m)) + 0 <= MaxDeliveries + faults
      BY <1>1, <1>4, <2>2 DEF KillEntry
    <3> QED
      BY <1>3, <1>5, <3>1
  <2>3. CASE pel[m] \notin {MaxDeliveries, DeliveryCap}
    BY <1>4, <2>3 DEF DeliveryCap
  <2> QED
    BY <2>1, <2>2, <2>3
<1>10. (m > lastDelivered => kills[m] = 0) /\ Cardinality(Claims(m)') <= 1
  BY <1>2 DEF KillEntry
<1> QED
  BY <1>6, <1>7, <1>8, <1>9, <1>10 DEF KillEntry

\* A coroutine that begins for a claimed entry: with a count within the limit, for
\* the DLQ, or at the price of a fault.
LEMMA KillTriaged ==
    ASSUME FullInv, FullInv', NEW m \in Messages, KillEntry(m), NEW c \in Claims(m),
           kills' = kills, faults' \in {faults, faults + 1}, pel' = pel, idle' = idle,
           lastDelivered' = lastDelivered, Claims(m)' = Claims(m) \ {c},
           Busy(m)' = Busy(m) \cup {c}, Live(m)' \subseteq Live(m) \cup {c},
           faults' = faults + 1 \/ pel[m] <= MaxDeliveries \/ Live(m)' = Live(m)
    PROVE  KillEntry(m)'
<1>1. /\ Live(m) \in SUBSET Consumers /\ Busy(m) \in SUBSET Consumers
      /\ Claims(m) \in SUBSET Consumers /\ c \in Consumers /\ c \notin Busy(m)
  BY DEF Live, Busy, Claims
<1>2. /\ kills[m] \in Nat /\ faults \in Nat /\ pel[m] \in 0..DeliveryCap
      /\ m \in Nat /\ lastDelivered \in Nat
  BY DEF FullInv, Inv, TypeOK, TypeRedis, TypeHistory, Messages, DeliveryCap
<1>3. Cardinality(Claims(m)') = Cardinality(Claims(m)) - 1
  BY <1>1, ProcessesFinite, FS_RemoveElement
<1>4. Cardinality(Busy(m)') = Cardinality(Busy(m)) + 1
  BY <1>1, ProcessesFinite, FS_AddElement
<1>5. Cardinality(Live(m)') <= Cardinality(Live(m)) + 1
  <2>1. c \notin Live(m)
    BY <1>1, CrowdSizes
  <2>2. Cardinality(Live(m) \cup {c}) = Cardinality(Live(m)) + 1
    BY <1>1, <2>1, ProcessesFinite, FS_AddElement
  <2>3. Cardinality(Live(m)') <= Cardinality(Live(m) \cup {c})
    BY <1>1, ProcessesFinite
  <2> QED
    BY <2>2, <2>3
<1>6. Cardinality(Claims(m)) = 1 /\ m \notin idle
  <2>1. Cardinality(Claims(m)) <= 1 /\ m \notin idle
    BY DEF KillEntry
  <2>2. Cardinality(Claims(m)) \in Nat /\ Cardinality(Claims(m)') \in Nat
    BY CrowdSizes
  <2> QED
    BY <1>3, <2>1, <2>2
<1>7. Claims(m)' = {} /\ Cardinality(Claims(m)') = 0
  <2>1. IsFiniteSet(Claims(m)')
    BY <1>1, ProcessesFinite
  <2> QED
    BY <1>3, <1>6, <2>1, FS_EmptySet
<1>8. /\ Cardinality(Live(m)) \in Nat /\ Cardinality(Live(m)') \in Nat
      /\ Cardinality(Busy(m)) \in Nat /\ Cardinality(Live(m)) <= Cardinality(Busy(m))
  BY CrowdSizes
<1>9. kills[m] + Cardinality(Live(m)') <= MaxDeliveries + faults'
  <2>1. CASE faults' = faults + 1
    BY <1>2, <1>5, <1>8, <2>1 DEF KillEntry
  <2>2. CASE pel[m] <= MaxDeliveries
    <3>1. pel[m] = 0 \/ pel[m] \in 1..MaxDeliveries
      BY <1>2, <2>2
    <3> QED
      BY <1>2, <1>5, <1>6, <1>8, <2>2, <3>1 DEF KillEntry
  <2>3. CASE Live(m)' = Live(m)
    BY <1>2, <1>8, <2>3 DEF KillEntry
  <2> QED
    BY <2>1, <2>2, <2>3
<1>10. pel[m] \in 1..MaxDeliveries => kills[m] + Cardinality(Busy(m)') + 0 <= pel[m] + faults'
  BY <1>2, <1>4, <1>6, <1>8 DEF KillEntry
<1>11. m > lastDelivered => kills[m] = 0
  BY DEF KillEntry
<1> QED
  BY <1>2, <1>6, <1>7, <1>8, <1>9, <1>10, <1>11 DEF KillEntry

\* A new entry is read: nobody was killed by it yet.
LEMMA KillRead ==
    ASSUME FullInv, FullInv', CountsMatter, NEW m \in Messages, KillEntry(m), m > lastDelivered,
           m <= lastDelivered', kills' = kills, m \notin idle', pel'[m] = 1, NEW c \in Consumers,
           \A d \in Consumers : task'[d][m] # "none" => d = c /\ task'[d][m] \in {"dlq", "waiting"}
    PROVE  KillEntry(m)'
<1>1. Claims(m)' = {} /\ Busy(m)' \subseteq {c} /\ Live(m)' \subseteq {c}
  BY DEF Claims, Busy, Live
<1>2. kills[m] = 0 /\ faults' \in Nat
  BY DEF KillEntry, FullInv, Inv, TypeOK, TypeHistory
<1>3. Cardinality({c}) = 1 /\ {c} \in SUBSET Consumers /\ Cardinality(Claims(m)') = 0
  BY <1>1, FS_Singleton, FS_EmptySet
<1>4. /\ Cardinality(Busy(m)') <= 1 /\ Cardinality(Live(m)') <= 1
      /\ Cardinality(Busy(m)') \in Nat /\ Cardinality(Live(m)') \in Nat
  BY <1>1, <1>3, ProcessesFinite
<1>5. ~(m > lastDelivered')
  BY DEF FullInv, Inv, TypeOK, TypeRedis, Messages
<1> QED
  BY <1>1, <1>2, <1>3, <1>4, <1>5 DEF KillEntry, CountsMatter, DeliveryCap

\* A handler kills the process: one coroutine less, one kill more.
LEMMA KillHappens ==
    ASSUME FullInv, FullInv', NEW m \in Messages, KillEntry(m), NEW c \in Live(m),
           kills'[m] = kills[m] + 1, faults' = faults, pel' = pel, idle' = idle,
           lastDelivered' = lastDelivered, Claims(m)' = Claims(m) \ {c},
           Busy(m)' = Busy(m) \ {c}, Live(m)' = Live(m) \ {c}
    PROVE  KillEntry(m)'
<1>1. /\ Live(m) \in SUBSET Consumers /\ Busy(m) \in SUBSET Consumers
      /\ Claims(m) \in SUBSET Consumers /\ c \in Busy(m) /\ c \notin Claims(m)
  BY DEF Live, Busy, Claims
<1>2. /\ kills[m] \in Nat /\ faults \in Nat /\ m \in Nat /\ lastDelivered \in Nat
      /\ pel[m] \in Nat
  BY DEF FullInv, Inv, TypeOK, TypeRedis, TypeHistory, Messages, DeliveryCap
<1>3. /\ Cardinality(Live(m)') = Cardinality(Live(m)) - 1
      /\ Cardinality(Busy(m)') = Cardinality(Busy(m)) - 1
  BY <1>1, ProcessesFinite, FS_RemoveElement
<1>4. Claims(m)' = Claims(m)
  BY <1>1
<1>5. /\ Cardinality(Live(m)) \in Nat /\ Cardinality(Busy(m)) \in Nat /\ Cardinality(Claims(m)) \in Nat
  BY CrowdSizes
<1>6. ~(m > lastDelivered)
  <2>1. m <= lastDelivered
    BY <1>1 DEF Live, FullInv, Inv, LossInv, TaskMeaning
  <2> QED
    BY <1>2, <2>1
<1>7. kills'[m] + Cardinality(Live(m)') = kills[m] + Cardinality(Live(m))
  BY <1>2, <1>3, <1>5
<1>8. kills'[m] + Cardinality(Busy(m)') = kills[m] + Cardinality(Busy(m))
  BY <1>2, <1>3, <1>5
<1> QED
  BY <1>4, <1>6, <1>7, <1>8 DEF KillEntry

\* Who handles what after a step of one coroutine ...
LEMMA CrowdsAfterStep ==
    ASSUME NEW m \in Messages,
           \A d \in Consumers, k \in Messages \ {m} : task'[d][k] = task[d][k]
    PROVE  \A k \in Messages \ {m} :
                 Live(k)' = Live(k) /\ Busy(k)' = Busy(k) /\ Claims(k)' = Claims(k)
BY DEF Live, Busy, Claims

\* ... and after a process has lost its coroutines.
LEMMA CrowdsWithout ==
    ASSUME FullInv, NEW c \in Consumers, task' = [task EXCEPT ![c] = NoTasks]
    PROVE  \A k \in Messages : /\ Live(k)' = Live(k) \ {c} /\ Busy(k)' = Busy(k) \ {c}
                               /\ Claims(k)' = Claims(k) \ {c}
BY DEF NoTasks, Live, Busy, Claims, FullInv, Inv, TypeOK, TypeTask

\* Time passing, and every step of run() but the deliveries and the triage.
LEMMA KillQuiet ==
    ASSUME FullInv, FullInv', KillInv, UNCHANGED <<task, pel, idle, kills>>,
           faults <= faults', lastDelivered <= lastDelivered'
    PROVE  KillInv'
<1>1. \A m \in Messages : Live(m)' = Live(m) /\ Busy(m)' = Busy(m) /\ Claims(m)' = Claims(m)
  BY DEF Live, Busy, Claims
<1> QED
  BY <1>1, KillFewer DEF KillInv

\* An entry becomes idle while its coroutines wait for a slot.
LEMMA KillIdle ==
    ASSUME FullInv, FullInv', CountsMatter, KillInv, NEW m \in Messages, BecomeIdle(m)
    PROVE  KillInv'
<1>1. /\ idle' = idle \cup {m}
      /\ UNCHANGED <<task, pel, kills, faults, lastDelivered>>
      /\ \A c \in Consumers : task[c][m] \in {"none", "waiting"}
  BY DEF BecomeIdle, Starved, CountsMatter
<1>2. \A k \in Messages : Live(k)' = Live(k) /\ Busy(k)' = Busy(k) /\ Claims(k)' = Claims(k)
  BY <1>1 DEF Live, Busy, Claims
<1>3. faults <= faults' /\ lastDelivered <= lastDelivered'
  BY <1>1 DEF FullInv, Inv, TypeOK, TypeRedis, TypeHistory
<1>4. ASSUME NEW k \in Messages \ {m} PROVE KillEntry(k)'
  BY <1>1, <1>2, <1>3, <1>4, KillFewer DEF KillInv
<1>5. Claims(m) = {} /\ Busy(m) = Live(m)
  BY <1>1 DEF Live, Busy, Claims
<1>6. KillEntry(m)'
  BY <1>1, <1>2, <1>5 DEF KillInv, KillEntry
<1> QED
  BY <1>4, <1>6 DEF KillInv

\* A process dies, with or without a kill.
LEMMA KillDies ==
    ASSUME FullInv, FullInv', KillInv, NEW c \in Consumers, Die(c),
           UNCHANGED <<pel, idle, lastDelivered>>,
           \/ kills' = kills /\ faults <= faults'
           \/ \E m \in Messages : /\ task[c][m] = "processing" /\ faults' = faults
                                  /\ kills' = [kills EXCEPT ![m] = @ + 1]
    PROVE  KillInv'
<1>1. \A k \in Messages : /\ Live(k)' = Live(k) \ {c} /\ Busy(k)' = Busy(k) \ {c}
                          /\ Claims(k)' = Claims(k) \ {c}
  BY CrowdsWithout DEF Die
<1>2. faults \in Nat /\ lastDelivered \in Nat /\ kills \in [Messages -> Nat]
  BY DEF FullInv, Inv, TypeOK, TypeRedis, TypeHistory
<1>3. CASE kills' = kills /\ faults <= faults'
  BY <1>1, <1>2, <1>3, KillFewer DEF KillInv
<1>4. ASSUME NEW m \in Messages, task[c][m] = "processing", faults' = faults,
             kills' = [kills EXCEPT ![m] = @ + 1]
      PROVE  KillInv'
  <2>1. c \in Live(m) /\ kills'[m] = kills[m] + 1 /\ \A k \in Messages \ {m} : kills'[k] = kills[k]
    BY <1>2, <1>4 DEF Live
  <2>2. KillEntry(m)'
    BY <1>1, <1>4, <2>1, KillHappens DEF KillInv
  <2>3. ASSUME NEW k \in Messages \ {m} PROVE KillEntry(k)'
    BY <1>1, <1>2, <1>4, <2>1, KillFewer DEF KillInv
  <2> QED
    BY <2>2, <2>3 DEF KillInv
<1> QED
  BY <1>3, <1>4

\* XAUTOCLAIM.
LEMMA KillXautoclaim ==
    ASSUME FullInv, FullInv', KillInv, NEW c \in Consumers, Xautoclaim(c), faults <= faults'
    PROVE  KillInv'
<1>1. PICK o \in Outcomes, B \in SUBSET Messages :
        /\ IsFirst(B, Reclaimable(c), BatchSize)
        /\ IF Ran(o) THEN Deliver(B) ELSE UNCHANGED <<pel, idle>>
        /\ IF Failed(o) THEN UNCHANGED task ELSE task' = [task EXCEPT ![c] = Claimed(B)]
  BY DEF Xautoclaim
<1>2. UNCHANGED <<kills, lastDelivered>> /\ lastDelivered \in Nat
  BY DEF Xautoclaim, FullInv, Inv, TypeOK, TypeRedis
<1>3. \A m \in Messages : task[c][m] = "none"
  BY DEF Xautoclaim, FullInv, Inv, LossInv, TaskPlace
<1>4. B \subseteq idle
  BY <1>1 DEF IsFirst, Reclaimable
<1>5. CASE ~Ran(o)
  <2>1. UNCHANGED <<task, pel, idle>>
    BY <1>1, <1>5 DEF Ran, Failed, Outcomes
  <2> QED
    BY <1>2, <2>1, KillQuiet
<1>6. CASE Ran(o)
  <2>1. /\ \A k \in Messages \ B : pel'[k] = pel[k] /\ (k \in idle' => k \in idle)
        /\ \A k \in B : /\ k \notin idle'
                        /\ pel'[k] = IF pel[k] < DeliveryCap THEN pel[k] + 1 ELSE pel[k]
    BY <1>1, <1>6 DEF Deliver, FullInv, Inv, TypeOK, TypeRedis
  <2>2. \A d \in Consumers, k \in Messages :
          \/ task'[d][k] = task[d][k]
          \/ d = c /\ k \in B /\ task'[d][k] \in {"claimed", "void"}
    BY <1>1, <1>3 DEF Claimed, FullInv, Inv, TypeOK, TypeTask
  <2>3. ASSUME NEW k \in Messages \ B PROVE KillEntry(k)'
    <3>1. Live(k)' = Live(k) /\ Busy(k)' = Busy(k) /\ Claims(k)' = Claims(k)
      BY <2>2, <2>3 DEF Live, Busy, Claims
    <3> QED
      BY <1>2, <2>1, <3>1, KillFewer DEF KillInv
  <2>4. ASSUME NEW k \in B PROVE KillEntry(k)'
    <3>1. k \in Messages /\ k \in idle /\ KillEntry(k)
      BY <1>4 DEF KillInv
    <3>2. Live(k)' = Live(k) /\ Busy(k)' = Busy(k)
      BY <1>3, <2>2, <3>1 DEF Live, Busy
    <3>3. \A d \in Consumers : task[d][k] \notin {"claimed", "void"}
      BY <3>1 DEF KillEntry, Claims
    <3>4. Claims(k)' = {} \/ Claims(k)' = {c}
      BY <2>2, <3>1, <3>3 DEF Claims
    <3> QED
      BY <1>2, <2>1, <3>1, <3>2, <3>4, KillClaimed
  <2> QED
    BY <2>3, <2>4 DEF KillInv
<1> QED
  BY <1>5, <1>6

\* XREADGROUP.
LEMMA KillXreadgroup ==
    ASSUME FullInv, FullInv', CountsMatter, KillInv, NEW c \in Consumers, Xreadgroup(c),
           faults <= faults'
    PROVE  KillInv'
<1>1. PICK o \in Outcomes, B \in SUBSET Messages :
        /\ IsFirst(B, Undelivered, BatchSize)
        /\ IF Ran(o) THEN Deliver(B) ELSE UNCHANGED <<pel, idle>>
        /\ IF Ran(o) /\ B # {}
             THEN lastDelivered' \in B /\ \A m \in B : m <= lastDelivered'
             ELSE UNCHANGED lastDelivered
        /\ IF Failed(o) THEN UNCHANGED task
           ELSE task' = [task EXCEPT ![c] =
                           [m \in Messages |-> IF m \in B THEN FirstTask(m) ELSE "none"]]
  BY DEF Xreadgroup
<1>2. kills' = kills
  BY DEF Xreadgroup
<1>3. \A m \in Messages : task[c][m] = "none"
  BY DEF Xreadgroup, FullInv, Inv, LossInv, TaskPlace
<1>4. \A m \in B : m > lastDelivered
  BY <1>1 DEF IsFirst, Undelivered
<1>5. lastDelivered <= lastDelivered'
  <2>1. lastDelivered \in Int /\ lastDelivered' \in Int
    BY DEF FullInv, Inv, TypeOK, TypeRedis
  <2> QED
    BY <1>1, <1>4, <2>1
<1>6. CASE ~Ran(o)
  <2>1. UNCHANGED <<task, pel, idle>>
    BY <1>1, <1>6 DEF Ran, Failed, Outcomes
  <2> QED
    BY <1>2, <1>5, <2>1, KillQuiet
<1>7. CASE Ran(o)
  <2>1. /\ \A k \in Messages \ B : pel'[k] = pel[k] /\ (k \in idle' => k \in idle)
        /\ \A k \in B : /\ k \notin idle'
                        /\ pel'[k] = IF pel[k] < DeliveryCap THEN pel[k] + 1 ELSE pel[k]
    BY <1>1, <1>7 DEF Deliver, FullInv, Inv, TypeOK, TypeRedis
  <2>2. \A d \in Consumers, k \in Messages :
          \/ task'[d][k] = task[d][k]
          \/ d = c /\ k \in B /\ task'[d][k] \in {"dlq", "waiting"}
    BY <1>1, <1>3, FirstTaskType DEF FullInv, Inv, TypeOK, TypeTask
  <2>3. ASSUME NEW k \in Messages \ B PROVE KillEntry(k)'
    <3>1. Live(k)' = Live(k) /\ Busy(k)' = Busy(k) /\ Claims(k)' = Claims(k)
      BY <2>2, <2>3 DEF Live, Busy, Claims
    <3> QED
      BY <1>2, <1>5, <2>1, <3>1, KillFewer DEF KillInv
  <2>4. ASSUME NEW k \in B PROVE KillEntry(k)'
    <3>1. k \in Messages /\ k > lastDelivered /\ k <= lastDelivered' /\ KillEntry(k)
      BY <1>1, <1>4, <1>7 DEF KillInv
    <3>2. k \in Int /\ lastDelivered \in Int
      BY <3>1 DEF FullInv, Inv, TypeOK, TypeRedis, Messages
    <3>3. \A d \in Consumers : task[d][k] = "none"
      BY <3>1, <3>2 DEF FullInv, Inv, LossInv, TaskMeaning
    <3>4. pel[k] \in 0..DeliveryCap /\ ~(pel[k] > 0)
      BY <3>1, <3>2 DEF FullInv, Inv, TypeOK, TypeRedis, LossInv, PelPlace
    <3>5. pel'[k] = 1
      BY <2>1, <3>4 DEF DeliveryCap
    <3>6. \A d \in Consumers : task'[d][k] # "none" => d = c /\ task'[d][k] \in {"dlq", "waiting"}
      BY <2>2, <3>1, <3>3
    <3> QED
      BY <1>2, <2>1, <3>1, <3>5, <3>6, KillRead
  <2> QED
    BY <2>3, <2>4 DEF KillInv
<1> QED
  BY <1>6, <1>7

\* XACK by a process that holds the entry, whatever becomes of the answer.
LEMMA KillXack ==
    ASSUME FullInv, FullInv', KillInv, NEW m \in Messages, NEW o \in Outcomes, Xack(m, o),
           UNCHANGED <<kills, lastDelivered>>,
           \A k \in Messages : /\ Live(k)' \subseteq Live(k) /\ Busy(k)' \subseteq Busy(k)
                               /\ Claims(k)' \subseteq Claims(k),
           \/ Failed(o)
           \/ \E c \in Busy(m) : c \notin Live(m)'
           \/ Claims(m)' = {}
    PROVE  KillInv'
<1>1. faults \in Nat /\ lastDelivered \in Nat /\ idle \subseteq Messages
  BY DEF FullInv, Inv, TypeOK, TypeRedis, TypeHistory
<1>2. faults <= faults' /\ (Failed(o) => faults < faults')
  BY <1>1 DEF Xack, Outcome, Disturb, Failed
<1>3. CASE UNCHANGED <<pel, idle>>
  BY <1>1, <1>2, <1>3, KillFewer DEF KillInv
<1>4. CASE Settle(m)
  <2>1. /\ pel'[m] = 0 /\ m \notin idle'
        /\ \A k \in Messages \ {m} : pel'[k] = pel[k] /\ (k \in idle' => k \in idle)
    BY <1>4 DEF Settle, FullInv, Inv, TypeOK, TypeRedis
  <2>2. KillEntry(m)'
    BY <1>1, <1>2, <2>1, KillSettled DEF KillInv
  <2>3. ASSUME NEW k \in Messages \ {m} PROVE KillEntry(k)'
    BY <1>1, <1>2, <2>1, KillFewer DEF KillInv
  <2> QED
    BY <2>2, <2>3 DEF KillInv
<1> QED
  BY <1>3, <1>4 DEF Xack

\* The ACK of a trimmed entry.
LEMMA KillTriageVoid ==
    ASSUME FullInv, FullInv', KillInv, NEW c \in Consumers, NEW m \in Messages, TriageVoid(c, m)
    PROVE  KillInv'
<1>1. PICK o \in Outcomes :
        /\ Xack(m, o)
        /\ IF Failed(o) THEN task' = [task EXCEPT ![c] = NoTasks]
                        ELSE task' = [task EXCEPT ![c][m] = "none"]
  BY DEF TriageVoid
<1>2. UNCHANGED <<kills, lastDelivered>> /\ task[c][m] = "void"
  BY DEF TriageVoid
<1>3. CASE Failed(o)
  <2>1. \A k \in Messages : /\ Live(k)' \subseteq Live(k) /\ Busy(k)' \subseteq Busy(k)
                            /\ Claims(k)' \subseteq Claims(k)
    BY <1>1, <1>3, CrowdsWithout
  <2> QED
    BY <1>1, <1>2, <1>3, <2>1, KillXack
<1>4. CASE ~Failed(o)
  <2>0. \A d \in Consumers, k \in Messages :
          task'[d][k] = IF d = c /\ k = m THEN "none" ELSE task[d][k]
    BY <1>1, <1>4 DEF FullInv, Inv, TypeOK, TypeTask
  <2>1. \A k \in Messages \ {m} :
          Live(k)' = Live(k) /\ Busy(k)' = Busy(k) /\ Claims(k)' = Claims(k)
    BY <2>0, CrowdsAfterStep
  <2>2. Live(m)' = Live(m) /\ Busy(m)' = Busy(m) /\ Claims(m)' = Claims(m) \ {c} /\ c \in Claims(m)
    BY <1>2, <2>0 DEF Live, Busy, Claims
  <2>3. Claims(m)' = {}
    <3>1. Cardinality(Claims(m)) <= 1 /\ Claims(m) \in SUBSET Consumers
      BY <2>2 DEF KillInv, KillEntry, Claims
    <3>2. IsFiniteSet(Claims(m)) /\ IsFiniteSet(Claims(m)')
      BY <2>2, <3>1, ProcessesFinite
    <3>3. Cardinality(Claims(m)') = Cardinality(Claims(m)) - 1
      BY <2>2, <3>2, FS_RemoveElement
    <3>4. Cardinality(Claims(m)) \in Nat /\ Cardinality(Claims(m)') \in Nat
      BY <3>2, FS_CardinalityType
    <3>5. Cardinality(Claims(m)') = 0
      BY <3>1, <3>3, <3>4
    <3> QED
      BY <3>2, <3>5, FS_EmptySet
  <2>4. \A k \in Messages : /\ Live(k)' \subseteq Live(k) /\ Busy(k)' \subseteq Busy(k)
                            /\ Claims(k)' \subseteq Claims(k)
    BY <2>1, <2>2
  <2> QED
    BY <1>1, <1>2, <2>3, <2>4, KillXack
<1> QED
  BY <1>3, <1>4

\* The delivery count of a claimed entry is looked at, or can not be told.
LEMMA KillTriageClaimed ==
    ASSUME FullInv, FullInv', KillInv, NEW c \in Consumers, NEW m \in Messages, TriageClaimed(c, m)
    PROVE  KillInv'
<1>1. PICK known \in BOOLEAN :
        /\ IF known THEN UNCHANGED faults ELSE Disturb
        /\ task' = [task EXCEPT ![c][m] = IF known /\ OverLimit(m) THEN "dlq" ELSE FirstTask(m)]
  BY DEF TriageClaimed
<1> DEFINE t == IF known /\ OverLimit(m) THEN "dlq" ELSE FirstTask(m)
<1>2. UNCHANGED <<kills, lastDelivered, pel, idle>> /\ task[c][m] = "claimed"
  BY DEF TriageClaimed
<1>3. t \in {"dlq", "waiting"} /\ t \in TaskStates /\ task' = [task EXCEPT ![c][m] = t]
  BY <1>1, FirstTaskType DEF TaskStates
<1>a. faults' = faults + 1 \/ ~OverLimit(m) \/ t = "dlq"
  BY <1>1 DEF Disturb
<1> HIDE DEF t
<1>4. \A d \in Consumers, k \in Messages :
        task'[d][k] = IF d = c /\ k = m THEN t ELSE task[d][k]
  BY <1>3 DEF FullInv, Inv, TypeOK, TypeTask
<1>b. \A k \in Messages \ {m} :
        Live(k)' = Live(k) /\ Busy(k)' = Busy(k) /\ Claims(k)' = Claims(k)
  BY <1>4, CrowdsAfterStep
<1>5. /\ faults \in Nat /\ lastDelivered \in Nat /\ faults' \in {faults, faults + 1}
      /\ faults <= faults' /\ pel[m] \in 0..DeliveryCap
  BY <1>1 DEF Disturb, FullInv, Inv, TypeOK, TypeRedis, TypeHistory
<1>6. ASSUME NEW k \in Messages \ {m} PROVE KillEntry(k)'
  BY <1>2, <1>5, <1>b, KillFewer DEF KillInv
<1>7. faults' = faults + 1 \/ pel[m] <= MaxDeliveries \/ t = "dlq"
  BY <1>5, <1>a DEF OverLimit, DeliveryCap
<1>8. /\ c \in Claims(m) /\ Claims(m)' = Claims(m) \ {c} /\ Busy(m)' = Busy(m) \cup {c}
      /\ Live(m)' \subseteq Live(m) \cup {c} /\ (t = "dlq" => Live(m)' = Live(m))
  BY <1>2, <1>3, <1>4 DEF Live, Busy, Claims
<1>9. KillEntry(m)'
  BY <1>2, <1>5, <1>7, <1>8, KillTriaged DEF KillInv
<1> QED
  BY <1>6, <1>9 DEF KillInv

\* A step of a coroutine.
LEMMA KillTask ==
    ASSUME FullInv, FullInv', KillInv, NEW c \in Consumers, NEW m \in Messages, TaskStep(c, m),
           faults <= faults'
    PROVE  KillInv'
<1>0. lastDelivered \in Nat /\ faults \in Nat
  BY DEF FullInv, Inv, TypeOK, TypeRedis, TypeHistory
<1>1. CASE ProcessKills(c, m)
  BY <1>1, KillDies DEF ProcessKills, InTask
<1>2. ASSUME NEW t \in TaskStates, task' = [task EXCEPT ![c][m] = t],
             task[c][m] \notin {"none", "claimed", "void"}, t \notin {"claimed", "void"},
             task[c][m] \in {"dlq", "dlqack"} => t \in {"none", "dlq", "dlqack"}
      PROVE  \A k \in Messages : /\ Live(k)' \subseteq Live(k) /\ Busy(k)' \subseteq Busy(k)
                                 /\ Claims(k)' \subseteq Claims(k)
  <2>0. \A d \in Consumers, k \in Messages :
          task'[d][k] = IF d = c /\ k = m THEN t ELSE task[d][k]
    BY <1>2 DEF FullInv, Inv, TypeOK, TypeTask
  <2>1. \A k \in Messages \ {m} :
          Live(k)' = Live(k) /\ Busy(k)' = Busy(k) /\ Claims(k)' = Claims(k)
    BY <2>0, CrowdsAfterStep
  <2>2. Live(m)' \subseteq Live(m) /\ Busy(m)' \subseteq Busy(m) /\ Claims(m)' \subseteq Claims(m)
    <3>1. task[c][m] \in TaskStates
      BY DEF FullInv, Inv, TypeOK, TypeTask
    <3> QED
      BY <1>2, <2>0, <3>1 DEF Live, Busy, Claims, TaskStates
  <2> QED
    BY <2>1, <2>2
<1>3. CASE \/ AcquireSlot(c, m) \/ ProcessOk(c, m) \/ ProcessFails(c, m)
           \/ ProcessNonRetryable(c, m) \/ Wake(c, m) \/ SendToDlq(c, m)
  <2>1. PICK t \in {"processing", "acking", "sleeping", "dlq", "waiting", "dlqack", "none"} :
          /\ task' = [task EXCEPT ![c][m] = t]
          /\ task[c][m] \in {"waiting", "processing", "sleeping", "dlq"}
          /\ task[c][m] = "dlq" => t \in {"none", "dlqack"}
    BY <1>3, NextTaskStates DEF AcquireSlot, ProcessOk, ProcessFails, ProcessNonRetryable, Wake,
          SendToDlq, InTask, TaskTo
  <2>2. UNCHANGED <<pel, idle, kills, lastDelivered>>
    BY <1>3 DEF AcquireSlot, ProcessOk, ProcessFails, ProcessNonRetryable, Wake, SendToDlq
  <2>3. \A k \in Messages : /\ Live(k)' \subseteq Live(k) /\ Busy(k)' \subseteq Busy(k)
                            /\ Claims(k)' \subseteq Claims(k)
    BY <1>2, <2>1 DEF TaskStates
  <2> QED
    BY <1>0, <2>2, <2>3, KillFewer DEF KillInv
<1>4. CASE XackProcessed(c, m) \/ XackDead(c, m)
  <2>1. PICK o \in Outcomes, t \in {"none", "sleeping", "dlq"} :
          /\ Xack(m, o) /\ task' = [task EXCEPT ![c][m] = t]
          /\ task[c][m] \in {"acking", "dlqack"}
          /\ task[c][m] = "dlqack" => t = "none"
          /\ Failed(o) \/ t = "none"
    BY <1>4, NextTaskStates DEF XackProcessed, XackDead, AfterAck, InTask, TaskTo
  <2>2. UNCHANGED <<kills, lastDelivered>>
    BY <1>4 DEF XackProcessed, XackDead
  <2>3. \A k \in Messages : /\ Live(k)' \subseteq Live(k) /\ Busy(k)' \subseteq Busy(k)
                            /\ Claims(k)' \subseteq Claims(k)
    BY <1>2, <2>1 DEF TaskStates
  <2>4. Failed(o) \/ (c \in Busy(m) /\ c \notin Live(m)')
    <3>1. \A d \in Consumers : task'[d][m] = IF d = c THEN t ELSE task[d][m]
      BY <2>1 DEF FullInv, Inv, TypeOK, TypeTask
    <3> QED
      BY <2>1, <3>1 DEF Busy, Live
  <2> QED
    BY <2>1, <2>2, <2>3, <2>4, KillXack
<1> QED
  BY <1>1, <1>3, <1>4 DEF TaskStep

\* Every step keeps the account of deliveries, coroutines and kills.
LEMMA KillNext ==
    ASSUME FullInv, FullInv', CountsMatter, KillInv, [Next]_vars PROVE KillInv'
<1>0. faults <= faults' /\ lastDelivered \in Nat
  BY HistoryGrows DEF FullInv, Inv, TypeOK, TypeRedis, TypeHistory
<1>1. CASE Xadd \/ UNCHANGED vars
  BY <1>0, <1>1, KillQuiet DEF Xadd, vars
<1>2. ASSUME NEW m \in Messages, BecomeIdle(m) PROVE KillInv'
  BY <1>2, KillIdle
<1>3. ASSUME NEW c \in Consumers, Start(c) \/ IntervalElapses(c) \/ Stop(c) PROVE KillInv'
  <2>1. lastDelivered <= lastDelivered'
    BY <1>0, <1>3 DEF Start, EnsureConsumerGroup, GroupStart, IntervalElapses, Stop, FullInv, Inv,
          TypeOK, TypeRedis, LossInv, PelPlace
  <2>2. UNCHANGED <<task, pel, idle, kills>>
    BY <1>3 DEF Start, IntervalElapses, Stop
  <2> QED
    BY <1>0, <2>1, <2>2, KillQuiet
<1>4. ASSUME NEW c \in Consumers, Crash(c) PROVE KillInv'
  BY <1>0, <1>4, KillDies DEF Crash
<1>5. ASSUME NEW c \in Consumers, LoopStep(c) PROVE KillInv'
  <2>1. CASE LoopTop(c) \/ ScanStopped(c) \/ TriageDone(c) \/ ReclaimDone(c) \/ ReadDone(c)
    <3>1. UNCHANGED <<task, pel, idle, kills, lastDelivered>>
      BY <2>1 DEF LoopTop, ScanStopped, TriageDone, ReclaimDone, ReadDone
    <3> QED
      BY <1>0, <3>1, KillQuiet
  <2> QED
    BY <1>0, <1>5, <2>1, KillXautoclaim, KillXreadgroup, KillTriageVoid, KillTriageClaimed DEF LoopStep
<1>6. ASSUME NEW c \in Consumers, NEW m \in Messages, TaskStep(c, m) PROVE KillInv'
  BY <1>0, <1>6, KillTask
<1> QED
  BY <1>1, <1>2, <1>3, <1>4, <1>5, <1>6 DEF Next

-----------------------------------------------------------------------------
(* Theorems *)

\* What the three results need together.
HandlerInv ==
    /\ FullInv /\ BatchFits
    /\ WellConfigured => OneCoroutine /\ CalmInv
    /\ CountsMatter => KillInv

\* Nobody handles anything in an initial state.
LEMMA InitHandlers == Init => HandlerInv
<1> SUFFICES ASSUME Init PROVE HandlerInv
  OBVIOUS
<1>1. FullInv
  BY InitFull
<1>2. \A c \in Consumers, m \in Messages : task[c][m] = "none"
  BY DEF Init, NoTasks
<1>3. BatchFits
  <2>1. \A c \in Consumers : Active(c) = {}
    BY <1>2 DEF Active
  <2> QED
    BY <2>1, FS_EmptySet DEF BatchFits
<1>4. OneCoroutine
  BY <1>2 DEF OneCoroutine
<1>5. CalmInv
  BY <1>2 DEF Init, CalmInv, CalmEntry
<1>6. KillInv
  <2>1. \A m \in Messages : Live(m) = {} /\ Busy(m) = {} /\ Claims(m) = {}
    BY <1>2 DEF Live, Busy, Claims
  <2>2. Cardinality({}) = 0
    BY FS_EmptySet
  <2> QED
    BY <2>1, <2>2 DEF Init, KillInv, KillEntry, DeliveryCap
<1> QED
  BY <1>1, <1>3, <1>4, <1>5, <1>6 DEF HandlerInv

\* Every step keeps it.
LEMMA NextHandlers == HandlerInv /\ [Next]_vars => HandlerInv'
<1> SUFFICES ASSUME HandlerInv, [Next]_vars PROVE HandlerInv'
  OBVIOUS
<1>1. FullInv /\ FullInv' /\ BatchFits
  BY NextFull DEF HandlerInv
<1>2. BatchFits'
  BY <1>1, BatchFitsNext
<1>3. WellConfigured => OneCoroutine' /\ CalmInv'
  BY <1>1, OneCoroutineNext, CalmNext DEF HandlerInv
<1>4. CountsMatter => KillInv'
  BY <1>1, KillNext DEF HandlerInv
<1>5. WellConfigured' = WellConfigured /\ CountsMatter' = CountsMatter
  BY DEF WellConfigured, CountsMatter
<1> QED
  BY <1>1, <1>2, <1>3, <1>4, <1>5 DEF HandlerInv

\* The invariant holds in every reachable state.
THEOREM HandlerInvariance == Spec => []HandlerInv
BY InitHandlers, NextHandlers, PTL DEF Spec

\* No message is handled by two processes at the same time, for any number of
\* processes, as long as reclaim_idle_ms exceeds the handling time and a batch fits
\* the semaphore.
THEOREM ExclusiveHandling == Spec => []OneHandlerAtATime
<1>1. HandlerInv => OneHandlerAtATime
  BY DEF HandlerInv, WellConfigured, OneCoroutine, OneHandlerAtATime
<1> QED
  BY <1>1, HandlerInvariance, PTL

\* A message kills the process at most max_deliveries times, plus once for each
\* fault, for any number of processes: as long as no entry is claimed from a live
\* handler and max_deliveries is not 0.
THEOREM KillsAreBounded == Spec => [](~SlowHandlers /\ MaxDeliveries > 0 => KillsBounded)
<1>1. HandlerInv => (~SlowHandlers /\ MaxDeliveries > 0 => KillsBounded)
  <2> SUFFICES ASSUME HandlerInv, CountsMatter, NEW m \in Messages
               PROVE  kills[m] <= MaxDeliveries + faults
    BY DEF CountsMatter, KillsBounded
  <2>1. kills[m] + Cardinality(Live(m)) <= MaxDeliveries + faults
    BY DEF HandlerInv, KillInv, KillEntry
  <2>2. kills[m] \in Nat /\ faults \in Nat /\ Cardinality(Live(m)) \in Nat
    BY CrowdSizes DEF HandlerInv, FullInv, Inv, TypeOK, TypeHistory
  <2> QED
    BY <2>1, <2>2
<1> QED
  BY <1>1, HandlerInvariance, PTL

\* While no call failed and no process died, no message is both processed and in
\* the DLQ, in a group that is configured for exclusive handling.
THEOREM CalmRunsAreExact ==
    Spec => [](~SlowHandlers /\ BatchSize <= Concurrency => AppliedNotDead)
<1>1. HandlerInv => (~SlowHandlers /\ BatchSize <= Concurrency => AppliedNotDead)
  <2> SUFFICES ASSUME HandlerInv, WellConfigured, Calm PROVE applied \cap dead = {}
    BY DEF WellConfigured, Calm, AppliedNotDead
  <2>1. \A m \in Messages : ~(m \in applied /\ m \in dead)
    BY DEF HandlerInv, CalmInv, CalmEntry
  <2>2. applied \subseteq Messages
    BY DEF HandlerInv, FullInv, Inv, TypeOK, TypeHistory
  <2> QED
    BY <2>1, <2>2
<1> QED
  BY <1>1, HandlerInvariance, PTL
=============================================================================
