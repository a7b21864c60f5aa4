------------------------- MODULE EventProducerProofs -------------------------
(* Proofs about EventProducer: what is in the stream after any sequence of    *)
(* emits, retries, late XADDs and pipelines, for every number of callers,     *)
(* events, retries and faults.                                                *)
EXTENDS EventProducer, FiniteSetTheorems, SequenceTheorems, TLAPS

-----------------------------------------------------------------------------
(* The inductive invariant *)

Entry == Callers \X Events
Elements(s) == {s[i] : i \in 1..Len(s)}
Published == Elements(stream)

\* The entries no fault has to account for: those whose XADD was answered and
\* those of a pipeline.
Free == {x \in Published : results[x[1]][x[2]] \in {"id", "queued"}}

\* An XADD of the event was sent.
Sent(c, e) ==
    <<c, e>> \in Published \/ \E a \in 1..(Retries + 1) : <<c, e, a>> \in late

\* A caller sends only the event it is at, and its results are of those before.
OneByOne ==
    /\ \A c \in Callers : pc[c] # "idle" => next[c] <= N
    /\ \A c \in Callers, e \in Events : e >= next[c] => results[c][e] = "none"
    /\ \A c \in Callers, e \in Events :
          Sent(c, e) => e < next[c] \/ (e = next[c] /\ pc[c] # "idle")

\* A retry comes before the last attempt.
Attempts == \A c \in Callers : pc[c] = "sleeping" => attempt[c] <= Retries

\* What waits in a pipeline was emitted into it and is sent nowhere else.
Pipes ==
    \A c \in Callers :
        /\ \A i \in 1..Len(pipe[c]) :
              /\ pipe[c][i] \in Events /\ pipe[c][i] < next[c]
              /\ results[c][pipe[c][i]] = "queued" /\ ~Sent(c, pipe[c][i])
        /\ \A i, j \in 1..Len(pipe[c]) : pipe[c][i] = pipe[c][j] => i = j

Answers ==
    \A c \in Callers, e \in Events : results[c][e] = "id" => <<c, e>> \in Published

\* Every entry that is not free, run or still to run, is that of a failed call.
Counted == IsFiniteSet(late) /\ Len(stream) + Cardinality(late) <= faults + Cardinality(Free)

EmitInv == TypeOK /\ OneByOne /\ Attempts /\ Pipes /\ Answers /\ Counted

-----------------------------------------------------------------------------
(* Entries of the stream *)

\* What an XADD does to the entries
LEMMA AppendIs ==
    ASSUME NEW s \in Seq(Entry), NEW x \in Entry
    PROVE  /\ Append(s, x) \in Seq(Entry) /\ Len(Append(s, x)) = Len(s) + 1
           /\ Elements(Append(s, x)) = Elements(s) \cup {x}
<1>1. /\ Append(s, x) \in Seq(Entry) /\ Len(Append(s, x)) = Len(s) + 1
      /\ \A i \in 1..Len(s) : Append(s, x)[i] = s[i]
      /\ Append(s, x)[Len(s) + 1] = x
  BY AppendProperties
<1>2. Len(s) \in Nat
  BY LenProperties
<1>3. 1..(Len(s) + 1) = 1..Len(s) \cup {Len(s) + 1}
  BY <1>2
<1> QED
  BY <1>1, <1>2, <1>3 DEF Elements

\* What a pipeline does to them
LEMMA ConcatIs ==
    ASSUME NEW s \in Seq(Entry), NEW t \in Seq(Entry)
    PROVE  /\ s \o t \in Seq(Entry) /\ Len(s \o t) = Len(s) + Len(t)
           /\ Elements(s \o t) = Elements(s) \cup Elements(t)
<1>1. /\ s \o t \in Seq(Entry) /\ Len(s \o t) = Len(s) + Len(t)
      /\ \A i \in 1..(Len(s) + Len(t)) :
            (s \o t)[i] = IF i <= Len(s) THEN s[i] ELSE t[i - Len(s)]
  BY ConcatProperties
<1>2. Len(s) \in Nat /\ Len(t) \in Nat
  BY LenProperties
<1>3. \A i \in 1..(Len(s) + Len(t)) : (s \o t)[i] \in Elements(s) \cup Elements(t)
  <2> TAKE i \in 1..(Len(s) + Len(t))
  <2>1. i <= Len(s) => i \in 1..Len(s)
    BY <1>2
  <2>2. ~(i <= Len(s)) => i - Len(s) \in 1..Len(t)
    BY <1>2
  <2> QED
    BY <1>1, <2>1, <2>2 DEF Elements
<1>4. \A i \in 1..Len(s) : s[i] \in Elements(s \o t)
  <2> TAKE i \in 1..Len(s)
  <2>1. i \in 1..(Len(s) + Len(t)) /\ i <= Len(s)
    BY <1>2
  <2> QED
    BY <1>1, <2>1 DEF Elements
<1>5. \A i \in 1..Len(t) : t[i] \in Elements(s \o t)
  <2> TAKE i \in 1..Len(t)
  <2>1. /\ Len(s) + i \in 1..(Len(s) + Len(t)) /\ ~(Len(s) + i <= Len(s))
        /\ (Len(s) + i) - Len(s) = i
    BY <1>2
  <2>2. (s \o t)[Len(s) + i] = t[i]
    BY <1>1, <2>1
  <2> QED
    BY <1>1, <2>1, <2>2 DEF Elements
<1> QED
  BY <1>1, <1>3, <1>4, <1>5 DEF Elements

\* As many entries as places at most, and as many where none is twice
LEMMA ElementsAreFinite ==
    ASSUME NEW s \in Seq(Entry)
    PROVE  /\ IsFiniteSet(Elements(s)) /\ Elements(s) \subseteq Entry
           /\ (\A i, j \in 1..Len(s) : s[i] = s[j] => i = j) => Cardinality(Elements(s)) = Len(s)
<1> DEFINE f == [i \in 1..Len(s) |-> s[i]]
<1>1. Len(s) \in Nat /\ \A i \in 1..Len(s) : s[i] \in Entry
  BY LenProperties, ElementOfSeq
<1>2. IsFiniteSet(1..Len(s)) /\ Cardinality(1..Len(s)) = Len(s)
  <2>1. 1 \in Int /\ Len(s) \in Int
    BY <1>1
  <2>2. /\ IsFiniteSet(1..Len(s))
        /\ Cardinality(1..Len(s)) = IF 1 > Len(s) THEN 0 ELSE Len(s) - 1 + 1
    BY <2>1, FS_Interval
  <2> QED
    BY <1>1, <2>2
<1>3. f \in Surjection(1..Len(s), Elements(s))
  BY DEF Surjection, Elements
<1>4. ASSUME \A i, j \in 1..Len(s) : s[i] = s[j] => i = j
      PROVE  f \in Injection(1..Len(s), Elements(s))
  BY <1>4 DEF Injection, IsInjective, Elements
<1> HIDE DEF f
<1>5. /\ IsFiniteSet(Elements(s))
      /\ f \in Injection(1..Len(s), Elements(s)) => Cardinality(Elements(s)) = Len(s)
  BY <1>2, <1>3, FS_Surjection
<1>6. Elements(s) \subseteq Entry
  BY <1>1 DEF Elements
<1> QED
  BY <1>4, <1>5, <1>6

\* The stream has finitely many entries, and the free ones are among them.
LEMMA FreeIsFinite ==
    ASSUME TypeOK
    PROVE  /\ IsFiniteSet(Published) /\ IsFiniteSet(Free) /\ Published \subseteq Entry
           /\ Len(stream) \in Nat /\ Cardinality(Published) \in Nat /\ Cardinality(Free) \in Nat
           /\ Cardinality(Free) <= Cardinality(Published)
<1>1. stream \in Seq(Entry)
  BY DEF TypeOK, Entry
<1>2. IsFiniteSet(Published) /\ Published \subseteq Entry
  BY <1>1, ElementsAreFinite DEF Published
<1>3. Free \in SUBSET Published
  BY DEF Free
<1> QED
  BY <1>1, <1>2, <1>3, FS_Subset, FS_CardinalityType, LenProperties

\* What is counted is a number.
LEMMA Tally ==
    ASSUME EmitInv
    PROVE  /\ Len(stream) \in Nat /\ Cardinality(Free) \in Nat /\ Cardinality(late) \in Nat
           /\ faults \in Nat /\ IsFiniteSet(late)
           /\ Len(stream) + Cardinality(late) <= faults + Cardinality(Free)
<1>1. TypeOK /\ Counted
  BY DEF EmitInv
<1>2. faults \in Nat
  BY <1>1, ProducerAssumption DEF TypeOK
<1>3. IsFiniteSet(late) /\ Len(stream) + Cardinality(late) <= faults + Cardinality(Free)
  BY <1>1 DEF Counted
<1>4. Cardinality(late) \in Nat
  BY <1>3, FS_CardinalityType
<1> QED
  BY <1>1, <1>2, <1>3, <1>4, FreeIsFinite

-----------------------------------------------------------------------------
(* Steps of a caller *)

\* Nothing was emitted at first.
LEMMA EmitInit == Init => EmitInv
<1> SUFFICES ASSUME Init PROVE EmitInv
  OBVIOUS
<1> USE ProducerAssumption
<1>1. TypeOK
  <2>1. mayRunLate \in BOOLEAN
    BY Zenon DEF Init
  <2> QED
    BY <2>1 DEF Init, TypeOK, Modes, Events
<1>2. Published = {} /\ Len(stream) = 0
  BY DEF Init, Published, Elements
<1>3. Free = {} /\ late = {} /\ faults = 0
  BY <1>2 DEF Init, Free
<1>4. Counted
  BY <1>2, <1>3, FS_EmptySet DEF Counted
<1>5. OneByOne /\ Attempts /\ Pipes /\ Answers
  BY <1>2, <1>3 DEF Init, OneByOne, Attempts, Pipes, Answers, Sent, Events
<1> QED
  BY <1>1, <1>4, <1>5 DEF EmitInv

\* What the caller of emit is left with
LEMMA ReturnIs ==
    ASSUME TypeOK, NEW c \in Callers, next[c] \in Events, NEW r, Return(c, r),
           r \in {"id", "raised", "null", "queued"}
    PROVE  /\ next' \in [Callers -> 1..(N + 1)]
           /\ pc' \in [Callers -> {"idle", "sending", "sleeping"}]
           /\ results' \in [Callers -> [Events -> {"none", "id", "raised", "null", "queued"}]]
           /\ next'[c] = next[c] + 1 /\ \A d \in Callers : d # c => next'[d] = next[d]
           /\ pc'[c] = "idle" /\ \A d \in Callers : d # c => pc'[d] = pc[d]
           /\ \A d \in Callers, e \in Events :
                 results'[d][e] = IF d = c /\ e = next[c] THEN r ELSE results[d][e]
BY ProducerAssumption DEF TypeOK, Return, Events

\* A step of a caller that sends the event it is at, and no other, and emits
\* nothing into a pipeline.
LEMMA CallerKeeps ==
    ASSUME EmitInv, NEW c \in Callers, next[c] \in Events, pipe' = pipe,
           \A d \in Callers, e \in Events : Sent(d, e)' => Sent(d, e) \/ (d = c /\ e = next[c]),
           Published \subseteq Published',
           \/ /\ next' = next /\ results' = results
              /\ pc'[c] # "idle" /\ \A d \in Callers : d # c => pc'[d] = pc[d]
           \/ \E r \in {"id", "raised", "null"} :
                 Return(c, r) /\ (r = "id" => <<c, next[c]>> \in Published')
    PROVE  OneByOne' /\ Pipes' /\ Answers'
<1>1. TypeOK /\ OneByOne /\ Pipes /\ Answers
  BY DEF EmitInv
<1>2. next \in [Callers -> 1..(N + 1)] /\ N \in Nat
  BY <1>1, ProducerAssumption DEF TypeOK
<1>3. CASE /\ next' = next /\ results' = results
           /\ pc'[c] # "idle" /\ \A d \in Callers : d # c => pc'[d] = pc[d]
  <2>1. OneByOne'
    BY <1>1, <1>2, <1>3 DEF OneByOne, Events
  <2>2. Pipes'
    <3> SUFFICES ASSUME NEW d \in Callers, NEW i \in 1..Len(pipe[d]) PROVE ~Sent(d, pipe[d][i])'
      BY <1>1, <1>3 DEF Pipes
    <3>1. pipe[d][i] \in Events /\ pipe[d][i] < next[d] /\ ~Sent(d, pipe[d][i])
      BY <1>1 DEF Pipes
    <3>2. ~(d = c /\ pipe[d][i] = next[c])
      BY <1>2, <3>1 DEF Events
    <3> QED
      BY <3>1, <3>2
  <2> QED
    BY <1>1, <1>3, <2>1, <2>2 DEF Answers
<1>4. ASSUME NEW r \in {"id", "raised", "null"},
             Return(c, r), r = "id" => <<c, next[c]>> \in Published'
      PROVE  OneByOne' /\ Pipes' /\ Answers'
  <2>1. /\ next'[c] = next[c] + 1 /\ \A d \in Callers : d # c => next'[d] = next[d]
        /\ pc'[c] = "idle" /\ \A d \in Callers : d # c => pc'[d] = pc[d]
        /\ \A d \in Callers, e \in Events :
              results'[d][e] = IF d = c /\ e = next[c] THEN r ELSE results[d][e]
    BY <1>1, <1>4, ReturnIs
  <2>2. OneByOne'
    BY <1>1, <1>2, <2>1 DEF OneByOne, Events
  <2>3. Pipes'
    <3> SUFFICES ASSUME NEW d \in Callers, NEW i \in 1..Len(pipe[d])
                 PROVE  /\ pipe[d][i] < next'[d] /\ results'[d][pipe[d][i]] = "queued"
                        /\ ~Sent(d, pipe[d][i])'
      BY <1>1 DEF Pipes
    <3>1. /\ pipe[d][i] \in Events /\ pipe[d][i] < next[d] /\ ~Sent(d, pipe[d][i])
          /\ results[d][pipe[d][i]] = "queued"
      BY <1>1 DEF Pipes
    <3>2. ~(d = c /\ pipe[d][i] = next[c])
      BY <1>2, <3>1 DEF Events
    <3> QED
      BY <1>2, <2>1, <3>1, <3>2 DEF Events
  <2>4. Answers'
    BY <1>1, <1>4, <2>1 DEF Answers
  <2> QED
    BY <2>2, <2>3, <2>4
<1> QED
  BY <1>3, <1>4

\* A caller that sends is at one of its events.
LEMMA AtEvent ==
    ASSUME EmitInv, NEW c \in Callers, pc[c] # "idle"
    PROVE  next[c] \in Events /\ <<c, next[c]>> \in Entry
BY ProducerAssumption DEF EmitInv, TypeOK, OneByOne, Events, Entry

\* Which entries are free once emit has returned
LEMMA ReturnFrees ==
    ASSUME EmitInv, NEW c \in Callers, next[c] \in Events, NEW r, Return(c, r),
           r \in {"id", "raised", "null", "queued"}, NEW y \in Entry
    PROVE  results'[y[1]][y[2]] \in {"id", "queued"} <=>
              \/ results[y[1]][y[2]] \in {"id", "queued"}
              \/ y = <<c, next[c]>> /\ r \in {"id", "queued"}
<1>1. PICK d \in Callers, e \in Events : y = <<d, e>>
  BY DEF Entry
<1>2. results'[d][e] = IF d = c /\ e = next[c] THEN r ELSE results[d][e]
  BY ReturnIs DEF EmitInv
<1>3. results[c][next[c]] = "none"
  BY ProducerAssumption DEF EmitInv, OneByOne, TypeOK, Events
<1> QED
  BY <1>1, <1>2, <1>3

\* emit begins: its event was not sent yet, and a pipeline holds it once.
LEMMA EmitKeeps ==
    ASSUME EmitInv, NEW c \in Callers, Emit(c) PROVE EmitInv'
<1> USE ProducerAssumption
<1>1. /\ TypeOK /\ pc[c] = "idle" /\ next[c] \in Events /\ <<c, next[c]>> \in Entry
      /\ stream' = stream /\ late' = late /\ faults' = faults /\ mayRunLate' = mayRunLate
      /\ attempt' = [attempt EXCEPT ![c] = 1]
  <2>1. TypeOK /\ pc[c] = "idle" /\ next[c] <= N
    BY DEF Emit, EmitInv
  <2>2. next[c] \in Events
    BY <2>1 DEF TypeOK, Events
  <2> QED
    BY <2>1, <2>2 DEF Emit, Entry
<1>2. PICK m \in Modes :
        /\ mode' = [mode EXCEPT ![c] = m]
        /\ \/ Return(c, Raised(m)) /\ pipe' = pipe
           \/ Return(c, "queued") /\ pipe' = [pipe EXCEPT ![c] = Append(@, next[c])]
           \/ /\ pc' = [pc EXCEPT ![c] = "sending"]
              /\ pipe' = pipe /\ next' = next /\ results' = results
  BY DEF Emit
<1>3. Published' = Published /\ \A d \in Callers, e \in Events : Sent(d, e)' <=> Sent(d, e)
  BY <1>1 DEF Published, Sent
<1>4. ~Sent(c, next[c]) /\ <<c, next[c]>> \notin Published
  <2>1. ~(next[c] < next[c])
    BY <1>1 DEF Events
  <2>2. ~Sent(c, next[c])
    BY <1>1, <2>1 DEF EmitInv, OneByOne
  <2> QED
    BY <2>2 DEF Sent
<1>5. attempt' \in [Callers -> 1..(Retries + 1)] /\ mode' \in [Callers -> Modes]
  BY <1>1, <1>2 DEF TypeOK
<1>6. Raised(m) \in {"raised", "null"}
  BY DEF Raised
<1>7. ASSUME Free' = Free PROVE Counted'
  BY <1>1, <1>7 DEF EmitInv, Counted
<1>8. CASE Return(c, Raised(m)) /\ pipe' = pipe
  <2>1. OneByOne' /\ Pipes' /\ Answers'
    BY <1>1, <1>3, <1>6, <1>8, CallerKeeps
  <2>2. Free' = Free
    BY <1>1, <1>3, <1>6, <1>8, ReturnFrees, FreeIsFinite DEF Free
  <2>3. TypeOK'
    BY <1>1, <1>5, <1>6, <1>8, ReturnIs DEF TypeOK
  <2>4. Attempts'
    BY <1>1, <1>6, <1>8, ReturnIs DEF EmitInv, Attempts, TypeOK
  <2> QED
    BY <1>7, <2>1, <2>2, <2>3, <2>4 DEF EmitInv
<1>9. CASE Return(c, "queued") /\ pipe' = [pipe EXCEPT ![c] = Append(@, next[c])]
  <2>1. /\ next' \in [Callers -> 1..(N + 1)]
        /\ pc' \in [Callers -> {"idle", "sending", "sleeping"}]
        /\ results' \in [Callers -> [Events -> {"none", "id", "raised", "null", "queued"}]]
        /\ next'[c] = next[c] + 1 /\ \A d \in Callers : d # c => next'[d] = next[d]
        /\ pc'[c] = "idle" /\ \A d \in Callers : d # c => pc'[d] = pc[d]
        /\ \A d \in Callers, e \in Events :
              results'[d][e] = IF d = c /\ e = next[c] THEN "queued" ELSE results[d][e]
    BY <1>1, <1>9, ReturnIs
  <2>2. pipe \in [Callers -> Seq(Events)] /\ pipe[c] \in Seq(Events) /\ Len(pipe[c]) \in Nat
    BY <1>1, LenProperties DEF TypeOK
  <2>3. /\ pipe' \in [Callers -> Seq(Events)] /\ Len(pipe'[c]) = Len(pipe[c]) + 1
        /\ \A i \in 1..Len(pipe[c]) : pipe'[c][i] = pipe[c][i]
        /\ pipe'[c][Len(pipe[c]) + 1] = next[c]
        /\ \A d \in Callers : d # c => pipe'[d] = pipe[d]
    BY <1>1, <1>9, <2>2, AppendProperties
  <2>4. TypeOK'
    BY <1>1, <1>5, <2>1, <2>3 DEF TypeOK
  <2>5. OneByOne' /\ Answers'
    <3>1. OneByOne /\ Answers /\ next \in [Callers -> 1..(N + 1)]
      BY <1>1 DEF EmitInv, TypeOK
    <3>2. OneByOne'
      <4>1. \A d \in Callers : pc'[d] # "idle" => next'[d] <= N
        BY <2>1, <3>1 DEF OneByOne
      <4>2. \A d \in Callers, e \in Events : e >= next'[d] => results'[d][e] = "none"
        BY <1>1, <2>1, <3>1 DEF OneByOne, Events
      <4>3. \A d \in Callers, e \in Events :
               Sent(d, e) => e < next'[d] \/ (e = next'[d] /\ pc'[d] # "idle")
        <5> SUFFICES ASSUME NEW d \in Callers, NEW e \in Events, Sent(d, e)
                     PROVE  e < next'[d] \/ (e = next'[d] /\ pc'[d] # "idle")
          OBVIOUS
        <5>1. e < next[d] \/ (e = next[d] /\ pc[d] # "idle")
          BY <3>1 DEF OneByOne
        <5>2. e \in Int /\ next[c] \in Int
          BY <1>1 DEF Events
        <5> QED
          BY <2>1, <5>1, <5>2
      <4> QED
        BY <1>3, <4>1, <4>2, <4>3 DEF OneByOne
    <3>3. Answers'
      BY <1>3, <2>1, <3>1 DEF Answers
    <3> QED
      BY <3>2, <3>3
  <2>6. Attempts'
    BY <1>1, <2>1 DEF EmitInv, Attempts, TypeOK
  <2>7. Free' = Free
    BY <1>1, <1>3, <1>4, <1>9, ReturnFrees, FreeIsFinite DEF Free
  <2>8. ASSUME NEW d \in Callers, d # c
        PROVE  /\ \A i \in 1..Len(pipe'[d]) :
                    /\ pipe'[d][i] \in Events /\ pipe'[d][i] < next'[d]
                    /\ results'[d][pipe'[d][i]] = "queued" /\ ~Sent(d, pipe'[d][i])
               /\ \A i, j \in 1..Len(pipe'[d]) : pipe'[d][i] = pipe'[d][j] => i = j
    <3>1. pipe'[d] = pipe[d] /\ next'[d] = next[d]
      BY <2>1, <2>3, <2>8
    <3>2. /\ \A i \in 1..Len(pipe[d]) :
               /\ pipe[d][i] \in Events /\ pipe[d][i] < next[d]
               /\ results[d][pipe[d][i]] = "queued" /\ ~Sent(d, pipe[d][i])
          /\ \A i, j \in 1..Len(pipe[d]) : pipe[d][i] = pipe[d][j] => i = j
      BY DEF EmitInv, Pipes
    <3> QED
      BY <2>1, <2>8, <3>1, <3>2
  <2>9. ASSUME NEW i \in 1..Len(pipe'[c])
        PROVE  /\ pipe'[c][i] \in Events /\ pipe'[c][i] < next'[c]
               /\ results'[c][pipe'[c][i]] = "queued" /\ ~Sent(c, pipe'[c][i])
               /\ i \in 1..Len(pipe[c]) => pipe'[c][i] < next[c]
    <3>1. CASE i = Len(pipe[c]) + 1
      BY <1>1, <1>3, <1>4, <2>1, <2>2, <2>3, <3>1 DEF Events
    <3>2. CASE i \in 1..Len(pipe[c])
      <4>1. /\ pipe[c][i] \in Events /\ pipe[c][i] < next[c]
            /\ results[c][pipe[c][i]] = "queued" /\ ~Sent(c, pipe[c][i])
        BY <3>2 DEF EmitInv, Pipes
      <4> QED
        <5>1. pipe'[c][i] = pipe[c][i]
          BY <2>3, <3>2
        <5>2. next[c] \in Int /\ pipe[c][i] \in Int
          BY <1>1, <4>1 DEF Events
        <5>3. pipe[c][i] # next[c] /\ pipe[c][i] < next[c] + 1
          BY <4>1, <5>2
        <5> QED
          BY <2>1, <4>1, <5>1, <5>3
    <3> QED
      BY <2>2, <2>3, <3>1, <3>2
  <2>10. \A i, j \in 1..Len(pipe'[c]) : pipe'[c][i] = pipe'[c][j] => i = j
    <3> SUFFICES ASSUME NEW i \in 1..Len(pipe'[c]), NEW j \in 1..Len(pipe'[c]),
                        pipe'[c][i] = pipe'[c][j], i # j
                 PROVE  FALSE
      OBVIOUS
    <3>0. next[c] \in Int
      BY <1>1 DEF Events
    <3>1. CASE i \in 1..Len(pipe[c]) /\ j \in 1..Len(pipe[c])
      <4>1. pipe'[c][i] = pipe[c][i] /\ pipe'[c][j] = pipe[c][j]
        BY <2>3, <3>1
      <4> QED
        BY <3>1, <4>1 DEF EmitInv, Pipes
    <3>2. CASE i \in 1..Len(pipe[c]) /\ j = Len(pipe[c]) + 1
      <4>1. pipe'[c][i] < next[c] /\ pipe'[c][j] = next[c]
        BY <2>3, <2>9, <3>2
      <4> QED
        BY <3>0, <4>1
    <3>3. CASE j \in 1..Len(pipe[c]) /\ i = Len(pipe[c]) + 1
      <4>1. pipe'[c][j] < next[c] /\ pipe'[c][i] = next[c]
        BY <2>3, <2>9, <3>3
      <4> QED
        BY <3>0, <4>1
    <3> QED
      BY <2>2, <2>3, <3>1, <3>2, <3>3
  <2>11. Pipes'
    <3> SUFFICES ASSUME NEW d \in Callers
                 PROVE  /\ \A i \in 1..Len(pipe'[d]) :
                             /\ pipe'[d][i] \in Events /\ pipe'[d][i] < next'[d]
                             /\ results'[d][pipe'[d][i]] = "queued" /\ ~Sent(d, pipe'[d][i])
                        /\ \A i, j \in 1..Len(pipe'[d]) : pipe'[d][i] = pipe'[d][j] => i = j
      BY <1>1, <1>3 DEF Pipes, Sent
    <3> QED
      BY <2>8, <2>9, <2>10
  <2> QED
    BY <1>7, <2>4, <2>5, <2>6, <2>7, <2>11 DEF EmitInv
<1>10. CASE /\ pc' = [pc EXCEPT ![c] = "sending"]
            /\ pipe' = pipe /\ next' = next /\ results' = results
  <2>1. pc'[c] = "sending" /\ \A d \in Callers : d # c => pc'[d] = pc[d]
    BY <1>1, <1>10 DEF TypeOK
  <2>2. OneByOne' /\ Pipes' /\ Answers'
    BY <1>1, <1>3, <1>10, <2>1, CallerKeeps
  <2>3. TypeOK'
    BY <1>1, <1>5, <1>10 DEF TypeOK
  <2>4. Attempts'
    BY <1>1, <2>1 DEF EmitInv, Attempts, TypeOK
  <2>5. Free' = Free
    BY <1>3, <1>10 DEF Free
  <2> QED
    BY <1>7, <2>2, <2>3, <2>4, <2>5 DEF EmitInv
<1> QED
  BY <1>2, <1>8, <1>9, <1>10

\* An XADD that is answered adds one entry, and it is free.
LEMMA XaddOkKeeps ==
    ASSUME EmitInv, NEW c \in Callers, XaddOk(c) PROVE EmitInv'
<1> USE ProducerAssumption
<1> DEFINE x == <<c, next[c]>>
<1>1. /\ TypeOK /\ stream \in Seq(Entry) /\ stream' = Append(stream, x) /\ Return(c, "id")
      /\ late' = late /\ pipe' = pipe /\ mode' = mode /\ attempt' = attempt /\ faults' = faults
      /\ mayRunLate' = mayRunLate /\ pc[c] # "idle"
  BY DEF XaddOk, EmitInv, TypeOK, Entry
<1>2. next[c] \in Events /\ x \in Entry
  BY <1>1, AtEvent
<1>3. stream' \in Seq(Entry) /\ Len(stream') = Len(stream) + 1 /\ Published' = Published \cup {x}
  BY <1>1, <1>2, AppendIs DEF Published
<1>4. OneByOne' /\ Pipes' /\ Answers'
  <2>1. \A d \in Callers, e \in Events : Sent(d, e)' => Sent(d, e) \/ (d = c /\ e = next[c])
    BY <1>1, <1>3 DEF Sent
  <2> QED
    BY <1>1, <1>2, <1>3, <2>1, CallerKeeps
<1>5. TypeOK'
  BY <1>1, <1>2, <1>3, ReturnIs DEF TypeOK, Entry
<1>6. Attempts'
  BY <1>1, <1>2, ReturnIs DEF EmitInv, Attempts
<1>7. Free' = Free \cup {x}
  BY <1>1, <1>2, <1>3, ReturnFrees, FreeIsFinite DEF Free
<1>8. x \notin Free
  <2>1. results[c][next[c]] = "none"
    BY <1>2 DEF EmitInv, OneByOne, TypeOK, Events
  <2> QED
    BY <2>1 DEF Free
<1>9. Cardinality(Free') = Cardinality(Free) + 1
  BY <1>1, <1>7, <1>8, FreeIsFinite, FS_AddElement
<1>10. Counted'
  <2>1. /\ Len(stream) \in Nat /\ Cardinality(Free) \in Nat /\ Cardinality(late) \in Nat
        /\ faults \in Nat /\ IsFiniteSet(late)
        /\ Len(stream) + Cardinality(late) <= faults + Cardinality(Free)
    BY Tally
  <2> QED
    BY <1>1, <1>3, <1>9, <2>1 DEF Counted
<1> QED
  BY <1>4, <1>5, <1>6, <1>10 DEF EmitInv

\* A call that fails adds one entry at most, now or later.
LEMMA XaddFailsKeeps ==
    ASSUME EmitInv, NEW c \in Callers, XaddFails(c) PROVE EmitInv'
<1> USE ProducerAssumption
<1> DEFINE x == <<c, next[c]>>
           late1 == late \cup {<<c, next[c], attempt[c]>>}
<1>1. /\ TypeOK /\ stream \in Seq(Entry) /\ pipe' = pipe /\ mode' = mode /\ attempt' = attempt
      /\ mayRunLate' = mayRunLate /\ pc[c] = "sending" /\ faults < MaxFaults /\ faults' = faults + 1
  BY DEF XaddFails, EmitInv, TypeOK, Entry
<1>2. next[c] \in Events /\ x \in Entry /\ attempt[c] \in 1..(Retries + 1)
  BY <1>1, AtEvent DEF TypeOK
<1>3. \/ stream' = stream /\ late' = late
      \/ stream' = Append(stream, x) /\ late' = late
      \/ late' = late1 /\ stream' = stream
  BY DEF XaddFails
<1>4. \/ /\ ~IsLast(attempt[c]) /\ pc' = [pc EXCEPT ![c] = "sleeping"]
         /\ next' = next /\ results' = results
      \/ \E r \in {"raised", "null"} : Return(c, r)
  BY DEF XaddFails, AfterLastFailure, Raised
<1>5. /\ Append(stream, x) \in Seq(Entry) /\ Len(Append(stream, x)) = Len(stream) + 1
      /\ Elements(Append(stream, x)) = Published \cup {x}
  BY <1>1, <1>2, AppendIs DEF Published
<1>6. /\ stream' \in Seq(Entry) /\ Published \subseteq Published' /\ Published' \subseteq Published \cup {x}
  BY <1>1, <1>3, <1>5 DEF Published
<1>7. late \subseteq late' /\ late' \subseteq late1
  BY <1>3
<1>8. \A d \in Callers, e \in Events : Sent(d, e)' => Sent(d, e) \/ (d = c /\ e = next[c])
  BY <1>6, <1>7 DEF Sent
<1>9. OneByOne' /\ Pipes' /\ Answers'
  <2>1. CASE pc' = [pc EXCEPT ![c] = "sleeping"] /\ next' = next /\ results' = results
    <3>1. pc'[c] # "idle" /\ \A d \in Callers : d # c => pc'[d] = pc[d]
      BY <1>1, <2>1 DEF TypeOK
    <3> QED
      BY <1>1, <1>2, <1>6, <1>8, <2>1, <3>1, CallerKeeps
  <2>2. CASE \E r \in {"raised", "null"} : Return(c, r)
    BY <1>1, <1>2, <1>6, <1>8, <2>2, CallerKeeps
  <2> QED
    BY <1>4, <2>1, <2>2
<1>10. TypeOK'
  <2>1. late' \subseteq Callers \X Events \X (1..(Retries + 1))
    BY <1>1, <1>2, <1>7 DEF TypeOK
  <2>2. faults' \in 0..MaxFaults
    BY <1>1 DEF TypeOK
  <2>3. /\ next' \in [Callers -> 1..(N + 1)]
        /\ pc' \in [Callers -> {"idle", "sending", "sleeping"}]
        /\ results' \in [Callers -> [Events -> {"none", "id", "raised", "null", "queued"}]]
    BY <1>1, <1>2, <1>4, ReturnIs DEF TypeOK
  <2> QED
    BY <1>1, <1>6, <2>1, <2>2, <2>3 DEF TypeOK, Entry
<1>11. Attempts'
  <2>1. CASE ~IsLast(attempt[c]) /\ pc' = [pc EXCEPT ![c] = "sleeping"]
    <3>1. attempt[c] <= Retries
      BY <1>2, <2>1 DEF IsLast
    <3>2. Attempts /\ \A d \in Callers : d # c => pc'[d] = pc[d]
      BY <1>1, <2>1 DEF EmitInv, TypeOK
    <3> QED
      BY <1>1, <3>1, <3>2 DEF Attempts
  <2>2. CASE \E r \in {"raised", "null"} : Return(c, r)
    BY <1>1, <1>2, <2>2, ReturnIs DEF EmitInv, Attempts
  <2> QED
    BY <1>4, <2>1, <2>2
<1>12. Free' = Free
  <2>1. results[c][next[c]] = "none"
    BY <1>2 DEF EmitInv, OneByOne, TypeOK, Events
  <2>2. \A y \in Entry : results'[y[1]][y[2]] \in {"id", "queued"}
                            <=> results[y[1]][y[2]] \in {"id", "queued"}
    <3>1. CASE results' = results
      BY <3>1
    <3>2. CASE \E r \in {"raised", "null"} : Return(c, r)
      BY <1>2, <3>2, ReturnFrees
    <3> QED
      BY <1>4, <3>1, <3>2
  <2>3. Published \subseteq Entry
    BY <1>1, FreeIsFinite
  <2> QED
    BY <1>2, <1>6, <2>1, <2>2, <2>3 DEF Free
<1>13. Counted'
  <2>1. /\ Len(stream) \in Nat /\ Cardinality(Free) \in Nat /\ Cardinality(late) \in Nat
        /\ faults \in Nat /\ IsFiniteSet(late)
        /\ Len(stream) + Cardinality(late) <= faults + Cardinality(Free)
    BY Tally
  <2>2. IsFiniteSet(late1) /\ Cardinality(late1) \in Nat /\ Cardinality(late1) <= Cardinality(late) + 1
    <3>1. /\ IsFiniteSet(late1)
          /\ Cardinality(late1) = Cardinality(late) \/ Cardinality(late1) = Cardinality(late) + 1
      BY <2>1, FS_AddElement
    <3> HIDE DEF late1
    <3> QED
      BY <2>1, <3>1
  <2>3. IsFiniteSet(late') /\ Len(stream') + Cardinality(late') <= Len(stream) + Cardinality(late) + 1
    <3> HIDE DEF late1, x
    <3>1. CASE stream' = stream /\ late' = late
      BY <2>1, <3>1
    <3>2. CASE stream' = Append(stream, x) /\ late' = late
      BY <1>5, <2>1, <3>2
    <3>3. CASE late' = late1 /\ stream' = stream
      BY <2>1, <2>2, <3>3
    <3> QED
      BY <1>3, <3>1, <3>2, <3>3
  <2>4. Len(stream') \in Nat /\ Cardinality(late') \in Nat
    BY <1>6, <2>3, FS_CardinalityType, LenProperties
  <2> QED
    BY <1>1, <1>12, <2>1, <2>3, <2>4 DEF Counted
<1> QED
  BY <1>9, <1>10, <1>11, <1>13 DEF EmitInv

\* A retry starts with nothing new in the stream.
LEMMA WakeKeeps ==
    ASSUME EmitInv, NEW c \in Callers, Wake(c) PROVE EmitInv'
<1> USE ProducerAssumption
<1>1. /\ TypeOK /\ pc[c] = "sleeping" /\ pc' = [pc EXCEPT ![c] = "sending"]
      /\ attempt' = [attempt EXCEPT ![c] = @ + 1]
      /\ stream' = stream /\ late' = late /\ pipe' = pipe /\ next' = next /\ mode' = mode
      /\ results' = results /\ faults' = faults /\ mayRunLate' = mayRunLate
  BY DEF Wake, EmitInv
<1>2. next[c] \in Events
  BY <1>1, AtEvent
<1>3. pc'[c] = "sending" /\ \A d \in Callers : d # c => pc'[d] = pc[d]
  BY <1>1 DEF TypeOK
<1>4. Published' = Published /\ Free' = Free
  BY <1>1 DEF Published, Free
<1>5. OneByOne' /\ Pipes' /\ Answers'
  <2>1. \A d \in Callers, e \in Events : Sent(d, e)' => Sent(d, e)
    BY <1>1, <1>4 DEF Sent
  <2> QED
    BY <1>1, <1>2, <1>3, <1>4, <2>1, CallerKeeps
<1>6. TypeOK'
  BY <1>1 DEF EmitInv, Attempts, TypeOK
<1>7. Attempts'
  BY <1>1, <1>3 DEF EmitInv, Attempts, TypeOK
<1>8. Counted'
  BY <1>1, <1>4 DEF EmitInv, Counted
<1> QED
  BY <1>5, <1>6, <1>7, <1>8 DEF EmitInv

\* An XADD that runs late turns into its entry.
LEMMA LateRunsKeeps ==
    ASSUME EmitInv, NEW x \in late, LateRuns(x) PROVE EmitInv'
<1> USE ProducerAssumption
<1> DEFINE y == <<x[1], x[2]>>
<1>1. /\ TypeOK /\ stream \in Seq(Entry) /\ late' = late \ {x} /\ stream' = Append(stream, y)
      /\ pipe' = pipe /\ faults' = faults /\ mayRunLate' = mayRunLate
      /\ next' = next /\ pc' = pc /\ mode' = mode /\ attempt' = attempt /\ results' = results
  BY DEF LateRuns, callerVars, EmitInv, TypeOK, Entry
<1>2. PICK d \in Callers, e \in Events, a \in 1..(Retries + 1) : x = <<d, e, a>>
  BY <1>1 DEF TypeOK
<1>3. y = <<d, e>> /\ y \in Entry /\ Sent(d, e)
  BY <1>2 DEF Entry, Sent
<1>4. stream' \in Seq(Entry) /\ Len(stream') = Len(stream) + 1 /\ Published' = Published \cup {y}
  BY <1>1, <1>3, AppendIs DEF Published
<1>5. \A b \in Callers, g \in Events : Sent(b, g)' => Sent(b, g)
  BY <1>1, <1>3, <1>4 DEF Sent
<1>6. OneByOne'
  BY <1>1, <1>5 DEF EmitInv, OneByOne
<1>7. Pipes'
  <2> SUFFICES ASSUME NEW b \in Callers, NEW i \in 1..Len(pipe[b]) PROVE ~Sent(b, pipe[b][i])'
    BY <1>1 DEF EmitInv, Pipes
  <2>1. pipe[b][i] \in Events /\ ~Sent(b, pipe[b][i])
    BY DEF EmitInv, Pipes
  <2> QED
    BY <1>1, <1>5, <2>1
<1>8. Answers' /\ Attempts'
  BY <1>1, <1>4 DEF EmitInv, Answers, Attempts
<1>9. TypeOK'
  BY <1>1, <1>4 DEF TypeOK, Entry
<1>10. Counted'
  <2>1. /\ Len(stream) \in Nat /\ Cardinality(Free) \in Nat /\ Cardinality(late) \in Nat
        /\ faults \in Nat /\ IsFiniteSet(late)
        /\ Len(stream) + Cardinality(late) <= faults + Cardinality(Free)
    BY Tally
  <2>2. IsFiniteSet(late') /\ Cardinality(late') = Cardinality(late) - 1
    BY <1>1, <2>1, FS_RemoveElement
  <2>3. Free \in SUBSET Free'
    BY <1>1, <1>4 DEF Free
  <2>4. IsFiniteSet(Free)' /\ (Cardinality(Free) \in Nat)'
    BY <1>9, FreeIsFinite, PTL
  <2>5. Cardinality(Free) <= Cardinality(Free')
    BY <2>3, <2>4, FS_Subset
  <2> QED
    BY <1>1, <1>4, <2>1, <2>2, <2>4, <2>5 DEF Counted
<1> QED
  BY <1>6, <1>7, <1>8, <1>9, <1>10 DEF EmitInv

\* What the pipeline of a caller holds
Batch(c) == [i \in 1..Len(pipe[c]) |-> <<c, pipe[c][i]>>]

\* The commands of a pipeline are of events that are nowhere in the stream.
LEMMA BatchIs ==
    ASSUME EmitInv, NEW c \in Callers
    PROVE  /\ Batch(c) \in Seq(Entry) /\ Len(Batch(c)) = Len(pipe[c]) /\ Len(pipe[c]) \in Nat
           /\ \A i \in 1..Len(pipe[c]) : Batch(c)[i] = <<c, pipe[c][i]>>
           /\ IsFiniteSet(Elements(Batch(c))) /\ Cardinality(Elements(Batch(c))) = Len(pipe[c])
           /\ \A y \in Elements(Batch(c)) :
                 \E i \in 1..Len(pipe[c]) :
                     /\ y = <<c, pipe[c][i]>> /\ pipe[c][i] \in Events
                     /\ results[c][pipe[c][i]] = "queued" /\ pipe[c][i] < next[c]
                     /\ y \notin Published
<1>1. pipe[c] \in Seq(Events) /\ Len(pipe[c]) \in Nat
  BY LenProperties DEF EmitInv, TypeOK
<1>2. \A i \in 1..Len(pipe[c]) : Batch(c)[i] = <<c, pipe[c][i]>>
  BY DEF Batch
<1>3. /\ \A i \in 1..Len(pipe[c]) :
            /\ pipe[c][i] \in Events /\ pipe[c][i] < next[c]
            /\ results[c][pipe[c][i]] = "queued" /\ ~Sent(c, pipe[c][i])
      /\ \A i, j \in 1..Len(pipe[c]) : pipe[c][i] = pipe[c][j] => i = j
  BY DEF EmitInv, Pipes
<1>4. Batch(c) \in [1..Len(pipe[c]) -> Entry]
  BY <1>3 DEF Batch, Entry
<1>5. Batch(c) \in Seq(Entry)
  BY <1>1, <1>4, SeqDef
<1>6. Len(Batch(c)) = Len(pipe[c])
  BY <1>1, <1>4, <1>5, LenProperties
<1>7. \A i, j \in 1..Len(Batch(c)) : Batch(c)[i] = Batch(c)[j] => i = j
  BY <1>2, <1>3, <1>6
<1>8. IsFiniteSet(Elements(Batch(c))) /\ Cardinality(Elements(Batch(c))) = Len(pipe[c])
  BY <1>5, <1>6, <1>7, ElementsAreFinite
<1>9. ASSUME NEW y \in Elements(Batch(c))
      PROVE  \E i \in 1..Len(pipe[c]) :
                /\ y = <<c, pipe[c][i]>> /\ pipe[c][i] \in Events
                /\ results[c][pipe[c][i]] = "queued" /\ pipe[c][i] < next[c]
                /\ y \notin Published
  <2>1. PICK i \in 1..Len(pipe[c]) : y = <<c, pipe[c][i]>>
    BY <1>2, <1>6 DEF Elements
  <2> QED
    BY <1>3, <2>1 DEF Sent
<1> QED
  BY <1>1, <1>2, <1>5, <1>6, <1>8, <1>9

\* A pipeline puts each of its events into the stream once, or none.
LEMMA ExecuteKeeps ==
    ASSUME EmitInv, NEW c \in Callers, Execute(c) PROVE EmitInv'
<1> USE ProducerAssumption
<1> DEFINE b == Batch(c)
           B == Elements(b)
<1>1. /\ TypeOK /\ stream \in Seq(Entry) /\ pipe' = [pipe EXCEPT ![c] = <<>>]
      /\ stream' = stream \/ stream' = stream \o b
      /\ mayRunLate' = mayRunLate /\ late' = late /\ next' = next /\ pc' = pc /\ mode' = mode
      /\ attempt' = attempt /\ results' = results
  BY DEF Execute, callerVars, EmitInv, TypeOK, Entry, Batch
<1>2. faults' = faults \/ (faults' = faults + 1 /\ faults < MaxFaults)
  BY DEF Execute
<1>3. /\ b \in Seq(Entry) /\ Len(b) = Len(pipe[c]) /\ IsFiniteSet(B) /\ Cardinality(B) = Len(b)
      /\ Len(b) \in Nat
      /\ \A y \in B : \E i \in 1..Len(pipe[c]) :
            /\ y = <<c, pipe[c][i]>> /\ pipe[c][i] \in Events
            /\ results[c][pipe[c][i]] = "queued" /\ pipe[c][i] < next[c] /\ y \notin Published
  BY BatchIs
<1> HIDE DEF b
<1>4. /\ stream \o b \in Seq(Entry) /\ Len(stream \o b) = Len(stream) + Len(b)
      /\ Elements(stream \o b) = Published \cup B
  BY <1>1, <1>3, ConcatIs DEF Published
<1>5. /\ stream' \in Seq(Entry) /\ Published \subseteq Published' /\ Published' \subseteq Published \cup B
  BY <1>1, <1>4 DEF Published
<1>6. \A d \in Callers, e \in Events : Sent(d, e)' => Sent(d, e) \/ (d = c /\ e < next[c])
  <2> SUFFICES ASSUME NEW d \in Callers, NEW e \in Events, <<d, e>> \in B
               PROVE  d = c /\ e < next[c]
    BY <1>1, <1>5 DEF Sent
  <2> QED
    BY <1>3
<1>7. OneByOne' /\ Attempts' /\ Answers'
  BY <1>1, <1>5, <1>6 DEF EmitInv, OneByOne, Attempts, Answers
<1>8. pipe'[c] = <<>> /\ \A d \in Callers : d # c => pipe'[d] = pipe[d]
  BY <1>1 DEF TypeOK
<1>9. Pipes'
  <2> SUFFICES ASSUME NEW d \in Callers, d # c, NEW i \in 1..Len(pipe[d])
               PROVE  ~Sent(d, pipe[d][i])'
    BY <1>1, <1>8 DEF EmitInv, Pipes
  <2>1. pipe[d][i] \in Events /\ ~Sent(d, pipe[d][i])
    BY DEF EmitInv, Pipes
  <2> QED
    BY <1>6, <1>8, <2>1
<1>10. TypeOK'
  <2>1. faults' \in 0..MaxFaults
    BY <1>1, <1>2 DEF TypeOK
  <2>2. pipe' \in [Callers -> Seq(Events)]
    BY <1>1 DEF TypeOK
  <2> QED
    BY <1>1, <1>5, <2>1, <2>2 DEF TypeOK, Entry
<1>11. Counted'
  <2>1. /\ Len(stream) \in Nat /\ Cardinality(Free) \in Nat /\ Cardinality(late) \in Nat
        /\ faults \in Nat /\ IsFiniteSet(late)
        /\ Len(stream) + Cardinality(late) <= faults + Cardinality(Free)
    BY Tally
  <2>2. CASE stream' = stream
    <3>1. Free' = Free
      BY <1>1, <2>2 DEF Free, Published
    <3> QED
      BY <1>1, <1>2, <2>1, <2>2, <3>1 DEF Counted
  <2>3. CASE stream' = stream \o b
    <3>1. Published' = Published \cup B
      BY <1>4, <2>3 DEF Published
    <3>2. \A y \in B : y \notin Published /\ results[y[1]][y[2]] = "queued"
      BY <1>3
    <3> HIDE DEF B
    <3>3. Free' = Free \cup B
      BY <1>1, <3>1, <3>2 DEF Free
    <3>4. Free \cap B = {}
      BY <3>2 DEF Free
    <3>5. Cardinality(Free') = Cardinality(Free) + Len(b)
      <4>1. Cardinality(Free \cup B) = Cardinality(Free) + Cardinality(B) - Cardinality(Free \cap B)
        BY <1>1, <1>3, FreeIsFinite, FS_Union
      <4>2. Cardinality(Free \cap B) = 0
        BY <3>4, FS_EmptySet
      <4>3. Cardinality(B) = Len(b) /\ Len(b) \in Nat
        BY <1>3
      <4>4. Cardinality(Free \cup B) = Cardinality(Free) + Len(b)
        BY <2>1, <4>1, <4>2, <4>3
      <4> QED
        BY <3>3, <4>4
    <3>6. Len(stream') = Len(stream) + Len(b)
      BY <1>4, <2>3
    <3> QED
      <4>1. late' = late /\ Len(b) \in Nat
        BY <1>1, <1>3
      <4> HIDE DEF b
      <4>2. faults' >= faults
        BY <1>2, <2>1
      <4>3. faults' \in Nat
        BY <1>2, <2>1
      <4>4. Len(stream') + Cardinality(late) <= faults' + Cardinality(Free')
        BY <2>1, <3>5, <3>6, <4>1, <4>2, <4>3
      <4> QED
        BY <2>1, <4>1, <4>4 DEF Counted
  <2> QED
    BY <1>1, <2>2, <2>3
<1> QED
  BY <1>7, <1>9, <1>10, <1>11 DEF EmitInv

\* A step that changes nothing keeps the invariant.
LEMMA StutterKeeps == ASSUME EmitInv, UNCHANGED vars PROVE EmitInv'
<1>1. /\ mayRunLate' = mayRunLate /\ stream' = stream /\ late' = late /\ pipe' = pipe
      /\ next' = next /\ pc' = pc /\ mode' = mode /\ attempt' = attempt
      /\ results' = results /\ faults' = faults
  BY DEF vars, callerVars
<1> QED
  BY <1>1 DEF EmitInv, TypeOK, OneByOne, Attempts, Pipes, Answers, Counted, Free, Published, Sent

\* Every step keeps the invariant.
LEMMA EmitNext == EmitInv /\ [Next]_vars => EmitInv'
<1> SUFFICES ASSUME EmitInv, [Next]_vars PROVE EmitInv'
  OBVIOUS
<1>1. ASSUME NEW c \in Callers, Emit(c) \/ XaddOk(c) \/ XaddFails(c) \/ Wake(c) \/ Execute(c)
      PROVE  EmitInv'
  BY <1>1, EmitKeeps, XaddOkKeeps, XaddFailsKeeps, WakeKeeps, ExecuteKeeps
<1>2. ASSUME NEW x \in late, LateRuns(x) PROVE EmitInv'
  BY <1>2, LateRunsKeeps
<1>3. CASE UNCHANGED vars
  BY <1>3, StutterKeeps
<1> QED
  BY <1>1, <1>2, <1>3 DEF Next, Over

\* emit is honest: an id means that the event is in the stream, and there are no more
\* copies of events than calls that failed, however many callers retry, give up and
\* pipeline next to each other, and whenever Redis runs what they gave up.
THEOREM NoSilentDuplicates == Spec => []EmitIsHonest
<1>1. EmitInv => EmitIsHonest
  <2> SUFFICES ASSUME EmitInv PROVE EmitIsHonest
    OBVIOUS
  <2>1. \A c \in Callers, e \in Events : results[c][e] = "id" => Positions(c, e) # {}
    BY DEF EmitInv, Answers, Published, Elements, Positions
  <2>2. /\ Len(stream) \in Nat /\ Cardinality(Free) \in Nat /\ Cardinality(late) \in Nat
        /\ faults \in Nat /\ Len(stream) + Cardinality(late) <= faults + Cardinality(Free)
    BY Tally
  <2>3. Cardinality(Published) \in Nat /\ Cardinality(Free) <= Cardinality(Published)
    BY FreeIsFinite DEF EmitInv
  <2>4. Len(stream) - Cardinality(Published) <= faults
    BY <2>2, <2>3
  <2> QED
    BY <2>1, <2>4 DEF EmitIsHonest, Published, Elements
<1> QED
  BY <1>1, EmitInit, EmitNext, PTL DEF Spec

-----------------------------------------------------------------------------
(* The order of a caller's events *)

Ordered ==
    \A c \in Callers, e, f \in Events :
        e < f /\ results[c][e] # "queued" /\ results[c][f] # "queued" =>
            \A i \in Positions(c, e), j \in Positions(c, f) : i < j

\* Without late XADDs nothing waits to run, and the events are in order.
OrderInv == EmitInv /\ (~mayRunLate => late = {} /\ Ordered)

\* InOrder says that the events are ordered where nothing runs late.
LEMMA OrderedIsInOrder == InOrder <=> (~mayRunLate => Ordered)
<1>1. \A c \in Callers, e, f \in Events :
         {results[c][e], results[c][f]} \cap {"queued"} = {}
            <=> results[c][e] # "queued" /\ results[c][f] # "queued"
  OBVIOUS
<1> QED
  BY <1>1 DEF InOrder, Ordered

\* An empty stream is in order.
LEMMA OrderInit == Init => OrderInv
<1> SUFFICES ASSUME Init PROVE OrderInv
  OBVIOUS
<1>1. late = {} /\ Len(stream) = 0
  BY DEF Init
<1>2. Ordered
  BY <1>1 DEF Ordered, Positions
<1> QED
  BY <1>1, <1>2, EmitInit DEF OrderInv

\* The event a caller is at comes after all it emitted before.
LEMMA AppendKeepsOrder ==
    ASSUME EmitInv, Ordered, NEW c \in Callers, <<c, next[c]>> \in Entry,
           stream' = Append(stream, <<c, next[c]>>),
           \A d \in Callers, e \in Events : results[d][e] = "queued" => results'[d][e] = "queued"
    PROVE  Ordered'
<1> SUFFICES ASSUME NEW d \in Callers, NEW e \in Events, NEW f \in Events, e < f,
                    results'[d][e] # "queued", results'[d][f] # "queued",
                    NEW i \in Positions(d, e)', NEW j \in Positions(d, f)'
             PROVE  i < j
  BY DEF Ordered
<1>1. stream \in Seq(Entry) /\ Len(stream) \in Nat
  BY LenProperties DEF EmitInv, TypeOK, Entry
<1>2. /\ Len(stream') = Len(stream) + 1
      /\ \A k \in 1..Len(stream) : stream'[k] = stream[k]
      /\ stream'[Len(stream) + 1] = <<c, next[c]>>
  BY <1>1, AppendProperties
<1>3. /\ i \in 1..(Len(stream) + 1) /\ stream'[i] = <<d, e>>
      /\ j \in 1..(Len(stream) + 1) /\ stream'[j] = <<d, f>>
  BY <1>2 DEF Positions
<1>4. CASE i = Len(stream) + 1
  <2>1. d = c /\ e = next[c]
    BY <1>2, <1>3, <1>4
  <2>2. e \in Int /\ f \in Int
    BY DEF Events
  <2>3. ~Sent(d, f)
    BY <2>1, <2>2 DEF EmitInv, OneByOne
  <2>4. j # Len(stream) + 1
    BY <1>2, <1>3, <2>1, <2>2
  <2>5. j \in 1..Len(stream)
    BY <1>1, <1>3, <2>4
  <2>6. <<d, f>> \in Published
    BY <1>2, <1>3, <2>5 DEF Published, Elements
  <2> QED
    BY <2>3, <2>6 DEF Sent
<1>5. CASE i # Len(stream) + 1
  <2>1. i \in 1..Len(stream) /\ i \in Positions(d, e)
    BY <1>1, <1>2, <1>3, <1>5 DEF Positions
  <2>2. CASE j = Len(stream) + 1
    BY <1>1, <2>1, <2>2
  <2>3. CASE j # Len(stream) + 1
    <3>1. j \in Positions(d, f)
      BY <1>1, <1>2, <1>3, <2>3 DEF Positions
    <3> QED
      BY <2>1, <3>1 DEF Ordered
  <2> QED
    BY <2>2, <2>3
<1> QED
  BY <1>4, <1>5

\* A pipeline changes nothing about the order of what is not in it.
LEMMA BatchKeepsOrder ==
    ASSUME EmitInv, Ordered, NEW c \in Callers, stream' = stream \o Batch(c), results' = results
    PROVE  Ordered'
<1>1. /\ stream \in Seq(Entry) /\ Len(stream) \in Nat
      /\ Batch(c) \in Seq(Entry) /\ Len(Batch(c)) \in Nat
  BY BatchIs, LenProperties DEF EmitInv, TypeOK, Entry
<1>2. /\ Len(stream') = Len(stream) + Len(Batch(c))
      /\ \A k \in 1..(Len(stream) + Len(Batch(c))) :
            stream'[k] = IF k <= Len(stream) THEN stream[k] ELSE Batch(c)[k - Len(stream)]
  BY <1>1, ConcatProperties
<1>3. ASSUME NEW d \in Callers, NEW e \in Events, results[d][e] # "queued",
             NEW k \in Positions(d, e)'
      PROVE  k \in Positions(d, e)
  <2>1. k \in 1..(Len(stream) + Len(Batch(c))) /\ stream'[k] = <<d, e>>
    BY <1>2 DEF Positions
  <2>2. CASE k <= Len(stream)
    BY <1>1, <1>2, <2>1, <2>2 DEF Positions
  <2>3. CASE ~(k <= Len(stream))
    <3>1. k - Len(stream) \in 1..Len(Batch(c))
      BY <1>1, <2>1, <2>3
    <3>2. <<d, e>> \in Elements(Batch(c))
      BY <1>2, <2>1, <2>3, <3>1 DEF Elements
    <3>3. PICK i \in 1..Len(pipe[c]) : <<d, e>> = <<c, pipe[c][i]>> /\ results[c][pipe[c][i]] = "queued"
      <4>1. \A y \in Elements(Batch(c)) : \E i \in 1..Len(pipe[c]) :
               y = <<c, pipe[c][i]>> /\ results[c][pipe[c][i]] = "queued"
        BY BatchIs
      <4> QED
        BY <3>2, <4>1
    <3> QED
      BY <1>3, <3>3
  <2> QED
    BY <2>2, <2>3
<1> QED
  BY <1>3 DEF Ordered

\* Every step keeps the order.
LEMMA OrderNext == OrderInv /\ [Next]_vars => OrderInv'
<1> SUFFICES ASSUME OrderInv, [Next]_vars PROVE OrderInv'
  OBVIOUS
<1>1. EmitInv /\ EmitInv'
  BY EmitNext DEF OrderInv
<1>2. mayRunLate' = mayRunLate
  BY DEF Next, Emit, XaddOk, XaddFails, Wake, Execute, LateRuns, Over, vars
<1> SUFFICES ASSUME ~mayRunLate PROVE late' = {} /\ Ordered'
  BY <1>1, <1>2 DEF OrderInv
<1>3. late = {} /\ Ordered
  BY DEF OrderInv
<1>4. ASSUME NEW c \in Callers, NEW r, Return(c, r), next[c] \in Events,
             r \in {"id", "raised", "null", "queued"}
      PROVE  \A d \in Callers, e \in Events : results[d][e] = "queued" => results'[d][e] = "queued"
  <2>1. results[c][next[c]] = "none"
    BY <1>1, <1>4, ProducerAssumption DEF EmitInv, OneByOne, TypeOK, Events
  <2> QED
    BY <1>1, <1>4, <2>1, ReturnIs DEF EmitInv
<1>5. ASSUME stream' = stream,
             \A d \in Callers, e \in Events : results[d][e] = "queued" => results'[d][e] = "queued"
      PROVE  Ordered'
  BY <1>3, <1>5 DEF Ordered, Positions
<1>6. ASSUME NEW c \in Callers, Emit(c) PROVE late' = {} /\ Ordered'
  <2>1. stream' = stream /\ late' = late /\ next[c] <= N
    BY <1>6 DEF Emit
  <2>2. next[c] \in Events
    BY <1>1, <2>1, ProducerAssumption DEF EmitInv, TypeOK, Events
  <2>3. (\E m \in Modes : Return(c, Raised(m))) \/ Return(c, "queued") \/ results' = results
    BY <1>6 DEF Emit
  <2>4. \A m \in Modes : Raised(m) \in {"raised", "null"}
    BY DEF Raised
  <2>5. \A d \in Callers, e \in Events : results[d][e] = "queued" => results'[d][e] = "queued"
    BY <1>4, <2>2, <2>3, <2>4
  <2> QED
    BY <1>3, <1>5, <2>1, <2>5
<1>7. ASSUME NEW c \in Callers, XaddOk(c) PROVE late' = {} /\ Ordered'
  <2>1. stream' = Append(stream, <<c, next[c]>>) /\ Return(c, "id") /\ late' = late /\ pc[c] # "idle"
    BY <1>7 DEF XaddOk
  <2>2. next[c] \in Events /\ <<c, next[c]>> \in Entry
    BY <1>1, <2>1, AtEvent
  <2>3. \A d \in Callers, e \in Events : results[d][e] = "queued" => results'[d][e] = "queued"
    BY <1>4, <2>1, <2>2
  <2> QED
    BY <1>1, <1>3, <2>1, <2>2, <2>3, AppendKeepsOrder
<1>8. ASSUME NEW c \in Callers, XaddFails(c) PROVE late' = {} /\ Ordered'
  <2>1. /\ pc[c] # "idle" /\ late' = late
        /\ stream' = stream \/ stream' = Append(stream, <<c, next[c]>>)
        /\ (\E r \in {"raised", "null"} : Return(c, r)) \/ results' = results
    BY <1>8 DEF XaddFails, AfterLastFailure, Raised
  <2>2. next[c] \in Events /\ <<c, next[c]>> \in Entry
    BY <1>1, <2>1, AtEvent
  <2>3. \A d \in Callers, e \in Events : results[d][e] = "queued" => results'[d][e] = "queued"
    BY <1>4, <2>1, <2>2
  <2> QED
    BY <1>1, <1>3, <1>5, <2>1, <2>2, <2>3, AppendKeepsOrder
<1>9. ASSUME NEW c \in Callers, Wake(c) PROVE late' = {} /\ Ordered'
  BY <1>3, <1>5, <1>9 DEF Wake
<1>10. ASSUME NEW c \in Callers, Execute(c) PROVE late' = {} /\ Ordered'
  <2>1. /\ late' = late /\ results' = results
        /\ stream' = stream \/ stream' = stream \o Batch(c)
    BY <1>10 DEF Execute, callerVars, Batch
  <2> QED
    BY <1>1, <1>3, <1>5, <2>1, BatchKeepsOrder
<1>11. CASE UNCHANGED vars
  BY <1>3, <1>5, <1>11 DEF vars, callerVars
<1> QED
  BY <1>3, <1>6, <1>7, <1>8, <1>9, <1>10, <1>11 DEF Next, Over

\* As long as Redis runs nothing late, no copy of an event comes after an event the
\* same caller emitted later, for every number of retries and of callers.
THEOREM RetriesStayInOrder == Spec => []InOrder
<1>1. OrderInv => InOrder
  BY OrderedIsInOrder DEF OrderInv
<1> QED
  BY <1>1, OrderInit, OrderNext, PTL DEF Spec

\* The variables keep their types, and no caller sends another event than the one
\* it is at.
THEOREM ProducerTypes == Spec => [](TypeOK /\ OneByOne)
<1>1. EmitInv => TypeOK /\ OneByOne
  BY DEF EmitInv
<1> QED
  BY <1>1, EmitInit, EmitNext, PTL DEF Spec
=============================================================================
