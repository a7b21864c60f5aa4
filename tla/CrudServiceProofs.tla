-------------------------- MODULE CrudServiceProofs --------------------------
(* Proofs about CrudService: what concurrent creates, updates and removals do *)
(* to each other, and what a lister reads page by page, for every number of   *)
(* requests, rows, values and limits.                                         *)
EXTENDS CrudService, FiniteSetTheorems, SequenceTheorems, TLAPS

-----------------------------------------------------------------------------
(* The inductive invariant *)

\* The fields that an update sets, and those whose value that changes.
AskedFields(j) == {f \in Fields : j.asked[f] # Unset} \ j.exclude
Differs(e) == {f \in AskedFields(job[e]) : job[e].asked[f] # loaded[e][f]}

Edits(e) == job[e].op \in {"update", "remove"}
PastGet(e) == Edits(e) /\ pc[e] \in {"flush", "refresh", "returned"}
Created(e) == job[e].op = "create" /\ pc[e] = "returned"
Flushed(e) == job[e].op = "update" /\ pc[e] \in {"refresh", "returned"}
HasWritten(e) == Flushed(e) /\ written[e] # {}

Shape ==
    /\ DOMAIN table = Ids /\ nextId \in Nat
    /\ \A i \in Ids : table[i] # Absent => DOMAIN table[i] = Columns /\ i < nextId
    /\ lock \in [Ids -> Editors \cup {NoEditor}]
    /\ pc \in [Editors -> Ended \cup {"get", "flush", "refresh", "returned"}]
    /\ job \in [Editors -> Jobs \cup {NoJob}]
    /\ written \in [Editors -> SUBSET Fields]
    /\ DOMAIN row = Editors /\ DOMAIN loaded = Editors /\ DOMAIN obj = Editors

\* Where a request is, and for which call
Position(e) ==
    /\ pc[e] = "get" => Edits(e)
    /\ pc[e] = "flush" => job[e].op \in {"create", "update"}
    /\ pc[e] = "refresh" => job[e].op = "update"
    /\ pc[e] = "returned" => Edits(e) \/ job[e].op = "create"
    /\ Edits(e) => row[e] = job[e].id /\ row[e] \in Ids
    /\ PastGet(e) => row[e] < nextId

\* An update, between its get and its commit
Updating(e) ==
    /\ pc[e] = "get" => written[e] = {}
    /\ job[e].op = "update" /\ pc[e] = "flush" =>
          /\ written[e] = {} /\ DOMAIN loaded[e] = Columns
          /\ obj[e] = SetAttrs(UpdateData(job[e]), loaded[e])
    /\ Flushed(e) => /\ written[e] = Differs(e)
                     /\ \A f \in written[e] : obj[e][f] = job[e].asked[f]
    /\ HasWritten(e) => lock[row[e]] = e /\ table[row[e]] # Absent
    /\ HasWritten(e) /\ pc[e] = "returned" => obj[e] = Visible(e)

\* A row that is created and not committed
Creating(e) ==
    Created(e) => /\ row[e] \in Ids /\ row[e] < nextId /\ table[row[e]] = Absent
                  /\ DOMAIN obj[e] = Columns

\* Nobody else works on such a row.
OwnRows ==
    \A e, q \in Editors : e # q /\ Created(e) /\ (Created(q) \/ PastGet(q)) => row[e] # row[q]

EditInv ==
    /\ Shape /\ OwnRows
    /\ \A e \in Editors : Position(e) /\ Updating(e) /\ Creating(e)

-----------------------------------------------------------------------------
(* What a step of one request leaves alone *)

\* A step of e, as every other request sees it: a row that q has written to keeps
\* its lock and its value, a row that q has inserted is still not there.
Frame(e, q) ==
    /\ pc'[q] = pc[q] /\ row'[q] = row[q] /\ job'[q] = job[q]
    /\ obj'[q] = obj[q] /\ loaded'[q] = loaded[q] /\ written'[q] = written[q]
    /\ HasWritten(q) => table'[row[q]] = table[row[q]] /\ lock'[row[q]] = lock[row[q]]
    /\ Created(q) => table'[row[q]] = table[row[q]]

\* No step moves the sequence back.
Grows == nextId' \in Nat /\ nextId <= nextId'

\* What the proofs need of CrudAssumption
LEMMA IdsAreNumbers == \A i \in Ids : i \in Nat
<1>1. Ids \subseteq Nat \ {NoRow}
  BY CrudAssumption, Zenon
<1> QED
  BY <1>1

LEMMA FrameKeeps ==
    ASSUME NEW e \in Editors, NEW q \in Editors, Frame(e, q), Grows, Shape,
           Position(q), Updating(q), Creating(q)
    PROVE  Position(q)' /\ Updating(q)' /\ Creating(q)'
<1>0. nextId \in Nat
  BY DEF Shape
<1>1. Position(q)'
  <2>1. row[q] \in Ids /\ row[q] < nextId => row[q] < nextId'
    BY <1>0, IdsAreNumbers DEF Grows
  <2> QED
    BY <2>1 DEF Position, Edits, PastGet, Frame
<1>2. Updating(q)'
  BY DEF Updating, Flushed, HasWritten, Differs, AskedFields, Frame, UpdateData, SetAttrs, Visible
<1>3. Creating(q)'
  <2>1. row[q] \in Ids /\ row[q] < nextId => row[q] < nextId'
    BY <1>0, IdsAreNumbers DEF Grows
  <2> QED
    BY <2>1 DEF Creating, Created, Frame
<1> QED
  BY <1>1, <1>2, <1>3

LEMMA OneMoves ==
    ASSUME EditInv, NEW e \in Editors, \A q \in Editors : q # e => Frame(e, q),
           Grows, Shape', OwnRows', Position(e)', Updating(e)', Creating(e)'
    PROVE  EditInv'
<1>1. ASSUME NEW q \in Editors PROVE Position(q)' /\ Updating(q)' /\ Creating(q)'
  <2>1. CASE q = e
    BY <2>1
  <2>2. CASE q # e
    BY <2>2, FrameKeeps DEF EditInv
  <2> QED
    BY <2>1, <2>2
<1> QED
  BY <1>1 DEF EditInv

-----------------------------------------------------------------------------
(* The steps *)

\* A request that fails gives its locks back and leaves the table alone.
LEMMA FailKeeps ==
    ASSUME EditInv, NEW e \in Editors, NEW status \in Ended, Fail(e, status)
    PROVE  EditInv'
<1>0. pc'[e] = status /\ job' = job /\ row' = row
  BY DEF Fail, EditInv, Shape
<1>1. Shape'
  <2>1. /\ DOMAIN table' = Ids /\ nextId' \in Nat
        /\ \A i \in Ids : table'[i] # Absent => DOMAIN table'[i] = Columns /\ i < nextId'
        /\ job' \in [Editors -> Jobs \cup {NoJob}]
        /\ DOMAIN row' = Editors /\ DOMAIN loaded' = Editors /\ DOMAIN obj' = Editors
    BY DEF EditInv, Shape, Fail
  <2>2. lock' \in [Ids -> Editors \cup {NoEditor}]
    BY DEF EditInv, Shape, Fail, Unlocked
  <2>3. pc' \in [Editors -> Ended \cup {"get", "flush", "refresh", "returned"}]
    BY DEF EditInv, Shape, Fail
  <2>4. written' \in [Editors -> SUBSET Fields]
    BY DEF EditInv, Shape, Fail
  <2> QED
    BY <2>1, <2>2, <2>3, <2>4 DEF Shape
<1>2. ASSUME NEW q \in Editors, q # e PROVE Frame(e, q)
  <2>1. /\ pc'[q] = pc[q] /\ row'[q] = row[q] /\ job'[q] = job[q] /\ table' = table
        /\ obj'[q] = obj[q] /\ loaded'[q] = loaded[q] /\ written'[q] = written[q]
    BY <1>2 DEF EditInv, Shape, Fail
  <2>2. HasWritten(q) => lock'[row[q]] = lock[row[q]]
    BY <1>2 DEF EditInv, Position, Updating, HasWritten, Flushed, Edits, Fail, Unlocked
  <2> QED
    BY <2>1, <2>2 DEF Frame
<1>3. Grows
  BY DEF EditInv, Shape, Fail, Grows
<1>4. OwnRows'
  <2>1. \A q \in Editors : q # e => pc'[q] = pc[q]
    BY DEF EditInv, Shape, Fail
  <2>2. ~Created(e)' /\ ~PastGet(e)'
    BY <1>0 DEF Created, PastGet, Ended
  <2>3. \A q \in Editors : (Created(q)' => Created(q)) /\ (PastGet(q)' => PastGet(q))
    BY <2>1, <2>2, <1>0 DEF Created, PastGet, Edits
  <2> QED
    BY <2>3, <1>0 DEF EditInv, OwnRows
<1>5. Position(e)'
  BY <1>0 DEF Position, PastGet, Edits, Ended, EditInv
<1>6. Updating(e)' /\ Creating(e)'
  BY <1>0 DEF Updating, Creating, Created, Flushed, HasWritten, Ended
<1> QED
  BY <1>1, <1>2, <1>3, <1>4, <1>5, <1>6, OneMoves

LEMMA GetKeeps ==
    ASSUME EditInv, NEW e \in Editors, Get(e)
    PROVE  EditInv'
<1> DEFINE r == table[row[e]]
<1>0. Edits(e) /\ row[e] \in Ids
  BY DEF EditInv, Position, Get
<1>1. CASE r = Absent
  <2>1. Fail(e, "404")
    BY <1>1 DEF Get
  <2> QED
    BY <2>1, FailKeeps DEF Ended
<1>2. CASE r # Absent /\ job[e].policy /\ ~Allowed(r)
  <2>1. Fail(e, "403")
    BY <1>2 DEF Get
  <2> QED
    BY <2>1, FailKeeps DEF Ended
<1>3. CASE r # Absent /\ ~(job[e].policy /\ ~Allowed(r))
  <2>0. /\ loaded' = [loaded EXCEPT ![e] = r]
        /\ IF job[e].op = "update"
             THEN /\ obj' = [obj EXCEPT ![e] = SetAttrs(UpdateData(job[e]), r)]
                  /\ pc' = [pc EXCEPT ![e] = "flush"]
             ELSE /\ pc' = [pc EXCEPT ![e] = "returned"]
                  /\ UNCHANGED obj
        /\ UNCHANGED <<table, nextId, lock, job, row, written>>
    BY <1>3 DEF Get
  <2>1. DOMAIN r = Columns /\ row[e] < nextId
    BY <1>0, <1>3 DEF EditInv, Shape
  <2>2. Shape'
    <3>1. pc' \in [Editors -> Ended \cup {"get", "flush", "refresh", "returned"}]
      BY <2>0 DEF EditInv, Shape
    <3>2. DOMAIN loaded' = Editors /\ DOMAIN obj' = Editors
      BY <2>0 DEF EditInv, Shape
    <3> QED
      BY <2>0, <3>1, <3>2 DEF EditInv, Shape
  <2>3. ASSUME NEW q \in Editors, q # e PROVE Frame(e, q)
    BY <2>0, <2>3 DEF EditInv, Shape, Frame
  <2>4. Grows
    BY <2>0 DEF EditInv, Shape, Grows
  <2>5. /\ job[e].op = "update" => pc'[e] = "flush" /\ obj'[e] = SetAttrs(UpdateData(job[e]), r)
        /\ job[e].op = "remove" => pc'[e] = "returned"
        /\ loaded'[e] = r
    BY <2>0 DEF EditInv, Shape
  <2>6. OwnRows'
    <3>1. ASSUME NEW q \in Editors, q # e, Created(q) PROVE row[q] # row[e]
      BY <1>3, <3>1 DEF EditInv, Creating
    <3>2. \A q \in Editors : q # e => (Created(q)' <=> Created(q)) /\ (PastGet(q)' <=> PastGet(q))
      BY <2>3 DEF Frame, Created, PastGet, Edits
    <3>3. ~Created(e)'
      BY <1>0, <2>0 DEF Created, Edits
    <3> QED
      BY <2>0, <3>1, <3>2, <3>3 DEF EditInv, OwnRows
  <2>7. Position(e)'
    BY <1>0, <2>0, <2>1, <2>5 DEF EditInv, Position, PastGet, Edits
  <2>8. Updating(e)'
    <3>1. CASE job[e].op = "update"
      <4>1. written[e] = {}
        BY DEF EditInv, Updating, Get
      <4> QED
        BY <2>0, <2>1, <2>5, <3>1, <4>1 DEF Updating, Flushed, HasWritten, UpdateData, SetAttrs
    <3>2. CASE job[e].op # "update"
      BY <1>0, <2>0, <2>5, <3>2 DEF Updating, Flushed, HasWritten, Edits
    <3> QED
      BY <3>1, <3>2
  <2>9. Creating(e)'
    BY <1>0, <2>0 DEF Creating, Created, Edits
  <2> QED
    BY <2>2, <2>3, <2>4, <2>6, <2>7, <2>8, <2>9, OneMoves
<1> QED
  BY <1>1, <1>2, <1>3

\* The columns of the UPDATE are those that were asked for with a new value.
LEMMA ChangedIsAsked ==
    ASSUME EditInv, NEW e \in Editors, pc[e] = "flush", job[e].op = "update"
    PROVE  /\ {f \in Fields : obj[e][f] # loaded[e][f]} = Differs(e)
           /\ \A f \in Differs(e) : obj[e][f] = job[e].asked[f]
<1>1. DOMAIN loaded[e] = Columns /\ obj[e] = SetAttrs(UpdateData(job[e]), loaded[e])
  BY DEF EditInv, Updating
<1>2. \A f \in Fields : f \in DOMAIN loaded[e]
  BY <1>1 DEF Columns
<1>3. DOMAIN UpdateData(job[e]) = AskedFields(job[e])
  BY DEF UpdateData, AskedFields
<1>4. \A f \in Fields : obj[e][f] = IF f \in AskedFields(job[e]) THEN job[e].asked[f]
                                                                ELSE loaded[e][f]
  BY <1>1, <1>2, <1>3 DEF SetAttrs, UpdateData, AskedFields
<1>5. AskedFields(job[e]) \subseteq Fields
  BY DEF AskedFields
<1> QED
  BY <1>4, <1>5 DEF Differs

LEMMA FlushUpdateKeeps ==
    ASSUME EditInv, NEW e \in Editors, FlushUpdate(e)
    PROVE  EditInv'
<1> DEFINE changed == {f \in Fields : obj[e][f] # loaded[e][f]}
<1>0. /\ pc[e] = "flush" /\ job[e].op = "update" /\ row[e] \in Ids /\ written[e] = {}
      /\ changed = Differs(e) /\ \A f \in changed : obj[e][f] = job[e].asked[f]
  BY ChangedIsAsked DEF EditInv, Position, Edits, Updating, FlushUpdate
<1>a. CASE Fail(e, "500")
  BY <1>a, FailKeeps DEF Ended
<1>b. CASE /\ UNCHANGED <<table, nextId, job, row, loaded, obj>>
           /\ pc' = [pc EXCEPT ![e] = "refresh"]
           /\ \/ changed = {} /\ UNCHANGED <<lock, written>>
              \/ /\ changed # {} /\ MayLock(e, row[e]) /\ table[row[e]] # Absent
                 /\ lock' = [lock EXCEPT ![row[e]] = e]
                 /\ written' = [written EXCEPT ![e] = changed]
  <2>1. /\ pc'[e] = "refresh" /\ written'[e] = changed
        /\ changed # {} => lock'[row[e]] = e /\ table[row[e]] # Absent
    BY <1>0, <1>b DEF EditInv, Shape
  <2>2. Shape'
    <3>1. pc' \in [Editors -> Ended \cup {"get", "flush", "refresh", "returned"}]
      BY <1>b DEF EditInv, Shape
    <3>2. lock' \in [Ids -> Editors \cup {NoEditor}]
      BY <1>0, <1>b DEF EditInv, Shape
    <3>3. written' \in [Editors -> SUBSET Fields]
      BY <1>0, <1>b DEF EditInv, Shape
    <3> QED
      BY <1>b, <3>1, <3>2, <3>3 DEF EditInv, Shape
  <2>3. ASSUME NEW q \in Editors, q # e PROVE Frame(e, q)
    <3>1. pc'[q] = pc[q] /\ written'[q] = written[q]
      BY <1>b, <2>3 DEF EditInv, Shape
    <3>2. HasWritten(q) => lock'[row[q]] = lock[row[q]]
      <4>1. SUFFICES ASSUME HasWritten(q) PROVE lock'[row[q]] = lock[row[q]]
        OBVIOUS
      <4>2. lock[row[q]] = q
        BY <4>1 DEF EditInv, Updating
      <4>3. q # NoEditor
        BY CrudAssumption, Zenon
      <4>4. changed # {} => row[q] # row[e]
        BY <1>b, <2>3, <4>2, <4>3 DEF MayLock
      <4>5. row[q] \in Ids
        BY <4>1 DEF EditInv, Position, HasWritten, Flushed, Edits
      <4> QED
        BY <1>b, <4>4, <4>5 DEF EditInv, Shape
    <3> QED
      BY <1>b, <3>1, <3>2 DEF Frame
  <2>4. Grows
    BY <1>b DEF EditInv, Shape, Grows
  <2>5. OwnRows'
    <3>1. \A q \in Editors : q # e => (Created(q)' <=> Created(q)) /\ (PastGet(q)' <=> PastGet(q))
      BY <2>3 DEF Frame, Created, PastGet, Edits
    <3>2. ~Created(e)' /\ PastGet(e)
      BY <1>0, <1>b DEF Created, PastGet, Edits
    <3> QED
      BY <1>b, <3>1, <3>2 DEF EditInv, OwnRows
  <2>6. Position(e)'
    <3>1. Position(e)
      BY DEF EditInv
    <3> QED
      BY <1>0, <1>b, <2>1, <3>1 DEF Position, PastGet, Edits
  <2>7. Updating(e)'
    <3>1. Differs(e)' = Differs(e)
      BY <1>b DEF Differs, AskedFields
    <3> QED
      BY <1>0, <1>b, <2>1, <3>1 DEF Updating, Flushed, HasWritten
  <2>8. Creating(e)'
    BY <1>0, <1>b DEF Creating, Created
  <2> QED
    BY <2>2, <2>3, <2>4, <2>5, <2>6, <2>7, <2>8, OneMoves
<1> QED
  BY <1>a, <1>b DEF FlushUpdate

LEMMA RefreshUpdateKeeps ==
    ASSUME EditInv, NEW e \in Editors, RefreshUpdate(e)
    PROVE  EditInv'
<1>0. pc[e] = "refresh" /\ job[e].op = "update" /\ row[e] \in Ids
  BY DEF EditInv, Position, Edits, RefreshUpdate
<1>1. CASE table[row[e]] = Absent
  <2>1. Fail(e, "500")
    BY <1>1 DEF RefreshUpdate
  <2> QED
    BY <2>1, FailKeeps DEF Ended
<1>2. CASE table[row[e]] # Absent
  <2>0. /\ obj' = [obj EXCEPT ![e] = Visible(e)]
        /\ pc' = [pc EXCEPT ![e] = "returned"]
        /\ UNCHANGED <<table, nextId, lock, job, row, loaded, written>>
    BY <1>2 DEF RefreshUpdate, Refreshed
  <2>1. pc'[e] = "returned" /\ obj'[e] = Visible(e)
    BY <2>0 DEF EditInv, Shape
  <2>2. DOMAIN table[row[e]] = Columns
    BY <1>0, <1>2 DEF EditInv, Shape
  <2>3. written[e] = Differs(e) /\ written[e] \subseteq Fields
        /\ \A f \in written[e] : obj[e][f] = job[e].asked[f]
    BY <1>0 DEF EditInv, Shape, Updating, Flushed
  <2>4. \A f \in written[e] : Visible(e)[f] = job[e].asked[f]
    BY <2>2, <2>3 DEF Visible, Columns
  <2>5. Shape'
    <3>1. pc' \in [Editors -> Ended \cup {"get", "flush", "refresh", "returned"}]
      BY <2>0 DEF EditInv, Shape
    <3>2. DOMAIN obj' = Editors
      BY <2>0 DEF EditInv, Shape
    <3> QED
      BY <2>0, <3>1, <3>2 DEF EditInv, Shape
  <2>6. ASSUME NEW q \in Editors, q # e PROVE Frame(e, q)
    BY <2>0, <2>6 DEF EditInv, Shape, Frame
  <2>7. Grows
    BY <2>0 DEF EditInv, Shape, Grows
  <2>8. OwnRows'
    <3>1. \A q \in Editors : q # e => (Created(q)' <=> Created(q)) /\ (PastGet(q)' <=> PastGet(q))
      BY <2>6 DEF Frame, Created, PastGet, Edits
    <3>2. ~Created(e)' /\ PastGet(e)
      BY <1>0, <2>0 DEF Created, PastGet, Edits
    <3> QED
      BY <2>0, <3>1, <3>2 DEF EditInv, OwnRows
  <2>9. Position(e)'
    <3>1. Position(e)
      BY DEF EditInv
    <3> QED
      BY <1>0, <2>0, <2>1, <3>1 DEF Position, PastGet, Edits
  <2>10. Updating(e)'
    <3>1. Differs(e)' = Differs(e)
      BY <2>0 DEF Differs, AskedFields
    <3>2. HasWritten(e)' => HasWritten(e)
      BY <1>0, <2>0 DEF HasWritten, Flushed
    <3>3. HasWritten(e) => lock[row[e]] = e
      BY DEF EditInv, Updating
    <3>4. Visible(e)' = Visible(e)
      BY <2>0, <2>1, <2>2, <2>3 DEF Visible, Columns
    <3> QED
      BY <1>2, <2>0, <2>1, <2>3, <2>4, <3>1, <3>2, <3>3, <3>4 DEF Updating, Flushed
  <2>11. Creating(e)'
    BY <1>0, <2>0 DEF Creating, Created
  <2> QED
    BY <2>5, <2>6, <2>7, <2>8, <2>9, <2>10, <2>11, OneMoves
<1> QED
  BY <1>1, <1>2

LEMMA CreateKeeps ==
    ASSUME EditInv, NEW e \in Editors, Create(e)
    PROVE  EditInv'
<1>0. pc[e] = "flush" /\ job[e].op = "create" /\ nextId \in Ids /\ nextId \in Nat
  BY DEF EditInv, Shape, Create
<1>1. /\ pc' = [pc EXCEPT ![e] = "returned"] /\ pc'[e] = "returned"
      /\ row' = [row EXCEPT ![e] = nextId] /\ row'[e] = nextId
      /\ nextId' = nextId + 1
      /\ UNCHANGED <<table, lock, job, loaded, written>>
  BY DEF EditInv, Shape, Create
<1>2. DOMAIN obj' = Editors /\ DOMAIN obj'[e] = Columns
      /\ \A q \in Editors : q # e => obj'[q] = obj[q]
  BY DEF EditInv, Shape, Create, Columns, Fields
<1>3. Shape'
  <2>1. pc' \in [Editors -> Ended \cup {"get", "flush", "refresh", "returned"}]
    BY <1>1 DEF EditInv, Shape
  <2>2. \A i \in Ids : table[i] # Absent => DOMAIN table[i] = Columns /\ i < nextId + 1
    BY <1>0, IdsAreNumbers DEF EditInv, Shape
  <2>3. DOMAIN row' = Editors /\ nextId' \in Nat
    BY <1>0, <1>1 DEF EditInv, Shape
  <2> QED
    BY <1>1, <1>2, <2>1, <2>2, <2>3 DEF EditInv, Shape
<1>4. ASSUME NEW q \in Editors, q # e PROVE Frame(e, q)
  BY <1>1, <1>2, <1>4 DEF EditInv, Shape, Frame
<1>5. Grows
  BY <1>0, <1>1 DEF Grows
<1>6. OwnRows'
  <2>1. \A q \in Editors : q # e => /\ Created(q)' <=> Created(q)
                                    /\ PastGet(q)' <=> PastGet(q)
                                    /\ row'[q] = row[q]
    BY <1>4 DEF Frame, Created, PastGet, Edits
  <2>2. ASSUME NEW q \in Editors, Created(q) \/ PastGet(q) PROVE row[q] # nextId
    <3>1. row[q] < nextId /\ row[q] \in Ids
      BY <2>2 DEF EditInv, Position, Creating, PastGet
    <3> QED
      BY <1>0, <3>1, IdsAreNumbers
  <2>3. ~PastGet(e)'
    BY <1>0, <1>1 DEF PastGet, Edits
  <2> QED
    BY <1>1, <2>1, <2>2, <2>3 DEF EditInv, OwnRows
<1>7. Position(e)'
  BY <1>0, <1>1 DEF Position, PastGet, Edits
<1>8. Updating(e)'
  BY <1>0, <1>1 DEF Updating, Flushed, HasWritten
<1>9. Creating(e)'
  <2>1. table[nextId] = Absent
    BY <1>0 DEF EditInv, Shape
  <2>2. nextId < nextId + 1
    BY <1>0
  <2> QED
    BY <1>0, <1>1, <1>2, <2>1, <2>2 DEF Creating
<1> QED
  BY <1>3, <1>4, <1>5, <1>6, <1>7, <1>8, <1>9, OneMoves

\* What a commit leaves in the row.
LEMMA CommitWrites ==
    ASSUME EditInv, NEW e \in Editors, Commit(e)
    PROVE  /\ row[e] \in Ids /\ row[e] < nextId /\ (PastGet(e) \/ Created(e))
           /\ \A i \in Ids : i # row[e] => table'[i] = table[i]
           /\ \/ table'[row[e]] = table[row[e]] /\ ~Created(e) /\ ~HasWritten(e)
              \/ table'[row[e]] = obj[e] /\ Created(e)
              \/ table'[row[e]] = Absent /\ job[e].op = "remove"
              \/ table'[row[e]] = Visible(e) /\ HasWritten(e)
<1>1. /\ pc[e] = "returned" /\ MayLock(e, row[e])
      /\ table' = IF job[e].op = "update" /\ written[e] = {} THEN table
                  ELSE [table EXCEPT ![row[e]] = Committed(e)]
  BY DEF Commit
<1>2. PastGet(e) \/ Created(e)
  BY <1>1 DEF EditInv, Position, PastGet, Created, Edits
<1>3. row[e] \in Ids /\ row[e] < nextId
  BY <1>2 DEF EditInv, Position, Creating, PastGet
<1>4. DOMAIN table = Ids
  BY DEF EditInv, Shape
<1>5. CASE job[e].op = "update" /\ written[e] = {}
  BY <1>1, <1>2, <1>3, <1>5 DEF Created, HasWritten
<1>6. CASE ~(job[e].op = "update" /\ written[e] = {})
  <2>1. table' = [table EXCEPT ![row[e]] = Committed(e)]
    BY <1>1, <1>6
  <2>2. table'[row[e]] = Committed(e) /\ \A i \in Ids : i # row[e] => table'[i] = table[i]
    BY <1>3, <1>4, <2>1
  <2>3. CASE job[e].op = "create"
    BY <1>1, <1>2, <1>3, <2>2, <2>3 DEF Committed, Created
  <2>4. CASE job[e].op = "remove"
    BY <1>1, <1>2, <1>3, <2>2, <2>4 DEF Committed
  <2>5. CASE job[e].op = "update"
    BY <1>1, <1>2, <1>3, <1>6, <2>2, <2>5 DEF Committed, HasWritten, Flushed
  <2> QED
    BY <1>2, <2>3, <2>4, <2>5 DEF PastGet, Created, Edits
<1> QED
  BY <1>5, <1>6

LEMMA CommitKeeps ==
    ASSUME EditInv, NEW e \in Editors, Commit(e)
    PROVE  EditInv'
<1>0. /\ pc[e] = "returned" /\ MayLock(e, row[e])
      /\ pc' = [pc EXCEPT ![e] = "committed"] /\ lock' = Unlocked(e)
      /\ UNCHANGED <<nextId, job, row, loaded, obj, written>>
  BY DEF Commit
<1>1. pc'[e] = "committed"
  BY <1>0 DEF EditInv, Shape
<1>2. Shape'
  <2>1. pc' \in [Editors -> Ended \cup {"get", "flush", "refresh", "returned"}]
    BY <1>0 DEF EditInv, Shape, Ended
  <2>2. lock' \in [Ids -> Editors \cup {NoEditor}]
    BY <1>0 DEF EditInv, Shape, Unlocked
  <2>3. DOMAIN table' = Ids
    BY DEF EditInv, Shape, Commit
  <2>4. HasWritten(e) => DOMAIN Visible(e) = Columns
    BY CommitWrites DEF EditInv, Shape, Updating, Visible
  <2>5. Created(e) => DOMAIN obj[e] = Columns
    BY DEF EditInv, Creating
  <2>6. \A i \in Ids : table'[i] # Absent => DOMAIN table'[i] = Columns /\ i < nextId
    BY <2>4, <2>5, CommitWrites DEF EditInv, Shape
  <2> QED
    BY <1>0, <2>1, <2>2, <2>3, <2>6 DEF EditInv, Shape
<1>3. ASSUME NEW q \in Editors, q # e PROVE Frame(e, q)
  <2>1. pc'[q] = pc[q]
    BY <1>0, <1>3 DEF EditInv, Shape
  <2>2. ASSUME HasWritten(q)
        PROVE  table'[row[q]] = table[row[q]] /\ lock'[row[q]] = lock[row[q]]
    <3>1. lock[row[q]] = q /\ row[q] \in Ids
      BY <2>2 DEF EditInv, Updating, Position, HasWritten, Flushed, Edits
    <3>2. q # NoEditor
      BY CrudAssumption, Zenon
    <3>3. row[q] # row[e]
      BY <1>0, <1>3, <3>1, <3>2 DEF MayLock
    <3> QED
      BY <1>0, <1>3, <3>1, <3>3, CommitWrites DEF Unlocked
  <2>3. ASSUME Created(q) PROVE table'[row[q]] = table[row[q]]
    <3>1. row[q] # row[e]
      BY <1>3, <2>3, CommitWrites DEF EditInv, OwnRows
    <3>2. row[q] \in Ids
      BY <2>3 DEF EditInv, Creating
    <3> QED
      BY <3>1, <3>2, CommitWrites
  <2> QED
    BY <1>0, <2>1, <2>2, <2>3 DEF Frame
<1>4. Grows
  BY <1>0 DEF EditInv, Shape, Grows
<1>5. OwnRows'
  <2>1. \A q \in Editors : q # e => (Created(q)' <=> Created(q)) /\ (PastGet(q)' <=> PastGet(q))
    BY <1>3 DEF Frame, Created, PastGet, Edits
  <2>2. ~Created(e)' /\ ~PastGet(e)'
    BY <1>1 DEF Created, PastGet
  <2> QED
    BY <1>0, <2>1, <2>2 DEF EditInv, OwnRows
<1>6. Position(e)'
  BY <1>0, <1>1 DEF Position, PastGet, Edits, EditInv
<1>7. Updating(e)' /\ Creating(e)'
  BY <1>1 DEF Updating, Creating, Created, Flushed, HasWritten
<1> QED
  BY <1>2, <1>3, <1>4, <1>5, <1>6, <1>7, OneMoves

\* A table has finitely many rows.
LEMMA RowsAreFinite ==
    ASSUME NEW t PROVE IsFiniteSet(Rows(t)) /\ Cardinality(Rows(t)) \in Nat
<1> DEFINE S == {k \in Ids : t[k] # Absent}
           at == [k \in S |-> t[k]]
<1>1. IsFiniteSet(Ids)
  BY CrudAssumption, Zenon
<1>2. S \in SUBSET Ids
  OBVIOUS
<1>3. IsFiniteSet(S)
  BY <1>1, <1>2, FS_Subset
<1>4. at \in Surjection(S, Rows(t))
  BY DEF Surjection, Rows
<1>5. IsFiniteSet(Rows(t))
  BY <1>3, <1>4, FS_Surjection DEF ExistsSurjection
<1> QED
  BY <1>5, FS_CardinalityType

LEMMA EditInit ==
    ASSUME Init PROVE EditInv
<1>1. /\ table \in Tables /\ nextId = 1 + Cardinality(Rows(table))
      /\ lock = [i \in Ids |-> NoEditor]
      /\ job \in [Editors -> Jobs \cup {NoJob}]
      /\ pc = [e \in Editors |-> CASE job[e].op = "none" -> "idle"
                                   [] job[e].op = "create" -> "flush"
                                   [] OTHER -> "get"]
      /\ row = [e \in Editors |-> IF job[e].op \in {"update", "remove"} THEN job[e].id ELSE NoRow]
      /\ loaded = [e \in Editors |-> Absent] /\ obj = [e \in Editors |-> Absent]
      /\ written = [e \in Editors |-> {}]
  BY DEF Init
<1>2. ASSUME NEW e \in Editors
      PROVE  /\ job[e].op \in {"none", "create", "update", "remove"}
             /\ job[e].op \in {"update", "remove"} => job[e].id \in Ids
  <2>1. job[e] \in Jobs \cup {NoJob}
    BY <1>1
  <2>2. CASE job[e] = NoJob
    BY <2>2 DEF NoJob
  <2>3. CASE job[e] \in Jobs
    <3>1. job[e].op \in {"create", "update", "remove"} /\ (job[e].op # "create" => job[e].id \in Ids)
      BY <2>3, CrudAssumption, Zenon
    <3> QED
      BY <3>1
  <2> QED
    BY <2>1, <2>2, <2>3
<1>3. ASSUME NEW e \in Editors
      PROVE  /\ pc[e] \in {"idle", "flush", "get"}
             /\ pc[e] = "get" => Edits(e)
             /\ pc[e] = "flush" => job[e].op = "create"
             /\ Edits(e) => row[e] = job[e].id /\ row[e] \in Ids /\ pc[e] = "get"
             /\ written[e] = {}
  BY <1>1, <1>2 DEF Edits
<1>4. Shape
  <2>1. DOMAIN table = Ids /\ \A i \in Ids : table[i] # Absent =>
           DOMAIN table[i] = Columns /\ i <= Cardinality(Rows(table))
    BY <1>1, CrudAssumption, Zenon
  <2>2. nextId \in Nat /\ Cardinality(Rows(table)) \in Nat
    BY <1>1, RowsAreFinite
  <2>3. \A i \in Ids : i <= Cardinality(Rows(table)) => i < nextId
    BY <1>1, <2>2, IdsAreNumbers
  <2>4. pc \in [Editors -> Ended \cup {"get", "flush", "refresh", "returned"}]
    BY <1>1, <1>3 DEF Ended
  <2>5. lock \in [Ids -> Editors \cup {NoEditor}] /\ written \in [Editors -> SUBSET Fields]
        /\ DOMAIN row = Editors /\ DOMAIN loaded = Editors /\ DOMAIN obj = Editors
    BY <1>1
  <2> QED
    BY <1>1, <2>1, <2>2, <2>3, <2>4, <2>5 DEF Shape
<1>5. OwnRows
  BY <1>3 DEF OwnRows, Created
<1>6. \A e \in Editors : Position(e) /\ Updating(e) /\ Creating(e)
  BY <1>3 DEF Position, PastGet, Updating, Flushed, HasWritten, Creating, Created, Edits
<1> QED
  BY <1>4, <1>5, <1>6 DEF EditInv

LEMMA StillKeeps ==
    ASSUME EditInv, UNCHANGED editorVars PROVE EditInv'
<1>1. /\ table' = table /\ nextId' = nextId /\ lock' = lock /\ job' = job /\ pc' = pc
      /\ row' = row /\ loaded' = loaded /\ obj' = obj /\ written' = written
  BY DEF editorVars
<1>2. Shape'
  BY <1>1 DEF EditInv, Shape
<1>3. OwnRows'
  BY <1>1 DEF EditInv, OwnRows, Created, PastGet, Edits
<1>4. ASSUME NEW e \in Editors PROVE Position(e)' /\ Updating(e)' /\ Creating(e)'
  <2>1. Frame(e, e) /\ Grows
    BY <1>1 DEF Frame, Grows, EditInv, Shape
  <2> QED
    BY <2>1, FrameKeeps DEF EditInv
<1> QED
  BY <1>2, <1>3, <1>4 DEF EditInv

LEMMA EditNext ==
    ASSUME EditInv, [Next]_vars PROVE EditInv'
<1>1. ASSUME NEW e \in Editors, CommitFails(e) PROVE EditInv'
  BY <1>1, FailKeeps DEF CommitFails, Ended
<1>2. CASE Count \/ ReadPage \/ Over \/ UNCHANGED vars
  <2>1. UNCHANGED editorVars
    BY <1>2 DEF Count, ReadPage, Over, vars
  <2> QED
    BY <2>1, StillKeeps
<1> QED
  BY <1>1, <1>2, GetKeeps, FlushUpdateKeeps, RefreshUpdateKeeps, CreateKeeps, CommitKeeps DEF Next

-----------------------------------------------------------------------------
(* The theorems *)

\* What the requests hold agrees with the table and its locks in every state: an
\* update that has written holds the lock of a row that is there, a row that is
\* created is nobody else's.
THEOREM EditInvariance == Spec => []EditInv
<1>1. Init => EditInv
  BY EditInit
<1>2. EditInv /\ [Next]_vars => EditInv'
  BY EditNext
<1> QED
  BY <1>1, <1>2, PTL DEF Spec

\* What update returns has the values that were asked for, but for a value that
\* the row had when it was loaded.
THEOREM UpdatesAnswerWhatWasAsked == Spec => []AskedIsReturned
<1>1. EditInv => AskedIsReturned
  <2>1. SUFFICES ASSUME EditInv, NEW e \in Editors, pc[e] = "returned", job[e].op = "update",
                        NEW f \in Fields \ job[e].exclude, job[e].asked[f] # Unset,
                        loaded[e][f] # job[e].asked[f]
                 PROVE  job[e].asked[f] = obj[e][f]
    BY DEF AskedIsReturned
  <2>2. f \in Differs(e)
    BY <2>1 DEF Differs, AskedFields
  <2> QED
    BY <2>1, <2>2 DEF EditInv, Updating, Flushed
<1> QED
  BY <1>1, EditInvariance, PTL

\* A request whose pc becomes "committed" made the step Commit.
LEMMA OnlyCommitCommits ==
    ASSUME EditInv, [Next]_vars, NEW e \in Editors, pc[e] # "committed", pc'[e] = "committed"
    PROVE  Commit(e)
<1>1. pc' # pc
  OBVIOUS
<1>2. PICK q \in Editors : Get(q) \/ FlushUpdate(q) \/ RefreshUpdate(q) \/ Create(q)
                           \/ Commit(q) \/ CommitFails(q)
  BY <1>1 DEF Next, Count, ReadPage, Over, vars, editorVars
<1>3. CASE Commit(q)
  BY <1>3 DEF EditInv, Shape, Commit
<1>4. CASE ~Commit(q)
  <2>1. PICK status \in {"404", "403", "500", "flush", "refresh", "returned"} :
           pc' = [pc EXCEPT ![q] = status]
    BY <1>2, <1>4 DEF Get, FlushUpdate, RefreshUpdate, Create, CommitFails, Fail
  <2> QED
    BY <2>1 DEF EditInv, Shape
<1> QED
  BY <1>3, <1>4

\* The object that an update which wrote something, or a create, returned is the
\* row that its commit leaves, however many requests work on the row.
THEOREM CommitsLeaveTheAnswer == Spec => AnswerIsCommitted
<1> DEFINE Answered == \A e \in Editors :
         pc[e] # "committed" /\ pc'[e] = "committed" /\ job[e].op # "remove"
            /\ (job[e].op = "update" => written[e] # {})
         => table'[row[e]] = obj[e]
<1>1. EditInv /\ [Next]_vars => [Answered]_vars
  <2>1. SUFFICES ASSUME EditInv, [Next]_vars, NEW e \in Editors,
                        pc[e] # "committed", pc'[e] = "committed", job[e].op # "remove",
                        job[e].op = "update" => written[e] # {}
                 PROVE  table'[row[e]] = obj[e]
    OBVIOUS
  <2>2. Commit(e)
    BY <2>1, OnlyCommitCommits
  <2>3. Created(e) \/ HasWritten(e)
    <3>1. pc[e] = "returned" /\ (PastGet(e) \/ Created(e))
      BY <2>1, <2>2, CommitWrites DEF Commit
    <3> QED
      BY <2>1, <3>1 DEF PastGet, Edits, Created, HasWritten, Flushed
  <2>4. HasWritten(e) => obj[e] = Visible(e)
    BY <2>1, <2>2 DEF EditInv, Updating, Commit
  <2> QED
    BY <2>1, <2>2, <2>3, <2>4, CommitWrites DEF Created, HasWritten, Flushed
<1> QED
  BY <1>1, EditInvariance, PTL DEF Spec, AnswerIsCommitted

\* A commit changes nothing in a row that is there but the fields its caller set
\* and did not exclude, to the values it asked for: updates of different fields
\* do not undo each other.
THEOREM UpdatesDoNotUndo == Spec => OnlyAskedChanges
<1> DEFINE AskedOnly == \A i \in Ids, f \in Fields :
         table[i] # Absent /\ table'[i] # Absent /\ table'[i][f] # table[i][f] =>
            \E e \in Editors : /\ pc[e] # "committed" /\ pc'[e] = "committed"
                               /\ job[e].id = i /\ f \notin job[e].exclude
                               /\ job[e].asked[f] = table'[i][f]
<1>1. EditInv /\ [Next]_vars => [AskedOnly]_vars
  <2>1. SUFFICES ASSUME EditInv, [Next]_vars, NEW i \in Ids, NEW f \in Fields,
                        table[i] # Absent, table'[i] # Absent, table'[i][f] # table[i][f]
                 PROVE  \E e \in Editors : /\ pc[e] # "committed" /\ pc'[e] = "committed"
                                           /\ job[e].id = i /\ f \notin job[e].exclude
                                           /\ job[e].asked[f] = table'[i][f]
    OBVIOUS
  <2>2. table' # table
    BY <2>1
  <2>3. PICK e \in Editors : Commit(e)
    BY <2>1, <2>2 DEF Next, Count, ReadPage, Over, vars, editorVars,
                      Get, FlushUpdate, RefreshUpdate, Create, CommitFails, Fail
  <2>4. i = row[e] /\ row[e] \in Ids
    BY <2>1, <2>3, CommitWrites
  <2>5. ~Created(e)
    BY <2>1, <2>4 DEF EditInv, Creating
  <2>6. HasWritten(e) /\ table'[i] = Visible(e)
    BY <2>1, <2>3, <2>4, <2>5, CommitWrites
  <2>7. f \in written[e] /\ table'[i][f] = obj[e][f]
    <3>1. f \in DOMAIN table[i]
      BY <2>1 DEF EditInv, Shape, Columns
    <3> QED
      BY <2>1, <2>4, <2>6, <3>1 DEF Visible
  <2>8. f \in Differs(e) /\ obj[e][f] = job[e].asked[f]
    BY <2>1, <2>6, <2>7 DEF EditInv, Updating, HasWritten
  <2>9. row[e] = job[e].id
    BY <2>1, <2>6 DEF EditInv, Position, HasWritten, Flushed, Edits
  <2>10. pc[e] # "committed" /\ pc'[e] = "committed"
    BY <2>1, <2>3 DEF Commit, EditInv, Shape
  <2> QED
    BY <2>4, <2>7, <2>8, <2>9, <2>10 DEF Differs, AskedFields
<1> QED
  BY <1>1, EditInvariance, PTL DEF Spec, OnlyAskedChanges

-----------------------------------------------------------------------------
(* Orderings of the rows *)

\* Two different rows do not come before each other by keys.
Antisymmetric(keys, S) ==
    \A r, s \in S : MayPrecede(keys, r, s) /\ MayPrecede(keys, s, r) => r = s

\* The place of a row in the list: how many come before it, and itself
Rank(keys, S, r) == Cardinality({s \in S : s = r \/ MayPrecede(keys, s, r)})

\* An ordering has every row once.
LEMMA OrderingIs ==
    ASSUME NEW S, IsFiniteSet(S), NEW q, NEW o \in Orderings(q, S)
    PROVE  /\ Cardinality(S) \in Nat /\ o \in [1..Cardinality(S) -> S]
           /\ Len(o) = Cardinality(S)
           /\ \A i, j \in 1..Cardinality(S) : o[i] = o[j] => i = j
           /\ \A i, j \in 1..Cardinality(S) : i < j => MayPrecede(OrderBy(q), o[i], o[j])
           /\ \A r \in S : \E i \in 1..Cardinality(S) : o[i] = r
<1> DEFINE n == Cardinality(S)
<1>1. n \in Nat
  BY FS_CardinalityType
<1>2. /\ o \in [1..n -> S] /\ \A i, j \in 1..n : o[i] = o[j] => i = j
      /\ \A i, j \in DOMAIN o : i < j => MayPrecede(OrderBy(q), o[i], o[j])
  BY DEF Orderings, SetToSeqs
<1>3. Len(o) = n
  <2>1. o \in Seq(S)
    BY <1>1, <1>2, SeqDef
  <2> QED
    BY <1>1, <1>2, <2>1, LenProperties
<1>4. o \in Injection(1..n, S)
  BY <1>2 DEF Injection, IsInjective
<1>5. Cardinality(1..n) = n
  BY <1>1, FS_Interval
<1>6. o \in Surjection(1..n, S)
  BY <1>4, <1>5, FS_Injection
<1>7. \A r \in S : \E i \in 1..n : o[i] = r
  BY <1>6 DEF Surjection
<1> QED
  BY <1>1, <1>2, <1>3, <1>7

\* Where no two rows tie, the place of a row is the same in every ordering.
LEMMA PlaceIsRank ==
    ASSUME NEW S, IsFiniteSet(S), NEW q, NEW o \in Orderings(q, S), Antisymmetric(OrderBy(q), S),
           NEW i \in 1..Cardinality(S)
    PROVE  Rank(OrderBy(q), S, o[i]) = i
<1> DEFINE n == Cardinality(S)
           before == {s \in S : s = o[i] \/ MayPrecede(OrderBy(q), s, o[i])}
           g == [k \in 1..i |-> o[k]]
<1>1. /\ n \in Nat /\ o \in [1..n -> S]
      /\ \A k, j \in 1..n : o[k] = o[j] => k = j
      /\ \A k, j \in 1..n : k < j => MayPrecede(OrderBy(q), o[k], o[j])
      /\ \A r \in S : \E k \in 1..n : o[k] = r
  BY OrderingIs
<1>2. ASSUME NEW k \in 1..i PROVE o[k] \in before
  BY <1>1
<1>3. ASSUME NEW s \in before PROVE \E k \in 1..i : g[k] = s
  <2>1. PICK k \in 1..n : o[k] = s
    BY <1>1
  <2>2. k <= i
    <3>1. SUFFICES ASSUME k > i PROVE FALSE
      BY <1>1
    <3>2. o[i] \in S /\ o[k] \in S /\ o[k] # o[i]
      BY <1>1, <3>1
    <3>3. MayPrecede(OrderBy(q), o[i], o[k]) /\ MayPrecede(OrderBy(q), o[k], o[i])
      BY <1>1, <2>1, <3>1, <3>2
    <3> QED
      BY <3>2, <3>3 DEF Antisymmetric
  <2> QED
    BY <2>1, <2>2
<1>4. g \in Bijection(1..i, before)
  <2>1. g \in [1..i -> before]
    BY <1>2
  <2>2. \A k, j \in 1..i : g[k] = g[j] => k = j
    BY <1>1
  <2> HIDE DEF g, before
  <2>3. g \in Injection(1..i, before)
    BY <2>1, <2>2 DEF Injection, IsInjective
  <2>4. g \in Surjection(1..i, before)
    BY <1>3, <2>1 DEF Surjection
  <2> QED
    BY <2>3, <2>4 DEF Bijection
<1>5. ExistsBijection(1..i, before)
  BY <1>4 DEF ExistsBijection
<1>6. Cardinality(before) = i
  BY <1>1, <1>5, FS_CountingElements
<1> QED
  BY <1>6 DEF Rank

-----------------------------------------------------------------------------
(* The rows of a table *)

\* The rows of a table have numbers in their columns and ids of their own.
LEMMA RowsAreOrdered ==
    ASSUME NEW t \in Tables
    PROVE  /\ \A r \in Rows(t) : r \in [Columns -> Int]
           /\ \A r, s \in Rows(t) : r.id = s.id => r = s
<1>1. /\ DOMAIN t = Ids
      /\ \A i \in Ids : t[i] # Absent => t[i] \in [Columns -> Int] /\ t[i].id = i
  BY CrudAssumption, Zenon
<1> QED
  BY <1>1 DEF Rows

\* The two orders that OrderIsTotal has: by the id, or by a column and then the id
EndsInId(keys, ord) ==
    \/ keys = <<<<<<Model, "id">>, ord>>>>
    \/ \E k \in {<<Model, "a">>, <<SortModel, "b">>} :
          keys = <<<<k, ord>>, <<<<Model, "id">>, "desc">>>>

\* What ORDER BY comes to there
LEMMA KeysAre ==
    ASSUME NEW q \in Listings, "id" \in q.columns, q.sort # "created_at",
           ~("id" \in q.sortColumns /\ q.sort \in {"", "id"})
    PROVE  EndsInId(OrderBy(q), q.order)
<1> USE DEF EndsInId
<1>1. Fallback(q) = <<Model, "id">> /\ Fallback(q) # NoColumn
  BY DEF Fallback, SortColumn, OrElse, NoColumn, Model
<1>2. /\ q.columns \subseteq {"id", "created_at", "a"} /\ q.sortColumns \subseteq {"id", "b"}
      /\ q.order \in {"asc", "desc"}
  BY DEF Listings
<1>3. CASE AskedColumn(q) = NoColumn
  <2>1. PrimaryColumn(q) = <<Model, "id">> /\ ~HasTiebreaker(q)
    BY <1>1, <1>3 DEF PrimaryColumn, OrElse, HasTiebreaker
  <2> QED
    BY <1>1, <2>1 DEF OrderBy
<1>4. CASE AskedColumn(q) # NoColumn
  <2>1. PrimaryColumn(q) = AskedColumn(q)
    BY <1>4 DEF PrimaryColumn, OrElse
  <2>2. CASE SortAttr(q) = "id"
    <3>1. AskedColumn(q) = <<Model, "id">> /\ ~HasTiebreaker(q)
      BY <2>2 DEF AskedColumn, SortAttr, SortColumn, OrElse, NoColumn, Model, SortModel, HasTiebreaker
    <3> QED
      BY <1>4, <2>1, <3>1 DEF OrderBy
  <2>3. CASE SortAttr(q) # "id"
    <3>1. SortAttr(q) # "created_at"
      BY DEF SortAttr
    <3>2. HasTiebreaker(q)
      BY <1>4, <2>3, <3>1 DEF HasTiebreaker
    <3>3. AskedColumn(q) \in {<<Model, "a">>, <<SortModel, "b">>}
      BY <1>2, <1>4, <2>3, <3>1 DEF AskedColumn, SortColumn, OrElse, NoColumn
    <3> QED
      BY <1>1, <1>4, <2>1, <3>2, <3>3 DEF OrderBy
  <2> QED
    BY <2>2, <2>3
<1> QED
  BY <1>3, <1>4

\* Two rows that tie in their id are one.
LEMMA OneKey ==
    ASSUME NEW r \in [Columns -> Int], NEW s \in [Columns -> Int],
           NEW ord \in {"asc", "desc"}, NEW keys, 1 \in DOMAIN keys,
           keys[1] = <<<<Model, "id">>, ord>>,
           MayPrecede(keys, r, s), MayPrecede(keys, s, r)
    PROVE  r.id = s.id
<1>2. ~Precedes(keys[1], s, r) /\ ~Precedes(keys[1], r, s)
  BY DEF MayPrecede
<1>3. Value(r, <<Model, "id">>) = r.id /\ Value(s, <<Model, "id">>) = s.id
  BY DEF Value, Model, SortModel
<1>4. r.id \in Int /\ s.id \in Int
  BY DEF Columns
<1> QED
  BY <1>2, <1>3, <1>4 DEF Precedes

\* Rows that come before each other by a column and the id tie in both.
LEMMA TwoKeys ==
    ASSUME NEW r \in [Columns -> Int], NEW s \in [Columns -> Int],
           NEW k \in {<<Model, "a">>, <<SortModel, "b">>}, NEW ord \in {"asc", "desc"},
           NEW keys, 1 \in DOMAIN keys, keys[1] = <<k, ord>>,
           2 \in DOMAIN keys, keys[2] = <<<<Model, "id">>, "desc">>,
           MayPrecede(keys, r, s), MayPrecede(keys, s, r)
    PROVE  r.id = s.id
<1>2. ~Precedes(keys[1], s, r) /\ ~Precedes(keys[1], r, s)
  BY DEF MayPrecede
<1>3. Value(r, k) \in Int /\ Value(s, k) \in Int
  BY DEF Value, Model, SortModel, Columns, Fields
<1>4. Ties(keys[1], r, s) /\ Ties(keys[1], s, r)
  BY <1>2, <1>3 DEF Precedes, Ties
<1>5. ~Precedes(keys[2], s, r) /\ ~Precedes(keys[2], r, s)
  BY <1>4 DEF MayPrecede
<1>6. Value(r, <<Model, "id">>) = r.id /\ Value(s, <<Model, "id">>) = s.id
  BY DEF Value, Model, SortModel
<1>7. r.id \in Int /\ s.id \in Int
  BY DEF Columns
<1> QED
  BY <1>5, <1>6, <1>7 DEF Precedes

\* Rows that come before each other are one, by the id or with it as the tiebreaker.
LEMMA NoTies ==
    ASSUME NEW r \in [Columns -> Int], NEW s \in [Columns -> Int],
           NEW ord \in {"asc", "desc"}, NEW keys, EndsInId(keys, ord),
           MayPrecede(keys, r, s), MayPrecede(keys, s, r)
    PROVE  r.id = s.id
<1>1. CASE keys = <<<<<<Model, "id">>, ord>>>>
  <2>1. 1 \in DOMAIN keys /\ keys[1] = <<<<Model, "id">>, ord>>
    BY <1>1
  <2> QED
    BY <2>1, OneKey
<1>2. ASSUME NEW k \in {<<Model, "a">>, <<SortModel, "b">>},
             keys = <<<<k, ord>>, <<<<Model, "id">>, "desc">>>>
      PROVE  r.id = s.id
  <2>1. /\ 1 \in DOMAIN keys /\ keys[1] = <<k, ord>>
        /\ 2 \in DOMAIN keys /\ keys[2] = <<<<Model, "id">>, "desc">>
    BY <1>2
  <2> QED
    BY <2>1, TwoKeys
<1> QED
  BY <1>1, <1>2 DEF EndsInId

\* The order that is total, by the id or with the id as its tiebreaker
LEMMA OrderIsStrict ==
    ASSUME NEW q \in Listings, "id" \in q.columns, q.sort # "created_at",
           ~("id" \in q.sortColumns /\ q.sort \in {"", "id"}), NEW t \in Tables
    PROVE  Antisymmetric(OrderBy(q), Rows(t))
<1> SUFFICES ASSUME NEW r \in Rows(t), NEW s \in Rows(t),
                    MayPrecede(OrderBy(q), r, s), MayPrecede(OrderBy(q), s, r)
             PROVE  r = s
  BY DEF Antisymmetric
<1>1. q.order \in {"asc", "desc"}
  BY DEF Listings
<1>2. r.id = s.id
  <2>0. r \in [Columns -> Int] /\ s \in [Columns -> Int]
    BY RowsAreOrdered, Zenon
  <2>1. EndsInId(OrderBy(q), q.order)
    BY KeysAre
  <2> QED
    BY <1>1, <2>0, <2>1, NoTies
<1> QED
  BY <1>2, RowsAreOrdered

-----------------------------------------------------------------------------
(* The numbers of a page *)

\* The number of pages is the least that holds all rows, and a page has a next one
\* exactly when it is not the last of them.
LEMMA LeastPages ==
    ASSUME NEW n \in Nat, NEW l \in Nat, l > 0, NEW k \in Nat,
           NEW p, p = IF n > 0 THEN (n + l - 1) \div l ELSE 0
    PROVE  /\ p \in Nat /\ p * l >= n /\ (n > 0 => (p - 1) * l < n)
           /\ k * l < n <=> k < p
<1>1. CASE n = 0
  <2>1. k * l >= 0
    OBVIOUS
  <2> QED
    BY <1>1, <2>1
<1>2. CASE n > 0
  <2>1. /\ p \in Nat /\ p * l <= n + l - 1 /\ n + l - 1 < p * l + l
    BY <1>2
  <2>2. (p - 1) * l = p * l - l
    BY <2>1
  <2>3. k < p => k * l <= (p - 1) * l
    BY <2>1
  <2>4. k >= p => k * l >= p * l
    BY <2>1
  <2> QED
    BY <1>2, <2>1, <2>2, <2>3, <2>4
<1> QED
  BY <1>1, <1>2

\* The next page begins where this one ends.
LEMMA OffsetIs ==
    ASSUME NEW q \in Listings, NEW p \in Nat
    PROVE  /\ Offset(q, p) \in Int /\ Offset(q, p) + q.limit = p * q.limit
           /\ Offset(q, p + 1) = Offset(q, p) + q.limit
           /\ q.limit > 0 /\ p > 0 => Offset(q, p) >= 0
<1>1. q.limit \in Int
  BY DEF Listings
<1> QED
  BY <1>1 DEF Offset

\* A page of an ordering: the rows from its offset on, as many as the limit or as there are
LEMMA SliceIs ==
    ASSUME NEW S, IsFiniteSet(S), NEW q \in Listings, q.limit > 0, NEW p \in Nat, p > 0,
           NEW o \in Orderings(q, S),
           NEW n, n = Cardinality(S), Offset(q, p) <= n,
           NEW m, m = IF Offset(q, p) + q.limit < n THEN q.limit ELSE n - Offset(q, p)
    PROVE  /\ m \in Nat /\ Slice(o, q, p) \in Seq(S) /\ Len(Slice(o, q, p)) = m
           /\ \A i \in 1..m : Slice(o, q, p)[i] = o[Offset(q, p) + i]
<1> DEFINE off == Offset(q, p)
           end == IF off + q.limit < Len(o) THEN off + q.limit ELSE Len(o)
<1>1. n \in Nat /\ Len(o) = n /\ \A i \in 1..n : o[i] \in S
  BY OrderingIs
<1>2. q.limit \in Int /\ off \in Nat /\ off <= n
  BY OffsetIs DEF Listings
<1> HIDE DEF off
<1>3. /\ m \in Nat /\ end = off + m /\ off + m <= n
  <2>1. m = IF off + q.limit < n THEN q.limit ELSE n - off
    BY DEF off
  <2> QED
    BY <1>1, <1>2, <2>1
<1>4. \A i \in (off + 1)..end : o[i] \in S
  BY <1>1, <1>2, <1>3
<1> HIDE DEF end
<1>5. /\ SubSeq(o, off + 1, end) \in Seq(S)
      /\ Len(SubSeq(o, off + 1, end)) = IF off + 1 <= end THEN end - (off + 1) + 1 ELSE 0
      /\ \A i \in 1..(end - (off + 1) + 1) : SubSeq(o, off + 1, end)[i] = o[off + 1 + i - 1]
  BY <1>2, <1>3, <1>4, SubSeqProperties
<1>6. Slice(o, q, p) = SubSeq(o, off + 1, end)
  BY DEF Slice, off, end
<1>7. Len(Slice(o, q, p)) = m
  BY <1>2, <1>3, <1>5, <1>6
<1>8. ASSUME NEW i \in 1..m PROVE Slice(o, q, p)[i] = o[off + i]
  <2>1. i \in 1..(end - (off + 1) + 1) /\ off + 1 + i - 1 = off + i
    BY <1>2, <1>3
  <2> QED
    BY <1>5, <1>6, <2>1
<1> QED
  BY <1>3, <1>5, <1>6, <1>7, <1>8 DEF off

-----------------------------------------------------------------------------
(* The walk *)

\* The pages so far hold the first rows of the only order there is.
InPlace ==
    \A i \in 1..Len(seen) : \E r \in Rows(table) :
        Rank(OrderBy(listing), Rows(table), r) = i /\ seen[i] = r.id

Walked ==
    /\ seen \in Seq(Ids) /\ InPlace
    /\ walk = "walking" => Len(seen) = Offset(listing, page)
                           /\ Offset(listing, page) <= Cardinality(Rows(table))
    /\ walk = "done" => Len(seen) = Cardinality(Rows(table))

\* The last response was made of one count and of one page.
LastPage ==
    /\ listing \in Queries /\ last.page \in Nat /\ last.page > 0 /\ last.total \in Nat
    /\ last.hasNext = HasNext(listing, last.page, last.total)
    /\ last.totalPages = TotalPages(listing, last.total)
    /\ stable /\ last.hasNext /\ listing.limit > 0 => Len(last.items) = listing.limit

ListInv ==
    /\ listing \in Queries \cup {NoListing} /\ (walk # "none" => listing \in Queries)
    /\ page \in Nat /\ page > 0 /\ total \in Nat \cup {-1}
    /\ stable => table \in Tables /\ total \in {-1, Cardinality(Rows(table))}
    /\ last # NoResponse => LastPage
    /\ stable /\ walk # "none" /\ listing.limit > 0 /\ OrderIsTotal => Walked

\* Listing begins in a state of the invariant.
LEMMA ListInit == Init => ListInv
<1> SUFFICES ASSUME Init PROVE ListInv
  OBVIOUS
<1>1. /\ listing \in Queries \cup {NoListing} /\ (walk # "none" => listing \in Queries)
      /\ table \in Tables /\ last = NoResponse
  BY Zenon DEF Init
<1>2. page = 1 /\ total = -1 /\ seen = <<>> /\ walk \in {"none", "walking"}
  BY DEF Init
<1>3. ASSUME walk # "none", listing.limit > 0 PROVE Walked
  <2>1. listing \in Listings
    BY <1>1, <1>3, CrudAssumption
  <2>2. Offset(listing, 1) = 0
    BY <2>1 DEF Offset, Listings
  <2>3. Len(seen) = 0 /\ seen \in Seq(Ids)
    BY <1>2
  <2>4. Cardinality(Rows(table)) \in Nat
    BY RowsAreFinite
  <2>5. InPlace
    BY <2>3 DEF InPlace
  <2> QED
    BY <1>2, <2>2, <2>3, <2>4, <2>5 DEF Walked
<1> QED
  BY <1>1, <1>2, <1>3 DEF ListInv

\* What the requests that write do is nothing to a lister, unless they commit.
LEMMA EditorsLeaveTheList ==
    ASSUME ListInv, UNCHANGED listerVars, stable' => stable /\ table' = table
    PROVE  ListInv'
<1>1. /\ listing' = listing /\ page' = page /\ total' = total /\ seen' = seen
      /\ last' = last /\ walk' = walk
  BY DEF listerVars
<1>2. ASSUME last # NoResponse PROVE LastPage'
  BY <1>1, <1>2 DEF ListInv, LastPage
<1>3. ASSUME stable', walk # "none", listing.limit > 0, OrderIsTotal PROVE Walked'
  <2>1. Walked /\ table' = table
    BY <1>3 DEF ListInv
  <2> QED
    BY <1>1, <2>1 DEF Walked, InPlace
<1>4. OrderIsTotal' <=> OrderIsTotal
  BY <1>1 DEF OrderIsTotal
<1> QED
  BY <1>1, <1>2, <1>3, <1>4 DEF ListInv

\* The first query of a page, the count, keeps the invariant.
LEMMA CountKeeps == ASSUME ListInv, Count PROVE ListInv'
<1>1. /\ listing' = listing /\ page' = page /\ seen' = seen /\ last' = last /\ walk' = walk
      /\ table' = table /\ stable' = stable /\ total' = Cardinality(Rows(table))
  BY DEF Count, editorVars
<1>2. total' \in Nat
  BY <1>1, RowsAreFinite
<1>3. last # NoResponse => LastPage'
  BY <1>1 DEF ListInv, LastPage
<1>4. Walked => Walked'
  BY <1>1 DEF Walked, InPlace
<1>5. OrderIsTotal' <=> OrderIsTotal
  BY <1>1 DEF OrderIsTotal
<1> QED
  BY <1>1, <1>2, <1>3, <1>4, <1>5 DEF ListInv

\* The ids of the rows of a page
IdsOf(items) == [i \in DOMAIN items |-> items[i].id]

\* What a successful ReadPage does
LEMMA ReadPageIs ==
    ASSUME ReadPage, ~(listing.limit < 0 \/ (listing.limit = 0 /\ total > 0))
    PROVE  \E o \in Orderings(listing, Rows(table)) :
             LET items == Slice(o, listing, page)
             IN  /\ last' = Response(listing, page, total, items)
                 /\ seen' = seen \o IdsOf(items)
                 /\ total' = -1
                 /\ IF HasNext(listing, page, total) THEN page' = page + 1 /\ walk' = walk
                                                     ELSE walk' = "done" /\ page' = page
BY DEF ReadPage, Response, IdsOf

\* s holds the rows up to the end of this page.
ReadsOn(s) ==
    LET n == Cardinality(Rows(table))
    IN  /\ s \in Seq(Ids)
        /\ Len(s) = IF Offset(listing, page) + listing.limit < n
                      THEN Offset(listing, page) + listing.limit ELSE n
        /\ \A i \in 1..Len(s) : \E r \in Rows(table) :
              Rank(OrderBy(listing), Rows(table), r) = i /\ s[i] = r.id

\* A page that is read goes on where the one before it ended.
LEMMA PageAppends ==
    ASSUME ListInv, stable, walk = "walking", listing.limit > 0, OrderIsTotal,
           NEW o \in Orderings(listing, Rows(table))
    PROVE  ReadsOn(seen \o IdsOf(Slice(o, listing, page)))
<1> DEFINE S == Rows(table)
           n == Cardinality(S)
           items == Slice(o, listing, page)
           s == seen \o IdsOf(items)
           off == Offset(listing, page)
           m == IF off + listing.limit < n THEN listing.limit ELSE n - off
           ids == IdsOf(items)
<1>1. listing \in Listings /\ page \in Nat /\ page > 0 /\ table \in Tables /\ Walked
  BY CrudAssumption DEF ListInv
<1>2. IsFiniteSet(S) /\ n \in Nat
  BY RowsAreFinite
<1>3. Len(seen) = off /\ off <= n /\ seen \in Seq(Ids) /\ InPlace
  BY <1>1 DEF Walked
<1>4. off \in Nat /\ listing.limit \in Int
  BY <1>1, OffsetIs DEF Listings
<1>5. /\ m \in Nat /\ items \in Seq(S) /\ Len(items) = m
      /\ \A i \in 1..m : items[i] = o[off + i]
  <2>1. /\ n = Cardinality(S) /\ Offset(listing, page) <= n
        /\ m = IF Offset(listing, page) + listing.limit < n
                 THEN listing.limit ELSE n - Offset(listing, page)
    BY <1>3
  <2>2. o \in Orderings(listing, S)
    OBVIOUS
  <2> HIDE DEF S, m
  <2>3. /\ m \in Nat /\ Slice(o, listing, page) \in Seq(S) /\ Len(Slice(o, listing, page)) = m
        /\ \A i \in 1..m : Slice(o, listing, page)[i] = o[Offset(listing, page) + i]
    BY <1>1, <1>2, <2>1, <2>2, SliceIs
  <2> QED
    BY <2>3
<1>6. \A r \in S : r.id \in Ids
  <2>1. \A i \in Ids : table[i] # Absent => table[i].id = i
    BY <1>1, CrudAssumption, Zenon
  <2> QED
    BY <2>1 DEF Rows
<1>7. /\ ids \in Seq(Ids) /\ Len(ids) = m
      /\ \A i \in 1..m : ids[i] = o[off + i].id
  <2> HIDE DEF m, items
  <2>1. DOMAIN items = 1..m /\ \A i \in 1..m : items[i] \in S
    BY <1>5, LenProperties, ElementOfSeq
  <2>2. ids \in [1..m -> Ids]
    BY <1>6, <2>1 DEF IdsOf
  <2>3. ids \in Seq(Ids)
    BY <1>5, <2>2, SeqDef
  <2>4. Len(ids) = m
    BY <1>5, <2>2, <2>3, LenProperties
  <2> QED
    BY <1>5, <2>1, <2>3, <2>4 DEF IdsOf
<1> HIDE DEF ids, m, items
<1>8. /\ s \in Seq(Ids) /\ Len(s) = off + m
      /\ \A i \in 1..(off + m) : s[i] = IF i <= off THEN seen[i] ELSE ids[i - off]
  <2>1. s = seen \o ids
    BY DEF ids
  <2> HIDE DEF s, off
  <2> QED
    <3>1. seen \in Seq(Ids) /\ ids \in Seq(Ids) /\ Len(seen) = off /\ Len(ids) = m
      BY <1>3, <1>7
    <3>2. /\ seen \o ids \in Seq(Ids) /\ Len(seen \o ids) = Len(seen) + Len(ids)
          /\ \A i \in 1..(Len(seen) + Len(ids)) :
                (seen \o ids)[i] = IF i <= Len(seen) THEN seen[i] ELSE ids[i - Len(seen)]
      BY <3>1, ConcatProperties
    <3> QED
      BY <2>1, <3>1, <3>2
<1> HIDE DEF s
<1>9. off + m = IF off + listing.limit < n THEN off + listing.limit ELSE n
  BY <1>2, <1>4 DEF m
<1>10. ASSUME NEW i \in 1..Len(s)
       PROVE  \E r \in S : Rank(OrderBy(listing), S, r) = i /\ s[i] = r.id
  <2>1. CASE i <= off
    <3>1. i \in 1..Len(seen) /\ s[i] = seen[i]
      BY <1>3, <1>4, <1>5, <1>8, <2>1
    <3> QED
      BY <1>3, <3>1 DEF InPlace
  <2>2. CASE i > off
    <3>1. i - off \in 1..m /\ off + (i - off) = i /\ i \in 1..(off + m) /\ i \in 1..n
      BY <1>2, <1>4, <1>5, <1>8, <1>9, <2>2
    <3>2. Antisymmetric(OrderBy(listing), S)
      BY <1>1, OrderIsStrict DEF OrderIsTotal
    <3>3. o[i] \in S /\ Rank(OrderBy(listing), S, o[i]) = i
      BY <1>2, <3>1, <3>2, OrderingIs, PlaceIsRank
    <3>4. s[i] = ids[i - off]
      <4>1. ~(i <= off)
        BY <1>4, <2>2, <3>1
      <4> QED
        BY <1>8, <3>1, <4>1
    <3>5. ids[i - off] = o[i].id
      BY <1>7, <3>1
    <3> QED
      BY <3>3, <3>4, <3>5
  <2>3. i \in Int
    OBVIOUS
  <2> HIDE DEF off
  <2>4. i <= off \/ i > off
    BY <1>4, <2>3
  <2> QED
    BY <2>1, <2>2, <2>4
<1> QED
  <2>1. ReadsOn(s)
    <3> HIDE DEF m
    <3> QED
      BY <1>8, <1>9, <1>10 DEF ReadsOn
  <2> QED
    BY <2>1 DEF s, items

\* The second query of a page keeps the invariant, also when it fails.
LEMMA ReadPageKeeps == ASSUME ListInv, ReadPage PROVE ListInv'
<1>1. /\ listing' = listing /\ stable' = stable /\ table' = table /\ walk = "walking"
      /\ total # -1
  BY DEF ReadPage, editorVars, Walking
<1>2. CASE listing.limit < 0 \/ (listing.limit = 0 /\ total > 0)
  <2>1. walk' = "failed" /\ page' = page /\ total' = total /\ seen' = seen /\ last' = last
    BY <1>2 DEF ReadPage
  <2>2. listing \in Listings /\ listing.limit \in Int
    BY <1>1, CrudAssumption DEF ListInv, Listings
  <2>3. ~(listing.limit > 0)
    BY <1>2, <2>2
  <2>4. last # NoResponse => LastPage'
    BY <1>1, <2>1 DEF ListInv, LastPage
  <2> QED
    BY <1>1, <2>1, <2>3, <2>4 DEF ListInv
<1>3. CASE ~(listing.limit < 0 \/ (listing.limit = 0 /\ total > 0))
  <2> DEFINE S == Rows(table)
             n == Cardinality(S)
             more == HasNext(listing, page, total)
  <2>0. /\ listing \in Queries /\ listing \in Listings /\ listing.limit \in Int
        /\ page \in Nat /\ page > 0 /\ total \in Nat
        /\ stable => table \in Tables /\ total = n
    BY <1>1, CrudAssumption DEF ListInv, Listings
  <2>1. PICK o \in Orderings(listing, S) :
          /\ last' = Response(listing, page, total, Slice(o, listing, page))
          /\ seen' = seen \o IdsOf(Slice(o, listing, page))
          /\ total' = -1
          /\ IF more THEN page' = page + 1 /\ walk' = walk
                     ELSE walk' = "done" /\ page' = page
    BY <1>3, ReadPageIs
  <2>2. IsFiniteSet(S) /\ n \in Nat
    BY RowsAreFinite
  <2>3. more <=> Offset(listing, page) + listing.limit < total
    BY DEF HasNext
  <2>4. Offset(listing, page) \in Int /\ Offset(listing, page + 1) = Offset(listing, page) + listing.limit
    BY <2>0, OffsetIs
  <2> HIDE DEF more
  <2>5. LastPage'
    <3>1. /\ last'.page = page /\ last'.total = total /\ last'.hasNext = more
          /\ last'.totalPages = TotalPages(listing, total) /\ last'.items = Slice(o, listing, page)
      BY <2>1 DEF Response, more
    <3>2. ASSUME stable, more, listing.limit > 0 PROVE Len(Slice(o, listing, page)) = listing.limit
      BY <2>0, <2>2, <2>3, <2>4, <3>2, SliceIs
    <3> QED
      BY <1>1, <2>0, <3>1, <3>2 DEF LastPage, more
  <2>6. ASSUME stable, listing.limit > 0, OrderIsTotal PROVE Walked'
    <3>1. /\ seen' \in Seq(Ids)
          /\ Len(seen') = IF Offset(listing, page) + listing.limit < n
                            THEN Offset(listing, page) + listing.limit ELSE n
          /\ \A i \in 1..Len(seen') : \E r \in S :
                Rank(OrderBy(listing), S, r) = i /\ seen'[i] = r.id
      <4>1. ReadsOn(seen \o IdsOf(Slice(o, listing, page)))
        BY <1>1, <2>6, PageAppends
      <4> QED
        BY <2>1, <4>1 DEF ReadsOn
    <3>2. InPlace'
      BY <1>1, <3>1 DEF InPlace
    <3>3. /\ walk' = "walking" => Len(seen') = Offset(listing', page') /\ Offset(listing', page') <= n
          /\ walk' = "done" => Len(seen') = n
      <4>1. CASE more
        BY <1>1, <2>0, <2>1, <2>2, <2>3, <2>4, <2>6, <3>1, <4>1
      <4>2. CASE ~more
        BY <1>1, <2>0, <2>1, <2>3, <2>6, <3>1, <4>2
      <4> QED
        BY <4>1, <4>2
    <3> QED
      BY <1>1, <3>1, <3>2, <3>3 DEF Walked
  <2>7. page' \in Nat /\ page' > 0
    BY <2>0, <2>1
  <2>8. OrderIsTotal' <=> OrderIsTotal
    BY <1>1 DEF OrderIsTotal
  <2> QED
    BY <1>1, <2>0, <2>1, <2>5, <2>6, <2>7, <2>8 DEF ListInv
<1> QED
  BY <1>2, <1>3

\* Every step, of the lister or of a request that writes, keeps the invariant.
LEMMA ListNext == ListInv /\ [Next]_vars => ListInv'
<1> SUFFICES ASSUME ListInv, [Next]_vars PROVE ListInv'
  OBVIOUS
<1>1. CASE Count
  BY <1>1, CountKeeps
<1>2. CASE ReadPage
  BY <1>2, ReadPageKeeps
<1>3. ASSUME NEW e \in Editors, Get(e) \/ FlushUpdate(e) \/ RefreshUpdate(e) \/ Create(e)
                                \/ Commit(e) \/ CommitFails(e)
      PROVE  UNCHANGED listerVars /\ (stable' => stable /\ table' = table)
  <2>1. CASE Get(e)
    BY <2>1 DEF Get, Fail
  <2>2. CASE FlushUpdate(e)
    BY <2>2 DEF FlushUpdate, Fail
  <2>3. CASE RefreshUpdate(e)
    BY <2>3 DEF RefreshUpdate, Fail
  <2>4. CASE Create(e)
    BY <2>4 DEF Create
  <2>5. CASE Commit(e)
    BY <2>5 DEF Commit
  <2>6. CASE CommitFails(e)
    BY <2>6 DEF CommitFails, Fail
  <2> QED
    BY <1>3, <2>1, <2>2, <2>3, <2>4, <2>5, <2>6
<1>4. CASE UNCHANGED vars
  BY <1>4, EditorsLeaveTheList DEF vars, editorVars
<1> QED
  BY <1>1, <1>2, <1>3, <1>4, EditorsLeaveTheList DEF Next, Over

\* The numbers of every page agree, for every limit and every number of rows.
THEOREM NumbersOfAPageAgree == Spec => []PagesAgree
<1>1. ListInv => PagesAgree
  <2> SUFFICES ASSUME ListInv, last # NoResponse, listing.limit > 0
               PROVE  /\ last.totalPages * listing.limit >= last.total
                      /\ last.total > 0 => (last.totalPages - 1) * listing.limit < last.total
                      /\ last.hasNext <=> last.page < last.totalPages
                      /\ stable /\ last.hasNext => Len(last.items) = listing.limit
    BY DEF PagesAgree
  <2>1. LastPage
    BY DEF ListInv
  <2>2. listing \in Listings /\ listing.limit \in Nat
    BY <2>1, CrudAssumption DEF LastPage, Listings
  <2>3. last.hasNext <=> last.page * listing.limit < last.total
    BY <2>1, <2>2, OffsetIs DEF LastPage, HasNext
  <2>4. last.page \in Nat /\ last.total \in Nat
        /\ last.totalPages = IF last.total > 0
                               THEN (last.total + listing.limit - 1) \div listing.limit ELSE 0
    BY <2>1 DEF LastPage, TotalPages
  <2>5. /\ last.totalPages * listing.limit >= last.total
        /\ last.total > 0 => (last.totalPages - 1) * listing.limit < last.total
        /\ last.page * listing.limit < last.total <=> last.page < last.totalPages
    BY <2>2, <2>4, LeastPages
  <2> QED
    BY <2>1, <2>3, <2>5 DEF LastPage
<1> QED
  BY <1>1, ListInit, ListNext, PTL DEF Spec

\* Whoever walks through the pages of a table that does not change meets every row once.
THEOREM EveryRowIsMet == Spec => []WalkMeetsEveryRow
<1>1. ListInv => WalkMeetsEveryRow
  <2> SUFFICES ASSUME ListInv, walk = "done", stable, listing.limit > 0, OrderIsTotal
               PROVE  /\ Len(seen) = Cardinality(Rows(table))
                      /\ {seen[i] : i \in DOMAIN seen} = {r.id : r \in Rows(table)}
    BY DEF WalkMeetsEveryRow
  <2> DEFINE S == Rows(table)
             n == Cardinality(S)
             At(i, r) == Rank(OrderBy(listing), S, r) = i /\ seen[i] = r.id
             f == [i \in 1..n |-> CHOOSE r \in S : At(i, r)]
  <2>1. Len(seen) = n /\ seen \in Seq(Ids) /\ \A i \in 1..n : \E r \in S : At(i, r)
    BY DEF ListInv, Walked, InPlace
  <2>2. IsFiniteSet(S) /\ n \in Nat
    BY RowsAreFinite
  <2>3. \A i \in 1..n : f[i] \in S /\ At(i, f[i])
    <3> TAKE i \in 1..n
    <3> HIDE DEF At
    <3> QED
      BY <2>1
  <2>4. f \in [1..n -> S]
    BY <2>3
  <2> HIDE DEF f
  <2>5. f \in Injection(1..n, S)
    BY <2>3, <2>4 DEF Injection, IsInjective
  <2>6. Cardinality(1..n) = n
    BY <2>2, FS_Interval
  <2>7. f \in Surjection(1..n, S)
    BY <2>2, <2>5, <2>6, FS_Injection
  <2>8. \A r \in S : \E i \in 1..n : f[i] = r
    BY <2>7 DEF Surjection
  <2>9. DOMAIN seen = 1..n
    BY <2>1, LenProperties
  <2>10. {seen[i] : i \in 1..n} = {r.id : r \in S}
    BY <2>3, <2>8
  <2> QED
    BY <2>1, <2>9, <2>10
<1> QED
  BY <1>1, ListInit, ListNext, PTL DEF Spec
=============================================================================
