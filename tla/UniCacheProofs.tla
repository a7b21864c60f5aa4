--------------------------- MODULE UniCacheProofs ---------------------------
(* Proofs about UniCache: what readers that fill and rewrite the cache next   *)
(* to each other leave in it, and what they answer.                           *)
EXTENDS UniCache, TLAPS

-----------------------------------------------------------------------------
(* The inductive invariant *)

JobSet ==
    [asked : SUBSET Unis, school : BOOLEAN, rest : SUBSET Unis, missingUnis : SUBSET Unis,
     snapshot : Partial, want : SUBSET Deps, missing : SUBSET Deps, toSet : Partial,
     fresh : Partial, toDelete : SUBSET Deps, answer : Partial]

Shape ==
    /\ home \in [Deps -> Unis] /\ moves \in Nat /\ faults \in Nat
    /\ doc \in Partial /\ docTtl \in [Deps -> {NoTtl} \cup 1..Ttl]
    /\ school \in Partial /\ schoolTtl \in {NoTtl} \cup 1..Ttl
    /\ map \in Partial /\ mapTtl \in {NoTtl} \cup 1..Ttl
    /\ pc \in [Readers -> PCs] /\ job \in [Readers -> JobSet]

\* What has no time to live is being given one: the hash only between an hset and
\* its expire.
TtlInv ==
    /\ \A d \in Deps : doc[d] # None => docTtl[d] # NoTtl
    /\ school # Nothing => schoolTtl # NoTtl
    /\ faults = 0 /\ map # Nothing /\ mapTtl = NoTtl => \E r \in Readers : pc[r] = "expire"

\* With h for home: the departments of the universities U
Of(h, U) == {d \in Deps : h[d] \in U}

\* f has nothing that uni-api has not.
Agrees(h, f) == \A d \in Deps : f[d] \in {None, h[d]}

\* D has all or none of the departments of a university.
Whole(h, D) == \A d, e \in Deps : h[d] = h[e] /\ d \in D => e \in D

\* What a reader of the hash still has to answer: universities not looked at or not
\* mapped, departments not read or not fetched
ToCome(j) == j.rest \cup j.missingUnis
Unread(j) == j.want \cup j.missing

\* While nothing has moved, what a reader at p with the variables j has gathered:
\* all it was asked for, except what is still to come.
Gathered(h, p, j) ==
    /\ Agrees(h, j.snapshot) /\ Whole(h, Domain(j.snapshot)) /\ Agrees(h, j.toSet)
    /\ Agrees(h, j.fresh) /\ Whole(h, Domain(j.fresh)) /\ Whole(h, j.toDelete)
    /\ p \in {"hgetall", "unis", "docs", "setDocs"} =>
          /\ ~j.school /\ j.rest \cap j.missingUnis = {} /\ ToCome(j) \subseteq j.asked
          /\ j.want \cap j.missing = {} /\ Unread(j) \subseteq Of(h, j.asked \ ToCome(j))
          /\ j.answer = Only(h, Of(h, j.asked \ ToCome(j)) \ Unread(j))
          /\ p # "docs" => Unread(j) = {}
    /\ p \in {"setFresh", "existing", "hdel", "hset", "expire"} =>
          ~j.school /\ j.answer = Only(h, Of(h, j.asked))
    /\ p \in {"one", "setOne"} => j.asked = {} /\ ~j.school
    /\ p \in {"school", "setSchool"} => j.asked = {} /\ j.school
    /\ p = "setSchool" => j.answer = Only(h, School)
    /\ p = "idle" => /\ j.asked # {} => j.answer = Only(h, Of(h, j.asked))
                     /\ j.school => j.answer = Only(h, School)

StoreIsTrue ==
    /\ Agrees(home, doc) /\ Agrees(home, map) /\ Whole(home, Domain(map))
    /\ school \in {Nothing, Only(home, School)}

CacheInv ==
    /\ Shape /\ TtlInv
    /\ moves = 0 => StoreIsTrue /\ \A r \in Readers : Gathered(home, pc[r], job[r])

-----------------------------------------------------------------------------
(* Partial functions and records *)

LEMMA NoneIsNoUni == None \notin Unis /\ Ttl \in Nat /\ Ttl > 0 /\ School \subseteq Deps
BY UniCacheAssumption

\* Functions on departments that agree everywhere are the same.
LEMMA SamePartial ==
    ASSUME NEW f \in Partial, NEW g \in Partial, \A d \in Deps : f[d] = g[d] PROVE f = g
BY DEF Partial

LEMMA OnlyIs ==
    ASSUME NEW h \in [Deps -> Unis], NEW D
    PROVE  Only(h, D) \in Partial /\ \A d \in Deps : Only(h, D)[d] = IF d \in D THEN h[d] ELSE None
BY DEF Only, Partial

LEMMA OverIs ==
    ASSUME NEW f \in Partial, NEW g \in Partial
    PROVE  /\ Over(g, f) \in Partial
           /\ \A d \in Deps : Over(g, f)[d] = IF g[d] # None THEN g[d] ELSE f[d]
BY DEF Over, Partial

\* What was fetched, added to what there is
LEMMA OverOnly ==
    ASSUME NEW h \in [Deps -> Unis], NEW C, NEW D
    PROVE  Over(Only(h, C), Only(h, D)) = Only(h, C \cup D)
<1>1. \A S : /\ Only(h, S) \in Partial
             /\ \A d \in Deps : Only(h, S)[d] = IF d \in S THEN h[d] ELSE None
  BY OnlyIs
<1>2. \A d \in Deps : h[d] # None
  BY NoneIsNoUni
<1>3. /\ Over(Only(h, C), Only(h, D)) \in Partial
      /\ \A d \in Deps : Over(Only(h, C), Only(h, D))[d]
                          = IF Only(h, C)[d] # None THEN Only(h, C)[d] ELSE Only(h, D)[d]
  BY <1>1, OverIs
<1>4. \A d \in Deps : Over(Only(h, C), Only(h, D))[d] = Only(h, C \cup D)[d]
  BY <1>1, <1>2, <1>3
<1> QED
  BY <1>1, <1>3, <1>4, SamePartial

LEMMA NothingIs == Nothing \in Partial /\ \A d \in Deps : Nothing[d] = None
BY DEF Nothing, Partial

LEMMA NoJobIs ==
    ASSUME NEW h \in [Deps -> Unis]
    PROVE  /\ NoJob \in JobSet
           /\ Agrees(h, Nothing) /\ Whole(h, Domain(Nothing)) /\ Whole(h, {})
BY NothingIs DEF NoJob, JobSet, Agrees, Whole, Domain

\* The departments that uni-api has for whole universities
LEMMA OnlyOf ==
    ASSUME NEW h \in [Deps -> Unis], NEW D
    PROVE  /\ Agrees(h, Only(h, D))
           /\ \A U : Whole(h, Domain(Only(h, Of(h, U))))
BY OnlyIs, NoneIsNoUni DEF Agrees, Whole, Domain, Of

-----------------------------------------------------------------------------
(* Steps that leave Redis and uni-api alone *)

\* One reader moves.
LEMMA OneReader ==
    ASSUME CacheInv, NEW r \in Readers, NEW p \in PCs, NEW j \in JobSet, Goto(r, p, j),
           UNCHANGED apiVars, moves = 0 => Gathered(home, p, j)
    PROVE  /\ pc' \in [Readers -> PCs] /\ job' \in [Readers -> JobSet]
           /\ moves' = 0 => \A q \in Readers : Gathered(home, pc[q], job[q])'
           /\ pc'[r] = p /\ \A q \in Readers : q # r => pc'[q] = pc[q]
<1>1. /\ pc' \in [Readers -> PCs] /\ job' \in [Readers -> JobSet]
      /\ pc'[r] = p /\ job'[r] = j
      /\ \A q \in Readers : q # r => pc'[q] = pc[q] /\ job'[q] = job[q]
  BY DEF CacheInv, Shape, Goto
<1>2. home' = home /\ moves' = moves
  BY DEF apiVars
<1>3. ASSUME moves = 0, NEW q \in Readers PROVE Gathered(home', pc'[q], job'[q])
  <2>1. CASE q = r
    BY <1>1, <1>2, <1>3, <2>1
  <2>2. CASE q # r
    <3>1. Gathered(home, pc[q], job[q])
      BY <1>3 DEF CacheInv
    <3> QED
      BY <1>1, <1>2, <2>2, <3>1
  <2> QED
    BY <2>1, <2>2
<1> QED
  BY <1>1, <1>2, <1>3

LEMMA QuietStep ==
    ASSUME CacheInv, NEW r \in Readers, NEW p \in PCs, NEW j \in JobSet, Goto(r, p, j),
           UNCHANGED <<apiVars, schoolVars, docVars, mapVars, faults>>,
           pc[r] # "expire", moves = 0 => Gathered(home, p, j)
    PROVE  CacheInv'
<1>1. /\ home' = home /\ moves' = moves /\ doc' = doc /\ docTtl' = docTtl /\ school' = school
      /\ schoolTtl' = schoolTtl /\ map' = map /\ mapTtl' = mapTtl /\ faults' = faults
  BY DEF apiVars, schoolVars, docVars, mapVars
<1>2. UNCHANGED apiVars
  BY <1>1 DEF apiVars
<1>3. /\ pc' \in [Readers -> PCs] /\ job' \in [Readers -> JobSet]
      /\ moves' = 0 => \A q \in Readers : Gathered(home, pc[q], job[q])'
      /\ \A q \in Readers : q # r => pc'[q] = pc[q]
  BY <1>2, OneReader
<1>4. Shape'
  BY <1>1, <1>3 DEF CacheInv, Shape
<1>5. TtlInv'
  BY <1>1, <1>3 DEF CacheInv, TtlInv
<1>6. moves' = 0 => StoreIsTrue'
  BY <1>1 DEF CacheInv, StoreIsTrue
<1> QED
  BY <1>3, <1>4, <1>5, <1>6 DEF CacheInv

\* What is known of the reader before its step
LEMMA ReaderIs ==
    ASSUME CacheInv, NEW r \in Readers
    PROVE  /\ job[r] \in JobSet /\ pc[r] \in PCs /\ home \in [Deps -> Unis] /\ map \in Partial
           /\ moves = 0 => Gathered(home, pc[r], job[r])
BY DEF CacheInv, Shape

LEMMA ByUniversityIdsKeeps ==
    ASSUME CacheInv, NEW r \in Readers, NEW U \in SUBSET Unis, ByUniversityIds(r, U)
    PROVE  CacheInv'
<1> DEFINE j == [NoJob EXCEPT !.asked = U, !.rest = U]
<1>1. /\ j \in JobSet /\ j.asked = U /\ j.rest = U /\ j.missingUnis = {} /\ j.want = {}
      /\ j.missing = {} /\ j.snapshot = Nothing /\ j.toSet = Nothing /\ j.fresh = Nothing
      /\ j.toDelete = {} /\ j.answer = Nothing /\ j.school = FALSE
  BY NothingIs DEF NoJob, JobSet
<1>2. Nothing = Only(home, {})
  BY ReaderIs, OnlyIs, NothingIs, SamePartial
<1>3. ToCome(j) = U /\ Unread(j) = {} /\ U \ U = {}
  BY <1>1 DEF ToCome, Unread
<1>4. Of(home, {}) \ {} = {}
  BY DEF Of
<1> HIDE DEF j
<1>5. Gathered(home, "hgetall", j)
  BY <1>1, <1>2, <1>3, <1>4, ReaderIs, NoJobIs DEF Gathered
<1>6. pc[r] # "expire" /\ "hgetall" \in PCs
  BY DEF ByUniversityIds, PCs
<1> QED
  BY <1>1, <1>5, <1>6, QuietStep DEF ByUniversityIds, j

LEMMA HGetAllKeeps ==
    ASSUME CacheInv, NEW r \in Readers, HGetAll(r) PROVE CacheInv'
<1> DEFINE j == [job[r] EXCEPT !.snapshot = map]
<1>1. job[r] \in JobSet /\ map \in Partial
  BY ReaderIs
<1>2. /\ j \in JobSet /\ j.snapshot = map /\ j.asked = job[r].asked /\ j.rest = job[r].rest
      /\ j.missingUnis = job[r].missingUnis /\ j.want = job[r].want /\ j.missing = job[r].missing
      /\ j.toSet = job[r].toSet /\ j.fresh = job[r].fresh /\ j.toDelete = job[r].toDelete
      /\ j.answer = job[r].answer /\ j.school = job[r].school
  BY <1>1 DEF JobSet
<1>3. ToCome(j) = ToCome(job[r]) /\ Unread(j) = Unread(job[r])
  BY <1>2 DEF ToCome, Unread
<1> HIDE DEF j
<1>4. moves = 0 => Agrees(home, map) /\ Whole(home, Domain(map))
  BY DEF CacheInv, StoreIsTrue
<1>5. moves = 0 => Gathered(home, "unis", j)
  BY <1>2, <1>3, <1>4, ReaderIs DEF Gathered, HGetAll
<1>6. pc[r] # "expire" /\ "unis" \in PCs
  BY DEF HGetAll, PCs
<1> QED
  BY <1>2, <1>5, <1>6, QuietStep DEF HGetAll, j

\* In a snapshot of whole universities, a mapped one has all its departments.
LEMMA MappedIsWhole ==
    ASSUME NEW h \in [Deps -> Unis], NEW f \in Partial, Agrees(h, f), Whole(h, Domain(f)),
           NEW u \in Unis, {d \in Deps : f[d] = u} # {}
    PROVE  {d \in Deps : f[d] = u} = Of(h, {u})
<1>1. PICK c \in Deps : f[c] = u
  OBVIOUS
<1>2. u # None
  BY NoneIsNoUni
<1>3. h[c] = u /\ c \in Domain(f)
  BY <1>1, <1>2 DEF Agrees, Domain
<1>4. ASSUME NEW d \in Deps PROVE f[d] = u <=> h[d] = u
  BY <1>2, <1>3, <1>4 DEF Agrees, Whole, Domain
<1> QED
  BY <1>4 DEF Of

LEMMA NextUniKeeps ==
    ASSUME CacheInv, NEW r \in Readers, NEW u \in Unis, NextUni(r, u) PROVE CacheInv'
<1> DEFINE deps == {d \in Deps : job[r].snapshot[d] = u}
           i == [job[r] EXCEPT !.rest = @ \ {u}]
<1>0. job[r] \in JobSet /\ pc[r] = "unis" /\ u \in job[r].rest /\ home \in [Deps -> Unis]
      /\ (moves = 0 => Gathered(home, pc[r], job[r]))
  BY ReaderIs DEF NextUni
<1>a. /\ i \in JobSet /\ i.asked = job[r].asked /\ i.rest = job[r].rest \ {u}
      /\ i.missingUnis = job[r].missingUnis /\ i.want = job[r].want /\ i.missing = job[r].missing
      /\ i.toSet = job[r].toSet /\ i.fresh = job[r].fresh /\ i.toDelete = job[r].toDelete
      /\ i.answer = job[r].answer /\ i.school = job[r].school /\ i.snapshot = job[r].snapshot
  BY <1>0 DEF JobSet
<1>b. pc[r] # "expire" /\ "unis" \in PCs /\ "docs" \in PCs
  BY <1>0 DEF PCs
<1>1. CASE deps = {}
  <2> DEFINE j == [i EXCEPT !.missingUnis = @ \cup {u}]
  <2>1. /\ j \in JobSet /\ j.asked = i.asked /\ j.rest = i.rest
        /\ j.missingUnis = i.missingUnis \cup {u} /\ j.want = i.want /\ j.missing = i.missing
        /\ j.toSet = i.toSet /\ j.fresh = i.fresh /\ j.toDelete = i.toDelete
        /\ j.answer = i.answer /\ j.school = i.school /\ j.snapshot = i.snapshot
    BY <1>a DEF JobSet
  <2> HIDE DEF i
  <2>2. Goto(r, "unis", j) /\ UNCHANGED <<apiVars, schoolVars, docVars, mapVars, faults>>
    BY <1>1 DEF NextUni, i
  <2> HIDE DEF j
  <2>3. ToCome(j) = ToCome(job[r]) /\ Unread(j) = Unread(job[r])
    BY <1>0, <1>a, <2>1 DEF ToCome, Unread
  <2>4. job[r].rest \cap job[r].missingUnis = {} => j.rest \cap j.missingUnis = {}
    BY <1>a, <2>1
  <2>5. moves = 0 => Gathered(home, "unis", j)
    BY <1>0, <1>a, <2>1, <2>3, <2>4 DEF Gathered
  <2> QED
    BY <1>b, <2>1, <2>2, <2>5, QuietStep
<1>2. CASE deps # {}
  <2> DEFINE j == [i EXCEPT !.want = deps]
  <2>1. /\ j \in JobSet /\ j.asked = i.asked /\ j.rest = i.rest
        /\ j.missingUnis = i.missingUnis /\ j.want = deps /\ j.missing = i.missing
        /\ j.toSet = i.toSet /\ j.fresh = i.fresh /\ j.toDelete = i.toDelete
        /\ j.answer = i.answer /\ j.school = i.school /\ j.snapshot = i.snapshot
    BY <1>a DEF JobSet
  <2> HIDE DEF i
  <2>2. Goto(r, "docs", j) /\ UNCHANGED <<apiVars, schoolVars, docVars, mapVars, faults>>
    BY <1>2 DEF NextUni, i
  <2> HIDE DEF j
  <2>3. ASSUME moves = 0 PROVE Gathered(home, "docs", j)
    <3>0. /\ Gathered(home, "unis", job[r]) /\ Unread(job[r]) = {}
          /\ job[r].rest \cap job[r].missingUnis = {} /\ ToCome(job[r]) \subseteq job[r].asked
      BY <1>0, <2>3 DEF Gathered
    <3>1. deps = Of(home, {u})
      <4>1. job[r].snapshot \in Partial
        BY <1>0 DEF JobSet
      <4> QED
        BY <1>0, <1>2, <3>0, <4>1, MappedIsWhole DEF Gathered
    <3>2. Unread(j) = deps
      BY <1>a, <2>1, <3>0 DEF Unread
    <3>3. ToCome(j) = ToCome(job[r]) \ {u} /\ u \in ToCome(job[r])
      BY <1>0, <1>a, <2>1, <3>0 DEF ToCome
    <3>4. Of(home, j.asked \ ToCome(j)) = Of(home, job[r].asked \ ToCome(job[r])) \cup deps
      BY <1>a, <2>1, <3>0, <3>1, <3>3 DEF Of
    <3>5. Of(home, job[r].asked \ ToCome(job[r])) \cap deps = {}
      BY <3>1, <3>3 DEF Of
    <3>6. Of(home, j.asked \ ToCome(j)) \ Unread(j)
             = Of(home, job[r].asked \ ToCome(job[r])) \ Unread(job[r])
      BY <3>0, <3>2, <3>4, <3>5
    <3>7. Unread(j) \subseteq Of(home, j.asked \ ToCome(j)) /\ ToCome(j) \subseteq j.asked
          /\ j.rest \cap j.missingUnis = {} /\ j.want \cap j.missing = {}
      BY <1>a, <2>1, <3>0, <3>2, <3>3, <3>4 DEF Unread
    <3> QED
      BY <1>a, <2>1, <3>0, <3>6, <3>7 DEF Gathered
  <2> QED
    BY <1>b, <2>1, <2>2, <2>3, QuietStep
<1> QED
  BY <1>1, <1>2

LEMMA ReadDocKeeps ==
    ASSUME CacheInv, NEW r \in Readers, NEW d \in Deps, ReadDoc(r, d) PROVE CacheInv'
<1> DEFINE i == [job[r] EXCEPT !.want = @ \ {d}]
<1>0. /\ job[r] \in JobSet /\ pc[r] = "docs" /\ d \in job[r].want /\ home \in [Deps -> Unis]
      /\ moves = 0 => Gathered(home, "docs", job[r])
      /\ UNCHANGED <<apiVars, schoolVars, docVars, mapVars, faults>>
  BY ReaderIs DEF ReadDoc
<1>a. /\ i \in JobSet /\ i.asked = job[r].asked /\ i.rest = job[r].rest
      /\ i.missingUnis = job[r].missingUnis /\ i.want = job[r].want \ {d}
      /\ i.missing = job[r].missing /\ i.toSet = job[r].toSet /\ i.fresh = job[r].fresh
      /\ i.toDelete = job[r].toDelete /\ i.answer = job[r].answer /\ i.school = job[r].school
      /\ i.snapshot = job[r].snapshot
  BY <1>0 DEF JobSet
<1>b. pc[r] # "expire" /\ "docs" \in PCs
  BY <1>0 DEF PCs
<1>c. doc \in Partial /\ (moves = 0 => Agrees(home, doc))
  BY DEF CacheInv, Shape, StoreIsTrue
<1>1. CASE doc[d] # None
  <2> DEFINE j == [i EXCEPT !.answer[d] = doc[d]]
  <2>0. i.answer \in Partial /\ doc[d] \in Unis \cup {None}
    BY <1>a, <1>c DEF JobSet, Partial
  <2>1. [i.answer EXCEPT ![d] = doc[d]] \in Partial
    BY <2>0 DEF Partial
  <2>2. /\ j \in JobSet /\ j.asked = i.asked /\ j.rest = i.rest /\ j.missingUnis = i.missingUnis
        /\ j.want = i.want /\ j.missing = i.missing /\ j.toSet = i.toSet /\ j.fresh = i.fresh
        /\ j.toDelete = i.toDelete /\ j.answer = [i.answer EXCEPT ![d] = doc[d]]
        /\ j.school = i.school /\ j.snapshot = i.snapshot
    BY <1>a, <2>1 DEF JobSet
  <2> HIDE DEF i
  <2>3. Goto(r, "docs", j)
    BY <1>1 DEF ReadDoc, i
  <2> HIDE DEF j
  <2>4. ASSUME moves = 0 PROVE Gathered(home, "docs", j)
    <3> DEFINE all == Of(home, job[r].asked \ ToCome(job[r]))
    <3>1. doc[d] = home[d]
      BY <1>1, <1>c, <2>4 DEF Agrees
    <3>2. /\ Gathered(home, "docs", job[r]) /\ Unread(job[r]) \subseteq all
          /\ job[r].answer = Only(home, all \ Unread(job[r]))
      BY <1>0, <2>4 DEF Gathered
    <3>3. ToCome(j) = ToCome(job[r])
      BY <1>a, <2>2 DEF ToCome
    <3>4. CASE d \in job[r].missing
      BY <1>0, <2>4, <3>4 DEF Gathered
    <3>5. CASE d \notin job[r].missing
      <4>1. Unread(j) = Unread(job[r]) \ {d} /\ d \in Unread(job[r])
        BY <1>0, <1>a, <2>2, <3>5 DEF Unread
      <4> HIDE DEF all
      <4>0. home \in [Deps -> Unis]
        BY <1>0
      <4>2. /\ Only(home, all \ Unread(j)) \in Partial
            /\ \A c \in Deps : Only(home, all \ Unread(j))[c]
                                = IF c \in all \ Unread(j) THEN home[c] ELSE None
        BY <4>0, OnlyIs
      <4>3. \A c \in Deps : job[r].answer[c]
                                = IF c \in all \ Unread(job[r]) THEN home[c] ELSE None
        BY <3>2, <4>0, OnlyIs
      <4>4. \A c \in Deps : j.answer[c] = IF c = d THEN home[d] ELSE job[r].answer[c]
        BY <1>a, <2>0, <2>2, <3>1 DEF Partial
      <4>5. \A c \in Deps : j.answer[c] = Only(home, all \ Unread(j))[c]
        BY <3>2, <4>1, <4>2, <4>3, <4>4
      <4>6. j.answer = Only(home, all \ Unread(j))
        <5>1. j.answer \in Partial
          BY <2>1, <2>2
        <5> QED
          BY <4>2, <4>5, <5>1, SamePartial
      <4>7. Unread(j) \subseteq all /\ j.want \cap j.missing = {}
        BY <1>a, <2>2, <3>2, <4>1 DEF Gathered
      <4> QED
        BY <1>a, <2>2, <3>2, <3>3, <4>6, <4>7 DEF Gathered, all
    <3> QED
      BY <3>4, <3>5
  <2> QED
    BY <1>0, <1>b, <2>2, <2>3, <2>4, QuietStep
<1>2. CASE doc[d] = None
  <2> DEFINE j == Misses(i, d)
  <2>1. /\ j \in JobSet /\ j.asked = i.asked /\ j.rest = i.rest /\ j.missingUnis = i.missingUnis
        /\ j.want = i.want /\ j.missing = i.missing \cup {d} /\ j.toSet = i.toSet
        /\ j.fresh = i.fresh /\ j.toDelete = i.toDelete /\ j.answer = i.answer
        /\ j.school = i.school /\ j.snapshot = i.snapshot
    BY <1>a DEF JobSet, Misses
  <2> HIDE DEF i
  <2>2. Goto(r, "docs", j)
    BY <1>2 DEF ReadDoc, i
  <2> HIDE DEF j
  <2>3. ToCome(j) = ToCome(job[r]) /\ Unread(j) = Unread(job[r])
    BY <1>0, <1>a, <2>1 DEF ToCome, Unread
  <2>4. j.want \cap j.missing = {} \/ job[r].want \cap job[r].missing # {}
    BY <1>a, <2>1
  <2>5. moves = 0 => Gathered(home, "docs", j)
    BY <1>0, <1>a, <2>1, <2>3, <2>4 DEF Gathered
  <2> QED
    BY <1>0, <1>b, <2>1, <2>2, <2>5, QuietStep
<1> QED
  BY <1>1, <1>2

LEMMA FetchByIdsKeeps ==
    ASSUME CacheInv, NEW r \in Readers, FetchByIds(r) PROVE CacheInv'
<1>0. /\ job[r] \in JobSet /\ pc[r] = "docs" /\ job[r].want = {}
      /\ moves = 0 => Gathered(home, "docs", job[r])
      /\ UNCHANGED <<apiVars, schoolVars, docVars, mapVars, faults>>
  BY ReaderIs DEF FetchByIds
<1>a. home \in [Deps -> Unis]
  BY ReaderIs
<1>b. pc[r] # "expire" /\ "unis" \in PCs /\ "setDocs" \in PCs
  BY <1>0 DEF PCs
<1>1. CASE job[r].missing = {}
  <2>1. Goto(r, "unis", job[r])
    BY <1>1 DEF FetchByIds
  <2>2. Unread(job[r]) = {}
    BY <1>0, <1>1 DEF Unread
  <2>3. moves = 0 => Gathered(home, "unis", job[r])
    BY <1>0, <2>2 DEF Gathered
  <2> QED
    BY <1>0, <1>b, <2>1, <2>3, QuietStep
<1>2. CASE job[r].missing # {}
  <2> DEFINE got == Only(home, job[r].missing)
             j == [job[r] EXCEPT !.toSet = got, !.missing = {}, !.answer = Over(got, @)]
  <2>0. got \in Partial /\ Over(got, job[r].answer) \in Partial
    <3>1. got \in Partial
      BY <1>a, OnlyIs
    <3>2. job[r].answer \in Partial
      BY <1>0 DEF JobSet
    <3> QED
      BY <3>1, <3>2, OverIs
  <2>1. Goto(r, "setDocs", j)
    BY <1>2 DEF FetchByIds
  <2> HIDE DEF got
  <2>2. /\ j \in JobSet /\ j.asked = job[r].asked /\ j.rest = job[r].rest
        /\ j.missingUnis = job[r].missingUnis /\ j.want = job[r].want /\ j.missing = {}
        /\ j.toSet = got /\ j.fresh = job[r].fresh /\ j.toDelete = job[r].toDelete
        /\ j.answer = Over(got, job[r].answer) /\ j.school = job[r].school
        /\ j.snapshot = job[r].snapshot
    BY <1>0, <2>0 DEF JobSet
  <2> HIDE DEF j
  <2>3. ASSUME moves = 0 PROVE Gathered(home, "setDocs", j)
    <3> DEFINE all == Of(home, job[r].asked \ ToCome(job[r]))
    <3>1. /\ Unread(job[r]) \subseteq all /\ job[r].answer = Only(home, all \ Unread(job[r]))
          /\ Gathered(home, "docs", job[r])
      BY <1>0, <2>3 DEF Gathered
    <3>2. Unread(job[r]) = job[r].missing /\ Unread(j) = {} /\ ToCome(j) = ToCome(job[r])
      BY <1>0, <2>2 DEF Unread, ToCome
    <3> HIDE DEF all
    <3>3. job[r].missing \cup (all \ Unread(job[r])) = all \ Unread(j)
      BY <3>1, <3>2
    <3>4. Over(got, job[r].answer) = Only(home, job[r].missing \cup (all \ Unread(job[r])))
      BY <1>a, <3>1, OverOnly DEF got
    <3>5. j.answer = Only(home, all \ Unread(j)) /\ Unread(j) \subseteq all
      BY <2>2, <3>2, <3>3, <3>4
    <3>6. Agrees(home, got)
      BY <1>a, OnlyOf DEF got
    <3>7. j.want \cap j.missing = {}
      BY <2>2
    <3> QED
      BY <2>2, <3>1, <3>2, <3>5, <3>6, <3>7 DEF Gathered, all
  <2> QED
    BY <1>0, <1>b, <2>1, <2>2, <2>3, QuietStep
<1> QED
  BY <1>1, <1>2

LEMMA DocsSetKeeps ==
    ASSUME CacheInv, NEW r \in Readers, DocsSet(r) PROVE CacheInv'
<1>1. /\ job[r] \in JobSet
      /\ moves = 0 => Gathered(home, "unis", job[r])
      /\ pc[r] # "expire" /\ "unis" \in PCs
  BY ReaderIs DEF DocsSet, Gathered, PCs
<1> QED
  BY <1>1, QuietStep DEF DocsSet

LEMMA FetchByUnisKeeps ==
    ASSUME CacheInv, NEW r \in Readers, FetchByUnis(r) PROVE CacheInv'
<1> DEFINE got == Only(home, {d \in Deps : home[d] \in job[r].missingUnis})
           j == [job[r] EXCEPT !.toSet = got, !.fresh = got, !.answer = Over(got, @)]
<1>0. /\ job[r] \in JobSet /\ pc[r] = "unis" /\ job[r].rest = {}
      /\ moves = 0 => Gathered(home, "unis", job[r])
      /\ UNCHANGED <<apiVars, schoolVars, docVars, mapVars, faults>> /\ Goto(r, "setFresh", j)
  BY ReaderIs DEF FetchByUnis
<1>a. home \in [Deps -> Unis]
  BY ReaderIs
<1>b. pc[r] # "expire" /\ "setFresh" \in PCs
  BY <1>0 DEF PCs
<1>1. got = Only(home, Of(home, job[r].missingUnis))
  BY DEF Of
<1>2. got \in Partial /\ Over(got, job[r].answer) \in Partial
  <2>1. got \in Partial
    BY <1>a, OnlyIs
  <2>2. job[r].answer \in Partial
    BY <1>0 DEF JobSet
  <2> QED
    BY <2>1, <2>2, OverIs
<1> HIDE DEF got
<1>3. /\ j \in JobSet /\ j.asked = job[r].asked /\ j.rest = job[r].rest
      /\ j.missingUnis = job[r].missingUnis /\ j.want = job[r].want
      /\ j.missing = job[r].missing /\ j.toSet = got /\ j.fresh = got
      /\ j.toDelete = job[r].toDelete /\ j.answer = Over(got, job[r].answer)
      /\ j.school = job[r].school /\ j.snapshot = job[r].snapshot
  BY <1>0, <1>2 DEF JobSet
<1> HIDE DEF j
<1>4. ASSUME moves = 0 PROVE Gathered(home, "setFresh", j)
  <2> DEFINE all == Of(home, job[r].asked \ ToCome(job[r]))
  <2>1. /\ Gathered(home, "unis", job[r]) /\ Unread(job[r]) = {} /\ ~job[r].school
        /\ job[r].answer = Only(home, all \ Unread(job[r])) /\ ToCome(job[r]) \subseteq job[r].asked
    BY <1>0, <1>4 DEF Gathered
  <2>2. ToCome(job[r]) = job[r].missingUnis
    BY <1>0 DEF ToCome
  <2>3. Of(home, job[r].missingUnis) \cup (all \ Unread(job[r])) = Of(home, job[r].asked)
    BY <2>1, <2>2 DEF Of
  <2> HIDE DEF all
  <2>4. Over(got, job[r].answer)
           = Only(home, Of(home, job[r].missingUnis) \cup (all \ Unread(job[r])))
    BY <1>1, <1>a, <2>1, OverOnly
  <2>5. Agrees(home, got) /\ Whole(home, Domain(got))
    BY <1>1, <1>a, OnlyOf
  <2> QED
    BY <1>3, <2>1, <2>3, <2>4, <2>5 DEF Gathered
<1> QED
  BY <1>0, <1>b, <1>3, <1>4, QuietStep

\* A reader that ends keeps its answer.
LEMMA FinishIs ==
    ASSUME CacheInv, NEW r \in Readers,
           NEW j, j = [NoJob EXCEPT !.asked = job[r].asked, !.school = job[r].school,
                                    !.answer = job[r].answer]
    PROVE  /\ j \in JobSet /\ "idle" \in PCs
           /\ /\ job[r].asked # {} => job[r].answer = Only(home, Of(home, job[r].asked))
              /\ job[r].school => job[r].answer = Only(home, School)
              => Gathered(home, "idle", j)
<1>0. job[r] \in JobSet /\ home \in [Deps -> Unis] /\ NoJob \in JobSet
  BY ReaderIs, NoJobIs
<1>1. /\ j \in JobSet /\ j.asked = job[r].asked /\ j.school = job[r].school
      /\ j.answer = job[r].answer /\ j.snapshot = Nothing /\ j.toSet = Nothing
      /\ j.fresh = Nothing /\ j.toDelete = {}
  BY <1>0 DEF JobSet, NoJob
<1> QED
  BY <1>0, <1>1, NoJobIs DEF Gathered, PCs

LEMMA AllCachedKeeps ==
    ASSUME CacheInv, NEW r \in Readers, AllCached(r) PROVE CacheInv'
<1> DEFINE j == [NoJob EXCEPT !.asked = job[r].asked, !.school = job[r].school,
                              !.answer = job[r].answer]
<1>1. /\ Goto(r, "idle", j) /\ pc[r] = "unis" /\ pc[r] # "expire"
      /\ job[r].rest = {} /\ job[r].missingUnis = {}
      /\ UNCHANGED <<apiVars, schoolVars, docVars, mapVars, faults>>
  BY DEF AllCached, Finish
<1>2. ASSUME moves = 0
      PROVE  ~job[r].school /\ job[r].answer = Only(home, Of(home, job[r].asked))
  <2>1. /\ Unread(job[r]) = {} /\ ~job[r].school
        /\ job[r].answer = Only(home, Of(home, job[r].asked \ ToCome(job[r])) \ Unread(job[r]))
    BY <1>1, <1>2, ReaderIs DEF Gathered
  <2>2. job[r].asked \ ToCome(job[r]) = job[r].asked
    BY <1>1 DEF ToCome
  <2>3. Of(home, job[r].asked) \ {} = Of(home, job[r].asked)
    OBVIOUS
  <2> QED
    BY <2>1, <2>2, <2>3
<1> HIDE DEF j
<1>3. j \in JobSet /\ "idle" \in PCs /\ (moves = 0 => Gathered(home, "idle", j))
  BY <1>2, FinishIs DEF j
<1> QED
  BY <1>1, <1>3, QuietStep

LEMMA UpdateMapKeeps ==
    ASSUME CacheInv, NEW r \in Readers, UpdateMap(r) PROVE CacheInv'
<1> DEFINE j == [NoJob EXCEPT !.asked = job[r].asked, !.school = job[r].school,
                              !.answer = job[r].answer]
<1>0. /\ pc[r] = "setFresh" /\ pc[r] # "expire" /\ job[r] \in JobSet
      /\ UNCHANGED <<apiVars, schoolVars, docVars, mapVars, faults>>
      /\ moves = 0 => Gathered(home, "setFresh", job[r])
  BY ReaderIs DEF UpdateMap
<1>1. CASE job[r].fresh = Nothing
  <2>1. Goto(r, "idle", j)
    BY <1>1 DEF UpdateMap, Finish
  <2> HIDE DEF j
  <2>2. moves = 0 => ~job[r].school /\ job[r].answer = Only(home, Of(home, job[r].asked))
    BY <1>0 DEF Gathered
  <2>3. j \in JobSet /\ "idle" \in PCs /\ (moves = 0 => Gathered(home, "idle", j))
    BY <2>2, FinishIs DEF j
  <2> QED
    BY <1>0, <2>1, <2>3, QuietStep
<1>2. CASE job[r].fresh # Nothing
  <2>1. Goto(r, "existing", job[r])
    BY <1>2 DEF UpdateMap
  <2>2. moves = 0 => Gathered(home, "existing", job[r])
    BY <1>0 DEF Gathered
  <2>3. "existing" \in PCs
    BY DEF PCs
  <2> QED
    BY <1>0, <2>1, <2>2, <2>3, QuietStep
<1> QED
  BY <1>1, <1>2

LEMMA ReadExistingKeeps ==
    ASSUME CacheInv, NEW r \in Readers, ReadExisting(r) PROVE CacheInv'
<1> DEFINE uniIds == {job[r].fresh[d] : d \in Domain(job[r].fresh)}
           old == {d \in Deps : map[d] \in uniIds}
           j == [job[r] EXCEPT !.toDelete = old]
<1>0. /\ pc[r] = "existing" /\ pc[r] # "expire" /\ job[r] \in JobSet
      /\ UNCHANGED <<apiVars, schoolVars, docVars, mapVars, faults>>
      /\ moves = 0 => Gathered(home, "existing", job[r])
  BY ReaderIs DEF ReadExisting
<1>1. PICK p \in {"hset", "hdel"} : Goto(r, p, j)
  BY DEF ReadExisting
<1>2. /\ j \in JobSet /\ j.asked = job[r].asked /\ j.toSet = job[r].toSet
      /\ j.fresh = job[r].fresh /\ j.toDelete = old /\ j.answer = job[r].answer
      /\ j.school = job[r].school /\ j.snapshot = job[r].snapshot
  BY <1>0 DEF JobSet
<1> HIDE DEF j
<1>3. ASSUME moves = 0 PROVE Whole(home, old)
  <2>1. \A d \in Deps : map[d] \in uniIds => map[d] # None
    BY DEF Domain
  <2>2. Agrees(home, map) /\ Whole(home, Domain(map))
    BY <1>3 DEF CacheInv, StoreIsTrue
  <2> HIDE DEF uniIds
  <2>3. ASSUME NEW d \in Deps, NEW e \in Deps, home[d] = home[e], map[d] \in uniIds
        PROVE  map[e] \in uniIds
    <3>1. map[d] = home[d] /\ d \in Domain(map)
      BY <2>1, <2>2, <2>3 DEF Agrees, Domain
    <3>2. map[e] = home[e]
      BY <2>2, <2>3, <3>1 DEF Agrees, Whole, Domain
    <3> QED
      BY <2>3, <3>1, <3>2
  <2> QED
    BY <2>3 DEF Whole
<1> HIDE DEF old
<1>4. moves = 0 => Gathered(home, p, j)
  BY <1>0, <1>2, <1>3 DEF Gathered
<1>5. p \in PCs
  BY DEF PCs
<1> QED
  BY <1>0, <1>1, <1>2, <1>4, <1>5, QuietStep

\* The jobs that get_department_by_id_cached and get_departments_by_school_id_cached
\* have: nothing was asked of the hash.
LEMMA SmallJobs ==
    ASSUME CacheInv, NEW j \in JobSet,
           NEW p \in {"one", "setOne", "school", "setSchool", "idle"},
           j.asked = {}, p \in {"one", "setOne"} => ~j.school,
           p \in {"school", "setSchool"} => j.school,
           moves = 0 /\ (p = "setSchool" \/ (p = "idle" /\ j.school)) =>
              j.answer = Only(home, School),
           j.snapshot = Nothing, j.fresh = Nothing, j.toDelete = {},
           moves = 0 => Agrees(home, j.toSet)
    PROVE  p \in PCs /\ (moves = 0 => Gathered(home, p, j))
<1>1. home \in [Deps -> Unis]
  BY DEF CacheInv, Shape
<1> QED
  BY <1>1, NoJobIs DEF Gathered, PCs

\* Nor does a reader with no job claim anything.
LEMMA IdleJob ==
    ASSUME CacheInv
    PROVE  NoJob \in JobSet /\ "idle" \in PCs /\ (moves = 0 => Gathered(home, "idle", NoJob))
<1>1. /\ NoJob \in JobSet /\ NoJob.asked = {} /\ NoJob.school = FALSE
      /\ NoJob.snapshot = Nothing /\ NoJob.fresh = Nothing /\ NoJob.toDelete = {}
      /\ NoJob.toSet = Nothing
  BY NothingIs DEF NoJob, JobSet
<1>2. home \in [Deps -> Unis]
  BY DEF CacheInv, Shape
<1> QED
  BY <1>1, <1>2, NoJobIs, SmallJobs

LEMMA ByIdKeeps ==
    ASSUME CacheInv, NEW r \in Readers, NEW d \in Deps, ById(r, d) PROVE CacheInv'
<1>0. /\ pc[r] # "expire" /\ UNCHANGED <<apiVars, schoolVars, docVars, mapVars, faults>>
      /\ home \in [Deps -> Unis]
  BY ReaderIs DEF ById
<1>1. CASE doc[d] # None
  <2>1. Goto(r, "idle", NoJob)
    BY <1>1 DEF ById
  <2> QED
    BY <1>0, <2>1, IdleJob, QuietStep
<1>2. CASE doc[d] = None
  <2> DEFINE j == [NoJob EXCEPT !.want = {d}]
  <2>1. Goto(r, "one", j)
    BY <1>2 DEF ById
  <2>2. /\ j \in JobSet /\ j.asked = {} /\ j.school = FALSE /\ j.snapshot = Nothing
        /\ j.fresh = Nothing /\ j.toDelete = {} /\ j.toSet = Nothing
    BY NothingIs DEF NoJob, JobSet
  <2> HIDE DEF j
  <2>3. "one" \in PCs /\ (moves = 0 => Gathered(home, "one", j))
    BY <1>0, <2>2, NoJobIs, SmallJobs
  <2> QED
    BY <1>0, <2>1, <2>2, <2>3, QuietStep
<1> QED
  BY <1>1, <1>2

LEMMA FetchOneKeeps ==
    ASSUME CacheInv, NEW r \in Readers, FetchOne(r) PROVE CacheInv'
<1> DEFINE got == Only(home, job[r].want)
           j == [NoJob EXCEPT !.toSet = got]
<1>0. /\ pc[r] # "expire" /\ UNCHANGED <<apiVars, schoolVars, docVars, mapVars, faults>>
      /\ Goto(r, "setOne", j)
  BY DEF FetchOne
<1>1. got \in Partial /\ Agrees(home, got)
  BY ReaderIs, OnlyIs, OnlyOf
<1> HIDE DEF got
<1>2. /\ j \in JobSet /\ j.asked = {} /\ j.school = FALSE /\ j.snapshot = Nothing
      /\ j.fresh = Nothing /\ j.toDelete = {} /\ j.toSet = got
  BY <1>1, NothingIs DEF NoJob, JobSet
<1> HIDE DEF j
<1>3. "setOne" \in PCs /\ (moves = 0 => Gathered(home, "setOne", j))
  BY <1>1, <1>2, SmallJobs
<1> QED
  BY <1>0, <1>2, <1>3, QuietStep

LEMMA BySchoolIdKeeps ==
    ASSUME CacheInv, NEW r \in Readers, BySchoolId(r) PROVE CacheInv'
<1>0. /\ pc[r] # "expire" /\ UNCHANGED <<apiVars, schoolVars, docVars, mapVars, faults>>
      /\ home \in [Deps -> Unis] /\ school \in Partial
      /\ moves = 0 => school \in {Nothing, Only(home, School)}
  BY DEF BySchoolId, CacheInv, Shape, StoreIsTrue
<1>1. CASE school # Nothing
  <2> DEFINE j == [NoJob EXCEPT !.school = TRUE, !.answer = school]
  <2>1. [[NoJob EXCEPT !.school = TRUE] EXCEPT !.answer = school] = j
    BY DEF NoJob
  <2>2. Goto(r, "idle", j)
    BY <1>1, <2>1 DEF BySchoolId
  <2>3. /\ j \in JobSet /\ j.asked = {} /\ j.school = TRUE /\ j.snapshot = Nothing
        /\ j.fresh = Nothing /\ j.toDelete = {} /\ j.toSet = Nothing /\ j.answer = school
    BY <1>0, NothingIs DEF NoJob, JobSet
  <2> HIDE DEF j
  <2>4. "idle" \in PCs /\ (moves = 0 => Gathered(home, "idle", j))
    BY <1>0, <1>1, <2>3, NoJobIs, SmallJobs
  <2> QED
    BY <1>0, <2>2, <2>3, <2>4, QuietStep
<1>2. CASE school = Nothing
  <2> DEFINE j == [NoJob EXCEPT !.school = TRUE]
  <2>1. Goto(r, "school", j)
    BY <1>2 DEF BySchoolId
  <2>2. /\ j \in JobSet /\ j.asked = {} /\ j.school = TRUE /\ j.snapshot = Nothing
        /\ j.fresh = Nothing /\ j.toDelete = {} /\ j.toSet = Nothing
    BY NothingIs DEF NoJob, JobSet
  <2> HIDE DEF j
  <2>3. "school" \in PCs /\ (moves = 0 => Gathered(home, "school", j))
    BY <1>0, <2>2, NoJobIs, SmallJobs
  <2> QED
    BY <1>0, <2>1, <2>2, <2>3, QuietStep
<1> QED
  BY <1>1, <1>2

LEMMA FetchSchoolKeeps ==
    ASSUME CacheInv, NEW r \in Readers, FetchSchool(r) PROVE CacheInv'
<1> DEFINE got == Only(home, School)
           j == [job[r] EXCEPT !.answer = got]
<1>0. /\ pc[r] = "school" /\ pc[r] # "expire" /\ Goto(r, "setSchool", j)
      /\ UNCHANGED <<apiVars, schoolVars, docVars, mapVars, faults>> /\ job[r] \in JobSet
      /\ moves = 0 => Gathered(home, "school", job[r])
  BY ReaderIs DEF FetchSchool
<1>1. got \in Partial
  BY ReaderIs, OnlyIs
<1> HIDE DEF got
<1>2. /\ j \in JobSet /\ j.asked = job[r].asked /\ j.school = job[r].school
      /\ j.snapshot = job[r].snapshot /\ j.fresh = job[r].fresh
      /\ j.toDelete = job[r].toDelete /\ j.toSet = job[r].toSet /\ j.answer = got
  BY <1>0, <1>1 DEF JobSet
<1> HIDE DEF j
<1>3. moves = 0 => Gathered(home, "setSchool", j)
  BY <1>0, <1>2 DEF Gathered, got
<1>4. "setSchool" \in PCs
  BY DEF PCs
<1> QED
  BY <1>0, <1>2, <1>3, <1>4, QuietStep

-----------------------------------------------------------------------------
(* Steps that write *)

\* A document is set with its time to live.
LEMMA SetJsonKeeps ==
    ASSUME CacheInv, NEW d \in Deps, NEW u \in Unis, SetJson(d, u)
    PROVE  /\ doc' \in Partial /\ docTtl' \in [Deps -> {NoTtl} \cup 1..Ttl]
           /\ \A c \in Deps : doc'[c] # None => docTtl'[c] # NoTtl
           /\ moves = 0 /\ u = home[d] => Agrees(home, doc')
<1>1. doc \in Partial /\ docTtl \in [Deps -> {NoTtl} \cup 1..Ttl]
  BY DEF CacheInv, Shape
<1>2. Ttl \in {NoTtl} \cup 1..Ttl /\ Ttl # NoTtl
  BY NoneIsNoUni DEF NoTtl
<1>3. doc' \in Partial /\ docTtl' \in [Deps -> {NoTtl} \cup 1..Ttl]
  BY <1>1, <1>2 DEF SetJson, Partial
<1>4. /\ doc'[d] = u /\ docTtl'[d] = Ttl
      /\ \A c \in Deps : c # d => doc'[c] = doc[c] /\ docTtl'[c] = docTtl[c]
  BY <1>1 DEF SetJson, Partial
<1>5. \A c \in Deps : doc'[c] # None => docTtl'[c] # NoTtl
  BY <1>2, <1>4 DEF CacheInv, TtlInv
<1>6. moves = 0 /\ u = home[d] => Agrees(home, doc')
  BY <1>4 DEF CacheInv, StoreIsTrue, Agrees
<1> QED
  BY <1>3, <1>5, <1>6

\* A step of r that sets a document
LEMMA DocStep ==
    ASSUME CacheInv, NEW r \in Readers, NEW p \in PCs, NEW j \in JobSet, Goto(r, p, j),
           NEW d \in Deps, NEW u \in Unis, SetJson(d, u), moves = 0 => u = home[d],
           UNCHANGED <<apiVars, schoolVars, mapVars, faults>>,
           pc[r] # "expire", moves = 0 => Gathered(home, p, j)
    PROVE  CacheInv'
<1>1. /\ home' = home /\ moves' = moves /\ school' = school
      /\ schoolTtl' = schoolTtl /\ map' = map /\ mapTtl' = mapTtl /\ faults' = faults
  BY DEF apiVars, schoolVars, mapVars
<1>2. UNCHANGED apiVars
  BY <1>1 DEF apiVars
<1>3. /\ pc' \in [Readers -> PCs] /\ job' \in [Readers -> JobSet]
      /\ moves' = 0 => \A q \in Readers : Gathered(home, pc[q], job[q])'
      /\ \A q \in Readers : q # r => pc'[q] = pc[q]
  BY <1>2, OneReader
<1>4. Shape'
  BY <1>1, <1>3, SetJsonKeeps DEF CacheInv, Shape
<1>5. TtlInv'
  BY <1>1, <1>3, SetJsonKeeps DEF CacheInv, TtlInv
<1>6. moves' = 0 => StoreIsTrue'
  BY <1>1, SetJsonKeeps DEF CacheInv, StoreIsTrue
<1> QED
  BY <1>3, <1>4, <1>5, <1>6 DEF CacheInv

LEMMA SetDocKeeps ==
    ASSUME CacheInv, NEW r \in Readers, NEW d \in Deps, SetDoc(r, d) PROVE CacheInv'
<1> DEFINE j == [job[r] EXCEPT !.toSet[d] = None]
           u == job[r].toSet[d]
<1>0. /\ pc[r] \in {"setDocs", "setFresh"} /\ pc[r] # "expire" /\ Goto(r, pc[r], j)
      /\ SetJson(d, u) /\ UNCHANGED <<apiVars, schoolVars, mapVars, faults>>
      /\ job[r] \in JobSet /\ pc[r] \in PCs
      /\ moves = 0 => Gathered(home, pc[r], job[r])
  BY ReaderIs DEF SetDoc
<1>1. job[r].toSet \in Partial /\ u \in Unis
  BY <1>0 DEF SetDoc, JobSet, Partial, Domain
<1>2. moves = 0 => u = home[d]
  BY <1>0, <1>1, NoneIsNoUni DEF Gathered, Agrees
<1>3. [job[r].toSet EXCEPT ![d] = None] \in Partial
  BY <1>1 DEF Partial
<1>4. /\ j \in JobSet /\ j.asked = job[r].asked /\ j.rest = job[r].rest
      /\ j.missingUnis = job[r].missingUnis /\ j.want = job[r].want
      /\ j.missing = job[r].missing /\ j.toSet = [job[r].toSet EXCEPT ![d] = None]
      /\ j.fresh = job[r].fresh /\ j.toDelete = job[r].toDelete /\ j.answer = job[r].answer
      /\ j.school = job[r].school /\ j.snapshot = job[r].snapshot
  BY <1>0, <1>3 DEF JobSet
<1> HIDE DEF j
<1>5. moves = 0 => Agrees(home, j.toSet)
  BY <1>0, <1>1, <1>4 DEF Gathered, Agrees, Partial
<1>6. ToCome(j) = ToCome(job[r]) /\ Unread(j) = Unread(job[r])
  BY <1>4 DEF ToCome, Unread
<1>7. moves = 0 => Gathered(home, pc[r], j)
  BY <1>0, <1>4, <1>5, <1>6 DEF Gathered
<1> HIDE DEF u
<1> QED
  BY <1>0, <1>1, <1>2, <1>4, <1>7, DocStep

LEMMA SetOneKeeps ==
    ASSUME CacheInv, NEW r \in Readers, SetOne(r) PROVE CacheInv'
<1>0. /\ pc[r] # "expire" /\ Goto(r, "idle", NoJob) /\ job[r] \in JobSet
      /\ UNCHANGED <<apiVars, schoolVars, mapVars, faults>>
      /\ moves = 0 => Agrees(home, job[r].toSet)
  BY ReaderIs DEF SetOne, Gathered
<1>1. PICK d \in Domain(job[r].toSet) : SetJson(d, job[r].toSet[d])
  BY DEF SetOne
<1>2. d \in Deps /\ job[r].toSet[d] \in Unis /\ (moves = 0 => job[r].toSet[d] = home[d])
  BY <1>0, <1>1 DEF Domain, JobSet, Partial, Agrees
<1> QED
  BY <1>0, <1>1, <1>2, IdleJob, DocStep

\* A step of r that writes the hash: without a time to live only on the way to
\* its expire, or when it had none before
LEMMA MapStep ==
    ASSUME CacheInv, NEW r \in Readers, NEW p \in PCs, NEW j \in JobSet, Goto(r, p, j),
           map' \in Partial, mapTtl' \in {NoTtl} \cup 1..Ttl,
           map' # Nothing /\ mapTtl' = NoTtl =>
              p = "expire" \/ (pc[r] # "expire" /\ map # Nothing /\ mapTtl = NoTtl),
           UNCHANGED <<apiVars, schoolVars, docVars, faults>>,
           moves = 0 => Agrees(home, map') /\ Whole(home, Domain(map')) /\ Gathered(home, p, j)
    PROVE  CacheInv'
<1>1. /\ home' = home /\ moves' = moves /\ doc' = doc /\ docTtl' = docTtl
      /\ school' = school /\ schoolTtl' = schoolTtl /\ faults' = faults
  BY DEF apiVars, schoolVars, docVars
<1>2. UNCHANGED apiVars
  BY <1>1 DEF apiVars
<1>3. /\ pc' \in [Readers -> PCs] /\ job' \in [Readers -> JobSet]
      /\ moves' = 0 => \A q \in Readers : Gathered(home, pc[q], job[q])'
      /\ pc'[r] = p /\ \A q \in Readers : q # r => pc'[q] = pc[q]
  BY <1>2, OneReader
<1>4. Shape'
  BY <1>1, <1>3 DEF CacheInv, Shape
<1>5. TtlInv'
  BY <1>1, <1>3 DEF CacheInv, TtlInv
<1>6. moves' = 0 => StoreIsTrue'
  BY <1>1 DEF CacheInv, StoreIsTrue, Domain
<1> QED
  BY <1>3, <1>4, <1>5, <1>6 DEF CacheInv

\* hdel removes whole universities, and is no first write.
LEMMA HDelKeeps ==
    ASSUME CacheInv, NEW r \in Readers, HDel(r) PROVE CacheInv'
<1>0. /\ pc[r] = "hdel" /\ pc[r] # "expire" /\ Goto(r, "hset", job[r])
      /\ UNCHANGED <<apiVars, schoolVars, docVars, faults>>
      /\ mapTtl' = IF map' = Nothing THEN NoTtl ELSE mapTtl
  BY DEF HDel
<1>1. /\ job[r] \in JobSet /\ map \in Partial /\ mapTtl \in {NoTtl} \cup 1..Ttl
      /\ "hset" \in PCs
  BY ReaderIs DEF CacheInv, Shape, PCs
<1>2. map' = [d \in Deps |-> IF d \in job[r].toDelete THEN None ELSE map[d]]
  BY DEF HDel
<1>3. /\ map' \in Partial
      /\ \A d \in Deps : map'[d] = IF d \in job[r].toDelete THEN None ELSE map[d]
  BY <1>1, <1>2 DEF Partial
<1>4. map' # Nothing => map # Nothing
  <2>1. ASSUME map = Nothing PROVE map' = Nothing
    <3>1. \A d \in Deps : map'[d] = Nothing[d]
      BY <1>3, <2>1, NothingIs
    <3> QED
      BY <1>3, <3>1, NothingIs, SamePartial
  <2> QED
    BY <2>1
<1>5. mapTtl' \in {NoTtl} \cup 1..Ttl /\ (map' # Nothing => mapTtl' = mapTtl)
  BY <1>0, <1>1
<1>6. ASSUME moves = 0
      PROVE  Agrees(home, map') /\ Whole(home, Domain(map')) /\ Gathered(home, "hset", job[r])
  <2>1. Gathered(home, "hdel", job[r])
    BY <1>0, <1>6, ReaderIs
  <2>2. Whole(home, job[r].toDelete) /\ Gathered(home, "hset", job[r])
    BY <2>1 DEF Gathered
  <2>3. Agrees(home, map) /\ Whole(home, Domain(map))
    BY <1>6 DEF CacheInv, StoreIsTrue
  <2>4. Agrees(home, map')
    BY <1>3, <2>3 DEF Agrees
  <2>5. Whole(home, Domain(map'))
    BY <1>3, <2>2, <2>3 DEF Whole, Domain
  <2> QED
    BY <2>2, <2>4, <2>5
<1> QED
  BY <1>0, <1>1, <1>3, <1>4, <1>5, <1>6, MapStep

\* hset adds whole universities; the reader is then the one that gives the hash its
\* time to live.
LEMMA HSetKeeps ==
    ASSUME CacheInv, NEW r \in Readers, HSet(r) PROVE CacheInv'
<1>0. /\ pc[r] = "hset" /\ Goto(r, "expire", job[r]) /\ mapTtl' = mapTtl
      /\ UNCHANGED <<apiVars, schoolVars, docVars, faults>>
  BY DEF HSet
<1>1. /\ job[r] \in JobSet /\ map \in Partial /\ mapTtl \in {NoTtl} \cup 1..Ttl
      /\ "expire" \in PCs
  BY ReaderIs DEF CacheInv, Shape, PCs
<1>2. map' = Over(job[r].fresh, map) /\ job[r].fresh \in Partial
  BY <1>1 DEF HSet, Mapping, JobSet
<1>3. /\ map' \in Partial
      /\ \A d \in Deps : map'[d] = IF job[r].fresh[d] # None THEN job[r].fresh[d] ELSE map[d]
  BY <1>1, <1>2, OverIs
<1>4. ASSUME moves = 0
      PROVE  Agrees(home, map') /\ Whole(home, Domain(map')) /\ Gathered(home, "expire", job[r])
  <2>1. Gathered(home, "hset", job[r])
    BY <1>0, <1>4, ReaderIs
  <2>2. /\ Agrees(home, job[r].fresh) /\ Whole(home, Domain(job[r].fresh))
        /\ Gathered(home, "expire", job[r])
    BY <2>1 DEF Gathered
  <2>3. Agrees(home, map) /\ Whole(home, Domain(map))
    BY <1>4 DEF CacheInv, StoreIsTrue
  <2>4. Agrees(home, map')
    BY <1>3, <2>2, <2>3 DEF Agrees
  <2>5. \A d \in Deps : d \in Domain(map') <=> d \in Domain(job[r].fresh) \/ d \in Domain(map)
    BY <1>3 DEF Domain
  <2>6. Whole(home, Domain(map'))
    BY <2>2, <2>3, <2>5 DEF Whole
  <2> QED
    BY <2>2, <2>4, <2>6
<1>5. mapTtl' \in {NoTtl} \cup 1..Ttl
  BY <1>0, <1>1
<1> QED
  BY <1>0, <1>1, <1>3, <1>4, <1>5, MapStep

LEMMA ExpireKeeps ==
    ASSUME CacheInv, NEW r \in Readers, Expire(r) PROVE CacheInv'
<1> DEFINE j == [NoJob EXCEPT !.asked = job[r].asked, !.school = job[r].school,
                              !.answer = job[r].answer]
<1>0. /\ pc[r] = "expire" /\ Goto(r, "idle", j) /\ map' = map
      /\ UNCHANGED <<apiVars, schoolVars, docVars, faults>>
      /\ mapTtl' = IF map = Nothing THEN NoTtl ELSE Ttl
  BY DEF Expire, Finish, NewTtl
<1> HIDE DEF j
<1>1. map \in Partial
  BY DEF CacheInv, Shape
<1>2. mapTtl' \in {NoTtl} \cup 1..Ttl /\ (map # Nothing => mapTtl' # NoTtl)
  BY <1>0, NoneIsNoUni DEF NoTtl
<1>3. moves = 0 => ~job[r].school /\ job[r].answer = Only(home, Of(home, job[r].asked))
  BY <1>0, ReaderIs DEF Gathered
<1>4. j \in JobSet /\ "idle" \in PCs /\ (moves = 0 => Gathered(home, "idle", j))
  BY <1>3, FinishIs DEF j
<1>5. moves = 0 => Agrees(home, map') /\ Whole(home, Domain(map'))
  BY <1>0 DEF CacheInv, StoreIsTrue
<1> QED
  BY <1>0, <1>1, <1>2, <1>4, <1>5, MapStep

LEMMA SetSchoolKeeps ==
    ASSUME CacheInv, NEW r \in Readers, SetSchool(r) PROVE CacheInv'
<1> DEFINE j == [NoJob EXCEPT !.asked = job[r].asked, !.school = job[r].school,
                              !.answer = job[r].answer]
<1>1. /\ pc[r] = "setSchool" /\ Goto(r, "idle", j)
      /\ school' = job[r].answer /\ schoolTtl' = Ttl
      /\ home' = home /\ moves' = moves /\ doc' = doc /\ docTtl' = docTtl
      /\ map' = map /\ mapTtl' = mapTtl /\ faults' = faults
  BY DEF SetSchool, Finish, apiVars, docVars, mapVars
<1>2. UNCHANGED apiVars
  BY <1>1 DEF apiVars
<1> HIDE DEF j
<1>3. moves = 0 => job[r].asked = {} /\ job[r].answer = Only(home, School)
  BY <1>1, ReaderIs DEF Gathered
<1>4. j \in JobSet /\ "idle" \in PCs /\ (moves = 0 => Gathered(home, "idle", j))
  BY <1>3, FinishIs DEF j
<1>5. /\ pc' \in [Readers -> PCs] /\ job' \in [Readers -> JobSet]
      /\ moves' = 0 => \A q \in Readers : Gathered(home, pc[q], job[q])'
      /\ pc'[r] = "idle" /\ \A q \in Readers : q # r => pc'[q] = pc[q]
  BY <1>1, <1>2, <1>4, OneReader
<1>6. school' \in Partial /\ schoolTtl' \in {NoTtl} \cup 1..Ttl /\ schoolTtl' # NoTtl
  BY <1>1, ReaderIs, NoneIsNoUni DEF JobSet, NoTtl
<1>7. Shape'
  BY <1>1, <1>5, <1>6 DEF CacheInv, Shape
<1>8. TtlInv'
  BY <1>1, <1>5, <1>6 DEF CacheInv, TtlInv
<1>9. moves' = 0 => StoreIsTrue'
  BY <1>1, <1>3 DEF CacheInv, StoreIsTrue
<1> QED
  BY <1>5, <1>7, <1>8, <1>9 DEF CacheInv

-----------------------------------------------------------------------------
(* Faults, moves and time *)

\* A reader that fails may leave the hash without a time to live, for good.
LEMMA FailKeeps ==
    ASSUME CacheInv, NEW r \in Readers, Fail(r) PROVE CacheInv'
<1>1. /\ Goto(r, "idle", NoJob) /\ faults' = faults + 1
      /\ home' = home /\ moves' = moves /\ doc' = doc /\ docTtl' = docTtl
      /\ school' = school /\ schoolTtl' = schoolTtl /\ map' = map /\ mapTtl' = mapTtl
  BY DEF Fail, apiVars, schoolVars, docVars, mapVars
<1>2. UNCHANGED apiVars
  BY <1>1 DEF apiVars
<1>3. /\ pc' \in [Readers -> PCs] /\ job' \in [Readers -> JobSet]
      /\ moves' = 0 => \A q \in Readers : Gathered(home, pc[q], job[q])'
  BY <1>1, <1>2, IdleJob, OneReader
<1>4. faults' \in Nat /\ faults' # 0
  BY <1>1 DEF CacheInv, Shape
<1>5. Shape'
  BY <1>1, <1>3, <1>4 DEF CacheInv, Shape
<1>6. TtlInv'
  BY <1>1, <1>4 DEF CacheInv, TtlInv
<1>7. moves' = 0 => StoreIsTrue'
  BY <1>1 DEF CacheInv, StoreIsTrue
<1> QED
  BY <1>3, <1>5, <1>6, <1>7 DEF CacheInv

LEMMA MoveKeeps ==
    ASSUME CacheInv, NEW d \in Deps, NEW u \in Unis, Move(d, u) PROVE CacheInv'
<1>1. /\ doc' = doc /\ docTtl' = docTtl /\ faults' = faults /\ pc' = pc /\ job' = job
      /\ school' = school /\ schoolTtl' = schoolTtl /\ map' = map /\ mapTtl' = mapTtl
      /\ home' = [home EXCEPT ![d] = u] /\ moves' = moves + 1
  BY DEF Move, schoolVars, docVars, mapVars
<1>2. moves' \in Nat /\ moves' # 0 /\ home' \in [Deps -> Unis]
  BY <1>1 DEF CacheInv, Shape
<1>3. Shape'
  BY <1>1, <1>2 DEF CacheInv, Shape
<1>4. TtlInv'
  BY <1>1 DEF CacheInv, TtlInv
<1> QED
  BY <1>2, <1>3, <1>4 DEF CacheInv

LEMMA LessIs ==
    ASSUME NEW t \in {NoTtl} \cup 1..Ttl
    PROVE  Less(t) \in {NoTtl} \cup 1..Ttl /\ (Less(t) = NoTtl <=> t \in {NoTtl, 1})
BY NoneIsNoUni DEF Less, NoTtl

\* What expires goes with its time to live.
LEMMA TickKeeps ==
    ASSUME CacheInv, Tick PROVE CacheInv'
<1>1. /\ home' = home /\ moves' = moves /\ faults' = faults /\ pc' = pc /\ job' = job
      /\ schoolTtl' = Less(schoolTtl) /\ mapTtl' = Less(mapTtl)
      /\ school' = IF schoolTtl' = NoTtl THEN Nothing ELSE school
      /\ map' = IF mapTtl = 1 THEN Nothing ELSE map
  BY DEF Tick, apiVars
<1>2. /\ doc \in Partial /\ docTtl \in [Deps -> {NoTtl} \cup 1..Ttl]
      /\ school \in Partial /\ schoolTtl \in {NoTtl} \cup 1..Ttl
      /\ map \in Partial /\ mapTtl \in {NoTtl} \cup 1..Ttl
  BY DEF CacheInv, Shape
<1>3. /\ docTtl' = [d \in Deps |-> Less(docTtl[d])]
      /\ doc' = [d \in Deps |-> IF docTtl'[d] = NoTtl THEN None ELSE doc[d]]
  BY DEF Tick
<1>4. docTtl' \in [Deps -> {NoTtl} \cup 1..Ttl]
  BY <1>2, <1>3, LessIs
<1>5. doc' \in Partial /\ \A d \in Deps : doc'[d] = IF docTtl'[d] = NoTtl THEN None ELSE doc[d]
  BY <1>2, <1>3 DEF Partial
<1>6. schoolTtl' \in {NoTtl} \cup 1..Ttl /\ mapTtl' \in {NoTtl} \cup 1..Ttl
      /\ (mapTtl' = NoTtl <=> mapTtl \in {NoTtl, 1})
  BY <1>1, <1>2, LessIs
<1>7. school' \in {Nothing, school} /\ map' \in {Nothing, map}
  BY <1>1
<1>8. Shape'
  BY <1>1, <1>2, <1>4, <1>5, <1>6, <1>7, NothingIs DEF CacheInv, Shape
<1>9. TtlInv'
  BY <1>1, <1>5, <1>6 DEF CacheInv, TtlInv
<1>10. ASSUME moves = 0 PROVE StoreIsTrue' /\ \A r \in Readers : Gathered(home, pc[r], job[r])'
  <2>0. StoreIsTrue /\ home \in [Deps -> Unis] /\ \A r \in Readers : Gathered(home, pc[r], job[r])
    BY <1>10 DEF CacheInv, Shape
  <2>1. Agrees(home, doc')
    BY <1>5, <2>0 DEF StoreIsTrue, Agrees
  <2>2. Agrees(home, map') /\ Whole(home, Domain(map'))
    BY <1>7, <2>0, NoJobIs DEF StoreIsTrue
  <2>3. school' \in {Nothing, Only(home, School)}
    BY <1>7, <2>0 DEF StoreIsTrue
  <2>4. StoreIsTrue'
    BY <1>1, <2>1, <2>2, <2>3 DEF StoreIsTrue, Domain
  <2>5. \A r \in Readers : Gathered(home, pc[r], job[r])'
    BY <1>1, <2>0
  <2> QED
    BY <2>4, <2>5
<1> QED
  BY <1>1, <1>8, <1>9, <1>10 DEF CacheInv

-----------------------------------------------------------------------------
(* The invariant and what follows from it *)

LEMMA CacheInit == Init => CacheInv
<1> SUFFICES ASSUME Init PROVE CacheInv
  OBVIOUS
<1>1. Shape /\ TtlInv
  BY NothingIs, NoJobIs DEF Init, Shape, TtlInv, PCs, Partial
<1>2. home \in [Deps -> Unis] /\ doc = Nothing /\ map = Nothing /\ school = Nothing
  BY DEF Init
<1>3. StoreIsTrue
  BY <1>2, NoJobIs DEF StoreIsTrue
<1>4. ASSUME NEW r \in Readers PROVE Gathered(home, pc[r], job[r])
  <2>1. pc[r] = "idle" /\ job[r] = NoJob
    BY DEF Init
  <2>2. /\ NoJob.asked = {} /\ NoJob.school = FALSE /\ NoJob.snapshot = Nothing
        /\ NoJob.fresh = Nothing /\ NoJob.toDelete = {} /\ NoJob.toSet = Nothing
    BY DEF NoJob
  <2> QED
    BY <1>2, <2>1, <2>2, NoJobIs DEF Gathered
<1> QED
  BY <1>1, <1>3, <1>4 DEF CacheInv

LEMMA CacheNext == CacheInv /\ [Next]_vars => CacheInv'
<1> SUFFICES ASSUME CacheInv, [Next]_vars PROVE CacheInv'
  OBVIOUS
<1>1. CASE Tick
  BY <1>1, TickKeeps
<1>2. ASSUME NEW d \in Deps, NEW u \in Unis, Move(d, u) PROVE CacheInv'
  BY <1>2, MoveKeeps
<1>3. ASSUME NEW r \in Readers,
             \/ \E U \in SUBSET Unis : ByUniversityIds(r, U)
             \/ HGetAll(r) \/ FetchByIds(r) \/ DocsSet(r) \/ FetchByUnis(r) \/ AllCached(r)
             \/ UpdateMap(r) \/ ReadExisting(r) \/ \E u \in Unis : NextUni(r, u)
      PROVE  CacheInv'
  BY <1>3, ByUniversityIdsKeeps, HGetAllKeeps, FetchByIdsKeeps, DocsSetKeeps, FetchByUnisKeeps,
     AllCachedKeeps, UpdateMapKeeps, ReadExistingKeeps, NextUniKeeps
<1>4. ASSUME NEW r \in Readers,
             \/ HDel(r) \/ HSet(r) \/ Expire(r) \/ FetchOne(r) \/ SetOne(r) \/ Fail(r)
             \/ BySchoolId(r) \/ FetchSchool(r) \/ SetSchool(r)
             \/ \E d \in Deps : ReadDoc(r, d) \/ SetDoc(r, d) \/ ById(r, d)
      PROVE  CacheInv'
  BY <1>4, HDelKeeps, HSetKeeps, ExpireKeeps, FetchOneKeeps, SetOneKeeps, FailKeeps,
     BySchoolIdKeeps, FetchSchoolKeeps, SetSchoolKeeps, ReadDocKeeps, SetDocKeeps, ByIdKeeps
<1>5. CASE UNCHANGED vars
  <2>1. /\ home' = home /\ moves' = moves /\ doc' = doc /\ docTtl' = docTtl
        /\ school' = school /\ schoolTtl' = schoolTtl /\ map' = map /\ mapTtl' = mapTtl
        /\ faults' = faults /\ pc' = pc /\ job' = job
    BY <1>5 DEF vars, apiVars, docVars, schoolVars, mapVars
  <2>2. Shape' /\ TtlInv'
    BY <2>1 DEF CacheInv, Shape, TtlInv
  <2>3. moves = 0 => StoreIsTrue' /\ \A r \in Readers : Gathered(home, pc[r], job[r])'
    BY <2>1 DEF CacheInv, StoreIsTrue
  <2> QED
    BY <2>1, <2>2, <2>3 DEF CacheInv
<1> QED
  BY <1>1, <1>2, <1>3, <1>4, <1>5 DEF Next

\* Whatever the readers do next to each other, the cache and what they have gathered
\* so far stay as CacheInv says.
THEOREM CacheInvariance == Spec => []CacheInv
BY CacheInit, CacheNext, PTL DEF Spec

\* redis/uni_cache.py: every key the cache writes has a time to live, the hash too as
\* soon as no reader is between its hset and its expire.
THEOREM KeysHaveTtl == Spec => []EveryKeyHasTtl
<1>1. CacheInv => EveryKeyHasTtl
  BY DEF CacheInv, TtlInv, EveryKeyHasTtl
<1> QED
  BY <1>1, CacheInvariance, PTL

\* While no department moves, a reader answers exactly the departments it was asked
\* for, from the cache, from uni-api or from both, with any number of readers.
THEOREM AnswersAreExact == Spec => []AnswersExact
<1>1. CacheInv => AnswersExact
  <2> SUFFICES ASSUME CacheInv, moves = 0, NEW r \in Readers, pc[r] = "idle"
               PROVE  /\ job[r].asked # {} =>
                            job[r].answer = Only(home, {d \in Deps : home[d] \in job[r].asked})
                      /\ job[r].school => job[r].answer = Only(home, School)
    BY DEF AnswersExact
  <2>1. Gathered(home, "idle", job[r])
    BY DEF CacheInv
  <2> QED
    BY <2>1 DEF Gathered, Of
<1> QED
  BY <1>1, CacheInvariance, PTL
=============================================================================
