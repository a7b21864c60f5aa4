------------------------------ MODULE UniCache ------------------------------
(***************************************************************************)
(* The cache of departments in Redis (redis/uni_cache.py): one key per     *)
(* department, one per school and a hash that maps departments to          *)
(* universities.  Readers go through it concurrently, and every await on   *)
(* Redis or on uni-api is a step.  A department is its number, its         *)
(* document the university in it; one school stands for all.  Keys with a  *)
(* time to live vanish; uni-api may move a department.                     *)
(***************************************************************************)
EXTENDS Integers, FiniteSets

CONSTANTS
    Readers,     \* concurrent callers
    Deps,        \* departments
    Unis,        \* universities
    School,      \* the departments of the school
    Ttl,         \* CACHE_TTL
    MaxEvents    \* bound on the departments that move and the calls that fail

None == 0        \* no university: not mapped, no document
NoTtl == -1      \* the key has no time to live (or does not exist)

ASSUME UniCacheAssumption ==
    /\ None \notin Unis /\ Ttl \in Nat \ {0}
    /\ School \subseteq Deps
    /\ MaxEvents \in Nat

VARIABLES
    home,      \* uni-api: the university of each department
    moves,     \* departments moved so far
    doc,       \* "department:{id}": the university in the document
    docTtl,    \* its time to live
    school,    \* "school_departments:{id}": its documents
    schoolTtl, \* its time to live
    map,       \* "department_university_map"
    mapTtl,    \* its time to live
    faults,    \* failed calls so far
    pc,        \* position of each reader
    job        \* its local variables

apiVars == <<home, moves>>
docVars == <<doc, docTtl>>
schoolVars == <<school, schoolTtl>>
mapVars == <<map, mapTtl>>
vars == <<apiVars, docVars, schoolVars, mapVars, faults, pc, job>>

Partial == [Deps -> Unis \cup {None}]
Nothing == [d \in Deps |-> None]
Domain(f) == {d \in Deps : f[d] # None}
\* f, with what g has
Over(g, f) == [d \in Deps |-> IF g[d] # None THEN g[d] ELSE f[d]]
Only(f, D) == [d \in Deps |-> IF d \in D THEN f[d] ELSE None]

NoJob == [asked |-> {}, school |-> FALSE, rest |-> {}, missingUnis |-> {}, snapshot |-> Nothing,
          want |-> {}, missing |-> {}, toSet |-> Nothing, fresh |-> Nothing,
          toDelete |-> {}, answer |-> Nothing]

PCs == {"idle", "hgetall", "unis", "docs", "setDocs", "setFresh", "existing", "hdel", "hset",
        "expire", "one", "setOne", "school", "setSchool"}

TypeOK ==
    /\ home \in Partial /\ moves \in 0..MaxEvents
    /\ doc \in Partial /\ docTtl \in [Deps -> {NoTtl} \cup 1..Ttl]
    /\ school \in Partial /\ schoolTtl \in {NoTtl} \cup 1..Ttl
    /\ map \in Partial /\ mapTtl \in {NoTtl} \cup 1..Ttl
    /\ faults \in 0..MaxEvents
    /\ pc \in [Readers -> PCs]
    /\ \A r \in Readers : job[r].answer \in Partial /\ job[r].toSet \in Partial

Init ==
    /\ home \in [Deps -> Unis] /\ moves = 0
    /\ doc = Nothing /\ docTtl = [d \in Deps |-> NoTtl]
    /\ school = Nothing /\ schoolTtl = NoTtl
    /\ map = Nothing /\ mapTtl = NoTtl
    /\ faults = 0
    /\ pc = [r \in Readers |-> "idle"]
    /\ job = [r \in Readers |-> NoJob]

-----------------------------------------------------------------------------
(* uni-api and time *)

Move(d, u) ==
    /\ moves + faults < MaxEvents /\ home[d] # u
    /\ moves' = moves + 1
    /\ home' = [home EXCEPT ![d] = u]
    /\ UNCHANGED <<docVars, schoolVars, mapVars, faults, pc, job>>

Less(t) == IF t <= 1 THEN NoTtl ELSE t - 1

\* Time passes, and keys expire.
Tick ==
    /\ docTtl' = [d \in Deps |-> Less(docTtl[d])]
    /\ doc' = [d \in Deps |-> IF docTtl'[d] = NoTtl THEN None ELSE doc[d]]
    /\ schoolTtl' = Less(schoolTtl)
    /\ school' = IF schoolTtl' = NoTtl THEN Nothing ELSE school
    /\ mapTtl' = Less(mapTtl)
    /\ map' = IF mapTtl = 1 THEN Nothing ELSE map
    /\ UNCHANGED <<apiVars, faults, pc, job>>

-----------------------------------------------------------------------------
(* get_departments_by_university_ids_cached *)

Goto(r, p, j) == pc' = [pc EXCEPT ![r] = p] /\ job' = [job EXCEPT ![r] = j]

ByUniversityIds(r, U) ==
    /\ pc[r] = "idle" /\ U # {}
    /\ Goto(r, "hgetall", [NoJob EXCEPT !.asked = U, !.rest = U])
    /\ UNCHANGED <<apiVars, schoolVars, docVars, mapVars, faults>>

HGetAll(r) ==
    /\ pc[r] = "hgetall"
    /\ Goto(r, "unis", [job[r] EXCEPT !.snapshot = map])
    /\ UNCHANGED <<apiVars, schoolVars, docVars, mapVars, faults>>

\* One university: its departments from the hash, or it counts as missing.
NextUni(r, u) ==
    /\ pc[r] = "unis" /\ u \in job[r].rest
    /\ LET deps == {d \in Deps : job[r].snapshot[d] = u}
           j == [job[r] EXCEPT !.rest = @ \ {u}]
       IN  IF deps = {}
             THEN Goto(r, "unis", [j EXCEPT !.missingUnis = @ \cup {u}])
             ELSE Goto(r, "docs", [j EXCEPT !.want = deps])
    /\ UNCHANGED <<apiVars, schoolVars, docVars, mapVars, faults>>

Misses(j, d) == [j EXCEPT !.missing = @ \cup {d}]

\* get_departments_by_ids_cached: get_json for each department ...
ReadDoc(r, d) ==
    /\ pc[r] = "docs" /\ d \in job[r].want
    /\ LET j == [job[r] EXCEPT !.want = @ \ {d}]
       IN  Goto(r, "docs", IF doc[d] # None THEN [j EXCEPT !.answer[d] = doc[d]]
                                            ELSE Misses(j, d))
    /\ UNCHANGED <<apiVars, schoolVars, docVars, mapVars, faults>>

\* ... then uni-api for the missing ones ...
FetchByIds(r) ==
    /\ pc[r] = "docs" /\ job[r].want = {}
    /\ IF job[r].missing = {} THEN Goto(r, "unis", job[r])
       ELSE LET got == Only(home, job[r].missing)
            IN  Goto(r, "setDocs", [job[r] EXCEPT !.toSet = got, !.missing = {},
                                                  !.answer = Over(got, @)])
    /\ UNCHANGED <<apiVars, schoolVars, docVars, mapVars, faults>>

\* set_json(..., expire=CACHE_TTL)
SetJson(d, u) == /\ doc' = [doc EXCEPT ![d] = u]
                 /\ docTtl' = [docTtl EXCEPT ![d] = Ttl]

\* ... and set_json for each of them.
SetDoc(r, d) ==
    /\ pc[r] \in {"setDocs", "setFresh"} /\ d \in Domain(job[r].toSet)
    /\ SetJson(d, job[r].toSet[d])
    /\ Goto(r, pc[r], [job[r] EXCEPT !.toSet[d] = None])
    /\ UNCHANGED <<apiVars, schoolVars, mapVars, faults>>

DocsSet(r) ==
    /\ pc[r] = "setDocs" /\ Domain(job[r].toSet) = {}
    /\ Goto(r, "unis", job[r])
    /\ UNCHANGED <<apiVars, schoolVars, docVars, mapVars, faults>>

\* The universities without a mapping: uni-api has their departments.
FetchByUnis(r) ==
    /\ pc[r] = "unis" /\ job[r].rest = {} /\ job[r].missingUnis # {}
    /\ LET got == Only(home, {d \in Deps : home[d] \in job[r].missingUnis})
       IN  Goto(r, "setFresh", [job[r] EXCEPT !.toSet = got, !.fresh = got,
                                              !.answer = Over(got, @)])
    /\ UNCHANGED <<apiVars, schoolVars, docVars, mapVars, faults>>

\* The answer is job.answer; the reader keeps only that.
Finish(r) == Goto(r, "idle", [NoJob EXCEPT !.asked = job[r].asked, !.school = job[r].school,
                                            !.answer = job[r].answer])

AllCached(r) ==
    /\ pc[r] = "unis" /\ job[r].rest = {} /\ job[r].missingUnis = {}
    /\ Finish(r)
    /\ UNCHANGED <<apiVars, schoolVars, docVars, mapVars, faults>>

-----------------------------------------------------------------------------
(* update_department_university_map *)

UpdateMap(r) ==
    /\ pc[r] = "setFresh" /\ Domain(job[r].toSet) = {}
    /\ IF job[r].fresh = Nothing THEN Finish(r) ELSE Goto(r, "existing", job[r])
    /\ UNCHANGED <<apiVars, schoolVars, docVars, mapVars, faults>>

\* hgetall: the departments now mapped to the universities of the fresh ones
ReadExisting(r) ==
    /\ pc[r] = "existing"
    /\ LET uniIds == {job[r].fresh[d] : d \in Domain(job[r].fresh)}
           old == {d \in Deps : map[d] \in uniIds}
       IN  Goto(r, IF old = {} THEN "hset" ELSE "hdel", [job[r] EXCEPT !.toDelete = old])
    /\ UNCHANGED <<apiVars, schoolVars, docVars, mapVars, faults>>

\* A hash without fields is no key any more, and its time to live is gone.
HDel(r) ==
    /\ pc[r] = "hdel"
    /\ map' = [d \in Deps |-> IF d \in job[r].toDelete THEN None ELSE map[d]]
    /\ mapTtl' = IF map' = Nothing THEN NoTtl ELSE mapTtl
    /\ Goto(r, "hset", job[r])
    /\ UNCHANGED <<apiVars, schoolVars, docVars, faults>>

OneField(f) == Only(f, {CHOOSE d \in Domain(f) : TRUE})
Mapping(f) == f

HSet(r) ==
    /\ pc[r] = "hset"
    /\ map' = Over(Mapping(job[r].fresh), map)
    /\ Goto(r, "expire", job[r])
    /\ UNCHANGED <<apiVars, schoolVars, docVars, mapTtl, faults>>

NoExpire == mapTtl
NewTtl == Ttl

\* expire of the hash: all of its fields
Expire(r) ==
    /\ pc[r] = "expire"
    /\ mapTtl' = IF map = Nothing THEN NoTtl ELSE NewTtl
    /\ Finish(r)
    /\ UNCHANGED <<apiVars, schoolVars, docVars, map, faults>>

-----------------------------------------------------------------------------
(* get_department_by_id_cached *)

ById(r, d) ==
    /\ pc[r] = "idle"
    /\ IF doc[d] # None THEN Goto(r, "idle", NoJob)
                        ELSE Goto(r, "one", [NoJob EXCEPT !.want = {d}])
    /\ UNCHANGED <<apiVars, schoolVars, docVars, mapVars, faults>>

FetchOne(r) ==
    /\ pc[r] = "one"
    /\ Goto(r, "setOne", [NoJob EXCEPT !.toSet = Only(home, job[r].want)])
    /\ UNCHANGED <<apiVars, schoolVars, docVars, mapVars, faults>>

SetOne(r) ==
    /\ pc[r] = "setOne"
    /\ \E d \in Domain(job[r].toSet) : SetJson(d, job[r].toSet[d])
    /\ Goto(r, "idle", NoJob)
    /\ UNCHANGED <<apiVars, schoolVars, mapVars, faults>>

-----------------------------------------------------------------------------
(* get_departments_by_school_id_cached *)

\* An empty dict is no hit.
BySchoolId(r) ==
    /\ pc[r] = "idle"
    /\ LET j == [NoJob EXCEPT !.school = TRUE]
       IN  IF school # Nothing THEN Goto(r, "idle", [j EXCEPT !.answer = school])
                               ELSE Goto(r, "school", j)
    /\ UNCHANGED <<apiVars, docVars, schoolVars, mapVars, faults>>

FetchSchool(r) ==
    /\ pc[r] = "school"
    /\ Goto(r, "setSchool", [job[r] EXCEPT !.answer = Only(home, School)])
    /\ UNCHANGED <<apiVars, docVars, schoolVars, mapVars, faults>>

SetSchool(r) ==
    /\ pc[r] = "setSchool"
    /\ school' = job[r].answer /\ schoolTtl' = Ttl
    /\ Finish(r)
    /\ UNCHANGED <<apiVars, docVars, mapVars, faults>>

-----------------------------------------------------------------------------
\* A call to Redis or to uni-api fails: the exception reaches the caller (or
\* becomes None in get_department_by_id_cached); what was written stays.
Fail(r) ==
    /\ pc[r] # "idle" /\ moves + faults < MaxEvents
    /\ faults' = faults + 1
    /\ Goto(r, "idle", NoJob)
    /\ UNCHANGED <<apiVars, schoolVars, docVars, mapVars>>

Next ==
    \/ Tick
    \/ \E d \in Deps, u \in Unis : Move(d, u)
    \/ \E r \in Readers :
          \/ \E U \in SUBSET Unis : ByUniversityIds(r, U)
          \/ HGetAll(r) \/ FetchByIds(r) \/ DocsSet(r) \/ FetchByUnis(r) \/ AllCached(r)
          \/ UpdateMap(r) \/ ReadExisting(r) \/ HDel(r) \/ HSet(r) \/ Expire(r)
          \/ FetchOne(r) \/ SetOne(r) \/ Fail(r)
          \/ BySchoolId(r) \/ FetchSchool(r) \/ SetSchool(r)
          \/ \E u \in Unis : NextUni(r, u)
          \/ \E d \in Deps : ReadDoc(r, d) \/ SetDoc(r, d) \/ ById(r, d)

Spec == Init /\ [][Next]_vars

-----------------------------------------------------------------------------
(* Properties *)

\* As long as no department moves, every answer holds exactly the departments of
\* the universities, or of the school, asked for, whatever expires and whoever
\* rewrites the hash meanwhile.
AnswersExact ==
    moves = 0 => \A r \in Readers : pc[r] = "idle" =>
        /\ job[r].asked # {} =>
              job[r].answer = Only(home, {d \in Deps : home[d] \in job[r].asked})
        /\ job[r].school => job[r].answer = Only(home, School)

\* "every cached key has a ttl", the hash too: whenever no reader is at its hset or
\* at its expire, and no call failed there (hset, expire and hdel are separate
\* commands, and other readers run between them).
EveryKeyHasTtl ==
    /\ \A d \in Deps : doc[d] # None => docTtl[d] # NoTtl
    /\ school # Nothing => schoolTtl # NoTtl
    /\ faults = 0 /\ map # Nothing /\ (\A r \in Readers : pc[r] \notin {"hset", "expire"})
          => mapTtl # NoTtl
=============================================================================
