------------------------- MODULE TokenVerifierProofs -------------------------
(* Proofs about TokenVerifier: which tokens are accepted and refused, for      *)
(* every number of requests, every ttl, interval and time a fetch takes.       *)
(* At the end those about ServiceToken, the cache of the token that the        *)
(* service gets for itself.                                                    *)
EXTENDS TokenVerifier, ServiceToken, TLAPS

-----------------------------------------------------------------------------
(* The inductive invariant *)

FetchPCs == {"fetchThread", "fetchLookup"}

\* Whoever fetches has the lock, and a fetch takes at most MaxFetch.
OneFetch ==
    /\ \A r \in Requests : pc[r] \in FetchPCs <=> lock = r
    /\ lock # NoOne => attemptAge <= MaxFetch

\* Nothing is cached or answered that the realm has not used, and a key that the
\* realm still uses has not been retired.
RealmIsAhead ==
    /\ cached <= realmKey /\ answer <= realmKey
    /\ \A k \in Keys : k >= realmKey => retiredAge[k] = 0

\* A key was in use when Keycloak answered with it: after the fetch began.
AgesAgree ==
    /\ answer \in Keys => retiredAge[answer] <= attemptAge
    /\ ~lastFailed /\ cached \in Keys => retiredAge[cached] <= keyAge

\* After a failed fetch the keys are as old as makes them stale min_refresh_interval
\* after the attempt.
FailureAges ==
    lastFailed /\ cached \in Keys =>
        keyAge = AgeCap \/ keyAge >= attemptAge + Ttl - MinInterval

\* A request that has not arrived has no token.
IdleHasNoToken == \A r \in Requests : pc[r] = "idle" => kid[r] = UnknownKid

KeyInv ==
    /\ TypeOK /\ OneFetch /\ RealmIsAhead /\ AgesAgree /\ FailureAges /\ IdleHasNoToken

-----------------------------------------------------------------------------
(* Ages *)

LEMMA Sizes ==
    /\ Ttl \in Nat /\ MinInterval \in Nat /\ MaxFetch \in Nat /\ MaxRotations \in Nat
    /\ AgeCap \in Nat /\ AgeCap > Ttl + MaxFetch /\ AgeCap > MinInterval + MaxFetch
    /\ Keys \subseteq Nat /\ 0 \in Keys
BY VerifierAssumption DEF AgeCap, Keys

\* Ages grow together until they saturate.
LEMMA OlderAges ==
    ASSUME NEW a \in Int, a <= AgeCap
    PROVE  /\ Older(a) \in Int /\ a <= Older(a) /\ Older(a) <= AgeCap /\ Older(a) <= a + 1
           /\ a < AgeCap => Older(a) = a + 1
           /\ a = AgeCap => Older(a) = a
BY Sizes DEF Older

\* A fetch is under way when, and only when, somebody has the lock.
LEMMA FetchingHasLock ==
    ASSUME TypeOK, OneFetch PROVE Fetching <=> lock # NoOne
<1>1. NoOne \notin Requests /\ lock \in Requests \cup {NoOne}
  BY VerifierAssumption DEF TypeOK
<1> QED
  BY <1>1 DEF Fetching, OneFetch, FetchPCs

-----------------------------------------------------------------------------
(* Initial states *)

LEMMA InitKeys == Init => KeyInv
<1> SUFFICES ASSUME Init PROVE KeyInv
  OBVIOUS
<1>1. up \in BOOLEAN /\ lastFailed \in BOOLEAN /\ ~lastFailed
  BY Zenon DEF Init
<1>2. TypeOK
  BY <1>1, Sizes, VerifierAssumption DEF Init, TypeOK, NoKeys, PCs, Tokens, Results
<1>3. OneFetch
  BY VerifierAssumption DEF Init, OneFetch, FetchPCs
<1>4. RealmIsAhead /\ IdleHasNoToken
  BY DEF Init, RealmIsAhead, IdleHasNoToken, NoKeys, Waiting
<1>5. AgesAgree /\ FailureAges
  BY <1>1, Sizes DEF Init, AgesAgree, FailureAges, NoKeys, Waiting, Keys
<1> QED
  BY <1>2, <1>3, <1>4, <1>5 DEF KeyInv

-----------------------------------------------------------------------------
(* The realm and time *)

\* Time passes: the ages of the keys and of their retirement grow together.
LEMMA TickKeys == ASSUME KeyInv, Tick PROVE KeyInv'
<1>1. /\ TypeOK /\ keyAge' = Older(keyAge) /\ attemptAge' = Older(attemptAge)
      /\ retiredAge' = [k \in Keys |-> IF k < realmKey THEN Older(retiredAge[k]) ELSE 0]
      /\ UNCHANGED <<realmKey, up, cached, lastFailed, lock, answer, loopOwner, pc, kid, result>>
  BY DEF KeyInv, Tick, requestVars
<1>2. /\ keyAge \in Int /\ keyAge <= AgeCap /\ -MinInterval <= keyAge
      /\ attemptAge \in Nat /\ attemptAge <= AgeCap
      /\ realmKey \in Nat
  BY <1>1, Sizes DEF TypeOK
<1>3. ASSUME NEW k \in Keys
      PROVE  /\ retiredAge[k] \in 0..AgeCap /\ retiredAge'[k] \in 0..AgeCap
             /\ retiredAge'[k] <= Older(retiredAge[k])
             /\ k >= realmKey => retiredAge'[k] = 0
  <2>1. retiredAge[k] \in 0..AgeCap /\ k \in Nat
    BY <1>1, Sizes DEF TypeOK
  <2>2. Older(retiredAge[k]) \in 0..AgeCap
    BY <2>1, OlderAges, Sizes
  <2> QED
    BY <1>1, <1>2, <2>1, <2>2, Sizes
<1>4. TypeOK'
  <2>1. keyAge' \in -MinInterval..AgeCap /\ attemptAge' \in 0..AgeCap
    BY <1>1, <1>2, OlderAges, Sizes
  <2>2. retiredAge' \in [Keys -> 0..AgeCap]
    BY <1>1, <1>3
  <2>3. up' \in BOOLEAN /\ lastFailed' \in BOOLEAN
    BY <1>1, Zenon DEF TypeOK
  <2> QED
    BY <1>1, <2>1, <2>2, <2>3 DEF TypeOK
<1>5. OneFetch'
  <2>1. lock # NoOne => attemptAge < MaxFetch
    BY FetchingHasLock DEF KeyInv, Tick
  <2>2. lock # NoOne => attemptAge' <= MaxFetch
    BY <1>1, <1>2, <2>1, OlderAges, Sizes
  <2> QED
    BY <1>1, <2>2 DEF KeyInv, OneFetch
<1>6. RealmIsAhead' /\ IdleHasNoToken'
  BY <1>1, <1>3 DEF KeyInv, RealmIsAhead, IdleHasNoToken
<1>7. ASSUME NEW k \in Keys, NEW a \in Int, retiredAge[k] <= a, a <= AgeCap
      PROVE  retiredAge'[k] <= Older(a)
  <2>1. retiredAge[k] \in Int /\ retiredAge[k] <= AgeCap
    BY <1>3, Sizes
  <2>2. Older(retiredAge[k]) <= Older(a)
    BY <1>7, <2>1, Sizes DEF Older
  <2> QED
    BY <1>3, <1>7, <2>1, <2>2, OlderAges, Sizes
<1>8. AgesAgree'
  <2>1. answer \in Keys => retiredAge'[answer] <= attemptAge'
    BY <1>1, <1>2, <1>7 DEF KeyInv, AgesAgree
  <2>2. ~lastFailed /\ cached \in Keys => retiredAge'[cached] <= keyAge'
    BY <1>1, <1>2, <1>7 DEF KeyInv, AgesAgree
  <2> QED
    BY <1>1, <2>1, <2>2, Zenon DEF AgesAgree
<1>9. FailureAges'
  <2>1. ASSUME lastFailed, cached \in Keys
        PROVE  keyAge' = AgeCap \/ keyAge' >= attemptAge' + Ttl - MinInterval
    <3>1. keyAge = AgeCap \/ keyAge >= attemptAge + Ttl - MinInterval
      BY <2>1 DEF KeyInv, FailureAges
    <3> QED
      BY <1>1, <1>2, <3>1, OlderAges, Sizes
  <2> QED
    BY <1>1, <2>1, Zenon DEF FailureAges
<1> QED
  BY <1>4, <1>5, <1>6, <1>8, <1>9 DEF KeyInv

\* The realm rotates its key, goes down or comes back, or answers a fetch.
LEMMA RealmKeys ==
    ASSUME KeyInv, Rotate \/ GoDown \/ ComeUp \/ Answer PROVE KeyInv'
<1>1. /\ TypeOK
      /\ UNCHANGED <<retiredAge, cached, keyAge, attemptAge, lastFailed, lock, loopOwner, pc, kid, result>>
  BY DEF KeyInv, Rotate, GoDown, ComeUp, Answer, realmVars, cacheVars, requestVars
<1>2. /\ realmKey' \in Keys /\ realmKey <= realmKey'
      /\ answer' = answer \/ (answer' = realmKey /\ realmKey' = realmKey) \/ answer' = Failure
  <2>0. realmKey \in Nat /\ realmKey \in Keys
    BY <1>1, Sizes DEF TypeOK
  <2>1. CASE Rotate
    BY <2>0, <2>1, Sizes DEF Rotate, Keys
  <2>2. CASE GoDown \/ ComeUp \/ Answer
    <3>1. /\ realmKey' = realmKey
          /\ answer' = answer \/ answer' = realmKey \/ answer' = Failure
      BY <2>2, Zenon DEF GoDown, ComeUp, Answer, realmVars
    <3> QED
      BY <2>0, <3>1
  <2> QED
    BY <2>1, <2>2
<1>3. up' \in BOOLEAN /\ lastFailed' \in BOOLEAN
  BY <1>1, Zenon DEF Rotate, GoDown, ComeUp, Answer, realmVars, TypeOK
<1>4. TypeOK'
  BY <1>1, <1>2, <1>3 DEF TypeOK
<1>5. OneFetch' /\ IdleHasNoToken'
  BY <1>1 DEF KeyInv, OneFetch, IdleHasNoToken
<1>6. realmKey \in Nat /\ realmKey' \in Nat
  BY <1>1, <1>2, Sizes DEF TypeOK
<1>7. RealmIsAhead'
  <2>1. cached \in Int /\ answer \in Int
    BY <1>1, Sizes DEF TypeOK, NoKeys, Waiting, Failure
  <2>2. cached' <= realmKey' /\ answer' <= realmKey'
    BY <1>1, <1>2, <1>6, <2>1 DEF KeyInv, RealmIsAhead, Failure
  <2>3. ASSUME NEW k \in Keys, k >= realmKey' PROVE retiredAge'[k] = 0
    BY <1>1, <1>2, <1>6, <2>3, Sizes DEF KeyInv, RealmIsAhead
  <2> QED
    BY <2>2, <2>3 DEF RealmIsAhead
<1>8. AgesAgree'
  <2>1. answer' \in Keys => retiredAge'[answer'] <= attemptAge'
    <3>1. retiredAge[realmKey] = 0 /\ attemptAge >= 0 /\ Failure \notin Keys
      BY <1>1, <1>6, Sizes DEF KeyInv, RealmIsAhead, TypeOK, Failure
    <3> QED
      BY <1>1, <1>2, <3>1 DEF KeyInv, AgesAgree
  <2> QED
    BY <1>1, <2>1, Zenon DEF KeyInv, AgesAgree
<1>9. FailureAges'
  BY <1>1, Zenon DEF KeyInv, FailureAges
<1> QED
  BY <1>4, <1>5, <1>7, <1>8, <1>9 DEF KeyInv

-----------------------------------------------------------------------------
(* The requests *)

\* What a step of request r may do to the requests, without beginning a fetch.
Moves(r, p) ==
    /\ pc' = [pc EXCEPT ![r] = p] /\ p \in PCs \ FetchPCs
    /\ \/ kid' = kid /\ (p = "idle" => kid[r] = UnknownKid)
       \/ p = "idle" /\ kid' = [kid EXCEPT ![r] = UnknownKid]
       \/ p # "idle" /\ \E k \in Tokens : kid' = [kid EXCEPT ![r] = k]
    /\ \/ result' = result
       \/ \E x \in Results : result' = [result EXCEPT ![r] = x]
    /\ loopOwner' \in Requests \cup {NoOne}

LEMMA MovesType ==
    ASSUME TypeOK, IdleHasNoToken, NEW r \in Requests, NEW p, Moves(r, p)
    PROVE  /\ pc' \in [Requests -> PCs] /\ kid' \in [Requests -> Tokens]
           /\ result' \in [Requests -> Results] /\ loopOwner' \in Requests \cup {NoOne}
           /\ IdleHasNoToken'
           /\ \A q \in Requests : pc'[q] = IF q = r THEN p ELSE pc[q]
<1>1. UnknownKid \in Tokens
  BY DEF Tokens
<1>2. /\ pc' \in [Requests -> PCs] /\ \A q \in Requests : pc'[q] = IF q = r THEN p ELSE pc[q]
  BY DEF Moves, TypeOK
<1>3. kid' \in [Requests -> Tokens]
  BY <1>1 DEF Moves, TypeOK
<1>4. result' \in [Requests -> Results] /\ loopOwner' \in Requests \cup {NoOne}
  BY DEF Moves, TypeOK
<1>5. IdleHasNoToken'
  BY <1>2 DEF Moves, TypeOK, IdleHasNoToken
<1> QED
  BY <1>2, <1>3, <1>4, <1>5

\* A step that leaves the keys and the lock alone.
LEMMA QuietKeys ==
    ASSUME KeyInv, NEW r \in Requests, NEW p, Moves(r, p), pc[r] \notin FetchPCs,
           UNCHANGED <<realmVars, cacheVars, lock, answer>>
    PROVE  KeyInv'
<1>1. /\ TypeOK
      /\ UNCHANGED <<realmKey, up, retiredAge, cached, keyAge, attemptAge, lastFailed, lock, answer>>
  BY DEF KeyInv, realmVars, cacheVars
<1>2. /\ pc' \in [Requests -> PCs] /\ kid' \in [Requests -> Tokens]
      /\ result' \in [Requests -> Results] /\ loopOwner' \in Requests \cup {NoOne}
      /\ IdleHasNoToken'
      /\ \A q \in Requests : pc'[q] = IF q = r THEN p ELSE pc[q]
  BY MovesType DEF KeyInv
<1>3. p \notin FetchPCs
  BY DEF Moves
<1>4. TypeOK'
  BY <1>1, <1>2 DEF TypeOK
<1>5. OneFetch'
  BY <1>1, <1>2, <1>3 DEF KeyInv, OneFetch
<1>6. RealmIsAhead'
  BY <1>1 DEF KeyInv, RealmIsAhead
<1>7. AgesAgree' /\ FailureAges'
  BY <1>1, Zenon DEF KeyInv, AgesAgree, FailureAges
<1> QED
  BY <1>2, <1>4, <1>5, <1>6, <1>7 DEF KeyInv

\* A fetch begins.
LEMMA FetchStartsKeys ==
    ASSUME KeyInv, NEW r \in Requests, NEW p \in FetchPCs, lock = NoOne, FetchStarts(r), Goto(r, p),
           pc[r] \notin FetchPCs, pc[r] # "idle", loopOwner' \in Requests \cup {NoOne},
           UNCHANGED <<realmVars, cached, keyAge, lastFailed, kid, result>>
    PROVE  KeyInv'
<1>1. /\ TypeOK /\ lock' = r /\ attemptAge' = 0 /\ answer' = Waiting
      /\ pc' = [pc EXCEPT ![r] = p]
      /\ UNCHANGED <<realmKey, up, retiredAge, cached, keyAge, lastFailed, kid, result>>
  BY DEF KeyInv, FetchStarts, Goto, realmVars
<1>2. p \in PCs /\ p # "idle"
  BY DEF FetchPCs, PCs
<1>3. \A q \in Requests : pc'[q] = IF q = r THEN p ELSE pc[q]
  BY <1>1 DEF TypeOK
<1>4. TypeOK'
  BY <1>1, <1>2, Sizes DEF TypeOK
<1>5. OneFetch'
  <2>1. \A q \in Requests : pc[q] \notin FetchPCs
    BY VerifierAssumption DEF KeyInv, OneFetch
  <2> QED
    BY <1>1, <1>3, <2>1, Sizes DEF OneFetch
<1>6. RealmIsAhead'
  <2>1. realmKey \in Nat
    BY <1>1, Sizes DEF TypeOK
  <2> QED
    BY <1>1, <2>1 DEF KeyInv, RealmIsAhead, Waiting
<1>7. AgesAgree'
  <2>1. answer' \notin Keys
    BY <1>1, Sizes DEF Waiting
  <2>2. retiredAge' = retiredAge /\ cached' = cached /\ keyAge' = keyAge
    BY <1>1
  <2>3. lastFailed' = lastFailed
    BY <1>1
  <2>4. ASSUME ~lastFailed', cached' \in Keys PROVE retiredAge'[cached'] <= keyAge'
    <3>1. ~lastFailed /\ cached \in Keys
      BY <2>2, <2>3, <2>4
    <3>2. retiredAge[cached] <= keyAge
      BY <3>1, Zenon DEF KeyInv, AgesAgree
    <3> QED
      BY <2>2, <3>2
  <2> QED
    BY <2>1, <2>4, Zenon DEF AgesAgree
<1>8. FailureAges'
  <2>1. ASSUME lastFailed, cached \in Keys
        PROVE  keyAge = AgeCap \/ keyAge >= attemptAge' + Ttl - MinInterval
    <3>1. keyAge = AgeCap \/ keyAge >= attemptAge + Ttl - MinInterval
      BY <2>1 DEF KeyInv, FailureAges
    <3>2. keyAge \in Int /\ attemptAge \in Nat
      BY <1>1, Sizes DEF TypeOK
    <3> QED
      BY <1>1, <3>1, <3>2, Sizes
  <2>2. cached' = cached /\ keyAge' = keyAge
    BY <1>1
  <2>3. lastFailed' = lastFailed
    BY <1>1
  <2>4. ASSUME lastFailed', cached' \in Keys
        PROVE  keyAge' = AgeCap \/ keyAge' >= attemptAge' + Ttl - MinInterval
    <3>1. lastFailed /\ cached \in Keys
      BY <2>2, <2>3, <2>4
    <3> QED
      BY <2>1, <2>2, <3>1, Zenon
  <2> QED
    BY <2>4, Zenon DEF FailureAges
<1>9. IdleHasNoToken'
  BY <1>1, <1>2, <1>3 DEF KeyInv, IdleHasNoToken
<1> QED
  BY <1>4, <1>5, <1>6, <1>7, <1>8, <1>9 DEF KeyInv

\* A fetch ends: with the keys Keycloak had, or with the old ones for another
\* min_refresh_interval.
LEMMA FetchEndsKeys ==
    ASSUME KeyInv, NEW r \in Requests, NEW p, pc[r] \in FetchPCs, FetchEnds, Moves(r, p),
           UNCHANGED realmVars
    PROVE  KeyInv'
<1>1. /\ TypeOK /\ lock' = NoOne /\ answer' = Waiting /\ answer # Waiting
      /\ UNCHANGED <<realmKey, up, retiredAge, attemptAge>>
  BY DEF KeyInv, FetchEnds, LockAfterFetch, realmVars
<1>2. \/ /\ answer \in Keys /\ cached' = answer /\ keyAge' = attemptAge /\ lastFailed' = FALSE
      \/ /\ lastFailed' = TRUE /\ cached' = cached
         /\ keyAge' = IF cached = NoKeys THEN keyAge ELSE attemptAge + Ttl - MinInterval
  BY <1>1, Zenon DEF FetchEnds, KeysAfterSuccess, AgeAfterFailure, TypeOK
<1>3. /\ pc' \in [Requests -> PCs] /\ kid' \in [Requests -> Tokens]
      /\ result' \in [Requests -> Results] /\ loopOwner' \in Requests \cup {NoOne}
      /\ IdleHasNoToken'
      /\ \A q \in Requests : pc'[q] = IF q = r THEN p ELSE pc[q]
  BY MovesType DEF KeyInv
<1>4. lock = r /\ r # NoOne /\ attemptAge <= MaxFetch /\ attemptAge \in Nat
  BY <1>1, VerifierAssumption DEF KeyInv, OneFetch, TypeOK
<1>5. lastFailed' \in BOOLEAN /\ up' \in BOOLEAN
  BY <1>1, <1>2, Zenon DEF TypeOK
<1>6. keyAge' \in -MinInterval..AgeCap /\ cached' \in Keys \cup {NoKeys}
  BY <1>1, <1>2, <1>4, Sizes DEF TypeOK
<1>7. TypeOK'
  BY <1>1, <1>3, <1>5, <1>6 DEF TypeOK
<1>8. OneFetch'
  <2>1. \A q \in Requests : pc[q] \in FetchPCs => q = r
    BY <1>4 DEF KeyInv, OneFetch
  <2>2. p \notin FetchPCs
    BY DEF Moves
  <2> QED
    BY <1>1, <1>3, <2>1, <2>2, VerifierAssumption DEF OneFetch
<1>9. RealmIsAhead'
  <2>1. realmKey \in Nat
    BY <1>1, Sizes DEF TypeOK
  <2> QED
    BY <1>1, <1>2, <2>1 DEF KeyInv, RealmIsAhead, Waiting
<1>10. AgesAgree'
  <2>1. Waiting \notin Keys
    BY Sizes DEF Waiting
  <2> QED
    BY <1>1, <1>2, <2>1, Zenon DEF KeyInv, AgesAgree
<1>11. FailureAges'
  <2>1. ASSUME lastFailed', cached' \in Keys
        PROVE  keyAge' >= attemptAge + Ttl - MinInterval
    <3>0. NoKeys \notin Keys
      BY Sizes DEF NoKeys
    <3>1. cached # NoKeys /\ keyAge' = attemptAge + Ttl - MinInterval
      BY <1>2, <2>1, <3>0, Zenon
    <3> QED
      BY <1>4, <3>1, Sizes
  <2> QED
    BY <1>1, <2>1, Zenon DEF FailureAges
<1> QED
  BY <1>3, <1>7, <1>8, <1>9, <1>10, <1>11 DEF KeyInv

\* The request ends.
LEMMA FinishMoves ==
    ASSUME TypeOK, NEW r \in Requests, NEW x \in Results, Finish(r, x),
           loopOwner' = loopOwner \/ LeaveLoop(r)
    PROVE  Moves(r, "idle")
<1>1. loopOwner' \in Requests \cup {NoOne}
  BY DEF TypeOK, LeaveLoop
<1>2. "idle" \in PCs \ FetchPCs
  BY DEF PCs, FetchPCs
<1>3. /\ pc' = [pc EXCEPT ![r] = "idle"] /\ kid' = [kid EXCEPT ![r] = UnknownKid]
      /\ \E y \in Results : result' = [result EXCEPT ![r] = y]
  BY Zenon DEF Finish, Goto
<1> QED
  BY <1>1, <1>2, <1>3, Zenon DEF Moves

\* The request goes on, with the same token and no outcome yet.
LEMMA GotoMoves ==
    ASSUME TypeOK, NEW r \in Requests, NEW p \in PCs \ FetchPCs, p # "idle", Goto(r, p),
           UNCHANGED <<kid, result, loopOwner>>
    PROVE  Moves(r, p)
BY DEF Moves, Goto, TypeOK

LEMMA VerdictResult ==
    ASSUME NEW k, NEW keys PROVE Verdict(k, keys) \in Results
BY DEF Verdict, Results

\* A request arrives, or goes on without a fetch.
LEMMA ArriveKeys ==
    ASSUME KeyInv, NEW r \in Requests, NEW k \in Tokens, Arrive(r, k) PROVE KeyInv'
<1>1. /\ TypeOK /\ pc[r] = "idle" /\ pc[r] \notin FetchPCs /\ kid[r] = UnknownKid
      /\ UNCHANGED <<realmVars, cacheVars, lock, answer, loopOwner>>
  BY DEF KeyInv, Arrive, FetchPCs, IdleHasNoToken
<1>2. \E p : Moves(r, p)
  <2>1. CASE r \in SyncRequests /\ k = Malformed
    <3>1. UNCHANGED <<pc, kid>> /\ result' = [result EXCEPT ![r] = "401"]
      BY <2>1 DEF Arrive
    <3>2. pc' = [pc EXCEPT ![r] = "idle"]
      BY <1>1, <3>1 DEF TypeOK
    <3>3. "idle" \in PCs \ FetchPCs /\ "401" \in Results
      BY DEF PCs, FetchPCs, Results
    <3>4. loopOwner' \in Requests \cup {NoOne} /\ kid' = kid
      BY <1>1, <3>1 DEF TypeOK
    <3>5. Moves(r, "idle")
      BY <1>1, <3>1, <3>2, <3>3, <3>4, Zenon DEF Moves
    <3> QED
      BY <3>5
  <2>2. CASE ~(r \in SyncRequests /\ k = Malformed)
    <3> DEFINE p == IF r \in SyncRequests THEN "lookup" ELSE "check"
    <3>1. /\ pc' = [pc EXCEPT ![r] = p] /\ kid' = [kid EXCEPT ![r] = k]
          /\ result' = [result EXCEPT ![r] = "none"]
      BY <2>2, Zenon DEF Arrive, Goto
    <3>2. p \in PCs \ FetchPCs /\ p # "idle" /\ "none" \in Results
      BY DEF PCs, FetchPCs, Results
    <3>3. loopOwner' \in Requests \cup {NoOne}
      BY <1>1 DEF TypeOK
    <3> HIDE DEF p
    <3>4. Moves(r, p)
      BY <3>1, <3>2, <3>3, Zenon DEF Moves
    <3> QED
      BY <3>4
  <2> QED
    BY <2>1, <2>2
<1>3. UNCHANGED <<realmVars, cacheVars, lock, answer>>
  BY <1>1
<1> QED
  BY <1>1, <1>2, <1>3, QuietKeys

LEMMA StepKeys ==
    ASSUME KeyInv, NEW r \in Requests, Step(r) PROVE KeyInv'
<1>0. TypeOK
  BY DEF KeyInv
<1>1. CASE Check(r) \/ Recheck(r)
  <2>1. PICK p \in {"thread", "lookup", "refresh"} : Goto(r, p)
    BY <1>1 DEF Check, Recheck
  <2>2. /\ pc[r] \notin FetchPCs
        /\ UNCHANGED <<realmVars, cacheVars, lock, answer>> /\ UNCHANGED <<kid, result, loopOwner>>
    BY <1>1 DEF Check, Recheck, FetchPCs
  <2>3. p \in PCs \ FetchPCs /\ p # "idle"
    BY DEF PCs, FetchPCs
  <2>4. Moves(r, p)
    BY <1>0, <2>1, <2>2, <2>3, GotoMoves
  <2> QED
    BY <2>2, <2>4, QuietKeys
<1>2. CASE Refresh(r)
  <2>1. /\ pc[r] \notin FetchPCs /\ pc[r] # "idle" /\ lock = NoOne
        /\ FetchStarts(r) /\ Goto(r, "fetchThread") /\ "fetchThread" \in FetchPCs
        /\ UNCHANGED <<realmVars, cached, keyAge, lastFailed, kid, result>>
        /\ loopOwner' \in Requests \cup {NoOne}
    BY <1>0, <1>2 DEF Refresh, FetchPCs, TypeOK
  <2> QED
    BY <2>1, FetchStartsKeys
<1>3. CASE RefreshEnds(r)
  <2>1. pc[r] \in FetchPCs /\ FetchEnds /\ UNCHANGED realmVars /\ loopOwner' = loopOwner
    BY <1>3 DEF RefreshEnds, FetchPCs
  <2>2. \E p : Moves(r, p)
    <3>1. CASE Unavailable
      <4>1. Finish(r, "503") /\ "503" \in Results
        BY <1>3, <3>1, Zenon DEF RefreshEnds, Results
      <4> QED
        BY <1>0, <2>1, <4>1, FinishMoves
    <3>2. CASE ~Unavailable
      <4>1. Goto(r, "lookup") /\ UNCHANGED <<kid, result>>
        BY <1>3, <3>2, Zenon DEF RefreshEnds
      <4>2. "lookup" \in PCs \ FetchPCs
        BY DEF PCs, FetchPCs
      <4> QED
        BY <1>0, <2>1, <4>1, <4>2, GotoMoves
    <3> QED
      BY <3>1, <3>2
  <2> QED
    BY <2>1, <2>2, FetchEndsKeys
<1>4. CASE BlockLoop(r)
  <2>1. /\ pc[r] = "lookup" /\ loopOwner' = r
        /\ UNCHANGED <<pc, kid, result>> /\ UNCHANGED <<realmVars, cacheVars, lock, answer>>
    BY <1>4 DEF BlockLoop, requestVars
  <2>2. pc' = [pc EXCEPT ![r] = "lookup"]
    BY <1>0, <2>1 DEF TypeOK
  <2>3. Moves(r, "lookup") /\ pc[r] \notin FetchPCs
    BY <2>1, <2>2 DEF Moves, PCs, FetchPCs
  <2> QED
    BY <2>1, <2>3, QuietKeys
<1>5. CASE Lookup(r)
  <2>1. pc[r] = "lookup" /\ pc[r] \notin FetchPCs /\ UNCHANGED realmVars
    BY <1>5 DEF Lookup, FetchPCs
  <2>2. CASE Decided(r, cached) /\ LeaveLoop(r) /\ UNCHANGED <<cacheVars, lock, answer>>
    <3>1. Finish(r, Verdict(kid[r], cached)) /\ Verdict(kid[r], cached) \in Results
      BY <2>2, VerdictResult DEF Decided
    <3>2. Moves(r, "idle")
      BY <1>0, <2>2, <3>1, FinishMoves
    <3>3. UNCHANGED <<realmVars, cacheVars, lock, answer>>
      BY <2>1, <2>2
    <3> QED
      BY <2>1, <3>2, <3>3, QuietKeys
  <2>3. CASE /\ lock = NoOne /\ FetchStarts(r) /\ Goto(r, "fetchLookup")
             /\ loopOwner' = (IF r \in SyncRequests THEN loopOwner ELSE r)
             /\ UNCHANGED <<cached, keyAge, lastFailed, kid, result>>
    <3>1. /\ loopOwner' \in Requests \cup {NoOne} /\ "fetchLookup" \in FetchPCs /\ pc[r] # "idle"
          /\ UNCHANGED <<realmVars, cached, keyAge, lastFailed, kid, result>>
      BY <1>0, <2>1, <2>3 DEF TypeOK, FetchPCs
    <3> QED
      BY <2>1, <2>3, <3>1, FetchStartsKeys
  <2> QED
    BY <1>5, <2>2, <2>3, Zenon DEF Lookup
<1>6. CASE LookupFetchEnds(r)
  <2>1. pc[r] \in FetchPCs /\ FetchEnds /\ LeaveLoop(r) /\ UNCHANGED realmVars
    BY <1>6 DEF LookupFetchEnds, FetchPCs
  <2>2. \E x \in Results : Finish(r, x)
    <3>1. "503" \in Results
      BY DEF Results
    <3> QED
      BY <1>6, <3>1, VerdictResult, Zenon DEF LookupFetchEnds, Decided
  <2>3. Moves(r, "idle")
    BY <1>0, <2>1, <2>2, FinishMoves
  <2> QED
    BY <2>1, <2>3, FetchEndsKeys
<1> QED
  BY <1>1, <1>2, <1>3, <1>4, <1>5, <1>6 DEF Step

LEMMA NextKeys == KeyInv /\ [Next]_vars => KeyInv'
<1> SUFFICES ASSUME KeyInv, [Next]_vars PROVE KeyInv'
  OBVIOUS
<1>1. CASE UNCHANGED vars
  <2>1. UNCHANGED <<realmKey, up, retiredAge, cached, keyAge, attemptAge, lastFailed, lock, answer,
                    loopOwner, pc, kid, result>>
    BY <1>1 DEF vars, realmVars, cacheVars, requestVars
  <2> QED
    BY <2>1, Zenon DEF KeyInv, TypeOK, OneFetch, RealmIsAhead, AgesAgree, FailureAges, IdleHasNoToken
<1>2. ASSUME NEW r \in Requests, NEW k \in Issued, Arrive(r, k) PROVE KeyInv'
  BY <1>2, ArriveKeys DEF Issued
<1> QED
  BY <1>1, <1>2, TickKeys, RealmKeys, StepKeys DEF Next

\* The ages of the keys, of the attempts and of the realm's retired keys agree.
THEOREM KeyInvariance == Spec => []KeyInv
BY InitKeys, NextKeys, PTL DEF Spec

-----------------------------------------------------------------------------
(* The outcomes *)

\* How a request gets its claims or its 401: refused as it arrives, decided with
\* the cached keys, or with the keys that it fetched itself.
Outcome(r) ==
    \/ pc[r] = "idle" /\ result'[r] = "401"
    \/ /\ pc[r] = "lookup" /\ result'[r] = Verdict(kid[r], cached) /\ UNCHANGED lastFailed
       /\ kid[r] = Malformed \/ ~(IsStale \/ IsUnknownKey(kid[r]))
    \/ pc[r] = "fetchLookup" /\ FetchEnds /\ result'[r] = Verdict(kid[r], cached')

LEMMA OutcomeStep ==
    ASSUME KeyInv, [Next]_vars, NEW r \in Requests,
           result[r] = "none", result'[r] \in {"claims", "401"}
    PROVE  Outcome(r)
<1>0. result' # result /\ TypeOK
  BY DEF KeyInv
<1>1. PICK q \in Requests : Step(q) \/ \E k \in Issued : Arrive(q, k)
  BY <1>0, Zenon DEF Next, vars, Tick, Rotate, GoDown, ComeUp, Answer, requestVars
<1>2. ASSUME NEW x, result' = [result EXCEPT ![q] = x] PROVE q = r /\ result'[r] = x
  BY <1>0, <1>2 DEF TypeOK
<1>3. ASSUME NEW x, Finish(q, x) PROVE q = r /\ result'[r] = x
  BY <1>2, <1>3 DEF Finish
<1>4. CASE \E k \in Issued : Arrive(q, k)
  <2>1. /\ pc[q] = "idle"
        /\ result' = [result EXCEPT ![q] = "401"] \/ result' = [result EXCEPT ![q] = "none"]
    BY <1>4, Zenon DEF Arrive
  <2> QED
    BY <1>2, <2>1 DEF Outcome
<1>5. CASE Check(q) \/ Recheck(q) \/ Refresh(q) \/ BlockLoop(q)
  BY <1>0, <1>5 DEF Check, Recheck, Refresh, BlockLoop, requestVars
<1>6. CASE RefreshEnds(q)
  <2>1. Finish(q, "503") \/ result' = result
    BY <1>6, Zenon DEF RefreshEnds
  <2> QED
    BY <1>0, <1>3, <2>1
<1>7. CASE Lookup(q)
  <2>1. /\ pc[q] = "lookup" /\ Finish(q, Verdict(kid[q], cached)) /\ UNCHANGED cacheVars
        /\ kid[q] = Malformed \/ ~(IsStale \/ IsUnknownKey(kid[q]))
    BY <1>0, <1>7, Zenon DEF Lookup, Decided
  <2>2. q = r /\ result'[r] = Verdict(kid[q], cached)
    BY <1>3, <2>1
  <2>3. UNCHANGED lastFailed
    BY <2>1 DEF cacheVars
  <2> QED
    BY <2>1, <2>2, <2>3, Zenon DEF Outcome
<1>8. CASE LookupFetchEnds(q)
  <2>1. /\ pc[q] = "fetchLookup" /\ FetchEnds
        /\ Finish(q, "503") \/ Finish(q, Verdict(kid[q], cached'))
    BY <1>8, Zenon DEF LookupFetchEnds, Decided
  <2>2. q = r /\ result'[r] = Verdict(kid[q], cached')
    BY <1>3, <2>1
  <2> QED
    BY <2>1, <2>2, Zenon DEF Outcome
<1> QED
  BY <1>1, <1>4, <1>5, <1>6, <1>7, <1>8 DEF Step

\* Only a token of the cached key is accepted.
LEMMA AcceptedKey ==
    ASSUME NEW k, NEW keys, Verdict(k, keys) = "claims" PROVE k \in Keys /\ k = keys
BY DEF Verdict

\* A request that is accepted with the cached keys found them fresh.
LEMMA AcceptedFresh ==
    ASSUME KeyInv, [Next]_vars, NEW r \in Requests,
           result[r] = "none", result'[r] = "claims"
    PROVE  /\ kid[r] \in Keys
           /\ \/ pc[r] = "lookup" /\ kid[r] = cached /\ ~IsStale /\ UNCHANGED lastFailed
              \/ pc[r] = "fetchLookup" /\ kid[r] = cached' /\ FetchEnds
<1>1. Outcome(r)
  BY OutcomeStep
<1>2. CASE /\ pc[r] = "lookup" /\ result'[r] = Verdict(kid[r], cached) /\ UNCHANGED lastFailed
           /\ kid[r] = Malformed \/ ~(IsStale \/ IsUnknownKey(kid[r]))
  <2>1. kid[r] \in Keys /\ kid[r] = cached
    BY <1>2, AcceptedKey
  <2>2. kid[r] # Malformed
    BY <2>1, Sizes DEF Malformed
  <2> QED
    BY <1>2, <2>1, <2>2
<1>3. CASE pc[r] = "fetchLookup" /\ FetchEnds /\ result'[r] = Verdict(kid[r], cached')
  BY <1>3, AcceptedKey
<1> QED
  BY <1>1, <1>2, <1>3 DEF Outcome

LEMMA RetiredType ==
    ASSUME TypeOK, NEW k \in Keys PROVE retiredAge[k] \in Nat
<1>1. retiredAge \in [Keys -> 0..AgeCap]
  BY DEF TypeOK
<1> QED
  BY <1>1, Sizes

\* A key the realm retired more than ttl (or the longest fetch) ago is accepted
\* only after a failed fetch.
THEOREM RetiredKeysAreRefused == Spec => NoRetiredKey
<1>1. ASSUME KeyInv, [Next]_vars, NEW r \in Requests,
             result[r] = "none", result'[r] = "claims", ~lastFailed'
      PROVE  retiredAge[kid[r]] <= Window
  <2>0. TypeOK /\ AgesAgree /\ OneFetch
    BY <1>1 DEF KeyInv
  <2>1. /\ kid[r] \in Keys
        /\ \/ pc[r] = "lookup" /\ kid[r] = cached /\ ~IsStale /\ UNCHANGED lastFailed
           \/ pc[r] = "fetchLookup" /\ kid[r] = cached' /\ FetchEnds
    BY <1>1, AcceptedFresh
  <2>2. retiredAge[kid[r]] \in Nat
    BY <2>0, <2>1, RetiredType
  <2>3. CASE pc[r] = "lookup" /\ kid[r] = cached /\ ~IsStale /\ UNCHANGED lastFailed
    <3>1. ~lastFailed
      BY <1>1, <2>3
    <3>2. retiredAge[cached] <= keyAge
      BY <2>0, <2>1, <2>3, <3>1, Zenon DEF AgesAgree
    <3>3. keyAge \in Int /\ keyAge <= Ttl
      BY <2>0, <2>3, Sizes DEF IsStale, TypeOK
    <3> QED
      BY <2>2, <2>3, <3>2, <3>3, Sizes DEF Window
  <2>4. CASE pc[r] = "fetchLookup" /\ kid[r] = cached' /\ FetchEnds
    <3>1. answer # Failure
      BY <1>1, <2>4, Zenon DEF FetchEnds
    <3>2. cached' = answer
      BY <2>4, <3>1, Zenon DEF FetchEnds, KeysAfterSuccess
    <3>3. retiredAge[answer] <= attemptAge
      BY <2>0, <2>1, <2>4, <3>2, Zenon DEF AgesAgree
    <3>4. attemptAge \in Nat /\ attemptAge <= MaxFetch
      BY <2>0, <2>4, VerifierAssumption DEF OneFetch, FetchPCs, TypeOK
    <3> QED
      BY <2>2, <2>4, <3>2, <3>3, <3>4, Sizes DEF Window
  <2> QED
    BY <2>1, <2>3, <2>4
<1>2. ASSUME KeyInv, [Next]_vars
      PROVE  [\A r \in Requests : /\ result[r] = "none" /\ result'[r] = "claims"
                                  /\ retiredAge[kid[r]] > Window
                                  => lastFailed']_vars
  <2> SUFFICES ASSUME NEW r \in Requests, result[r] = "none", result'[r] = "claims",
                      retiredAge[kid[r]] > Window, ~lastFailed'
               PROVE  FALSE
    BY Zenon
  <2>1. retiredAge[kid[r]] <= Window
    BY <1>1, <1>2
  <2>2. kid[r] \in Keys
    BY <1>2, AcceptedFresh
  <2>3. retiredAge[kid[r]] \in Nat /\ Window \in Nat
    BY <1>2, <2>2, Sizes, RetiredType DEF KeyInv, Window
  <2> QED
    BY <2>1, <2>3
<1> QED
  BY <1>2, KeyInvariance, PTL DEF Spec, NoRetiredKey

\* While Keycloak fails, the old keys are used for min_refresh_interval after an
\* attempt, and then only after another one.
THEOREM FailuresAreRetried == Spec => FailureIsRetried
<1>1. ASSUME KeyInv, [Next]_vars, NEW r \in Requests,
             result[r] = "none", result'[r] = "claims", lastFailed, pc[r] = "lookup"
      PROVE  attemptAge <= MinInterval
  <2>0. TypeOK
    BY <1>1 DEF KeyInv
  <2>1. kid[r] \in Keys /\ kid[r] = cached /\ ~IsStale
    BY <1>1, AcceptedFresh
  <2>2. keyAge = AgeCap \/ keyAge >= attemptAge + Ttl - MinInterval
    BY <1>1, <2>1, Zenon DEF KeyInv, FailureAges
  <2>3. keyAge \in Int /\ keyAge <= Ttl /\ attemptAge \in Nat
    BY <2>0, <2>1, Sizes DEF IsStale, TypeOK
  <2> QED
    BY <2>2, <2>3, Sizes
<1>2. ASSUME KeyInv, [Next]_vars
      PROVE  [\A r \in Requests : /\ result[r] = "none" /\ result'[r] = "claims"
                                  /\ lastFailed /\ pc[r] = "lookup"
                                  => attemptAge <= MinInterval]_vars
  BY <1>1, <1>2, Zenon
<1> QED
  BY <1>2, KeyInvariance, PTL DEF Spec, FailureIsRetried

\* A token of the realm's current key is refused only within min_refresh_interval
\* of an attempt to fetch, after a failure, or when the realm rotated meanwhile.
THEOREM RefusalsAreBrief == Spec => RefusedOnlyBriefly
<1>1. ASSUME KeyInv, [Next]_vars, NEW r \in Requests,
             result[r] = "none", result'[r] = "401", kid[r] = realmKey
      PROVE  attemptAge < MinInterval \/ pc[r] = "fetchLookup"
  <2>0. realmKey \in Keys /\ realmKey \in Nat /\ attemptAge \in Nat
    BY <1>1, Sizes DEF KeyInv, TypeOK
  <2>1. kid[r] \notin {UnknownKid, Malformed, NoKid}
    BY <1>1, <2>0 DEF UnknownKid, Malformed, NoKid
  <2>2. pc[r] # "idle"
    BY <1>1, <2>1 DEF KeyInv, IdleHasNoToken
  <2>3. Outcome(r)
    BY <1>1, OutcomeStep
  <2>4. CASE /\ pc[r] = "lookup" /\ result'[r] = Verdict(kid[r], cached)
             /\ ~(IsStale \/ IsUnknownKey(kid[r]))
    <3>1. kid[r] # cached
      BY <1>1, <2>0, <2>4 DEF Verdict
    <3> QED
      BY <2>0, <2>1, <2>4, <3>1, Sizes DEF IsUnknownKey
  <2> QED
    BY <2>1, <2>2, <2>3, <2>4 DEF Outcome
<1>2. ASSUME KeyInv, [Next]_vars
      PROVE  [\A r \in Requests :
                result[r] = "none" /\ result'[r] = "401" /\ kid[r] = realmKey
                => attemptAge < MinInterval \/ lastFailed' \/ pc[r] = "fetchLookup"]_vars
  BY <1>1, <1>2, Zenon
<1> QED
  BY <1>2, KeyInvariance, PTL DEF Spec, RefusedOnlyBriefly

-----------------------------------------------------------------------------
(* The token the service gets for itself (ServiceToken), for every number of   *)
(* callers, every latency and every margin.                                    *)

TokenInv == TokenTypeOK /\ CacheInv /\ ReturnedIsLive

\* A token the cache calls fresh has not expired (get_token and aget_token
\* return it without asking Keycloak).
LEMMA FreshIsLive ==
    ASSUME TokenInv, MarginSuffices, IsFresh
    PROVE  now < token + Life
BY ServiceTokenAssumption DEF TokenInv, TokenTypeOK, CacheInv,
       MarginSuffices, IsFresh, NoToken

\* The token in the cache has not expired when a fast path or a finished refresh
\* returns it, although it may be another refresh's.
LEMMA ReturnedTokenIsLive ==
    ASSUME TokenInv, MarginSuffices,
           NEW c \in Callers, at[c] \in Checked \cup {"returning"}
    PROVE  now < token + Life
BY ServiceTokenAssumption DEF TokenInv, TokenTypeOK, CacheInv,
       MarginSuffices, NoToken, Answered, Checked

\* Giving the cached token preserves ReturnedIsLive when the token is live.
LEMMA GivePreserves ==
    ASSUME TokenInv, NEW c \in Callers, Give(c),
           MarginSuffices => now < token + Life
    PROVE  ReturnedIsLive' /\ expired' \subseteq Callers
BY ServiceTokenAssumption DEF TokenInv, TokenTypeOK, ReturnedIsLive,
       Give, NoToken, MarginSuffices

\* The initial state satisfies the invariant.
LEMMA TokenInvInit == TokenInit => TokenInv
BY ServiceTokenAssumption DEF TokenInit, TokenInv, TokenTypeOK, CacheInv,
       ReturnedIsLive, NoToken, Places, Answered, Checked

\* Every step preserves the invariant.
LEMMA TokenInvNext == TokenInv /\ [TokenNext]_tokenVars => TokenInv'
<1> SUFFICES ASSUME TokenInv, [TokenNext]_tokenVars PROVE TokenInv'
  OBVIOUS
<1> USE ServiceTokenAssumption DEF TokenInv, TokenTypeOK, CacheInv,
            ReturnedIsLive, MarginSuffices, NoToken, Places,
            Answered, Checked, GoesTo
<1>1. CASE ClockTicks
  BY <1>1 DEF ClockTicks
<1>2. ASSUME NEW c \in Callers, AGetToken(c) PROVE TokenInv'
  BY <1>2, FreshIsLive DEF AGetToken, IsFresh
<1>3. ASSUME NEW c \in Callers, Locked(c) PROVE TokenInv'
  BY <1>3, FreshIsLive DEF Locked, IsFresh
<1>4. ASSUME NEW c \in Callers, SyncGetToken(c) PROVE TokenInv'
  BY <1>4 DEF SyncGetToken
<1>5. ASSUME NEW c \in Callers, Cancel(c) PROVE TokenInv'
  BY <1>5 DEF Cancel, Release
<1>6. ASSUME NEW c \in Callers, GetToken(c) PROVE TokenInv'
  BY <1>6, FreshIsLive DEF GetToken, IsFresh
<1>7. ASSUME NEW c \in Callers, Issue(c) PROVE TokenInv'
  BY <1>7 DEF Issue
<1>8. ASSUME NEW c \in Callers, CallFails(c) PROVE TokenInv'
  BY <1>8 DEF CallFails, Release
<1>9. ASSUME NEW c \in Callers, WriteToken(c) PROVE TokenInv'
  BY <1>9 DEF WriteToken
<1>10. ASSUME NEW c \in Callers, WriteExpiresAt(c) PROVE TokenInv'
  BY <1>10 DEF WriteExpiresAt, ExpiryFrom
<1>11. ASSUME NEW c \in Callers, ReturnToken(c) PROVE TokenInv'
  <2>1. ReturnedIsLive' /\ expired' \subseteq Callers
    <3>1. CASE orphan[c]
      BY <1>11, <3>1 DEF ReturnToken
    <3>2. CASE ~orphan[c]
      BY <1>11, <3>2, GivePreserves, ReturnedTokenIsLive DEF ReturnToken
    <3> QED
      BY <3>1, <3>2
  <2> QED
    BY <1>11, <2>1 DEF ReturnToken, Release
<1>12. CASE UNCHANGED tokenVars
  BY <1>12 DEF tokenVars
<1> QED
  BY <1>1, <1>2, <1>3, <1>4, <1>5, <1>6, <1>7, <1>8, <1>9, <1>10, <1>11, <1>12
     DEF TokenNext, ThreadStep

\* No caller of get_token or aget_token is ever given an expired token, as long
\* as two latencies fit the margin: for any number of concurrent, cancelled and
\* synchronous refreshes.
THEOREM NoExpiredToken ==
    TokenSpec => []ReturnedIsLive
<1>1. TokenInv => ReturnedIsLive
  BY DEF TokenInv
<1> QED
  BY <1>1, TokenInvInit, TokenInvNext, PTL DEF TokenSpec

\* The variables keep their types, and the expiry the cache holds is never more
\* than two latencies too late.
THEOREM CacheIsSound ==
    TokenSpec => [](TokenTypeOK /\ CacheInv)
<1>1. TokenInv => TokenTypeOK /\ CacheInv
  BY DEF TokenInv
<1> QED
  BY <1>1, TokenInvInit, TokenInvNext, PTL DEF TokenSpec
=============================================================================
