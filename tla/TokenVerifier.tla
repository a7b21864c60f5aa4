--------------------------- MODULE TokenVerifier ---------------------------
(***************************************************************************)
(* The cache of a Keycloak realm's signing keys (auth/decode.py).          *)
(*                                                                         *)
(* Requests verify tokens concurrently: adecode_token runs on the event    *)
(* loop and moves a refresh of stale keys to a thread, decode_token runs   *)
(* in the caller's thread.  Keys are fetched under a threading.Lock; the   *)
(* fetch takes time, may fail, and the realm may rotate its key meanwhile. *)
(* Time is a set of ages, in ticks, which saturate at AgeCap.              *)
(***************************************************************************)
EXTENDS Integers

CONSTANTS
    Requests,      \* concurrent callers
    SyncRequests,  \* those that call decode_token from a thread of their own
    Ttl,           \* ttl
    MinInterval,   \* min_refresh_interval
    MaxFetch,      \* longest time a fetch takes (the HTTP timeout)
    MaxRotations,  \* bound on the rotations of the realm's key
    NoOne          \* not a request

Keys == 0..MaxRotations     \* keys the realm uses, one after the other
NoKeys == -1                \* _keys is None
UnknownKid == -2            \* a token whose kid no realm key has
Malformed == -3             \* a token without a readable header
NoKid == -6                 \* a token whose header names no key: not one of the realm's
Tokens == Keys \cup {UnknownKid, Malformed, NoKid}

AgeCap == (IF Ttl < MinInterval THEN MinInterval ELSE Ttl) + MaxFetch + 1

ASSUME VerifierAssumption ==
    /\ SyncRequests \subseteq Requests /\ NoOne \notin Requests
    /\ Ttl \in Nat /\ MinInterval \in Nat /\ MaxFetch \in Nat
    /\ MaxRotations \in Nat

VARIABLES
    realmKey,    \* the key the realm publishes and signs with
    up,          \* Keycloak answers
    cached,      \* _keys
    keyAge,      \* clock - _fetched_at
    attemptAge,  \* clock - _last_attempt
    lock,        \* holder of _lock
    answer,      \* what certs() will return to the fetch under way
    loopOwner,   \* request that blocks the event loop
    pc, kid, result,   \* per request: position, token, outcome
    lastFailed,  \* history: the last fetch failed
    retiredAge   \* history: ticks since the realm stopped using a key

realmVars == <<realmKey, up, retiredAge>>
cacheVars == <<cached, keyAge, attemptAge, lastFailed>>
requestVars == <<pc, kid, result>>
vars == <<realmVars, cacheVars, lock, answer, loopOwner, requestVars>>

PCs == {"idle", "check", "thread", "refresh", "fetchThread", "lookup", "fetchLookup"}
Results == {"none", "claims", "401", "503"}
Failure == -4               \* certs() raises
Waiting == -5               \* no answer yet

TypeOK ==
    /\ realmKey \in Keys /\ up \in BOOLEAN
    /\ cached \in Keys \cup {NoKeys}
    /\ keyAge \in -MinInterval..AgeCap /\ attemptAge \in 0..AgeCap
    /\ lock \in Requests \cup {NoOne} /\ loopOwner \in Requests \cup {NoOne}
    /\ answer \in Keys \cup {Waiting, Failure}
    /\ pc \in [Requests -> PCs]
    /\ kid \in [Requests -> Tokens]
    /\ result \in [Requests -> Results]
    /\ lastFailed \in BOOLEAN
    /\ retiredAge \in [Keys -> 0..AgeCap]

Init ==
    /\ realmKey = 0 /\ up \in BOOLEAN
    /\ cached = NoKeys /\ keyAge = AgeCap /\ attemptAge = AgeCap
    /\ lock = NoOne /\ loopOwner = NoOne /\ answer = Waiting
    /\ pc = [r \in Requests |-> "idle"]
    /\ kid = [r \in Requests |-> UnknownKid]
    /\ result = [r \in Requests |-> "none"]
    /\ lastFailed = FALSE
    /\ retiredAge = [k \in Keys |-> 0]

-----------------------------------------------------------------------------
(* The realm and time *)

Fetching == \E r \in Requests : pc[r] \in {"fetchThread", "fetchLookup"}

Older(a) == IF a < AgeCap THEN a + 1 ELSE a

Tick ==
    /\ Fetching => attemptAge < MaxFetch
    /\ keyAge' = Older(keyAge) /\ attemptAge' = Older(attemptAge)
    /\ retiredAge' = [k \in Keys |-> IF k < realmKey THEN Older(retiredAge[k]) ELSE 0]
    /\ UNCHANGED <<realmKey, up, cached, lastFailed, lock, answer, loopOwner, requestVars>>

Rotate ==
    /\ realmKey < MaxRotations
    /\ realmKey' = realmKey + 1
    /\ UNCHANGED <<up, retiredAge, cacheVars, lock, answer, loopOwner, requestVars>>

GoDown == up /\ up' = FALSE
          /\ UNCHANGED <<realmKey, retiredAge, cacheVars, lock, answer, loopOwner, requestVars>>
ComeUp == ~up /\ up' = TRUE
          /\ UNCHANGED <<realmKey, retiredAge, cacheVars, lock, answer, loopOwner, requestVars>>

\* Keycloak answers the fetch under way: the keys it has at this moment.
Answer ==
    /\ Fetching /\ answer = Waiting
    /\ answer' = IF up THEN realmKey ELSE Failure
    /\ UNCHANGED <<realmVars, cacheVars, lock, loopOwner, requestVars>>

-----------------------------------------------------------------------------
(* Requests *)

\* A request runs in its own thread, or on the event loop when that is free.
CanRun(r) == r \in SyncRequests \/ loopOwner \in {NoOne, r}

Goto(r, p) == pc' = [pc EXCEPT ![r] = p]

\* The request ends with x.
Finish(r, x) ==
    /\ Goto(r, "idle")
    /\ kid' = [kid EXCEPT ![r] = UnknownKid]
    /\ result' = [result EXCEPT ![r] = x]

IgnoresTtl == cached = NoKeys
\* needs_refresh, and is_stale in _keys_for
IsStale == cached = NoKeys \/ keyAge > Ttl

\* A request with token k arrives.  decode() refuses a token it can not read.
Arrive(r, k) ==
    /\ pc[r] = "idle" /\ CanRun(r)
    /\ IF r \in SyncRequests /\ k = Malformed
         THEN result' = [result EXCEPT ![r] = "401"] /\ UNCHANGED <<pc, kid>>
         ELSE /\ result' = [result EXCEPT ![r] = "none"]
              /\ kid' = [kid EXCEPT ![r] = k]
              /\ Goto(r, IF r \in SyncRequests THEN "lookup" ELSE "check")
    /\ UNCHANGED <<realmVars, cacheVars, lock, answer, loopOwner>>

\* adecode_token: needs_refresh() without the lock, then a thread or decode.
Check(r) ==
    /\ pc[r] = "check" /\ CanRun(r)
    /\ Goto(r, IF IsStale THEN "thread" ELSE "lookup")
    /\ UNCHANGED <<realmVars, cacheVars, lock, answer, loopOwner, kid, result>>

\* _refresh_if_needed: needs_refresh() again, in the thread, without the lock.
Recheck(r) ==
    /\ pc[r] = "thread"
    /\ Goto(r, IF IsStale THEN "refresh" ELSE "lookup")
    /\ UNCHANGED <<realmVars, cacheVars, lock, answer, loopOwner, kid, result>>

\* _fetch_locked begins: _last_attempt = now, certs() is called.
FetchStarts(r) ==
    /\ lock' = r
    /\ attemptAge' = 0
    /\ answer' = Waiting

\* refresh() takes the lock and fetches, whatever happened while it waited.
Refresh(r) ==
    /\ pc[r] = "refresh" /\ lock = NoOne
    /\ FetchStarts(r)
    /\ Goto(r, "fetchThread")
    /\ UNCHANGED <<realmVars, cached, keyAge, lastFailed, loopOwner, kid, result>>

FullTtlAfterFailure == attemptAge
AgeAfterFailure == attemptAge + Ttl - MinInterval

KeepsFirstKeys == IF cached = NoKeys THEN answer ELSE cached
KeysAfterSuccess == answer

LockLeaksOnFailure == IF answer = Failure THEN lock ELSE NoOne
LockAfterFetch == NoOne

\* _fetch_locked ends: new keys, or the old ones for another MinInterval.
FetchEnds ==
    /\ answer # Waiting
    /\ lock' = LockAfterFetch /\ answer' = Waiting
    /\ IF answer # Failure
         THEN cached' = KeysAfterSuccess /\ keyAge' = attemptAge /\ lastFailed' = FALSE
         ELSE /\ lastFailed' = TRUE
              /\ UNCHANGED cached
              /\ keyAge' = IF cached = NoKeys THEN keyAge ELSE AgeAfterFailure
    /\ UNCHANGED attemptAge

\* The fetch failed and there is nothing to fall back on: 503.
Unavailable == answer = Failure /\ cached = NoKeys

RefreshEnds(r) ==
    /\ pc[r] = "fetchThread"
    /\ FetchEnds
    /\ IF Unavailable
         THEN Finish(r, "503")
         ELSE Goto(r, "lookup") /\ UNCHANGED <<kid, result>>
    /\ UNCHANGED <<realmVars, loopOwner>>

\* validate(keys): only a signature of the cached key is accepted.
Verdict(k, keys) == IF k \in Keys /\ k = keys THEN "claims" ELSE "401"

Decided(r, keys) == Finish(r, Verdict(kid[r], keys))

\* decode() on the event loop finds the lock taken: the whole loop waits.
BlockLoop(r) ==
    /\ pc[r] = "lookup" /\ r \notin SyncRequests /\ loopOwner = NoOne
    /\ kid[r] # Malformed /\ lock # NoOne
    /\ loopOwner' = r
    /\ UNCHANGED <<realmVars, cacheVars, lock, answer, requestVars>>

NeverLooksAgain(k) == FALSE
\* A token with a kid that is not in the cache, looked for at most every MinInterval.
IsUnknownKey(k) == k \notin {NoKid, cached} /\ attemptAge >= MinInterval

LeaveLoop(r) == loopOwner' = IF loopOwner = r THEN NoOne ELSE loopOwner

\* decode(): a malformed header, or _keys_for under the lock.
Lookup(r) ==
    /\ pc[r] = "lookup" /\ CanRun(r)
    /\ \/ /\ kid[r] = Malformed
          /\ Decided(r, cached) /\ LeaveLoop(r)
          /\ UNCHANGED <<cacheVars, lock, answer>>
       \/ /\ kid[r] # Malformed /\ lock = NoOne /\ ~(IsStale \/ IsUnknownKey(kid[r]))
          /\ Decided(r, cached) /\ LeaveLoop(r)
          /\ UNCHANGED <<cacheVars, lock, answer>>
       \/ /\ kid[r] # Malformed /\ lock = NoOne /\ (IsStale \/ IsUnknownKey(kid[r]))
          /\ FetchStarts(r)
          /\ Goto(r, "fetchLookup")
          /\ loopOwner' = IF r \in SyncRequests THEN loopOwner ELSE r
          /\ UNCHANGED <<cached, keyAge, lastFailed, kid, result>>
    /\ UNCHANGED realmVars

LookupFetchEnds(r) ==
    /\ pc[r] = "fetchLookup"
    /\ FetchEnds /\ LeaveLoop(r)
    /\ IF Unavailable
         THEN Finish(r, "503")
         ELSE Decided(r, cached')
    /\ UNCHANGED realmVars

Step(r) == Check(r) \/ Recheck(r) \/ Refresh(r) \/ RefreshEnds(r) \/ BlockLoop(r)
           \/ Lookup(r) \/ LookupFetchEnds(r)

\* Tokens that exist: signed by a key the realm has used, or not by the realm.
Issued == {k \in Tokens : k <= realmKey}

Next ==
    \/ Tick \/ Rotate \/ GoDown \/ ComeUp \/ Answer
    \/ \E r \in Requests : Step(r) \/ \E k \in Issued : Arrive(r, k)

Spec == Init /\ [][Next]_vars

\* Threads and the event loop run what is ready (the lock is not fair, but a
\* waiting thread gets it eventually), certs() returns or times out, time
\* passes, and clients keep sending tokens of the current key.
Fairness ==
    /\ WF_vars(Tick) /\ WF_vars(Answer)
    /\ \A r \in Requests : SF_vars(Step(r)) /\ SF_vars(Arrive(r, realmKey))

FairSpec == Spec /\ Fairness

-----------------------------------------------------------------------------
(* Properties *)

\* The window in which a retired key may still be accepted.
Window == IF Ttl < MaxFetch THEN MaxFetch ELSE Ttl

\* A key the realm retired more than ttl ago is not accepted any more, unless
\* the last fetch failed (the docstring's "the keys we have keep being used").
NoRetiredKey ==
    [][\A r \in Requests :
          /\ result[r] = "none" /\ result'[r] = "claims"
          /\ retiredAge[kid[r]] > Window
          => lastFailed']_vars

\* While Keycloak fails, a request does not use the cached keys without an
\* attempt to fetch them within min_refresh_interval.
FailureIsRetried ==
    [][\A r \in Requests :
          /\ result[r] = "none" /\ result'[r] = "claims"
          /\ lastFailed /\ pc[r] = "lookup"
          => attemptAge <= MinInterval]_vars

\* A token of the realm's current key is refused only when the keys were just
\* looked up (less than min_refresh_interval ago), the last fetch failed, or
\* the realm rotated during the fetch.
RefusedOnlyBriefly ==
    [][\A r \in Requests :
          result[r] = "none" /\ result'[r] = "401" /\ kid[r] = realmKey
          => attemptAge < MinInterval \/ lastFailed' \/ pc[r] = "fetchLookup"]_vars

\* Every request is answered.
EveryRequestAnswered == \A r \in Requests : (pc[r] # "idle") ~> (pc[r] = "idle")

\* After a rotation, with Keycloak up, tokens of the new key get accepted.
RotationIsNoticed ==
    (<>[]up) => []<>(cached = realmKey)

\* The event loop never waits for the network: keys are fetched in a thread.
LoopNeverFetches ==
    \A r \in Requests \ SyncRequests : pc[r] # "fetchLookup"
=============================================================================
