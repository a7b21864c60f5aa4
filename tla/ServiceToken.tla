---------------------------- MODULE ServiceToken ----------------------------
(***************************************************************************)
(* The service's own access token (auth/service_token.py).  aget_token     *)
(* guards a refresh with an asyncio.Lock and runs it in a thread;          *)
(* get_token, called from threads, has no lock.  A refresh gets a token,   *)
(* then writes _token, then takes the time and writes _expires_at, so the  *)
(* two can be written by different refreshes, and the expiry is counted    *)
(* from the answer, not from the moment Keycloak issued the token.         *)
(* A token is the time it was issued at.                                   *)
(***************************************************************************)
EXTENDS Integers

CONSTANTS
    Callers,      \* concurrent callers
    SyncCallers,  \* those that call get_token from a thread
    Life,         \* expires_in
    Margin,       \* the safety margin (30 s)
    MaxLatency,   \* longest time from the issue of a token to get_token's return
    MayCancel,    \* callers of aget_token may be cancelled
    MaxTime,      \* bound on the clock
    NoCaller      \* not a caller

NoToken == -1

ASSUME ServiceTokenAssumption ==
    /\ SyncCallers \subseteq Callers /\ NoCaller \notin Callers
    /\ Life \in Nat /\ Margin \in Nat /\ MaxLatency \in Nat /\ MaxTime \in Nat
    /\ MayCancel \in BOOLEAN

VARIABLES
    now,          \* time.time()
    token,        \* _token
    expiresAt,    \* _expires_at
    refreshLock,  \* holder of _refresh_lock
    at,           \* position of each caller
    got,          \* token of the caller's own refresh
    orphan,       \* the caller was cancelled, its thread goes on
    expired       \* history: callers that were given an expired token

tokenVars == <<now, token, expiresAt, refreshLock, at, got, orphan, expired>>

Places == {"idle", "wantLock", "get", "calling", "issued", "wrote", "returning",
           "fresh", "cached"}
\* _is_fresh() held and _token is not returned yet: in aget_token on the event
\* loop ("fresh"), or in get_token ("cached").
Checked == {"fresh", "cached"}
\* get_token has its token and has not returned yet.
Answered == {"issued", "wrote", "returning"}

TokenTypeOK ==
    /\ now \in 0..MaxTime
    /\ token \in {NoToken} \cup 0..MaxTime
    /\ expiresAt \in Nat
    /\ refreshLock \in Callers \cup {NoCaller}
    /\ at \in [Callers -> Places]
    /\ got \in [Callers -> {NoToken} \cup 0..MaxTime]
    /\ orphan \in [Callers -> BOOLEAN]
    /\ expired \subseteq Callers

TokenInit ==
    /\ now = 0 /\ token = NoToken /\ expiresAt = 0
    /\ refreshLock = NoCaller
    /\ at = [c \in Callers |-> "idle"]
    /\ got = [c \in Callers |-> NoToken]
    /\ orphan = [c \in Callers |-> FALSE]
    /\ expired = {}

-----------------------------------------------------------------------------
\* The clock ticks in units far longer than the time between the two reads of
\* a fast path, "if self._is_fresh(): return self._token".
ClockTicks ==
    /\ now < MaxTime
    /\ \A c \in Callers : at[c] \notin Checked
    /\ \A c \in Callers : at[c] \in Answered => now < got[c] + MaxLatency
    /\ now' = now + 1
    /\ UNCHANGED <<token, expiresAt, refreshLock, at, got, orphan, expired>>

NoMargin == token # NoToken /\ now < expiresAt
IsFresh == token # NoToken /\ now < expiresAt - Margin

GoesTo(c, p) == at' = [at EXCEPT ![c] = p]

\* return self._token
Give(c) == expired' = IF now < token + Life THEN expired ELSE expired \cup {c}

LockLeaks(c) == refreshLock' = IF refreshLock = c /\ at[c] # "calling" THEN NoCaller ELSE refreshLock
\* The end of async with self._refresh_lock, however it ends.
Release(c) == refreshLock' = IF refreshLock = c THEN NoCaller ELSE refreshLock

\* aget_token, up to the lock
AGetToken(c) ==
    /\ at[c] = "idle" /\ c \notin SyncCallers
    /\ GoesTo(c, IF IsFresh THEN "fresh" ELSE "wantLock")
    /\ UNCHANGED <<now, token, expiresAt, refreshLock, got, orphan, expired>>

\* async with self._refresh_lock, and the second look at the cache
Locked(c) ==
    /\ at[c] = "wantLock" /\ refreshLock = NoCaller
    /\ refreshLock' = c
    /\ GoesTo(c, IF IsFresh THEN "fresh" ELSE "get")
    /\ UNCHANGED <<now, token, expiresAt, got, orphan, expired>>

\* get_token called from a thread
SyncGetToken(c) ==
    /\ at[c] = "idle" /\ c \in SyncCallers
    /\ GoesTo(c, "get")
    /\ UNCHANGED <<now, token, expiresAt, refreshLock, got, orphan, expired>>

\* get_token: the cached token, or a request to Keycloak
GetToken(c) ==
    /\ at[c] = "get"
    /\ GoesTo(c, IF IsFresh THEN "cached" ELSE "calling")
    /\ UNCHANGED <<now, token, expiresAt, refreshLock, got, orphan, expired>>

\* Keycloak issues a token ...
Issue(c) ==
    /\ at[c] = "calling"
    /\ got' = [got EXCEPT ![c] = now]
    /\ GoesTo(c, "issued")
    /\ UNCHANGED <<now, token, expiresAt, refreshLock, orphan, expired>>

\* ... or the request fails, and the exception reaches the caller.
CallFails(c) ==
    /\ at[c] = "calling"
    /\ GoesTo(c, "idle") /\ Release(c)
    /\ orphan' = [orphan EXCEPT ![c] = FALSE]
    /\ UNCHANGED <<now, token, expiresAt, got, expired>>

WriteToken(c) ==
    /\ at[c] = "issued"
    /\ token' = got[c]
    /\ GoesTo(c, "wrote")
    /\ UNCHANGED <<now, expiresAt, refreshLock, got, orphan, expired>>

ExpiryWithMargin(t) == t + Life + Margin
ExpiryFrom(t) == t + Life

WriteExpiresAt(c) ==
    /\ at[c] = "wrote"
    /\ expiresAt' = ExpiryFrom(now)
    /\ GoesTo(c, "returning")
    /\ UNCHANGED <<now, token, refreshLock, got, orphan, expired>>

\* return self._token: whatever a refresh has put there by now.  Nobody is left
\* to give it to when the caller was cancelled.
ReturnToken(c) ==
    /\ at[c] \in Checked \cup {"returning"}
    /\ GoesTo(c, "idle") /\ Release(c)
    /\ got' = [got EXCEPT ![c] = NoToken]
    /\ orphan' = [orphan EXCEPT ![c] = FALSE]
    /\ IF orphan[c] THEN UNCHANGED expired ELSE Give(c)
    /\ UNCHANGED <<now, token, expiresAt>>

\* The task that awaits aget_token is cancelled: the lock is released; a thread
\* that was started goes on, one that was not never starts.
Cancel(c) ==
    /\ MayCancel /\ c \notin SyncCallers /\ ~orphan[c]
    /\ \/ at[c] \in {"wantLock", "get"} /\ GoesTo(c, "idle") /\ UNCHANGED orphan
       \/ /\ at[c] \in {"get", "calling", "cached"} \cup Answered
          /\ orphan' = [orphan EXCEPT ![c] = TRUE]
          /\ UNCHANGED at
    /\ Release(c)
    /\ UNCHANGED <<now, token, expiresAt, got, expired>>

ThreadStep(c) == GetToken(c) \/ Issue(c) \/ CallFails(c) \/ WriteToken(c)
                 \/ WriteExpiresAt(c) \/ ReturnToken(c)

TokenNext == ClockTicks \/ \E c \in Callers :
            AGetToken(c) \/ Locked(c) \/ SyncGetToken(c) \/ Cancel(c) \/ ThreadStep(c)

TokenSpec == TokenInit /\ [][TokenNext]_tokenVars

\* Threads run, requests to Keycloak end, and asyncio.Lock is fair.
FairTokenSpec == TokenSpec /\ \A c \in Callers : SF_tokenVars(Locked(c)) /\ WF_tokenVars(ThreadStep(c))

-----------------------------------------------------------------------------
(* Properties *)

\* The margin covers what the expiry is overestimated by: the latency of one
\* refresh, and that of a second one whose _token was overwritten in between.
MarginSuffices == 2 * MaxLatency <= Margin /\ 2 * MaxLatency < Life

\* No caller is given a token that has expired, whichever refreshes ran at the
\* same time.
ReturnedIsLive == MarginSuffices => expired = {}

\* A caller that waits for the lock gets through, whatever the refresh it waits
\* for comes to.
WaitersGetThrough == \A c \in Callers : at[c] = "wantLock" ~> at[c] # "wantLock"

\* What the cache says of its token is never off by more than two latencies,
\* a thread that wrote its token is not far ahead of the one in the cache, and a
\* token that was found fresh is live although another may have replaced it.
CacheInv ==
    /\ 0 <= now /\ token <= now /\ expiresAt <= now + Life
    /\ token # NoToken => expiresAt <= token + Life + 2 * MaxLatency
    /\ \A c \in Callers :
          /\ at[c] \in Answered => /\ 0 <= got[c] /\ got[c] <= now
                                   /\ now <= got[c] + MaxLatency
          /\ at[c] \in Checked => token # NoToken /\ (MarginSuffices => now < token + Life)
          /\ at[c] \in {"wrote", "returning"} =>
                token # NoToken /\ got[c] <= token + MaxLatency
=============================================================================
