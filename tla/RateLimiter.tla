----------------------------- MODULE RateLimiter -----------------------------
(***************************************************************************)
(* RateLimiter of internal/api/auth.go, which the router puts before the   *)
(* login, the integrations and the API.  Allow and the cleanup goroutine   *)
(* exclude each other by a mutex, and Allow reads the clock under it, so   *)
(* each is one action.                                                     *)
(*                                                                         *)
(* A request stands for the time it was let through at: requests[k] is the *)
(* list of a key, and age[r] the time since then.  The list keeps entries  *)
(* that are out of the window until the key asks again or is cleaned up.   *)
(***************************************************************************)
EXTENDS Naturals, FiniteSets

CONSTANTS
  Key,      \* keys given to Allow: the middleware passes r.RemoteAddr
  Request,  \* requests that may be stored at a time
  Limit,    \* limit
  Window    \* window

ASSUME LimitAssumption  == Limit \in Nat \ {0}
ASSUME WindowAssumption == Window \in Nat \ {0}

VARIABLES
  requests,  \* RateLimiter.requests; a key without entries is not in the map
  age,       \* time since a stored request was let through, up to Window
  answer     \* what Allow returned last, or "none" once time has gone by

limiterVars == <<requests, age, answer>>

\* A request that is not stored anywhere.
Unstored(r) == \A k \in Key : r \notin requests[k]

\* The entries after the cutoff.
Recent(S) == {r \in S : age[r] < Window}

HasRoom(S) == Cardinality(S) < Limit

LimiterInit ==
  /\ requests = [k \in Key |-> {}]
  /\ age = [r \in Request |-> Window]
  /\ answer = "none"

\* Mutation: the entries out of the window are not filtered out of the list.
LetThrough_Unfiltered(k, r) ==
  /\ HasRoom(Recent(requests[k]))
  /\ requests' = [requests EXCEPT ![k] = @ \cup {r}]
  /\ age' = [age EXCEPT ![r] = 0]
  /\ answer' = "allowed"

LetThrough(k, r) ==
  /\ HasRoom(Recent(requests[k]))
  /\ requests' = [requests EXCEPT ![k] = Recent(@) \cup {r}]
  /\ age' = [age EXCEPT ![r] = 0]
  /\ answer' = "allowed"

Refuse(k) ==
  /\ ~ HasRoom(Recent(requests[k]))
  /\ requests' = [requests EXCEPT ![k] = Recent(@)]
  /\ answer' = "refused"
  /\ UNCHANGED age

Allow(k) == Refuse(k) \/ \E r \in Request : Unstored(r) /\ LetThrough(k, r)

\* Mutation: a key goes as soon as one of its entries is out of the window.
Stale_AnyOld(k) == \E r \in requests[k] : age[r] >= Window

\* Mutation: no key is ever stale.
Stale_Never(k) == FALSE

Stale(k) == Recent(requests[k]) = {}

\* One round of the cleanup goroutine, at any time.
Cleanup ==
  /\ \E k \in Key : requests[k] # {} /\ Stale(k)
  /\ requests' = [k \in Key |-> IF Stale(k) THEN {} ELSE requests[k]]
  /\ UNCHANGED <<age, answer>>

\* The clock goes on between two calls.
Elapse ==
  /\ age' = [r \in Request |-> IF age[r] < Window THEN age[r] + 1 ELSE Window]
  /\ answer' = "none"
  /\ UNCHANGED requests

LimiterNext == (\E k \in Key : Allow(k)) \/ Cleanup \/ Elapse

LimiterSpec == LimiterInit /\ [][LimiterNext]_limiterVars

LimiterFairSpec == LimiterSpec /\ WF_limiterVars(Cleanup) /\ WF_limiterVars(Elapse)

-----------------------------------------------------------------------------

\* Lists of stored requests, their ages and the last answer have their types.
LimiterTypeOK ==
  /\ requests \in [Key -> SUBSET Request]
  /\ age \in [Request -> 0..Window]
  /\ answer \in {"none", "allowed", "refused"}

\* In every window a key gets at most Limit requests through, wherever the
\* window begins and whatever the cleanup has taken away before it.
AtMostLimit == \A k \in Key : Cardinality(Recent(requests[k])) <= Limit

\* What is stored for a key never exceeds Limit, old entries included: a key
\* that asks at every moment costs no more memory than one that is let through.
StoredIsBounded == \A k \in Key : Cardinality(requests[k]) <= Limit

\* The limiter is a sliding window: storing less than the full history and
\* forgetting stale keys changes no answer.
Abstract == INSTANCE SlidingWindow
  WITH accepted <- [k \in Key |-> Recent(requests[k])]

ImplementsWindow == Abstract!Spec

\* A key that stops asking is forgotten, so the map does not grow for ever.
SilentKeysAreForgotten ==
  \A k \in Key : []<>(requests[k] = {}) \/ []<><<Allow(k)>>_limiterVars
=============================================================================
