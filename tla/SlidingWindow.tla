---------------------------- MODULE SlidingWindow ----------------------------
(***************************************************************************)
(* What a rate limiter promises: per key, at most Limit requests accepted  *)
(* in any Window units of time, and a refusal only when that many were.    *)
(***************************************************************************)
EXTENDS Naturals, FiniteSets

CONSTANTS
  Key,      \* callers counted apart
  Request,  \* requests
  Limit,    \* requests accepted per window
  Window    \* length of the window

VARIABLES
  accepted,  \* per key the requests accepted less than Window ago
  age,       \* time since a request was accepted, counted up to Window
  answer     \* the last answer, or "none" once time has gone by

vars == <<accepted, age, answer>>

Init ==
  /\ accepted = [k \in Key |-> {}]
  /\ age = [r \in Request |-> Window]
  /\ answer = "none"

Accept(k, r) ==
  /\ \A l \in Key : r \notin accepted[l]
  /\ Cardinality(accepted[k]) < Limit
  /\ accepted' = [accepted EXCEPT ![k] = @ \cup {r}]
  /\ age' = [age EXCEPT ![r] = 0]
  /\ answer' = "allowed"

Refuse(k) ==
  /\ Cardinality(accepted[k]) >= Limit
  /\ answer' = "refused"
  /\ UNCHANGED <<accepted, age>>

Elapse ==
  /\ age' = [r \in Request |-> IF age[r] < Window THEN age[r] + 1 ELSE Window]
  /\ accepted' = [k \in Key |-> {r \in accepted[k] : age'[r] < Window}]
  /\ answer' = "none"

Next ==
  \/ \E k \in Key, r \in Request : Accept(k, r)
  \/ \E k \in Key : Refuse(k)
  \/ Elapse

Spec == Init /\ [][Next]_vars
=============================================================================
