-------------------------------- MODULE MCApi --------------------------------
(* Instances for TLC of three components of the API that share no state: what  *)
(* an alert is given of a policy, one incident, and the limiter before them.   *)
(* A behaviour is one of the component `part`; the others stay as they are.    *)
(* Rules, steps and targets are numbers, so that their columns can be tuples.  *)
EXTENDS PolicySnapshot, Incidents, RateLimiter

CONSTANTS p1, p2

VARIABLE part

\* Rules of both policies; two have the same priority.
Priorities   == <<1, 2, 2>>
RulePolicies == <<p1, p2, p1>>

\* Three steps of the first policy, two of which compete for a number.
StepPolicies == <<p1, p1, p1>>
Numbers      == <<1, 2, 2>>

TargetSteps == <<1, 2>>

apiVars == <<part, vars, incidentVars, limiterVars>>

ApiInit ==
  Init /\ IncidentInit /\ LimiterInit /\ part \in {"policy", "incident", "limiter"}

OfPolicy   == part = "policy" /\ UNCHANGED <<part, incidentVars, limiterVars>>
OfIncident == part = "incident" /\ UNCHANGED <<part, vars, limiterVars>>
OfLimiter  == part = "limiter" /\ UNCHANGED <<part, vars, incidentVars>>

\* The requests to an incident are finite: the instance ends when all are answered.
AllAnswered == Answered = Req /\ UNCHANGED incidentVars

ApiNext ==
  \/ OfPolicy /\ Next
  \/ OfIncident /\ (IncidentNext \/ AllAnswered)
  \/ OfLimiter /\ LimiterNext

\* The fairness of LimiterFairSpec, for the behaviours of the limiter.
ApiSpec ==
  /\ ApiInit /\ [][ApiNext]_apiVars
  /\ WF_apiVars(OfLimiter /\ Cleanup) /\ WF_apiVars(OfLimiter /\ Elapse)
=============================================================================
