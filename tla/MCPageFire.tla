------------------------------ MODULE MCPageFire ------------------------------
(* An instance of PageFire for TLC. *)
EXTENDS PageFire

CONSTANTS a1, p1

\* A step that pages, then a minute until the alert is due again.
Snapshots == [a \in {a1} |-> [repeat |-> 0, steps |-> <<[delay |-> 1, pages |-> {p1}]>>]]

Backoffs == <<1>>
=============================================================================
