---------------------------- MODULE MCEscalation ----------------------------
(* Instances of Escalation for TLC. *)
EXTENDS Escalation

CONSTANTS a1, a2, p1, p2

\* Two steps and one repetition; and a policy without steps.
SnapshotWithEmpty ==
  [a \in {a1, a2} |->
     IF a = a1
       THEN [repeat |-> 1, steps |-> <<[delay |-> 1, pages |-> {p1, p2}], [delay |-> 2, pages |-> {p1}]>>]
       ELSE [repeat |-> 1, steps |-> <<>>]]
=============================================================================
