---------------------------- MODULE MCEmailQueue ----------------------------
(***************************************************************************)
(* Small instances of EmailQueue for TLC.                                  *)
(***************************************************************************)
EXTENDS EmailQueue, TLC

CONSTANTS l1, welcome1, alert1, alert2

\* No property of two processors tells one from the other.
EitherProcessor == Permutations(Processors)

\* A single lead with a welcome mail and an alert.
PairLeads == {l1}
PairMessages == {welcome1, alert1}
PairLeadOf == [m \in PairMessages |-> l1]
PairPriority == [m \in PairMessages |-> IF m = welcome1 THEN 0 ELSE 2]

\* A welcome mail and two alerts of one lead.
TripleMessages == {welcome1, alert1, alert2}
TripleLeadOf == [m \in TripleMessages |-> l1]
TriplePriority == [m \in TripleMessages |-> IF m = welcome1 THEN 0 ELSE 2]

\* The two alerts have one priority and differ in nothing else.
EitherAlert == Permutations({alert1, alert2})
=============================================================================
