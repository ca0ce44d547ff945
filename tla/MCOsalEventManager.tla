------------------------- MODULE MCOsalEventManager -------------------------
(* Small instances: two queues, one or two managers, two senders.          *)
EXTENDS OsalEventManager, TLC

CONSTANTS e1, e2, c1, c2, m1, m2, q1, q2, s1, s2

OneEvent == {e1}
TwoEvents == {e1, e2}
OneCategory == {c1}
SameCategory == [e \in Events |-> c1]
OneManager == {m1}
TwoManagers == {m1, m2}
OneQueue == {q1}
TwoQueues == {q1, q2}
OneSender == {s1}
TwoSenders == {s1, s2}
=============================================================================
