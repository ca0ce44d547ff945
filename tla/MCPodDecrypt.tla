---------------------------- MODULE MCPodDecrypt ----------------------------
(* Small instances: two sources, one card with two programs.               *)
EXTENDS PodDecrypt, TLC

CONSTANTS s1, s2, a1, a2

TwoSources == {s1, s2}
TwoRequests == {a1, a2}
OneStream == [s \in Sources |-> 1]
\* One source queries the card first, the other starts at once.
JustS1 == {s1}
StartAndEnable == {"start", "enable"}

SymRequests == Permutations(Requests)
=============================================================================
