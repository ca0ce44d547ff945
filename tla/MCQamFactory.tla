---------------------------- MODULE MCQamFactory ----------------------------
(* Small instances: two tuners, three clients, three services.             *)
EXTENDS QamFactory, TLC

CONSTANTS c1, c2, c3, u1, u2, u3, i1, i2, i3

ThreeClients == {c1, c2, c3}
NoClient == {}
JustC3 == {c3}
JustC2 == {c2}
\* A recording, discovery and live television without a reservation.
MixedWants == (c1 :> "RECORD") @@ (c2 :> "AD") @@ (c3 :> "LIVE")
TwoLive == (c1 :> "LIVE") @@ (c2 :> "LIVE") @@ (c3 :> "AD")
JustAd == {"AD"}
AllLive == [c \in Clients |-> "LIVE"]
ThreeUris == {u1, u2, u3}
TwoUris == {u1, u2}
\* u1 and u2 share a carrier, u3 is a switched digital video service.
MixedFrequency == (u1 :> 7) @@ (u2 :> 7) @@ (u3 :> 0)
\* Only u3 can be cached.
CarrierOfU3 == (u1 :> 0) @@ (u2 :> 0) @@ (u3 :> 7)
TwoFrequencies == (u1 :> 7) @@ (u2 :> 8)
ThreeInstances == {i1, i2, i3}
TwoInstances == {i1, i2}
LiveRecordAd == {"LIVE", "RECORD", "AD"}
LiveAndAd == {"LIVE", "AD"}
JustLive == {"LIVE"}
JustU3 == {u3}
NoUri == {}
Enabled == {TRUE}
Either == BOOLEAN

SymInstances == Permutations(Instances)
SymLive == SymInstances \cup Permutations({c1, c2})
=============================================================================
