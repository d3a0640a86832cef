------------------------- MODULE MCGroupMembership -------------------------
(* Instances of GroupMembership for TLC: two of the groups share a port.   *)
EXTENDS GroupMembership

CONSTANTS n1, n2, gA, gB, gC

MCPort == [g \in Groups |-> IF g = gC THEN 7001 ELSE 7000]
=============================================================================
