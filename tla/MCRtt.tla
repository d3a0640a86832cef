------------------------------- MODULE MCRtt -------------------------------
(* Instances of Rtt for TLC.                                               *)
EXTENDS Rtt

CONSTANTS a1, b1

\* An address of each version on a network that loses packets; one address under every
\* fault.
MCSetups == {[v4 |-> {a1}, v6 |-> {b1}, faults |-> {"lose"}, maxStrays |-> 0],
             [v4 |-> {a1}, v6 |-> {}, faults |-> FaultKinds, maxStrays |-> 2]}
=============================================================================
