----------------------------- MODULE MCPrefork -----------------------------
(* Small instances of Prefork for TLC.                                     *)
EXTENDS Prefork, TLC

\* Connections are interchangeable (used in the safety runs only).
Symmetry == Permutations(Conns)

\* Enough pids for the workers exponential_spawn starts (less than twice
\* MinSpareServers, or one), one more per connection, and one just reaped.
ASSUME EnoughPids == Cardinality(Pids) > 2 * MinSpareServers + Cardinality(Conns)
=============================================================================
