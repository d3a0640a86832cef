--------------------------- MODULE MCClusterShell ---------------------------
(* An instance of ClusterShell for TLC: two slots and up to four clients   *)
(* of one host; c4 uses the port that c1 used.                             *)
EXTENDS ClusterShell, TLC

CONSTANTS c1, c2, c3, c4, h1

MCHostOf == [c \in Clients |-> h1]
MCPortOf == [c \in Clients |-> IF c = c2 THEN 2 ELSE IF c = c3 THEN 3 ELSE 1]
MCIpOf == <<h1, h1>>

On(m, x) == [machine |-> m, cmd |-> x]
Home == <<On(1, "a")>>
Across == <<On(1, "a"), On(2, "b")>>
Gathered == <<On(Broadcast, "a"), On(Local, "b")>>
Quiet == <<On(Local, "cd"), On(2, "a")>>
Wrong == {<<On(3, "a")>>, <<On(BadName, "a")>>}
Digit == <<On(Local, "2to3")>>
MCDigitLines == {Digit}
MCLines == {NodesLine, Home, Across, Gathered, Quiet, Digit} \cup Wrong

\* Two lines at once; a machine that leaves while it is needed; two clients that connect
\* at once; one that types and leaves while it registers; a third client that finds a slot
\* that has just been left, or none; a client that comes back on its port, and another one
\* that has taken its slot, or not; a port read together with digits, which make the port
\* of the other slot.
MCSetups == {[ready |-> <<c1, c2>>, fresh |-> {}, lines |-> {Across, Gathered}, maxTyped |-> 2,
              typists |-> {c1, c2}, leavers |-> {}],
             [ready |-> <<c1, c2>>, fresh |-> {}, lines |-> {Across, Gathered, Quiet}, maxTyped |-> 1,
              typists |-> {c1, c2}, leavers |-> {c1, c2}],
             [ready |-> <<>>, fresh |-> {c1, c2}, lines |-> {NodesLine, <<On(BadName, "a")>>}, maxTyped |-> 1,
              typists |-> {c2}, leavers |-> {c1}],
             [ready |-> <<>>, fresh |-> {c1}, lines |-> {NodesLine} \cup Wrong, maxTyped |-> 1,
              typists |-> {c1}, leavers |-> {c1}],
             [ready |-> <<c1, c2>>, fresh |-> {c3}, lines |-> {Across, Gathered}, maxTyped |-> 1,
              typists |-> {c1, c2, c3}, leavers |-> {c2}],
             [ready |-> <<c1>>, fresh |-> {c3, c4}, lines |-> {Home}, maxTyped |-> 1,
              typists |-> {c4}, leavers |-> {c1}],
             [ready |-> <<c2>>, fresh |-> {c4}, lines |-> {Digit, Across}, maxTyped |-> 2,
              typists |-> {c2, c4}, leavers |-> {}]}

MCRaceSetups == {[ready |-> <<>>, fresh |-> {c1, c2}, lines |-> {}, maxTyped |-> 0, typists |-> {}, leavers |-> {c1}]}
=============================================================================
