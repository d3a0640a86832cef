------------------------------ MODULE MCShell ------------------------------
(* Instances of Shell for TLC.                                             *)
EXTENDS Shell

Cmd(n) == [size |-> n, redirect |-> "none"]
a == Cmd(1)
To == [size |-> 1, redirect |-> "out"]
From == [size |-> 1, redirect |-> "in"]
Both == [size |-> 1, redirect |-> "both"]

Typed(kind, k, stages, bg) == [kind |-> kind, idx |-> k, stages |-> stages, bg |-> bg]
Run(stages) == Typed("run", 0, stages, FALSE)
Small == <<<<a>>>>

\* Stages of one, two and three commands in several orders; redirections; outputs that
\* exceed the copy buffer and the pipe.
Pipelines == {Run(<<<<a>>, <<a, Cmd(2)>>, <<a>>>>), Run(<<<<a>>, <<a, a, a>>, <<a, a>>>>),
              Run(<<<<Cmd(2)>>, <<a, a>>, <<a, a, a>>, <<a>>>>),
              Run(<<<<a>>, <<To, a>>, <<From, a>>>>), Run(<<<<a>>, <<Both, a>>, <<a>>>>),
              Run(<<<<Cmd(4)>>, <<a, a>>>>), Run(<<<<Cmd(5)>>, <<a>>>>), Run(<<<<Cmd(4)>>, <<To, a>>, <<a>>>>)}

\* 1 and 3 share a bucket.
Tables == {Typed("insert", 1, Small, FALSE), Typed("insert", 3, Small, FALSE), Typed("insert", 1, <<<<a>>, <<a>>>>, TRUE),
           Typed("delete", 1, <<>>, FALSE), Typed("delete", 3, <<>>, FALSE)}
Ends == {Typed("exit", 0, <<>>, FALSE), Typed("malformed", 0, <<>>, FALSE)}
Shorts == {Run(Small), Typed("run", 0, <<<<a>>, <<a>>>>, TRUE)}

MCLines == Pipelines \cup Tables \cup Ends \cup Shorts

\* A pipeline and Ctrl+C; the table; jobs after and beside each other.
MCSetups == {[lines |-> Pipelines, maxTyped |-> 1, maxInts |-> 1],
             [lines |-> Tables, maxTyped |-> 4, maxInts |-> 1],
             [lines |-> Shorts \cup Ends, maxTyped |-> 3, maxInts |-> 1]}

MCRaceSetups == {[lines |-> {Run(Small)}, maxTyped |-> 1, maxInts |-> 0]}
=============================================================================
