--------------------------- MODULE MCFileSharing ---------------------------
(* Instances of FileSharing for TLC: n1 shares one group with n2, and n2   *)
(* one or two more with n3.                                                *)
EXTENDS FileSharing

CONSTANTS n1, n2, n3, gA, gB, gC, f1, f2

Line == (n1 :> <<gA>>) @@ (n2 :> <<gA, gB>>) @@ (n3 :> <<gB>>)
Twice == (n1 :> <<gA>>) @@ (n2 :> <<gA, gB, gC>>) @@ (n3 :> <<gB, gC>>)
Apart == (n1 :> <<f1>>) @@ (n2 :> <<>>) @@ (n3 :> <<f2>>)
Together == (n1 :> <<f1, f2>>) @@ (n2 :> <<>>) @@ (n3 :> <<>>)
Alone == (n1 :> <<f1>>) @@ (n2 :> <<>>) @@ (n3 :> <<>>)

\* Two events on a line of nodes, where transfers of one file may break off; one list of
\* two files where it can take two ways, or of one whose transfers may break off.
MCSetups == {[groups |-> Line, have |-> Apart, events |-> 2, breakable |-> {f1}],
             [groups |-> Line, have |-> Together, events |-> 2, breakable |-> {f1}],
             [groups |-> Twice, have |-> Together, events |-> 1, breakable |-> {}],
             [groups |-> Twice, have |-> Alone, events |-> 1, breakable |-> {f1}]}

MCPollSetups == {[groups |-> Line, have |-> Apart, events |-> 2, breakable |-> {f1}]}
=============================================================================
