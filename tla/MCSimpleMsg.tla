---------------------------- MODULE MCSimpleMsg ----------------------------
(* A small instance of SimpleMsg for TLC: two users with two processes     *)
(* each.                                                                   *)
EXTENDS SimpleMsg

CONSTANTS u1, u2, grpA, p1, p2, p3, p4

MCOwner == (p1 :> u1) @@ (p2 :> u1) @@ (p3 :> u2) @@ (p4 :> u2)

Cmd(op, kind, name) == [op |-> op, kind |-> kind, name |-> name]
Create == Cmd("create", "group", grpA)
Join == Cmd("join", "group", grpA)
Read == Cmd("read", "group", grpA)
List == Cmd("list", "client", "_ALL_")
ReadFriend == Cmd("read", "client", u1)

Begin(cmds, overlap, maxMsgs, maxStops) ==
    [cmds |-> cmds, overlap |-> overlap, maxMsgs |-> maxMsgs, maxStops |-> maxStops]

\* One user creates a group and writes to it or to the other, who joins or lists, and reads;
\* the same user joins twice; two commands of a user at once; a command that is stopped,
\* followed by another; a reader that is stopped, followed by another; a user who writes to
\* himself; a user who writes in two processes; a user who writes to himself and reads
\* another, so that his client_queue fills with what nobody displays.
MCSetups ==
    {Begin(p1 :> Create @@ p2 :> Cmd("send", "group", grpA) @@ p3 :> Join @@ p4 :> Read, FALSE, 2, 0),
     Begin(p1 :> Create @@ p2 :> Cmd("send-autodelete", "client", u2) @@ p3 :> List @@ p4 :> Read, FALSE, 1, 0),
     Begin(p1 :> Create @@ p2 :> Cmd("send", "group", grpA) @@ p3 :> Join @@ p4 :> Join, FALSE, 1, 0),
     Begin(p1 :> Create @@ p3 :> Join @@ p4 :> List, TRUE, 0, 0),
     Begin(p2 :> Cmd("send", "client", u2) @@ p3 :> ReadFriend @@ p4 :> ReadFriend, FALSE, 2, 1),
     Begin(p1 :> Cmd("send", "client", u1) @@ p2 :> Cmd("read", "client", u1), FALSE, 2, 0),
     Begin(p1 :> Cmd("send", "client", u2) @@ p2 :> Cmd("send", "client", u2) @@ p3 :> ReadFriend, FALSE, 2, 0),
     Begin(p2 :> Cmd("send", "client", u2) @@ p3 :> Cmd("send", "client", u2) @@ p4 :> ReadFriend, FALSE, 3, 0)}
    \cup {Begin(p1 :> Create @@ p3 :> first @@ p4 :> Join, FALSE, 0, 1) : first \in {Join, List, Create}}
=============================================================================
