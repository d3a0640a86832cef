---------------------------- MODULE ClusterShell ----------------------------
(***************************************************************************)
(* The cluster shell of assignment-1/q2 (clustershell_server.c,            *)
(* clustershell_client.c, utils.c).                                        *)
(*                                                                         *)
(* A client forks a child that listens on the client's port, connects to   *)
(* the server and sends it that port; then it sends one line at a time and *)
(* waits for the answer.  The server has one thread per connection.  The   *)
(* thread takes a slot of the machine table, splits a line at its bars     *)
(* with strtok and runs stage after stage: it connects to the children of  *)
(* the machines the stage names and passes them the output so far.  The    *)
(* threads share active_connections, connection_ports and the position of  *)
(* strtok, without a lock.                                                 *)
(*                                                                         *)
(* An output is represented by what produced it.  Lines and outputs fit    *)
(* their buffers, and a command that is run ends.  A client is one run of  *)
(* the program: a user who starts it again, on the same port or on another *)
(* one, is another client.                                                 *)
(***************************************************************************)
EXTENDS Integers, Sequences, FiniteSets

CONSTANTS Clients, Hosts,
          HostOf, PortOf,   \* the host a client runs on, and its third argument
          IpOf,             \* config->data: the hosts of n1, n2, ...
          Lines,            \* what users type: stages of a machine and a command
          DigitLines,       \* those of them that begin with a digit
          Numbers,          \* what a port and the digits of such a line may make together
          Silent,           \* the commands that print nothing (cd)
          Cut,              \* a command that has lost its first characters
          Setups,           \* what a run starts from: see Setup
          None

Slots == DOMAIN IpOf
Local == -1       \* the machine of a stage that names none
Broadcast == 0    \* n*
BadName == -2     \* n0, or a name that does not begin with n

NodesLine == <<[machine |-> Local, cmd |-> "nodes"]>>
TypedCommands == UNION {{l[j].cmd : j \in DOMAIN l} : l \in Lines}
Commands == TypedCommands \cup {Cut}
Stage == [machine : Nat \cup {Local, BadName}, cmd : Commands]
Runs == Seq([cmd : Commands, at : Slots])   \* a stage's output: what printed it, and where
Output == [err : {"none", "invalid", "absent", "broken", "nodes"}, did : Seq(Runs), nodes : SUBSET Slots]
Nothing == [err |-> "none", did |-> <<>>, nodes |-> {}]
NoConn == [st |-> "none", cmd |-> None]

\* ready: the clients that are registered already, in slots 1, 2, ..., and at their prompts;
\* fresh: those that may still be started; the lines users may type, a bound on
\* their number; the clients whose users type, and those that may leave.
Setup == [ready : Seq(Clients), fresh : SUBSET Clients, lines : SUBSET Lines, maxTyped : Nat,
          typists : SUBSET Clients, leavers : SUBSET Clients]

ASSUME ConfigAssumption ==
    /\ IpOf \in Seq(Hosts) /\ HostOf \in [Clients -> Hosts]
    /\ PortOf \in [Clients -> Nat \ {0}]
    /\ None \notin Clients
    /\ Lines \subseteq Seq(Stage) \ {<<>>}
    /\ DigitLines \subseteq {l \in Lines : l[1].machine \in {Local, BadName}} /\ Numbers \subseteq Nat
    /\ Setups \subseteq Setup
    /\ \A su \in Setups : \A s, t \in DOMAIN su.ready :
           /\ HostOf[su.ready[s]] = HostOf[su.ready[t]] /\ PortOf[su.ready[s]] = PortOf[su.ready[t]] => s = t
           /\ su.ready[s] \notin su.fresh
           /\ s \in Slots /\ IpOf[s] = HostOf[su.ready[s]]

VARIABLES
    setup,    \* a member of Setups
    server,   \* "up" or "down"
    active,   \* active_connections
    ports,    \* connection_ports; 0 until a client first sends its port
    strtokAt, \* strtok's static position: a thread's buffer and the next token in it
    tpc,      \* where the thread of a client is
    i,        \* the index of its loop over the slots
    idx,      \* its slot, 0 before it has one
    buff,     \* the line it read
    cmds,     \* curr_cmd and what follows: machine, and a pointer into a thread's buff
    out,      \* output: the stages that made it, or an error
    res,      \* what the machines of the broadcast stage have printed
    conn,     \* its connection to a child: "none", "sent", "printed", "empty" or "lost"
    kpc,      \* a client's child: "off", "setup", "listen" or "dead"
    kidq,     \* the connections it has not closed: thread, slot and command
    cpc,      \* a client's main process
    tosrv,    \* written to the server and not read yet
    tocl,     \* written to the client and not read yet
    typed,    \* lines typed so far
    asked,    \* the client's last line, as typed
    cut,      \* clients whose line was read together with their port
    mixed,    \* threads whose last line was parsed while another thread parsed
    doubled,  \* slots taken by a thread that had seen them free, and were not free any more
    misread,  \* clients whose port was read together with the digits of their line
    found     \* the clients that held the slot a thread is about to connect to, when it looked

tables   == <<active, ports>>
threads  == <<tpc, i, idx, buff, cmds, out, res>>
children == <<kpc, kidq>>
streams  == <<tosrv, tocl>>
users    == <<cpc, typed, asked>>
history  == <<cut, mixed, doubled, misread, found>>
vars == <<setup, server, tables, strtokAt, threads, conn, children, streams, users, history>>

Ready(c) == \E s \in DOMAIN setup.ready : setup.ready[s] = c

Init ==
    /\ setup \in Setups
    /\ server = "up" /\ strtokAt = [buf |-> None, tok |-> 1]
    /\ active = [s \in Slots |-> s \in DOMAIN setup.ready]
    /\ ports = [s \in Slots |-> IF s \in DOMAIN setup.ready THEN PortOf[setup.ready[s]] ELSE 0]
    /\ tpc = [c \in Clients |-> IF Ready(c) THEN "read" ELSE "off"]
    /\ i = [c \in Clients |-> 1]
    /\ idx = [c \in Clients |-> IF Ready(c) THEN CHOOSE s \in DOMAIN setup.ready : setup.ready[s] = c ELSE 0]
    /\ buff = [c \in Clients |-> <<>>]
    /\ cmds = [c \in Clients |-> <<>>]
    /\ out = [c \in Clients |-> Nothing]
    /\ res = [c \in Clients |-> <<>>]
    /\ conn = [c \in Clients |-> NoConn]
    /\ kpc = [c \in Clients |-> IF Ready(c) THEN "listen" ELSE "off"]
    /\ kidq = [c \in Clients |-> <<>>]
    /\ cpc = [c \in Clients |-> IF Ready(c) THEN "prompt" ELSE "off"]
    /\ tosrv = [c \in Clients |-> <<>>]
    /\ tocl = [c \in Clients |-> <<>>]
    /\ asked = [c \in Clients |-> <<>>]
    /\ typed = 0 /\ cut = {} /\ mixed = {} /\ doubled = {} /\ misread = {}
    /\ found = [c \in Clients |-> {}]
-----------------------------------------------------------------------------
(* The client: its user, and the two processes.                            *)

\* fork, connect, and the accept and pthread_create of the server.
Connect(c) ==
    /\ server = "up" /\ cpc[c] = "off" /\ c \in setup.fresh
    /\ cpc' = [cpc EXCEPT ![c] = "connected"]
    /\ kpc' = [kpc EXCEPT ![c] = "setup"]
    /\ tpc' = [tpc EXCEPT ![c] = "scan"]
    /\ UNCHANGED <<setup, server, tables, strtokAt, i, idx, buff, cmds, out, res, conn, kidq,
                   streams, typed, asked, history>>

PortOnly(c) == <<[machine |-> PortOf[c], cmd |-> None]>>

SendPort(c) ==
    /\ cpc[c] = "connected"
    /\ cpc' = [cpc EXCEPT ![c] = "prompt"]
    /\ tosrv' = [tosrv EXCEPT ![c] = Append(@, PortOnly(c))]
    /\ UNCHANGED <<setup, server, tables, strtokAt, threads, conn, children, tocl, typed, asked, history>>

Type(c, l) ==
    /\ cpc[c] = "prompt" /\ c \in setup.typists /\ typed < setup.maxTyped
    /\ typed' = typed + 1
    /\ cpc' = [cpc EXCEPT ![c] = "wait"]
    /\ asked' = [asked EXCEPT ![c] = l]
    /\ tosrv' = [tosrv EXCEPT ![c] = Append(@, l)]
    /\ cut' = cut \ {c}
    /\ UNCHANGED <<setup, server, tables, strtokAt, threads, conn, children, tocl, mixed,
                   doubled, misread, found>>

ReadAnswer(c) ==
    /\ cpc[c] = "wait" /\ tocl[c] # <<>>
    /\ tocl' = [tocl EXCEPT ![c] = Tail(@)]
    /\ cpc' = [cpc EXCEPT ![c] = "prompt"]
    /\ UNCHANGED <<setup, server, tables, strtokAt, threads, conn, children, tosrv, typed, asked, history>>

\* The client ends: exit or Ctrl+C.  The signal ends the child and the exit closes the
\* connection, in either order.
Leave(c) ==
    /\ cpc[c] \in {"connected", "prompt", "wait"} /\ c \in setup.leavers
    /\ cpc' = [cpc EXCEPT ![c] = "leaving"]
    /\ UNCHANGED <<setup, server, tables, strtokAt, threads, conn, children, streams, typed, asked, history>>

\* read returns 0 or -1: the server is gone.
LoseServer(c) ==
    /\ cpc[c] = "wait" /\ tocl[c] = <<>> /\ server = "down"
    /\ cpc' = [cpc EXCEPT ![c] = "leaving"]
    /\ UNCHANGED <<setup, server, tables, strtokAt, threads, conn, children, streams, typed, asked, history>>

\* SIGCHLD: the child has ended.  Nothing says when, or that it does: the signal is lost
\* if the child ends before the handler is in place.
LoseChild(c) ==
    /\ cpc[c] \in {"connected", "prompt", "wait"} /\ kpc[c] = "dead"
    /\ cpc' = [cpc EXCEPT ![c] = "leaving"]
    /\ UNCHANGED <<setup, server, tables, strtokAt, threads, conn, children, streams, typed, asked, history>>

Close(c) ==
    /\ cpc[c] = "leaving"
    /\ cpc' = [cpc EXCEPT ![c] = "gone"]
    /\ tocl' = [tocl EXCEPT ![c] = <<>>]
    /\ UNCHANGED <<setup, server, tables, strtokAt, threads, conn, children, tosrv, typed, asked, history>>

\* bind and listen; with SO_REUSEADDR bind fails only where a client listens already, and
\* then the child ends.
Listen(c) ==
    /\ kpc[c] = "setup"
    /\ LET used == \E d \in Clients : HostOf[d] = HostOf[c] /\ PortOf[d] = PortOf[c] /\ kpc[d] = "listen"
       IN  kpc' = [kpc EXCEPT ![c] = IF used THEN "dead" ELSE "listen"]
    /\ UNCHANGED <<setup, server, tables, strtokAt, threads, conn, kidq, streams, users, history>>

\* One round of the child's loop: accept, read, executeCmd, write, close.
RunCommand(c) ==
    /\ kpc[c] = "listen" /\ kidq[c] # <<>>
    /\ LET q == Head(kidq[c]) IN
           conn' = [conn EXCEPT ![q.thread] = [st |-> IF q.cmd \in Silent THEN "empty" ELSE "printed", cmd |-> q.cmd]]
    /\ kidq' = [kidq EXCEPT ![c] = Tail(@)]
    /\ UNCHANGED <<setup, server, tables, strtokAt, threads, kpc, streams, users, history>>

ChildEnds(c) ==
    /\ cpc[c] \in {"leaving", "gone"} /\ kpc[c] \in {"setup", "listen"}
    /\ kpc' = [kpc EXCEPT ![c] = "dead"]
    /\ kidq' = [kidq EXCEPT ![c] = <<>>]
    /\ conn' = [t \in Clients |-> IF \E k \in DOMAIN kidq[c] : kidq[c][k].thread = t
                                  THEN [conn[t] EXCEPT !.st = "lost"] ELSE conn[t]]
    /\ UNCHANGED <<setup, server, tables, strtokAt, threads, streams, users, history>>
-----------------------------------------------------------------------------
(* The connection thread: registration.                                    *)

\* The program counters at which a thread serves its client from the slot idx; and those at
\* which it holds that slot, its connection open or not.
Serving == {"port", "read", "split", "parse", "run", "dial", "await", "cast", "call", "gather", "reply"}
Placed == Serving \cup {"exited", "failed"}
Holds(c) == tpc[c] \in Placed

At(c, pc) == server = "up" /\ tpc[c] = pc
Goto(c, pc) == tpc' = [tpc EXCEPT ![c] = pc]

\* registerClientConnection looks at one slot.  Rejected, the thread ends and cfd stays
\* open.
Scan(c) ==
    /\ At(c, "scan")
    /\ \/ /\ i[c] \notin Slots
          /\ Goto(c, "rejected") /\ UNCHANGED i
       \/ /\ i[c] \in Slots
          /\ IF IpOf[i[c]] = HostOf[c] /\ ~active[i[c]]
             THEN Goto(c, "take") /\ UNCHANGED i
             ELSE i' = [i EXCEPT ![c] = @ + 1] /\ UNCHANGED tpc
    /\ UNCHANGED <<setup, server, tables, strtokAt, idx, buff, cmds, out, res, conn, children,
                   streams, users, history>>

\* Mutant: the slot before the one found.
TakeSlot_Previous(c) ==
    /\ At(c, "take")
    /\ active' = [active EXCEPT ![i[c]] = TRUE]
    /\ idx' = [idx EXCEPT ![c] = i[c] - 1]
    /\ doubled' = IF active[i[c]] THEN doubled \cup {i[c]} ELSE doubled
    /\ Goto(c, "port")
    /\ UNCHANGED <<setup, server, ports, strtokAt, i, buff, cmds, out, res, conn, children,
                   streams, users, cut, mixed, misread, found>>

TakeSlot(c) ==
    /\ At(c, "take")
    /\ active' = [active EXCEPT ![i[c]] = TRUE]
    /\ idx' = [idx EXCEPT ![c] = i[c]]
    /\ doubled' = IF active[i[c]] THEN doubled \cup {i[c]} ELSE doubled
    /\ Goto(c, "port")
    /\ UNCHANGED <<setup, server, ports, strtokAt, i, buff, cmds, out, res, conn, children,
                   streams, users, cut, mixed, misread, found>>

\* What is left of line l when its first characters went into the ten bytes read for the
\* port: its last stages, the first of them perhaps cut, or nothing.
Remains(l) == UNION {{SubSeq(l, k + 1, Len(l)), <<[machine |-> Local, cmd |-> Cut]>> \o SubSeq(l, k + 1, Len(l))}
                     : k \in DOMAIN l}

\* The port is read alone, or with the beginning of the line: then atoi goes on into the
\* line if that begins with a digit.
ReadPort(c) ==
    /\ At(c, "port") /\ tosrv[c] # <<>>
    /\ \E p \in {Head(tosrv[c])[1].machine} \cup Numbers :
          /\ ports' = [ports EXCEPT ![idx[c]] = p]
          /\ \/ /\ p = Head(tosrv[c])[1].machine
                /\ tosrv' = [tosrv EXCEPT ![c] = Tail(@)]
                /\ UNCHANGED <<cut, misread>>
             \/ /\ Len(tosrv[c]) = 2
                /\ \E r \in Remains(tosrv[c][2]) : tosrv' = [tosrv EXCEPT ![c] = IF r = <<>> THEN <<>> ELSE <<r>>]
                /\ cut' = cut \cup {c}
                /\ IF tosrv[c][2] \in DigitLines
                   THEN p \in Numbers /\ misread' = misread \cup {c}
                   ELSE p = Head(tosrv[c])[1].machine /\ UNCHANGED misread
    /\ Goto(c, "read")
    /\ UNCHANGED <<setup, server, active, strtokAt, i, idx, buff, cmds, out, res, conn, children, tocl, users,
                   mixed, doubled, found>>

\* The connection ends before the port: the slot is freed, but not after an error.
ReadNoPort(c) ==
    /\ At(c, "port") /\ tosrv[c] = <<>> /\ cpc[c] = "gone"
    /\ \/ Goto(c, "closed") /\ active' = [active EXCEPT ![idx[c]] = FALSE]
       \/ Goto(c, "failed") /\ UNCHANGED active
    /\ UNCHANGED <<setup, server, ports, strtokAt, i, idx, buff, cmds, out, res, conn, children,
                   streams, users, history>>

\* Mutant: the slot is not freed.
ReadEnd_Kept(c) ==
    /\ At(c, "read") /\ tosrv[c] = <<>> /\ cpc[c] = "gone"
    /\ Goto(c, "closed")
    /\ UNCHANGED <<setup, server, tables, strtokAt, i, idx, buff, cmds, out, res, conn,
                   children, streams, users, history>>

ReadEnd(c) ==
    /\ At(c, "read") /\ tosrv[c] = <<>> /\ cpc[c] = "gone"
    /\ active' = [active EXCEPT ![idx[c]] = FALSE]
    /\ Goto(c, "closed")
    /\ UNCHANGED <<setup, server, ports, strtokAt, i, idx, buff, cmds, out, res, conn, children,
                   streams, users, history>>
-----------------------------------------------------------------------------
(* The connection thread: a line.                                          *)

ReadLine(c) ==
    /\ At(c, "read") /\ tosrv[c] # <<>>
    /\ tosrv' = [tosrv EXCEPT ![c] = Tail(@)]
    /\ buff' = [buff EXCEPT ![c] = Head(tosrv[c])]
    /\ out' = [out EXCEPT ![c] = IF Head(tosrv[c]) = NodesLine
                                 THEN [Nothing EXCEPT !.err = "nodes", !.nodes = {s \in Slots : active[s]}]
                                 ELSE Nothing]
    /\ Goto(c, IF Head(tosrv[c]) = NodesLine THEN "reply" ELSE "split")
    /\ mixed' = mixed \ {c}
    /\ UNCHANGED <<setup, server, tables, strtokAt, i, idx, cmds, res, conn, children, tocl,
                   users, cut, doubled, misread, found>>

\* strtok has returned the token at p, or NULL.  A bad machine name ends the thread, which
\* keeps its slot and its connection.
TakeToken(c, p) ==
    IF p.tok \notin DOMAIN buff[p.buf]
    THEN /\ Goto(c, "run")
         /\ strtokAt' = p /\ UNCHANGED cmds
    ELSE /\ strtokAt' = [p EXCEPT !.tok = @ + 1]
         /\ IF buff[p.buf][p.tok].machine = BadName
            THEN Goto(c, "exited") /\ UNCHANGED cmds
            ELSE /\ Goto(c, "parse")
                 /\ cmds' = [cmds EXCEPT ![c] = Append(@, [machine |-> buff[p.buf][p.tok].machine, text |-> p])]

Split(c) ==
    /\ At(c, "split")
    /\ TakeToken(c, [buf |-> c, tok |-> 1])
    /\ mixed' = LET others == {d \in Clients : tpc[d] = "parse"} IN
                IF others = {} THEN mixed ELSE mixed \cup others \cup {c}
    /\ UNCHANGED <<setup, server, tables, i, idx, buff, out, res, conn, children, streams,
                   users, cut, doubled, misread, found>>

\* strtok(NULL) goes on wherever any thread left off.
NextToken(c) ==
    /\ At(c, "parse")
    /\ TakeToken(c, strtokAt)
    /\ UNCHANGED <<setup, server, tables, i, idx, buff, out, res, conn, children, streams, users, history>>

\* curr_cmd->cmd points into a buffer that its thread may have filled again.
Text(cmd) == IF cmd.text.tok \in DOMAIN buff[cmd.text.buf] THEN buff[cmd.text.buf][cmd.text.tok].cmd ELSE Cut

\* Mutant: the port of the slot next to s, the machine's number used as an index.
SendTo_Next(c, s, pc) ==
    LET to == {d \in Clients : HostOf[d] = IpOf[s] /\ PortOf[d] = ports[(s % Len(IpOf)) + 1] /\ kpc[d] = "listen"}
    IN  IF to = {}
        THEN server' = "down" /\ UNCHANGED <<kidq, conn, tpc, found>>
        ELSE /\ \E d \in to : kidq' = [kidq EXCEPT ![d] = Append(@, [thread |-> c, slot |-> s, cmd |-> Text(Head(cmds[c]))])]
             /\ conn' = [conn EXCEPT ![c] = [st |-> "sent", cmd |-> None]]
             /\ Goto(c, pc) /\ found' = [found EXCEPT ![c] = {}] /\ UNCHANGED server

\* clientSetup and the write of the command, to the child at the address and port of slot
\* s; when nothing listens there, errExit ends the server.
SendTo(c, s, pc) ==
    LET to == {d \in Clients : HostOf[d] = IpOf[s] /\ PortOf[d] = ports[s] /\ kpc[d] = "listen"}
    IN  IF to = {}
        THEN server' = "down" /\ UNCHANGED <<kidq, conn, tpc, found>>
        ELSE /\ \E d \in to : kidq' = [kidq EXCEPT ![d] = Append(@, [thread |-> c, slot |-> s, cmd |-> Text(Head(cmds[c]))])]
             /\ conn' = [conn EXCEPT ![c] = [st |-> "sent", cmd |-> None]]
             /\ Goto(c, pc) /\ found' = [found EXCEPT ![c] = {}] /\ UNCHANGED server

\* Mutant: a machine's number is not turned into an index.
SlotOf_Raw(c) == IF Head(cmds[c]).machine = Local THEN idx[c] ELSE Head(cmds[c]).machine + 1

SlotOf(c) == IF Head(cmds[c]).machine = Local THEN idx[c] ELSE Head(cmds[c]).machine

Holding(s) == {d \in Clients : tpc[d] \in Placed /\ idx[d] = s}

\* Mutant: the slot is not looked at.
RunNamed_Unchecked(c) ==
    /\ At(c, "run") /\ cmds[c] # <<>> /\ Head(cmds[c]).machine # Broadcast
    /\ IF SlotOf(c) \in Slots
       THEN Goto(c, "dial") /\ found' = [found EXCEPT ![c] = Holding(SlotOf(c))] /\ UNCHANGED out
       ELSE /\ out' = [out EXCEPT ![c] = [Nothing EXCEPT !.err = "invalid"]]
            /\ Goto(c, "reply") /\ UNCHANGED found
    /\ UNCHANGED <<setup, server, tables, strtokAt, i, idx, buff, cmds, res, conn, children, streams, users,
                   cut, mixed, doubled, misread>>

\* A stage with its machine: its slot is looked at.
RunNamed(c) ==
    /\ At(c, "run") /\ cmds[c] # <<>> /\ Head(cmds[c]).machine # Broadcast
    /\ LET s == SlotOf(c)
           error == IF s \notin Slots THEN "invalid" ELSE "absent"
       IN  IF s \in Slots /\ active[s]
           THEN Goto(c, "dial") /\ found' = [found EXCEPT ![c] = Holding(s)] /\ UNCHANGED out
           ELSE /\ out' = [out EXCEPT ![c] = [Nothing EXCEPT !.err = error]]
                /\ Goto(c, "reply") /\ UNCHANGED found
    /\ UNCHANGED <<setup, server, tables, strtokAt, i, idx, buff, cmds, res, conn, children, streams, users,
                   cut, mixed, doubled, misread>>

\* The thread connects to the machine of the slot, whoever has it by now.
Dial(c) ==
    /\ \/ At(c, "dial") /\ SendTo(c, SlotOf(c), "await")
       \/ At(c, "call") /\ SendTo(c, i[c], "gather")
    /\ UNCHANGED <<setup, tables, strtokAt, i, idx, buff, cmds, out, res, kpc, streams, users,
                   cut, mixed, doubled, misread>>

\* The stage has ended with the output of its machines.
StageDone(c, runs) ==
    /\ out' = [out EXCEPT ![c].did = Append(@, runs)]
    /\ cmds' = [cmds EXCEPT ![c] = Tail(@)]
    /\ Goto(c, "run")

\* What a read of the child's answer gives.  A child that ended gives no output or an error.
Got(c, s) == IF conn[c].st = "printed" THEN <<[cmd |-> conn[c].cmd, at |-> s]>> ELSE <<>>
Broken(c) ==
    /\ conn[c].st = "lost"
    /\ out' = [out EXCEPT ![c] = [Nothing EXCEPT !.err = "broken"]]
    /\ Goto(c, "reply")

Await(c) ==
    /\ At(c, "await") /\ conn[c].st \in {"printed", "empty", "lost"}
    /\ conn' = [conn EXCEPT ![c] = NoConn]
    /\ \/ StageDone(c, Got(c, SlotOf(c)))
       \/ Broken(c) /\ UNCHANGED cmds
    /\ UNCHANGED <<setup, server, tables, strtokAt, i, idx, buff, res, children, streams, users, history>>

StartBroadcast(c) ==
    /\ At(c, "run") /\ cmds[c] # <<>> /\ Head(cmds[c]).machine = Broadcast
    /\ i' = [i EXCEPT ![c] = 1]
    /\ res' = [res EXCEPT ![c] = <<>>]
    /\ Goto(c, "cast")
    /\ UNCHANGED <<setup, server, tables, strtokAt, idx, buff, cmds, out, conn, children,
                   streams, users, history>>

\* One turn of the loop over the slots, up to the connection.
Cast(c) ==
    /\ At(c, "cast")
    /\ \/ /\ i[c] \notin Slots
          /\ StageDone(c, res[c])
          /\ UNCHANGED <<i, found>>
       \/ /\ i[c] \in Slots /\ ~active[i[c]]
          /\ i' = [i EXCEPT ![c] = @ + 1]
          /\ UNCHANGED <<tpc, cmds, out, found>>
       \/ /\ i[c] \in Slots /\ active[i[c]]
          /\ Goto(c, "call") /\ found' = [found EXCEPT ![c] = Holding(i[c])]
          /\ UNCHANGED <<i, cmds, out>>
    /\ UNCHANGED <<setup, server, tables, strtokAt, idx, buff, res, conn, children, streams, users,
                   cut, mixed, doubled, misread>>

Gather(c) ==
    /\ At(c, "gather") /\ conn[c].st \in {"printed", "empty", "lost"}
    /\ conn' = [conn EXCEPT ![c] = NoConn]
    /\ \/ /\ res' = [res EXCEPT ![c] = @ \o Got(c, i[c])]
          /\ i' = [i EXCEPT ![c] = @ + 1]
          /\ Goto(c, "cast") /\ UNCHANGED out
       \/ Broken(c) /\ UNCHANGED <<i, res>>
    /\ UNCHANGED <<setup, server, tables, strtokAt, idx, buff, cmds, children, streams, users, history>>

\* Mutant: an error is not reported to the client.
Reply_NoError(c) ==
    /\ At(c, "reply") \/ (At(c, "run") /\ cmds[c] = <<>>)
    /\ tocl' = IF cpc[c] = "gone" \/ out[c].err # "none" THEN tocl ELSE [tocl EXCEPT ![c] = Append(@, out[c])]
    /\ out' = [out EXCEPT ![c] = Nothing]
    /\ cmds' = [cmds EXCEPT ![c] = <<>>]
    /\ i' = [i EXCEPT ![c] = 1]
    /\ res' = [res EXCEPT ![c] = <<>>]
    /\ Goto(c, "read")
    /\ UNCHANGED <<setup, server, tables, strtokAt, idx, buff, conn, children, tosrv, users, history>>

\* The answer is written, and lost if the client is gone; resetCommandPipe.
Reply(c) ==
    /\ At(c, "reply") \/ (At(c, "run") /\ cmds[c] = <<>>)
    /\ tocl' = IF cpc[c] = "gone" THEN tocl ELSE [tocl EXCEPT ![c] = Append(@, out[c])]
    /\ out' = [out EXCEPT ![c] = Nothing]
    /\ cmds' = [cmds EXCEPT ![c] = <<>>]
    /\ i' = [i EXCEPT ![c] = 1]
    /\ res' = [res EXCEPT ![c] = <<>>]
    /\ Goto(c, "read")
    /\ UNCHANGED <<setup, server, tables, strtokAt, idx, buff, conn, children, tosrv, users, history>>
-----------------------------------------------------------------------------
Thread(c) ==
    \/ Scan(c) \/ TakeSlot(c) \/ ReadPort(c) \/ ReadNoPort(c) \/ ReadEnd(c)
    \/ ReadLine(c) \/ Split(c) \/ NextToken(c)
    \/ RunNamed(c) \/ Dial(c) \/ Await(c) \/ StartBroadcast(c) \/ Cast(c) \/ Gather(c) \/ Reply(c)

Child(c) == Listen(c) \/ RunCommand(c) \/ ChildEnds(c)

Client(c) == SendPort(c) \/ ReadAnswer(c) \/ LoseServer(c) \/ Close(c)

Next == \E c \in Clients :
    \/ Connect(c) \/ Leave(c) \/ LoseChild(c) \/ \E l \in setup.lines : Type(c, l)
    \/ Client(c) \/ Child(c) \/ Thread(c)

\* The processes and threads run; when a user starts a client, types or leaves is the
\* user's choice.
Fairness == \A c \in Clients : WF_vars(Client(c)) /\ WF_vars(Child(c)) /\ WF_vars(Thread(c))

Spec == Init /\ [][Next]_vars /\ Fairness
-----------------------------------------------------------------------------
(* Properties.                                                             *)

\* The thread has ended without an answer, and cfd is open.
Deserted(c) == tpc[c] \in {"rejected", "exited"}

TypeOK ==
    /\ server \in {"up", "down"}
    /\ active \in [Slots -> BOOLEAN] /\ ports \in [Slots -> Nat]
    /\ strtokAt.buf \in Clients \cup {None} /\ strtokAt.tok \in Nat
    /\ \A c \in Clients :
           /\ tpc[c] \in Serving \cup {"off", "scan", "take", "rejected", "exited", "failed", "closed"}
           /\ i[c] \in 1 .. Len(IpOf) + 1 /\ idx[c] \in {0} \cup Slots
           /\ Holds(c) => idx[c] \in Slots
           /\ buff[c] \in Seq(Stage)
           /\ \A k \in DOMAIN cmds[c] : cmds[c][k].machine \in Int \ {BadName} /\ cmds[c][k].text.buf \in Clients
           /\ out[c] \in Output /\ res[c] \in Runs
           /\ conn[c].st \in {"none", "sent", "printed", "empty", "lost"}
           /\ kpc[c] \in {"off", "setup", "listen", "dead"}
           /\ cpc[c] \in {"off", "connected", "prompt", "wait", "leaving", "gone"}
           /\ Len(tosrv[c]) <= 2 /\ Len(tocl[c]) <= 1 /\ tocl[c] \in Seq(Output)
    /\ found \in [Clients -> SUBSET Clients] /\ misread \subseteq Clients
    /\ setup \in Setups /\ typed \in 0 .. setup.maxTyped

\* Client c is the machine of slot s, and in working order: its child listens, and the
\* server has read its port, alone (clustershell_server.c:138), and did not give the slot
\* to two threads at once (clustershell_server.c:98).
Registered(c, s) ==
    /\ Holds(c) /\ tpc[c] \notin {"port", "failed"} /\ idx[c] = s
    /\ kpc[c] = "listen"
    /\ s \notin doubled /\ c \notin misread

\* A command for a slot whose machine is in working order reaches that machine and no other
\* (clustershell_server.c:155, 220, 293), whatever ports earlier clients left in the table,
\* and although the same port is used again, in this slot or in another one.
RunsWhereNamed ==
    [][\A c, d \in Clients :
           Len(kidq'[d]) > Len(kidq[d]) /\ Registered(c, kidq'[d][Len(kidq'[d])].slot) => c = d]_vars

\* The answer is made by the stages of the line the client typed, one after the other, each
\* run where the line says; an error names a cause the line has.  Except for a line cut by
\* the read of the port (clustershell_server.c:138), or parsed while another thread parsed
\* (utils.c:235).
AnswersOwnLine ==
    \A c \in Clients : \A k \in DOMAIN tocl[c] :
        LET a == tocl[c][k]
            fits(runs, stage) == \A r \in DOMAIN runs :
                /\ runs[r].cmd = stage.cmd /\ stage.cmd \notin Silent
                /\ IF stage.machine = Broadcast THEN r > 1 => runs[r - 1].at < runs[r].at
                   ELSE r = 1 /\ runs[r].at = IF stage.machine = Local THEN idx[c] ELSE stage.machine
        IN  c \notin cut \cup mixed =>
            /\ a.err = "nodes" <=> asked[c] = NodesLine
            /\ a.err = "none" => Len(a.did) = Len(asked[c]) /\ \A j \in DOMAIN a.did : fits(a.did[j], asked[c][j])
            /\ a.err = "invalid" => \E j \in DOMAIN asked[c] : asked[c][j].machine > Len(IpOf)

\* A slot is active exactly while one thread holds it, unless two threads took it at once
\* (clustershell_server.c:98-100).
SlotsExclusive ==
    \A s \in Slots \ doubled :
        Cardinality({c \in Clients : Holds(c) /\ idx[c] = s}) = IF active[s] THEN 1 ELSE 0

\* A slot is active while a thread serves a client in it: "activeConnections[i] is true when
\* server is connected with client (i+1)" (clustershell_server.c:47).
ActiveWhenConnected == \A c \in Clients : tpc[c] \in Serving => active[idx[c]]

\* The server ends only when it turns to a slot that was held when the thread looked at it
\* (clustershell_server.c:215, 284) and has no machine in working order when it connects
\* (utils.c:293): the client has left in between, or is registering, or its child does not
\* listen, or it has the port of another.
Target(t) == IF tpc[t] = "call" THEN i[t] ELSE SlotOf(t)
EndsOnlyAtEdges ==
    [][server' # server =>
           \E t \in Clients :
               /\ tpc[t] \in {"dial", "call"} /\ Target(t) \in Slots
               /\ found[t] # {} \/ Target(t) \in doubled
               /\ \A c \in Clients : ~Registered(c, Target(t))]_vars

\* A line is answered, or the client ends, unless the server's thread ended without closing
\* the connection or the line was read as a part of the port.
Answered ==
    \A c \in Clients : cpc[c] = "wait" ~> (cpc[c] # "wait" \/ Deserted(c) \/ c \in cut)
=============================================================================
