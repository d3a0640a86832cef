------------------------- MODULE ClusterShellProofs -------------------------
(***************************************************************************)
(* Theorems about ClusterShell, for every number of clients, machines and  *)
(* slots, and every set of lines.                                          *)
(*                                                                         *)
(* The invariant has a part for each of: the tables and who holds a slot   *)
(* (RegInv), what is between a client and its thread (FlowInv), what a     *)
(* thread works with (ThreadInv), and what waits at the children           *)
(* (ChildInv).  The second part adds what a thread has done of its line    *)
(* (AInv), for the answers.                                                *)
(***************************************************************************)
EXTENDS ClusterShell, SeqLemmas

\* The program counters of a thread: before it has read the port; after, with a line in
\* work; without a slot.
Early == {"off", "scan", "take", "port", "rejected"}
Busy == {"split", "parse", "run", "dial", "await", "cast", "call", "gather", "reply"}
Unplaced == Early \ {"port"}
Threads == Early \cup Busy \cup {"read", "exited", "failed", "closed"}

\* The program counters of a thread with a slot that has read its port.
Late == Busy \cup {"read", "exited"}

Holders(s) == {c \in Clients : Holds(c) /\ idx[c] = s}

\* Who has a slot, and whose port the table holds.
RegInv ==
    /\ active \in [Slots -> BOOLEAN]
    /\ ports \in [Slots -> Nat] /\ misread \subseteq Clients
    /\ idx \in [Clients -> {0} \cup Slots]
    /\ tpc \in [Clients -> Threads]
    /\ \A c \in Clients :
           /\ idx[c] = 0 <=> tpc[c] \in Unplaced
           /\ idx[c] # 0 => IpOf[idx[c]] = HostOf[c]
           /\ i[c] \in 1 .. Len(IpOf) + 1
           /\ tpc[c] = "take" => i[c] \in Slots /\ IpOf[i[c]] = HostOf[c]
           \* Once read, and alone, the port of a thread's client is the port of its slot.
           /\ tpc[c] \in Late /\ idx[c] \notin doubled /\ c \notin misread => ports[idx[c]] = PortOf[c]
    /\ \A s \in Slots : s \notin doubled => IF active[s] THEN \E d \in Clients : Holders(s) = {d}
                                                       ELSE Holders(s) = {}

\* Between a client and its thread: the port, then one line and its answer at a time.
FlowInv ==
    /\ cpc \in [Clients -> {"off", "connected", "prompt", "wait", "leaving", "gone"}]
    /\ DOMAIN tosrv = Clients /\ DOMAIN tocl = Clients
    /\ \A c \in Clients :
           /\ cpc[c] = "off" <=> tpc[c] = "off"
           /\ tpc[c] \in {"closed", "failed"} => cpc[c] = "gone"
           /\ tocl[c] = <<>> \/ \E a \in Output : tocl[c] = <<a>>
           /\ tpc[c] \in Early =>
                  /\ tocl[c] = <<>>
                  /\ \/ tosrv[c] = <<>> /\ cpc[c] \notin {"prompt", "wait"}
                     \/ tosrv[c] = <<PortOnly(c)>> /\ cpc[c] \in {"prompt", "leaving", "gone"}
                     \/ \E l \in Seq(Stage) : /\ tosrv[c] = <<PortOnly(c), l>>
                                              /\ cpc[c] \in {"wait", "leaving", "gone"}
           /\ tpc[c] \notin Early =>
                  /\ cpc[c] # "connected"
                  /\ cpc[c] = "prompt" => tpc[c] = "read" /\ tosrv[c] = <<>> /\ tocl[c] = <<>>
                  /\ \/ tosrv[c] = <<>>
                     \/ /\ tpc[c] = "read" /\ tocl[c] = <<>>
                        /\ \E l \in Seq(Stage) : tosrv[c] = <<l>>
                  /\ tpc[c] \in Busy \cup {"exited"} => tocl[c] = <<>>

Positions == [buf : Clients, tok : Nat]
Connections == {"none", "sent", "printed", "empty", "lost"}

\* What a thread needs for its next step.
Works(c) ==
    /\ tpc[c] = "parse" => strtokAt.buf \in Clients
    /\ tpc[c] \in {"dial", "await"} => cmds[c] # <<>> /\ SlotOf(c) \in Slots
    /\ tpc[c] \in {"cast", "call", "gather"} => cmds[c] # <<>>
    /\ tpc[c] \in {"call", "gather"} => i[c] \in Slots
    \* The slot it is about to connect to was held when it looked.
    /\ tpc[c] \in {"dial", "call"} => found[c] # {} \/ Target(c) \in doubled

\* What a thread works with.
ThreadInv ==
    /\ strtokAt \in [buf : Clients \cup {None}, tok : Nat]
    /\ buff \in [Clients -> Seq(Stage)]
    /\ cmds \in [Clients -> Seq([machine : Int \ {BadName}, text : Positions])]
    /\ out \in [Clients -> Output] /\ res \in [Clients -> Runs]
    /\ DOMAIN i = Clients /\ found \in [Clients -> SUBSET Clients]
    /\ \A c \in Clients : Works(c)

\* Two children listen on one port of one host.
SameListener(c, d) ==
    kpc[c] = "listen" /\ kpc[d] = "listen" /\ HostOf[c] = HostOf[d] /\ PortOf[c] = PortOf[d]

\* What waits at the children, and that no two of a host listen on one port.
ChildInv ==
    /\ kpc \in [Clients -> {"off", "setup", "listen", "dead"}]
    /\ kidq \in [Clients -> Seq([thread : Clients, slot : Slots, cmd : Commands])]
    /\ conn \in [Clients -> [st : Connections, cmd : Commands \cup {None}]]
    /\ \A c \in Clients : conn[c].st = "printed" => conn[c].cmd \in Commands
    /\ \A c, d \in Clients : SameListener(c, d) => c = d

Control == server \in {"up", "down"} /\ setup \in Setups /\ typed \in 0 .. setup.maxTyped

IInv == Control /\ RegInv /\ FlowInv /\ ThreadInv /\ ChildInv
-----------------------------------------------------------------------------
(* What a step leaves alone.                                               *)

\* The slots of the machine table.
LEMMA SlotFacts ==
    /\ Slots = 1 .. Len(IpOf) /\ Len(IpOf) \in Nat /\ 0 \notin Slots
    /\ \A s \in Slots : IpOf[s] \in Hosts
    /\ \A c \in Clients : PortOf[c] \in Nat \ {0}
BY ConfigAssumption DEF Slots

\* The tables, while no thread registers or ends.
LEMMA RegFrame ==
    ASSUME RegInv, UNCHANGED <<active, ports, idx, doubled, misread>>, tpc' \in [Clients -> Threads],
           \A c \in Clients : /\ tpc'[c] = tpc[c] \/ (tpc[c] \in Late /\ tpc'[c] \in Late)
                              /\ i'[c] = i[c] \/ (i'[c] \in 1 .. Len(IpOf) + 1 /\ tpc[c] \in Late)
    PROVE  RegInv'
<1>1. \A c \in Clients : /\ Holds(c)' <=> Holds(c)
                         /\ tpc'[c] \in Unplaced <=> tpc[c] \in Unplaced
                         /\ tpc'[c] = "take" => tpc[c] = "take" /\ i'[c] = i[c]
                         /\ tpc'[c] \in Late => tpc[c] \in Late
  BY DEF Holds, Placed, Serving, Late, Busy, Unplaced, Early
<1>2. \A s : Holders(s)' = Holders(s)
  BY <1>1 DEF Holders
<1>3. \A c \in Clients : i'[c] \in 1 .. Len(IpOf) + 1
  BY DEF RegInv
<1>4. \A c \in Clients : tpc'[c] = "take" => i'[c] \in Slots /\ IpOf[i'[c]] = HostOf[c]
  BY <1>1 DEF RegInv
<1>5. \A c \in Clients : /\ idx'[c] = 0 <=> tpc'[c] \in Unplaced
                         /\ idx'[c] # 0 => IpOf[idx'[c]] = HostOf[c]
  BY <1>1 DEF RegInv
<1>6. \A s \in Slots : s \notin doubled' => IF active'[s] THEN \E d \in Clients : Holders(s)' = {d}
                                                       ELSE Holders(s)' = {}
  BY <1>2 DEF RegInv
<1>7. \A c \in Clients : tpc'[c] \in Late /\ idx'[c] \notin doubled' /\ c \notin misread' => ports'[idx'[c]] = PortOf[c]
  BY <1>1 DEF RegInv
<1>8. /\ active' \in [Slots -> BOOLEAN]
      /\ ports' \in [Slots -> Nat] /\ misread' \subseteq Clients
      /\ idx' \in [Clients -> {0} \cup Slots]
  BY DEF RegInv
<1> QED BY <1>3, <1>4, <1>5, <1>6, <1>7, <1>8 DEF RegInv

\* The streams, while a thread works on a line.
LEMMA FlowFrame ==
    ASSUME FlowInv, UNCHANGED <<cpc, tosrv, tocl>>,
           \A c \in Clients : tpc'[c] = tpc[c] \/ (tpc[c] \in Busy /\ tpc'[c] \in Busy \cup {"exited"})
    PROVE  FlowInv'
<1>1. \A c \in Clients : /\ tpc'[c] \in Early <=> tpc[c] \in Early
                         /\ tpc'[c] \in Early => tpc'[c] = tpc[c]
                         /\ tpc'[c] \in {"closed", "failed", "off"} <=> tpc[c] \in {"closed", "failed", "off"}
                         /\ tpc'[c] \in {"closed", "failed", "off", "read"} => tpc'[c] = tpc[c]
                         /\ tpc'[c] \in Busy \cup {"exited"} => tpc[c] \in Busy \cup {"exited"}
                         /\ tpc[c] = "read" => tpc'[c] = "read"
                         /\ tpc'[c] = "off" <=> tpc[c] = "off"
  BY DEF Early, Busy
<1> QED BY <1>1 DEF FlowInv

\* What the threads work with.
LEMMA ThreadFrame ==
    ASSUME ThreadInv, UNCHANGED <<strtokAt, buff, cmds, out, res, i, idx, found>>, doubled \subseteq doubled',
           \A c \in Clients : tpc'[c] = tpc[c] \/ tpc'[c] \notin {"parse", "dial", "await", "cast", "call", "gather"}
    PROVE  ThreadInv'
BY DEF ThreadInv, Works, SlotOf, Target

\* One thread, while others work.
LEMMA WorksFrame ==
    ASSUME NEW d \in Clients, Works(d), tpc'[d] = tpc[d] \/ tpc'[d] \notin {"parse", "dial", "await", "cast", "call", "gather"},
           cmds'[d] = cmds[d], i'[d] = i[d], idx'[d] = idx[d], found'[d] = found[d], doubled \subseteq doubled',
           strtokAt' = strtokAt \/ strtokAt'.buf \in Clients
    PROVE  Works(d)'
BY DEF Works, SlotOf, Target

\* What waits at the children.
LEMMA ChildFrame ==
    ASSUME ChildInv, UNCHANGED <<kpc, kidq, conn>>
    PROVE  ChildInv'
BY DEF ChildInv, SameListener

\* A step that changes nothing.
LEMMA StutterInv == IInv /\ UNCHANGED vars => IInv'
<1> SUFFICES ASSUME IInv, UNCHANGED vars
             PROVE  IInv'
  OBVIOUS
<1>1. UNCHANGED <<setup, server, typed, active, ports, idx, doubled, misread, found, tpc, i, cpc, tosrv, tocl, strtokAt, buff, cmds,
                  out, res, kpc, kidq, conn>>
  BY DEF vars, tables, threads, children, streams, users, history
<1>2. RegInv'
  BY <1>1, RegFrame DEF IInv, RegInv
<1> QED BY <1>1, <1>2, FlowFrame, ThreadFrame, ChildFrame DEF IInv, Control
-----------------------------------------------------------------------------
(* The client.                                                             *)

\* A client of the setup is new, and so are its lines.
LEMMA SetupFacts ==
    ASSUME Control
    PROVE  /\ setup \in Setup /\ setup.maxTyped \in Nat
           /\ \A l \in setup.lines : l \in Seq(Stage)
           /\ setup.ready \in Seq(Clients)
BY ConfigAssumption DEF Control, Setup

\* A client starts, and its connection is accepted.
LEMMA ConnectInv ==
    ASSUME IInv, NEW c \in Clients, Connect(c)
    PROVE  IInv'
<1>1. /\ cpc[c] = "off" /\ cpc' = [cpc EXCEPT ![c] = "connected"]
      /\ tpc' = [tpc EXCEPT ![c] = "scan"] /\ kpc' = [kpc EXCEPT ![c] = "setup"]
      /\ UNCHANGED <<setup, server, typed, active, ports, idx, doubled, misread, found, i, tosrv, tocl, strtokAt, buff, cmds,
                     out, res, kidq, conn>>
  BY DEF Connect, tables, streams, history
<1>2. tpc[c] = "off" /\ tpc'[c] = "scan" /\ \A d \in Clients : d # c => tpc'[d] = tpc[d]
  BY <1>1 DEF IInv, FlowInv, RegInv
<1>3. RegInv'
  <2>1. \A d \in Clients : /\ Holds(d)' <=> Holds(d)
                           /\ tpc'[d] \in Unplaced <=> tpc[d] \in Unplaced
                           /\ tpc'[d] = "take" => tpc[d] = "take"
                           /\ tpc'[d] \in Late => tpc[d] \in Late
    BY <1>2 DEF Holds, Placed, Serving, Unplaced, Late, Busy, Early
  <2>2. \A s : Holders(s)' = Holders(s)
    BY <1>1, <2>1 DEF Holders
  <2>3. tpc' \in [Clients -> Threads]
    BY <1>1 DEF IInv, RegInv, Threads, Early
  <2> QED BY <1>1, <2>1, <2>2, <2>3 DEF IInv, RegInv
<1>4. FlowInv'
  BY <1>1, <1>2 DEF IInv, FlowInv, Early
<1>5. ThreadInv'
  BY <1>1, <1>2, ThreadFrame DEF IInv
<1>6. ChildInv'
  BY <1>1 DEF IInv, ChildInv, SameListener
<1> QED BY <1>1, <1>3, <1>4, <1>5, <1>6 DEF IInv, Control

\* What its user and its two processes do with the connection.
LEMMA ClientInv ==
    ASSUME IInv, NEW c \in Clients, Client(c) \/ Leave(c) \/ LoseChild(c) \/ (\E l \in setup.lines : Type(c, l))
    PROVE  IInv'
<1>1. UNCHANGED <<setup, server, active, ports, idx, doubled, misread, found, tpc, i, strtokAt,
                  buff, cmds, out, res, kpc, kidq, conn>>
  BY DEF Client, SendPort, ReadAnswer, LoseServer, Close, Leave, LoseChild, Type, tables, threads, children, history, streams
<1>2. RegInv' /\ ThreadInv' /\ ChildInv'
  BY <1>1, RegFrame, ThreadFrame, ChildFrame DEF IInv, RegInv
<1>3. Control'
  BY <1>1, SetupFacts DEF Client, SendPort, ReadAnswer, LoseServer, Close, Leave, LoseChild, Type, users, IInv, Control
<1>4. cpc \in [Clients -> {"off", "connected", "prompt", "wait", "leaving", "gone"}]
      /\ DOMAIN tosrv = Clients /\ DOMAIN tocl = Clients
  BY DEF IInv, FlowInv
<1>5. CASE SendPort(c)
  <2>1. tpc[c] \in Early /\ tosrv[c] = <<>>
    BY <1>5 DEF SendPort, IInv, FlowInv
  <2>a. Append(tosrv[c], PortOnly(c)) = <<PortOnly(c)>>
    <3> DEFINE p == PortOnly(c)
    <3> HIDE DEF p
    <3>1. Append(<<>>, p) = <<p>>
      OBVIOUS
    <3> QED BY <2>1, <3>1 DEF p
  <2>2. FlowInv'
    BY <1>1, <1>4, <1>5, <2>1, <2>a DEF SendPort, IInv, FlowInv, Early
  <2> QED BY <1>2, <1>3, <2>2 DEF IInv
<1>6. ASSUME NEW l \in setup.lines, Type(c, l)
      PROVE  IInv'
  <2>1. l \in Seq(Stage) /\ cpc[c] = "prompt" /\ cpc' = [cpc EXCEPT ![c] = "wait"]
        /\ tosrv' = [tosrv EXCEPT ![c] = Append(@, l)] /\ tocl' = tocl
    BY <1>6, SetupFacts DEF Type, IInv
  <2>a. \/ tpc[c] \in Early /\ tosrv[c] = <<PortOnly(c)>>
        \/ tpc[c] \notin Early /\ tpc[c] = "read" /\ tosrv[c] = <<>> /\ tocl[c] = <<>>
    BY <2>1 DEF IInv, FlowInv
  <2>b. Append(<<PortOnly(c)>>, l) = <<PortOnly(c), l>> /\ Append(<<>>, l) = <<l>>
    BY AppendTwo
  <2>2. \/ tpc[c] \in Early /\ tosrv[c] = <<PortOnly(c)>> /\ Append(tosrv[c], l) = <<PortOnly(c), l>>
        \/ /\ tpc[c] = "read" /\ tosrv[c] = <<>> /\ tocl[c] = <<>> /\ Append(tosrv[c], l) = <<l>>
           /\ tpc[c] \notin Early
    BY <2>a, <2>b
  <2>3. FlowInv'
    <3>1. /\ cpc'[c] = "wait" /\ tosrv'[c] = Append(tosrv[c], l)
          /\ \A d \in Clients : d # c => cpc'[d] = cpc[d] /\ tosrv'[d] = tosrv[d]
          /\ cpc' \in [Clients -> {"off", "connected", "prompt", "wait", "leaving", "gone"}]
          /\ DOMAIN tosrv' = Clients
      BY <1>4, <2>1
    <3>2. tpc[c] # "off" /\ tpc[c] \notin {"closed", "failed"}
      BY <2>1 DEF IInv, FlowInv
    <3> QED BY <1>1, <2>1, <2>2, <3>1, <3>2 DEF IInv, FlowInv, Busy, Early
  <2> QED BY <1>2, <1>3, <2>3 DEF IInv
<1>7. CASE ReadAnswer(c)
  <2>1. /\ cpc[c] = "wait" /\ tocl[c] # <<>> /\ cpc' = [cpc EXCEPT ![c] = "prompt"]
        /\ tocl' = [tocl EXCEPT ![c] = Tail(@)] /\ tosrv' = tosrv
    BY <1>7 DEF ReadAnswer
  <2>2. tpc[c] \notin Early /\ tpc[c] \notin Busy \cup {"exited", "closed", "failed"} /\ tosrv[c] = <<>>
    BY <2>1 DEF IInv, FlowInv
  <2>3. tpc[c] = "read"
    BY <2>2 DEF IInv, RegInv, Threads
  <2>4. Tail(tocl[c]) = <<>>
    <3>1. PICK a \in Output : tocl[c] = <<a>>
      BY <2>1 DEF IInv, FlowInv
    <3>2. \A x : Tail(<<x>>) = <<>>
      OBVIOUS
    <3> QED BY <3>1, <3>2
  <2>5. FlowInv'
    BY <1>1, <1>4, <2>1, <2>2, <2>3, <2>4 DEF IInv, FlowInv
  <2> QED BY <1>2, <1>3, <2>5 DEF IInv
<1>8. CASE LoseServer(c) \/ Leave(c) \/ LoseChild(c)
  <2>1. /\ cpc[c] \in {"connected", "prompt", "wait"} /\ cpc' = [cpc EXCEPT ![c] = "leaving"]
        /\ tocl' = tocl /\ tosrv' = tosrv
    BY <1>8 DEF LoseServer, Leave, LoseChild, streams
  <2>2. FlowInv'
    BY <1>1, <1>4, <2>1 DEF IInv, FlowInv
  <2> QED BY <1>2, <1>3, <2>2 DEF IInv
<1>9. CASE Close(c)
  <2>1. /\ cpc[c] = "leaving" /\ cpc' = [cpc EXCEPT ![c] = "gone"]
        /\ tocl' = [tocl EXCEPT ![c] = <<>>] /\ tosrv' = tosrv
    BY <1>9 DEF Close
  <2>2. FlowInv'
    BY <1>1, <1>4, <2>1 DEF IInv, FlowInv
  <2> QED BY <1>2, <1>3, <2>2 DEF IInv
<1> QED BY <1>5, <1>6, <1>7, <1>8, <1>9 DEF Client
-----------------------------------------------------------------------------
(* A client's child.                                                       *)

Waiting == [thread : Clients, slot : Slots, cmd : Commands]

\* The child listens, runs a command, or ends.
LEMMA ChildStep ==
    ASSUME IInv, NEW c \in Clients, Child(c)
    PROVE  IInv'
<1>1. UNCHANGED <<setup, server, typed, active, ports, idx, doubled, misread, found, tpc, i, cpc, tosrv, tocl, strtokAt, buff, cmds,
                  out, res>>
  BY DEF Child, Listen, RunCommand, ChildEnds, tables, threads, streams, users, history
<1>2. Control' /\ RegInv' /\ FlowInv' /\ ThreadInv'
  BY <1>1, RegFrame, FlowFrame, ThreadFrame DEF IInv, RegInv, Control
<1>3. /\ kpc \in [Clients -> {"off", "setup", "listen", "dead"}] /\ kidq \in [Clients -> Seq(Waiting)]
      /\ conn \in [Clients -> [st : Connections, cmd : Commands \cup {None}]]
      /\ \A t \in Clients : conn[t].st = "printed" => conn[t].cmd \in Commands
      /\ \A d, e \in Clients : SameListener(d, e) => d = e
  BY DEF IInv, ChildInv, Waiting
<1>4. CASE Listen(c)
  <2>1. /\ kidq' = kidq /\ conn' = conn
        /\ kpc' \in [Clients -> {"off", "setup", "listen", "dead"}]
        /\ \A d \in Clients : d # c => kpc'[d] = kpc[d]
        /\ kpc'[c] = "listen" =>
               ~\E d \in Clients : HostOf[d] = HostOf[c] /\ PortOf[d] = PortOf[c] /\ kpc[d] = "listen"
    BY <1>3, <1>4 DEF Listen
  <2>2. \A d, e \in Clients : SameListener(d, e)' => d = e
    BY <1>3, <2>1 DEF SameListener
  <2>3. ChildInv'
    BY <1>3, <2>1, <2>2 DEF ChildInv, Waiting
  <2> QED BY <1>2, <2>3 DEF IInv
<1>5. CASE RunCommand(c)
  <2>1. kidq[c] \in Seq(Waiting) /\ kidq[c] # <<>> /\ kpc' = kpc /\ kidq' = [kidq EXCEPT ![c] = Tail(@)]
    BY <1>3, <1>5 DEF RunCommand
  <2>2. PICK q : q = Head(kidq[c])
    OBVIOUS
  <2>3. q \in Waiting /\ Tail(kidq[c]) \in Seq(Waiting) /\ Len(Tail(kidq[c])) = Len(kidq[c]) - 1
        /\ \A k \in 1 .. Len(Tail(kidq[c])) : Tail(kidq[c])[k] = kidq[c][k + 1]
    BY <2>1, <2>2, HeadTailProperties
  <2>4. \E st \in {"empty", "printed"} : conn' = [conn EXCEPT ![q.thread] = [st |-> st, cmd |-> q.cmd]]
    BY <1>5, <2>2 DEF RunCommand
  <2>5. PICK st \in {"empty", "printed"} : conn' = [conn EXCEPT ![q.thread] = [st |-> st, cmd |-> q.cmd]]
    BY <2>4
  <2>6. q.thread \in Clients /\ q.cmd \in Commands
    BY <2>3 DEF Waiting
  <2>7. /\ conn' \in [Clients -> [st : Connections, cmd : Commands \cup {None}]]
        /\ \A t \in Clients : conn'[t].st = "printed" => conn'[t].cmd \in Commands
    BY <1>3, <2>5, <2>6 DEF Connections
  <2>8. kidq' \in [Clients -> Seq(Waiting)]
    BY <1>3, <2>1, <2>3
  <2>9. \A d, e \in Clients : SameListener(d, e)' => d = e
    BY <1>3, <2>1 DEF SameListener
  <2>10. ChildInv'
    BY <1>3, <2>1, <2>7, <2>8, <2>9 DEF ChildInv, Waiting
  <2> QED BY <1>2, <2>10 DEF IInv
<1>6. CASE ChildEnds(c)
  <2>1. /\ kpc' = [kpc EXCEPT ![c] = "dead"] /\ kidq' = [kidq EXCEPT ![c] = <<>>]
        /\ conn' = [t \in Clients |-> IF \E k \in DOMAIN kidq[c] : kidq[c][k].thread = t
                                      THEN [conn[t] EXCEPT !.st = "lost"] ELSE conn[t]]
    BY <1>6 DEF ChildEnds
  <2>2. \A t \in Clients : conn'[t] = conn[t] \/ conn'[t] = [conn[t] EXCEPT !.st = "lost"]
    BY <2>1
  <2>3. \A t \in Clients : /\ conn'[t] \in [st : Connections, cmd : Commands \cup {None}]
                           /\ conn'[t].st = "printed" => conn'[t].cmd \in Commands
    <3> SUFFICES ASSUME NEW t \in Clients
                 PROVE  /\ conn'[t] \in [st : Connections, cmd : Commands \cup {None}]
                        /\ conn'[t].st = "printed" => conn'[t].cmd \in Commands
      OBVIOUS
    <3>1. CASE conn'[t] = conn[t]
      BY <1>3, <3>1
    <3>2. CASE conn'[t] = [conn[t] EXCEPT !.st = "lost"]
      <4>1. conn[t] \in [st : Connections, cmd : Commands \cup {None}]
        BY <1>3
      <4> QED BY <3>2, <4>1 DEF Connections
    <3> QED BY <2>2, <3>1, <3>2
  <2>4. ChildInv'
    <3>1. conn' \in [Clients -> [st : Connections, cmd : Commands \cup {None}]]
      BY <2>1, <2>3
    <3>2. kpc' \in [Clients -> {"off", "setup", "listen", "dead"}]
      BY <1>3, <2>1
    <3>3. kidq' \in [Clients -> Seq(Waiting)]
      BY <1>3, <2>1
    <3>4. \A d, e \in Clients : SameListener(d, e)' => d = e
      BY <1>3, <2>1 DEF SameListener
    <3> QED BY <2>3, <3>1, <3>2, <3>3, <3>4 DEF ChildInv, Waiting
  <2> QED BY <1>2, <2>4 DEF IInv
<1> QED BY <1>4, <1>5, <1>6 DEF Child
-----------------------------------------------------------------------------
(* A thread registers its client.                                          *)

\* A thread looks at a slot.
LEMMA ScanInv ==
    ASSUME IInv, NEW c \in Clients, Scan(c)
    PROVE  IInv'
<1>1. tpc[c] = "scan" /\ UNCHANGED <<setup, server, typed, active, ports, idx, doubled, misread, found, cpc, tosrv, tocl, strtokAt,
                                     buff, cmds, out, res, kpc, kidq, conn>>
  BY DEF Scan, At, tables, streams, users, history, children
<1>2. i[c] \in 1 .. Len(IpOf) + 1 /\ DOMAIN i = Clients /\ tpc \in [Clients -> Threads]
  BY DEF IInv, RegInv, ThreadInv, Works
<1>3. /\ DOMAIN i' = Clients /\ \A d \in Clients : d # c => i'[d] = i[d] /\ tpc'[d] = tpc[d]
      /\ i'[c] \in 1 .. Len(IpOf) + 1 /\ tpc'[c] \in {"scan", "take", "rejected"}
      /\ tpc'[c] = "take" => i'[c] \in Slots /\ IpOf[i'[c]] = HostOf[c]
      /\ tpc' \in [Clients -> Threads]
  <2>1. CASE i[c] \notin Slots /\ Goto(c, "rejected") /\ UNCHANGED i
    BY <1>2, <2>1 DEF Goto, Threads, Early
  <2>2. CASE i[c] \in Slots /\ IpOf[i[c]] = HostOf[c] /\ Goto(c, "take") /\ UNCHANGED i
    BY <1>2, <2>2 DEF Goto, Threads, Early
  <2>3. CASE i[c] \in Slots /\ i' = [i EXCEPT ![c] = @ + 1] /\ UNCHANGED tpc
    BY <1>1, <1>2, <2>3, SlotFacts
  <2> QED BY <2>1, <2>2, <2>3 DEF Scan
<1>4. RegInv'
  <2>1. \A d \in Clients : /\ Holds(d)' <=> Holds(d)
                           /\ tpc'[d] \in Unplaced <=> tpc[d] \in Unplaced
                           /\ tpc'[d] \in Late => tpc[d] \in Late
    BY <1>1, <1>3 DEF Holds, Placed, Serving, Unplaced, Late, Busy, Early
  <2>2. \A s : Holders(s)' = Holders(s)
    BY <1>1, <2>1 DEF Holders
  <2>3. \A d \in Clients : i'[d] \in 1 .. Len(IpOf) + 1 /\ (tpc'[d] = "take" => i'[d] \in Slots /\ IpOf[i'[d]] = HostOf[d])
    BY <1>3 DEF IInv, RegInv
  <2>4. \A d \in Clients : /\ idx'[d] = 0 <=> tpc'[d] \in Unplaced
                           /\ idx'[d] # 0 => IpOf[idx'[d]] = HostOf[d]
    BY <1>1, <2>1 DEF IInv, RegInv
  <2>5. \A s \in Slots : s \notin doubled' => IF active'[s] THEN \E d \in Clients : Holders(s)' = {d}
                                                         ELSE Holders(s)' = {}
    BY <1>1, <2>2 DEF IInv, RegInv
  <2>6. \A d \in Clients : tpc'[d] \in Late /\ idx'[d] \notin doubled' /\ d \notin misread' => ports'[idx'[d]] = PortOf[d]
    BY <1>1, <2>1 DEF IInv, RegInv
  <2>7. /\ active' \in [Slots -> BOOLEAN] /\ idx' \in [Clients -> {0} \cup Slots]
        /\ ports' \in [Slots -> Nat] /\ misread' \subseteq Clients
    BY <1>1 DEF IInv, RegInv
  <2> QED BY <1>3, <2>3, <2>4, <2>5, <2>6, <2>7 DEF RegInv
<1>5. FlowInv'
  <2>1. tpc[c] \in Early /\ tpc'[c] \in Early /\ tpc[c] # "off" /\ tpc'[c] # "off"
    BY <1>1, <1>3 DEF Early
  <2> QED BY <1>1, <1>3, <2>1 DEF IInv, FlowInv, Early
<1>6. ThreadInv'
  BY <1>1, <1>3 DEF IInv, ThreadInv, Works, SlotOf, Target
<1>7. ChildInv'
  BY <1>1, ChildFrame DEF IInv
<1> QED BY <1>1, <1>4, <1>5, <1>6, <1>7 DEF IInv, Control

\* A thread takes the slot it has found.
LEMMA TakeSlotInv ==
    ASSUME IInv, NEW c \in Clients, TakeSlot(c)
    PROVE  IInv'
<1>1. PICK s : s = i[c]
  OBVIOUS
<1>2. /\ tpc[c] = "take" /\ active' = [active EXCEPT ![s] = TRUE] /\ idx' = [idx EXCEPT ![c] = s]
      /\ doubled' = IF active[s] THEN doubled \cup {s} ELSE doubled
      /\ tpc' = [tpc EXCEPT ![c] = "port"]
      /\ UNCHANGED <<setup, server, typed, ports, misread, found, i, cpc, tosrv, tocl, strtokAt,
                     buff, cmds, out, res, kpc, kidq, conn>>
  BY <1>1 DEF TakeSlot, At, Goto, streams, users, children
<1>3. s \in Slots /\ IpOf[s] = HostOf[c] /\ idx[c] = 0
  BY <1>1, <1>2 DEF IInv, RegInv, Unplaced, Early
<1>4. /\ idx'[c] = s /\ tpc'[c] = "port" /\ \A d \in Clients : d # c => idx'[d] = idx[d] /\ tpc'[d] = tpc[d]
      /\ active'[s] /\ \A t \in Slots : t # s => active'[t] = active[t]
      /\ active' \in [Slots -> BOOLEAN] /\ idx' \in [Clients -> {0} \cup Slots] /\ tpc' \in [Clients -> Threads]
  BY <1>2, <1>3 DEF IInv, RegInv, Threads, Early
<1>5. RegInv'
  <2>1. ~Holds(c) /\ Holds(c)' /\ \A d \in Clients : d # c => (Holds(d)' <=> Holds(d))
    BY <1>2, <1>4 DEF Holds, Placed, Serving
  <2>2. Holders(s)' = Holders(s) \cup {c} /\ \A t \in Slots : t # s => Holders(t)' = Holders(t)
    BY <1>4, <2>1 DEF Holders
  <2>3. \A t \in Slots : t \notin doubled' => IF active'[t] THEN \E d \in Clients : Holders(t)' = {d}
                                                            ELSE Holders(t)' = {}
    <3> SUFFICES ASSUME NEW t \in Slots, t \notin doubled'
                 PROVE  IF active'[t] THEN \E d \in Clients : Holders(t)' = {d} ELSE Holders(t)' = {}
      OBVIOUS
    <3>1. t \notin doubled
      BY <1>2
    <3>2. IF active[t] THEN \E d \in Clients : Holders(t) = {d} ELSE Holders(t) = {}
      BY <3>1 DEF IInv, RegInv
    <3>3. CASE t = s
      <4>1. ~active[s]
        BY <1>2, <3>3
      <4>2. Holders(s)' = {c}
        BY <2>2, <3>2, <3>3, <4>1
      <4> QED BY <1>4, <3>3, <4>2
    <3>4. CASE t # s
      BY <1>4, <2>2, <3>2, <3>4
    <3> QED BY <3>3, <3>4
  <2>4. \A d \in Clients : tpc'[d] \in Late /\ idx'[d] \notin doubled' /\ d \notin misread' => ports'[idx'[d]] = PortOf[d]
    <3> SUFFICES ASSUME NEW d \in Clients, tpc'[d] \in Late, idx'[d] \notin doubled', d \notin misread
                 PROVE  ports[idx'[d]] = PortOf[d]
      BY <1>2
    <3>1. d # c
      BY <1>4 DEF Late, Busy
    <3>2. idx'[d] = idx[d] /\ tpc[d] \in Late /\ idx[d] \notin doubled
      BY <1>2, <1>4, <3>1
    <3> QED BY <3>2 DEF IInv, RegInv
  <2>6. \A d \in Clients : /\ idx'[d] = 0 <=> tpc'[d] \in Unplaced
                           /\ idx'[d] # 0 => IpOf[idx'[d]] = HostOf[d]
                           /\ i'[d] \in 1 .. Len(IpOf) + 1
                           /\ tpc'[d] = "take" => i'[d] \in Slots /\ IpOf[i'[d]] = HostOf[d]
    BY <1>2, <1>3, <1>4, SlotFacts DEF IInv, RegInv, Unplaced
  <2>7. ports' \in [Slots -> Nat] /\ misread' \subseteq Clients
    BY <1>2 DEF IInv, RegInv
  <2> QED BY <1>4, <2>3, <2>4, <2>6, <2>7 DEF RegInv
<1>6. FlowInv'
  <2>1. tpc[c] \in Early /\ tpc'[c] \in Early /\ tpc[c] # "off" /\ tpc'[c] # "off"
    BY <1>2, <1>4 DEF Early
  <2> QED BY <1>2, <1>4, <2>1 DEF IInv, FlowInv, Early
<1>7. ThreadInv'
  <2>1. doubled \subseteq doubled'
    BY <1>2
  <2>2. \A d \in Clients : tpc'[d] \in {"parse", "dial", "await", "cast", "call", "gather"} =>
            d # c /\ tpc'[d] = tpc[d] /\ idx'[d] = idx[d]
    BY <1>4
  <2> QED BY <1>2, <2>1, <2>2 DEF IInv, ThreadInv, Works, SlotOf, Target
<1>8. ChildInv'
  BY <1>2, ChildFrame DEF IInv
<1> QED BY <1>2, <1>5, <1>6, <1>7, <1>8 DEF IInv, Control

\* What the read of the port leaves of a line is a line, or nothing.
LEMMA RemainsLine ==
    ASSUME NEW l \in Seq(Stage), NEW r \in Remains(l)
    PROVE  r \in Seq(Stage)
<1>1. [machine |-> Local, cmd |-> Cut] \in Stage
  <2>1. Cut \in Commands
    BY DEF Commands
  <2>2. Local \in Int
    BY DEF Local
  <2> QED BY <2>1, <2>2 DEF Stage
<1>2. PICK x \in Stage : x = [machine |-> Local, cmd |-> Cut]
  BY <1>1
<1>3. PICK k \in DOMAIN l : r = SubSeq(l, k + 1, Len(l)) \/ r = <<x>> \o SubSeq(l, k + 1, Len(l))
  BY <1>2 DEF Remains
<1>4. \A j \in k + 1 .. Len(l) : l[j] \in Stage
  OBVIOUS
<1>5. SubSeq(l, k + 1, Len(l)) \in Seq(Stage)
  BY <1>3, <1>4
<1>6. <<x>> \o SubSeq(l, k + 1, Len(l)) \in Seq(Stage)
  BY <1>5, PushMembers
<1> QED BY <1>3, <1>5, <1>6

\* A thread reads the port of its client, and perhaps a part of the client's first line.
LEMMA ReadPortInv ==
    ASSUME IInv, NEW c \in Clients, ReadPort(c)
    PROVE  IInv'
<1>1. PICK s : s = idx[c]
  OBVIOUS
<1>2. /\ tpc[c] = "port" /\ tosrv[c] # <<>> /\ tpc' = [tpc EXCEPT ![c] = "read"]
      /\ UNCHANGED <<setup, server, typed, active, idx, doubled, found, i, cpc, tocl, strtokAt, buff, cmds, out, res, kpc,
                     kidq, conn>>
  BY DEF ReadPort, At, Goto, users, children
<1>3. s \in Slots /\ IpOf[s] = HostOf[c]
  BY <1>1, <1>2, SlotFacts DEF IInv, RegInv, Unplaced, Early
<1>4. /\ tocl[c] = <<>>
      /\ \/ tosrv[c] = <<PortOnly(c)>> /\ cpc[c] \in {"prompt", "leaving", "gone"}
         \/ \E l \in Seq(Stage) : tosrv[c] = <<PortOnly(c), l>> /\ cpc[c] \in {"wait", "leaving", "gone"}
  BY <1>2 DEF IInv, FlowInv, Early
<1>5. /\ Head(tosrv[c]) = PortOnly(c)
      /\ \/ tosrv'[c] = <<>> /\ cpc[c] \in {"prompt", "wait", "leaving", "gone"}
         \/ cpc[c] \in {"wait", "leaving", "gone"} /\ \E l \in Seq(Stage) : tosrv'[c] = <<l>>
      /\ \A d \in Clients : d # c => tosrv'[d] = tosrv[d]
      /\ DOMAIN tosrv' = Clients
  <2>1. DOMAIN tosrv = Clients
    BY DEF IInv, FlowInv
  <2>2. CASE tosrv[c] = <<PortOnly(c)>> /\ cpc[c] \in {"prompt", "leaving", "gone"}
    <3>1. PICK p : p = PortOnly(c)
      OBVIOUS
    <3>2. Head(<<p>>) = p /\ Tail(<<p>>) = <<>> /\ Len(<<p>>) = 1
      OBVIOUS
    <3>3. tosrv' = [tosrv EXCEPT ![c] = Tail(@)]
      BY <2>2, <3>1, <3>2 DEF ReadPort
    <3> QED BY <2>1, <2>2, <3>1, <3>2, <3>3
  <2>3. ASSUME NEW l \in Seq(Stage), tosrv[c] = <<PortOnly(c), l>>, cpc[c] \in {"wait", "leaving", "gone"}
        PROVE  <1>5!:
    <3>1. PICK p : p = PortOnly(c)
      OBVIOUS
    <3>2. Head(<<p, l>>) = p /\ Tail(<<p, l>>) = <<l>> /\ <<p, l>>[2] = l
      OBVIOUS
    <3>3. \/ tosrv' = [tosrv EXCEPT ![c] = Tail(@)]
          \/ \E r \in Remains(l) : tosrv' = [tosrv EXCEPT ![c] = IF r = <<>> THEN <<>> ELSE <<r>>]
      BY <2>3, <3>1, <3>2 DEF ReadPort
    <3>4. tosrv'[c] = <<>> \/ \E r \in Seq(Stage) : tosrv'[c] = <<r>>
      BY <2>1, <2>3, <3>1, <3>2, <3>3, RemainsLine
    <3>5. \A d \in Clients : d # c => tosrv'[d] = tosrv[d]
      BY <2>1, <3>3
    <3>6. DOMAIN tosrv' = Clients
      BY <2>1, <3>3
    <3> QED BY <2>3, <3>1, <3>2, <3>4, <3>5, <3>6
  <2> QED BY <1>4, <2>2, <2>3
<1>6. PortOnly(c)[1].machine = PortOf[c] /\ PortOf[c] \in Nat /\ Numbers \subseteq Nat
  BY SlotFacts, ConfigAssumption DEF PortOnly
<1>7. PICK p \in Nat : /\ ports' = [ports EXCEPT ![s] = p]
                      /\ \/ p = PortOf[c] /\ misread' = misread
                         \/ misread' = misread \cup {c}
  BY <1>1, <1>5, <1>6 DEF ReadPort
<1>a. /\ ports'[s] = p /\ \A t \in Slots : t # s => ports'[t] = ports[t]
      /\ ports' \in [Slots -> Nat] /\ misread \subseteq misread' /\ misread' \subseteq Clients
      /\ tpc'[c] = "read" /\ tpc' \in [Clients -> Threads] /\ \A d \in Clients : d # c => tpc'[d] = tpc[d]
  BY <1>2, <1>3, <1>7 DEF IInv, RegInv, Threads
<1>8. RegInv'
  <2>1. \A d \in Clients : Holds(d)' <=> Holds(d)
    BY <1>2, <1>a DEF Holds, Placed, Serving
  <2>2. \A t : Holders(t)' = Holders(t)
    BY <1>2, <2>1 DEF Holders
  <2>3. \A t \in Slots : t \notin doubled' => IF active'[t] THEN \E d \in Clients : Holders(t)' = {d}
                                                         ELSE Holders(t)' = {}
    BY <1>2, <2>2 DEF IInv, RegInv
  <2>4. \A d \in Clients : tpc'[d] \in Late /\ idx'[d] \notin doubled' /\ d \notin misread' => ports'[idx'[d]] = PortOf[d]
    <3> SUFFICES ASSUME NEW d \in Clients, tpc'[d] \in Late, idx[d] \notin doubled, d \notin misread'
                 PROVE  ports'[idx[d]] = PortOf[d]
      BY <1>2
    <3>1. CASE d = c
      BY <1>1, <1>7, <1>a, <3>1
    <3>2. CASE d # c
      <4>1. tpc[d] \in Late /\ d \notin misread
        BY <1>a, <3>2
      <4>2. idx[d] \in Slots
        BY <4>1, SlotFacts DEF IInv, RegInv, Unplaced, Early, Late, Busy
      <4>3. idx[d] # s
        <5>1. c \in Holders(s) /\ (idx[d] = s => d \in Holders(s))
          BY <1>1, <1>2, <4>1 DEF Holders, Holds, Placed, Serving, Late, Busy
        <5>2. s \notin doubled => (Holders(s) = {} \/ \E e \in Clients : Holders(s) = {e})
          BY <1>3 DEF IInv, RegInv
        <5> QED BY <3>2, <5>1, <5>2
      <4> QED BY <1>a, <4>1, <4>2, <4>3 DEF IInv, RegInv
    <3> QED BY <3>1, <3>2
  <2>5. \A d \in Clients : /\ idx'[d] = 0 <=> tpc'[d] \in Unplaced
                           /\ idx'[d] # 0 => IpOf[idx'[d]] = HostOf[d]
                           /\ i'[d] \in 1 .. Len(IpOf) + 1
                           /\ tpc'[d] = "take" => i'[d] \in Slots /\ IpOf[i'[d]] = HostOf[d]
    BY <1>2, <1>a DEF IInv, RegInv, Unplaced, Early
  <2>6. active' \in [Slots -> BOOLEAN] /\ idx' \in [Clients -> {0} \cup Slots]
    BY <1>2 DEF IInv, RegInv
  <2> QED BY <1>a, <2>3, <2>4, <2>5, <2>6 DEF RegInv
<1>9. FlowInv'
  <2>1. tpc'[c] \notin Early /\ tpc'[c] \notin Busy \cup {"exited"} /\ tpc[c] # "off" /\ tpc'[c] # "off"
    BY <1>2, <1>a DEF Early, Busy
  <2> QED BY <1>2, <1>4, <1>5, <1>a, <2>1 DEF IInv, FlowInv
<1>10. ThreadInv'
  BY <1>2, <1>a, ThreadFrame DEF IInv
<1>11. ChildInv'
  BY <1>2, ChildFrame DEF IInv
<1> QED BY <1>2, <1>8, <1>9, <1>10, <1>11 DEF IInv, Control

\* A thread whose client has gone ends: it frees its slot, or keeps it after an error.
LEMMA EndInv ==
    ASSUME IInv, NEW c \in Clients, ReadNoPort(c) \/ ReadEnd(c)
    PROVE  IInv'
<1>1. PICK s : s = idx[c]
  OBVIOUS
<1>2. /\ tosrv[c] = <<>> /\ cpc[c] = "gone"
      /\ UNCHANGED <<setup, server, typed, ports, idx, doubled, misread, found, i, cpc, tosrv, tocl, strtokAt, buff, cmds, out, res, kpc,
                     kidq, conn>>
  BY DEF ReadNoPort, ReadEnd, users, history, streams, children
<1>3. \/ /\ tpc[c] \in {"port", "read"} /\ tpc' = [tpc EXCEPT ![c] = "closed"]
         /\ active' = [active EXCEPT ![s] = FALSE]
      \/ tpc[c] = "port" /\ tpc' = [tpc EXCEPT ![c] = "failed"] /\ active' = active
  BY <1>1 DEF ReadNoPort, ReadEnd, At, Goto
<1>4. s \in Slots
  BY <1>1, <1>3, SlotFacts DEF IInv, RegInv, Unplaced, Early
<1>5. /\ tpc' \in [Clients -> Threads] /\ \A d \in Clients : d # c => tpc'[d] = tpc[d]
      /\ active' \in [Slots -> BOOLEAN] /\ \A t \in Slots : t # s => active'[t] = active[t]
      /\ \/ tpc'[c] = "closed" /\ ~active'[s]
         \/ tpc[c] = "port" /\ tpc'[c] = "failed" /\ active'[s] = active[s]
  <2>1. tpc \in [Clients -> Threads] /\ active \in [Slots -> BOOLEAN]
    BY DEF IInv, RegInv
  <2>2. "closed" \in Threads /\ "failed" \in Threads
    BY DEF Threads
  <2>3. CASE tpc' = [tpc EXCEPT ![c] = "closed"] /\ active' = [active EXCEPT ![s] = FALSE]
    BY <1>4, <2>1, <2>2, <2>3
  <2>4. CASE tpc[c] = "port" /\ tpc' = [tpc EXCEPT ![c] = "failed"] /\ active' = active
    BY <2>1, <2>2, <2>4
  <2> QED BY <1>3, <2>3, <2>4
<1>6. RegInv'
  <2>1. Holds(c) /\ (tpc'[c] = "closed" => ~Holds(c)') /\ (tpc'[c] = "failed" => Holds(c)')
        /\ \A d \in Clients : d # c => (Holds(d)' <=> Holds(d))
    BY <1>3, <1>5 DEF Holds, Placed, Serving
  <2>2. /\ c \in Holders(s) /\ (tpc'[c] = "closed" => Holders(s)' = Holders(s) \ {c})
        /\ tpc'[c] = "failed" => Holders(s)' = Holders(s)
        /\ \A t \in Slots : t # s => Holders(t)' = Holders(t)
    BY <1>1, <1>2, <2>1 DEF Holders
  <2>3. \A t \in Slots : t \notin doubled' => IF active'[t] THEN \E d \in Clients : Holders(t)' = {d}
                                                            ELSE Holders(t)' = {}
    <3> SUFFICES ASSUME NEW t \in Slots, t \notin doubled
                 PROVE  IF active'[t] THEN \E d \in Clients : Holders(t)' = {d} ELSE Holders(t)' = {}
      BY <1>2
    <3>1. IF active[t] THEN \E d \in Clients : Holders(t) = {d} ELSE Holders(t) = {}
      BY DEF IInv, RegInv
    <3> QED BY <1>5, <2>2, <3>1
  <2>4. \A d \in Clients : tpc'[d] \in Late /\ idx'[d] \notin doubled' /\ d \notin misread' => ports'[idx'[d]] = PortOf[d]
    <3>1. \A d \in Clients : tpc'[d] \in Late => d # c /\ tpc[d] \in Late
      BY <1>5 DEF Late, Busy
    <3> QED BY <1>2, <3>1 DEF IInv, RegInv
  <2>5. \A d \in Clients : /\ idx'[d] = 0 <=> tpc'[d] \in Unplaced
                           /\ idx'[d] # 0 => IpOf[idx'[d]] = HostOf[d]
                           /\ i'[d] \in 1 .. Len(IpOf) + 1
                           /\ tpc'[d] = "take" => i'[d] \in Slots /\ IpOf[i'[d]] = HostOf[d]
    BY <1>1, <1>2, <1>4, <1>5, SlotFacts DEF IInv, RegInv, Unplaced, Early
  <2>6. ports' \in [Slots -> Nat] /\ misread' \subseteq Clients /\ idx' \in [Clients -> {0} \cup Slots]
    BY <1>2 DEF IInv, RegInv
  <2> QED BY <1>5, <2>3, <2>4, <2>5, <2>6 DEF RegInv
<1>7. FlowInv'
  <2>1. tpc'[c] \in {"closed", "failed"} /\ tpc[c] # "off" /\ tpc'[c] # "off"
        /\ tpc'[c] \notin Early /\ tpc'[c] \notin Busy \cup {"exited"}
    BY <1>3, <1>5 DEF Early, Busy
  <2> QED BY <1>2, <1>5, <2>1 DEF IInv, FlowInv
<1>8. ThreadInv'
  <2>1. tpc'[c] \notin {"parse", "dial", "await", "cast", "call", "gather"}
    BY <1>5
  <2> QED BY <1>2, <1>5, <2>1, ThreadFrame DEF IInv
<1>9. ChildInv'
  BY <1>2, ChildFrame DEF IInv
<1> QED BY <1>2, <1>6, <1>7, <1>8, <1>9 DEF IInv, Control
-----------------------------------------------------------------------------
(* A thread works on a line.                                               *)

\* An answer, and what stands in its fields.
LEMMA OutputFacts ==
    /\ Nothing \in Output
    /\ \A e \in {"none", "invalid", "absent", "broken", "nodes"} : [Nothing EXCEPT !.err = e] \in Output
    /\ \A e \in {"none", "invalid", "absent", "broken", "nodes"}, n \in SUBSET Slots :
           [Nothing EXCEPT !.err = e, !.nodes = n] \in Output
<1>1. <<>> \in Seq(Runs)
  OBVIOUS
<1>2. Nothing \in Output
  BY <1>1 DEF Nothing, Output
<1>3. ASSUME NEW e \in {"none", "invalid", "absent", "broken", "nodes"}
      PROVE  [Nothing EXCEPT !.err = e] \in Output
  BY <1>2 DEF Output
<1>4. ASSUME NEW e \in {"none", "invalid", "absent", "broken", "nodes"}, NEW n \in SUBSET Slots
      PROVE  [Nothing EXCEPT !.err = e, !.nodes = n] \in Output
  BY <1>2 DEF Output
<1> QED BY <1>2, <1>3, <1>4

\* A thread reads a line.
LEMMA ReadLineInv ==
    ASSUME IInv, NEW c \in Clients, ReadLine(c)
    PROVE  IInv'
<1>1. /\ tpc[c] = "read" /\ tosrv[c] # <<>> /\ tosrv' = [tosrv EXCEPT ![c] = Tail(@)]
      /\ buff' = [buff EXCEPT ![c] = Head(tosrv[c])]
      /\ UNCHANGED <<setup, server, typed, active, ports, idx, doubled, misread, found, i, cpc, tocl, strtokAt, cmds, res, kpc,
                     kidq, conn>>
  BY DEF ReadLine, At, tables, users, children
<1>2. PICK pc \in {"reply", "split"} : tpc' = [tpc EXCEPT ![c] = pc]
  BY DEF ReadLine, Goto
<1>3. \E o \in Output : out' = [out EXCEPT ![c] = o]
  <2>1. {s \in Slots : active[s]} \in SUBSET Slots
    OBVIOUS
  <2> QED BY <2>1, OutputFacts DEF ReadLine
<1>4. PICK l \in Seq(Stage) : tosrv[c] = <<l>> /\ tocl[c] = <<>>
  BY <1>1 DEF IInv, FlowInv, Early
<1>5. Head(<<l>>) = l /\ Tail(<<l>>) = <<>>
  OBVIOUS
<1>6. /\ tosrv'[c] = <<>> /\ DOMAIN tosrv' = Clients /\ \A d \in Clients : d # c => tosrv'[d] = tosrv[d]
      /\ buff' \in [Clients -> Seq(Stage)]
      /\ tpc'[c] = pc /\ tpc' \in [Clients -> Threads] /\ \A d \in Clients : d # c => tpc'[d] = tpc[d]
  BY <1>1, <1>2, <1>4, <1>5 DEF IInv, FlowInv, RegInv, ThreadInv, Works, Threads, Busy
<1>7. RegInv'
  BY <1>1, <1>6, RegFrame DEF IInv, Late, Busy
<1>8. FlowInv'
  <2>1. /\ tpc'[c] \notin Early /\ tpc[c] \notin Early /\ tpc[c] # "off" /\ tpc'[c] # "off"
        /\ tpc'[c] \notin {"closed", "failed", "read"}
    BY <1>1, <1>6 DEF Early
  <2>2. cpc[c] # "prompt" /\ cpc[c] # "connected"
    BY <1>1, <2>1 DEF IInv, FlowInv
  <2> QED BY <1>1, <1>4, <1>6, <2>1, <2>2 DEF IInv, FlowInv
<1>9. ThreadInv'
  <2>1. out' \in [Clients -> Output]
    BY <1>3 DEF IInv, ThreadInv
  <2>2. \A d \in Clients : tpc'[d] = tpc[d] \/ tpc'[d] \notin {"parse", "dial", "await", "cast", "call", "gather"}
    BY <1>6
  <2>3. \A d \in Clients : Works(d)'
    BY <1>1, <2>2, WorksFrame DEF IInv, ThreadInv
  <2> QED BY <1>1, <1>6, <2>1, <2>3 DEF IInv, ThreadInv
<1>10. ChildInv'
  BY <1>1, ChildFrame DEF IInv
<1> QED BY <1>1, <1>7, <1>8, <1>9, <1>10 DEF IInv, Control

\* strtok gives a thread the next token of some buffer.
LEMMA TokenInv ==
    ASSUME IInv, NEW c \in Clients, NEW p \in Positions, TakeToken(c, p), tpc[c] \in {"split", "parse"},
           UNCHANGED <<setup, server, typed, active, ports, i, idx, doubled, misread, found, buff, out, res, conn, kpc, kidq,
                       tosrv, tocl, cpc>>
    PROVE  IInv'
<1>1. p.buf \in Clients /\ p.tok \in Nat /\ buff[p.buf] \in Seq(Stage)
  BY DEF Positions, IInv, ThreadInv, Works
<1>2. PICK q \in Positions : strtokAt' = q
  <2>1. [p EXCEPT !.tok = @ + 1] \in Positions
    BY DEF Positions
  <2> QED BY <2>1 DEF TakeToken
<1>3. /\ tpc'[c] \in {"run", "exited", "parse"} /\ tpc' \in [Clients -> Threads]
      /\ \A d \in Clients : d # c => tpc'[d] = tpc[d]
  <2>1. tpc \in [Clients -> Threads] /\ {"run", "exited", "parse"} \subseteq Threads
    BY DEF IInv, RegInv, Threads, Busy
  <2>2. \E pc \in {"run", "exited", "parse"} : tpc' = [tpc EXCEPT ![c] = pc]
    BY DEF TakeToken, Goto
  <2> QED BY <2>1, <2>2
<1>4. cmds' \in [Clients -> Seq([machine : Int \ {BadName}, text : Positions])]
  <2>1. cmds \in [Clients -> Seq([machine : Int \ {BadName}, text : Positions])]
    BY DEF IInv, ThreadInv, Works
  <2>2. CASE cmds' = cmds
    BY <2>1, <2>2
  <2>3. CASE cmds' # cmds
    <3>1. /\ p.tok \in DOMAIN buff[p.buf] /\ buff[p.buf][p.tok].machine # BadName
          /\ cmds' = [cmds EXCEPT ![c] = Append(@, [machine |-> buff[p.buf][p.tok].machine, text |-> p])]
      BY <2>3 DEF TakeToken
    <3>2. buff[p.buf][p.tok] \in Stage
      BY <1>1, <3>1
    <3>3. PICK m \in Int \ {BadName} : m = buff[p.buf][p.tok].machine
      BY <3>1, <3>2 DEF Stage, Local, BadName
    <3>4. PICK x \in [machine : Int \ {BadName}, text : Positions] : x = [machine |-> m, text |-> p]
      OBVIOUS
    <3>5. cmds' = [cmds EXCEPT ![c] = Append(@, x)]
      BY <3>1, <3>3, <3>4
    <3>6. Append(cmds[c], x) \in Seq([machine : Int \ {BadName}, text : Positions])
      <4> DEFINE S == [machine : Int \ {BadName}, text : Positions]
      <4>1. cmds[c] \in Seq(S) /\ x \in S
        BY <2>1
      <4> HIDE DEF S
      <4>2. Append(cmds[c], x) \in Seq(S)
        BY <4>1, AppendMembers
      <4> QED BY <4>2 DEF S
    <3> QED BY <2>1, <3>5, <3>6
  <2> QED BY <2>2, <2>3
<1>5. RegInv'
  BY <1>3, RegFrame DEF IInv, RegInv, Late, Busy
<1>6. FlowInv'
  BY <1>3, FlowFrame DEF IInv, Busy
<1>7. ThreadInv'
  <2>1. \A d \in Clients : /\ tpc'[d] = "parse" => strtokAt'.buf \in Clients
                           /\ tpc'[d] \in {"dial", "await", "cast", "call", "gather"} => tpc'[d] = tpc[d] /\ d # c
    BY <1>2, <1>3 DEF Positions
  <2>2. \A d \in Clients : d # c => cmds'[d] = cmds[d]
    BY DEF TakeToken, IInv, ThreadInv, Works
  <2>3. strtokAt' \in [buf : Clients \cup {None}, tok : Nat]
    BY <1>2 DEF Positions
  <2> QED BY <1>4, <2>1, <2>2, <2>3 DEF IInv, ThreadInv, Works, SlotOf, Target
<1>8. ChildInv'
  BY ChildFrame DEF IInv
<1> QED BY <1>5, <1>6, <1>7, <1>8 DEF IInv, Control

\* A thread begins to split its line, or goes on.
LEMMA ParseInv ==
    ASSUME IInv, NEW c \in Clients, Split(c) \/ NextToken(c)
    PROVE  IInv'
<1>1. UNCHANGED <<setup, server, typed, active, ports, i, idx, doubled, misread, found, buff, out, res, conn, kpc,
                  kidq, tosrv, tocl, cpc>>
  BY DEF Split, NextToken, tables, streams, users, history, children
<1>2. CASE Split(c)
  <2>1. [buf |-> c, tok |-> 1] \in Positions
    BY DEF Positions
  <2>2. tpc[c] = "split" /\ TakeToken(c, [buf |-> c, tok |-> 1])
    BY <1>2 DEF Split, At
  <2> QED BY <1>1, <2>1, <2>2, TokenInv
<1>3. CASE NextToken(c)
  <2>1. tpc[c] = "parse" /\ TakeToken(c, strtokAt)
    BY <1>3 DEF NextToken, At
  <2>2. strtokAt \in Positions
    BY <2>1 DEF IInv, ThreadInv, Works, Positions
  <2> QED BY <1>1, <2>1, <2>2, TokenInv
<1> QED BY <1>2, <1>3
-----------------------------------------------------------------------------
(* A thread runs a line.                                                   *)

\* A stage's command, read from a buffer that may have been filled again, is a command.
LEMMA TextCommand ==
    ASSUME ThreadInv, NEW c \in Clients, cmds[c] # <<>>
    PROVE  Text(Head(cmds[c])) \in Commands
<1> DEFINE S == [machine : Int \ {BadName}, text : Positions]
<1>1. cmds[c] \in Seq(S)
  BY DEF ThreadInv, Works
<1> HIDE DEF S
<1>2. PICK x \in S : x = Head(cmds[c])
  BY <1>1, HeadTailProperties
<1>3. x.text.buf \in Clients
  BY <1>2 DEF S, Positions
<1>4. buff[x.text.buf] \in Seq(Stage)
  BY <1>3 DEF ThreadInv, Works
<1>5. ASSUME x.text.tok \in DOMAIN buff[x.text.buf]
      PROVE  buff[x.text.buf][x.text.tok].cmd \in Commands
  <2>1. buff[x.text.buf][x.text.tok] \in Stage
    BY <1>4, <1>5
  <2> QED BY <2>1 DEF Stage
<1>6. Cut \in Commands
  BY DEF Commands
<1> QED BY <1>2, <1>5, <1>6 DEF Text

\* A thread connects to the child of a slot and sends it a command, or the server ends.
LEMMA SendInv ==
    ASSUME IInv, NEW c \in Clients, NEW s \in Slots, NEW pc \in {"await", "gather"}, SendTo(c, s, pc),
           cmds[c] # <<>>, UNCHANGED kpc
    PROVE  /\ ChildInv' /\ server' \in {"up", "down"}
           /\ \/ tpc' = tpc /\ found' = found
              \/ tpc' = [tpc EXCEPT ![c] = pc] /\ found' = [found EXCEPT ![c] = {}]
<1>1. PICK x : x = Text(Head(cmds[c]))
  OBVIOUS
<1>2. x \in Commands
  BY <1>1, TextCommand DEF IInv
<1>3. /\ kidq \in [Clients -> Seq(Waiting)]
      /\ conn \in [Clients -> [st : Connections, cmd : Commands \cup {None}]]
  BY DEF IInv, ChildInv, Waiting
<1>4. CASE server' = "down" /\ UNCHANGED <<kidq, conn, tpc, found>>
  BY <1>4, ChildFrame DEF IInv
<1>5. ASSUME NEW d \in Clients, HostOf[d] = IpOf[s], PortOf[d] = ports[s],
             kidq' = [kidq EXCEPT ![d] = Append(@, [thread |-> c, slot |-> s, cmd |-> x])],
             conn' = [conn EXCEPT ![c] = [st |-> "sent", cmd |-> None]],
             tpc' = [tpc EXCEPT ![c] = pc], server' = server
      PROVE  ChildInv' /\ server' \in {"up", "down"}
  <2>1. PICK w \in Waiting : w = [thread |-> c, slot |-> s, cmd |-> x]
    BY <1>2 DEF Waiting
  <2>2. kidq' = [kidq EXCEPT ![d] = Append(@, w)]
    BY <1>5, <2>1
  <2>3. Append(kidq[d], w) \in Seq(Waiting)
    BY <1>3
  <2>4. kidq' \in [Clients -> Seq(Waiting)]
    BY <1>3, <2>2, <2>3
  <2>5. conn' \in [Clients -> [st : Connections, cmd : Commands \cup {None}]]
    BY <1>3, <1>5 DEF Connections
  <2>6. \A t \in Clients : conn'[t].st = "printed" => conn'[t].cmd \in Commands
    BY <1>3, <1>5 DEF IInv, ChildInv
  <2>7. \A e, f \in Clients : SameListener(e, f)' => e = f
    BY DEF SameListener, IInv, ChildInv
  <2> QED BY <1>5, <2>4, <2>5, <2>6, <2>7 DEF IInv, Control, ChildInv, Waiting
<1> QED BY <1>1, <1>4, <1>5 DEF SendTo, Goto

\* A slot that was active when a thread looked at it was held, or taken twice.
LEMMA FoundHeld ==
    ASSUME RegInv, NEW s \in Slots, active[s]
    PROVE  Holding(s) \subseteq Clients /\ (Holding(s) # {} \/ s \in doubled)
<1>1. Holding(s) = Holders(s)
  BY DEF Holding, Holders, Holds
<1>2. s \notin doubled => \E d \in Clients : Holders(s) = {d}
  BY DEF RegInv
<1> QED BY <1>1, <1>2 DEF Holding

\* A stage with its machine.
LEMMA RunNamedInv ==
    ASSUME IInv, NEW c \in Clients, RunNamed(c)
    PROVE  IInv'
<1>1. /\ tpc[c] = "run" /\ cmds[c] # <<>>
      /\ UNCHANGED <<setup, server, typed, active, ports, i, idx, doubled, misread, strtokAt, buff, cmds, res, kpc, kidq,
                     conn, tosrv, tocl, cpc>>
  BY DEF RunNamed, At, tables, streams, users, children
<1>2. CASE /\ SlotOf(c) \in Slots /\ active[SlotOf(c)] /\ Goto(c, "dial")
           /\ found' = [found EXCEPT ![c] = Holding(SlotOf(c))] /\ UNCHANGED out
  <2>1. PICK s \in Slots : s = SlotOf(c)
    BY <1>2
  <2>2. PICK h : h = Holding(s)
    OBVIOUS
  <2>3. h \subseteq Clients /\ (h # {} \/ s \in doubled)
    BY <1>2, <2>1, <2>2, FoundHeld DEF IInv
  <2>4. found' \in [Clients -> SUBSET Clients] /\ found'[c] = h /\ \A d \in Clients : d # c => found'[d] = found[d]
    BY <1>2, <2>1, <2>2, <2>3 DEF IInv, ThreadInv, Works
  <2>5. /\ tpc' \in [Clients -> Threads] /\ \A d \in Clients : d # c => tpc'[d] = tpc[d]
        /\ tpc'[c] = "dial"
    BY <1>2 DEF Goto, IInv, RegInv, Threads, Busy
  <2>6. RegInv'
    <3>1. tpc[c] \in Late /\ tpc'[c] \in Late
      BY <1>1, <2>5 DEF Late, Busy
    <3> QED BY <1>1, <2>5, <3>1, RegFrame DEF IInv
  <2>7. FlowInv'
    BY <1>1, <2>5, FlowFrame DEF IInv, Busy
  <2>8. ThreadInv'
    <3>1. Works(c)'
      BY <1>1, <2>1, <2>3, <2>4, <2>5 DEF Works, SlotOf, Target
    <3>2. \A d \in Clients : d # c => Works(d)'
      BY <1>1, <2>4, <2>5, WorksFrame DEF IInv, ThreadInv
    <3> QED BY <1>1, <1>2, <2>4, <3>1, <3>2 DEF IInv, ThreadInv
  <2>9. ChildInv'
    BY <1>1, ChildFrame DEF IInv
  <2> QED BY <1>1, <2>6, <2>7, <2>8, <2>9 DEF IInv, Control
<1>3. ASSUME NEW e \in {"invalid", "absent"}, out' = [out EXCEPT ![c] = [Nothing EXCEPT !.err = e]],
             Goto(c, "reply"), UNCHANGED found
      PROVE  IInv'
  <2>1. /\ tpc' \in [Clients -> Threads] /\ \A d \in Clients : d # c => tpc'[d] = tpc[d]
        /\ tpc'[c] = "reply"
    BY <1>3 DEF Goto, IInv, RegInv, Threads, Busy
  <2>2. RegInv'
    <3>1. tpc[c] \in Late /\ tpc'[c] \in Late
      BY <1>1, <2>1 DEF Late, Busy
    <3> QED BY <1>1, <2>1, <3>1, RegFrame DEF IInv
  <2>3. FlowInv'
    BY <1>1, <2>1, FlowFrame DEF IInv, Busy
  <2>4. out' \in [Clients -> Output]
    <3>1. PICK o \in Output : o = [Nothing EXCEPT !.err = e]
      BY OutputFacts
    <3> QED BY <1>3, <3>1 DEF IInv, ThreadInv, Works
  <2>5. ThreadInv'
    BY <1>1, <1>3, <2>1, <2>4 DEF IInv, ThreadInv, Works, SlotOf, Target
  <2>6. ChildInv'
    BY <1>1, ChildFrame DEF IInv
  <2> QED BY <1>1, <2>2, <2>3, <2>5, <2>6 DEF IInv, Control
<1> QED BY <1>2, <1>3 DEF RunNamed

\* A thread connects to the machine of the slot it has looked at.
LEMMA DialInv ==
    ASSUME IInv, NEW c \in Clients, Dial(c)
    PROVE  IInv'
<1>1. UNCHANGED <<setup, typed, active, ports, i, idx, doubled, misread, strtokAt, buff, cmds, out, res, kpc,
                  tosrv, tocl, cpc>>
  BY DEF Dial, tables, streams, users
<1>2. PICK s \in Slots, pc \in {"await", "gather"} :
          /\ tpc[c] \in {"dial", "call"} /\ cmds[c] # <<>> /\ SendTo(c, s, pc)
          /\ pc = "await" => SlotOf(c) \in Slots
          /\ pc = "gather" => i[c] \in Slots
  BY DEF Dial, At, IInv, ThreadInv, Works
<1>3. /\ ChildInv' /\ server' \in {"up", "down"}
      /\ \/ tpc' = tpc /\ found' = found
         \/ tpc' = [tpc EXCEPT ![c] = pc] /\ found' = [found EXCEPT ![c] = {}]
  BY <1>1, <1>2, SendInv
<1>4. /\ tpc' \in [Clients -> Threads] /\ \A d \in Clients : d # c => tpc'[d] = tpc[d] /\ found'[d] = found[d]
      /\ found' \in [Clients -> SUBSET Clients]
      /\ \/ tpc'[c] = pc
         \/ tpc'[c] = tpc[c] /\ found'[c] = found[c]
  <2>1. tpc \in [Clients -> Threads] /\ found \in [Clients -> SUBSET Clients] /\ pc \in Threads
    BY DEF IInv, RegInv, ThreadInv, Threads, Busy
  <2>2. CASE tpc' = tpc /\ found' = found
    BY <2>1, <2>2
  <2>3. CASE tpc' = [tpc EXCEPT ![c] = pc] /\ found' = [found EXCEPT ![c] = {}]
    BY <2>1, <2>3
  <2> QED BY <1>3, <2>2, <2>3
<1>a. tpc[c] \in Busy /\ tpc'[c] \in Busy
  BY <1>2, <1>4 DEF Busy
<1>5. RegInv'
  BY <1>1, <1>4, <1>a, RegFrame DEF IInv, Late
<1>6. FlowInv'
  BY <1>1, <1>4, <1>a, FlowFrame DEF IInv
<1>7. ThreadInv'
  <2>1. Works(c)
    BY DEF IInv, ThreadInv
  <2>2. Works(c)'
    BY <1>1, <1>2, <1>4, <2>1 DEF Works, SlotOf, Target
  <2>3. \A d \in Clients : d # c => Works(d)'
    BY <1>1, <1>4, WorksFrame DEF IInv, ThreadInv
  <2> QED BY <1>1, <1>4, <2>2, <2>3 DEF IInv, ThreadInv
<1> QED BY <1>1, <1>3, <1>5, <1>6, <1>7 DEF IInv, Control

\* What a stage has printed is recorded in the answer.
LEMMA StageDoneFacts ==
    ASSUME ThreadInv, NEW c \in Clients, NEW runs \in Runs, StageDone(c, runs), cmds[c] # <<>>
    PROVE  /\ out' \in [Clients -> Output] /\ tpc' = [tpc EXCEPT ![c] = "run"]
           /\ cmds' \in [Clients -> Seq([machine : Int \ {BadName}, text : Positions])]
           /\ \A d \in Clients : d # c => cmds'[d] = cmds[d]
<1> DEFINE S == [machine : Int \ {BadName}, text : Positions]
<1>1. cmds \in [Clients -> Seq(S)] /\ out \in [Clients -> Output]
  BY DEF ThreadInv, Works
<1> HIDE DEF S
<1>2. Tail(cmds[c]) \in Seq(S)
  BY <1>1, HeadTailProperties
<1>3. cmds' \in [Clients -> Seq(S)] /\ \A d \in Clients : d # c => cmds'[d] = cmds[d]
  BY <1>1, <1>2 DEF StageDone
<1>4. out[c] \in Output
  BY <1>1
<1>5. out[c].did \in Seq(Runs)
  BY <1>4 DEF Output
<1>6. Append(out[c].did, runs) \in Seq(Runs)
  BY <1>5, AppendMembers
<1>7. out' = [out EXCEPT ![c].did = Append(@, runs)]
  BY DEF StageDone
<1>8. PICK a \in Seq(Runs) : a = Append(out[c].did, runs)
  BY <1>6
<1>9. [out[c] EXCEPT !.did = a] \in Output
  BY <1>4, <1>8 DEF Output
<1>10. out' = [out EXCEPT ![c] = [out[c] EXCEPT !.did = a]]
  BY <1>1, <1>7, <1>8
<1>11. out' \in [Clients -> Output]
  BY <1>1, <1>9, <1>10
<1> QED BY <1>3, <1>11 DEF StageDone, Goto, S

\* What the child has printed, at slot s.
LEMMA GotRuns ==
    ASSUME ChildInv, NEW c \in Clients, NEW s \in Slots
    PROVE  Got(c, s) \in Runs
<1> DEFINE R == [cmd : Commands, at : Slots]
<1>1. CASE conn[c].st = "printed"
  <2>1. conn[c].cmd \in Commands
    BY <1>1 DEF ChildInv
  <2>2. PICK x \in R : x = [cmd |-> conn[c].cmd, at |-> s]
    BY <2>1
  <2> HIDE DEF R
  <2>3. <<x>> \in Seq(R)
    OBVIOUS
  <2> QED BY <1>1, <2>2, <2>3 DEF Got, Runs, R
<1>2. CASE conn[c].st # "printed"
  BY <1>2 DEF Got, Runs
<1> QED BY <1>1, <1>2

\* A thread reads what a child sends back, and goes on or gives up.
LEMMA AwaitInv ==
    ASSUME IInv, NEW c \in Clients, Await(c)
    PROVE  IInv'
<1>1. /\ tpc[c] = "await" /\ conn' = [conn EXCEPT ![c] = NoConn]
      /\ UNCHANGED <<setup, server, typed, active, ports, i, idx, doubled, misread, found, strtokAt, buff, res, kpc, kidq, tosrv, tocl,
                     cpc>>
  BY DEF Await, At, tables, streams, users, history, children
<1>2. cmds[c] # <<>> /\ SlotOf(c) \in Slots
  BY <1>1 DEF IInv, ThreadInv, Works
<1>3. /\ out' \in [Clients -> Output] /\ tpc' = [tpc EXCEPT ![c] = tpc'[c]] /\ tpc'[c] \in {"run", "reply"}
      /\ cmds' \in [Clients -> Seq([machine : Int \ {BadName}, text : Positions])]
      /\ \A d \in Clients : d # c => cmds'[d] = cmds[d]
  <2>1. tpc \in [Clients -> Threads]
    BY DEF IInv, RegInv
  <2>2. CASE StageDone(c, Got(c, SlotOf(c)))
    <3>1. PICK runs \in Runs : runs = Got(c, SlotOf(c))
      BY <1>2, GotRuns DEF IInv
    <3> QED BY <1>2, <2>1, <2>2, <3>1, StageDoneFacts DEF IInv
  <2>3. CASE Broken(c) /\ UNCHANGED cmds
    <3>1. PICK o \in Output : o = [Nothing EXCEPT !.err = "broken"]
      BY OutputFacts
    <3> QED BY <2>1, <2>3, <3>1 DEF Broken, Goto, IInv, ThreadInv, Works
  <2> QED BY <2>2, <2>3 DEF Await
<1>4. tpc' \in [Clients -> Threads] /\ \A d \in Clients : d # c => tpc'[d] = tpc[d]
  <2>1. tpc \in [Clients -> Threads] /\ tpc'[c] \in Threads
    BY <1>3 DEF IInv, RegInv, Threads, Busy
  <2>2. PICK pc : pc = tpc'[c]
    OBVIOUS
  <2>3. tpc' = [tpc EXCEPT ![c] = pc] /\ pc \in Threads
    BY <1>3, <2>1, <2>2
  <2> QED BY <2>1, <2>3
<1>5. RegInv'
  BY <1>1, <1>3, <1>4, RegFrame DEF IInv, RegInv, Late, Busy
<1>6. FlowInv'
  BY <1>1, <1>3, <1>4, FlowFrame DEF IInv, Busy
<1>7. ThreadInv'
  <2>1. Works(c)'
    BY <1>3 DEF Works
  <2>2. \A d \in Clients : d # c => Works(d)'
    BY <1>1, <1>3, <1>4, WorksFrame DEF IInv, ThreadInv
  <2> QED BY <1>1, <1>3, <2>1, <2>2 DEF IInv, ThreadInv
<1>8. ChildInv'
  BY <1>1 DEF IInv, ChildInv, SameListener, NoConn, Connections
<1> QED BY <1>1, <1>5, <1>6, <1>7, <1>8 DEF IInv, Control

\* A thread begins a broadcast, or gathers the answer of one machine.
LEMMA GatherInv ==
    ASSUME IInv, NEW c \in Clients, StartBroadcast(c) \/ Gather(c)
    PROVE  IInv'
<1>1. UNCHANGED <<setup, server, typed, active, ports, idx, doubled, misread, found, strtokAt,
                  buff, cmds, kpc, kidq, tosrv, tocl, cpc>>
  BY DEF StartBroadcast, Gather, tables, streams, users, history, children
<1>2. /\ tpc \in [Clients -> Threads] /\ DOMAIN i = Clients /\ res \in [Clients -> Runs] /\ out \in [Clients -> Output]
      /\ conn \in [Clients -> [st : Connections, cmd : Commands \cup {None}]]
  BY DEF IInv, RegInv, ThreadInv, Works, ChildInv
<1>3. /\ tpc[c] \in {"run", "gather"} /\ cmds[c] # <<>>
      /\ tpc'[c] \in {"cast", "reply"} /\ tpc' \in [Clients -> Threads] /\ \A d \in Clients : d # c => tpc'[d] = tpc[d]
      /\ i'[c] \in 1 .. Len(IpOf) + 1 /\ DOMAIN i' = Clients /\ \A d \in Clients : d # c => i'[d] = i[d]
      /\ res' \in [Clients -> Runs] /\ out' \in [Clients -> Output]
      /\ conn' = conn \/ conn' = [conn EXCEPT ![c] = NoConn]
  <2>1. {"cast", "reply"} \subseteq Threads
    BY DEF Threads, Busy
  <2>2. CASE StartBroadcast(c)
    <3>1. <<>> \in Runs
      BY DEF Runs
    <3>2. 1 \in 1 .. Len(IpOf) + 1
      BY SlotFacts
    <3> QED BY <1>2, <2>1, <2>2, <3>1, <3>2 DEF StartBroadcast, At, Goto
  <2>3. CASE Gather(c)
    <3>1. /\ tpc[c] = "gather" /\ conn' = [conn EXCEPT ![c] = NoConn]
      BY <2>3 DEF Gather, At
    <3>2. i[c] \in Slots /\ cmds[c] # <<>>
      BY <3>1 DEF IInv, ThreadInv, Works
    <3>3. i[c] + 1 \in 1 .. Len(IpOf) + 1 /\ i[c] \in 1 .. Len(IpOf) + 1
      BY <3>2, SlotFacts
    <3>4. CASE /\ res' = [res EXCEPT ![c] = @ \o Got(c, i[c])] /\ i' = [i EXCEPT ![c] = @ + 1]
               /\ Goto(c, "cast") /\ UNCHANGED out
      <4>1. Got(c, i[c]) \in Runs /\ res[c] \in Runs
        BY <1>2, <3>2, GotRuns DEF IInv
      <4>2. res[c] \o Got(c, i[c]) \in Runs
        BY <4>1 DEF Runs
      <4> QED BY <1>2, <2>1, <3>1, <3>2, <3>3, <3>4, <4>2 DEF Goto
    <3>5. CASE Broken(c) /\ UNCHANGED <<i, res>>
      <4>1. PICK o \in Output : o = [Nothing EXCEPT !.err = "broken"]
        BY OutputFacts
      <4> QED BY <1>2, <2>1, <3>1, <3>2, <3>3, <3>5, <4>1 DEF Broken, Goto
    <3> QED BY <2>3, <3>4, <3>5 DEF Gather
  <2> QED BY <2>2, <2>3
<1>4. RegInv'
  BY <1>1, <1>3, RegFrame DEF IInv, RegInv, Late, Busy
<1>5. FlowInv'
  BY <1>1, <1>3, FlowFrame DEF IInv, Busy
<1>6. ThreadInv'
  BY <1>1, <1>3 DEF IInv, ThreadInv, Works, SlotOf, Target
<1>7. ChildInv'
  <2>1. CASE conn' = conn
    BY <1>1, <2>1, ChildFrame DEF IInv
  <2>2. CASE conn' = [conn EXCEPT ![c] = NoConn]
    BY <1>1, <2>2 DEF IInv, ChildInv, SameListener, NoConn, Connections
  <2> QED BY <1>3, <2>1, <2>2
<1> QED BY <1>1, <1>4, <1>5, <1>6, <1>7 DEF IInv, Control

\* A thread looks at a slot of a broadcast, or ends the broadcast.
LEMMA CastInv ==
    ASSUME IInv, NEW c \in Clients, Cast(c)
    PROVE  IInv'
<1>1. /\ tpc[c] = "cast"
      /\ UNCHANGED <<setup, server, typed, active, ports, idx, doubled, misread, strtokAt, buff, res, kpc, kidq, conn,
                     tosrv, tocl, cpc>>
  BY DEF Cast, At, tables, streams, users, children
<1>2. /\ cmds[c] # <<>> /\ tpc \in [Clients -> Threads] /\ DOMAIN i = Clients /\ {"run", "call"} \subseteq Threads
      /\ res[c] \in Runs
  BY <1>1 DEF IInv, RegInv, ThreadInv, Works, Threads, Busy
<1>3. CASE StageDone(c, res[c]) /\ UNCHANGED <<i, found>>
  <2>1. /\ out' \in [Clients -> Output] /\ tpc' = [tpc EXCEPT ![c] = "run"]
        /\ cmds' \in [Clients -> Seq([machine : Int \ {BadName}, text : Positions])]
        /\ \A d \in Clients : d # c => cmds'[d] = cmds[d]
    BY <1>2, <1>3, StageDoneFacts DEF IInv
  <2>2. tpc'[c] = "run" /\ tpc' \in [Clients -> Threads] /\ \A d \in Clients : d # c => tpc'[d] = tpc[d]
    BY <1>2, <2>1
  <2>3. RegInv'
    BY <1>1, <1>3, <2>2, RegFrame DEF IInv, RegInv, Late, Busy
  <2>4. FlowInv'
    BY <1>1, <2>2, FlowFrame DEF IInv, Busy
  <2>5. ThreadInv'
    <3>1. Works(c)'
      BY <2>2 DEF Works
    <3>2. \A d \in Clients : d # c => Works(d)'
      BY <1>1, <1>3, <2>1, <2>2, WorksFrame DEF IInv, ThreadInv
    <3> QED BY <1>1, <1>3, <2>1, <3>1, <3>2 DEF IInv, ThreadInv
  <2>6. ChildInv'
    BY <1>1, <1>3, ChildFrame DEF IInv
  <2> QED BY <1>1, <1>3, <2>3, <2>4, <2>5, <2>6 DEF IInv, Control
<1>4. CASE i[c] \in Slots /\ i' = [i EXCEPT ![c] = @ + 1] /\ UNCHANGED <<tpc, cmds, out, found>>
  <2>1. /\ i'[c] \in 1 .. Len(IpOf) + 1 /\ DOMAIN i' = Clients /\ \A d \in Clients : d # c => i'[d] = i[d]
    BY <1>2, <1>4, SlotFacts
  <2>2. RegInv'
    BY <1>1, <1>2, <1>4, <2>1, RegFrame DEF IInv, Late, Busy
  <2>3. FlowInv'
    BY <1>1, <1>4, FlowFrame DEF IInv
  <2>4. ThreadInv'
    BY <1>1, <1>4, <2>1 DEF IInv, ThreadInv, Works, SlotOf, Target
  <2>5. ChildInv'
    BY <1>1, <1>4, ChildFrame DEF IInv
  <2> QED BY <1>1, <1>4, <2>2, <2>3, <2>4, <2>5 DEF IInv, Control
<1>5. CASE /\ i[c] \in Slots /\ active[i[c]] /\ Goto(c, "call")
           /\ found' = [found EXCEPT ![c] = Holding(i[c])] /\ UNCHANGED <<i, cmds, out>>
  <2>1. PICK s \in Slots : s = i[c]
    BY <1>5
  <2>2. PICK h : h = Holding(s)
    OBVIOUS
  <2>3. h \subseteq Clients /\ (h # {} \/ s \in doubled)
    BY <1>5, <2>1, <2>2, FoundHeld DEF IInv
  <2>4. found' \in [Clients -> SUBSET Clients] /\ found'[c] = h /\ \A d \in Clients : d # c => found'[d] = found[d]
    BY <1>5, <2>1, <2>2, <2>3 DEF IInv, ThreadInv, Works
  <2>5. /\ tpc' \in [Clients -> Threads] /\ \A d \in Clients : d # c => tpc'[d] = tpc[d]
        /\ tpc'[c] = "call"
    BY <1>2, <1>5 DEF Goto
  <2>6. RegInv'
    <3>1. tpc[c] \in Late /\ tpc'[c] \in Late
      BY <1>1, <2>5 DEF Late, Busy
    <3> QED BY <1>1, <1>5, <2>5, <3>1, RegFrame DEF IInv
  <2>7. FlowInv'
    BY <1>1, <2>5, FlowFrame DEF IInv, Busy
  <2>8. ThreadInv'
    <3>1. Works(c)'
      BY <1>1, <1>2, <1>5, <2>1, <2>3, <2>4, <2>5 DEF Works, SlotOf, Target
    <3>2. \A d \in Clients : d # c => Works(d)'
      BY <1>1, <1>5, <2>4, <2>5, WorksFrame DEF IInv, ThreadInv
    <3> QED BY <1>1, <1>5, <2>4, <3>1, <3>2 DEF IInv, ThreadInv
  <2>9. ChildInv'
    BY <1>1, ChildFrame DEF IInv
  <2> QED BY <1>1, <2>6, <2>7, <2>8, <2>9 DEF IInv, Control
<1> QED BY <1>3, <1>4, <1>5 DEF Cast

\* A thread answers its client.
LEMMA ReplyInv ==
    ASSUME IInv, NEW c \in Clients, Reply(c)
    PROVE  IInv'
<1>1. /\ tpc[c] \in {"reply", "run"} /\ tpc' = [tpc EXCEPT ![c] = "read"]
      /\ tocl' = IF cpc[c] = "gone" THEN tocl ELSE [tocl EXCEPT ![c] = Append(@, out[c])]
      /\ out' = [out EXCEPT ![c] = Nothing] /\ cmds' = [cmds EXCEPT ![c] = <<>>]
      /\ i' = [i EXCEPT ![c] = 1] /\ res' = [res EXCEPT ![c] = <<>>]
      /\ UNCHANGED <<setup, server, typed, active, ports, idx, doubled, misread, found,
                     strtokAt, buff, conn, kpc, kidq, tosrv, cpc>>
  BY DEF Reply, At, Goto, tables, users, history, children
<1>2. /\ tpc'[c] = "read" /\ tpc' \in [Clients -> Threads] /\ \A d \in Clients : d # c => tpc'[d] = tpc[d]
  BY <1>1 DEF IInv, RegInv, Threads
<1>3. /\ i'[c] = 1 /\ DOMAIN i' = Clients /\ \A d \in Clients : d # c => i'[d] = i[d]
      /\ 1 \in 1 .. Len(IpOf) + 1
  BY <1>1, SlotFacts DEF IInv, ThreadInv, Works
<1>4. RegInv'
  BY <1>1, <1>2, <1>3, RegFrame DEF IInv, RegInv, Late, Busy
<1>5. FlowInv'
  <2>1. /\ tpc[c] \notin Early /\ tpc[c] # "read" /\ tpc[c] \in Busy
        /\ tpc'[c] \notin Early /\ tpc'[c] \notin {"off", "closed", "failed", "exited"} /\ tpc'[c] \notin Busy
        /\ tpc[c] # "off"
    BY <1>1, <1>2 DEF Early, Busy
  <2>2. tosrv[c] = <<>> /\ tocl[c] = <<>> /\ cpc[c] \notin {"connected", "prompt"} /\ DOMAIN tocl = Clients
    BY <2>1 DEF IInv, FlowInv
  <2>3. PICK a \in Output : a = out[c]
    BY DEF IInv, ThreadInv, Works
  <2>4. Append(<<>>, a) = <<a>>
    OBVIOUS
  <2>5. /\ tocl'[c] = <<>> \/ tocl'[c] = <<a>>
        /\ DOMAIN tocl' = Clients /\ \A d \in Clients : d # c => tocl'[d] = tocl[d]
    <3>1. CASE cpc[c] = "gone"
      BY <1>1, <2>2, <3>1
    <3>2. CASE cpc[c] # "gone"
      BY <1>1, <2>2, <2>3, <2>4, <3>2
    <3> QED BY <3>1, <3>2
  <2> QED BY <1>1, <1>2, <2>1, <2>2, <2>5 DEF IInv, FlowInv
<1>6. ThreadInv'
  <2>a. <<>> \in Runs
    BY DEF Runs
  <2>b. out \in [Clients -> Output] /\ res \in [Clients -> Runs]
    BY DEF IInv, ThreadInv, Works
  <2>1. out' \in [Clients -> Output] /\ res' \in [Clients -> Runs]
    BY <1>1, <2>a, <2>b, OutputFacts
  <2>2. /\ cmds' \in [Clients -> Seq([machine : Int \ {BadName}, text : Positions])]
        /\ \A d \in Clients : d # c => cmds'[d] = cmds[d]
    <3> DEFINE S == [machine : Int \ {BadName}, text : Positions]
    <3>1. cmds \in [Clients -> Seq(S)]
      BY DEF IInv, ThreadInv, Works
    <3> HIDE DEF S
    <3>2. cmds' \in [Clients -> Seq(S)] /\ \A d \in Clients : d # c => cmds'[d] = cmds[d]
      BY <1>1, <3>1
    <3> QED BY <3>2 DEF S
  <2> QED BY <1>1, <1>2, <1>3, <2>1, <2>2 DEF IInv, ThreadInv, Works, SlotOf, Target
<1>7. ChildInv'
  BY <1>1, ChildFrame DEF IInv
<1> QED BY <1>1, <1>4, <1>5, <1>6, <1>7 DEF IInv, Control
-----------------------------------------------------------------------------
(* The invariant, and what it gives.                                       *)

\* The clients that are registered already have the slots of their machines.
LEMMA InvInit == Init => IInv
<1> SUFFICES ASSUME Init
             PROVE  IInv
  OBVIOUS
<1>1. setup \in Setups /\ typed = 0
  BY DEF Init
<1>2. Control
  <2>1. setup.maxTyped \in Nat
    BY <1>1, ConfigAssumption DEF Setup
  <2> QED BY <1>1, <2>1 DEF Init, Control
<1>3. PICK R : R = setup.ready
  OBVIOUS
<1>4. /\ R \in Seq(Clients)
      /\ \A s, t \in DOMAIN R : R[s] = R[t] => s = t
      /\ \A s \in DOMAIN R : R[s] \in Clients /\ s \in Slots /\ IpOf[s] = HostOf[R[s]]
  <2>1. R \in Seq(Clients)
    BY <1>2, <1>3, SetupFacts
  <2> QED BY <1>1, <1>3, <2>1, ConfigAssumption
<1>5. \A c \in Clients : Ready(c) <=> \E s \in DOMAIN R : R[s] = c
  BY <1>3 DEF Ready
<1>6. \A c \in Clients : Ready(c) => idx[c] \in DOMAIN R /\ R[idx[c]] = c
  <2> SUFFICES ASSUME NEW c \in Clients, Ready(c)
               PROVE  idx[c] \in DOMAIN R /\ R[idx[c]] = c
    OBVIOUS
  <2>1. idx[c] = CHOOSE s \in DOMAIN R : R[s] = c
    BY <1>3 DEF Init
  <2>2. \E s \in DOMAIN R : R[s] = c
    BY <1>5
  <2> QED BY <2>1, <2>2
<1>7. \A c \in Clients : ~Ready(c) => idx[c] = 0
  BY DEF Init
<1>8. /\ DOMAIN idx = Clients
      /\ tpc = [c \in Clients |-> IF Ready(c) THEN "read" ELSE "off"]
      /\ i = [c \in Clients |-> 1]
      /\ doubled = {}
  BY DEF Init
<1>9. /\ active = [s \in Slots |-> s \in DOMAIN R]
      /\ ports = [s \in Slots |-> IF s \in DOMAIN R THEN PortOf[R[s]] ELSE 0]
  BY <1>3 DEF Init
<1>10. RegInv
  <2>1. \A s \in DOMAIN R : Ready(R[s]) /\ idx[R[s]] = s
    BY <1>4, <1>5, <1>6
  <2>2. \A c \in Clients : Holds(c) <=> Ready(c)
    BY <1>8 DEF Holds, Placed, Serving
  <2>3. \A s \in Slots : IF active[s] THEN \E d \in Clients : Holders(s) = {d} ELSE Holders(s) = {}
    <3> SUFFICES ASSUME NEW s \in Slots
                 PROVE  IF active[s] THEN \E d \in Clients : Holders(s) = {d} ELSE Holders(s) = {}
      OBVIOUS
    <3>1. CASE s \in DOMAIN R
      <4>1. Holders(s) = {R[s]}
        BY <1>4, <1>6, <2>1, <2>2, <3>1 DEF Holders
      <4> QED BY <1>4, <1>9, <3>1, <4>1
    <3>2. CASE s \notin DOMAIN R
      <4>1. Holders(s) = {}
        BY <1>6, <2>2, <3>2 DEF Holders
      <4> QED BY <1>9, <3>2, <4>1
    <3> QED BY <3>1, <3>2
  <2>4. \A c \in Clients : tpc[c] \in Late => ports[idx[c]] = PortOf[c]
    <3>1. \A c \in Clients : tpc[c] \in Late => Ready(c)
      BY <1>8 DEF Late, Busy
    <3> QED BY <1>4, <1>6, <1>9, <3>1
  <2>6. \A c \in Clients : /\ idx[c] = 0 <=> tpc[c] \in Unplaced
                           /\ idx[c] # 0 => IpOf[idx[c]] = HostOf[c]
                           /\ i[c] \in 1 .. Len(IpOf) + 1
                           /\ tpc[c] # "take"
    BY <1>4, <1>6, <1>7, <1>8, SlotFacts DEF Unplaced, Early
  <2>7. idx \in [Clients -> {0} \cup Slots]
    <3>1. \A c \in Clients : idx[c] \in {0} \cup Slots
      BY <1>4, <1>6, <1>7
    <3>2. idx = [c \in Clients |-> IF Ready(c) THEN CHOOSE s \in DOMAIN setup.ready : setup.ready[s] = c ELSE 0]
      BY DEF Init
    <3>3. idx = [c \in Clients |-> idx[c]]
      BY <3>2
    <3> QED BY <3>1, <3>3
  <2>8. tpc \in [Clients -> Threads]
    BY <1>8 DEF Threads, Early
  <2>9. active \in [Slots -> BOOLEAN] /\ ports \in [Slots -> Nat] /\ misread \subseteq Clients
    <3>1. \A s \in DOMAIN R : PortOf[R[s]] \in Nat
      BY <1>4, SlotFacts
    <3> QED BY <1>9, <3>1 DEF Init
  <2> QED BY <2>3, <2>4, <2>6, <2>7, <2>8, <2>9 DEF RegInv
<1>11. FlowInv
  BY <1>8 DEF Init, FlowInv, Early, Busy
<1>12. ThreadInv
  <2>1. out \in [Clients -> Output] /\ res \in [Clients -> Runs]
    <3>1. <<>> \in Runs
      BY DEF Runs
    <3>2. out = [c \in Clients |-> Nothing] /\ res = [c \in Clients |-> <<>>]
      BY DEF Init
    <3> QED BY <3>1, <3>2, OutputFacts
  <2>2. cmds \in [Clients -> Seq([machine : Int \ {BadName}, text : Positions])] /\ buff \in [Clients -> Seq(Stage)]
    BY DEF Init
  <2>3. strtokAt \in [buf : Clients \cup {None}, tok : Nat]
    BY DEF Init
  <2>4. found \in [Clients -> SUBSET Clients]
    BY DEF Init
  <2> QED BY <1>8, <2>1, <2>2, <2>3, <2>4 DEF ThreadInv, Works
<1>13. ChildInv
  <2>1. conn \in [Clients -> [st : Connections, cmd : Commands \cup {None}]]
        /\ \A c \in Clients : conn[c].st # "printed"
    BY DEF Init, NoConn, Connections
  <2>2. kpc \in [Clients -> {"off", "setup", "listen", "dead"}]
    BY DEF Init
  <2>3. kidq \in [Clients -> Seq([thread : Clients, slot : Slots, cmd : Commands])]
    BY DEF Init
  <2>4. \A c, d \in Clients : SameListener(c, d) => c = d
    <3> SUFFICES ASSUME NEW c \in Clients, NEW d \in Clients, SameListener(c, d)
                 PROVE  c = d
      OBVIOUS
    <3>1. Ready(c) /\ Ready(d) /\ HostOf[c] = HostOf[d] /\ PortOf[c] = PortOf[d]
      BY DEF Init, SameListener
    <3>2. PICK s \in DOMAIN R : R[s] = c
      BY <1>5, <3>1
    <3>3. PICK t \in DOMAIN R : R[t] = d
      BY <1>5, <3>1
    <3>4. s = t
      BY <1>1, <1>3, <3>1, <3>2, <3>3, ConfigAssumption
    <3> QED BY <3>2, <3>3, <3>4
  <2> QED BY <2>1, <2>2, <2>3, <2>4 DEF ChildInv
<1> QED BY <1>2, <1>10, <1>11, <1>12, <1>13 DEF IInv

\* Every step keeps the invariant.
LEMMA InvStep == IInv /\ [Next]_vars => IInv'
<1> SUFFICES ASSUME IInv, [Next]_vars
             PROVE  IInv'
  OBVIOUS
<1>1. CASE UNCHANGED vars
  BY <1>1, StutterInv
<1>2. ASSUME NEW c \in Clients, Connect(c) PROVE IInv'
  BY <1>2, ConnectInv
<1>3. ASSUME NEW c \in Clients, Client(c) \/ Leave(c) \/ LoseChild(c) \/ (\E l \in setup.lines : Type(c, l)) PROVE IInv'
  BY <1>3, ClientInv
<1>4. ASSUME NEW c \in Clients, Child(c) PROVE IInv'
  BY <1>4, ChildStep
<1>5. ASSUME NEW c \in Clients, Thread(c) PROVE IInv'
  BY <1>5, ScanInv, TakeSlotInv, ReadPortInv, EndInv, ReadLineInv, ParseInv, RunNamedInv, DialInv, AwaitInv, GatherInv,
     CastInv, ReplyInv DEF Thread
<1> QED BY <1>1, <1>2, <1>3, <1>4, <1>5 DEF Next

\* The invariant: whose port the table of clustershell_server.c holds, who holds a slot,
\* what is between a client and its thread, and what waits at the clients' children.
THEOREM InvHolds == Spec => []IInv
BY InvInit, InvStep, PTL DEF Spec

\* Whoever listens where a thread connects for a slot in working order is the machine of
\* that slot.
LEMMA ReachesNamed ==
    ASSUME IInv, NEW c \in Clients, NEW s \in Slots, Registered(c, s)
    PROVE  /\ HostOf[c] = IpOf[s] /\ PortOf[c] = ports[s] /\ kpc[c] = "listen"
           /\ \A d \in Clients : HostOf[d] = IpOf[s] /\ PortOf[d] = ports[s] /\ kpc[d] = "listen" => c = d
<1>1. tpc[c] \in Late /\ idx[c] = s /\ s \notin doubled /\ c \notin misread /\ kpc[c] = "listen"
  BY DEF Registered, Holds, Placed, Serving, Late, Busy
<1>2. ports[s] = PortOf[c] /\ HostOf[c] = IpOf[s]
  BY <1>1, SlotFacts DEF IInv, RegInv
<1> QED BY <1>1, <1>2 DEF IInv, ChildInv, SameListener

\* Only a thread that connects to a slot, and the children, change what waits at a child;
\* only such a thread ends the server.
LEMMA Quiet ==
    ASSUME NEW c \in Clients,
           \/ Connect(c) \/ Leave(c) \/ LoseChild(c) \/ (\E l \in setup.lines : Type(c, l)) \/ Client(c)
           \/ Thread(c) /\ ~Dial(c)
    PROVE  kidq' = kidq /\ server' = server
<1>1. CASE Connect(c) \/ Leave(c) \/ LoseChild(c) \/ \E l \in setup.lines : Type(c, l)
  BY <1>1 DEF Connect, Leave, LoseChild, Type, children
<1>2. CASE Client(c)
  BY <1>2 DEF Client, SendPort, ReadAnswer, LoseServer, Close, children
<1>3. CASE Scan(c) \/ TakeSlot(c) \/ ReadPort(c) \/ ReadNoPort(c) \/ ReadEnd(c) \/ ReadLine(c)
  BY <1>3 DEF Scan, TakeSlot, ReadPort, ReadNoPort, ReadEnd, ReadLine, children
<1>4. CASE Split(c) \/ NextToken(c) \/ RunNamed(c) \/ Await(c) \/ StartBroadcast(c)
  BY <1>4 DEF Split, NextToken, RunNamed, Await, StartBroadcast, children
<1>5. CASE Cast(c) \/ Gather(c) \/ Reply(c)
  BY <1>5 DEF Cast, Gather, Reply, children
<1> QED BY <1>1, <1>2, <1>3, <1>4, <1>5 DEF Thread

\* Only a thread that connects to a slot adds to what waits at a child.
LEMMA SentByDial ==
    ASSUME IInv, [Next]_vars, NEW d \in Clients, Len(kidq'[d]) > Len(kidq[d])
    PROVE  \E s \in Slots : /\ HostOf[d] = IpOf[s] /\ PortOf[d] = ports[s] /\ kpc[d] = "listen"
                           /\ kidq'[d][Len(kidq'[d])].slot = s
<1>1. kidq \in [Clients -> Seq(Waiting)]
  BY DEF IInv, ChildInv, Waiting
<1>2. kidq' # kidq
  <2>1. Len(kidq[d]) \in Nat
    BY <1>1
  <2> QED BY <2>1
<1>3. ASSUME NEW c \in Clients, Child(c)
      PROVE  FALSE
  <2>1. CASE Listen(c)
    BY <1>2, <2>1 DEF Listen
  <2>2. CASE RunCommand(c)
    <3>1. kidq[c] \in Seq(Waiting) /\ kidq[c] # <<>> /\ kidq' = [kidq EXCEPT ![c] = Tail(@)]
      BY <1>1, <2>2 DEF RunCommand
    <3>2. Len(Tail(kidq[c])) = Len(kidq[c]) - 1 /\ Len(kidq[c]) \in Nat
      BY <3>1, HeadTailProperties
    <3>3. Len(kidq[d]) \in Nat
      BY <1>1
    <3> QED BY <1>1, <3>1, <3>2, <3>3
  <2>3. CASE ChildEnds(c)
    <3>1. kidq' = [kidq EXCEPT ![c] = <<>>]
      BY <2>3 DEF ChildEnds
    <3>2. Len(kidq[d]) \in Nat /\ Len(<<>>) = 0
      BY <1>1
    <3> QED BY <1>1, <3>1, <3>2
  <2> QED BY <1>3, <2>1, <2>2, <2>3 DEF Child
<1>4. \E c \in Clients : Dial(c)
  <2>1. ~UNCHANGED vars
    BY <1>2 DEF vars, children
  <2> QED BY <1>2, <1>3, <2>1, Quiet DEF Next
<1>5. PICK c \in Clients : Dial(c)
  BY <1>4
<1>6. \E s \in Slots, pc \in {"await", "gather"} : SendTo(c, s, pc)
  BY <1>5 DEF Dial, At, IInv, ThreadInv, Works
<1>7. PICK s \in Slots, pc \in {"await", "gather"} : SendTo(c, s, pc)
  BY <1>6
<1>8. PICK w : w = [thread |-> c, slot |-> s, cmd |-> Text(Head(cmds[c]))]
  OBVIOUS
<1>9. \E e \in Clients : /\ HostOf[e] = IpOf[s] /\ PortOf[e] = ports[s] /\ kpc[e] = "listen"
                         /\ kidq' = [kidq EXCEPT ![e] = Append(@, w)]
  BY <1>2, <1>7, <1>8 DEF SendTo
<1>10. PICK e \in Clients : /\ HostOf[e] = IpOf[s] /\ PortOf[e] = ports[s] /\ kpc[e] = "listen"
                           /\ kidq' = [kidq EXCEPT ![e] = Append(@, w)]
  BY <1>9
<1>11. d = e
  <2>1. Len(kidq[d]) \in Nat
    BY <1>1
  <2> QED BY <1>1, <1>10, <2>1
<1>12. kidq'[d] = Append(kidq[d], w)
  BY <1>1, <1>10, <1>11
<1>13. kidq'[d][Len(kidq'[d])] = w
  <2> DEFINE W == Waiting \cup {w}
  <2>1. kidq[d] \in Seq(W) /\ w \in W
    BY <1>1
  <2> HIDE DEF W
  <2>2. Len(Append(kidq[d], w)) = Len(kidq[d]) + 1 /\ Append(kidq[d], w)[Len(kidq[d]) + 1] = w
    BY <2>1, AppendProperties
  <2> QED BY <1>12, <2>2
<1> QED BY <1>8, <1>10, <1>11, <1>13

\* A command for a slot whose machine is in working order reaches that machine and no
\* other, for every table of machines and however clients come, go and come back: the port
\* of an earlier client stays in connection_ports (clustershell_server.c:155), but only
\* until the next client of the slot has sent its own, and no two children of a host listen
\* on one port at a time.
THEOREM RunsWhereNamedHolds == Spec => RunsWhereNamed
<1> DEFINE A == \A c, d \in Clients :
           Len(kidq'[d]) > Len(kidq[d]) /\ Registered(c, kidq'[d][Len(kidq'[d])].slot) => c = d
<1>1. IInv /\ [Next]_vars => [A]_vars
  <2> SUFFICES ASSUME IInv, [Next]_vars, NEW c \in Clients, NEW d \in Clients, Len(kidq'[d]) > Len(kidq[d]),
                      Registered(c, kidq'[d][Len(kidq'[d])].slot)
               PROVE  c = d
    OBVIOUS
  <2>1. PICK s \in Slots : /\ HostOf[d] = IpOf[s] /\ PortOf[d] = ports[s] /\ kpc[d] = "listen"
                          /\ kidq'[d][Len(kidq'[d])].slot = s
    BY SentByDial
  <2>2. Registered(c, s)
    BY <2>1
  <2> QED BY <2>1, <2>2, ReachesNamed
<1> HIDE DEF A
<1>2. Spec => [][A]_vars
  BY <1>1, InvHolds, PTL DEF Spec
<1> QED BY <1>2 DEF A, RunsWhereNamed

\* A slot is active exactly while one thread holds it, unless two threads took it at once.
THEOREM SlotsExclusiveHolds == Spec => []SlotsExclusive
<1>1. IInv => SlotsExclusive
  <2> SUFFICES ASSUME IInv, NEW s \in Slots, s \notin doubled
               PROVE  Cardinality(Holders(s)) = IF active[s] THEN 1 ELSE 0
    BY DEF SlotsExclusive, Holders
  <2>1. IF active[s] THEN \E d \in Clients : Holders(s) = {d} ELSE Holders(s) = {}
    BY DEF IInv, RegInv
  <2>2. Cardinality({}) = 0 /\ \A d : Cardinality({d}) = 1
    BY FS_EmptySet, FS_Singleton
  <2> QED BY <2>1, <2>2
<1> QED BY <1>1, InvHolds, PTL

\* The type invariant: the slots and the loop indices stay within the tables, a thread with
\* a slot has an entry of them, and a connection never holds more than a port and a line, or
\* one answer.
THEOREM TypeHolds == Spec => []TypeOK
<1>1. IInv => TypeOK
  <2> SUFFICES ASSUME IInv
               PROVE  TypeOK
    OBVIOUS
  <2>1. server \in {"up", "down"} /\ setup \in Setups /\ typed \in 0 .. setup.maxTyped
    BY DEF IInv, Control
  <2>2. active \in [Slots -> BOOLEAN] /\ ports \in [Slots -> Nat] /\ misread \subseteq Clients
    BY DEF IInv, RegInv
  <2>3. strtokAt.buf \in Clients \cup {None} /\ strtokAt.tok \in Nat
    BY DEF IInv, ThreadInv, Works
  <2>4. ASSUME NEW c \in Clients
        PROVE  /\ tpc[c] \in Serving \cup {"off", "scan", "take", "rejected", "exited", "failed", "closed"}
               /\ i[c] \in 1 .. Len(IpOf) + 1 /\ idx[c] \in {0} \cup Slots
               /\ Holds(c) => idx[c] \in Slots
    <3>1. tpc[c] \in Threads /\ idx[c] \in {0} \cup Slots /\ i[c] \in 1 .. Len(IpOf) + 1
      BY DEF IInv, RegInv
    <3>2. Holds(c) => tpc[c] \notin Unplaced
      BY DEF Holds, Placed, Serving, Unplaced, Early
    <3>3. Holds(c) => idx[c] # 0
      BY <3>2 DEF IInv, RegInv
    <3>4. tpc[c] \in Serving \cup {"off", "scan", "take", "rejected", "exited", "failed", "closed"}
      BY <3>1 DEF Threads, Early, Busy, Serving
    <3> QED BY <3>1, <3>3, <3>4
  <2>5. ASSUME NEW c \in Clients
        PROVE  /\ buff[c] \in Seq(Stage) /\ out[c] \in Output /\ res[c] \in Runs
               /\ \A k \in DOMAIN cmds[c] : cmds[c][k].machine \in Int \ {BadName} /\ cmds[c][k].text.buf \in Clients
    <3>1. cmds[c] \in Seq([machine : Int \ {BadName}, text : Positions])
      BY DEF IInv, ThreadInv, Works
    <3>2. \A k \in DOMAIN cmds[c] : cmds[c][k] \in [machine : Int \ {BadName}, text : Positions]
      <4> DEFINE S == [machine : Int \ {BadName}, text : Positions]
      <4> HIDE DEF S
      <4>1. cmds[c] \in Seq(S)
        BY <3>1 DEF S
      <4>2. \A k \in DOMAIN cmds[c] : cmds[c][k] \in S
        BY <4>1
      <4> QED BY <4>2 DEF S
    <3>3. \A k \in DOMAIN cmds[c] : cmds[c][k].machine \in Int \ {BadName} /\ cmds[c][k].text.buf \in Clients
      BY <3>2 DEF Positions
    <3> QED BY <3>3 DEF IInv, ThreadInv, Works
  <2>6. ASSUME NEW c \in Clients
        PROVE  /\ conn[c].st \in {"none", "sent", "printed", "empty", "lost"}
               /\ kpc[c] \in {"off", "setup", "listen", "dead"}
               /\ cpc[c] \in {"off", "connected", "prompt", "wait", "leaving", "gone"}
    <3>1. conn[c] \in [st : Connections, cmd : Commands \cup {None}] /\ kpc[c] \in {"off", "setup", "listen", "dead"}
      BY DEF IInv, ChildInv
    <3>2. conn[c].st \in Connections
      BY <3>1
    <3> QED BY <3>1, <3>2 DEF Connections, IInv, FlowInv
  <2>7. ASSUME NEW c \in Clients
        PROVE  Len(tosrv[c]) <= 2 /\ Len(tocl[c]) <= 1 /\ tocl[c] \in Seq(Output)
    <3>1. Len(tocl[c]) <= 1 /\ tocl[c] \in Seq(Output)
      <4>1. tocl[c] = <<>> \/ \E a \in Output : tocl[c] = <<a>>
        BY DEF IInv, FlowInv
      <4>2. CASE tocl[c] = <<>>
        BY <4>2
      <4>3. ASSUME NEW a \in Output, tocl[c] = <<a>>
            PROVE  Len(tocl[c]) <= 1 /\ tocl[c] \in Seq(Output)
        <5>1. <<a>> \in Seq(Output) /\ Len(<<a>>) = 1
          OBVIOUS
        <5> QED BY <4>3, <5>1
      <4> QED BY <4>1, <4>2, <4>3
    <3>2. Len(tosrv[c]) <= 2
      <4>1. tosrv[c] = <<>> \/ (\E x : tosrv[c] = <<x>>) \/ (\E x, y : tosrv[c] = <<x, y>>)
        BY DEF IInv, FlowInv
      <4>2. CASE tosrv[c] = <<>>
        BY <4>2
      <4>3. ASSUME NEW x, tosrv[c] = <<x>>
            PROVE  Len(tosrv[c]) <= 2
        <5>1. Len(<<x>>) = 1
          OBVIOUS
        <5> QED BY <4>3, <5>1
      <4>4. ASSUME NEW x, NEW y, tosrv[c] = <<x, y>>
            PROVE  Len(tosrv[c]) <= 2
        <5>1. Len(<<x, y>>) = 2
          OBVIOUS
        <5> QED BY <4>4, <5>1
      <4> QED BY <4>1, <4>2, <4>3, <4>4
    <3> QED BY <3>1, <3>2
  <2>8. found \in [Clients -> SUBSET Clients]
    BY DEF IInv, ThreadInv
  <2> QED BY <2>1, <2>2, <2>3, <2>4, <2>5, <2>6, <2>7, <2>8 DEF TypeOK
<1> QED BY <1>1, InvHolds, PTL

\* The server ends only when a thread connects to a slot that was held when it looked
\* (clustershell_server.c:215, 284), or that two threads took, and that has no machine in
\* working order: a machine that is registered and listens is always reached, whatever the
\* clients before it have left in the tables.
THEOREM EndsOnlyAtEdgesHolds == Spec => EndsOnlyAtEdges
<1> DEFINE Edge == server' # server =>
                       \E t \in Clients :
                           /\ tpc[t] \in {"dial", "call"} /\ Target(t) \in Slots
                           /\ found[t] # {} \/ Target(t) \in doubled
                           /\ \A c \in Clients : ~Registered(c, Target(t))
<1>1. IInv /\ [Next]_vars => [Edge]_vars
  <2> SUFFICES ASSUME IInv, Next, server' # server
               PROVE  Edge
    OBVIOUS
  <2>a. \A t \in Clients : ~Child(t)
    BY DEF Child, Listen, RunCommand, ChildEnds
  <2>b. \E t \in Clients : Dial(t)
    BY <2>a, Quiet DEF Next
  <2>1. PICK t \in Clients : Dial(t)
    BY <2>b
  <2>2. PICK s : s = Target(t)
    OBVIOUS
  <2>3. tpc[t] \in {"dial", "call"} /\ \E pc \in {"await", "gather"} : SendTo(t, s, pc)
    BY <2>1, <2>2 DEF Dial, At, Target
  <2>4. s \in Slots /\ (found[t] # {} \/ s \in doubled)
    BY <2>2, <2>3 DEF IInv, ThreadInv, Works, Target
  <2>5. {d \in Clients : HostOf[d] = IpOf[s] /\ PortOf[d] = ports[s] /\ kpc[d] = "listen"} = {}
    BY <2>3 DEF SendTo
  <2>6. \A c \in Clients : ~Registered(c, s)
    BY <2>4, <2>5, ReachesNamed
  <2> QED BY <2>2, <2>3, <2>4, <2>6
<1> HIDE DEF Edge
<1>2. Spec => [][Edge]_vars
  BY <1>1, InvHolds, PTL DEF Spec
<1> QED BY <1>2 DEF Edge, EndsOnlyAtEdges
-----------------------------------------------------------------------------
(* Every client gets the answer to its line.                               *)

\* The output of a stage of a client with slot own, as in AnswersOwnLine.
Fits(own, runs, stage) == \A r \in DOMAIN runs :
    /\ runs[r].cmd = stage.cmd /\ stage.cmd \notin Silent
    /\ IF stage.machine = Broadcast THEN r > 1 => runs[r - 1].at < runs[r].at
       ELSE r = 1 /\ runs[r].at = IF stage.machine = Local THEN own ELSE stage.machine

\* The answer a fits the line.
AnswerFits(own, a, line) ==
    /\ a.err = "nodes" <=> line = NodesLine
    /\ a.err = "none" => Len(a.did) = Len(line) /\ \A j \in 1 .. Len(a.did) : Fits(own, a.did[j], line[j])
    /\ a.err = "invalid" => \E j \in DOMAIN line : line[j].machine > Len(IpOf)

AnswerInv(c) == \A a : tocl[c] = <<a>> /\ c \notin cut \cup mixed => AnswerFits(idx[c], a, asked[c])

\* The line on its way and the line in work are the one the client typed.
LineInv(c) ==
    c \notin cut =>
        /\ tpc[c] \in Early => \A l : tosrv[c] = <<PortOnly(c), l>> => l = asked[c]
        /\ tpc[c] \notin Early => \A l : tosrv[c] = <<l>> => l = asked[c]
        /\ tpc[c] \in Busy => buff[c] = asked[c]

\* Of the line, the stages in o are done; todo are the ones after them, each with its text
\* in the thread's own buffer.
Todo(c, own, line, todo, o) ==
    /\ line # NodesLine /\ o.err = "none"
    /\ \A k \in 1 .. Len(todo) :
           /\ Len(o.did) + k \in 1 .. Len(line)
           /\ todo[k].machine = line[Len(o.did) + k].machine
           /\ todo[k].text = [buf |-> c, tok |-> Len(o.did) + k]
    /\ \A j \in 1 .. Len(o.did) : j \in 1 .. Len(line) /\ Fits(own, o.did[j], line[j])

\* The stage in work.
Now(c) == buff[c][Len(out[c].did) + 1]

\* Nobody else parses.
ParseAlone(c) ==
    /\ Len(out[c].did) = 0 /\ strtokAt = [buf |-> c, tok |-> Len(cmds[c]) + 1]
    /\ \A d \in Clients : tpc[d] = "parse" => d = c

\* What the machines with smaller numbers than n have printed for a stage of all machines.
CastSoFar(runs, stage, n) ==
    /\ stage.machine = Broadcast
    /\ \A r \in 1 .. Len(runs) : /\ runs[r].cmd = stage.cmd /\ stage.cmd \notin Silent
                                 /\ runs[r].at < n
                                 /\ r > 1 => runs[r - 1].at < runs[r].at

Sending == {"await", "gather"}
Running == {"run", "dial", "await", "cast", "call", "gather"}

ErrorCause(o, line) ==
    /\ o.err # "none" /\ (o.err = "nodes" <=> line = NodesLine)
    /\ o.err = "invalid" => \E j \in DOMAIN line : line[j].machine > Len(IpOf)

\* What a thread that nobody disturbed has done of its line.
OwnWork(c) ==
    /\ tpc[c] \in Running \cup {"split", "parse"} => Todo(c, idx[c], buff[c], cmds[c], out[c])
    /\ tpc[c] = "parse" => ParseAlone(c)
    /\ tpc[c] \in Running => Len(out[c].did) + Len(cmds[c]) = Len(buff[c])
    /\ tpc[c] \in {"dial", "await"} => Now(c).machine # Broadcast
    /\ tpc[c] \in {"cast", "call", "gather"} => CastSoFar(res[c], Now(c), i[c])
    /\ tpc[c] \in Sending /\ conn[c].st = "printed" => conn[c].cmd = Now(c).cmd /\ Now(c).cmd \notin Silent
    /\ tpc[c] = "reply" => ErrorCause(out[c], buff[c])

WorkInv(c) ==
    /\ tpc[c] \in Early \cup {"read", "split"} => cmds[c] = <<>>
    /\ tpc[c] = "split" => out[c] = Nothing
    /\ c \notin mixed => OwnWork(c)

\* A thread has at most one command at the children, and waits for it.
KidInv ==
    \A d \in Clients : \A k \in 1 .. Len(kidq[d]) :
        /\ tpc[kidq[d][k].thread] \in Sending /\ conn[kidq[d][k].thread].st = "sent"
        /\ kidq[d][k].thread \notin mixed => kidq[d][k].cmd = Now(kidq[d][k].thread).cmd
        /\ \A e \in Clients : \A h \in 1 .. Len(kidq[e]) : kidq[e][h].thread = kidq[d][k].thread => e = d /\ h = k

AInv == DOMAIN asked = Clients /\ (\A c \in Clients : LineInv(c) /\ WorkInv(c) /\ AnswerInv(c)) /\ KidInv
-----------------------------------------------------------------------------
(* What a step of one thread leaves alone.                                 *)

\* The types of what belongs to a thread.
LEMMA ThreadTypes ==
    ASSUME IInv, NEW c \in Clients
    PROVE  /\ buff[c] \in Seq(Stage) /\ cmds[c] \in Seq([machine : Int \ {BadName}, text : Positions])
           /\ out[c] \in Output /\ out[c].did \in Seq(Runs) /\ res[c] \in Runs
           /\ kidq[c] \in Seq(Waiting) /\ tpc[c] \in Threads
           /\ conn[c] \in [st : Connections, cmd : Commands \cup {None}]
<1>1. out[c] \in Output
  BY DEF IInv, ThreadInv, Works
<1>2. out[c].did \in Seq(Runs)
  BY <1>1 DEF Output
<1>3. /\ buff[c] \in Seq(Stage) /\ cmds[c] \in Seq([machine : Int \ {BadName}, text : Positions])
      /\ res[c] \in Runs
  BY DEF IInv, ThreadInv, Works
<1>4. kidq[c] \in Seq(Waiting) /\ conn[c] \in [st : Connections, cmd : Commands \cup {None}]
  BY DEF IInv, ChildInv, Waiting
<1>5. tpc[c] \in Threads
  BY DEF IInv, RegInv
<1> QED BY <1>1, <1>2, <1>3, <1>4, <1>5

\* What a client and its thread have is as before: other threads may have disturbed it,
\* and a child may have ended.
Untouched(d) ==
    /\ tpc'[d] = tpc[d] /\ buff'[d] = buff[d] /\ cmds'[d] = cmds[d] /\ out'[d] = out[d] /\ res'[d] = res[d]
    /\ i'[d] = i[d] /\ idx'[d] = idx[d] /\ asked'[d] = asked[d]
    /\ d \in cut' <=> d \in cut
    /\ d \in mixed => d \in mixed'
    /\ conn'[d] = conn[d] \/ conn'[d].st # "printed" \/ tpc[d] \notin Sending
    /\ tpc[d] = "parse" /\ d \notin mixed' =>
           strtokAt' = strtokAt /\ \A e \in Clients : tpc'[e] = "parse" => tpc[e] = "parse"

\* Then its work is.
LEMMA WorkFrame ==
    ASSUME NEW c \in Clients, WorkInv(c), Untouched(c)
    PROVE  WorkInv(c)'
<1>1. Now(c)' = Now(c)
  BY DEF Now, Untouched
<1>2. ASSUME c \notin mixed'
      PROVE  OwnWork(c)'
  <2>1. c \notin mixed /\ OwnWork(c)
    BY <1>2 DEF Untouched, WorkInv
  <2>2. tpc'[c] \in Running \cup {"split", "parse"} => Todo(c, idx[c], buff[c], cmds[c], out[c])'
    BY <2>1 DEF Untouched, OwnWork
  <2>3. tpc'[c] = "parse" => ParseAlone(c)'
    BY <1>2, <2>1 DEF Untouched, OwnWork, ParseAlone
  <2>4. tpc'[c] \in {"cast", "call", "gather"} => CastSoFar(res[c], Now(c), i[c])'
    BY <1>1, <2>1 DEF Untouched, OwnWork
  <2>5. tpc'[c] \in Sending /\ conn'[c].st = "printed" => conn'[c].cmd = Now(c)'.cmd /\ Now(c)'.cmd \notin Silent
    BY <1>1, <2>1 DEF Untouched, OwnWork
  <2>6. /\ tpc'[c] \in Running => Len(out'[c].did) + Len(cmds'[c]) = Len(buff'[c])
        /\ tpc'[c] \in {"dial", "await"} => Now(c)'.machine # Broadcast
        /\ tpc'[c] = "reply" => ErrorCause(out[c], buff[c])'
    BY <1>1, <2>1 DEF Untouched, OwnWork
  <2> QED BY <2>2, <2>3, <2>4, <2>5, <2>6 DEF OwnWork
<1> QED BY <1>2 DEF WorkInv, Untouched

\* Then its lines and answers are, as far as they have not been read.
LEMMA LineFrame ==
    ASSUME NEW c \in Clients, LineInv(c), Untouched(c), tosrv'[c] = tosrv[c] \/ tosrv'[c] = <<>>
    PROVE  LineInv(c)'
<1>1. PortOnly(c)' = PortOnly(c)
  BY DEF PortOnly
<1>2. \A l : <<l>> # <<>> /\ <<PortOnly(c), l>> # <<>>
  OBVIOUS
<1> QED BY <1>1, <1>2 DEF LineInv, Untouched

\* The answer not read yet is as before, or there is none.
LEMMA AnswerFrame ==
    ASSUME NEW c \in Clients, AnswerInv(c), Untouched(c), tocl'[c] = tocl[c] \/ tocl'[c] = <<>>
    PROVE  AnswerInv(c)'
<1>1. \A a : <<a>> # <<>>
  OBVIOUS
<1> QED BY <1>1 DEF AnswerInv, Untouched

\* The children's queues are as before, and the threads that wait for them too.
LEMMA KidFrame ==
    ASSUME IInv, KidInv, kidq' = kidq, \A t \in Clients : t \in mixed => t \in mixed' \/ tpc[t] \notin Sending,
           \A t \in Clients : tpc[t] \in Sending /\ conn[t].st = "sent" =>
               tpc'[t] = tpc[t] /\ conn'[t] = conn[t] /\ buff'[t] = buff[t] /\ out'[t] = out[t]
    PROVE  KidInv'
<1> SUFFICES ASSUME NEW d \in Clients, NEW k \in 1 .. Len(kidq[d])
             PROVE  /\ tpc'[kidq[d][k].thread] \in Sending /\ conn'[kidq[d][k].thread].st = "sent"
                    /\ kidq[d][k].thread \notin mixed' => kidq[d][k].cmd = Now(kidq[d][k].thread)'.cmd
                    /\ \A e \in Clients : \A h \in 1 .. Len(kidq[e]) :
                           kidq[e][h].thread = kidq[d][k].thread => e = d /\ h = k
  BY DEF KidInv
<1>1. PICK t : t = kidq[d][k].thread
  OBVIOUS
<1>2. t \in Clients
  <2>1. kidq[d] \in Seq(Waiting)
    BY ThreadTypes
  <2>2. kidq[d][k] \in Waiting
    BY <2>1
  <2> QED BY <1>1, <2>2 DEF Waiting
<1>3. /\ tpc[t] \in Sending /\ conn[t].st = "sent" /\ (t \notin mixed => kidq[d][k].cmd = Now(t).cmd)
      /\ \A e \in Clients : \A h \in 1 .. Len(kidq[e]) : kidq[e][h].thread = t => e = d /\ h = k
  BY <1>1 DEF KidInv
<1>4. Now(t)' = Now(t)
  BY <1>2, <1>3 DEF Now
<1> QED BY <1>1, <1>2, <1>3, <1>4

\* A step that concerns one client only.
LEMMA OneClient ==
    ASSUME IInv, AInv, NEW c \in Clients, LineInv(c)', WorkInv(c)', AnswerInv(c)', KidInv', DOMAIN asked' = DOMAIN asked,
           \A d \in Clients : d # c => Untouched(d) /\ tosrv'[d] = tosrv[d] /\ tocl'[d] = tocl[d]
    PROVE  AInv'
BY WorkFrame, LineFrame, AnswerFrame DEF AInv

\* A thread that does not work on a line has nothing to show.
LEMMA IdleWork ==
    ASSUME NEW c \in Clients, tpc'[c] \notin Busy, tpc'[c] \in Early \cup {"read"} => cmds'[c] = <<>>
    PROVE  WorkInv(c)'
BY DEF WorkInv, OwnWork, Busy, Running, Sending

\* Nothing to answer.
LEMMA NoAnswer ==
    ASSUME NEW c \in Clients, tocl'[c] = <<>>
    PROVE  AnswerInv(c)'
<1>1. \A a : <<a>> # <<>>
  OBVIOUS
<1> QED BY <1>1 DEF AnswerInv
-----------------------------------------------------------------------------
(* The client and its child keep the answers right.                        *)

\* A client starts, and its connection is accepted.
LEMMA ConnectAnswers ==
    ASSUME IInv, AInv, NEW c \in Clients, Connect(c)
    PROVE  AInv'
<1>1. /\ cpc[c] = "off" /\ tpc' = [tpc EXCEPT ![c] = "scan"]
      /\ UNCHANGED <<i, idx, buff, cmds, out, res, conn, kidq, tosrv, tocl, asked, cut, mixed, strtokAt>>
  BY DEF Connect, streams, history
<1>2. tpc[c] = "off" /\ tpc'[c] = "scan" /\ \A d \in Clients : d # c => tpc'[d] = tpc[d]
  BY <1>1 DEF IInv, FlowInv, RegInv
<1>3. \A d \in Clients : d # c => Untouched(d)
  BY <1>1, <1>2 DEF Untouched
<1>4. WorkInv(c)'
  <2>1. cmds[c] = <<>>
    BY <1>2 DEF AInv, WorkInv, Early
  <2> QED BY <1>1, <1>2, <2>1, IdleWork DEF Busy
<1>5. LineInv(c)'
  <2>1. PortOnly(c)' = PortOnly(c)
    BY DEF PortOnly
  <2> QED BY <1>1, <1>2, <2>1 DEF AInv, LineInv, Early, Busy
<1>6. AnswerInv(c)'
  BY <1>1 DEF AInv, AnswerInv
<1>7. KidInv'
  BY <1>1, <1>2, KidFrame DEF AInv, Sending
<1> QED BY <1>1, <1>3, <1>4, <1>5, <1>6, <1>7, OneClient

\* The user types a line.
LEMMA TypeAnswers ==
    ASSUME IInv, AInv, NEW c \in Clients, NEW l \in setup.lines, Type(c, l)
    PROVE  AInv'
<1>1. /\ cpc[c] = "prompt" /\ asked' = [asked EXCEPT ![c] = l] /\ tosrv' = [tosrv EXCEPT ![c] = Append(@, l)]
      /\ cut' = cut \ {c}
      /\ UNCHANGED <<tpc, i, idx, buff, cmds, out, res, conn, kidq, tocl, mixed, strtokAt>>
  BY DEF Type, threads, children
<1>2. DOMAIN tosrv = Clients
  BY DEF IInv, FlowInv
<1>3. /\ \A d \in Clients : d # c => asked'[d] = asked[d] /\ tosrv'[d] = tosrv[d] /\ (d \in cut' <=> d \in cut)
      /\ tosrv'[c] = Append(tosrv[c], l)
  BY <1>1, <1>2
<1>4. \A d \in Clients : d # c => Untouched(d)
  BY <1>1, <1>3 DEF Untouched
<1>5. asked'[c] = l
  BY <1>1 DEF AInv
<1>a. DOMAIN asked' = DOMAIN asked
  BY <1>1
<1>6. \/ tpc[c] \in Early /\ tosrv[c] = <<PortOnly(c)>> /\ tocl[c] = <<>>
      \/ tpc[c] \notin Early /\ tpc[c] = "read" /\ tosrv[c] = <<>> /\ tocl[c] = <<>>
  BY <1>1 DEF IInv, FlowInv
<1>7. LineInv(c)'
  <2>1. Append(<<PortOnly(c)>>, l) = <<PortOnly(c), l>> /\ Append(<<>>, l) = <<l>>
    BY AppendTwo
  <2>2. \A m : /\ <<PortOnly(c), m>> = <<PortOnly(c), l>> => m = l
               /\ <<m>> = <<l>> => m = l
    OBVIOUS
  <2>3. PortOnly(c)' = PortOnly(c)
    BY DEF PortOnly
  <2>4. tpc[c] \notin Busy
    BY <1>6 DEF Early, Busy
  <2> QED BY <1>1, <1>3, <1>5, <1>6, <2>1, <2>2, <2>3, <2>4 DEF LineInv
<1>8. WorkInv(c)'
  <2>1. cmds[c] = <<>>
    BY <1>6 DEF AInv, WorkInv
  <2>2. tpc[c] \notin Busy
    BY <1>6 DEF Early, Busy
  <2> QED BY <1>1, <2>1, <2>2, IdleWork
<1>9. AnswerInv(c)'
  BY <1>1, <1>6, NoAnswer
<1>10. KidInv'
  BY <1>1, KidFrame DEF AInv
<1> QED BY <1>1, <1>3, <1>4, <1>7, <1>8, <1>9, <1>10, <1>a, OneClient

\* The client's other steps: it sends its port, reads an answer or ends.
LEMMA ClientAnswers ==
    ASSUME IInv, AInv, NEW c \in Clients, Client(c) \/ Leave(c) \/ LoseChild(c)
    PROVE  AInv'
<1>1. UNCHANGED <<tpc, i, idx, buff, cmds, out, res, conn, kidq, asked, cut, mixed, strtokAt>>
  BY DEF Client, SendPort, ReadAnswer, LoseServer, Close, Leave, LoseChild, threads, children, history
<1>2. \A d \in Clients : Untouched(d)
  BY <1>1 DEF Untouched
<1>3. KidInv'
  BY <1>1, KidFrame DEF AInv
<1>4. DOMAIN tosrv = Clients /\ DOMAIN tocl = Clients
  BY DEF IInv, FlowInv
<1>5. WorkInv(c)'
  BY <1>2, WorkFrame DEF AInv
<1>6. CASE SendPort(c)
  <2>1. cpc[c] = "connected" /\ tosrv' = [tosrv EXCEPT ![c] = Append(@, PortOnly(c))] /\ tocl' = tocl
    BY <1>6 DEF SendPort
  <2>2. tpc[c] \in Early /\ tosrv[c] = <<>>
    BY <2>1 DEF IInv, FlowInv
  <2>3. PICK p : p = PortOnly(c)
    OBVIOUS
  <2>4. Append(<<>>, p) = <<p>> /\ \A l : <<p, l>> # <<p>>
    OBVIOUS
  <2>5. tosrv'[c] = <<p>> /\ \A d \in Clients : d # c => tosrv'[d] = tosrv[d]
    BY <1>4, <2>1, <2>2, <2>3, <2>4
  <2>6. PortOnly(c)' = p /\ tpc[c] \notin Busy
    BY <2>2, <2>3 DEF PortOnly, Early, Busy
  <2>7. LineInv(c)'
    BY <1>1, <2>2, <2>4, <2>5, <2>6 DEF LineInv
  <2>8. AnswerInv(c)'
    BY <1>2, <2>1, AnswerFrame DEF AInv
  <2> QED BY <1>1, <1>2, <1>3, <1>5, <2>1, <2>5, <2>7, <2>8, OneClient
<1>7. CASE Leave(c) \/ LoseChild(c) \/ LoseServer(c) \/ ReadAnswer(c) \/ Close(c)
  <2>1. /\ tosrv' = tosrv
        /\ \/ tocl' = tocl
           \/ tocl' = [tocl EXCEPT ![c] = Tail(@)] /\ tocl[c] # <<>>
           \/ tocl' = [tocl EXCEPT ![c] = <<>>]
    BY <1>7 DEF ReadAnswer, LoseServer, Close, Leave, LoseChild, streams
  <2>2. tocl[c] # <<>> => Tail(tocl[c]) = <<>>
    <3>1. \A x : Tail(<<x>>) = <<>>
      OBVIOUS
    <3> QED BY <3>1 DEF IInv, FlowInv
  <2>3. (tocl'[c] = tocl[c] \/ tocl'[c] = <<>>) /\ \A d \in Clients : d # c => tocl'[d] = tocl[d]
    BY <1>4, <2>1, <2>2
  <2>4. LineInv(c)' /\ AnswerInv(c)'
    BY <1>2, <2>1, <2>3, LineFrame, AnswerFrame DEF AInv
  <2> QED BY <1>1, <1>2, <1>3, <1>5, <2>1, <2>3, <2>4, OneClient
<1> QED BY <1>6, <1>7 DEF Client
\* The child listens, runs a command for a thread, or ends.
LEMMA ChildAnswers ==
    ASSUME IInv, AInv, NEW c \in Clients, Child(c)
    PROVE  AInv'
<1>1. UNCHANGED <<tpc, i, idx, buff, cmds, out, res, tosrv, tocl, asked, cut, mixed, strtokAt>>
  BY DEF Child, Listen, RunCommand, ChildEnds, threads, streams, users, history
<1>2. \A t : Now(t)' = Now(t)
  BY <1>1 DEF Now
<1>3. conn \in [Clients -> [st : Connections, cmd : Commands \cup {None}]] /\ kidq \in [Clients -> Seq(Waiting)]
  BY DEF IInv, ChildInv, Waiting
<1>4. \A d \in Clients : \A k \in 1 .. Len(kidq[d]) : kidq[d][k].thread \in Clients
  <2> SUFFICES ASSUME NEW d \in Clients, NEW k \in 1 .. Len(kidq[d])
               PROVE  kidq[d][k].thread \in Clients
    OBVIOUS
  <2>1. kidq[d] \in Seq(Waiting)
    BY <1>3
  <2>2. kidq[d][k] \in Waiting
    BY <2>1
  <2> QED BY <2>2 DEF Waiting
<1>5. CASE Listen(c)
  <2>1. kidq' = kidq /\ conn' = conn
    BY <1>5 DEF Listen
  <2>2. \A d \in Clients : Untouched(d)
    BY <1>1, <2>1 DEF Untouched
  <2>3. KidInv'
    BY <1>1, <2>1, KidFrame DEF AInv
  <2>4. WorkInv(c)' /\ LineInv(c)' /\ AnswerInv(c)'
    BY <1>1, <2>2, WorkFrame, LineFrame, AnswerFrame DEF AInv
  <2> QED BY <1>1, <2>2, <2>3, <2>4, OneClient
<1>6. CASE RunCommand(c)
  <2>1. kidq[c] \in Seq(Waiting) /\ kidq[c] # <<>> /\ kidq' = [kidq EXCEPT ![c] = Tail(@)]
    BY <1>3, <1>6 DEF RunCommand
  <2>2. PICK r : r = Tail(kidq[c])
    OBVIOUS
  <2>3. PICK q : q = Head(kidq[c])
    OBVIOUS
  <2>4. /\ q = kidq[c][1] /\ 1 \in 1 .. Len(kidq[c]) /\ Len(r) = Len(kidq[c]) - 1 /\ Len(r) \in Nat
        /\ \A k \in 1 .. Len(r) : r[k] = kidq[c][k + 1] /\ k + 1 \in 1 .. Len(kidq[c])
    BY <2>1, <2>2, <2>3, HeadTailProperties
  <2>5. PICK t : t = q.thread
    OBVIOUS
  <2>6. t \in Clients
    BY <1>4, <2>4, <2>5
  <2>7. conn' = [conn EXCEPT ![t] = [st |-> IF q.cmd \in Silent THEN "empty" ELSE "printed", cmd |-> q.cmd]]
    BY <1>6, <2>3, <2>5 DEF RunCommand
  <2>8. /\ conn'[t] = [st |-> IF q.cmd \in Silent THEN "empty" ELSE "printed", cmd |-> q.cmd]
        /\ \A d \in Clients : d # t => conn'[d] = conn[d]
    BY <1>3, <2>6, <2>7
  <2>9. /\ tpc[t] \in Sending /\ (t \notin mixed => q.cmd = Now(t).cmd)
        /\ \A e \in Clients : \A h \in 1 .. Len(kidq[e]) : kidq[e][h].thread = t => e = c /\ h = 1
    BY <2>4, <2>5 DEF AInv, KidInv
  <2>10. kidq'[c] = r /\ \A d \in Clients : d # c => kidq'[d] = kidq[d]
    BY <1>3, <2>1, <2>2
  <2>11. KidInv'
    <3>1. \A d \in Clients : \A k \in 1 .. Len(kidq'[d]) :
              \E h \in 1 .. Len(kidq[d]) : kidq'[d][k] = kidq[d][h] /\ h = (IF d = c THEN k + 1 ELSE k)
      BY <2>4, <2>10
    <3> SUFFICES ASSUME NEW d \in Clients, NEW k \in 1 .. Len(kidq'[d])
                 PROVE  /\ tpc[kidq'[d][k].thread] \in Sending /\ conn'[kidq'[d][k].thread].st = "sent"
                        /\ kidq'[d][k].thread \notin mixed => kidq'[d][k].cmd = Now(kidq'[d][k].thread).cmd
                        /\ \A e \in Clients : \A h \in 1 .. Len(kidq'[e]) :
                               kidq'[e][h].thread = kidq'[d][k].thread => e = d /\ h = k
      BY <1>1, <1>2 DEF KidInv
    <3>2. PICK h \in 1 .. Len(kidq[d]) : kidq'[d][k] = kidq[d][h] /\ h = (IF d = c THEN k + 1 ELSE k)
      BY <3>1
    <3>3. PICK u : u = kidq[d][h].thread
      OBVIOUS
    <3>4. /\ tpc[u] \in Sending /\ conn[u].st = "sent" /\ (u \notin mixed => kidq[d][h].cmd = Now(u).cmd)
          /\ \A e \in Clients : \A m \in 1 .. Len(kidq[e]) : kidq[e][m].thread = u => e = d /\ m = h
      BY <3>3 DEF AInv, KidInv
    <3>5. u # t
      BY <2>9, <3>2, <3>3
    <3>6. conn'[u] = conn[u]
      BY <1>4, <2>8, <3>3, <3>5
    <3>7. ASSUME NEW e \in Clients, NEW m \in 1 .. Len(kidq'[e]), kidq'[e][m].thread = u
          PROVE  e = d /\ m = k
      <4>1. PICK n \in 1 .. Len(kidq[e]) : kidq'[e][m] = kidq[e][n] /\ n = (IF e = c THEN m + 1 ELSE m)
        BY <3>1
      <4>2. e = d /\ n = h
        BY <3>4, <3>7, <4>1
      <4> QED BY <3>2, <4>1, <4>2
    <3> QED BY <3>2, <3>3, <3>4, <3>6, <3>7
  <2>12. \A d \in Clients : d # t => Untouched(d)
    BY <1>1, <2>8 DEF Untouched
  <2>13. WorkInv(t)'
    <3>1. WorkInv(t)
      BY <2>6 DEF AInv
    <3>2. ASSUME t \notin mixed
          PROVE  OwnWork(t)'
      <4>1. OwnWork(t)
        BY <3>1, <3>2 DEF WorkInv
      <4>2. conn'[t].st = "printed" => conn'[t].cmd = Now(t).cmd /\ Now(t).cmd \notin Silent
        BY <2>8, <2>9, <3>2
      <4>3. ParseAlone(t)' <=> ParseAlone(t)
        BY <1>1 DEF ParseAlone
      <4> QED BY <1>1, <1>2, <4>1, <4>2, <4>3 DEF OwnWork
    <3> QED BY <1>1, <3>1, <3>2 DEF WorkInv
  <2>14. LineInv(t)' /\ AnswerInv(t)'
    <3>1. PortOnly(t)' = PortOnly(t)
      BY DEF PortOnly
    <3> QED BY <1>1, <2>6, <3>1 DEF AInv, LineInv, AnswerInv
  <2> QED BY <1>1, <2>6, <2>11, <2>12, <2>13, <2>14, OneClient
<1>7. CASE ChildEnds(c)
  <2>1. /\ kidq' = [kidq EXCEPT ![c] = <<>>]
        /\ conn' = [t \in Clients |-> IF \E k \in DOMAIN kidq[c] : kidq[c][k].thread = t
                                      THEN [conn[t] EXCEPT !.st = "lost"] ELSE conn[t]]
    BY <1>7 DEF ChildEnds
  <2>2. \A t \in Clients : conn'[t] = conn[t] \/ conn'[t].st # "printed"
    <3> SUFFICES ASSUME NEW t \in Clients, conn'[t] = [conn[t] EXCEPT !.st = "lost"]
                 PROVE  conn'[t].st # "printed"
      BY <2>1
    <3> QED BY <1>3
  <2>3. \A d \in Clients : Untouched(d)
    BY <1>1, <2>2 DEF Untouched
  <2>4. /\ kidq'[c] = <<>> /\ \A d \in Clients : d # c => kidq'[d] = kidq[d]
        /\ DOMAIN kidq[c] = 1 .. Len(kidq[c]) /\ Len(kidq'[c]) = 0
    BY <1>3, <2>1
  <2>5. KidInv'
    <3>1. \A d \in Clients : \A k \in 1 .. Len(kidq'[d]) : d # c
      BY <2>4
    <3> SUFFICES ASSUME NEW d \in Clients, d # c, NEW k \in 1 .. Len(kidq[d])
                 PROVE  /\ tpc[kidq[d][k].thread] \in Sending /\ conn'[kidq[d][k].thread].st = "sent"
                        /\ kidq[d][k].thread \notin mixed => kidq[d][k].cmd = Now(kidq[d][k].thread).cmd
                        /\ \A e \in Clients : \A h \in 1 .. Len(kidq[e]) :
                               kidq[e][h].thread = kidq[d][k].thread => e = d /\ h = k
      BY <1>1, <1>2, <2>4, <3>1 DEF KidInv
    <3>2. PICK u : u = kidq[d][k].thread
      OBVIOUS
    <3>3. /\ tpc[u] \in Sending /\ conn[u].st = "sent" /\ (u \notin mixed => kidq[d][k].cmd = Now(u).cmd)
          /\ \A e \in Clients : \A m \in 1 .. Len(kidq[e]) : kidq[e][m].thread = u => e = d /\ m = k
      BY <3>2 DEF AInv, KidInv
    <3>4. conn'[u] = conn[u]
      BY <1>4, <2>1, <2>4, <3>2, <3>3
    <3> QED BY <3>2, <3>3, <3>4
  <2>6. WorkInv(c)' /\ LineInv(c)' /\ AnswerInv(c)'
    BY <1>1, <2>3, WorkFrame, LineFrame, AnswerFrame DEF AInv
  <2> QED BY <1>1, <2>3, <2>5, <2>6, OneClient
<1> QED BY <1>5, <1>6, <1>7 DEF Child
-----------------------------------------------------------------------------
(* A thread keeps the answers right.                                       *)

\* It registers its client, or ends.
LEMMA RegisterAnswers ==
    ASSUME IInv, AInv, NEW c \in Clients, Scan(c) \/ TakeSlot(c) \/ ReadNoPort(c) \/ ReadEnd(c)
    PROVE  AInv'
<1>1. UNCHANGED <<buff, cmds, out, res, conn, kidq, tosrv, tocl, asked, cut, mixed, strtokAt>>
  BY DEF Scan, TakeSlot, ReadNoPort, ReadEnd, children, streams, users, history
<1>2. tpc \in [Clients -> Threads] /\ DOMAIN i = Clients /\ idx \in [Clients -> {0} \cup Slots]
  BY DEF IInv, RegInv, ThreadInv, Works
<1>3. /\ \A d \in Clients : d # c => tpc'[d] = tpc[d] /\ i'[d] = i[d] /\ idx'[d] = idx[d]
      /\ \/ tpc[c] \in Early /\ tpc'[c] \in Early
         \/ /\ tpc[c] \in {"port", "read"} /\ tpc'[c] \in {"closed", "failed"}
            /\ tosrv[c] = <<>> /\ idx'[c] = idx[c]
  <2>1. CASE Scan(c)
    BY <1>2, <2>1 DEF Scan, At, Goto, Early
  <2>2. CASE TakeSlot(c)
    BY <1>2, <2>2 DEF TakeSlot, At, Goto, Early
  <2>3. CASE ReadNoPort(c) \/ ReadEnd(c)
    BY <1>2, <2>3 DEF ReadNoPort, ReadEnd, At, Goto
  <2> QED BY <2>1, <2>2, <2>3
<1>4. \A d \in Clients : d # c => Untouched(d)
  BY <1>1, <1>3 DEF Untouched, Early
<1>5. cmds[c] = <<>>
  BY <1>3 DEF AInv, WorkInv, Early
<1>6. tpc'[c] \notin Busy
  BY <1>3 DEF Early, Busy
<1>7. WorkInv(c)'
  BY <1>1, <1>5, <1>6, IdleWork
<1>8. LineInv(c)'
  <2>1. PortOnly(c)' = PortOnly(c)
    BY DEF PortOnly
  <2>2. \A l : <<l>> # <<>> /\ <<PortOnly(c), l>> # <<>>
    OBVIOUS
  <2> QED BY <1>1, <1>3, <1>6, <2>1, <2>2 DEF AInv, LineInv, Early
<1>9. AnswerInv(c)'
  <2>1. CASE tpc[c] \in Early
    <3>1. tocl[c] = <<>>
      BY <2>1 DEF IInv, FlowInv
    <3> QED BY <1>1, <3>1, NoAnswer
  <2>2. CASE idx'[c] = idx[c]
    BY <1>1, <2>2 DEF AInv, AnswerInv
  <2> QED BY <1>3, <2>1, <2>2
<1>10. KidInv'
  <2>1. tpc[c] \notin Sending
    BY <1>3 DEF Early, Sending
  <2> QED BY <1>1, <1>3, <2>1, KidFrame DEF AInv
<1> QED BY <1>1, <1>4, <1>7, <1>8, <1>9, <1>10, OneClient

\* It reads the port, and perhaps a part of the first line.
LEMMA ReadPortAnswers ==
    ASSUME IInv, AInv, NEW c \in Clients, ReadPort(c)
    PROVE  AInv'
<1>1. /\ tpc[c] = "port" /\ tosrv[c] # <<>> /\ tpc' = [tpc EXCEPT ![c] = "read"]
      /\ UNCHANGED <<i, idx, buff, cmds, out, res, conn, kidq, tocl, asked, mixed, strtokAt>>
  BY DEF ReadPort, At, Goto, users, children
<1>2. tpc \in [Clients -> Threads] /\ DOMAIN tosrv = Clients
  BY DEF IInv, RegInv, FlowInv
<1>3. \/ tosrv' = [tosrv EXCEPT ![c] = Tail(@)] /\ cut' = cut
      \/ cut' = cut \cup {c} /\ \E r \in Remains(tosrv[c][2]) : tosrv' = [tosrv EXCEPT ![c] = IF r = <<>> THEN <<>> ELSE <<r>>]
  BY DEF ReadPort
<1>4. \A d \in Clients : d # c => tpc'[d] = tpc[d] /\ tosrv'[d] = tosrv[d] /\ (d \in cut' <=> d \in cut)
  BY <1>1, <1>2, <1>3
<1>5. \A d \in Clients : d # c => Untouched(d)
  BY <1>1, <1>4 DEF Untouched
<1>6. tpc'[c] = "read" /\ tocl[c] = <<>> /\ cmds[c] = <<>>
  BY <1>1, <1>2 DEF AInv, WorkInv, IInv, FlowInv, Early
<1>7. WorkInv(c)'
  BY <1>1, <1>6, IdleWork DEF Busy
<1>8. LineInv(c)'
  <2>1. CASE c \in cut'
    BY <2>1 DEF LineInv
  <2>2. CASE c \notin cut'
    <3>1. tosrv' = [tosrv EXCEPT ![c] = Tail(@)] /\ c \notin cut
      BY <1>3, <2>2
    <3>2. tosrv'[c] = Tail(tosrv[c])
      BY <1>2, <3>1
    <3>3. PICK p : p = PortOnly(c)
      OBVIOUS
    <3>4. tosrv[c] = <<p>> \/ \E l \in Seq(Stage) : tosrv[c] = <<p, l>>
      BY <1>1, <3>3 DEF IInv, FlowInv, Early
    <3>5. \A l : tosrv[c] = <<p, l>> => l = asked[c]
      BY <1>1, <3>1, <3>3 DEF AInv, LineInv, Early
    <3>6. Tail(<<p>>) = <<>> /\ \A l : Tail(<<p, l>>) = <<l>>
      OBVIOUS
    <3>7. \A l, m : /\ <<l>> # <<>>
                    /\ <<m>> = <<l>> => m = l
      OBVIOUS
    <3>8. \A m : tosrv'[c] = <<m>> => m = asked[c]
      <4>1. CASE tosrv[c] = <<p>>
        <5>1. tosrv'[c] = <<>>
          BY <3>2, <3>6, <4>1
        <5> QED BY <3>7, <5>1
      <4>2. ASSUME NEW l \in Seq(Stage), tosrv[c] = <<p, l>>
            PROVE  <3>8!:
        <5>1. tosrv'[c] = <<l>> /\ l = asked[c]
          BY <3>2, <3>5, <3>6, <4>2
        <5> QED BY <3>7, <5>1
      <4> QED BY <3>4, <4>1, <4>2
    <3> QED BY <1>1, <1>6, <3>8 DEF LineInv, Early, Busy
  <2> QED BY <2>1, <2>2
<1>9. AnswerInv(c)'
  BY <1>1, <1>6, NoAnswer
<1>10. KidInv'
  BY <1>1, <1>4, KidFrame DEF AInv, Sending
<1> QED BY <1>1, <1>4, <1>5, <1>7, <1>8, <1>9, <1>10, OneClient

\* It reads a line.
LEMMA ReadLineAnswers ==
    ASSUME IInv, AInv, NEW c \in Clients, ReadLine(c)
    PROVE  AInv'
<1>1. /\ tpc[c] = "read" /\ tosrv[c] # <<>> /\ tosrv' = [tosrv EXCEPT ![c] = Tail(@)]
      /\ buff' = [buff EXCEPT ![c] = Head(tosrv[c])] /\ mixed' = mixed \ {c}
      /\ UNCHANGED <<i, idx, cmds, res, conn, kidq, tocl, asked, cut, strtokAt>>
  BY DEF ReadLine, At, users, children
<1>2. PICK l \in Seq(Stage) : tosrv[c] = <<l>> /\ tocl[c] = <<>>
  BY <1>1 DEF IInv, FlowInv, Early
<1>3. Head(<<l>>) = l /\ Tail(<<l>>) = <<>>
  OBVIOUS
<1>4. /\ tpc' = [tpc EXCEPT ![c] = IF l = NodesLine THEN "reply" ELSE "split"]
      /\ l = NodesLine => \E n : out' = [out EXCEPT ![c] = [Nothing EXCEPT !.err = "nodes", !.nodes = n]]
      /\ l # NodesLine => out' = [out EXCEPT ![c] = Nothing]
  BY <1>2, <1>3 DEF ReadLine, Goto
<1>5. /\ tpc \in [Clients -> Threads] /\ DOMAIN tosrv = Clients /\ buff \in [Clients -> Seq(Stage)]
      /\ out \in [Clients -> Output]
  BY DEF IInv, RegInv, FlowInv, ThreadInv, Works
<1>6. /\ \A d \in Clients : d # c => /\ tpc'[d] = tpc[d] /\ tosrv'[d] = tosrv[d] /\ buff'[d] = buff[d]
                                     /\ out'[d] = out[d] /\ (d \in mixed' <=> d \in mixed)
      /\ tosrv'[c] = <<>> /\ buff'[c] = l /\ c \notin mixed'
      /\ tpc'[c] = (IF l = NodesLine THEN "reply" ELSE "split")
  <2>1. \A d \in Clients : d # c => out'[d] = out[d]
    BY <1>4, <1>5
  <2> QED BY <1>1, <1>2, <1>3, <1>4, <1>5, <2>1
<1>7. \A d \in Clients : d # c => Untouched(d)
  BY <1>1, <1>6 DEF Untouched
<1>8. LineInv(c)'
  <2>1. c \notin cut => l = asked[c]
    BY <1>1, <1>2 DEF AInv, LineInv, Early
  <2>2. \A m : <<m>> # <<>>
    OBVIOUS
  <2>3. tpc'[c] \notin Early
    BY <1>6 DEF Early
  <2> QED BY <1>1, <1>6, <2>1, <2>2, <2>3 DEF LineInv
<1>9. WorkInv(c)'
  <2>1. cmds[c] = <<>> /\ Len(cmds'[c]) = 0
    BY <1>1 DEF AInv, WorkInv
  <2>2. CASE l = NodesLine
    <3>1. PICK n : out' = [out EXCEPT ![c] = [Nothing EXCEPT !.err = "nodes", !.nodes = n]]
      BY <1>4, <2>2
    <3>2. out'[c].err = "nodes"
      BY <1>5, <3>1 DEF Nothing
    <3>3. ErrorCause(out[c], buff[c])'
      BY <1>6, <2>2, <3>2 DEF ErrorCause
    <3> QED BY <1>6, <2>2, <3>3 DEF WorkInv, OwnWork, Early, Running, Sending
  <2>3. CASE l # NodesLine
    <3>1. out'[c] = Nothing
      BY <1>4, <1>5, <2>3
    <3>2. Len(Nothing.did) = 0 /\ Nothing.err = "none"
      BY DEF Nothing
    <3>3. Todo(c, idx[c], buff[c], cmds[c], out[c])'
      BY <1>6, <2>1, <2>3, <3>1, <3>2 DEF Todo
    <3> QED BY <1>1, <1>6, <2>1, <2>3, <3>1, <3>3 DEF WorkInv, OwnWork, Early, Running, Sending
  <2> QED BY <2>2, <2>3
<1>10. AnswerInv(c)'
  BY <1>1, <1>2, NoAnswer
<1>11. KidInv'
  <2>1. tpc[c] \notin Sending
    BY <1>1 DEF Sending
  <2> QED BY <1>1, <1>6, <2>1, KidFrame DEF AInv
<1> QED BY <1>1, <1>6, <1>7, <1>8, <1>9, <1>10, <1>11, OneClient
\* strtok gives it a token of some buffer: its own next one, if no other thread parses.
LEMMA TokenAnswers ==
    ASSUME IInv, AInv, NEW c \in Clients, NEW p \in Positions, TakeToken(c, p), tpc[c] \in {"split", "parse"},
           UNCHANGED <<i, idx, buff, out, res, conn, kidq, tosrv, tocl, asked, cut>>,
           mixed \subseteq mixed', \A d \in Clients : d # c /\ tpc[d] = "parse" => d \in mixed',
           c \notin mixed' => /\ p = [buf |-> c, tok |-> Len(cmds[c]) + 1] /\ Len(out[c].did) = 0
                              /\ \A d \in Clients : tpc[d] = "parse" => d = c
    PROVE  AInv'
<1>1. /\ tpc \in [Clients -> Threads] /\ DOMAIN cmds = Clients
  BY DEF IInv, RegInv, ThreadInv, Works
<1>2. /\ \A d \in Clients : d # c => tpc'[d] = tpc[d] /\ cmds'[d] = cmds[d]
      /\ tpc'[c] \in {"run", "exited", "parse"}
  BY <1>1 DEF TakeToken, Goto
<1>3. \A d \in Clients : d # c => Untouched(d)
  BY <1>2 DEF Untouched
<1>4. LineInv(c)'
  <2>1. PortOnly(c)' = PortOnly(c)
    BY DEF PortOnly
  <2>2. tpc[c] \notin Early /\ tpc'[c] \notin Early /\ tpc[c] \in Busy
    BY <1>2 DEF Early, Busy
  <2> QED BY <2>1, <2>2 DEF AInv, LineInv
<1>5. AnswerInv(c)'
  <2>1. tocl[c] = <<>>
    BY DEF IInv, FlowInv, Busy, Early
  <2> QED BY <2>1, NoAnswer
<1>6. KidInv'
  BY <1>2, KidFrame DEF AInv, Sending
<1>7. ASSUME c \notin mixed'
      PROVE  OwnWork(c)'
  <2>1. /\ p.buf = c /\ p.tok = Len(cmds[c]) + 1 /\ Len(out[c].did) = 0
        /\ \A d \in Clients : tpc[d] = "parse" => d = c
    BY <1>7
  <2>2. PICK line \in Seq(Stage) : line = buff[c]
    BY ThreadTypes
  <2>3. PICK todo : todo = cmds[c] /\ todo \in Seq([machine : Int \ {BadName}, text : Positions])
    BY ThreadTypes
  <2>4. Len(todo) \in Nat /\ Len(line) \in Nat /\ DOMAIN line = 1 .. Len(line)
    BY <2>2, <2>3
  <2>5. c \notin mixed
    BY <1>7
  <2>6. Todo(c, idx[c], line, todo, out[c])
    BY <2>2, <2>3, <2>5 DEF AInv, WorkInv, OwnWork
  <2>7. CASE p.tok \notin DOMAIN line
    <3>1. tpc'[c] = "run" /\ cmds' = cmds
      BY <1>1, <2>1, <2>2, <2>7 DEF TakeToken, Goto
    <3>2. Len(todo) >= Len(line)
      BY <2>1, <2>3, <2>4, <2>7
    <3>3. Len(todo) <= Len(line)
      <4>1. \A k \in 1 .. Len(todo) : 0 + k \in 1 .. Len(line)
        BY <2>1, <2>6 DEF Todo
      <4>2. Len(todo) # 0 => 0 + Len(todo) \in 1 .. Len(line)
        BY <2>4, <4>1
      <4> QED BY <2>4, <4>2
    <3>4. 0 + Len(todo) = Len(line)
      BY <2>4, <3>2, <3>3
    <3> QED BY <2>1, <2>2, <2>3, <2>6, <3>1, <3>4 DEF OwnWork, Running, Sending
  <2>8. CASE p.tok \in DOMAIN line /\ line[p.tok].machine = BadName
    <3>1. tpc'[c] = "exited"
      BY <1>1, <2>1, <2>2, <2>8 DEF TakeToken, Goto
    <3> QED BY <3>1 DEF OwnWork, Running, Sending
  <2>9. CASE p.tok \in DOMAIN line /\ line[p.tok].machine # BadName
    <3>1. /\ tpc'[c] = "parse" /\ strtokAt' = [p EXCEPT !.tok = @ + 1]
          /\ cmds' = [cmds EXCEPT ![c] = Append(@, [machine |-> line[p.tok].machine, text |-> p])]
      BY <1>1, <2>1, <2>2, <2>9 DEF TakeToken, Goto
    <3>2. PICK x : x = [machine |-> line[p.tok].machine, text |-> p]
      OBVIOUS
    <3>3. cmds'[c] = Append(todo, x)
      BY <1>1, <2>3, <3>1, <3>2
    <3>4. PICK new : new = Append(todo, x)
      OBVIOUS
    <3>5. /\ Len(new) = Len(todo) + 1 /\ new[Len(todo) + 1] = x
          /\ \A k \in 1 .. Len(todo) : new[k] = todo[k]
      BY <2>3, <3>4
    <3>6. Todo(c, idx[c], line, new, out[c])
      <4>1. ASSUME NEW k \in 1 .. Len(new)
            PROVE  /\ 0 + k \in 1 .. Len(line)
                   /\ new[k].machine = line[0 + k].machine
                   /\ new[k].text = [buf |-> c, tok |-> 0 + k]
        <5>1. CASE k \in 1 .. Len(todo)
          BY <2>1, <2>6, <3>5, <5>1 DEF Todo
        <5>2. CASE k = Len(todo) + 1
          <6>1. new[k] = x /\ k = p.tok /\ 0 + k = k
            BY <2>1, <2>3, <2>4, <3>5, <5>2
          <6>2. x.machine = line[k].machine /\ x.text = [buf |-> c, tok |-> k]
            BY <1>7, <2>3, <3>2, <5>2, <6>1
          <6> QED BY <2>4, <2>9, <6>1, <6>2
        <5> QED BY <2>4, <3>5, <5>1, <5>2
      <4> QED BY <2>1, <2>6, <4>1 DEF Todo
    <3>7. ParseAlone(c)'
      <4>1. strtokAt' = [buf |-> c, tok |-> Len(new) + 1]
        BY <1>7, <2>3, <3>1, <3>5
      <4> QED BY <1>2, <2>1, <3>3, <3>4, <4>1 DEF ParseAlone
    <3> QED BY <2>2, <3>1, <3>3, <3>4, <3>6, <3>7 DEF OwnWork, Running, Sending
  <2> QED BY <2>2, <2>7, <2>8, <2>9
<1>8. WorkInv(c)'
  BY <1>2, <1>7 DEF WorkInv, Early
<1> QED BY <1>2, <1>3, <1>4, <1>5, <1>6, <1>8, OneClient

\* It begins to split its line, or goes on.
LEMMA ParseAnswers ==
    ASSUME IInv, AInv, NEW c \in Clients, Split(c) \/ NextToken(c)
    PROVE  AInv'
<1>1. UNCHANGED <<i, idx, buff, out, res, conn, kidq, tosrv, tocl, asked, cut>>
  BY DEF Split, NextToken, streams, users, history, children
<1>2. CASE Split(c)
  <2>1. PICK p : p = [buf |-> c, tok |-> 1]
    OBVIOUS
  <2>2. p \in Positions /\ tpc[c] = "split" /\ TakeToken(c, p)
    BY <1>2, <2>1 DEF Split, At, Positions
  <2>3. /\ mixed \subseteq mixed' /\ \A d \in Clients : d # c /\ tpc[d] = "parse" => d \in mixed'
        /\ c \notin mixed' => \A d \in Clients : tpc[d] = "parse" => d = c
    BY <1>2 DEF Split
  <2>4. cmds[c] = <<>> /\ out[c] = Nothing
    BY <2>2 DEF AInv, WorkInv
  <2>5. Len(cmds[c]) + 1 = 1 /\ Len(out[c].did) = 0
    BY <2>4 DEF Nothing
  <2> QED BY <1>1, <2>1, <2>2, <2>3, <2>5, TokenAnswers
<1>3. CASE NextToken(c)
  <2>1. tpc[c] = "parse" /\ TakeToken(c, strtokAt) /\ mixed' = mixed
    BY <1>3 DEF NextToken, At, history
  <2>2. strtokAt \in Positions
    BY <2>1 DEF IInv, ThreadInv, Works, Positions
  <2>3. \A d \in Clients : tpc[d] = "parse" /\ d \notin mixed => ParseAlone(d)
    BY DEF AInv, WorkInv, OwnWork
  <2>4. \A d \in Clients : d # c /\ tpc[d] = "parse" => d \in mixed'
    BY <2>1, <2>3 DEF ParseAlone
  <2>5. c \notin mixed' => /\ strtokAt = [buf |-> c, tok |-> Len(cmds[c]) + 1] /\ Len(out[c].did) = 0
                           /\ \A d \in Clients : tpc[d] = "parse" => d = c
    BY <2>1, <2>3 DEF ParseAlone
  <2> QED BY <1>1, <2>1, <2>2, <2>4, <2>5, TokenAnswers
<1> QED BY <1>2, <1>3
\* The first of the stages left is the stage in work.
LEMMA HeadStage ==
    ASSUME IInv, AInv, NEW c \in Clients, c \notin mixed, tpc[c] \in Running, cmds[c] # <<>>
    PROVE  /\ Len(out[c].did) + 1 \in DOMAIN buff[c] /\ Now(c) \in Stage
           /\ Head(cmds[c]).machine = Now(c).machine /\ Now(c).machine # BadName
           /\ Text(Head(cmds[c])) = Now(c).cmd
<1>1. PICK line \in Seq(Stage) : line = buff[c]
  BY ThreadTypes
<1> DEFINE S == [machine : Int \ {BadName}, text : Positions]
<1>2. cmds[c] \in Seq(S)
  BY ThreadTypes
<1>3. Head(cmds[c]) \in S => Head(cmds[c]).machine # BadName
  OBVIOUS
<1> HIDE DEF S
<1>4. Head(cmds[c]) = cmds[c][1] /\ Head(cmds[c]) \in S /\ 1 \in 1 .. Len(cmds[c])
  BY <1>2, HeadTailProperties
<1>5. Todo(c, idx[c], line, cmds[c], out[c])
  BY <1>1 DEF AInv, WorkInv, OwnWork
<1>6. PICK x : x = Head(cmds[c])
  OBVIOUS
<1>7. PICK n : n = Len(out[c].did) + 1
  OBVIOUS
<1>8. n \in 1 .. Len(line) /\ x.machine = line[n].machine /\ x.text = [buf |-> c, tok |-> n]
  BY <1>4, <1>5, <1>6, <1>7 DEF Todo
<1>9. n \in DOMAIN line /\ line[n] \in Stage /\ Now(c) = line[n]
  BY <1>1, <1>7, <1>8 DEF Now
<1>10. Text(x) = line[n].cmd
  <2>1. x.text.buf = c /\ x.text.tok = n
    BY <1>8
  <2> QED BY <1>1, <1>9, <2>1 DEF Text
<1> QED BY <1>1, <1>3, <1>4, <1>6, <1>7, <1>8, <1>9, <1>10

\* It sends the stage to a child.
LEMMA SendAnswers ==
    ASSUME IInv, AInv, NEW c \in Clients, NEW s, NEW pc \in Sending, SendTo(c, s, pc),
           tpc[c] \in {"dial", "call"}, cmds[c] # <<>>,
           UNCHANGED <<i, idx, buff, cmds, out, res, tosrv, tocl, asked, cut, mixed, strtokAt>>,
           c \notin mixed => IF pc = "await" THEN Now(c).machine # Broadcast ELSE CastSoFar(res[c], Now(c), i[c])
    PROVE  AInv'
<1>1. CASE UNCHANGED <<kidq, conn, tpc>>
  <2>1. \A d \in Clients : Untouched(d)
    BY <1>1 DEF Untouched
  <2>2. WorkInv(c)' /\ LineInv(c)' /\ AnswerInv(c)'
    BY <2>1, WorkFrame, LineFrame, AnswerFrame DEF AInv
  <2>3. KidInv'
    BY <1>1, KidFrame DEF AInv
  <2> QED BY <1>1, <2>1, <2>2, <2>3, OneClient
<1>2. CASE ~UNCHANGED <<kidq, conn, tpc>>
  <2>1. PICK q : q = [thread |-> c, slot |-> s, cmd |-> Text(Head(cmds[c]))]
    OBVIOUS
  <2>2. /\ \E e \in Clients : kidq' = [kidq EXCEPT ![e] = Append(@, q)]
        /\ conn' = [conn EXCEPT ![c] = [st |-> "sent", cmd |-> None]]
        /\ tpc' = [tpc EXCEPT ![c] = pc]
    BY <1>2, <2>1 DEF SendTo, Goto
  <2>3. PICK e \in Clients : kidq' = [kidq EXCEPT ![e] = Append(@, q)]
    BY <2>2
  <2>4. /\ tpc \in [Clients -> Threads] /\ kidq \in [Clients -> Seq(Waiting)]
        /\ conn \in [Clients -> [st : Connections, cmd : Commands \cup {None}]]
    BY DEF IInv, RegInv, ChildInv, Waiting
  <2>5. /\ tpc'[c] = pc /\ conn'[c].st = "sent" /\ \A d \in Clients : d # c => tpc'[d] = tpc[d] /\ conn'[d] = conn[d]
    BY <2>2, <2>4
  <2>6. \A d \in Clients : d # c => Untouched(d)
    BY <2>5 DEF Untouched, Sending
  <2>7. \A t : Now(t)' = Now(t)
    BY DEF Now
  <2>8. LineInv(c)'
    <3>1. PortOnly(c)' = PortOnly(c)
      BY DEF PortOnly
    <3>2. tpc[c] \notin Early /\ tpc'[c] \notin Early /\ tpc[c] \in Busy
      BY <2>5 DEF Early, Busy, Sending
    <3> QED BY <3>1, <3>2 DEF AInv, LineInv
  <2>9. AnswerInv(c)'
    BY DEF AInv, AnswerInv
  <2>10. WorkInv(c)'
    <3>1. ASSUME c \notin mixed
          PROVE  OwnWork(c)'
      <4>1. OwnWork(c)
        BY <3>1 DEF AInv, WorkInv
      <4>2. /\ Todo(c, idx[c], buff[c], cmds[c], out[c]) /\ Len(out[c].did) + Len(cmds[c]) = Len(buff[c])
        BY <4>1 DEF OwnWork, Running
      <4>3. /\ tpc'[c] = "await" => Now(c).machine # Broadcast
            /\ tpc'[c] = "gather" => CastSoFar(res[c], Now(c), i[c])
            /\ tpc'[c] \in Sending /\ tpc'[c] # "reply" /\ tpc'[c] # "parse" /\ conn'[c].st # "printed"
        BY <2>5, <3>1 DEF Sending
      <4> QED BY <2>7, <4>2, <4>3 DEF OwnWork, Sending
    <3>2. tpc'[c] \notin Early \cup {"read", "split"}
      BY <2>5 DEF Early, Sending
    <3> QED BY <3>1, <3>2 DEF WorkInv
  <2>11. KidInv'
    <3>1. PICK old \in Seq(Waiting) : old = kidq[e]
      BY <2>4
    <3>2. PICK new : new = Append(old, q)
      OBVIOUS
    <3>3. /\ Len(old) \in Nat /\ Len(new) = Len(old) + 1 /\ new[Len(old) + 1] = q
          /\ \A k \in 1 .. Len(old) : new[k] = old[k]
      BY <3>1, <3>2
    <3>4. kidq'[e] = new /\ \A d \in Clients : d # e => kidq'[d] = kidq[d]
      BY <2>3, <2>4, <3>1, <3>2
    <3>5. \A d \in Clients : \A k \in 1 .. Len(kidq'[d]) :
              \/ k \in 1 .. Len(kidq[d]) /\ kidq'[d][k] = kidq[d][k]
              \/ d = e /\ k = Len(old) + 1 /\ kidq'[d][k] = q
      BY <3>1, <3>3, <3>4
    <3>6. \A d \in Clients : \A k \in 1 .. Len(kidq[d]) : kidq[d][k].thread \in Clients \ {c}
      <4> SUFFICES ASSUME NEW d \in Clients, NEW k \in 1 .. Len(kidq[d])
                   PROVE  kidq[d][k].thread \in Clients \ {c}
        OBVIOUS
      <4>1. kidq[d] \in Seq(Waiting)
        BY <2>4
      <4>2. kidq[d][k] \in Waiting
        BY <4>1
      <4>3. tpc[kidq[d][k].thread] \in Sending
        BY DEF AInv, KidInv
      <4> QED BY <4>2, <4>3 DEF Waiting, Sending
    <3>7. q.thread = c /\ (c \notin mixed => q.cmd = Now(c).cmd)
      BY <2>1, HeadStage DEF Running
    <3> SUFFICES ASSUME NEW d \in Clients, NEW k \in 1 .. Len(kidq'[d])
                 PROVE  /\ tpc'[kidq'[d][k].thread] \in Sending /\ conn'[kidq'[d][k].thread].st = "sent"
                        /\ kidq'[d][k].thread \notin mixed => kidq'[d][k].cmd = Now(kidq'[d][k].thread).cmd
                        /\ \A f \in Clients : \A h \in 1 .. Len(kidq'[f]) :
                               kidq'[f][h].thread = kidq'[d][k].thread => f = d /\ h = k
      BY <2>7 DEF KidInv
    <3>8. CASE k \in 1 .. Len(kidq[d]) /\ kidq'[d][k] = kidq[d][k]
      <4>1. PICK u \in Clients \ {c} : u = kidq[d][k].thread
        BY <3>6, <3>8
      <4>2. /\ tpc[u] \in Sending /\ conn[u].st = "sent" /\ (u \notin mixed => kidq[d][k].cmd = Now(u).cmd)
            /\ \A f \in Clients : \A m \in 1 .. Len(kidq[f]) : kidq[f][m].thread = u => f = d /\ m = k
        BY <3>8, <4>1 DEF AInv, KidInv
      <4>3. ASSUME NEW f \in Clients, NEW h \in 1 .. Len(kidq'[f]), kidq'[f][h].thread = u
            PROVE  f = d /\ h = k
        BY <3>5, <3>7, <4>1, <4>2, <4>3
      <4> QED BY <2>5, <3>8, <4>1, <4>2, <4>3
    <3>9. CASE d = e /\ k = Len(old) + 1 /\ kidq'[d][k] = q
      <4>1. ASSUME NEW f \in Clients, NEW h \in 1 .. Len(kidq'[f]), kidq'[f][h].thread = c
            PROVE  f = d /\ h = k
        BY <3>5, <3>6, <3>9, <4>1
      <4> QED BY <2>5, <3>7, <3>9, <4>1
    <3> QED BY <3>5, <3>8, <3>9
  <2> QED BY <2>6, <2>8, <2>9, <2>10, <2>11, OneClient
<1> QED BY <1>1, <1>2
\* It goes on with its line, and changes nothing of others.
LEMMA GoOn ==
    ASSUME IInv, AInv, NEW c \in Clients, tpc[c] \in Busy, tpc'[c] \in Running \cup {"reply"},
           tpc[c] \notin Sending \/ conn[c].st # "sent",
           UNCHANGED <<buff, idx, kidq, tosrv, tocl, asked, cut, mixed, strtokAt>>,
           \A d \in Clients : d # c => /\ tpc'[d] = tpc[d] /\ cmds'[d] = cmds[d] /\ out'[d] = out[d]
                                       /\ res'[d] = res[d] /\ i'[d] = i[d] /\ conn'[d] = conn[d],
           c \notin mixed /\ OwnWork(c) => OwnWork(c)'
    PROVE  AInv'
<1>1. \A d \in Clients : d # c => Untouched(d)
  BY DEF Untouched, Running
<1>2. LineInv(c)'
  <2>1. PortOnly(c)' = PortOnly(c)
    BY DEF PortOnly
  <2>2. tpc[c] \notin Early /\ tpc'[c] \notin Early
    BY DEF Early, Busy, Running
  <2> QED BY <2>1, <2>2 DEF AInv, LineInv
<1>3. AnswerInv(c)'
  BY DEF AInv, AnswerInv
<1>4. WorkInv(c)'
  <2>1. tpc'[c] \notin Early \cup {"read", "split"}
    BY DEF Early, Running
  <2> QED BY <2>1 DEF AInv, WorkInv
<1>5. KidInv'
  BY KidFrame DEF AInv
<1> QED BY <1>1, <1>2, <1>3, <1>4, <1>5, OneClient

\* It runs a stage on the machine the stage names.
LEMMA RunNamedAnswers ==
    ASSUME IInv, AInv, NEW c \in Clients, RunNamed(c)
    PROVE  AInv'
<1>1. /\ tpc[c] = "run" /\ cmds[c] # <<>> /\ Head(cmds[c]).machine # Broadcast
      /\ UNCHANGED <<i, idx, buff, cmds, res, conn, kidq, tosrv, tocl, asked, cut, mixed, strtokAt>>
  BY DEF RunNamed, At, streams, users, children
<1>2. PICK s : s = SlotOf(c)
  OBVIOUS
<1>3. CASE Goto(c, "dial") /\ UNCHANGED out
  <2>1. tpc'[c] = "dial" /\ \A d \in Clients : d # c => tpc'[d] = tpc[d]
    BY <1>3 DEF Goto, IInv, RegInv
  <2>2. ASSUME c \notin mixed, OwnWork(c)
        PROVE  OwnWork(c)'
    <3>1. Now(c).machine # Broadcast
      BY <1>1, <2>2, HeadStage DEF Running
    <3>2. Now(c)' = Now(c)
      BY <1>1, <1>3 DEF Now
    <3> QED BY <1>1, <1>3, <2>1, <2>2, <3>1, <3>2 DEF OwnWork, Running, Sending
  <2> QED BY <1>1, <1>3, <2>1, <2>2, GoOn DEF Busy, Running, Sending
<1>4. ASSUME NEW error \in {"invalid", "absent"}, error = "invalid" => s \notin Slots,
             out' = [out EXCEPT ![c] = [Nothing EXCEPT !.err = error]], Goto(c, "reply")
      PROVE  AInv'
  <2>1. /\ tpc \in [Clients -> Threads] /\ out \in [Clients -> Output]
    BY DEF IInv, RegInv, ThreadInv, Works
  <2>2. /\ tpc'[c] = "reply" /\ out'[c].err = error
        /\ \A d \in Clients : d # c => tpc'[d] = tpc[d] /\ out'[d] = out[d]
    BY <1>4, <2>1 DEF Goto, Nothing
  <2>3. ASSUME c \notin mixed, OwnWork(c)
        PROVE  OwnWork(c)'
    <3>1. buff[c] # NodesLine
      BY <1>1, <2>3 DEF OwnWork, Running, Todo
    <3>2. ASSUME s \notin Slots
          PROVE  \E j \in DOMAIN buff[c] : buff[c][j].machine > Len(IpOf)
      <4>1. PICK n : n = Len(out[c].did) + 1
        OBVIOUS
      <4>2. n \in DOMAIN buff[c] /\ Now(c) = buff[c][n] /\ Now(c) \in Stage /\ Head(cmds[c]).machine = Now(c).machine
            /\ Now(c).machine # BadName
        BY <1>1, <2>3, <4>1, HeadStage DEF Running, Now
      <4>3. idx[c] \in Slots
        BY <1>1 DEF IInv, RegInv, Unplaced, Early
      <4>4. Now(c).machine \notin Slots /\ Now(c).machine # Local
        BY <1>2, <3>2, <4>2, <4>3 DEF SlotOf
      <4>5. Now(c).machine \in Nat /\ Now(c).machine # 0
        BY <1>1, <4>2, <4>4 DEF Stage, Broadcast
      <4>6. Now(c).machine > Len(IpOf)
        BY <4>4, <4>5, SlotFacts
      <4> QED BY <4>2, <4>6
    <3>3. ErrorCause(out[c], buff[c])'
      BY <1>1, <1>4, <2>2, <3>1, <3>2 DEF ErrorCause
    <3> QED BY <2>2, <3>3 DEF OwnWork, Running, Sending
  <2> QED BY <1>1, <1>4, <2>2, <2>3, GoOn DEF Busy, Sending
<1>5. \/ Goto(c, "dial") /\ UNCHANGED out
      \/ \E error \in {"invalid", "absent"} :
             /\ error = "invalid" => s \notin Slots
             /\ out' = [out EXCEPT ![c] = [Nothing EXCEPT !.err = error]] /\ Goto(c, "reply")
  BY <1>2 DEF RunNamed
<1> QED BY <1>3, <1>4, <1>5

\* It connects to the machine of the slot it has looked at.
LEMMA DialAnswers ==
    ASSUME IInv, AInv, NEW c \in Clients, Dial(c)
    PROVE  AInv'
<1>1. tpc[c] \in {"dial", "call"} /\ UNCHANGED <<i, idx, buff, cmds, out, res, tosrv, tocl,
                                                 asked, cut, mixed, strtokAt>>
  BY DEF Dial, At, streams, users
<1>2. cmds[c] # <<>>
  BY <1>1 DEF IInv, ThreadInv, Works
<1>3. c \notin mixed => OwnWork(c)
  BY DEF AInv, WorkInv
<1>4. CASE tpc[c] = "dial"
  <2>1. SendTo(c, SlotOf(c), "await")
    BY <1>4 DEF Dial, At
  <2>2. c \notin mixed => Now(c).machine # Broadcast
    BY <1>3, <1>4 DEF OwnWork
  <2> QED BY <1>1, <1>2, <2>1, <2>2, SendAnswers DEF Sending
<1>5. CASE tpc[c] = "call"
  <2>1. SendTo(c, i[c], "gather")
    BY <1>5 DEF Dial, At
  <2>2. c \notin mixed => CastSoFar(res[c], Now(c), i[c])
    BY <1>3, <1>5 DEF OwnWork
  <2> QED BY <1>1, <1>2, <2>1, <2>2, SendAnswers DEF Sending
<1> QED BY <1>1, <1>4, <1>5

\* It records what a stage has printed.
LEMMA StageAnswers ==
    ASSUME IInv, AInv, NEW c \in Clients, NEW runs \in Runs, StageDone(c, runs), cmds[c] # <<>>,
           tpc[c] = "cast" \/ (tpc[c] = "await" /\ conn[c].st # "sent"),
           UNCHANGED <<buff, idx, res, i, kidq, tosrv, tocl, asked, cut, mixed, strtokAt>>,
           \A d \in Clients : d # c => conn'[d] = conn[d],
           c \notin mixed => Fits(idx[c], runs, Now(c))
    PROVE  AInv'
<1>1. /\ out' = [out EXCEPT ![c].did = Append(@, runs)] /\ cmds' = [cmds EXCEPT ![c] = Tail(@)]
      /\ tpc' = [tpc EXCEPT ![c] = "run"]
  BY DEF StageDone, Goto
<1>2. tpc \in [Clients -> Threads] /\ DOMAIN cmds = Clients /\ out \in [Clients -> Output]
  BY DEF IInv, RegInv, ThreadInv, Works
<1>3. /\ tpc'[c] = "run" /\ cmds'[c] = Tail(cmds[c]) /\ out'[c] = [out[c] EXCEPT !.did = Append(@, runs)]
      /\ \A d \in Clients : d # c => tpc'[d] = tpc[d] /\ cmds'[d] = cmds[d] /\ out'[d] = out[d]
  BY <1>1, <1>2
<1>4. ASSUME c \notin mixed, OwnWork(c)
      PROVE  OwnWork(c)'
  <2>1. /\ Todo(c, idx[c], buff[c], cmds[c], out[c]) /\ Len(out[c].did) + Len(cmds[c]) = Len(buff[c])
    BY <1>4 DEF OwnWork, Running
  <2>2. Fits(idx[c], runs, buff[c][Len(out[c].did) + 1])
    BY <1>4 DEF Now
  <2>3. PICK u : u = [out[c] EXCEPT !.did = Append(@, runs)]
    OBVIOUS
  <2>4. /\ Todo(c, idx[c], buff[c], Tail(cmds[c]), u)
        /\ Len(u.did) + Len(Tail(cmds[c])) = Len(out[c].did) + Len(cmds[c])
    <3>1. PICK S : S = [machine : Int \ {BadName}, text : Positions]
      OBVIOUS
    <3>2. cmds[c] \in Seq(S) /\ out[c].did \in Seq(Runs)
      BY <3>1, ThreadTypes
    <3>3. PICK todo \in Seq(S) : todo = cmds[c]
      BY <3>2
    <3>4. PICK did \in Seq(Runs) : did = out[c].did
      BY <3>2
    <3>5. PICK rest : rest = Tail(todo)
      OBVIOUS
    <3>6. u.did = Append(did, runs) /\ u.err = out[c].err
      BY <2>3, <3>4, ThreadTypes DEF Output
    <3>7. PICK line : line = buff[c]
      OBVIOUS
    <3>8. /\ line # NodesLine /\ u.err = "none" /\ Fits(idx[c], runs, line[Len(did) + 1])
          /\ \A k \in 1 .. Len(todo) :
               /\ Len(did) + k \in 1 .. Len(line)
               /\ todo[k].machine = line[Len(did) + k].machine
               /\ todo[k].text = [buf |-> c, tok |-> Len(did) + k]
          /\ \A j \in 1 .. Len(did) : j \in 1 .. Len(line) /\ Fits(idx[c], did[j], line[j])
      BY <2>1, <2>2, <3>3, <3>4, <3>6, <3>7 DEF Todo
    <3>9. /\ Len(rest) = Len(todo) - 1 /\ Len(rest) \in Nat /\ 1 \in 1 .. Len(todo)
          /\ \A k \in 1 .. Len(rest) : rest[k] = todo[k + 1] /\ k + 1 \in 1 .. Len(todo)
      BY <3>3, <3>5, HeadTailProperties
    <3>10. PICK more : more = Append(did, runs)
      OBVIOUS
    <3>11. /\ Len(did) \in Nat /\ Len(more) = Len(did) + 1 /\ more[Len(did) + 1] = runs
           /\ \A j \in 1 .. Len(did) : more[j] = did[j]
      BY <3>4, <3>10
    <3>12. ASSUME NEW k \in 1 .. Len(rest)
           PROVE  /\ Len(more) + k \in 1 .. Len(line)
                  /\ rest[k].machine = line[Len(more) + k].machine
                  /\ rest[k].text = [buf |-> c, tok |-> Len(more) + k]
      <4>1. Len(more) + k = Len(did) + (k + 1)
        BY <3>9, <3>11
      <4> QED BY <3>8, <3>9, <4>1
    <3>13. ASSUME NEW j \in 1 .. Len(more)
           PROVE  j \in 1 .. Len(line) /\ Fits(idx[c], more[j], line[j])
      <4>1. CASE j \in 1 .. Len(did)
        BY <3>8, <3>11, <4>1
      <4>2. CASE j = Len(did) + 1
        BY <3>8, <3>9, <3>11, <4>2
      <4> QED BY <3>11, <4>1, <4>2
    <3>14. Todo(c, idx[c], line, rest, u)
      BY <3>6, <3>8, <3>10, <3>12, <3>13 DEF Todo
    <3>15. Len(more) + Len(rest) = Len(did) + Len(todo)
      <4>1. Len(todo) \in Nat
        BY <3>3
      <4> QED BY <3>9, <3>11, <4>1
    <3> QED BY <3>3, <3>4, <3>5, <3>6, <3>7, <3>10, <3>14, <3>15
  <2> QED BY <1>3, <2>1, <2>3, <2>4 DEF OwnWork, Sending
<1> QED BY <1>3, <1>4, GoOn DEF Busy, Running, Sending

\* It gives up a line when a child has gone.
LEMMA BrokenAnswers ==
    ASSUME IInv, AInv, NEW c \in Clients, Broken(c), tpc[c] \in Sending, conn' = [conn EXCEPT ![c] = NoConn],
           UNCHANGED <<buff, cmds, idx, res, i, kidq, tosrv, tocl, asked, cut, mixed, strtokAt>>
    PROVE  AInv'
<1>1. /\ conn[c].st = "lost" /\ out' = [out EXCEPT ![c] = [Nothing EXCEPT !.err = "broken"]]
      /\ tpc' = [tpc EXCEPT ![c] = "reply"]
  BY DEF Broken, Goto
<1>2. tpc \in [Clients -> Threads] /\ out \in [Clients -> Output] /\ DOMAIN conn = Clients
  BY DEF IInv, RegInv, ThreadInv, Works, ChildInv
<1>3. /\ tpc'[c] = "reply" /\ out'[c].err = "broken"
      /\ \A d \in Clients : d # c => tpc'[d] = tpc[d] /\ out'[d] = out[d] /\ conn'[d] = conn[d]
  BY <1>1, <1>2 DEF Nothing
<1>4. ASSUME c \notin mixed, OwnWork(c)
      PROVE  OwnWork(c)'
  <2>1. buff[c] # NodesLine
    BY <1>4 DEF OwnWork, Running, Sending, Todo
  <2>2. ErrorCause(out[c], buff[c])'
    BY <1>3, <2>1 DEF ErrorCause
  <2> QED BY <1>3, <2>2 DEF OwnWork, Running, Sending
<1> QED BY <1>1, <1>3, <1>4, GoOn DEF Busy, Running, Sending

\* It reads the answer of the machine a stage names.
LEMMA AwaitAnswers ==
    ASSUME IInv, AInv, NEW c \in Clients, Await(c)
    PROVE  AInv'
<1>1. /\ tpc[c] = "await" /\ conn' = [conn EXCEPT ![c] = NoConn] /\ conn[c].st \in {"printed", "empty", "lost"}
      /\ UNCHANGED <<buff, idx, res, i, kidq, tosrv, tocl, asked, cut, mixed, strtokAt>>
  BY DEF Await, At, streams, users, history, children
<1>2. cmds[c] # <<>> /\ SlotOf(c) \in Slots
  BY <1>1 DEF IInv, ThreadInv, Works
<1>3. \A d \in Clients : d # c => conn'[d] = conn[d]
  BY <1>1 DEF IInv, ChildInv
<1>4. CASE StageDone(c, Got(c, SlotOf(c)))
  <2>1. PICK s \in Slots : s = SlotOf(c)
    BY <1>2
  <2>2. PICK runs \in Runs : runs = Got(c, s)
    BY GotRuns DEF IInv
  <2>3. ASSUME c \notin mixed
        PROVE  Fits(idx[c], runs, Now(c))
    <3>1. CASE conn[c].st # "printed"
      <4>1. runs = <<>>
        BY <2>2, <3>1 DEF Got
      <4> QED BY <4>1 DEF Fits
    <3>2. CASE conn[c].st = "printed"
      <4>1. PICK x : x = [cmd |-> conn[c].cmd, at |-> s]
        OBVIOUS
      <4>2. runs = <<x>>
        BY <2>2, <3>2, <4>1 DEF Got
      <4>3. DOMAIN runs = {1} /\ runs[1] = x
        BY <4>2
      <4>4. conn[c].cmd = Now(c).cmd /\ Now(c).cmd \notin Silent /\ Now(c).machine # Broadcast
        BY <1>1, <2>3, <3>2 DEF AInv, WorkInv, OwnWork, Sending
      <4>5. Head(cmds[c]).machine = Now(c).machine
        BY <1>1, <1>2, <2>3, HeadStage DEF Running
      <4>6. s = IF Now(c).machine = Local THEN idx[c] ELSE Now(c).machine
        BY <2>1, <4>5 DEF SlotOf
      <4>7. x.cmd = Now(c).cmd /\ x.at = s
        BY <4>1, <4>4
      <4> QED BY <4>3, <4>4, <4>6, <4>7 DEF Fits
    <3> QED BY <3>1, <3>2
  <2> QED BY <1>1, <1>2, <1>3, <1>4, <2>1, <2>2, <2>3, StageAnswers
<1>5. CASE Broken(c) /\ UNCHANGED cmds
  BY <1>1, <1>5, BrokenAnswers DEF Sending
<1> QED BY <1>4, <1>5 DEF Await

\* It begins a stage of all machines.
LEMMA BroadcastAnswers ==
    ASSUME IInv, AInv, NEW c \in Clients, StartBroadcast(c)
    PROVE  AInv'
<1>1. /\ tpc[c] = "run" /\ cmds[c] # <<>> /\ Head(cmds[c]).machine = Broadcast
      /\ i' = [i EXCEPT ![c] = 1] /\ res' = [res EXCEPT ![c] = <<>>] /\ tpc' = [tpc EXCEPT ![c] = "cast"]
      /\ UNCHANGED <<buff, idx, cmds, out, conn, kidq, tosrv, tocl, asked, cut, mixed, strtokAt>>
  BY DEF StartBroadcast, At, Goto, streams, users, history, children
<1>2. tpc \in [Clients -> Threads] /\ res \in [Clients -> Runs] /\ DOMAIN i = Clients
  BY DEF IInv, RegInv, ThreadInv, Works
<1>3. /\ tpc'[c] = "cast" /\ res'[c] = <<>>
      /\ \A d \in Clients : d # c => tpc'[d] = tpc[d] /\ res'[d] = res[d] /\ i'[d] = i[d]
  BY <1>1, <1>2
<1>4. ASSUME c \notin mixed, OwnWork(c)
      PROVE  OwnWork(c)'
  <2>1. Now(c).machine = Broadcast /\ Now(c)' = Now(c)
    BY <1>1, <1>4, HeadStage DEF Running, Now
  <2>2. Len(res'[c]) = 0
    BY <1>3
  <2>3. CastSoFar(res[c], Now(c), i[c])'
    BY <2>1, <2>2 DEF CastSoFar
  <2> QED BY <1>1, <1>3, <1>4, <2>3 DEF OwnWork, Running, Sending
<1> QED BY <1>1, <1>3, <1>4, GoOn DEF Busy, Running, Sending

\* It looks at a slot of such a stage.
LEMMA CastAnswers ==
    ASSUME IInv, AInv, NEW c \in Clients, Cast(c)
    PROVE  AInv'
<1>1. /\ tpc[c] = "cast"
      /\ UNCHANGED <<idx, strtokAt, buff, res, conn, kidq, tosrv, tocl, asked, cut, mixed>>
  BY DEF Cast, At, streams, users, children
<1>2. /\ cmds[c] # <<>> /\ res[c] \in Runs /\ DOMAIN i = Clients /\ i[c] \in 1 .. Len(IpOf) + 1
  BY <1>1 DEF IInv, RegInv, ThreadInv, Works
<1>3. c \notin mixed => CastSoFar(res[c], Now(c), i[c])
  BY <1>1 DEF AInv, WorkInv, OwnWork
<1>4. CASE StageDone(c, res[c]) /\ UNCHANGED i
  <2>1. ASSUME c \notin mixed
        PROVE  Fits(idx[c], res[c], Now(c))
    <3>1. DOMAIN res[c] = 1 .. Len(res[c])
      BY <1>2 DEF Runs
    <3> QED BY <1>3, <2>1, <3>1 DEF CastSoFar, Fits
  <2> QED BY <1>1, <1>2, <1>4, <2>1, StageAnswers
<1>5. CASE i[c] \in Slots /\ i' = [i EXCEPT ![c] = @ + 1] /\ UNCHANGED <<tpc, cmds, out>>
  <2>1. i'[c] = i[c] + 1 /\ \A d \in Clients : d # c => i'[d] = i[d]
    BY <1>2, <1>5
  <2>2. ASSUME c \notin mixed, OwnWork(c)
        PROVE  OwnWork(c)'
    <3>1. Now(c)' = Now(c)
      BY <1>1, <1>5 DEF Now
    <3>2. CastSoFar(res[c], Now(c), i[c])'
      <4>1. \A r \in 1 .. Len(res[c]) : res[c][r].at < i[c] + 1
        <5> SUFFICES ASSUME NEW r \in 1 .. Len(res[c])
                     PROVE  res[c][r].at < i[c] + 1
          OBVIOUS
        <5>a. PICK R : R = [cmd : Commands, at : Slots]
          OBVIOUS
        <5>b. res[c] \in Seq(R)
          BY <1>2, <5>a DEF Runs
        <5>c. res[c][r] \in R
          BY <5>b
        <5>1. res[c][r] \in [cmd : Commands, at : Slots]
          BY <5>a, <5>c
        <5>2. res[c][r].at \in Int /\ i[c] \in Int
          BY <1>2, <5>1, SlotFacts
        <5>3. res[c][r].at < i[c]
          BY <1>3, <2>2 DEF CastSoFar
        <5> QED BY <5>2, <5>3
      <4> QED BY <1>1, <1>3, <2>1, <2>2, <3>1, <4>1 DEF CastSoFar
    <3> QED BY <1>1, <1>5, <2>2, <3>1, <3>2 DEF OwnWork, Running, Sending
  <2> QED BY <1>1, <1>5, <2>1, <2>2, GoOn DEF Busy, Running, Sending
<1>6. CASE Goto(c, "call") /\ UNCHANGED <<i, cmds, out>>
  <2>1. tpc'[c] = "call" /\ \A d \in Clients : d # c => tpc'[d] = tpc[d]
    BY <1>6 DEF Goto, IInv, RegInv
  <2>2. ASSUME c \notin mixed, OwnWork(c)
        PROVE  OwnWork(c)'
    <3>1. Now(c)' = Now(c)
      BY <1>1, <1>6 DEF Now
    <3> QED BY <1>1, <1>6, <2>1, <2>2, <3>1 DEF OwnWork, Running, Sending
  <2> QED BY <1>1, <1>6, <2>1, <2>2, GoOn DEF Busy, Running, Sending
<1> QED BY <1>4, <1>5, <1>6 DEF Cast

\* It gathers the answer of one machine of such a stage.
LEMMA GatherAnswers ==
    ASSUME IInv, AInv, NEW c \in Clients, Gather(c)
    PROVE  AInv'
<1>1. /\ tpc[c] = "gather" /\ conn' = [conn EXCEPT ![c] = NoConn] /\ conn[c].st \in {"printed", "empty", "lost"}
      /\ UNCHANGED <<idx, buff, cmds, kidq, tosrv, tocl, asked, cut, mixed, strtokAt>>
  BY DEF Gather, At, streams, users, history, children
<1>2. /\ i[c] \in Slots /\ DOMAIN i = Clients /\ tpc \in [Clients -> Threads] /\ res \in [Clients -> Runs]
  BY <1>1 DEF IInv, RegInv, ThreadInv, Works
<1>3. \A d \in Clients : d # c => conn'[d] = conn[d]
  BY <1>1 DEF IInv, ChildInv
<1>4. CASE /\ res' = [res EXCEPT ![c] = @ \o Got(c, i[c])] /\ i' = [i EXCEPT ![c] = @ + 1]
           /\ Goto(c, "cast") /\ UNCHANGED out
  <2>1. PICK s \in Slots : s = i[c]
    BY <1>2
  <2>2. PICK R : R = [cmd : Commands, at : Slots]
    OBVIOUS
  <2>3. PICK got \in Seq(R) : got = Got(c, s)
    BY <2>2, GotRuns DEF IInv, Runs
  <2>4. PICK old \in Seq(R) : old = res[c]
    BY <1>2, <2>2 DEF Runs
  <2>5. /\ tpc'[c] = "cast" /\ i'[c] = s + 1 /\ res'[c] = old \o got
        /\ \A d \in Clients : d # c => tpc'[d] = tpc[d] /\ i'[d] = i[d] /\ res'[d] = res[d]
    BY <1>2, <1>4, <2>1, <2>3, <2>4 DEF Goto
  <2>6. ASSUME c \notin mixed, OwnWork(c)
        PROVE  OwnWork(c)'
    <3>1. Now(c)' = Now(c)
      BY <1>1, <1>4 DEF Now
    <3>2. CastSoFar(old, Now(c), s)
      BY <1>1, <2>1, <2>4, <2>6 DEF OwnWork
    <3>3. \A r \in 1 .. Len(old) : old[r].at \in Int
      <4> SUFFICES ASSUME NEW r \in 1 .. Len(old)
                   PROVE  old[r].at \in Int
        OBVIOUS
      <4>1. old[r] \in R
        BY <2>4
      <4> QED BY <2>2, <4>1, SlotFacts
    <3>4. s \in Int /\ Len(old) \in Nat
      BY <2>4, SlotFacts
    <3>5. CastSoFar(old \o got, Now(c), s + 1)
      <4>1. CASE conn[c].st # "printed"
        <5>1. got = <<>>
          BY <2>3, <4>1 DEF Got
        <5>2. old \o got = old
          BY <2>4, <5>1
        <5>3. CastSoFar(old, Now(c), s + 1)
          BY <3>2, <3>3, <3>4 DEF CastSoFar
        <5> QED BY <5>2, <5>3
      <4>2. CASE conn[c].st = "printed"
        <5>1. PICK x : x = [cmd |-> conn[c].cmd, at |-> s]
          OBVIOUS
        <5>2. got = <<x>>
          BY <2>3, <4>2, <5>1 DEF Got
        <5>3. conn[c].cmd = Now(c).cmd /\ Now(c).cmd \notin Silent
          BY <1>1, <2>6, <4>2 DEF OwnWork, Sending
        <5>4. x.cmd = Now(c).cmd /\ x.at = s
          BY <5>1, <5>3
        <5>5. PICK new : new = old \o got
          OBVIOUS
        <5>6. /\ Len(new) = Len(old) + 1 /\ new[Len(old) + 1] = x
              /\ \A r \in 1 .. Len(old) : new[r] = old[r]
          <6>1. got \in Seq(R) /\ Len(got) = 1 /\ got[1] = x
            BY <5>2, <2>3
          <6>2. /\ Len(new) = Len(old) + Len(got)
                /\ \A r \in 1 .. Len(old) + Len(got) : new[r] = IF r <= Len(old) THEN old[r] ELSE got[r - Len(old)]
            BY <2>4, <5>5, <6>1, ConcatProperties
          <6>3. Len(old) + 1 \in 1 .. Len(old) + Len(got) /\ ~(Len(old) + 1 <= Len(old)) /\ Len(old) + 1 - Len(old) = 1
            BY <3>4, <6>1
          <6> QED BY <3>4, <6>1, <6>2, <6>3
        <5>7. ASSUME NEW r \in 1 .. Len(new)
              PROVE  /\ new[r].cmd = Now(c).cmd /\ new[r].at < s + 1
                     /\ r > 1 => new[r - 1].at < new[r].at
          <6>1. CASE r \in 1 .. Len(old)
            <7>1. old[r].cmd = Now(c).cmd /\ old[r].at < s /\ (r > 1 => old[r - 1].at < old[r].at)
              BY <3>2, <6>1 DEF CastSoFar
            <7>2. old[r].at < s + 1
              BY <3>3, <3>4, <6>1, <7>1
            <7>3. r > 1 => new[r - 1] = old[r - 1]
              BY <3>4, <5>6, <6>1
            <7> QED BY <5>6, <6>1, <7>1, <7>2, <7>3
          <6>2. CASE r = Len(old) + 1
            <7>1. new[r] = x /\ s < s + 1
              BY <3>4, <5>6, <6>2
            <7>2. r > 1 => r - 1 \in 1 .. Len(old) /\ r - 1 = Len(old)
              BY <3>4, <6>2
            <7>3. r > 1 => new[r - 1].at < s
              BY <3>2, <5>6, <7>2 DEF CastSoFar
            <7> QED BY <5>4, <7>1, <7>3
          <6> QED BY <3>4, <5>6, <6>1, <6>2
        <5> QED BY <3>2, <5>3, <5>5, <5>7 DEF CastSoFar
      <4> QED BY <4>1, <4>2
    <3>6. /\ Todo(c, idx[c], buff[c], cmds[c], out[c]) /\ Len(out[c].did) + Len(cmds[c]) = Len(buff[c])
      BY <1>1, <2>6 DEF OwnWork, Running
    <3> QED BY <1>1, <1>4, <2>5, <3>1, <3>5, <3>6 DEF OwnWork, Sending
  <2> QED BY <1>1, <1>3, <1>4, <2>5, <2>6, GoOn DEF Busy, Running, Sending
<1>5. CASE Broken(c) /\ UNCHANGED <<i, res>>
  BY <1>1, <1>5, BrokenAnswers DEF Sending
<1> QED BY <1>4, <1>5 DEF Gather

\* It answers its client.
LEMMA ReplyAnswers ==
    ASSUME IInv, AInv, NEW c \in Clients, Reply(c)
    PROVE  AInv'
<1>1. /\ tpc[c] = "reply" \/ (tpc[c] = "run" /\ cmds[c] = <<>>)
      /\ tpc' = [tpc EXCEPT ![c] = "read"]
      /\ tocl' = IF cpc[c] = "gone" THEN tocl ELSE [tocl EXCEPT ![c] = Append(@, out[c])]
      /\ out' = [out EXCEPT ![c] = Nothing] /\ cmds' = [cmds EXCEPT ![c] = <<>>]
      /\ i' = [i EXCEPT ![c] = 1] /\ res' = [res EXCEPT ![c] = <<>>]
      /\ UNCHANGED <<idx, buff, conn, kidq, tosrv, asked, cut, mixed, strtokAt>>
  BY DEF Reply, At, Goto, users, history, children
<1>2. /\ tpc \in [Clients -> Threads] /\ DOMAIN i = Clients /\ res \in [Clients -> Runs] /\ out \in [Clients -> Output]
      /\ DOMAIN cmds = Clients /\ DOMAIN tocl = Clients
  BY DEF IInv, RegInv, ThreadInv, Works, FlowInv
<1>3. /\ \A d \in Clients : d # c => /\ tpc'[d] = tpc[d] /\ i'[d] = i[d] /\ res'[d] = res[d] /\ out'[d] = out[d]
                                     /\ cmds'[d] = cmds[d] /\ tocl'[d] = tocl[d]
      /\ tpc'[c] = "read" /\ cmds'[c] = <<>>
  BY <1>1, <1>2
<1>4. \A d \in Clients : d # c => Untouched(d)
  BY <1>1, <1>3 DEF Untouched
<1>5. WorkInv(c)'
  BY <1>3, IdleWork DEF Busy
<1>6. tpc[c] \in Busy /\ tpc[c] \notin Early /\ tpc[c] # "read"
  BY <1>1 DEF Busy, Early
<1>7. tosrv[c] = <<>> /\ tocl[c] = <<>>
  BY <1>6 DEF IInv, FlowInv
<1>8. LineInv(c)'
  <2>1. \A l : <<l>> # <<>>
    OBVIOUS
  <2> QED BY <1>1, <1>3, <1>7, <2>1 DEF LineInv, Early, Busy
<1>9. AnswerInv(c)'
  <2>1. PICK a : a = out[c]
    OBVIOUS
  <2>2. Append(<<>>, a) = <<a>> /\ \A b : /\ <<b>> # <<>>
                                         /\ <<b>> = <<a>> => b = a
    OBVIOUS
  <2>3. tocl'[c] = <<>> \/ tocl'[c] = <<a>>
    <3>1. CASE cpc[c] = "gone"
      BY <1>1, <1>7, <3>1
    <3>2. CASE cpc[c] # "gone"
      BY <1>1, <1>2, <1>7, <2>1, <2>2, <3>2
    <3> QED BY <3>1, <3>2
  <2>4. ASSUME c \notin cut \cup mixed
        PROVE  AnswerFits(idx[c], a, asked[c])
    <3>1. buff[c] = asked[c] /\ OwnWork(c)
      BY <1>6, <2>4 DEF AInv, LineInv, WorkInv
    <3>2. CASE tpc[c] = "reply"
      BY <2>1, <3>1, <3>2 DEF OwnWork, ErrorCause, AnswerFits
    <3>3. CASE tpc[c] = "run" /\ cmds[c] = <<>>
      <4>1. /\ Todo(c, idx[c], buff[c], cmds[c], out[c]) /\ Len(out[c].did) + Len(cmds[c]) = Len(buff[c])
        BY <3>1, <3>3 DEF OwnWork, Running
      <4>2. a.did \in Seq(Runs) /\ Len(cmds[c]) = 0
        BY <2>1, <3>3, ThreadTypes
      <4>3. Len(a.did) \in Nat
        BY <4>2
      <4>4. Len(a.did) = Len(asked[c])
        BY <2>1, <3>1, <4>1, <4>2, <4>3
      <4> QED BY <2>1, <3>1, <4>1, <4>4 DEF Todo, AnswerFits
    <3> QED BY <1>1, <3>2, <3>3
  <2> QED BY <1>1, <2>2, <2>3, <2>4 DEF AnswerInv
<1>10. KidInv'
  <2>1. tpc[c] \notin Sending
    BY <1>1 DEF Sending
  <2> QED BY <1>1, <1>3, <2>1, KidFrame DEF AInv
<1> QED BY <1>1, <1>3, <1>4, <1>5, <1>8, <1>9, <1>10, OneClient
-----------------------------------------------------------------------------
\* At the start nothing is asked.
LEMMA AnswersInit == Init => AInv
<1> SUFFICES ASSUME Init
             PROVE  AInv
  OBVIOUS
<1>1. \A c \in Clients : /\ tpc[c] \in {"read", "off"} /\ cmds[c] = <<>> /\ tosrv[c] = <<>> /\ tocl[c] = <<>>
                         /\ kidq[c] = <<>>
  BY DEF Init
<1>2. \A l, p : <<l>> # <<>> /\ <<p, l>> # <<>>
  OBVIOUS
<1>3. \A c \in Clients : LineInv(c) /\ WorkInv(c) /\ AnswerInv(c)
  BY <1>1, <1>2 DEF LineInv, WorkInv, OwnWork, AnswerInv, Busy, Running, Sending
<1>4. KidInv
  <2>1. Len(<<>>) = 0
    OBVIOUS
  <2> QED BY <1>1, <2>1 DEF KidInv
<1> QED BY <1>3, <1>4 DEF AInv, Init

\* Every step keeps it.
LEMMA AnswersStep == IInv /\ AInv /\ [Next]_vars => AInv'
<1> SUFFICES ASSUME IInv, AInv, [Next]_vars
             PROVE  AInv'
  OBVIOUS
<1>1. CASE UNCHANGED vars
  <2>1. UNCHANGED <<tpc, i, idx, buff, cmds, out, res, conn, kidq, tosrv, tocl, asked, cut, mixed, strtokAt>>
    BY <1>1 DEF vars, threads, children, streams, users, history
  <2>2. \A d \in Clients : Untouched(d)
    BY <2>1 DEF Untouched
  <2>3. KidInv'
    BY <2>1, KidFrame DEF AInv
  <2> QED BY <2>1, <2>2, <2>3, WorkFrame, LineFrame, AnswerFrame DEF AInv
<1>2. ASSUME NEW c \in Clients, Connect(c) \/ Leave(c) \/ LoseChild(c) \/ (\E l \in setup.lines : Type(c, l)) \/ Client(c) \/ Child(c)
      PROVE  AInv'
  BY <1>2, ConnectAnswers, TypeAnswers, ClientAnswers, ChildAnswers
<1>3. ASSUME NEW c \in Clients, Thread(c)
      PROVE  AInv'
  BY <1>3, RegisterAnswers, ReadPortAnswers, ReadLineAnswers, ParseAnswers, RunNamedAnswers, DialAnswers, AwaitAnswers,
     BroadcastAnswers, CastAnswers, GatherAnswers, ReplyAnswers DEF Thread
<1> QED BY <1>1, <1>2, <1>3 DEF Next

\* The answer a client gets is made by the stages of its own line, each run where the line
\* says, whatever the other clients do: except for a line cut by the read of the port, or
\* parsed while another thread parsed.
THEOREM AnswersOwnLineHolds == Spec => []AnswersOwnLine
<1>1. IInv /\ AInv => AnswersOwnLine
  <2> SUFFICES ASSUME IInv, AInv, NEW c \in Clients, NEW k \in DOMAIN tocl[c], c \notin cut \cup mixed
               PROVE  /\ tocl[c][k].err = "nodes" <=> asked[c] = NodesLine
                      /\ tocl[c][k].err = "none" =>
                             /\ Len(tocl[c][k].did) = Len(asked[c])
                             /\ \A j \in DOMAIN tocl[c][k].did : Fits(idx[c], tocl[c][k].did[j], asked[c][j])
                      /\ tocl[c][k].err = "invalid" => \E j \in DOMAIN asked[c] : asked[c][j].machine > Len(IpOf)
    BY DEF AnswersOwnLine, Fits
  <2>1. \A b : <<b>>[1] = b /\ DOMAIN <<b>> = {1} /\ DOMAIN <<>> = {}
    OBVIOUS
  <2>2. PICK a \in Output : tocl[c] = <<a>>
    BY <2>1 DEF IInv, FlowInv
  <2>3. tocl[c][k] = a /\ AnswerFits(idx[c], a, asked[c])
    BY <2>1, <2>2 DEF AInv, AnswerInv
  <2>4. DOMAIN a.did = 1 .. Len(a.did)
    BY <2>2 DEF Output
  <2> QED BY <2>3, <2>4 DEF AnswerFits
<1>2. Spec => [](IInv /\ AInv)
  BY InvInit, InvStep, AnswersInit, AnswersStep, PTL DEF Spec
<1> QED BY <1>1, <1>2, PTL
=============================================================================
