---------------------------- MODULE FileSharing ----------------------------
(***************************************************************************)
(* File sharing and polls in the group chat of assignment-2/q3             *)
(* (group_comm.c, utils.c).                                                *)
(*                                                                         *)
(* Every minute SIGALRM makes a node multicast the list of its files to    *)
(* its groups.  Who receives a list requests each file it lacks and, file  *)
(* by file, passes the list on to its groups that the list does not name.  *)
(* A request is multicast; the requester forks a child that listens for    *)
(* the TCP connection of the first node that has the file, and blocks in   *)
(* wait() until a child exits.  A poll forks a child too, and nobody waits *)
(* for that one; the node asked to vote blocks until its user has voted.   *)
(*                                                                         *)
(* The groups of a node are fixed here (GroupMembership models how they    *)
(* change).  A file is there or not: its bytes are left out, and a file    *)
(* that a child is writing is not there yet.  A transfer may break off in  *)
(* the middle, but it does not hang: nodes do not die while they send, and *)
(* each sends a file to its end.  Datagrams are not lost, and a node in    *)
(* its main loop answers a request within the 10 seconds the child listens.*)
(***************************************************************************)
EXTENDS Integers, SequencesExt

CONSTANTS Nodes, Groups, Files,
          Setups,               \* the settings a run starts from, see Setup
          MaxFiles, MaxGroups,  \* MAX_FILE_ALLOWED, MAX_GROUPS
          None

\* groups: mc_list of each node, in order; have: the files it finds in ./files when it
\* starts; events: bound on alarms, polls and users' requests together; breakable: bound on
\* the files of which transfers break off.
Setup == [groups : [Nodes -> Seq(Groups)], have : [Nodes -> Seq(Files)],
          events : Nat, breakable : SUBSET Files]

ASSUME SetupAssumption ==
    /\ Setups \subseteq Setup
    /\ \A s \in Setups, n \in Nodes :
           /\ IsInjective(s.groups[n]) /\ Len(s.groups[n]) <= MaxGroups
           /\ IsInjective(s.have[n]) /\ Len(s.have[n]) <= MaxFiles
    /\ None \notin Files /\ MaxFiles \in Nat /\ MaxGroups \in Nat

VARIABLES
    setup,     \* a member of Setups
    files,     \* file_names[0 .. file_count - 1]
    disk,      \* the files in ./files
    sock,      \* datagrams in each recv_fd
    mode,      \* "loop", "wait" (for a child) or "vote" (reading the user's option)
    asking,    \* the file requested by the call that waits
    handling,  \* the file list a node is working through: list, file, sends made, step
    kids,      \* children not yet waited for
    forks,     \* children forked; numbers them
    events,    \* alarms, polls and users' requests so far
    polled,    \* the nodes that have started a poll
    broken,    \* the files of which a transfer has broken off
    overlap    \* has an alarm or a user's request come while lists or requests were under way?

dataVars == <<files, disk>>
kidVars  == <<kids, forks>>
histVars == <<setup, events, polled, broken, overlap>>
vars == <<dataVars, sock, mode, asking, handling, kidVars, histVars>>

GroupsOf == setup.groups
Idle(n) == mode[n] = "loop" /\ handling[n] = None
Listed(n) == ToSet(files[n])
Quiet == \A n \in Nodes : Idle(n) /\ \A g \in Groups : sock[n][g] = <<>>

Init ==
    /\ setup \in Setups
    /\ files = setup.have
    /\ disk = [n \in Nodes |-> ToSet(setup.have[n])]
    /\ sock = [n \in Nodes |-> [g \in Groups |-> <<>>]]
    /\ mode = [n \in Nodes |-> "loop"]
    /\ asking = [n \in Nodes |-> None]
    /\ handling = [n \in Nodes |-> None]
    /\ kids = [n \in Nodes |-> {}]
    /\ forks = [n \in Nodes |-> 0]
    /\ events = 0 /\ polled = {} /\ broken = {}
    /\ overlap = FALSE

\* sendto on the send_fd of each of gs, msg[g] to g; the sender does not hear itself.
Multicast(n, gs, msg) ==
    sock' = [h \in Nodes |-> [g \in Groups |->
                IF h # n /\ g \in ToSet(GroupsOf[h]) \cap gs THEN Append(sock[h][g], msg[g]) ELSE sock[h][g]]]

SendToAll(n, msg) == Multicast(n, ToSet(GroupsOf[n]), [g \in Groups |-> msg])

\* A datagram at the head of a socket of an idle node.
Arrived(n, g, type) == Idle(n) /\ sock[n][g] # <<>> /\ Head(sock[n][g]).type = type
Taken(n, g) == [sock EXCEPT ![n][g] = Tail(@)]
-----------------------------------------------------------------------------
(* Requesting a file.                                                      *)

\* requestFileCmdHandler, up to its wait: a child that listens, and the request to all
\* groups.
RequestFile(n, f) ==
    /\ kids' = [kids EXCEPT ![n] = @ \cup {[id |-> forks[n] + 1, kind |-> "file", file |-> f, st |-> "listen"]}]
    /\ forks' = [forks EXCEPT ![n] = @ + 1]
    /\ SendToAll(n, [type |-> "req", file |-> f, from |-> n, kid |-> forks[n] + 1])
    /\ asking' = [asking EXCEPT ![n] = f]
    /\ mode' = [mode EXCEPT ![n] = "wait"]

\* It returns at once for a file it lists, and when its table is full.
CanRequest(n, f) == f \notin Listed(n) /\ Len(files[n]) < MaxFiles

UserRequest(n, f) ==
    /\ Idle(n) /\ CanRequest(n, f)
    /\ events < setup.events
    /\ events' = events + 1
    /\ overlap' = (overlap \/ ~Quiet)
    /\ RequestFile(n, f)
    /\ UNCHANGED <<dataVars, handling, setup, polled, broken>>

\* requestFileReqHandler: the first to connect gets the child's attention; opening the
\* file fails when it is listed and not there, connecting when the child is gone.
TakeRequest(n, g) ==
    /\ Arrived(n, g, "req")
    /\ LET req == Head(sock[n][g]) IN
           kids' = IF req.file \in Listed(n) /\ req.file \in disk[n]
                   THEN [kids EXCEPT ![req.from] =
                            {IF k.id = req.kid /\ k.st = "listen" THEN [k EXCEPT !.st = "connected"] ELSE k : k \in @}]
                   ELSE kids
    /\ sock' = Taken(n, g)
    /\ UNCHANGED <<dataVars, mode, asking, handling, forks, histVars>>

KidSt(n, k, st) == kids' = [kids EXCEPT ![n] = (@ \ {k}) \cup {[k EXCEPT !.st = st]}]

\* The child writes the file and exits with EXIT_SUCCESS.
KidReceives(n) ==
    \E k \in kids[n] :
        /\ k.st = "connected"
        /\ KidSt(n, k, "success")
        /\ disk' = [disk EXCEPT ![n] = @ \cup {k.file}]
        /\ UNCHANGED <<files, sock, mode, asking, handling, forks, histVars>>

\* Mutant: the child exits with EXIT_SUCCESS although the transfer broke off.
KidFails_Success(n) ==
    \E k \in kids[n] :
        /\ k.st = "connected" /\ k.file \in setup.breakable
        /\ KidSt(n, k, "success")
        /\ disk' = [disk EXCEPT ![n] = @ \ {k.file}]
        /\ broken' = broken \cup {k.file}
        /\ UNCHANGED <<files, sock, mode, asking, handling, forks, setup, events, polled, overlap>>

\* The child cannot open the file; or a read fails, a reply comes in part and is taken
\* for one of another type, or a write fails: it removes what it has written, and exits
\* with EXIT_FAILURE.
KidFails(n) ==
    \E k \in kids[n] :
        /\ k.st = "connected" /\ k.file \in setup.breakable
        /\ KidSt(n, k, "failure")
        /\ \E opened \in BOOLEAN : disk' = IF opened THEN [disk EXCEPT ![n] = @ \ {k.file}] ELSE disk
        /\ broken' = broken \cup {k.file}
        /\ UNCHANGED <<files, sock, mode, asking, handling, forks, setup, events, polled, overlap>>

\* A node that has the file is about to answer k's request: it waits for nobody.
Answering(n, k) ==
    \E h \in Nodes, g \in Groups :
        /\ mode[h] = "loop" /\ k.file \in Listed(h) \cap disk[h]
        /\ \E i \in DOMAIN sock[h][g] : LET m == sock[h][g][i] IN m.type = "req" /\ m.from = n /\ m.kid = k.id

\* Mutant: the child's select has no timeout.
KidTimeout_None(n) == FALSE /\ UNCHANGED vars

\* Nobody connected within REQ_FILE_TIMEOUT seconds.
KidTimeout(n) ==
    \E k \in kids[n] :
        /\ k.kind = "file" /\ k.st = "listen"
        /\ ~Answering(n, k)
        /\ KidSt(n, k, "failure")
        /\ UNCHANGED <<dataVars, sock, mode, asking, handling, forks, histVars>>

\* Mutant: asking is not cleared.
Reap_Keep(n) ==
    \E k \in kids[n] :
        /\ mode[n] = "wait" /\ k.st \in {"success", "failure"}
        /\ kids' = [kids EXCEPT ![n] = @ \ {k}]
        /\ files' = IF k.st = "success" THEN [files EXCEPT ![n] = Append(@, asking[n])] ELSE files
        /\ asking' = asking
        /\ mode' = [mode EXCEPT ![n] = "loop"]
        /\ UNCHANGED <<disk, sock, handling, forks, histVars>>

\* wait() returns for any child that has exited.
Reap(n) ==
    \E k \in kids[n] :
        /\ mode[n] = "wait" /\ k.st \in {"success", "failure"}
        /\ kids' = [kids EXCEPT ![n] = @ \ {k}]
        /\ files' = IF k.st = "success" THEN [files EXCEPT ![n] = Append(@, asking[n])] ELSE files
        /\ asking' = [asking EXCEPT ![n] = None]
        /\ mode' = [mode EXCEPT ![n] = "loop"]
        /\ UNCHANGED <<disk, sock, handling, forks, histVars>>
-----------------------------------------------------------------------------
(* File lists.                                                             *)

\* sigAlrmHandler: the names of all the node's groups go with the list.  It runs at any
\* time, also while the node waits or votes.
Alarm(n) ==
    /\ events < setup.events
    /\ events' = events + 1
    /\ overlap' = (overlap \/ ~Quiet)
    /\ IF files[n] # <<>>
       THEN SendToAll(n, [type |-> "list", files |-> files[n],
                          groups |-> ToSet(GroupsOf[n]), count |-> Len(GroupsOf[n])])
       ELSE UNCHANGED sock
    /\ UNCHANGED <<dataVars, mode, asking, handling, kidVars, setup, polled, broken>>

TakeList(n, g) ==
    /\ Arrived(n, g, "list")
    /\ handling' = [handling EXCEPT ![n] = [list |-> Head(sock[n][g]), i |-> 1, passed |-> 0, step |-> "get"]]
    /\ sock' = Taken(n, g)
    /\ UNCHANGED <<dataVars, mode, asking, kidVars, histVars>>

\* The next file of the list: request it if it is not listed.
GetFile(n) ==
    /\ mode[n] = "loop" /\ handling[n] # None /\ handling[n].step = "get"
    /\ handling' = [handling EXCEPT ![n].step = "pass"]
    /\ LET f == handling[n].list.files[handling[n].i] IN
           IF CanRequest(n, f) THEN RequestFile(n, f) ELSE UNCHANGED <<kidVars, sock, asking, mode>>
    /\ UNCHANGED <<dataVars, histVars>>

\* Mutant: the list is not passed on.
PassOn_Never(n) ==
    /\ mode[n] = "loop" /\ handling[n] # None /\ handling[n].step = "pass"
    /\ LET h  == handling[n]
       IN  handling' = [handling EXCEPT ![n] =
                  IF h.i = Len(h.list.files) THEN None ELSE [h EXCEPT !.i = @ + 1, !.step = "get"]]
    /\ UNCHANGED <<dataVars, sock, mode, asking, kidVars, histVars>>

\* Then pass the list on.  The groups found in the list, and its count, are those of the
\* copy made on arrival, so each send writes its group over the one before it, while
\* the count that is sent along goes up with each send, for all files.
PassOn(n) ==
    /\ mode[n] = "loop" /\ handling[n] # None /\ handling[n].step = "pass"
    /\ LET h  == handling[n]
           gs == IF h.list.count >= MaxGroups THEN {} ELSE ToSet(GroupsOf[n]) \ h.list.groups
           sends(g) == Cardinality({a \in gs : \E j, k \in DOMAIN GroupsOf[n] :
                                        j <= k /\ GroupsOf[n][j] = a /\ GroupsOf[n][k] = g})
           copy(g) == [h.list EXCEPT !.groups = @ \cup {g}, !.count = @ + h.passed + sends(g)]
       IN  /\ Multicast(n, gs, [g \in gs |-> copy(g)])
           /\ handling' = [handling EXCEPT ![n] =
                  IF h.i = Len(h.list.files) THEN None
                  ELSE [h EXCEPT !.i = @ + 1, !.passed = @ + Cardinality(gs), !.step = "get"]]
    /\ UNCHANGED <<dataVars, mode, asking, kidVars, histVars>>
-----------------------------------------------------------------------------
(* Polls.                                                                  *)

\* handlePollCommand: the child collects the votes.
InitPoll(n, g) ==
    /\ Idle(n) /\ g \in ToSet(GroupsOf[n])
    /\ events < setup.events
    /\ events' = events + 1
    /\ polled' = polled \cup {n}
    /\ Multicast(n, {g}, [h \in {g} |-> [type |-> "poll"]])
    /\ kids' = [kids EXCEPT ![n] = @ \cup {[id |-> forks[n] + 1, kind |-> "poll", file |-> None, st |-> "listen"]}]
    /\ forks' = [forks EXCEPT ![n] = @ + 1]
    /\ UNCHANGED <<dataVars, mode, asking, handling, setup, broken, overlap>>

\* No vote for POLL_TIMEOUT seconds: the child prints the result and exits.
PollEnds(n) ==
    \E k \in kids[n] :
        /\ k.kind = "poll" /\ k.st = "listen"
        /\ KidSt(n, k, "success")
        /\ UNCHANGED <<dataVars, sock, mode, asking, handling, forks, histVars>>

TakePoll(n, g) ==
    /\ Arrived(n, g, "poll")
    /\ sock' = Taken(n, g)
    /\ mode' = [mode EXCEPT ![n] = "vote"]
    /\ UNCHANGED <<dataVars, asking, handling, kidVars, histVars>>

\* The user enters a valid option, and the vote goes to the poll's child.
Vote(n) ==
    /\ mode[n] = "vote"
    /\ mode' = [mode EXCEPT ![n] = "loop"]
    /\ UNCHANGED <<dataVars, sock, asking, handling, kidVars, histVars>>
-----------------------------------------------------------------------------
\* What the node's program does when it can: one step after the other.
Program(n) ==
    \/ GetFile(n) \/ PassOn(n) \/ Reap(n) \/ Vote(n)
    \/ \E g \in Groups : TakeList(n, g) \/ TakeRequest(n, g) \/ TakePoll(n, g)

Children(n) == KidReceives(n) \/ KidFails(n) \/ KidTimeout(n) \/ PollEnds(n)

Next ==
    \E n \in Nodes :
        \/ Program(n) \/ Children(n) \/ Alarm(n)
        \/ \E g \in Groups : InitPoll(n, g)
        \/ \E f \in Files : UserRequest(n, f)

\* Processes run, the children's timeouts expire, a transfer comes to its end or breaks
\* off, and users vote when asked.  Alarms, polls and requests need not come.
Fairness == \A n \in Nodes : WF_vars(Program(n)) /\ WF_vars(Children(n))

Spec == Init /\ [][Next]_vars /\ Fairness
-----------------------------------------------------------------------------
(* Properties.                                                             *)

Kid == [id : Nat \ {0}, kind : {"file", "poll"}, file : Files \cup {None},
        st : {"listen", "connected", "success", "failure"}]

\* Every variable has its type: no table grows past MAX_FILE_ALLOWED, a node waits
\* exactly while it has asked for a file, and a list is worked on up to its last file.
TypeOK ==
    /\ \A n \in Nodes : ToSet(files[n]) \subseteq Files /\ Len(files[n]) <= MaxFiles
    /\ disk \in [Nodes -> SUBSET Files]
    /\ mode \in [Nodes -> {"loop", "wait", "vote"}]
    /\ asking \in [Nodes -> Files \cup {None}]
    /\ \A n \in Nodes : (mode[n] = "wait") <=> (asking[n] # None)
    /\ \A n \in Nodes : handling[n] # None => handling[n].i \in DOMAIN handling[n].list.files
    /\ \A n \in Nodes : kids[n] \subseteq Kid /\ \A k \in kids[n] : k.id <= forks[n]
    /\ events \in 0 .. setup.events /\ polled \subseteq Nodes /\ broken \subseteq Files

\* "This would always be in sync with the files present in ./files directory"
\* (README.md:126): outside of a request, file_names lists exactly the files there are,
\* each once.
InSync ==
    \A n \in Nodes : mode[n] # "wait" => Listed(n) = disk[n] /\ IsInjective(files[n])

\* The same for nodes that have not started a poll: a request forks one child and takes
\* that child's exit, whatever arrives meanwhile, and a child leaves nothing of a transfer
\* that breaks off (utils.c:1041-1063, 1086-1099).
InSyncUnlessPolled ==
    \A n \in Nodes : n \notin polled /\ mode[n] # "wait" => Listed(n) = disk[n] /\ IsInjective(files[n])

\* "it avoids infinite loops" (README.md:155): when alarms, polls and requests cease, the
\* lists and requests they set off die out, and every node is back in its main loop.
FloodEnds == <>[]Quiet

\* The nodes that n is connected to by shared groups.
Component ==
    [n \in Nodes |-> {h \in Nodes : \A S \in SUBSET Nodes :
        n \in S /\ (\A a \in S, b \in Nodes : ToSet(GroupsOf[a]) \cap ToSet(GroupsOf[b]) # {} => b \in S)
        => h \in S}]

InList(f) == \E n \in Nodes, g \in Groups : \E i \in DOMAIN sock[n][g] :
                    sock[n][g][i].type = "list" /\ f \in ToSet(sock[n][g][i].files)

\* "every 1 minute, the file list of all clients is shared across this complete connected
\* component" (README.md:153), and who lacks a file requests it: a file whose name
\* arrives in a list ends up at every node that shared groups lead to, although requests
\* time out while the nodes that could answer wait for files themselves.  It may not when
\* a transfer of that file breaks off, when two nodes send lists, or request files, at the
\* same time, or after a poll.
Spreads ==
    \A f \in Files :
        InList(f) ~> \/ \A n \in Nodes : f \in Listed(n) => \A h \in Component[n] : f \in Listed(h)
                     \/ f \in broken
                     \/ overlap
                     \/ polled # {}
=============================================================================
