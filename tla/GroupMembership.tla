-------------------------- MODULE GroupMembership --------------------------
(***************************************************************************)
(* Multicast groups in the group chat of assignment-2/q3 (group_comm.c,    *)
(* utils.c): creating, finding, joining, leaving and listing groups, and   *)
(* messages to a group.                                                    *)
(*                                                                         *)
(* Each node is one single-threaded process.  Its main loop selects on     *)
(* stdin, the broadcast socket and one socket per joined group; a find     *)
(* broadcasts a request and then waits for the answer on a socket of its   *)
(* own, and the node does nothing else meanwhile.  SIGALRM, which paces    *)
(* the sharing of file lists (FileSharing), interrupts that wait.  A line  *)
(* that is no command, or the end of stdin, costs the sockets of the       *)
(* groups their turn; a poll keeps the node until its user has voted.      *)
(*                                                                         *)
(* The joined groups are a linked list with a tail pointer and a count;    *)
(* the kernel keeps the memberships.  As the README assumes, a name stands *)
(* for one address; two addresses may share a port.                        *)
(***************************************************************************)
EXTENDS Integers, SequencesExt

CONSTANTS Nodes, Groups,
          Port,        \* of each group's address
          KeepLast,    \* TRUE: users do not leave the group they joined last of several
          MaxSends, MaxFinds,  \* bounds on messages and polls, and on finds
          MaxEvents,   \* bound on alarms, polls, lines that are no command, and ends of stdin
          MaxInputs    \* bound on all of these together

ASSUME SetupAssumption ==
    /\ IsFiniteSet(Groups)
    /\ DOMAIN Port = Groups
    /\ KeepLast \in BOOLEAN
    /\ MaxSends \in Nat /\ MaxFinds \in Nat /\ MaxEvents \in Nat /\ MaxInputs \in Nat

VARIABLES
    list, tail, count,  \* mc_list: from head, whether tail is its last node, count
    member,             \* the groups the kernel has joined for an open recv_fd
    mode,               \* "loop", "vote" (reading the user's option), "find", "blocked" (in
                        \* recvfrom), "freed", "crashed", "gone"
    stdin,              \* "open", "slip" (a line that is no command waits), "ended"
    want,               \* the group sought, whether to join it, and which find this is
    finds,              \* finds made; each has a reply socket, and so a port, of its own
    broadcasts,         \* requests in broadcast_fd
    reply,              \* answers in the reply socket
    sock,               \* messages in each recv_fd
    sent, polls, shown, \* messages sent; which are polls; displayed by each node, with the socket
    events              \* alarms, polls, such lines and ends of stdin so far

listVars == <<list, tail, count, member>>
findVars == <<want, finds, broadcasts, reply>>
msgVars  == <<sock, sent, polls, shown>>
vars == <<listVars, mode, stdin, findVars, msgVars, events>>

NoFind == [name |-> "", join |-> FALSE, find |-> 0]
Joined(n) == ToSet(list[n])

\* One more input is within the bound.
More == finds + sent + events < MaxInputs

Init ==
    /\ list = [n \in Nodes |-> <<>>]
    /\ tail = [n \in Nodes |-> "last"]
    /\ count = [n \in Nodes |-> 0]
    /\ member = [n \in Nodes |-> {}]
    /\ mode = [n \in Nodes |-> "loop"]
    /\ stdin = [n \in Nodes |-> "open"]
    /\ want = [n \in Nodes |-> NoFind]
    /\ finds = 0
    /\ broadcasts = [n \in Nodes |-> <<>>]
    /\ reply = [n \in Nodes |-> <<>>]
    /\ sock = [n \in Nodes |-> [g \in Groups |-> <<>>]]
    /\ sent = 0
    /\ polls = {}
    /\ shown = [n \in Nodes |-> {}]
    /\ events = 0
-----------------------------------------------------------------------------
(* The list of joined groups.                                              *)

\* Mutant: the count is not looked at: an empty list never takes a group again.
InsertMulticastGroup_Tail(n, g) ==
    /\ list' = IF tail[n] = "last" THEN [list EXCEPT ![n] = Append(@, g)] ELSE list
    /\ tail' = tail
    /\ count' = [count EXCEPT ![n] = @ + 1]

\* insertMulticastGroup hangs the group on tail.  When tail is not the last node of
\* the list, head does not lead to the new group.
InsertMulticastGroup(n, g) ==
    /\ list' = IF count[n] = 0 \/ tail[n] = "last"
               THEN [list EXCEPT ![n] = Append(@, g)] ELSE list
    /\ tail' = IF count[n] = 0 THEN [tail EXCEPT ![n] = "last"] ELSE tail
    /\ count' = [count EXCEPT ![n] = @ + 1]

\* initMulticastGroup opens the sockets of a group whose name and address are new.
InitMulticastGroup(n, g) == g \notin Joined(n)

\* joinMulticastGroup, after initMulticastGroup.
JoinMulticastGroup(n, g) ==
    /\ member' = [member EXCEPT ![n] = @ \cup {g}]
    /\ InsertMulticastGroup(n, g)

\* removeMulticastGroup unlinks the group; tail stays where it is.
RemoveMulticastGroup(n, g) ==
    /\ \E i \in DOMAIN list[n] :
           list[n][i] = g /\ list' = [list EXCEPT ![n] = RemoveAt(@, i)]
    /\ tail' = IF g = Last(list[n]) THEN [tail EXCEPT ![n] = "off"] ELSE tail
    /\ count' = [count EXCEPT ![n] = @ - 1]

\* leaveMulticastGroup: what was not read from the socket is lost.
LeaveMulticastGroup(n, g) ==
    /\ member' = [member EXCEPT ![n] = @ \ {g}]
    /\ RemoveMulticastGroup(n, g)
    /\ sock' = [sock EXCEPT ![n][g] = <<>>]
-----------------------------------------------------------------------------
(* Commands.                                                               *)

\* A turn of the loop reads a command, or goes on to the sockets of the groups.
Prompt(n) == mode[n] = "loop" /\ stdin[n] = "open"

Create(n, g) ==
    /\ Prompt(n)
    /\ InitMulticastGroup(n, g)
    /\ JoinMulticastGroup(n, g)
    /\ UNCHANGED <<mode, findVars, msgVars, stdin, events>>

Leave(n, g) ==
    /\ Prompt(n)
    /\ g \in Joined(n)
    /\ KeepLast /\ count[n] > 1 => g # Last(list[n])
    /\ LeaveMulticastGroup(n, g)
    /\ UNCHANGED <<mode, findVars, sent, polls, shown, stdin, events>>

\* listGroups prints count nodes and follows next past the end of a shorter list.
ListGroups(n) ==
    /\ Prompt(n)
    /\ mode' = [mode EXCEPT ![n] = IF count[n] > Len(list[n]) THEN "crashed" ELSE "loop"]
    /\ UNCHANGED <<listVars, findVars, msgVars, stdin, events>>

\* findGroupSend: the broadcast reaches every node, the sender too.
FindGroupSend(req) ==
    broadcasts' = [h \in Nodes |-> IF mode[h] \in {"crashed", "gone"} THEN <<>> ELSE Append(broadcasts[h], req)]

\* find-group and join-group, up to the wait for an answer.
StartFind(n, g, join) ==
    /\ Prompt(n)
    /\ g \notin Joined(n)
    /\ finds < MaxFinds /\ More
    /\ finds' = finds + 1
    /\ want' = [want EXCEPT ![n] = [name |-> g, join |-> join, find |-> finds']]
    /\ FindGroupSend([from |-> n, find |-> finds', name |-> g])
    /\ mode' = [mode EXCEPT ![n] = "find"]
    /\ UNCHANGED <<listVars, reply, msgVars, stdin, events>>

\* The sockets of h that the kernel hands a datagram for g: h must be a member, and
\* every socket bound to g's port gets a copy.
Hearing(h, g) == IF g \in member[h] THEN {k \in member[h] : Port[k] = Port[g]} ELSE {}

\* IP_MULTICAST_LOOP is off: the sender does not hear itself.  A datagram may be
\* lost on the way to a node.
Multicast(n, g) ==
    /\ sent < MaxSends /\ More
    /\ sent' = sent + 1
    /\ \E reached \in SUBSET (Nodes \ {n}) :
           sock' = [h \in Nodes |-> [k \in Groups |->
                       IF h \in reached /\ k \in Hearing(h, g) THEN Append(sock[h][k], sent')
                       ELSE sock[h][k]]]

Send(n, g) ==
    /\ Prompt(n)
    /\ g \in Joined(n)
    /\ Multicast(n, g)
    /\ UNCHANGED <<listVars, mode, findVars, polls, shown, stdin, events>>

\* A poll goes the same way.  (The child that counts the votes is in FileSharing.)
InitPoll(n, g) ==
    /\ Prompt(n)
    /\ g \in Joined(n)
    /\ events < MaxEvents
    /\ events' = events + 1
    /\ Multicast(n, g)
    /\ polls' = polls \cup {sent'}
    /\ UNCHANGED <<listVars, mode, findVars, shown, stdin>>

\* The user types a line that parseCommand rejects, or stdin ends.
BadInput(n) ==
    /\ stdin[n] = "open" /\ mode[n] \in {"loop", "vote"}
    /\ events < MaxEvents /\ More
    /\ events' = events + 1
    /\ \E in \in {"slip", "ended"} : stdin' = [stdin EXCEPT ![n] = in]
    /\ UNCHANGED <<listVars, mode, findVars, msgVars>>

\* The loop reads that line and goes back to select, past the sockets of the groups; to a
\* poll it is no valid option.  The end of stdin is read like that in every turn.
ReadSlip(n) ==
    /\ stdin[n] = "slip" /\ mode[n] \in {"loop", "vote"}
    /\ stdin' = [stdin EXCEPT ![n] = "open"]
    /\ UNCHANGED <<listVars, mode, findVars, msgVars, events>>

\* exit, or Ctrl+C: cleanup leaves every group.
Exit(n) ==
    /\ mode[n] \in {"loop", "vote"}
    /\ mode' = [mode EXCEPT ![n] = "gone"]
    /\ list' = [list EXCEPT ![n] = <<>>]
    /\ tail' = [tail EXCEPT ![n] = "last"]
    /\ count' = [count EXCEPT ![n] = 0]
    /\ member' = [member EXCEPT ![n] = {}]
    /\ broadcasts' = [broadcasts EXCEPT ![n] = <<>>]
    /\ sock' = [sock EXCEPT ![n] = [g \in Groups |-> <<>>]]
    /\ UNCHANGED <<want, finds, reply, sent, polls, shown, stdin, events>>
-----------------------------------------------------------------------------
(* Finding a group.                                                        *)

Finding(n) == mode[n] \in {"find", "blocked", "freed"}

\* Mutant: one reply port for all finds.
PutReply_FixedPort(req) ==
    reply' = IF Finding(req.from) THEN [reply EXCEPT ![req.from] = Append(@, req.name)] ELSE reply

\* The answer reaches the reply socket of the find that asked, if it is still open.
PutReply(req) ==
    reply' = IF Finding(req.from) /\ want[req.from].find = req.find
             THEN [reply EXCEPT ![req.from] = Append(@, req.name)] ELSE reply

\* The main loop takes a broadcast; handleFindGroupReq answers for a group it knows.
AnswerFind(n) ==
    /\ mode[n] = "loop"
    /\ broadcasts[n] # <<>>
    /\ broadcasts' = [broadcasts EXCEPT ![n] = Tail(@)]
    /\ LET req == Head(broadcasts[n]) IN
           IF req.name \in Joined(n) THEN PutReply(req) ELSE UNCHANGED reply
    /\ UNCHANGED <<listVars, mode, want, finds, msgVars, stdin, events>>

\* Mutant: the reply socket stays open with its answers.
EndFind_Open(n) ==
    /\ mode' = [mode EXCEPT ![n] = "loop"]
    /\ want' = [want EXCEPT ![n] = NoFind]
    /\ reply' = reply

\* Back in the main loop: the reply socket is closed.
EndFind(n) ==
    /\ mode' = [mode EXCEPT ![n] = "loop"]
    /\ want' = [want EXCEPT ![n] = NoFind]
    /\ reply' = [reply EXCEPT ![n] = <<>>]

\* What join-group and find-group do with the group found.
Found(n, g) == IF want[n].join /\ InitMulticastGroup(n, g) THEN JoinMulticastGroup(n, g) ELSE UNCHANGED listVars

\* findGroupRecv takes an answer; for another name it frees its buffer and waits on,
\* and the next answer is then read through NULL.
FindReply(n) ==
    /\ Finding(n) /\ reply[n] # <<>>
    /\ LET g == Head(reply[n]) IN
           IF mode[n] # "freed" /\ g = want[n].name
           THEN /\ EndFind(n)
                /\ Found(n, g)
           ELSE /\ mode' = [mode EXCEPT ![n] = IF mode[n] = "freed" THEN "crashed" ELSE "freed"]
                /\ reply' = [reply EXCEPT ![n] = Tail(@)]
                /\ UNCHANGED <<want, listVars>>
    /\ UNCHANGED <<finds, broadcasts, msgVars, stdin, events>>

\* Mutant: findGroupRecv waits without a timeout.
FindTimeout_None(n) == FALSE /\ UNCHANGED vars

\* select runs out after FIND_GROUP_TIMEOUT seconds.
FindTimeout(n) ==
    /\ mode[n] \in {"find", "freed"} /\ reply[n] = <<>>
    /\ EndFind(n)
    /\ UNCHANGED <<listVars, finds, broadcasts, msgVars, stdin, events>>

\* SIGALRM makes select return -1 with the set untouched: the node goes on to a
\* recvfrom that has no timeout (and that signal() makes restart at later alarms).
AlarmInFind(n) ==
    /\ mode[n] = "find" /\ reply[n] = <<>>
    /\ events < MaxEvents /\ More
    /\ events' = events + 1
    /\ mode' = [mode EXCEPT ![n] = "blocked"]
    /\ UNCHANGED <<listVars, stdin, findVars, msgVars>>
-----------------------------------------------------------------------------
\* The user enters a valid option.
Vote(n) ==
    /\ mode[n] = "vote" /\ stdin[n] = "open"
    /\ mode' = [mode EXCEPT ![n] = "loop"]
    /\ UNCHANGED <<listVars, stdin, findVars, msgVars, events>>

\* A turn in which stdin is not ready reads the socket of a group that the list leads to.
\* What a poll asks is displayed too, and its user is asked to vote.
Receive(n, g) ==
    /\ Prompt(n)
    /\ g \in Joined(n)
    /\ sock[n][g] # <<>>
    /\ LET m == Head(sock[n][g]) IN
           /\ shown' = [shown EXCEPT ![n] = @ \cup {[via |-> g, msg |-> m]}]
           /\ mode' = IF m \in polls THEN [mode EXCEPT ![n] = "vote"] ELSE mode
    /\ sock' = [sock EXCEPT ![n][g] = Tail(@)]
    /\ UNCHANGED <<listVars, stdin, findVars, sent, polls, events>>

Next ==
    \E n \in Nodes :
        \/ ListGroups(n) \/ Exit(n) \/ Vote(n)
        \/ BadInput(n) \/ ReadSlip(n)
        \/ AnswerFind(n) \/ FindReply(n) \/ FindTimeout(n) \/ AlarmInFind(n)
        \/ \E g \in Groups : Create(n, g) \/ Leave(n, g) \/ Receive(n, g)
        \/ \E g \in Groups : Send(n, g) \/ InitPoll(n, g)
        \/ \E g \in Groups, join \in BOOLEAN : StartFind(n, g, join)

\* The loop turns while nothing keeps the node: each turn reads one broadcast and one line
\* of stdin, and one with no such line (ReadSlip) or with a command every ready socket of a
\* group.  A find's select times out.  Users need do nothing, not even vote, and alarms
\* need not come.
Fairness ==
    \A n \in Nodes :
        /\ WF_vars(AnswerFind(n)) /\ WF_vars(ReadSlip(n))
        /\ WF_vars(FindReply(n)) /\ WF_vars(FindTimeout(n))
        /\ \A g \in Groups : WF_vars(Receive(n, g))

Spec == Init /\ [][Next]_vars /\ Fairness
-----------------------------------------------------------------------------
(* Properties.                                                             *)

\* Every variable has its type: in particular a reply socket only ever holds names of
\* groups, and only while its find is open.
TypeOK ==
    /\ list \in [Nodes -> Seq(Groups)]
    /\ tail \in [Nodes -> {"last", "off"}]
    /\ count \in [Nodes -> 0 .. Cardinality(Groups)]
    /\ member \in [Nodes -> SUBSET Groups]
    /\ stdin \in [Nodes -> {"open", "slip", "ended"}]
    /\ mode \in [Nodes -> {"loop", "vote", "find", "blocked", "freed", "crashed", "gone"}]
    /\ want \in [Nodes -> [name : Groups, join : BOOLEAN, find : 1 .. MaxFinds] \cup {NoFind}]
    /\ finds \in 0 .. MaxFinds
    /\ broadcasts \in [Nodes -> Seq([from : Nodes, find : 1 .. MaxFinds, name : Groups])]
    /\ reply \in [Nodes -> Seq(Groups)]
    /\ \A n \in Nodes : reply[n] # <<>> => Finding(n)
    /\ sock \in [Nodes -> [Groups -> Seq(1 .. MaxSends)]]
    /\ sent \in 0 .. MaxSends /\ polls \subseteq 1 .. sent
    /\ shown \in [Nodes -> SUBSET [via : Groups, msg : 1 .. MaxSends]]
    /\ events \in 0 .. MaxEvents

\* list-groups prints exactly the groups the kernel has joined, and count says how many
\* (listGroups, getMaxFd and the main loop walk the list, utils.c:454, group_comm.c:353).
\* Checked for users who keep the group they joined last, see KeepLast.
ListMatchesKernel ==
    \A n \in Nodes : /\ Joined(n) = member[n]
                     /\ count[n] = Len(list[n])
                     /\ IsInjective(list[n])

\* "This group is now discoverable by all other clients" (README.md:38): a node in its
\* main loop answers for every group it has created or joined and not left.
Discoverable ==
    \A n \in Nodes : mode[n] = "loop" => member[n] \subseteq Joined(n)

\* A late answer to an earlier find never reaches a later one, whose findGroupRecv would
\* free its buffer and go on using it (utils.c:629-633).
NoStrayReply ==
    \A n \in Nodes : /\ mode[n] \notin {"freed", "crashed"}
                     /\ ToSet(reply[n]) \subseteq {want[n].name}

\* A message that reached a node's socket is displayed unless the node leaves the group
\* or exits; SIGALRM leaves it blocked in a find for good; its stdin ends, and every later
\* turn stops at that (group_comm.c:120-125); or its user never answers a poll.  Lines that
\* are no command cost it a turn each (MaxEvents bounds them: without end they cost it all).
Delivered ==
    \A n \in Nodes, g \in Groups, m \in 1 .. MaxSends :
        (m \in ToSet(sock[n][g]))
            ~> \/ [via |-> g, msg |-> m] \in shown[n]
               \/ g \notin member[n]
               \/ mode[n] = "blocked"
               \/ stdin[n] = "ended"
               \/ [](mode[n] = "vote")
=============================================================================
