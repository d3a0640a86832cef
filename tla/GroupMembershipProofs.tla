----------------------- MODULE GroupMembershipProofs -----------------------
(***************************************************************************)
(* Theorems about GroupMembership, for every set of nodes and every finite *)
(* set of groups, however many messages, polls, finds and alarms there are.*)
(*                                                                         *)
(* That finds do not mix needs nothing of the users: every request that is *)
(* still on its way carries the number of the find that sent it, and that  *)
(* number belongs to a later find of the same node only if the names agree *)
(* (FindInv).  That the list of groups is right needs users who keep the   *)
(* group they joined last (KeepLast): the tail pointer is then right       *)
(* whenever the list is not empty (ListInv).                               *)
(***************************************************************************)
EXTENDS GroupMembership, SeqLemmas

Requests == [from : Nodes, find : 1 .. MaxFinds, name : Groups]
Wants == [name : Groups, join : BOOLEAN, find : 1 .. MaxFinds] \cup {NoFind}

ListTypes == /\ list \in [Nodes -> Seq(Groups)]
             /\ tail \in [Nodes -> {"last", "off"}]
             /\ count \in [Nodes -> Int]
             /\ member \in [Nodes -> SUBSET Groups]

FindTypes == /\ want \in [Nodes -> Wants]
             /\ finds \in 0 .. MaxFinds
             /\ broadcasts \in [Nodes -> Seq(Requests)]
             /\ reply \in [Nodes -> Seq(Groups)]

MsgTypes == /\ sock \in [Nodes -> [Groups -> Seq(1 .. MaxSends)]]
            /\ sent \in 0 .. MaxSends /\ polls \subseteq 1 .. sent
            /\ shown \in [Nodes -> SUBSET [via : Groups, msg : 1 .. MaxSends]]

ModeTypes == /\ mode \in [Nodes -> {"loop", "vote", "find", "blocked", "freed", "crashed", "gone"}]
             /\ stdin \in [Nodes -> {"open", "slip", "ended"}]
             /\ events \in 0 .. MaxEvents

Types == ListTypes /\ FindTypes /\ MsgTypes /\ ModeTypes

\* A request is older than any find to come, and is not taken for the present one.
Fresh(req) == /\ req.find <= finds
              /\ want[req.from].find = req.find => want[req.from].name = req.name

FindInv ==
    /\ \A n \in Nodes : want[n].find <= finds
    /\ \A h \in Nodes : \A req \in ToSet(broadcasts[h]) : Fresh(req)
    /\ \A n \in Nodes : /\ ToSet(reply[n]) \subseteq {want[n].name}
                        /\ reply[n] # <<>> => Finding(n)
                        /\ mode[n] # "freed"

\* The list leads to every group the kernel has joined, and tail to its end.
ListGood(n) == /\ Joined(n) = member[n]
               /\ count[n] = Len(list[n])
               /\ IsInjective(list[n])
               /\ list[n] # <<>> => tail[n] = "last"

ListInv == \A n \in Nodes : ListGood(n)
NoCrash == \A n \in Nodes : mode[n] # "crashed"

IInv == Types /\ FindInv /\ (KeepLast => ListInv /\ NoCrash)
-----------------------------------------------------------------------------
(* The list of groups.                                                     *)

\* Joining a group that is new to the list.
LEMMA JoinKeeps ==
    ASSUME ListTypes, NEW n \in Nodes, NEW g \in Groups, g \notin Joined(n),
           JoinMulticastGroup(n, g)
    PROVE  ListTypes' /\ (ListInv => ListInv')
<1> USE DEF ListTypes, JoinMulticastGroup, InsertMulticastGroup
<1> DEFINE l == list[n]
<1>1. /\ l \in Seq(Groups) /\ Append(l, g) \in Seq(Groups) /\ Len(Append(l, g)) = Len(l) + 1
      /\ Len(l) \in Nat
      /\ ToSet(Append(l, g)) = ToSet(l) \cup {g}
      /\ IsInjective(l) => IsInjective(Append(l, g))
  BY AppendMembers DEF Joined
<1>2. ListTypes'
  BY <1>1
<1>3. ASSUME ListInv, NEW m \in Nodes
      PROVE  ListGood(m)'
  <2>1. CASE m # n
    BY <1>3, <2>1 DEF ListInv, ListGood, Joined
  <2>2. CASE m = n
    <3>1. count[n] = Len(l) /\ (l # <<>> => tail[n] = "last")
      BY <1>3 DEF ListInv, ListGood
    <3>2. count[n] = 0 \/ tail[n] = "last"
      BY <1>1, <3>1
    <3>3. list'[n] = Append(l, g) /\ count'[n] = count[n] + 1 /\ tail'[n] = "last"
      BY <3>2
    <3>4. member'[n] = member[n] \cup {g}
      OBVIOUS
    <3> QED BY <1>1, <1>3, <2>2, <3>1, <3>3, <3>4 DEF ListInv, ListGood, Joined
  <2> QED BY <2>1, <2>2
<1> QED BY <1>2, <1>3 DEF ListInv

\* Leaving a group that is not the last of several.
LEMMA LeaveKeeps ==
    ASSUME ListTypes, NEW n \in Nodes, NEW g \in Groups, g \in Joined(n),
           LeaveMulticastGroup(n, g)
    PROVE  /\ ListTypes'
           /\ ListInv /\ (count[n] > 1 => g # Last(list[n])) => ListInv'
<1> USE DEF ListTypes
<1> DEFINE l == list[n]
<1>1. PICK k \in DOMAIN l : l[k] = g /\ list' = [list EXCEPT ![n] = RemoveAt(l, k)]
  BY DEF LeaveMulticastGroup, RemoveMulticastGroup
<1>2. /\ l \in Seq(Groups) /\ k \in 1 .. Len(l) /\ Len(l) \in Nat
      /\ RemoveAt(l, k) \in Seq(Groups) /\ Len(RemoveAt(l, k)) = Len(l) - 1
      /\ IsInjective(l) => /\ ToSet(RemoveAt(l, k)) = ToSet(l) \ {g}
                           /\ IsInjective(RemoveAt(l, k))
  <2>1. l \in Seq(Groups) /\ k \in 1 .. Len(l)
    BY <1>1
  <2> QED BY <1>1, <2>1, RemoveAtPositions, RemoveAtMembers
<1>3. /\ tail' = IF g = Last(l) THEN [tail EXCEPT ![n] = "off"] ELSE tail
      /\ count' = [count EXCEPT ![n] = @ - 1]
      /\ member' = [member EXCEPT ![n] = @ \ {g}]
  BY DEF LeaveMulticastGroup, RemoveMulticastGroup
<1>4. ListTypes'
  <2>1. tail' \in [Nodes -> {"last", "off"}]
    BY <1>3
  <2>2. list' \in [Nodes -> Seq(Groups)]
    BY <1>1, <1>2
  <2>3. count' \in [Nodes -> Int] /\ member' \in [Nodes -> SUBSET Groups]
    BY <1>3
  <2> QED BY <2>1, <2>2, <2>3
<1>5. ASSUME ListInv, count[n] > 1 => g # Last(l), NEW m \in Nodes
      PROVE  ListGood(m)'
  <2>1. CASE m # n
    BY <1>1, <1>3, <1>5, <2>1 DEF ListInv, ListGood, Joined
  <2>2. CASE m = n
    <3>1. ListGood(n)
      BY <1>5 DEF ListInv
    <3>2. list'[n] = RemoveAt(l, k) /\ count'[n] = count[n] - 1 /\ member'[n] = member[n] \ {g}
      BY <1>1, <1>3
    <3>3. list'[n] # <<>> => tail'[n] = "last"
      <4>1. CASE Len(l) > 1
        BY <1>2, <1>3, <1>5, <3>1, <4>1 DEF ListGood
      <4>2. CASE Len(l) = 1
        BY <1>2, <3>2, <4>2
      <4> QED BY <1>2, <4>1, <4>2
    <3> QED BY <1>2, <2>2, <3>1, <3>2, <3>3 DEF ListGood, Joined
  <2> QED BY <2>1, <2>2
<1> QED BY <1>4, <1>5 DEF ListInv
-----------------------------------------------------------------------------
(* Frames.                                                                 *)

\* Steps that leave the list alone.
LEMMA ListFrame ==
    ASSUME IInv, UNCHANGED listVars
    PROVE  ListTypes' /\ (KeepLast => ListInv')
BY DEF IInv, Types, ListTypes, ListInv, ListGood, Joined, listVars

\* Steps that leave the finds alone, and keep nodes that find in a find.
LEMMA FindFrame ==
    ASSUME IInv, UNCHANGED findVars, \A n \in Nodes : Finding(n) => Finding(n)',
           \A n \in Nodes : mode'[n] # "freed"
    PROVE  FindTypes' /\ FindInv'
BY DEF IInv, Types, FindTypes, FindInv, Fresh, findVars
-----------------------------------------------------------------------------
(* The steps.                                                              *)

\* A message on its way.
LEMMA MulticastTypes ==
    ASSUME MsgTypes, NEW n \in Nodes, NEW g \in Groups, Multicast(n, g), shown' = shown,
           polls' = polls \/ polls' = polls \cup {sent'}
    PROVE  MsgTypes'
<1> USE SetupAssumption
<1>1. PICK reached \in SUBSET (Nodes \ {n}) :
        sock' = [h \in Nodes |-> [k \in Groups |->
                   IF h \in reached /\ k \in Hearing(h, g) THEN Append(sock[h][k], sent')
                   ELSE sock[h][k]]]
  BY DEF Multicast
<1>2. sent' \in 1 .. MaxSends /\ sent' = sent + 1 /\ sent \in Nat
  BY DEF Multicast, MsgTypes
<1>3. \A h \in Nodes, k \in Groups : sock[h][k] \in Seq(1 .. MaxSends)
                                     /\ Append(sock[h][k], sent') \in Seq(1 .. MaxSends)
  BY <1>2 DEF MsgTypes
<1>4. sock' \in [Nodes -> [Groups -> Seq(1 .. MaxSends)]]
  <2>1. \A h \in Nodes, k \in Groups : sock'[h][k] \in Seq(1 .. MaxSends)
    BY <1>1, <1>3
  <2>2. sock' = [h \in Nodes |-> [k \in Groups |-> sock'[h][k]]]
    BY <1>1
  <2> QED BY <2>1, <2>2
<1>5. polls' \subseteq 1 .. sent'
  <2> SUFFICES ASSUME NEW m \in polls'
               PROVE  m \in 1 .. sent'
    OBVIOUS
  <2>1. m \in 1 .. sent \/ m = sent'
    BY DEF MsgTypes
  <2> QED BY <1>2, <2>1
<1> QED BY <1>2, <1>4, <1>5 DEF MsgTypes

\* Commands but for the start of a find.
LEMMA CommandStep ==
    ASSUME IInv, NEW n \in Nodes, NEW g \in Groups,
           Create(n, g) \/ Leave(n, g) \/ Send(n, g) \/ InitPoll(n, g) \/ Receive(n, g)
    PROVE  IInv'
<1> USE SetupAssumption
<1>1. CASE Create(n, g)
  <2>1. ListTypes' /\ (KeepLast => ListInv')
    BY <1>1, JoinKeeps DEF Create, InitMulticastGroup, IInv, Types
  <2>2. FindTypes' /\ FindInv'
    BY <1>1, FindFrame DEF Create, Finding, IInv, FindInv
  <2> QED BY <1>1, <2>1, <2>2
          DEF Create, msgVars, IInv, Types, MsgTypes, ModeTypes, NoCrash
<1>2. CASE Leave(n, g)
  <2>1. ListTypes' /\ (KeepLast => ListInv')
    BY <1>2, LeaveKeeps DEF Leave, IInv, Types
  <2>2. FindTypes' /\ FindInv'
    BY <1>2, FindFrame DEF Leave, Finding, IInv, FindInv
  <2>3. MsgTypes'
    BY <1>2 DEF Leave, LeaveMulticastGroup, IInv, Types, MsgTypes
  <2> QED BY <1>2, <2>1, <2>2, <2>3 DEF Leave, IInv, Types, ModeTypes, NoCrash
<1>3. CASE Send(n, g)
  <2>1. ListTypes' /\ (KeepLast => ListInv')
    BY <1>3, ListFrame DEF Send
  <2>2. FindTypes' /\ FindInv'
    BY <1>3, FindFrame DEF Send, Finding, IInv, FindInv
  <2>3. MsgTypes'
    BY <1>3, MulticastTypes DEF Send, IInv, Types
  <2> QED BY <1>3, <2>1, <2>2, <2>3 DEF Send, IInv, Types, ModeTypes, NoCrash
<1>5. CASE InitPoll(n, g)
  <2>1. ListTypes' /\ (KeepLast => ListInv')
    BY <1>5, ListFrame DEF InitPoll
  <2>2. FindTypes' /\ FindInv'
    BY <1>5, FindFrame DEF InitPoll, Finding, IInv, FindInv
  <2>3. MsgTypes'
    BY <1>5, MulticastTypes DEF InitPoll, IInv, Types
  <2> QED BY <1>5, <2>1, <2>2, <2>3 DEF InitPoll, IInv, Types, ModeTypes, NoCrash
<1>4. CASE Receive(n, g)
  <2>1. ListTypes' /\ (KeepLast => ListInv')
    BY <1>4, ListFrame DEF Receive
  <2>2. /\ mode[n] = "loop"
        /\ mode' = mode \/ mode' = [mode EXCEPT ![n] = "vote"]
    BY <1>4 DEF Receive, Prompt
  <2>3. FindTypes' /\ FindInv'
    <3>1. \A h \in Nodes : /\ Finding(h) => Finding(h)'
                          /\ mode'[h] # "freed"
      BY <2>2 DEF Finding, IInv, FindInv, Types, ModeTypes
    <3> QED BY <1>4, <3>1, FindFrame DEF Receive
  <2>4. MsgTypes'
    <3>1. /\ sock[n][g] \in Seq(1 .. MaxSends) /\ sock[n][g] # <<>>
          /\ Head(sock[n][g]) \in 1 .. MaxSends /\ Tail(sock[n][g]) \in Seq(1 .. MaxSends)
      <4>1. sock[n][g] \in Seq(1 .. MaxSends) /\ sock[n][g] # <<>>
        BY <1>4 DEF Receive, IInv, Types, MsgTypes
      <4> QED BY <4>1, HeadTailProperties
    <3>2. sock' \in [Nodes -> [Groups -> Seq(1 .. MaxSends)]]
      BY <1>4, <3>1 DEF Receive, IInv, Types, MsgTypes
    <3>3. [via |-> g, msg |-> Head(sock[n][g])] \in [via : Groups, msg : 1 .. MaxSends]
      BY <3>1
    <3>4. shown' \in [Nodes -> SUBSET [via : Groups, msg : 1 .. MaxSends]]
      BY <1>4, <3>3 DEF Receive, IInv, Types, MsgTypes
    <3> QED BY <1>4, <3>2, <3>4 DEF Receive, IInv, Types, MsgTypes
  <2>5. ModeTypes' /\ (NoCrash => NoCrash')
    BY <1>4, <2>2 DEF Receive, IInv, Types, ModeTypes, NoCrash
  <2> QED BY <2>1, <2>3, <2>4, <2>5 DEF IInv, Types
<1> QED BY <1>1, <1>2, <1>3, <1>4, <1>5

\* Votes, and lines that are no command.
LEMMA InputStep ==
    ASSUME IInv, NEW n \in Nodes, Vote(n) \/ BadInput(n) \/ ReadSlip(n)
    PROVE  IInv'
<1>1. /\ UNCHANGED <<listVars, findVars, msgVars>>
      /\ mode' = mode \/ (mode[n] = "vote" /\ mode' = [mode EXCEPT ![n] = "loop"])
  BY DEF Vote, BadInput, ReadSlip
<1>2. ListTypes' /\ (KeepLast => ListInv')
  BY <1>1, ListFrame
<1>3. FindTypes' /\ FindInv'
  <2>1. \A h \in Nodes : /\ Finding(h) => Finding(h)'
                        /\ mode'[h] # "freed"
    BY <1>1 DEF Finding, IInv, FindInv, Types, ModeTypes
  <2> QED BY <1>1, <2>1, FindFrame
<1>4. stdin' \in [Nodes -> {"open", "slip", "ended"}] /\ events' \in 0 .. MaxEvents
  BY SetupAssumption DEF Vote, BadInput, ReadSlip, IInv, Types, ModeTypes
<1>5. ModeTypes' /\ (NoCrash => NoCrash')
  BY <1>1, <1>4 DEF IInv, Types, ModeTypes, NoCrash
<1> QED BY <1>1, <1>2, <1>3, <1>5 DEF msgVars, IInv, Types, MsgTypes

\* list-groups, which runs past a list that is shorter than its count.
LEMMA ListGroupsStep ==
    ASSUME IInv, NEW n \in Nodes, ListGroups(n)
    PROVE  IInv'
<1>1. ListTypes' /\ (KeepLast => ListInv')
  BY ListFrame DEF ListGroups
<1>2. /\ mode' \in [Nodes -> {"loop", "vote", "find", "blocked", "freed", "crashed", "gone"}]
      /\ \A h \in Nodes : mode'[h] # mode[h] => h = n /\ mode[n] = "loop" /\ mode'[n] = "crashed"
      /\ count[n] = Len(list[n]) => mode' = mode
  BY DEF ListGroups, Prompt, IInv, Types, ModeTypes, ListTypes
<1>3. FindTypes' /\ FindInv'
  BY <1>2, FindFrame DEF ListGroups, Finding, IInv, FindInv
<1>4. KeepLast => NoCrash'
  BY <1>2 DEF IInv, ListInv, ListGood, NoCrash
<1> QED BY <1>1, <1>2, <1>3, <1>4
          DEF ListGroups, msgVars, IInv, Types, MsgTypes, ModeTypes

\* An exit takes the node's groups and requests with it.
LEMMA ExitStep ==
    ASSUME IInv, NEW n \in Nodes, Exit(n)
    PROVE  IInv'
<1> USE DEF Exit
<1>1. ListTypes'
  BY DEF IInv, Types, ListTypes
<1>2. ASSUME KeepLast, NEW m \in Nodes
      PROVE  ListGood(m)'
  <2>1. CASE m # n
    BY <1>2, <2>1 DEF IInv, Types, ListTypes, ListInv, ListGood, Joined
  <2>2. CASE m = n
    <3>1. list'[m] = <<>> /\ count'[m] = 0 /\ member'[m] = {}
      BY <2>2 DEF IInv, Types, ListTypes
    <3>2. ToSet(<<>>) = {} /\ IsInjective(<<>>)
      BY DEF ToSet, IsInjective
    <3> QED BY <3>1, <3>2 DEF ListGood, Joined
  <2> QED BY <2>1, <2>2
<1>3. FindTypes'
  BY DEF IInv, Types, FindTypes
<1>4. FindInv'
  <2>1. \A h \in Nodes : Finding(h) => Finding(h)'
    BY DEF Finding, IInv, Types, ModeTypes
  <2>2. \A h \in Nodes : \A req \in ToSet(broadcasts'[h]) : req \in ToSet(broadcasts[h])
    BY DEF IInv, Types, FindTypes, ToSet
  <2>3. \A h \in Nodes : mode'[h] # "freed"
    BY DEF IInv, FindInv, Types, ModeTypes
  <2> QED BY <2>1, <2>2, <2>3 DEF IInv, FindInv, Fresh
<1>5. MsgTypes' /\ ModeTypes'
  BY DEF IInv, Types, MsgTypes, ModeTypes
<1>6. KeepLast => NoCrash'
  BY DEF IInv, Types, ModeTypes, NoCrash
<1> QED BY <1>1, <1>2, <1>3, <1>4, <1>5, <1>6 DEF IInv, Types, ListInv
-----------------------------------------------------------------------------
(* Finding a group.                                                        *)

\* A find has a number; a node that does not seek has none.
LEMMA WantFind ==
    /\ NoFind.find = 0
    /\ \A w \in Wants : w.find \in Nat
<1>1. NoFind.find = 0
  BY DEF NoFind
<1> QED BY <1>1 DEF Wants

\* A find takes a number that no request has carried.
LEMMA StartFindStep ==
    ASSUME IInv, NEW n \in Nodes, NEW g \in Groups, NEW join \in BOOLEAN, StartFind(n, g, join)
    PROVE  IInv'
<1> DEFINE req == [from |-> n, find |-> finds', name |-> g]
<1> USE SetupAssumption
<1>1. /\ finds \in Nat /\ finds' = finds + 1 /\ finds' \in 1 .. MaxFinds
      /\ mode[n] = "loop" /\ mode' = [mode EXCEPT ![n] = "find"]
      /\ want' = [want EXCEPT ![n] = [name |-> g, join |-> join, find |-> finds']]
      /\ UNCHANGED <<listVars, reply, msgVars, stdin, events>>
  BY DEF StartFind, Prompt, IInv, Types, FindTypes
<1>2. /\ req \in Requests
      /\ \A h \in Nodes : /\ broadcasts[h] \in Seq(Requests)
                          /\ Append(broadcasts[h], req) \in Seq(Requests)
                          /\ ToSet(Append(broadcasts[h], req)) = ToSet(broadcasts[h]) \cup {req}
  <2>1. req \in Requests
    BY <1>1 DEF Requests
  <2>2. \A h \in Nodes : broadcasts[h] \in Seq(Requests)
    BY DEF IInv, Types, FindTypes
  <2> HIDE DEF req
  <2> QED BY <2>1, <2>2, AppendMembers
<1>3. \A h \in Nodes : broadcasts'[h] = <<>> \/ broadcasts'[h] = Append(broadcasts[h], req)
  BY DEF StartFind, FindGroupSend
<1>4. req.find = finds' /\ req.name = g /\ req.from = n
  OBVIOUS
<1>5. ToSet(<<>>) = {} /\ <<>> \in Seq(Requests)
  BY DEF ToSet
<1>6. broadcasts' = [h \in Nodes |-> broadcasts'[h]]
  BY DEF StartFind, FindGroupSend
<1> HIDE DEF req
<1>7. FindTypes'
  <2>1. broadcasts' \in [Nodes -> Seq(Requests)]
    <3>1. \A h \in Nodes : broadcasts'[h] \in Seq(Requests)
      BY <1>2, <1>3, <1>5
    <3> QED BY <1>6, <3>1
  <2>2. want' \in [Nodes -> Wants]
    BY <1>1 DEF IInv, Types, FindTypes, Wants
  <2> QED BY <1>1, <2>1, <2>2 DEF IInv, Types, FindTypes
<1>8. FindInv'
  <2>1. \A m \in Nodes : want'[m].find <= finds'
    <3>1. \A m \in Nodes : want[m].find \in Int /\ want[m].find <= finds
      BY WantFind DEF IInv, FindInv, Types, FindTypes
    <3> QED BY <1>1, <3>1 DEF IInv, Types, FindTypes
  <2>2. ASSUME NEW h \in Nodes, NEW q \in ToSet(broadcasts'[h])
        PROVE  Fresh(q)'
    <3>1. CASE q = req
      BY <1>1, <1>4, <3>1 DEF Fresh, IInv, Types, FindTypes
    <3>2. CASE q # req
      <4>1. q \in ToSet(broadcasts[h])
        <5>1. broadcasts'[h] # <<>>
          BY <1>5, <2>2
        <5>2. ToSet(broadcasts'[h]) = ToSet(broadcasts[h]) \cup {req}
          BY <1>2, <1>3, <5>1
        <5> QED BY <2>2, <3>2, <5>2
      <4>2. Fresh(q) /\ q.find \in Int /\ q.from \in Nodes
        <5>1. q \in Requests
          BY <1>2, <4>1, ToSetDef
        <5> QED BY <4>1, <5>1 DEF IInv, FindInv, Requests
      <4> QED BY <1>1, <4>2 DEF Fresh, IInv, Types, FindTypes
    <3> QED BY <3>1, <3>2
  <2>3. ASSUME NEW m \in Nodes
        PROVE  /\ ToSet(reply'[m]) \subseteq {want'[m].name}
               /\ reply'[m] # <<>> => Finding(m)'
               /\ mode'[m] # "freed"
    <3>1. CASE m # n
      BY <1>1, <3>1 DEF IInv, FindInv, Finding, Types, FindTypes, ModeTypes
    <3>2. CASE m = n
      <4>1. reply'[n] = <<>> /\ mode'[n] = "find"
        BY <1>1 DEF IInv, FindInv, Finding, Types, ModeTypes
      <4> QED BY <1>5, <3>2, <4>1
    <3> QED BY <3>1, <3>2
  <2> QED BY <2>1, <2>2, <2>3 DEF FindInv
<1>9. ListTypes' /\ (KeepLast => ListInv')
  BY <1>1, ListFrame
<1> QED BY <1>1, <1>7, <1>8, <1>9 DEF msgVars, IInv, Types, MsgTypes, ModeTypes, NoCrash

\* An answer reaches only the find it was asked for, which seeks that name.
LEMMA AnswerStep ==
    ASSUME IInv, NEW n \in Nodes, AnswerFind(n)
    PROVE  IInv'
<1> DEFINE req == Head(broadcasts[n])
<1>1. /\ mode[n] = "loop"
      /\ broadcasts' = [broadcasts EXCEPT ![n] = Tail(broadcasts[n])]
      /\ PutReply(req) \/ reply' = reply
      /\ UNCHANGED <<listVars, mode, want, finds, msgVars, stdin, events>>
  BY DEF AnswerFind
<1>2. /\ req \in Requests /\ req \in ToSet(broadcasts[n])
      /\ Tail(broadcasts[n]) \in Seq(Requests)
      /\ ToSet(Tail(broadcasts[n])) \subseteq ToSet(broadcasts[n])
  <2>1. broadcasts[n] \in Seq(Requests) /\ broadcasts[n] # <<>>
    BY DEF AnswerFind, IInv, Types, FindTypes
  <2> QED BY <2>1, TailMembers
<1>3. Fresh(req) /\ req.from \in Nodes /\ req.name \in Groups
  BY <1>2 DEF IInv, FindInv, Requests
<1> HIDE DEF req
<1>4. CASE reply' = reply
  <2>1. FindTypes'
    BY <1>1, <1>2, <1>4 DEF IInv, Types, FindTypes
  <2>2. \A h \in Nodes : ToSet(broadcasts'[h]) \subseteq ToSet(broadcasts[h])
    BY <1>1, <1>2 DEF IInv, Types, FindTypes
  <2>3. FindInv'
    BY <1>1, <1>4, <2>2 DEF IInv, FindInv, Fresh, Finding
  <2> QED BY <1>1, <2>1, <2>3, ListFrame DEF msgVars, IInv, Types, MsgTypes, ModeTypes, NoCrash
<1>5. CASE /\ Finding(req.from) /\ want[req.from].find = req.find
           /\ reply' = [reply EXCEPT ![req.from] = Append(@, req.name)]
  <2> DEFINE f == req.from
  <2>1. /\ f \in Nodes /\ reply[f] \in Seq(Groups) /\ Append(reply[f], req.name) \in Seq(Groups)
        /\ ToSet(Append(reply[f], req.name)) = ToSet(reply[f]) \cup {req.name}
    BY <1>3, AppendMembers DEF IInv, Types, FindTypes
  <2>2. FindTypes'
    BY <1>1, <1>2, <1>5, <2>1 DEF IInv, Types, FindTypes
  <2>3. \A h \in Nodes : ToSet(broadcasts'[h]) \subseteq ToSet(broadcasts[h])
    BY <1>1, <1>2 DEF IInv, Types, FindTypes
  <2>4. want[f].name = req.name
    BY <1>3, <1>5 DEF Fresh
  <2>5. ASSUME NEW m \in Nodes
        PROVE  /\ ToSet(reply'[m]) \subseteq {want'[m].name}
               /\ reply'[m] # <<>> => Finding(m)'
               /\ mode'[m] # "freed"
    <3>1. CASE m # f
      BY <1>1, <1>5, <3>1 DEF IInv, FindInv, Finding, Types, FindTypes
    <3>2. CASE m = f
      <4>1. reply'[f] = Append(reply[f], req.name)
        BY <1>5, <2>1 DEF IInv, Types, FindTypes
      <4>2. ToSet(reply[f]) \subseteq {want[f].name} /\ mode[f] # "freed"
        BY <2>1 DEF IInv, FindInv
      <4> QED BY <1>1, <1>5, <2>1, <2>4, <3>2, <4>1, <4>2 DEF Finding
    <3> QED BY <3>1, <3>2
  <2>6. FindInv'
    BY <1>1, <2>3, <2>5 DEF IInv, FindInv, Fresh
  <2> QED BY <1>1, <2>2, <2>6, ListFrame DEF msgVars, IInv, Types, MsgTypes, ModeTypes, NoCrash
<1> QED BY <1>1, <1>4, <1>5 DEF PutReply

\* The end of a find, whatever becomes of the list.
LEMMA EndFindKeeps ==
    ASSUME IInv, NEW n \in Nodes, EndFind(n), UNCHANGED <<finds, broadcasts>>
    PROVE  FindTypes' /\ FindInv' /\ (NoCrash => NoCrash')
           /\ mode' \in [Nodes -> {"loop", "vote", "find", "blocked", "freed", "crashed", "gone"}]
<1> USE DEF EndFind
<1>1. FindTypes'
  BY DEF IInv, Types, FindTypes, Wants
<1>2. \A m \in Nodes : want'[m].find <= finds'
  BY SetupAssumption, WantFind DEF IInv, FindInv, Types, FindTypes
<1>3. ASSUME NEW h \in Nodes, NEW q \in ToSet(broadcasts'[h])
      PROVE  Fresh(q)'
  <2>1. q \in Requests /\ Fresh(q)
    BY <1>3, ToSetDef DEF IInv, FindInv, Types, FindTypes
  <2> QED BY <2>1, WantFind DEF Fresh, Requests, IInv, Types, FindTypes
<1>4. ASSUME NEW m \in Nodes
      PROVE  /\ ToSet(reply'[m]) \subseteq {want'[m].name}
             /\ reply'[m] # <<>> => Finding(m)'
             /\ mode'[m] # "freed"
  <2>1. CASE m # n
    BY <2>1 DEF IInv, FindInv, Finding, Types, FindTypes, ModeTypes
  <2>2. CASE m = n
    <3>1. reply'[n] = <<>> /\ mode'[n] = "loop"
      BY DEF IInv, Types, FindTypes, ModeTypes
    <3>2. ToSet(<<>>) = {}
      BY DEF ToSet
    <3> QED BY <2>2, <3>1, <3>2
  <2> QED BY <2>1, <2>2
<1>5. NoCrash => NoCrash'
  BY DEF NoCrash, IInv, Types, ModeTypes
<1>6. mode' \in [Nodes -> {"loop", "vote", "find", "blocked", "freed", "crashed", "gone"}]
  BY DEF IInv, Types, ModeTypes
<1> QED BY <1>1, <1>2, <1>3, <1>4, <1>5, <1>6 DEF FindInv

\* A find takes its answer, which is for it.
LEMMA FindReplyStep ==
    ASSUME IInv, NEW n \in Nodes, FindReply(n)
    PROVE  IInv'
<1>1. /\ reply[n] \in Seq(Groups) /\ reply[n] # <<>> /\ want[n] \in Wants
      /\ ToSet(reply[n]) \subseteq {want[n].name} /\ mode[n] # "freed"
  BY DEF FindReply, IInv, FindInv, Types, FindTypes
<1>2. Head(reply[n]) = want[n].name /\ Head(reply[n]) \in Groups
  BY <1>1, TailMembers
<1>3. /\ EndFind(n) /\ Found(n, Head(reply[n]))
      /\ UNCHANGED <<finds, broadcasts, msgVars, stdin, events>>
  BY <1>1, <1>2 DEF FindReply
<1>4. ListTypes' /\ (KeepLast => ListInv')
  <2>1. CASE UNCHANGED listVars
    BY <2>1, ListFrame
  <2>2. CASE /\ Head(reply[n]) \notin Joined(n)
             /\ JoinMulticastGroup(n, Head(reply[n]))
    BY <1>2, <2>2, JoinKeeps DEF IInv, Types
  <2> QED BY <1>3, <2>1, <2>2 DEF Found, InitMulticastGroup
<1> QED BY <1>3, <1>4, EndFindKeeps DEF msgVars, IInv, Types, MsgTypes, ModeTypes

\* The other ends of a find's wait.
LEMMA WaitStep ==
    ASSUME IInv, NEW n \in Nodes, FindTimeout(n) \/ AlarmInFind(n)
    PROVE  IInv'
<1>1. CASE FindTimeout(n)
  <2>1. ListTypes' /\ (KeepLast => ListInv')
    BY <1>1, ListFrame DEF FindTimeout
  <2> QED BY <1>1, <2>1, EndFindKeeps
          DEF FindTimeout, msgVars, IInv, Types, MsgTypes, ModeTypes
<1>2. CASE AlarmInFind(n)
  <2>1. ListTypes' /\ (KeepLast => ListInv')
    BY <1>2, ListFrame DEF AlarmInFind
  <2>2. FindTypes' /\ FindInv'
    BY <1>2, FindFrame DEF AlarmInFind, Finding, IInv, FindInv, Types, ModeTypes
  <2>3. ModeTypes'
    BY <1>2, SetupAssumption DEF AlarmInFind, IInv, Types, ModeTypes
  <2> QED BY <1>2, <2>1, <2>2, <2>3
          DEF AlarmInFind, msgVars, IInv, Types, MsgTypes, ModeTypes, NoCrash
<1> QED BY <1>1, <1>2
-----------------------------------------------------------------------------
(* The invariant.                                                          *)

\* Initially nobody has joined or sought a group.
LEMMA InitInv == Init => IInv
<1> SUFFICES ASSUME Init
             PROVE  IInv
  OBVIOUS
<1> USE SetupAssumption DEF Init
<1>1. ToSet(<<>>) = {} /\ IsInjective(<<>>)
  BY DEF ToSet, IsInjective
<1>2. ListTypes /\ FindTypes /\ MsgTypes /\ ModeTypes
  <2>1. FindTypes
    BY DEF FindTypes, Wants
  <2>2. ListTypes
    BY DEF ListTypes
  <2>3. MsgTypes
    BY DEF MsgTypes
  <2> QED BY <2>1, <2>2, <2>3 DEF ModeTypes
<1>3. FindInv
  BY <1>1, WantFind DEF FindInv
<1>4. ListInv /\ NoCrash
  BY <1>1 DEF ListInv, ListGood, Joined, NoCrash
<1> QED BY <1>2, <1>3, <1>4 DEF IInv, Types

\* Every step keeps it.
LEMMA StepInv == IInv /\ [Next]_vars => IInv'
<1> SUFFICES ASSUME IInv, [Next]_vars
             PROVE  IInv'
  OBVIOUS
<1>1. ASSUME NEW n \in Nodes, NEW g \in Groups,
             Create(n, g) \/ Leave(n, g) \/ Send(n, g) \/ InitPoll(n, g) \/ Receive(n, g)
      PROVE  IInv'
  BY <1>1, CommandStep
<1>2. ASSUME NEW n \in Nodes,
             \/ ListGroups(n) \/ Exit(n) \/ Vote(n) \/ BadInput(n) \/ ReadSlip(n)
             \/ AnswerFind(n) \/ FindReply(n) \/ FindTimeout(n) \/ AlarmInFind(n)
      PROVE  IInv'
  BY <1>2, ListGroupsStep, ExitStep, InputStep, AnswerStep, FindReplyStep, WaitStep
<1>3. ASSUME NEW n \in Nodes, NEW g \in Groups, NEW join \in BOOLEAN, StartFind(n, g, join)
      PROVE  IInv'
  BY <1>3, StartFindStep
<1>4. CASE UNCHANGED vars
  <2>1. ListTypes' /\ (KeepLast => ListInv')
    BY <1>4, ListFrame DEF vars
  <2>2. FindTypes' /\ FindInv'
    BY <1>4, FindFrame DEF vars, Finding, IInv, FindInv
  <2> QED BY <1>4, <2>1, <2>2 DEF vars, msgVars, IInv, Types, MsgTypes, ModeTypes, NoCrash
<1> QED BY <1>1, <1>2, <1>3, <1>4 DEF Next

\* Requests and answers stay with their find; the list, for users who keep the
\* group they joined last, stays whole.
THEOREM InvHolds == Spec => []IInv
<1> QED BY InitInv, StepInv, PTL DEF Spec
-----------------------------------------------------------------------------
(* What follows from it.                                                   *)

\* Whatever users do, an answer is only ever read by the find that asked for it:
\* findGroupRecv never frees its buffer and waits on.
RepliesMatch ==
    \A n \in Nodes : mode[n] # "freed" /\ ToSet(reply[n]) \subseteq {want[n].name}

\* ... in every run, with any users.
THEOREM RepliesMatchHolds == Spec => []RepliesMatch
<1>1. IInv => RepliesMatch
  BY DEF IInv, FindInv, RepliesMatch
<1> QED BY <1>1, InvHolds, PTL

\* No node dies in findGroupRecv or listGroups, and answers stay with their find,
\* when users keep the group they joined last.
THEOREM NoStrayReplyHolds ==
    ASSUME KeepLast
    PROVE  Spec => []NoStrayReply
<1>1. IInv => NoStrayReply
  BY DEF IInv, FindInv, NoCrash, NoStrayReply
<1> QED BY <1>1, InvHolds, PTL

\* For such users the list, its count and the kernel's memberships agree.
THEOREM ListMatchesKernelHolds ==
    ASSUME KeepLast
    PROVE  Spec => []ListMatchesKernel
<1>1. IInv => ListMatchesKernel
  BY DEF IInv, ListInv, ListGood, ListMatchesKernel
<1> QED BY <1>1, InvHolds, PTL

\* For such users every variable has its type: the count never passes the number
\* of groups.
THEOREM TypeHolds ==
    ASSUME KeepLast
    PROVE  Spec => []TypeOK
<1>1. ASSUME IInv
      PROVE  TypeOK
  <2>1. ASSUME NEW n \in Nodes
        PROVE  count[n] \in 0 .. Cardinality(Groups)
    <3>1. /\ list[n] \in Seq(Groups) /\ IsInjective(list[n]) /\ count[n] = Len(list[n])
      BY <1>1 DEF IInv, Types, ListTypes, ListInv, ListGood
    <3>2. Len(list[n]) \in Nat /\ Cardinality(Groups) \in Nat
      BY <3>1, SetupAssumption, FS_CardinalityType
    <3>3. Len(list[n]) <= Cardinality(Groups)
      BY <3>1, SetupAssumption, InjectiveLength
    <3> QED BY <3>1, <3>2, <3>3
  <2>2. count \in [Nodes -> 0 .. Cardinality(Groups)]
    BY <1>1, <2>1 DEF IInv, Types, ListTypes
  <2> QED BY <1>1, <2>2
          DEF IInv, Types, ListTypes, FindTypes, MsgTypes, ModeTypes, FindInv, Requests, Wants, TypeOK
<1> QED BY <1>1, InvHolds, PTL
=============================================================================
