------------------------- MODULE FileSharingProofs -------------------------
(***************************************************************************)
(* Theorems about FileSharing, for every number of nodes, groups and       *)
(* files, every table size and every number of events.                     *)
(*                                                                         *)
(* file_names and the directory ./files meet again after a request because *)
(* the child that exits is the one the request forked.  The invariant      *)
(* therefore follows the children of a node and the requests that name     *)
(* them.                                                                   *)
(***************************************************************************)
EXTENDS FileSharing, SeqLemmas

Request == [type : {"req"}, file : Files, from : Nodes, kid : Nat]
List == [type : {"list"}, files : Seq(Files) \ {<<>>}, groups : SUBSET Groups, count : Nat]
Message == Request \cup List \cup [type : {"poll"}]
Work == [list : List, i : Nat, passed : Nat, step : {"get", "pass"}]
Sockets == [Nodes -> [Groups -> Seq(Message)]]

DataTypes ==
    /\ setup \in Setups
    /\ files \in [Nodes -> Seq(Files)] /\ disk \in [Nodes -> SUBSET Files]
    /\ events \in 0 .. setup.events /\ polled \subseteq Nodes /\ broken \subseteq Files

\* A node works on the files of a list one after the other.
WorkInv ==
    /\ DOMAIN handling = Nodes
    /\ \A n \in Nodes : handling[n] # None =>
           handling[n] \in Work /\ handling[n].i \in 1 .. Len(handling[n].list.files)

\* A node that waits has asked for a file that its table has room for.
WaitInv ==
    /\ mode \in [Nodes -> {"loop", "wait", "vote"}] /\ asking \in [Nodes -> Files \cup {None}]
    /\ \A n \in Nodes :
           /\ mode[n] = "wait" <=> asking[n] # None
           /\ mode[n] = "wait" => Len(files[n]) < MaxFiles
           /\ Len(files[n]) <= MaxFiles

\* The children of a node are numbered, and only one with a file is ever connected.
KidInv ==
    /\ kids \in [Nodes -> SUBSET Kid] /\ forks \in [Nodes -> Nat]
    /\ \A n \in Nodes : \A k \in kids[n] :
           /\ k.id <= forks[n]
           /\ k.kind = "file" => k.file \in Files
           /\ k.st = "connected" => k.kind = "file"

\* A request names a child that was forked for a file.
Names(m) == m.type = "req" => /\ m.kid <= forks[m.from]
                              /\ \A k \in kids[m.from] : k.id = m.kid => k.kind = "file"
SockInv ==
    /\ sock \in Sockets
    /\ \A h \in Nodes, g \in Groups : \A m \in ToSet(sock[h][g]) : Names(m)

\* A node without polls has one child while it waits, for the file it asked for, and none
\* otherwise; the directory is ahead of the table by the file that child has written.
SyncInv ==
    \A n \in Nodes \ polled :
        /\ IsInjective(files[n])
        /\ mode[n] # "wait" => kids[n] = {} /\ disk[n] = Listed(n)
        /\ mode[n] = "wait" =>
               /\ asking[n] \notin Listed(n)
               /\ \E k \in kids[n] : /\ kids[n] = {k} /\ k.kind = "file" /\ k.file = asking[n]
                                     /\ disk[n] = IF k.st = "success" THEN Listed(n) \cup {asking[n]} ELSE Listed(n)

IInv == DataTypes /\ WorkInv /\ WaitInv /\ KidInv /\ SockInv /\ SyncInv
-----------------------------------------------------------------------------
(* The settings, and sending.                                              *)

\* A setting gives a node a sequence of groups.
LEMMA SetupFacts ==
    ASSUME DataTypes
    PROVE  /\ \A n \in Nodes : GroupsOf[n] \in Seq(Groups)
           /\ setup.events \in Nat
           /\ MaxFiles \in Nat /\ MaxGroups \in Nat /\ None \notin Files
BY SetupAssumption DEF DataTypes, Setup, GroupsOf

\* The members of a sequence are finitely many.
LEMMA ToSetFinite ==
    ASSUME NEW S, NEW s \in Seq(S)
    PROVE  IsFiniteSet(ToSet(s))
<1>1. Len(s) \in Nat /\ DOMAIN s = 1 .. Len(s)
  OBVIOUS
<1>2. IsFiniteSet(1 .. Len(s))
  BY <1>1, FS_Interval
<1>3. s \in Surjection(1 .. Len(s), ToSet(s))
  <2>1. s \in [1 .. Len(s) -> ToSet(s)] /\ \A x \in ToSet(s) : \E j \in 1 .. Len(s) : s[j] = x
    BY <1>1, ToSetDef
  <2> QED BY <2>1 DEF Surjection
<1> QED BY <1>2, <1>3, FS_Surjection

\* Messages of a set M are appended to some of the sockets.
Appended(M) ==
    /\ sock' = [h \in Nodes |-> [g \in Groups |-> sock'[h][g]]]
    /\ \A h \in Nodes, g \in Groups :
           sock'[h][g] = sock[h][g] \/ \E m \in M : sock'[h][g] = Append(sock[h][g], m)

\* What the sockets hold then.
LEMMA AppendedFacts ==
    ASSUME sock \in Sockets, NEW M \in SUBSET Message, Appended(M)
    PROVE  /\ sock' \in Sockets
           /\ \A h \in Nodes, g \in Groups : ToSet(sock'[h][g]) \subseteq ToSet(sock[h][g]) \cup M
<1>1. ASSUME NEW h \in Nodes, NEW g \in Groups
      PROVE  sock'[h][g] \in Seq(Message) /\ ToSet(sock'[h][g]) \subseteq ToSet(sock[h][g]) \cup M
  <2>1. sock[h][g] \in Seq(Message)
    BY DEF Sockets
  <2>2. CASE sock'[h][g] = sock[h][g]
    BY <2>1, <2>2
  <2>3. ASSUME NEW m \in M, sock'[h][g] = Append(sock[h][g], m)
        PROVE  sock'[h][g] \in Seq(Message) /\ ToSet(sock'[h][g]) \subseteq ToSet(sock[h][g]) \cup M
    BY <2>1, <2>3, AppendMembers
  <2> QED BY <2>2, <2>3 DEF Appended
<1>2. sock' \in Sockets
  BY <1>1 DEF Appended, Sockets
<1> QED BY <1>1, <1>2

\* The head of a socket is taken.
LEMMA TakenFacts ==
    ASSUME SockInv, NEW n \in Nodes, NEW g \in Groups, sock[n][g] # <<>>, sock' = Taken(n, g)
    PROVE  /\ sock' \in Sockets /\ Head(sock[n][g]) \in Message /\ Names(Head(sock[n][g]))
           /\ \A h \in Nodes, a \in Groups : ToSet(sock'[h][a]) \subseteq ToSet(sock[h][a])
<1>1. sock \in Sockets /\ sock[n][g] \in Seq(Message)
  BY DEF SockInv, Sockets
<1>2. /\ Head(sock[n][g]) \in Message /\ Head(sock[n][g]) \in ToSet(sock[n][g])
      /\ Tail(sock[n][g]) \in Seq(Message) /\ ToSet(Tail(sock[n][g])) \subseteq ToSet(sock[n][g])
  BY <1>1, TailMembers
<1>3. /\ sock' \in Sockets /\ sock'[n][g] = Tail(sock[n][g])
      /\ \A h \in Nodes, a \in Groups : h # n \/ a # g => sock'[h][a] = sock[h][a]
  BY <1>1, <1>2 DEF Taken, Sockets
<1>4. \A h \in Nodes, a \in Groups : ToSet(sock'[h][a]) \subseteq ToSet(sock[h][a])
  BY <1>2, <1>3
<1> QED BY <1>2, <1>3, <1>4 DEF SockInv

\* A message is of its type.
LEMMA MessageFacts ==
    ASSUME NEW m \in Message
    PROVE  /\ m.type = "req" => m \in Request
           /\ m.type = "list" => m \in List
BY DEF Message, Request, List

\* ... and a request comes from a node.
LEMMA SocketFrom ==
    ASSUME NEW s \in Sockets, NEW h \in Nodes, NEW g \in Groups, NEW m \in ToSet(s[h][g]), m.type = "req"
    PROVE  m.from \in Nodes /\ m \in Message
<1>1. s[h][g] \in Seq(Message)
  BY DEF Sockets
<1>2. m \in Message
  BY <1>1, ToSetDef
<1>3. m \in Request
  BY <1>2, MessageFacts
<1> QED BY <1>2, <1>3 DEF Request
-----------------------------------------------------------------------------
(* One lemma per step.                                                     *)

\* A node forks a child for file f and asks its groups for it.
LEMMA RequestInv ==
    ASSUME IInv, NEW n \in Nodes, NEW f \in Files, mode[n] = "loop", CanRequest(n, f), RequestFile(n, f),
           UNCHANGED <<setup, files, disk, polled, broken>>, DataTypes', WorkInv'
    PROVE  IInv'
<1>1. PICK id \in Nat : id = forks[n] + 1
  BY DEF IInv, KidInv
<1>2. PICK kid \in Kid : kid = [id |-> id, kind |-> "file", file |-> f, st |-> "listen"]
  <2>1. id \in Nat \ {0}
    BY <1>1 DEF IInv, KidInv
  <2> QED BY <2>1 DEF Kid
<1>3. PICK msg \in Message : msg = [type |-> "req", file |-> f, from |-> n, kid |-> id]
  BY DEF Message, Request
<1>4. /\ kids' = [kids EXCEPT ![n] = @ \cup {kid}] /\ forks' = [forks EXCEPT ![n] = id]
      /\ SendToAll(n, msg) /\ asking' = [asking EXCEPT ![n] = f] /\ mode' = [mode EXCEPT ![n] = "wait"]
  BY <1>1, <1>2, <1>3 DEF RequestFile, IInv, KidInv
<1>5. /\ kids \in [Nodes -> SUBSET Kid] /\ forks \in [Nodes -> Nat]
      /\ kids' \in [Nodes -> SUBSET Kid] /\ forks' \in [Nodes -> Nat]
      /\ kids'[n] = kids[n] \cup {kid} /\ forks'[n] = id
      /\ \A h \in Nodes : h # n => kids'[h] = kids[h] /\ forks'[h] = forks[h]
  BY <1>2, <1>4 DEF IInv, KidInv
<1>6. KidInv'
  <2>1. ASSUME NEW h \in Nodes, NEW k \in kids'[h]
        PROVE  k.id <= forks'[h] /\ (k.kind = "file" => k.file \in Files) /\ (k.st = "connected" => k.kind = "file")
    <3>1. CASE k \in kids[h]
      <4>1. k.id <= forks[h] /\ k \in Kid
        BY <1>5, <3>1 DEF IInv, KidInv
      <4>2. k.id \in Nat /\ forks[h] \in Nat /\ forks[h] <= forks'[h]
        BY <1>1, <1>5, <4>1 DEF Kid
      <4>3. k.id <= forks'[h]
        BY <1>5, <4>1, <4>2
      <4> QED BY <3>1, <4>3 DEF IInv, KidInv
    <3>2. CASE h = n /\ k = kid
      BY <1>1, <1>2, <1>5, <3>2
    <3> QED BY <1>5, <3>1, <3>2
  <2> QED BY <1>5, <2>1 DEF KidInv
<1>7. sock \in Sockets /\ Appended({msg})
  BY <1>4 DEF SendToAll, Multicast, Appended, IInv, SockInv
<1>8. sock' \in Sockets /\ \A h \in Nodes, g \in Groups : ToSet(sock'[h][g]) \subseteq ToSet(sock[h][g]) \cup {msg}
  BY <1>7, AppendedFacts
<1>9. SockInv'
  <2>1. ASSUME NEW h \in Nodes, NEW g \in Groups, NEW m \in ToSet(sock'[h][g]), m.type = "req"
        PROVE  m.kid <= forks'[m.from] /\ \A k \in kids'[m.from] : k.id = m.kid => k.kind = "file"
    <3>1. m.from \in Nodes /\ m \in Request
      BY <1>8, <2>1, SocketFrom, MessageFacts
    <3>2. m.kid \in Nat
      BY <3>1 DEF Request
    <3>3. CASE m = msg
      <4>1. m.from = n /\ m.kid = id
        BY <1>3, <3>3
      <4>2. \A k \in kids[n] : k.id # id
        <5>1. \A k \in kids[n] : k.id <= forks[n] /\ k.id \in Nat
          BY <1>5 DEF IInv, KidInv, Kid
        <5> QED BY <1>1, <1>5, <5>1
      <4> QED BY <1>2, <1>5, <4>1, <4>2
    <3>4. CASE m \in ToSet(sock[h][g])
      <4>1. m.kid <= forks[m.from] /\ \A k \in kids[m.from] : k.id = m.kid => k.kind = "file"
        BY <2>1, <3>4 DEF IInv, SockInv, Names
      <4>2. m.kid <= forks'[m.from]
        BY <1>1, <1>5, <3>1, <3>2, <4>1
      <4> QED BY <1>2, <1>5, <3>1, <4>1, <4>2
    <3> QED BY <1>8, <3>3, <3>4
  <2> QED BY <1>8, <2>1 DEF SockInv, Names
<1>10. WaitInv'
  <2>1. None \notin Files /\ Len(files[n]) < MaxFiles
    BY SetupFacts DEF IInv, CanRequest
  <2>2. mode' \in [Nodes -> {"loop", "wait", "vote"}] /\ asking' \in [Nodes -> Files \cup {None}]
        /\ mode'[n] = "wait" /\ asking'[n] = f /\ \A h \in Nodes : h # n => mode'[h] = mode[h] /\ asking'[h] = asking[h]
    BY <1>4 DEF IInv, WaitInv
  <2> QED BY <2>1, <2>2 DEF IInv, WaitInv
<1>11. SyncInv'
  <2> SUFFICES ASSUME NEW h \in Nodes \ polled
               PROVE  /\ IsInjective(files[h])
                      /\ mode'[h] # "wait" => kids'[h] = {} /\ disk[h] = Listed(h)
                      /\ mode'[h] = "wait" =>
                            /\ asking'[h] \notin Listed(h)
                            /\ \E k \in kids'[h] : /\ kids'[h] = {k} /\ k.kind = "file" /\ k.file = asking'[h]
                                                   /\ disk[h] = IF k.st = "success" THEN Listed(h) \cup {asking'[h]}
                                                                                    ELSE Listed(h)
    BY DEF SyncInv, Listed
  <2>1. mode \in [Nodes -> {"loop", "wait", "vote"}] /\ asking \in [Nodes -> Files \cup {None}]
    BY DEF IInv, WaitInv
  <2>2. CASE h # n
    BY <1>4, <1>5, <2>1, <2>2 DEF IInv, SyncInv
  <2>3. CASE h = n
    <3>1. kids'[n] = {kid} /\ disk[n] = Listed(n) /\ f \notin Listed(n) /\ IsInjective(files[n])
      BY <1>5, <2>3 DEF IInv, SyncInv, CanRequest
    <3>2. mode'[n] = "wait" /\ asking'[n] = f
      BY <1>4, <2>1
    <3>3. kid.kind = "file" /\ kid.file = f /\ kid.st # "success"
      BY <1>2
    <3> QED BY <2>3, <3>1, <3>2, <3>3
  <2> QED BY <2>2, <2>3
<1> QED BY <1>6, <1>9, <1>10, <1>11 DEF IInv

\* Steps that fork no child, in the sockets.
LEMMA QuietSock ==
    ASSUME IInv, NEW M \in SUBSET Message, \A m \in M : m.type # "req",
           sock' \in Sockets, \A h \in Nodes, g \in Groups : ToSet(sock'[h][g]) \subseteq ToSet(sock[h][g]) \cup M,
           forks' = forks,
           \A n \in Nodes : \A k2 \in kids'[n] : \E k \in kids[n] : k2.id = k.id /\ k2.kind = k.kind
    PROVE  SockInv'
<1>1. ASSUME NEW h \in Nodes, NEW g \in Groups, NEW m \in ToSet(sock'[h][g]), m.type = "req"
      PROVE  m.kid <= forks'[m.from] /\ \A k2 \in kids'[m.from] : k2.id = m.kid => k2.kind = "file"
  <2>1. m.from \in Nodes
    BY <1>1, SocketFrom
  <2>2. m \in ToSet(sock[h][g])
    BY <1>1
  <2>3. m.kid <= forks[m.from] /\ \A k \in kids[m.from] : k.id = m.kid => k.kind = "file"
    BY <1>1, <2>2 DEF IInv, SockInv, Names
  <2> QED BY <2>1, <2>3
<1> QED BY <1>1 DEF SockInv, Names

\* The sockets, when they are left alone.
LEMMA SameSock ==
    ASSUME IInv, UNCHANGED <<sock, forks>>,
           \A n \in Nodes : \A k2 \in kids'[n] : \E k \in kids[n] : k2.id = k.id /\ k2.kind = k.kind
    PROVE  SockInv'
<1>1. sock' \in Sockets /\ \A h \in Nodes, g \in Groups : ToSet(sock'[h][g]) \subseteq ToSet(sock[h][g]) \cup {}
  BY DEF IInv, SockInv
<1>2. {} \in SUBSET Message /\ \A m \in {} : m.type # "req"
  OBVIOUS
<1> QED BY <1>1, <1>2, QuietSock

\* ... and when one of their messages is taken.
LEMMA TakeSock ==
    ASSUME IInv, NEW n \in Nodes, NEW g \in Groups, sock[n][g] # <<>>, sock' = Taken(n, g), forks' = forks,
           \A h \in Nodes : \A k2 \in kids'[h] : \E k \in kids[h] : k2.id = k.id /\ k2.kind = k.kind
    PROVE  SockInv'
<1>1. SockInv
  BY DEF IInv
<1>2. sock' \in Sockets /\ \A h \in Nodes, a \in Groups : ToSet(sock'[h][a]) \subseteq ToSet(sock[h][a])
  BY <1>1, TakenFacts
<1>3. \A h \in Nodes, a \in Groups : ToSet(sock'[h][a]) \subseteq ToSet(sock[h][a]) \cup {}
  BY <1>2
<1>4. {} \in SUBSET Message /\ \A m \in {} : m.type # "req"
  OBVIOUS
<1> QED BY <1>2, <1>3, <1>4, QuietSock

\* A step that does not touch a node's table and what it waits for keeps WaitInv.
LEMMA WaitFrame ==
    ASSUME IInv, UNCHANGED <<files, mode, asking>>
    PROVE  WaitInv'
BY DEF IInv, WaitInv

\* One that does not touch the files and children either keeps SyncInv.
LEMMA SyncFrame ==
    ASSUME IInv, UNCHANGED <<files, disk, mode, asking, kids, polled>>
    PROVE  SyncInv'
BY DEF IInv, SyncInv, Listed

\* One that leaves the children alone keeps KidInv.
LEMMA KidFrame ==
    ASSUME IInv, UNCHANGED <<kids, forks>>
    PROVE  KidInv'
BY DEF IInv, KidInv

\* A step that changes nothing.
LEMMA StutterInv == IInv /\ UNCHANGED vars => IInv'
<1> SUFFICES ASSUME IInv, UNCHANGED vars
             PROVE  IInv'
  OBVIOUS
<1>1. UNCHANGED <<setup, files, disk, events, polled, broken, handling, mode, asking, kids, forks, sock>>
  BY DEF vars, dataVars, kidVars, histVars
<1>2. SockInv'
  BY <1>1, SameSock
<1> QED BY <1>1, <1>2, WaitFrame, SyncFrame, KidFrame DEF IInv, DataTypes, WorkInv

\* A user requests a file.
LEMMA UserRequestInv ==
    ASSUME IInv, NEW n \in Nodes, NEW f \in Files, UserRequest(n, f)
    PROVE  IInv'
<1>1. /\ mode[n] = "loop" /\ CanRequest(n, f) /\ RequestFile(n, f) /\ events < setup.events /\ events' = events + 1
      /\ UNCHANGED <<setup, files, disk, polled, broken, handling>>
  BY DEF UserRequest, Idle, dataVars
<1>2. DataTypes'
  BY <1>1, SetupFacts DEF IInv, DataTypes
<1>3. WorkInv'
  BY <1>1 DEF IInv, WorkInv
<1> QED BY <1>1, <1>2, <1>3, RequestInv

\* The next file of a list is requested, unless it is listed.
LEMMA GetFileInv ==
    ASSUME IInv, NEW n \in Nodes, GetFile(n)
    PROVE  IInv'
<1>1. /\ mode[n] = "loop" /\ handling[n] # None /\ handling' = [handling EXCEPT ![n].step = "pass"]
      /\ UNCHANGED <<setup, files, disk, polled, broken, events>>
  BY DEF GetFile, dataVars, histVars
<1>2. PICK w \in Work : w = handling[n] /\ w.i \in 1 .. Len(w.list.files)
  BY <1>1 DEF IInv, WorkInv
<1>3. DataTypes'
  BY <1>1 DEF IInv, DataTypes
<1>4. WorkInv'
  <2>1. PICK v : v = [w EXCEPT !.step = "pass"]
    OBVIOUS
  <2>3. v \in Work /\ v.list = w.list /\ v.i = w.i
    BY <2>1 DEF Work
  <2>2. handling' = [handling EXCEPT ![n] = v]
    BY <1>1, <1>2, <2>1
  <2> QED BY <1>2, <2>3, <2>2 DEF IInv, WorkInv
<1>5. PICK f \in Files : f = w.list.files[w.i]
  <2>1. w.list \in List
    BY <1>2 DEF Work
  <2>2. w.list.files \in Seq(Files)
    BY <2>1 DEF List
  <2> QED BY <1>2, <2>2
<1>6. CASE CanRequest(n, f)
  <2>1. RequestFile(n, f)
    BY <1>2, <1>5, <1>6 DEF GetFile
  <2> QED BY <1>1, <1>3, <1>4, <1>6, <2>1, RequestInv
<1>7. CASE ~CanRequest(n, f)
  <2>1. UNCHANGED <<kids, forks, sock, asking, mode>>
    BY <1>2, <1>5, <1>7 DEF GetFile, kidVars
  <2>2. SockInv'
    BY <2>1, SameSock
  <2> QED BY <1>1, <1>3, <1>4, <2>1, <2>2, WaitFrame, SyncFrame, KidFrame DEF IInv
<1> QED BY <1>6, <1>7

\* A node takes a list that has arrived.
LEMMA TakeListInv ==
    ASSUME IInv, NEW n \in Nodes, NEW g \in Groups, TakeList(n, g)
    PROVE  IInv'
<1>1. /\ sock[n][g] # <<>> /\ Head(sock[n][g]).type = "list" /\ sock' = Taken(n, g)
      /\ handling' = [handling EXCEPT ![n] = [list |-> Head(sock[n][g]), i |-> 1, passed |-> 0, step |-> "get"]]
      /\ UNCHANGED <<setup, files, disk, polled, broken, events, mode, asking, kids, forks>>
  BY DEF TakeList, Arrived, dataVars, kidVars, histVars
<1>2. Head(sock[n][g]) \in Message
  BY <1>1, TakenFacts DEF IInv
<1>3. PICK l \in List : l = Head(sock[n][g])
  BY <1>1, <1>2, MessageFacts
<1>4. SockInv'
  BY <1>1, TakeSock
<1>5. WorkInv'
  <2>1. PICK w : w = [list |-> l, i |-> 1, passed |-> 0, step |-> "get"]
    OBVIOUS
  <2>5. w \in Work /\ w.list = l /\ w.i = 1
    BY <2>1 DEF Work
  <2>2. handling' = [handling EXCEPT ![n] = w]
    BY <1>1, <1>3, <2>1
  <2>3. l.files \in Seq(Files) /\ l.files # <<>>
    BY DEF List
  <2>4. 1 \in 1 .. Len(l.files)
    BY <2>3
  <2> QED BY <2>5, <2>2, <2>4 DEF IInv, WorkInv
<1> QED BY <1>1, <1>4, <1>5, WaitFrame, SyncFrame, KidFrame DEF IInv, DataTypes

\* A node takes a poll, and asks its user for a vote.
LEMMA TakePollInv ==
    ASSUME IInv, NEW n \in Nodes, NEW g \in Groups, TakePoll(n, g)
    PROVE  IInv'
<1>1. /\ mode[n] = "loop" /\ sock[n][g] # <<>> /\ sock' = Taken(n, g) /\ mode' = [mode EXCEPT ![n] = "vote"]
      /\ UNCHANGED <<setup, files, disk, polled, broken, events, asking, handling, kids, forks>>
  BY DEF TakePoll, Arrived, Idle, dataVars, kidVars, histVars
<1>3. SockInv'
  BY <1>1, TakeSock
<1>4. WaitInv' /\ SyncInv'
  BY <1>1 DEF IInv, WaitInv, SyncInv, Listed
<1> QED BY <1>1, <1>3, <1>4, KidFrame DEF IInv, DataTypes, WorkInv

\* A user votes.
LEMMA VoteInv ==
    ASSUME IInv, NEW n \in Nodes, Vote(n)
    PROVE  IInv'
<1>1. /\ mode[n] = "vote" /\ mode' = [mode EXCEPT ![n] = "loop"]
      /\ UNCHANGED <<setup, files, disk, polled, broken, events, asking, handling, kids, forks, sock>>
  BY DEF Vote, dataVars, kidVars, histVars
<1>2. SockInv'
  BY <1>1, SameSock
<1>3. WaitInv' /\ SyncInv'
  BY <1>1 DEF IInv, WaitInv, SyncInv, Listed
<1> QED BY <1>1, <1>2, <1>3, KidFrame DEF IInv, DataTypes, WorkInv

\* The list of a node's files goes to all its groups.
LEMMA AlarmInv ==
    ASSUME IInv, NEW n \in Nodes, Alarm(n)
    PROVE  IInv'
<1>1. /\ events < setup.events /\ events' = events + 1
      /\ UNCHANGED <<setup, files, disk, polled, broken, mode, asking, handling, kids, forks>>
  BY DEF Alarm, dataVars, kidVars
<1>2. DataTypes'
  BY <1>1, SetupFacts DEF IInv, DataTypes
<1>3. SockInv'
  <2>1. CASE files[n] # <<>>
    <3>1. GroupsOf[n] \in Seq(Groups) /\ files[n] \in Seq(Files)
      BY SetupFacts DEF IInv, DataTypes
    <3>2. ToSet(GroupsOf[n]) \subseteq Groups /\ Len(GroupsOf[n]) \in Nat
      BY <3>1, ToSetDef
    <3>3. PICK l \in List : l = [type |-> "list", files |-> files[n], groups |-> ToSet(GroupsOf[n]),
                                 count |-> Len(GroupsOf[n])]
      BY <2>1, <3>1, <3>2 DEF List
    <3>4. SendToAll(n, l)
      BY <2>1, <3>3 DEF Alarm
    <3>5. l.type = "list" /\ l \in Message
      BY <3>3 DEF Message
    <3>6. sock \in Sockets /\ Appended({l})
      BY <3>4 DEF SendToAll, Multicast, Appended, IInv, SockInv
    <3>7. sock' \in Sockets /\ \A h \in Nodes, g \in Groups : ToSet(sock'[h][g]) \subseteq ToSet(sock[h][g]) \cup {l}
      BY <3>5, <3>6, AppendedFacts
    <3> QED BY <1>1, <3>5, <3>7, QuietSock
  <2>2. CASE files[n] = <<>>
    BY <1>1, <2>2, SameSock DEF Alarm
  <2> QED BY <2>1, <2>2
<1> QED BY <1>1, <1>2, <1>3, WaitFrame, SyncFrame, KidFrame DEF IInv, WorkInv

\* A list is passed on, and the node turns to its next file.
LEMMA PassOnInv ==
    ASSUME IInv, NEW n \in Nodes, PassOn(n)
    PROVE  IInv'
<1>1. /\ handling[n] # None /\ UNCHANGED <<setup, files, disk, polled, broken, events, mode, asking, kids, forks>>
  BY DEF PassOn, dataVars, kidVars, histVars
<1>2. PICK w \in Work : w = handling[n] /\ w.i \in 1 .. Len(w.list.files)
  BY <1>1 DEF IInv, WorkInv
<1>3. PICK gs : gs = IF w.list.count >= MaxGroups THEN {} ELSE ToSet(GroupsOf[n]) \ w.list.groups
  OBVIOUS
<1> DEFINE sends(g) == Cardinality({a \in gs : \E j, k \in DOMAIN GroupsOf[n] :
                                        j <= k /\ GroupsOf[n][j] = a /\ GroupsOf[n][k] = g})
           copy(g) == [w.list EXCEPT !.groups = @ \cup {g}, !.count = @ + w.passed + sends(g)]
<1>4. /\ sock' = [h \in Nodes |-> [g \in Groups |->
                     IF h # n /\ g \in ToSet(GroupsOf[h]) \cap gs THEN Append(sock[h][g], copy(g)) ELSE sock[h][g]]]
      /\ handling' = [handling EXCEPT ![n] =
                  IF w.i = Len(w.list.files) THEN None
                  ELSE [w EXCEPT !.i = @ + 1, !.passed = @ + Cardinality(gs), !.step = "get"]]
  BY <1>2, <1>3 DEF PassOn, Multicast
<1>5. GroupsOf[n] \in Seq(Groups)
  BY SetupFacts DEF IInv
<1>6. ToSet(GroupsOf[n]) \subseteq Groups /\ IsFiniteSet(ToSet(GroupsOf[n]))
  BY <1>5, ToSetDef, ToSetFinite
<1>7. gs \subseteq Groups /\ IsFiniteSet(gs)
  <2>1. gs \in SUBSET ToSet(GroupsOf[n])
    BY <1>3
  <2> QED BY <1>6, <2>1, FS_Subset
<1>8. Cardinality(gs) \in Nat /\ \A g : sends(g) \in Nat
  <2>1. ASSUME NEW g
        PROVE  sends(g) \in Nat
    <3>1. PICK S \in SUBSET gs : S = {a \in gs : \E j, k \in DOMAIN GroupsOf[n] :
                                                    j <= k /\ GroupsOf[n][j] = a /\ GroupsOf[n][k] = g}
      OBVIOUS
    <3>2. Cardinality(S) \in Nat
      BY <1>7, FS_Subset, FS_CardinalityType
    <3> QED BY <3>1, <3>2
  <2> QED BY <1>7, <2>1, FS_CardinalityType
<1>9. w.list \in List /\ w.passed \in Nat /\ w.i \in Nat
  BY <1>2 DEF Work
<1>10. \A g \in gs : copy(g) \in List
  <2> SUFFICES ASSUME NEW g \in gs
               PROVE  copy(g) \in List
    OBVIOUS
  <2>1. PICK c \in Nat : c = w.list.count + w.passed + sends(g)
    <3> HIDE DEF sends
    <3>1. w.list.count \in Nat
      BY <1>9 DEF List
    <3> QED BY <1>8, <1>9, <3>1
  <2>2. PICK G \in SUBSET Groups : G = w.list.groups \cup {g}
    BY <1>7, <1>9 DEF List
  <2>3. copy(g) = [w.list EXCEPT !.groups = G, !.count = c]
    <3> HIDE DEF sends
    <3> QED BY <2>1, <2>2, <1>9 DEF List
  <2>4. [w.list EXCEPT !.groups = G, !.count = c] \in List
    BY <1>9 DEF List
  <2> QED BY <2>3, <2>4
<1> HIDE DEF copy, sends
<1>11. SockInv'
  <2>1. sock \in Sockets /\ Appended(List)
    BY <1>4, <1>10 DEF Appended, IInv, SockInv
  <2>2. List \in SUBSET Message /\ \A m \in List : m.type # "req"
    BY DEF Message, List
  <2>3. sock' \in Sockets /\ \A h \in Nodes, g \in Groups : ToSet(sock'[h][g]) \subseteq ToSet(sock[h][g]) \cup List
    BY <2>1, <2>2, AppendedFacts
  <2> QED BY <1>1, <2>2, <2>3, QuietSock
<1>12. WorkInv'
  <2>1. DOMAIN handling = Nodes
    BY DEF IInv, WorkInv
  <2>2. CASE w.i = Len(w.list.files)
    BY <1>4, <2>1, <2>2 DEF IInv, WorkInv
  <2>3. CASE w.i # Len(w.list.files)
    <3>1. PICK j \in Nat : j = w.i + 1
      BY <1>9
    <3>2. w.list.files \in Seq(Files)
      BY <1>9 DEF List
    <3>3. j \in 1 .. Len(w.list.files)
      BY <1>2, <1>9, <2>3, <3>1, <3>2
    <3>4. PICK q \in Nat : q = w.passed + Cardinality(gs)
      BY <1>8, <1>9
    <3>5. PICK v : v = [w EXCEPT !.i = j, !.passed = q, !.step = "get"]
      OBVIOUS
    <3>6. v \in Work /\ v.list = w.list /\ v.i = j
      BY <3>5 DEF Work
    <3>7. handling' = [handling EXCEPT ![n] = v]
      <4>1. v = [w EXCEPT !.i = w.i + 1, !.passed = w.passed + Cardinality(gs), !.step = "get"]
        BY <3>1, <3>4, <3>5
      <4>2. handling' = [handling EXCEPT ![n] =
                  [w EXCEPT !.i = w.i + 1, !.passed = w.passed + Cardinality(gs), !.step = "get"]]
        BY <1>4, <2>3
      <4> QED BY <4>1, <4>2
    <3> QED BY <2>1, <3>3, <3>6, <3>7 DEF IInv, WorkInv
  <2> QED BY <2>2, <2>3
<1> QED BY <1>1, <1>11, <1>12, WaitFrame, SyncFrame, KidFrame DEF IInv, DataTypes
-----------------------------------------------------------------------------
(* The children.                                                           *)

\* One child k of node n becomes k2, which has the same number, kind and file.
LEMMA KidStFacts ==
    ASSUME KidInv, NEW n \in Nodes, NEW k \in kids[n],
           NEW st \in {"connected", "success", "failure"}, KidSt(n, k, st), forks' = forks,
           st = "connected" => k.kind = "file",
           NEW k2, k2 = [k EXCEPT !.st = st]
    PROVE  /\ k2 \in Kid /\ k2.id = k.id /\ k2.kind = k.kind /\ k2.file = k.file /\ k2.st = st
           /\ kids'[n] = (kids[n] \ {k}) \cup {k2}
           /\ \A h \in Nodes : h # n => kids'[h] = kids[h]
           /\ KidInv'
           /\ \A h \in Nodes : \A x2 \in kids'[h] : \E x \in kids[h] : x2.id = x.id /\ x2.kind = x.kind
<1>1. kids \in [Nodes -> SUBSET Kid] /\ k \in Kid
  BY DEF KidInv
<1>2. k2 \in Kid /\ k2.id = k.id /\ k2.kind = k.kind /\ k2.file = k.file /\ k2.st = st
  BY <1>1 DEF Kid
<1>3. kids' = [kids EXCEPT ![n] = (kids[n] \ {k}) \cup {k2}]
  BY DEF KidSt
<1>4. /\ kids' \in [Nodes -> SUBSET Kid] /\ kids'[n] = (kids[n] \ {k}) \cup {k2}
      /\ \A h \in Nodes : h # n => kids'[h] = kids[h]
  BY <1>1, <1>2, <1>3
<1>5. KidInv'
  <2>1. ASSUME NEW h \in Nodes, NEW x \in kids'[h]
        PROVE  /\ x.id <= forks'[h]
               /\ x.kind = "file" => x.file \in Files
               /\ x.st = "connected" => x.kind = "file"
    <3>1. CASE x \in kids[h]
      BY <3>1 DEF KidInv
    <3>2. CASE h = n /\ x = k2
      BY <1>2, <3>2 DEF KidInv
    <3> QED BY <1>4, <3>1, <3>2
  <2> QED BY <1>4, <2>1 DEF KidInv
<1>6. \A h \in Nodes : \A x2 \in kids'[h] : \E x \in kids[h] : x2.id = x.id /\ x2.kind = x.kind
  BY <1>2, <1>4
<1> QED BY <1>2, <1>4, <1>5, <1>6

\* A child has received its file: the directory is one file ahead.
LEMMA KidReceivesInv ==
    ASSUME IInv, NEW n \in Nodes, KidReceives(n)
    PROVE  IInv'
<1>1. PICK k \in kids[n] : /\ k.st = "connected" /\ KidSt(n, k, "success")
                           /\ disk' = [disk EXCEPT ![n] = @ \cup {k.file}]
                           /\ UNCHANGED <<files, sock, mode, asking, handling, forks, setup, events, polled, broken>>
  BY DEF KidReceives, histVars
<1>2. KidInv
  BY DEF IInv
<1>3. k.kind = "file" /\ k.file \in Files
  BY <1>1, <1>2 DEF KidInv
<1>4. PICK k2 : k2 = [k EXCEPT !.st = "success"]
  OBVIOUS
<1>5. /\ k2.kind = k.kind /\ k2.file = k.file /\ k2.st = "success"
      /\ kids'[n] = (kids[n] \ {k}) \cup {k2} /\ (\A h \in Nodes : h # n => kids'[h] = kids[h])
      /\ KidInv'
      /\ \A h \in Nodes : \A x2 \in kids'[h] : \E x \in kids[h] : x2.id = x.id /\ x2.kind = x.kind
  BY <1>1, <1>2, <1>4, KidStFacts
<1>6. disk \in [Nodes -> SUBSET Files]
  BY DEF IInv, DataTypes
<1>7. DataTypes'
  BY <1>1, <1>3, <1>6 DEF IInv, DataTypes
<1>8. SockInv'
  BY <1>1, <1>5, SameSock
<1>9. SyncInv'
  <2> SUFFICES ASSUME NEW h \in Nodes \ polled
               PROVE  /\ IsInjective(files[h])
                      /\ mode[h] # "wait" => kids'[h] = {} /\ disk'[h] = Listed(h)
                      /\ mode[h] = "wait" =>
                            /\ asking[h] \notin Listed(h)
                            /\ \E x \in kids'[h] : /\ kids'[h] = {x} /\ x.kind = "file" /\ x.file = asking[h]
                                                   /\ disk'[h] = IF x.st = "success" THEN Listed(h) \cup {asking[h]}
                                                                                     ELSE Listed(h)
    <3>1. polled' = polled /\ files' = files /\ mode' = mode /\ asking' = asking
      BY <1>1
    <3> QED BY <3>1 DEF SyncInv, Listed
  <2>1. CASE h # n
    <3>1. disk'[h] = disk[h] /\ kids'[h] = kids[h]
      BY <1>1, <1>5, <1>6, <2>1
    <3> QED BY <3>1 DEF IInv, SyncInv
  <2>2. CASE h = n
    <3>1. mode[n] = "wait" /\ kids[n] = {k} /\ k.file = asking[n] /\ disk[n] = Listed(n)
          /\ asking[n] \notin Listed(n) /\ IsInjective(files[n])
      BY <1>1, <2>2 DEF IInv, SyncInv
    <3>2. kids'[n] = {k2} /\ disk'[n] = Listed(n) \cup {asking[n]}
      BY <1>1, <1>5, <1>6, <3>1
    <3> QED BY <1>3, <1>5, <2>2, <3>1, <3>2
  <2> QED BY <2>1, <2>2
<1> QED BY <1>1, <1>5, <1>7, <1>8, <1>9, WaitFrame DEF IInv, WorkInv

\* A transfer has broken off: the child removed a file that was not listed.
LEMMA KidFailsInv ==
    ASSUME IInv, NEW n \in Nodes, KidFails(n)
    PROVE  IInv'
<1>1. PICK k \in kids[n] : /\ k.st = "connected" /\ KidSt(n, k, "failure")
                           /\ disk' = disk \/ disk' = [disk EXCEPT ![n] = @ \ {k.file}]
                           /\ broken' = broken \cup {k.file}
                           /\ UNCHANGED <<files, sock, mode, asking, handling, forks, setup, events, polled>>
  BY DEF KidFails
<1>2. KidInv
  BY DEF IInv
<1>3. k.kind = "file" /\ k.file \in Files
  BY <1>1, <1>2 DEF KidInv
<1>4. PICK k2 : k2 = [k EXCEPT !.st = "failure"]
  OBVIOUS
<1>5. /\ k2.kind = k.kind /\ k2.file = k.file /\ k2.st = "failure"
      /\ kids'[n] = (kids[n] \ {k}) \cup {k2} /\ (\A h \in Nodes : h # n => kids'[h] = kids[h])
      /\ KidInv'
      /\ \A h \in Nodes : \A x2 \in kids'[h] : \E x \in kids[h] : x2.id = x.id /\ x2.kind = x.kind
  BY <1>1, <1>2, <1>4, KidStFacts
<1>6. disk \in [Nodes -> SUBSET Files]
  BY DEF IInv, DataTypes
<1>7. DataTypes'
  BY <1>1, <1>3, <1>6 DEF IInv, DataTypes
<1>8. SockInv'
  BY <1>1, <1>5, SameSock
<1>9. SyncInv'
  <2> SUFFICES ASSUME NEW h \in Nodes \ polled
               PROVE  /\ IsInjective(files[h])
                      /\ mode[h] # "wait" => kids'[h] = {} /\ disk'[h] = Listed(h)
                      /\ mode[h] = "wait" =>
                            /\ asking[h] \notin Listed(h)
                            /\ \E x \in kids'[h] : /\ kids'[h] = {x} /\ x.kind = "file" /\ x.file = asking[h]
                                                   /\ disk'[h] = IF x.st = "success" THEN Listed(h) \cup {asking[h]}
                                                                                     ELSE Listed(h)
    <3>1. polled' = polled /\ files' = files /\ mode' = mode /\ asking' = asking
      BY <1>1
    <3> QED BY <3>1 DEF SyncInv, Listed
  <2>1. CASE h # n
    <3>1. disk'[h] = disk[h] /\ kids'[h] = kids[h]
      BY <1>1, <1>5, <1>6, <2>1
    <3> QED BY <3>1 DEF IInv, SyncInv
  <2>2. CASE h = n
    <3>1. mode[n] = "wait" /\ kids[n] = {k} /\ k.file = asking[n] /\ disk[n] = Listed(n)
          /\ asking[n] \notin Listed(n) /\ IsInjective(files[n])
      BY <1>1, <2>2 DEF IInv, SyncInv
    <3>2. k.file \notin disk[n] /\ disk[n] \subseteq Files
      BY <1>6, <3>1
    <3>3. disk'[n] = disk[n]
      BY <1>1, <1>6, <3>2
    <3>4. kids'[n] = {k2}
      BY <1>5, <3>1
    <3> QED BY <1>3, <1>5, <2>2, <3>1, <3>3, <3>4
  <2> QED BY <2>1, <2>2
<1> QED BY <1>1, <1>5, <1>7, <1>8, <1>9, WaitFrame DEF IInv, WorkInv

\* Nobody connected to a child in time.
LEMMA KidTimeoutInv ==
    ASSUME IInv, NEW n \in Nodes, KidTimeout(n)
    PROVE  IInv'
<1>1. PICK k \in kids[n] : /\ k.kind = "file" /\ k.st = "listen" /\ KidSt(n, k, "failure")
                           /\ UNCHANGED <<files, disk, sock, mode, asking, handling, forks, setup, events, polled, broken>>
  BY DEF KidTimeout, dataVars, histVars
<1>2. KidInv
  BY DEF IInv
<1>4. PICK k2 : k2 = [k EXCEPT !.st = "failure"]
  OBVIOUS
<1>5. /\ k2.kind = k.kind /\ k2.file = k.file /\ k2.st = "failure"
      /\ kids'[n] = (kids[n] \ {k}) \cup {k2} /\ (\A h \in Nodes : h # n => kids'[h] = kids[h])
      /\ KidInv'
      /\ \A h \in Nodes : \A x2 \in kids'[h] : \E x \in kids[h] : x2.id = x.id /\ x2.kind = x.kind
  BY <1>1, <1>2, <1>4, KidStFacts
<1>8. SockInv'
  BY <1>1, <1>5, SameSock
<1>9. SyncInv'
  <2> SUFFICES ASSUME NEW h \in Nodes \ polled
               PROVE  /\ IsInjective(files[h])
                      /\ mode[h] # "wait" => kids'[h] = {} /\ disk[h] = Listed(h)
                      /\ mode[h] = "wait" =>
                            /\ asking[h] \notin Listed(h)
                            /\ \E x \in kids'[h] : /\ kids'[h] = {x} /\ x.kind = "file" /\ x.file = asking[h]
                                                   /\ disk[h] = IF x.st = "success" THEN Listed(h) \cup {asking[h]}
                                                                                    ELSE Listed(h)
    BY <1>1 DEF SyncInv, Listed
  <2>1. CASE h # n
    <3>1. kids'[h] = kids[h]
      BY <1>5, <2>1
    <3> QED BY <3>1 DEF IInv, SyncInv
  <2>2. CASE h = n
    <3>1. mode[n] = "wait" /\ kids[n] = {k} /\ k.file = asking[n] /\ disk[n] = Listed(n)
          /\ asking[n] \notin Listed(n) /\ IsInjective(files[n])
      BY <1>1, <2>2 DEF IInv, SyncInv
    <3>2. kids'[n] = {k2}
      BY <1>5, <3>1
    <3> QED BY <1>1, <1>5, <2>2, <3>1, <3>2
  <2> QED BY <2>1, <2>2
<1> QED BY <1>1, <1>5, <1>8, <1>9, WaitFrame DEF IInv, WorkInv, DataTypes

\* A poll's child exits.
LEMMA PollEndsInv ==
    ASSUME IInv, NEW n \in Nodes, PollEnds(n)
    PROVE  IInv'
<1>1. PICK k \in kids[n] : /\ k.kind = "poll" /\ KidSt(n, k, "success")
                           /\ UNCHANGED <<files, disk, sock, mode, asking, handling, forks, setup, events, polled, broken>>
  BY DEF PollEnds, dataVars, histVars
<1>2. KidInv
  BY DEF IInv
<1>4. PICK k2 : k2 = [k EXCEPT !.st = "success"]
  OBVIOUS
<1>5. /\ (\A h \in Nodes : h # n => kids'[h] = kids[h])
      /\ KidInv'
      /\ \A h \in Nodes : \A x2 \in kids'[h] : \E x \in kids[h] : x2.id = x.id /\ x2.kind = x.kind
  BY <1>1, <1>2, <1>4, KidStFacts
<1>6. n \in polled
  BY <1>1 DEF IInv, SyncInv
<1>8. SockInv'
  BY <1>1, <1>5, SameSock
<1>7. \A h \in Nodes \ polled : kids'[h] = kids[h]
  BY <1>5, <1>6
<1>9. SyncInv'
  BY <1>1, <1>7 DEF IInv, SyncInv, Listed
<1> QED BY <1>1, <1>5, <1>8, <1>9, WaitFrame DEF IInv, WorkInv, DataTypes

\* A node that has the file connects to the child that a request names.
LEMMA TakeRequestInv ==
    ASSUME IInv, NEW n \in Nodes, NEW g \in Groups, TakeRequest(n, g)
    PROVE  IInv'
<1>1. /\ sock[n][g] # <<>> /\ Head(sock[n][g]).type = "req" /\ sock' = Taken(n, g)
      /\ UNCHANGED <<setup, files, disk, polled, broken, events, mode, asking, handling, forks>>
  BY DEF TakeRequest, Arrived, dataVars, histVars
<1>2. PICK req \in Request : req = Head(sock[n][g]) /\ Names(req)
  <2>1. Head(sock[n][g]) \in Message /\ Names(Head(sock[n][g]))
    BY <1>1, TakenFacts DEF IInv
  <2> QED BY <1>1, <2>1, MessageFacts
<1>3. PICK r \in Nodes : r = req.from
  BY DEF Request
<1>4. kids \in [Nodes -> SUBSET Kid]
  BY DEF IInv, KidInv
<1>5. /\ kids' \in [Nodes -> SUBSET Kid]
      /\ \A h \in Nodes : \A x2 \in kids'[h] : \E x \in kids[h] :
            /\ x2.id = x.id /\ x2.kind = x.kind /\ x2.file = x.file
            /\ x2.st = x.st \/ (x.st = "listen" /\ x2.st = "connected" /\ x.kind = "file")
      /\ \A h \in Nodes : \A x \in kids[h] : kids[h] = {x} => \E x2 \in kids'[h] : kids'[h] = {x2}
      /\ \A h \in Nodes : kids[h] = {} => kids'[h] = {}
  <2>1. CASE kids' = kids
    BY <1>4, <2>1
  <2>2. CASE kids' # kids
    <3> DEFINE Conn(k) == IF k.id = req.kid /\ k.st = "listen" THEN [k EXCEPT !.st = "connected"] ELSE k
    <3>1. kids' = [kids EXCEPT ![r] = {Conn(k) : k \in kids[r]}]
      BY <1>2, <1>3, <2>2 DEF TakeRequest
    <3>2. ASSUME NEW k \in kids[r]
          PROVE  /\ Conn(k) \in Kid /\ Conn(k).id = k.id /\ Conn(k).kind = k.kind /\ Conn(k).file = k.file
                 /\ Conn(k).st = k.st \/ (k.st = "listen" /\ Conn(k).st = "connected" /\ k.kind = "file")
      <4>1. k \in Kid
        BY <1>4
      <4>2. k.id = req.kid => k.kind = "file"
        BY <1>2, <1>3 DEF Names, Request
      <4>3. CASE k.id = req.kid /\ k.st = "listen"
        <5>1. PICK c : c = [k EXCEPT !.st = "connected"]
          OBVIOUS
        <5>2. c \in Kid /\ c.id = k.id /\ c.kind = k.kind /\ c.file = k.file /\ c.st = "connected"
          BY <4>1, <5>1 DEF Kid
        <5>3. Conn(k) = c
          BY <4>3, <5>1
        <5> HIDE DEF Conn
        <5> QED BY <4>2, <4>3, <5>2, <5>3
      <4>4. CASE ~(k.id = req.kid /\ k.st = "listen")
        <5>1. Conn(k) = k
          BY <4>4
        <5> HIDE DEF Conn
        <5> QED BY <4>1, <5>1
      <4> QED BY <4>3, <4>4
    <3> HIDE DEF Conn
    <3>3. /\ kids'[r] = {Conn(k) : k \in kids[r]} /\ \A h \in Nodes : h # r => kids'[h] = kids[h]
          /\ kids' \in [Nodes -> SUBSET Kid]
      BY <1>4, <3>1, <3>2
    <3>4. ASSUME NEW h \in Nodes, NEW x \in kids[h], kids[h] = {x}
          PROVE  \E x2 \in kids'[h] : kids'[h] = {x2}
      <4>1. CASE h = r
        <5>1. kids'[h] = {Conn(x)}
          BY <3>3, <3>4, <4>1
        <5> QED BY <5>1
      <4>2. CASE h # r
        BY <3>3, <3>4, <4>2
      <4> QED BY <4>1, <4>2
    <3>5. ASSUME NEW h \in Nodes, NEW x2 \in kids'[h]
          PROVE  \E x \in kids[h] :
                    /\ x2.id = x.id /\ x2.kind = x.kind /\ x2.file = x.file
                    /\ x2.st = x.st \/ (x.st = "listen" /\ x2.st = "connected" /\ x.kind = "file")
      <4>1. CASE h = r
        <5>1. PICK x \in kids[r] : x2 = Conn(x)
          BY <3>3, <4>1
        <5> QED BY <3>2, <4>1, <5>1
      <4>2. CASE h # r
        BY <3>3, <4>2
      <4> QED BY <4>1, <4>2
    <3>6. ASSUME NEW h \in Nodes, kids[h] = {}
          PROVE  kids'[h] = {}
      BY <3>5, <3>6
    <3> QED BY <3>3, <3>4, <3>5, <3>6
  <2> QED BY <2>1, <2>2
<1>6. SockInv'
  BY <1>1, <1>5, TakeSock
<1>7. KidInv'
  <2>1. ASSUME NEW h \in Nodes, NEW x2 \in kids'[h]
        PROVE  /\ x2.id <= forks[h]
               /\ x2.kind = "file" => x2.file \in Files
               /\ x2.st = "connected" => x2.kind = "file"
    <3>1. PICK x \in kids[h] :
            /\ x2.id = x.id /\ x2.kind = x.kind /\ x2.file = x.file
            /\ x2.st = x.st \/ (x.st = "listen" /\ x2.st = "connected" /\ x.kind = "file")
      BY <1>5
    <3> QED BY <3>1 DEF IInv, KidInv
  <2> QED BY <1>1, <1>5, <2>1 DEF IInv, KidInv
<1>8. SyncInv'
  <2> SUFFICES ASSUME NEW h \in Nodes \ polled
               PROVE  /\ IsInjective(files[h])
                      /\ mode[h] # "wait" => kids'[h] = {} /\ disk[h] = Listed(h)
                      /\ mode[h] = "wait" =>
                            /\ asking[h] \notin Listed(h)
                            /\ \E x \in kids'[h] : /\ kids'[h] = {x} /\ x.kind = "file" /\ x.file = asking[h]
                                                   /\ disk[h] = IF x.st = "success" THEN Listed(h) \cup {asking[h]}
                                                                                    ELSE Listed(h)
    BY <1>1 DEF SyncInv, Listed
  <2>1. CASE mode[h] # "wait"
    BY <1>5, <2>1 DEF IInv, SyncInv
  <2>2. CASE mode[h] = "wait"
    <3>1. PICK x \in kids[h] : /\ kids[h] = {x} /\ x.kind = "file" /\ x.file = asking[h]
                               /\ disk[h] = IF x.st = "success" THEN Listed(h) \cup {asking[h]} ELSE Listed(h)
      BY <2>2 DEF IInv, SyncInv
    <3>2. PICK x2 \in kids'[h] : kids'[h] = {x2}
      BY <1>5, <3>1
    <3>3. /\ x2.kind = x.kind /\ x2.file = x.file
          /\ x2.st = x.st \/ (x.st = "listen" /\ x2.st = "connected")
      BY <1>5, <3>1, <3>2
    <3>4. (x2.st = "success") <=> (x.st = "success")
      BY <3>3
    <3>5. IsInjective(files[h]) /\ asking[h] \notin Listed(h)
      BY <2>2 DEF IInv, SyncInv
    <3> QED BY <2>2, <3>1, <3>2, <3>3, <3>4, <3>5
  <2> QED BY <2>1, <2>2
<1> QED BY <1>1, <1>6, <1>7, <1>8, WaitFrame DEF IInv, WorkInv, DataTypes

\* wait() returns for a child that has exited; its file joins the table.
LEMMA ReapInv ==
    ASSUME IInv, NEW n \in Nodes, Reap(n)
    PROVE  IInv'
<1>1. PICK k \in kids[n] :
        /\ mode[n] = "wait" /\ k.st \in {"success", "failure"}
        /\ kids' = [kids EXCEPT ![n] = @ \ {k}]
        /\ files' = IF k.st = "success" THEN [files EXCEPT ![n] = Append(@, asking[n])] ELSE files
        /\ asking' = [asking EXCEPT ![n] = None] /\ mode' = [mode EXCEPT ![n] = "loop"]
        /\ UNCHANGED <<disk, sock, handling, forks, setup, events, polled, broken>>
  BY DEF Reap, histVars
<1>2. PICK f \in Files : f = asking[n]
  BY <1>1 DEF IInv, WaitInv
<1>3. /\ files \in [Nodes -> Seq(Files)] /\ kids \in [Nodes -> SUBSET Kid]
      /\ mode \in [Nodes -> {"loop", "wait", "vote"}] /\ asking \in [Nodes -> Files \cup {None}]
  BY DEF IInv, DataTypes, KidInv, WaitInv
<1>4. /\ Append(files[n], f) \in Seq(Files) /\ Len(Append(files[n], f)) = Len(files[n]) + 1
      /\ ToSet(Append(files[n], f)) = ToSet(files[n]) \cup {f}
      /\ IsInjective(files[n]) /\ f \notin ToSet(files[n]) => IsInjective(Append(files[n], f))
  BY <1>3, AppendMembers
<1>5. /\ files' \in [Nodes -> Seq(Files)]
      /\ files'[n] = IF k.st = "success" THEN Append(files[n], f) ELSE files[n]
      /\ \A h \in Nodes : h # n => files'[h] = files[h]
  BY <1>1, <1>2, <1>3, <1>4
<1>6. /\ kids' \in [Nodes -> SUBSET Kid] /\ kids'[n] = kids[n] \ {k}
      /\ \A h \in Nodes : h # n => kids'[h] = kids[h]
  BY <1>1, <1>3
<1>7. /\ mode' \in [Nodes -> {"loop", "wait", "vote"}] /\ asking' \in [Nodes -> Files \cup {None}]
      /\ mode'[n] = "loop" /\ asking'[n] = None
      /\ \A h \in Nodes : h # n => mode'[h] = mode[h] /\ asking'[h] = asking[h]
  BY <1>1, <1>3
<1>8. DataTypes'
  BY <1>1, <1>5 DEF IInv, DataTypes
<1>9. KidInv'
  <2>1. \A h \in Nodes : kids'[h] \subseteq kids[h]
    BY <1>6
  <2> QED BY <1>1, <1>6, <2>1 DEF IInv, KidInv
<1>10. SockInv'
  <2>1. \A h \in Nodes : \A x2 \in kids'[h] : \E x \in kids[h] : x2.id = x.id /\ x2.kind = x.kind
    BY <1>6
  <2> QED BY <1>1, <2>1, SameSock
<1>11. WaitInv'
  <2>1. ASSUME NEW h \in Nodes
        PROVE  /\ mode'[h] = "wait" <=> asking'[h] # None
               /\ mode'[h] = "wait" => Len(files'[h]) < MaxFiles
               /\ Len(files'[h]) <= MaxFiles
    <3>1. CASE h # n
      BY <1>5, <1>7, <3>1 DEF IInv, WaitInv
    <3>2. CASE h = n
      <4>1. MaxFiles \in Nat /\ Len(files[n]) \in Nat /\ Len(files[n]) < MaxFiles
        BY <1>1, <1>3, SetupFacts DEF IInv, WaitInv
      <4>2. Len(files'[n]) <= MaxFiles
        BY <1>4, <1>5, <4>1
      <4> QED BY <1>7, <3>2, <4>2
    <3> QED BY <3>1, <3>2
  <2> QED BY <1>7, <2>1 DEF WaitInv
<1>12. SyncInv'
  <2> SUFFICES ASSUME NEW h \in Nodes \ polled
               PROVE  /\ IsInjective(files'[h])
                      /\ mode'[h] # "wait" => kids'[h] = {} /\ disk[h] = ToSet(files'[h])
                      /\ mode'[h] = "wait" =>
                            /\ asking'[h] \notin ToSet(files'[h])
                            /\ \E x \in kids'[h] : /\ kids'[h] = {x} /\ x.kind = "file" /\ x.file = asking'[h]
                                                   /\ disk[h] = IF x.st = "success" THEN ToSet(files'[h]) \cup {asking'[h]}
                                                                                    ELSE ToSet(files'[h])
    BY <1>1 DEF SyncInv, Listed
  <2>1. CASE h # n
    <3>1. kids'[h] = kids[h] /\ files'[h] = files[h] /\ mode'[h] = mode[h] /\ asking'[h] = asking[h]
      BY <1>5, <1>6, <1>7, <2>1
    <3> QED BY <3>1 DEF IInv, SyncInv, Listed
  <2>2. CASE h = n
    <3>1. /\ kids[n] = {k} /\ f \notin ToSet(files[n]) /\ IsInjective(files[n])
          /\ disk[n] = IF k.st = "success" THEN ToSet(files[n]) \cup {f} ELSE ToSet(files[n])
      BY <1>1, <1>2, <2>2 DEF IInv, SyncInv, Listed
    <3>2. kids'[n] = {}
      BY <1>6, <3>1
    <3>3. IsInjective(files'[n]) /\ disk[n] = ToSet(files'[n])
      BY <1>4, <1>5, <3>1
    <3> QED BY <1>7, <2>2, <3>2, <3>3
  <2> QED BY <2>1, <2>2
<1> QED BY <1>1, <1>8, <1>9, <1>10, <1>11, <1>12 DEF IInv, WorkInv

\* A poll forks a child that nobody waits for: the node leaves SyncInv for good.
LEMMA InitPollInv ==
    ASSUME IInv, NEW n \in Nodes, NEW g \in Groups, InitPoll(n, g)
    PROVE  IInv'
<1>1. PICK id \in Nat : id = forks[n] + 1
  BY DEF IInv, KidInv
<1>2. PICK kid \in Kid : kid = [id |-> id, kind |-> "poll", file |-> None, st |-> "listen"]
  <2>1. id \in Nat \ {0}
    BY <1>1 DEF IInv, KidInv
  <2> QED BY <2>1 DEF Kid
<1>3. PICK msg \in Message : msg = [type |-> "poll"]
  BY DEF Message
<1>4. /\ events < setup.events /\ events' = events + 1 /\ polled' = polled \cup {n}
      /\ kids' = [kids EXCEPT ![n] = @ \cup {kid}] /\ forks' = [forks EXCEPT ![n] = id]
      /\ UNCHANGED <<setup, files, disk, mode, asking, handling, broken>>
  BY <1>1, <1>2, <1>3 DEF InitPoll, dataVars, IInv, KidInv
<1>5. /\ kids \in [Nodes -> SUBSET Kid] /\ forks \in [Nodes -> Nat]
      /\ kids' \in [Nodes -> SUBSET Kid] /\ forks' \in [Nodes -> Nat]
      /\ kids'[n] = kids[n] \cup {kid} /\ forks'[n] = id
      /\ \A h \in Nodes : h # n => kids'[h] = kids[h] /\ forks'[h] = forks[h]
  BY <1>2, <1>4 DEF IInv, KidInv
<1>6. KidInv'
  <2>1. ASSUME NEW h \in Nodes, NEW k \in kids'[h]
        PROVE  k.id <= forks'[h] /\ (k.kind = "file" => k.file \in Files) /\ (k.st = "connected" => k.kind = "file")
    <3>1. CASE k \in kids[h]
      <4>1. k.id <= forks[h] /\ k \in Kid
        BY <1>5, <3>1 DEF IInv, KidInv
      <4>2. k.id \in Nat /\ forks[h] \in Nat /\ forks[h] <= forks'[h]
        BY <1>1, <1>5, <4>1 DEF Kid
      <4>3. k.id <= forks'[h]
        BY <1>5, <4>1, <4>2
      <4> QED BY <3>1, <4>3 DEF IInv, KidInv
    <3>2. CASE h = n /\ k = kid
      BY <1>1, <1>2, <1>5, <3>2
    <3> QED BY <1>5, <3>1, <3>2
  <2> QED BY <1>5, <2>1 DEF KidInv
<1>7. sock \in Sockets /\ Appended({msg})
  BY <1>3 DEF InitPoll, Multicast, Appended, IInv, SockInv
<1>8. sock' \in Sockets /\ \A h \in Nodes, a \in Groups : ToSet(sock'[h][a]) \subseteq ToSet(sock[h][a]) \cup {msg}
  BY <1>7, AppendedFacts
<1>9. SockInv'
  <2>1. ASSUME NEW h \in Nodes, NEW a \in Groups, NEW m \in ToSet(sock'[h][a]), m.type = "req"
        PROVE  m.kid <= forks'[m.from] /\ \A k \in kids'[m.from] : k.id = m.kid => k.kind = "file"
    <3>1. m.from \in Nodes /\ m \in Request
      BY <1>8, <2>1, SocketFrom, MessageFacts
    <3>2. m.kid \in Nat
      BY <3>1 DEF Request
    <3>3. m \in ToSet(sock[h][a])
      <4>1. msg.type = "poll"
        BY <1>3
      <4> QED BY <1>8, <2>1, <4>1
    <3>4. m.kid <= forks[m.from] /\ \A k \in kids[m.from] : k.id = m.kid => k.kind = "file"
      BY <2>1, <3>3 DEF IInv, SockInv, Names
    <3>5. m.kid <= forks'[m.from]
      BY <1>1, <1>5, <3>1, <3>2, <3>4
    <3>6. m.from = n => kid.id # m.kid
      BY <1>1, <1>2, <1>5, <3>2, <3>4
    <3> QED BY <1>5, <3>1, <3>4, <3>5, <3>6
  <2> QED BY <1>8, <2>1 DEF SockInv, Names
<1>10. DataTypes'
  BY <1>4, SetupFacts DEF IInv, DataTypes
<1>11. SyncInv'
  <2>1. \A h \in Nodes \ polled' : h \in Nodes \ polled /\ kids'[h] = kids[h]
    BY <1>4, <1>5
  <2> QED BY <1>4, <2>1 DEF IInv, SyncInv, Listed
<1> QED BY <1>4, <1>6, <1>9, <1>10, <1>11, WaitFrame DEF IInv, WorkInv
-----------------------------------------------------------------------------
(* The invariant, and what follows from it.                                *)

\* It holds when the nodes have read their directories.
LEMMA InvInit == Init => IInv
<1> SUFFICES ASSUME Init
             PROVE  IInv
  OBVIOUS
<1>1. /\ setup \in Setups /\ setup.have \in [Nodes -> Seq(Files)] /\ setup.events \in Nat
      /\ \A n \in Nodes : IsInjective(setup.have[n]) /\ Len(setup.have[n]) <= MaxFiles
  BY SetupAssumption DEF Init, Setup
<1>2. \A n \in Nodes : ToSet(setup.have[n]) \subseteq Files
  BY <1>1, ToSetDef
<1>3. DataTypes
  BY <1>1, <1>2 DEF Init, DataTypes
<1>4. SockInv
  <2>1. sock \in Sockets
    BY DEF Init, Sockets
  <2>2. ASSUME NEW h \in Nodes, NEW g \in Groups, NEW m \in ToSet(sock[h][g])
        PROVE  FALSE
    <3>1. sock[h][g] = <<>>
      BY DEF Init
    <3> QED BY <2>2, <3>1 DEF ToSet
  <2> QED BY <2>1, <2>2 DEF SockInv
<1>5. WaitInv
  BY <1>1 DEF Init, WaitInv
<1>6. SyncInv
  BY <1>1 DEF Init, SyncInv, Listed
<1> QED BY <1>3, <1>4, <1>5, <1>6 DEF IInv, Init, WorkInv, KidInv

\* Every step keeps it.
LEMMA InvStep == IInv /\ [Next]_vars => IInv'
<1> SUFFICES ASSUME IInv, Next
             PROVE  IInv'
  BY StutterInv
<1> PICK n \in Nodes : \/ Program(n) \/ Children(n) \/ Alarm(n)
                       \/ \E g \in Groups : InitPoll(n, g)
                       \/ \E f \in Files : UserRequest(n, f)
  BY DEF Next
<1>1. CASE Program(n)
  BY <1>1, GetFileInv, PassOnInv, ReapInv, VoteInv, TakeListInv, TakeRequestInv, TakePollInv DEF Program
<1>2. CASE Children(n)
  BY <1>2, KidReceivesInv, KidFailsInv, KidTimeoutInv, PollEndsInv DEF Children
<1>3. CASE Alarm(n)
  BY <1>3, AlarmInv
<1>4. CASE \E g \in Groups : InitPoll(n, g)
  BY <1>4, InitPollInv
<1>5. CASE \E f \in Files : UserRequest(n, f)
  BY <1>5, UserRequestInv
<1> QED BY <1>1, <1>2, <1>3, <1>4, <1>5

\* In every run, a node without polls has exactly the child it waits for, and its table
\* lists its directory but for the file that child has just written (utils.c:1086-1099).
THEOREM InvHolds == Spec => []IInv
BY InvInit, InvStep, PTL DEF Spec

\* Every variable keeps its type: the table stays within MAX_FILE_ALLOWED, a node waits
\* exactly while it has asked for a file, and the position in a list stays within it.
THEOREM TypeHolds == Spec => []TypeOK
<1>1. IInv => TypeOK
  <2> SUFFICES ASSUME IInv
               PROVE  TypeOK
    OBVIOUS
  <2>1. \A n \in Nodes : ToSet(files[n]) \subseteq Files /\ Len(files[n]) <= MaxFiles
    <3>1. \A n \in Nodes : files[n] \in Seq(Files) /\ Len(files[n]) <= MaxFiles
      BY DEF IInv, DataTypes, WaitInv
    <3> QED BY <3>1, ToSetDef
  <2>2. \A n \in Nodes : handling[n] # None => handling[n].i \in DOMAIN handling[n].list.files
    <3> SUFFICES ASSUME NEW n \in Nodes, handling[n] # None
                 PROVE  handling[n].i \in DOMAIN handling[n].list.files
      OBVIOUS
    <3>1. PICK w \in Work : w = handling[n] /\ w.i \in 1 .. Len(w.list.files)
      BY DEF IInv, WorkInv
    <3>2. w.list \in List
      BY DEF Work
    <3>3. w.list.files \in Seq(Files)
      BY <3>2 DEF List
    <3> QED BY <3>1, <3>3
  <2>3. \A n \in Nodes : kids[n] \subseteq Kid /\ \A k \in kids[n] : k.id <= forks[n]
    BY DEF IInv, KidInv
  <2> QED BY <2>1, <2>2, <2>3 DEF IInv, DataTypes, WaitInv, TypeOK
<1> QED BY <1>1, InvHolds, PTL

\* The table of a node that has started no poll lists exactly the files in its directory,
\* each once, whenever the node is not inside a request.
THEOREM InSyncUnlessPolledHolds == Spec => []InSyncUnlessPolled
<1>1. IInv => InSyncUnlessPolled
  BY DEF IInv, SyncInv, InSyncUnlessPolled
<1> QED BY <1>1, InvHolds, PTL
=============================================================================
