-------------------------- MODULE SimpleMsgProofs --------------------------
(***************************************************************************)
(* Theorems about SimpleMsg, for every number of users, processes and      *)
(* groups, every set of commands and every size of the queues.             *)
(*                                                                         *)
(* A user's processes share one queue, and a response does not say which   *)
(* request it answers.  A user who has never had two requests under way    *)
(* (who is not in crossed) has one process that waits, and exactly one     *)
(* thing on its way for it: its request, the work of a server thread, or   *)
(* the response (Token).                                                   *)
(***************************************************************************)
EXTENDS SimpleMsg, SeqLemmas, WellFoundedInduction

Group == [name : GroupNames, members : Seq(Users)]

\* The tables.  An entry is counted and not filled only while handle_control_msgs is at it.
TableInv ==
    /\ clients \in Seq(Users \cup {NoUser}) /\ groups \in Seq(Group \cup {NoGroup})
    /\ ctl.step = "client" => clients # <<>> /\ clients[Len(clients)] = NoUser
    /\ ctl.step = "group" => groups # <<>> /\ groups[Len(groups)] = NoGroup
    /\ ctl.step = "creator" => /\ groups # <<>> /\ groups[Len(groups)] # NoGroup
                               /\ groups[Len(groups)].name = ctl.name

\* What the server can be asked.
SrvMsg(m) ==
    /\ m.mtype \in {"CONTROL", "QUERY_REQUEST"} => m.src \in Users
    /\ IsControl(m) /\ m.action = "CREATE_GROUP" => m.arg \in GroupNames

QueueInv ==
    /\ server_queue \in Seq(ToSet(server_queue)) /\ Len(server_queue) <= QueueCap
    /\ \A m \in ToSet(server_queue) : SrvMsg(m)
    /\ DOMAIN client_queue = Users
    /\ \A u \in Users : client_queue[u] \in Seq(ToSet(client_queue[u])) /\ Len(client_queue[u]) <= QueueCap

\* What the threads are doing.
ThreadInv ==
    /\ \/ ctl = Idle
       \/ ctl.step = "client" /\ ctl.src \in Users
       \/ ctl.step \in {"group", "creator"} /\ ctl.src \in Users /\ ctl.name \in GroupNames
       \/ ctl.step = "respond" /\ ctl.to \in Users
    /\ \/ qry = Idle
       \/ qry.step = "respond" /\ qry.src \in Users
       \/ /\ qry.step = "list" /\ qry.src \in Users /\ qry.i \in Nat \ {0}
          /\ qry = [step |-> "list", src |-> qry.src, type |-> qry.type, i |-> qry.i]
    /\ \/ grp = Idle
       \/ /\ grp.step = "send" /\ grp.n \in Nat /\ grp.i \in 1 .. grp.n
          /\ grp = [step |-> "send", msg |-> grp.msg, i |-> grp.i, n |-> grp.n]
          /\ find_group_by_id(grp.msg.dst) # NoGroup /\ grp.n <= Len(Members(grp.msg.dst))
    /\ clt = Idle \/ clt.step = "send"
    /\ server \in {"up", "crashed"}

Others == {"off", "reading", "sending", "typed", "stopped"}

ProcInv ==
    /\ setup \in Setups
    /\ pc \in [Procs -> Requesting \cup Ended \cup Others]
    /\ DOMAIN target = Procs /\ DOMAIN router = Procs /\ DOMAIN shown = Procs
    /\ crossed \subseteq Users /\ msgs \in 0 .. setup.maxMsgs
    /\ \A p \in Procs :
           /\ pc[p] # "off" => p \in DOMAIN cmd
           /\ pc[p] \in {"create", "creating", "created"} => cmd[p].op = "create"
           /\ pc[p] \in {"list", "listing"} => cmd[p].op = "list"
           /\ pc[p] \in {"ask", "asking"} => cmd[p].op \notin {"create", "list"}
           /\ pc[p] \in {"join", "joining", "joined"} => cmd[p].op = "join"

Types == TableInv /\ QueueInv /\ ThreadInv /\ ProcInv
-----------------------------------------------------------------------------
(* Requests and their answers.                                             *)

Waiting == {"registering", "asking", "joining", "creating", "listing"}

ReqOf(m, u) == m.mtype \in {"CONTROL", "QUERY_REQUEST"} /\ m.src = u
IsResponse(m) == m.mtype \in {"CONTROL_RESPONSE", "QUERY_RESPONSE"}
IsEntry(m) == m.mtype = "QUERY_RESPONSE" /\ m.kind = "entry"
CtlOf(u) == (ctl.step \in {"client", "group", "creator"} /\ ctl.src = u) \/ (ctl.step = "respond" /\ ctl.to = u)
QryOf(u) == qry.step \in {"respond", "list"} /\ qry.src = u

Named(gid, name) == find_group_by_id(gid) # NoGroup /\ find_group_by_id(gid).name = name
Member(u, gid) == find_group_by_id(gid) # NoGroup /\ \E i \in 1 .. Len(Members(gid)) : Members(gid)[i] = u
Found(kind, id, name) == IF kind = "client" THEN Registered(id) ELSE Named(id, name)

\* m is the request that p waits for the answer to.
Asks(p, m) ==
    IF pc[p] \in {"registering", "joining", "creating"}
    THEN /\ IsControl(m) /\ m.action = Expected[pc[p]]
         /\ pc[p] = "joining" => m.arg = target[p]
         /\ pc[p] = "creating" => m.arg = cmd[p].name
    ELSE /\ IsQuery(m)
         /\ pc[p] = "asking" => m.query_type = cmd[p].kind /\ m.content = cmd[p].name
         /\ pc[p] = "listing" => m.content = "_ALL_"

\* r is the answer to it, or the last of the answers.
Answers(p, r) ==
    IF pc[p] \in {"registering", "joining", "creating"}
    THEN /\ r.mtype = "CONTROL_RESPONSE" /\ r.action = Expected[pc[p]]
         /\ Registered(Owner[p])
         /\ pc[p] = "joining" => Member(Owner[p], target[p])
         /\ pc[p] = "creating" => Named(r.gid, cmd[p].name) /\ Member(Owner[p], r.gid)
    ELSE /\ r.mtype = "QUERY_RESPONSE"
         /\ pc[p] = "asking" => /\ r.kind = "id" /\ r.status \in {"OK", "ERROR"}
                                /\ r.status = "OK" => Found(cmd[p].kind, r.id, cmd[p].name)
         /\ pc[p] = "listing" => r.kind = "_END_"

\* A server thread is at it.
CtlWork(p) ==
    \/ ctl.step = "client" /\ pc[p] = "registering"
    \/ ctl.step \in {"group", "creator"} /\ pc[p] = "creating" /\ ctl.name = cmd[p].name
    \/ ctl.step = "respond" /\ Answers(p, ctl.res)
QryWork(p) ==
    \/ qry.step = "list" /\ pc[p] = "listing"
    \/ qry.step = "respond" /\ Answers(p, qry.res)
Works(p) ==
    IF pc[p] \in {"registering", "joining", "creating"}
    THEN CtlOf(Owner[p]) /\ ~QryOf(Owner[p]) /\ CtlWork(p)
    ELSE QryOf(Owner[p]) /\ ~CtlOf(Owner[p]) /\ QryWork(p)

NoRequest(u) == \A i \in 1 .. Len(server_queue) : ~ReqOf(server_queue[i], u)
NoResponse(u) == \A i \in 1 .. Len(client_queue[u]) : ~IsResponse(client_queue[u][i])
NoWork(u) == ~CtlOf(u) /\ ~QryOf(u)

OneRequest(p) ==
    LET q == server_queue  u == Owner[p] IN
    \E i \in 1 .. Len(q) : /\ ReqOf(q[i], u) /\ Asks(p, q[i])
                           /\ \A j \in 1 .. Len(q) : ReqOf(q[j], u) => j = i
OnlyEntries(p) ==
    LET q == client_queue[Owner[p]] IN
    \A i \in 1 .. Len(q) : IsResponse(q[i]) => pc[p] = "listing" /\ IsEntry(q[i])
OneResponse(p) ==
    LET q == client_queue[Owner[p]] IN
    \E i \in 1 .. Len(q) :
        /\ IsResponse(q[i]) /\ Answers(p, q[i])
        /\ \A j \in 1 .. Len(q) : IsResponse(q[j]) => j = i \/ (j < i /\ pc[p] = "listing" /\ IsEntry(q[j]))

Calm(u) == NoRequest(u) /\ NoWork(u) /\ NoResponse(u)
Token(p) ==
    LET u == Owner[p] IN
    \/ OneRequest(p) /\ NoWork(u) /\ NoResponse(u)
    \/ NoRequest(u) /\ Works(p) /\ OnlyEntries(p)
    \/ NoRequest(u) /\ NoWork(u) /\ OneResponse(p)

\* What a process has been told is so.
Told(p) ==
    /\ pc[p] \notin {"off", "registering", "stopped"} => Registered(Owner[p])
    /\ pc[p] \in {"join", "joining", "joined"} => Named(target[p], cmd[p].name)
    /\ pc[p] = "created" => Named(target[p], cmd[p].name)
    /\ pc[p] \in {"joined", "created"} => Member(Owner[p], target[p])
    /\ pc[p] \in {"sending", "typed"} => target[p] = NotFound \/ Found(cmd[p].kind, target[p], cmd[p].name)

Mine(u) == {p \in Procs : Owner[p] = u}
UserInv(u) ==
    /\ \A p, q \in Mine(u) : pc[p] \in Requesting /\ pc[q] \in Requesting => p = q
    /\ (\A p \in Mine(u) : pc[p] \notin Waiting) => Calm(u)
    /\ \A p \in Mine(u) : pc[p] \in Waiting => Token(p)
    /\ \A p \in Mine(u) : Told(p)

\* Messages go to somebody the server knows, or to nobody.
MsgInv ==
    \A m \in ToSet(server_queue) : m.mtype \in {"GROUP_MESSAGE", "CLIENT_MESSAGE"} /\ m.src \notin crossed =>
        \/ m.dst = NotFound
        \/ IF IsGroupMsg(m) THEN find_group_by_id(m.dst) # NoGroup ELSE Registered(m.dst)

\* Members are registered.
MemberInv ==
    \A k \in DOMAIN groups : groups[k] # NoGroup =>
        \A j \in DOMAIN groups[k].members :
            groups[k].members[j] \notin crossed => Registered(groups[k].members[j])

AnswerInv == \A u \in Users \ crossed : UserInv(u)
IInv == Types /\ AnswerInv /\ MsgInv /\ MemberInv
-----------------------------------------------------------------------------
(* Sequences.                                                              *)

\* A set of numbers has a least one, and Min is it.
LEMMA MinIn ==
    ASSUME NEW T, T \subseteq Nat, T # {}
    PROVE  /\ Min(T) \in T /\ \A y \in T : Min(T) <= y
           /\ \E x \in T : \A y \in T : x <= y
<1>1. PICK x \in T : \A y \in T : ~(<<y, x>> \in OpToRel(<, Nat))
  BY NatLessThanWellFounded, WFMin
<1>2. \A y \in T : ~(y < x)
  BY <1>1 DEF OpToRel
<1>3. \A y \in T : x <= y
  BY <1>2
<1> QED BY <1>3 DEF Min

\* What Append does to the positions.
LEMMA AppendSeq ==
    ASSUME NEW s, s \in Seq(ToSet(s)), NEW e
    PROVE  /\ Append(s, e) \in Seq(ToSet(Append(s, e))) /\ Len(Append(s, e)) = Len(s) + 1
           /\ ToSet(Append(s, e)) = ToSet(s) \cup {e}
           /\ \A i \in 1 .. Len(s) : Append(s, e)[i] = s[i]
           /\ Append(s, e)[Len(s) + 1] = e
           /\ Len(s) \in Nat
<1> DEFINE T == ToSet(s) \cup {e}
<1>1. s \in Seq(T)
  <2>1. \A i \in 1 .. Len(s) : s[i] \in T
    BY ToSetDef
  <2> QED BY <2>1
<1>2. /\ Append(s, e) \in Seq(T) /\ Len(Append(s, e)) = Len(s) + 1
      /\ \A i \in 1 .. Len(s) : Append(s, e)[i] = s[i]
      /\ Append(s, e)[Len(s) + 1] = e
      /\ Len(s) \in Nat
  BY <1>1
<1>3. ToSet(Append(s, e)) = T
  BY <1>1, AppendMembers
<1> QED BY <1>2, <1>3

\* What RemoveAt does to the positions: every other one has a place, and no two the same.
LEMMA RemoveSeq ==
    ASSUME NEW s, s \in Seq(ToSet(s)), NEW k \in 1 .. Len(s)
    PROVE  /\ RemoveAt(s, k) \in Seq(ToSet(RemoveAt(s, k))) /\ Len(RemoveAt(s, k)) = Len(s) - 1
           /\ ToSet(RemoveAt(s, k)) \subseteq ToSet(s)
           /\ \A i \in 1 .. Len(RemoveAt(s, k)) : RemoveAt(s, k)[i] = IF i < k THEN s[i] ELSE s[i + 1]
           /\ \A i \in 1 .. Len(s) : i < k => i \in 1 .. Len(RemoveAt(s, k))
           /\ \A i \in 1 .. Len(s) : i > k => i - 1 \in 1 .. Len(RemoveAt(s, k)) /\ RemoveAt(s, k)[i - 1] = s[i]
           /\ Len(s) \in Nat
<1> DEFINE r == RemoveAt(s, k)
<1>1. /\ r \in Seq(ToSet(s)) /\ Len(r) = Len(s) - 1 /\ Len(s) \in Nat
      /\ \A i \in 1 .. Len(s) - 1 : r[i] = IF i < k THEN s[i] ELSE s[i + 1]
  BY RemoveAtPositions
<1> HIDE DEF r
<1>2. ToSet(r) \subseteq ToSet(s)
  BY <1>1, ToSetDef
<1>3. r \in Seq(ToSet(r))
  <2>1. \A i \in 1 .. Len(r) : r[i] \in ToSet(r)
    BY <1>1, ToSetDef
  <2> QED BY <1>1, <2>1
<1>4. \A i \in 1 .. Len(s) : i < k => i \in 1 .. Len(r)
  BY <1>1
<1>5. ASSUME NEW i \in 1 .. Len(s), i > k
      PROVE  i - 1 \in 1 .. Len(r) /\ r[i - 1] = s[i]
  <2>1. i - 1 \in 1 .. Len(s) - 1 /\ ~(i - 1 < k) /\ (i - 1) + 1 = i
    BY <1>1, <1>5
  <2> QED BY <1>1, <2>1
<1> QED BY <1>1, <1>2, <1>3, <1>4, <1>5 DEF r
-----------------------------------------------------------------------------
(* msgrcv.                                                                 *)

\* The first request in a queue, and the queue without it.
LEMMA FirstControl ==
    ASSUME NEW q, q \in Seq(ToSet(q)), Has(q, IsControl)
    PROVE  \E k \in 1 .. Len(q) : /\ IsControl(q[k]) /\ First(q, IsControl) = q[k]
                                  /\ RemoveFirstMatch(q, IsControl) = RemoveAt(q, k)
<1> DEFINE I == {i \in 1 .. Len(q) : IsControl(q[i])}
           k == Min(I)
<1>1. I \subseteq Nat /\ I # {} /\ DOMAIN q = 1 .. Len(q)
  BY DEF Has
<1>2. k \in I
  BY <1>1, MinIn
<1>3. SelectInSeq(q, IsControl) = k
  BY <1>1 DEF SelectInSeq
<1>4. RemoveFirstMatch(q, IsControl) = RemoveAt(q, k)
  BY <1>1, <1>3 DEF RemoveFirstMatch
<1> QED BY <1>2, <1>3, <1>4 DEF First

\* The first query in a queue, and the queue without it.
LEMMA FirstQuery ==
    ASSUME NEW q, q \in Seq(ToSet(q)), Has(q, IsQuery)
    PROVE  \E k \in 1 .. Len(q) : /\ IsQuery(q[k]) /\ First(q, IsQuery) = q[k]
                                  /\ RemoveFirstMatch(q, IsQuery) = RemoveAt(q, k)
<1> DEFINE I == {i \in 1 .. Len(q) : IsQuery(q[i])}
           k == Min(I)
<1>1. I \subseteq Nat /\ I # {} /\ DOMAIN q = 1 .. Len(q)
  BY DEF Has
<1>2. k \in I
  BY <1>1, MinIn
<1>3. SelectInSeq(q, IsQuery) = k
  BY <1>1 DEF SelectInSeq
<1>4. RemoveFirstMatch(q, IsQuery) = RemoveAt(q, k)
  BY <1>1, <1>3 DEF RemoveFirstMatch
<1> QED BY <1>2, <1>3, <1>4 DEF First

\* The first group message in a queue, and the queue without it.
LEMMA FirstGroupMsg ==
    ASSUME NEW q, q \in Seq(ToSet(q)), Has(q, IsGroupMsg)
    PROVE  \E k \in 1 .. Len(q) : /\ IsGroupMsg(q[k]) /\ First(q, IsGroupMsg) = q[k]
                                  /\ RemoveFirstMatch(q, IsGroupMsg) = RemoveAt(q, k)
<1> DEFINE I == {i \in 1 .. Len(q) : IsGroupMsg(q[i])}
           k == Min(I)
<1>1. I \subseteq Nat /\ I # {} /\ DOMAIN q = 1 .. Len(q)
  BY DEF Has
<1>2. k \in I
  BY <1>1, MinIn
<1>3. SelectInSeq(q, IsGroupMsg) = k
  BY <1>1 DEF SelectInSeq
<1>4. RemoveFirstMatch(q, IsGroupMsg) = RemoveAt(q, k)
  BY <1>1, <1>3 DEF RemoveFirstMatch
<1> QED BY <1>2, <1>3, <1>4 DEF First

\* The first message to a client in a queue, and the queue without it.
LEMMA FirstClientMsg ==
    ASSUME NEW q, q \in Seq(ToSet(q)), Has(q, IsClientMsg)
    PROVE  \E k \in 1 .. Len(q) : /\ IsClientMsg(q[k]) /\ First(q, IsClientMsg) = q[k]
                                  /\ RemoveFirstMatch(q, IsClientMsg) = RemoveAt(q, k)
<1> DEFINE I == {i \in 1 .. Len(q) : IsClientMsg(q[i])}
           k == Min(I)
<1>1. I \subseteq Nat /\ I # {} /\ DOMAIN q = 1 .. Len(q)
  BY DEF Has
<1>2. k \in I
  BY <1>1, MinIn
<1>3. SelectInSeq(q, IsClientMsg) = k
  BY <1>1 DEF SelectInSeq
<1>4. RemoveFirstMatch(q, IsClientMsg) = RemoveAt(q, k)
  BY <1>1, <1>3 DEF RemoveFirstMatch
<1> QED BY <1>2, <1>3, <1>4 DEF First

\* The first response of a type; no earlier one is of that type.
LEMMA FirstResponse ==
    ASSUME NEW q, q \in Seq(ToSet(q)), NEW type,
           LET Is(m) == m.mtype = type IN Has(q, Is)
    PROVE  LET Is(m) == m.mtype = type IN
           \E k \in 1 .. Len(q) :
                  /\ q[k].mtype = type
                  /\ \A j \in 1 .. Len(q) : q[j].mtype = type => k <= j
                  /\ First(q, Is) = q[k] /\ RemoveFirstMatch(q, Is) = RemoveAt(q, k)
<1> DEFINE Is(m) == m.mtype = type
           I == {i \in 1 .. Len(q) : q[i].mtype = type}
           k == Min(I)
<1>1. I \subseteq Nat /\ I # {} /\ DOMAIN q = 1 .. Len(q)
  BY DEF Has
<1>2. k \in I /\ \A j \in I : k <= j
  BY <1>1, MinIn
<1>3. SelectInSeq(q, Is) = k
  BY <1>1 DEF SelectInSeq
<1>4. RemoveFirstMatch(q, Is) = RemoveAt(q, k)
  BY <1>1, <1>3 DEF RemoveFirstMatch
<1>5. First(q, Is) = q[k]
  BY <1>3 DEF First
<1> QED BY <1>2, <1>4, <1>5

-----------------------------------------------------------------------------
(* What a step leaves alone.                                               *)

\* No request of u comes or goes; no response for u does.
ReqSame(u) ==
    \/ server_queue' = server_queue
    \/ \E m : ~ReqOf(m, u) /\ server_queue' = Append(server_queue, m)
    \/ \E k \in 1 .. Len(server_queue) :
           ~ReqOf(server_queue[k], u) /\ server_queue' = RemoveAt(server_queue, k)
ResSame(u) ==
    \/ client_queue'[u] = client_queue[u]
    \/ \E m : ~IsResponse(m) /\ client_queue'[u] = Append(client_queue[u], m)
    \/ \E k \in 1 .. Len(client_queue[u]) :
           ~IsResponse(client_queue[u][k]) /\ client_queue'[u] = RemoveAt(client_queue[u], k)
CtlSame(u) == ctl' = ctl \/ (~CtlOf(u) /\ ~CtlOf(u)')
QrySame(u) == qry' = qry \/ (~QryOf(u) /\ ~QryOf(u)')

\* Entries of the tables stay, and a group keeps its members in their places.
Grown ==
    /\ \A u : Registered(u) => Registered(u)'
    /\ \A gid : find_group_by_id(gid) # NoGroup =>
           /\ find_group_by_id(gid)' # NoGroup
           /\ find_group_by_id(gid)'.name = find_group_by_id(gid).name
           /\ Len(Members(gid)) \in Nat /\ Len(Members(gid)') \in Nat
           /\ Len(Members(gid)) <= Len(Members(gid)')
           /\ \A i \in 1 .. Len(Members(gid)) : Members(gid)'[i] = Members(gid)[i]

\* A process of u goes on with what it does, or starts or ends a message, or stops reading
\* or writing.
PcSame(u) ==
    \A p \in Mine(u) :
        /\ target'[p] = target[p]
        /\ \/ pc'[p] = pc[p]
           \/ pc[p] \in {"sending", "typed"} /\ pc'[p] \in {"sending", "typed"}
           \/ pc[p] \in {"reading", "sending", "typed"} /\ pc'[p] = "stopped"

\* A group that is found stands in the table.
LEMMA GroupAt ==
    ASSUME TableInv, SetupAssumption, NEW gid, find_group_by_id(gid) # NoGroup
    PROVE  /\ find_group_by_id(gid) \in Group /\ gid + 1 \in 1 .. Len(groups)
           /\ find_group_by_id(gid) = groups[gid + 1]
           /\ Members(gid) \in Seq(Users)
<1>1. groups \in Seq(Group \cup {NoGroup})
  BY DEF TableInv
<1>2. gid + 1 \in DOMAIN groups /\ find_group_by_id(gid) = groups[gid + 1]
  BY DEF find_group_by_id
<1>3. gid + 1 \in 1 .. Len(groups)
  BY <1>1, <1>2
<1>4. find_group_by_id(gid) \in Group
  BY <1>1, <1>2, <1>3
<1>5. Members(gid) \in Seq(Users)
  BY <1>4 DEF Group, Members
<1> QED BY <1>2, <1>3, <1>4, <1>5

\* What has been said of the tables stays true.
LEMMA GrownFacts ==
    ASSUME Grown
    PROVE  /\ \A gid, name : Named(gid, name) => Named(gid, name)'
           /\ \A u, gid : Member(u, gid) => Member(u, gid)'
           /\ \A kind, id, name : Found(kind, id, name) => Found(kind, id, name)'
<1>1. \A gid, name : Named(gid, name) => Named(gid, name)'
  BY DEF Grown, Named
<1>2. ASSUME NEW u, NEW gid, Member(u, gid)
      PROVE  Member(u, gid)'
  <2>1. find_group_by_id(gid) # NoGroup
    BY <1>2 DEF Member
  <2>2. PICK i \in 1 .. Len(Members(gid)) : Members(gid)[i] = u
    BY <1>2 DEF Member
  <2>3. /\ find_group_by_id(gid)' # NoGroup
        /\ Len(Members(gid)) \in Nat /\ Len(Members(gid)') \in Nat
        /\ Len(Members(gid)) <= Len(Members(gid)')
        /\ Members(gid)'[i] = Members(gid)[i]
    BY <2>1, <2>2 DEF Grown
  <2>4. i \in 1 .. Len(Members(gid)')
    BY <2>3
  <2> QED BY <2>2, <2>3, <2>4 DEF Member
<1>3. \A id : Registered(id) => Registered(id)'
  BY DEF Grown
<1>4. \A kind, id, name : Found(kind, id, name) => Found(kind, id, name)'
  BY <1>1, <1>3 DEF Found
<1> QED BY <1>1, <1>2, <1>4

\* A response that answers goes on to do so.
LEMMA AnswersStay ==
    ASSUME Grown, setup' = setup, NEW p \in Procs, pc'[p] = pc[p], target'[p] = target[p],
           NEW r, Answers(p, r)
    PROVE  Answers(p, r)'
<1>1. /\ \A gid, name : Named(gid, name) => Named(gid, name)'
      /\ \A u, gid : Member(u, gid) => Member(u, gid)'
      /\ \A kind, id, name : Found(kind, id, name) => Found(kind, id, name)'
      /\ \A id : Registered(id) => Registered(id)'
  BY GrownFacts DEF Grown
<1>2. cmd'[p] = cmd[p]
  BY DEF cmd
<1>3. CASE pc[p] \in {"registering", "joining", "creating"}
  BY <1>1, <1>2, <1>3 DEF Answers
<1>4. CASE pc[p] \notin {"registering", "joining", "creating"}
  BY <1>1, <1>2, <1>4 DEF Answers
<1> QED BY <1>3, <1>4

\* When no request of u comes or goes, there is none, ...
LEMMA NoRequestStays ==
    ASSUME QueueInv, NEW u, ReqSame(u), NoRequest(u)
    PROVE  NoRequest(u)'
<1> DEFINE q == server_queue
<1>1. q \in Seq(ToSet(q)) /\ Len(q) \in Nat
  BY DEF QueueInv
<1>2. \A i \in 1 .. Len(q) : ~ReqOf(q[i], u)
  BY DEF NoRequest
<1>3. CASE server_queue' = server_queue
  BY <1>2, <1>3 DEF NoRequest, ReqOf
<1>4. CASE \E m : ~ReqOf(m, u) /\ server_queue' = Append(server_queue, m)
  <2>1. PICK m : ~ReqOf(m, u) /\ server_queue' = Append(server_queue, m)
    BY <1>4
  <2>2. \A i \in 1 .. Len(server_queue') : ~ReqOf(server_queue'[i], u)
    BY <1>1, <1>2, <2>1, AppendSeq
  <2> QED BY <2>2 DEF NoRequest, ReqOf
<1>5. CASE \E k \in 1 .. Len(q) : ~ReqOf(q[k], u) /\ server_queue' = RemoveAt(q, k)
  <2>1. PICK k \in 1 .. Len(q) : server_queue' = RemoveAt(q, k)
    BY <1>5
  <2>2. \A i \in 1 .. Len(server_queue') : ~ReqOf(server_queue'[i], u)
    BY <1>1, <1>2, <2>1, RemoveSeq
  <2> QED BY <2>2 DEF NoRequest, ReqOf
<1> QED BY <1>3, <1>4, <1>5 DEF ReqSame

\* ... or there is the one there was.
LEMMA OneRequestStays ==
    ASSUME QueueInv, NEW u, ReqSame(u), NEW p \in Procs, Owner[p] = u,
           pc'[p] = pc[p], target'[p] = target[p], setup' = setup, OneRequest(p)
    PROVE  OneRequest(p)'
<1> DEFINE q == server_queue
<1>1. q \in Seq(ToSet(q)) /\ Len(q) \in Nat
  BY DEF QueueInv
<1>2. PICK i \in 1 .. Len(q) : /\ ReqOf(q[i], u) /\ Asks(p, q[i])
                               /\ \A j \in 1 .. Len(q) : ReqOf(q[j], u) => j = i
  BY DEF OneRequest
<1>3. PICK m : m = q[i]
  OBVIOUS
<1>4. Asks(p, m) /\ ReqOf(m, u)
  BY <1>2, <1>3
<1>5. Asks(p, m)'
  BY <1>4 DEF Asks, cmd
<1>6. ASSUME NEW k \in 1 .. Len(server_queue'), server_queue'[k] = m,
             \A j \in 1 .. Len(server_queue') : ReqOf(server_queue'[j], u) => j = k
      PROVE  OneRequest(p)'
  BY <1>4, <1>5, <1>6 DEF OneRequest, ReqOf
<1>7. CASE server_queue' = server_queue
  BY <1>2, <1>3, <1>6, <1>7
<1>8. CASE \E x : ~ReqOf(x, u) /\ server_queue' = Append(server_queue, x)
  <2>1. PICK x : ~ReqOf(x, u) /\ server_queue' = Append(server_queue, x)
    BY <1>8
  <2>2. i \in 1 .. Len(server_queue') /\ server_queue'[i] = m
    BY <1>1, <1>3, <2>1, AppendSeq
  <2>3. \A j \in 1 .. Len(server_queue') : ReqOf(server_queue'[j], u) => j = i
    BY <1>1, <1>2, <2>1, AppendSeq
  <2> QED BY <1>6, <2>2, <2>3
<1>9. CASE \E k \in 1 .. Len(q) : ~ReqOf(q[k], u) /\ server_queue' = RemoveAt(q, k)
  <2>1. PICK k \in 1 .. Len(q) : ~ReqOf(q[k], u) /\ server_queue' = RemoveAt(q, k)
    BY <1>9
  <2>2. i # k
    BY <1>2, <2>1
  <2>3. CASE i < k
    <3>1. i \in 1 .. Len(server_queue') /\ server_queue'[i] = m
      BY <1>1, <1>3, <2>1, <2>3, RemoveSeq
    <3>2. \A j \in 1 .. Len(server_queue') : ReqOf(server_queue'[j], u) => j = i
      BY <1>1, <1>2, <2>1, <2>3, RemoveSeq
    <3> QED BY <1>6, <3>1, <3>2
  <2>4. CASE i > k
    <3>1. i - 1 \in 1 .. Len(server_queue') /\ server_queue'[i - 1] = m
      BY <1>1, <1>3, <2>1, <2>4, RemoveSeq
    <3>2. \A j \in 1 .. Len(server_queue') : ReqOf(server_queue'[j], u) => j = i - 1
      <4>1. TAKE j \in 1 .. Len(server_queue')
      <4>2. HAVE ReqOf(server_queue'[j], u)
      <4>3. CASE j < k
        BY <1>1, <1>2, <2>1, <2>4, <4>2, <4>3, RemoveSeq
      <4>4. CASE j >= k
        <5>1. j + 1 \in 1 .. Len(q) /\ server_queue'[j] = q[j + 1]
          BY <1>1, <2>1, <4>4, RemoveSeq
        <5>2. j + 1 = i
          BY <1>2, <4>2, <5>1
        <5> QED BY <5>2
      <4> QED BY <1>1, <4>3, <4>4
    <3> QED BY <1>6, <3>1, <3>2
  <2> QED BY <2>2, <2>3, <2>4
<1> QED BY <1>7, <1>8, <1>9 DEF ReqSame

\* r has what s has except at position k, in the same order: position i has moved to n, and
\* what stood before it still does.
Moved(s, r, k, i) ==
    \E n \in 1 .. Len(r) :
        /\ r[n] = s[i]
        /\ \A j \in 1 .. Len(r) : \E h \in 1 .. Len(s) :
               /\ h # k /\ r[j] = s[h]
               /\ h = i => j = n
               /\ h < i => j < n

\* RemoveAt does that.
LEMMA RemoveKeeps ==
    ASSUME NEW s, s \in Seq(ToSet(s)), NEW k \in 1 .. Len(s), NEW i \in 1 .. Len(s), i # k
    PROVE  Moved(s, RemoveAt(s, k), k, i)
<1>1. PICK r : r = RemoveAt(s, k)
  OBVIOUS
<1>2. /\ Len(r) = Len(s) - 1 /\ Len(s) \in Nat
      /\ \A j \in 1 .. Len(r) : r[j] = IF j < k THEN s[j] ELSE s[j + 1]
      /\ \A j \in 1 .. Len(s) : j < k => j \in 1 .. Len(r)
      /\ \A j \in 1 .. Len(s) : j > k => j - 1 \in 1 .. Len(r) /\ r[j - 1] = s[j]
  BY <1>1, RemoveSeq
<1>3. PICK n \in 1 .. Len(r) : n = IF i < k THEN i ELSE i - 1
  BY <1>2
<1>4. r[n] = s[i]
  BY <1>2, <1>3
<1>5. ASSUME NEW j \in 1 .. Len(r)
      PROVE  \E h \in 1 .. Len(s) : /\ h # k /\ r[j] = s[h]
                                    /\ h = i => j = n
                                    /\ h < i => j < n
  <2>1. CASE j < k
    <3>1. j \in 1 .. Len(s) /\ j # k /\ r[j] = s[j]
      BY <1>2, <2>1
    <3>2. (j = i => j = n) /\ (j < i => j < n)
      BY <1>2, <1>3, <2>1
    <3> QED BY <3>1, <3>2
  <2>2. CASE j >= k
    <3>1. j + 1 \in 1 .. Len(s) /\ j + 1 # k /\ r[j] = s[j + 1]
      BY <1>2, <2>2
    <3>2. (j + 1 = i => j = n) /\ (j + 1 < i => j < n)
      BY <1>2, <1>3, <2>2
    <3> QED BY <3>1, <3>2
  <2> QED BY <2>1, <2>2
<1> QED BY <1>1, <1>4, <1>5 DEF Moved

\* What is left stood there before.
LEMMA RemoveFrom ==
    ASSUME NEW s, s \in Seq(ToSet(s)), NEW k \in 1 .. Len(s), NEW r, r = RemoveAt(s, k)
    PROVE  \A j \in 1 .. Len(r) : \E h \in 1 .. Len(s) : r[j] = s[h] /\ h # k
<1>1. /\ Len(r) = Len(s) - 1 /\ Len(s) \in Nat
      /\ \A j \in 1 .. Len(r) : r[j] = IF j < k THEN s[j] ELSE s[j + 1]
  BY RemoveSeq
<1>2. TAKE j \in 1 .. Len(r)
<1>3. CASE j < k
  <2>1. j \in 1 .. Len(s) /\ j # k /\ r[j] = s[j]
    BY <1>1, <1>3
  <2> QED BY <2>1
<1>4. CASE j >= k
  <2>1. j + 1 \in 1 .. Len(s) /\ j + 1 # k /\ r[j] = s[j + 1]
    BY <1>1, <1>4
  <2> QED BY <2>1
<1> QED BY <1>3, <1>4

\* When no response for u comes or goes, there is none, ...
LEMMA NoResponseStays ==
    ASSUME QueueInv, NEW u \in Users, ResSame(u), NoResponse(u)
    PROVE  NoResponse(u)'
<1>1. PICK q : q = client_queue[u]
  OBVIOUS
<1>2. PICK r : r = client_queue'[u]
  OBVIOUS
<1>3. q \in Seq(ToSet(q)) /\ Len(q) \in Nat
  BY <1>1 DEF QueueInv
<1>4. \A i \in 1 .. Len(q) : ~IsResponse(q[i])
  BY <1>1 DEF NoResponse
<1>5. \A i \in 1 .. Len(r) : ~IsResponse(r[i])
  <2>1. CASE r = q
    BY <1>4, <2>1
  <2>2. CASE \E m : ~IsResponse(m) /\ r = Append(q, m)
    BY <1>3, <1>4, <2>2, AppendSeq
  <2>3. CASE \E k \in 1 .. Len(q) : ~IsResponse(q[k]) /\ r = RemoveAt(q, k)
    BY <1>3, <1>4, <2>3, RemoveFrom
  <2> QED BY <1>1, <1>2, <2>1, <2>2, <2>3 DEF ResSame
<1> QED BY <1>2, <1>5 DEF NoResponse, IsResponse

\* ... or only entries of a list, ...
LEMMA OnlyEntriesStays ==
    ASSUME QueueInv, NEW u \in Users, ResSame(u), NEW p \in Procs, Owner[p] = u,
           pc'[p] = pc[p], OnlyEntries(p)
    PROVE  OnlyEntries(p)'
<1>1. PICK q : q = client_queue[u]
  OBVIOUS
<1>2. PICK r : r = client_queue'[u]
  OBVIOUS
<1>3. q \in Seq(ToSet(q)) /\ Len(q) \in Nat
  BY <1>1 DEF QueueInv
<1>4. \A i \in 1 .. Len(q) : IsResponse(q[i]) => pc[p] = "listing" /\ IsEntry(q[i])
  BY <1>1 DEF OnlyEntries
<1>5. \A i \in 1 .. Len(r) : IsResponse(r[i]) => pc[p] = "listing" /\ IsEntry(r[i])
  <2>1. CASE r = q
    BY <1>4, <2>1
  <2>2. CASE \E m : ~IsResponse(m) /\ r = Append(q, m)
    BY <1>3, <1>4, <2>2, AppendSeq
  <2>3. CASE \E k \in 1 .. Len(q) : ~IsResponse(q[k]) /\ r = RemoveAt(q, k)
    BY <1>3, <1>4, <2>3, RemoveFrom
  <2> QED BY <1>1, <1>2, <2>1, <2>2, <2>3 DEF ResSame
<1> QED BY <1>2, <1>5 DEF OnlyEntries, IsResponse, IsEntry

\* ... or the one there was, with its entries before it.  An entry may also have gone.
LEMMA OneResponseStays ==
    ASSUME QueueInv, NEW u \in Users, NEW p \in Procs, Owner[p] = u,
           \/ ResSame(u)
           \/ \E k \in 1 .. Len(client_queue[u]) :
                  /\ pc[p] = "listing" /\ IsEntry(client_queue[u][k])
                  /\ client_queue'[u] = RemoveAt(client_queue[u], k),
           Grown, setup' = setup, pc'[p] = pc[p], target'[p] = target[p], OneResponse(p)
    PROVE  OneResponse(p)'
<1>1. PICK q : q = client_queue[u]
  OBVIOUS
<1>2. PICK r : r = client_queue'[u]
  OBVIOUS
<1>3. q \in Seq(ToSet(q)) /\ Len(q) \in Nat
  BY <1>1 DEF QueueInv
<1>4. PICK i \in 1 .. Len(q) :
          /\ IsResponse(q[i]) /\ Answers(p, q[i])
          /\ \A j \in 1 .. Len(q) : IsResponse(q[j]) => j = i \/ (j < i /\ pc[p] = "listing" /\ IsEntry(q[j]))
  BY <1>1 DEF OneResponse
<1>5. PICK m : m = q[i]
  OBVIOUS
<1>6. Answers(p, m)' /\ IsResponse(m)
  BY <1>4, <1>5, AnswersStay
<1>7. ASSUME NEW n \in 1 .. Len(r), r[n] = m,
             \A j \in 1 .. Len(r) : IsResponse(r[j]) => j = n \/ (j < n /\ pc[p] = "listing" /\ IsEntry(r[j]))
      PROVE  OneResponse(p)'
  BY <1>2, <1>6, <1>7 DEF OneResponse, IsResponse, IsEntry
<1>8. CASE r = q
  BY <1>4, <1>5, <1>7, <1>8
<1>9. CASE \E x : ~IsResponse(x) /\ r = Append(q, x)
  <2>1. PICK x : ~IsResponse(x) /\ r = Append(q, x)
    BY <1>9
  <2>2. i \in 1 .. Len(r) /\ r[i] = m
    BY <1>3, <1>5, <2>1, AppendSeq
  <2>3. \A j \in 1 .. Len(r) : IsResponse(r[j]) => j = i \/ (j < i /\ pc[p] = "listing" /\ IsEntry(r[j]))
    BY <1>3, <1>4, <2>1, AppendSeq
  <2> QED BY <1>7, <2>2, <2>3
<1>10. ASSUME NEW k \in 1 .. Len(q), k # i, r = RemoveAt(q, k)
       PROVE  OneResponse(p)'
  <2>1. PICK n \in 1 .. Len(r) :
              /\ r[n] = q[i]
              /\ \A j \in 1 .. Len(r) : \E h \in 1 .. Len(q) :
                     /\ h # k /\ r[j] = q[h]
                     /\ h = i => j = n
                     /\ h < i => j < n
    <3>1. Moved(q, r, k, i)
      BY <1>3, <1>10, RemoveKeeps
    <3> QED BY <3>1 DEF Moved
  <2>2. \A j \in 1 .. Len(r) : IsResponse(r[j]) => j = n \/ (j < n /\ pc[p] = "listing" /\ IsEntry(r[j]))
    BY <1>4, <2>1
  <2> QED BY <1>5, <1>7, <2>1, <2>2
<1>11. CASE \E k \in 1 .. Len(q) : ~IsResponse(q[k]) /\ r = RemoveAt(q, k)
  BY <1>4, <1>10, <1>11
<1>12. CASE \E k \in 1 .. Len(q) : pc[p] = "listing" /\ IsEntry(q[k]) /\ r = RemoveAt(q, k)
  <2>1. PICK k \in 1 .. Len(q) : pc[p] = "listing" /\ IsEntry(q[k]) /\ r = RemoveAt(q, k)
    BY <1>12
  <2>2. k # i
    BY <1>4, <2>1 DEF Answers, IsEntry
  <2> QED BY <1>10, <2>1, <2>2
<1> QED BY <1>1, <1>2, <1>8, <1>9, <1>11, <1>12 DEF ResSame

\* The server's work for a process goes on.
LEMMA WorkStays ==
    ASSUME NEW u, CtlSame(u), QrySame(u), Grown, setup' = setup, NEW p \in Procs, Owner[p] = u,
           pc'[p] = pc[p], target'[p] = target[p]
    PROVE  Works(p) => Works(p)'
<1> SUFFICES ASSUME Works(p)
             PROVE  Works(p)'
  OBVIOUS
<1>1. \A r : Answers(p, r) => Answers(p, r)'
  BY AnswersStay
<1>2. cmd'[p] = cmd[p]
  BY DEF cmd
<1>3. CASE pc[p] \in {"registering", "joining", "creating"}
  <2>1. CtlOf(u) /\ ~QryOf(u)
    BY <1>3 DEF Works
  <2>2. ctl' = ctl /\ CtlOf(u)' /\ ~QryOf(u)'
    BY <2>1 DEF CtlSame, QrySame, CtlOf, QryOf
  <2>3. CtlWork(p)
    BY <1>3 DEF Works
  <2>4. Answers(p, ctl.res) => Answers(p, ctl.res)'
    <3>1. PICK r : r = ctl.res
      OBVIOUS
    <3>2. Answers(p, r) => Answers(p, r)'
      BY <1>1
    <3> QED BY <2>2, <3>1, <3>2 DEF Answers
  <2> QED BY <1>2, <1>3, <2>2, <2>3, <2>4 DEF Works, CtlWork
<1>4. CASE pc[p] \notin {"registering", "joining", "creating"}
  <2>1. QryOf(u) /\ ~CtlOf(u)
    BY <1>4 DEF Works
  <2>2. qry' = qry /\ QryOf(u)' /\ ~CtlOf(u)'
    BY <2>1 DEF CtlSame, QrySame, CtlOf, QryOf
  <2>3. QryWork(p)
    BY <1>4 DEF Works
  <2>4. Answers(p, qry.res) => Answers(p, qry.res)'
    <3>1. PICK r : r = qry.res
      OBVIOUS
    <3>2. Answers(p, r) => Answers(p, r)'
      BY <1>1
    <3> QED BY <2>2, <3>1, <3>2 DEF Answers
  <2> QED BY <1>2, <1>4, <2>2, <2>3, <2>4 DEF Works, QryWork
<1> QED BY <1>3, <1>4

\* What a process was told stays so.
LEMMA ToldStays ==
    ASSUME NEW u, PcSame(u), Grown, setup' = setup, NEW p \in Mine(u), Told(p)
    PROVE  Told(p)'
<1>1. /\ \A gid, name : Named(gid, name) => Named(gid, name)'
      /\ \A v, gid : Member(v, gid) => Member(v, gid)'
      /\ \A kind, id, name : Found(kind, id, name) => Found(kind, id, name)'
      /\ \A id : Registered(id) => Registered(id)'
  BY GrownFacts DEF Grown
<1>2. cmd'[p] = cmd[p] /\ target'[p] = target[p]
  BY DEF cmd, PcSame
<1>3. CASE pc'[p] = pc[p]
  BY <1>1, <1>2, <1>3 DEF Told
<1>4. CASE pc[p] \in {"sending", "typed"} /\ pc'[p] \in {"sending", "typed"}
  BY <1>1, <1>2, <1>4 DEF Told
<1>5. CASE pc'[p] = "stopped"
  BY <1>5 DEF Told
<1> QED BY <1>3, <1>4, <1>5 DEF PcSame

\* A step that does not concern the requests of u.
LEMMA UserStays ==
    ASSUME QueueInv, NEW u \in Users, UserInv(u), ReqSame(u), ResSame(u), CtlSame(u), QrySame(u),
           PcSame(u), Grown, setup' = setup
    PROVE  UserInv(u)'
<1>1. \A p \in Mine(u) : p \in Procs /\ Owner[p] = u /\ target'[p] = target[p]
  BY DEF Mine, PcSame
<1>2. \A p \in Mine(u) : pc'[p] \in Requesting => pc'[p] = pc[p]
  BY DEF PcSame, Requesting
<1>3. \A p \in Mine(u) : pc'[p] \in Waiting => pc'[p] = pc[p]
  BY DEF PcSame, Waiting
<1>4. \A p \in Mine(u) : pc[p] \in Waiting => pc'[p] = pc[p]
  BY DEF PcSame, Waiting
<1>5. \A p, q \in Mine(u) : pc'[p] \in Requesting /\ pc'[q] \in Requesting => p = q
  BY <1>2 DEF UserInv
<1>6. ASSUME \A p \in Mine(u) : pc'[p] \notin Waiting
      PROVE  Calm(u)'
  <2>1. Calm(u)
    BY <1>4, <1>6 DEF UserInv
  <2>2. NoRequest(u)' /\ NoResponse(u)'
    BY <2>1, NoRequestStays, NoResponseStays DEF Calm
  <2>3. NoWork(u)'
    BY <2>1 DEF Calm, NoWork, CtlSame, QrySame, CtlOf, QryOf
  <2> QED BY <2>2, <2>3 DEF Calm
<1>7. ASSUME NEW p \in Mine(u), pc'[p] \in Waiting
      PROVE  Token(p)'
  <2>1. Token(p) /\ pc'[p] = pc[p] /\ p \in Procs /\ Owner[p] = u /\ target'[p] = target[p]
    BY <1>1, <1>3, <1>7 DEF UserInv
  <2>2. NoWork(u) => NoWork(u)'
    BY DEF NoWork, CtlSame, QrySame, CtlOf, QryOf
  <2>3. NoRequest(u) => NoRequest(u)'
    BY NoRequestStays
  <2>4. NoResponse(u) => NoResponse(u)'
    BY NoResponseStays
  <2>5. OneRequest(p) => OneRequest(p)'
    BY <2>1, OneRequestStays
  <2>6. OnlyEntries(p) => OnlyEntries(p)'
    BY <2>1, OnlyEntriesStays
  <2>7. OneResponse(p) => OneResponse(p)'
    BY <2>1, OneResponseStays
  <2>8. Works(p) => Works(p)'
    BY <2>1, WorkStays
  <2> QED BY <2>1, <2>2, <2>3, <2>4, <2>5, <2>6, <2>7, <2>8 DEF Token
<1>8. \A p \in Mine(u) : Told(p)'
  BY ToldStays DEF UserInv
<1> QED BY <1>5, <1>6, <1>7, <1>8 DEF UserInv, Mine
-----------------------------------------------------------------------------
(* Who is waiting for what.                                                *)

\* A request in the queue is the only one of its user, whose process waits for the answer.
LEMMA ReqOwner ==
    ASSUME NEW u, UserInv(u), NEW k \in 1 .. Len(server_queue), ReqOf(server_queue[k], u)
    PROVE  \E p \in Mine(u) :
              /\ pc[p] \in Waiting /\ Asks(p, server_queue[k]) /\ Told(p)
              /\ NoWork(u) /\ NoResponse(u)
              /\ \A j \in 1 .. Len(server_queue) : ReqOf(server_queue[j], u) => j = k
<1>1. ~NoRequest(u)
  BY DEF NoRequest
<1>2. PICK p \in Mine(u) : pc[p] \in Waiting
  BY <1>1 DEF UserInv, Calm
<1>3. Token(p) /\ Told(p) /\ Owner[p] = u
  BY <1>2 DEF UserInv, Mine
<1>4. OneRequest(p) /\ NoWork(u) /\ NoResponse(u)
  BY <1>1, <1>3 DEF Token
<1>5. PICK i \in 1 .. Len(server_queue) :
          /\ Asks(p, server_queue[i])
          /\ \A j \in 1 .. Len(server_queue) : ReqOf(server_queue[j], u) => j = i
  BY <1>3, <1>4 DEF OneRequest
<1>6. i = k
  BY <1>5
<1> QED BY <1>2, <1>3, <1>4, <1>5, <1>6

\* Once it is taken there is none.
LEMMA RequestTaken ==
    ASSUME QueueInv, NEW u, NEW k \in 1 .. Len(server_queue),
           \A j \in 1 .. Len(server_queue) : ReqOf(server_queue[j], u) => j = k,
           server_queue' = RemoveAt(server_queue, k)
    PROVE  NoRequest(u)'
<1>1. server_queue \in Seq(ToSet(server_queue))
  BY DEF QueueInv
<1>2. \A j \in 1 .. Len(server_queue') : \E h \in 1 .. Len(server_queue) :
          server_queue'[j] = server_queue[h] /\ h # k
  BY <1>1, RemoveFrom
<1>3. \A j \in 1 .. Len(server_queue') : ~ReqOf(server_queue'[j], u)
  BY <1>2
<1> QED BY <1>3 DEF NoRequest, ReqOf

\* handle_control_msgs works for a process that waits for it.
LEMMA CtlOwner ==
    ASSUME NEW u, UserInv(u), CtlOf(u)
    PROVE  \E p \in Mine(u) :
              /\ pc[p] \in {"registering", "joining", "creating"}
              /\ Works(p) /\ NoRequest(u) /\ OnlyEntries(p) /\ Told(p)
<1>1. PICK p \in Mine(u) : pc[p] \in Waiting
  BY DEF UserInv, Calm, NoWork
<1>2. Token(p) /\ Told(p) /\ Owner[p] = u
  BY <1>1 DEF UserInv, Mine
<1>3. Works(p) /\ NoRequest(u) /\ OnlyEntries(p)
  BY <1>2 DEF Token, NoWork
<1>4. pc[p] \in {"registering", "joining", "creating"}
  BY <1>2, <1>3 DEF Works
<1> QED BY <1>1, <1>2, <1>3, <1>4

\* So does handle_queries.
LEMMA QryOwner ==
    ASSUME NEW u, UserInv(u), QryOf(u)
    PROVE  \E p \in Mine(u) :
              /\ pc[p] \in {"asking", "listing"}
              /\ Works(p) /\ NoRequest(u) /\ OnlyEntries(p) /\ Told(p)
<1>1. PICK p \in Mine(u) : pc[p] \in Waiting
  BY DEF UserInv, Calm, NoWork
<1>2. Token(p) /\ Told(p) /\ Owner[p] = u
  BY <1>1 DEF UserInv, Mine
<1>3. Works(p) /\ NoRequest(u) /\ OnlyEntries(p)
  BY <1>2 DEF Token, NoWork
<1>4. pc[p] \in {"asking", "listing"}
  BY <1>1, <1>2, <1>3 DEF Works, Waiting
<1> QED BY <1>1, <1>2, <1>3, <1>4

\* The one thing on its way for u moves.
LEMMA TokenMoves ==
    ASSUME NEW u \in Users, UserInv(u), NEW p \in Mine(u), pc[p] \in Waiting, Token(p)',
           pc' = pc, target' = target, setup' = setup, Grown
    PROVE  UserInv(u)'
<1>1. PcSame(u)
  BY DEF PcSame
<1>2. \A q \in Mine(u) : Told(q)'
  BY <1>1, ToldStays DEF UserInv
<1>3. pc[p] \in Requesting /\ \A q \in Mine(u) : pc[q] \in Waiting => pc[q] \in Requesting
  BY DEF Waiting, Requesting
<1>4. \A q \in Mine(u) : pc[q] \in Waiting => q = p
  BY <1>3 DEF UserInv
<1>5. \A q, r \in Mine(u) : pc[q] \in Requesting /\ pc[r] \in Requesting => q = r
  BY DEF UserInv
<1>6. \A q \in Mine(u) : pc[q] \in Waiting => Token(q)'
  BY <1>4
<1> QED BY <1>2, <1>5, <1>6 DEF UserInv, Mine

\* The server has sent the response.
LEMMA ResponseSent ==
    ASSUME QueueInv, NEW u \in Users, NEW p \in Mine(u), OnlyEntries(p), NEW r, Answers(p, r)', pc' = pc,
           client_queue'[u] = Append(client_queue[u], r)
    PROVE  OneResponse(p)'
<1>1. PICK q : q = client_queue[u]
  OBVIOUS
<1>2. PICK s : s = client_queue'[u]
  OBVIOUS
<1>3. q \in Seq(ToSet(q)) /\ Owner[p] = u
  BY <1>1 DEF QueueInv, Mine
<1>4. /\ Len(s) = Len(q) + 1 /\ s[Len(q) + 1] = r /\ Len(q) \in Nat
      /\ \A i \in 1 .. Len(q) : s[i] = q[i]
  BY <1>1, <1>2, <1>3, AppendSeq
<1>5. \A i \in 1 .. Len(q) : IsResponse(q[i]) => pc[p] = "listing" /\ IsEntry(q[i])
  BY <1>1, <1>3 DEF OnlyEntries
<1>6. PICK n \in 1 .. Len(s) : n = Len(q) + 1
  BY <1>4
<1>7. IsResponse(r)
  BY DEF Answers, IsResponse
<1>8. \A j \in 1 .. Len(s) : IsResponse(s[j]) => j = n \/ (j < n /\ pc[p] = "listing" /\ IsEntry(s[j]))
  BY <1>4, <1>5, <1>6
<1> QED BY <1>2, <1>3, <1>4, <1>6, <1>7, <1>8 DEF OneResponse, IsResponse, IsEntry
-----------------------------------------------------------------------------
(* The tables only grow.                                                   *)

\* The members of a group are a list of users.
LEMMA MembersSeq ==
    ASSUME TableInv, NEW i \in 1 .. Len(groups), groups[i] # NoGroup
    PROVE  /\ groups[i].members \in Seq(Users) /\ Len(groups[i].members) \in Nat
           /\ Len(groups[i].members) <= Len(groups[i].members)
<1>1. groups[i] \in Group
  BY DEF TableInv
<1>2. groups[i].members \in Seq(Users)
  BY <1>1 DEF Group
<1>3. Len(groups[i].members) \in Nat
  BY <1>2
<1> QED BY <1>2, <1>3

\* Writing one slot of a table.
LEMMA Write ==
    ASSUME NEW S, NEW s \in Seq(S), NEW k \in 1 .. Len(s), NEW e \in S, NEW r, r = [s EXCEPT ![k] = e]
    PROVE  /\ r \in Seq(S) /\ Len(r) = Len(s) /\ DOMAIN r = 1 .. Len(s) /\ r[k] = e
           /\ \A i \in 1 .. Len(s) : i # k => r[i] = s[i]
<1>1. DOMAIN s = 1 .. Len(s) /\ Len(s) \in Nat
  OBVIOUS
<1>2. r \in Seq(S) /\ Len(r) = Len(s)
  BY ExceptSeq
<1>3. DOMAIN r = 1 .. Len(s)
  BY <1>1
<1>4. r[k] = e /\ \A i \in 1 .. Len(s) : i # k => r[i] = s[i]
  BY <1>1
<1> QED BY <1>2, <1>3, <1>4

\* Entry by entry.
LEMMA GrownEntries ==
    ASSUME SetupAssumption, TableInv, groups' \in Seq(Group \cup {NoGroup}),
           \A u : Registered(u) => Registered(u)',
           \A i \in 1 .. Len(groups) : groups[i] # NoGroup =>
               /\ i \in 1 .. Len(groups') /\ groups'[i] # NoGroup
               /\ groups'[i].name = groups[i].name
               /\ Len(groups[i].members) <= Len(groups'[i].members)
               /\ \A j \in 1 .. Len(groups[i].members) : groups'[i].members[j] = groups[i].members[j]
    PROVE  Grown
<1> SUFFICES ASSUME NEW gid, find_group_by_id(gid) # NoGroup
             PROVE  /\ find_group_by_id(gid)' # NoGroup
                    /\ find_group_by_id(gid)'.name = find_group_by_id(gid).name
                    /\ Len(Members(gid)) \in Nat /\ Len(Members(gid)') \in Nat
                    /\ Len(Members(gid)) <= Len(Members(gid)')
                    /\ \A j \in 1 .. Len(Members(gid)) : Members(gid)'[j] = Members(gid)[j]
  BY DEF Grown
<1>1. PICK i : i = gid + 1
  OBVIOUS
<1>2. i \in 1 .. Len(groups) /\ find_group_by_id(gid) = groups[i] /\ Members(gid) \in Seq(Users)
  BY <1>1, GroupAt
<1>3. i \in 1 .. Len(groups') /\ groups'[i] # NoGroup
  BY <1>2
<1>4. find_group_by_id(gid)' = groups'[i]
  BY <1>1, <1>3 DEF find_group_by_id
<1>5. groups'[i] \in Group
  BY <1>3
<1>6. groups'[i].members \in Seq(Users)
  BY <1>5 DEF Group
<1>7. Len(Members(gid)) \in Nat /\ Len(Members(gid)') \in Nat
  BY <1>2, <1>4, <1>6 DEF Members
<1> QED BY <1>2, <1>3, <1>4, <1>7 DEF Members

\* Nothing happens to the tables.
LEMMA GrownSame ==
    ASSUME SetupAssumption, TableInv, clients' = clients, groups' = groups
    PROVE  Grown
<1>1. \A u : Registered(u) => Registered(u)'
  BY DEF Registered
<1>2. groups' \in Seq(Group \cup {NoGroup})
  BY DEF TableInv
<1>3. \A i \in 1 .. Len(groups) : groups[i] # NoGroup => Len(groups[i].members) <= Len(groups[i].members)
  BY MembersSeq
<1> QED BY <1>1, <1>2, <1>3, GrownEntries

\* A client is counted.
LEMMA GrownCount ==
    ASSUME SetupAssumption, TableInv, clients' = Append(clients, NoUser), groups' = groups
    PROVE  /\ Grown /\ clients' \in Seq(Users \cup {NoUser})
           /\ clients' # <<>> /\ clients'[Len(clients')] = NoUser
<1>1. clients \in Seq(Users \cup {NoUser})
  BY DEF TableInv
<1>2. /\ clients' \in Seq(Users \cup {NoUser}) /\ Len(clients') = Len(clients) + 1
      /\ clients'[Len(clients) + 1] = NoUser
      /\ \A i \in 1 .. Len(clients) : i \in 1 .. Len(clients') /\ clients'[i] = clients[i]
  BY <1>1
<1>3. clients' # <<>>
  BY <1>1, <1>2
<1>4. DOMAIN clients = 1 .. Len(clients) /\ DOMAIN clients' = 1 .. Len(clients')
  BY <1>1, <1>2
<1>5. \A u : Registered(u) => Registered(u)'
  BY <1>2, <1>4 DEF Registered
<1>6. groups' \in Seq(Group \cup {NoGroup})
  BY DEF TableInv
<1>7. \A i \in 1 .. Len(groups) : groups[i] # NoGroup => Len(groups[i].members) <= Len(groups[i].members)
  BY MembersSeq
<1> QED BY <1>2, <1>3, <1>5, <1>6, <1>7, GrownEntries

\* The slot is filled.
LEMMA GrownClient ==
    ASSUME SetupAssumption, TableInv, ctl.step = "client", NEW u \in Users,
           clients' = [clients EXCEPT ![Len(clients)] = u], groups' = groups
    PROVE  Grown /\ clients' \in Seq(Users \cup {NoUser}) /\ Registered(u)'
<1>1. clients \in Seq(Users \cup {NoUser}) /\ clients # <<>> /\ clients[Len(clients)] = NoUser
  BY DEF TableInv
<1>2. Len(clients) \in Nat \ {0} /\ DOMAIN clients = 1 .. Len(clients)
  BY <1>1
<1>3. /\ clients' \in Seq(Users \cup {NoUser}) /\ Len(clients') = Len(clients)
      /\ clients'[Len(clients)] = u
      /\ \A i \in 1 .. Len(clients) : i # Len(clients) => clients'[i] = clients[i]
      /\ DOMAIN clients' = 1 .. Len(clients)
  <2>1. u \in Users \cup {NoUser} /\ Len(clients) \in 1 .. Len(clients)
    BY <1>2
  <2> QED BY <1>1, <2>1, Write
<1>4. DOMAIN clients' = 1 .. Len(clients)
  BY <1>3
<1>5. \A v : Registered(v) => Registered(v)'
  BY <1>1, <1>2, <1>3, <1>4 DEF Registered
<1>6. Registered(u)'
  <2>1. u # NoUser /\ Len(clients) \in DOMAIN clients'
    BY <1>2, <1>4 DEF SetupAssumption
  <2> QED BY <1>3, <2>1 DEF Registered
<1>7. groups' \in Seq(Group \cup {NoGroup})
  BY DEF TableInv
<1>8. \A i \in 1 .. Len(groups) : groups[i] # NoGroup => Len(groups[i].members) <= Len(groups[i].members)
  BY MembersSeq
<1> QED BY <1>3, <1>5, <1>6, <1>7, <1>8, GrownEntries

\* A group is counted.
LEMMA GrownGroups ==
    ASSUME SetupAssumption, TableInv, clients' = clients, groups' = Append(groups, NoGroup)
    PROVE  /\ Grown /\ groups' \in Seq(Group \cup {NoGroup})
           /\ groups' # <<>> /\ groups'[Len(groups')] = NoGroup
           /\ Len(groups) \in Nat /\ Len(groups') = Len(groups) + 1
           /\ \A i \in 1 .. Len(groups) : groups'[i] = groups[i]
<1>1. groups \in Seq(Group \cup {NoGroup})
  BY DEF TableInv
<1>2. /\ groups' \in Seq(Group \cup {NoGroup}) /\ Len(groups') = Len(groups) + 1 /\ Len(groups) \in Nat
      /\ groups'[Len(groups) + 1] = NoGroup
      /\ \A i \in 1 .. Len(groups) : i \in 1 .. Len(groups') /\ groups'[i] = groups[i]
  BY <1>1
<1>3. groups' # <<>>
  BY <1>1, <1>2
<1>4. \A u : Registered(u) => Registered(u)'
  BY DEF Registered
<1>5. \A i \in 1 .. Len(groups) : groups[i] # NoGroup => Len(groups[i].members) <= Len(groups[i].members)
  BY MembersSeq
<1>6. Grown
  BY <1>2, <1>4, <1>5, GrownEntries
<1> QED BY <1>2, <1>3, <1>6

\* The group enters the table.
LEMMA GrownGroup ==
    ASSUME SetupAssumption, TableInv, ctl.step = "group", NEW name \in GroupNames, clients' = clients,
           groups' = [groups EXCEPT ![Len(groups)] = [name |-> name, members |-> <<>>]]
    PROVE  /\ Grown /\ groups' \in Seq(Group \cup {NoGroup})
           /\ Len(groups) \in Nat \ {0} /\ Len(groups') = Len(groups)
           /\ groups'[Len(groups)] # NoGroup
           /\ groups'[Len(groups)].name = name /\ groups'[Len(groups)].members = <<>>
           /\ \A i \in 1 .. Len(groups) : i # Len(groups) => groups'[i] = groups[i]
<1>1. groups \in Seq(Group \cup {NoGroup}) /\ groups # <<>> /\ groups[Len(groups)] = NoGroup
  BY DEF TableInv
<1>2. PICK n : n = Len(groups)
  OBVIOUS
<1>3. n \in Nat \ {0} /\ n \in 1 .. n /\ DOMAIN groups = 1 .. n
  BY <1>1, <1>2
<1>4. PICK g : g = [name |-> name, members |-> <<>>]
  OBVIOUS
<1>5. g \in Group /\ g.name = name /\ g.members = <<>>
  <2>1. <<>> \in Seq(Users)
    OBVIOUS
  <2> QED BY <1>4, <2>1 DEF Group
<1>6. g # NoGroup
  <2>1. g \in [name : GroupNames, members : Seq(Users)]
    BY <1>5 DEF Group
  <2> QED BY <2>1 DEF SetupAssumption
<1>7. /\ groups' \in Seq(Group \cup {NoGroup}) /\ Len(groups') = n
      /\ groups'[n] = g
      /\ \A i \in 1 .. n : i # n => groups'[i] = groups[i]
  BY <1>1, <1>2, <1>3, <1>4, <1>5
<1>8. \A v : Registered(v) => Registered(v)'
  BY DEF Registered
<1>9. \A i \in 1 .. Len(groups) : groups[i] # NoGroup => Len(groups[i].members) <= Len(groups[i].members)
  BY MembersSeq
<1>10. Grown
  BY <1>1, <1>2, <1>3, <1>7, <1>8, <1>9, GrownEntries
<1> QED BY <1>2, <1>3, <1>5, <1>6, <1>7, <1>10

\* A member joins.
LEMMA GrownJoin ==
    ASSUME SetupAssumption, TableInv, NEW u \in Users, NEW gid, find_group_by_id(gid) # NoGroup, clients' = clients,
           groups' = [groups EXCEPT ![gid + 1].members = Append(@, u)]
    PROVE  /\ Grown /\ groups' \in Seq(Group \cup {NoGroup}) /\ Member(u, gid)'
           /\ Len(groups') = Len(groups) /\ gid + 1 \in 1 .. Len(groups)
           /\ groups'[gid + 1] # NoGroup
           /\ groups'[gid + 1].members = Append(groups[gid + 1].members, u)
           /\ groups[gid + 1].members \in Seq(Users)
           /\ \A i \in 1 .. Len(groups) : i # gid + 1 => groups'[i] = groups[i]
<1>1. groups \in Seq(Group \cup {NoGroup})
  BY DEF TableInv
<1>2. PICK k : k = gid + 1
  OBVIOUS
<1>3. /\ k \in 1 .. Len(groups) /\ groups[k] = find_group_by_id(gid) /\ groups[k] \in Group
      /\ groups[k].members \in Seq(Users)
  BY <1>2, GroupAt DEF Members
<1>4. PICK g : g = [groups[k] EXCEPT !.members = Append(@, u)]
  OBVIOUS
<1>5. PICK ms : ms = groups[k].members
  OBVIOUS
<1>6. /\ Append(ms, u) \in Seq(Users) /\ Append(ms, u) # <<>> /\ Len(ms) \in Nat
      /\ Len(Append(ms, u)) = Len(ms) + 1 /\ Append(ms, u)[Len(ms) + 1] = u
      /\ \A j \in 1 .. Len(ms) : Append(ms, u)[j] = ms[j]
  <2>1. ms \in Seq(Users)
    BY <1>3, <1>5
  <2>2. /\ Append(ms, u) \in Seq(Users) /\ Len(ms) \in Nat
        /\ Len(Append(ms, u)) = Len(ms) + 1 /\ Append(ms, u)[Len(ms) + 1] = u
        /\ \A j \in 1 .. Len(ms) : Append(ms, u)[j] = ms[j]
    BY <2>1
  <2>3. Append(ms, u) # <<>>
    BY <2>1, <2>2
  <2> QED BY <2>2, <2>3
<1>7. g \in Group /\ g.name = groups[k].name /\ g.members = Append(ms, u)
  BY <1>3, <1>4, <1>5, <1>6 DEF Group
<1>8. g # NoGroup
  <2>1. g \in [name : GroupNames, members : Seq(Users)]
    BY <1>7 DEF Group
  <2> QED BY <2>1 DEF SetupAssumption
<1>9. /\ groups' \in Seq(Group \cup {NoGroup}) /\ Len(groups') = Len(groups)
      /\ groups'[k] = g
      /\ \A i \in 1 .. Len(groups) : i # k => groups'[i] = groups[i]
  <2>1. groups' = [groups EXCEPT ![k] = g]
    BY <1>2, <1>4
  <2>2. g \in Group \cup {NoGroup}
    BY <1>7
  <2>3. k \in 1 .. Len(groups)
    BY <1>3
  <2>4. PICK h : h = [groups EXCEPT ![k] = g]
    OBVIOUS
  <2>5. /\ h \in Seq(Group \cup {NoGroup}) /\ Len(h) = Len(groups) /\ h[k] = g
        /\ \A i \in 1 .. Len(groups) : i # k => h[i] = groups[i]
    BY <1>1, <2>2, <2>3, <2>4, Write
  <2> QED BY <2>1, <2>4, <2>5
<1>10. \A v : Registered(v) => Registered(v)'
  BY DEF Registered
<1>11. ASSUME NEW i \in 1 .. Len(groups), groups[i] # NoGroup
       PROVE  /\ groups'[i] # NoGroup /\ groups'[i].name = groups[i].name
              /\ Len(groups[i].members) <= Len(groups'[i].members)
              /\ \A j \in 1 .. Len(groups[i].members) : groups'[i].members[j] = groups[i].members[j]
  <2>1. CASE i = k
    <3>1. groups'[i] = g /\ g # NoGroup /\ g.name = groups[i].name
      BY <1>7, <1>8, <1>9, <2>1
    <3>2. groups'[i].members = Append(ms, u) /\ groups[i].members = ms
      BY <1>5, <1>7, <2>1, <3>1
    <3>3. Len(ms) <= Len(Append(ms, u))
      BY <1>6
    <3>4. \A j \in 1 .. Len(ms) : Append(ms, u)[j] = ms[j]
      BY <1>6
    <3> QED BY <3>1, <3>2, <3>3, <3>4, Zenon
  <2>2. CASE i # k
    <3>1. groups'[i] = groups[i]
      BY <1>9, <2>2
    <3>2. Len(groups[i].members) <= Len(groups[i].members)
      BY <1>11, MembersSeq
    <3> QED BY <1>11, <3>1, <3>2
  <2> QED BY <2>1, <2>2
<1>12. Grown
  BY <1>9, <1>10, <1>11, GrownEntries
<1>13. find_group_by_id(gid)' = g
  <2>1. k \in DOMAIN groups'
    BY <1>3, <1>9
  <2> QED BY <1>2, <1>9, <2>1 DEF find_group_by_id
<1>14. Member(u, gid)'
  <2>1. Len(ms) + 1 \in 1 .. Len(Append(ms, u))
    BY <1>6
  <2> QED BY <1>6, <1>7, <1>8, <1>13, <2>1 DEF Member, Members
<1> QED BY <1>2, <1>3, <1>5, <1>7, <1>8, <1>9, <1>12, <1>14
-----------------------------------------------------------------------------
(* The parts of the invariant that most steps leave alone.                 *)

\* Something is put into server_queue.
LEMMA ServerAppend ==
    ASSUME QueueInv, SetupAssumption, Room(server_queue), NEW m, SrvMsg(m), server_queue' = Append(server_queue, m),
           client_queue' = client_queue
    PROVE  QueueInv'
<1>1. server_queue \in Seq(ToSet(server_queue)) /\ Len(server_queue) < QueueCap /\ QueueCap \in Nat
  BY DEF QueueInv, Room, SetupAssumption
<1>2. /\ server_queue' \in Seq(ToSet(server_queue')) /\ Len(server_queue') = Len(server_queue) + 1
      /\ ToSet(server_queue') = ToSet(server_queue) \cup {m} /\ Len(server_queue) \in Nat
  BY <1>1, AppendSeq
<1>3. Len(server_queue') <= QueueCap
  BY <1>1, <1>2
<1>4. \A x \in ToSet(server_queue') : SrvMsg(x)
  BY <1>2 DEF QueueInv
<1> QED BY <1>2, <1>3, <1>4 DEF QueueInv, SrvMsg, IsControl

\* Something is taken out of it.
LEMMA ServerRemove ==
    ASSUME QueueInv, SetupAssumption, NEW k \in 1 .. Len(server_queue),
           server_queue' = RemoveAt(server_queue, k), client_queue' = client_queue
    PROVE  QueueInv' /\ ToSet(server_queue') \subseteq ToSet(server_queue)
<1>1. server_queue \in Seq(ToSet(server_queue)) /\ Len(server_queue) <= QueueCap /\ QueueCap \in Nat
  BY DEF QueueInv, SetupAssumption
<1>2. /\ server_queue' \in Seq(ToSet(server_queue')) /\ Len(server_queue') = Len(server_queue) - 1
      /\ ToSet(server_queue') \subseteq ToSet(server_queue) /\ Len(server_queue) \in Nat
  BY <1>1, RemoveSeq
<1>3. Len(server_queue') <= QueueCap
  BY <1>1, <1>2
<1>4. \A x \in ToSet(server_queue') : SrvMsg(x)
  BY <1>2 DEF QueueInv
<1> QED BY <1>2, <1>3, <1>4 DEF QueueInv, SrvMsg, IsControl

\* Something is put into a user's queue.
LEMMA ClientAppend ==
    ASSUME QueueInv, SetupAssumption, NEW u \in Users, Room(client_queue[u]), NEW m, server_queue' = server_queue,
           client_queue' = [client_queue EXCEPT ![u] = Append(@, m)]
    PROVE  /\ QueueInv' /\ client_queue'[u] = Append(client_queue[u], m)
           /\ \A v \in Users : v # u => client_queue'[v] = client_queue[v]
<1>1. PICK q : q = client_queue[u]
  OBVIOUS
<1>2. q \in Seq(ToSet(q)) /\ Len(q) < QueueCap /\ QueueCap \in Nat
  BY <1>1 DEF QueueInv, Room, SetupAssumption
<1>3. PICK r : r = Append(q, m)
  OBVIOUS
<1>4. r \in Seq(ToSet(r)) /\ Len(r) = Len(q) + 1 /\ Len(q) \in Nat
  BY <1>2, <1>3, AppendSeq
<1>5. Len(r) <= QueueCap
  BY <1>2, <1>4
<1>6. /\ DOMAIN client_queue' = Users /\ client_queue'[u] = r
      /\ \A v \in Users : v # u => client_queue'[v] = client_queue[v]
  BY <1>1, <1>3 DEF QueueInv
<1>7. \A v \in Users : client_queue'[v] \in Seq(ToSet(client_queue'[v])) /\ Len(client_queue'[v]) <= QueueCap
  BY <1>4, <1>5, <1>6 DEF QueueInv
<1>8. \A x \in ToSet(server_queue') : SrvMsg(x)'
  BY DEF QueueInv, SrvMsg, IsControl
<1>9. server_queue' \in Seq(ToSet(server_queue')) /\ Len(server_queue') <= QueueCap
  BY DEF QueueInv
<1> QED BY <1>1, <1>3, <1>6, <1>7, <1>8, <1>9 DEF QueueInv

\* Something is taken out of it.
LEMMA ClientRemove ==
    ASSUME QueueInv, SetupAssumption, NEW u \in Users, NEW k \in 1 .. Len(client_queue[u]), server_queue' = server_queue,
           client_queue' = [client_queue EXCEPT ![u] = RemoveAt(client_queue[u], k)]
    PROVE  /\ QueueInv' /\ client_queue'[u] = RemoveAt(client_queue[u], k)
           /\ \A v \in Users : v # u => client_queue'[v] = client_queue[v]
<1>1. PICK q : q = client_queue[u]
  OBVIOUS
<1>2. q \in Seq(ToSet(q)) /\ Len(q) <= QueueCap /\ QueueCap \in Nat
  BY <1>1 DEF QueueInv, SetupAssumption
<1>3. PICK r : r = RemoveAt(q, k)
  OBVIOUS
<1>4. r \in Seq(ToSet(r)) /\ Len(r) = Len(q) - 1 /\ Len(q) \in Nat
  BY <1>1, <1>2, <1>3, RemoveSeq
<1>5. Len(r) <= QueueCap
  BY <1>2, <1>4
<1>6. /\ DOMAIN client_queue' = Users /\ client_queue'[u] = r
      /\ \A v \in Users : v # u => client_queue'[v] = client_queue[v]
  BY <1>1, <1>3 DEF QueueInv
<1>7. \A v \in Users : client_queue'[v] \in Seq(ToSet(client_queue'[v])) /\ Len(client_queue'[v]) <= QueueCap
  BY <1>4, <1>5, <1>6 DEF QueueInv
<1>8. \A x \in ToSet(server_queue') : SrvMsg(x)'
  BY DEF QueueInv, SrvMsg, IsControl
<1>9. server_queue' \in Seq(ToSet(server_queue')) /\ Len(server_queue') <= QueueCap
  BY DEF QueueInv
<1> QED BY <1>1, <1>3, <1>6, <1>7, <1>8, <1>9 DEF QueueInv

\* The server's threads do not touch the processes.
LEMMA ProcStays ==
    ASSUME ProcInv, UNCHANGED <<setup, procVars>>
    PROVE  ProcInv' /\ crossed' = crossed /\ pc' = pc /\ target' = target
BY DEF ProcInv, procVars, cmd

\* Messages still go to somebody.
LEMMA MsgStays ==
    ASSUME MsgInv, Grown, crossed \subseteq crossed', ToSet(server_queue') \subseteq ToSet(server_queue)
    PROVE  MsgInv'
<1> SUFFICES ASSUME NEW m \in ToSet(server_queue'), m.mtype \in {"GROUP_MESSAGE", "CLIENT_MESSAGE"},
                    m.src \notin crossed'
             PROVE  \/ m.dst = NotFound
                    \/ IF IsGroupMsg(m) THEN find_group_by_id(m.dst)' # NoGroup ELSE Registered(m.dst)'
  BY DEF MsgInv, IsGroupMsg
<1>1. \/ m.dst = NotFound
      \/ IF IsGroupMsg(m) THEN find_group_by_id(m.dst) # NoGroup ELSE Registered(m.dst)
  BY DEF MsgInv
<1> QED BY <1>1 DEF Grown

\* One more is put into the queue.
LEMMA MsgMore ==
    ASSUME MsgInv, QueueInv, Grown, crossed \subseteq crossed', NEW m, server_queue' = Append(server_queue, m),
           m.mtype \in {"GROUP_MESSAGE", "CLIENT_MESSAGE"} /\ m.src \notin crossed' =>
             \/ m.dst = NotFound
             \/ IF IsGroupMsg(m) THEN find_group_by_id(m.dst)' # NoGroup ELSE Registered(m.dst)'
    PROVE  MsgInv'
<1>1. server_queue \in Seq(ToSet(server_queue))
  BY DEF QueueInv
<1>2. ToSet(server_queue') = ToSet(server_queue) \cup {m}
  BY <1>1, AppendSeq
<1>3. \A x \in ToSet(server_queue) : x.mtype \in {"GROUP_MESSAGE", "CLIENT_MESSAGE"} /\ x.src \notin crossed' =>
          \/ x.dst = NotFound
          \/ IF IsGroupMsg(x) THEN find_group_by_id(x.dst)' # NoGroup ELSE Registered(x.dst)'
  BY DEF MsgInv, Grown
<1> QED BY <1>2, <1>3 DEF MsgInv, IsGroupMsg

\* Members stay registered.
LEMMA MemberStays ==
    ASSUME MemberInv, Grown, crossed \subseteq crossed', groups' = groups
    PROVE  MemberInv'
BY DEF MemberInv, Grown

\* The group a message goes to stays.
LEMMA GrpStays ==
    ASSUME ThreadInv, Grown, grp' = grp
    PROVE  \/ grp' = Idle
           \/ /\ grp'.step = "send" /\ grp'.n \in Nat /\ grp'.i \in 1 .. grp'.n
              /\ grp' = [step |-> "send", msg |-> grp'.msg, i |-> grp'.i, n |-> grp'.n]
              /\ find_group_by_id(grp.msg.dst)' # NoGroup /\ grp'.n <= Len(Members(grp.msg.dst))'
<1>1. CASE grp = Idle
  BY <1>1
<1>2. CASE grp # Idle
  <2>1. /\ grp.step = "send" /\ grp.n \in Nat /\ grp.i \in 1 .. grp.n
        /\ grp = [step |-> "send", msg |-> grp.msg, i |-> grp.i, n |-> grp.n]
        /\ find_group_by_id(grp.msg.dst) # NoGroup /\ grp.n <= Len(Members(grp.msg.dst))
    BY <1>2 DEF ThreadInv
  <2>2. PICK gid : gid = grp.msg.dst
    OBVIOUS
  <2>3. /\ find_group_by_id(gid)' # NoGroup
        /\ Len(Members(gid)) \in Nat /\ Len(Members(gid)') \in Nat
        /\ Len(Members(gid)) <= Len(Members(gid)')
    BY <2>1, <2>2 DEF Grown
  <2>4. grp.n <= Len(Members(gid)')
    BY <2>1, <2>2, <2>3
  <2>5. find_group_by_id(grp.msg.dst)' # NoGroup /\ grp.n <= Len(Members(grp.msg.dst))'
    BY <2>2, <2>3, <2>4 DEF Members, find_group_by_id
  <2> QED BY <2>1, <2>5
<1> QED BY <1>1, <1>2
-----------------------------------------------------------------------------
(* handle_control_msgs.                                                    *)

\* The thread takes the request of a user who waits for the answer.
LEMMA ControlTaken ==
    ASSUME QueueInv, NEW u \in Users, UserInv(u), NEW k \in 1 .. Len(server_queue),
           server_queue[k].mtype = "CONTROL", server_queue[k].src = u,
           server_queue' = RemoveAt(server_queue, k), client_queue' = client_queue, qry' = qry,
           pc' = pc, target' = target, setup' = setup, Grown, CtlOf(u)',
           \A p \in Mine(u) : (pc[p] \in {"registering", "joining", "creating"} /\ Asks(p, server_queue[k]) /\ Told(p))
                              => CtlWork(p)'
    PROVE  UserInv(u)'
<1>1. ReqOf(server_queue[k], u)
  BY DEF ReqOf
<1>2. PICK p \in Mine(u) :
              /\ pc[p] \in Waiting /\ Asks(p, server_queue[k]) /\ Told(p)
              /\ NoWork(u) /\ NoResponse(u)
              /\ \A j \in 1 .. Len(server_queue) : ReqOf(server_queue[j], u) => j = k
  BY <1>1, ReqOwner
<1>3. Owner[p] = u /\ p \in Procs
  BY DEF Mine
<1>4. pc[p] \in {"registering", "joining", "creating"}
  BY <1>2 DEF Asks, IsQuery
<1>5. NoRequest(u)'
  BY <1>2, RequestTaken
<1>6. ~QryOf(u)'
  BY <1>2 DEF NoWork, QryOf
<1>7. Works(p)'
  BY <1>2, <1>3, <1>4, <1>6 DEF Works
<1>8. OnlyEntries(p)'
  BY <1>2, <1>3 DEF OnlyEntries, NoResponse, IsResponse
<1>9. Token(p)'
  BY <1>3, <1>5, <1>7, <1>8 DEF Token
<1> QED BY <1>2, <1>9, TokenMoves

\* register_client: of a new user the slot is counted first.
LEMMA InvTakeRegister ==
    ASSUME SetupAssumption, IInv, TakeRegister
    PROVE  IInv'
<1>1. /\ TableInv /\ QueueInv /\ ThreadInv /\ ProcInv /\ AnswerInv /\ MsgInv /\ MemberInv
      /\ server_queue \in Seq(ToSet(server_queue))
  BY DEF IInv, Types, QueueInv
<1>2. PICK k \in 1 .. Len(server_queue) :
          /\ IsControl(server_queue[k]) /\ First(server_queue, IsControl) = server_queue[k]
          /\ RemoveFirstMatch(server_queue, IsControl) = RemoveAt(server_queue, k)
  BY <1>1, FirstControl DEF TakeRegister
<1>3. PICK m : m = server_queue[k]
  OBVIOUS
<1>4. m \in ToSet(server_queue) /\ IsControl(m) /\ m.mtype = "CONTROL"
  BY <1>1, <1>2, <1>3, ToSetDef DEF IsControl
<1>5. PICK u \in Users : m.src = u
  BY <1>1, <1>4 DEF QueueInv, SrvMsg
<1>6. /\ m.action = "REGISTER_CLIENT"
      /\ \/ /\ Registered(u) /\ ctl' = Respond(u, Response("REGISTER_CLIENT", NotFound))
            /\ clients' = clients
         \/ ctl' = [step |-> "client", src |-> u] /\ clients' = Append(clients, NoUser)
      /\ server_queue' = RemoveAt(server_queue, k) /\ ctl = Idle
      /\ UNCHANGED <<setup, client_queue, groups, server, grp, clt, qry, procVars>>
  BY <1>2, <1>3, <1>5 DEF TakeRegister
<1>7. /\ ctl'.step = "respond" => /\ ctl'.to = u /\ ctl'.res = Response("REGISTER_CLIENT", NotFound)
                                  /\ Registered(u) /\ clients' = clients
      /\ ctl'.step = "client" => ctl'.src = u /\ clients' = Append(clients, NoUser)
      /\ ctl'.step \in {"client", "respond"}
  BY <1>6 DEF Respond
<1>8. /\ Grown /\ clients' \in Seq(Users \cup {NoUser})
      /\ ctl'.step = "client" => clients' # <<>> /\ clients'[Len(clients')] = NoUser
  BY <1>1, <1>6, <1>7, GrownCount, GrownSame DEF TableInv
<1>9. TableInv'
  BY <1>1, <1>6, <1>7, <1>8 DEF TableInv
<1>10. QueueInv' /\ ToSet(server_queue') \subseteq ToSet(server_queue)
  BY <1>1, <1>6, ServerRemove
<1>11. ProcInv' /\ crossed' = crossed /\ pc' = pc /\ target' = target
  BY <1>1, <1>6, ProcStays
<1>12. ThreadInv'
  BY <1>1, <1>6, <1>7, <1>8, GrpStays DEF ThreadInv
<1>13. MsgInv' /\ MemberInv'
  BY <1>1, <1>6, <1>8, <1>10, <1>11, MsgStays, MemberStays
<1>14. ASSUME NEW v \in Users, v \notin crossed'
       PROVE  UserInv(v)'
  <2>1. UserInv(v)
    BY <1>1, <1>11, <1>14 DEF AnswerInv
  <2>2. CASE v = u
    <3>1. CtlOf(u)'
      BY <1>7 DEF CtlOf
    <3>2. ASSUME NEW p \in Mine(u), pc[p] \in {"registering", "joining", "creating"}, Asks(p, m)
          PROVE  CtlWork(p)'
      <4>1. pc[p] = "registering" /\ Owner[p] = u
        BY <1>6, <3>2 DEF Asks, Expected, Mine
      <4>2. Registered(u) => Registered(u)'
        BY <1>8 DEF Grown
      <4> QED BY <1>7, <1>11, <4>1, <4>2 DEF CtlWork, Answers, Response, Expected
    <3>3. \A p \in Mine(u) : (pc[p] \in {"registering", "joining", "creating"} /\ Asks(p, server_queue[k]) /\ Told(p))
                             => CtlWork(p)'
      BY <1>3, <3>2
    <3>4. server_queue[k].mtype = "CONTROL" /\ server_queue[k].src = u
      BY <1>3, <1>4, <1>5
    <3>5. UserInv(u)'
      BY <1>1, <1>6, <1>8, <1>11, <2>1, <2>2, <3>1, <3>3, <3>4, ControlTaken
    <3> QED BY <2>2, <3>5
  <2>3. CASE v # u
    <3>1. CtlSame(v)
      BY <1>6, <1>7, <2>3 DEF CtlSame, CtlOf, Idle
    <3>2. ReqSame(v)
      BY <1>3, <1>5, <1>6, <2>3 DEF ReqSame, ReqOf
    <3>3. ResSame(v) /\ QrySame(v) /\ PcSame(v) /\ setup' = setup
      BY <1>6, <1>11 DEF ResSame, QrySame, PcSame
    <3> QED BY <1>1, <1>8, <2>1, <3>1, <3>2, <3>3, UserStays
  <2> QED BY <2>2, <2>3
<1>15. AnswerInv'
  BY <1>14 DEF AnswerInv
<1> QED BY <1>9, <1>10, <1>11, <1>12, <1>13, <1>15 DEF IInv, Types

\* create_group: the group is counted first.
LEMMA InvTakeCreate ==
    ASSUME SetupAssumption, IInv, TakeCreate
    PROVE  IInv'
<1>1. /\ TableInv /\ QueueInv /\ ThreadInv /\ ProcInv /\ AnswerInv /\ MsgInv /\ MemberInv
      /\ server_queue \in Seq(ToSet(server_queue))
  BY DEF IInv, Types, QueueInv
<1>2. PICK k \in 1 .. Len(server_queue) :
          /\ IsControl(server_queue[k]) /\ First(server_queue, IsControl) = server_queue[k]
          /\ RemoveFirstMatch(server_queue, IsControl) = RemoveAt(server_queue, k)
  BY <1>1, FirstControl DEF TakeCreate
<1>3. PICK m : m = server_queue[k]
  OBVIOUS
<1>4. m \in ToSet(server_queue) /\ IsControl(m) /\ m.mtype = "CONTROL"
  BY <1>1, <1>2, <1>3, ToSetDef DEF IsControl
<1>5. PICK u \in Users : m.src = u
  BY <1>1, <1>4 DEF QueueInv, SrvMsg
<1>6. /\ m.action = "CREATE_GROUP"
      /\ groups' = Append(groups, NoGroup)
      /\ ctl' = [step |-> "group", src |-> u, name |-> m.arg]
      /\ server_queue' = RemoveAt(server_queue, k) /\ ctl = Idle
      /\ UNCHANGED <<setup, client_queue, clients, server, grp, clt, qry, procVars>>
  BY <1>2, <1>3, <1>5 DEF TakeCreate
<1>7. ctl'.step = "group" /\ ctl'.src = u /\ ctl'.name = m.arg /\ m.arg \in GroupNames
  BY <1>1, <1>4, <1>6 DEF QueueInv, SrvMsg
<1>8. /\ Grown /\ groups' \in Seq(Group \cup {NoGroup})
      /\ groups' # <<>> /\ groups'[Len(groups')] = NoGroup
      /\ Len(groups) \in Nat /\ Len(groups') = Len(groups) + 1
      /\ \A i \in 1 .. Len(groups) : groups'[i] = groups[i]
  BY <1>1, <1>6, GrownGroups
<1>9. TableInv'
  BY <1>1, <1>6, <1>7, <1>8 DEF TableInv
<1>10. QueueInv' /\ ToSet(server_queue') \subseteq ToSet(server_queue)
  BY <1>1, <1>6, ServerRemove
<1>11. ProcInv' /\ crossed' = crossed /\ pc' = pc /\ target' = target
  BY <1>1, <1>6, ProcStays
<1>12. ThreadInv'
  BY <1>1, <1>6, <1>7, <1>8, GrpStays DEF ThreadInv
<1>13. MsgInv'
  BY <1>1, <1>6, <1>8, <1>10, <1>11, MsgStays
<1>14. MemberInv'
  <2>1. ASSUME NEW i \in DOMAIN groups', groups'[i] # NoGroup
        PROVE  i \in DOMAIN groups /\ groups'[i] = groups[i]
    <3>1. i \in 1 .. Len(groups) + 1 /\ i # Len(groups) + 1 /\ DOMAIN groups = 1 .. Len(groups)
      BY <1>1, <1>8, <2>1 DEF TableInv
    <3> QED BY <1>8, <3>1
  <2> QED BY <1>1, <1>8, <1>11, <2>1 DEF MemberInv, Grown
<1>15. ASSUME NEW v \in Users, v \notin crossed'
       PROVE  UserInv(v)'
  <2>1. UserInv(v)
    BY <1>1, <1>11, <1>15 DEF AnswerInv
  <2>2. CASE v = u
    <3>1. CtlOf(u)'
      BY <1>7 DEF CtlOf
    <3>2. ASSUME NEW p \in Mine(u), pc[p] \in {"registering", "joining", "creating"}, Asks(p, m)
          PROVE  CtlWork(p)'
      <4>1. pc[p] = "creating" /\ m.arg = cmd[p].name /\ Owner[p] = u
        BY <1>6, <3>2 DEF Asks, Expected, Mine
      <4> QED BY <1>6, <1>7, <1>11, <4>1 DEF CtlWork, cmd
    <3>3. \A p \in Mine(u) : (pc[p] \in {"registering", "joining", "creating"} /\ Asks(p, server_queue[k]) /\ Told(p))
                             => CtlWork(p)'
      BY <1>3, <3>2
    <3>4. server_queue[k].mtype = "CONTROL" /\ server_queue[k].src = u
      BY <1>3, <1>4, <1>5
    <3>5. UserInv(u)'
      BY <1>1, <1>6, <1>8, <1>11, <2>1, <2>2, <3>1, <3>3, <3>4, ControlTaken
    <3> QED BY <2>2, <3>5
  <2>3. CASE v # u
    <3>1. CtlSame(v)
      BY <1>6, <1>7, <2>3 DEF CtlSame, CtlOf, Idle
    <3>2. ReqSame(v)
      BY <1>3, <1>5, <1>6, <2>3 DEF ReqSame, ReqOf
    <3>3. ResSame(v) /\ QrySame(v) /\ PcSame(v) /\ setup' = setup
      BY <1>6, <1>11 DEF ResSame, QrySame, PcSame
    <3> QED BY <1>1, <1>8, <2>1, <3>1, <3>2, <3>3, UserStays
  <2> QED BY <2>2, <2>3
<1>16. AnswerInv'
  BY <1>15 DEF AnswerInv
<1> QED BY <1>9, <1>10, <1>11, <1>12, <1>13, <1>14, <1>16 DEF IInv, Types

\* A user who was never crossed joins only a group that is there.
LEMMA JoinFinds ==
    ASSUME SetupAssumption, IInv, NEW k \in 1 .. Len(server_queue), IsControl(server_queue[k]),
           server_queue[k].action = "JOIN_GROUP", server_queue[k].src \in Users \ crossed
    PROVE  /\ find_group_by_id(server_queue[k].arg) # NoGroup
           /\ Registered(server_queue[k].src)
<1>1. PICK m : m = server_queue[k]
  OBVIOUS
<1>2. PICK u \in Users \ crossed : u = m.src
  BY <1>1
<1>3. UserInv(u) /\ ReqOf(m, u)
  BY <1>1, <1>2 DEF IInv, AnswerInv, ReqOf, IsControl
<1>4. PICK p \in Mine(u) : pc[p] \in Waiting /\ Asks(p, m) /\ Told(p)
  BY <1>1, <1>3, ReqOwner
<1>5. pc[p] = "joining" /\ m.arg = target[p] /\ Owner[p] = u
  BY <1>1, <1>4 DEF Asks, Expected, IsControl, IsQuery, Mine
<1> QED BY <1>1, <1>2, <1>4, <1>5 DEF Told, Named

\* join_group.
LEMMA InvTakeJoin ==
    ASSUME SetupAssumption, IInv, TakeJoin
    PROVE  IInv'
<1>1. /\ TableInv /\ QueueInv /\ ThreadInv /\ ProcInv /\ AnswerInv /\ MsgInv /\ MemberInv
      /\ server_queue \in Seq(ToSet(server_queue))
  BY DEF IInv, Types, QueueInv
<1>2. PICK k \in 1 .. Len(server_queue) :
          /\ IsControl(server_queue[k]) /\ First(server_queue, IsControl) = server_queue[k]
          /\ RemoveFirstMatch(server_queue, IsControl) = RemoveAt(server_queue, k)
  BY <1>1, FirstControl DEF TakeJoin
<1>3. PICK m : m = server_queue[k]
  OBVIOUS
<1>4. m \in ToSet(server_queue) /\ IsControl(m) /\ m.mtype = "CONTROL"
  BY <1>1, <1>2, <1>3, ToSetDef DEF IsControl
<1>5. PICK u \in Users : m.src = u
  BY <1>1, <1>4 DEF QueueInv, SrvMsg
<1>6. /\ m.action = "JOIN_GROUP"
      /\ \/ /\ find_group_by_id(m.arg) = NoGroup
            /\ server' = "crashed" /\ groups' = groups /\ ctl' = ctl
         \/ /\ find_group_by_id(m.arg) # NoGroup
            /\ groups' = [groups EXCEPT ![m.arg + 1].members = Append(@, m.src)]
            /\ ctl' = Respond(m.src, Response("JOIN_GROUP", NotFound))
            /\ server' = server
      /\ server_queue' = RemoveAt(server_queue, k) /\ ctl = Idle
      /\ UNCHANGED <<setup, client_queue, clients, grp, clt, qry, procVars>>
  BY <1>2, <1>3 DEF TakeJoin
<1>7. find_group_by_id(m.arg) = NoGroup => groups' = groups /\ ctl' = ctl /\ u \in crossed
  BY <1>2, <1>3, <1>5, <1>6, JoinFinds
<1>8. u \notin crossed => Registered(u)
  BY <1>2, <1>3, <1>5, <1>6, JoinFinds
<1>9. ASSUME find_group_by_id(m.arg) # NoGroup
      PROVE  /\ Grown /\ groups' \in Seq(Group \cup {NoGroup}) /\ Member(u, m.arg)'
             /\ Len(groups') = Len(groups) /\ m.arg + 1 \in 1 .. Len(groups)
             /\ groups'[m.arg + 1] # NoGroup
             /\ groups'[m.arg + 1].members = Append(groups[m.arg + 1].members, u)
             /\ groups[m.arg + 1].members \in Seq(Users)
             /\ \A i \in 1 .. Len(groups) : i # m.arg + 1 => groups'[i] = groups[i]
  <2>1. PICK gid : gid = m.arg
    OBVIOUS
  <2>2. groups' = [groups EXCEPT ![gid + 1].members = Append(@, u)] /\ clients' = clients
    BY <1>5, <1>6, <1>9, <2>1
  <2>3. find_group_by_id(gid) # NoGroup
    BY <1>9, <2>1
  <2>4. /\ Grown /\ groups' \in Seq(Group \cup {NoGroup}) /\ Member(u, gid)'
        /\ Len(groups') = Len(groups) /\ gid + 1 \in 1 .. Len(groups)
        /\ groups'[gid + 1] # NoGroup
        /\ groups'[gid + 1].members = Append(groups[gid + 1].members, u)
        /\ groups[gid + 1].members \in Seq(Users)
        /\ \A i \in 1 .. Len(groups) : i # gid + 1 => groups'[i] = groups[i]
    BY <1>1, <2>2, <2>3, GrownJoin
  <2> QED BY <2>1, <2>4
<1>10. find_group_by_id(m.arg) # NoGroup =>
           ctl'.step = "respond" /\ ctl'.to = u /\ ctl'.res = Response("JOIN_GROUP", NotFound)
  BY <1>5, <1>6 DEF Respond
<1>11. Grown /\ groups' \in Seq(Group \cup {NoGroup})
  BY <1>1, <1>6, <1>7, <1>9, GrownSame DEF TableInv
<1>12. TableInv'
  BY <1>1, <1>6, <1>7, <1>10, <1>11 DEF TableInv, Idle
<1>13. QueueInv' /\ ToSet(server_queue') \subseteq ToSet(server_queue)
  BY <1>1, <1>6, ServerRemove
<1>14. ProcInv' /\ crossed' = crossed /\ pc' = pc /\ target' = target
  BY <1>1, <1>6, ProcStays
<1>15. ThreadInv'
  <2>1. ctl' = Idle \/ (ctl'.step = "respond" /\ ctl'.to \in Users)
    BY <1>6, <1>7, <1>10
  <2>2. server' \in {"up", "crashed"}
    BY <1>1, <1>6 DEF ThreadInv
  <2> QED BY <1>1, <1>6, <1>11, <2>1, <2>2, GrpStays DEF ThreadInv
<1>16. MsgInv'
  BY <1>1, <1>6, <1>11, <1>13, <1>14, MsgStays
<1>17. MemberInv'
  <2>1. CASE find_group_by_id(m.arg) = NoGroup
    BY <1>1, <1>7, <1>11, <1>14, <2>1, MemberStays
  <2>2. CASE find_group_by_id(m.arg) # NoGroup
    <3> SUFFICES ASSUME NEW i \in DOMAIN groups', groups'[i] # NoGroup, NEW j \in DOMAIN groups'[i].members,
                        groups'[i].members[j] \notin crossed'
                 PROVE  Registered(groups[i].members[j])'
      BY DEF MemberInv, Registered
    <3>1. i \in 1 .. Len(groups) /\ i \in DOMAIN groups
      BY <1>1, <1>9, <2>2 DEF TableInv
    <3>2. CASE i # m.arg + 1
      <4>1. groups'[i] = groups[i]
        BY <1>9, <2>2, <3>1, <3>2
      <4>2. Registered(groups[i].members[j])
        BY <1>1, <1>14, <3>1, <4>1 DEF MemberInv
      <4>3. PICK x : x = groups[i].members[j]
        OBVIOUS
      <4>4. Registered(x)'
        BY <1>11, <4>2, <4>3 DEF Grown
      <4> QED BY <4>1, <4>3, <4>4 DEF Registered
    <3>3. CASE i = m.arg + 1
      <4>1. PICK ms \in Seq(Users) : ms = groups[i].members
        BY <1>9, <2>2, <3>3
      <4>2. groups'[i].members = Append(ms, u)
        BY <1>9, <2>2, <3>3, <4>1
      <4>3. groups[i] # NoGroup
        BY <2>2, <3>3 DEF find_group_by_id
      <4>4. DOMAIN ms = 1 .. Len(ms) /\ DOMAIN Append(ms, u) = 1 .. Len(ms) + 1 /\ Len(ms) \in Nat
            /\ Append(ms, u)[Len(ms) + 1] = u /\ \A h \in 1 .. Len(ms) : Append(ms, u)[h] = ms[h]
        BY <4>1
      <4>5. PICK x : x = groups'[i].members[j]
        OBVIOUS
      <4>6. Registered(x)
        <5>1. CASE j = Len(ms) + 1
          BY <1>8, <1>14, <4>2, <4>4, <4>5, <5>1
        <5>2. CASE j # Len(ms) + 1
          <6>1. j \in DOMAIN ms /\ x = ms[j]
            BY <4>2, <4>4, <4>5, <5>2
          <6> QED BY <1>1, <1>14, <3>1, <4>1, <4>3, <4>5, <6>1 DEF MemberInv
        <5> QED BY <5>1, <5>2
      <4>7. Registered(x)'
        BY <1>11, <4>6 DEF Grown
      <4> QED BY <4>5, <4>7 DEF Registered
    <3> QED BY <3>2, <3>3
  <2> QED BY <2>1, <2>2
<1>18. ASSUME NEW v \in Users, v \notin crossed'
       PROVE  UserInv(v)'
  <2>1. UserInv(v)
    BY <1>1, <1>14, <1>18 DEF AnswerInv
  <2>2. CASE v = u
    <3>0. find_group_by_id(m.arg) # NoGroup /\ Registered(u)
      BY <1>7, <1>8, <1>14, <1>18, <2>2
    <3>1. CtlOf(u)'
      BY <1>10, <3>0 DEF CtlOf
    <3>2. ASSUME NEW p \in Mine(u), pc[p] \in {"registering", "joining", "creating"}, Asks(p, m)
          PROVE  CtlWork(p)'
      <4>1. pc[p] = "joining" /\ m.arg = target[p] /\ Owner[p] = u
        BY <1>6, <3>2 DEF Asks, Expected, Mine
      <4>2. Registered(u)'
        BY <1>11, <3>0 DEF Grown
      <4>3. Member(Owner[p], target[p])'
        BY <1>9, <1>14, <3>0, <4>1
      <4> QED BY <1>10, <1>14, <3>0, <4>1, <4>2, <4>3 DEF CtlWork, Answers, Response, Expected
    <3>3. \A p \in Mine(u) : (pc[p] \in {"registering", "joining", "creating"} /\ Asks(p, server_queue[k]) /\ Told(p))
                             => CtlWork(p)'
      BY <1>3, <3>2
    <3>4. server_queue[k].mtype = "CONTROL" /\ server_queue[k].src = u
      BY <1>3, <1>4, <1>5
    <3>5. UserInv(u)'
      BY <1>1, <1>6, <1>11, <1>14, <2>1, <2>2, <3>1, <3>3, <3>4, ControlTaken
    <3> QED BY <2>2, <3>5
  <2>3. CASE v # u
    <3>1. CtlSame(v)
      BY <1>6, <1>7, <1>10, <2>3 DEF CtlSame, CtlOf, Idle
    <3>2. ReqSame(v)
      BY <1>3, <1>5, <1>6, <2>3 DEF ReqSame, ReqOf
    <3>3. ResSame(v) /\ QrySame(v) /\ PcSame(v) /\ setup' = setup
      BY <1>6, <1>14 DEF ResSame, QrySame, PcSame
    <3> QED BY <1>1, <1>11, <2>1, <3>1, <3>2, <3>3, UserStays
  <2> QED BY <2>2, <2>3
<1>19. AnswerInv'
  BY <1>18 DEF AnswerInv
<1> QED BY <1>12, <1>13, <1>14, <1>15, <1>16, <1>17, <1>19 DEF IInv, Types

\* The thread goes on with the request of a user who waits for the answer.
LEMMA ControlWorks ==
    ASSUME NEW u \in Users, UserInv(u), CtlOf(u), CtlOf(u)',
           server_queue' = server_queue, client_queue' = client_queue, qry' = qry,
           pc' = pc, target' = target, setup' = setup, Grown,
           \A p \in Mine(u) : (pc[p] \in {"registering", "joining", "creating"} /\ CtlWork(p) /\ Told(p))
                              => CtlWork(p)'
    PROVE  UserInv(u)'
<1>1. PICK p \in Mine(u) :
              /\ pc[p] \in {"registering", "joining", "creating"}
              /\ Works(p) /\ NoRequest(u) /\ OnlyEntries(p) /\ Told(p)
  BY CtlOwner
<1>2. Owner[p] = u /\ p \in Procs
  BY DEF Mine
<1>3. CtlWork(p) /\ ~QryOf(u)
  BY <1>1, <1>2 DEF Works
<1>4. Works(p)'
  BY <1>1, <1>2, <1>3 DEF Works, QryOf
<1>5. NoRequest(u)' /\ OnlyEntries(p)'
  BY <1>1, <1>2 DEF NoRequest, OnlyEntries, ReqOf, IsResponse, IsEntry
<1>6. Token(p)'
  BY <1>2, <1>4, <1>5 DEF Token
<1>7. pc[p] \in Waiting
  BY <1>1 DEF Waiting
<1> QED BY <1>6, <1>7, TokenMoves

\* register_client fills the slot.
LEMMA InvFillClient ==
    ASSUME SetupAssumption, IInv, FillClient
    PROVE  IInv'
<1>1. /\ TableInv /\ QueueInv /\ ThreadInv /\ ProcInv /\ AnswerInv /\ MsgInv /\ MemberInv
  BY DEF IInv, Types
<1>2. PICK u \in Users : u = ctl.src
  BY <1>1 DEF FillClient, ThreadInv, Idle
<1>3. /\ ctl.step = "client" /\ clients' = [clients EXCEPT ![Len(clients)] = u]
      /\ ctl' = Respond(u, Response("REGISTER_CLIENT", NotFound))
      /\ UNCHANGED <<setup, server_queue, client_queue, groups, server, grp, clt, qry, procVars>>
  BY <1>2 DEF FillClient
<1>4. ctl'.step = "respond" /\ ctl'.to = u /\ ctl'.res = Response("REGISTER_CLIENT", NotFound)
  BY <1>3 DEF Respond
<1>5. Grown /\ clients' \in Seq(Users \cup {NoUser}) /\ Registered(u)'
  BY <1>1, <1>3, GrownClient
<1>6. TableInv'
  BY <1>1, <1>3, <1>4, <1>5 DEF TableInv
<1>7. QueueInv'
  BY <1>1, <1>3 DEF QueueInv, SrvMsg, IsControl
<1>8. ProcInv' /\ crossed' = crossed /\ pc' = pc /\ target' = target
  BY <1>1, <1>3, ProcStays
<1>9. ThreadInv'
  BY <1>1, <1>3, <1>4, <1>5, GrpStays DEF ThreadInv
<1>10. MsgInv' /\ MemberInv'
  BY <1>1, <1>3, <1>5, <1>8, MsgStays, MemberStays
<1>11. ASSUME NEW v \in Users, v \notin crossed'
       PROVE  UserInv(v)'
  <2>1. UserInv(v)
    BY <1>1, <1>8, <1>11 DEF AnswerInv
  <2>2. CASE v = u
    <3>1. CtlOf(u) /\ CtlOf(u)'
      BY <1>2, <1>3, <1>4 DEF CtlOf
    <3>2. ASSUME NEW p \in Mine(u), CtlWork(p)
          PROVE  CtlWork(p)'
      <4>1. pc[p] = "registering" /\ Owner[p] = u
        BY <1>3, <3>2 DEF CtlWork, Mine
      <4> QED BY <1>4, <1>5, <1>8, <4>1 DEF CtlWork, Answers, Response, Expected
    <3> QED BY <1>3, <1>5, <1>8, <2>1, <2>2, <3>1, <3>2, ControlWorks
  <2>3. CASE v # u
    <3>1. CtlSame(v)
      BY <1>2, <1>3, <1>4, <2>3 DEF CtlSame, CtlOf
    <3>2. ReqSame(v) /\ ResSame(v) /\ QrySame(v) /\ PcSame(v) /\ setup' = setup
      BY <1>3, <1>8 DEF ReqSame, ResSame, QrySame, PcSame
    <3> QED BY <1>1, <1>5, <2>1, <3>1, <3>2, UserStays
  <2> QED BY <2>2, <2>3
<1>12. AnswerInv'
  BY <1>11 DEF AnswerInv
<1> QED BY <1>6, <1>7, <1>8, <1>9, <1>10, <1>12 DEF IInv, Types

\* create_group puts the group into the table.
LEMMA InvFillGroup ==
    ASSUME SetupAssumption, IInv, FillGroup
    PROVE  IInv'
<1>1. /\ TableInv /\ QueueInv /\ ThreadInv /\ ProcInv /\ AnswerInv /\ MsgInv /\ MemberInv
  BY DEF IInv, Types
<1>2. PICK u \in Users : u = ctl.src
  BY <1>1 DEF FillGroup, ThreadInv, Idle
<1>3. PICK name \in GroupNames : name = ctl.name
  BY <1>1 DEF FillGroup, ThreadInv, Idle
<1>4. /\ ctl.step = "group" /\ groups' = [groups EXCEPT ![Len(groups)] = [name |-> name, members |-> <<>>]]
      /\ ctl' = [step |-> "creator", src |-> u, name |-> name]
      /\ UNCHANGED <<setup, server_queue, client_queue, clients, server, grp, clt, qry, procVars>>
  BY <1>2, <1>3 DEF FillGroup
<1>5. ctl'.step = "creator" /\ ctl'.src = u /\ ctl'.name = name
  BY <1>4
<1>6. /\ Grown /\ groups' \in Seq(Group \cup {NoGroup})
      /\ Len(groups) \in Nat \ {0} /\ Len(groups') = Len(groups)
      /\ groups'[Len(groups)] # NoGroup
      /\ groups'[Len(groups)].name = name /\ groups'[Len(groups)].members = <<>>
      /\ \A i \in 1 .. Len(groups) : i # Len(groups) => groups'[i] = groups[i]
  BY <1>1, <1>4, GrownGroup
<1>7. TableInv'
  <2>1. groups' # <<>>
    BY <1>6
  <2>2. groups'[Len(groups')] # NoGroup /\ groups'[Len(groups')].name = ctl'.name
    BY <1>5, <1>6
  <2> QED BY <1>1, <1>4, <1>5, <1>6, <2>1, <2>2 DEF TableInv
<1>8. QueueInv'
  BY <1>1, <1>4 DEF QueueInv, SrvMsg, IsControl
<1>9. ProcInv' /\ crossed' = crossed /\ pc' = pc /\ target' = target
  BY <1>1, <1>4, ProcStays
<1>10. ThreadInv'
  BY <1>1, <1>4, <1>5, <1>6, GrpStays DEF ThreadInv
<1>11. MsgInv'
  BY <1>1, <1>4, <1>6, <1>9, MsgStays
<1>12. MemberInv'
  <2> SUFFICES ASSUME NEW i \in DOMAIN groups', groups'[i] # NoGroup, NEW j \in DOMAIN groups'[i].members,
                      groups'[i].members[j] \notin crossed'
               PROVE  Registered(groups[i].members[j])'
    BY DEF MemberInv, Registered
  <2>1. i \in 1 .. Len(groups) /\ i \in DOMAIN groups
    BY <1>1, <1>6 DEF TableInv
  <2>2. i # Len(groups)
    BY <1>6
  <2>3. PICK x : x = groups'[i].members[j]
    OBVIOUS
  <2>4. Registered(x)
    BY <1>1, <1>6, <1>9, <2>1, <2>2, <2>3 DEF MemberInv
  <2>5. Registered(x)'
    BY <1>6, <2>4 DEF Grown
  <2> QED BY <2>3, <2>5 DEF Registered
<1>13. ASSUME NEW v \in Users, v \notin crossed'
       PROVE  UserInv(v)'
  <2>1. UserInv(v)
    BY <1>1, <1>9, <1>13 DEF AnswerInv
  <2>2. CASE v = u
    <3>1. CtlOf(u) /\ CtlOf(u)'
      BY <1>2, <1>4, <1>5 DEF CtlOf
    <3>2. ASSUME NEW p \in Mine(u), CtlWork(p)
          PROVE  CtlWork(p)'
      <4>1. pc[p] = "creating" /\ cmd[p].name = name
        BY <1>3, <1>4, <3>2 DEF CtlWork
      <4>2. cmd'[p].name = name /\ pc'[p] = "creating"
        BY <1>4, <1>9, <4>1 DEF cmd
      <4> QED BY <1>5, <4>2 DEF CtlWork
    <3> QED BY <1>4, <1>6, <1>9, <2>1, <2>2, <3>1, <3>2, ControlWorks
  <2>3. CASE v # u
    <3>1. CtlSame(v)
      BY <1>2, <1>4, <1>5, <2>3 DEF CtlSame, CtlOf
    <3>2. ReqSame(v) /\ ResSame(v) /\ QrySame(v) /\ PcSame(v) /\ setup' = setup
      BY <1>4, <1>9 DEF ReqSame, ResSame, QrySame, PcSame
    <3> QED BY <1>1, <1>6, <2>1, <3>1, <3>2, UserStays
  <2> QED BY <2>2, <2>3
<1>14. AnswerInv'
  BY <1>13 DEF AnswerInv
<1> QED BY <1>7, <1>8, <1>9, <1>10, <1>11, <1>12, <1>14 DEF IInv, Types

\* join_group makes the creator a member.
LEMMA InvJoinCreator ==
    ASSUME SetupAssumption, IInv, JoinCreator
    PROVE  IInv'
<1>1. /\ TableInv /\ QueueInv /\ ThreadInv /\ ProcInv /\ AnswerInv /\ MsgInv /\ MemberInv
  BY DEF IInv, Types
<1>2. PICK u \in Users : u = ctl.src
  BY <1>1 DEF JoinCreator, ThreadInv, Idle
<1>3. PICK name \in GroupNames : name = ctl.name
  BY <1>1 DEF JoinCreator, ThreadInv, Idle
<1>4. /\ groups \in Seq(Group \cup {NoGroup}) /\ groups # <<>> /\ ctl.step = "creator"
      /\ groups[Len(groups)] # NoGroup /\ groups[Len(groups)].name = name
  BY <1>1, <1>3 DEF JoinCreator, TableInv
<1>5. PICK n : n = Len(groups)
  OBVIOUS
<1>6. n \in Nat \ {0} /\ DOMAIN groups = 1 .. n /\ n \in 1 .. n
  BY <1>4, <1>5
<1>7. PICK gid : gid = n - 1
  OBVIOUS
<1>8. gid + 1 = n /\ find_group_by_id(gid) = groups[n]
  BY <1>6, <1>7 DEF find_group_by_id
<1>9. Named(gid, name)
  BY <1>4, <1>5, <1>8 DEF Named
<1>10. /\ groups' = [groups EXCEPT ![gid + 1].members = Append(@, u)]
       /\ ctl' = Respond(u, Response("CREATE_GROUP", gid))
       /\ UNCHANGED <<setup, server_queue, client_queue, clients, server, grp, clt, qry, procVars>>
  BY <1>2, <1>5, <1>7, <1>8 DEF JoinCreator
<1>11. ctl'.step = "respond" /\ ctl'.to = u /\ ctl'.res = Response("CREATE_GROUP", gid)
  BY <1>10 DEF Respond
<1>12. /\ Grown /\ groups' \in Seq(Group \cup {NoGroup}) /\ Member(u, gid)'
       /\ Len(groups') = n
       /\ groups'[n].members = Append(groups[n].members, u)
       /\ groups[n].members \in Seq(Users)
       /\ \A i \in 1 .. n : i # n => groups'[i] = groups[i]
  <2>1. find_group_by_id(gid) # NoGroup
    BY <1>9 DEF Named
  <2>2. /\ Grown /\ groups' \in Seq(Group \cup {NoGroup}) /\ Member(u, gid)'
        /\ Len(groups') = Len(groups)
        /\ groups'[gid + 1].members = Append(groups[gid + 1].members, u)
        /\ groups[gid + 1].members \in Seq(Users)
        /\ \A i \in 1 .. Len(groups) : i # gid + 1 => groups'[i] = groups[i]
    BY <1>1, <1>10, <2>1, GrownJoin
  <2> QED BY <1>5, <1>8, <2>2
<1>13. Named(gid, name)'
  <2>1. find_group_by_id(gid)' # NoGroup /\ find_group_by_id(gid)'.name = find_group_by_id(gid).name
    BY <1>9, <1>12 DEF Grown, Named
  <2> QED BY <1>9, <2>1 DEF Named
<1>14. TableInv'
  BY <1>1, <1>10, <1>11, <1>12 DEF TableInv
<1>15. QueueInv'
  BY <1>1, <1>10 DEF QueueInv, SrvMsg, IsControl
<1>16. ProcInv' /\ crossed' = crossed /\ pc' = pc /\ target' = target
  BY <1>1, <1>10, ProcStays
<1>17. ThreadInv'
  BY <1>1, <1>10, <1>11, <1>12, GrpStays DEF ThreadInv
<1>18. MsgInv'
  BY <1>1, <1>10, <1>12, <1>16, MsgStays
<1>19. u \notin crossed => Registered(u)
  <2>1. SUFFICES ASSUME u \notin crossed
                 PROVE  Registered(u)
    OBVIOUS
  <2>2. UserInv(u) /\ CtlOf(u)
    BY <1>1, <1>2, <1>4, <2>1 DEF AnswerInv, CtlOf
  <2>3. PICK p \in Mine(u) : pc[p] \in {"registering", "joining", "creating"} /\ Works(p) /\ Told(p)
    BY <2>2, CtlOwner
  <2>4. pc[p] = "creating" /\ Owner[p] = u
    BY <1>4, <2>3 DEF Works, CtlWork, Mine
  <2> QED BY <2>3, <2>4 DEF Told
<1>20. MemberInv'
  <2> SUFFICES ASSUME NEW i \in DOMAIN groups', groups'[i] # NoGroup, NEW j \in DOMAIN groups'[i].members,
                      groups'[i].members[j] \notin crossed'
               PROVE  Registered(groups[i].members[j])'
    BY DEF MemberInv, Registered
  <2>1. i \in 1 .. n /\ i \in DOMAIN groups
    BY <1>6, <1>12
  <2>2. PICK x : x = groups'[i].members[j]
    OBVIOUS
  <2>3. Registered(x)
    <3>1. CASE i # n
      BY <1>1, <1>12, <1>16, <2>1, <2>2, <3>1 DEF MemberInv
    <3>2. CASE i = n
      <4>1. PICK ms \in Seq(Users) : ms = groups[n].members
        BY <1>12
      <4>2. groups'[i].members = Append(ms, u)
        BY <1>12, <3>2, <4>1
      <4>3. DOMAIN ms = 1 .. Len(ms) /\ DOMAIN Append(ms, u) = 1 .. Len(ms) + 1 /\ Len(ms) \in Nat
            /\ Append(ms, u)[Len(ms) + 1] = u /\ \A h \in 1 .. Len(ms) : Append(ms, u)[h] = ms[h]
        BY <4>1
      <4>4. CASE j = Len(ms) + 1
        BY <1>16, <1>19, <2>2, <4>2, <4>3, <4>4
      <4>5. CASE j # Len(ms) + 1
        <5>1. j \in DOMAIN ms /\ x = ms[j]
          BY <2>2, <4>2, <4>3, <4>5
        <5> QED BY <1>1, <1>4, <1>5, <1>6, <1>16, <2>2, <4>1, <5>1 DEF MemberInv
      <4> QED BY <4>4, <4>5
    <3> QED BY <3>1, <3>2
  <2>4. Registered(x)'
    BY <1>12, <2>3 DEF Grown
  <2> QED BY <2>2, <2>4 DEF Registered
<1>21. ASSUME NEW v \in Users, v \notin crossed'
       PROVE  UserInv(v)'
  <2>1. UserInv(v)
    BY <1>1, <1>16, <1>21 DEF AnswerInv
  <2>2. CASE v = u
    <3>1. CtlOf(u) /\ CtlOf(u)'
      BY <1>2, <1>4, <1>11 DEF CtlOf
    <3>2. Registered(u)'
      BY <1>12, <1>16, <1>19, <1>21, <2>2 DEF Grown
    <3>3. ASSUME NEW p \in Mine(u), CtlWork(p)
          PROVE  CtlWork(p)'
      <4>1. pc[p] = "creating" /\ Owner[p] = u /\ cmd[p].name = name
        BY <1>3, <1>4, <3>3 DEF CtlWork, Mine
      <4>2. PICK r : r = Response("CREATE_GROUP", gid)
        OBVIOUS
      <4>3. r.mtype = "CONTROL_RESPONSE" /\ r.action = "CREATE_GROUP" /\ r.gid = gid
        BY <4>2 DEF Response
      <4>4. cmd'[p].name = name
        BY <1>10, <4>1 DEF cmd
      <4>5. pc'[p] = "creating" /\ Expected["creating"] = "CREATE_GROUP"
        BY <1>16, <4>1 DEF Expected
      <4>6. Answers(p, r)'
        BY <1>12, <1>13, <3>2, <4>1, <4>3, <4>4, <4>5 DEF Answers
      <4>7. Answers(p, ctl.res)'
        BY <1>11, <4>2, <4>6 DEF Answers
      <4> QED BY <1>11, <4>7 DEF CtlWork
    <3> QED BY <1>10, <1>12, <1>16, <2>1, <2>2, <3>1, <3>3, ControlWorks
  <2>3. CASE v # u
    <3>1. CtlSame(v)
      BY <1>2, <1>4, <1>10, <1>11, <2>3 DEF CtlSame, CtlOf
    <3>2. ReqSame(v) /\ ResSame(v) /\ QrySame(v) /\ PcSame(v) /\ setup' = setup
      BY <1>10, <1>16 DEF ReqSame, ResSame, QrySame, PcSame
    <3> QED BY <1>1, <1>12, <2>1, <3>1, <3>2, UserStays
  <2> QED BY <2>2, <2>3
<1>22. AnswerInv'
  BY <1>21 DEF AnswerInv
<1> QED BY <1>14, <1>15, <1>16, <1>17, <1>18, <1>20, <1>22 DEF IInv, Types

\* send_control_response.
LEMMA InvSendControlResponse ==
    ASSUME SetupAssumption, IInv, SendControlResponse
    PROVE  IInv'
<1>1. /\ TableInv /\ QueueInv /\ ThreadInv /\ ProcInv /\ AnswerInv /\ MsgInv /\ MemberInv
  BY DEF IInv, Types
<1>2. PICK u \in Users : u = ctl.to
  BY <1>1 DEF SendControlResponse, ThreadInv, Idle
<1>3. PICK r : r = ctl.res
  OBVIOUS
<1>4. /\ ctl.step = "respond" /\ Room(client_queue[u]) /\ ctl' = Idle
      /\ client_queue' = [client_queue EXCEPT ![u] = Append(@, r)]
      /\ UNCHANGED <<setup, server_queue, clients, groups, server, grp, clt, qry, procVars>>
  BY <1>2, <1>3 DEF SendControlResponse
<1>5. Grown
  BY <1>1, <1>4, GrownSame
<1>6. TableInv'
  BY <1>1, <1>4 DEF TableInv, Idle
<1>7. /\ QueueInv' /\ client_queue'[u] = Append(client_queue[u], r)
      /\ \A v \in Users : v # u => client_queue'[v] = client_queue[v]
  BY <1>1, <1>4, ClientAppend
<1>8. ProcInv' /\ crossed' = crossed /\ pc' = pc /\ target' = target
  BY <1>1, <1>4, ProcStays
<1>9. ThreadInv'
  BY <1>1, <1>4, <1>5, GrpStays DEF ThreadInv
<1>10. MsgInv' /\ MemberInv'
  BY <1>1, <1>4, <1>5, <1>8, MsgStays, MemberStays
<1>11. ASSUME NEW v \in Users, v \notin crossed'
       PROVE  UserInv(v)'
  <2>1. UserInv(v)
    BY <1>1, <1>8, <1>11 DEF AnswerInv
  <2>2. CASE v = u
    <3>1. CtlOf(u)
      BY <1>2, <1>4 DEF CtlOf
    <3>2. PICK p \in Mine(u) :
              /\ pc[p] \in {"registering", "joining", "creating"}
              /\ Works(p) /\ NoRequest(u) /\ OnlyEntries(p) /\ Told(p)
      BY <2>1, <2>2, <3>1, CtlOwner
    <3>3. Owner[p] = u /\ p \in Procs /\ pc[p] \in Waiting
      BY <3>2 DEF Mine, Waiting
    <3>4. Answers(p, r) /\ ~QryOf(u)
      BY <1>3, <1>4, <3>2, <3>3 DEF Works, CtlWork
    <3>5. Answers(p, r)'
      BY <1>4, <1>5, <1>8, <3>3, <3>4, AnswersStay
    <3>6. OneResponse(p)'
      BY <1>1, <1>7, <1>8, <3>2, <3>5, ResponseSent
    <3>7. NoWork(u)'
      BY <1>4, <3>4 DEF NoWork, CtlOf, QryOf, Idle
    <3>8. NoRequest(u)'
      BY <1>4, <3>2 DEF NoRequest, ReqOf
    <3>9. Token(p)'
      BY <3>3, <3>6, <3>7, <3>8 DEF Token
    <3> QED BY <1>4, <1>5, <1>8, <2>1, <2>2, <3>3, <3>9, TokenMoves
  <2>3. CASE v # u
    <3>1. CtlSame(v)
      BY <1>2, <1>4, <2>3 DEF CtlSame, CtlOf, Idle
    <3>2. ReqSame(v) /\ ResSame(v) /\ QrySame(v) /\ PcSame(v) /\ setup' = setup
      BY <1>4, <1>7, <1>8, <2>3 DEF ReqSame, ResSame, QrySame, PcSame
    <3> QED BY <1>1, <1>5, <2>1, <3>1, <3>2, UserStays
  <2> QED BY <2>2, <2>3
<1>12. AnswerInv'
  BY <1>11 DEF AnswerInv
<1> QED BY <1>6, <1>7, <1>8, <1>9, <1>10, <1>12 DEF IInv, Types
-----------------------------------------------------------------------------
(* handle_queries.                                                         *)

\* The command of a process that runs.
LEMMA CmdType ==
    ASSUME SetupAssumption, ProcInv, NEW p \in Procs, pc[p] # "off"
    PROVE  /\ cmd[p] \in Command
           /\ cmd[p].op # "list" => cmd[p].name # "_ALL_"
           /\ cmd[p].op = "create" => cmd[p].name \in GroupNames
<1>1. setup \in Setup /\ p \in DOMAIN cmd
  BY DEF ProcInv, SetupAssumption
<1>2. cmd \in UNION {[ps -> Command] : ps \in SUBSET Procs}
  BY <1>1 DEF Setup, cmd
<1>3. PICK ps \in SUBSET Procs : cmd \in [ps -> Command]
  BY <1>2
<1>4. cmd[p] \in Command
  BY <1>1, <1>3
<1>5. PICK c \in Command : c = cmd[p]
  BY <1>4
<1>6. /\ c.op # "list" => c.name \in Users \cup GroupNames
      /\ c.op = "create" => c.name \in GroupNames
  BY DEF Command
<1> QED BY <1>4, <1>5, <1>6 DEF SetupAssumption

\* find_group_by_name finds a group of that name.
LEMMA GidNamed ==
    ASSUME TableInv, NEW name, GroupsNamed(name) # {}
    PROVE  Named(GidOf(name), name)
<1> DEFINE T == GroupsNamed(name)
<1>1. T \subseteq Nat
  BY DEF GroupsNamed, TableInv
<1>2. \E x \in T : \A y \in T : x <= y
  BY <1>1, MinIn
<1>3. PICK x : x = CHOOSE i \in GroupsNamed(name) : \A j \in GroupsNamed(name) : i <= j
  OBVIOUS
<1>4. x \in T
  BY <1>2, <1>3
<1>5. GidOf(name) + 1 = x
  BY <1>1, <1>3, <1>4 DEF GidOf
<1>6. x \in DOMAIN groups /\ groups[x] # NoGroup /\ groups[x].name = name
  BY <1>4 DEF GroupsNamed
<1> QED BY <1>5, <1>6 DEF Named, find_group_by_id

\* The thread takes the query of a user who waits for the answer.
LEMMA QueryTaken ==
    ASSUME QueueInv, NEW u \in Users, UserInv(u), NEW k \in 1 .. Len(server_queue),
           server_queue[k].mtype = "QUERY_REQUEST", server_queue[k].src = u,
           server_queue' = RemoveAt(server_queue, k), client_queue' = client_queue, ctl' = ctl,
           pc' = pc, target' = target, setup' = setup, Grown, QryOf(u)',
           \A p \in Mine(u) : (pc[p] \in {"asking", "listing"} /\ Asks(p, server_queue[k]) /\ Told(p))
                              => QryWork(p)'
    PROVE  UserInv(u)'
<1>1. ReqOf(server_queue[k], u)
  BY DEF ReqOf
<1>2. PICK p \in Mine(u) :
              /\ pc[p] \in Waiting /\ Asks(p, server_queue[k]) /\ Told(p)
              /\ NoWork(u) /\ NoResponse(u)
              /\ \A j \in 1 .. Len(server_queue) : ReqOf(server_queue[j], u) => j = k
  BY <1>1, ReqOwner
<1>3. Owner[p] = u /\ p \in Procs
  BY DEF Mine
<1>4. pc[p] \in {"asking", "listing"}
  BY <1>2 DEF Asks, IsControl, Waiting
<1>5. NoRequest(u)'
  BY <1>2, RequestTaken
<1>6. ~CtlOf(u)'
  BY <1>2 DEF NoWork, CtlOf
<1>7. Works(p)'
  BY <1>2, <1>3, <1>4, <1>6 DEF Works
<1>8. OnlyEntries(p)'
  BY <1>2, <1>3 DEF OnlyEntries, NoResponse, IsResponse
<1>9. Token(p)'
  BY <1>3, <1>5, <1>7, <1>8 DEF Token
<1> QED BY <1>2, <1>9, TokenMoves

\* A query for one name.
LEMMA InvTakeNameQuery ==
    ASSUME SetupAssumption, IInv, TakeNameQuery
    PROVE  IInv'
<1>1. /\ TableInv /\ QueueInv /\ ThreadInv /\ ProcInv /\ AnswerInv /\ MsgInv /\ MemberInv
      /\ server_queue \in Seq(ToSet(server_queue))
  BY DEF IInv, Types, QueueInv
<1>2. PICK k \in 1 .. Len(server_queue) :
          /\ IsQuery(server_queue[k]) /\ First(server_queue, IsQuery) = server_queue[k]
          /\ RemoveFirstMatch(server_queue, IsQuery) = RemoveAt(server_queue, k)
  BY <1>1, FirstQuery DEF TakeNameQuery
<1>3. PICK m : m = server_queue[k]
  OBVIOUS
<1>4. m \in ToSet(server_queue) /\ m.mtype = "QUERY_REQUEST"
  BY <1>1, <1>2, <1>3, ToSetDef DEF IsQuery
<1>5. PICK u \in Users : m.src = u
  BY <1>1, <1>4 DEF QueueInv, SrvMsg
<1>6. PICK res :
      /\ m.content # "_ALL_"
      /\ server' \in {"up", "crashed"}
      /\ qry' = [step |-> "respond", src |-> u, res |-> res]
      /\ \/ res = QueryResponse("id", "ERROR", NotFound)
         \/ m.query_type = "client" /\ Registered(m.content) /\ res = QueryResponse("id", "OK", m.content)
         \/ /\ m.query_type # "client" /\ GroupsNamed(m.content) # {}
            /\ res = QueryResponse("id", "OK", GidOf(m.content))
      /\ server_queue' = RemoveAt(server_queue, k) /\ qry = Idle
      /\ UNCHANGED <<setup, client_queue, clients, groups, grp, clt, ctl, procVars>>
  <2>1. PICK found \in BOOLEAN : found = IF m.query_type = "client" THEN Registered(m.content)
                                                             ELSE GroupsNamed(m.content) # {}
    BY DEF Registered
  <2>2. PICK id : id = IF m.query_type = "client" THEN m.content ELSE GidOf(m.content)
    OBVIOUS
  <2>3. PICK res : res = IF found THEN QueryResponse("id", "OK", id) ELSE QueryResponse("id", "ERROR", NotFound)
    OBVIOUS
  <2>4. /\ m.content # "_ALL_" /\ server' \in {"up", "crashed"}
        /\ server_queue' = RemoveAt(server_queue, k) /\ qry = Idle
        /\ UNCHANGED <<setup, client_queue, clients, groups, grp, clt, ctl, procVars>>
    BY <1>2, <1>3 DEF TakeNameQuery
  <2>5. qry' = [step |-> "respond", src |-> u, res |-> res]
    BY <1>2, <1>3, <1>5, <2>1, <2>2, <2>3 DEF TakeNameQuery
  <2>6. \/ res = QueryResponse("id", "ERROR", NotFound)
        \/ m.query_type = "client" /\ Registered(m.content) /\ res = QueryResponse("id", "OK", m.content)
        \/ /\ m.query_type # "client" /\ GroupsNamed(m.content) # {}
           /\ res = QueryResponse("id", "OK", GidOf(m.content))
    BY <2>1, <2>2, <2>3
  <2> QED BY <2>4, <2>5, <2>6
<1>7. qry'.step = "respond" /\ qry'.src = u /\ qry'.res = res
  BY <1>6
<1>8. Grown
  BY <1>1, <1>6, GrownSame
<1>9. TableInv'
  BY <1>1, <1>6 DEF TableInv
<1>10. QueueInv' /\ ToSet(server_queue') \subseteq ToSet(server_queue)
  BY <1>1, <1>6, ServerRemove
<1>11. ProcInv' /\ crossed' = crossed /\ pc' = pc /\ target' = target
  BY <1>1, <1>6, ProcStays
<1>12. ThreadInv'
  BY <1>1, <1>6, <1>7, <1>8, GrpStays DEF ThreadInv
<1>13. MsgInv' /\ MemberInv'
  BY <1>1, <1>6, <1>8, <1>10, <1>11, MsgStays, MemberStays
<1>14. ASSUME NEW v \in Users, v \notin crossed'
       PROVE  UserInv(v)'
  <2>1. UserInv(v)
    BY <1>1, <1>11, <1>14 DEF AnswerInv
  <2>2. CASE v = u
    <3>1. QryOf(u)'
      BY <1>7 DEF QryOf
    <3>2. ASSUME NEW p \in Mine(u), pc[p] \in {"asking", "listing"}, Asks(p, m)
          PROVE  QryWork(p)'
      <4>1. pc[p] = "asking" /\ m.query_type = cmd[p].kind /\ m.content = cmd[p].name /\ Owner[p] = u /\ p \in Procs
        BY <1>6, <3>2 DEF Asks, Mine
      <4>2. /\ res.mtype = "QUERY_RESPONSE" /\ res.kind = "id" /\ res.status \in {"OK", "ERROR"}
            /\ res.status = "OK" =>
                  \/ m.query_type = "client" /\ Registered(m.content) /\ res.id = m.content
                  \/ m.query_type # "client" /\ GroupsNamed(m.content) # {} /\ res.id = GidOf(m.content)
        BY <1>6 DEF QueryResponse
      <4>3. res.status = "OK" => Found(cmd[p].kind, res.id, cmd[p].name)
        BY <1>1, <4>1, <4>2, GidNamed DEF Found
      <4>4. Answers(p, res)
        BY <4>1, <4>2, <4>3 DEF Answers
      <4>5. Answers(p, res)'
        BY <1>6, <1>8, <1>11, <4>1, <4>4, AnswersStay
      <4>6. Answers(p, qry.res)'
        BY <1>7, <4>5 DEF Answers
      <4> QED BY <1>7, <4>6 DEF QryWork
    <3>3. \A p \in Mine(u) : (pc[p] \in {"asking", "listing"} /\ Asks(p, server_queue[k]) /\ Told(p))
                             => QryWork(p)'
      BY <1>3, <3>2
    <3>4. server_queue[k].mtype = "QUERY_REQUEST" /\ server_queue[k].src = u
      BY <1>3, <1>4, <1>5
    <3>5. UserInv(u)'
      BY <1>1, <1>6, <1>8, <1>11, <2>1, <2>2, <3>1, <3>3, <3>4, QueryTaken
    <3> QED BY <2>2, <3>5
  <2>3. CASE v # u
    <3>1. QrySame(v)
      BY <1>6, <1>7, <2>3 DEF QrySame, QryOf, Idle
    <3>2. ReqSame(v)
      BY <1>3, <1>5, <1>6, <2>3 DEF ReqSame, ReqOf
    <3>3. ResSame(v) /\ CtlSame(v) /\ PcSame(v) /\ setup' = setup
      BY <1>6, <1>11 DEF ResSame, CtlSame, PcSame
    <3> QED BY <1>1, <1>8, <2>1, <3>1, <3>2, <3>3, UserStays
  <2> QED BY <2>2, <2>3
<1>15. AnswerInv'
  BY <1>14 DEF AnswerInv
<1> QED BY <1>9, <1>10, <1>11, <1>12, <1>13, <1>15 DEF IInv, Types

\* A query for all names.
LEMMA InvTakeListQuery ==
    ASSUME SetupAssumption, IInv, TakeListQuery
    PROVE  IInv'
<1>1. /\ TableInv /\ QueueInv /\ ThreadInv /\ ProcInv /\ AnswerInv /\ MsgInv /\ MemberInv
      /\ server_queue \in Seq(ToSet(server_queue))
  BY DEF IInv, Types, QueueInv
<1>2. PICK k \in 1 .. Len(server_queue) :
          /\ IsQuery(server_queue[k]) /\ First(server_queue, IsQuery) = server_queue[k]
          /\ RemoveFirstMatch(server_queue, IsQuery) = RemoveAt(server_queue, k)
  BY <1>1, FirstQuery DEF TakeListQuery
<1>3. PICK m : m = server_queue[k]
  OBVIOUS
<1>4. m \in ToSet(server_queue) /\ m.mtype = "QUERY_REQUEST"
  BY <1>1, <1>2, <1>3, ToSetDef DEF IsQuery
<1>5. PICK u \in Users : m.src = u
  BY <1>1, <1>4 DEF QueueInv, SrvMsg
<1>6. /\ m.content = "_ALL_"
      /\ qry' = [step |-> "list", src |-> u, type |-> m.query_type, i |-> 1]
      /\ server_queue' = RemoveAt(server_queue, k) /\ qry = Idle
      /\ UNCHANGED <<setup, client_queue, clients, groups, server, grp, clt, ctl, procVars>>
  BY <1>2, <1>3, <1>5 DEF TakeListQuery
<1>7. /\ qry'.step = "list" /\ qry'.src = u /\ qry'.i \in Nat \ {0}
      /\ qry' = [step |-> "list", src |-> qry'.src, type |-> qry'.type, i |-> qry'.i]
  BY <1>6
<1>8. Grown
  BY <1>1, <1>6, GrownSame
<1>9. TableInv'
  BY <1>1, <1>6 DEF TableInv
<1>10. QueueInv' /\ ToSet(server_queue') \subseteq ToSet(server_queue)
  BY <1>1, <1>6, ServerRemove
<1>11. ProcInv' /\ crossed' = crossed /\ pc' = pc /\ target' = target
  BY <1>1, <1>6, ProcStays
<1>12. ThreadInv'
  BY <1>1, <1>6, <1>7, <1>8, GrpStays DEF ThreadInv
<1>13. MsgInv' /\ MemberInv'
  BY <1>1, <1>6, <1>8, <1>10, <1>11, MsgStays, MemberStays
<1>14. ASSUME NEW v \in Users, v \notin crossed'
       PROVE  UserInv(v)'
  <2>1. UserInv(v)
    BY <1>1, <1>11, <1>14 DEF AnswerInv
  <2>2. CASE v = u
    <3>1. QryOf(u)'
      BY <1>7 DEF QryOf
    <3>2. ASSUME NEW p \in Mine(u), pc[p] \in {"asking", "listing"}, Asks(p, m)
          PROVE  QryWork(p)'
      <4>1. p \in Procs
        BY DEF Mine
      <4>2. pc[p] # "asking"
        <5>1. SUFFICES ASSUME pc[p] = "asking"
                       PROVE  FALSE
          OBVIOUS
        <5>2. cmd[p].op \notin {"create", "list"}
          BY <1>1, <4>1, <5>1 DEF ProcInv
        <5>3. cmd[p].name # "_ALL_"
          BY <1>1, <4>1, <5>1, <5>2, CmdType
        <5>4. m.content = cmd[p].name
          BY <3>2, <5>1 DEF Asks
        <5> QED BY <1>6, <5>3, <5>4
      <4> QED BY <1>7, <1>11, <3>2, <4>2 DEF QryWork
    <3>3. \A p \in Mine(u) : (pc[p] \in {"asking", "listing"} /\ Asks(p, server_queue[k]) /\ Told(p))
                             => QryWork(p)'
      BY <1>3, <3>2
    <3>4. server_queue[k].mtype = "QUERY_REQUEST" /\ server_queue[k].src = u
      BY <1>3, <1>4, <1>5
    <3>5. UserInv(u)'
      BY <1>1, <1>6, <1>8, <1>11, <2>1, <2>2, <3>1, <3>3, <3>4, QueryTaken
    <3> QED BY <2>2, <3>5
  <2>3. CASE v # u
    <3>1. QrySame(v)
      BY <1>6, <1>7, <2>3 DEF QrySame, QryOf, Idle
    <3>2. ReqSame(v)
      BY <1>3, <1>5, <1>6, <2>3 DEF ReqSame, ReqOf
    <3>3. ResSame(v) /\ CtlSame(v) /\ PcSame(v) /\ setup' = setup
      BY <1>6, <1>11 DEF ResSame, CtlSame, PcSame
    <3> QED BY <1>1, <1>8, <2>1, <3>1, <3>2, <3>3, UserStays
  <2> QED BY <2>2, <2>3
<1>15. AnswerInv'
  BY <1>14 DEF AnswerInv
<1> QED BY <1>9, <1>10, <1>11, <1>12, <1>13, <1>15 DEF IInv, Types

\* send_query_response.
LEMMA InvSendQueryResponse ==
    ASSUME SetupAssumption, IInv, SendQueryResponse
    PROVE  IInv'
<1>1. /\ TableInv /\ QueueInv /\ ThreadInv /\ ProcInv /\ AnswerInv /\ MsgInv /\ MemberInv
  BY DEF IInv, Types
<1>2. PICK u \in Users : u = qry.src
  BY <1>1 DEF SendQueryResponse, ThreadInv, Idle
<1>3. PICK r : r = qry.res
  OBVIOUS
<1>4. /\ qry.step = "respond" /\ Room(client_queue[u]) /\ qry' = Idle
      /\ client_queue' = [client_queue EXCEPT ![u] = Append(@, r)]
      /\ UNCHANGED <<setup, server_queue, clients, groups, server, grp, clt, ctl, procVars>>
  BY <1>2, <1>3 DEF SendQueryResponse
<1>5. Grown
  BY <1>1, <1>4, GrownSame
<1>6. TableInv'
  BY <1>1, <1>4 DEF TableInv
<1>7. /\ QueueInv' /\ client_queue'[u] = Append(client_queue[u], r)
      /\ \A v \in Users : v # u => client_queue'[v] = client_queue[v]
  BY <1>1, <1>4, ClientAppend
<1>8. ProcInv' /\ crossed' = crossed /\ pc' = pc /\ target' = target
  BY <1>1, <1>4, ProcStays
<1>9. ThreadInv'
  BY <1>1, <1>4, <1>5, GrpStays DEF ThreadInv
<1>10. MsgInv' /\ MemberInv'
  BY <1>1, <1>4, <1>5, <1>8, MsgStays, MemberStays
<1>11. ASSUME NEW v \in Users, v \notin crossed'
       PROVE  UserInv(v)'
  <2>1. UserInv(v)
    BY <1>1, <1>8, <1>11 DEF AnswerInv
  <2>2. CASE v = u
    <3>1. QryOf(u)
      BY <1>2, <1>4 DEF QryOf
    <3>2. PICK p \in Mine(u) :
              /\ pc[p] \in {"asking", "listing"}
              /\ Works(p) /\ NoRequest(u) /\ OnlyEntries(p) /\ Told(p)
      BY <2>1, <2>2, <3>1, QryOwner
    <3>3. Owner[p] = u /\ p \in Procs /\ pc[p] \in Waiting
      BY <3>2 DEF Mine, Waiting
    <3>4. Answers(p, r) /\ ~CtlOf(u)
      BY <1>3, <1>4, <3>2, <3>3 DEF Works, QryWork
    <3>5. Answers(p, r)'
      BY <1>4, <1>5, <1>8, <3>3, <3>4, AnswersStay
    <3>6. OneResponse(p)'
      BY <1>1, <1>7, <1>8, <3>2, <3>5, ResponseSent
    <3>7. NoWork(u)'
      BY <1>4, <3>4 DEF NoWork, CtlOf, QryOf, Idle
    <3>8. NoRequest(u)'
      BY <1>4, <3>2 DEF NoRequest, ReqOf
    <3>9. Token(p)'
      BY <3>3, <3>6, <3>7, <3>8 DEF Token
    <3> QED BY <1>4, <1>5, <1>8, <2>1, <2>2, <3>3, <3>9, TokenMoves
  <2>3. CASE v # u
    <3>1. QrySame(v)
      BY <1>2, <1>4, <2>3 DEF QrySame, QryOf, Idle
    <3>2. ReqSame(v) /\ ResSame(v) /\ CtlSame(v) /\ PcSame(v) /\ setup' = setup
      BY <1>4, <1>7, <1>8, <2>3 DEF ReqSame, ResSame, CtlSame, PcSame
    <3> QED BY <1>1, <1>5, <2>1, <3>1, <3>2, UserStays
  <2> QED BY <2>2, <2>3
<1>12. AnswerInv'
  BY <1>11 DEF AnswerInv
<1> QED BY <1>6, <1>7, <1>8, <1>9, <1>10, <1>12 DEF IInv, Types

\* A step that concerns nobody's requests.
LEMMA AllUsersStay ==
    ASSUME AnswerInv, QueueInv, Grown, setup' = setup, crossed \subseteq crossed',
           \A v \in Users \ crossed' : ReqSame(v) /\ ResSame(v) /\ CtlSame(v) /\ QrySame(v) /\ PcSame(v)
    PROVE  AnswerInv'
<1>1. ASSUME NEW v \in Users, v \notin crossed'
      PROVE  UserInv(v)'
  <2>1. UserInv(v)
    BY <1>1 DEF AnswerInv
  <2>2. ReqSame(v) /\ ResSame(v) /\ CtlSame(v) /\ QrySame(v) /\ PcSame(v)
    BY <1>1
  <2> QED BY <2>1, <2>2, UserStays
<1> QED BY <1>1 DEF AnswerInv

\* One entry of the list, or its end.
LEMMA InvSendListEntry ==
    ASSUME SetupAssumption, IInv, SendListEntry
    PROVE  IInv'
<1>1. /\ TableInv /\ QueueInv /\ ThreadInv /\ ProcInv /\ AnswerInv /\ MsgInv /\ MemberInv
  BY DEF IInv, Types
<1>2. PICK u \in Users : u = qry.src
  BY <1>1 DEF SendListEntry, ThreadInv, Idle
<1>3. qry.step = "list" /\ QryOf(u)
  BY <1>2 DEF SendListEntry, QryOf
<1>4. PICK i, type : i \in Nat \ {0} /\ qry = [step |-> "list", src |-> u, type |-> type, i |-> i]
  BY <1>1, <1>2, <1>3 DEF ThreadInv, Idle
<1>5. UNCHANGED <<setup, server_queue, clients, groups, grp, clt, ctl, procVars>> /\ Room(client_queue[u])
  BY <1>2 DEF SendListEntry
<1>6. \/ /\ qry' = [step |-> "respond", src |-> u, res |-> QueryResponse("_END_", "OK", 0)]
         /\ server' = server /\ client_queue' = client_queue
      \/ server' = "crashed" /\ qry' = qry /\ client_queue' = client_queue
      \/ /\ client_queue' = [client_queue EXCEPT ![u] = Append(@, QueryResponse("entry", "OK", 0))]
         /\ qry' = [qry EXCEPT !.i = @ + 1] /\ server' = server
  BY <1>2 DEF SendListEntry
<1>7. Grown
  BY <1>1, <1>5, GrownSame
<1>8. TableInv'
  BY <1>1, <1>5 DEF TableInv
<1>9. ProcInv' /\ crossed' = crossed /\ pc' = pc /\ target' = target
  BY <1>1, <1>5, ProcStays
<1>10. MsgInv' /\ MemberInv'
  BY <1>1, <1>5, <1>7, <1>9, MsgStays, MemberStays
<1>11. CASE /\ qry' = [step |-> "respond", src |-> u, res |-> QueryResponse("_END_", "OK", 0)]
            /\ server' = server /\ client_queue' = client_queue
  <2>1. PICK r : r = QueryResponse("_END_", "OK", 0)
    OBVIOUS
  <2>2. qry'.step = "respond" /\ qry'.src = u /\ qry'.res = r /\ r.mtype = "QUERY_RESPONSE" /\ r.kind = "_END_"
    BY <1>11, <2>1 DEF QueryResponse
  <2>3. QueueInv'
    BY <1>1, <1>5, <1>11 DEF QueueInv, SrvMsg, IsControl
  <2>4. ThreadInv'
    BY <1>1, <1>5, <1>7, <1>11, <2>2, GrpStays DEF ThreadInv
  <2>5. ASSUME NEW v \in Users, v \notin crossed'
        PROVE  UserInv(v)'
    <3>1. UserInv(v)
      BY <1>1, <1>9, <2>5 DEF AnswerInv
    <3>2. CASE v = u
      <4>1. PICK p \in Mine(u) :
                /\ pc[p] \in {"asking", "listing"}
                /\ Works(p) /\ NoRequest(u) /\ OnlyEntries(p) /\ Told(p)
        BY <1>3, <3>1, <3>2, QryOwner
      <4>2. Owner[p] = u /\ p \in Procs /\ pc[p] \in Waiting
        BY <4>1 DEF Mine, Waiting
      <4>3. pc[p] = "listing" /\ ~CtlOf(u)
        BY <1>3, <4>1, <4>2 DEF Works, QryWork
      <4>4. Works(p)'
        BY <1>5, <1>9, <2>2, <4>2, <4>3 DEF Works, QryWork, QryOf, CtlOf, Answers
      <4>5. NoRequest(u)' /\ OnlyEntries(p)'
        BY <1>5, <1>9, <1>11, <4>1, <4>2 DEF NoRequest, OnlyEntries, ReqOf, IsResponse, IsEntry
      <4>6. Token(p)'
        BY <4>2, <4>4, <4>5 DEF Token
      <4> QED BY <1>5, <1>7, <1>9, <3>1, <3>2, <4>2, <4>6, TokenMoves
    <3>3. CASE v # u
      <4>1. QrySame(v)
        BY <1>2, <2>2, <3>3 DEF QrySame, QryOf
      <4>2. ReqSame(v) /\ ResSame(v) /\ CtlSame(v) /\ PcSame(v) /\ setup' = setup
        BY <1>5, <1>9, <1>11 DEF ReqSame, ResSame, CtlSame, PcSame
      <4> QED BY <1>1, <1>7, <3>1, <4>1, <4>2, UserStays
    <3> QED BY <3>2, <3>3
  <2>6. AnswerInv'
    BY <2>5 DEF AnswerInv
  <2> QED BY <1>8, <1>9, <1>10, <2>3, <2>4, <2>6 DEF IInv, Types
<1>12. CASE server' = "crashed" /\ qry' = qry /\ client_queue' = client_queue
  <2>1. QueueInv'
    BY <1>1, <1>5, <1>12 DEF QueueInv, SrvMsg, IsControl
  <2>2. ThreadInv'
    BY <1>1, <1>5, <1>7, <1>12, GrpStays DEF ThreadInv
  <2>3. \A v \in Users : ReqSame(v) /\ ResSame(v) /\ CtlSame(v) /\ QrySame(v) /\ PcSame(v)
    BY <1>5, <1>9, <1>12 DEF ReqSame, ResSame, CtlSame, QrySame, PcSame
  <2>4. AnswerInv'
    BY <1>1, <1>5, <1>7, <1>9, <2>3, AllUsersStay
  <2> QED BY <1>8, <1>9, <1>10, <2>1, <2>2, <2>4 DEF IInv, Types
<1>13. CASE /\ client_queue' = [client_queue EXCEPT ![u] = Append(@, QueryResponse("entry", "OK", 0))]
            /\ qry' = [qry EXCEPT !.i = @ + 1] /\ server' = server
  <2>1. PICK r : r = QueryResponse("entry", "OK", 0)
    OBVIOUS
  <2>2. IsEntry(r) /\ r.mtype = "QUERY_RESPONSE"
    BY <2>1 DEF QueryResponse, IsEntry
  <2>3. qry' = [step |-> "list", src |-> u, type |-> type, i |-> i + 1]
    BY <1>4, <1>13
  <2>4. /\ qry'.step = "list" /\ qry'.src = u /\ qry'.i \in Nat \ {0}
        /\ qry' = [step |-> "list", src |-> qry'.src, type |-> qry'.type, i |-> qry'.i]
    BY <1>4, <2>3
  <2>5. /\ QueueInv' /\ client_queue'[u] = Append(client_queue[u], r)
        /\ \A v \in Users : v # u => client_queue'[v] = client_queue[v]
    BY <1>1, <1>5, <1>13, <2>1, ClientAppend
  <2>6. ThreadInv'
    BY <1>1, <1>5, <1>7, <1>13, <2>4, GrpStays DEF ThreadInv
  <2>7. ASSUME NEW v \in Users, v \notin crossed'
        PROVE  UserInv(v)'
    <3>1. UserInv(v)
      BY <1>1, <1>9, <2>7 DEF AnswerInv
    <3>2. CASE v = u
      <4>1. PICK p \in Mine(u) :
                /\ pc[p] \in {"asking", "listing"}
                /\ Works(p) /\ NoRequest(u) /\ OnlyEntries(p) /\ Told(p)
        BY <1>3, <3>1, <3>2, QryOwner
      <4>2. Owner[p] = u /\ p \in Procs /\ pc[p] \in Waiting
        BY <4>1 DEF Mine, Waiting
      <4>3. pc[p] = "listing" /\ ~CtlOf(u)
        BY <1>3, <4>1, <4>2 DEF Works, QryWork
      <4>4. Works(p)'
        BY <1>5, <1>9, <2>4, <4>2, <4>3 DEF Works, QryWork, QryOf, CtlOf
      <4>5. NoRequest(u)'
        BY <1>5, <4>1 DEF NoRequest, ReqOf
      <4>6. OnlyEntries(p)'
        <5>1. PICK q : q = client_queue[u]
          OBVIOUS
        <5>2. PICK s : s = client_queue'[u]
          OBVIOUS
        <5>3. q \in Seq(ToSet(q)) /\ s = Append(q, r)
          BY <1>1, <2>5, <5>1, <5>2 DEF QueueInv
        <5>4. \A j \in 1 .. Len(q) : IsResponse(q[j]) => IsEntry(q[j])
          BY <4>1, <4>2, <5>1 DEF OnlyEntries
        <5>5. \A j \in 1 .. Len(s) : IsResponse(s[j]) => IsEntry(s[j])
          BY <2>2, <5>3, <5>4, AppendSeq
        <5> QED BY <1>9, <4>2, <4>3, <5>2, <5>5 DEF OnlyEntries, IsResponse, IsEntry
      <4>7. Token(p)'
        BY <4>2, <4>4, <4>5, <4>6 DEF Token
      <4> QED BY <1>5, <1>7, <1>9, <3>1, <3>2, <4>2, <4>7, TokenMoves
    <3>3. CASE v # u
      <4>1. QrySame(v)
        BY <1>2, <2>4, <3>3 DEF QrySame, QryOf
      <4>2. ReqSame(v) /\ ResSame(v) /\ CtlSame(v) /\ PcSame(v) /\ setup' = setup
        BY <1>5, <1>9, <2>5, <3>3 DEF ReqSame, ResSame, CtlSame, PcSame
      <4> QED BY <1>1, <1>7, <3>1, <4>1, <4>2, UserStays
    <3> QED BY <3>2, <3>3
  <2>8. AnswerInv'
    BY <2>7 DEF AnswerInv
  <2> QED BY <1>8, <1>9, <1>10, <2>5, <2>6, <2>8 DEF IInv, Types
<1> QED BY <1>6, <1>11, <1>12, <1>13
-----------------------------------------------------------------------------
(* handle_group_send_msgs and handle_client_send_msgs.                     *)

\* num_clients of the group.
LEMMA InvTakeGroupMsg ==
    ASSUME SetupAssumption, IInv, TakeGroupMsg
    PROVE  IInv'
<1>1. /\ TableInv /\ QueueInv /\ ThreadInv /\ ProcInv /\ AnswerInv /\ MsgInv /\ MemberInv
      /\ server_queue \in Seq(ToSet(server_queue))
  BY DEF IInv, Types, QueueInv
<1>2. PICK k \in 1 .. Len(server_queue) :
          /\ IsGroupMsg(server_queue[k]) /\ First(server_queue, IsGroupMsg) = server_queue[k]
          /\ RemoveFirstMatch(server_queue, IsGroupMsg) = RemoveAt(server_queue, k)
  BY <1>1, FirstGroupMsg DEF TakeGroupMsg
<1>3. PICK m : m = server_queue[k]
  OBVIOUS
<1>4. /\ \/ server' = "crashed" /\ grp' = grp
         \/ grp' = Idle /\ server' = server
         \/ /\ find_group_by_id(m.dst) # NoGroup /\ server' = server /\ Members(m.dst) # <<>>
            /\ grp' = [step |-> "send", msg |-> m, i |-> 1, n |-> Len(Members(m.dst))]
      /\ server_queue' = RemoveAt(server_queue, k)
      /\ UNCHANGED <<setup, client_queue, clients, groups, clt, ctl, qry, procVars>>
  BY <1>2, <1>3 DEF TakeGroupMsg, Members
<1>5. Grown
  BY <1>1, <1>4, GrownSame
<1>6. TableInv'
  BY <1>1, <1>4 DEF TableInv
<1>7. QueueInv' /\ ToSet(server_queue') \subseteq ToSet(server_queue)
  BY <1>1, <1>4, ServerRemove
<1>8. ProcInv' /\ crossed' = crossed /\ pc' = pc /\ target' = target
  BY <1>1, <1>4, ProcStays
<1>9. MsgInv' /\ MemberInv'
  BY <1>1, <1>4, <1>5, <1>7, <1>8, MsgStays, MemberStays
<1>10. ThreadInv'
  <2>1. CASE server' = "crashed" /\ grp' = grp
    BY <1>1, <1>4, <1>5, <2>1, GrpStays DEF ThreadInv
  <2>2. CASE /\ find_group_by_id(m.dst) # NoGroup /\ server' = server /\ Members(m.dst) # <<>>
             /\ grp' = [step |-> "send", msg |-> m, i |-> 1, n |-> Len(Members(m.dst))]
    <3>1. PICK n : n = Len(Members(m.dst))
      OBVIOUS
    <3>2. n \in Nat /\ 1 \in 1 .. n
      <4>1. Members(m.dst) \in Seq(Users)
        BY <1>1, <2>2, GroupAt
      <4> QED BY <2>2, <3>1, <4>1
    <3>3. /\ grp' = [step |-> "send", msg |-> m, i |-> 1, n |-> n]
          /\ grp'.step = "send" /\ grp'.n = n /\ grp'.i = 1 /\ grp'.msg = m
      BY <2>2, <3>1
    <3>4. find_group_by_id(grp.msg.dst)' # NoGroup /\ n <= Len(Members(grp.msg.dst))'
      BY <1>4, <2>2, <3>1, <3>2, <3>3 DEF find_group_by_id, Members
    <3> QED BY <1>1, <1>4, <2>2, <3>2, <3>3, <3>4 DEF ThreadInv
  <2>3. CASE grp' = Idle /\ server' = server
    BY <1>1, <1>4, <2>3 DEF ThreadInv
  <2> QED BY <1>4, <2>1, <2>2, <2>3
<1>11. \A v \in Users : ReqSame(v) /\ ResSame(v) /\ CtlSame(v) /\ QrySame(v) /\ PcSame(v)
  <2>1. \A v \in Users : ~ReqOf(server_queue[k], v)
    BY <1>2 DEF ReqOf, IsGroupMsg
  <2> QED BY <1>4, <1>8, <2>1 DEF ReqSame, ResSame, CtlSame, QrySame, PcSame
<1>12. AnswerInv'
  BY <1>1, <1>4, <1>5, <1>8, <1>11, AllUsersStay
<1> QED BY <1>6, <1>7, <1>8, <1>9, <1>10, <1>12 DEF IInv, Types

\* One delivery to a member.
LEMMA InvForwardGroupMsg ==
    ASSUME SetupAssumption, IInv, ForwardGroupMsg
    PROVE  IInv'
<1>1. /\ TableInv /\ QueueInv /\ ThreadInv /\ ProcInv /\ AnswerInv /\ MsgInv /\ MemberInv
  BY DEF IInv, Types
<1>2. PICK m : m = Delivery(groups[grp.msg.dst + 1].members[grp.i], "GROUP_MESSAGE", grp.msg)
  OBVIOUS
<1>3. m.mtype = "deliver"
  BY <1>2 DEF Delivery
<1>4. /\ Room(server_queue) /\ server_queue' = Append(server_queue, m) /\ server' \in {"up", "crashed"}
      /\ grp.step = "send" /\ grp' = IF grp.i = grp.n THEN Idle ELSE [grp EXCEPT !.i = @ + 1]
      /\ UNCHANGED <<setup, client_queue, clients, groups, clt, ctl, qry, procVars>>
  BY <1>2 DEF ForwardGroupMsg
<1>5. Grown
  BY <1>1, <1>4, GrownSame
<1>6. TableInv'
  BY <1>1, <1>4 DEF TableInv
<1>7. QueueInv'
  <2>1. SrvMsg(m)
    BY <1>3 DEF SrvMsg, IsControl
  <2> QED BY <1>1, <1>4, <2>1, ServerAppend
<1>8. ProcInv' /\ crossed' = crossed /\ pc' = pc /\ target' = target
  BY <1>1, <1>4, ProcStays
<1>9. MsgInv'
  BY <1>1, <1>3, <1>4, <1>5, <1>8, MsgMore
<1>10. MemberInv'
  BY <1>1, <1>4, <1>5, <1>8, MemberStays
<1>11. ThreadInv'
  <2>1. CASE grp.i = grp.n
    BY <1>1, <1>4, <2>1 DEF ThreadInv
  <2>2. CASE grp.i # grp.n
    <3>1. PICK x, i, n : /\ grp = [step |-> "send", msg |-> x, i |-> i, n |-> n]
                         /\ grp.n = n /\ grp.i = i /\ grp.msg = x
      BY <1>1, <1>4 DEF ThreadInv, Idle
    <3>2. /\ n \in Nat /\ i \in 1 .. n /\ find_group_by_id(x.dst) # NoGroup /\ n <= Len(Members(x.dst))
      BY <1>1, <1>4, <3>1 DEF ThreadInv, Idle
    <3>3. grp' = [step |-> "send", msg |-> x, i |-> i + 1, n |-> n]
      BY <1>4, <2>2, <3>1
    <3>4. grp'.step = "send" /\ grp'.msg = x /\ grp'.i = i + 1 /\ grp'.n = n
      BY <3>3
    <3>5. i + 1 \in 1 .. n
      BY <2>2, <3>1, <3>2
    <3>6. find_group_by_id(grp.msg.dst)' # NoGroup /\ n <= Len(Members(grp.msg.dst))'
      BY <1>4, <3>2, <3>4 DEF find_group_by_id, Members
    <3> QED BY <1>1, <1>4, <3>2, <3>3, <3>4, <3>5, <3>6 DEF ThreadInv
  <2> QED BY <2>1, <2>2
<1>12. \A v \in Users : ReqSame(v) /\ ResSame(v) /\ CtlSame(v) /\ QrySame(v) /\ PcSame(v)
  <2>1. \A v \in Users : ~ReqOf(m, v)
    BY <1>3 DEF ReqOf
  <2> QED BY <1>4, <1>8, <2>1 DEF ReqSame, ResSame, CtlSame, QrySame, PcSame
<1>13. AnswerInv'
  BY <1>1, <1>4, <1>5, <1>8, <1>12, AllUsersStay
<1> QED BY <1>6, <1>7, <1>8, <1>9, <1>10, <1>11, <1>13 DEF IInv, Types

\* A message to one user is taken, ...
LEMMA InvTakeClientMsg ==
    ASSUME SetupAssumption, IInv, TakeClientMsg
    PROVE  IInv'
<1>1. /\ TableInv /\ QueueInv /\ ThreadInv /\ ProcInv /\ AnswerInv /\ MsgInv /\ MemberInv
      /\ server_queue \in Seq(ToSet(server_queue))
  BY DEF IInv, Types, QueueInv
<1>2. PICK k \in 1 .. Len(server_queue) :
          /\ IsClientMsg(server_queue[k]) /\ First(server_queue, IsClientMsg) = server_queue[k]
          /\ RemoveFirstMatch(server_queue, IsClientMsg) = RemoveAt(server_queue, k)
  BY <1>1, FirstClientMsg DEF TakeClientMsg
<1>3. /\ (server' = "crashed" /\ clt' = clt) \/ (server' = server /\ clt'.step = "send")
      /\ server_queue' = RemoveAt(server_queue, k)
      /\ UNCHANGED <<setup, client_queue, clients, groups, grp, ctl, qry, procVars>>
  BY <1>2 DEF TakeClientMsg
<1>4. Grown
  BY <1>1, <1>3, GrownSame
<1>5. TableInv'
  BY <1>1, <1>3 DEF TableInv
<1>6. QueueInv' /\ ToSet(server_queue') \subseteq ToSet(server_queue)
  BY <1>1, <1>3, ServerRemove
<1>7. ProcInv' /\ crossed' = crossed /\ pc' = pc /\ target' = target
  BY <1>1, <1>3, ProcStays
<1>8. MsgInv' /\ MemberInv'
  BY <1>1, <1>3, <1>4, <1>6, <1>7, MsgStays, MemberStays
<1>9. ThreadInv'
  BY <1>1, <1>3, <1>4, GrpStays DEF ThreadInv
<1>10. \A v \in Users : ReqSame(v) /\ ResSame(v) /\ CtlSame(v) /\ QrySame(v) /\ PcSame(v)
  <2>1. \A v \in Users : ~ReqOf(server_queue[k], v)
    BY <1>2 DEF ReqOf, IsClientMsg
  <2> QED BY <1>3, <1>7, <2>1 DEF ReqSame, ResSame, CtlSame, QrySame, PcSame
<1>11. AnswerInv'
  BY <1>1, <1>3, <1>4, <1>7, <1>10, AllUsersStay
<1> QED BY <1>5, <1>6, <1>7, <1>8, <1>9, <1>11 DEF IInv, Types

\* ... and delivered.
LEMMA InvForwardClientMsg ==
    ASSUME SetupAssumption, IInv, ForwardClientMsg
    PROVE  IInv'
<1>1. /\ TableInv /\ QueueInv /\ ThreadInv /\ ProcInv /\ AnswerInv /\ MsgInv /\ MemberInv
  BY DEF IInv, Types
<1>2. PICK m : m = Delivery(clt.msg.dst, "CLIENT_MESSAGE", clt.msg)
  OBVIOUS
<1>3. m.mtype = "deliver"
  BY <1>2 DEF Delivery
<1>4. /\ Room(server_queue) /\ server_queue' = Append(server_queue, m) /\ clt' = Idle
      /\ UNCHANGED <<setup, client_queue, clients, groups, server, grp, ctl, qry, procVars>>
  BY <1>2 DEF ForwardClientMsg
<1>5. Grown
  BY <1>1, <1>4, GrownSame
<1>6. TableInv'
  BY <1>1, <1>4 DEF TableInv
<1>7. QueueInv'
  <2>1. SrvMsg(m)
    BY <1>3 DEF SrvMsg, IsControl
  <2> QED BY <1>1, <1>4, <2>1, ServerAppend
<1>8. ProcInv' /\ crossed' = crossed /\ pc' = pc /\ target' = target
  BY <1>1, <1>4, ProcStays
<1>9. MsgInv'
  BY <1>1, <1>3, <1>4, <1>5, <1>8, MsgMore
<1>10. MemberInv'
  BY <1>1, <1>4, <1>5, <1>8, MemberStays
<1>11. ThreadInv'
  BY <1>1, <1>4, <1>5, GrpStays DEF ThreadInv
<1>12. \A v \in Users : ReqSame(v) /\ ResSame(v) /\ CtlSame(v) /\ QrySame(v) /\ PcSame(v)
  <2>1. \A v \in Users : ~ReqOf(m, v)
    BY <1>3 DEF ReqOf
  <2> QED BY <1>4, <1>8, <2>1 DEF ReqSame, ResSame, CtlSame, QrySame, PcSame
<1>13. AnswerInv'
  BY <1>1, <1>4, <1>5, <1>8, <1>12, AllUsersStay
<1> QED BY <1>6, <1>7, <1>8, <1>9, <1>10, <1>11, <1>13 DEF IInv, Types
-----------------------------------------------------------------------------
(* A client process.                                                       *)

\* What was told to a process that does nothing.
LEMMA ToldSame ==
    ASSUME Grown, setup' = setup, NEW p \in Procs, pc'[p] = pc[p], target'[p] = target[p], Told(p)
    PROVE  Told(p)'
<1>1. /\ \A gid, name : Named(gid, name) => Named(gid, name)'
      /\ \A v, gid : Member(v, gid) => Member(v, gid)'
      /\ \A kind, id, name : Found(kind, id, name) => Found(kind, id, name)'
      /\ \A id : Registered(id) => Registered(id)'
  BY GrownFacts DEF Grown
<1>2. cmd'[p] = cmd[p]
  BY DEF cmd
<1> QED BY <1>1, <1>2 DEF Told

\* What pc[p] says of p's command.
Runs(p, at) ==
    /\ at \in Requesting \cup Ended \cup Others
    /\ at # "off" => p \in DOMAIN cmd
    /\ at \in {"create", "creating", "created"} => cmd[p].op = "create"
    /\ at \in {"list", "listing"} => cmd[p].op = "list"
    /\ at \in {"ask", "asking"} => cmd[p].op \notin {"create", "list"}
    /\ at \in {"join", "joining", "joined"} => cmd[p].op = "join"

\* A process moves.
LEMMA ProcMoves ==
    ASSUME ProcInv, NEW p \in Procs, NEW at, Runs(p, at), pc' = [pc EXCEPT ![p] = at], setup' = setup,
           DOMAIN target' = Procs, DOMAIN router' = Procs, DOMAIN shown' = Procs,
           crossed' \subseteq Users, msgs' \in 0 .. setup.maxMsgs
    PROVE  ProcInv' /\ pc'[p] = at /\ \A q \in Procs : q # p => pc'[q] = pc[q]
<1>1. pc'[p] = at /\ \A q \in Procs : q # p => pc'[q] = pc[q]
  BY DEF ProcInv
<1>2. pc' \in [Procs -> Requesting \cup Ended \cup Others]
  BY DEF ProcInv, Runs
<1>3. \A q \in Procs : Runs(q, pc'[q])
  BY <1>1 DEF ProcInv, Runs
<1>4. cmd' = cmd
  BY DEF cmd
<1> QED BY <1>1, <1>2, <1>3, <1>4 DEF ProcInv, Runs

\* A process sends a request.
LEMMA ClientSends ==
    ASSUME SetupAssumption, IInv, NEW p \in Procs, NEW m, NEW next, Send(p, m, next),
           pc[p] \notin Waiting, pc[p] \in {"off"} \cup Requesting, next \in Waiting, Runs(p, next),
           m.mtype \in {"CONTROL", "QUERY_REQUEST"}, m.src = Owner[p], SrvMsg(m), Asks(p, m)',
           Owner[p] \notin crossed => Told(p)'
    PROVE  IInv'
<1>1. /\ TableInv /\ QueueInv /\ ThreadInv /\ ProcInv /\ AnswerInv /\ MsgInv /\ MemberInv
      /\ server_queue \in Seq(ToSet(server_queue))
  BY DEF IInv, Types, QueueInv
<1>2. PICK u \in Users : u = Owner[p]
  BY DEF SetupAssumption
<1>3. /\ Room(server_queue) /\ server_queue' = Append(server_queue, m)
      /\ pc' = [pc EXCEPT ![p] = next]
      /\ crossed' = IF Alongside(p) THEN crossed \cup {u} ELSE crossed
      /\ UNCHANGED <<setup, client_queue, target, router, msgs, shown>>
      /\ UNCHANGED <<clients, groups, server, grp, clt, ctl, qry>>
  BY <1>2 DEF Send, serverVars
<1>4. Grown
  BY <1>1, <1>3, GrownSame
<1>5. TableInv'
  BY <1>1, <1>3 DEF TableInv
<1>6. QueueInv'
  BY <1>1, <1>3, ServerAppend
<1>7. ProcInv' /\ pc'[p] = next /\ \A q \in Procs : q # p => pc'[q] = pc[q]
  <2>1. crossed' \subseteq Users
    BY <1>1, <1>3 DEF ProcInv
  <2>2. /\ DOMAIN target' = Procs /\ DOMAIN router' = Procs /\ DOMAIN shown' = Procs
        /\ msgs' \in 0 .. setup.maxMsgs /\ setup' = setup
    BY <1>1, <1>3 DEF ProcInv
  <2> QED BY <1>1, <1>3, <2>1, <2>2, ProcMoves
<1>8. ThreadInv'
  BY <1>1, <1>3, <1>4, GrpStays DEF ThreadInv
<1>9. crossed \subseteq crossed'
  BY <1>3
<1>10. MsgInv'
  BY <1>1, <1>3, <1>4, <1>9, MsgMore
<1>11. MemberInv'
  BY <1>1, <1>3, <1>4, <1>9, MemberStays
<1>12. ASSUME NEW v \in Users, v \notin crossed'
       PROVE  UserInv(v)'
  <2>1. UserInv(v)
    BY <1>1, <1>9, <1>12 DEF AnswerInv
  <2>2. CASE v # u
    <3>1. ReqSame(v)
      BY <1>2, <1>3, <2>2 DEF ReqSame, ReqOf
    <3>2. PcSame(v)
      BY <1>2, <1>3, <1>7, <2>2 DEF PcSame, Mine
    <3>3. ResSame(v) /\ CtlSame(v) /\ QrySame(v) /\ setup' = setup
      BY <1>3 DEF ResSame, CtlSame, QrySame
    <3> QED BY <1>1, <1>4, <2>1, <3>1, <3>2, <3>3, UserStays
  <2>3. CASE v = u
    <3>1. u \notin crossed /\ ~Alongside(p)
      BY <1>3, <1>12, <2>3
    <3>2. p \in Mine(u) /\ \A q \in Mine(u) : q \in Procs /\ Owner[q] = Owner[p]
      BY <1>2 DEF Mine
    <3>3. \A q \in Mine(u) : q # p => pc[q] \notin Requesting /\ pc'[q] = pc[q]
      BY <1>7, <3>1, <3>2 DEF Alongside
    <3>4. \A q \in Mine(u) : pc[q] \in Waiting => pc[q] \in Requesting
      BY DEF Waiting, Requesting
    <3>5. \A q \in Mine(u) : pc[q] \notin Waiting
      BY <3>3, <3>4
    <3>6. Calm(u)
      BY <2>1, <2>3, <3>5 DEF UserInv
    <3>7. NoWork(u)' /\ NoResponse(u)'
      BY <1>3, <3>6 DEF Calm, NoWork, NoResponse, CtlOf, QryOf, IsResponse
    <3>8. OneRequest(p)'
      <4>1. /\ Len(server_queue') = Len(server_queue) + 1 /\ Len(server_queue) \in Nat
            /\ server_queue'[Len(server_queue) + 1] = m
            /\ \A i \in 1 .. Len(server_queue) : server_queue'[i] = server_queue[i]
        BY <1>1, <1>3, AppendSeq
      <4>2. \A i \in 1 .. Len(server_queue) : ~ReqOf(server_queue[i], u)
        BY <3>6 DEF Calm, NoRequest
      <4>3. PICK n \in 1 .. Len(server_queue') : n = Len(server_queue) + 1
        BY <4>1
      <4>4. server_queue'[n] = m /\ \A j \in 1 .. Len(server_queue') : ReqOf(server_queue'[j], u) => j = n
        BY <4>1, <4>2, <4>3
      <4>5. ReqOf(m, u)
        BY <1>2 DEF ReqOf
      <4> QED BY <1>2, <4>4, <4>5 DEF OneRequest, ReqOf
    <3>9. Token(p)'
      BY <1>2, <3>7, <3>8 DEF Token
    <3>10. \A q \in Mine(u) : Told(q)'
      <4>1. TAKE q \in Mine(u)
      <4>2. CASE q = p
        BY <1>2, <3>1, <4>2
      <4>3. CASE q # p
        BY <1>3, <1>4, <2>1, <2>3, <3>2, <3>3, <4>3, ToldSame DEF UserInv
      <4> QED BY <4>2, <4>3
    <3>11. \A q \in Mine(u) : pc'[q] \in Requesting => q = p
      BY <3>3
    <3>12. \A q \in Mine(u) : pc'[q] \in Waiting => q = p
      BY <3>3, <3>5
    <3>13. ~(\A q \in Mine(u) : pc'[q] \notin Waiting)
      BY <1>7, <3>2
    <3>14. UserInv(u)'
      BY <3>9, <3>10, <3>11, <3>12, <3>13 DEF UserInv, Mine
    <3> QED BY <2>3, <3>14
  <2> QED BY <2>2, <2>3
<1>13. AnswerInv'
  BY <1>12 DEF AnswerInv
<1> QED BY <1>5, <1>6, <1>7, <1>8, <1>10, <1>11, <1>13 DEF IInv, Types

\* The first response of the right type: the answer, with nothing after it, or an entry of
\* the list.
LEMMA Received ==
    ASSUME NEW u, UserInv(u), NEW p \in Mine(u), pc[p] \in Waiting,
           NEW q, q = client_queue[u], NEW k \in 1 .. Len(q), NEW type, q[k].mtype = type,
           type \in {"CONTROL_RESPONSE", "QUERY_RESPONSE"},
           \A j \in 1 .. Len(q) : q[j].mtype = type => k <= j
    PROVE  \/ /\ Answers(p, q[k]) /\ NoRequest(u) /\ NoWork(u)
              /\ \A j \in 1 .. Len(q) : IsResponse(q[j]) => j = k
           \/ pc[p] = "listing" /\ IsEntry(q[k])
<1>1. Token(p) /\ Owner[p] = u
  BY DEF UserInv, Mine
<1>2. IsResponse(q[k])
  BY DEF IsResponse
<1>3. ~NoResponse(u)
  BY <1>2 DEF NoResponse
<1>4. CASE OnlyEntries(p)
  BY <1>1, <1>2, <1>4 DEF OnlyEntries
<1>5. CASE NoRequest(u) /\ NoWork(u) /\ OneResponse(p)
  <2>1. PICK i \in 1 .. Len(q) :
          /\ IsResponse(q[i]) /\ Answers(p, q[i])
          /\ \A j \in 1 .. Len(q) : IsResponse(q[j]) => j = i \/ (j < i /\ pc[p] = "listing" /\ IsEntry(q[j]))
    BY <1>1, <1>5 DEF OneResponse
  <2>2. CASE k # i
    BY <1>2, <2>1, <2>2
  <2>3. CASE k = i
    <3>1. ASSUME NEW j \in 1 .. Len(q), IsResponse(q[j]), j # k
          PROVE  FALSE
      <4>1. j < k /\ pc[p] = "listing" /\ IsEntry(q[j])
        BY <2>1, <2>3, <3>1
      <4>2. q[j].mtype = "QUERY_RESPONSE" /\ q[k].mtype = "QUERY_RESPONSE"
        BY <2>1, <2>3, <4>1 DEF IsEntry, Answers
      <4>3. k <= j
        BY <4>2
      <4> QED BY <4>1, <4>3
    <3> QED BY <1>5, <2>1, <2>3, <3>1
  <2> QED BY <2>2, <2>3
<1> QED BY <1>1, <1>3, <1>4, <1>5 DEF Token

\* A process has its answer.
LEMMA ClientReceives ==
    ASSUME SetupAssumption, IInv, NEW p \in Procs, NEW k \in 1 .. Len(client_queue[Owner[p]]), NEW next,
           client_queue' = [client_queue EXCEPT ![Owner[p]] = RemoveAt(client_queue[Owner[p]], k)],
           pc' = [pc EXCEPT ![p] = next], pc[p] \in Waiting, next \notin Waiting, Runs(p, next),
           DOMAIN target' = Procs, \A q \in Procs : q # p => target'[q] = target[q],
           UNCHANGED <<setup, server_queue, serverVars, router, msgs, shown, crossed>>,
           Owner[p] \notin crossed =>
               /\ Told(p)' /\ NoRequest(Owner[p]) /\ NoWork(Owner[p])
               /\ \A j \in 1 .. Len(client_queue[Owner[p]]) : IsResponse(client_queue[Owner[p]][j]) => j = k
    PROVE  IInv'
<1>1. /\ TableInv /\ QueueInv /\ ThreadInv /\ ProcInv /\ AnswerInv /\ MsgInv /\ MemberInv
  BY DEF IInv, Types
<1>2. PICK u \in Users : u = Owner[p]
  BY DEF SetupAssumption
<1>3. UNCHANGED <<setup, server_queue, clients, groups, server, grp, clt, ctl, qry, router, msgs, shown, crossed>>
  BY DEF serverVars
<1>4. Grown
  BY <1>1, <1>3, GrownSame
<1>5. TableInv'
  BY <1>1, <1>3 DEF TableInv
<1>6. /\ QueueInv' /\ client_queue'[u] = RemoveAt(client_queue[u], k)
      /\ \A v \in Users : v # u => client_queue'[v] = client_queue[v]
  BY <1>1, <1>2, <1>3, ClientRemove
<1>7. ProcInv' /\ pc'[p] = next /\ \A q \in Procs : q # p => pc'[q] = pc[q]
  <2>1. crossed' \subseteq Users
    BY <1>1, <1>3 DEF ProcInv
  <2>2. /\ DOMAIN target' = Procs /\ DOMAIN router' = Procs /\ DOMAIN shown' = Procs
        /\ msgs' \in 0 .. setup.maxMsgs /\ setup' = setup
    BY <1>1, <1>3 DEF ProcInv
  <2> QED BY <1>1, <2>1, <2>2, ProcMoves
<1>8. ThreadInv'
  BY <1>1, <1>3, <1>4, GrpStays DEF ThreadInv
<1>9. MsgInv' /\ MemberInv'
  BY <1>1, <1>3, <1>4, MsgStays, MemberStays
<1>10. ASSUME NEW v \in Users, v \notin crossed'
       PROVE  UserInv(v)'
  <2>1. UserInv(v)
    BY <1>1, <1>3, <1>10 DEF AnswerInv
  <2>2. CASE v # u
    <3>1. ReqSame(v) /\ ResSame(v) /\ CtlSame(v) /\ QrySame(v) /\ setup' = setup
      BY <1>3, <1>6, <2>2 DEF ReqSame, ResSame, CtlSame, QrySame
    <3>2. PcSame(v)
      BY <1>2, <1>7, <2>2 DEF PcSame, Mine
    <3> QED BY <1>1, <1>4, <2>1, <3>1, <3>2, UserStays
  <2>3. CASE v = u
    <3>1. /\ Told(p)' /\ NoRequest(u) /\ NoWork(u)
          /\ \A j \in 1 .. Len(client_queue[u]) : IsResponse(client_queue[u][j]) => j = k
      BY <1>2, <1>3, <1>10, <2>3
    <3>2. p \in Mine(u) /\ \A q \in Mine(u) : q \in Procs
      BY <1>2 DEF Mine
    <3>3. pc[p] \in Requesting /\ \A q \in Mine(u) : pc[q] \in Waiting => pc[q] \in Requesting
      BY DEF Waiting, Requesting
    <3>4. \A q \in Mine(u) : q # p => pc[q] \notin Requesting
      BY <2>1, <2>3, <3>2, <3>3 DEF UserInv
    <3>5. \A q \in Mine(u) : pc'[q] \notin Waiting
      BY <1>7, <3>2, <3>3, <3>4
    <3>6. \A q \in Mine(u) : pc'[q] \in Requesting => q = p
      BY <1>7, <3>2, <3>4
    <3>7. NoRequest(u)' /\ NoWork(u)'
      BY <1>3, <3>1 DEF NoRequest, NoWork, ReqOf, CtlOf, QryOf
    <3>8. NoResponse(u)'
      <4>1. PICK q : q = client_queue[u]
        OBVIOUS
      <4>2. PICK r : r = client_queue'[u]
        OBVIOUS
      <4>3. q \in Seq(ToSet(q)) /\ r = RemoveAt(q, k) /\ k \in 1 .. Len(q)
        BY <1>1, <1>2, <1>6, <4>1, <4>2 DEF QueueInv
      <4>4. \A j \in 1 .. Len(r) : \E h \in 1 .. Len(q) : r[j] = q[h] /\ h # k
        BY <4>3, RemoveFrom
      <4>5. \A j \in 1 .. Len(r) : ~IsResponse(r[j])
        BY <3>1, <4>1, <4>4
      <4> QED BY <4>2, <4>5 DEF NoResponse, IsResponse
    <3>9. \A q \in Mine(u) : Told(q)'
      <4>1. TAKE q \in Mine(u)
      <4>2. CASE q = p
        BY <3>1, <4>2
      <4>3. CASE q # p
        BY <1>3, <1>4, <1>7, <2>1, <2>3, <3>2, <4>3, ToldSame DEF UserInv
      <4> QED BY <4>2, <4>3
    <3>10. UserInv(u)'
      BY <3>5, <3>6, <3>7, <3>8, <3>9 DEF UserInv, Calm, Mine
    <3> QED BY <2>3, <3>10
  <2> QED BY <2>2, <2>3
<1>11. AnswerInv'
  BY <1>10 DEF AnswerInv
<1> QED BY <1>5, <1>6, <1>7, <1>8, <1>9, <1>11 DEF IInv, Types

\* main: register_self.
LEMMA InvStart ==
    ASSUME SetupAssumption, IInv, NEW p \in Procs, Start(p)
    PROVE  IInv'
<1>1. PICK m : m = Control(p, "REGISTER_CLIENT", NotFound)
  OBVIOUS
<1>2. m.mtype = "CONTROL" /\ m.src = Owner[p] /\ m.action = "REGISTER_CLIENT" /\ Owner[p] \in Users
  BY <1>1 DEF Control, SetupAssumption
<1>3. Send(p, m, "registering") /\ pc[p] = "off" /\ p \in DOMAIN cmd
  BY <1>1 DEF Start
<1>4. pc'[p] = "registering"
  BY <1>3 DEF Send, IInv, Types, ProcInv
<1>5. Runs(p, "registering") /\ "registering" \in Waiting /\ "off" \notin Waiting
  BY <1>3 DEF Runs, Requesting, Waiting
<1>6. SrvMsg(m)
  BY <1>2 DEF SrvMsg, IsControl
<1>7. Asks(p, m)'
  BY <1>2, <1>4 DEF Asks, IsControl, Expected
<1>8. Told(p)'
  BY <1>4 DEF Told
<1> QED BY <1>2, <1>3, <1>5, <1>6, <1>7, <1>8, ClientSends

\* What a running process knows: the user is registered, once it is past register_self.
LEMMA Known ==
    ASSUME SetupAssumption, IInv, NEW p \in Procs
    PROVE  /\ Owner[p] \in Users /\ Runs(p, pc[p])
           /\ pc[p] # "off" => cmd[p] \in Command
           /\ cmd[p].op = "create" /\ pc[p] # "off" => cmd[p].name \in GroupNames
           /\ Owner[p] \notin crossed => Told(p) /\ p \in Mine(Owner[p]) /\ UserInv(Owner[p])
<1>1. Owner[p] \in Users
  BY DEF SetupAssumption
<1>2. ProcInv
  BY DEF IInv, Types
<1>3. Runs(p, pc[p])
  BY <1>2 DEF ProcInv, Runs
<1>4. pc[p] # "off" => cmd[p] \in Command /\ (cmd[p].op = "create" => cmd[p].name \in GroupNames)
  BY <1>2, CmdType
<1>5. Owner[p] \notin crossed => Told(p) /\ p \in Mine(Owner[p]) /\ UserInv(Owner[p])
  BY <1>1 DEF IInv, AnswerInv, UserInv, Mine
<1> QED BY <1>1, <1>3, <1>4, <1>5

\* The tables, the commands and the targets stay when a process sends.
LEMMA SendFrame ==
    ASSUME SetupAssumption, IInv, NEW p \in Procs, NEW m, NEW next, Send(p, m, next)
    PROVE  /\ pc'[p] = next /\ target' = target /\ cmd' = cmd /\ setup' = setup
           /\ \A gid, name : Named(gid, name) => Named(gid, name)'
           /\ \A id : Registered(id) => Registered(id)'
<1>1. clients' = clients /\ groups' = groups /\ target' = target /\ setup' = setup /\ pc' = [pc EXCEPT ![p] = next]
  BY DEF Send, serverVars
<1>2. pc'[p] = next
  BY <1>1 DEF IInv, Types, ProcInv
<1>3. Grown
  BY <1>1, GrownSame DEF IInv, Types
<1>4. \A id : Registered(id) => Registered(id)'
  BY <1>3 DEF Grown
<1> QED BY <1>1, <1>2, <1>3, <1>4, GrownFacts DEF cmd

\* get_gid and get_cid ask.
LEMMA InvAskName ==
    ASSUME SetupAssumption, IInv, NEW p \in Procs, AskName(p)
    PROVE  IInv'
<1>1. PICK m : m = Query(p, cmd[p].kind, cmd[p].name)
  OBVIOUS
<1>2. /\ m.mtype = "QUERY_REQUEST" /\ m.src = Owner[p]
      /\ m.query_type = cmd[p].kind /\ m.content = cmd[p].name
  BY <1>1 DEF Query
<1>3. Send(p, m, "asking") /\ pc[p] = "ask"
  BY <1>1 DEF AskName
<1>4. /\ pc'[p] = "asking" /\ target' = target /\ cmd' = cmd
      /\ \A id : Registered(id) => Registered(id)'
  BY <1>3, SendFrame
<1>5. Owner[p] \in Users /\ Runs(p, "ask") /\ (Owner[p] \notin crossed => Told(p))
  BY <1>3, Known
<1>6. Runs(p, "asking") /\ "asking" \in Waiting /\ "ask" \notin Waiting /\ "ask" \in Requesting
  BY <1>5 DEF Runs, Requesting, Waiting
<1>7. SrvMsg(m)
  BY <1>2, <1>5 DEF SrvMsg, IsControl
<1>8. Asks(p, m)'
  BY <1>2, <1>4 DEF Asks, IsQuery
<1>9. Owner[p] \notin crossed => Told(p)'
  BY <1>3, <1>4, <1>5 DEF Told
<1> QED BY <1>2, <1>3, <1>6, <1>7, <1>8, <1>9, ClientSends

\* join_group asks.
LEMMA InvRequestJoin ==
    ASSUME SetupAssumption, IInv, NEW p \in Procs, RequestJoin(p)
    PROVE  IInv'
<1>1. PICK m : m = Control(p, "JOIN_GROUP", target[p])
  OBVIOUS
<1>2. m.mtype = "CONTROL" /\ m.src = Owner[p] /\ m.action = "JOIN_GROUP" /\ m.arg = target[p]
  BY <1>1 DEF Control
<1>3. Send(p, m, "joining") /\ pc[p] = "join"
  BY <1>1 DEF RequestJoin
<1>4. /\ pc'[p] = "joining" /\ target' = target /\ cmd' = cmd
      /\ \A gid, name : Named(gid, name) => Named(gid, name)'
      /\ \A id : Registered(id) => Registered(id)'
  BY <1>3, SendFrame
<1>5. Owner[p] \in Users /\ Runs(p, "join") /\ (Owner[p] \notin crossed => Told(p))
  BY <1>3, Known
<1>6. Runs(p, "joining") /\ "joining" \in Waiting /\ "join" \notin Waiting /\ "join" \in Requesting
  BY <1>5 DEF Runs, Requesting, Waiting
<1>7. SrvMsg(m)
  BY <1>2, <1>5 DEF SrvMsg, IsControl
<1>8. Asks(p, m)'
  BY <1>2, <1>4 DEF Asks, IsControl, Expected
<1>9. Owner[p] \notin crossed => Told(p)'
  BY <1>3, <1>4, <1>5 DEF Told
<1> QED BY <1>2, <1>3, <1>6, <1>7, <1>8, <1>9, ClientSends

\* create_group asks.
LEMMA InvRequestCreate ==
    ASSUME SetupAssumption, IInv, NEW p \in Procs, RequestCreate(p)
    PROVE  IInv'
<1>1. PICK m : m = Control(p, "CREATE_GROUP", cmd[p].name)
  OBVIOUS
<1>2. m.mtype = "CONTROL" /\ m.src = Owner[p] /\ m.action = "CREATE_GROUP" /\ m.arg = cmd[p].name
  BY <1>1 DEF Control
<1>3. Send(p, m, "creating") /\ pc[p] = "create"
  BY <1>1 DEF RequestCreate
<1>4. /\ pc'[p] = "creating" /\ target' = target /\ cmd' = cmd
      /\ \A id : Registered(id) => Registered(id)'
  BY <1>3, SendFrame
<1>5. Owner[p] \in Users /\ Runs(p, "create") /\ (Owner[p] \notin crossed => Told(p))
  BY <1>3, Known
<1>6. Runs(p, "creating") /\ "creating" \in Waiting /\ "create" \notin Waiting /\ "create" \in Requesting
  BY <1>5 DEF Runs, Requesting, Waiting
<1>7. cmd[p].name \in GroupNames
  BY <1>3, <1>5, Known DEF Runs
<1>8. SrvMsg(m)
  BY <1>2, <1>5, <1>7 DEF SrvMsg
<1>9. Asks(p, m)'
  BY <1>2, <1>4 DEF Asks, IsControl, Expected
<1>10. Owner[p] \notin crossed => Told(p)'
  BY <1>3, <1>4, <1>5 DEF Told
<1> QED BY <1>2, <1>3, <1>6, <1>8, <1>9, <1>10, ClientSends

\* list_query asks.
LEMMA InvRequestList ==
    ASSUME SetupAssumption, IInv, NEW p \in Procs, RequestList(p)
    PROVE  IInv'
<1>1. PICK m : m = Query(p, cmd[p].kind, "_ALL_")
  OBVIOUS
<1>2. m.mtype = "QUERY_REQUEST" /\ m.src = Owner[p] /\ m.content = "_ALL_"
  BY <1>1 DEF Query
<1>3. Send(p, m, "listing") /\ pc[p] = "list"
  BY <1>1 DEF RequestList
<1>4. /\ pc'[p] = "listing" /\ target' = target /\ cmd' = cmd
      /\ \A id : Registered(id) => Registered(id)'
  BY <1>3, SendFrame
<1>5. Owner[p] \in Users /\ Runs(p, "list") /\ (Owner[p] \notin crossed => Told(p))
  BY <1>3, Known
<1>6. Runs(p, "listing") /\ "listing" \in Waiting /\ "list" \notin Waiting /\ "list" \in Requesting
  BY <1>5 DEF Runs, Requesting, Waiting
<1>7. SrvMsg(m)
  BY <1>2, <1>5 DEF SrvMsg, IsControl
<1>8. Asks(p, m)'
  BY <1>2, <1>4 DEF Asks, IsQuery
<1>9. Owner[p] \notin crossed => Told(p)'
  BY <1>3, <1>4, <1>5 DEF Told
<1> QED BY <1>2, <1>3, <1>6, <1>7, <1>8, <1>9, ClientSends

\* p takes the response at position k of its user's queue q: the first of its type, and the
\* last answer to p's request unless it is an entry of a list.
Took(p, q, k, type) ==
    LET Is(m) == m.mtype = type IN
    /\ q[k].mtype = type /\ First(q, Is) = q[k]
    /\ client_queue' = [client_queue EXCEPT ![Owner[p]] = RemoveAt(q, k)]
    /\ Owner[p] \notin crossed =>
         \/ /\ Answers(p, q[k]) /\ NoRequest(Owner[p]) /\ NoWork(Owner[p])
            /\ \A j \in 1 .. Len(q) : IsResponse(q[j]) => j = k
         \/ pc[p] = "listing" /\ IsEntry(q[k])

\* The step in which a process receives a response.
LEMMA ReceiveFrame ==
    ASSUME SetupAssumption, IInv, NEW p \in Procs, NEW next, NEW type, ReceiveResponse(p, type, next),
           type \in {"CONTROL_RESPONSE", "QUERY_RESPONSE"}, pc[p] \in Waiting
    PROVE  /\ \E k \in 1 .. Len(client_queue[Owner[p]]) : Took(p, client_queue[Owner[p]], k, type)
           /\ UNCHANGED <<setup, server_queue, serverVars, router, msgs, shown, crossed>>
           /\ pc' = [pc EXCEPT ![p] = next] /\ pc'[p] = next /\ cmd' = cmd
           /\ \A gid, name : Named(gid, name) => Named(gid, name)'
           /\ \A u, gid : Member(u, gid) => Member(u, gid)'
           /\ \A kind, id, name : Found(kind, id, name) => Found(kind, id, name)'
           /\ \A id : Registered(id) => Registered(id)'
<1>1. PICK q : q = client_queue[Owner[p]]
  OBVIOUS
<1>2. q \in Seq(ToSet(q)) /\ Owner[p] \in Users
  BY <1>1 DEF IInv, Types, QueueInv, SetupAssumption
<1>3. LET Is(m) == m.mtype = type IN
      /\ Has(q, Is) /\ client_queue' = [client_queue EXCEPT ![Owner[p]] = RemoveFirstMatch(q, Is)]
  BY <1>1 DEF ReceiveResponse
<1>4. LET Is(m) == m.mtype = type IN
      \E k \in 1 .. Len(q) : /\ q[k].mtype = type
                             /\ \A j \in 1 .. Len(q) : q[j].mtype = type => k <= j
                             /\ First(q, Is) = q[k] /\ RemoveFirstMatch(q, Is) = RemoveAt(q, k)
  BY <1>2, <1>3, FirstResponse
<1>5. /\ UNCHANGED <<setup, server_queue, serverVars, router, msgs, shown, crossed>>
      /\ pc' = [pc EXCEPT ![p] = next]
  BY DEF ReceiveResponse
<1>6. pc'[p] = next
  BY <1>5 DEF IInv, Types, ProcInv
<1>7. Grown
  BY <1>5, GrownSame DEF IInv, Types, serverVars
<1>8. \A id : Registered(id) => Registered(id)'
  BY <1>7 DEF Grown
<1>9. cmd' = cmd
  BY <1>5 DEF cmd
<1>10. \E k \in 1 .. Len(q) : Took(p, q, k, type)
  <2> DEFINE Is(m) == m.mtype = type
  <2>1. PICK k \in 1 .. Len(q) :
            /\ q[k].mtype = type
            /\ \A j \in 1 .. Len(q) : q[j].mtype = type => k <= j
            /\ First(q, Is) = q[k] /\ RemoveFirstMatch(q, Is) = RemoveAt(q, k)
    BY <1>4
  <2>2. client_queue' = [client_queue EXCEPT ![Owner[p]] = RemoveAt(q, k)]
    BY <1>3, <2>1
  <2>3. Owner[p] \notin crossed =>
                      \/ /\ Answers(p, q[k]) /\ NoRequest(Owner[p]) /\ NoWork(Owner[p])
                         /\ \A j \in 1 .. Len(q) : IsResponse(q[j]) => j = k
                      \/ pc[p] = "listing" /\ IsEntry(q[k])
    BY <1>1, <2>1, Known, Received
  <2>4. Took(p, q, k, type)
    BY <2>1, <2>2, <2>3 DEF Took
  <2> QED BY <2>4
<1> QED BY <1>1, <1>5, <1>6, <1>7, <1>8, <1>9, <1>10, GrownFacts

\* register_self has its response.
LEMMA InvRegisterDone ==
    ASSUME SetupAssumption, IInv, NEW p \in Procs, RegisterDone(p)
    PROVE  IInv'
<1>1. PICK next : next = IF cmd[p].op \in {"create", "list"} THEN cmd[p].op ELSE "ask"
  OBVIOUS
<1>2. ReceiveResponse(p, "CONTROL_RESPONSE", next) /\ pc[p] = "registering" /\ target' = target
  BY <1>1 DEF RegisterDone
<1>3. PICK q : q = client_queue[Owner[p]]
  OBVIOUS
<1>4. pc[p] \in Waiting
  BY <1>2 DEF Waiting
<1>5. PICK k \in 1 .. Len(q) : Took(p, q, k, "CONTROL_RESPONSE")
  BY <1>2, <1>3, <1>4, ReceiveFrame
<1>5a. /\ client_queue' = [client_queue EXCEPT ![Owner[p]] = RemoveAt(q, k)]
       /\ Owner[p] \notin crossed =>
             /\ Answers(p, q[k]) /\ NoRequest(Owner[p]) /\ NoWork(Owner[p])
             /\ \A j \in 1 .. Len(q) : IsResponse(q[j]) => j = k
  BY <1>2, <1>5 DEF Took
<1>6. /\ UNCHANGED <<setup, server_queue, serverVars, router, msgs, shown, crossed>>
      /\ pc' = [pc EXCEPT ![p] = next] /\ pc'[p] = next /\ cmd' = cmd
      /\ \A id : Registered(id) => Registered(id)'
  BY <1>2, <1>4, ReceiveFrame
<1>7. next \in {"create", "list", "ask"} /\ next \notin Waiting
  BY <1>1 DEF Waiting
<1>8. Runs(p, next)
  BY <1>1, <1>2, Known DEF Runs, Requesting
<1>9. Owner[p] \notin crossed => Told(p)'
  BY <1>2, <1>5, <1>5a, <1>6, <1>7 DEF Told, Answers
<1>10. DOMAIN target' = Procs /\ \A r \in Procs : r # p => target'[r] = target[r]
  BY <1>2 DEF IInv, Types, ProcInv
<1> QED BY <1>3, <1>4, <1>5, <1>5a, <1>6, <1>7, <1>8, <1>9, <1>10, ClientReceives

\* get_gid and get_cid have theirs.
LEMMA InvGetName ==
    ASSUME SetupAssumption, IInv, NEW p \in Procs, GetName(p)
    PROVE  IInv'
<1> DEFINE Is(m) == m.mtype = "QUERY_RESPONSE"
<1>1. PICK q : q = client_queue[Owner[p]]
  OBVIOUS
<1>2. PICK r : r = First(q, Is)
  OBVIOUS
<1>3. PICK id : id = IF r.status = "ERROR" THEN NotFound ELSE r.id
  OBVIOUS
<1>4. PICK next : next = CASE cmd[p].op = "join" -> (IF id = NotFound THEN "failed" ELSE "join")
                          [] cmd[p].op = "read" -> "reading"
                          [] OTHER -> "sending"
  OBVIOUS
<1>5. ReceiveResponse(p, "QUERY_RESPONSE", next) /\ pc[p] = "asking" /\ target' = [target EXCEPT ![p] = id]
  BY <1>1, <1>2, <1>3, <1>4 DEF GetName
<1>6. pc[p] \in Waiting
  BY <1>5 DEF Waiting
<1>7. PICK k \in 1 .. Len(q) : Took(p, q, k, "QUERY_RESPONSE")
  BY <1>1, <1>5, <1>6, ReceiveFrame
<1>7a. /\ First(q, Is) = q[k]
       /\ client_queue' = [client_queue EXCEPT ![Owner[p]] = RemoveAt(q, k)]
       /\ Owner[p] \notin crossed =>
             /\ Answers(p, q[k]) /\ NoRequest(Owner[p]) /\ NoWork(Owner[p])
             /\ \A j \in 1 .. Len(q) : IsResponse(q[j]) => j = k
  BY <1>5, <1>7 DEF Took
<1>8. /\ UNCHANGED <<setup, server_queue, serverVars, router, msgs, shown, crossed>>
      /\ pc' = [pc EXCEPT ![p] = next] /\ pc'[p] = next /\ cmd' = cmd
      /\ \A gid, name : Named(gid, name) => Named(gid, name)'
      /\ \A kind, i, name : Found(kind, i, name) => Found(kind, i, name)'
      /\ \A i : Registered(i) => Registered(i)'
  BY <1>5, <1>6, ReceiveFrame
<1>9. /\ next \in {"failed", "join", "reading", "sending"} /\ next \notin Waiting
      /\ next = "join" => cmd[p].op = "join" /\ id # NotFound
  BY <1>4 DEF Waiting
<1>10. p \in DOMAIN cmd /\ cmd[p] \in Command /\ (Owner[p] \notin crossed => Told(p))
  BY <1>5, Known DEF Runs
<1>11. Runs(p, next)
  BY <1>9, <1>10 DEF Runs, Requesting, Ended, Others
<1>12. DOMAIN target' = Procs /\ target'[p] = id /\ \A x \in Procs : x # p => target'[x] = target[x]
  BY <1>5 DEF IInv, Types, ProcInv
<1>13. Owner[p] \notin crossed => Told(p)'
  <2> SUFFICES ASSUME Owner[p] \notin crossed
               PROVE  Told(p)'
    OBVIOUS
  <2>1. r.status \in {"OK", "ERROR"} /\ (r.status = "OK" => Found(cmd[p].kind, r.id, cmd[p].name))
    BY <1>2, <1>5, <1>7, <1>7a DEF Answers
  <2>2. id = NotFound \/ Found(cmd[p].kind, id, cmd[p].name)
    BY <1>3, <2>1
  <2>3. Registered(Owner[p])'
    BY <1>5, <1>8, <1>10 DEF Told
  <2>4. id = NotFound \/ Found(cmd[p].kind, id, cmd[p].name)'
    BY <1>8, <2>2
  <2>5. next = "join" => Named(id, cmd[p].name)'
    <3>1. SUFFICES ASSUME next = "join"
                   PROVE  Named(id, cmd[p].name)'
      OBVIOUS
    <3>2. PICK c \in Command : c = cmd[p]
      BY <1>10
    <3>3. c.op = "join" => c.kind # "client"
      BY DEF Command
    <3>4. Named(id, c.name)
      BY <1>9, <2>2, <3>1, <3>2, <3>3 DEF Found
    <3>5. Named(id, c.name)'
      BY <1>8, <3>4
    <3> QED BY <1>8, <3>2, <3>5
  <2> QED BY <1>8, <1>9, <1>12, <2>3, <2>4, <2>5 DEF Told
<1> QED BY <1>1, <1>6, <1>7, <1>7a, <1>8, <1>9, <1>11, <1>12, <1>13, ClientReceives

\* join_group has its response.
LEMMA InvJoinDone ==
    ASSUME SetupAssumption, IInv, NEW p \in Procs, JoinDone(p)
    PROVE  IInv'
<1>1. ReceiveResponse(p, "CONTROL_RESPONSE", "joined") /\ pc[p] = "joining" /\ target' = target
  BY DEF JoinDone
<1>2. PICK q : q = client_queue[Owner[p]]
  OBVIOUS
<1>3. pc[p] \in Waiting
  BY <1>1 DEF Waiting
<1>4. PICK k \in 1 .. Len(q) : Took(p, q, k, "CONTROL_RESPONSE")
  BY <1>1, <1>2, <1>3, ReceiveFrame
<1>4a. /\ client_queue' = [client_queue EXCEPT ![Owner[p]] = RemoveAt(q, k)]
       /\ Owner[p] \notin crossed =>
             /\ Answers(p, q[k]) /\ NoRequest(Owner[p]) /\ NoWork(Owner[p])
             /\ \A j \in 1 .. Len(q) : IsResponse(q[j]) => j = k
  BY <1>1, <1>4 DEF Took
<1>5. /\ UNCHANGED <<setup, server_queue, serverVars, router, msgs, shown, crossed>>
      /\ pc' = [pc EXCEPT ![p] = "joined"] /\ pc'[p] = "joined" /\ cmd' = cmd
      /\ \A gid, name : Named(gid, name) => Named(gid, name)'
      /\ \A u, gid : Member(u, gid) => Member(u, gid)'
      /\ \A id : Registered(id) => Registered(id)'
  BY <1>1, <1>3, ReceiveFrame
<1>6. Runs(p, "joined") /\ "joined" \notin Waiting
  BY <1>1, Known DEF Runs, Ended, Waiting
<1>7. Owner[p] \notin crossed => Told(p)'
  BY <1>1, <1>4, <1>4a, <1>5, Known DEF Told, Answers
<1>8. DOMAIN target' = Procs /\ \A r \in Procs : r # p => target'[r] = target[r]
  BY <1>1 DEF IInv, Types, ProcInv
<1> QED BY <1>2, <1>3, <1>4, <1>4a, <1>5, <1>6, <1>7, <1>8, ClientReceives

\* create_group has its response, with the number of the group.
LEMMA InvCreateDone ==
    ASSUME SetupAssumption, IInv, NEW p \in Procs, CreateDone(p)
    PROVE  IInv'
<1> DEFINE Is(m) == m.mtype = "CONTROL_RESPONSE"
<1>1. PICK q : q = client_queue[Owner[p]]
  OBVIOUS
<1>2. PICK r : r = First(q, Is)
  OBVIOUS
<1>3. ReceiveResponse(p, "CONTROL_RESPONSE", "created") /\ pc[p] = "creating" /\ target' = [target EXCEPT ![p] = r.gid]
  BY <1>1, <1>2 DEF CreateDone
<1>4. pc[p] \in Waiting
  BY <1>3 DEF Waiting
<1>5. PICK k \in 1 .. Len(q) : Took(p, q, k, "CONTROL_RESPONSE")
  BY <1>1, <1>3, <1>4, ReceiveFrame
<1>5a. /\ First(q, Is) = q[k]
       /\ client_queue' = [client_queue EXCEPT ![Owner[p]] = RemoveAt(q, k)]
       /\ Owner[p] \notin crossed =>
             /\ Answers(p, q[k]) /\ NoRequest(Owner[p]) /\ NoWork(Owner[p])
             /\ \A j \in 1 .. Len(q) : IsResponse(q[j]) => j = k
  BY <1>3, <1>5 DEF Took
<1>6. /\ UNCHANGED <<setup, server_queue, serverVars, router, msgs, shown, crossed>>
      /\ pc' = [pc EXCEPT ![p] = "created"] /\ pc'[p] = "created" /\ cmd' = cmd
      /\ \A gid, name : Named(gid, name) => Named(gid, name)'
      /\ \A u, gid : Member(u, gid) => Member(u, gid)'
      /\ \A id : Registered(id) => Registered(id)'
  BY <1>3, <1>4, ReceiveFrame
<1>7. Runs(p, "created") /\ "created" \notin Waiting
  BY <1>3, Known DEF Runs, Ended, Waiting
<1>8. DOMAIN target' = Procs /\ target'[p] = r.gid /\ \A x \in Procs : x # p => target'[x] = target[x]
  BY <1>3 DEF IInv, Types, ProcInv
<1>9. Owner[p] \notin crossed => Told(p)'
  <2> SUFFICES ASSUME Owner[p] \notin crossed
               PROVE  Told(p)'
    OBVIOUS
  <2>1. PICK gid : gid = r.gid
    OBVIOUS
  <2>2. Named(gid, cmd[p].name) /\ Member(Owner[p], gid) /\ Registered(Owner[p])
    BY <1>2, <1>3, <1>5, <1>5a, <2>1 DEF Answers
  <2>3. Named(gid, cmd[p].name)' /\ Member(Owner[p], gid)' /\ Registered(Owner[p])'
    BY <1>6, <2>2
  <2>4. Named(target[p], cmd[p].name)' /\ Member(Owner[p], target[p])'
    BY <1>8, <2>1, <2>3 DEF Named, Member, Members, find_group_by_id
  <2> QED BY <1>6, <2>3, <2>4 DEF Told
<1> QED BY <1>1, <1>4, <1>5, <1>5a, <1>6, <1>7, <1>8, <1>9, ClientReceives

\* list_query has an entry, or the end.
LEMMA InvListEntry ==
    ASSUME SetupAssumption, IInv, NEW p \in Procs, ListEntry(p)
    PROVE  IInv'
<1> DEFINE Is(m) == m.mtype = "QUERY_RESPONSE"
<1>1. PICK q : q = client_queue[Owner[p]]
  OBVIOUS
<1>2. PICK r : r = First(q, Is)
  OBVIOUS
<1>3. PICK next : next = IF r.kind = "_END_" THEN "listed" ELSE "listing"
  OBVIOUS
<1>4. ReceiveResponse(p, "QUERY_RESPONSE", next) /\ pc[p] = "listing" /\ target' = target
  BY <1>1, <1>2, <1>3 DEF ListEntry
<1>5. pc[p] \in Waiting
  BY <1>4 DEF Waiting
<1>6. PICK k \in 1 .. Len(q) : Took(p, q, k, "QUERY_RESPONSE")
  BY <1>1, <1>4, <1>5, ReceiveFrame
<1>6a. /\ First(q, Is) = q[k]
       /\ client_queue' = [client_queue EXCEPT ![Owner[p]] = RemoveAt(q, k)]
       /\ Owner[p] \notin crossed =>
             \/ /\ Answers(p, q[k]) /\ NoRequest(Owner[p]) /\ NoWork(Owner[p])
                /\ \A j \in 1 .. Len(q) : IsResponse(q[j]) => j = k
             \/ pc[p] = "listing" /\ IsEntry(q[k])
  BY <1>4, <1>6 DEF Took
<1>7. /\ UNCHANGED <<setup, server_queue, serverVars, router, msgs, shown, crossed>>
      /\ pc' = [pc EXCEPT ![p] = next] /\ pc'[p] = next /\ cmd' = cmd
      /\ \A id : Registered(id) => Registered(id)'
  BY <1>4, <1>5, ReceiveFrame
<1>8. DOMAIN target' = Procs /\ \A x \in Procs : x # p => target'[x] = target[x]
  BY <1>4 DEF IInv, Types, ProcInv
<1>9. CASE r.kind = "_END_"
  <2>1. next = "listed" /\ ~IsEntry(q[k])
    BY <1>2, <1>3, <1>6, <1>6a, <1>9 DEF IsEntry
  <2>2. Runs(p, next) /\ next \notin Waiting
    BY <1>4, <2>1, Known DEF Runs, Ended, Waiting
  <2>3. Owner[p] \notin crossed => Told(p)'
    BY <1>4, <1>7, <2>1, Known DEF Told
  <2> QED BY <1>1, <1>5, <1>6, <1>6a, <1>7, <1>8, <2>1, <2>2, <2>3, ClientReceives
<1>10. CASE r.kind # "_END_"
  <2>1. /\ TableInv /\ QueueInv /\ ThreadInv /\ ProcInv /\ AnswerInv /\ MsgInv /\ MemberInv
    BY DEF IInv, Types
  <2>2. next = "listing" /\ pc' = pc
    BY <1>3, <1>4, <1>7, <1>10, <2>1 DEF ProcInv
  <2>3. PICK u \in Users : u = Owner[p]
    BY DEF SetupAssumption
  <2>4. UNCHANGED <<setup, server_queue, clients, groups, server, grp, clt, ctl, qry, router, msgs, shown, crossed>>
    BY <1>7 DEF serverVars
  <2>5. Grown
    BY <2>1, <2>4, GrownSame
  <2>6. TableInv'
    BY <2>1, <2>4 DEF TableInv
  <2>7. /\ QueueInv' /\ client_queue'[u] = RemoveAt(client_queue[u], k)
        /\ \A v \in Users : v # u => client_queue'[v] = client_queue[v]
    BY <1>1, <1>6, <1>6a, <2>1, <2>3, <2>4, ClientRemove
  <2>8. ProcInv'
    BY <1>4, <2>1, <2>2, <2>4 DEF ProcInv, cmd
  <2>9. ThreadInv'
    BY <2>1, <2>4, <2>5, GrpStays DEF ThreadInv
  <2>10. MsgInv' /\ MemberInv'
    BY <2>1, <2>4, <2>5, MsgStays, MemberStays
  <2>11. ASSUME NEW v \in Users, v \notin crossed'
         PROVE  UserInv(v)'
    <3>1. UserInv(v)
      BY <2>1, <2>4, <2>11 DEF AnswerInv
    <3>2. CASE v # u
      <4>1. ReqSame(v) /\ ResSame(v) /\ CtlSame(v) /\ QrySame(v) /\ PcSame(v) /\ setup' = setup
        BY <1>4, <2>2, <2>4, <2>7, <3>2 DEF ReqSame, ResSame, CtlSame, QrySame, PcSame
      <4> QED BY <2>1, <2>5, <3>1, <4>1, UserStays
    <3>3. CASE v = u
      <4>1. IsEntry(q[k])
        BY <1>2, <1>4, <1>6, <1>6a, <1>10, <2>3, <2>4, <2>11, <3>3 DEF Answers
      <4>2. p \in Mine(u) /\ Token(p)
        BY <1>5, <2>3, <3>1, <3>3 DEF UserInv, Mine
      <4>3. NoRequest(u) => NoRequest(u)'
        BY <2>4 DEF NoRequest, ReqOf
      <4>4. NoWork(u) => NoWork(u)'
        BY <2>4 DEF NoWork, CtlOf, QryOf
      <4>5. ~NoResponse(u)
        BY <1>1, <2>3, <4>1 DEF NoResponse, IsEntry, IsResponse
      <4>6. Works(p) => Works(p)'
        <5>1. CtlSame(u) /\ QrySame(u)
          BY <2>4 DEF CtlSame, QrySame
        <5> QED BY <1>4, <2>2, <2>3, <2>4, <2>5, <5>1, WorkStays
      <4>7. OneResponse(p) => OneResponse(p)'
        <5>1. k \in 1 .. Len(client_queue[u]) /\ IsEntry(client_queue[u][k])
          BY <1>1, <2>3, <4>1
        <5> QED BY <1>4, <2>1, <2>2, <2>3, <2>4, <2>5, <2>7, <5>1, OneResponseStays
      <4>8. OnlyEntries(p) => OnlyEntries(p)'
        <5>1. SUFFICES ASSUME OnlyEntries(p)
                       PROVE  OnlyEntries(p)'
          OBVIOUS
        <5>2. PICK s : s = client_queue'[u]
          OBVIOUS
        <5>3. q \in Seq(ToSet(q)) /\ s = RemoveAt(q, k)
          BY <1>1, <2>1, <2>3, <2>7, <5>2 DEF QueueInv
        <5>4. \A j \in 1 .. Len(s) : \E h \in 1 .. Len(q) : s[j] = q[h] /\ h # k
          BY <5>3, RemoveFrom
        <5>5. \A j \in 1 .. Len(s) : IsResponse(s[j]) => pc[p] = "listing" /\ IsEntry(s[j])
          BY <1>1, <2>3, <5>1, <5>4 DEF OnlyEntries
        <5> QED BY <2>2, <2>3, <5>2, <5>5 DEF OnlyEntries, IsResponse, IsEntry
      <4>9. Token(p)'
        BY <2>3, <4>2, <4>3, <4>4, <4>5, <4>6, <4>7, <4>8 DEF Token
      <4> QED BY <1>4, <1>5, <2>2, <2>4, <2>5, <3>1, <3>3, <4>2, <4>9, TokenMoves
    <3> QED BY <3>2, <3>3
  <2>12. AnswerInv'
    BY <2>11 DEF AnswerInv
  <2> QED BY <2>6, <2>7, <2>8, <2>9, <2>10, <2>12 DEF IInv, Types
<1> QED BY <1>9, <1>10
-----------------------------------------------------------------------------
(* Messages, and Ctrl+C.                                                   *)

\* A step of a client process that is not about a request.
LEMMA Aside ==
    ASSUME SetupAssumption, IInv, UNCHANGED <<setup, clients, groups, server, grp, clt, ctl, qry, target>>,
           QueueInv', ProcInv', MsgInv', crossed \subseteq crossed',
           \A v \in Users : v \notin crossed' => ReqSame(v) /\ ResSame(v) /\ PcSame(v)
    PROVE  IInv'
<1>1. /\ TableInv /\ QueueInv /\ ThreadInv /\ ProcInv /\ AnswerInv /\ MsgInv /\ MemberInv
  BY DEF IInv, Types
<1>2. Grown
  BY <1>1, GrownSame
<1>3. TableInv'
  BY <1>1 DEF TableInv
<1>4. ThreadInv'
  BY <1>1, <1>2, GrpStays DEF ThreadInv
<1>5. MemberInv'
  BY <1>1, <1>2, MemberStays
<1>6. ASSUME NEW v \in Users, v \notin crossed'
      PROVE  UserInv(v)'
  <2>1. UserInv(v)
    BY <1>1, <1>6 DEF AnswerInv
  <2>2. CtlSame(v) /\ QrySame(v) /\ ReqSame(v) /\ ResSame(v) /\ PcSame(v) /\ setup' = setup
    BY <1>6 DEF CtlSame, QrySame
  <2> QED BY <1>1, <1>2, <2>1, <2>2, UserStays
<1>7. AnswerInv'
  BY <1>6 DEF AnswerInv
<1> QED BY <1>3, <1>4, <1>5, <1>7 DEF IInv, Types

\* A user types a message: the copy in his own queue is not a response.
LEMMA InvTypeMessage ==
    ASSUME SetupAssumption, IInv, NEW p \in Procs, TypeMessage(p)
    PROVE  IInv'
<1>1. /\ QueueInv /\ ProcInv /\ MsgInv /\ TableInv
  BY DEF IInv, Types
<1>2. PICK u \in Users : u = Owner[p]
  BY DEF SetupAssumption
<1>3. PICK m : m = Conversation("client", target[p], router'[p])
  OBVIOUS
<1>4. m.mtype = "conversation"
  BY <1>3 DEF Conversation
<1>5. /\ pc[p] = "sending" /\ msgs < setup.maxMsgs /\ msgs' = msgs + 1 /\ DOMAIN router' = DOMAIN router
      /\ pc' = [pc EXCEPT ![p] = "typed"]
      /\ UNCHANGED <<setup, server_queue, clients, groups, server, grp, clt, ctl, qry, target, shown, crossed>>
  BY DEF TypeMessage, serverVars
<1>6. \/ client_queue' = client_queue
      \/ Room(client_queue[u]) /\ client_queue' = [client_queue EXCEPT ![u] = Append(@, m)]
  BY <1>2, <1>3 DEF TypeMessage
<1>7. Grown
  BY <1>1, <1>5, GrownSame
<1>8. QueueInv' /\ \A v \in Users : ResSame(v)
  <2>1. CASE client_queue' = client_queue
    BY <1>1, <1>5, <2>1 DEF QueueInv, ResSame, SrvMsg, IsControl
  <2>2. CASE Room(client_queue[u]) /\ client_queue' = [client_queue EXCEPT ![u] = Append(@, m)]
    <3>1. /\ QueueInv' /\ client_queue'[u] = Append(client_queue[u], m)
          /\ \A v \in Users : v # u => client_queue'[v] = client_queue[v]
      BY <1>1, <1>5, <2>2, ClientAppend
    <3>2. ~IsResponse(m)
      BY <1>4 DEF IsResponse
    <3> QED BY <3>1, <3>2 DEF ResSame
  <2> QED BY <1>6, <2>1, <2>2
<1>9. msgs' \in 0 .. setup.maxMsgs
  <2>1. setup.maxMsgs \in Nat /\ msgs \in 0 .. setup.maxMsgs
    BY <1>1 DEF ProcInv, SetupAssumption, Setup
  <2> QED BY <1>5, <2>1
<1>10. Runs(p, "typed")
  BY <1>1, <1>5, Known DEF Runs, Others
<1>11. DOMAIN target' = Procs /\ DOMAIN router' = Procs /\ DOMAIN shown' = Procs /\ crossed' \subseteq Users
  BY <1>1, <1>5 DEF ProcInv
<1>12. ProcInv' /\ pc'[p] = "typed" /\ \A q \in Procs : q # p => pc'[q] = pc[q]
  BY <1>1, <1>5, <1>9, <1>10, <1>11, ProcMoves
<1>13. MsgInv'
  BY <1>1, <1>5, <1>7, MsgStays
<1>14. \A v \in Users : ReqSame(v) /\ PcSame(v)
  BY <1>5, <1>12 DEF ReqSame, PcSame, Mine
<1> QED BY <1>5, <1>8, <1>12, <1>13, <1>14, Aside

\* The message goes to the server, for somebody who was found or for nobody.
LEMMA InvSendMessage ==
    ASSUME SetupAssumption, IInv, NEW p \in Procs, SendMessage(p)
    PROVE  IInv'
<1>1. /\ QueueInv /\ ProcInv /\ MsgInv /\ TableInv
  BY DEF IInv, Types
<1>2. PICK u \in Users : u = Owner[p]
  BY DEF SetupAssumption
<1>3. PICK m : m = [mtype |-> IF cmd[p].kind = "client" THEN "CLIENT_MESSAGE" ELSE "GROUP_MESSAGE",
                    src |-> Owner[p], dst |-> target[p], id |-> router[p].id,
                    auto_delete |-> cmd[p].op = "send-autodelete"]
  OBVIOUS
<1>4. /\ m.src = Owner[p] /\ m.dst = target[p]
      /\ m.mtype = IF cmd[p].kind = "client" THEN "CLIENT_MESSAGE" ELSE "GROUP_MESSAGE"
  BY <1>3
<1>5. /\ pc[p] = "typed" /\ Room(server_queue) /\ server_queue' = Append(server_queue, m)
      /\ pc' = [pc EXCEPT ![p] = "sending"] /\ DOMAIN router' = DOMAIN router
      /\ UNCHANGED <<setup, client_queue, clients, groups, server, grp, clt, ctl, qry, target, msgs, shown, crossed>>
  BY <1>3 DEF SendMessage, serverVars
<1>6. Grown
  BY <1>1, <1>5, GrownSame
<1>7. m.mtype \in {"CLIENT_MESSAGE", "GROUP_MESSAGE"} /\ ~IsControl(m) /\ (IsGroupMsg(m) <=> cmd[p].kind # "client")
  BY <1>4 DEF IsControl, IsGroupMsg
<1>8. QueueInv'
  <2>1. SrvMsg(m)
    BY <1>7 DEF SrvMsg
  <2> QED BY <1>1, <1>5, <2>1, ServerAppend
<1>9. Runs(p, "sending")
  BY <1>1, <1>5, Known DEF Runs, Others
<1>10. /\ DOMAIN target' = Procs /\ DOMAIN router' = Procs /\ DOMAIN shown' = Procs /\ crossed' \subseteq Users
       /\ msgs' \in 0 .. setup.maxMsgs
  BY <1>1, <1>5 DEF ProcInv
<1>11. ProcInv' /\ pc'[p] = "sending" /\ \A q \in Procs : q # p => pc'[q] = pc[q]
  BY <1>1, <1>5, <1>9, <1>10, ProcMoves
<1>12. MsgInv'
  <2>1. ASSUME m.src \notin crossed'
        PROVE  \/ m.dst = NotFound
               \/ IF IsGroupMsg(m) THEN find_group_by_id(m.dst)' # NoGroup ELSE Registered(m.dst)'
    <3>1. Told(p)
      BY <1>4, <1>5, <2>1, Known
    <3>2. target[p] = NotFound \/ Found(cmd[p].kind, target[p], cmd[p].name)
      BY <1>5, <3>1 DEF Told
    <3>3. CASE target[p] = NotFound
      BY <1>4, <3>3
    <3>4. CASE Found(cmd[p].kind, target[p], cmd[p].name)
      <4>1. IF IsGroupMsg(m) THEN find_group_by_id(m.dst) # NoGroup ELSE Registered(m.dst)
        BY <1>4, <1>7, <3>4 DEF Found, Named
      <4> QED BY <1>6, <4>1 DEF Grown
    <3> QED BY <3>2, <3>3, <3>4
  <2>2. crossed \subseteq crossed'
    BY <1>5
  <2> QED BY <1>1, <1>5, <1>6, <2>1, <2>2, MsgMore
<1>13. \A v \in Users : ReqSame(v)
  <2>1. \A v \in Users : ~ReqOf(m, v)
    BY <1>7 DEF ReqOf
  <2> QED BY <1>5, <2>1 DEF ReqSame
<1>14. \A v \in Users : ResSame(v) /\ PcSame(v)
  BY <1>5, <1>11 DEF ResSame, PcSame, Mine
<1> QED BY <1>5, <1>8, <1>11, <1>12, <1>13, <1>14, Aside

\* handle_messages takes a message that is no request ...
LEMMA InvRouteTake ==
    ASSUME SetupAssumption, IInv, NEW p \in Procs, RouteTake(p)
    PROVE  IInv'
<1>1. /\ QueueInv /\ ProcInv /\ MsgInv /\ TableInv /\ server_queue \in Seq(ToSet(server_queue))
  BY DEF IInv, Types, QueueInv
<1>2. PICK u \in Users : u = Owner[p]
  BY DEF SetupAssumption
<1>3. LET Is(m) == m.mtype = "deliver" /\ m.to = u IN
      Has(server_queue, Is) /\ server_queue' = RemoveFirstMatch(server_queue, Is)
  BY <1>2 DEF RouteTake
<1>4. PICK k \in 1 .. Len(server_queue) :
          server_queue[k].mtype = "deliver" /\ server_queue' = RemoveAt(server_queue, k)
  <2> DEFINE q == server_queue
             Is(m) == m.mtype = "deliver" /\ m.to = u
             I == {i \in 1 .. Len(q) : q[i].mtype = "deliver" /\ q[i].to = u}
  <2>1. I \subseteq Nat /\ I # {} /\ DOMAIN q = 1 .. Len(q)
    BY <1>1, <1>3 DEF Has
  <2>2. Min(I) \in I
    BY <2>1, MinIn
  <2>3. SelectInSeq(q, Is) = Min(I)
    BY <2>1 DEF SelectInSeq
  <2>4. RemoveFirstMatch(q, Is) = RemoveAt(q, Min(I))
    BY <2>1, <2>3 DEF RemoveFirstMatch
  <2> QED BY <1>3, <2>2, <2>4
<1>5. /\ DOMAIN router' = DOMAIN router
      /\ UNCHANGED <<setup, client_queue, clients, groups, server, grp, clt, ctl, qry, pc, target, msgs, shown, crossed>>
  BY DEF RouteTake, serverVars
<1>6. Grown
  BY <1>1, <1>5, GrownSame
<1>7. QueueInv' /\ ToSet(server_queue') \subseteq ToSet(server_queue)
  BY <1>1, <1>4, <1>5, ServerRemove
<1>8. ProcInv'
  BY <1>1, <1>5 DEF ProcInv, cmd
<1>9. MsgInv'
  BY <1>1, <1>5, <1>6, <1>7, MsgStays
<1>10. \A v \in Users : ReqSame(v)
  <2>1. \A v \in Users : ~ReqOf(server_queue[k], v)
    BY <1>4 DEF ReqOf
  <2> QED BY <1>4, <2>1 DEF ReqSame
<1>11. \A v \in Users : ResSame(v) /\ PcSame(v)
  BY <1>5 DEF ResSame, PcSame
<1> QED BY <1>5, <1>7, <1>8, <1>9, <1>10, <1>11, Aside

\* ... and files it as one that is no response.
LEMMA InvRoutePut ==
    ASSUME SetupAssumption, IInv, NEW p \in Procs, RoutePut(p)
    PROVE  IInv'
<1>1. /\ QueueInv /\ ProcInv /\ MsgInv /\ TableInv
  BY DEF IInv, Types
<1>2. PICK u \in Users : u = Owner[p]
  BY DEF SetupAssumption
<1>3. PICK m : m = IF router[p].msg.protocol = "GROUP_MESSAGE"
                   THEN Conversation("group", router[p].msg.dst, router[p].msg)
                   ELSE Conversation("client", router[p].msg.src, router[p].msg)
  OBVIOUS
<1>4. m.mtype = "conversation"
  BY <1>3 DEF Conversation
<1>5. /\ Room(client_queue[u]) /\ client_queue' = [client_queue EXCEPT ![u] = Append(@, m)]
      /\ DOMAIN router' = DOMAIN router
      /\ UNCHANGED <<setup, server_queue, clients, groups, server, grp, clt, ctl, qry, pc, target, msgs, shown, crossed>>
  BY <1>2, <1>3 DEF RoutePut, serverVars
<1>6. Grown
  BY <1>1, <1>5, GrownSame
<1>7. /\ QueueInv' /\ client_queue'[u] = Append(client_queue[u], m)
      /\ \A v \in Users : v # u => client_queue'[v] = client_queue[v]
  BY <1>1, <1>5, ClientAppend
<1>8. ProcInv'
  BY <1>1, <1>5 DEF ProcInv, cmd
<1>9. MsgInv'
  BY <1>1, <1>5, <1>6, MsgStays
<1>10. \A v \in Users : ResSame(v)
  <2>1. ~IsResponse(m)
    BY <1>4 DEF IsResponse
  <2> QED BY <1>7, <2>1 DEF ResSame
<1>11. \A v \in Users : ReqSame(v) /\ PcSame(v)
  BY <1>5 DEF ReqSame, PcSame
<1> QED BY <1>5, <1>7, <1>8, <1>9, <1>10, <1>11, Aside

\* A reader displays a message, no response.
LEMMA InvDisplay ==
    ASSUME SetupAssumption, IInv, NEW p \in Procs, Display(p)
    PROVE  IInv'
<1>1. /\ QueueInv /\ ProcInv /\ MsgInv /\ TableInv
  BY DEF IInv, Types
<1>2. PICK u \in Users : u = Owner[p]
  BY DEF SetupAssumption
<1>3. PICK q : q = client_queue[u]
  OBVIOUS
<1>4. PICK with : with = <<cmd[p].kind, target[p]>>
  OBVIOUS
<1>5. LET Is(m) == m.mtype = "conversation" /\ m.with = with IN
      Has(q, Is) /\ client_queue' = [client_queue EXCEPT ![u] = RemoveFirstMatch(q, Is)]
  BY <1>2, <1>3, <1>4 DEF Display
<1>6. q \in Seq(ToSet(q))
  BY <1>1, <1>3 DEF QueueInv
<1>7. PICK k \in 1 .. Len(q) :
          q[k].mtype = "conversation" /\ client_queue' = [client_queue EXCEPT ![u] = RemoveAt(q, k)]
  <2> DEFINE Is(m) == m.mtype = "conversation" /\ m.with = with
             I == {i \in 1 .. Len(q) : q[i].mtype = "conversation" /\ q[i].with = with}
  <2>1. I \subseteq Nat /\ I # {} /\ DOMAIN q = 1 .. Len(q)
    BY <1>5, <1>6 DEF Has
  <2>2. Min(I) \in I
    BY <2>1, MinIn
  <2>3. SelectInSeq(q, Is) = Min(I)
    BY <2>1 DEF SelectInSeq
  <2>4. RemoveFirstMatch(q, Is) = RemoveAt(q, Min(I))
    BY <2>1, <2>3 DEF RemoveFirstMatch
  <2> QED BY <1>5, <2>2, <2>4
<1>8. /\ DOMAIN shown' = DOMAIN shown
      /\ UNCHANGED <<setup, server_queue, clients, groups, server, grp, clt, ctl, qry, pc, target, router, msgs, crossed>>
  BY DEF Display, serverVars
<1>9. Grown
  BY <1>1, <1>8, GrownSame
<1>10. /\ QueueInv' /\ client_queue'[u] = RemoveAt(client_queue[u], k)
       /\ \A v \in Users : v # u => client_queue'[v] = client_queue[v]
  BY <1>1, <1>3, <1>7, <1>8, ClientRemove
<1>11. ProcInv'
  BY <1>1, <1>8 DEF ProcInv, cmd
<1>12. MsgInv'
  BY <1>1, <1>8, <1>9, MsgStays
<1>13. \A v \in Users : ResSame(v)
  <2>1. ~IsResponse(client_queue[u][k])
    BY <1>3, <1>7 DEF IsResponse
  <2> QED BY <1>3, <1>10, <2>1 DEF ResSame
<1>14. \A v \in Users : ReqSame(v) /\ PcSame(v)
  BY <1>8 DEF ReqSame, PcSame
<1> QED BY <1>8, <1>10, <1>11, <1>12, <1>13, <1>14, Aside

\* Ctrl+C: whoever stops a request crosses his answers.
LEMMA InvStop ==
    ASSUME SetupAssumption, IInv, NEW p \in Procs, Stop(p)
    PROVE  IInv'
<1>1. /\ QueueInv /\ ProcInv /\ MsgInv /\ TableInv
  BY DEF IInv, Types
<1>2. PICK u \in Users : u = Owner[p]
  BY DEF SetupAssumption
<1>3. /\ pc[p] \notin {"off", "stopped"} \cup Ended /\ pc' = [pc EXCEPT ![p] = "stopped"]
      /\ DOMAIN router' = DOMAIN router
      /\ crossed' = IF pc[p] \in Requesting THEN crossed \cup {u} ELSE crossed
      /\ UNCHANGED <<setup, server_queue, client_queue, clients, groups, server, grp, clt, ctl, qry, target, msgs, shown>>
  BY <1>2 DEF Stop, serverVars
<1>4. Grown
  BY <1>1, <1>3, GrownSame
<1>5. Runs(p, "stopped")
  BY <1>1, <1>3, Known DEF Runs, Others
<1>6. /\ DOMAIN target' = Procs /\ DOMAIN router' = Procs /\ DOMAIN shown' = Procs /\ crossed' \subseteq Users
      /\ msgs' \in 0 .. setup.maxMsgs
  BY <1>1, <1>3 DEF ProcInv
<1>7. ProcInv' /\ pc'[p] = "stopped" /\ \A q \in Procs : q # p => pc'[q] = pc[q]
  BY <1>1, <1>3, <1>5, <1>6, ProcMoves
<1>8. crossed \subseteq crossed' /\ QueueInv'
  BY <1>1, <1>3 DEF QueueInv, SrvMsg, IsControl
<1>9. MsgInv'
  BY <1>1, <1>3, <1>4, <1>8, MsgStays
<1>10. ASSUME NEW v \in Users, v \notin crossed'
       PROVE  PcSame(v)
  <2>1. CASE v = u
    <3>1. pc[p] \in Requesting \cup Ended \cup Others /\ pc[p] \notin Requesting
      BY <1>1, <1>3, <1>10, <2>1 DEF ProcInv
    <3>2. pc[p] \in {"reading", "sending", "typed"}
      BY <1>3, <3>1 DEF Others
    <3> QED BY <1>3, <1>7, <3>2 DEF PcSame, Mine
  <2>2. CASE v # u
    BY <1>2, <1>3, <1>7, <2>2 DEF PcSame, Mine
  <2> QED BY <2>1, <2>2
<1>11. \A v \in Users : ReqSame(v) /\ ResSame(v)
  BY <1>3 DEF ReqSame, ResSame
<1> QED BY <1>3, <1>7, <1>8, <1>9, <1>10, <1>11, Aside
-----------------------------------------------------------------------------
(* The inductive invariant.                                                *)

\* It holds before anybody has sent anything.
LEMMA InvInit ==
    ASSUME SetupAssumption, Init
    PROVE  IInv
<1>1. /\ clients = <<>> /\ groups = <<>> /\ server_queue = <<>>
      /\ ctl = Idle /\ qry = Idle /\ grp = Idle /\ clt = Idle /\ server = "up"
      /\ crossed = {} /\ msgs = 0
  BY DEF Init
<1>2. /\ setup \in Setups
      /\ client_queue = [u \in Users |-> <<>>] /\ pc = [p \in Procs |-> "off"]
      /\ target = [p \in Procs |-> NotFound] /\ router = [p \in Procs |-> Idle]
      /\ shown = [p \in Procs |-> <<>>]
  BY DEF Init
<1>3. Idle.step = "idle" /\ ToSet(<<>>) = {} /\ Len(<<>>) = 0 /\ \A S : <<>> \in Seq(S)
  BY DEF Idle, ToSet
<1>4. setup.maxMsgs \in Nat /\ QueueCap \in Nat
  BY <1>2 DEF SetupAssumption, Setup
<1>5. TableInv
  BY <1>1, <1>3 DEF TableInv
<1>6. QueueInv
  BY <1>1, <1>2, <1>3, <1>4 DEF QueueInv
<1>7. ThreadInv
  BY <1>1 DEF ThreadInv
<1>8. ProcInv
  BY <1>1, <1>2, <1>4 DEF ProcInv, Others
<1>9. ASSUME NEW u \in Users
      PROVE  UserInv(u)
  <2>1. \A p \in Mine(u) : pc[p] = "off"
    BY <1>2 DEF Mine
  <2>2. Calm(u)
    BY <1>1, <1>2, <1>3 DEF Calm, NoRequest, NoWork, NoResponse, CtlOf, QryOf
  <2> QED BY <2>1, <2>2 DEF UserInv, Told, Requesting, Waiting
<1>10. AnswerInv
  BY <1>9 DEF AnswerInv
<1>11. MsgInv /\ MemberInv
  BY <1>1, <1>3 DEF MsgInv, MemberInv
<1> QED BY <1>5, <1>6, <1>7, <1>8, <1>10, <1>11 DEF IInv, Types

\* Every step keeps it.
LEMMA InvStep ==
    ASSUME SetupAssumption, IInv, [Next]_vars
    PROVE  IInv'
<1>1. CASE ControlThread
  BY <1>1, InvTakeRegister, InvFillClient, InvTakeCreate, InvFillGroup, InvJoinCreator,
     InvTakeJoin, InvSendControlResponse
     DEF ControlThread
<1>2. CASE QueryThread
  BY <1>2, InvTakeNameQuery, InvSendQueryResponse, InvTakeListQuery, InvSendListEntry DEF QueryThread
<1>3. CASE GroupThread \/ ClientThread
  BY <1>3, InvTakeGroupMsg, InvForwardGroupMsg, InvTakeClientMsg, InvForwardClientMsg
     DEF GroupThread, ClientThread
<1>4. ASSUME NEW p \in Procs, RequestStep(p)
      PROVE  IInv'
  BY <1>4, InvStart, InvRegisterDone, InvAskName, InvGetName, InvRequestJoin, InvJoinDone, InvRequestCreate,
     InvCreateDone, InvRequestList, InvListEntry, InvSendMessage DEF RequestStep
<1>5. ASSUME NEW p \in Procs, TypeMessage(p) \/ RouterStep(p) \/ Display(p) \/ Stop(p)
      PROVE  IInv'
  BY <1>5, InvTypeMessage, InvRouteTake, InvRoutePut, InvDisplay, InvStop DEF RouterStep
<1>6. CASE UNCHANGED vars
  <2>1. /\ TableInv /\ QueueInv /\ ThreadInv /\ ProcInv /\ AnswerInv /\ MsgInv /\ MemberInv
    BY DEF IInv, Types
  <2>2. /\ UNCHANGED <<setup, clients, groups, server, grp, clt, ctl, qry, target>>
        /\ UNCHANGED <<server_queue, client_queue, pc, crossed>> /\ UNCHANGED <<setup, procVars>>
    BY <1>6 DEF vars, serverVars, procVars
  <2>3. QueueInv'
    BY <2>1, <2>2 DEF QueueInv, SrvMsg, IsControl
  <2>4. ProcInv'
    BY <2>1, <2>2, ProcStays
  <2>5. Grown
    BY <2>1, <2>2, GrownSame
  <2>6. MsgInv' /\ crossed \subseteq crossed'
    BY <2>1, <2>2, <2>5, MsgStays
  <2>7. \A v \in Users : ReqSame(v) /\ ResSame(v) /\ PcSame(v)
    BY <2>2 DEF ReqSame, ResSame, PcSame
  <2> QED BY <2>2, <2>3, <2>4, <2>6, <2>7, Aside
<1> QED BY <1>1, <1>2, <1>3, <1>4, <1>5, <1>6 DEF Next

\* The invariant holds throughout.
THEOREM InvHolds == SafeSpec => []IInv
<1>1. Init => IInv
  BY SetupAssumption, InvInit
<1>2. IInv /\ [Next]_vars => IInv'
  BY SetupAssumption, InvStep
<1> QED BY <1>1, <1>2, PTL DEF SafeSpec
-----------------------------------------------------------------------------
(* The properties.                                                         *)

\* The tables, the queues, the threads and the processes have their types; no queue holds
\* more than msgsnd lets in, and a message is passed to the members a group has.
THEOREM TypeHolds == SafeSpec => []TypeOK
<1>1. ASSUME IInv
      PROVE  TypeOK
  <2>1. /\ TableInv /\ QueueInv /\ ThreadInv /\ ProcInv
    BY <1>1 DEF IInv, Types
  <2>2. Idle.step = "idle"
    BY DEF Idle
  <2>3. \A i \in DOMAIN clients : clients[i] \in Users \cup {NoUser}
    BY <2>1 DEF TableInv
  <2>4. \A i \in DOMAIN groups :
          groups[i] = NoGroup \/ groups[i] \in [name : GroupNames, members : Seq(Users)]
    <3>1. \A i \in DOMAIN groups : groups[i] = NoGroup \/ groups[i] \in Group
      BY <2>1 DEF TableInv
    <3>2. Group \subseteq [name : GroupNames, members : Seq(Users)]
      BY DEF Group
    <3> QED BY <3>1, <3>2
  <2>5. \A t \in {grp, clt, ctl, qry} : t.step \in Steps
    BY <2>1, <2>2 DEF ThreadInv, Steps
  <2>6. grp.step = "send" => grp.i \in 1 .. grp.n
    BY <2>1, <2>2 DEF ThreadInv
  <2> QED BY <2>1, <2>3, <2>4, <2>5, <2>6 DEF TypeOK, QueueInv, ThreadInv, ProcInv, Others
<1> QED BY <1>1, InvHolds, PTL

\* The first response to a control message in a queue.
LEMMA FirstControlResponse ==
    ASSUME NEW q, q \in Seq(ToSet(q)), Has(q, IsControlResponse)
    PROVE  \E k \in 1 .. Len(q) : /\ q[k].mtype = "CONTROL_RESPONSE" /\ First(q, IsControlResponse) = q[k]
                                  /\ \A j \in 1 .. Len(q) : q[j].mtype = "CONTROL_RESPONSE" => k <= j
<1> DEFINE I == {i \in 1 .. Len(q) : IsControlResponse(q[i])}
           k == Min(I)
<1>1. I \subseteq Nat /\ I # {} /\ DOMAIN q = 1 .. Len(q)
  BY DEF Has
<1>2. k \in I /\ \A j \in I : k <= j
  BY <1>1, MinIn
<1>3. SelectInSeq(q, IsControlResponse) = k
  BY <1>1 DEF SelectInSeq
<1> QED BY <1>2, <1>3 DEF First, IsControlResponse

\* The first response to a query in a queue.
LEMMA FirstQueryResponse ==
    ASSUME NEW q, q \in Seq(ToSet(q)), Has(q, IsQueryResponse)
    PROVE  \E k \in 1 .. Len(q) : /\ q[k].mtype = "QUERY_RESPONSE" /\ First(q, IsQueryResponse) = q[k]
                                  /\ \A j \in 1 .. Len(q) : q[j].mtype = "QUERY_RESPONSE" => k <= j
<1> DEFINE I == {i \in 1 .. Len(q) : IsQueryResponse(q[i])}
           k == Min(I)
<1>1. I \subseteq Nat /\ I # {} /\ DOMAIN q = 1 .. Len(q)
  BY DEF Has
<1>2. k \in I /\ \A j \in I : k <= j
  BY <1>1, MinIn
<1>3. SelectInSeq(q, IsQueryResponse) = k
  BY <1>1 DEF SelectInSeq
<1> QED BY <1>2, <1>3 DEF First, IsQueryResponse

\* A member is counted.
LEMMA MemberCounted ==
    ASSUME SetupAssumption, TableInv, NEW u, NEW gid, Member(u, gid)
    PROVE  TimesMember(u, gid) > 0
<1>1. PICK s \in Seq(Users) : s = Members(gid)
  BY GroupAt DEF Member
<1>2. PICK T : T = {i \in 1 .. Len(s) : s[i] = u}
  OBVIOUS
<1>3. Len(s) \in Nat /\ DOMAIN s = 1 .. Len(s) /\ T \in SUBSET (1 .. Len(s)) /\ T # {}
  BY <1>1, <1>2 DEF Member
<1>4. IsFiniteSet(1 .. Len(s))
  BY <1>3, FS_Interval
<1>5. IsFiniteSet(T)
  BY <1>3, <1>4, FS_Subset
<1>6. Cardinality(T) \in Nat /\ Cardinality(T) # 0
  BY <1>3, <1>5, FS_CardinalityType, FS_EmptySet
<1>7. TimesMember(u, gid) = Cardinality(T)
  BY <1>1, <1>2, <1>3 DEF TimesMember
<1> QED BY <1>6, <1>7

\* A process acts on the answer to its own request: the next response of the type it waits for
\* answers what it asked, and what it reports of a group is in the server's table, unless its
\* user had two requests under way or stopped one.
THEOREM OwnAnswersHolds == SafeSpec => []OwnAnswers
<1>1. ASSUME IInv
      PROVE  OwnAnswers
  <2>1. SUFFICES ASSUME NEW p \in Procs, Owner[p] \notin crossed
                 PROVE  LET q == client_queue[Owner[p]] IN
                        /\ (pc[p] \in DOMAIN Expected /\ Has(q, IsControlResponse))
                              => First(q, IsControlResponse).action = Expected[pc[p]]
                        /\ (pc[p] = "asking" /\ Has(q, IsQueryResponse)) => First(q, IsQueryResponse).kind = "id"
                        /\ (pc[p] = "listing" /\ Has(q, IsQueryResponse))
                              => First(q, IsQueryResponse).kind \in {"entry", "_END_"}
                        /\ pc[p] \in {"joined", "created"} =>
                              /\ find_group_by_id(target[p]) # NoGroup
                              /\ find_group_by_id(target[p]).name = cmd[p].name
                              /\ TimesMember(Owner[p], target[p]) > 0
    BY DEF OwnAnswers
  <2>2. PICK u \in Users : u = Owner[p]
    BY SetupAssumption DEF SetupAssumption
  <2>3. PICK q : q = client_queue[u]
    OBVIOUS
  <2>4. UserInv(u) /\ p \in Mine(u) /\ Told(p) /\ q \in Seq(ToSet(q)) /\ TableInv
    BY <1>1, <2>1, <2>2, <2>3, SetupAssumption, Known DEF IInv, Types, QueueInv
  <2>5. ASSUME pc[p] \in DOMAIN Expected, Has(q, IsControlResponse)
        PROVE  First(q, IsControlResponse).action = Expected[pc[p]]
    <3>1. PICK k \in 1 .. Len(q) :
              /\ q[k].mtype = "CONTROL_RESPONSE" /\ First(q, IsControlResponse) = q[k]
              /\ \A j \in 1 .. Len(q) : q[j].mtype = "CONTROL_RESPONSE" => k <= j
      BY <2>4, <2>5, FirstControlResponse
    <3>2. pc[p] \in {"registering", "joining", "creating"} /\ pc[p] \in Waiting
      BY <2>5 DEF Expected, Waiting
    <3>3. \/ Answers(p, q[k])
          \/ pc[p] = "listing" /\ IsEntry(q[k])
      BY <2>3, <2>4, <3>1, <3>2, Received
    <3> QED BY <3>1, <3>2, <3>3 DEF Answers
  <2>6. ASSUME pc[p] \in {"asking", "listing"}, Has(q, IsQueryResponse)
        PROVE  /\ pc[p] = "asking" => First(q, IsQueryResponse).kind = "id"
               /\ pc[p] = "listing" => First(q, IsQueryResponse).kind \in {"entry", "_END_"}
    <3>1. PICK k \in 1 .. Len(q) :
              /\ q[k].mtype = "QUERY_RESPONSE" /\ First(q, IsQueryResponse) = q[k]
              /\ \A j \in 1 .. Len(q) : q[j].mtype = "QUERY_RESPONSE" => k <= j
      BY <2>4, <2>6, FirstQueryResponse
    <3>2. pc[p] \in Waiting
      BY <2>6 DEF Waiting
    <3>3. \/ Answers(p, q[k])
          \/ pc[p] = "listing" /\ IsEntry(q[k])
      BY <2>3, <2>4, <3>1, <3>2, Received
    <3> QED BY <2>6, <3>1, <3>3 DEF Answers, IsEntry
  <2>7. ASSUME pc[p] \in {"joined", "created"}
        PROVE  /\ find_group_by_id(target[p]) # NoGroup
               /\ find_group_by_id(target[p]).name = cmd[p].name
               /\ TimesMember(Owner[p], target[p]) > 0
    <3>1. Named(target[p], cmd[p].name) /\ Member(Owner[p], target[p])
      BY <2>4, <2>7 DEF Told
    <3> QED BY <2>4, <3>1, SetupAssumption, MemberCounted DEF Named
  <2> QED BY <2>2, <2>3, <2>5, <2>6, <2>7
<1> QED BY <1>1, InvHolds, PTL
-----------------------------------------------------------------------------
(* Crashes.                                                                *)

Cause ==
    \/ HalfFilled(clients, NoUser) \/ HalfFilled(groups, NoGroup)
    \/ Has(server_queue, Unknown)
    \/ \E i \in DOMAIN groups : Twice(groups[i])
    \/ crossed # {}

\* A group nobody has joined twice has no more members than there are clients.
LEMMA FewMembers ==
    ASSUME SetupAssumption, IInv, crossed = {}, NEW gid, find_group_by_id(gid) # NoGroup,
           \A i \in DOMAIN groups : ~Twice(groups[i])
    PROVE  Len(Members(gid)) <= Len(clients)
<1>1. TableInv /\ MemberInv
  BY DEF IInv, Types
<1>2. PICK g \in Group : g = find_group_by_id(gid)
  BY <1>1, GroupAt
<1>3. gid + 1 \in DOMAIN groups /\ groups[gid + 1] = g /\ g # NoGroup /\ Members(gid) = g.members
  BY <1>1, <1>2, GroupAt DEF TableInv, Members
<1>4. PICK s \in Seq(Users) : s = g.members
  BY <1>2 DEF Group
<1>5. Len(s) \in Nat /\ DOMAIN s = 1 .. Len(s) /\ Len(clients) \in Nat /\ DOMAIN clients = 1 .. Len(clients)
  BY <1>1, <1>4 DEF TableInv
<1>6. \A j \in 1 .. Len(s) : \E i \in 1 .. Len(clients) : clients[i] = s[j]
  BY <1>1, <1>3, <1>4, <1>5 DEF MemberInv, Registered
<1>7. ASSUME NEW i \in 1 .. Len(s), NEW j \in 1 .. Len(s), i # j, s[i] = s[j]
      PROVE  FALSE
  <2>1. PICK u \in Users : u = s[i]
    BY <1>4
  <2>2. PICK T : T = {h \in 1 .. Len(s) : s[h] = u}
    OBVIOUS
  <2>3. IsFiniteSet(1 .. Len(s)) /\ T \in SUBSET (1 .. Len(s)) /\ {i, j} \in SUBSET T
    BY <1>5, <1>7, <2>1, <2>2, FS_Interval
  <2>4. IsFiniteSet(T)
    BY <2>3, FS_Subset
  <2>5. Cardinality({i, j}) <= Cardinality(T) /\ Cardinality(T) \in Nat
    BY <2>3, <2>4, FS_Subset, FS_CardinalityType
  <2>6. Cardinality({i, j}) = 2
    <3>1. IsFiniteSet({i}) /\ Cardinality({i}) = 1
      BY FS_Singleton
    <3>2. {i, j} = {i} \cup {j} /\ j \notin {i}
      BY <1>7
    <3>3. Cardinality({i} \cup {j}) = Cardinality({i}) + 1
      BY <3>1, <3>2, FS_AddElement
    <3> QED BY <3>1, <3>2, <3>3
  <2>7. Twice(g)
    <3>1. {h \in DOMAIN g.members : g.members[h] = u} = T
      BY <1>4, <1>5, <2>2
    <3>2. Cardinality(T) > 1
      BY <2>5, <2>6
    <3>3. Cardinality({h \in DOMAIN g.members : g.members[h] = u}) > 1
      BY <3>1, <3>2
    <3> QED BY <3>3, Zenon DEF Twice
  <2> QED BY <1>3, <2>7
<1>8. Len(s) <= Len(clients)
  <2>1. SUFFICES ASSUME Len(clients) < Len(s)
                 PROVE  FALSE
    BY <1>5
  <2>2. PICK f : f = [j \in 1 .. Len(s) |-> CHOOSE i \in 1 .. Len(clients) : clients[i] = s[j]]
    OBVIOUS
  <2>3. \A j \in 1 .. Len(s) : f[j] \in 1 .. Len(clients) /\ clients[f[j]] = s[j]
    BY <1>6, <2>2
  <2>4. f \in [1 .. Len(s) -> 1 .. Len(clients)]
    BY <2>2, <2>3
  <2>5. /\ IsFiniteSet(1 .. Len(s)) /\ Cardinality(1 .. Len(s)) = Len(s)
        /\ IsFiniteSet(1 .. Len(clients)) /\ Cardinality(1 .. Len(clients)) = Len(clients)
    <3>1. ASSUME NEW n \in Nat
          PROVE  IsFiniteSet(1 .. n) /\ Cardinality(1 .. n) = n
      <4>1. IsFiniteSet(1 .. n) /\ Cardinality(1 .. n) = IF 1 > n THEN 0 ELSE n - 1 + 1
        BY FS_Interval
      <4> QED BY <4>1
    <3> QED BY <1>5, <3>1
  <2>6. PICK i \in 1 .. Len(s), j \in 1 .. Len(s) : i # j /\ f[i] = f[j]
    BY <2>1, <2>4, <2>5, FS_PigeonHole
  <2>7. s[i] = s[j]
    BY <2>3, <2>6
  <2> QED BY <1>7, <2>6, <2>7
<1> QED BY <1>3, <1>4, <1>8

\* The steps that may crash the server, and why they do.
LEMMA CrashJoin ==
    ASSUME SetupAssumption, IInv, TakeJoin, server' = "crashed"
    PROVE  Cause
<1>1. SUFFICES ASSUME crossed = {}
               PROVE  FALSE
  BY DEF Cause
<1>2. QueueInv /\ server_queue \in Seq(ToSet(server_queue)) /\ Up
  BY DEF IInv, Types, QueueInv, TakeJoin
<1>3. PICK k \in 1 .. Len(server_queue) :
          IsControl(server_queue[k]) /\ First(server_queue, IsControl) = server_queue[k]
  BY <1>2, FirstControl DEF TakeJoin
<1>4. server_queue[k].action = "JOIN_GROUP" /\ find_group_by_id(server_queue[k].arg) = NoGroup
  BY <1>2, <1>3 DEF TakeJoin, Up
<1>5. server_queue[k] \in ToSet(server_queue)
  BY <1>2, ToSetDef
<1>6. server_queue[k].src \in Users \ crossed
  BY <1>1, <1>2, <1>3, <1>5 DEF QueueInv, SrvMsg, IsControl
<1> QED BY <1>3, <1>4, <1>6, JoinFinds

\* A query for a name that is not found walks the whole table, with the slot that is not filled.
LEMMA CrashQuery ==
    ASSUME SetupAssumption, IInv, TakeNameQuery, server' = "crashed"
    PROVE  Cause
BY DEF TakeNameQuery, Cause

\* So does a query for all.
LEMMA CrashList ==
    ASSUME SetupAssumption, IInv, SendListEntry, server' = "crashed"
    PROVE  Cause
<1>1. TableInv /\ ThreadInv /\ Up /\ qry.step = "list"
  BY DEF IInv, Types, SendListEntry
<1>2. qry.i \in Nat \ {0}
  BY <1>1 DEF ThreadInv, Idle
<1>3. PICK table : table = IF qry.type = "client" THEN clients ELSE groups
  OBVIOUS
<1>4. PICK null : null = IF qry.type = "client" THEN NoUser ELSE NoGroup
  OBVIOUS
<1>5. ~(qry.i > Len(table)) /\ table[qry.i] = null
  BY <1>1, <1>3, <1>4 DEF SendListEntry, Up
<1>6. Len(table) \in Nat /\ DOMAIN table = 1 .. Len(table)
  BY <1>1, <1>3 DEF TableInv
<1>7. HalfFilled(table, null)
  BY <1>2, <1>5, <1>6 DEF HalfFilled
<1> QED BY <1>3, <1>4, <1>7 DEF Cause

\* A message to a group that does not exist goes to the name that was not found.
LEMMA CrashGroupMsg ==
    ASSUME SetupAssumption, IInv, TakeGroupMsg, server' = "crashed"
    PROVE  Cause
<1>1. SUFFICES ASSUME crossed = {}
               PROVE  Has(server_queue, Unknown)
  BY DEF Cause
<1>2. QueueInv /\ MsgInv /\ server_queue \in Seq(ToSet(server_queue)) /\ Up
  BY DEF IInv, Types, QueueInv, TakeGroupMsg
<1>3. PICK k \in 1 .. Len(server_queue) :
          IsGroupMsg(server_queue[k]) /\ First(server_queue, IsGroupMsg) = server_queue[k]
  BY <1>2, FirstGroupMsg DEF TakeGroupMsg
<1>4. find_group_by_id(server_queue[k].dst) = NoGroup
  BY <1>2, <1>3 DEF TakeGroupMsg, Up
<1>5. server_queue[k] \in ToSet(server_queue) /\ DOMAIN server_queue = 1 .. Len(server_queue)
  BY <1>2, ToSetDef
<1>6. server_queue[k].dst = NotFound
  BY <1>1, <1>2, <1>3, <1>4, <1>5 DEF MsgInv, IsGroupMsg
<1> QED BY <1>3, <1>5, <1>6 DEF Has, Unknown, IsGroupMsg

\* So does one to a client.
LEMMA CrashClientMsg ==
    ASSUME SetupAssumption, IInv, TakeClientMsg, server' = "crashed"
    PROVE  Cause
<1>1. SUFFICES ASSUME crossed = {}
               PROVE  Has(server_queue, Unknown)
  BY DEF Cause
<1>2. QueueInv /\ MsgInv /\ server_queue \in Seq(ToSet(server_queue)) /\ Up
  BY DEF IInv, Types, QueueInv, TakeClientMsg
<1>3. PICK k \in 1 .. Len(server_queue) :
          IsClientMsg(server_queue[k]) /\ First(server_queue, IsClientMsg) = server_queue[k]
  BY <1>2, FirstClientMsg DEF TakeClientMsg
<1>4. ~Registered(server_queue[k].dst)
  BY <1>2, <1>3 DEF TakeClientMsg, Up
<1>5. server_queue[k] \in ToSet(server_queue) /\ DOMAIN server_queue = 1 .. Len(server_queue)
  BY <1>2, ToSetDef
<1>6. server_queue[k].dst = NotFound
  BY <1>1, <1>2, <1>3, <1>4, <1>5 DEF MsgInv, IsGroupMsg, IsClientMsg
<1> QED BY <1>3, <1>5, <1>6 DEF Has, Unknown, IsClientMsg

\* The printf of clients[i] goes past the table only in a group with a member twice.
LEMMA CrashForward ==
    ASSUME SetupAssumption, IInv, ForwardGroupMsg, server' = "crashed"
    PROVE  Cause
<1>1. SUFFICES ASSUME crossed = {}, \A i \in DOMAIN groups : ~Twice(groups[i])
               PROVE  HalfFilled(clients, NoUser)
  BY DEF Cause
<1>2. TableInv /\ ThreadInv /\ Up /\ grp.step = "send"
  BY DEF IInv, Types, ForwardGroupMsg
<1>3. /\ grp.n \in Nat /\ grp.i \in 1 .. grp.n /\ find_group_by_id(grp.msg.dst) # NoGroup
      /\ grp.n <= Len(Members(grp.msg.dst))
  BY <1>2 DEF ThreadInv, Idle
<1>4. Len(Members(grp.msg.dst)) <= Len(clients) /\ Len(Members(grp.msg.dst)) \in Nat
  BY <1>1, <1>2, <1>3, FewMembers, GroupAt
<1>5. Len(clients) \in Nat /\ DOMAIN clients = 1 .. Len(clients)
  BY <1>2 DEF TableInv
<1>6. grp.i \in DOMAIN clients /\ ~(grp.i > Len(clients))
  BY <1>3, <1>4, <1>5
<1>7. clients[grp.i] = NoUser
  BY <1>2, <1>6 DEF ForwardGroupMsg, Up
<1> QED BY <1>6, <1>7 DEF HalfFilled

\* The server crashes only on a slot that is counted and not filled, on a message to a name
\* that was not found, in a group with a member twice, or after somebody mixed up two answers.
THEOREM CrashCausesHolds == SafeSpec => CrashCauses
<1>1. ASSUME IInv, Next, server' = "crashed", server = "up"
      PROVE  Cause
  <2>1. CASE ControlThread
    BY <1>1, <2>1, SetupAssumption, CrashJoin
       DEF ControlThread, TakeRegister, FillClient, TakeCreate, FillGroup, JoinCreator, SendControlResponse
  <2>2. CASE QueryThread
    BY <1>1, <2>2, SetupAssumption, CrashQuery, CrashList DEF QueryThread, SendQueryResponse, TakeListQuery
  <2>3. CASE GroupThread \/ ClientThread
    BY <1>1, <2>3, SetupAssumption, CrashGroupMsg, CrashForward, CrashClientMsg
       DEF GroupThread, ClientThread, ForwardClientMsg
  <2>4. ASSUME NEW p \in Procs, RequestStep(p) \/ TypeMessage(p) \/ RouterStep(p) \/ Display(p) \/ Stop(p)
        PROVE  server' = server
    BY <2>4 DEF RequestStep, Start, RegisterDone, AskName, GetName, RequestJoin, JoinDone, RequestCreate,
                CreateDone, RequestList, ListEntry, SendMessage, Send, ReceiveResponse, TypeMessage,
                RouterStep, RouteTake, RoutePut, Display, Stop, serverVars
  <2> QED BY <1>1, <2>1, <2>2, <2>3, <2>4 DEF Next
<1>2. IInv /\ [Next]_vars => [server' = "crashed" /\ server = "up" =>
           \/ HalfFilled(clients, NoUser) \/ HalfFilled(groups, NoGroup)
           \/ Has(server_queue, Unknown)
           \/ \E i \in DOMAIN groups : Twice(groups[i])
           \/ crossed # {}]_vars
  BY <1>1 DEF Cause
<1> QED BY <1>2, InvHolds, PTL DEF SafeSpec, CrashCauses
=============================================================================
