----------------------------- MODULE SimpleMsg -----------------------------
(***************************************************************************)
(* The group messaging system of assignment-1/q3 (server.c, client.c,      *)
(* message.h) over System V message queues.                                *)
(*                                                                         *)
(* One server_queue carries everything that goes to the server and also    *)
(* every message the server forwards (message type cid + 5000); each user  *)
(* has one client_queue for responses and for the messages of his          *)
(* conversations, shared by all client processes the user runs.  The       *)
(* server has four threads, one per kind of request; they share the client *)
(* and group tables without a lock.                                        *)
(*                                                                         *)
(* A client process registers, runs one command and ends; "read" runs a    *)
(* second thread (handle_messages) that moves the user's messages from     *)
(* server_queue to client_queue.  Ctrl+C may end a process anywhere.  A    *)
(* NULL dereference in the server stops all of it ("crashed").  A          *)
(* message's text is its number.                                           *)
(***************************************************************************)
EXTENDS Integers, SequencesExt

CONSTANTS Users, GroupNames,
          Procs, Owner,    \* client processes and the user who runs each
          Setups,          \* what a run starts from, see Setup
          QueueCap,        \* messages a queue holds before msgsnd blocks
          NoUser, NoGroup  \* NULL in clients[] and groups[]

Command == [op : {"join", "create", "read", "send", "send-autodelete"}, kind : {"group"}, name : GroupNames]
           \cup [op : {"read", "send", "send-autodelete"}, kind : {"client"}, name : Users]
           \cup [op : {"list"}, kind : {"group", "client"}, name : {"_ALL_"}]

\* The processes that may be started and their commands; whether a user may start one while
\* another waits for its response; bounds on the messages typed and on the Ctrl+C.
Setup == [cmds : UNION {[ps -> Command] : ps \in SUBSET Procs}, overlap : BOOLEAN, maxMsgs : Nat, maxStops : Nat]

ASSUME SetupAssumption ==
    /\ Owner \in [Procs -> Users]
    /\ Setups \subseteq Setup
    /\ QueueCap \in Nat \ {0}
    /\ NoUser \notin Users
    /\ NoGroup \notin [name : GroupNames, members : Seq(Users)]
    /\ "_ALL_" \notin Users \cup GroupNames   \* the word that asks for a list

VARIABLES
    setup,                  \* a member of Setups
    server_queue, client_queue,
    clients,                \* clients[0 .. total_clients - 1]
    groups,                 \* groups[0 .. total_groups - 1]: name and members
    server,                 \* "up" or "crashed"
    grp, clt, ctl, qry,     \* what each server thread is doing
    pc, target,             \* of each process: where it is, the id it asked for
    router,                 \* of each process: the message its handle_messages holds
    msgs, shown,            \* messages typed; displayed by each process
    crossed                 \* users who had two requests under way, or stopped one

serverVars == <<clients, groups, server, grp, clt, ctl, qry>>
procVars   == <<pc, target, router, msgs, shown, crossed>>
vars == <<setup, server_queue, client_queue, serverVars, procVars>>

cmd == setup.cmds

Idle == [step |-> "idle"]
NotFound == -1

Init ==
    /\ setup \in Setups
    /\ server_queue = <<>>
    /\ client_queue = [u \in Users |-> <<>>]
    /\ clients = <<>> /\ groups = <<>>
    /\ server = "up"
    /\ grp = Idle /\ clt = Idle /\ ctl = Idle /\ qry = Idle
    /\ pc = [p \in Procs |-> "off"]
    /\ target = [p \in Procs |-> NotFound]
    /\ router = [p \in Procs |-> Idle]
    /\ msgs = 0
    /\ shown = [p \in Procs |-> <<>>]
    /\ crossed = {}

(* msgsnd blocks while the queue is full; msgrcv takes the first message   *)
(* of a type.                                                              *)
Room(q) == Len(q) < QueueCap
Has(q, Type(_)) == \E i \in DOMAIN q : Type(q[i])
First(q, Type(_)) == q[SelectInSeq(q, Type)]

Up == server = "up"
-----------------------------------------------------------------------------
(* The server's tables.                                                    *)

\* find_client_by_id walks the table: NULL when id is not there, and a crash on a
\* slot that is counted but not filled yet.
Registered(id) == id # NoUser /\ \E i \in DOMAIN clients : clients[i] = id
HalfFilled(table, null) == \E i \in DOMAIN table : table[i] = null

find_group_by_id(gid) == IF gid + 1 \in DOMAIN groups THEN groups[gid + 1] ELSE NoGroup

\* find_group_by_name: the first group of that name.
GroupsNamed(name) == {i \in DOMAIN groups : groups[i] # NoGroup /\ groups[i].name = name}
GidOf(name) == (CHOOSE i \in GroupsNamed(name) : \A j \in GroupsNamed(name) : i <= j) - 1

-----------------------------------------------------------------------------
(* handle_control_msgs.                                                    *)

IsControl(m) == m.mtype = "CONTROL"
Response(action, gid) == [mtype |-> "CONTROL_RESPONSE", action |-> action, gid |-> gid]
Respond(to, res) == [step |-> "respond", to |-> to, res |-> res]

\* register_client of a new user: total_clients is counted up before the slot is
\* written (likewise total_groups in create_group).
TakeRegister ==
    /\ Up /\ ctl = Idle /\ Has(server_queue, IsControl)
    /\ LET m == First(server_queue, IsControl) IN
       /\ m.action = "REGISTER_CLIENT"
       /\ IF Registered(m.src)
          THEN /\ ctl' = Respond(m.src, Response("REGISTER_CLIENT", NotFound))
               /\ UNCHANGED clients
          ELSE /\ ctl' = [step |-> "client", src |-> m.src]
               /\ clients' = Append(clients, NoUser)
    /\ server_queue' = RemoveFirstMatch(server_queue, IsControl)
    /\ UNCHANGED <<setup, client_queue, groups, server, grp, clt, qry, procVars>>

FillClient ==
    /\ Up /\ ctl.step = "client"
    /\ clients' = [clients EXCEPT ![Len(clients)] = ctl.src]
    /\ ctl' = Respond(ctl.src, Response("REGISTER_CLIENT", NotFound))
    /\ UNCHANGED <<setup, server_queue, client_queue, groups, server, grp, clt, qry, procVars>>

TakeCreate ==
    /\ Up /\ ctl = Idle /\ Has(server_queue, IsControl)
    /\ LET m == First(server_queue, IsControl) IN
       /\ m.action = "CREATE_GROUP"
       /\ groups' = Append(groups, NoGroup)
       /\ ctl' = [step |-> "group", src |-> m.src, name |-> m.arg]
    /\ server_queue' = RemoveFirstMatch(server_queue, IsControl)
    /\ UNCHANGED <<setup, client_queue, clients, server, grp, clt, qry, procVars>>

\* The group enters the table, without a member; ...
FillGroup ==
    /\ Up /\ ctl.step = "group"
    /\ groups' = [groups EXCEPT ![Len(groups)] = [name |-> ctl.name, members |-> <<>>]]
    /\ ctl' = [step |-> "creator", src |-> ctl.src, name |-> ctl.name]
    /\ UNCHANGED <<setup, server_queue, client_queue, clients, server, grp, clt, qry, procVars>>

\* ... join_group makes its creator the first member.
JoinCreator ==
    /\ Up /\ ctl.step = "creator"
    /\ groups' = [groups EXCEPT ![Len(groups)].members = Append(@, ctl.src)]
    /\ ctl' = Respond(ctl.src, Response("CREATE_GROUP", Len(groups) - 1))
    /\ UNCHANGED <<setup, server_queue, client_queue, clients, server, grp, clt, qry, procVars>>

\* Mutant: answers without adding the member.
TakeJoin_NoAdd ==
    /\ Up /\ ctl = Idle /\ Has(server_queue, IsControl)
    /\ LET m == First(server_queue, IsControl) IN
       /\ m.action = "JOIN_GROUP"
       /\ ctl' = Respond(m.src, Response("JOIN_GROUP", NotFound))
    /\ server_queue' = RemoveFirstMatch(server_queue, IsControl)
    /\ UNCHANGED <<setup, client_queue, clients, groups, server, grp, clt, qry, procVars>>

\* join_group appends the client, also when it is a member already.
TakeJoin ==
    /\ Up /\ ctl = Idle /\ Has(server_queue, IsControl)
    /\ LET m == First(server_queue, IsControl) IN
       /\ m.action = "JOIN_GROUP"
       /\ IF find_group_by_id(m.arg) = NoGroup
          THEN server' = "crashed" /\ UNCHANGED <<groups, ctl>>
          ELSE /\ groups' = [groups EXCEPT ![m.arg + 1].members = Append(@, m.src)]
               /\ ctl' = Respond(m.src, Response("JOIN_GROUP", NotFound))
               /\ UNCHANGED server
    /\ server_queue' = RemoveFirstMatch(server_queue, IsControl)
    /\ UNCHANGED <<setup, client_queue, clients, grp, clt, qry, procVars>>

SendControlResponse ==
    /\ Up /\ ctl.step = "respond" /\ Room(client_queue[ctl.to])
    /\ client_queue' = [client_queue EXCEPT ![ctl.to] = Append(@, ctl.res)]
    /\ ctl' = Idle
    /\ UNCHANGED <<setup, server_queue, clients, groups, server, grp, clt, qry, procVars>>

ControlThread == TakeRegister \/ FillClient \/ TakeCreate \/ FillGroup \/ JoinCreator
                 \/ TakeJoin \/ SendControlResponse

-----------------------------------------------------------------------------
(* handle_queries.                                                         *)

IsQuery(m) == m.mtype = "QUERY_REQUEST"
QueryResponse(kind, status, id) ==
    [mtype |-> "QUERY_RESPONSE", kind |-> kind, status |-> status, id |-> id]

\* A query for one name.  Walking the table past a counted, unfilled slot crashes.
TakeNameQuery ==
    /\ Up /\ qry = Idle /\ Has(server_queue, IsQuery)
    /\ LET m == First(server_queue, IsQuery)
           found == IF m.query_type = "client" THEN Registered(m.content)
                                               ELSE GroupsNamed(m.content) # {}
           torn == IF m.query_type = "client" THEN HalfFilled(clients, NoUser)
                                              ELSE HalfFilled(groups, NoGroup)
           id == IF m.query_type = "client" THEN m.content ELSE GidOf(m.content)
       IN  /\ m.content # "_ALL_"
           /\ server' = IF ~found /\ torn THEN "crashed" ELSE "up"
           /\ qry' = [step |-> "respond", src |-> m.src,
                      res |-> IF found THEN QueryResponse("id", "OK", id)
                                       ELSE QueryResponse("id", "ERROR", NotFound)]
    /\ server_queue' = RemoveFirstMatch(server_queue, IsQuery)
    /\ UNCHANGED <<setup, client_queue, clients, groups, grp, clt, ctl, procVars>>

SendQueryResponse ==
    /\ Up /\ qry.step = "respond" /\ Room(client_queue[qry.src])
    /\ client_queue' = [client_queue EXCEPT ![qry.src] = Append(@, qry.res)]
    /\ qry' = Idle
    /\ UNCHANGED <<setup, server_queue, clients, groups, server, grp, clt, ctl, procVars>>

\* A query for all: one response per entry, then "_END_".
TakeListQuery ==
    /\ Up /\ qry = Idle /\ Has(server_queue, IsQuery)
    /\ LET m == First(server_queue, IsQuery) IN
       /\ m.content = "_ALL_"
       /\ qry' = [step |-> "list", src |-> m.src, type |-> m.query_type, i |-> 1]
    /\ server_queue' = RemoveFirstMatch(server_queue, IsQuery)
    /\ UNCHANGED <<setup, client_queue, clients, groups, server, grp, clt, ctl, procVars>>

SendListEntry ==
    /\ Up /\ qry.step = "list" /\ Room(client_queue[qry.src])
    /\ LET table == IF qry.type = "client" THEN clients ELSE groups
           null == IF qry.type = "client" THEN NoUser ELSE NoGroup
       IN  IF qry.i > Len(table)
           THEN /\ qry' = [step |-> "respond", src |-> qry.src,
                           res |-> QueryResponse("_END_", "OK", 0)]
                /\ UNCHANGED <<server, client_queue>>
           ELSE IF table[qry.i] = null
           THEN server' = "crashed" /\ UNCHANGED <<qry, client_queue>>
           ELSE /\ client_queue' = [client_queue EXCEPT ![qry.src] =
                                      Append(@, QueryResponse("entry", "OK", 0))]
                /\ qry' = [qry EXCEPT !.i = @ + 1]
                /\ UNCHANGED server
    /\ UNCHANGED <<setup, server_queue, clients, groups, grp, clt, ctl, procVars>>

QueryThread == TakeNameQuery \/ SendQueryResponse \/ TakeListQuery \/ SendListEntry

-----------------------------------------------------------------------------
(* handle_group_send_msgs and handle_client_send_msgs.                     *)

IsGroupMsg(m) == m.mtype = "GROUP_MESSAGE"
IsClientMsg(m) == m.mtype = "CLIENT_MESSAGE"
Delivery(to, protocol, m) ==
    [mtype |-> "deliver", to |-> to, protocol |-> protocol, src |-> m.src, dst |-> m.dst,
     id |-> m.id, auto_delete |-> m.auto_delete]

\* num_clients is read once, before the loop: a message to a group whose creator has not
\* joined yet goes to nobody.
TakeGroupMsg ==
    /\ Up /\ grp = Idle /\ Has(server_queue, IsGroupMsg)
    /\ LET m == First(server_queue, IsGroupMsg)
           g == find_group_by_id(m.dst)
       IN  IF g = NoGroup THEN server' = "crashed" /\ UNCHANGED grp
           ELSE /\ grp' = IF g.members = <<>> THEN Idle
                          ELSE [step |-> "send", msg |-> m, i |-> 1, n |-> Len(g.members)]
                /\ UNCHANGED server
    /\ server_queue' = RemoveFirstMatch(server_queue, IsGroupMsg)
    /\ UNCHANGED <<setup, client_queue, clients, groups, clt, ctl, qry, procVars>>

\* Mutant: goes one member too far.
ForwardGroupMsg_Past ==
    /\ Up /\ grp.step = "send" /\ Room(server_queue)
    /\ server_queue' = Append(server_queue,
          Delivery(groups[grp.msg.dst + 1].members[grp.i], "GROUP_MESSAGE", grp.msg))
    /\ grp' = IF grp.i > grp.n THEN Idle ELSE [grp EXCEPT !.i = @ + 1]
    /\ UNCHANGED <<setup, client_queue, clients, groups, server, clt, ctl, qry, procVars>>

\* One msgsnd of send_group_message, and its printf of clients[i]->name: the table
\* of all clients, indexed by the position in the group.
ForwardGroupMsg ==
    /\ Up /\ grp.step = "send" /\ Room(server_queue)
    /\ server_queue' = Append(server_queue,
          Delivery(groups[grp.msg.dst + 1].members[grp.i], "GROUP_MESSAGE", grp.msg))
    /\ server' = IF grp.i > Len(clients) \/ clients[grp.i] = NoUser THEN "crashed" ELSE "up"
    /\ grp' = IF grp.i = grp.n THEN Idle ELSE [grp EXCEPT !.i = @ + 1]
    /\ UNCHANGED <<setup, client_queue, clients, groups, clt, ctl, qry, procVars>>

TakeClientMsg ==
    /\ Up /\ clt = Idle /\ Has(server_queue, IsClientMsg)
    /\ LET m == First(server_queue, IsClientMsg) IN
       IF ~Registered(m.dst) THEN server' = "crashed" /\ UNCHANGED clt
       ELSE clt' = [step |-> "send", msg |-> m] /\ UNCHANGED server
    /\ server_queue' = RemoveFirstMatch(server_queue, IsClientMsg)
    /\ UNCHANGED <<setup, client_queue, clients, groups, grp, ctl, qry, procVars>>

ForwardClientMsg ==
    /\ Up /\ clt.step = "send" /\ Room(server_queue)
    /\ server_queue' = Append(server_queue, Delivery(clt.msg.dst, "CLIENT_MESSAGE", clt.msg))
    /\ clt' = Idle
    /\ UNCHANGED <<setup, client_queue, clients, groups, server, grp, ctl, qry, procVars>>

GroupThread == TakeGroupMsg \/ ForwardGroupMsg
ClientThread == TakeClientMsg \/ ForwardClientMsg

-----------------------------------------------------------------------------
(* A client process.                                                       *)

Requesting == {"registering", "ask", "asking", "join", "joining", "create", "creating",
               "list", "listing"}
Ended == {"joined", "created", "listed", "failed"}

\* Another process of p's user is between its first request and its last response.
Alongside(p) == \E q \in Procs \ {p} : Owner[q] = Owner[p] /\ pc[q] \in Requesting

Send(p, m, next) ==
    /\ Room(server_queue)
    /\ server_queue' = Append(server_queue, m)
    /\ pc' = [pc EXCEPT ![p] = next]
    /\ crossed' = IF Alongside(p) THEN crossed \cup {Owner[p]} ELSE crossed
    /\ UNCHANGED <<setup, client_queue, serverVars, target, router, msgs, shown>>

Control(p, action, arg) == [mtype |-> "CONTROL", action |-> action, src |-> Owner[p], arg |-> arg]
Query(p, type, content) ==
    [mtype |-> "QUERY_REQUEST", query_type |-> type, src |-> Owner[p], content |-> content]

\* main: register_self.
Start(p) ==
    /\ pc[p] = "off" /\ p \in DOMAIN cmd
    /\ setup.overlap \/ ~Alongside(p)
    /\ Send(p, Control(p, "REGISTER_CLIENT", NotFound), "registering")

\* Receive a response of one type, whichever request it answers.
ReceiveResponse(p, type, next) ==
    LET u == Owner[p]
        Is(m) == m.mtype = type
    IN  /\ Has(client_queue[u], Is)
        /\ client_queue' = [client_queue EXCEPT ![u] = RemoveFirstMatch(@, Is)]
        /\ pc' = [pc EXCEPT ![p] = next]
        /\ UNCHANGED <<setup, server_queue, serverVars, router, msgs, shown, crossed>>

RegisterDone(p) ==
    /\ pc[p] = "registering"
    /\ ReceiveResponse(p, "CONTROL_RESPONSE",
                       IF cmd[p].op \in {"create", "list"} THEN cmd[p].op ELSE "ask")
    /\ UNCHANGED target

\* get_gid and get_cid.
AskName(p) == pc[p] = "ask" /\ Send(p, Query(p, cmd[p].kind, cmd[p].name), "asking")

\* Mutant: join-group does not check for -1 either.
GetName_Unchecked(p) ==
    /\ pc[p] = "asking"
    /\ LET Is(m) == m.mtype = "QUERY_RESPONSE"
           r == First(client_queue[Owner[p]], Is)
       IN  /\ ReceiveResponse(p, "QUERY_RESPONSE",
                 CASE cmd[p].op = "join" -> "join"
                   [] cmd[p].op = "read" -> "reading"
                   [] OTHER -> "sending")
           /\ target' = [target EXCEPT ![p] = IF r.status = "ERROR" THEN NotFound ELSE r.id]

\* The answer's number; -1 on an error.  Only join-group checks for -1.
GetName(p) ==
    /\ pc[p] = "asking"
    /\ LET Is(m) == m.mtype = "QUERY_RESPONSE"
           r == First(client_queue[Owner[p]], Is)
           id == IF r.status = "ERROR" THEN NotFound ELSE r.id
       IN  /\ ReceiveResponse(p, "QUERY_RESPONSE",
                 CASE cmd[p].op = "join" -> IF id = NotFound THEN "failed" ELSE "join"
                   [] cmd[p].op = "read" -> "reading"
                   [] OTHER -> "sending")
           /\ target' = [target EXCEPT ![p] = id]

RequestJoin(p) == pc[p] = "join" /\ Send(p, Control(p, "JOIN_GROUP", target[p]), "joining")
JoinDone(p) == pc[p] = "joining" /\ ReceiveResponse(p, "CONTROL_RESPONSE", "joined")
               /\ UNCHANGED target

RequestCreate(p) == pc[p] = "create" /\ Send(p, Control(p, "CREATE_GROUP", cmd[p].name), "creating")
CreateDone(p) ==
    /\ pc[p] = "creating"
    /\ ReceiveResponse(p, "CONTROL_RESPONSE", "created")
    /\ LET Is(m) == m.mtype = "CONTROL_RESPONSE"
       IN  target' = [target EXCEPT ![p] = First(client_queue[Owner[p]], Is).gid]

RequestList(p) == pc[p] = "list" /\ Send(p, Query(p, cmd[p].kind, "_ALL_"), "listing")
ListEntry(p) ==
    /\ pc[p] = "listing"
    /\ LET Is(m) == m.mtype = "QUERY_RESPONSE"
           r == First(client_queue[Owner[p]], Is)
       IN  ReceiveResponse(p, "QUERY_RESPONSE", IF r.kind = "_END_" THEN "listed" ELSE "listing")
    /\ UNCHANGED target

\* start_message_send_loop: for a client, a copy goes to the own queue first.
Conversation(kind, id, m) ==
    [mtype |-> "conversation", with |-> <<kind, id>>, src |-> m.src, id |-> m.id]

TypeMessage(p) ==
    /\ pc[p] = "sending" /\ msgs < setup.maxMsgs
    /\ cmd[p].kind = "client" => Room(client_queue[Owner[p]])
    /\ msgs' = msgs + 1
    /\ router' = [router EXCEPT ![p] = [step |-> "typed", id |-> msgs + 1, src |-> Owner[p]]]
    /\ pc' = [pc EXCEPT ![p] = "typed"]
    /\ client_queue' =
         IF cmd[p].kind = "client"
         THEN [client_queue EXCEPT ![Owner[p]] =
                 Append(@, Conversation("client", target[p], router'[p]))]
         ELSE client_queue
    /\ UNCHANGED <<setup, server_queue, serverVars, target, shown, crossed>>

SendMessage(p) ==
    /\ pc[p] = "typed" /\ Room(server_queue)
    /\ server_queue' = Append(server_queue,
          [mtype |-> IF cmd[p].kind = "client" THEN "CLIENT_MESSAGE" ELSE "GROUP_MESSAGE",
           src |-> Owner[p], dst |-> target[p], id |-> router[p].id,
           auto_delete |-> cmd[p].op = "send-autodelete"])
    /\ router' = [router EXCEPT ![p] = Idle]
    /\ pc' = [pc EXCEPT ![p] = "sending"]
    /\ UNCHANGED <<setup, client_queue, serverVars, target, msgs, shown, crossed>>

\* Mutant: takes any of the messages, not the first.
RouteTake_Any(p) ==
    /\ pc[p] = "reading" /\ router[p] = Idle
    /\ \E i \in DOMAIN server_queue :
         /\ server_queue[i].mtype = "deliver" /\ server_queue[i].to = Owner[p]
         /\ router' = [router EXCEPT ![p] = [step |-> "route", msg |-> server_queue[i]]]
         /\ server_queue' = RemoveAt(server_queue, i)
    /\ UNCHANGED <<setup, client_queue, serverVars, pc, target, msgs, shown, crossed>>

\* handle_messages: take a message of this user, drop it if it is too old ...
RouteTake(p) ==
    LET IsMine(m) == m.mtype = "deliver" /\ m.to = Owner[p] IN
    /\ pc[p] = "reading" /\ router[p] = Idle /\ Has(server_queue, IsMine)
    /\ LET m == First(server_queue, IsMine) IN
       \/ router' = [router EXCEPT ![p] = [step |-> "route", msg |-> m]]
       \/ m.auto_delete /\ UNCHANGED router
    /\ server_queue' = RemoveFirstMatch(server_queue, IsMine)
    /\ UNCHANGED <<setup, client_queue, serverVars, pc, target, msgs, shown, crossed>>

\* Mutant: files a message of a client under its reader, not its sender.
RoutePut_Reader(p) ==
    /\ router[p].step = "route" /\ Room(client_queue[Owner[p]])
    /\ LET m == router[p].msg IN
       client_queue' = [client_queue EXCEPT ![Owner[p]] = Append(@,
          Conversation(IF m.protocol = "GROUP_MESSAGE" THEN "group" ELSE "client", m.dst, m))]
    /\ router' = [router EXCEPT ![p] = Idle]
    /\ UNCHANGED <<setup, server_queue, serverVars, pc, target, msgs, shown, crossed>>

\* ... or file it under its conversation.
RoutePut(p) ==
    /\ router[p].step = "route" /\ Room(client_queue[Owner[p]])
    /\ LET m == router[p].msg IN
       client_queue' = [client_queue EXCEPT ![Owner[p]] = Append(@,
          IF m.protocol = "GROUP_MESSAGE" THEN Conversation("group", m.dst, m)
                                          ELSE Conversation("client", m.src, m))]
    /\ router' = [router EXCEPT ![p] = Idle]
    /\ UNCHANGED <<setup, server_queue, serverVars, pc, target, msgs, shown, crossed>>

\* start_message_rcv_loop: display the next message of the conversation.
Display(p) ==
    LET Is(m) == m.mtype = "conversation" /\ m.with = <<cmd[p].kind, target[p]>> IN
    /\ pc[p] = "reading" /\ Has(client_queue[Owner[p]], Is)
    /\ client_queue' = [client_queue EXCEPT ![Owner[p]] = RemoveFirstMatch(@, Is)]
    /\ shown' = [shown EXCEPT ![p] = Append(@, First(client_queue[Owner[p]], Is))]
    /\ UNCHANGED <<setup, server_queue, serverVars, pc, target, router, msgs, crossed>>

\* Ctrl+C.  What the server has sent, or will send, stays in the user's queue; the message
\* that handle_messages holds is lost.
Stop(p) ==
    /\ pc[p] \notin {"off", "stopped"} \cup Ended
    /\ Cardinality({q \in Procs : pc[q] = "stopped"}) < setup.maxStops
    /\ pc' = [pc EXCEPT ![p] = "stopped"]
    /\ router' = [router EXCEPT ![p] = Idle]
    /\ crossed' = IF pc[p] \in Requesting THEN crossed \cup {Owner[p]} ELSE crossed
    /\ UNCHANGED <<setup, server_queue, client_queue, serverVars, target, msgs, shown>>

RequestStep(p) == Start(p) \/ RegisterDone(p) \/ AskName(p) \/ GetName(p) \/ RequestJoin(p)
                  \/ JoinDone(p) \/ RequestCreate(p) \/ CreateDone(p) \/ RequestList(p)
                  \/ ListEntry(p) \/ SendMessage(p)
RouterStep(p) == RouteTake(p) \/ RoutePut(p)

Next == \/ ControlThread \/ QueryThread \/ GroupThread \/ ClientThread
        \/ \E p \in Procs : RequestStep(p) \/ TypeMessage(p) \/ RouterStep(p) \/ Display(p) \/ Stop(p)

\* Threads and processes are scheduled; nobody has to type.
Fairness ==
    /\ WF_vars(ControlThread) /\ WF_vars(QueryThread)
    /\ WF_vars(GroupThread) /\ WF_vars(ClientThread)
    /\ \A p \in Procs : /\ WF_vars(RouterStep(p))
                        /\ WF_vars(Display(p))

SafeSpec == Init /\ [][Next]_vars
Spec == SafeSpec /\ Fairness
-----------------------------------------------------------------------------
(* Properties.                                                             *)

Steps == {"idle", "client", "group", "creator", "respond", "list", "send", "typed", "route"}

TypeOK ==
    /\ Len(server_queue) <= QueueCap
    /\ \A u \in Users : Len(client_queue[u]) <= QueueCap
    /\ \A i \in DOMAIN clients : clients[i] \in Users \cup {NoUser}
    /\ \A i \in DOMAIN groups :
          groups[i] = NoGroup \/ groups[i] \in [name : GroupNames, members : Seq(Users)]
    /\ server \in {"up", "crashed"}
    /\ \A t \in {grp, clt, ctl, qry} : t.step \in Steps
    /\ grp.step = "send" => grp.i \in 1 .. grp.n
    /\ pc \in [Procs -> Requesting \cup Ended \cup {"off", "reading", "sending", "typed", "stopped"}]
    /\ crossed \subseteq Users
    /\ msgs \in 0 .. setup.maxMsgs

IsControlResponse(m) == m.mtype = "CONTROL_RESPONSE"
IsQueryResponse(m) == m.mtype = "QUERY_RESPONSE"
Expected == [registering |-> "REGISTER_CLIENT", joining |-> "JOIN_GROUP", creating |-> "CREATE_GROUP"]

Members(gid) == find_group_by_id(gid).members
TimesMember(u, gid) == Cardinality({i \in DOMAIN Members(gid) : Members(gid)[i] = u})

\* A process acts on the answer to its own request, although all processes of a user share
\* one queue and responses carry no request id (client.c:131, 166, 248, 279, 435): the
\* response it would receive next is of its request, and when it reports success the server
\* has the membership under the group id the process was told.  Except for a user who had
\* two requests under way at once, or stopped a process that waited.
OwnAnswers ==
    \A p \in {p \in Procs : Owner[p] \notin crossed} :
        LET q == client_queue[Owner[p]] IN
        /\ (pc[p] \in DOMAIN Expected /\ Has(q, IsControlResponse))
              => First(q, IsControlResponse).action = Expected[pc[p]]
        /\ (pc[p] = "asking" /\ Has(q, IsQueryResponse)) => First(q, IsQueryResponse).kind = "id"
        /\ (pc[p] = "listing" /\ Has(q, IsQueryResponse))
              => First(q, IsQueryResponse).kind \in {"entry", "_END_"}
        /\ pc[p] \in {"joined", "created"} =>
              /\ find_group_by_id(target[p]) # NoGroup
              /\ find_group_by_id(target[p]).name = cmd[p].name
              /\ TimesMember(Owner[p], target[p]) > 0

\* The copies of message id for user u: waiting in server_queue, held by a
\* router, filed in the user's queue, or displayed.
Copies(u, id) ==
    Cardinality({i \in DOMAIN server_queue : /\ server_queue[i].mtype = "deliver"
                                             /\ server_queue[i].to = u /\ server_queue[i].id = id})
    + Cardinality({p \in Procs : Owner[p] = u /\ router[p].step = "route" /\ router[p].msg.id = id})
    + Cardinality({i \in DOMAIN client_queue[u] : /\ client_queue[u][i].mtype = "conversation"
                                                  /\ client_queue[u][i].id = id})
    + Cardinality({x \in UNION {{p} \X DOMAIN shown[p] : p \in Procs} :
                      Owner[x[1]] = u /\ shown[x[1]][x[2]].id = id})

\* The groups that are written to.
GroupTargets ==
    {target[p] : p \in {p \in Procs : pc[p] \in {"sending", "typed", "stopped"} /\ cmd[p].kind = "group"}}

\* The processes in which a user writes messages.
Writers(u) == {q \in DOMAIN cmd : Owner[q] = u /\ cmd[q].op \in {"send", "send-autodelete"}}

\* A user gets a message at most once for every time he joined the group, and a message
\* between two users at most once, plus the sender's own copy (server.c:133-143,
\* client.c:315-330): who writes to himself has two.  A user who reads in one process sees
\* the messages of a sender who writes in one process, and not to himself, in the order in
\* which they were typed.
OnceInOrder ==
    /\ \A u \in Users, id \in 1 .. msgs :
           \/ Copies(u, id) <= 1
           \/ \E gid \in GroupTargets : Copies(u, id) <= TimesMember(u, gid)
           \/ Copies(u, id) = 2 /\ \E p \in Writers(u) : cmd[p].kind = "client" /\ target[p] = u
    /\ \A p \in Procs : \A i, j \in DOMAIN shown[p] :
           /\ i < j /\ shown[p][i].src = shown[p][j].src
           /\ \A q \in Procs \ {p} : Owner[q] = Owner[p] => pc[q] \notin {"reading", "stopped"}
           /\ \E w \in Procs : Writers(shown[p][i].src) \subseteq {w} /\ target[w] # shown[p][i].src
           => shown[p][i].id <= shown[p][j].id

Unknown(m) == m.mtype \in {"GROUP_MESSAGE", "CLIENT_MESSAGE"} /\ m.dst = NotFound
Twice(g) == \E u \in Users : Cardinality({i \in DOMAIN g.members : g.members[i] = u}) > 1

\* The server crashes only on a slot of a table that is counted and not filled (server.c:229,
\* 253), on a message to a name the client did not find (client.c:339), on a group somebody
\* has joined twice (server.c:141), or on what a user sent after mixing up two answers.
CrashCauses ==
    [][server' = "crashed" /\ server = "up" =>
           \/ HalfFilled(clients, NoUser) \/ HalfFilled(groups, NoGroup)
           \/ Has(server_queue, Unknown)
           \/ \E i \in DOMAIN groups : Twice(groups[i])
           \/ crossed # {}]_vars

\* The process p is displaying the conversation message m belongs to.
Reads(p, m) ==
    /\ pc[p] = "reading"
    /\ \/ /\ m.mtype = "CLIENT_MESSAGE" /\ m.dst = Owner[p]
          /\ cmd[p].kind = "client" /\ target[p] = m.src
       \/ /\ m.mtype = "GROUP_MESSAGE" /\ cmd[p].kind = "group" /\ target[p] = m.dst
          /\ find_group_by_id(m.dst) # NoGroup /\ TimesMember(Owner[p], m.dst) > 0

Ids == UNION {1 .. su.maxMsgs : su \in Setups}

\* handle_messages of p holds a message and waits: the queue of its user is full.
RouterWaits(p) == router[p].step = "route" /\ ~Room(client_queue[Owner[p]])

\* A message to a user who reads that conversation is displayed, unless it may expire; the
\* server crashes; a reader is stopped; or a queue stays full: server_queue, when the
\* server's threads and the clients wait for each other, or the client_queue of a user, when
\* what nobody displays or receives has filled it and handle_messages waits for room for
\* ever (client.c:317, 325; what fills it is put there by 317, 325 and 361).
Delivered ==
    \A id \in Ids :
        (\E p \in Procs, i \in DOMAIN server_queue :
            /\ Reads(p, server_queue[i])
            /\ server_queue[i].id = id /\ ~server_queue[i].auto_delete)
        ~> \/ \E p \in Procs : \E i \in DOMAIN shown[p] : shown[p][i].id = id
           \/ ~Up
           \/ \E p \in DOMAIN cmd : cmd[p].op = "read" /\ pc[p] = "stopped"
           \/ [](~Room(server_queue) \/ \E p \in Procs : RouterWaits(p))
=============================================================================
