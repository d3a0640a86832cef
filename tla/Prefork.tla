------------------------------ MODULE Prefork ------------------------------
(***************************************************************************)
(* The preforking web server of assignment-2/q2 (prefork_server.c).        *)
(*                                                                         *)
(* A parent keeps a table of worker processes and two counters over it.    *)
(* Workers accept connections from the shared listening socket, report     *)
(* GOT_REQUEST and COMPLETED_REQUEST to the parent over one local datagram *)
(* socket (lsock), and after COMPLETED_REQUEST wait for READ_ALLOWED       *)
(* before they accept again.  The parent reacts to the reports by forking  *)
(* and killing workers.  It learns of a worker only through its reports: a *)
(* worker that exits is never noticed.                                     *)
(*                                                                         *)
(* One action is one step of one process: for a worker, what lies between  *)
(* two blocking calls; for the parent, one fork of exponential_spawn or    *)
(* the handling of one message (it blocks only in recvfrom; the killed     *)
(* worker is waited for inside the same step).                             *)
(***************************************************************************)
EXTENDS Integers, Sequences, FiniteSets

CONSTANTS Pids,                 \* process ids; one is reused once its process was reaped
          Conns,                \* the connections clients make
          MinSpareServers, MaxSpareServers, MaxRequestsPerChild,
          SpawnCap,             \* 32 in exponential_spawn
          QueueCap,             \* datagrams lsock holds before a sender blocks
          Backlog,              \* listen(sock, 5)
          Faults,               \* which of FaultKinds may happen
          NoConn                \* "no connection"

FaultKinds == {"peer",       \* a client resets its connection
               "accept",     \* accept fails in a worker
               "fork",       \* fork fails in the parent
               "quit",       \* SIGQUIT reaches one worker
               "quitparent"} \* SIGQUIT reaches the parent alone

ASSUME ParameterAssumption ==
    /\ IsFiniteSet(Pids)
    /\ MinSpareServers \in Nat
    /\ MaxSpareServers \in Nat
    /\ MaxRequestsPerChild \in Nat
    /\ SpawnCap \in Nat \ {0}
    /\ QueueCap \in Nat \ {0}
    /\ Backlog \in Nat \ {0}
    /\ Faults \subseteq FaultKinds
    /\ NoConn \notin Conns

VARIABLES
    parent,        \* "spawn", "recv"; "exited", "crashed" once it is gone
    spawn_n, spawn_left,   \* exponential_spawn: size of the round, forks left in it
    listed,        \* pids with an entry in the linked list
    idle,          \* those whose entry has is_idle = 1
    reqs_seen,     \* the entry's reqs_handled
    phantoms,      \* entries made for a failed fork (pid = -1, is_idle = 1)
    num_workers, num_idle_workers,
    lsock,         \* the control messages queued for the parent
    wpc,           \* where each worker is in start_worker
    reqs_handled,  \* the worker's own counter
    ack,           \* READ_ALLOWED messages queued at the worker's socket
    csock,         \* the connection a worker holds
    conn, cdata,   \* each client's connection, and what can be read from it
    backlog        \* established connections not yet accepted

parentVars == <<parent, spawn_n, spawn_left>>
tableVars  == <<listed, idle, reqs_seen, phantoms, num_workers, num_idle_workers>>
workerVars == <<wpc, reqs_handled, ack, csock>>
clientVars == <<conn, cdata, backlog>>
vars == <<parentVars, tableVars, lsock, workerVars, clientVars>>

GOT_REQUEST == "GOT_REQUEST"
COMPLETED_REQUEST == "COMPLETED_REQUEST"
ControlMsg == [type : {GOT_REQUEST, COMPLETED_REQUEST}, pid : Pids, reqs_handled : Nat]

WorkerPcs == {"none",      \* no such process
              "start",     \* forked, before bind
              "accept",    \* waiting in accept
              "got",       \* accepted, about to send GOT_REQUEST
              "serve",     \* waiting in recv for the request
              "completed", \* answered, about to send COMPLETED_REQUEST
              "ack",       \* waiting for READ_ALLOWED
              "zombie"}    \* exited, not waited for

Live == {w \in Pids : wpc[w] \notin {"none", "zombie"}}
ParentAlive == parent \in {"spawn", "recv"}

Init ==
    /\ parent = "spawn" /\ spawn_n = 1 /\ spawn_left = 1
    /\ listed = {} /\ idle = {} /\ phantoms = 0
    /\ reqs_seen = [w \in Pids |-> 0]
    /\ num_workers = 0 /\ num_idle_workers = 0
    /\ lsock = <<>>
    /\ wpc = [w \in Pids |-> "none"]
    /\ reqs_handled = [w \in Pids |-> 0]
    /\ ack = [w \in Pids |-> 0]
    /\ csock = [w \in Pids |-> NoConn]
    /\ conn = [c \in Conns |-> "new"]
    /\ cdata = [c \in Conns |-> "nothing"]
    /\ backlog = <<>>

-----------------------------------------------------------------------------
(* The clients.  The kernel completes a connection while the backlog has   *)
(* room; the client then sends its request, or closes its side without one, *)
(* or does neither, or resets.                                             *)

Connect(c) ==
    /\ conn[c] = "new"
    /\ Len(backlog) < Backlog
    /\ conn' = [conn EXCEPT ![c] = "queued"]
    /\ backlog' = Append(backlog, c)
    /\ UNCHANGED <<cdata, parentVars, tableVars, lsock, workerVars>>

SendRequest(c) ==
    /\ conn[c] \in {"queued", "held"}
    /\ cdata[c] = "nothing"
    /\ cdata' = [cdata EXCEPT ![c] = "request"]
    /\ UNCHANGED <<conn, backlog, parentVars, tableVars, lsock, workerVars>>

\* The client closes in good order without having sent anything: what the
\* worker's recv returns is 0.
CloseUnasked(c) ==
    /\ conn[c] \in {"queued", "held"}
    /\ cdata[c] = "nothing"
    /\ cdata' = [cdata EXCEPT ![c] = "end"]
    /\ UNCHANGED <<conn, backlog, parentVars, tableVars, lsock, workerVars>>

ResetByPeer(c) ==
    /\ "peer" \in Faults
    /\ conn[c] \in {"queued", "held"}
    /\ cdata[c] # "reset"
    /\ cdata' = [cdata EXCEPT ![c] = "reset"]
    /\ UNCHANGED <<conn, backlog, parentVars, tableVars, lsock, workerVars>>

-----------------------------------------------------------------------------
(* A worker: start_worker.                                                 *)

Goto(w, l) == wpc' = [wpc EXCEPT ![w] = l]

\* The kernel closes an exiting process's descriptors: the connection it held
\* is lost to the client.
Dropped(w) == [c \in Conns |-> IF c = csock[w] THEN "dropped" ELSE conn[c]]

\* exit: the process becomes a zombie, its socket is closed with what it held.
Exit(w) ==
    /\ Goto(w, "zombie")
    /\ csock' = [csock EXCEPT ![w] = NoConn]
    /\ ack' = [ack EXCEPT ![w] = 0]
    /\ conn' = Dropped(w)

Bind(w) ==
    /\ wpc[w] = "start"
    /\ Goto(w, "accept")
    /\ UNCHANGED <<parentVars, tableVars, lsock, reqs_handled, ack, csock, clientVars>>

\* Mutant: goes on although no READ_ALLOWED has come.
WaitAck_NoWait(w) ==
    /\ wpc[w] = "ack"
    /\ ack' = [ack EXCEPT ![w] = @ - 1]
    /\ Goto(w, "accept")
    /\ UNCHANGED <<parentVars, tableVars, lsock, reqs_handled, csock, clientVars>>

\* The while loop's recvfrom on localsock.
WaitAck(w) ==
    /\ wpc[w] = "ack"
    /\ ack[w] > 0
    /\ ack' = [ack EXCEPT ![w] = @ - 1]
    /\ Goto(w, "accept")
    /\ UNCHANGED <<parentVars, tableVars, lsock, reqs_handled, csock, clientVars>>

Accept(w) ==
    /\ wpc[w] = "accept"
    /\ backlog # <<>>
    /\ csock' = [csock EXCEPT ![w] = Head(backlog)]
    /\ conn' = [conn EXCEPT ![Head(backlog)] = "held"]
    /\ backlog' = Tail(backlog)
    /\ Goto(w, "got")
    /\ UNCHANGED <<parentVars, tableVars, lsock, reqs_handled, ack, cdata>>

\* accept returns -1: start_worker returns and the worker exits.
AcceptFails(w) ==
    /\ "accept" \in Faults
    /\ wpc[w] = "accept"
    /\ Exit(w)
    /\ UNCHANGED <<parentVars, tableVars, lsock, reqs_handled, cdata, backlog>>

\* sendto on lsock: it blocks while the queue is full; with the parent gone it
\* fails, and every caller returns -1, so the worker exits.
SendGotRequest(w) ==
    /\ wpc[w] = "got"
    /\ ParentAlive
    /\ Len(lsock) < QueueCap
    /\ lsock' = Append(lsock, [type |-> GOT_REQUEST, pid |-> w,
                               reqs_handled |-> reqs_handled[w]])
    /\ Goto(w, "serve")
    /\ UNCHANGED <<parentVars, tableVars, reqs_handled, ack, csock, clientVars>>

SendFails(w) ==
    /\ wpc[w] \in {"got", "completed"}
    /\ ~ParentAlive
    /\ Exit(w)
    /\ UNCHANGED <<parentVars, tableVars, lsock, reqs_handled, cdata, backlog>>

\* Mutant: answers without waiting in recv.
Serve_Early(w) ==
    /\ wpc[w] = "serve"
    /\ conn' = [conn EXCEPT ![csock[w]] = "answered"]
    /\ csock' = [csock EXCEPT ![w] = NoConn]
    /\ Goto(w, "completed")
    /\ UNCHANGED <<parentVars, tableVars, lsock, reqs_handled, ack, cdata, backlog>>

\* recv returns the request, or 0 at the end of the client's input (only a
\* negative result is an error); either way send writes the response, then close.
Serve(w) ==
    /\ wpc[w] = "serve"
    /\ cdata[csock[w]] \in {"request", "end"}
    /\ conn' = [conn EXCEPT ![csock[w]] = "answered"]
    /\ csock' = [csock EXCEPT ![w] = NoConn]
    /\ Goto(w, "completed")
    /\ UNCHANGED <<parentVars, tableVars, lsock, reqs_handled, ack, cdata, backlog>>

\* recv (or send) fails on a connection the client has reset.
ServeFails(w) ==
    /\ wpc[w] = "serve"
    /\ cdata[csock[w]] = "reset"
    /\ Exit(w)
    /\ UNCHANGED <<parentVars, tableVars, lsock, reqs_handled, cdata, backlog>>

\* Mutant: reports the count from before the increment.
SendCompletedRequest_Stale(w) ==
    /\ wpc[w] = "completed"
    /\ ParentAlive
    /\ Len(lsock) < QueueCap
    /\ reqs_handled' = [reqs_handled EXCEPT ![w] = @ + 1]
    /\ lsock' = Append(lsock, [type |-> COMPLETED_REQUEST, pid |-> w,
                               reqs_handled |-> reqs_handled[w]])
    /\ Goto(w, "ack")
    /\ UNCHANGED <<parentVars, tableVars, ack, csock, clientVars>>

\* Mutant: accepts again without waiting for READ_ALLOWED.
SendCompletedRequest_NoAck(w) ==
    /\ wpc[w] = "completed"
    /\ ParentAlive
    /\ Len(lsock) < QueueCap
    /\ reqs_handled' = [reqs_handled EXCEPT ![w] = @ + 1]
    /\ lsock' = Append(lsock, [type |-> COMPLETED_REQUEST, pid |-> w,
                               reqs_handled |-> reqs_handled'[w]])
    /\ Goto(w, "accept")
    /\ UNCHANGED <<parentVars, tableVars, ack, csock, clientVars>>

SendCompletedRequest(w) ==
    /\ wpc[w] = "completed"
    /\ ParentAlive
    /\ Len(lsock) < QueueCap
    /\ reqs_handled' = [reqs_handled EXCEPT ![w] = @ + 1]
    /\ lsock' = Append(lsock, [type |-> COMPLETED_REQUEST, pid |-> w,
                               reqs_handled |-> reqs_handled'[w]])
    /\ Goto(w, "ack")
    /\ UNCHANGED <<parentVars, tableVars, ack, csock, clientVars>>

\* sigquit_handler in a worker.
QuitWorker(w) ==
    /\ "quit" \in Faults
    /\ w \in Live
    /\ Exit(w)
    /\ UNCHANGED <<parentVars, tableVars, lsock, reqs_handled, cdata, backlog>>

-----------------------------------------------------------------------------
(* The parent.  L, I, nw, ni and pcs are the table, its counters and the    *)
(* processes as the caller has left them so far.                           *)

\* The pid the kernel gives to a new process.  Which of the free ones it is
\* makes no difference, so one is fixed.
NewPid == LET free == {p \in Pids : wpc[p] = "none"}
          IN  {p \in free : p = CHOOSE q \in free : TRUE}

\* add_worker: the new entry joins the list, marked idle.
add_worker(S, v) == S \cup {v}

create_new_worker(L, I, nw, ni, pcs) ==
    /\ num_workers' = nw + 1
    /\ num_idle_workers' = ni + 1
    /\ \/ \E v \in NewPid :
             /\ listed' = add_worker(L, v)
             /\ idle' = add_worker(I, v)
             /\ reqs_seen' = [reqs_seen EXCEPT ![v] = 0]
             /\ wpc' = [pcs EXCEPT ![v] = "start"]
             /\ reqs_handled' = [reqs_handled EXCEPT ![v] = 0]
             /\ UNCHANGED phantoms
       \/ /\ "fork" \in Faults
          /\ phantoms' = phantoms + 1
          /\ listed' = L /\ idle' = I /\ wpc' = pcs
          /\ UNCHANGED <<reqs_seen, reqs_handled>>

\* exponential_spawn: a round of spawn_n forks, then another of twice the size
\* (at most SpawnCap) until enough workers are idle.
exponential_spawn ==
    /\ parent = "spawn"
    /\ create_new_worker(listed, idle, num_workers, num_idle_workers, wpc)
    /\ IF spawn_left > 1
       THEN /\ spawn_left' = spawn_left - 1
            /\ UNCHANGED <<parent, spawn_n>>
       ELSE IF num_idle_workers' >= MinSpareServers
       THEN /\ parent' = "recv"
            /\ spawn_left' = 0
            /\ UNCHANGED spawn_n
       ELSE /\ spawn_n' = IF 2 * spawn_n > SpawnCap THEN SpawnCap ELSE 2 * spawn_n
            /\ spawn_left' = spawn_n'
            /\ UNCHANGED parent
    /\ UNCHANGED <<lsock, ack, csock, clientVars>>

Sender == Head(lsock).pid

\* The main loop's recvfrom, and the handler's look-up of the sender.  The
\* handlers write through the pointer get_worker_by_id returns without a test
\* for NULL: they have a meaning only for a listed sender (LookupsFound).
Receive(type) == /\ parent = "recv"
                 /\ lsock # <<>>
                 /\ Head(lsock).type = type
                 /\ Sender \in listed
                 /\ lsock' = Tail(lsock)

\* Mutant: compares before the decrement.
HandleGotRequest_Early ==
    /\ Receive(GOT_REQUEST)
    /\ IF num_idle_workers < MinSpareServers
       THEN create_new_worker(listed, idle \ {Sender}, num_workers,
                              num_idle_workers - 1, wpc)
       ELSE /\ idle' = idle \ {Sender}
            /\ num_idle_workers' = num_idle_workers - 1
            /\ UNCHANGED <<listed, reqs_seen, phantoms, num_workers, wpc, reqs_handled>>
    /\ UNCHANGED <<parentVars, ack, csock, clientVars>>

HandleGotRequest ==
    /\ Receive(GOT_REQUEST)
    /\ IF num_idle_workers - 1 < MinSpareServers
       THEN create_new_worker(listed, idle \ {Sender}, num_workers,
                              num_idle_workers - 1, wpc)
       ELSE /\ idle' = idle \ {Sender}
            /\ num_idle_workers' = num_idle_workers - 1
            /\ UNCHANGED <<listed, reqs_seen, phantoms, num_workers, wpc, reqs_handled>>
    /\ UNCHANGED <<parentVars, ack, csock, clientVars>>

\* remove_worker unlinks the entry after the kill; when the entry is the only
\* one, head becomes NULL and head->prev = NULL faults.
OnlyEntry(w) == listed = {w} /\ phantoms = 0

KillAndReap(w) ==
    /\ csock' = [csock EXCEPT ![w] = NoConn]
    /\ ack' = [ack EXCEPT ![w] = 0]
    /\ conn' = Dropped(w)

SetCompleted(w) == reqs_seen' = [reqs_seen EXCEPT ![w] = Head(lsock).reqs_handled]

\* COMPLETED_REQUEST from a worker that is now one idle worker too many, or
\* whose requests are used up; the list holds no other entry.
HandleCompletedLast ==
    /\ Receive(COMPLETED_REQUEST)
    /\ \/ num_idle_workers + 1 > MaxSpareServers
       \/ Head(lsock).reqs_handled = MaxRequestsPerChild
    /\ OnlyEntry(Sender)
    /\ parent' = "crashed"
    /\ num_workers' = num_workers - 1
    /\ idle' = idle \cup {Sender}
    /\ SetCompleted(Sender)
    /\ KillAndReap(Sender)
    /\ Goto(Sender, "none")
    /\ UNCHANGED <<spawn_n, spawn_left, listed, phantoms, num_idle_workers, reqs_handled,
                   cdata, backlog>>

\* Mutant: remove_worker leaves num_idle_workers alone.
HandleCompletedExcess_NoDec ==
    /\ Receive(COMPLETED_REQUEST)
    /\ num_idle_workers + 1 > MaxSpareServers
    /\ ~OnlyEntry(Sender)
    /\ listed' = listed \ {Sender}
    /\ idle' = idle \ {Sender}
    /\ num_workers' = num_workers - 1
    /\ num_idle_workers' = num_idle_workers + 1
    /\ KillAndReap(Sender)
    /\ Goto(Sender, "none")
    /\ UNCHANGED <<parentVars, reqs_seen, phantoms, reqs_handled,
                   cdata, backlog>>

\* num_idle_workers++ and then, in remove_worker, num_workers--, num_idle_workers--.
HandleCompletedExcess ==
    /\ Receive(COMPLETED_REQUEST)
    /\ num_idle_workers + 1 > MaxSpareServers
    /\ ~OnlyEntry(Sender)
    /\ listed' = listed \ {Sender}
    /\ idle' = idle \ {Sender}
    /\ num_workers' = num_workers - 1
    /\ KillAndReap(Sender)
    /\ Goto(Sender, "none")
    /\ UNCHANGED <<parentVars, reqs_seen, phantoms, num_idle_workers, reqs_handled,
                   cdata, backlog>>

HandleCompletedRecycle ==
    /\ Receive(COMPLETED_REQUEST)
    /\ num_idle_workers + 1 <= MaxSpareServers
    /\ Head(lsock).reqs_handled = MaxRequestsPerChild
    /\ ~OnlyEntry(Sender)
    /\ KillAndReap(Sender)
    /\ create_new_worker(listed \ {Sender}, idle \ {Sender}, num_workers - 1,
                         num_idle_workers, [wpc EXCEPT ![Sender] = "none"])
    /\ UNCHANGED <<parentVars, cdata, backlog>>

\* The two branches that call remove_worker.
HandleCompletedRemove ==
    /\ Receive(COMPLETED_REQUEST)
    /\ IF OnlyEntry(Sender) THEN HandleCompletedLast
       ELSE IF num_idle_workers + 1 > MaxSpareServers THEN HandleCompletedExcess
       ELSE HandleCompletedRecycle

\* Mutant: forgets to send READ_ALLOWED.
HandleCompletedAck_NoAck ==
    /\ Receive(COMPLETED_REQUEST)
    /\ num_idle_workers + 1 <= MaxSpareServers
    /\ Head(lsock).reqs_handled # MaxRequestsPerChild
    /\ idle' = idle \cup {Sender}
    /\ num_idle_workers' = num_idle_workers + 1
    /\ SetCompleted(Sender)
    /\ IF Sender \in Live
       THEN UNCHANGED <<ack, parent>>
       ELSE /\ parent' = "exited"
            /\ UNCHANGED ack
    /\ UNCHANGED <<spawn_n, spawn_left, listed, phantoms, num_workers, wpc,
                   reqs_handled, csock, clientVars>>

\* Otherwise the worker is allowed to go on.  The sendto fails when the worker
\* no longer has a socket, and the parent exits.
HandleCompletedAck ==
    /\ Receive(COMPLETED_REQUEST)
    /\ num_idle_workers + 1 <= MaxSpareServers
    /\ Head(lsock).reqs_handled # MaxRequestsPerChild
    /\ idle' = idle \cup {Sender}
    /\ num_idle_workers' = num_idle_workers + 1
    /\ SetCompleted(Sender)
    /\ IF Sender \in Live
       THEN /\ ack' = [ack EXCEPT ![Sender] = @ + 1]
            /\ UNCHANGED parent
       ELSE /\ parent' = "exited"
            /\ UNCHANGED ack
    /\ UNCHANGED <<spawn_n, spawn_left, listed, phantoms, num_workers, wpc,
                   reqs_handled, csock, clientVars>>

\* sigquit_handler in the parent: it closes its sockets and exits, whatever it
\* was doing.
QuitParent ==
    /\ "quitparent" \in Faults
    /\ ParentAlive
    /\ parent' = "exited"
    /\ UNCHANGED <<spawn_n, spawn_left, tableVars, lsock, workerVars, clientVars>>

-----------------------------------------------------------------------------
ParentNext == \/ exponential_spawn \/ HandleGotRequest
              \/ HandleCompletedRemove \/ HandleCompletedAck

\* What a worker does by itself: everything but the faults.
WorkerStep(w) == \/ Bind(w) \/ WaitAck(w) \/ Accept(w) \/ SendGotRequest(w)
                 \/ SendFails(w) \/ Serve(w) \/ ServeFails(w)
                 \/ SendCompletedRequest(w)

WorkerFault(w) == AcceptFails(w) \/ QuitWorker(w)

ClientNext(c) == Connect(c) \/ SendRequest(c) \/ CloseUnasked(c) \/ ResetByPeer(c)

Next == \/ ParentNext
        \/ QuitParent
        \/ \E w \in Pids : WorkerStep(w) \/ WorkerFault(w)
        \/ \E c \in Conns : ClientNext(c)

\* The operating system schedules every process that can run, and wakes the
\* senders that wait for room in lsock in turn.  Nothing is assumed of clients.
Fairness == /\ WF_vars(ParentNext)
            /\ \A w \in Pids :
                  /\ WF_vars(WorkerStep(w))
                  /\ SF_vars(SendGotRequest(w) \/ SendCompletedRequest(w))

SafeSpec == Init /\ [][Next]_vars
Spec == SafeSpec /\ Fairness
-----------------------------------------------------------------------------
(* Properties.                                                             *)

TypeOK ==
    /\ parent \in {"spawn", "recv", "exited", "crashed"}
    /\ spawn_n \in Nat /\ spawn_left \in Nat
    /\ listed \in SUBSET Pids
    /\ idle \in SUBSET listed
    /\ reqs_seen \in [Pids -> Nat]
    /\ phantoms \in Nat
    /\ num_workers \in Int /\ num_idle_workers \in Int
    /\ lsock \in Seq(ControlMsg)
    /\ wpc \in [Pids -> WorkerPcs]
    /\ reqs_handled \in [Pids -> Nat]
    /\ ack \in [Pids -> Nat]
    /\ csock \in [Pids -> Conns \cup {NoConn}]
    /\ conn \in [Conns -> {"new", "queued", "held", "answered", "dropped"}]
    /\ cdata \in [Conns -> {"nothing", "request", "end", "reset"}]
    /\ backlog \in Seq(Conns)

InQueue(q, w, t) == \E i \in 1 .. Len(q) : q[i].pid = w /\ q[i].type = t
Queued(w, t) == InQueue(lsock, w, t)

\* get_worker_by_id finds the sender of every message that reaches the parent,
\* so that handle_control_msg never writes through NULL: no worker that is
\* unlinked has a report still in the queue.
LookupsFound ==
    ParentAlive => \A i \in 1 .. Len(lsock) : lsock[i].pid \in listed

\* num_workers and num_idle_workers, updated apart from the list in four
\* functions, always count what the list holds.
CountersMatchTable ==
    ParentAlive =>
        /\ num_workers = Cardinality(listed) + phantoms
        /\ num_idle_workers = Cardinality(idle) + phantoms

\* The request count in a worker's table entry lags the worker's own counter by
\* exactly the COMPLETED_REQUEST that is still queued.
StatsLagByQueued ==
    ParentAlive =>
        \A w \in listed :
            reqs_handled[w] = reqs_seen[w] + (IF Queued(w, COMPLETED_REQUEST) THEN 1 ELSE 0)

\* Workers that can take a connection without anybody's help, and workers that
\* have taken one of which the parent has not heard yet.
Ready == {w \in Pids : \/ wpc[w] \in {"start", "accept"}
                       \/ wpc[w] = "ack" /\ ack[w] > 0}
Unreported == {w \in Pids : wpc[w] = "got" \/ Queued(w, GOT_REQUEST)}

\* Once started, the server has MinSpareServers workers that really can accept,
\* but for those whose GOT_REQUEST is on its way: the parent's bookkeeping keeps
\* the pool filled although it only ever sees reports, and although workers die
\* on reset connections without a word.
ReadySpares ==
    (parent = "recv" /\ Faults \subseteq {"peer", "quitparent"})
        => Cardinality(Ready) + Cardinality(Unreported) >= MinSpareServers

\* A worker is killed by remove_worker only while it waits for READ_ALLOWED (or
\* when it has exited by itself), never while it holds a connection.
KillsOnlyParked ==
    [][\A w \in Pids : wpc[w] # "none" /\ wpc'[w] = "none"
            => wpc[w] \in {"ack", "zombie"} /\ csock[w] = NoConn]_vars

\* Once started, the number of idle workers never grows past MaxSpareServers
\* (exponential_spawn may have started with more).
NoGrowthPastMaxSpare ==
    [][parent = "recv" /\ num_idle_workers' > num_idle_workers
            => num_idle_workers' <= MaxSpareServers]_vars

\* A worker is recycled before it can serve more than MaxRequestsPerChild
\* connections, although it counts them itself.
RecycledInTime ==
    MaxRequestsPerChild > 0 => \A w \in Pids : reqs_handled[w] <= MaxRequestsPerChild

\* With at least one spare worker, nothing clients do, and no failing accept or
\* fork, takes the parent down: remove_worker never empties the list (where it
\* would write through NULL) and no READ_ALLOWED goes to a worker that is gone
\* (where the parent would exit).
ParentStaysUp ==
    (MinSpareServers >= 1 /\ Faults \cap {"quit", "quitparent"} = {}) => ParentAlive

\* The server as its clients see it.  Without spare workers remove_worker may
\* empty the list, which ends the parent, and then the workers.
Service == INSTANCE ConnService WITH
             CanLose <- MinSpareServers = 0 \/ ~(Faults \subseteq {"peer"}),
             heard <- {c \in Conns : cdata[c] # "nothing"},
             gone <- {c \in Conns : cdata[c] = "reset"},
             waiting <- backlog

\* Connections are taken once, in order of arrival, and answered only once the
\* client has been heard, by its request or by the end of its input; unless
\* workers fail, none is lost but by its own client.
ServiceSafe == Service!SafeSpec

\* ... and every connection is taken and every client that was heard is answered,
\* although others stall for ever or reset and kill the worker that serves them.
ServiceLive == Service!Spec
=============================================================================
