--------------------------- MODULE PreforkProofs ---------------------------
(***************************************************************************)
(* Theorems about Prefork, for every number of processes and connections,  *)
(* every setting of the three server parameters and every set of faults.   *)
(*                                                                         *)
(* The heart is the handshake between a worker and the parent: where the   *)
(* worker is in start_worker determines which of its reports are still     *)
(* queued, whether its entry says idle, and whether a READ_ALLOWED is on   *)
(* its way (Handshake).  From it follow the look-ups, the counters, the    *)
(* recycling bound and that the parent stays up.  The refinement of        *)
(* ConnService comes last.                                                 *)
(***************************************************************************)
EXTENDS Prefork, FiniteSetTheorems, TLAPS

G(w) == Queued(w, GOT_REQUEST)
C(w) == Queued(w, COMPLETED_REQUEST)

\* At most one message of each type from one worker, GOT_REQUEST first.
Ordered(q) == \A i, j \in 1 .. Len(q) :
    (i < j /\ q[i].pid = q[j].pid) =>
        q[i].type = GOT_REQUEST /\ q[j].type = COMPLETED_REQUEST

\* A queued COMPLETED_REQUEST carries its sender's present count.
Current == \A i \in 1 .. Len(lsock) :
    lsock[i].type = COMPLETED_REQUEST =>
        lsock[i].reqs_handled = reqs_handled[lsock[i].pid]

\* What is under way between worker w and the parent.
WorkerHandshake(w) ==
    /\ w \in listed <=> wpc[w] # "none"
    /\ G(w) => w \in idle /\ wpc[w] \in {"serve", "completed", "ack", "zombie"}
    /\ C(w) => wpc[w] \in {"ack", "zombie"} /\ (w \in idle <=> G(w))
    /\ wpc[w] \in {"start", "accept", "got"} => w \in idle
    /\ wpc[w] \in {"serve", "completed"} => (w \in idle <=> G(w))
    /\ wpc[w] = "ack" => \/ C(w) /\ ack[w] = 0
                         \/ ~C(w) /\ ~G(w) /\ ack[w] = 1 /\ w \in idle
    /\ wpc[w] # "ack" => ack[w] = 0
    /\ csock[w] # NoConn => wpc[w] \in {"got", "serve"}

\* A worker dies with its COMPLETED_REQUEST queued only by a signal.
ParkedIsAlive(w) == "quit" \notin Faults /\ C(w) => wpc[w] = "ack"

\* A worker that died on a reset connection had reported it.
DeadIsReported(w) ==
    ("accept" \notin Faults /\ "quit" \notin Faults /\ wpc[w] = "zombie" /\ w \in idle) => G(w)

\* A worker that will serve again has requests left.
RequestsLeft(w) ==
    /\ MaxRequestsPerChild > 0
    /\ \/ wpc[w] \in {"start", "accept", "got", "serve", "completed"}
       \/ wpc[w] = "ack" /\ ~C(w)
    => reqs_handled[w] < MaxRequestsPerChild

LagByQueued(w) ==
    w \in listed => reqs_handled[w] = reqs_seen[w] + (IF C(w) THEN 1 ELSE 0)

WorkerInv(w) == /\ WorkerHandshake(w) /\ ParkedIsAlive(w) /\ DeadIsReported(w)
                /\ RequestsLeft(w) /\ LagByQueued(w)

NoPhantoms == "fork" \notin Faults => phantoms = 0

IdleFloor == parent = "recv" => num_idle_workers >= MinSpareServers

Counters == /\ num_workers = Cardinality(listed) + phantoms
            /\ num_idle_workers = Cardinality(idle) + phantoms

TableInv == /\ \A w \in Pids : WorkerInv(w)
            /\ Counters /\ IdleFloor /\ NoPhantoms

IInv == /\ TypeOK
        /\ Ordered(lsock)
        /\ Current
        /\ RecycledInTime
        /\ ParentAlive => TableInv
        /\ ParentStaysUp
-----------------------------------------------------------------------------
(* The queue.                                                              *)

\* A message sent to lsock joins those already queued.
LEMMA InQueueAppend ==
    ASSUME NEW q \in Seq(ControlMsg), NEW m \in ControlMsg, NEW w, NEW t
    PROVE  InQueue(Append(q, m), w, t) <=> InQueue(q, w, t) \/ (m.pid = w /\ m.type = t)
<1> DEFINE r == Append(q, m)
<1>1. /\ Len(r) = Len(q) + 1 /\ Len(q) \in Nat
      /\ \A i \in 1 .. Len(q) : r[i] = q[i]
      /\ r[Len(q) + 1] = m
  OBVIOUS
<1>2. \A i \in 1 .. Len(r) : i \in 1 .. Len(q) \/ i = Len(q) + 1
  BY <1>1
<1>3. \A i \in 1 .. Len(q) : i \in 1 .. Len(r)
  BY <1>1
<1>4. Len(q) + 1 \in 1 .. Len(r)
  BY <1>1
<1> QED BY <1>1, <1>2, <1>3, <1>4 DEF InQueue

\* The message the parent takes from an ordered queue is the only one of its kind.
LEMMA InQueueTail ==
    ASSUME NEW q \in Seq(ControlMsg), q # <<>>, Ordered(q), NEW w, NEW t
    PROVE  InQueue(Tail(q), w, t) <=>
               InQueue(q, w, t) /\ ~(Head(q).pid = w /\ Head(q).type = t)
<1> DEFINE r == Tail(q)
<1>1. /\ Len(r) = Len(q) - 1 /\ Len(q) \in Nat \ {0}
      /\ \A i \in 1 .. Len(r) : r[i] = q[i + 1]
      /\ Head(q) = q[1]
  OBVIOUS
<1>2. ASSUME InQueue(r, w, t)
      PROVE  InQueue(q, w, t) /\ ~(Head(q).pid = w /\ Head(q).type = t)
  <2>1. PICK i \in 1 .. Len(r) : r[i].pid = w /\ r[i].type = t
    BY <1>2 DEF InQueue
  <2>2. i + 1 \in 1 .. Len(q) /\ 1 \in 1 .. Len(q) /\ 1 < i + 1
    BY <1>1, <2>1
  <2>3. q[i + 1].pid = w /\ q[i + 1].type = t
    BY <1>1, <2>1
  <2>4. ~(q[1].pid = w /\ q[1].type = t)
    BY <2>2, <2>3 DEF Ordered, GOT_REQUEST, COMPLETED_REQUEST
  <2> QED BY <1>1, <2>2, <2>3, <2>4 DEF InQueue
<1>3. ASSUME InQueue(q, w, t), ~(Head(q).pid = w /\ Head(q).type = t)
      PROVE  InQueue(r, w, t)
  <2>1. PICK i \in 1 .. Len(q) : q[i].pid = w /\ q[i].type = t
    BY <1>3 DEF InQueue
  <2>2. i # 1
    BY <1>1, <1>3, <2>1
  <2>3. i - 1 \in 1 .. Len(r) /\ r[i - 1] = q[i]
    BY <1>1, <2>1, <2>2
  <2> QED BY <2>1, <2>3 DEF InQueue
<1> QED BY <1>2, <1>3

\* Sending keeps the queue ordered when the sender has nothing queued, or sends
\* COMPLETED_REQUEST with no other COMPLETED_REQUEST queued.
LEMMA OrderedAppend ==
    ASSUME NEW q \in Seq(ControlMsg), NEW m \in ControlMsg, Ordered(q),
           ~InQueue(q, m.pid, COMPLETED_REQUEST),
           m.type = GOT_REQUEST => ~InQueue(q, m.pid, GOT_REQUEST)
    PROVE  Ordered(Append(q, m))
<1> DEFINE r == Append(q, m)
<1>1. /\ Len(r) = Len(q) + 1 /\ Len(q) \in Nat
      /\ \A i \in 1 .. Len(q) : r[i] = q[i] /\ q[i] \in ControlMsg
      /\ r[Len(q) + 1] = m
  OBVIOUS
<1> SUFFICES ASSUME NEW i \in 1 .. Len(r), NEW j \in 1 .. Len(r),
                    i < j, r[i].pid = r[j].pid
             PROVE  r[i].type = GOT_REQUEST /\ r[j].type = COMPLETED_REQUEST
  BY DEF Ordered
<1>2. CASE j \in 1 .. Len(q)
  <2>1. i \in 1 .. Len(q)
    BY <1>1, <1>2
  <2> QED BY <1>1, <1>2, <2>1 DEF Ordered
<1>3. CASE j = Len(q) + 1
  <2>1. i \in 1 .. Len(q) /\ r[i] = q[i] /\ r[j] = m
    BY <1>1, <1>3
  <2>2. q[i].type # COMPLETED_REQUEST
    BY <2>1 DEF InQueue
  <2>3. q[i].type = GOT_REQUEST
    BY <1>1, <2>1, <2>2 DEF ControlMsg
  <2>4. m.type = COMPLETED_REQUEST
    <3>1. m.type # GOT_REQUEST
      BY <2>1, <2>3 DEF InQueue
    <3> QED BY <3>1 DEF ControlMsg
  <2> QED BY <2>1, <2>3, <2>4
<1> QED BY <1>1, <1>2, <1>3

\* Receiving keeps it ordered.
LEMMA OrderedTail ==
    ASSUME NEW q \in Seq(ControlMsg), q # <<>>, Ordered(q)
    PROVE  Ordered(Tail(q))
<1>1. /\ Len(Tail(q)) = Len(q) - 1 /\ Len(q) \in Nat \ {0}
      /\ \A i \in 1 .. Len(Tail(q)) : Tail(q)[i] = q[i + 1] /\ i + 1 \in 1 .. Len(q)
  OBVIOUS
<1> QED BY <1>1 DEF Ordered
-----------------------------------------------------------------------------
(* Types.                                                                  *)

\* create_new_worker keeps the types, whatever the caller hands to it.
LEMMA CreateType ==
    ASSUME TypeOK, NEW L \in SUBSET Pids, NEW I \in SUBSET L, NEW nw \in Int, NEW ni \in Int,
           NEW pcs \in [Pids -> WorkerPcs], create_new_worker(L, I, nw, ni, pcs)
    PROVE  /\ listed' \in SUBSET Pids /\ idle' \in SUBSET listed'
           /\ reqs_seen' \in [Pids -> Nat] /\ phantoms' \in Nat
           /\ num_workers' \in Int /\ num_idle_workers' \in Int
           /\ wpc' \in [Pids -> WorkerPcs] /\ reqs_handled' \in [Pids -> Nat]
<1>1. NewPid \subseteq Pids
  BY DEF NewPid
<1>2. CASE \E v \in NewPid :
             /\ listed' = add_worker(L, v)
             /\ idle' = add_worker(I, v)
             /\ reqs_seen' = [reqs_seen EXCEPT ![v] = 0]
             /\ wpc' = [pcs EXCEPT ![v] = "start"]
             /\ reqs_handled' = [reqs_handled EXCEPT ![v] = 0]
             /\ UNCHANGED phantoms
  <2>1. PICK v \in NewPid :
             /\ listed' = add_worker(L, v)
             /\ idle' = add_worker(I, v)
             /\ reqs_seen' = [reqs_seen EXCEPT ![v] = 0]
             /\ wpc' = [pcs EXCEPT ![v] = "start"]
             /\ reqs_handled' = [reqs_handled EXCEPT ![v] = 0]
             /\ UNCHANGED phantoms
    BY <1>2
  <2>2. num_workers' \in Int /\ num_idle_workers' \in Int
    BY DEF create_new_worker
  <2> QED BY <1>1, <2>1, <2>2 DEF TypeOK, WorkerPcs, add_worker
<1>3. CASE /\ phantoms' = phantoms + 1
           /\ listed' = L /\ idle' = I /\ wpc' = pcs
           /\ UNCHANGED <<reqs_seen, reqs_handled>>
  BY <1>3 DEF create_new_worker, TypeOK
<1> QED BY <1>2, <1>3 DEF create_new_worker

\* Every step keeps the types.
LEMMA TypeStep == TypeOK /\ [Next]_vars => TypeOK'
<1> SUFFICES ASSUME TypeOK, [Next]_vars
             PROVE  TypeOK'
  OBVIOUS
<1> USE ParameterAssumption DEF TypeOK, parentVars, tableVars, workerVars, clientVars
<1>1. CASE exponential_spawn
  <2>1. create_new_worker(listed, idle, num_workers, num_idle_workers, wpc)
    BY <1>1 DEF exponential_spawn
  <2>2. /\ parent' \in {"spawn", "recv", "exited", "crashed"}
        /\ spawn_n' \in Nat /\ spawn_left' \in Nat
    BY <1>1 DEF exponential_spawn
  <2> QED BY <1>1, <2>1, <2>2, CreateType DEF exponential_spawn
<1>2. ASSUME NEW t, Receive(t)
      PROVE  /\ lsock' \in Seq(ControlMsg) /\ Sender \in Pids
             /\ Head(lsock).reqs_handled \in Nat
  <2>1. Head(lsock) \in ControlMsg /\ Tail(lsock) \in Seq(ControlMsg)
    BY <1>2 DEF Receive
  <2> QED BY <1>2, <2>1 DEF Receive, Sender, ControlMsg
<1>3. CASE HandleGotRequest
  <2>1. lsock' \in Seq(ControlMsg)
    BY <1>2, <1>3 DEF HandleGotRequest
  <2>2. CASE create_new_worker(listed, idle \ {Sender}, num_workers, num_idle_workers - 1, wpc)
    <3>1. idle \ {Sender} \in SUBSET listed /\ num_idle_workers - 1 \in Int
      OBVIOUS
    <3> QED BY <1>3, <2>1, <2>2, <3>1, CreateType DEF HandleGotRequest
  <2>3. CASE /\ idle' = idle \ {Sender}
             /\ num_idle_workers' = num_idle_workers - 1
             /\ UNCHANGED <<listed, reqs_seen, phantoms, num_workers, wpc, reqs_handled>>
    BY <1>3, <2>1, <2>3 DEF HandleGotRequest
  <2> QED BY <1>3, <2>2, <2>3 DEF HandleGotRequest
<1>4. CASE HandleCompletedLast
  BY <1>2, <1>4 DEF HandleCompletedLast, SetCompleted, KillAndReap, Dropped, Goto, WorkerPcs,
       Receive
<1>5. CASE HandleCompletedExcess
  BY <1>2, <1>5 DEF HandleCompletedExcess, KillAndReap, Dropped, Goto, WorkerPcs, Receive
<1>6. CASE HandleCompletedRecycle
  <2>1. lsock' \in Seq(ControlMsg) /\ Sender \in Pids
    BY <1>2, <1>6 DEF HandleCompletedRecycle
  <2>2. csock' \in [Pids -> Conns \cup {NoConn}] /\ ack' \in [Pids -> Nat]
        /\ conn' \in [Conns -> {"new", "queued", "held", "answered", "dropped"}]
    BY <1>6, <2>1 DEF HandleCompletedRecycle, KillAndReap, Dropped
  <2>3. /\ listed \ {Sender} \in SUBSET Pids /\ idle \ {Sender} \in SUBSET (listed \ {Sender})
        /\ num_workers - 1 \in Int
        /\ [wpc EXCEPT ![Sender] = "none"] \in [Pids -> WorkerPcs]
    BY <2>1 DEF WorkerPcs
  <2>4. create_new_worker(listed \ {Sender}, idle \ {Sender}, num_workers - 1,
                          num_idle_workers, [wpc EXCEPT ![Sender] = "none"])
    BY <1>6 DEF HandleCompletedRecycle
  <2>5. /\ listed' \in SUBSET Pids /\ idle' \in SUBSET listed'
        /\ reqs_seen' \in [Pids -> Nat] /\ phantoms' \in Nat
        /\ num_workers' \in Int /\ num_idle_workers' \in Int
        /\ wpc' \in [Pids -> WorkerPcs] /\ reqs_handled' \in [Pids -> Nat]
    BY <2>3, <2>4, CreateType
  <2> QED BY <1>6, <2>1, <2>2, <2>5 DEF HandleCompletedRecycle
<1>7. CASE HandleCompletedAck
  <2>1. /\ lsock' \in Seq(ControlMsg) /\ Sender \in Pids /\ Head(lsock).reqs_handled \in Nat
        /\ Sender \in listed
    BY <1>2, <1>7 DEF HandleCompletedAck, Receive
  <2>2. reqs_seen' \in [Pids -> Nat] /\ num_idle_workers' \in Int /\ idle' \in SUBSET listed'
    BY <1>7, <2>1 DEF HandleCompletedAck, SetCompleted
  <2>3. ack' \in [Pids -> Nat] /\ parent' \in {"spawn", "recv", "exited", "crashed"}
    <3>1. CASE Sender \in Live
      <4>1. ack' = [ack EXCEPT ![Sender] = @ + 1] /\ parent' = parent
        BY <1>7, <3>1 DEF HandleCompletedAck
      <4> QED BY <2>1, <4>1
    <3>2. CASE Sender \notin Live
      BY <1>7, <2>1, <3>2 DEF HandleCompletedAck
    <3> QED BY <3>1, <3>2
  <2> QED BY <1>7, <2>1, <2>2, <2>3 DEF HandleCompletedAck
<1>8. CASE QuitParent
  BY <1>8 DEF QuitParent
<1>9. ASSUME NEW w \in Pids, WorkerStep(w) \/ WorkerFault(w)
      PROVE  TypeOK'
  <2> USE DEF Goto, WorkerPcs
  <2>1. CASE Bind(w)
    BY <2>1 DEF Bind
  <2>2. CASE WaitAck(w)
    BY <2>2 DEF WaitAck
  <2>3. CASE Accept(w)
    <3>1. Head(backlog) \in Conns /\ Tail(backlog) \in Seq(Conns)
      BY <2>3 DEF Accept
    <3> QED BY <2>3, <3>1 DEF Accept
  <2>4. CASE SendGotRequest(w)
    <3>1. [type |-> GOT_REQUEST, pid |-> w, reqs_handled |-> reqs_handled[w]] \in ControlMsg
      BY DEF ControlMsg
    <3>2. lsock' \in Seq(ControlMsg)
      BY <2>4, <3>1 DEF SendGotRequest
    <3> QED BY <2>4, <3>2 DEF SendGotRequest
  <2>5. CASE SendFails(w)
    BY <2>5 DEF SendFails, Exit, Dropped
  <2>6. CASE Serve(w)
    BY <2>6 DEF Serve
  <2>7. CASE ServeFails(w)
    BY <2>7 DEF ServeFails, Exit, Dropped
  <2>8. CASE SendCompletedRequest(w)
    <3>1. reqs_handled' \in [Pids -> Nat]
      BY <2>8 DEF SendCompletedRequest
    <3>2. [type |-> COMPLETED_REQUEST, pid |-> w, reqs_handled |-> reqs_handled'[w]] \in ControlMsg
      BY <3>1 DEF ControlMsg
    <3>3. lsock' \in Seq(ControlMsg)
      BY <2>8, <3>2 DEF SendCompletedRequest
    <3> QED BY <2>8, <3>1, <3>3 DEF SendCompletedRequest
  <2>9. CASE AcceptFails(w)
    BY <2>9 DEF AcceptFails, Exit, Dropped
  <2>10. CASE QuitWorker(w)
    BY <2>10 DEF QuitWorker, Exit, Dropped
  <2> QED BY <1>9, <2>1, <2>2, <2>3, <2>4, <2>5, <2>6, <2>7, <2>8, <2>9, <2>10
          DEF WorkerStep, WorkerFault
<1>10. ASSUME NEW c \in Conns, ClientNext(c)
       PROVE  TypeOK'
  <2>1. CASE Connect(c)
    BY <2>1 DEF Connect
  <2>2. CASE SendRequest(c)
    BY <2>2 DEF SendRequest
  <2>3. CASE CloseUnasked(c)
    BY <2>3 DEF CloseUnasked
  <2>4. CASE ResetByPeer(c)
    BY <2>4 DEF ResetByPeer
  <2> QED BY <1>10, <2>1, <2>2, <2>3, <2>4 DEF ClientNext
<1>11. CASE UNCHANGED vars
  BY <1>11 DEF vars
<1> QED BY <1>1, <1>3, <1>4, <1>5, <1>6, <1>7, <1>8, <1>9, <1>10, <1>11 DEF Next, ParentNext, HandleCompletedRemove
-----------------------------------------------------------------------------
(* One worker's part of the invariant.                                     *)

\* A step that changes nothing of worker v keeps its part of the invariant.
LEMMA WorkerFrame ==
    ASSUME NEW v \in Pids, WorkerInv(v), wpc'[v] = wpc[v], ack'[v] = ack[v],
           csock'[v] = csock[v], reqs_handled'[v] = reqs_handled[v],
           reqs_seen'[v] = reqs_seen[v], v \in listed' <=> v \in listed,
           v \in idle' <=> v \in idle, G(v)' <=> G(v), C(v)' <=> C(v)
    PROVE  WorkerInv(v)'
BY DEF WorkerInv, WorkerHandshake, ParkedIsAlive, DeadIsReported, RequestsLeft, LagByQueued

\* A step that leaves lsock alone changes no G or C.
LEMMA QueueFrame ==
    ASSUME lsock' = lsock, NEW v
    PROVE  (G(v)' <=> G(v)) /\ (C(v)' <=> C(v))
BY DEF G, C, Queued, InQueue

\* The parts of IInv that only the queue and the workers' counters matter to.
LEMMA QueueInvFrame ==
    ASSUME IInv, lsock' = lsock, reqs_handled' = reqs_handled
    PROVE  Ordered(lsock)' /\ Current' /\ RecycledInTime'
BY DEF IInv, Ordered, Current, RecycledInTime

\* A step of worker w that neither sends nor is seen by the parent.
LEMMA WorkerLocal ==
    ASSUME IInv, TypeOK', NEW w \in Pids,
           UNCHANGED <<parentVars, tableVars, lsock, reqs_handled>>,
           \A v \in Pids \ {w} : /\ wpc'[v] = wpc[v] /\ ack'[v] = ack[v]
                                 /\ csock'[v] = csock[v],
           ParentAlive => WorkerInv(w)'
    PROVE  IInv'
<1>1. Ordered(lsock)' /\ Current' /\ RecycledInTime'
  BY QueueInvFrame
<1>2. ParentStaysUp' /\ (ParentAlive' <=> ParentAlive)
  BY DEF IInv, ParentStaysUp, ParentAlive, parentVars
<1>3. ASSUME ParentAlive
      PROVE  TableInv'
  <2>1. \A v \in Pids : WorkerInv(v)
    BY <1>3 DEF IInv, TableInv
  <2>2. ASSUME NEW v \in Pids
        PROVE  WorkerInv(v)'
    <3>1. CASE v = w
      BY <1>3, <3>1
    <3>2. CASE v # w
      <4>1. (G(v)' <=> G(v)) /\ (C(v)' <=> C(v))
        BY QueueFrame
      <4> QED BY <2>1, <3>2, <4>1, WorkerFrame DEF tableVars
    <3> QED BY <3>1, <3>2
  <2>3. (Counters /\ IdleFloor /\ NoPhantoms)'
    BY <1>3 DEF IInv, TableInv, Counters, IdleFloor, NoPhantoms, tableVars, parentVars
  <2> QED BY <2>2, <2>3 DEF TableInv
<1> QED BY <1>1, <1>2, <1>3 DEF IInv

\* What the receipt of a message does to the queue.
LEMMA ReceiveFacts ==
    ASSUME IInv, NEW t \in {GOT_REQUEST, COMPLETED_REQUEST}, Receive(t)
    PROVE  /\ Sender \in Pids /\ Sender \in listed /\ ParentAlive
           /\ Head(lsock).reqs_handled \in Nat
           /\ t = GOT_REQUEST => G(Sender)
           /\ t = COMPLETED_REQUEST => /\ C(Sender) /\ ~G(Sender)
                                       /\ Head(lsock).reqs_handled = reqs_handled[Sender]
           /\ \A v : G(v)' <=> G(v) /\ ~(v = Sender /\ t = GOT_REQUEST)
           /\ \A v : C(v)' <=> C(v) /\ ~(v = Sender /\ t = COMPLETED_REQUEST)
           /\ Ordered(lsock')
           /\ \A i \in 1 .. Len(lsock') : \E j \in 1 .. Len(lsock) : lsock'[i] = lsock[j]
<1> USE DEF GOT_REQUEST, COMPLETED_REQUEST
<1>1. /\ lsock \in Seq(ControlMsg) /\ lsock # <<>> /\ Ordered(lsock)
      /\ lsock' = Tail(lsock) /\ Head(lsock).type = t /\ Sender \in listed /\ parent = "recv"
  BY DEF Receive, IInv, TypeOK
<1>2. Head(lsock) \in ControlMsg /\ Head(lsock) = lsock[1] /\ 1 \in 1 .. Len(lsock)
  BY <1>1
<1>3. Sender \in Pids /\ Head(lsock).reqs_handled \in Nat
  BY <1>2 DEF Sender, ControlMsg
<1>4. InQueue(lsock, Sender, t)
  BY <1>1, <1>2 DEF InQueue, Sender
<1>5. \A v, u : InQueue(lsock', v, u) <=> InQueue(lsock, v, u) /\ ~(Sender = v /\ t = u)
  BY <1>1, InQueueTail DEF Sender
<1>6. t = COMPLETED_REQUEST => /\ ~InQueue(lsock, Sender, GOT_REQUEST)
                               /\ Head(lsock).reqs_handled = reqs_handled[Sender]
  <2>1. ASSUME t = COMPLETED_REQUEST, NEW i \in 1 .. Len(lsock),
               lsock[i].pid = Sender, lsock[i].type = GOT_REQUEST
        PROVE  FALSE
    <3>1. i # 1
      BY <1>1, <1>2, <2>1
    <3> QED BY <1>1, <1>2, <2>1, <3>1 DEF Ordered, Sender
  <2>2. t = COMPLETED_REQUEST => Head(lsock).reqs_handled = reqs_handled[Sender]
    BY <1>1, <1>2 DEF IInv, Current, Sender
  <2> QED BY <2>1, <2>2 DEF InQueue
<1>7. \A v : /\ G(v)' <=> InQueue(lsock', v, GOT_REQUEST)
             /\ C(v)' <=> InQueue(lsock', v, COMPLETED_REQUEST)
  BY DEF G, C, Queued, InQueue
<1>8. \A v : /\ G(v) <=> InQueue(lsock, v, GOT_REQUEST)
             /\ C(v) <=> InQueue(lsock, v, COMPLETED_REQUEST)
  BY DEF G, C, Queued
<1>9. Ordered(lsock')
  BY <1>1, OrderedTail
<1>10. \A i \in 1 .. Len(lsock') : \E j \in 1 .. Len(lsock) : lsock'[i] = lsock[j]
  <2>1. \A i \in 1 .. Len(lsock') : lsock'[i] = lsock[i + 1] /\ i + 1 \in 1 .. Len(lsock)
    BY <1>1
  <2> QED BY <2>1
<1>11. ParentAlive
  BY <1>1 DEF ParentAlive
<1> QED BY <1>1, <1>3, <1>4, <1>5, <1>6, <1>7, <1>8, <1>9, <1>10, <1>11
-----------------------------------------------------------------------------
(* The steps of workers and clients.                                       *)

\* Worker steps that send nothing.
LEMMA WorkerQuiet ==
    ASSUME IInv, TypeOK', NEW w \in Pids,
           \/ Bind(w) \/ WaitAck(w) \/ Accept(w) \/ Serve(w) \/ ServeFails(w)
           \/ SendFails(w) \/ AcceptFails(w) \/ QuitWorker(w)
    PROVE  IInv'
<1> USE DEF Goto, Exit
<1>1. /\ UNCHANGED <<parentVars, tableVars, lsock, reqs_handled>>
      /\ \A v \in Pids \ {w} : wpc'[v] = wpc[v] /\ ack'[v] = ack[v] /\ csock'[v] = csock[v]
  <2>0. /\ wpc \in [Pids -> WorkerPcs] /\ ack \in [Pids -> Nat]
        /\ csock \in [Pids -> Conns \cup {NoConn}]
    BY DEF IInv, TypeOK
  <2>1. CASE Bind(w)
    BY <2>0, <2>1 DEF Bind
  <2>2. CASE WaitAck(w)
    BY <2>0, <2>2 DEF WaitAck
  <2>3. CASE Accept(w)
    BY <2>0, <2>3 DEF Accept
  <2>4. CASE Serve(w)
    BY <2>0, <2>4 DEF Serve
  <2>5. CASE ServeFails(w)
    BY <2>0, <2>5 DEF ServeFails
  <2>6. CASE SendFails(w)
    BY <2>0, <2>6 DEF SendFails
  <2>7. CASE AcceptFails(w)
    BY <2>0, <2>7 DEF AcceptFails
  <2>8. CASE QuitWorker(w)
    BY <2>0, <2>8 DEF QuitWorker
  <2> QED BY <2>1, <2>2, <2>3, <2>4, <2>5, <2>6, <2>7, <2>8
<1>2. (G(w)' <=> G(w)) /\ (C(w)' <=> C(w))
  BY <1>1, QueueFrame
<1>3. ASSUME ParentAlive
      PROVE  WorkerInv(w)'
  <2>1. WorkerInv(w) /\ ack[w] \in Nat
    BY <1>3 DEF IInv, TableInv, TypeOK
  <2>2. wpc \in [Pids -> WorkerPcs] /\ ack \in [Pids -> Nat] /\ csock \in [Pids -> Conns \cup {NoConn}]
    BY DEF IInv, TypeOK
  <2> USE <1>1, <1>2, <2>1, <2>2
          DEF WorkerInv, WorkerHandshake, ParkedIsAlive, DeadIsReported, RequestsLeft,
              LagByQueued, tableVars
  <2>3. CASE Bind(w)
    BY <2>3 DEF Bind
  <2>4. CASE WaitAck(w)
    BY <2>4 DEF WaitAck
  <2>5. CASE Accept(w)
    BY <2>5 DEF Accept
  <2>6. CASE Serve(w)
    BY <2>6 DEF Serve
  <2>7. CASE ServeFails(w)
    BY <2>7 DEF ServeFails
  <2>8. CASE SendFails(w)
    BY <1>3, <2>8 DEF SendFails
  <2>9. CASE AcceptFails(w)
    BY <2>9 DEF AcceptFails
  <2>10. CASE QuitWorker(w)
    BY <2>10 DEF QuitWorker, Live
  <2> QED BY <2>3, <2>4, <2>5, <2>6, <2>7, <2>8, <2>9, <2>10
<1> QED BY <1>1, <1>3, WorkerLocal

\* GOT_REQUEST is sent by a worker that has nothing queued.
LEMMA SendGotInv ==
    ASSUME IInv, TypeOK', NEW w \in Pids, SendGotRequest(w)
    PROVE  IInv'
<1> DEFINE m == [type |-> GOT_REQUEST, pid |-> w, reqs_handled |-> reqs_handled[w]]
<1>1. /\ lsock \in Seq(ControlMsg) /\ m \in ControlMsg /\ lsock' = Append(lsock, m)
      /\ m.pid = w /\ m.type = GOT_REQUEST
  BY DEF IInv, TypeOK, SendGotRequest, ControlMsg
<1>2. WorkerInv(w) /\ wpc[w] = "got" /\ ParentAlive /\ TableInv
  BY DEF IInv, TableInv, SendGotRequest
<1>3. ~G(w) /\ ~C(w)
  BY <1>2 DEF WorkerInv, WorkerHandshake
<1>4. ~InQueue(lsock, w, GOT_REQUEST) /\ ~InQueue(lsock, w, COMPLETED_REQUEST)
  BY <1>3 DEF G, C, Queued
<1>5. Ordered(lsock')
  BY <1>1, <1>4, OrderedAppend DEF IInv
<1>6. \A v, t : InQueue(lsock', v, t) <=> InQueue(lsock, v, t) \/ (w = v /\ t = GOT_REQUEST)
  BY <1>1, InQueueAppend
<1>7. \A v : (G(v)' <=> G(v) \/ v = w) /\ (C(v)' <=> C(v))
  <2>1. \A v : (G(v)' <=> InQueue(lsock', v, GOT_REQUEST)) /\ (C(v)' <=> InQueue(lsock', v, COMPLETED_REQUEST))
    BY DEF G, C, Queued, InQueue
  <2> QED BY <1>6, <2>1 DEF G, C, Queued, GOT_REQUEST, COMPLETED_REQUEST
<1>8. Current'
  <2>1. \A i \in 1 .. Len(lsock') : lsock'[i] = m \/ (i \in 1 .. Len(lsock) /\ lsock'[i] = lsock[i])
    BY <1>1
  <2>2. reqs_handled' = reqs_handled
    BY DEF SendGotRequest
  <2> QED BY <1>1, <2>1, <2>2 DEF Current, IInv, GOT_REQUEST, COMPLETED_REQUEST
<1>9. RecycledInTime' /\ ParentStaysUp'
  BY DEF IInv, RecycledInTime, ParentStaysUp, ParentAlive, SendGotRequest, parentVars
<1>10. ASSUME NEW v \in Pids
       PROVE  WorkerInv(v)'
  <2>1. wpc \in [Pids -> WorkerPcs] /\ WorkerInv(v)
    BY <1>2 DEF IInv, TypeOK, TableInv
  <2>2. CASE v = w
    BY <1>2, <1>3, <1>7, <2>1, <2>2
       DEF SendGotRequest, WorkerInv, WorkerHandshake, ParkedIsAlive, DeadIsReported,
           RequestsLeft, LagByQueued, tableVars, Goto
  <2>3. CASE v # w
    <3>1. (G(v)' <=> G(v)) /\ (C(v)' <=> C(v))
      BY <1>7, <2>3
    <3> QED BY <2>1, <2>3, <3>1, WorkerFrame DEF SendGotRequest, Goto, tableVars
  <2> QED BY <2>2, <2>3
<1>11. (Counters /\ IdleFloor /\ NoPhantoms)'
  BY <1>2 DEF TableInv, Counters, IdleFloor, NoPhantoms, SendGotRequest, tableVars, parentVars
<1> QED BY <1>5, <1>8, <1>9, <1>10, <1>11 DEF IInv, TableInv

\* COMPLETED_REQUEST is sent by a worker that has at most GOT_REQUEST queued.
LEMMA SendCompletedInv ==
    ASSUME IInv, TypeOK', NEW w \in Pids, SendCompletedRequest(w)
    PROVE  IInv'
<1> DEFINE m == [type |-> COMPLETED_REQUEST, pid |-> w, reqs_handled |-> reqs_handled'[w]]
<1>1. /\ lsock \in Seq(ControlMsg) /\ m \in ControlMsg /\ lsock' = Append(lsock, m)
      /\ m.pid = w /\ m.type = COMPLETED_REQUEST /\ m.reqs_handled = reqs_handled'[w]
  BY DEF IInv, TypeOK, SendCompletedRequest, ControlMsg
<1>2. WorkerInv(w) /\ wpc[w] = "completed" /\ ParentAlive /\ TableInv
  BY DEF IInv, TableInv, SendCompletedRequest
<1>3. ~C(w)
  BY <1>2 DEF WorkerInv, WorkerHandshake
<1>4. ~InQueue(lsock, w, COMPLETED_REQUEST)
  BY <1>3 DEF C, Queued
<1>5. Ordered(lsock')
  BY <1>1, <1>4, OrderedAppend DEF IInv, GOT_REQUEST, COMPLETED_REQUEST
<1>6. \A v, t : InQueue(lsock', v, t) <=> InQueue(lsock, v, t) \/ (w = v /\ t = COMPLETED_REQUEST)
  BY <1>1, InQueueAppend
<1>7. \A v : (G(v)' <=> G(v)) /\ (C(v)' <=> C(v) \/ v = w)
  <2>1. \A v : (G(v)' <=> InQueue(lsock', v, GOT_REQUEST)) /\ (C(v)' <=> InQueue(lsock', v, COMPLETED_REQUEST))
    BY DEF G, C, Queued, InQueue
  <2> QED BY <1>6, <2>1 DEF G, C, Queued, GOT_REQUEST, COMPLETED_REQUEST
<1>8. /\ reqs_handled \in [Pids -> Nat] /\ wpc \in [Pids -> WorkerPcs]
      /\ reqs_handled' = [reqs_handled EXCEPT ![w] = @ + 1]
      /\ reqs_handled'[w] = reqs_handled[w] + 1
      /\ \A v \in Pids \ {w} : reqs_handled'[v] = reqs_handled[v]
  BY DEF SendCompletedRequest, IInv, TypeOK
<1>9. Current'
  <2>1. \A i \in 1 .. Len(lsock') : lsock'[i] = m \/ (i \in 1 .. Len(lsock) /\ lsock'[i] = lsock[i])
    BY <1>1
  <2>2. \A i \in 1 .. Len(lsock) : lsock[i] \in ControlMsg
    BY <1>1
  <2>3. \A i \in 1 .. Len(lsock) : lsock[i].type = COMPLETED_REQUEST => lsock[i].pid \in Pids \ {w}
    BY <1>4, <2>2 DEF InQueue, ControlMsg
  <2> QED BY <1>1, <1>8, <2>1, <2>3 DEF Current, IInv
<1>10. RecycledInTime'
  <2>1. MaxRequestsPerChild > 0 => reqs_handled[w] < MaxRequestsPerChild
    BY <1>2 DEF WorkerInv, RequestsLeft
  <2> QED BY <1>8, <2>1, ParameterAssumption DEF RecycledInTime, IInv
<1>11. ParentStaysUp'
  BY DEF IInv, ParentStaysUp, ParentAlive, SendCompletedRequest, parentVars
<1>12. ASSUME NEW v \in Pids
       PROVE  WorkerInv(v)'
  <2>1. WorkerInv(v)
    BY <1>2 DEF TableInv
  <2>2. CASE v = w
    BY <1>2, <1>3, <1>7, <1>8, <2>1, <2>2
       DEF SendCompletedRequest, WorkerInv, WorkerHandshake, ParkedIsAlive, DeadIsReported,
           RequestsLeft, LagByQueued, tableVars, Goto, IInv, TypeOK
  <2>3. CASE v # w
    <3>1. (G(v)' <=> G(v)) /\ (C(v)' <=> C(v))
      BY <1>7, <2>3
    <3> QED BY <1>8, <2>1, <2>3, <3>1, WorkerFrame DEF SendCompletedRequest, Goto, tableVars
  <2> QED BY <2>2, <2>3
<1>13. (Counters /\ IdleFloor /\ NoPhantoms)'
  BY <1>2 DEF TableInv, Counters, IdleFloor, NoPhantoms, SendCompletedRequest, tableVars, parentVars
<1> QED BY <1>5, <1>9, <1>10, <1>11, <1>12, <1>13 DEF IInv, TableInv

\* Clients, and steps that change nothing, touch no part of the invariant.
LEMMA OutsideInv ==
    ASSUME IInv, TypeOK', UNCHANGED <<parentVars, tableVars, lsock, workerVars>>
    PROVE  IInv'
<1>1. Ordered(lsock)' /\ Current' /\ RecycledInTime'
  BY QueueInvFrame DEF workerVars
<1>2. ParentStaysUp' /\ (ParentAlive' <=> ParentAlive)
  BY DEF IInv, ParentStaysUp, ParentAlive, parentVars
<1>3. ASSUME ParentAlive, NEW v \in Pids
      PROVE  WorkerInv(v)'
  <2>1. (G(v)' <=> G(v)) /\ (C(v)' <=> C(v)) /\ WorkerInv(v)
    BY <1>3, QueueFrame DEF IInv, TableInv
  <2> QED BY <2>1, WorkerFrame DEF tableVars, workerVars
<1>4. ParentAlive => (Counters /\ IdleFloor /\ NoPhantoms)'
  BY DEF IInv, TableInv, Counters, IdleFloor, NoPhantoms, tableVars, parentVars
<1> QED BY <1>1, <1>2, <1>3, <1>4 DEF IInv, TableInv
-----------------------------------------------------------------------------
(* The steps of the parent.                                                *)

\* A pid the kernel can give out is unknown to the parent.
LEMMA NewPidFacts ==
    ASSUME IInv, ParentAlive, NEW v \in NewPid
    PROVE  /\ v \in Pids /\ wpc[v] = "none" /\ v \notin listed /\ v \notin idle
           /\ ~G(v) /\ ~C(v) /\ ack[v] = 0 /\ csock[v] = NoConn
<1>1. v \in Pids /\ wpc[v] = "none"
  BY DEF NewPid
<1>2. WorkerInv(v) /\ idle \subseteq listed
  BY <1>1 DEF IInv, TableInv, TypeOK
<1> QED BY <1>1, <1>2 DEF WorkerInv, WorkerHandshake

\* What create_new_worker does to each process and to the counters.
LEMMA CreateFacts ==
    ASSUME IInv, ParentAlive, NEW L \in SUBSET listed, NEW I \in SUBSET L,
           NEW nw, NEW ni, NEW pcs \in [Pids -> WorkerPcs],
           create_new_worker(L, I, nw, ni, pcs),
           nw = Cardinality(L) + phantoms, ni = Cardinality(I) + phantoms
    PROVE  /\ \A u \in Pids :
                \/ /\ u \in NewPid /\ wpc'[u] = "start" /\ u \in listed' /\ u \in idle'
                   /\ reqs_handled'[u] = 0 /\ reqs_seen'[u] = 0
                \/ /\ wpc'[u] = pcs[u] /\ (u \in listed' <=> u \in L)
                   /\ (u \in idle' <=> u \in I)
                   /\ reqs_handled'[u] = reqs_handled[u] /\ reqs_seen'[u] = reqs_seen[u]
           /\ Counters' /\ num_idle_workers' = ni + 1
           /\ NoPhantoms'
<1>1. /\ IsFiniteSet(L) /\ IsFiniteSet(I)
      /\ Cardinality(L) \in Nat /\ Cardinality(I) \in Nat /\ phantoms \in Nat
      /\ reqs_seen \in [Pids -> Nat] /\ reqs_handled \in [Pids -> Nat]
  <2>1. IsFiniteSet(listed) /\ phantoms \in Nat
        /\ reqs_seen \in [Pids -> Nat] /\ reqs_handled \in [Pids -> Nat]
    BY ParameterAssumption, FS_Subset DEF IInv, TypeOK
  <2>2. IsFiniteSet(L)
    BY <2>1, FS_Subset
  <2>3. IsFiniteSet(I)
    BY <2>2, FS_Subset
  <2> QED BY <2>1, <2>2, <2>3, FS_CardinalityType
<1>2. NoPhantoms
  BY DEF IInv, TableInv
<1>3. num_workers' = nw + 1 /\ num_idle_workers' = ni + 1
  BY DEF create_new_worker
<1>4. ASSUME NEW v \in NewPid,
             /\ listed' = add_worker(L, v) /\ idle' = add_worker(I, v)
             /\ reqs_seen' = [reqs_seen EXCEPT ![v] = 0]
             /\ wpc' = [pcs EXCEPT ![v] = "start"]
             /\ reqs_handled' = [reqs_handled EXCEPT ![v] = 0]
             /\ UNCHANGED phantoms
      PROVE  /\ \A u \in Pids :
                \/ /\ u \in NewPid /\ wpc'[u] = "start" /\ u \in listed' /\ u \in idle'
                   /\ reqs_handled'[u] = 0 /\ reqs_seen'[u] = 0
                \/ /\ wpc'[u] = pcs[u] /\ (u \in listed' <=> u \in L)
                   /\ (u \in idle' <=> u \in I)
                   /\ reqs_handled'[u] = reqs_handled[u] /\ reqs_seen'[u] = reqs_seen[u]
             /\ Counters' /\ NoPhantoms'
  <2>1. v \in Pids /\ v \notin L /\ v \notin I
    BY NewPidFacts
  <2>2. Cardinality(listed') = Cardinality(L) + 1 /\ Cardinality(idle') = Cardinality(I) + 1
    BY <1>1, <1>4, <2>1, FS_AddElement DEF add_worker
  <2>3. Counters' /\ NoPhantoms'
    BY <1>1, <1>2, <1>3, <1>4, <2>2 DEF Counters, NoPhantoms
  <2> QED BY <1>1, <1>4, <2>1, <2>3 DEF add_worker
<1>5. ASSUME /\ "fork" \in Faults /\ phantoms' = phantoms + 1
             /\ listed' = L /\ idle' = I /\ wpc' = pcs
             /\ UNCHANGED <<reqs_seen, reqs_handled>>
      PROVE  Counters' /\ NoPhantoms'
  BY <1>1, <1>3, <1>5 DEF Counters, NoPhantoms
<1> QED BY <1>3, <1>4, <1>5 DEF create_new_worker

\* The part of a new worker in the invariant.
LEMMA NewWorkerInv ==
    ASSUME IInv, TypeOK', ParentAlive, NEW u \in NewPid, wpc'[u] = "start", u \in listed', u \in idle',
           reqs_handled'[u] = 0, reqs_seen'[u] = 0, ~G(u)', ~C(u)', ack'[u] = ack[u],
           csock'[u] = csock[u]
    PROVE  WorkerInv(u)'
<1>1. ack[u] = 0 /\ csock[u] = NoConn
  BY NewPidFacts
<1> QED BY <1>1 DEF WorkerInv, WorkerHandshake, ParkedIsAlive, DeadIsReported,
           RequestsLeft, LagByQueued

\* Messages that stay queued keep their counts: a new worker's counter starts
\* at zero, but it has no message.
LEMMA CurrentKept ==
    ASSUME IInv, ParentAlive,
           \A i \in 1 .. Len(lsock') : \E j \in 1 .. Len(lsock) : lsock'[i] = lsock[j],
           \A u \in Pids : u \in NewPid \/ reqs_handled'[u] = reqs_handled[u]
    PROVE  Current'
<1> SUFFICES ASSUME NEW i \in 1 .. Len(lsock'), lsock'[i].type = COMPLETED_REQUEST
             PROVE  lsock'[i].reqs_handled = reqs_handled'[lsock'[i].pid]
  BY DEF Current
<1>1. PICK j \in 1 .. Len(lsock) : lsock'[i] = lsock[j]
  OBVIOUS
<1>2. lsock[j].pid \in Pids
  <2>1. lsock[j] \in ControlMsg
    BY DEF IInv, TypeOK
  <2> QED BY <2>1 DEF ControlMsg
<1>3. C(lsock[j].pid)
  BY <1>1 DEF C, Queued, InQueue
<1>4. lsock[j].pid \notin NewPid
  BY <1>3, NewPidFacts
<1> QED BY <1>1, <1>2, <1>4 DEF IInv, Current

\* The bound on a worker's requests survives a fork, which only resets a counter.
LEMMA RecycledKept ==
    ASSUME IInv, \A u \in Pids : reqs_handled'[u] = 0 \/ reqs_handled'[u] = reqs_handled[u]
    PROVE  RecycledInTime'
BY ParameterAssumption DEF IInv, RecycledInTime

\* exponential_spawn.
LEMMA SpawnInv ==
    ASSUME IInv, TypeOK', exponential_spawn
    PROVE  IInv'
<1>1. /\ ParentAlive /\ TableInv
      /\ create_new_worker(listed, idle, num_workers, num_idle_workers, wpc)
      /\ UNCHANGED <<lsock, ack, csock>>
      /\ wpc \in [Pids -> WorkerPcs] /\ idle \in SUBSET listed
  BY DEF exponential_spawn, ParentAlive, IInv, TypeOK
<1>2. num_workers = Cardinality(listed) + phantoms /\ num_idle_workers = Cardinality(idle) + phantoms
  BY <1>1 DEF TableInv, Counters
<1>3. /\ \A u \in Pids :
                \/ /\ u \in NewPid /\ wpc'[u] = "start" /\ u \in listed' /\ u \in idle'
                   /\ reqs_handled'[u] = 0 /\ reqs_seen'[u] = 0
                \/ /\ wpc'[u] = wpc[u] /\ (u \in listed' <=> u \in listed)
                   /\ (u \in idle' <=> u \in idle)
                   /\ reqs_handled'[u] = reqs_handled[u] /\ reqs_seen'[u] = reqs_seen[u]
      /\ Counters' /\ NoPhantoms'
  BY <1>1, <1>2, CreateFacts
<1>4. ASSUME NEW u \in Pids
      PROVE  WorkerInv(u)'
  <2>1. (G(u)' <=> G(u)) /\ (C(u)' <=> C(u))
    BY <1>1, QueueFrame
  <2>2. CASE /\ u \in NewPid /\ wpc'[u] = "start" /\ u \in listed' /\ u \in idle'
             /\ reqs_handled'[u] = 0 /\ reqs_seen'[u] = 0
    BY <1>1, <2>1, <2>2, NewPidFacts, NewWorkerInv
  <2>3. CASE /\ wpc'[u] = wpc[u] /\ (u \in listed' <=> u \in listed)
             /\ (u \in idle' <=> u \in idle)
             /\ reqs_handled'[u] = reqs_handled[u] /\ reqs_seen'[u] = reqs_seen[u]
    <3>1. WorkerInv(u)
      BY <1>1 DEF TableInv
    <3> QED BY <1>1, <2>1, <2>3, <3>1, WorkerFrame
  <2> QED BY <1>3, <2>2, <2>3
<1>5. IdleFloor'
  BY DEF exponential_spawn, IdleFloor
<1>6. Ordered(lsock)' /\ Current' /\ RecycledInTime'
  <2>1. Ordered(lsock)'
    BY <1>1 DEF IInv, Ordered
  <2>2. Current'
    BY <1>1, <1>3, CurrentKept
  <2>3. RecycledInTime'
    BY <1>3, RecycledKept
  <2> QED BY <2>1, <2>2, <2>3
<1>7. ParentStaysUp'
  BY DEF exponential_spawn, ParentStaysUp, ParentAlive
<1> QED BY <1>3, <1>4, <1>5, <1>6, <1>7 DEF IInv, TableInv
\* GOT_REQUEST: the sender's entry becomes busy, and a spare is forked if needed.
LEMMA HandleGotInv ==
    ASSUME IInv, TypeOK', HandleGotRequest
    PROVE  IInv'
<1> DEFINE s == Sender
<1>1. /\ Receive(GOT_REQUEST) /\ parent = "recv" /\ ParentAlive /\ TableInv
      /\ UNCHANGED <<parent, ack, csock>>
      /\ wpc \in [Pids -> WorkerPcs] /\ idle \in SUBSET listed /\ listed \in SUBSET Pids
      /\ reqs_handled \in [Pids -> Nat] /\ num_idle_workers \in Int /\ phantoms \in Nat
  BY DEF HandleGotRequest, Receive, ParentAlive, IInv, TypeOK, parentVars
<1>2. /\ s \in Pids /\ s \in listed /\ G(s)
      /\ \A v : G(v)' <=> G(v) /\ v # s
      /\ \A v : C(v)' <=> C(v)
      /\ Ordered(lsock')
      /\ \A i \in 1 .. Len(lsock') : \E j \in 1 .. Len(lsock) : lsock'[i] = lsock[j]
  BY <1>1, ReceiveFacts DEF GOT_REQUEST, COMPLETED_REQUEST
<1>3. WorkerInv(s) /\ s \in idle /\ s \notin NewPid
  BY <1>1, <1>2, NewPidFacts DEF TableInv, WorkerInv, WorkerHandshake
<1>4. /\ num_workers = Cardinality(listed) + phantoms
      /\ num_idle_workers - 1 = Cardinality(idle \ {s}) + phantoms
  <2>1. IsFiniteSet(idle)
    BY <1>1, ParameterAssumption, FS_Subset
  <2>2. Cardinality(idle \ {s}) = Cardinality(idle) - 1 /\ Cardinality(idle) \in Nat
    BY <1>3, <2>1, FS_RemoveElement, FS_CardinalityType
  <2> QED BY <1>1, <2>2 DEF TableInv, Counters
<1>5. /\ \A u \in Pids :
                \/ /\ u \in NewPid /\ wpc'[u] = "start" /\ u \in listed' /\ u \in idle'
                   /\ reqs_handled'[u] = 0 /\ reqs_seen'[u] = 0
                \/ /\ wpc'[u] = wpc[u] /\ (u \in listed' <=> u \in listed)
                   /\ (u \in idle' <=> u \in idle \ {s})
                   /\ reqs_handled'[u] = reqs_handled[u] /\ reqs_seen'[u] = reqs_seen[u]
      /\ Counters' /\ NoPhantoms' /\ num_idle_workers' >= MinSpareServers
  <2>1. CASE num_idle_workers - 1 < MinSpareServers
    <3>1. create_new_worker(listed, idle \ {s}, num_workers, num_idle_workers - 1, wpc)
      BY <2>1 DEF HandleGotRequest
    <3>2. idle \ {s} \in SUBSET listed
      BY <1>1
    <3>3. num_idle_workers' = num_idle_workers
      BY <1>1, <3>1 DEF create_new_worker
    <3>4. num_idle_workers >= MinSpareServers
      BY <1>1 DEF TableInv, IdleFloor
    <3> QED BY <1>1, <1>4, <3>1, <3>2, <3>3, <3>4, CreateFacts
  <2>2. CASE ~(num_idle_workers - 1 < MinSpareServers)
    <3>1. /\ idle' = idle \ {s} /\ num_idle_workers' = num_idle_workers - 1
          /\ UNCHANGED <<listed, reqs_seen, phantoms, num_workers, wpc, reqs_handled>>
      BY <2>2 DEF HandleGotRequest
    <3>2. NoPhantoms' /\ Counters'
      BY <1>1, <1>4, <3>1 DEF TableInv, NoPhantoms, Counters
    <3> QED BY <1>1, <2>2, <3>1, <3>2, ParameterAssumption
  <2> QED BY <2>1, <2>2
<1>6. ASSUME NEW u \in Pids
      PROVE  WorkerInv(u)'
  <2>1. CASE /\ u \in NewPid /\ wpc'[u] = "start" /\ u \in listed' /\ u \in idle'
             /\ reqs_handled'[u] = 0 /\ reqs_seen'[u] = 0
    BY <1>1, <1>2, <2>1, NewPidFacts, NewWorkerInv
  <2>2. CASE /\ wpc'[u] = wpc[u] /\ (u \in listed' <=> u \in listed)
             /\ (u \in idle' <=> u \in idle \ {s})
             /\ reqs_handled'[u] = reqs_handled[u] /\ reqs_seen'[u] = reqs_seen[u]
    <3>1. CASE u # s
      <4>1. WorkerInv(u)
        BY <1>1 DEF TableInv
      <4>2. (u \in idle' <=> u \in idle) /\ (G(u)' <=> G(u)) /\ (C(u)' <=> C(u))
        BY <1>2, <2>2, <3>1
      <4> QED BY <1>1, <2>2, <4>1, <4>2, WorkerFrame
    <3>2. CASE u = s
      <4>1. u \notin idle' /\ ~G(u)' /\ (C(u)' <=> C(u)) /\ G(u)
        BY <1>2, <2>2, <3>2
      <4> QED BY <1>1, <1>3, <2>2, <3>2, <4>1
              DEF WorkerInv, WorkerHandshake, ParkedIsAlive, DeadIsReported, RequestsLeft, LagByQueued
    <3> QED BY <3>1, <3>2
  <2> QED BY <1>5, <2>1, <2>2
<1>7. Current' /\ RecycledInTime'
  <2>1. Current'
    BY <1>1, <1>2, <1>5, CurrentKept
  <2> QED BY <1>5, <2>1, RecycledKept
<1>8. ParentStaysUp'
  BY <1>1 DEF ParentStaysUp, ParentAlive
<1>9. IdleFloor'
  BY <1>5 DEF IdleFloor
<1> QED BY <1>2, <1>5, <1>6, <1>7, <1>8, <1>9 DEF IInv, TableInv

\* COMPLETED_REQUEST: what the parent knows of the sender.
LEMMA CompletedFacts ==
    ASSUME IInv, Receive(COMPLETED_REQUEST)
    PROVE  /\ parent = "recv" /\ ParentAlive /\ TableInv
           /\ Sender \in Pids /\ Sender \in listed /\ Sender \notin idle /\ Sender \notin NewPid
           /\ wpc[Sender] \in {"ack", "zombie"} /\ WorkerInv(Sender)
           /\ C(Sender) /\ ~G(Sender) /\ Head(lsock).reqs_handled = reqs_handled[Sender]
           /\ \A v : G(v)' <=> G(v)
           /\ \A v : C(v)' <=> C(v) /\ v # Sender
           /\ Ordered(lsock')
           /\ \A i \in 1 .. Len(lsock') : \E j \in 1 .. Len(lsock) : lsock'[i] = lsock[j]
           /\ Cardinality(listed) \in Nat /\ Cardinality(idle) \in Nat /\ phantoms \in Nat
           /\ IsFiniteSet(listed) /\ IsFiniteSet(idle)
           /\ Cardinality(listed \ {Sender}) = Cardinality(listed) - 1
           /\ num_workers = Cardinality(listed) + phantoms
           /\ num_idle_workers = Cardinality(idle) + phantoms
           /\ num_idle_workers >= MinSpareServers
<1>1. parent = "recv" /\ ParentAlive /\ TableInv
  BY DEF IInv, Receive, ParentAlive
<1>2. /\ Sender \in Pids /\ Sender \in listed
      /\ C(Sender) /\ ~G(Sender) /\ Head(lsock).reqs_handled = reqs_handled[Sender]
      /\ \A v : G(v)' <=> G(v)
      /\ \A v : C(v)' <=> C(v) /\ v # Sender
      /\ Ordered(lsock')
      /\ \A i \in 1 .. Len(lsock') : \E j \in 1 .. Len(lsock) : lsock'[i] = lsock[j]
  BY ReceiveFacts DEF GOT_REQUEST, COMPLETED_REQUEST
<1>3. WorkerInv(Sender)
  BY <1>1, <1>2 DEF TableInv
<1>4. wpc[Sender] \in {"ack", "zombie"} /\ Sender \notin idle
  BY <1>2, <1>3 DEF WorkerInv, WorkerHandshake
<1>5. Sender \notin NewPid
  BY <1>1, <1>2, NewPidFacts
<1>6. listed \in SUBSET Pids /\ idle \in SUBSET listed /\ phantoms \in Nat
  BY DEF IInv, TypeOK
<1>7. IsFiniteSet(listed) /\ IsFiniteSet(idle)
  BY <1>6, ParameterAssumption, FS_Subset
<1>8. /\ Cardinality(listed) \in Nat /\ Cardinality(idle) \in Nat
      /\ Cardinality(listed \ {Sender}) = Cardinality(listed) - 1
  BY <1>2, <1>7, FS_CardinalityType, FS_RemoveElement
<1>9. /\ num_workers = Cardinality(listed) + phantoms
      /\ num_idle_workers = Cardinality(idle) + phantoms
      /\ num_idle_workers >= MinSpareServers
  BY <1>1 DEF TableInv, Counters, IdleFloor
<1> QED BY <1>1, <1>2, <1>3, <1>4, <1>5, <1>6, <1>7, <1>8, <1>9

\* remove_worker on the only entry: it happens only without spare workers.
LEMMA CompletedLastInv ==
    ASSUME IInv, TypeOK', HandleCompletedLast
    PROVE  IInv'
<1>1. Receive(COMPLETED_REQUEST) /\ parent' = "crashed" /\ reqs_handled' = reqs_handled
      /\ listed = {Sender} /\ phantoms = 0
  BY DEF HandleCompletedLast, OnlyEntry
<1>2. ~ParentAlive'
  BY <1>1 DEF ParentAlive
<1>3. Current' /\ RecycledInTime'
  BY <1>1, CompletedFacts, CurrentKept, RecycledKept
<1>4. MinSpareServers = 0
  <2>1. idle = {}
    BY <1>1, CompletedFacts DEF IInv, TypeOK
  <2>2. num_idle_workers = 0
    BY <1>1, <2>1, CompletedFacts, FS_EmptySet
  <2> QED BY <1>1, <2>2, CompletedFacts, ParameterAssumption
<1>5. ParentStaysUp'
  BY <1>4 DEF ParentStaysUp
<1> QED BY <1>1, <1>2, <1>3, <1>5, CompletedFacts DEF IInv
\* The reaped worker: no entry, no process, nothing queued.
LEMMA ReapedInv ==
    ASSUME IInv, TypeOK', Receive(COMPLETED_REQUEST), NEW s \in Pids, s = Sender,
           KillAndReap(s), wpc'[s] = "none", s \notin listed'
    PROVE  WorkerInv(s)'
<1>1. ~G(s) /\ (G(s)' <=> G(s)) /\ ~C(s)'
  BY CompletedFacts
<1>2. ack'[s] = 0 /\ csock'[s] = NoConn
  BY DEF KillAndReap, IInv, TypeOK
<1>3. s \notin idle'
  BY DEF TypeOK
<1> QED BY <1>1, <1>2, <1>3
        DEF WorkerInv, WorkerHandshake, ParkedIsAlive, DeadIsReported, RequestsLeft, LagByQueued

\* remove_worker because too many are idle.
LEMMA CompletedExcessInv ==
    ASSUME IInv, TypeOK', HandleCompletedExcess
    PROVE  IInv'
<1>0. PICK s \in Pids : s = Sender
  BY CompletedFacts DEF HandleCompletedExcess
<1>1. /\ Receive(COMPLETED_REQUEST) /\ KillAndReap(s)
      /\ listed' = listed \ {s} /\ idle' = idle \ {s} /\ num_workers' = num_workers - 1
      /\ wpc' = [wpc EXCEPT ![s] = "none"]
      /\ UNCHANGED <<parent, reqs_seen, phantoms, num_idle_workers, reqs_handled>>
      /\ wpc \in [Pids -> WorkerPcs] /\ ack \in [Pids -> Nat]
      /\ csock \in [Pids -> Conns \cup {NoConn}]
  BY <1>0 DEF HandleCompletedExcess, Goto, parentVars, IInv, TypeOK
<1>2. /\ s \in Pids /\ s \notin idle /\ s \in listed /\ ParentAlive /\ TableInv /\ parent = "recv"
      /\ num_idle_workers >= MinSpareServers
  BY <1>0, <1>1, CompletedFacts
<1>3. ASSUME NEW u \in Pids
      PROVE  WorkerInv(u)'
  <2>1. CASE u = s
    BY <1>0, <1>1, <1>2, <2>1, ReapedInv
  <2>2. CASE u # s
    <3>1. WorkerInv(u)
      BY <1>2 DEF TableInv
    <3>2. (G(u)' <=> G(u)) /\ (C(u)' <=> C(u))
      BY <1>0, <1>1, <2>2, CompletedFacts
    <3>3. ack'[u] = ack[u] /\ csock'[u] = csock[u] /\ wpc'[u] = wpc[u]
      BY <1>1, <2>2 DEF KillAndReap
    <3> QED BY <1>1, <2>2, <3>1, <3>2, <3>3, WorkerFrame
  <2> QED BY <2>1, <2>2
<1>4. Counters'
  <2>1. idle' = idle
    BY <1>1, <1>2
  <2>2. /\ Cardinality(listed) \in Nat /\ Cardinality(idle) \in Nat /\ phantoms \in Nat
        /\ Cardinality(listed \ {s}) = Cardinality(listed) - 1
        /\ num_workers = Cardinality(listed) + phantoms
        /\ num_idle_workers = Cardinality(idle) + phantoms
    BY <1>0, <1>1, CompletedFacts
  <2>3. Cardinality(listed') = Cardinality(listed \ {s}) /\ Cardinality(idle') = Cardinality(idle)
    BY <1>1, <2>1, Zenon
  <2>4. num_workers' = num_workers - 1 /\ UNCHANGED <<phantoms, num_idle_workers>>
    BY <1>1
  <2> QED BY <2>2, <2>3, <2>4 DEF Counters
<1>5. NoPhantoms' /\ IdleFloor'
  BY <1>1, <1>2 DEF TableInv, NoPhantoms, IdleFloor
<1>6. Ordered(lsock)' /\ Current' /\ RecycledInTime'
  BY <1>1, CompletedFacts, CurrentKept, RecycledKept
<1>7. ParentStaysUp'
  BY <1>1, <1>2 DEF ParentStaysUp, ParentAlive
<1> QED BY <1>3, <1>4, <1>5, <1>6, <1>7 DEF IInv, TableInv

\* remove_worker and create_new_worker because its requests are used up.
LEMMA CompletedRecycleInv ==
    ASSUME IInv, TypeOK', HandleCompletedRecycle
    PROVE  IInv'
<1>0. PICK s \in Pids : s = Sender
  BY CompletedFacts DEF HandleCompletedRecycle
<1> DEFINE pcs == [wpc EXCEPT ![s] = "none"]
<1>1. /\ Receive(COMPLETED_REQUEST) /\ KillAndReap(s) /\ parent' = parent
      /\ create_new_worker(listed \ {s}, idle \ {s}, num_workers - 1, num_idle_workers, pcs)
      /\ wpc \in [Pids -> WorkerPcs] /\ ack \in [Pids -> Nat]
      /\ csock \in [Pids -> Conns \cup {NoConn}] /\ idle \in SUBSET listed
      /\ num_idle_workers \in Int
  BY <1>0 DEF HandleCompletedRecycle, parentVars, IInv, TypeOK
<1>2. /\ s \in Pids /\ s \notin idle /\ s \in listed /\ s \notin NewPid /\ ParentAlive /\ TableInv
      /\ parent = "recv" /\ num_idle_workers >= MinSpareServers
  BY <1>0, <1>1, CompletedFacts
<1>3. /\ listed \ {s} \in SUBSET listed /\ idle \ {s} \in SUBSET (listed \ {s})
      /\ pcs \in [Pids -> WorkerPcs]
      /\ num_workers - 1 = Cardinality(listed \ {s}) + phantoms
      /\ num_idle_workers = Cardinality(idle \ {s}) + phantoms
  <2>1. idle \ {s} = idle
    BY <1>2
  <2>2. /\ Cardinality(listed) \in Nat /\ Cardinality(idle) \in Nat /\ phantoms \in Nat
        /\ Cardinality(listed \ {s}) = Cardinality(listed) - 1
        /\ num_workers = Cardinality(listed) + phantoms
        /\ num_idle_workers = Cardinality(idle) + phantoms
    BY <1>0, <1>1, CompletedFacts
  <2>3. pcs \in [Pids -> WorkerPcs]
    BY <1>1 DEF WorkerPcs
  <2>4. Cardinality(idle \ {s}) = Cardinality(idle)
    BY <2>1, Zenon
  <2>5. listed \ {s} \in SUBSET listed /\ idle \ {s} \in SUBSET (listed \ {s})
    BY <1>1
  <2>6. /\ num_workers - 1 = Cardinality(listed \ {s}) + phantoms
        /\ num_idle_workers = Cardinality(idle \ {s}) + phantoms
    BY <2>2, <2>4
  <2> QED BY <2>3, <2>5, <2>6
<1>4. /\ \A u \in Pids :
                \/ /\ u \in NewPid /\ wpc'[u] = "start" /\ u \in listed' /\ u \in idle'
                   /\ reqs_handled'[u] = 0 /\ reqs_seen'[u] = 0
                \/ /\ wpc'[u] = pcs[u] /\ (u \in listed' <=> u \in listed \ {s})
                   /\ (u \in idle' <=> u \in idle \ {s})
                   /\ reqs_handled'[u] = reqs_handled[u] /\ reqs_seen'[u] = reqs_seen[u]
      /\ Counters' /\ NoPhantoms' /\ num_idle_workers' = num_idle_workers + 1
  <2> HIDE DEF pcs
  <2> QED BY <1>1, <1>2, <1>3, CreateFacts
<1>5. ASSUME NEW u \in Pids
      PROVE  WorkerInv(u)'
  <2>1. CASE u = s
    <3>1. wpc'[s] = "none" /\ s \notin listed'
      BY <1>1, <1>2, <1>4
    <3> QED BY <1>0, <1>1, <2>1, <3>1, ReapedInv
  <2>2. CASE u # s
    <3>1. WorkerInv(u)
      BY <1>2 DEF TableInv
    <3>2. (G(u)' <=> G(u)) /\ (C(u)' <=> C(u))
      BY <1>0, <1>1, <2>2, CompletedFacts
    <3>3. ack'[u] = ack[u] /\ csock'[u] = csock[u] /\ pcs[u] = wpc[u]
      BY <1>1, <2>2 DEF KillAndReap
    <3>4. CASE /\ u \in NewPid /\ wpc'[u] = "start" /\ u \in listed' /\ u \in idle'
               /\ reqs_handled'[u] = 0 /\ reqs_seen'[u] = 0
      BY <1>2, <3>2, <3>3, <3>4, NewPidFacts, NewWorkerInv
    <3>5. CASE /\ wpc'[u] = pcs[u] /\ (u \in listed' <=> u \in listed \ {s})
               /\ (u \in idle' <=> u \in idle \ {s})
               /\ reqs_handled'[u] = reqs_handled[u] /\ reqs_seen'[u] = reqs_seen[u]
      <4>1. (u \in listed' <=> u \in listed) /\ (u \in idle' <=> u \in idle) /\ wpc'[u] = wpc[u]
        BY <2>2, <3>3, <3>5
      <4> QED BY <3>1, <3>2, <3>3, <3>5, <4>1, WorkerFrame
    <3> QED BY <1>4, <3>4, <3>5
  <2> QED BY <2>1, <2>2
<1>6. IdleFloor'
  BY <1>1, <1>2, <1>4, ParameterAssumption DEF IdleFloor
<1>7. Ordered(lsock)' /\ Current' /\ RecycledInTime'
  BY <1>1, <1>4, CompletedFacts, CurrentKept, RecycledKept
<1>8. ParentStaysUp'
  BY <1>1, <1>2 DEF ParentStaysUp, ParentAlive
<1> QED BY <1>4, <1>5, <1>6, <1>7, <1>8 DEF IInv, TableInv

\* READ_ALLOWED: the sender is idle again and will accept; it is there to be
\* told unless a signal took it.
LEMMA CompletedAckInv ==
    ASSUME IInv, TypeOK', HandleCompletedAck
    PROVE  IInv'
<1>0. PICK s \in Pids : s = Sender
  BY CompletedFacts DEF HandleCompletedAck
<1>1. /\ Receive(COMPLETED_REQUEST) /\ Head(lsock).reqs_handled # MaxRequestsPerChild
      /\ idle' = idle \cup {s} /\ num_idle_workers' = num_idle_workers + 1
      /\ reqs_seen' = [reqs_seen EXCEPT ![s] = Head(lsock).reqs_handled]
      /\ UNCHANGED <<listed, phantoms, num_workers, wpc, reqs_handled, csock>>
      /\ ack \in [Pids -> Nat] /\ reqs_seen \in [Pids -> Nat] /\ reqs_handled \in [Pids -> Nat]
      /\ num_idle_workers \in Int /\ wpc \in [Pids -> WorkerPcs]
  BY <1>0 DEF HandleCompletedAck, SetCompleted, IInv, TypeOK
<1>2. /\ s \in Pids /\ s \notin idle /\ s \in listed /\ ParentAlive /\ TableInv /\ parent = "recv"
      /\ num_idle_workers >= MinSpareServers /\ WorkerInv(s)
      /\ C(s) /\ ~G(s) /\ Head(lsock).reqs_handled = reqs_handled[s]
      /\ wpc[s] \in {"ack", "zombie"}
      /\ ~G(s)' /\ ~C(s)'
  BY <1>0, <1>1, CompletedFacts
<1>3. Ordered(lsock)' /\ Current' /\ RecycledInTime'
  BY <1>1, CompletedFacts, CurrentKept, RecycledKept
<1>4. CASE s \notin Live
  <2>1. parent' = "exited"
    BY <1>0, <1>4 DEF HandleCompletedAck
  <2>2. "quit" \in Faults
    BY <1>2, <1>4 DEF WorkerInv, ParkedIsAlive, Live
  <2>3. ~ParentAlive' /\ ParentStaysUp'
    BY <2>1, <2>2 DEF ParentAlive, ParentStaysUp
  <2> QED BY <1>3, <2>3 DEF IInv
<1>5. CASE s \in Live
  <2>1. ack' = [ack EXCEPT ![s] = @ + 1] /\ parent' = parent
    BY <1>0, <1>5 DEF HandleCompletedAck
  <2>2. wpc[s] = "ack" /\ ack[s] = 0
    BY <1>2, <1>5 DEF Live, WorkerInv, WorkerHandshake
  <2>3. ack'[s] = 1 /\ reqs_seen'[s] = reqs_handled[s]
    BY <1>1, <1>2, <2>1, <2>2
  <2>4. MaxRequestsPerChild > 0 => reqs_handled[s] < MaxRequestsPerChild
    BY <1>1, <1>2, ParameterAssumption DEF IInv, RecycledInTime
  <2>5. ASSUME NEW u \in Pids
        PROVE  WorkerInv(u)'
    <3>1. CASE u = s
      BY <1>1, <1>2, <2>2, <2>3, <2>4, <3>1
         DEF WorkerInv, WorkerHandshake, ParkedIsAlive, DeadIsReported, RequestsLeft, LagByQueued
    <3>2. CASE u # s
      <4>1. WorkerInv(u)
        BY <1>2 DEF TableInv
      <4>2. (G(u)' <=> G(u)) /\ (C(u)' <=> C(u))
        BY <1>0, <1>1, <3>2, CompletedFacts
      <4>3. ack'[u] = ack[u] /\ reqs_seen'[u] = reqs_seen[u] /\ (u \in idle' <=> u \in idle)
        BY <1>1, <2>1, <3>2
      <4> QED BY <1>1, <4>1, <4>2, <4>3, WorkerFrame
    <3> QED BY <3>1, <3>2
  <2>6. Counters'
    <3>1. Cardinality(idle') = Cardinality(idle) + 1
      BY <1>1, <1>2, CompletedFacts, FS_AddElement
    <3> QED BY <1>1, <3>1, CompletedFacts DEF Counters
  <2>7. NoPhantoms' /\ IdleFloor'
    BY <1>1, <1>2, ParameterAssumption DEF TableInv, NoPhantoms, IdleFloor
  <2>8. ParentStaysUp'
    BY <1>2, <2>1 DEF ParentStaysUp, ParentAlive
  <2> QED BY <1>3, <2>5, <2>6, <2>7, <2>8 DEF IInv, TableInv
<1> QED BY <1>4, <1>5

-----------------------------------------------------------------------------
(* The invariant.                                                          *)

\* Initially no process exists and nothing is queued.
LEMMA InitInv == Init => IInv
<1> SUFFICES ASSUME Init
             PROVE  IInv
  OBVIOUS
<1>1. TypeOK
  BY DEF Init, TypeOK, WorkerPcs
<1>2. lsock = <<>> /\ Len(lsock) = 0 /\ \A w, t : ~InQueue(lsock, w, t)
  BY DEF Init, InQueue
<1>3. Ordered(lsock) /\ Current
  BY <1>2 DEF Ordered, Current
<1>4. RecycledInTime /\ ParentStaysUp
  BY ParameterAssumption DEF Init, RecycledInTime, ParentStaysUp, ParentAlive
<1>5. ASSUME NEW w \in Pids
      PROVE  WorkerInv(w)
  <2>1. ~G(w) /\ ~C(w)
    BY <1>2 DEF G, C, Queued
  <2> QED BY <2>1 DEF Init, WorkerInv, WorkerHandshake, ParkedIsAlive, DeadIsReported,
              RequestsLeft, LagByQueued
<1>6. Counters /\ IdleFloor /\ NoPhantoms
  BY FS_EmptySet DEF Init, Counters, IdleFloor, NoPhantoms
<1> QED BY <1>1, <1>3, <1>4, <1>5, <1>6 DEF IInv, TableInv

\* SIGQUIT ends the parent; nothing is claimed of the table after that.
LEMMA QuitParentInv ==
    ASSUME IInv, TypeOK', QuitParent
    PROVE  IInv'
<1>1. lsock' = lsock /\ reqs_handled' = reqs_handled /\ parent' = "exited" /\ "quitparent" \in Faults
  BY DEF QuitParent, workerVars
<1>2. ~ParentAlive' /\ ParentStaysUp'
  BY <1>1 DEF ParentAlive, ParentStaysUp
<1> QED BY <1>1, <1>2, QueueInvFrame DEF IInv

\* Every step keeps the invariant.
LEMMA StepInv == IInv /\ [Next]_vars => IInv'
<1> SUFFICES ASSUME IInv, [Next]_vars
             PROVE  IInv'
  OBVIOUS
<1>1. TypeOK'
  BY TypeStep DEF IInv
<1>2. CASE ParentNext
  BY <1>1, <1>2, SpawnInv, HandleGotInv, CompletedLastInv, CompletedExcessInv,
     CompletedRecycleInv, CompletedAckInv DEF ParentNext, HandleCompletedRemove
<1>3. CASE QuitParent
  BY <1>1, <1>3, QuitParentInv
<1>4. ASSUME NEW w \in Pids, WorkerStep(w) \/ WorkerFault(w)
      PROVE  IInv'
  BY <1>1, <1>4, WorkerQuiet, SendGotInv, SendCompletedInv DEF WorkerStep, WorkerFault
<1>5. ASSUME NEW c \in Conns, ClientNext(c)
      PROVE  IInv'
  <2>1. UNCHANGED <<parentVars, tableVars, lsock, workerVars>>
    BY <1>5 DEF ClientNext, Connect, SendRequest, CloseUnasked, ResetByPeer
  <2> QED BY <1>1, <2>1, OutsideInv
<1>6. CASE UNCHANGED vars
  <2>1. UNCHANGED <<parentVars, tableVars, lsock, workerVars>>
    BY <1>6 DEF vars
  <2> QED BY <1>1, <2>1, OutsideInv
<1> QED BY <1>2, <1>3, <1>4, <1>5, <1>6 DEF Next

\* The handshake invariant holds throughout.
THEOREM InvHolds == SafeSpec => []IInv
<1> QED BY InitInv, StepInv, PTL DEF SafeSpec
-----------------------------------------------------------------------------
(* What follows from it, for every instance of the server.                 *)

\* Every variable keeps its type.
THEOREM TypeHolds == SafeSpec => []TypeOK
<1>1. IInv => TypeOK
  BY DEF IInv
<1> QED BY <1>1, InvHolds, PTL

\* The parent's look-up of a sender always finds its entry, under every fault.
THEOREM LookupsFoundHolds == SafeSpec => []LookupsFound
<1>1. IInv => LookupsFound
  <2> SUFFICES ASSUME IInv, ParentAlive, NEW i \in 1 .. Len(lsock)
               PROVE  lsock[i].pid \in listed
    BY DEF LookupsFound
  <2>1. lsock[i] \in ControlMsg
    BY DEF IInv, TypeOK
  <2>2. lsock[i].pid \in Pids /\ lsock[i].type \in {GOT_REQUEST, COMPLETED_REQUEST}
    BY <2>1 DEF ControlMsg
  <2>3. G(lsock[i].pid) \/ C(lsock[i].pid)
    BY <2>2 DEF G, C, Queued, InQueue
  <2>4. WorkerInv(lsock[i].pid)
    BY <2>2 DEF IInv, TableInv
  <2> QED BY <2>2, <2>3, <2>4 DEF WorkerInv, WorkerHandshake
<1> QED BY <1>1, InvHolds, PTL

\* The two counters count the list, under every fault.
THEOREM CountersMatchTableHolds == SafeSpec => []CountersMatchTable
<1>1. IInv => CountersMatchTable
  BY DEF IInv, TableInv, Counters, CountersMatchTable
<1> QED BY <1>1, InvHolds, PTL

\* The table's request counts lag by exactly the queued reports, under every fault.
THEOREM StatsLagByQueuedHolds == SafeSpec => []StatsLagByQueued
<1>1. IInv => StatsLagByQueued
  <2> SUFFICES ASSUME IInv, ParentAlive, NEW w \in listed
               PROVE  reqs_handled[w] = reqs_seen[w]
                          + (IF Queued(w, COMPLETED_REQUEST) THEN 1 ELSE 0)
    BY DEF StatsLagByQueued
  <2>1. WorkerInv(w)
    BY DEF IInv, TypeOK, TableInv
  <2> QED BY <2>1 DEF WorkerInv, LagByQueued, C
<1> QED BY <1>1, InvHolds, PTL

\* No worker serves more than MaxRequestsPerChild connections, under every fault.
THEOREM RecycledInTimeHolds == SafeSpec => []RecycledInTime
<1>1. IInv => RecycledInTime
  BY DEF IInv
<1> QED BY <1>1, InvHolds, PTL

\* With a spare worker configured, neither clients nor failing calls of accept
\* and fork can take the parent down.
THEOREM ParentStaysUpHolds == SafeSpec => []ParentStaysUp
<1>1. IInv => ParentStaysUp
  BY DEF IInv
<1> QED BY <1>1, InvHolds, PTL

\* The pool is never short of workers that can accept, except by those whose
\* GOT_REQUEST is under way, although clients may kill workers by resetting.
THEOREM ReadySparesHolds == SafeSpec => []ReadySpares
<1>1. IInv => ReadySpares
  <2> SUFFICES ASSUME IInv, parent = "recv", Faults \subseteq {"peer", "quitparent"}
               PROVE  Cardinality(Ready) + Cardinality(Unreported) >= MinSpareServers
    BY DEF ReadySpares
  <2>1. TableInv /\ idle \in SUBSET Pids /\ wpc \in [Pids -> WorkerPcs]
    BY DEF IInv, ParentAlive, TypeOK
  <2>2. num_idle_workers >= MinSpareServers /\ num_idle_workers = Cardinality(idle)
    <3>1. phantoms = 0
      BY <2>1 DEF TableInv, NoPhantoms
    <3>2. IsFiniteSet(idle)
      BY <2>1, ParameterAssumption, FS_Subset
    <3> QED BY <2>1, <3>1, <3>2, FS_CardinalityType DEF TableInv, Counters, IdleFloor
  <2>3. idle \subseteq Ready \cup Unreported
    <3> SUFFICES ASSUME NEW w \in idle
                 PROVE  w \in Ready \cup Unreported
      OBVIOUS
    <3>1. w \in Pids /\ WorkerInv(w) /\ w \in listed
      BY <2>1 DEF TableInv, IInv, TypeOK
    <3>2. wpc[w] \in WorkerPcs /\ wpc[w] # "none"
      BY <2>1, <3>1 DEF WorkerInv, WorkerHandshake
    <3>3. CASE wpc[w] \in {"start", "accept"}
      BY <3>1, <3>3 DEF Ready
    <3>4. CASE wpc[w] = "got"
      BY <3>1, <3>4 DEF Unreported
    <3>5. CASE G(w)
      BY <3>1, <3>5 DEF Unreported, G
    <3>6. CASE wpc[w] \in {"serve", "completed"}
      BY <3>1, <3>5, <3>6 DEF WorkerInv, WorkerHandshake
    <3>7. CASE wpc[w] = "ack"
      <4>1. C(w) => G(w)
        BY <3>1 DEF WorkerInv, WorkerHandshake
      <4>2. ~C(w) => ack[w] = 1
        BY <3>1, <3>7 DEF WorkerInv, WorkerHandshake
      <4> QED BY <3>1, <3>5, <3>7, <4>1, <4>2 DEF Ready
    <3>8. CASE wpc[w] = "zombie"
      BY <3>1, <3>5, <3>8 DEF WorkerInv, DeadIsReported
    <3> QED BY <3>2, <3>3, <3>4, <3>6, <3>7, <3>8 DEF WorkerPcs
  <2>4. /\ IsFiniteSet(Ready) /\ IsFiniteSet(Unreported)
        /\ Cardinality(Ready) \in Nat /\ Cardinality(Unreported) \in Nat
    <3>1. Ready \in SUBSET Pids /\ Unreported \in SUBSET Pids
      BY DEF Ready, Unreported
    <3>2. IsFiniteSet(Ready) /\ IsFiniteSet(Unreported)
      BY <3>1, ParameterAssumption, FS_Subset
    <3> QED BY <3>2, FS_CardinalityType
  <2>5. /\ IsFiniteSet(Ready \cup Unreported)
        /\ Cardinality(Ready \cup Unreported) =
              Cardinality(Ready) + Cardinality(Unreported) - Cardinality(Ready \cap Unreported)
    BY <2>4, FS_Union
  <2>6. Cardinality(Ready \cap Unreported) \in Nat
    <3>1. Ready \cap Unreported \in SUBSET Ready
      OBVIOUS
    <3> QED BY <2>4, <3>1, FS_Subset, FS_CardinalityType
  <2>7. Cardinality(idle) <= Cardinality(Ready \cup Unreported) /\ Cardinality(idle) \in Nat
    <3>1. IsFiniteSet(idle)
      BY <2>1, ParameterAssumption, FS_Subset
    <3> QED BY <2>3, <2>5, <3>1, FS_Subset, FS_CardinalityType
  <2> QED BY <2>2, <2>4, <2>5, <2>6, <2>7, ParameterAssumption
<1> QED BY <1>1, InvHolds, PTL
\* A worker is killed only while it waits for READ_ALLOWED and holds no connection.
THEOREM KillsOnlyParkedHolds == SafeSpec => KillsOnlyParked
<1>1. ASSUME IInv, Next, NEW w \in Pids, wpc[w] # "none", wpc'[w] = "none"
      PROVE  wpc[w] \in {"ack", "zombie"} /\ csock[w] = NoConn
  <2>1. wpc \in [Pids -> WorkerPcs]
    BY <1>1 DEF IInv, TypeOK
  <2>2. ASSUME Receive(COMPLETED_REQUEST), w = Sender
        PROVE  wpc[w] \in {"ack", "zombie"} /\ csock[w] = NoConn
    BY <1>1, <2>2, CompletedFacts DEF WorkerInv, WorkerHandshake
  <2>3. ASSUME NEW L, NEW I, NEW nw, NEW ni, create_new_worker(L, I, nw, ni, wpc)
        PROVE  FALSE
    <3>1. CASE wpc' = wpc
      BY <1>1, <3>1
    <3>2. CASE \E v \in NewPid : wpc' = [wpc EXCEPT ![v] = "start"]
      BY <1>1, <2>1, <3>2
    <3> QED BY <2>3, <3>1, <3>2 DEF create_new_worker
  <2>4. CASE exponential_spawn
    BY <2>3, <2>4 DEF exponential_spawn
  <2>5. CASE HandleGotRequest
    BY <1>1, <2>3, <2>5 DEF HandleGotRequest
  <2>6. CASE HandleCompletedLast \/ HandleCompletedExcess
    <3>1. Receive(COMPLETED_REQUEST) /\ wpc' = [wpc EXCEPT ![Sender] = "none"]
      BY <2>6 DEF HandleCompletedLast, HandleCompletedExcess, Goto
    <3>2. w = Sender
      BY <1>1, <2>1, <3>1
    <3> QED BY <2>2, <3>1, <3>2
  <2>7. CASE HandleCompletedRecycle
    <3> DEFINE pcs == [wpc EXCEPT ![Sender] = "none"]
    <3>1. /\ Receive(COMPLETED_REQUEST)
          /\ create_new_worker(listed \ {Sender}, idle \ {Sender}, num_workers - 1,
                               num_idle_workers, pcs)
      BY <2>7 DEF HandleCompletedRecycle
    <3>2. pcs[w] = "none"
      <4> HIDE DEF pcs
      <4>1. pcs \in [Pids -> WorkerPcs]
        BY <2>1 DEF pcs, WorkerPcs
      <4>2. CASE wpc' = pcs
        BY <1>1, <4>2
      <4>3. CASE \E v \in NewPid : wpc' = [pcs EXCEPT ![v] = "start"]
        BY <1>1, <4>1, <4>3
      <4> QED BY <3>1, <4>2, <4>3 DEF create_new_worker
    <3>3. w = Sender
      BY <1>1, <2>1, <3>2
    <3> QED BY <2>2, <3>1, <3>3
  <2>8. CASE HandleCompletedAck \/ QuitParent
    BY <1>1, <2>8 DEF HandleCompletedAck, QuitParent, workerVars
  <2>9. ASSUME NEW v \in Pids, WorkerStep(v) \/ WorkerFault(v)
        PROVE  FALSE
    <3>1. \E l \in {"zombie", "accept", "got", "serve", "completed", "ack"} :
              wpc' = [wpc EXCEPT ![v] = l]
      BY <2>9 DEF WorkerStep, WorkerFault, Bind, WaitAck, Accept, SendGotRequest, SendFails,
             Serve, ServeFails, SendCompletedRequest, AcceptFails, QuitWorker, Exit, Goto
    <3> QED BY <1>1, <2>1, <3>1
  <2>10. ASSUME NEW c \in Conns, ClientNext(c)
         PROVE  FALSE
    BY <1>1, <2>10 DEF ClientNext, Connect, SendRequest, CloseUnasked, ResetByPeer, workerVars
  <2> QED BY <1>1, <2>4, <2>5, <2>6, <2>7, <2>8, <2>9, <2>10 DEF Next, ParentNext, HandleCompletedRemove
<1>2. IInv /\ [Next]_vars =>
        [\A w \in Pids : wpc[w] # "none" /\ wpc'[w] = "none"
            => wpc[w] \in {"ack", "zombie"} /\ csock[w] = NoConn]_vars
  BY <1>1
<1> QED BY <1>2, InvHolds, PTL DEF SafeSpec, KillsOnlyParked

\* Handling reports never lets the number of idle workers grow past MaxSpareServers.
THEOREM NoGrowthPastMaxSpareHolds == SafeSpec => NoGrowthPastMaxSpare
<1>1. ASSUME IInv, Next, parent = "recv", num_idle_workers' > num_idle_workers
      PROVE  num_idle_workers' <= MaxSpareServers
  <2>1. num_idle_workers \in Int
    BY <1>1 DEF IInv, TypeOK
  <2>2. CASE HandleGotRequest
    BY <1>1, <2>1, <2>2 DEF HandleGotRequest, create_new_worker
  <2>3. CASE HandleCompletedLast \/ HandleCompletedExcess \/ QuitParent
    BY <1>1, <2>1, <2>3 DEF HandleCompletedLast, HandleCompletedExcess, QuitParent, tableVars
  <2>4. CASE HandleCompletedRecycle \/ HandleCompletedAck
    <3>1. num_idle_workers' = num_idle_workers + 1 /\ num_idle_workers + 1 <= MaxSpareServers
      BY <2>4 DEF HandleCompletedRecycle, HandleCompletedAck, create_new_worker
    <3> QED BY <3>1
  <2>5. ASSUME NEW v \in Pids, WorkerStep(v) \/ WorkerFault(v)
        PROVE  num_idle_workers' = num_idle_workers
    BY <2>5 DEF WorkerStep, WorkerFault, Bind, WaitAck, Accept, SendGotRequest, SendFails,
           Serve, ServeFails, SendCompletedRequest, AcceptFails, QuitWorker, tableVars
  <2>6. ASSUME NEW c \in Conns, ClientNext(c)
        PROVE  num_idle_workers' = num_idle_workers
    BY <2>6 DEF ClientNext, Connect, SendRequest, CloseUnasked, ResetByPeer, tableVars
  <2>7. ~exponential_spawn
    BY <1>1 DEF exponential_spawn
  <2> QED BY <1>1, <2>1, <2>2, <2>3, <2>4, <2>5, <2>6, <2>7 DEF Next, ParentNext, HandleCompletedRemove
<1>2. IInv /\ [Next]_vars =>
        [parent = "recv" /\ num_idle_workers' > num_idle_workers
            => num_idle_workers' <= MaxSpareServers]_vars
  BY <1>1
<1> QED BY <1>2, InvHolds, PTL DEF SafeSpec, NoGrowthPastMaxSpare
-----------------------------------------------------------------------------
(***************************************************************************)
(* The refinement of ConnService: what clients see of the server, however  *)
(* many workers it has and whatever fails, is one queue from which each    *)
(* connection is taken once, in order of arrival, to be answered once its  *)
(* request is there.  IInv speaks of workers while the parent lives; the   *)
(* refinement needs an invariant that outlives it: who holds which         *)
(* connection.                                                             *)
(***************************************************************************)

\* A worker has a connection exactly between accept and close.
Holding == \A w \in Pids : csock[w] # NoConn <=> wpc[w] \in {"got", "serve"}

\* It is one that was taken and is not yet answered or lost, and no other
\* worker has it.
Owned ==
    /\ \A w \in Pids : csock[w] # NoConn => conn[csock[w]] = "held"
    /\ \A w, v \in Pids : csock[w] # NoConn /\ csock[w] = csock[v] => w = v

\* The backlog holds connections that wait, each once.
Waiting ==
    /\ \A i \in 1 .. Len(backlog) : conn[backlog[i]] = "queued"
    /\ \A i, j \in 1 .. Len(backlog) : backlog[i] = backlog[j] => i = j

ConnInv == Holding /\ Owned /\ Waiting
-----------------------------------------------------------------------------
(* Steps that the clients do not see.                                      *)

\* create_new_worker moves no process into or out of the states in which it
\* holds a connection.
LEMMA CreateQuiet ==
    ASSUME TypeOK, NEW L, NEW I, NEW nw, NEW ni, NEW s \in Pids,
           wpc[s] \in {"ack", "zombie"},
           NEW pcs, pcs = wpc \/ pcs = [wpc EXCEPT ![s] = "none"],
           create_new_worker(L, I, nw, ni, pcs)
    PROVE  \A w \in Pids : wpc'[w] \in {"got", "serve"} <=> wpc[w] \in {"got", "serve"}
<1>1. pcs \in [Pids -> WorkerPcs]
      /\ \A w \in Pids : pcs[w] \in {"got", "serve"} <=> wpc[w] \in {"got", "serve"}
  BY DEF TypeOK, WorkerPcs
<1>2. CASE wpc' = pcs
  BY <1>1, <1>2
<1>3. CASE \E v \in NewPid : wpc' = [pcs EXCEPT ![v] = "start"]
  <2>1. PICK v \in NewPid : wpc' = [pcs EXCEPT ![v] = "start"]
    BY <1>3
  <2>2. v \in Pids /\ wpc[v] = "none"
    BY <2>1 DEF NewPid
  <2> QED BY <1>1, <2>1, <2>2
<1> QED BY <1>2, <1>3 DEF create_new_worker

\* exponential_spawn and GOT_REQUEST: the same, without a worker that was reaped.
LEMMA SpawnQuiet ==
    ASSUME TypeOK, NEW L, NEW I, NEW nw, NEW ni, create_new_worker(L, I, nw, ni, wpc)
    PROVE  \A w \in Pids : wpc'[w] \in {"got", "serve"} <=> wpc[w] \in {"got", "serve"}
<1>1. CASE wpc' = wpc
  BY <1>1
<1>2. CASE \E v \in NewPid : wpc' = [wpc EXCEPT ![v] = "start"]
  <2>1. PICK v \in NewPid : wpc' = [wpc EXCEPT ![v] = "start"]
    BY <1>2
  <2>2. v \in Pids /\ wpc[v] = "none"
    BY <2>1 DEF NewPid
  <2> QED BY <2>1, <2>2 DEF TypeOK
<1> QED BY <1>1, <1>2 DEF create_new_worker

\* The worker that remove_worker kills holds no connection, so that reaping it
\* closes none.
LEMMA ReapQuiet ==
    ASSUME IInv, Receive(COMPLETED_REQUEST), KillAndReap(Sender)
    PROVE  UNCHANGED <<csock, conn>>
<1>1. /\ Sender \in Pids /\ csock[Sender] = NoConn
  BY CompletedFacts DEF WorkerInv, WorkerHandshake
<1>2. Dropped(Sender) = conn
  BY <1>1, ParameterAssumption DEF Dropped, IInv, TypeOK
<1>3. [csock EXCEPT ![Sender] = NoConn] = csock
  BY <1>1 DEF IInv, TypeOK
<1> QED BY <1>2, <1>3 DEF KillAndReap

\* Nothing the parent does is seen by a client.
LEMMA ParentQuiet ==
    ASSUME IInv, ParentNext \/ QuitParent
    PROVE  /\ UNCHANGED <<csock, conn, cdata, backlog>>
           /\ \A w \in Pids : wpc'[w] \in {"got", "serve"} <=> wpc[w] \in {"got", "serve"}
<1> USE DEF clientVars, workerVars
<1>1. TypeOK
  BY DEF IInv
<1>2. CASE exponential_spawn
  BY <1>1, <1>2, SpawnQuiet DEF exponential_spawn
<1>3. CASE HandleGotRequest
  BY <1>1, <1>3, SpawnQuiet DEF HandleGotRequest
<1>4. ASSUME Receive(COMPLETED_REQUEST)
      PROVE  Sender \in Pids /\ wpc[Sender] \in {"ack", "zombie"}
  BY <1>4, CompletedFacts
<1>5. CASE HandleCompletedLast \/ HandleCompletedExcess
  <2>1. /\ Receive(COMPLETED_REQUEST) /\ KillAndReap(Sender)
        /\ wpc' = [wpc EXCEPT ![Sender] = "none"]
        /\ UNCHANGED <<cdata, backlog>>
    BY <1>5 DEF HandleCompletedLast, HandleCompletedExcess, Goto
  <2> QED BY <1>1, <1>4, <2>1, ReapQuiet DEF TypeOK
<1>6. CASE HandleCompletedRecycle
  <2>1. /\ Receive(COMPLETED_REQUEST) /\ KillAndReap(Sender)
        /\ create_new_worker(listed \ {Sender}, idle \ {Sender}, num_workers - 1,
                             num_idle_workers, [wpc EXCEPT ![Sender] = "none"])
        /\ UNCHANGED <<cdata, backlog>>
    BY <1>6 DEF HandleCompletedRecycle
  <2> QED BY <1>1, <1>4, <2>1, ReapQuiet, CreateQuiet
<1>7. CASE HandleCompletedAck \/ QuitParent
  BY <1>7 DEF HandleCompletedAck, QuitParent
<1> QED BY <1>2, <1>3, <1>5, <1>6, <1>7 DEF ParentNext, HandleCompletedRemove

\* Steps of a worker that does not have a connection, before or after.
LEMMA WorkerUnseen ==
    ASSUME TypeOK, NEW w \in Pids,
           Bind(w) \/ WaitAck(w) \/ SendGotRequest(w) \/ SendCompletedRequest(w)
    PROVE  /\ UNCHANGED <<csock, conn, cdata, backlog>>
           /\ \A v \in Pids : wpc'[v] \in {"got", "serve"} <=> wpc[v] \in {"got", "serve"}
BY DEF TypeOK, Bind, WaitAck, SendGotRequest, SendCompletedRequest, Goto, clientVars
-----------------------------------------------------------------------------
(* The invariant.                                                          *)

\* Such steps keep it.
LEMMA ConnInvQuiet ==
    ASSUME ConnInv, UNCHANGED <<csock, conn, backlog>>,
           \A w \in Pids : wpc'[w] \in {"got", "serve"} <=> wpc[w] \in {"got", "serve"}
    PROVE  ConnInv'
BY DEF ConnInv, Holding, Owned, Waiting

\* A worker's exit gives up what it held.
LEMMA ExitConn ==
    ASSUME TypeOK, ConnInv, NEW w \in Pids, Exit(w), backlog' = backlog
    PROVE  ConnInv'
<1>1. /\ \A v \in Pids \ {w} : csock'[v] = csock[v] /\ wpc'[v] = wpc[v]
      /\ csock'[w] = NoConn /\ wpc'[w] = "zombie"
      /\ \A c \in Conns : conn'[c] = IF c = csock[w] THEN "dropped" ELSE conn[c]
  BY DEF Exit, Goto, Dropped, TypeOK
<1>2. Holding'
  BY <1>1 DEF ConnInv, Holding
<1>3. Owned'
  <2>1. \A v \in Pids : csock'[v] # NoConn => v # w /\ csock'[v] = csock[v]
    BY <1>1
  <2>2. \A v \in Pids : csock'[v] # NoConn => csock'[v] \in Conns
    BY <2>1 DEF TypeOK
  <2>3. \A v \in Pids : csock'[v] # NoConn => conn'[csock'[v]] = "held"
    BY <1>1, <2>1, <2>2 DEF ConnInv, Owned
  <2>4. \A v, u \in Pids : csock'[v] # NoConn /\ csock'[v] = csock'[u] => v = u
    BY <1>1, <2>1 DEF ConnInv, Owned
  <2> QED BY <2>3, <2>4 DEF Owned
<1>4. Waiting'
  <2>1. ASSUME NEW i \in 1 .. Len(backlog)
        PROVE  conn'[backlog[i]] = "queued"
    <3>1. backlog[i] \in Conns /\ conn[backlog[i]] = "queued"
      BY DEF TypeOK, ConnInv, Waiting
    <3>2. backlog[i] # csock[w]
      BY <3>1, ParameterAssumption DEF ConnInv, Owned
    <3> QED BY <1>1, <3>1, <3>2
  <2> QED BY <2>1 DEF ConnInv, Waiting
<1> QED BY <1>2, <1>3, <1>4 DEF ConnInv

\* accept hands the oldest waiting connection to one worker.
LEMMA AcceptConn ==
    ASSUME TypeOK, ConnInv, NEW w \in Pids, Accept(w)
    PROVE  ConnInv'
<1> DEFINE h == Head(backlog)
<1>1. /\ backlog \in Seq(Conns) /\ backlog # <<>>
      /\ h = backlog[1] /\ 1 \in 1 .. Len(backlog) /\ h \in Conns
      /\ Len(backlog') = Len(backlog) - 1 /\ Len(backlog) \in Nat
      /\ \A i \in 1 .. Len(backlog') : backlog'[i] = backlog[i + 1] /\ i + 1 \in 1 .. Len(backlog)
  BY DEF Accept, TypeOK
<1>2. /\ \A v \in Pids \ {w} : csock'[v] = csock[v] /\ wpc'[v] = wpc[v]
      /\ csock'[w] = h /\ wpc'[w] = "got"
      /\ \A c \in Conns : conn'[c] = IF c = h THEN "held" ELSE conn[c]
  BY <1>1 DEF Accept, Goto, TypeOK
<1>3. conn[h] = "queued" /\ h # NoConn
  BY <1>1, ParameterAssumption DEF ConnInv, Waiting
<1>4. \A v \in Pids : csock[v] # h
  BY <1>3 DEF ConnInv, Owned
<1>5. Holding'
  BY <1>2, <1>3 DEF ConnInv, Holding
<1>6. Owned'
  <2>1. ASSUME NEW v \in Pids, csock'[v] # NoConn
        PROVE  conn'[csock'[v]] = "held"
    <3>1. CASE v = w
      BY <1>1, <1>2, <3>1
    <3>2. CASE v # w
      BY <1>2, <1>4, <2>1, <3>2 DEF TypeOK, ConnInv, Owned
    <3> QED BY <3>1, <3>2
  <2>2. \A v, u \in Pids : csock'[v] # NoConn /\ csock'[v] = csock'[u] => v = u
    BY <1>2, <1>4 DEF ConnInv, Owned
  <2> QED BY <2>1, <2>2 DEF Owned
<1>7. Waiting'
  <2>1. ASSUME NEW i \in 1 .. Len(backlog')
        PROVE  conn'[backlog'[i]] = "queued"
    <3>1. /\ backlog'[i] \in Conns /\ conn[backlog'[i]] = "queued"
          /\ backlog'[i] # h
      BY <1>1 DEF ConnInv, Waiting
    <3> QED BY <1>2, <3>1
  <2>2. \A i, j \in 1 .. Len(backlog') : backlog'[i] = backlog'[j] => i = j
    BY <1>1 DEF ConnInv, Waiting
  <2> QED BY <2>1, <2>2 DEF Waiting
<1> QED BY <1>5, <1>6, <1>7 DEF ConnInv

\* Answering and closing a connection.
LEMMA ServeConn ==
    ASSUME TypeOK, ConnInv, NEW w \in Pids, Serve(w)
    PROVE  ConnInv'
<1> DEFINE d == csock[w]
<1>1. /\ d \in Conns /\ conn[d] = "held" /\ d # NoConn
  BY ParameterAssumption DEF Serve, TypeOK, ConnInv, Holding, Owned
<1>2. /\ \A v \in Pids \ {w} : csock'[v] = csock[v] /\ wpc'[v] = wpc[v]
      /\ csock'[w] = NoConn /\ wpc'[w] = "completed"
      /\ \A c \in Conns : conn'[c] = IF c = d THEN "answered" ELSE conn[c]
      /\ backlog' = backlog
  BY <1>1 DEF Serve, Goto, TypeOK
<1>3. Holding'
  BY <1>2 DEF ConnInv, Holding
<1>4. Owned'
  <2>1. \A v \in Pids : csock'[v] # NoConn =>
            v # w /\ csock'[v] = csock[v] /\ csock[v] \in Conns /\ csock[v] # d
    BY <1>2 DEF TypeOK, ConnInv, Owned
  <2>2. \A v \in Pids : csock'[v] # NoConn => conn'[csock'[v]] = "held"
    BY <1>2, <2>1 DEF ConnInv, Owned
  <2>3. \A v, u \in Pids : csock'[v] # NoConn /\ csock'[v] = csock'[u] => v = u
    BY <1>2, <2>1 DEF ConnInv, Owned
  <2> QED BY <2>2, <2>3 DEF Owned
<1>5. Waiting'
  <2>1. \A i \in 1 .. Len(backlog) : backlog[i] \in Conns /\ backlog[i] # d
    BY <1>1 DEF TypeOK, ConnInv, Waiting
  <2> QED BY <1>2, <2>1 DEF ConnInv, Waiting
<1> QED BY <1>3, <1>4, <1>5 DEF ConnInv

\* A new connection joins the backlog.
LEMMA ConnectConn ==
    ASSUME TypeOK, ConnInv, NEW c \in Conns, Connect(c)
    PROVE  ConnInv'
<1>1. /\ backlog \in Seq(Conns) /\ Len(backlog) \in Nat
      /\ Len(backlog') = Len(backlog) + 1
      /\ \A i \in 1 .. Len(backlog) : backlog'[i] = backlog[i] /\ backlog[i] \in Conns
      /\ backlog'[Len(backlog) + 1] = c
  BY DEF Connect, TypeOK
<1>2. /\ csock' = csock /\ wpc' = wpc /\ conn[c] = "new"
      /\ \A d \in Conns : conn'[d] = IF d = c THEN "queued" ELSE conn[d]
  BY DEF Connect, workerVars, TypeOK
<1>3. Holding' /\ Owned'
  BY <1>2 DEF ConnInv, Holding, Owned, TypeOK
<1>4. \A i \in 1 .. Len(backlog') : i \in 1 .. Len(backlog) \/ i = Len(backlog) + 1
  BY <1>1
<1>5. \A i \in 1 .. Len(backlog) : backlog[i] # c
  BY <1>2 DEF ConnInv, Waiting
<1>6. \A i \in 1 .. Len(backlog') : conn'[backlog'[i]] = "queued"
  BY <1>1, <1>2, <1>4, <1>5 DEF ConnInv, Waiting
<1>7. \A i, j \in 1 .. Len(backlog') : backlog'[i] = backlog'[j] => i = j
  BY <1>1, <1>4, <1>5 DEF ConnInv, Waiting
<1> QED BY <1>3, <1>6, <1>7 DEF ConnInv, Waiting

\* Initially nobody is connected.
LEMMA ConnInit == Init => ConnInv
BY DEF Init, ConnInv, Holding, Owned, Waiting

\* Every step keeps who holds and who waits.
LEMMA ConnStep == IInv /\ ConnInv /\ [Next]_vars => ConnInv'
<1> SUFFICES ASSUME IInv, ConnInv, [Next]_vars
             PROVE  ConnInv'
  OBVIOUS
<1>1. TypeOK
  BY DEF IInv
<1>2. CASE ParentNext \/ QuitParent
  BY <1>2, ParentQuiet, ConnInvQuiet
<1>3. ASSUME NEW w \in Pids, WorkerStep(w) \/ WorkerFault(w)
      PROVE  ConnInv'
  <2>1. CASE Bind(w) \/ WaitAck(w) \/ SendGotRequest(w) \/ SendCompletedRequest(w)
    BY <1>1, <2>1, WorkerUnseen, ConnInvQuiet
  <2>2. CASE SendFails(w) \/ ServeFails(w) \/ AcceptFails(w) \/ QuitWorker(w)
    BY <1>1, <2>2, ExitConn DEF SendFails, ServeFails, AcceptFails, QuitWorker
  <2>3. CASE Accept(w)
    BY <1>1, <2>3, AcceptConn
  <2>4. CASE Serve(w)
    BY <1>1, <2>4, ServeConn
  <2> QED BY <1>3, <2>1, <2>2, <2>3, <2>4 DEF WorkerStep, WorkerFault
<1>4. ASSUME NEW c \in Conns, ClientNext(c)
      PROVE  ConnInv'
  <2>1. CASE Connect(c)
    BY <1>1, <2>1, ConnectConn
  <2>2. CASE SendRequest(c) \/ CloseUnasked(c) \/ ResetByPeer(c)
    BY <2>2, ConnInvQuiet DEF SendRequest, CloseUnasked, ResetByPeer, workerVars
  <2> QED BY <1>4, <2>1, <2>2 DEF ClientNext
<1>5. CASE UNCHANGED vars
  BY <1>5, ConnInvQuiet DEF vars, workerVars, clientVars
<1> QED BY <1>2, <1>3, <1>4, <1>5 DEF Next

\* Every connection that was taken is with one worker, and those that wait are
\* with none, whatever fails.
THEOREM ConnInvHolds == SafeSpec => []ConnInv
<1> QED BY InvHolds, ConnInit, ConnStep, PTL DEF SafeSpec
-----------------------------------------------------------------------------
(* The refinement.                                                         *)

\* An exit is seen as the loss of the connection, where the service may lose
\* it, or not at all.
LEMMA ExitRefines ==
    ASSUME IInv, ConnInv, NEW w \in Pids, Exit(w), UNCHANGED <<cdata, backlog>>,
           csock[w] # NoConn =>
               \/ MinSpareServers = 0 \/ ~(Faults \subseteq {"peer"})
               \/ cdata[csock[w]] = "reset"
    PROVE  Service!Next \/ UNCHANGED Service!svars
<1>1. conn' = Dropped(w) /\ conn \in [Conns -> {"new", "queued", "held", "answered", "dropped"}]
  BY DEF Exit, IInv, TypeOK
<1>2. CASE csock[w] = NoConn
  <2>1. conn' = conn
    BY <1>1, <1>2, ParameterAssumption DEF Dropped
  <2> QED BY <2>1 DEF Service!svars
<1>3. CASE csock[w] # NoConn
  <2> DEFINE c == csock[w]
  <2>1. c \in Conns /\ conn[c] = "held"
    BY <1>3 DEF ConnInv, Owned, IInv, TypeOK
  <2>2. conn' = [conn EXCEPT ![c] = "dropped"]
    BY <1>1 DEF Dropped
  <2>3. Service!Lose(c)
    BY <1>3, <2>1, <2>2 DEF Service!Lose
  <2> QED BY <2>1, <2>3 DEF Service!Next
<1> QED BY <1>2, <1>3

\* The worker's steps.
LEMMA WorkerRefines ==
    ASSUME IInv, ConnInv, NEW w \in Pids, WorkerStep(w) \/ WorkerFault(w)
    PROVE  Service!Next \/ UNCHANGED Service!svars
<1>1. TypeOK
  BY DEF IInv
<1>2. CASE Bind(w) \/ WaitAck(w) \/ SendGotRequest(w) \/ SendCompletedRequest(w)
  <2>1. UNCHANGED <<conn, cdata, backlog>>
    BY <1>1, <1>2, WorkerUnseen
  <2> QED BY <2>1 DEF Service!svars
<1>3. CASE Accept(w)
  <2>1. Service!Take
    BY <1>3 DEF Accept, Service!Take
  <2> QED BY <2>1 DEF Service!Next
<1>4. CASE Serve(w)
  <2> DEFINE c == csock[w]
  <2>1. c \in Conns /\ conn[c] = "held"
    BY <1>1, <1>4 DEF Serve, ConnInv, Holding, Owned, TypeOK
  <2>2. Service!Answer(c)
    BY <1>4, <2>1 DEF Serve, Service!Answer
  <2> QED BY <2>1, <2>2 DEF Service!Next
<1>5. CASE ServeFails(w)
  BY <1>5, ExitRefines DEF ServeFails
<1>6. CASE QuitWorker(w)
  <2>1. ~(Faults \subseteq {"peer"})
    BY <1>6 DEF QuitWorker
  <2> QED BY <1>6, <2>1, ExitRefines DEF QuitWorker
<1>7. CASE AcceptFails(w)
  <2>1. ~(Faults \subseteq {"peer"})
    BY <1>7 DEF AcceptFails
  <2> QED BY <1>7, <2>1, ExitRefines DEF AcceptFails
<1>8. CASE SendFails(w)
  \* The parent is gone, which took a fault or a server without spare workers.
  <2>1. MinSpareServers = 0 \/ ~(Faults \subseteq {"peer"})
    BY <1>8, ParameterAssumption DEF SendFails, IInv, ParentStaysUp
  <2> QED BY <1>8, <2>1, ExitRefines DEF SendFails
<1> QED BY <1>2, <1>3, <1>4, <1>5, <1>6, <1>7, <1>8 DEF WorkerStep, WorkerFault

\* The clients' steps.
LEMMA ClientRefines ==
    ASSUME IInv, NEW c \in Conns, ClientNext(c)
    PROVE  Service!Next
<1>1. cdata \in [Conns -> {"nothing", "request", "end", "reset"}]
  BY DEF IInv, TypeOK
<1>2. CASE Connect(c)
  <2>1. Service!Arrive(c)
    BY <1>2 DEF Connect, Service!Arrive
  <2> QED BY <2>1 DEF Service!Next
<1>3. CASE SendRequest(c) \/ CloseUnasked(c)
  <2>1. Service!Speak(c)
    BY <1>1, <1>3 DEF SendRequest, CloseUnasked, Service!Speak
  <2> QED BY <2>1 DEF Service!Next
<1>4. CASE ResetByPeer(c)
  <2>1. Service!Reset(c)
    BY <1>1, <1>4 DEF ResetByPeer, Service!Reset
  <2> QED BY <2>1 DEF Service!Next
<1> QED BY <1>2, <1>3, <1>4 DEF ClientNext

\* Every step of the server is a step of the service or unseen.
LEMMA StepRefines == IInv /\ ConnInv /\ [Next]_vars => [Service!Next]_(Service!svars)
<1> SUFFICES ASSUME IInv, ConnInv, [Next]_vars
             PROVE  Service!Next \/ UNCHANGED Service!svars
  OBVIOUS
<1>1. CASE ParentNext \/ QuitParent
  <2>1. UNCHANGED <<conn, cdata, backlog>>
    BY <1>1, ParentQuiet
  <2> QED BY <2>1 DEF Service!svars
<1>2. ASSUME NEW w \in Pids, WorkerStep(w) \/ WorkerFault(w)
      PROVE  Service!Next \/ UNCHANGED Service!svars
  BY <1>2, WorkerRefines
<1>3. ASSUME NEW c \in Conns, ClientNext(c)
      PROVE  Service!Next
  BY <1>3, ClientRefines
<1>4. CASE UNCHANGED vars
  BY <1>4 DEF vars, clientVars, Service!svars
<1> QED BY <1>1, <1>2, <1>3, <1>4 DEF Next

\* The server, with any number of workers, any parameters and any faults,
\* implements the service its clients expect: connections are taken once, in
\* order of arrival, and answered only once the client was heard, by its request
\* or by the end of its input; with spare workers and no faults but the clients'
\* own, none is lost but by its client.
THEOREM ServiceSafeHolds == SafeSpec => ServiceSafe
<1>1. Init => Service!Init
  BY DEF Init, Service!Init
<1> QED BY <1>1, InvHolds, ConnInvHolds, StepRefines, PTL
        DEF SafeSpec, ServiceSafe, Service!SafeSpec
=============================================================================
