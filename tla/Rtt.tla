-------------------------------- MODULE Rtt --------------------------------
(***************************************************************************)
(* The concurrent RTT measurement of assignment-2/q1 (rtt.c, with utils.c, *)
(* queue.c and hash_map.c).                                                *)
(*                                                                         *)
(* For every IP address three ICMP echo requests are sent, one after the   *)
(* other.  A sender thread takes addresses from a job queue (a stack); one *)
(* receiver thread per IP version stores the round-trip time of a reply    *)
(* and puts the address back until three requests were sent.  The queue is *)
(* protected by mtx; nsent, the slots, the counters and stop_threads are   *)
(* shared without protection, so the loads and stores of nsent are steps   *)
(* of their own (the receiver's last one, which adds to what it loads, is  *)
(* one step that chooses the number loaded).  A stored time is represented *)
(* by the number of the request it measures (its icmp_seq).                *)
(*                                                                         *)
(* A store outside rtt[0..2] leaves the program "undefined" and the model  *)
(* stops there.  Packets of addresses that are not in the file change      *)
(* nothing and are left out.                                               *)
(***************************************************************************)
EXTENDS Integers, Sequences, FiniteSets

CONSTANTS AllIPs,       \* the addresses of all setups
          Setups,       \* the files and networks a run starts from, see Setup
          NoIp          \* "no address yet"

FaultKinds == {"lose",     \* a request or its reply is lost
               "sendfail", \* sendto fails
               "dup",      \* a reply is duplicated
               "other",    \* an ICMP message other than an echo reply comes from a listed address
               "foreign"}  \* an echo reply for another process comes from a listed address

\* The IPv4 and IPv6 addresses of the file, without duplicates; which faults may happen;
\* bound on the packets that answer no outstanding request.
Setup == [v4 : SUBSET AllIPs, v6 : SUBSET AllIPs, faults : SUBSET FaultKinds, maxStrays : Nat]

ASSUME ConstantAssumption ==
    /\ IsFiniteSet(AllIPs) /\ NoIp \notin AllIPs
    /\ Setups \subseteq Setup
    /\ \A s \in Setups : s.v4 \cup s.v6 # {} /\ s.v4 \cap s.v6 = {}

VARIABLES
    setup,          \* a member of Setups
    sendQ,          \* the job queue, its front first
    mtx,            \* "free", or the thread that holds it
    nsent, rtt,     \* proto->nsent, proto->rtt[0..2]
    count, fail,    \* ipv4_count, ipv6_count; ipv4_fail, ipv6_fail
    stop_threads,
    spc, sproto, sread, tot_send_cnt,   \* sender: pc, proto, the nsent it loaded, counter
    rpc, rproto,    \* receivers: pc, proto
    program,        \* "running", "printed"; "exited", "undefined"
    loss_count,
    air,            \* requests sent and not yet answered
    sock,           \* packets waiting in each receiving socket
    strays          \* strays so far

senderVars == <<spc, sproto, sread, tot_send_cnt>>
recvVars   == <<rpc, rproto>>
netVars    == <<air, sock, strays>>
vars == <<setup, sendQ, mtx, nsent, rtt, count, fail, stop_threads, senderVars, recvVars,
          program, loss_count, netVars>>

\* The keys of ip_proto_map: insert_into_map refuses an address it already has.
IPs == setup.v4 \cup setup.v6
Versions == {"v4", "v6"}
VersionOf(p) == IF p \in setup.v4 THEN "v4" ELSE "v6"
Faults == setup.faults

\* An echo request, and what the receivers tell apart in a packet: its source and
\* whether it is an echo reply to this process.
Request == [ip : IPs, seq : Nat]
Packet == [ip : IPs, kind : {"reply", "other", "foreign"}, seq : Nat]
Lost == -1

\* initIp for every address of the file that find_in_map does not know yet, and
\* qPush of each of them in the order of the file.
Init ==
    /\ setup \in Setups
    /\ sendQ \in {q \in [1 .. Cardinality(IPs) -> IPs] : \A p \in IPs : \E i \in DOMAIN q : q[i] = p}
    /\ mtx = "free"
    /\ nsent = [p \in IPs |-> 0]
    /\ rtt = [p \in IPs |-> [i \in 0 .. 2 |-> Lost]]
    /\ count = [v \in Versions |-> Cardinality({p \in IPs : VersionOf(p) = v})]
    /\ fail = [v \in Versions |-> 0]
    /\ stop_threads = FALSE
    /\ spc = "lock" /\ sproto = NoIp /\ sread = 0 /\ tot_send_cnt = 0
    /\ rpc = [v \in Versions |-> "while"]
    /\ rproto = [v \in Versions |-> NoIp]
    /\ program = "running" /\ loss_count = 0
    /\ air = {}
    /\ sock = [v \in Versions |-> <<>>]
    /\ strays = 0

Running == program = "running"

\* queue.c: the job queue is a linked stack.
qFront(q) == Head(q)
qPop(q) == Tail(q)
qPush(q, p) == <<p>> \o q
-----------------------------------------------------------------------------
(* The sender thread (sendHelper).                                         *)

\* Lock, find a job, and load nsent as the sequence number of the request.
TakeJob ==
    /\ Running /\ spc = "lock" /\ mtx = "free" /\ sendQ # <<>>
    /\ mtx' = "sender"
    /\ sproto' = qFront(sendQ)
    /\ sread' = nsent[qFront(sendQ)]
    /\ spc' = "stamp"
    /\ UNCHANGED <<setup, sendQ, nsent, rtt, count, fail, stop_threads, tot_send_cnt, recvVars,
                   program, loss_count, netVars>>

\* No job and stop_threads: unlock and leave (without stop_threads: go round).
StopSending ==
    /\ Running /\ spc = "lock" /\ mtx = "free" /\ sendQ = <<>>
    /\ stop_threads
    /\ spc' = "done"
    /\ UNCHANGED <<setup, sendQ, mtx, nsent, rtt, count, fail, stop_threads, sproto, sread,
                   tot_send_cnt, recvVars, program, loss_count, netVars>>

\* fsend: nsent += 1, before sendto.
Stamp ==
    /\ Running /\ spc = "stamp"
    /\ nsent' = [nsent EXCEPT ![sproto] = sread + 1]
    /\ spc' = "sendto"
    /\ UNCHANGED <<setup, sendQ, mtx, rtt, count, fail, stop_threads, sproto, sread, tot_send_cnt,
                   recvVars, program, loss_count, netVars>>

SendTo ==
    /\ Running /\ spc = "sendto"
    /\ air' = air \cup {[ip |-> sproto, seq |-> sread]}
    /\ spc' = "pop"
    /\ UNCHANGED <<setup, sendQ, mtx, nsent, rtt, count, fail, stop_threads, sproto, sread,
                   tot_send_cnt, recvVars, program, loss_count, sock, strays>>

\* Mutant: ends one request early.
Unlock_OffByOne ==
    /\ mtx' = "free"
    /\ tot_send_cnt' = tot_send_cnt + 1
    /\ spc' = IF tot_send_cnt + 1 = 3 * Cardinality(IPs) - 1 THEN "done" ELSE "lock"

\* Unlock with one more request counted; after 3 per address the thread ends.
Unlock ==
    /\ mtx' = "free"
    /\ tot_send_cnt' = tot_send_cnt + 1
    /\ spc' = IF tot_send_cnt + 1 = 3 * Cardinality(IPs) THEN "done" ELSE "lock"

\* Mutant: leaves the job in the queue.
PopJob_Keep ==
    /\ Running /\ spc = "pop"
    /\ Unlock
    /\ UNCHANGED <<setup, sendQ, nsent, rtt, count, fail, stop_threads, sproto, sread, recvVars, program,
                   loss_count, netVars>>

\* fsend returned 0: qPop.
PopJob ==
    /\ Running /\ spc = "pop"
    /\ sendQ' = qPop(sendQ)
    /\ Unlock
    /\ UNCHANGED <<setup, nsent, rtt, count, fail, stop_threads, sproto, sread, recvVars, program,
                   loss_count, netVars>>

\* fsend returned -1: load nsent again to decide what to do.
SendToFails ==
    /\ "sendfail" \in Faults
    /\ Running /\ spc = "sendto"
    /\ sread' = nsent[sproto]
    /\ spc' = "failed"
    /\ UNCHANGED <<setup, sendQ, mtx, nsent, rtt, count, fail, stop_threads, sproto, tot_send_cnt,
                   recvVars, program, loss_count, netVars>>

\* nsent == 3: pop and tell the receiver; nsent < 3: mark a slot lost and count it
\* as sent once more; otherwise nothing.
SendFailed ==
    /\ Running /\ spc = "failed"
    /\ IF sread = 3
       THEN /\ sendQ' = qPop(sendQ)
            /\ fail' = [fail EXCEPT ![VersionOf(sproto)] = @ + 1]
       ELSE UNCHANGED <<sendQ, fail>>
    /\ rtt' = IF sread \in 0 .. 2 THEN [rtt EXCEPT ![sproto][sread] = Lost] ELSE rtt
    /\ nsent' = IF sread <= 3 THEN [nsent EXCEPT ![sproto] = sread + 1] ELSE nsent
    /\ Unlock
    /\ UNCHANGED <<setup, count, stop_threads, sproto, sread, recvVars, program, loss_count,
                   netVars>>

SenderStep == TakeJob \/ StopSending \/ Stamp \/ SendTo \/ PopJob \/ SendToFails \/ SendFailed

-----------------------------------------------------------------------------
(* The receiver threads (ip4RecvHelper and ip6RecvHelper, the same code).  *)

\* Mutant: waits for both versions.
Waiting_Both(v) == \A u \in Versions \cup {v} : count[u] - fail[u] > 0

\* The loop condition: some address of this version is still to be measured.
Waiting(v) == count[v] - fail[v] > 0

Loop(v) ==
    /\ Running /\ rpc[v] = "while"
    /\ rpc' = [rpc EXCEPT ![v] = IF Waiting(v) THEN "recvfrom" ELSE "done"]
    /\ UNCHANGED <<setup, sendQ, mtx, nsent, rtt, count, fail, stop_threads, senderVars, rproto,
                   program, loss_count, netVars>>

\* Mutant: does not look at stop_threads.
NothingReceived_NoStop(v) ==
    /\ Running /\ rpc[v] = "recvfrom" /\ sock[v] = <<>>
    /\ rpc' = [rpc EXCEPT ![v] = "while"]
    /\ UNCHANGED <<setup, sendQ, mtx, nsent, rtt, count, fail, stop_threads, senderVars, rproto,
                   program, loss_count, netVars>>

\* recvfrom has nothing: leave if stop_threads, else sleep and go round.
NothingReceived(v) ==
    /\ Running /\ rpc[v] = "recvfrom" /\ sock[v] = <<>>
    /\ rpc' = [rpc EXCEPT ![v] = IF stop_threads THEN "done" ELSE "while"]
    /\ UNCHANGED <<setup, sendQ, mtx, nsent, rtt, count, fail, stop_threads, senderVars, rproto,
                   program, loss_count, netVars>>

\* Mutant: stores into the slot of the next request.
Slot_Next(p) == nsent[p] % 3

\* The slot of a reply is the number of requests sent so far, less one, whatever
\* request it answers.
Slot(p) == nsent[p] - 1

\* recvfrom, find_in_map and fproc: an echo reply stores its time, another message
\* stores -1, an echo reply for another process ends the whole program.
ProcessPacket(v) ==
    /\ Running /\ rpc[v] = "recvfrom" /\ sock[v] # <<>>
    /\ sock' = [sock EXCEPT ![v] = Tail(@)]
    /\ LET pkt == Head(sock[v])
           p == pkt.ip
           ok == Slot(p) \in 0 .. 2
       IN  /\ rproto' = [rproto EXCEPT ![v] = p]
           /\ rpc' = [rpc EXCEPT ![v] = "test"]
           /\ program' = IF pkt.kind = "foreign" THEN "exited"
                         ELSE IF ok THEN program ELSE "undefined"
           /\ rtt' = IF pkt.kind = "foreign" \/ ~ok THEN rtt
                     ELSE [rtt EXCEPT ![p][Slot(p)] = IF pkt.kind = "reply" THEN pkt.seq ELSE Lost]
    /\ UNCHANGED <<setup, sendQ, mtx, nsent, count, fail, stop_threads, senderVars, loss_count, air,
                   strays>>

\* Load nsent, without mtx: are there requests left?
TestSent(v) ==
    /\ Running /\ rpc[v] = "test"
    /\ rpc' = [rpc EXCEPT ![v] = IF nsent[rproto[v]] < 3 THEN "push" ELSE "retest"]
    /\ UNCHANGED <<setup, sendQ, mtx, nsent, rtt, count, fail, stop_threads, senderVars, rproto,
                   program, loss_count, netVars>>

\* Load it again: was this the last one?
TestThree(v) ==
    /\ Running /\ rpc[v] = "retest"
    /\ rpc' = [rpc EXCEPT ![v] = IF nsent[rproto[v]] = 3 THEN "finish" ELSE "while"]
    /\ UNCHANGED <<setup, sendQ, mtx, nsent, rtt, count, fail, stop_threads, senderVars, rproto,
                   program, loss_count, netVars>>

\* Mutant: pushes without taking mtx.
PushJob_NoLock(v) ==
    /\ Running /\ rpc[v] = "push"
    /\ sendQ' = qPush(sendQ, rproto[v])
    /\ rpc' = [rpc EXCEPT ![v] = "while"]
    /\ UNCHANGED <<setup, mtx, nsent, rtt, count, fail, stop_threads, senderVars, rproto, program,
                   loss_count, netVars>>

\* nsent < 3: lock, qPush at the front, unlock.
PushJob(v) ==
    /\ Running /\ rpc[v] = "push" /\ mtx = "free"
    /\ sendQ' = qPush(sendQ, rproto[v])
    /\ rpc' = [rpc EXCEPT ![v] = "while"]
    /\ UNCHANGED <<setup, mtx, nsent, rtt, count, fail, stop_threads, senderVars, rproto, program,
                   loss_count, netVars>>

\* Mutant: always counts IPv4 down.
FinishIp_V4(v) ==
    /\ Running /\ rpc[v] = "finish"
    /\ \E last \in {3, nsent[rproto[v]]} : nsent' = [nsent EXCEPT ![rproto[v]] = last + 1]
    /\ count' = [count EXCEPT !["v4"] = @ - 1]
    /\ rpc' = [rpc EXCEPT ![v] = "while"]
    /\ UNCHANGED <<setup, sendQ, mtx, rtt, fail, stop_threads, senderVars, rproto, program,
                   loss_count, netVars>>

\* nsent == 3: this address is finished.  nsent += 1 adds to the number it loads, which is
\* older or newer than what the sender stored since the test.
FinishIp(v) ==
    /\ Running /\ rpc[v] = "finish"
    /\ \E last \in {3, nsent[rproto[v]]} : nsent' = [nsent EXCEPT ![rproto[v]] = last + 1]
    /\ count' = [count EXCEPT ![v] = @ - 1]
    /\ rpc' = [rpc EXCEPT ![v] = "while"]
    /\ UNCHANGED <<setup, sendQ, mtx, rtt, fail, stop_threads, senderVars, rproto, program,
                   loss_count, netVars>>

ReceiverStep(v) == \/ Loop(v) \/ NothingReceived(v) \/ ProcessPacket(v) \/ TestSent(v)
                   \/ TestThree(v) \/ PushJob(v) \/ FinishIp(v)

-----------------------------------------------------------------------------
(* The alarm, main, and the network.                                       *)

AlarmRings ==
    /\ Running /\ ~stop_threads
    /\ stop_threads' = TRUE
    /\ UNCHANGED <<setup, sendQ, mtx, nsent, rtt, count, fail, senderVars, recvVars, program,
                   loss_count, netVars>>

AllDone == spc = "done" /\ \A v \in Versions : rpc[v] = "done"

\* main joins the threads and prints; printRtts counts the lost slots.
PrintRtts ==
    /\ Running /\ AllDone
    /\ program' = "printed"
    /\ loss_count' = Cardinality({s \in IPs \X (0 .. 2) : rtt[s[1]][s[2]] = Lost})
    /\ UNCHANGED <<setup, sendQ, mtx, nsent, rtt, count, fail, stop_threads, senderVars, recvVars,
                   netVars>>

Deliver(p, kind, seq) ==
    sock' = [sock EXCEPT ![VersionOf(p)] = Append(@, [ip |-> p, kind |-> kind, seq |-> seq])]

programVars == <<setup, sendQ, mtx, nsent, rtt, count, fail, stop_threads, senderVars, recvVars,
                 program, loss_count>>

Answer(r) ==
    /\ Running
    /\ Deliver(r.ip, "reply", r.seq)
    /\ air' = air \ {r}
    /\ UNCHANGED <<programVars, strays>>

Lose(r) ==
    /\ "lose" \in Faults /\ Running
    /\ air' = air \ {r}
    /\ UNCHANGED <<programVars, sock, strays>>

Duplicate(r) ==
    /\ "dup" \in Faults /\ Running /\ strays < setup.maxStrays
    /\ Deliver(r.ip, "reply", r.seq)
    /\ strays' = strays + 1
    /\ UNCHANGED <<programVars, air>>

Stray(p) ==
    /\ Running /\ strays < setup.maxStrays
    /\ \E kind \in {"other", "foreign"} \cap Faults : Deliver(p, kind, 0)
    /\ strays' = strays + 1
    /\ UNCHANGED <<programVars, air>>

NetworkStep == \E r \in air : Answer(r) \/ Lose(r)

Over == program # "running" /\ UNCHANGED vars

Next == \/ SenderStep
        \/ \E v \in Versions : ReceiverStep(v)
        \/ AlarmRings
        \/ PrintRtts
        \/ NetworkStep
        \/ \E r \in air : Duplicate(r)
        \/ \E p \in IPs : Stray(p)
        \/ Over

\* The threads are scheduled, a thread that waits for mtx gets it (the sender's
\* empty rounds hold it only for an instant), and the network answers or loses
\* every request.  The alarm is not forced: what needs it says so.
Fairness == /\ WF_vars(SenderStep)
            /\ \A v \in Versions : WF_vars(ReceiverStep(v))
            /\ WF_vars(PrintRtts)
            /\ \A p \in AllIPs : WF_vars(\E r \in air : r.ip = p /\ (Answer(r) \/ Lose(r)))

SafeSpec == Init /\ [][Next]_vars
Spec == SafeSpec /\ Fairness
-----------------------------------------------------------------------------
(* Properties.                                                             *)

TypeOK ==
    /\ setup \in Setups
    /\ sendQ \in Seq(IPs)
    /\ mtx \in {"free", "sender"}
    /\ nsent \in [IPs -> Nat]
    /\ rtt \in [IPs -> [0 .. 2 -> Nat \cup {Lost}]]
    /\ count \in [Versions -> Nat] /\ fail \in [Versions -> Nat]
    /\ stop_threads \in BOOLEAN
    /\ spc \in {"lock", "stamp", "sendto", "pop", "failed", "done"}
    /\ sproto \in IPs \cup {NoIp} /\ sread \in Nat /\ tot_send_cnt \in Nat
    /\ rpc \in [Versions -> {"while", "recvfrom", "test", "retest", "push", "finish", "done"}]
    /\ rproto \in [Versions -> IPs \cup {NoIp}]
    /\ program \in {"running", "printed", "exited", "undefined"}
    /\ loss_count \in Nat
    /\ air \in SUBSET Request /\ sock \in [Versions -> Seq(Packet)]
    /\ strays \in Nat

\* The network answers or loses each request, and nothing else comes.
Calm == Faults \subseteq {"lose"}

\* On a calm network the job queue holds no address twice, although receivers push without
\* looking (rtt.c:262) what the sender pops.
UniqueJobs == Calm => \A i, j \in DOMAIN sendQ : sendQ[i] = sendQ[j] => i = j

\* On a calm network the time of the k-th request ends up in the k-th slot, and none outside
\* rtt[0..2], although the slot is computed from nsent, which the sender advances without
\* telling the receiver (utils.c:276).
OwnSlot == Calm => program # "undefined" /\ \A p \in IPs, i \in 0 .. 2 : rtt[p][i] \in {Lost, i}

\* Somebody is still responsible for p: it is queued, or a request, a packet or a
\* thread is on the way to queueing or finishing it.
Pending(p) ==
    \/ \E i \in DOMAIN sendQ : sendQ[i] = p
    \/ \E r \in air : r.ip = p
    \/ \E i \in DOMAIN sock[VersionOf(p)] : sock[VersionOf(p)][i].ip = p
    \/ rproto[VersionOf(p)] = p /\ rpc[VersionOf(p)] \in {"test", "retest", "push", "finish"}
    \/ sproto = p /\ spc \in {"stamp", "sendto", "pop", "failed"}
Forgotten(p) == ~Pending(p) /\ nsent[p] < 4

\* If the threads end without the alarm, every address has its three times: the
\* three exit conditions (tot_send_cnt, count - fail) never let one leave early on a calm
\* network.
FullReport == (Calm /\ program = "printed" /\ ~stop_threads) => loss_count = 0

\* On a calm network, unless a request of some address is lost, the program ends by itself.
Completes == Calm => <>(program # "running" \/ \E p \in IPs : Forgotten(p))

\* The alarm ends the program: neither a job that cannot be sent nor a receiver
\* that hears nothing keeps a thread running.
AlarmEnds == stop_threads ~> program # "running"

\* The job the sender pops is the one it sent: while it works on a job outside the
\* queue's own operations, mtx keeps receivers from pushing another on top.
PopsWhatItSent ==
    spc \in {"stamp", "sendto", "pop", "failed"} => sendQ # <<>> /\ Head(sendQ) = sproto
=============================================================================
