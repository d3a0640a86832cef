----------------------------- MODULE RttProofs -----------------------------
(***************************************************************************)
(* Theorems about Rtt, for every file of addresses and every network.      *)
(*                                                                         *)
(* What holds under every fault rests on mtx and on the order of the two   *)
(* unprotected writers of nsent (Safe).  What holds on a calm network      *)
(* rests on a token: each address is queued once, or on its way once - a   *)
(* request in the air, a packet in a socket, an address in a receiver's    *)
(* hand - and nsent is advanced only by the one who holds the token        *)
(* (Tokens), so that the slot a receiver computes from it is the slot of   *)
(* the request it has an answer to (Numbers).                              *)
(***************************************************************************)
EXTENDS Rtt, SeqLemmas

Working == {"stamp", "sendto", "pop", "failed"}
Handling == {"test", "retest", "push", "finish"}
Addresses(v) == {p \in IPs : VersionOf(p) = v}

\* mtx is held while the sender works on a job, and by nobody else for longer.
LockInv == mtx = "sender" <=> spc \in Working

\* The nsent the sender loaded is still right, or a receiver has finished the
\* address since.
LoadInv == spc \in {"stamp", "failed"} =>
    /\ nsent[sproto] < 4 => sread = nsent[sproto]
    /\ nsent[sproto] >= 4 => sread >= 3

\* Each version has its own socket and receiver.
RouteInv == \A v \in Versions :
    /\ \A i \in 1 .. Len(sock[v]) : VersionOf(sock[v][i].ip) = v
    /\ rpc[v] \in Handling => rproto[v] \in Addresses(v)
    /\ rpc[v] = "finish" => nsent[rproto[v]] >= 3

\* The addresses of a version that its receiver may still count down.
Open(v) == {p \in Addresses(v) : nsent[p] < 4 \/ (rpc[v] = "finish" /\ rproto[v] = p)}
CountInv == \A v \in Versions : count[v] >= Cardinality(Open(v))

Safe == TypeOK /\ LockInv /\ PopsWhatItSent /\ LoadInv /\ RouteInv /\ CountInv
-----------------------------------------------------------------------------
Queued(p) == p \in ToSet(sendQ)
Sent(p) == spc = "pop" /\ sproto = p
InAir(p) == \E r \in air : r.ip = p
InSock(p) == \E i \in 1 .. Len(sock[VersionOf(p)]) : sock[VersionOf(p)][i].ip = p
InHand(p) == rpc[VersionOf(p)] \in Handling /\ rproto[VersionOf(p)] = p

OneAir == \A r, s \in air : r.ip = s.ip => r = s
OneSock == \A v \in Versions : \A i, j \in 1 .. Len(sock[v]) :
               sock[v][i].ip = sock[v][j].ip => i = j
OneJob == IsInjective(sendQ)

\* An address on its way is so in one place, and out of the queue unless the
\* sender has yet to pop it.
Apart(p) == /\ ~(InAir(p) /\ InSock(p)) /\ ~(InAir(p) /\ InHand(p)) /\ ~(InSock(p) /\ InHand(p))
            /\ (InAir(p) \/ InSock(p) \/ InHand(p)) /\ Queued(p) => Sent(p)

Tokens == OneAir /\ OneSock /\ OneJob /\ \A p \in IPs : Apart(p)

\* A request or an answer on its way is the last one sent for its address.
AirNum == \A r \in air : r.seq + 1 = nsent[r.ip] /\ nsent[r.ip] <= 3
SockNum == \A v \in Versions : \A i \in 1 .. Len(sock[v]) :
    LET pkt == sock[v][i] IN
    pkt.kind = "reply" /\ pkt.seq + 1 = nsent[pkt.ip] /\ nsent[pkt.ip] <= 3

\* The slots of the first n requests hold their times.
Filled(p, n) == \A i \in 0 .. 2 : i < n => rtt[p][i] = i

HandNum == \A v \in Versions : rpc[v] \in Handling =>
    /\ Filled(rproto[v], nsent[rproto[v]])
    /\ nsent[rproto[v]] \in 1 .. 3
    /\ rpc[v] = "push" => nsent[rproto[v]] <= 2
    /\ rpc[v] \in {"retest", "finish"} => nsent[rproto[v]] = 3

\* A queued address has requests left, all of them answered but the one the
\* sender is sending.
QueueNum == \A p \in IPs : Queued(p) =>
    IF spc \in {"sendto", "pop"} /\ sproto = p
    THEN spc = "sendto" => nsent[p] = sread + 1 /\ nsent[p] <= 3
    ELSE nsent[p] <= 2 /\ Filled(p, nsent[p])

Slots == \A p \in IPs : /\ \A i \in 0 .. 2 : rtt[p][i] \in {Lost, i}
                        /\ Filled(p, nsent[p] - 1)

Numbers == AirNum /\ SockNum /\ HandNum /\ QueueNum /\ Slots

\* A receiver leaves when the alarm rang or its count is down.
Ends == /\ \A v \in Versions : /\ fail[v] = 0
                               /\ rpc[v] = "done" => stop_threads \/ count[v] = 0
        /\ spc # "failed"
        /\ program \in {"running", "printed"}
        /\ program = "printed" => stop_threads \/ loss_count = 0

CalmInv == Tokens /\ Numbers /\ Ends
IInv == Safe /\ (Calm => CalmInv)
-----------------------------------------------------------------------------
(* The setup, which no step changes.                                       *)

\* What is derived from the setup stays as it is.
LEMMA SetupFrame ==
    ASSUME setup' = setup
    PROVE  /\ IPs' = IPs /\ Faults' = Faults /\ (Calm' <=> Calm)
           /\ \A p : VersionOf(p)' = VersionOf(p)
           /\ \A v : Addresses(v)' = Addresses(v)
           /\ Request' = Request /\ Packet' = Packet
<1>1. IPs' = IPs /\ Faults' = Faults /\ \A p : VersionOf(p)' = VersionOf(p)
  BY DEF IPs, Faults, VersionOf
<1> QED BY <1>1 DEF Calm, Addresses, Request, Packet

\* The file has finitely many addresses, each of one version.
LEMMA SetupFacts ==
    ASSUME setup \in Setups
    PROVE  /\ IsFiniteSet(IPs) /\ Cardinality(IPs) \in Nat
           /\ \A p : VersionOf(p) \in Versions
           /\ \A p \in IPs : p \in Addresses(VersionOf(p)) /\ p # NoIp
           /\ \A v : /\ Addresses(v) \subseteq IPs
                     /\ IsFiniteSet(Open(v)) /\ Cardinality(Open(v)) \in Nat
                     /\ \A p \in Addresses(v) : VersionOf(p) = v
<1>1. setup.v4 \subseteq AllIPs /\ setup.v6 \subseteq AllIPs
  BY ConstantAssumption DEF Setup
<1>2. IPs \in SUBSET AllIPs
  BY <1>1 DEF IPs
<1>3. IsFiniteSet(IPs)
  BY <1>2, ConstantAssumption, FS_Subset
<1>4. \A v : Addresses(v) \subseteq IPs /\ Open(v) \in SUBSET IPs
  BY DEF Addresses, Open
<1>5. \A v : IsFiniteSet(Open(v)) /\ Cardinality(Open(v)) \in Nat
  BY <1>3, <1>4, FS_Subset, FS_CardinalityType
<1> QED BY <1>2, <1>3, <1>4, <1>5, ConstantAssumption, FS_CardinalityType
        DEF Addresses, VersionOf, Versions

\* A step that opens no address keeps the count.
LEMMA CountFrame ==
    ASSUME Safe, setup' = setup, count' = count, \A v \in Versions : Open(v)' \subseteq Open(v)
    PROVE  CountInv'
<1>1. setup \in Setups /\ count \in [Versions -> Nat]
  BY DEF Safe, TypeOK
<1> SUFFICES ASSUME NEW v \in Versions
             PROVE  count[v] >= Cardinality(Open(v)')
  BY DEF CountInv
<1>2. /\ IsFiniteSet(Open(v)) /\ Cardinality(Open(v)) \in Nat
      /\ count[v] >= Cardinality(Open(v)) /\ count[v] \in Nat
  BY <1>1, SetupFacts DEF Safe, CountInv
<1>3. Cardinality(Open(v)') <= Cardinality(Open(v)) /\ IsFiniteSet(Open(v)')
  BY <1>2, FS_Subset
<1>4. Cardinality(Open(v)') \in Nat
  BY <1>3, FS_CardinalityType
<1> QED BY <1>2, <1>3, <1>4

\* Open, when nsent does not fall and no receiver comes to finish an address of 4.
LEMMA OpenFrame ==
    ASSUME Safe, setup' = setup,
           \A p \in IPs : nsent'[p] < 4 => nsent[p] < 4,
           \A v \in Versions : rpc'[v] = "finish" =>
               \/ rpc[v] = "finish" /\ rproto'[v] = rproto[v]
               \/ nsent[rproto'[v]] < 4
    PROVE  \A v \in Versions : Open(v)' \subseteq Open(v)
<1>1. \A v : Addresses(v)' = Addresses(v) /\ Addresses(v) \subseteq IPs
  BY SetupFrame DEF Addresses
<1> QED BY <1>1 DEF Open
-----------------------------------------------------------------------------
(* Under every fault: what the sender does.                                *)

\* While it works, the sender has an address of the file.
LEMMA SenderFacts ==
    ASSUME Safe, spc \in Working
    PROVE  /\ sproto \in IPs /\ sproto = Head(sendQ) /\ sendQ # <<>> /\ sendQ \in Seq(IPs)
           /\ VersionOf(sproto) \in Versions
           /\ Tail(sendQ) \in Seq(IPs)
<1>1. sendQ # <<>> /\ sproto = Head(sendQ) /\ sendQ \in Seq(IPs)
  BY DEF Safe, PopsWhatItSent, Working, TypeOK
<1> QED BY <1>1, TailMembers, SetupFacts DEF Safe, TypeOK

\* Steps that leave the receivers, the network and nsent alone.
LEMMA SenderLocal ==
    ASSUME Safe, TakeJob \/ StopSending \/ PopJob
    PROVE  Safe'
<1>1. /\ setup' = setup /\ nsent' = nsent /\ count' = count
      /\ UNCHANGED <<rpc, rproto, sock, air, rtt, fail, stop_threads, program, loss_count, strays>>
  BY DEF TakeJob, StopSending, PopJob, Unlock, recvVars, netVars
<1>2. IPs' = IPs /\ Request' = Request /\ Packet' = Packet
      /\ (\A p : VersionOf(p)' = VersionOf(p)) /\ \A v : Addresses(v)' = Addresses(v)
  BY <1>1, SetupFrame
<1>3. CountInv'
  <2>1. \A v \in Versions : Open(v)' \subseteq Open(v)
    BY <1>1, <1>2 DEF Open
  <2> QED BY <1>1, <2>1, CountFrame
<1>4. RouteInv'
  BY <1>1, <1>2 DEF Safe, RouteInv
<1>5. ASSUME sendQ # <<>>
      PROVE  /\ Head(sendQ) \in IPs /\ Tail(sendQ) \in Seq(IPs) /\ nsent[Head(sendQ)] \in Nat
  BY <1>5, TailMembers DEF Safe, TypeOK
<1>6. CASE TakeJob
  BY <1>1, <1>2, <1>3, <1>4, <1>5, <1>6
     DEF TakeJob, Safe, TypeOK, LockInv, PopsWhatItSent, LoadInv, Working, qFront
<1>7. CASE StopSending
  BY <1>1, <1>2, <1>3, <1>4, <1>7
     DEF StopSending, Safe, TypeOK, LockInv, PopsWhatItSent, LoadInv, Working
<1>8. CASE PopJob
  <2>1. sendQ # <<>>
    BY <1>8, SenderFacts DEF PopJob, Working
  <2> QED BY <1>1, <1>2, <1>3, <1>4, <1>5, <1>8, <2>1
          DEF PopJob, Unlock, qPop, Safe, TypeOK, LockInv, PopsWhatItSent, LoadInv, Working
<1> QED BY <1>6, <1>7, <1>8

\* The store of nsent after a load that may be old.
LEMMA StampSafe ==
    ASSUME Safe, Stamp
    PROVE  Safe'
<1>1. /\ setup' = setup /\ count' = count /\ spc = "stamp" /\ spc' = "sendto"
      /\ nsent' = [nsent EXCEPT ![sproto] = sread + 1]
      /\ UNCHANGED <<sendQ, mtx, rtt, fail, stop_threads, sproto, sread, tot_send_cnt,
                     rpc, rproto, program, loss_count, air, sock, strays>>
  BY DEF Stamp, recvVars, netVars
<1>2. IPs' = IPs /\ Request' = Request /\ Packet' = Packet
      /\ (\A p : VersionOf(p)' = VersionOf(p)) /\ \A v : Addresses(v)' = Addresses(v)
  BY <1>1, SetupFrame
<1>3. /\ sproto \in IPs /\ nsent \in [IPs -> Nat] /\ sread \in Nat
      /\ nsent[sproto] < 4 => sread = nsent[sproto]
      /\ nsent[sproto] >= 4 => sread >= 3
  BY <1>1, SenderFacts DEF Working, Safe, TypeOK, LoadInv
<1>4. \A p \in IPs : /\ nsent'[p] < 4 => nsent[p] < 4
                     /\ nsent[p] >= 3 => nsent'[p] >= 3
  BY <1>1, <1>3
<1>5. CountInv'
  <2>1. \A v \in Versions : rpc'[v] = "finish" => rpc[v] = "finish" /\ rproto'[v] = rproto[v]
    BY <1>1
  <2> QED BY <1>1, <1>4, <2>1, CountFrame, OpenFrame
<1>6. RouteInv'
  BY <1>1, <1>2, <1>4 DEF Safe, RouteInv, Handling, Addresses
<1>7. TypeOK'
  BY <1>1, <1>2, <1>3 DEF Safe, TypeOK
<1> QED BY <1>1, <1>5, <1>6, <1>7 DEF Safe, LockInv, PopsWhatItSent, LoadInv, Working

\* sendto, and its failure.
LEMMA SendToSafe ==
    ASSUME Safe, SendTo \/ SendToFails
    PROVE  Safe'
<1>1. /\ setup' = setup /\ count' = count /\ nsent' = nsent /\ spc = "sendto"
      /\ spc' \in {"pop", "failed"} /\ (spc' = "failed" => sread' = nsent[sproto])
      /\ sread' \in {sread, nsent[sproto]}
      /\ air' \in {air, air \cup {[ip |-> sproto, seq |-> sread]}}
      /\ UNCHANGED <<sendQ, mtx, rtt, fail, stop_threads, sproto, tot_send_cnt,
                     rpc, rproto, program, loss_count, sock, strays>>
  BY DEF SendTo, SendToFails, recvVars, netVars
<1>2. IPs' = IPs /\ Request' = Request /\ Packet' = Packet
      /\ (\A p : VersionOf(p)' = VersionOf(p)) /\ \A v : Addresses(v)' = Addresses(v)
  BY <1>1, SetupFrame
<1>3. sproto \in IPs /\ nsent \in [IPs -> Nat] /\ sread \in Nat /\ nsent[sproto] \in Nat
  BY <1>1, SenderFacts DEF Working, Safe, TypeOK
<1>4. [ip |-> sproto, seq |-> sread] \in Request
  BY <1>3 DEF Request
<1>5. CountInv'
  <2>1. \A v \in Versions : Open(v)' \subseteq Open(v)
    BY <1>1, <1>2 DEF Open
  <2> QED BY <1>1, <2>1, CountFrame
<1>6. RouteInv'
  BY <1>1, <1>2 DEF Safe, RouteInv
<1>7. TypeOK'
  BY <1>1, <1>2, <1>3, <1>4 DEF Safe, TypeOK
<1> QED BY <1>1, <1>3, <1>5, <1>6, <1>7 DEF Safe, LockInv, PopsWhatItSent, LoadInv, Working

\* What is done after a failed send.
LEMMA SendFailedSafe ==
    ASSUME Safe, SendFailed
    PROVE  Safe'
<1>1. /\ setup' = setup /\ count' = count /\ spc = "failed" /\ mtx' = "free"
      /\ spc' \in {"lock", "done"} /\ tot_send_cnt' = tot_send_cnt + 1
      /\ nsent' = IF sread <= 3 THEN [nsent EXCEPT ![sproto] = sread + 1] ELSE nsent
      /\ rtt' = IF sread \in 0 .. 2 THEN [rtt EXCEPT ![sproto][sread] = Lost] ELSE rtt
      /\ sendQ' \in {sendQ, Tail(sendQ)}
      /\ fail' \in {fail, [fail EXCEPT ![VersionOf(sproto)] = @ + 1]}
      /\ UNCHANGED <<stop_threads, sproto, sread, rpc, rproto, program, loss_count,
                     air, sock, strays>>
  BY DEF SendFailed, Unlock, qPop, recvVars, netVars
<1>2. IPs' = IPs /\ Request' = Request /\ Packet' = Packet
      /\ (\A p : VersionOf(p)' = VersionOf(p)) /\ \A v : Addresses(v)' = Addresses(v)
  BY <1>1, SetupFrame
<1>3. /\ sproto \in IPs /\ nsent \in [IPs -> Nat] /\ sread \in Nat
      /\ nsent[sproto] < 4 => sread = nsent[sproto]
      /\ nsent[sproto] >= 4 => sread >= 3
      /\ Tail(sendQ) \in Seq(IPs) /\ VersionOf(sproto) \in Versions
  BY <1>1, SenderFacts DEF Working, Safe, TypeOK, LoadInv
<1>4. \A p \in IPs : /\ nsent'[p] < 4 => nsent[p] < 4
                     /\ nsent[p] >= 3 => nsent'[p] >= 3
  BY <1>1, <1>3
<1>5. CountInv'
  <2>1. \A v \in Versions : rpc'[v] = "finish" => rpc[v] = "finish" /\ rproto'[v] = rproto[v]
    BY <1>1
  <2> QED BY <1>1, <1>4, <2>1, CountFrame, OpenFrame
<1>6. RouteInv'
  BY <1>1, <1>2, <1>4 DEF Safe, RouteInv, Handling, Addresses
<1>7. TypeOK'
  <2>1. rtt' \in [IPs -> [0 .. 2 -> Nat \cup {Lost}]]
    BY <1>1, <1>3 DEF Safe, TypeOK
  <2>2. nsent' \in [IPs -> Nat] /\ fail' \in [Versions -> Nat]
    <3>1. nsent \in [IPs -> Nat] /\ fail \in [Versions -> Nat]
      BY DEF Safe, TypeOK
    <3>2. nsent' \in [IPs -> Nat]
      BY <1>1, <1>3, <3>1
    <3>3. fail' \in [Versions -> Nat]
      BY <1>1, <3>1
    <3> QED BY <3>2, <3>3
  <2>3. sendQ' \in Seq(IPs) /\ tot_send_cnt' \in Nat
    <3>1. sendQ \in Seq(IPs) /\ tot_send_cnt \in Nat
      BY DEF Safe, TypeOK
    <3>2. sendQ' \in {sendQ, Tail(sendQ)} /\ tot_send_cnt' = tot_send_cnt + 1
      BY <1>1
    <3>3. sendQ' \in Seq(IPs)
      BY <1>3, <3>1, <3>2
    <3>4. tot_send_cnt' \in Nat
      BY <3>1, <3>2
    <3> QED BY <3>3, <3>4
  <2> QED BY <1>1, <1>2, <2>1, <2>2, <2>3 DEF Safe, TypeOK
<1> QED BY <1>1, <1>5, <1>6, <1>7 DEF Safe, LockInv, PopsWhatItSent, LoadInv, Working
-----------------------------------------------------------------------------
(* Under every fault: what a receiver does.                                *)

\* Steps of a receiver that change nothing but its own place.
LEMMA ReceiverLocal ==
    ASSUME Safe, NEW v \in Versions, Loop(v) \/ NothingReceived(v) \/ TestSent(v) \/ TestThree(v)
    PROVE  Safe'
<1>1. /\ setup' = setup /\ nsent' = nsent /\ count' = count
      /\ UNCHANGED <<sendQ, mtx, rtt, fail, stop_threads, senderVars, rproto, program,
                     loss_count, netVars>>
      /\ \E l \in {"while", "recvfrom", "retest", "done", "push", "finish"} : rpc' = [rpc EXCEPT ![v] = l]
      /\ rpc'[v] \in Handling => rpc[v] \in Handling
      /\ rpc'[v] = "finish" => nsent[rproto[v]] = 3
  BY DEF Loop, NothingReceived, TestSent, TestThree, Safe, TypeOK, Handling
<1>2. IPs' = IPs /\ Request' = Request /\ Packet' = Packet
      /\ (\A p : VersionOf(p)' = VersionOf(p)) /\ \A u : Addresses(u)' = Addresses(u)
  BY <1>1, SetupFrame
<1>3. rpc' \in [Versions -> {"while", "recvfrom", "test", "retest", "push", "finish", "done"}]
      /\ \A u \in Versions : u # v => rpc'[u] = rpc[u]
  BY <1>1 DEF Safe, TypeOK
<1>4. TypeOK'
  BY <1>1, <1>2, <1>3 DEF Safe, TypeOK, senderVars, netVars
<1>5. RouteInv'
  BY <1>1, <1>2, <1>3 DEF Safe, RouteInv, netVars
<1>6. CountInv'
  <2>1. \A u \in Versions : rpc'[u] = "finish" =>
            (rpc[u] = "finish" /\ rproto'[u] = rproto[u]) \/ nsent[rproto'[u]] < 4
    BY <1>1, <1>3
  <2> QED BY <1>1, <2>1, CountFrame, OpenFrame
<1> QED BY <1>1, <1>4, <1>5, <1>6 DEF Safe, LockInv, PopsWhatItSent, LoadInv, senderVars

\* A packet is stored in the slot that nsent points to.
LEMMA PacketSafe ==
    ASSUME Safe, NEW v \in Versions, ProcessPacket(v)
    PROVE  Safe'
<1> DEFINE pkt == Head(sock[v])
<1>1. /\ setup' = setup /\ nsent' = nsent /\ count' = count
      /\ UNCHANGED <<sendQ, mtx, fail, stop_threads, senderVars, loss_count, air, strays>>
      /\ sock' = [sock EXCEPT ![v] = Tail(@)]
      /\ rproto' = [rproto EXCEPT ![v] = pkt.ip]
      /\ rpc' = [rpc EXCEPT ![v] = "test"]
      /\ program' \in {program, "exited", "undefined"}
      /\ \/ rtt' = rtt
         \/ /\ Slot(pkt.ip) \in 0 .. 2
            /\ rtt' = [rtt EXCEPT ![pkt.ip][Slot(pkt.ip)] =
                                        IF pkt.kind = "reply" THEN pkt.seq ELSE Lost]
  BY DEF ProcessPacket
<1>2. IPs' = IPs /\ Request' = Request /\ Packet' = Packet
      /\ (\A p : VersionOf(p)' = VersionOf(p)) /\ \A u : Addresses(u)' = Addresses(u)
  BY <1>1, SetupFrame
<1>3. /\ sock[v] \in Seq(Packet) /\ sock[v] # <<>> /\ pkt = sock[v][1]
      /\ pkt \in Packet /\ Tail(sock[v]) \in Seq(Packet)
      /\ 1 \in 1 .. Len(sock[v])
      /\ \A i \in 1 .. Len(Tail(sock[v])) : /\ Tail(sock[v])[i] = sock[v][i + 1]
                                            /\ i + 1 \in 1 .. Len(sock[v])
  <2>1. sock[v] \in Seq(Packet) /\ sock[v] # <<>>
    BY DEF ProcessPacket, Safe, TypeOK
  <2>2. /\ Tail(sock[v]) \in Seq(Packet) /\ Len(Tail(sock[v])) = Len(sock[v]) - 1
        /\ \A i \in 1 .. Len(Tail(sock[v])) : Tail(sock[v])[i] = sock[v][i + 1]
        /\ Head(sock[v]) \in Packet /\ Head(sock[v]) = sock[v][1]
    BY <2>1, HeadTailProperties, TailMembers
  <2>3. Len(sock[v]) \in Nat \ {0}
    BY <2>1
  <2> QED BY <2>1, <2>2, <2>3
<1>4. /\ pkt.ip \in IPs /\ VersionOf(pkt.ip) = v /\ pkt.ip \in Addresses(v)
      /\ pkt.seq \in Nat
  <2>1. pkt.ip \in IPs /\ VersionOf(pkt.ip) = v /\ pkt.seq \in Nat
    BY <1>3 DEF Packet, Safe, RouteInv
  <2> QED BY <2>1 DEF Addresses
<1> HIDE DEF pkt
<1>5. TypeOK'
  <2>1. rtt' \in [IPs -> [0 .. 2 -> Nat \cup {Lost}]]
    <3>1. rtt \in [IPs -> [0 .. 2 -> Nat \cup {Lost}]]
      BY DEF Safe, TypeOK
    <3>2. ASSUME NEW k \in 0 .. 2, NEW t \in Nat \cup {Lost}
          PROVE  [rtt EXCEPT ![pkt.ip][k] = t] \in [IPs -> [0 .. 2 -> Nat \cup {Lost}]]
      BY <1>4, <3>1
    <3>3. (IF pkt.kind = "reply" THEN pkt.seq ELSE Lost) \in Nat \cup {Lost}
      BY <1>4
    <3> QED BY <1>1, <3>1, <3>2, <3>3
  <2>2. sock' \in [Versions -> Seq(Packet)] /\ rproto' \in [Versions -> IPs \cup {NoIp}]
        /\ rpc' \in [Versions -> {"while", "recvfrom", "test", "retest", "push", "finish", "done"}]
    BY <1>1, <1>3, <1>4 DEF Safe, TypeOK
  <2>3. program' \in {"running", "printed", "exited", "undefined"}
    BY <1>1 DEF Safe, TypeOK
  <2> QED BY <1>1, <1>2, <2>1, <2>2, <2>3 DEF Safe, TypeOK, senderVars
<1>6. RouteInv'
  <2>1. ASSUME NEW u \in Versions
        PROVE  /\ \A i \in 1 .. Len(sock'[u]) : VersionOf(sock'[u][i].ip) = u
               /\ rpc'[u] \in Handling => rproto'[u] \in Addresses(u)
               /\ rpc'[u] = "finish" => nsent'[rproto'[u]] >= 3
    <3>1. CASE u = v
      <4>1. sock'[v] = Tail(sock[v]) /\ rpc'[v] = "test" /\ rproto'[v] = pkt.ip
        BY <1>1 DEF Safe, TypeOK
      <4> QED BY <1>3, <1>4, <3>1, <4>1 DEF Safe, RouteInv
    <3>2. CASE u # v
      BY <1>1, <3>2 DEF Safe, RouteInv, TypeOK
    <3> QED BY <3>1, <3>2
  <2> QED BY <1>2, <2>1 DEF RouteInv
<1>7. CountInv'
  <2>1. \A u \in Versions : rpc'[u] = "finish" => rpc[u] = "finish" /\ rproto'[u] = rproto[u]
    BY <1>1 DEF Safe, TypeOK
  <2> QED BY <1>1, <2>1, CountFrame, OpenFrame
<1> QED BY <1>1, <1>5, <1>6, <1>7 DEF Safe, LockInv, PopsWhatItSent, LoadInv, senderVars

\* A job is put back only while the sender works on none.
LEMMA PushSafe ==
    ASSUME Safe, NEW v \in Versions, PushJob(v)
    PROVE  Safe'
<1>1. /\ setup' = setup /\ nsent' = nsent /\ count' = count /\ mtx = "free"
      /\ sendQ' = <<rproto[v]>> \o sendQ /\ rpc[v] = "push"
      /\ rpc' = [rpc EXCEPT ![v] = "while"]
      /\ UNCHANGED <<mtx, rtt, fail, stop_threads, senderVars, rproto, program, loss_count, netVars>>
  BY DEF PushJob, qPush
<1>2. IPs' = IPs /\ Request' = Request /\ Packet' = Packet
      /\ (\A p : VersionOf(p)' = VersionOf(p)) /\ \A u : Addresses(u)' = Addresses(u)
  BY <1>1, SetupFrame
<1>3. sendQ' \in Seq(IPs)
  <2>1. rproto[v] \in IPs
    BY <1>1 DEF Safe, RouteInv, Handling, Addresses
  <2> QED BY <1>1, <2>1, ConcatProperties DEF Safe, TypeOK
<1>4. TypeOK'
  BY <1>1, <1>2, <1>3 DEF Safe, TypeOK, senderVars, netVars
<1>5. RouteInv'
  BY <1>1, <1>2 DEF Safe, RouteInv, netVars, TypeOK, Handling
<1>6. CountInv'
  <2>1. \A u \in Versions : rpc'[u] = "finish" => rpc[u] = "finish" /\ rproto'[u] = rproto[u]
    BY <1>1 DEF Safe, TypeOK
  <2> QED BY <1>1, <2>1, CountFrame, OpenFrame
<1>7. spc \notin Working
  BY <1>1 DEF Safe, LockInv
<1> QED BY <1>1, <1>4, <1>5, <1>6, <1>7
        DEF Safe, LockInv, PopsWhatItSent, LoadInv, senderVars, Working

\* An address is counted down once.
LEMMA FinishSafe ==
    ASSUME Safe, NEW v \in Versions, FinishIp(v)
    PROVE  Safe'
<1> DEFINE p == rproto[v]
<1>0. PICK last \in {3, nsent[p]} : nsent' = [nsent EXCEPT ![p] = last + 1]
  BY DEF FinishIp
<1>1. /\ setup' = setup /\ rpc[v] = "finish" /\ rpc' = [rpc EXCEPT ![v] = "while"]
      /\ nsent' = [nsent EXCEPT ![p] = last + 1]
      /\ count' = [count EXCEPT ![v] = @ - 1]
      /\ UNCHANGED <<sendQ, mtx, rtt, fail, stop_threads, senderVars, rproto, program,
                     loss_count, netVars>>
  BY <1>0 DEF FinishIp
<1>2. IPs' = IPs /\ Request' = Request /\ Packet' = Packet
      /\ (\A q : VersionOf(q)' = VersionOf(q)) /\ \A u : Addresses(u)' = Addresses(u)
  BY <1>1, SetupFrame
<1>3. /\ p \in Addresses(v) /\ p \in IPs /\ p \in Open(v) /\ nsent[p] >= 3 /\ VersionOf(p) = v
  BY <1>1 DEF Safe, RouteInv, Handling, Addresses, Open
<1>4. /\ nsent \in [IPs -> Nat] /\ count \in [Versions -> Nat]
      /\ rpc \in [Versions -> {"while", "recvfrom", "test", "retest", "push", "finish", "done"}]
      /\ setup \in Setups
      /\ last + 1 \in Nat /\ last + 1 >= 4
  BY <1>0, <1>3 DEF Safe, TypeOK
<1>5. Open(v)' \subseteq Open(v) \ {p}
  BY <1>1, <1>2, <1>3, <1>4 DEF Open, Addresses
<1>6. \A u \in Versions : u # v => Open(u)' \subseteq Open(u)
  BY <1>1, <1>2, <1>3, <1>4 DEF Open, Addresses
<1>7. /\ IsFiniteSet(Open(v)) /\ Cardinality(Open(v)) \in Nat /\ count[v] \in Nat
      /\ count[v] >= Cardinality(Open(v))
      /\ IsFiniteSet(Open(v) \ {p}) /\ Cardinality(Open(v) \ {p}) = Cardinality(Open(v)) - 1
      /\ Cardinality(Open(v) \ {p}) \in Nat
  <2>1. IsFiniteSet(Open(v)) /\ Cardinality(Open(v)) \in Nat
    BY <1>4, SetupFacts
  <2>2. IsFiniteSet(Open(v) \ {p}) /\ Cardinality(Open(v) \ {p}) = Cardinality(Open(v)) - 1
    BY <1>3, <2>1, FS_RemoveElement
  <2> QED BY <1>4, <2>1, <2>2, FS_CardinalityType DEF Safe, CountInv
<1>8. CountInv'
  <2>1. ASSUME NEW u \in Versions
        PROVE  count'[u] >= Cardinality(Open(u)')
    <3>1. CASE u = v
      <4>1. /\ Cardinality(Open(v)') <= Cardinality(Open(v) \ {p})
            /\ Cardinality(Open(v)') \in Nat
        BY <1>5, <1>7, FS_Subset, FS_CardinalityType
      <4>2. count'[v] = count[v] - 1
        BY <1>1, <1>4
      <4> QED BY <1>7, <3>1, <4>1, <4>2
    <3>2. CASE u # v
      <4>1. IsFiniteSet(Open(u)) /\ Cardinality(Open(u)) \in Nat /\ count'[u] = count[u]
        BY <1>1, <1>4, <3>2, SetupFacts
      <4>2. /\ Cardinality(Open(u)') <= Cardinality(Open(u))
            /\ Cardinality(Open(u)') \in Nat
        BY <1>6, <3>2, <4>1, FS_Subset, FS_CardinalityType
      <4> QED BY <1>4, <4>1, <4>2 DEF Safe, CountInv
    <3> QED BY <3>1, <3>2
  <2> QED BY <2>1 DEF CountInv
<1>9. TypeOK'
  <2>1. count' \in [Versions -> Nat]
    BY <1>1, <1>4, <1>7
  <2>2. nsent' \in [IPs -> Nat] /\ rpc' \in [Versions -> {"while", "recvfrom", "test", "retest", "push", "finish", "done"}]
    BY <1>1, <1>4
  <2> QED BY <1>1, <1>2, <2>1, <2>2 DEF Safe, TypeOK, senderVars, netVars
<1>10. RouteInv'
  BY <1>1, <1>2, <1>3, <1>4 DEF Safe, RouteInv, netVars, Handling, Addresses
<1>11. LoadInv'
  <2>1. /\ UNCHANGED <<spc, sproto, sread>> /\ sread \in Nat
        /\ spc \in {"stamp", "failed"} => sproto \in IPs
    BY <1>1, SenderFacts DEF senderVars, Safe, TypeOK, Working
  <2> QED BY <1>1, <1>3, <1>4, <2>1 DEF Safe, LoadInv
<1> QED BY <1>1, <1>8, <1>9, <1>10, <1>11 DEF Safe, LockInv, PopsWhatItSent, senderVars
-----------------------------------------------------------------------------
(* Under every fault: main, the alarm and the network.                     *)

\* The alarm and the end of the program.
LEMMA MainSafe ==
    ASSUME Safe, AlarmRings \/ PrintRtts \/ UNCHANGED vars
    PROVE  Safe'
<1>1. /\ setup' = setup /\ nsent' = nsent /\ count' = count
      /\ UNCHANGED <<sendQ, mtx, rtt, fail, senderVars, recvVars, netVars>>
  BY DEF AlarmRings, PrintRtts, vars
<1>2. IPs' = IPs /\ Request' = Request /\ Packet' = Packet
      /\ (\A p : VersionOf(p)' = VersionOf(p)) /\ \A u : Addresses(u)' = Addresses(u)
  BY <1>1, SetupFrame
<1>3. stop_threads' \in BOOLEAN /\ program' \in {"running", "printed", "exited", "undefined"}
      /\ loss_count' \in Nat
  <2>1. CASE PrintRtts
    <3> DEFINE slots == {s \in IPs \X (0 .. 2) : rtt[s[1]][s[2]] = Lost}
    <3>1. IsFiniteSet(IPs) /\ IsFiniteSet(0 .. 2)
      <4>1. IsFiniteSet(IPs)
        BY SetupFacts DEF Safe, TypeOK
      <4>2. 0 \in Int /\ 2 \in Int
        OBVIOUS
      <4> QED BY <4>1, <4>2, FS_Interval
    <3>2. IsFiniteSet(IPs \X (0 .. 2))
      BY <3>1, FS_Product
    <3>3. slots \in SUBSET (IPs \X (0 .. 2))
      OBVIOUS
    <3>4. IsFiniteSet(slots)
      BY <3>2, <3>3, FS_Subset
    <3>5. Cardinality(slots) \in Nat
      BY <3>4, FS_CardinalityType
    <3> QED BY <2>1, <3>5 DEF PrintRtts, Safe, TypeOK
  <2>2. CASE AlarmRings \/ UNCHANGED vars
    BY <2>2 DEF AlarmRings, vars, Safe, TypeOK
  <2> QED BY <2>1, <2>2
<1>4. TypeOK'
  BY <1>1, <1>2, <1>3 DEF Safe, TypeOK, senderVars, recvVars, netVars
<1>5. CountInv'
  <2>1. \A v \in Versions : Open(v)' \subseteq Open(v)
    BY <1>1, <1>2 DEF Open, recvVars
  <2> QED BY <1>1, <2>1, CountFrame
<1>6. RouteInv'
  BY <1>1, <1>2 DEF Safe, RouteInv, recvVars, netVars
<1> QED BY <1>1, <1>4, <1>5, <1>6
        DEF Safe, LockInv, PopsWhatItSent, LoadInv, senderVars

\* The network delivers to the socket of the address's version.
LEMMA DeliverFacts ==
    ASSUME Safe, NEW p \in IPs, NEW kind \in {"reply", "other", "foreign"}, NEW seq \in Nat,
           Deliver(p, kind, seq)
    PROVE  LET pkt == [ip |-> p, kind |-> kind, seq |-> seq]
               q == sock[VersionOf(p)]
           IN  /\ VersionOf(p) \in Versions /\ pkt \in Packet
               /\ pkt.ip = p /\ pkt.kind = kind /\ pkt.seq = seq
               /\ q \in Seq(Packet) /\ Len(q) \in Nat
               /\ sock' = [sock EXCEPT ![VersionOf(p)] = Append(q, pkt)]
               /\ sock' \in [Versions -> Seq(Packet)]
               /\ \A u \in Versions : u # VersionOf(p) => sock'[u] = sock[u]
               /\ Len(sock'[VersionOf(p)]) = Len(q) + 1
               /\ \A i \in 1 .. Len(q) : sock'[VersionOf(p)][i] = q[i]
               /\ sock'[VersionOf(p)][Len(q) + 1] = pkt
<1> DEFINE pkt == [ip |-> p, kind |-> kind, seq |-> seq]
           v == VersionOf(p)
<1>1. v \in Versions /\ pkt \in Packet
  BY SetupFacts DEF Safe, TypeOK, Packet
<1>2. /\ pkt.ip = p /\ pkt.kind = kind /\ pkt.seq = seq
  OBVIOUS
<1>3. sock' = [sock EXCEPT ![v] = Append(sock[v], pkt)]
  BY DEF Deliver
<1>4. sock \in [Versions -> Seq(Packet)]
  BY DEF Safe, TypeOK
<1> HIDE DEF pkt, v
<1>5. /\ sock[v] \in Seq(Packet) /\ Len(sock[v]) \in Nat
      /\ Append(sock[v], pkt) \in Seq(Packet) /\ Len(Append(sock[v], pkt)) = Len(sock[v]) + 1
      /\ \A i \in 1 .. Len(sock[v]) : Append(sock[v], pkt)[i] = sock[v][i]
      /\ Append(sock[v], pkt)[Len(sock[v]) + 1] = pkt
  <2>1. sock[v] \in Seq(Packet)
    BY <1>1, <1>4
  <2> QED BY <1>1, <2>1, AppendProperties, LenProperties
<1>6. /\ sock'[v] = Append(sock[v], pkt) /\ sock' \in [Versions -> Seq(Packet)]
      /\ \A u \in Versions : u # v => sock'[u] = sock[u]
  BY <1>1, <1>3, <1>4, <1>5
<1> QED BY <1>1, <1>2, <1>3, <1>5, <1>6 DEF pkt, v

\* Answers, losses and strays.
LEMMA NetworkSafe ==
    ASSUME Safe, \/ \E r \in air : Answer(r) \/ Lose(r) \/ Duplicate(r)
                 \/ \E p \in IPs : Stray(p)
    PROVE  Safe'
<1>1. /\ setup' = setup /\ nsent' = nsent /\ count' = count
      /\ UNCHANGED <<sendQ, mtx, rtt, fail, stop_threads, senderVars, recvVars, program, loss_count>>
  BY DEF Answer, Lose, Duplicate, Stray, programVars
<1>2. IPs' = IPs /\ Request' = Request /\ Packet' = Packet
      /\ (\A p : VersionOf(p)' = VersionOf(p)) /\ \A u : Addresses(u)' = Addresses(u)
  BY <1>1, SetupFrame
<1>3. air \in SUBSET Request /\ strays \in Nat /\ sock \in [Versions -> Seq(Packet)]
  BY DEF Safe, TypeOK
<1>4. \A r \in air : r.ip \in IPs /\ r.seq \in Nat
  BY <1>3 DEF Request
<1>5. \/ sock' = sock
      \/ \E p \in IPs, kind \in {"reply", "other", "foreign"}, seq \in Nat : Deliver(p, kind, seq)
  <2>1. ASSUME NEW r \in air, Answer(r) \/ Duplicate(r)
        PROVE  Deliver(r.ip, "reply", r.seq)
    BY <2>1 DEF Answer, Duplicate
  <2>2. ASSUME NEW r \in air, Lose(r)
        PROVE  sock' = sock
    BY <2>2 DEF Lose
  <2>3. ASSUME NEW p \in IPs, Stray(p)
        PROVE  \E kind \in {"reply", "other", "foreign"}, seq \in Nat : Deliver(p, kind, seq)
    BY <2>3 DEF Stray
  <2> QED BY <1>4, <2>1, <2>2, <2>3
<1>6. /\ sock' \in [Versions -> Seq(Packet)]
      /\ \A v \in Versions : \A i \in 1 .. Len(sock'[v]) : VersionOf(sock'[v][i].ip) = v
  <2>1. CASE sock' = sock
    BY <1>3, <2>1 DEF Safe, RouteInv
  <2>2. ASSUME NEW p \in IPs, NEW kind \in {"reply", "other", "foreign"}, NEW seq \in Nat,
               Deliver(p, kind, seq)
        PROVE  /\ sock' \in [Versions -> Seq(Packet)]
               /\ \A v \in Versions : \A i \in 1 .. Len(sock'[v]) : VersionOf(sock'[v][i].ip) = v
    <3> DEFINE u == VersionOf(p)
    <3>1. /\ sock' \in [Versions -> Seq(Packet)] /\ u \in Versions /\ Len(sock[u]) \in Nat
          /\ \A v \in Versions : v # u => sock'[v] = sock[v]
          /\ Len(sock'[u]) = Len(sock[u]) + 1
          /\ \A i \in 1 .. Len(sock[u]) : sock'[u][i] = sock[u][i]
          /\ sock'[u][Len(sock[u]) + 1] = [ip |-> p, kind |-> kind, seq |-> seq]
      <4> HIDE DEF u
      <4> QED BY <2>2, DeliverFacts DEF u
    <3>3. sock'[u][Len(sock[u]) + 1].ip = p
      BY <3>1
    <3>2. \A i \in 1 .. Len(sock'[u]) : i \in 1 .. Len(sock[u]) \/ i = Len(sock[u]) + 1
      BY <3>1
    <3> QED BY <3>1, <3>2, <3>3 DEF Safe, RouteInv
  <2> QED BY <1>5, <2>1, <2>2
<1>7. air' \in SUBSET Request /\ strays' \in Nat
  BY <1>3 DEF Answer, Lose, Duplicate, Stray
<1>8. TypeOK'
  BY <1>1, <1>2, <1>6, <1>7 DEF Safe, TypeOK, senderVars, recvVars
<1>9. RouteInv'
  BY <1>1, <1>2, <1>6 DEF Safe, RouteInv, recvVars
<1>10. CountInv'
  <2>1. \A v \in Versions : Open(v)' \subseteq Open(v)
    BY <1>1, <1>2 DEF Open, recvVars
  <2> QED BY <1>1, <2>1, CountFrame
<1> QED BY <1>1, <1>8, <1>9, <1>10 DEF Safe, LockInv, PopsWhatItSent, LoadInv, senderVars

\* The beginning, and every step.
LEMMA SafeInit == Init => Safe
<1> SUFFICES ASSUME Init
             PROVE  Safe
  OBVIOUS
<1>1. setup \in Setups
  BY DEF Init
<1>2. sendQ \in Seq(IPs)
  <2>1. sendQ \in [1 .. Cardinality(IPs) -> IPs] /\ Cardinality(IPs) \in Nat
    BY <1>1, SetupFacts DEF Init
  <2> QED BY <2>1, SeqDef
<1>3. \A v \in Versions : Cardinality({p \in IPs : VersionOf(p) = v}) \in Nat
  BY <1>1, SetupFacts, FS_Subset, FS_CardinalityType DEF Addresses
<1>4. TypeOK
  <2>1. /\ rtt \in [IPs -> [0 .. 2 -> Nat \cup {Lost}]] /\ nsent \in [IPs -> Nat]
        /\ sock \in [Versions -> Seq(Packet)] /\ air \in SUBSET Request
    BY DEF Init
  <2>2. count \in [Versions -> Nat] /\ fail \in [Versions -> Nat]
    BY <1>3 DEF Init
  <2>3. /\ rpc \in [Versions -> {"while", "recvfrom", "test", "retest", "push", "finish", "done"}]
        /\ rproto \in [Versions -> IPs \cup {NoIp}]
        /\ sproto \in IPs \cup {NoIp}
    BY DEF Init
  <2> QED BY <1>1, <1>2, <2>1, <2>2, <2>3 DEF Init, TypeOK
<1>5. CountInv
  <2> SUFFICES ASSUME NEW v \in Versions
               PROVE  count[v] >= Cardinality(Open(v))
    BY DEF CountInv
  <2>1. Open(v) = {p \in IPs : VersionOf(p) = v}
    BY DEF Init, Open, Addresses
  <2>2. count[v] = Cardinality({p \in IPs : VersionOf(p) = v})
    BY DEF Init
  <2> QED BY <1>3, <2>1, <2>2
<1> QED BY <1>4, <1>5
        DEF Init, Safe, LockInv, PopsWhatItSent, LoadInv, RouteInv, Working, Handling

\* No step, under whatever fault, breaks Safe.
LEMMA SafeStep == Safe /\ [Next]_vars => Safe'
BY SenderLocal, StampSafe, SendToSafe, SendFailedSafe, ReceiverLocal, PacketSafe, PushSafe,
   FinishSafe, MainSafe, NetworkSafe
   DEF Next, SenderStep, ReceiverStep, NetworkStep, Over
-----------------------------------------------------------------------------
(* On a calm network: where an address is.                                 *)

\* The places of an address, as far as a step leaves their variables alone.
LEMMA PlaceFrame ==
    ASSUME setup' = setup
    PROVE  /\ air' = air => \A p : InAir(p)' <=> InAir(p)
           /\ sock' = sock => \A p : InSock(p)' <=> InSock(p)
           /\ rpc' = rpc /\ rproto' = rproto => \A p : InHand(p)' <=> InHand(p)
           /\ sendQ' = sendQ => \A p : Queued(p)' <=> Queued(p)
           /\ UNCHANGED <<rtt, nsent>> => \A p : /\ nsent'[p] = nsent[p]
                                                 /\ \A n : Filled(p, n)' <=> Filled(p, n)
<1>1. \A p : VersionOf(p)' = VersionOf(p)
  BY SetupFrame
<1> QED BY <1>1 DEF InAir, InSock, InHand, Queued, Filled

\* What Safe says of the variables that Tokens and Numbers are about.
LEMMA SafeFacts ==
    ASSUME Safe
    PROVE  /\ setup \in Setups /\ sendQ \in Seq(IPs) /\ nsent \in [IPs -> Nat]
           /\ rtt \in [IPs -> [0 .. 2 -> Nat \cup {Lost}]]
           /\ rpc \in [Versions -> {"while", "recvfrom", "test", "retest", "push", "finish", "done"}]
           /\ rproto \in [Versions -> IPs \cup {NoIp}]
           /\ sock \in [Versions -> Seq(Packet)] /\ air \in SUBSET Request
           /\ \A p : VersionOf(p) \in Versions
           /\ \A r \in air : r.ip \in IPs /\ r.seq \in Nat
           /\ \A p \in ToSet(sendQ) : p \in IPs
           /\ \A v \in Versions : \A i \in 1 .. Len(sock[v]) :
                  /\ sock[v][i] \in Packet /\ sock[v][i].ip \in IPs
                  /\ VersionOf(sock[v][i].ip) = v
<1>1. \A p \in ToSet(sendQ) : p \in IPs
  BY ToSetDef DEF Safe, TypeOK
<1>2. ASSUME NEW v \in Versions, NEW i \in 1 .. Len(sock[v])
      PROVE  /\ sock[v][i] \in Packet /\ sock[v][i].ip \in IPs
             /\ VersionOf(sock[v][i].ip) = v
  <2>1. sock[v] \in Seq(Packet)
    BY DEF Safe, TypeOK
  <2>2. sock[v][i] \in Packet
    BY <2>1
  <2> QED BY <2>2 DEF Safe, RouteInv, Packet
<1> QED BY <1>1, <1>2, SetupFacts DEF Safe, TypeOK, Request

\* The sender takes no address that is on its way.
LEMMA TakeCalm ==
    ASSUME Safe, CalmInv, TakeJob \/ StopSending
    PROVE  CalmInv'
<1>1. /\ setup' = setup /\ spc = "lock" /\ spc' \in {"stamp", "done"}
      /\ UNCHANGED <<sendQ, nsent, rtt, count, fail, stop_threads, rpc, rproto, program,
                     loss_count, air, sock>>
  BY DEF TakeJob, StopSending, recvVars, netVars
<1>2. IPs' = IPs /\ \A p \in IPs : /\ InAir(p)' <=> InAir(p)
                                   /\ InSock(p)' <=> InSock(p)
                                   /\ InHand(p)' <=> InHand(p)
                                   /\ Queued(p)' <=> Queued(p)
                                   /\ ~Sent(p) /\ ~Sent(p)'
  BY <1>1, SetupFrame, PlaceFrame DEF Sent
<1>3. Tokens'
  BY <1>1, <1>2 DEF CalmInv, Tokens, OneAir, OneSock, OneJob, Apart
<1>4. AirNum' /\ SockNum' /\ HandNum'
  BY <1>1 DEF CalmInv, Numbers, AirNum, SockNum, HandNum, Filled
<1>5. QueueNum' /\ Slots'
  BY <1>1, <1>2 DEF CalmInv, Numbers, QueueNum, Slots, Filled
<1>6. Ends'
  BY <1>1 DEF CalmInv, Ends
<1> QED BY <1>3, <1>4, <1>5, <1>6 DEF CalmInv, Numbers

\* The address that is stamped is queued and nowhere else, so that no answer's slot
\* moves.
LEMMA StampCalm ==
    ASSUME Safe, CalmInv, Stamp
    PROVE  CalmInv'
<1>1. /\ setup' = setup /\ spc = "stamp" /\ spc' = "sendto"
      /\ nsent' = [nsent EXCEPT ![sproto] = sread + 1]
      /\ UNCHANGED <<sendQ, rtt, count, fail, stop_threads, sproto, sread, rpc, rproto, program,
                     loss_count, air, sock>>
  BY DEF Stamp, recvVars, netVars
<1>2. IPs' = IPs /\ \A p \in IPs : /\ InAir(p)' <=> InAir(p)
                                   /\ InSock(p)' <=> InSock(p)
                                   /\ InHand(p)' <=> InHand(p)
                                   /\ Queued(p)' <=> Queued(p)
                                   /\ ~Sent(p) /\ ~Sent(p)'
  BY <1>1, SetupFrame, PlaceFrame DEF Sent
<1>3. /\ sproto \in IPs /\ Queued(sproto)
      /\ ~InAir(sproto) /\ ~InSock(sproto) /\ ~InHand(sproto)
  <2>1. sproto \in IPs /\ Queued(sproto)
    BY <1>1, SenderFacts, TailMembers DEF Working, Queued
  <2> QED BY <1>2, <2>1 DEF CalmInv, Tokens, Apart
<1>4. /\ sread = nsent[sproto] /\ nsent[sproto] <= 2 /\ nsent[sproto] \in Nat
      /\ Filled(sproto, nsent[sproto]) /\ nsent'[sproto] = nsent[sproto] + 1
      /\ \A p \in IPs : p # sproto => nsent'[p] = nsent[p]
  <2>1. nsent[sproto] <= 2 /\ nsent[sproto] \in Nat /\ Filled(sproto, nsent[sproto])
    BY <1>1, <1>3, SafeFacts DEF CalmInv, Numbers, QueueNum
  <2>2. sread = nsent[sproto]
    BY <1>1, <2>1 DEF Safe, LoadInv
  <2> QED BY <1>1, <1>3, <2>1, <2>2, SafeFacts
<1>5. Tokens'
  BY <1>1, <1>2 DEF CalmInv, Tokens, OneAir, OneSock, OneJob, Apart
<1>6. AirNum'
  BY <1>1, <1>3, <1>4, SafeFacts DEF CalmInv, Numbers, AirNum, InAir
<1>7. SockNum'
  <2> SUFFICES ASSUME NEW v \in Versions, NEW i \in 1 .. Len(sock[v])
               PROVE  /\ sock[v][i].kind = "reply" /\ sock[v][i].seq + 1 = nsent'[sock[v][i].ip]
                      /\ nsent'[sock[v][i].ip] <= 3
    BY <1>1 DEF SockNum
  <2>1. sock[v][i].ip \in IPs /\ VersionOf(sock[v][i].ip) = v
    BY SafeFacts
  <2>2. sock[v][i].ip # sproto
    BY <1>3, <2>1 DEF InSock
  <2> QED BY <1>4, <2>1, <2>2 DEF CalmInv, Numbers, SockNum
<1>8. HandNum'
  <2> SUFFICES ASSUME NEW v \in Versions, rpc[v] \in Handling
               PROVE  rproto[v] \in IPs /\ nsent'[rproto[v]] = nsent[rproto[v]]
    BY <1>1 DEF CalmInv, Numbers, HandNum, Filled
  <2>1. rproto[v] \in IPs /\ VersionOf(rproto[v]) = v
    BY DEF Safe, RouteInv, Addresses
  <2>2. rproto[v] # sproto
    BY <1>3, <2>1 DEF InHand
  <2> QED BY <1>4, <2>1, <2>2
<1>9. QueueNum'
  <2> SUFFICES ASSUME NEW p \in IPs, Queued(p)
               PROVE  IF p = sproto THEN nsent'[p] = sread + 1 /\ nsent'[p] <= 3
                                    ELSE nsent'[p] <= 2 /\ Filled(p, nsent'[p])
    BY <1>1, <1>2 DEF QueueNum, Filled
  <2> QED BY <1>1, <1>4 DEF CalmInv, Numbers, QueueNum
<1>10. Slots'
  <2>1. ASSUME NEW p \in IPs
        PROVE  (\A i \in 0 .. 2 : rtt[p][i] \in {Lost, i}) /\ Filled(p, nsent'[p] - 1)
    <3>1. CASE p = sproto
      BY <1>4, <3>1 DEF CalmInv, Numbers, Slots
    <3>2. CASE p # sproto
      BY <1>4, <3>2 DEF CalmInv, Numbers, Slots
    <3> QED BY <3>1, <3>2
  <2> QED BY <1>1, <1>2, <2>1 DEF Slots, Filled
<1>11. Ends'
  BY <1>1 DEF CalmInv, Ends
<1> QED BY <1>5, <1>6, <1>7, <1>8, <1>9, <1>10, <1>11 DEF CalmInv, Numbers

\* The request goes into the air, and the address waits for the pop.
LEMMA SendToCalm ==
    ASSUME Safe, CalmInv, SendTo
    PROVE  CalmInv'
<1>1. /\ setup' = setup /\ spc = "sendto" /\ spc' = "pop"
      /\ air' = air \cup {[ip |-> sproto, seq |-> sread]}
      /\ UNCHANGED <<sendQ, nsent, rtt, count, fail, stop_threads, sproto, sread, rpc, rproto,
                     program, loss_count, sock>>
  BY DEF SendTo, recvVars
<1>2. /\ sproto \in IPs /\ Queued(sproto) /\ ~Sent(sproto)
      /\ ~InAir(sproto) /\ ~InSock(sproto) /\ ~InHand(sproto)
  <2>1. sproto \in IPs /\ Queued(sproto) /\ ~Sent(sproto)
    BY <1>1, SenderFacts, TailMembers DEF Working, Queued, Sent
  <2> QED BY <2>1 DEF CalmInv, Tokens, Apart
<1>3. nsent[sproto] = sread + 1 /\ nsent[sproto] <= 3
  BY <1>1, <1>2 DEF CalmInv, Numbers, QueueNum
<1>4. IPs' = IPs /\ \A p \in IPs : /\ InAir(p)' <=> InAir(p) \/ p = sproto
                                   /\ InSock(p)' <=> InSock(p)
                                   /\ InHand(p)' <=> InHand(p)
                                   /\ Queued(p)' <=> Queued(p)
                                   /\ ~Sent(p)
                                   /\ Sent(p)' <=> p = sproto
  <2>1. ASSUME NEW p
        PROVE  InAir(p)' <=> InAir(p) \/ p = sproto
    <3> DEFINE req == [ip |-> sproto, seq |-> sread]
    <3>1. req.ip = sproto
      OBVIOUS
    <3> HIDE DEF req
    <3>2. air' = air \cup {req}
      BY <1>1 DEF req
    <3> QED BY <3>1, <3>2 DEF InAir
  <2> QED BY <1>1, <2>1, SetupFrame, PlaceFrame DEF Sent
<1>5. Tokens'
  <2>1. OneAir'
    BY <1>1, <1>2 DEF CalmInv, Tokens, OneAir, InAir
  <2> QED BY <1>1, <1>2, <1>4, <2>1 DEF CalmInv, Tokens, OneSock, OneJob, Apart
<1>6. AirNum'
  BY <1>1, <1>3 DEF CalmInv, Numbers, AirNum
<1>7. SockNum' /\ HandNum'
  BY <1>1 DEF CalmInv, Numbers, SockNum, HandNum, Filled
<1>8. QueueNum' /\ Slots'
  BY <1>1, <1>4 DEF CalmInv, Numbers, QueueNum, Slots, Filled
<1>9. Ends'
  BY <1>1 DEF CalmInv, Ends
<1> QED BY <1>5, <1>6, <1>7, <1>8, <1>9 DEF CalmInv, Numbers

\* The sent address leaves the queue.
LEMMA PopCalm ==
    ASSUME Safe, CalmInv, PopJob
    PROVE  CalmInv'
<1>1. /\ setup' = setup /\ spc = "pop" /\ spc' \in {"lock", "done"} /\ sendQ' = Tail(sendQ)
      /\ UNCHANGED <<nsent, rtt, count, fail, stop_threads, sproto, sread, rpc, rproto,
                     program, loss_count, air, sock>>
  BY DEF PopJob, Unlock, qPop, recvVars, netVars
<1>2. /\ sproto = Head(sendQ) /\ IsInjective(Tail(sendQ))
      /\ ToSet(sendQ) = ToSet(Tail(sendQ)) \cup {sproto} /\ sproto \notin ToSet(Tail(sendQ))
  BY <1>1, SenderFacts, TailMembers DEF Working, CalmInv, Tokens, OneJob
<1>3. IPs' = IPs /\ \A p \in IPs : /\ InAir(p)' <=> InAir(p)
                                   /\ InSock(p)' <=> InSock(p)
                                   /\ InHand(p)' <=> InHand(p)
                                   /\ Queued(p)' <=> Queued(p) /\ p # sproto
                                   /\ Sent(p) <=> p = sproto
                                   /\ ~Sent(p)'
  <2>1. \A p : Queued(p)' <=> Queued(p) /\ p # sproto
    BY <1>1, <1>2 DEF Queued
  <2> QED BY <1>1, <2>1, SetupFrame, PlaceFrame DEF Sent
<1>4. Tokens'
  BY <1>1, <1>2, <1>3 DEF CalmInv, Tokens, OneAir, OneSock, OneJob, Apart
<1>5. AirNum' /\ SockNum' /\ HandNum'
  BY <1>1 DEF CalmInv, Numbers, AirNum, SockNum, HandNum, Filled
<1>6. QueueNum' /\ Slots'
  BY <1>1, <1>3 DEF CalmInv, Numbers, QueueNum, Slots, Filled
<1>7. Ends'
  BY <1>1 DEF CalmInv, Ends
<1> QED BY <1>4, <1>5, <1>6, <1>7 DEF CalmInv, Numbers

\* A receiver that finds nothing, or nothing more to do.
LEMMA WaitCalm ==
    ASSUME Safe, CalmInv, NEW v \in Versions, Loop(v) \/ NothingReceived(v)
    PROVE  CalmInv'
<1>1. /\ setup' = setup /\ rpc[v] \in {"while", "recvfrom"}
      /\ UNCHANGED <<sendQ, nsent, rtt, count, fail, stop_threads, spc, sproto, sread, rproto,
                     program, loss_count, air, sock>>
      /\ rpc'[v] \in {"while", "recvfrom", "done"}
      /\ rpc'[v] = "done" => stop_threads \/ ~(count[v] - fail[v] > 0)
      /\ \A u \in Versions : u # v => rpc'[u] = rpc[u]
  BY SafeFacts DEF Loop, NothingReceived, Waiting, senderVars, netVars
<1>2. \A u \in Versions : /\ rpc'[u] \in Handling <=> rpc[u] \in Handling
                          /\ rpc'[u] \in Handling => rpc'[u] = rpc[u]
  BY <1>1 DEF Handling
<1>3. IPs' = IPs /\ \A p \in IPs : /\ InAir(p)' <=> InAir(p)
                                   /\ InSock(p)' <=> InSock(p)
                                   /\ InHand(p)' <=> InHand(p)
                                   /\ Queued(p)' <=> Queued(p)
                                   /\ Sent(p)' <=> Sent(p)
  <2>1. \A p : InHand(p)' <=> InHand(p)
    <3>1. \A p : VersionOf(p)' = VersionOf(p) /\ VersionOf(p) \in Versions
      BY <1>1, SetupFrame, SafeFacts
    <3> QED BY <1>1, <1>2, <3>1 DEF InHand
  <2> QED BY <1>1, <2>1, SetupFrame, PlaceFrame DEF Sent
<1>4. Tokens'
  BY <1>1, <1>3 DEF CalmInv, Tokens, OneAir, OneSock, OneJob, Apart
<1>5. AirNum' /\ SockNum' /\ HandNum'
  BY <1>1, <1>2 DEF CalmInv, Numbers, AirNum, SockNum, HandNum, Filled
<1>6. QueueNum' /\ Slots'
  BY <1>1, <1>3 DEF CalmInv, Numbers, QueueNum, Slots, Filled
<1>7. Ends'
  <2>1. rpc'[v] = "done" => stop_threads \/ count[v] = 0
    BY <1>1 DEF CalmInv, Ends, Safe, TypeOK
  <2> QED BY <1>1, <2>1 DEF CalmInv, Ends
<1> QED BY <1>4, <1>5, <1>6, <1>7 DEF CalmInv, Numbers

\* The loads of nsent see the number of the request that was answered.
LEMMA TestCalm ==
    ASSUME Safe, CalmInv, NEW v \in Versions, TestSent(v) \/ TestThree(v)
    PROVE  CalmInv'
<1>1. /\ setup' = setup /\ rpc[v] \in {"test", "retest"}
      /\ UNCHANGED <<sendQ, nsent, rtt, count, fail, stop_threads, spc, sproto, sread, rproto,
                     program, loss_count, air, sock>>
      /\ \/ rpc[v] = "test" /\ rpc'[v] = IF nsent[rproto[v]] < 3 THEN "push" ELSE "retest"
         \/ rpc[v] = "retest" /\ rpc'[v] = IF nsent[rproto[v]] = 3 THEN "finish" ELSE "while"
      /\ \A u \in Versions : u # v => rpc'[u] = rpc[u]
  BY SafeFacts DEF TestSent, TestThree, senderVars, netVars
<1>2. nsent[rproto[v]] \in 1 .. 3 /\ (rpc[v] = "retest" => nsent[rproto[v]] = 3)
  BY <1>1 DEF CalmInv, Numbers, HandNum, Handling
<1>3. /\ \/ rpc'[v] = "push" /\ nsent[rproto[v]] <= 2
         \/ rpc'[v] \in {"retest", "finish"} /\ nsent[rproto[v]] = 3
      /\ \A u \in Versions : rpc'[u] \in Handling <=> rpc[u] \in Handling
  BY <1>1, <1>2 DEF Handling
<1>4. IPs' = IPs /\ \A p \in IPs : /\ InAir(p)' <=> InAir(p)
                                   /\ InSock(p)' <=> InSock(p)
                                   /\ InHand(p)' <=> InHand(p)
                                   /\ Queued(p)' <=> Queued(p)
                                   /\ Sent(p)' <=> Sent(p)
  <2>1. \A p : InHand(p)' <=> InHand(p)
    <3>1. \A p : VersionOf(p)' = VersionOf(p) /\ VersionOf(p) \in Versions
      BY <1>1, SetupFrame, SafeFacts
    <3> QED BY <1>1, <1>3, <3>1 DEF InHand
  <2> QED BY <1>1, <2>1, SetupFrame, PlaceFrame DEF Sent
<1>5. Tokens'
  BY <1>1, <1>4 DEF CalmInv, Tokens, OneAir, OneSock, OneJob, Apart
<1>6. AirNum' /\ SockNum'
  BY <1>1 DEF CalmInv, Numbers, AirNum, SockNum
<1>7. HandNum'
  BY <1>1, <1>2, <1>3 DEF CalmInv, Numbers, HandNum, Filled
<1>8. QueueNum' /\ Slots'
  BY <1>1, <1>4 DEF CalmInv, Numbers, QueueNum, Slots, Filled
<1>9. Ends'
  BY <1>1, <1>3 DEF CalmInv, Ends
<1> QED BY <1>5, <1>6, <1>7, <1>8, <1>9 DEF CalmInv, Numbers

\* The time is stored in the slot of its request, and the address is in the
\* receiver's hand.
LEMMA PacketCalm ==
    ASSUME Safe, CalmInv, NEW v \in Versions, ProcessPacket(v)
    PROVE  CalmInv'
<1>0. PICK pkt : pkt = Head(sock[v])
  OBVIOUS
<1> DEFINE p0 == pkt.ip
<1>1. /\ pkt = sock[v][1] /\ sock[v] \in Seq(Packet) /\ sock[v] # <<>>
      /\ Len(sock[v]) \in Nat \ {0} /\ 1 \in 1 .. Len(sock[v])
      /\ Tail(sock[v]) \in Seq(Packet) /\ Len(Tail(sock[v])) = Len(sock[v]) - 1
      /\ \A i \in 1 .. Len(Tail(sock[v])) : Tail(sock[v])[i] = sock[v][i + 1]
  <2>1. sock[v] \in Seq(Packet) /\ sock[v] # <<>>
    BY SafeFacts DEF ProcessPacket
  <2> QED BY <1>0, <2>1, TailMembers, HeadTailProperties
<1>2. /\ p0 \in IPs /\ VersionOf(p0) = v /\ pkt.kind = "reply" /\ pkt.seq + 1 = nsent[p0]
      /\ nsent[p0] <= 3 /\ pkt.seq \in 0 .. 2
  <2>1. pkt \in Packet /\ p0 \in IPs /\ VersionOf(p0) = v
    BY <1>1, SafeFacts
  <2>2. pkt.kind = "reply" /\ pkt.seq + 1 = nsent[p0] /\ nsent[p0] <= 3
    BY <1>1 DEF CalmInv, Numbers, SockNum
  <2>3. pkt.seq \in Nat
    BY <2>1 DEF Packet
  <2>4. pkt.seq \in 0 .. 2
    BY <2>2, <2>3
  <2> QED BY <2>1, <2>2, <2>4
<1>3. Slot(p0) = pkt.seq
  BY <1>2 DEF Slot
<1>4. /\ setup' = setup /\ rpc[v] = "recvfrom"
      /\ UNCHANGED <<sendQ, nsent, count, fail, stop_threads, spc, sproto, sread, program,
                     loss_count, air>>
      /\ sock' = [sock EXCEPT ![v] = Tail(sock[v])]
      /\ rproto' = [rproto EXCEPT ![v] = p0]
      /\ rpc' = [rpc EXCEPT ![v] = "test"]
      /\ rtt' = [rtt EXCEPT ![p0][pkt.seq] = pkt.seq]
  BY <1>0, <1>2, <1>3 DEF ProcessPacket, senderVars
<1>5. /\ sock'[v] = Tail(sock[v]) /\ rproto'[v] = p0 /\ rpc'[v] = "test"
      /\ \A u \in Versions : u # v => /\ sock'[u] = sock[u] /\ rproto'[u] = rproto[u]
                                      /\ rpc'[u] = rpc[u]
  BY <1>4, SafeFacts
<1>6. /\ rtt'[p0][pkt.seq] = pkt.seq
      /\ \A i \in 0 .. 2 : i # pkt.seq => rtt'[p0][i] = rtt[p0][i]
      /\ \A p \in IPs : p # p0 => rtt'[p] = rtt[p]
  BY <1>2, <1>4, SafeFacts
<1>7. InSock(p0) /\ ~InAir(p0) /\ (Queued(p0) => Sent(p0))
  <2>1. InSock(p0)
    BY <1>1, <1>2 DEF InSock
  <2> QED BY <1>2, <2>1 DEF CalmInv, Tokens, Apart
<1>8. \A i \in 1 .. Len(Tail(sock[v])) : /\ i + 1 \in 1 .. Len(sock[v])
                                         /\ Tail(sock[v])[i].ip # p0
  <2> SUFFICES ASSUME NEW i \in 1 .. Len(Tail(sock[v]))
               PROVE  i + 1 \in 1 .. Len(sock[v]) /\ Tail(sock[v])[i].ip # p0
    OBVIOUS
  <2>1. i + 1 \in 1 .. Len(sock[v]) /\ i + 1 # 1
    BY <1>1
  <2>2. sock[v][i + 1].ip # sock[v][1].ip
    BY <1>1, <2>1 DEF CalmInv, Tokens, OneSock
  <2> QED BY <1>1, <2>1, <2>2
<1>9. \A p \in IPs : InSock(p)' => InSock(p) /\ p # p0
  <2> SUFFICES ASSUME NEW p \in IPs, InSock(p)'
               PROVE  InSock(p) /\ p # p0
    OBVIOUS
  <2>1. VersionOf(p)' = VersionOf(p) /\ VersionOf(p) \in Versions
    BY <1>4, SetupFrame, SafeFacts
  <2>2. CASE VersionOf(p) = v
    <3>1. PICK i \in 1 .. Len(Tail(sock[v])) : Tail(sock[v])[i].ip = p
      BY <1>5, <2>1, <2>2 DEF InSock
    <3> QED BY <1>1, <1>8, <2>2, <3>1 DEF InSock
  <2>3. CASE VersionOf(p) # v
    BY <1>2, <1>5, <2>1, <2>3 DEF InSock
  <2> QED BY <2>2, <2>3
<1>10. IPs' = IPs /\ \A p \in IPs : /\ InAir(p)' <=> InAir(p)
                                    /\ InHand(p)' => InHand(p) \/ p = p0
                                    /\ Queued(p)' <=> Queued(p)
                                    /\ Sent(p)' <=> Sent(p)
  <2>1. \A p : InHand(p)' => InHand(p) \/ p = p0
    <3>1. \A p : VersionOf(p)' = VersionOf(p) /\ VersionOf(p) \in Versions
      BY <1>4, SetupFrame, SafeFacts
    <3> QED BY <1>5, <3>1 DEF InHand
  <2> QED BY <1>4, <2>1, SetupFrame, PlaceFrame DEF Sent
<1>11. Tokens'
  <2>1. OneSock'
    <3> SUFFICES ASSUME NEW u \in Versions, NEW i \in 1 .. Len(sock'[u]),
                        NEW j \in 1 .. Len(sock'[u]), sock'[u][i].ip = sock'[u][j].ip
                 PROVE  i = j
      BY DEF OneSock
    <3>1. CASE u = v
      <4>1. /\ i + 1 \in 1 .. Len(sock[v]) /\ j + 1 \in 1 .. Len(sock[v])
            /\ sock[v][i + 1].ip = sock[v][j + 1].ip
        BY <1>1, <1>5, <1>8, <3>1
      <4>2. i + 1 = j + 1
        BY <4>1 DEF CalmInv, Tokens, OneSock
      <4> QED BY <4>2
    <3>2. CASE u # v
      BY <1>5, <3>2 DEF CalmInv, Tokens, OneSock
    <3> QED BY <3>1, <3>2
  <2>2. OneAir' /\ OneJob'
    BY <1>4 DEF CalmInv, Tokens, OneAir, OneJob
  <2>3. ASSUME NEW p \in IPs
        PROVE  Apart(p)'
    <3>1. CASE p = p0
      BY <1>7, <1>9, <1>10, <3>1 DEF Apart
    <3>2. CASE p # p0
      BY <1>9, <1>10, <3>2 DEF CalmInv, Tokens, Apart
    <3> QED BY <3>1, <3>2
  <2> QED BY <1>10, <2>1, <2>2, <2>3 DEF Tokens
<1>12. \A p \in IPs, n \in Nat : p # p0 \/ n <= pkt.seq => (Filled(p, n)' <=> Filled(p, n))
  BY <1>2, <1>6 DEF Filled
<1>13. Filled(p0, nsent[p0])' /\ nsent'[p0] = nsent[p0] /\ nsent[p0] - 1 = pkt.seq
  <2>1. nsent[p0] - 1 = pkt.seq /\ nsent'[p0] = nsent[p0]
    BY <1>2, <1>4, SafeFacts
  <2>2. Filled(p0, pkt.seq)
    BY <1>2, <2>1 DEF CalmInv, Numbers, Slots
  <2>3. \A i \in 0 .. 2 : i < nsent[p0] => i = pkt.seq \/ i < pkt.seq
    BY <1>2, <2>1, SafeFacts
  <2> QED BY <1>2, <1>4, <1>6, <2>1, <2>2, <2>3 DEF Filled
<1>14. AirNum'
  BY <1>4 DEF CalmInv, Numbers, AirNum
<1>15. SockNum'
  <2> SUFFICES ASSUME NEW u \in Versions, NEW i \in 1 .. Len(sock'[u])
               PROVE  \E j \in 1 .. Len(sock[u]) : sock'[u][i] = sock[u][j]
    BY <1>4 DEF CalmInv, Numbers, SockNum
  <2>1. CASE u = v
    <3>1. i \in 1 .. Len(Tail(sock[v])) /\ sock'[u][i] = Tail(sock[v])[i]
      BY <1>5, <2>1
    <3>2. i + 1 \in 1 .. Len(sock[u]) /\ sock'[u][i] = sock[u][i + 1]
      BY <1>1, <1>8, <2>1, <3>1
    <3> QED BY <3>2
  <2>2. CASE u # v
    BY <1>5, <2>2
  <2> QED BY <2>1, <2>2
<1>16. HandNum'
  <2> SUFFICES ASSUME NEW u \in Versions, rpc'[u] \in Handling
               PROVE  /\ Filled(rproto[u], nsent[rproto[u]])'
                      /\ nsent'[rproto'[u]] \in 1 .. 3
                      /\ rpc'[u] = "push" => nsent'[rproto'[u]] <= 2
                      /\ rpc'[u] \in {"retest", "finish"} => nsent'[rproto'[u]] = 3
    BY DEF HandNum
  <2>1. CASE u = v
    BY <1>2, <1>4, <1>5, <1>13, <2>1, SafeFacts DEF Filled
  <2>2. CASE u # v
    <3>1. /\ rproto'[u] = rproto[u] /\ rpc'[u] = rpc[u] /\ nsent' = nsent
          /\ rproto[u] \in IPs /\ VersionOf(rproto[u]) = u /\ rproto[u] # p0
          /\ nsent[rproto[u]] \in Nat
      BY <1>2, <1>4, <1>5, <2>2, SafeFacts DEF Safe, RouteInv, Addresses
    <3>2. Filled(rproto[u], nsent[rproto[u]])' <=> Filled(rproto[u], nsent[rproto[u]])
      BY <1>6, <3>1 DEF Filled
    <3> QED BY <3>1, <3>2 DEF CalmInv, Numbers, HandNum
  <2> QED BY <2>1, <2>2
<1>17. QueueNum'
  <2> SUFFICES ASSUME NEW p \in IPs, Queued(p), ~(spc = "pop" /\ sproto = p)
               PROVE  p # p0 /\ nsent[p] \in Nat
    BY <1>4, <1>10, <1>12 DEF CalmInv, Numbers, QueueNum
  <2> QED BY <1>7, SafeFacts DEF Sent
<1>18. Slots'
  <2> SUFFICES ASSUME NEW p \in IPs
               PROVE  (\A i \in 0 .. 2 : rtt'[p][i] \in {Lost, i}) /\ Filled(p, nsent[p] - 1)'
    BY <1>10 DEF Slots
  <2>1. CASE p = p0
    <3>1. Filled(p0, pkt.seq)'
      BY <1>2, <1>13 DEF Filled
    <3>2. \A i \in 0 .. 2 : rtt'[p0][i] \in {Lost, i}
      BY <1>2, <1>6 DEF CalmInv, Numbers, Slots
    <3> QED BY <1>13, <2>1, <3>1, <3>2 DEF Filled
  <2>2. CASE p # p0
    BY <1>4, <1>6, <2>2 DEF CalmInv, Numbers, Slots, Filled
  <2> QED BY <2>1, <2>2
<1>19. Ends'
  BY <1>4, <1>5 DEF CalmInv, Ends
<1> QED BY <1>11, <1>14, <1>15, <1>16, <1>17, <1>18, <1>19 DEF CalmInv, Numbers

\* An address is put back by the receiver that holds it, and the sender holds none.
LEMMA PushCalm ==
    ASSUME Safe, CalmInv, NEW v \in Versions, PushJob(v)
    PROVE  CalmInv'
<1>0. PICK p0 : p0 = rproto[v]
  OBVIOUS
<1>1. /\ setup' = setup /\ rpc[v] = "push" /\ mtx = "free" /\ sendQ' = <<p0>> \o sendQ
      /\ UNCHANGED <<nsent, rtt, count, fail, stop_threads, spc, sproto, sread, rproto, program,
                     loss_count, air, sock>>
      /\ rpc'[v] = "while" /\ \A u \in Versions : u # v => rpc'[u] = rpc[u]
  BY <1>0, SafeFacts DEF PushJob, qPush, senderVars, netVars
<1>2. p0 \in IPs /\ VersionOf(p0) = v /\ InHand(p0) /\ spc \notin Working
  BY <1>0, <1>1 DEF Safe, RouteInv, LockInv, Handling, Addresses, InHand
<1>3. ~InAir(p0) /\ ~InSock(p0) /\ ~Queued(p0)
  BY <1>2 DEF CalmInv, Tokens, Apart, Sent, Working
<1>4. ToSet(sendQ') = ToSet(sendQ) \cup {p0} /\ IsInjective(sendQ')
  BY <1>1, <1>2, <1>3, SafeFacts, PushMembers DEF CalmInv, Tokens, OneJob, Queued
<1>5. nsent[p0] <= 2 /\ Filled(p0, nsent[p0])
  BY <1>0, <1>1 DEF CalmInv, Numbers, HandNum, Handling
<1>6. IPs' = IPs /\ \A p \in IPs : /\ InAir(p)' <=> InAir(p)
                                   /\ InSock(p)' <=> InSock(p)
                                   /\ InHand(p)' <=> InHand(p) /\ p # p0
                                   /\ Queued(p)' <=> Queued(p) \/ p = p0
                                   /\ ~Sent(p) /\ ~Sent(p)'
  <2>1. \A p \in IPs : InHand(p)' <=> InHand(p) /\ p # p0
    <3>1. \A p : VersionOf(p)' = VersionOf(p) /\ VersionOf(p) \in Versions
      BY <1>1, SetupFrame, SafeFacts
    <3> QED BY <1>0, <1>1, <1>2, <3>1 DEF InHand, Handling
  <2>2. \A p : Queued(p)' <=> Queued(p) \/ p = p0
    BY <1>4 DEF Queued
  <2> QED BY <1>1, <1>2, <2>1, <2>2, SetupFrame, PlaceFrame DEF Sent, Working
<1>7. Tokens'
  BY <1>1, <1>3, <1>4, <1>6 DEF CalmInv, Tokens, OneAir, OneSock, OneJob, Apart
<1>8. AirNum' /\ SockNum'
  BY <1>1 DEF CalmInv, Numbers, AirNum, SockNum
<1>9. HandNum'
  BY <1>1 DEF CalmInv, Numbers, HandNum, Filled, Handling
<1>10. QueueNum' /\ Slots'
  BY <1>1, <1>2, <1>5, <1>6 DEF CalmInv, Numbers, QueueNum, Slots, Filled, Working
<1>11. Ends'
  BY <1>1 DEF CalmInv, Ends
<1> QED BY <1>7, <1>8, <1>9, <1>10, <1>11 DEF CalmInv, Numbers

\* A finished address is nowhere else, and has its three times.
LEMMA FinishCalm ==
    ASSUME Safe, CalmInv, NEW v \in Versions, FinishIp(v)
    PROVE  CalmInv'
<1>0. PICK p0 : p0 = rproto[v]
  OBVIOUS
<1>1. /\ setup' = setup /\ rpc[v] = "finish"
      /\ \E last \in {3, nsent[p0]} : nsent' = [nsent EXCEPT ![p0] = last + 1]
      /\ UNCHANGED <<sendQ, rtt, fail, stop_threads, spc, sproto, sread, rproto, program,
                     loss_count, air, sock>>
      /\ rpc'[v] = "while" /\ \A u \in Versions : u # v => /\ rpc'[u] = rpc[u]
                                                           /\ count'[u] = count[u]
  BY <1>0, SafeFacts DEF FinishIp, senderVars, netVars, Safe, TypeOK
<1>2. p0 \in IPs /\ VersionOf(p0) = v /\ InHand(p0)
  BY <1>0, <1>1 DEF Safe, RouteInv, Handling, Addresses, InHand
<1>3. ~InAir(p0) /\ ~InSock(p0) /\ (Queued(p0) => Sent(p0))
  BY <1>2 DEF CalmInv, Tokens, Apart
<1>4. /\ nsent[p0] = 3 /\ Filled(p0, 3) /\ nsent'[p0] = 4
      /\ \A p \in IPs : p # p0 => nsent'[p] = nsent[p]
  BY <1>0, <1>1, <1>2, SafeFacts DEF CalmInv, Numbers, HandNum, Handling
<1>5. IPs' = IPs /\ \A p \in IPs : /\ InAir(p)' <=> InAir(p)
                                   /\ InSock(p)' <=> InSock(p)
                                   /\ InHand(p)' <=> InHand(p) /\ p # p0
                                   /\ Queued(p)' <=> Queued(p)
                                   /\ Sent(p)' <=> Sent(p)
  <2>1. \A p \in IPs : InHand(p)' <=> InHand(p) /\ p # p0
    <3>1. \A p : VersionOf(p)' = VersionOf(p) /\ VersionOf(p) \in Versions
      BY <1>1, SetupFrame, SafeFacts
    <3> QED BY <1>0, <1>1, <1>2, <3>1 DEF InHand, Handling
  <2> QED BY <1>1, <2>1, SetupFrame, PlaceFrame DEF Sent
<1>6. Tokens'
  BY <1>1, <1>5 DEF CalmInv, Tokens, OneAir, OneSock, OneJob, Apart
<1>7. AirNum'
  BY <1>1, <1>3, <1>4, SafeFacts DEF CalmInv, Numbers, AirNum, InAir
<1>8. SockNum'
  <2> SUFFICES ASSUME NEW u \in Versions, NEW i \in 1 .. Len(sock[u])
               PROVE  nsent'[sock[u][i].ip] = nsent[sock[u][i].ip]
    BY <1>1 DEF CalmInv, Numbers, SockNum
  <2>1. sock[u][i].ip \in IPs /\ VersionOf(sock[u][i].ip) = u
    BY SafeFacts
  <2>2. sock[u][i].ip # p0
    BY <1>3, <2>1 DEF InSock
  <2> QED BY <1>4, <2>1, <2>2
<1>9. HandNum'
  <2> SUFFICES ASSUME NEW u \in Versions, rpc'[u] \in Handling
               PROVE  /\ rpc'[u] = rpc[u] /\ rproto[u] \in IPs
                      /\ nsent'[rproto[u]] = nsent[rproto[u]]
    BY <1>1 DEF CalmInv, Numbers, HandNum, Filled
  <2>1. u # v
    BY <1>1 DEF Handling
  <2>2. rproto[u] \in IPs /\ VersionOf(rproto[u]) = u /\ rpc'[u] = rpc[u]
    BY <1>1, <2>1 DEF Safe, RouteInv, Addresses
  <2> QED BY <1>2, <1>4, <2>1, <2>2
<1>10. QueueNum'
  <2> SUFFICES ASSUME NEW p \in IPs, Queued(p), ~(spc = "pop" /\ sproto = p)
               PROVE  nsent'[p] = nsent[p]
    BY <1>1, <1>5 DEF CalmInv, Numbers, QueueNum, Filled
  <2> QED BY <1>3, <1>4 DEF Sent
<1>11. Slots'
  <2> SUFFICES ASSUME NEW p \in IPs
               PROVE  (\A i \in 0 .. 2 : rtt[p][i] \in {Lost, i}) /\ Filled(p, nsent'[p] - 1)
    BY <1>1, <1>5 DEF Slots, Filled
  <2> QED BY <1>4 DEF CalmInv, Numbers, Slots
<1>12. Ends'
  BY <1>1 DEF CalmInv, Ends
<1> QED BY <1>6, <1>7, <1>8, <1>9, <1>10, <1>11, <1>12 DEF CalmInv, Numbers

\* When every receiver left because its count is down, every address has its times.
LEMMA PrintCalm ==
    ASSUME Safe, CalmInv, PrintRtts
    PROVE  CalmInv'
<1> DEFINE slots == {s \in IPs \X (0 .. 2) : rtt[s[1]][s[2]] = Lost}
<1>1. /\ setup' = setup /\ program' = "printed" /\ loss_count' = Cardinality(slots)
      /\ UNCHANGED <<sendQ, nsent, rtt, count, fail, stop_threads, spc, sproto, sread, rpc, rproto,
                     air, sock>>
      /\ \A v \in Versions : rpc[v] = "done"
  BY DEF PrintRtts, AllDone, senderVars, recvVars, netVars
<1>2. ASSUME ~stop_threads
      PROVE  slots = {}
  <2> SUFFICES ASSUME NEW p \in IPs, NEW i \in 0 .. 2
               PROVE  rtt[p][i] # Lost
    OBVIOUS
  <2>1. p \in Addresses(VersionOf(p)) /\ VersionOf(p) \in Versions
    BY SafeFacts, SetupFacts
  <2>2. Cardinality(Open(VersionOf(p))) = 0 /\ IsFiniteSet(Open(VersionOf(p)))
    <3>1. count[VersionOf(p)] = 0
      BY <1>1, <1>2, <2>1 DEF CalmInv, Ends
    <3>2. 0 >= Cardinality(Open(VersionOf(p)))
      BY <2>1, <3>1 DEF Safe, CountInv
    <3> QED BY <2>1, <3>2, SafeFacts, SetupFacts
  <2>3. Open(VersionOf(p)) = {}
    BY <2>2, FS_EmptySet
  <2>4. ~(nsent[p] < 4) /\ nsent[p] \in Nat
    BY <2>1, <2>3, SafeFacts DEF Open
  <2>5. Filled(p, nsent[p] - 1) /\ i < nsent[p] - 1
    BY <2>4 DEF CalmInv, Numbers, Slots
  <2>6. rtt[p][i] = i
    BY <2>5 DEF Filled
  <2> QED BY <2>6 DEF Lost
<1>3. stop_threads \/ loss_count' = 0
  <2> HIDE DEF slots
  <2> QED BY <1>1, <1>2, FS_EmptySet
<1>4. IPs' = IPs /\ \A p \in IPs : /\ InAir(p)' <=> InAir(p)
                                   /\ InSock(p)' <=> InSock(p)
                                   /\ InHand(p)' <=> InHand(p)
                                   /\ Queued(p)' <=> Queued(p)
                                   /\ Sent(p)' <=> Sent(p)
  BY <1>1, SetupFrame, PlaceFrame DEF Sent
<1>5. Tokens'
  BY <1>1, <1>4 DEF CalmInv, Tokens, OneAir, OneSock, OneJob, Apart
<1>6. AirNum' /\ SockNum' /\ HandNum'
  BY <1>1 DEF CalmInv, Numbers, AirNum, SockNum, HandNum, Filled
<1>7. QueueNum' /\ Slots'
  BY <1>1, <1>4 DEF CalmInv, Numbers, QueueNum, Slots, Filled
<1>8. Ends'
  BY <1>1, <1>3 DEF CalmInv, Ends
<1> QED BY <1>5, <1>6, <1>7, <1>8 DEF CalmInv, Numbers

\* The alarm, and the steps that change nothing.
LEMMA QuietCalm ==
    ASSUME Safe, CalmInv, AlarmRings \/ UNCHANGED vars
    PROVE  CalmInv'
<1>1. /\ setup' = setup /\ (stop_threads => stop_threads')
      /\ UNCHANGED <<sendQ, nsent, rtt, count, fail, spc, sproto, sread, rpc, rproto, program,
                     loss_count, air, sock>>
  BY DEF AlarmRings, vars, senderVars, recvVars, netVars
<1>2. IPs' = IPs /\ \A p \in IPs : /\ InAir(p)' <=> InAir(p)
                                   /\ InSock(p)' <=> InSock(p)
                                   /\ InHand(p)' <=> InHand(p)
                                   /\ Queued(p)' <=> Queued(p)
                                   /\ Sent(p)' <=> Sent(p)
  BY <1>1, SetupFrame, PlaceFrame DEF Sent
<1>3. Tokens'
  BY <1>1, <1>2 DEF CalmInv, Tokens, OneAir, OneSock, OneJob, Apart
<1>4. AirNum' /\ SockNum' /\ HandNum'
  BY <1>1 DEF CalmInv, Numbers, AirNum, SockNum, HandNum, Filled
<1>5. QueueNum' /\ Slots'
  BY <1>1, <1>2 DEF CalmInv, Numbers, QueueNum, Slots, Filled
<1>6. Ends'
  BY <1>1 DEF CalmInv, Ends
<1> QED BY <1>3, <1>4, <1>5, <1>6 DEF CalmInv, Numbers

\* The network answers or loses a request.
LEMMA NetworkCalm ==
    ASSUME Safe, CalmInv, NEW r \in air, Answer(r) \/ Lose(r)
    PROVE  CalmInv'
<1>1. /\ setup' = setup /\ air' = air \ {r}
      /\ UNCHANGED <<sendQ, nsent, rtt, count, fail, stop_threads, spc, sproto, sread, rpc, rproto,
                     program, loss_count>>
  BY DEF Answer, Lose, programVars, senderVars, recvVars
<1>2. PICK p0 : p0 = r.ip
  OBVIOUS
<1>3. /\ p0 \in IPs /\ InAir(p0) /\ r.seq \in Nat /\ r.seq + 1 = nsent[p0] /\ nsent[p0] <= 3
      /\ VersionOf(p0) \in Versions
  BY <1>2, SafeFacts DEF CalmInv, Numbers, AirNum, InAir
<1>4. ~InSock(p0) /\ ~InHand(p0)
  BY <1>3 DEF CalmInv, Tokens, Apart
<1>5. IPs' = IPs /\ \A p \in IPs : /\ InAir(p)' <=> InAir(p) /\ p # p0
                                   /\ InHand(p)' <=> InHand(p)
                                   /\ Queued(p)' <=> Queued(p)
                                   /\ Sent(p)' <=> Sent(p)
  <2>1. ASSUME NEW p
        PROVE  InAir(p)' <=> InAir(p) /\ p # p0
    BY <1>1, <1>2 DEF InAir, CalmInv, Tokens, OneAir
  <2> QED BY <1>1, <2>1, SetupFrame, PlaceFrame DEF Sent
<1>6. /\ OneSock' /\ SockNum'
      /\ \A p \in IPs : InSock(p)' => InSock(p) \/ p = p0
  <2>1. CASE sock' = sock
    <3>1. \A p : InSock(p)' <=> InSock(p)
      BY <1>1, <2>1, PlaceFrame
    <3> QED BY <1>1, <2>1, <3>1 DEF CalmInv, Tokens, Numbers, OneSock, SockNum
  <2>2. CASE Answer(r)
    <3>1. PICK v \in Versions : v = VersionOf(p0)
      BY <1>3
    <3>2. Deliver(p0, "reply", r.seq)
      BY <1>2, <2>2 DEF Answer
    <3>3. PICK pkt : pkt = [ip |-> p0, kind |-> "reply", seq |-> r.seq]
      OBVIOUS
    <3>4. /\ pkt.ip = p0 /\ pkt.kind = "reply" /\ pkt.seq = r.seq
          /\ Len(sock[v]) \in Nat /\ Len(sock'[v]) = Len(sock[v]) + 1
          /\ \A i \in 1 .. Len(sock[v]) : sock'[v][i] = sock[v][i]
          /\ sock'[v][Len(sock[v]) + 1] = pkt
          /\ \A u \in Versions : u # v => sock'[u] = sock[u]
      BY <1>3, <3>1, <3>2, <3>3, DeliverFacts
    <3>5. \A i \in 1 .. Len(sock'[v]) : \/ i \in 1 .. Len(sock[v]) /\ sock'[v][i] = sock[v][i]
                                        \/ i = Len(sock[v]) + 1 /\ sock'[v][i] = pkt
      BY <3>4
    <3>6. \A i \in 1 .. Len(sock[v]) : sock[v][i].ip # p0
      BY <1>4, <3>1 DEF InSock
    <3>7. OneSock'
      <4> SUFFICES ASSUME NEW u \in Versions, NEW i \in 1 .. Len(sock'[u]),
                          NEW j \in 1 .. Len(sock'[u]), sock'[u][i].ip = sock'[u][j].ip
                   PROVE  i = j
        BY DEF OneSock
      <4>1. CASE u = v
        <5>1. CASE i \in 1 .. Len(sock[v]) /\ j \in 1 .. Len(sock[v])
          <6>1. sock[v][i].ip = sock[v][j].ip
            BY <3>4, <4>1, <5>1
          <6> QED BY <5>1, <6>1 DEF CalmInv, Tokens, OneSock
        <5>2. CASE i = Len(sock[v]) + 1 \/ j = Len(sock[v]) + 1
          BY <3>4, <3>5, <3>6, <4>1, <5>2
        <5> QED BY <3>5, <4>1, <5>1, <5>2
      <4>2. CASE u # v
        BY <3>4, <4>2 DEF CalmInv, Tokens, OneSock
      <4> QED BY <4>1, <4>2
    <3>8. SockNum'
      <4> SUFFICES ASSUME NEW u \in Versions, NEW i \in 1 .. Len(sock'[u])
                   PROVE  /\ sock'[u][i].kind = "reply"
                          /\ sock'[u][i].seq + 1 = nsent[sock'[u][i].ip]
                          /\ nsent[sock'[u][i].ip] <= 3
        BY <1>1 DEF SockNum
      <4>1. CASE u = v
        <5>1. CASE i \in 1 .. Len(sock[v])
          <6>1. sock'[u][i] = sock[v][i]
            BY <3>4, <4>1, <5>1
          <6> QED BY <5>1, <6>1 DEF CalmInv, Numbers, SockNum
        <5>2. CASE sock'[u][i] = pkt
          BY <1>3, <3>4, <5>2
        <5> QED BY <3>5, <4>1, <5>1, <5>2
      <4>2. CASE u # v
        BY <3>4, <4>2 DEF CalmInv, Numbers, SockNum
      <4> QED BY <4>1, <4>2
    <3>9. ASSUME NEW p \in IPs, InSock(p)'
          PROVE  InSock(p) \/ p = p0
      <4>1. VersionOf(p)' = VersionOf(p) /\ VersionOf(p) \in Versions
        BY <1>1, SetupFrame, SafeFacts
      <4>2. CASE VersionOf(p) = v
        BY <3>4, <3>5, <3>9, <4>1, <4>2 DEF InSock
      <4>3. CASE VersionOf(p) # v
        BY <3>4, <3>9, <4>1, <4>3 DEF InSock
      <4> QED BY <4>2, <4>3
    <3> QED BY <3>7, <3>8, <3>9
  <2> QED BY <2>1, <2>2 DEF Lose
<1>7. Tokens'
  <2>1. OneAir' /\ OneJob'
    BY <1>1 DEF CalmInv, Tokens, OneAir, OneJob
  <2>2. ASSUME NEW p \in IPs
        PROVE  Apart(p)'
    BY <1>3, <1>4, <1>5, <1>6 DEF CalmInv, Tokens, Apart
  <2> QED BY <1>5, <1>6, <2>1, <2>2 DEF Tokens
<1>8. AirNum' /\ HandNum'
  BY <1>1 DEF CalmInv, Numbers, AirNum, HandNum, Filled
<1>9. QueueNum' /\ Slots'
  BY <1>1, <1>5 DEF CalmInv, Numbers, QueueNum, Slots, Filled
<1>10. Ends'
  BY <1>1 DEF CalmInv, Ends
<1> QED BY <1>6, <1>7, <1>8, <1>9, <1>10 DEF CalmInv, Numbers
-----------------------------------------------------------------------------
(* The inductive invariant and what it shows.                              *)

\* Every address is queued once at the beginning: the queue is as long as there are
\* addresses, and each of them is in it.
LEMMA CalmInit == Init => CalmInv
<1> SUFFICES ASSUME Init
             PROVE  CalmInv
  OBVIOUS
<1>1. OneJob
  <2>1. /\ sendQ \in [1 .. Cardinality(IPs) -> IPs] /\ Cardinality(IPs) \in Nat
        /\ \A p \in IPs : \E i \in DOMAIN sendQ : sendQ[i] = p
    BY SetupFacts DEF Init
  <2>2. sendQ \in Surjection(1 .. Cardinality(IPs), IPs)
    BY <2>1 DEF Surjection
  <2>3. IsFiniteSet(1 .. Cardinality(IPs)) /\ Cardinality(1 .. Cardinality(IPs)) = Cardinality(IPs)
    <3>1. 1 \in Int /\ Cardinality(IPs) \in Int
      BY <2>1
    <3> HIDE DEF IPs
    <3> QED BY <2>1, <3>1, FS_Interval
  <2>4. sendQ \in Injection(1 .. Cardinality(IPs), IPs)
    BY <2>2, <2>3, FS_SurjSameCardinalityImpliesInj
  <2> QED BY <2>4 DEF OneJob, Injection
<1>2. \A p \in IPs : ~InAir(p) /\ ~InSock(p) /\ ~InHand(p)
  <2>1. \A p : VersionOf(p) \in Versions
    BY SetupFacts DEF Init
  <2> QED BY <2>1 DEF Init, InAir, InSock, InHand, Handling
<1>3. Tokens
  BY <1>1, <1>2 DEF Init, Tokens, OneAir, OneSock, Apart
<1>4. Numbers
  BY DEF Init, Numbers, AirNum, SockNum, HandNum, QueueNum, Slots, Filled, Handling
<1>5. Ends
  BY DEF Init, Ends
<1> QED BY <1>3, <1>4, <1>5 DEF CalmInv

\* On a calm network the steps of the other faults do not happen.
LEMMA CalmStep == Safe /\ Calm /\ CalmInv /\ [Next]_vars => CalmInv'
<1> SUFFICES ASSUME Safe, Calm, CalmInv, [Next]_vars
             PROVE  CalmInv'
  OBVIOUS
<1>1. ~SendToFails /\ ~SendFailed
  BY DEF Calm, SendToFails, SendFailed, CalmInv, Ends
<1>2. \A r \in air : ~Duplicate(r)
  BY DEF Calm, Duplicate
<1>3. \A p \in IPs : ~Stray(p)
  BY DEF Calm, Stray
<1> QED BY <1>1, <1>2, <1>3, TakeCalm, StampCalm, SendToCalm, PopCalm, WaitCalm, PacketCalm,
           TestCalm, PushCalm, FinishCalm, PrintCalm, QuietCalm, NetworkCalm
        DEF Next, SenderStep, ReceiverStep, NetworkStep, Over

\* IInv is inductive: what mtx and the order of the writers give under every fault, and
\* the token and its number on a calm network.
THEOREM InvHolds == SafeSpec => []IInv
<1>1. Init => IInv
  BY SafeInit, CalmInit DEF IInv
<1>2. IInv /\ [Next]_vars => IInv'
  <2> SUFFICES ASSUME IInv, [Next]_vars
               PROVE  IInv'
    OBVIOUS
  <2>1. Safe'
    BY SafeStep DEF IInv
  <2>2. setup' = setup
    BY DEF Next, SenderStep, ReceiverStep, NetworkStep, Over, vars, TakeJob, StopSending, Stamp,
           SendTo, PopJob, SendToFails, SendFailed, Loop, NothingReceived, ProcessPacket, TestSent,
           TestThree, PushJob, FinishIp, AlarmRings, PrintRtts, Answer, Lose, Duplicate, Stray, programVars
  <2>3. Calm' <=> Calm
    BY <2>2, SetupFrame
  <2> QED BY <2>1, <2>3, CalmStep DEF IInv
<1> QED BY <1>1, <1>2, PTL DEF SafeSpec

\* Under every fault, every variable has its type; fail, which is subtracted from count, and
\* the other unsigned counters of rtt.c never pass below 0.  A store outside rtt[0..2] ends
\* in program = "undefined".
THEOREM TypeHolds == SafeSpec => []TypeOK
<1>1. IInv => TypeOK
  BY DEF IInv, Safe
<1> QED BY <1>1, InvHolds, PTL

\* Under every fault the job the sender pops is the one it sent: mtx keeps the receivers
\* from pushing another on top in between.
THEOREM PopsWhatItSentHolds == SafeSpec => []PopsWhatItSent
<1>1. IInv => PopsWhatItSent
  BY DEF IInv, Safe
<1> QED BY <1>1, InvHolds, PTL

\* On a calm network the queue holds no address twice, although receivers push without
\* looking for it.
THEOREM UniqueJobsHolds == SafeSpec => []UniqueJobs
<1>1. IInv => UniqueJobs
  BY DEF IInv, CalmInv, Tokens, OneJob, IsInjective, UniqueJobs
<1> QED BY <1>1, InvHolds, PTL

\* On a calm network every time is stored in the slot of the request it measures, however
\* the sender's stores of nsent and the receivers' loads interleave.
THEOREM OwnSlotHolds == SafeSpec => []OwnSlot
<1>1. IInv => OwnSlot
  BY DEF IInv, CalmInv, Numbers, Slots, Ends, OwnSlot
<1> QED BY <1>1, InvHolds, PTL

\* On a calm network, threads that end without the alarm leave no slot empty: the three
\* exit conditions never let one leave early.
THEOREM FullReportHolds == SafeSpec => []FullReport
<1>1. IInv => FullReport
  BY DEF IInv, CalmInv, Ends, FullReport
<1> QED BY <1>1, InvHolds, PTL
=============================================================================
