# TLA+ models of netprog-assignments

The repository holds six C programs of a network programming course. This
directory models all six, model-checks them with TLC on small instances, and
proves with TLAPS, for all parameter values, the safety of the preforking server
and that it implements an abstract service, and most safety properties of the
other programs.

* `tlc -workers 2 -config X.cfg M` runs a check; the pairs of module and cfg are
  in the table under *Runs* (and in `PROJECT.json`).
* `tlapm M.tla` checks the proofs of `M`, for each module with theorems: those
  named `...Proofs`, and `SeqLemmas`.
* Operators marked `\* Mutant:` are deliberate errors. Each stands before the
  definition it is a wrong version of and is not used by any specification;
  `PROJECT.json` says which property notices it.

## 1. The system

| program | state it keeps | operations and interaction | what is hard about it |
|---|---|---|---|
| **prefork server** `assignment-2/q2/prefork_server.c` | parent: doubly linked worker table, `num_workers`, `num_idle_workers`; worker: `reqs_handled`, the connection it serves | workers accept on the shared listening socket and report `GOT_REQUEST` / `COMPLETED_REQUEST` on one local datagram socket; the parent forks, kills, or sends `READ_ALLOWED` | the table lags the workers; workers die unreported; the queue is bounded; pids are reused |
| **rtt** `assignment-2/q1` | job stack under `mtx`; per address `nsent`, `rtt[3]`; counters and `stop_threads` without a lock | sender thread, one receiver thread per IP version, `alarm`, raw sockets | unprotected `nsent`; lost, duplicated, foreign packets; three different exit conditions |
| **messaging** `assignment-1/q3` | server: `clients[]`, `groups[]`; System V queues | four server threads, client processes with a router thread; one queue to *and through* the server, one queue per user | shared response queue with no request id; tables without a lock; bounded queues in a cycle; NULL entries |
| **group chat** `assignment-2/q3` | list of multicast groups with a tail pointer; `file_names`; children | broadcast find / reply, multicast messages, file lists every minute, file requests and polls through forked children | an alarm interrupts a wait; late answers; a bad line or a poll keeps the loop from its sockets; `wait()` takes any child; transfers break off; flooding of lists; everyone waiting for everyone |
| **cluster shell** `assignment-1/q2` | server: `active_connections`, `connection_ports`; a line and its output per thread; client: main process and child | a thread per client; a line is split with `strtok` and its stages run machine by machine, over TCP connections to the clients' children | tables and `strtok` without a lock; ports of clients that have left or come back; a slot is tested, then connected to; coalesced reads; one failure ends the server |
| **shell** `assignment-1/q1` | short-cut map, foreground job, the terminal's foreground group | a leader per line forks the commands one at a time; pipes with `\|`, `\|\|`, `\|\|\|`, redirection, short-cuts, job control | bounded pipes with no reader yet; copies of inputs; shell and leader both set the foreground group |

What makes each correct:

* *prefork*: every connection is taken once, in order, and answered once its
  client has sent a request or closed its side; the counters count the table;
  enough workers really can accept; workers are recycled on time; the parent survives its clients.
* *rtt*: each time is stored in its own slot, nothing is sent too often, the
  program ends, and its report is complete if it ends by itself.
* *messaging*: a response reaches the process that asked; an acknowledged
  membership is in force; messages arrive once, in order, eventually.
* *group chat*: the list of groups is what the kernel has joined; a find is
  answered for its own question only; `file_names` is what is on disk; flooding
  ends and reaches the connected component.
* *cluster shell*: a command runs on the machine it names; the answer is made of
  the stages of the line that was typed; a slot belongs to one client; the server
  survives its clients; every line is answered.
* *shell*: a command reads what the stage before it wrote, all of it and nothing
  else; jobs end; the terminal comes back to the shell; a short-cut is what was
  stored last.

## 2. Modules

| module | models | what is in it |
|---|---|---|
| `Prefork` | `prefork_server.c`, whole | parent, workers, control socket, clients |
| `ConnService` | abstract: what clients may expect | (specification only) |
| `PreforkProofs` | theorems about `Prefork`, and that it implements `ConnService` | two invariants, lemmas per action, theorems |
| `Rtt` | `assignment-2/q1`: `rtt.c`, `utils.c`, the queue and map as used | three threads, alarm, network |
| `SimpleMsg` | `assignment-1/q3`: `server.c`, `client.c` | four server threads, client commands, router, Ctrl+C |
| `GroupMembership` | `group_comm.c`, `utils.c`: groups, find, join, messages | the list, the kernel, finds, messages |
| `FileSharing` | `group_comm.c`, `utils.c`: lists, requests, polls | groups fixed |
| `ClusterShell` | `assignment-1/q2`: `clustershell_server.c`, `clustershell_client.c`, `utils.c` | connection threads, clients and their children |
| `Shell` | `assignment-1/q1`: `driver.c`, `shell.c`, `hash_map.c` | shell, leaders and commands, terminal, short-cuts |
| `RttProofs`, `SimpleMsgProofs`, `GroupMembershipProofs`, `FileSharingProofs`, `ClusterShellProofs`, `ShellProofs` | theorems about the module in their name | inductive invariant, a lemma per step, theorems |
| `SeqLemmas` | what the sequence operators do to members and distinctness | cited by the proofs |
| `MC...` | constants of the instances | (for TLC) |

`PROJECT.json` maps each definition to its source lines. In `Rtt`, `SimpleMsg`,
`ClusterShell` and `Shell` the variable `setup` picks one of the situations of
`Setups` in the initial state and never changes, so that one run covers several.

### Prefork

`listed`, `idle`, `reqs_seen`, `num_workers`, `num_idle_workers` are the parent's
table and counters; `phantoms` counts the entries that a failed `fork` (pid -1)
leaves in the list. `lsock` is the queue of the control socket, bounded by
`QueueCap` (a sender blocks). `wpc` says where each worker is in `start_worker`.
One parent step handles one message to the end, as the parent blocks only in
`recvfrom`: `HandleGotRequest`, `HandleCompletedRemove` (excess, recycling, and
the fault in `remove_worker` when the entry is the only one) and
`HandleCompletedAck`. `exponential_spawn` is one step per fork. Clients connect,
send, stall for ever, close without having sent anything (`CloseUnasked`: `recv`
returns 0, which the worker does not tell from a request and answers), or reset. `Faults` selects failures: a reset kills the
worker (its `recv` or `send` returns -1), `accept` or `fork` fails, SIGQUIT ends
one worker or only the parent. A reaped pid is reused. `NewPid` fixes which free
pid a fork gets, as nothing depends on it.

`ConnService` knows nothing of workers: a queue of connections, `Take` in order,
`Answer` once the client has been heard (a request, or the end of its side), `Lose` only for a connection its client has
reset (or, with `CanLose`, when workers fail). `Prefork` implements it by the
identity on connections.

### Rtt

The loads and stores of `nsent` are steps of their own: the receiver loads it for
its test (`TestSent`), again for the test of equality (`TestThree`), and a third time
for `nsent += 1`, where `FinishIp` is one step that adds to what it read before or after
the sender's last store. `mtx` is held over `TakeJob .. PopJob/SendFailed`. A stored time is
represented by the number of the request that it measures, so that `OwnSlot` can
say whether it is in the right slot. A store outside `rtt[0..2]` makes the
program `undefined` and the model stops. The network answers or loses each
request; duplicates and strays are bounded by `setup.maxStrays`. `Calm` says that
the network does nothing but answer and lose. `UniqueJobs`, `OwnSlot`,
`FullReport` and `Completes` are stated for it because they need it: a duplicated
reply queues its address twice and may push the slot past `rtt[2]`, and a `sendto`
that fails counts twice in `nsent`.

### SimpleMsg

`server_queue` and each `client_queue` are sequences of at most `QueueCap`
messages received by type (first match). Each server thread is two steps or more:
take a request, then send; registration and group creation write the count and
the slot separately, so other threads can meet a NULL slot; following one is
`server = "crashed"`. A group is in the table before its creator is its member
(`FillGroup`, `JoinCreator`): a message to it meanwhile goes to nobody. A client process registers, asks for an id where the
command needs one, and runs it. `router` is `handle_messages`. Whether an
auto-delete message has expired is a free choice. `Stop` is Ctrl+C at any point of
a process; a message its router has taken is lost with it. `crossed` remembers the
users who had two requests under way at once, or stopped a process that waited:
all processes of a user share a queue and responses carry no request id, so only
for the others does a process get its own answer (`OwnAnswers`).

### GroupMembership and FileSharing

Two modules on the same program, which meet in the main loop. In
`GroupMembership` the state is the linked list as its reader sees it (`list` from
head, whether `tail` is the last node), the kernel's memberships, where a
node is in a find (`find`, `blocked` in a `recvfrom` without a timeout, `freed`
after an answer to something else), and its `stdin`. A line that is no command
(`BadInput`, `ReadSlip`) makes the loop `continue` before it has looked at the sockets
of the groups, for one turn, or in every turn once stdin has ended; a poll that
arrives (`InitPoll`, `Receive`) keeps the node until its user votes (`Vote`).
In `FileSharing` a node's groups are fixed,
and the state is its file table, its directory, the list it is working through
and its children. A child that has its connection receives the file
(`KidReceives`), or a read or a write fails, or a read gets a part of a reply, and it
removes what it has written and exits with a failure (`KidFails`). A file list that is passed on carries its groups and its count
exactly as the code builds them: each send overwrites one slot, while the count
goes up.

### ClusterShell

A client is one run of the program: its user, its main process (`cpc`), its child (`kpc`, and `kidq`, the
connections the child has not closed) and its thread in the server (`tpc` and the
thread's locals `i`, `idx`, `buff`, `cmds`, `out`, `res`). Shared by the threads are
`active`, `ports` and `strtokAt`, strtok's static position: a thread's buffer and
the next token in it. Each access to one of them that another thread can see is a
step: `RunNamed` and `Cast` look at a slot, and `Dial` connects later to whoever listens
at its port by then (`found` remembers who had the slot when it was looked at). A user who
starts the program again is another client, on the same port or not: `Listen` fails
only while a child listens on that port, and the main process may then end too
(`LoseChild`). `conn` is a thread's connection to a child. An output is represented by the commands that
made it and the slots they ran in, which lets `AnswersOwnLine` compare an answer with
the line. The history variables mark what the code is known not to keep apart: `cut`
(the first line was read in the same `read` as the port, and lost its beginning or
all of it), `misread` (that line began with digits, and `atoi` took them for a part of
the port), `mixed` (two threads were between their `strtok` calls at once) and
`doubled` (two threads found one slot free). Three more behaviours are in the model
as the code has them: a rejected connection is not closed, so its client waits for
ever (the program's README says it is closed); a stage with a bad machine name ends
the thread and leaves its slot active; an unreachable machine ends the server.

### Shell

The shell is `sh`, `stopped` and `cur`; each line it runs has a leader, the record
`job[j]`: where the leader is, which command it has forked, where that child is,
the contents of the pipes, which ends leader and child hold, and what each command
has read. `WriteFd` and `Copies` are the choice of descriptors and `Routed` compares
its effect with `Owed`, what the stage before really wrote. A pipe holds `PipeCap`
units and a copy buffer `BufCap`: as the leader waits for each command before it
forks the reader, an output larger than a pipe blocks for ever, and an input larger
than the buffer may end the child that copies it. `Fits` is the precondition of `Routed` and
`Finishes` that excludes both. `<` opens `out_file` in the code, so such a command
fails, unless it also has a `>`: then it reads the file it writes. `>` leaves a message
in the pipe of a command that has one. `term` is the
terminal's foreground group; `GiveTerminal` and `Lead` both set it, and a process
in the background that does is stopped (SIGTTOU, which only the leader ignores).
`raced` remembers the jobs whose leader was first. `buckets` are the chains of the
hash map, `stored` what the user has stored, and `MapFaithful` relates them.

## 3. Runs

| run | cfg | shows |
|---|---|---|
| `prefork_peer` | `MCPrefork_peer` | resets and stalls: `ReadySpares`, `RecycledInTime`, `ParentStaysUp`, and refinement of `ConnService` with its fairness (`ServiceLive`) |
| `prefork_faults` | `MCPrefork_faults` | all faults: `LookupsFound`, `CountersMatchTable`, `KillsOnlyParked`, refinement of `ConnService`'s safety (`ServiceSafe`) |
| `rtt` | `MCRtt` | losses on an address of each version, and all faults on one address: `UniqueJobs`, `OwnSlot`, `FullReport`, `PopsWhatItSent`, `Completes`, `AlarmEnds` |
| `simplemsg` | `MCSimpleMsg` | two users with two processes each, at once and stopped: `OwnAnswers`, `OnceInOrder`, `CrashCauses`, `Delivered` |
| `group_keep` | `MCGroupMembership_keep` | `ListMatchesKernel`, `NoStrayReply`, `Delivered` |
| `group_tail` | `MCGroupMembership_tail` | *violation* of `Discoverable` |
| `files_share` | `MCFileSharing_share` | `InSyncUnlessPolled`, `FloodEnds`, `Spreads` |
| `files_poll` | `MCFileSharing_poll` | *violation* of `InSync` |
| `cluster` | `MCClusterShell` | `RunsWhereNamed`, `AnswersOwnLine`, `SlotsExclusive`, `EndsOnlyAtEdges`, `Answered` |
| `cluster_race` | `MCClusterShell_race` | *violation* of `ActiveWhenConnected` |
| `shell` | `MCShell` | `Routed`, `ControlBackUnlessRaced`, `MapFaithful`, `Finishes` |
| `shell_stop` | `MCShell_stop` | *violation* of `ControlBack` |

Each module's `TypeOK` is checked in one of its runs.

### What the violations show

1. `group_tail`: leaving the group joined last of several leaves `tail` on a freed
   node, and the next group is joined but cannot be found. `group_keep` therefore
   assumes users who keep that group (`KeepLast`); everything else is free.
2. `files_poll`: `wait()` in a file request reaps a finished poll's child, and a
   file that never arrived is listed. `InSyncUnlessPolled` is what holds.
3. `cluster_race`: `registerClientConnection` tests a slot and takes it two lines
   later without a lock, so two clients of one address can share it; when one of
   them leaves, the slot of the other is marked free. `SlotsExclusive` is what holds
   of slots where this has not happened.
4. `shell_stop`: the leader can take the terminal, run its command, hand the terminal
   back and exit before the shell reaches its own `tcsetpgrp` (line 667). The shell,
   in the foreground and not stopped, then gives the terminal to the group of the job
   that has ended, whose zombie keeps the group valid until the `waitpid` of line 674, and
   comes to its prompt in the background. (With the leader still running, the late call
   comes from the background and stops the shell with SIGTTOU first; ignoring the signal
   would prevent that stop, and not the violation.) `ControlBackUnlessRaced` is what holds.

### Conditions in the passing properties

Where a property holds only under a condition, the condition names what the code
does otherwise:

* `ParentStaysUp` needs `MinSpareServers` of at least 1: with 0, `remove_worker`
  takes the only worker out and writes `head->prev` through NULL.
* `UniqueJobs` and others of `Rtt` need a `Calm` network (section 2). The program's
  README says without condition that the queue has unique addresses.
* `OwnAnswers` leaves out `crossed` users; `Delivered` of `SimpleMsg` leaves out a
  queue that stays full, a crashed server and a stopped reader. It is `server_queue`
  when threads and clients wait for each other, and a `client_queue` when messages that
  no process displays have filled it: the router puts them back and waits for room
  (`RouterWaits`), and nothing makes any. One of the setups leads to that case. `CrashCauses` lists every reason for a crash.
* `OnceInOrder`: a user who writes to himself gets the message twice (the server
  sends the sender a copy), and one who joined a group twice gets its messages twice.
  Order is stated for a reader with one reading process and a sender who writes in
  one process and not to himself: two processes of the sender reach the server in
  either order, and a second copy of an earlier message may follow a later one.
* `Delivered` of `GroupMembership` leaves out a node that leaves the group or exits, one
  that is `blocked` in a find, one whose stdin has ended, and one whose user never
  answers a poll: each of them keeps the loop from the group's socket for good.
* `Spreads` leaves out files whose transfers break off, lists or requests that overlap,
  and nodes after a poll.
* `RunsWhereNamed` and `EndsOnlyAtEdges` are about a machine in working order
  (`Registered`): its thread has read its port, it listens, the slot is not `doubled` and
  the port not `misread`. No client of the past is an excuse: a command for a slot with
  such a machine reaches it whatever ports others have used or use, and the server ends
  only at a slot that was held when it looked and has no such machine when it connects.
* `AnswersOwnLine` leaves out `cut` and `mixed` lines; `Answered` the `cut` ones and the
  clients whose thread ended without closing the connection.

### Bounds, and why they suffice

* *prefork*: 6 pids, 3 connections, `MinSpareServers` 1, `MaxSpareServers` 2,
  `MaxRequestsPerChild` 2, a queue of 2, a backlog of 2. Three connections are
  enough to have more idle workers than allowed, to use one worker up, to fill
  `lsock` and to fill the backlog; the pids cover every worker that can exist at
  once (`EnoughPids`), so no fork is blocked by the bound. The safety part is
  proved for all values.
* *rtt*: one address of each version gives three threads that interleave on the
  stack; all three sends of each happen. The second setup has one address so that
  all fault kinds and two strays fit.
* *messaging*: one group, two users, up to two processes each, 1 to 3 messages, queues
  of 4: enough for a message typed during a join and for two messages in flight. The
  queues do fill: in one setup a user writes to himself three times while he reads
  another, and with the copies his `client_queue` has four messages that nobody
  displays. Further setups let a user join twice, run two commands at once, stop a
  command and run another, stop one of two readers, write to himself, or write in two
  processes. Where `setup.overlap` is FALSE a user starts no request while another of
  his waits.
* *groups*: two nodes and two groups on one port (the kernel then hands a message
  to both sockets), two finds (so an answer can be late for the first), one
  message or poll, two of the events alarm, poll, bad line and end of stdin
  (`MaxEvents`), and three inputs in all (`MaxInputs`). A user who types bad lines
  without end would starve the groups; the bound rules that out.
* *files*: three nodes in a line, so that lists must be relayed, or with two
  groups between the last two, so that a list can come twice; files on one side
  or both; two alarms, polls or requests (one where lists can come twice); transfers of one
  file may break off (`breakable`), where a run has it.
* *cluster shell*: two slots of one host, so that both fit every client, and up to
  four clients: two lines parsed and run at once, clients that leave while their machine is
  needed, two that connect at once, one that types and leaves while it registers,
  a third that finds a slot just left, or
  none, one that comes back on its port while another takes its slot, and a port read
  together with digits that make the port of another slot. `typists` and `leavers` say who
  types and who may leave in a setup. The lines name a machine, all machines, a missing one, and a bad name.
* *shell*: eight pipelines with stages of one, two and three commands before and after
  each other, redirections, outputs above a pipe (4 units) and above the copy buffer
  (3); four table operations on two numbers of one bucket (two buckets); three short
  jobs beside and after each other, with one Ctrl+C.

`CHECK_DEADLOCK FALSE` where the system may stop: all clients are done, users
type nothing more, or a bound on inputs is reached. `Rtt` says explicitly that
nothing happens after its end and is checked for deadlock.

### Fairness

* *prefork*: weak for the parent and each worker (the scheduler runs them), strong
  for each worker's `sendto` on `lsock` (waiting senders are woken in turn).
  Nothing is assumed of clients.
* *rtt*: weak for each thread, for `main` after the threads ended, and for the
  network's answering or losing each request. A thread that waits for `mtx` gets it.
  The alarm is not forced; `AlarmEnds` says what follows if it rings.
* *messaging*: weak for each server thread, router and display loop. Nobody has to
  type, start a command or finish one.
* *groups*: weak for answering, for reading a bad line, for receiving and for the find's
  `select` timing out. A turn of the loop reads one broadcast and a line, and only a turn
  without a bad line goes on to the groups' sockets, each of which it then serves, so
  `Receive` is enabled only where stdin lets the loop get there. Users, who need not even
  vote, and alarms are free.
* *files*: weak for each node's program and for its children, whose transfers end, one
  way or the other. Users vote when asked.
  A child's 10 s timeout expires only when no node that is in its main loop and
  has the file still has the request in its socket.
* *cluster shell*: weak for each client process, child and thread. When users start,
  type or leave is free.
* *shell*: weak for the shell's own steps and for each job (leader and its current
  child). The user, who also continues a stopped shell, is free.

## 4. Proofs

`PreforkProofs` proves, for every value of the constants that satisfies
`ParameterAssumption` (finitely many pids, natural numbers, positive queue sizes,
`NoConn` not a connection):

`TypeHolds`, `LookupsFoundHolds`, `CountersMatchTableHolds`,
`StatsLagByQueuedHolds`, `RecycledInTimeHolds`, `ParentStaysUpHolds`,
`ReadySparesHolds`, `KillsOnlyParkedHolds`, `NoGrowthPastMaxSpareHolds`.

All follow from `InvHolds`, that `IInv` is an invariant. None of the properties is
inductive alone: whether a queued message finds its sender in the table depends on
what else that worker has queued and on where it is. `IInv` says

* `Ordered(lsock)`: of each worker at most one message of each type is queued, and
  its `GOT_REQUEST` is before its `COMPLETED_REQUEST`;
* `Current`: a queued `COMPLETED_REQUEST` carries its sender's counter;
* while the parent lives, for each worker (`TableInv`): which messages it may have
  queued, whether its entry is idle and how many `READ_ALLOWED` it has, as a
  function of its pc (`WorkerHandshake`); that, unless SIGQUIT hits workers, one whose
  `COMPLETED_REQUEST` is queued waits for `READ_ALLOWED` (`ParkedIsAlive`), that one
  which died on a reset connection and is still counted idle has its `GOT_REQUEST`
  queued (`DeadIsReported`), how many requests it has left (`RequestsLeft`), by how
  much its entry lags (`LagByQueued`); and for the table the two counters
  (`Counters`), `MinSpareServers` as a floor of `num_idle_workers` once started
  (`IdleFloor`) and no phantoms unless forks fail (`NoPhantoms`);
* `RecycledInTime` and `ParentStaysUp` themselves.

There is one lemma per action (`SendGotInv`, `HandleGotInv`, ...), collected in
`StepInv`; lemmas on queues (appending, taking the head) and on cardinalities
carry the rest. `LookupsFound` is an instance of `WorkerHandshake`; `ReadySpares`
follows from `IdleFloor`: an idle entry belongs to a worker that can accept or whose
`GOT_REQUEST` the parent has not handled yet.

`NoGrowthPastMaxSpare` (handling a report never raises the idle count past
`MaxSpareServers`) and `StatsLagByQueued` (the table's request counts lag the
workers' by the queued reports) are properties of `Prefork` that the proofs
establish and no run repeats.

The other proof modules have the same plan: an `IInv` with `Init => IInv` and
one lemma per action for `IInv /\ [Next]_vars => IInv'`, `InvHolds`, and a theorem
per property. Their assumptions on constants are the `ASSUME` of the module.

**The second part of `PreforkProofs`**: `ServiceSafeHolds`, for all parameters and all faults. `IInv`
says nothing once the parent is gone, so the refinement rests on a second invariant
that outlives it, `ConnInv`: a worker holds a connection exactly between `accept`
and `close`, it is one that was taken and not yet ended, no other worker has it, and
the backlog holds each waiting connection once. With it each step maps to `Take`,
`Answer`, `Lose`, a client's step or a stutter; a worker answers only what its `recv` has
returned for, a request or the end of the client's side. Two facts of `IInv` enter: a worker that
`remove_worker` kills holds no connection, and without faults of its own a server
with spare workers keeps its parent, so that no worker's report fails.

**`RttProofs`** (`TypeHolds`, `PopsWhatItSentHolds` under every fault; `UniqueJobsHolds`,
`OwnSlotHolds`, `FullReportHolds` on a calm network; finitely many addresses, the two
versions disjoint and not both empty). `Safe` is what `mtx` and the order of the two
unprotected writers of `nsent` give: the sender's loaded value is current unless a
receiver has finished the address, and a receiver's `count` is at least the number of
addresses it may still count down, which is why an unsigned counter never wraps. On a
calm network an address is a token (`Tokens`): it is queued, in the air, in a socket or
in a receiver's hand, once. `Numbers` ties the token to `nsent`, so that the slot a
receiver computes is the slot of the request it has the answer to; `Ends` says why a
thread leaves.

**`SimpleMsgProofs`** (`TypeHolds`, `OwnAnswersHolds`, `CrashCausesHolds`; any users,
processes, groups, commands and queue sizes; `"_ALL_"` names no user and no group, as
the code reserves it, and `NoGroup` is no group). `OwnAnswers` looks only at the next
response in a queue; what makes it true is that nothing else can be under way.
`UserInv` says so for a user outside `crossed`: at most one of his processes has a
request to make, when none waits nothing of his is under way (`Calm`), and when one
waits there is exactly one of its request in `server_queue`, the work of the server
thread that took it, and the response (`Token`), each of them of that process' request.
`Told` says that what a process was told is so: a registered user, a group by its id
and name, a membership. `CrashCauses` needs more of the tables: an entry is empty only
while `handle_control_msgs` is at it (`TableInv`), a message is to somebody the server
knows or to nobody (`MsgInv`), members are registered (`MemberInv`); and a loop over
the members of a group runs past the table of users only if a user is twice
among them (`FewMembers`, by counting). The theorems are about `SafeSpec`, `Spec`
without its fairness.

**`GroupMembershipProofs`** (any nodes, finitely many groups, any bounds).
`RepliesMatchHolds` needs nothing of users: a request on its way carries the number of
its find, and a later find has that number only if the names agree (`FindInv`).
`ListMatchesKernelHolds`, `NoStrayReplyHolds` and `TypeHolds` are about users who keep the
group they joined last (`KeepLast`): then `tail` is right whenever the list is not
empty (`ListInv`), which is what `group_tail` shows to fail otherwise.

**`FileSharingProofs`** (`InSyncUnlessPolledHolds`, `TypeHolds`; any nodes, groups,
files and table sizes). `InSyncUnlessPolled` says nothing of a node that waits, so it is
not inductive. `SyncInv` follows such a node: it has exactly one child, for the file
it has asked for and does not list, and the directory is ahead of the table by that
file once the child has written it, and not after a transfer that broke off. `SockInv` says that a request names a child
forked for a file, so that a late answer never connects to a poll's child.

**`ClusterShellProofs`** (`RunsWhereNamedHolds`, `SlotsExclusiveHolds`,
`EndsOnlyAtEdgesHolds`, `TypeHolds`, `AnswersOwnLineHolds`; any machines, clients, ports
and lines: clients of a host may use one port, except those that are registered at the
start). A port in `connection_ports` may be that of a client long gone, which another may
use again. `RegInv` says that once a thread has read its client's port, alone, the
table holds it for its slot until the slot is left (unless the slot is `doubled`), and that
a slot outside `doubled` has one holder or none; `ChildInv` that no two children of a host
listen on one port at the same time. A command for a slot with a machine in working order
therefore finds that machine's child and no other. That a slot was held when the thread
looked is carried to the connection by `ThreadInv` (`found`). `FlowInv` orders what is between a client and its thread, and
`ThreadInv` bounds a thread's indices in spite of the shared `strtok`. `EndsOnlyAtEdges` is an action property.
`AnswersOwnLine` has an invariant of its own, `AInv`, on top: the line on its way and
the line in work are the one typed (`LineInv`); of a line that is not `mixed` the stages
in `out` are done and fit, and `cmds` are the rest, each with its text in the thread's
own buffer (`Todo`); while it is parsed `strtokAt` is its next token and nobody else
parses (`ParseAlone`); what a broadcast has gathered is from smaller slots (`CastSoFar`);
and a thread has at most one command at the children, the one of the stage in work
(`KidInv`).

**`ShellProofs`** (`ControlBackUnlessRacedHolds`, `MapFaithfulHolds`; any number of jobs and
lines, any table size above 0, `None` not a pipeline). `TermInv`: while no leader has overtaken
the shell, at most one foreground job is unfinished, it is the one the shell runs,
and the terminal is the shell's before and after it. `Chains` and `Matches`: every
number is at most once in the chain of its hash, with what the user stored last.

Only model-checked:

* all liveness (`ServiceLive`, `Completes`, `AlarmEnds`, `Delivered`, `FloodEnds`,
  `Spreads`, `Answered`, `Finishes`), since fairness and ENABLED are beyond the prover;
* `Routed` and the `TypeOK` of `Shell`: what the commands of a line are comes from
  flattening its stages, and facts about such folds need induction over data;
* `OnceInOrder` of `SimpleMsg`: it counts the copies of a message over all queues,
  threads and displays, and a proof would have to follow that cardinality through
  every step; none has been attempted.

## 5. Abstractions, and what is not modelled

* *prefork*: printing, arguments and the SIGINT report; the text of requests.
* *rtt*: checksums, clocks, address text; packets of unlisted addresses; the map's
  buckets (it is a function); the parser of the IP list and the separate program
  `ip_utils`.
* *messaging*: message text; a new group's `num_clients`, which `malloc` leaves
  uninitialised, is taken as 0 (the server frees nothing, so its heap is fresh).
* *group chat*: a name stands for one address, as its README asks of users; failing
  system calls outside of transfers; two ephemeral ports are never the same; the write through the
  stale `tail` into freed memory does no further harm; uninitialised slots of a
  list's groups match no group; in `FileSharing` also datagram loss (in
  `GroupMembership` a message may be lost), the bytes of a file, the counting of
  votes, the end of stdin and bad lines (`GroupMembership` has them), leaving groups
  meanwhile, a sender that dies in the middle of a file (its requester then writes the
  last reply again and again and waits for ever), and a second sender that connects to a
  child which already has one.
* *cluster shell*: texts and outputs, which are taken to fit their buffers; commands
  end; a negative number after `n` in a line (`n-5`), which `atoi` takes and which then
  indexes before the tables; failing `socket`, `accept` and `pthread_create`; clients are started while the server is
  up; a process other than a client's child listening on a port in the table.
* *shell*: text and parsing; a command reads its input to the end, then writes, then
  ends; the first command reads nothing from the terminal; forks succeed.

Not modelled, because nothing in them changes state that others see: parsing and
printing of commands in all programs, the parser of the IP list (file I/O and text
scanning; its result is the set of addresses), and `ip_utils` (one `getaddrinfo`
per line). The map of `rtt` is a function: it is filled before the threads start.
`get_all_map_nodes` and `delete_map` of the shell's map have no caller.

## 6. Plan

Done: all six programs modelled and checked; `Prefork` proved to implement its
abstract specification; inductive invariants for all of them. Left for later: of the
safety properties, `OnceInOrder`, from where the copies of a message are between
the server's threads and the reader, and `Routed`, once facts about folds over
sequences can be proved.
