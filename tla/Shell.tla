------------------------------- MODULE Shell -------------------------------
(***************************************************************************)
(* The shell of assignment-1/q1 (driver.c, shell.c, hash_map.c).           *)
(*                                                                         *)
(* The shell reads a line, forks a leader for it and, unless the line runs *)
(* in the background, waits for the leader.  Shell and leader both make    *)
(* the leader's process group the foreground group of the terminal; the    *)
(* leader hands the terminal back when it is done.  The leader forks the   *)
(* commands of the pipeline one at a time and waits for each before it     *)
(* forks the next.  After || and ||| each command reads the whole output   *)
(* of the stage before, so a command that is not the last of its stage     *)
(* copies its input to the next one before it runs.  "sc" stores pipelines *)
(* under numbers, and Ctrl+C at the prompt makes the next line a number.   *)
(*                                                                         *)
(* Text is parsed already: a line is given by the commands of its stages.  *)
(* A command reads its input to the end, then writes its output, a number  *)
(* of units marked with the command's position, and ends.  The first       *)
(* command reads nothing from the terminal.  Forks succeed.                *)
(***************************************************************************)
EXTENDS Integers, SequencesExt

CONSTANTS Lines,              \* what the user types, see Line
          Setups,             \* what a run starts from, see Setup
          MapSize,            \* init_map(19)
          BufCap, PipeCap,    \* units that fit the copy buffer (STDOUT_BUF_SIZE), and a pipe
          MaxJobs,            \* bound on the jobs started
          None

Jobs == 1 .. MaxJobs
ShellGroup == 0
OuterGroup == -1   \* the process that started the shell
Indices == {l.idx : l \in Lines}

\* A command writes size units; redirect is "out" for > and >>, "in" for <, "both" for < with
\* one of them.
Command == [size : Nat, redirect : {"none", "out", "in", "both"}]
ToFile(c) == c.redirect \in {"out", "both"}
Line == [kind : {"run", "insert", "delete", "malformed", "exit"}, idx : Nat, stages : Seq(Seq(Command)), bg : BOOLEAN]

\* The lines of the setup, and bounds on the lines typed and the Ctrl+C.
Setup == [lines : SUBSET Lines, maxTyped : Nat, maxInts : Nat]

ASSUME ShellAssumption ==
    /\ MapSize \in Nat \ {0} /\ BufCap \in Nat /\ PipeCap \in Nat /\ MaxJobs \in Nat
    /\ Lines \subseteq Line /\ Setups \subseteq Setup
    /\ \A l \in Lines : \A s \in DOMAIN l.stages : Len(l.stages[s]) \in 1 .. 3
    /\ \A l \in Lines : l.kind \in {"run", "insert"} => l.stages # <<>> /\ Len(l.stages[1]) = 1
    /\ None \notin [stages : Seq(Seq(Command)), bg : BOOLEAN]

VARIABLES
    setup,     \* a member of Setups
    sh,        \* the shell: "prompt", "asking" (replace?), "forked", "waiting" or "exited"
    stopped,   \* has SIGTTOU or SIGTTIN stopped the shell?
    cur,       \* the job forked last
    line,      \* the line a question is about
    sigint,    \* receivedSigInt
    term,      \* foreground group of the terminal: a job, ShellGroup or OuterGroup
    buckets,   \* sc_map: chains of number and pipeline
    job,       \* the leaders, see NoJob
    typed, ints,  \* lines typed and Ctrl+C pressed so far
    stored,    \* what the user has stored under each number
    raced      \* jobs whose leader took the terminal before the shell gave it

mapVars  == <<buckets, stored>>
userVars == <<typed, ints>>
vars == <<setup, sh, stopped, cur, line, sigint, term, mapVars, job, userVars, raced>>
-----------------------------------------------------------------------------
(* Pipelines.                                                              *)

\* createCmdPipe: the commands one after the other; par is par_offset, bars is
\* prev_pipe_count.
CreateCmdPipe(stages) ==
    FlattenSeq([s \in DOMAIN stages |->
        [m \in DOMAIN stages[s] |->
            [size |-> stages[s][m].size, redirect |-> stages[s][m].redirect,
             par |-> IF Len(stages[s]) = 1 THEN 0 ELSE -m, bars |-> Len(stages[s])]]])

\* The command passes a copy of its input on to the next one.
Copies(cmds, i) ==
    /\ i < Len(cmds)
    /\ cmds[i].par = -1 \/ (cmds[i].par = -2 /\ cmds[i].bars = 3)

\* Mutant: the second of three commands writes to the pipe of the third.
WriteFd_Second(cmds, i) ==
    LET n == Len(cmds)
        c == cmds[i]
    IN  CASE i = n -> 0
          [] i < n /\ c.par = -1 /\ c.bars = 2 -> IF i # n - 1 THEN i + 1 ELSE 0
          [] i < n /\ c.par = -1 /\ c.bars = 3 -> IF i # n - 2 THEN i + 2 ELSE 0
          [] OTHER -> i

\* write_fd: the number of a pipe, 0 for the standard output.  Pipe p leads to command
\* p + 1.
WriteFd(cmds, i) ==
    LET n == Len(cmds)
        c == cmds[i]
    IN  CASE i = n -> 0
          [] i < n /\ c.par = -1 /\ c.bars = 2 -> IF i # n - 1 THEN i + 1 ELSE 0
          [] i < n /\ c.par = -1 /\ c.bars = 3 -> IF i # n - 2 THEN i + 2 ELSE 0
          [] i < n /\ c.par = -2 /\ c.bars = 3 -> IF i # n - 1 THEN i + 1 ELSE 0
          [] OTHER -> i

\* The units command i writes.
Units(cmds, i) == [u \in 1 .. cmds[i].size |-> i]
-----------------------------------------------------------------------------
(* The table of short-cuts (hash_map.c).                                   *)

Bucket(k) == buckets[k % MapSize]

FindInMap(k) ==
    LET hits == {n \in DOMAIN Bucket(k) : Bucket(k)[n].key = k}
    IN  IF hits = {} THEN None ELSE Bucket(k)[CHOOSE n \in hits : \A m \in hits : n <= m].pipe

\* Mutant: the number is not hashed.
InsertIntoMap_First(b, k, p) == [b EXCEPT ![0] = <<[key |-> k, pipe |-> p]>> \o @]

\* insert_into_bucket: at the front.
InsertIntoMap(b, k, p) == [b EXCEPT ![k % MapSize] = <<[key |-> k, pipe |-> p]>> \o @]

\* Mutant: the head of the chain goes.
DeleteFromMap_Head(b, k) == [b EXCEPT ![k % MapSize] = Tail(@)]

\* delete_from_bucket: the first node with the number.
DeleteFromMap(b, k) ==
    LET n == CHOOSE n \in DOMAIN b[k % MapSize] :
                /\ b[k % MapSize][n].key = k
                /\ \A m \in 1 .. n - 1 : b[k % MapSize][m].key # k
    IN  [b EXCEPT ![k % MapSize] = RemoveAt(@, n)]
-----------------------------------------------------------------------------
\* A leader: its next step, the line, the foreground group to give back (initial_pgrp), the
\* command it is at, the pipes whose write end it has open, what the pipes hold; of its
\* child: where it is, the write ends it has open, its standard input when that is the
\* temporary pipe; and, of all commands, the input read and who has written.
NoJob == [pc |-> "none", bg |-> FALSE, cmds |-> <<>>, home |-> ShellGroup, i |-> 1, lw |-> {}, pipe |-> <<>>,
          kid |-> "none", kw |-> {}, kin |-> None, got |-> <<>>, wrote |-> {}]

Init ==
    /\ setup \in Setups
    /\ sh = "prompt" /\ stopped = FALSE /\ cur = 0 /\ line = None
    /\ sigint = FALSE /\ term = ShellGroup
    /\ buckets = [b \in 0 .. MapSize - 1 |-> <<>>]
    /\ job = [j \in Jobs |-> NoJob]
    /\ typed = 0 /\ ints = 0
    /\ stored = [k \in Indices |-> None]
    /\ raced = {}
-----------------------------------------------------------------------------
(* The shell.                                                              *)

AtPrompt == sh = "prompt" /\ ~stopped /\ term = ShellGroup
\* The top of main's loop.
Loop == sh' = "prompt" /\ sigint' = FALSE

\* executeCmdPipe up to the setpgid of the parent: the leader is forked.
ExecuteCmdPipe(stages, bg) ==
    /\ cur < MaxJobs
    /\ cur' = cur + 1
    /\ job' = [job EXCEPT ![cur + 1] = [NoJob EXCEPT !.pc = "new", !.bg = bg, !.home = term,
                                                     !.cmds = CreateCmdPipe(stages)]]
    /\ IF bg THEN Loop ELSE sh' = "forked" /\ UNCHANGED sigint

\* getline in a process that is not in the foreground: SIGTTIN.
ReadInBackground ==
    /\ sh = "prompt" /\ ~stopped /\ term # ShellGroup
    /\ stopped' = TRUE /\ term' = OuterGroup
    /\ UNCHANGED <<setup, sh, cur, line, sigint, mapVars, job, userVars, raced>>

\* A line that is executed.
RunLine(l) ==
    /\ l.kind = "run"
    /\ ExecuteCmdPipe(l.stages, l.bg)
    /\ UNCHANGED <<line, mapVars>>

\* sc -i: a number in use asks first.
Insert(l) ==
    /\ l.kind = "insert"
    /\ IF FindInMap(l.idx) # None
       THEN sh' = "asking" /\ line' = l /\ UNCHANGED <<sigint, mapVars>>
       ELSE /\ buckets' = InsertIntoMap(buckets, l.idx, [stages |-> l.stages, bg |-> l.bg])
            /\ stored' = [stored EXCEPT ![l.idx] = [stages |-> l.stages, bg |-> l.bg]]
            /\ Loop /\ UNCHANGED line
    /\ UNCHANGED <<cur, job>>

\* sc -d: an assertion ends the shell when the number is not in use.
Delete(l) ==
    /\ l.kind = "delete"
    /\ IF FindInMap(l.idx) # None
       THEN /\ buckets' = DeleteFromMap(buckets, l.idx)
            /\ stored' = [stored EXCEPT ![l.idx] = None]
            /\ Loop
       ELSE sh' = "exited" /\ UNCHANGED <<mapVars, sigint>>
    /\ UNCHANGED <<cur, line, job>>

\* exit, and the assertions of the parser.
Exit(l) ==
    /\ l.kind \in {"exit", "malformed"}
    /\ sh' = "exited"
    /\ UNCHANGED <<sigint, cur, line, mapVars, job>>

Type(l) ==
    /\ AtPrompt /\ ~sigint /\ typed < setup.maxTyped
    /\ typed' = typed + 1
    /\ RunLine(l) \/ Insert(l) \/ Delete(l) \/ Exit(l)
    /\ UNCHANGED <<setup, stopped, term, ints, raced>>

\* yes replaces; all other answers leave the table as it is.
Answer(yes) ==
    /\ sh = "asking"
    /\ IF yes
       THEN LET l == line IN
            /\ buckets' = InsertIntoMap(DeleteFromMap(buckets, l.idx), l.idx, [stages |-> l.stages, bg |-> l.bg])
            /\ stored' = [stored EXCEPT ![l.idx] = [stages |-> l.stages, bg |-> l.bg]]
       ELSE UNCHANGED mapVars
    /\ line' = None /\ Loop
    /\ UNCHANGED <<setup, stopped, cur, term, job, userVars, raced>>

\* The line after Ctrl+C is a number.  One that is not in use and an empty line go back to
\* the prompt; anything else ends the shell (stringToNum).
TypeIndex(k) ==
    /\ AtPrompt /\ sigint /\ typed < setup.maxTyped
    /\ typed' = typed + 1
    /\ \/ LET p == FindInMap(k) IN p # None /\ ExecuteCmdPipe(p.stages, p.bg)
       \/ Loop /\ UNCHANGED <<cur, job>>
       \/ sh' = "exited" /\ UNCHANGED <<sigint, cur, job>>
    /\ UNCHANGED <<setup, stopped, line, term, mapVars, ints, raced>>

\* tcsetpgrp of the parent.  From the background it brings SIGTTOU, which the shell does
\* not ignore; the group it names may have ended meanwhile.
GiveTerminal ==
    /\ sh = "forked" /\ ~stopped
    /\ IF term = ShellGroup
       THEN term' = cur /\ sh' = "waiting" /\ UNCHANGED stopped
       ELSE term' = OuterGroup /\ stopped' = TRUE /\ UNCHANGED sh
    /\ UNCHANGED <<setup, cur, line, sigint, mapVars, job, userVars, raced>>

\* waitpid returns.
Wait ==
    /\ sh = "waiting" /\ job[cur].pc = "done"
    /\ Loop
    /\ UNCHANGED <<setup, stopped, cur, line, term, mapVars, job, userVars, raced>>

\* Who started the shell continues it in the foreground.
Resume ==
    /\ stopped
    /\ stopped' = FALSE /\ term' = ShellGroup
    /\ UNCHANGED <<setup, sh, cur, line, sigint, mapVars, job, userVars, raced>>

\* Ctrl+C goes to the foreground group.  The shell notes it; of a job, it ends the command,
\* the leader and a child that has not called exec yet handle it.
CtrlC ==
    /\ ints < setup.maxInts
    /\ ints' = ints + 1
    /\ \/ /\ term = ShellGroup /\ sh # "exited"
          /\ sigint' = TRUE /\ UNCHANGED job
       \/ /\ term \in Jobs /\ job[term].kid \in {"run", "full"}
          /\ job' = [job EXCEPT ![term].kid = "dead", ![term].kw = {}] /\ UNCHANGED sigint
    /\ UNCHANGED <<setup, sh, stopped, cur, line, term, mapVars, typed, raced>>
-----------------------------------------------------------------------------
(* The leader of job j.                                                    *)

JobStep(j, r) ==
    /\ job' = [job EXCEPT ![j] = r]
    /\ UNCHANGED <<setup, sh, stopped, cur, line, sigint, mapVars, userVars>>

Count(j) == Len(job[j].cmds)

\* setpgid, tcsetpgrp with SIGTTOU ignored, and the pipes.
Lead(j) ==
    /\ job[j].pc = "new"
    /\ term' = IF job[j].bg THEN term ELSE j
    /\ raced' = IF ~job[j].bg /\ sh = "forked" THEN raced \cup {j} ELSE raced
    /\ JobStep(j, [job[j] EXCEPT !.pc = "fork", !.lw = 1 .. Count(j) - 1,
                                 !.pipe = [p \in 1 .. Count(j) - 1 |-> <<>>],
                                 !.got = [i \in 1 .. Count(j) |-> None]])

\* The child inherits the write ends that are open.
Fork(j) ==
    /\ job[j].pc = "fork"
    /\ JobStep(j, [job[j] EXCEPT !.pc = "close", !.kid = "new", !.kw = job[j].lw, !.kin = None])
    /\ UNCHANGED <<term, raced>>

\* Mutant: the leader keeps the write ends.
CloseEnds_Kept(j) ==
    /\ job[j].pc = "close"
    /\ JobStep(j, [job[j] EXCEPT !.pc = "wait"])
    /\ UNCHANGED <<term, raced>>

\* The leader closes its ends, so that readers see the end of their input.
CloseEnds(j) ==
    /\ job[j].pc = "close"
    /\ JobStep(j, [job[j] EXCEPT !.pc = "wait", !.lw = @ \ {job[j].i}])
    /\ UNCHANGED <<term, raced>>

Reap(j) ==
    /\ job[j].pc = "wait" /\ job[j].kid = "dead"
    /\ JobStep(j, IF job[j].i = Count(j) THEN [job[j] EXCEPT !.pc = "back", !.lw = {}]
                  ELSE [job[j] EXCEPT !.pc = "fork", !.i = @ + 1])
    /\ UNCHANGED <<term, raced>>

\* Mutant: the terminal is given back for background jobs only.
HandBack_Wrong(j) ==
    /\ job[j].pc = "back"
    /\ term' = IF job[j].bg THEN job[j].home ELSE term
    /\ JobStep(j, [job[j] EXCEPT !.pc = "done"])
    /\ UNCHANGED raced

\* The terminal goes back to the group that had it, and the leader exits.
HandBack(j) ==
    /\ job[j].pc = "back"
    /\ term' = IF job[j].bg THEN term ELSE job[j].home
    /\ JobStep(j, [job[j] EXCEPT !.pc = "done"])
    /\ UNCHANGED raced
-----------------------------------------------------------------------------
(* The child of job j, at command i.                                       *)

\* No process has the write end of pipe p: a reader gets to the end of its input.
AtEnd(j, p) == p \notin job[j].lw \cup job[j].kw

Full(j, p, units) == Len(job[j].pipe[p]) + Len(units) > PipeCap

\* Commands that are not the last of their stage: the input is read to its end, written to
\* a temporary pipe and to the pipe of the next command.  The copy buffer does not grow in
\* time, so input that exceeds it may end the child.
Copy(j) ==
    LET r == job[j]
        input == r.pipe[r.i - 1]
        after == [r EXCEPT !.pipe[r.i - 1] = <<>>]
    IN  /\ r.kid = "new" /\ Copies(r.cmds, r.i) /\ AtEnd(j, r.i - 1)
        /\ \/ /\ Len(input) <= PipeCap /\ ~Full(j, r.i, input)
              /\ JobStep(j, [after EXCEPT !.kid = "wire", !.kin = input, !.pipe[r.i] = @ \o input])
           \/ /\ Len(input) > PipeCap \/ Full(j, r.i, input)
              /\ JobStep(j, [after EXCEPT !.kid = "stuck"])
           \/ /\ Len(input) > BufCap
              /\ JobStep(j, [after EXCEPT !.kid = "dead", !.kw = {}])
        /\ UNCHANGED <<term, raced>>

\* The descriptors: all pipe ends but two are closed.  The message about > goes where the
\* output would have gone.  < opens the name in out_file: without > it is empty and the child
\* ends; with > it is the file the output goes to, which holds the message about <.
Wire(j) ==
    LET r == job[j]
        w == WriteFd(r.cmds, r.i)
        c == r.cmds[r.i]
        opened == [r EXCEPT !.kid = "run", !.kw = {w} \ {0},
                            !.kin = IF c.redirect = "both" THEN <<0>> ELSE @]
    IN  /\ r.kid = "wire" \/ (r.kid = "new" /\ ~Copies(r.cmds, r.i))
        /\ JobStep(j, CASE c.redirect = "in" -> [r EXCEPT !.kid = "dead", !.kw = {}]
                        [] ToFile(c) /\ w # 0 ->
                               IF Full(j, w, <<0>>) THEN [r EXCEPT !.kid = "stuck", !.kw = {w}]
                               ELSE [opened EXCEPT !.pipe[w] = Append(@, 0)]
                        [] OTHER -> opened)
        /\ UNCHANGED <<term, raced>>

\* The command: input to its end, then output, then exit.  Nobody reads yet what it writes,
\* so output that does not fit the pipe blocks it.
RunCommand(j) ==
    LET r == job[j]
        w == WriteFd(r.cmds, r.i)
        piped == r.i > 1 /\ r.kin = None
        input == IF piped THEN r.pipe[r.i - 1] ELSE IF r.kin = None THEN <<>> ELSE r.kin
        read == [r EXCEPT !.got[r.i] = input,
                          !.pipe = IF piped THEN [@ EXCEPT ![r.i - 1] = <<>>] ELSE @]
        out == Units(r.cmds, r.i)
    IN  /\ r.kid = "run" /\ (piped => AtEnd(j, r.i - 1))
        /\ JobStep(j, IF w = 0 \/ ToFile(r.cmds[r.i])
                      THEN [read EXCEPT !.kid = "dead", !.kw = {}]
                      ELSE IF Full(j, w, out) THEN [read EXCEPT !.kid = "full"]
                      ELSE [read EXCEPT !.kid = "dead", !.kw = {}, !.pipe[w] = @ \o out, !.wrote = @ \cup {r.i}])
        /\ UNCHANGED <<term, raced>>
-----------------------------------------------------------------------------
Job(j) == Lead(j) \/ Fork(j) \/ CloseEnds(j) \/ Reap(j) \/ HandBack(j) \/ Copy(j) \/ Wire(j) \/ RunCommand(j)

User ==
    \/ \E l \in setup.lines : Type(l)
    \/ \E k \in Indices : TypeIndex(k)
    \/ \E yes \in BOOLEAN : Answer(yes)
    \/ CtrlC \/ Resume

ShellStep == GiveTerminal \/ Wait \/ ReadInBackground

Next == User \/ ShellStep \/ \E j \in Jobs : Job(j)

\* The processes run; what the user does is the user's choice.
Fairness == WF_vars(ShellStep) /\ \A j \in Jobs : WF_vars(Job(j))

Spec == Init /\ [][Next]_vars /\ Fairness
-----------------------------------------------------------------------------
(* Properties.                                                             *)

TypeOK ==
    /\ setup \in Setups
    /\ sh \in {"prompt", "asking", "forked", "waiting", "exited"} /\ (sh = "asking") = (line # None)
    /\ stopped \in BOOLEAN /\ sigint \in BOOLEAN
    /\ cur \in 0 .. MaxJobs /\ term \in Jobs \cup {ShellGroup, OuterGroup}
    /\ \A b \in DOMAIN buckets : \A n \in DOMAIN buckets[b] : buckets[b][n].key % MapSize = b
    /\ \A j \in Jobs :
           LET r == job[j] IN
           /\ r.pc \in {"none", "new", "fork", "close", "wait", "back", "done"} /\ (r.pc = "none") = (j > cur)
           /\ r.kid \in {"none", "new", "wire", "run", "stuck", "full", "dead"}
           /\ r.lw \subseteq DOMAIN r.pipe /\ r.kw \subseteq DOMAIN r.pipe
           /\ \A p \in DOMAIN r.pipe : Len(r.pipe[p]) <= PipeCap

\* The positions of the stage before the one command i belongs to.
FirstOf(cmds, i) == IF cmds[i].par = 0 THEN i ELSE i + cmds[i].par + 1
Before(cmds, i) ==
    LET last == FirstOf(cmds, i) - 1
    IN  IF last = 0 THEN <<>> ELSE [m \in 1 .. cmds[last].bars |-> last - cmds[last].bars + m]
\* What the commands of the stage before have written, in order.
Owed(r, i) == FlattenSeq([m \in DOMAIN Before(r.cmds, i) |->
                  LET k == Before(r.cmds, i)[m] IN IF k \in r.wrote THEN Units(r.cmds, k) ELSE <<>>])

\* No input of a copying command exceeds the copy buffer, and no output of a stage its pipe;
\* a command with > leaves a message of one unit in the pipe.
Fits(cmds) ==
    LET units(k) == IF ToFile(cmds[k]) THEN <<0>> ELSE Units(cmds, k)
    IN  \A i \in DOMAIN cmds :
            LET total == Len(FlattenSeq([m \in DOMAIN Before(cmds, i) |-> units(Before(cmds, i)[m])]))
            IN  total <= PipeCap /\ (Copies(cmds, i) => total <= BufCap)

\* Every command reads exactly what the commands of the stage before it have written, in
\* their order: through the pipes chosen at shell.c:541-594 and the copies of 491-526.
\* Except when the copy buffer was exceeded, after > in the stage before, or with < and >.
Routed ==
    \A j \in Jobs : \A i \in DOMAIN job[j].got :
        LET r == job[j] IN
        /\ r.got[i] # None /\ Fits(r.cmds)
        /\ r.cmds[i].redirect # "both"
        /\ \A m \in DOMAIN Before(r.cmds, i) : ~ToFile(r.cmds[Before(r.cmds, i)[m]])
        => r.got[i] = Owed(r, i)

\* A job whose outputs fit the pipes and the copy buffer ends, and the shell does not wait
\* for it any more: every reader gets to the end of its input (shell.c:635), though each
\* command runs before its reader is there (shell.c:641).
Finishes ==
    \A j \in Jobs : job[j].pc = "new" /\ Fits(job[j].cmds) ~>
        job[j].pc = "done" /\ ~(sh = "waiting" /\ cur = j)

\* At the prompt the shell is the foreground group again: "Upon completion of the command,
\* the foreground control is given back to the main process" (README.md:20).
ControlBack == sh = "prompt" => term = ShellGroup

\* The same, and the shell is never stopped, unless a leader took the terminal before the
\* shell gave it (shell.c:667).
ControlBackUnlessRaced == raced = {} => ControlBack /\ ~stopped

\* find_in_map finds what the user stored last under a number and has not deleted, whatever
\* numbers share its bucket (hash_map.c:130-190).
MapFaithful == \A k \in Indices : FindInMap(k) = stored[k]
=============================================================================
