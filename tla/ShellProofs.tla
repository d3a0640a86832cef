---------------------------- MODULE ShellProofs ----------------------------
(***************************************************************************)
(* Theorems about Shell, for every number of jobs, every set of lines and  *)
(* every size of the table: who has the terminal, and what the table of    *)
(* short-cuts finds.                                                       *)
(*                                                                         *)
(* The terminal goes round between the shell and one foreground job as     *)
(* long as no leader takes it before the shell gives it (TermInv).  The    *)
(* chains hold each number once, in the bucket of its hash, with the       *)
(* pipeline that the user stored last (Chains, Matches).                   *)
(***************************************************************************)
EXTENDS Shell, SeqLemmas

\* What a record of job always has, and the jobs that are not started yet.
Fields == {"pc", "bg", "home"}
JobInv ==
    /\ DOMAIN job = Jobs /\ \A j \in Jobs : Fields \subseteq DOMAIN job[j]
    /\ cur \in 0 .. MaxJobs
    /\ \A j \in Jobs : job[j].pc = "none" <=> j > cur
    /\ sh \in {"forked", "waiting"} => cur \in Jobs /\ ~job[cur].bg

\* A foreground leader that has not finished.
Foreground(j) == ~job[j].bg /\ job[j].pc \notin {"none", "done"}

\* As long as no leader has overtaken the shell, the shell has the terminal until it gives
\* it to the one foreground job, and has it back when that job is done.
TermInv == raced = {} =>
    /\ ~stopped
    /\ sh \in {"prompt", "asking", "forked"} => term = ShellGroup
    /\ sh = "forked" => job[cur].pc = "new"
    /\ sh = "waiting" /\ job[cur].pc = "done" => term = ShellGroup
    /\ \A j \in Jobs : Foreground(j) => j = cur /\ sh \in {"forked", "waiting"}
    /\ \A j \in Jobs : job[j].pc # "none" => job[j].home = ShellGroup

Pipelines == [stages : Seq(Seq(Command)), bg : BOOLEAN]
Node == [key : Indices, pipe : Pipelines]
Hashes == 0 .. MapSize - 1

\* A chain holds a number once, and only numbers that hash to it.
Chains(b) ==
    /\ b \in [Hashes -> Seq(Node)]
    /\ \A h \in Hashes :
           /\ IsInjective(b[h])
           /\ \A x \in ToSet(b[h]) : /\ x.key % MapSize = h
                                     /\ \A y \in ToSet(b[h]) : x.key = y.key => x = y

\* A number is in its chain exactly when the user has stored it, with what was stored.
Matches(b, st) ==
    /\ st \in [Indices -> Pipelines \cup {None}]
    /\ \A k \in Indices :
           /\ \A x \in ToSet(b[k % MapSize]) : x.key = k => st[k] = x.pipe
           /\ st[k] # None => \E x \in ToSet(b[k % MapSize]) : x.key = k

\* The line a question is about replaces a number that is in use.
AskInv == sh = "asking" => line \in Lines /\ line.kind = "insert" /\ stored[line.idx] # None

Control == JobInv /\ TermInv
MapInv == Chains(buckets) /\ Matches(buckets, stored) /\ AskInv
IInv == setup \in Setups /\ Control /\ MapInv
-----------------------------------------------------------------------------
(* The terminal.                                                           *)

\* Steps of a leader or its child that leave the terminal alone.
LEMMA InnerSteps ==
    ASSUME JobInv, NEW j \in Jobs,
           Fork(j) \/ CloseEnds(j) \/ Reap(j) \/ Copy(j) \/ Wire(j) \/ RunCommand(j)
    PROVE  /\ UNCHANGED <<sh, stopped, cur, term, raced>>
           /\ DOMAIN job' = Jobs
           /\ \A k \in Jobs : /\ Fields \subseteq DOMAIN job'[k]
                              /\ job'[k].bg = job[k].bg /\ job'[k].home = job[k].home
                              /\ \/ job'[k].pc = job[k].pc
                                 \/ /\ job[k].pc \in {"fork", "close", "wait"}
                                    /\ job'[k].pc \in {"fork", "close", "wait", "back"}
<1>1. ASSUME NEW r, job' = [job EXCEPT ![j] = r], Fields \subseteq DOMAIN r,
             r.bg = job[j].bg, r.home = job[j].home,
             \/ r.pc = job[j].pc
             \/ job[j].pc \in {"fork", "close", "wait"} /\ r.pc \in {"fork", "close", "wait", "back"}
      PROVE  /\ DOMAIN job' = Jobs
             /\ \A k \in Jobs : /\ Fields \subseteq DOMAIN job'[k]
                                /\ job'[k].bg = job[k].bg /\ job'[k].home = job[k].home
                                /\ \/ job'[k].pc = job[k].pc
                                   \/ /\ job[k].pc \in {"fork", "close", "wait"}
                                      /\ job'[k].pc \in {"fork", "close", "wait", "back"}
  BY <1>1 DEF JobInv
<1>2. "pc" \in DOMAIN job[j] /\ "bg" \in DOMAIN job[j] /\ "home" \in DOMAIN job[j]
  BY DEF JobInv, Fields
<1>3. UNCHANGED <<sh, stopped, cur, term, raced>>
  BY DEF Fork, CloseEnds, Reap, Copy, Wire, RunCommand, JobStep
<1>4. CASE Fork(j)
  BY <1>1, <1>2, <1>3, <1>4 DEF Fork, JobStep, Fields
<1>5. CASE CloseEnds(j)
  BY <1>1, <1>2, <1>3, <1>5 DEF CloseEnds, JobStep, Fields
<1>6. CASE Reap(j)
  BY <1>1, <1>2, <1>3, <1>6 DEF Reap, JobStep, Fields
<1>7. CASE Copy(j)
  BY <1>1, <1>2, <1>3, <1>7 DEF Copy, JobStep, Fields
<1>8. CASE Wire(j)
  <2> DEFINE Same(x, y) == DOMAIN x = DOMAIN y /\ x.pc = y.pc /\ x.bg = y.bg /\ x.home = y.home
  <2>1. PICK w : w = WriteFd(job[j].cmds, job[j].i)
    OBVIOUS
  <2>2. PICK opened : opened = [job[j] EXCEPT !.kid = "run", !.kw = {w} \ {0},
                                   !.kin = IF job[j].cmds[job[j].i].redirect = "both" THEN <<0>> ELSE @]
    OBVIOUS
  <2>3. PICK jammed : jammed = [opened EXCEPT !.pipe[w] = Append(@, 0)]
    OBVIOUS
  <2>4. Same(opened, job[j]) /\ Same(jammed, opened)
    BY <1>2, <2>2, <2>3
  <2>5. \/ job' = [job EXCEPT ![j] = [job[j] EXCEPT !.kid = "dead", !.kw = {}]]
        \/ job' = [job EXCEPT ![j] = [job[j] EXCEPT !.kid = "stuck", !.kw = {w}]]
        \/ job' = [job EXCEPT ![j] = jammed]
        \/ job' = [job EXCEPT ![j] = opened]
    <3>1. PICK c : c = job[j].cmds[job[j].i]
      OBVIOUS
    <3>2. CASE c.redirect = "in"
      BY <1>8, <2>1, <2>2, <2>3, <3>1, <3>2 DEF Wire, JobStep, ToFile
    <3>3. CASE c.redirect # "in" /\ ToFile(c) /\ w # 0
      BY <1>8, <2>1, <2>2, <2>3, <3>1, <3>3 DEF Wire, JobStep
    <3>4. CASE c.redirect # "in" /\ ~(ToFile(c) /\ w # 0)
      BY <1>8, <2>1, <2>2, <3>1, <3>4 DEF Wire, JobStep
    <3> QED BY <3>2, <3>3, <3>4
  <2>6. PICK r : /\ Same(r, job[j]) /\ job' = [job EXCEPT ![j] = r]
    <3>1. /\ Same([job[j] EXCEPT !.kid = "dead", !.kw = {}], job[j])
          /\ Same([job[j] EXCEPT !.kid = "stuck", !.kw = {w}], job[j])
      BY <1>2
    <3>2. Same(jammed, job[j])
      BY <2>4
    <3> HIDE DEF Same
    <3> QED BY <2>4, <2>5, <3>1, <3>2
  <2>7. Fields \subseteq DOMAIN r
    BY <2>6, <1>2 DEF Fields
  <2> QED BY <1>1, <1>3, <2>6, <2>7
<1>9. CASE RunCommand(j)
  <2> DEFINE Same(x, y) == DOMAIN x = DOMAIN y /\ x.pc = y.pc /\ x.bg = y.bg /\ x.home = y.home
  <2>1. \E inputs, pipes : \E ends, wrote :
          LET read == [job[j] EXCEPT !.got = inputs, !.pipe = pipes]
          IN  \/ job' = [job EXCEPT ![j] = [read EXCEPT !.kid = "dead", !.kw = {}]]
              \/ job' = [job EXCEPT ![j] = [read EXCEPT !.kid = "full"]]
              \/ job' = [job EXCEPT ![j] = [read EXCEPT !.kid = "dead", !.kw = {}, !.pipe = ends, !.wrote = wrote]]
    BY <1>9 DEF RunCommand, JobStep
  <2>2. PICK read, r : Same(read, job[j]) /\ Same(r, read) /\ job' = [job EXCEPT ![j] = r]
    BY <1>2, <2>1
  <2>3. Same(r, job[j])
    BY <2>2
  <2>4. Fields \subseteq DOMAIN r
    BY <2>3, <1>2 DEF Fields
  <2> QED BY <1>1, <1>3, <2>2, <2>3, <2>4
<1> QED BY <1>4, <1>5, <1>6, <1>7, <1>8, <1>9

\* They keep who is in the foreground.
LEMMA InnerInv ==
    ASSUME Control, NEW j \in Jobs,
           Fork(j) \/ CloseEnds(j) \/ Reap(j) \/ Copy(j) \/ Wire(j) \/ RunCommand(j)
    PROVE  Control'
<1>1. /\ UNCHANGED <<sh, stopped, cur, term, raced>>
      /\ DOMAIN job' = Jobs
      /\ \A k \in Jobs : /\ Fields \subseteq DOMAIN job'[k]
                         /\ job'[k].bg = job[k].bg /\ job'[k].home = job[k].home
                         /\ \/ job'[k].pc = job[k].pc
                            \/ /\ job[k].pc \in {"fork", "close", "wait"}
                               /\ job'[k].pc \in {"fork", "close", "wait", "back"}
  BY InnerSteps DEF Control
<1>2. JobInv'
  BY <1>1 DEF Control, JobInv
<1>3. TermInv'
  BY <1>1 DEF Control, JobInv, TermInv, Foreground
<1> QED BY <1>2, <1>3 DEF Control

\* The leader takes the terminal, and gives it back.
LEMMA TerminalSteps ==
    ASSUME Control, NEW j \in Jobs, Lead(j) \/ HandBack(j)
    PROVE  Control'
<1>1. "pc" \in DOMAIN job[j] /\ "bg" \in DOMAIN job[j] /\ "home" \in DOMAIN job[j]
  BY DEF Control, JobInv, Fields
<1>2. /\ UNCHANGED <<sh, stopped, cur>>
      /\ \/ /\ job[j].pc = "new" /\ job'[j].pc = "fork"
            /\ term' = IF job[j].bg THEN term ELSE j
            /\ raced' = IF ~job[j].bg /\ sh = "forked" THEN raced \cup {j} ELSE raced
         \/ /\ job[j].pc = "back" /\ job'[j].pc = "done" /\ raced' = raced
            /\ term' = IF job[j].bg THEN term ELSE job[j].home
      /\ DOMAIN job' = Jobs
      /\ \A k \in Jobs : /\ Fields \subseteq DOMAIN job'[k]
                         /\ job'[k].bg = job[k].bg /\ job'[k].home = job[k].home
                         /\ k # j => job'[k].pc = job[k].pc
  <2>1. CASE Lead(j)
    BY <1>1, <2>1 DEF Lead, JobStep, Control, JobInv, Fields
  <2>2. CASE HandBack(j)
    BY <1>1, <2>2 DEF HandBack, JobStep, Control, JobInv, Fields
  <2> QED BY <2>1, <2>2
<1>3. JobInv'
  BY <1>2 DEF Control, JobInv
<1>4. TermInv'
  <2> SUFFICES ASSUME raced' = {}
               PROVE  TermInv'
    BY DEF TermInv
  <2>1. raced = {}
    BY <1>2
  <2>2. CASE job[j].bg
    BY <1>2, <2>1, <2>2 DEF Control, JobInv, TermInv, Foreground
  <2>3. CASE ~job[j].bg
    <3>1. j = cur /\ Foreground(j)
      BY <1>2, <2>1, <2>3 DEF Control, TermInv, Foreground
    <3>2. sh = "waiting"
      BY <1>2, <2>1, <2>3, <3>1 DEF Control, TermInv
    <3> QED BY <1>2, <2>1, <2>3, <3>1, <3>2 DEF Control, JobInv, TermInv, Foreground
  <2> QED BY <2>2, <2>3
<1> QED BY <1>3, <1>4 DEF Control

\* A job is started from the prompt, where the shell has the terminal.
LEMMA StartSteps ==
    ASSUME Control, AtPrompt, NEW stages, NEW bg \in BOOLEAN, ExecuteCmdPipe(stages, bg),
           UNCHANGED <<stopped, term, raced>>
    PROVE  Control'
<1>1. cur \in 0 .. MaxJobs /\ MaxJobs \in Nat /\ cur < MaxJobs
  BY ShellAssumption DEF Control, JobInv, ExecuteCmdPipe
<1>2. cur + 1 \in Jobs /\ cur' = cur + 1 /\ \A j \in Jobs : j > cur + 1 <=> j > cur /\ j # cur + 1
  BY <1>1 DEF Jobs, ExecuteCmdPipe
<1>3. /\ DOMAIN job' = Jobs /\ \A j \in Jobs : j # cur + 1 => job'[j] = job[j]
      /\ Fields \subseteq DOMAIN job'[cur + 1] /\ job'[cur + 1].pc = "new"
      /\ job'[cur + 1].bg = bg /\ job'[cur + 1].home = term
  BY <1>2 DEF ExecuteCmdPipe, Control, JobInv, NoJob, Fields
<1>4. sh = "prompt" /\ term = ShellGroup /\ sh' = IF bg THEN "prompt" ELSE "forked"
  BY DEF AtPrompt, ExecuteCmdPipe, Loop
<1>5. JobInv'
  BY <1>1, <1>2, <1>3, <1>4 DEF Control, JobInv
<1>6. TermInv'
  <2> SUFFICES ASSUME raced = {}
               PROVE  TermInv'
    BY DEF TermInv
  <2>1. \A j \in Jobs : ~Foreground(j)
    BY <1>4 DEF Control, TermInv
  <2> QED BY <1>2, <1>3, <1>4, <2>1 DEF Control, JobInv, TermInv, Foreground
<1> QED BY <1>5, <1>6 DEF Control

\* Steps at the prompt that start nothing.
LEMMA PromptSteps ==
    ASSUME Control, sh \in {"prompt", "asking"}, sh' \in {"prompt", "asking", "exited"},
           UNCHANGED <<cur, job, stopped, term, raced>>
    PROVE  Control'
BY DEF Control, JobInv, TermInv, Foreground

\* What the shell and who started it do with the terminal, and Ctrl+C.
LEMMA OuterSteps ==
    ASSUME Control, GiveTerminal \/ Wait \/ ReadInBackground \/ Resume \/ CtrlC
    PROVE  Control'
<1>1. CASE GiveTerminal
  <2>1. sh' \in {sh, "waiting"} /\ sh = "forked" /\ UNCHANGED <<cur, job, raced>>
        /\ \/ term = ShellGroup /\ sh' = "waiting" /\ stopped' = stopped
           \/ term # ShellGroup
    BY <1>1 DEF GiveTerminal
  <2>2. JobInv'
    BY <2>1 DEF Control, JobInv
  <2>3. TermInv'
    BY <2>1 DEF Control, TermInv, Foreground
  <2> QED BY <2>2, <2>3 DEF Control
<1>2. CASE Wait
  <2>1. /\ sh' = "prompt" /\ sh = "waiting" /\ job[cur].pc = "done"
        /\ UNCHANGED <<cur, job, raced, stopped, term>>
    BY <1>2 DEF Wait, Loop
  <2>2. JobInv'
    BY <2>1 DEF Control, JobInv
  <2>3. TermInv'
    BY <2>1 DEF Control, TermInv, Foreground
  <2> QED BY <2>2, <2>3 DEF Control
<1>3. CASE ReadInBackground \/ Resume
  BY <1>3 DEF ReadInBackground, Resume, Control, JobInv, TermInv, Foreground
<1>4. CASE CtrlC
  <2>1. /\ UNCHANGED <<sh, cur, raced, stopped, term>>
        /\ DOMAIN job' = Jobs
        /\ \A k \in Jobs : /\ Fields \subseteq DOMAIN job'[k]
                           /\ job'[k].bg = job[k].bg /\ job'[k].home = job[k].home
                           /\ job'[k].pc = job[k].pc
    BY <1>4 DEF CtrlC, Control, JobInv, Fields
  <2>2. JobInv'
    BY <2>1 DEF Control, JobInv
  <2>3. TermInv'
    BY <2>1 DEF Control, JobInv, TermInv, Foreground
  <2> QED BY <2>2, <2>3 DEF Control
<1> QED BY <1>1, <1>2, <1>3, <1>4
-----------------------------------------------------------------------------
(* The table of short-cuts.                                                *)

\* Every number has a bucket, and no pipeline is taken for "nothing stored".
LEMMA TableFacts ==
    /\ \A k \in Indices : k \in Nat /\ k % MapSize \in Hashes
    /\ None \notin Pipelines
    /\ \A l \in Lines : l.idx \in Indices /\ l.bg \in BOOLEAN
                        /\ [stages |-> l.stages, bg |-> l.bg] \in Pipelines
<1>1. MapSize \in Nat \ {0} /\ Lines \subseteq Line /\ None \notin Pipelines
  BY ShellAssumption DEF Pipelines
<1>2. \A l \in Lines : /\ l.idx \in Indices /\ l.idx \in Nat /\ l.bg \in BOOLEAN
                       /\ l.stages \in Seq(Seq(Command))
  BY <1>1 DEF Indices, Line
<1>3. \A k \in Indices : k \in Nat
  BY <1>2 DEF Indices
<1>4. \A k \in Nat : k % MapSize \in 0 .. MapSize - 1
  BY <1>1
<1> QED BY <1>1, <1>2, <1>3, <1>4 DEF Hashes, Pipelines

\* What is found is what the user stored.
LEMMA FindFacts ==
    ASSUME Chains(buckets), Matches(buckets, stored), NEW k \in Indices
    PROVE  FindInMap(k) = stored[k]
<1> DEFINE hits == {n \in DOMAIN Bucket(k) : Bucket(k)[n].key = k}
<1>1. Bucket(k) \in Seq(Node) /\ IsInjective(Bucket(k))
      /\ \A x, y \in ToSet(Bucket(k)) : x.key = y.key => x = y
  BY TableFacts DEF Bucket, Chains
<1>2. /\ \A n \in 1 .. Len(Bucket(k)) : Bucket(k)[n] \in ToSet(Bucket(k))
      /\ \A x \in ToSet(Bucket(k)) : \E n \in 1 .. Len(Bucket(k)) : Bucket(k)[n] = x
      /\ DOMAIN Bucket(k) = 1 .. Len(Bucket(k))
      /\ \A i, j \in 1 .. Len(Bucket(k)) : Bucket(k)[i] = Bucket(k)[j] => i = j
      /\ ToSet(Bucket(k)) \subseteq Node
  BY <1>1, ToSetDef, InjectiveDef
<1>3. \A m, n \in hits : m = n
  BY <1>1, <1>2
<1>4. CASE hits = {}
  <2>1. FindInMap(k) = None
    BY <1>4 DEF FindInMap
  <2>2. \A x \in ToSet(Bucket(k)) : x.key # k
    BY <1>2, <1>4
  <2> QED BY <2>1, <2>2 DEF Matches, Bucket
<1>5. CASE hits # {}
  <2>1. PICK n \in hits : TRUE
    BY <1>5
  <2>2. (CHOOSE m \in hits : \A o \in hits : m <= o) = n
    <3>1. \A o \in hits : n <= o
      <4>1. n \in Int
        BY <1>2, <2>1
      <4> QED BY <1>3, <2>1, <4>1
    <3>2. \E m \in hits : \A o \in hits : m <= o
      BY <2>1, <3>1
    <3>3. (CHOOSE m \in hits : \A o \in hits : m <= o) \in hits
      <4> HIDE DEF hits
      <4> QED BY <3>2
    <3> QED BY <1>3, <2>1, <3>3
  <2>3. FindInMap(k) = Bucket(k)[n].pipe
    BY <1>5, <2>2 DEF FindInMap
  <2>4. Bucket(k)[n] \in ToSet(Bucket(k)) /\ Bucket(k)[n].key = k
    BY <1>2, <2>1
  <2> QED BY <2>3, <2>4 DEF Matches, Bucket
<1> QED BY <1>4, <1>5

\* insert_into_bucket, for a number that is not in use.
LEMMA InsertFacts ==
    ASSUME NEW b, NEW st, Chains(b), Matches(b, st), NEW k \in Indices, NEW p \in Pipelines,
           st[k] = None
    PROVE  Chains(InsertIntoMap(b, k, p)) /\ Matches(InsertIntoMap(b, k, p), [st EXCEPT ![k] = p])
<1> DEFINE h == k % MapSize
           e == [key |-> k, pipe |-> p]
           r == InsertIntoMap(b, k, p)
<1>1. h \in Hashes /\ k \in Nat /\ None \notin Pipelines
  BY TableFacts
<1>2. e \in Node /\ e.key = k /\ e.pipe = p
  BY DEF Node
<1>3. /\ b \in [Hashes -> Seq(Node)] /\ b[h] \in Seq(Node) /\ IsInjective(b[h])
      /\ ToSet(b[h]) \subseteq Node
  BY <1>1, ToSetDef DEF Chains
<1>4. \A x \in ToSet(b[h]) : x.key # k
  BY <1>1, <1>3 DEF Matches, Node
<1> HIDE DEF e, h
<1>5. <<e>> \o b[h] \in Seq(Node) /\ ToSet(<<e>> \o b[h]) = ToSet(b[h]) \cup {e}
      /\ IsInjective(<<e>> \o b[h])
  BY <1>2, <1>3, <1>4, PushMembers
<1>6. r = [b EXCEPT ![h] = <<e>> \o b[h]]
  BY DEF InsertIntoMap, e, h
<1> HIDE DEF r
<1>7. /\ r \in [Hashes -> Seq(Node)] /\ r[h] = <<e>> \o b[h]
      /\ \A g \in Hashes : g # h => r[g] = b[g]
  BY <1>1, <1>3, <1>5, <1>6
<1>8. Chains(r)
  <2> SUFFICES ASSUME NEW g \in Hashes
               PROVE  /\ IsInjective(r[g])
                      /\ \A x \in ToSet(r[g]) : x.key % MapSize = g
                      /\ \A x, y \in ToSet(r[g]) : x.key = y.key => x = y
    BY <1>7 DEF Chains
  <2>1. CASE g # h
    BY <1>7, <2>1 DEF Chains
  <2>2. CASE g = h
    <3>1. k % MapSize = h
      BY DEF h
    <3>2. ToSet(r[g]) = ToSet(b[h]) \cup {e} /\ IsInjective(r[g])
      BY <1>5, <1>7, <2>2
    <3>3. \A x \in ToSet(r[g]) : x.key % MapSize = g
      BY <1>1, <1>2, <2>2, <3>1, <3>2 DEF Chains
    <3>4. \A x, y \in ToSet(b[h]) : x.key = y.key => x = y
      BY <1>1 DEF Chains
    <3>5. \A x, y \in ToSet(r[g]) : x.key = y.key => x = y
      BY <1>2, <1>4, <3>2, <3>4
    <3> QED BY <3>2, <3>3, <3>5
  <2> QED BY <2>1, <2>2
<1>9. Matches(r, [st EXCEPT ![k] = p])
  <2> DEFINE new == [st EXCEPT ![k] = p]
  <2>1. /\ new \in [Indices -> Pipelines \cup {None}] /\ new[k] = p
        /\ \A j \in Indices : j # k => new[j] = st[j]
    BY DEF Matches
  <2> HIDE DEF new
  <2>2. ASSUME NEW j \in Indices
        PROVE  /\ \A x \in ToSet(r[j % MapSize]) : x.key = j => new[j] = x.pipe
               /\ new[j] # None => \E x \in ToSet(r[j % MapSize]) : x.key = j
    <3>1. j % MapSize \in Hashes
      BY TableFacts
    <3>2. CASE j % MapSize # h
      <4>1. r[j % MapSize] = b[j % MapSize] /\ j # k
        BY <1>7, <3>1, <3>2 DEF h
      <4> QED BY <2>1, <4>1 DEF Matches
    <3>3. CASE j % MapSize = h
      <4>1. ToSet(r[j % MapSize]) = ToSet(b[j % MapSize]) \cup {e}
        BY <1>5, <1>7, <3>3
      <4>2. CASE j = k
        BY <1>2, <1>4, <2>1, <3>3, <4>1, <4>2
      <4>3. CASE j # k
        BY <1>2, <2>1, <4>1, <4>3 DEF Matches
      <4> QED BY <4>2, <4>3
    <3> QED BY <3>2, <3>3
  <2> QED BY <2>1, <2>2 DEF Matches, new
<1> QED BY <1>8, <1>9 DEF r

\* delete_from_bucket, for a number that is in use.
LEMMA DeleteFacts ==
    ASSUME NEW b, NEW st, Chains(b), Matches(b, st), NEW k \in Indices, st[k] # None
    PROVE  Chains(DeleteFromMap(b, k)) /\ Matches(DeleteFromMap(b, k), [st EXCEPT ![k] = None])
<1> DEFINE h == k % MapSize
           r == DeleteFromMap(b, k)
<1>1. h \in Hashes /\ k \in Nat /\ None \notin Pipelines
  BY TableFacts
<1>3. /\ b \in [Hashes -> Seq(Node)] /\ b[h] \in Seq(Node) /\ IsInjective(b[h])
      /\ \A x, y \in ToSet(b[h]) : x.key = y.key => x = y
  BY <1>1 DEF Chains
<1>4. PICK n \in 1 .. Len(b[h]) :
          /\ b[h][n].key = k
          /\ r = [b EXCEPT ![h] = RemoveAt(b[h], n)]
  <2> DEFINE P(n) == b[h][n].key = k /\ \A m \in 1 .. n - 1 : b[h][m].key # k
  <2>1. \E n \in 1 .. Len(b[h]) : P(n)
    <3>1. PICK x \in ToSet(b[h]) : x.key = k
      BY DEF Matches
    <3>2. PICK n \in 1 .. Len(b[h]) : b[h][n] = x
      BY <1>3, <3>1, ToSetDef
    <3>3. ASSUME NEW m \in 1 .. n - 1, b[h][m].key = k
          PROVE  FALSE
      <4>1. m \in 1 .. Len(b[h]) /\ m # n
        BY <1>3, <3>2, <3>3
      <4>2. b[h][m] \in ToSet(b[h])
        BY <1>3, <4>1, ToSetDef
      <4>3. b[h][m] = b[h][n]
        BY <1>3, <3>1, <3>2, <3>3, <4>2
      <4> QED BY <1>3, <4>1, <4>3, InjectiveDef
    <3> QED BY <3>1, <3>2, <3>3
  <2>2. DOMAIN b[h] = 1 .. Len(b[h])
    BY <1>3
  <2>3. r = [b EXCEPT ![h] = RemoveAt(b[h], CHOOSE n \in DOMAIN b[h] : P(n))]
    BY DEF DeleteFromMap
  <2>4. \E n \in DOMAIN b[h] : P(n)
    BY <2>1, <2>2
  <2>5. (CHOOSE n \in DOMAIN b[h] : P(n)) \in DOMAIN b[h] /\ P(CHOOSE n \in DOMAIN b[h] : P(n))
    <3> HIDE DEF P
    <3> QED BY <2>4
  <2> QED BY <2>2, <2>3, <2>5
<1> HIDE DEF r, h
<1>5. PICK e : e = b[h][n]
  OBVIOUS
<1>6. /\ RemoveAt(b[h], n) \in Seq(Node) /\ IsInjective(RemoveAt(b[h], n))
      /\ ToSet(RemoveAt(b[h], n)) = ToSet(b[h]) \ {e}
      /\ e \in ToSet(b[h]) /\ e.key = k
  BY <1>3, <1>4, <1>5, RemoveAtPositions, RemoveAtMembers, ToSetDef
<1>7. /\ r \in [Hashes -> Seq(Node)] /\ r[h] = RemoveAt(b[h], n)
      /\ \A g \in Hashes : g # h => r[g] = b[g]
  BY <1>1, <1>3, <1>4, <1>6
<1>8. Chains(r)
  <2> SUFFICES ASSUME NEW g \in Hashes
               PROVE  /\ IsInjective(r[g])
                      /\ \A x \in ToSet(r[g]) : x.key % MapSize = g
                      /\ \A x, y \in ToSet(r[g]) : x.key = y.key => x = y
    BY <1>7 DEF Chains
  <2>1. IsInjective(r[g]) /\ ToSet(r[g]) \subseteq ToSet(b[g])
    BY <1>6, <1>7 DEF Chains
  <2> QED BY <2>1 DEF Chains
<1>9. Matches(r, [st EXCEPT ![k] = None])
  <2> DEFINE new == [st EXCEPT ![k] = None]
  <2>1. /\ new \in [Indices -> Pipelines \cup {None}] /\ new[k] = None
        /\ \A j \in Indices : j # k => new[j] = st[j]
    BY DEF Matches
  <2> HIDE DEF new
  <2>2. ASSUME NEW j \in Indices
        PROVE  /\ \A x \in ToSet(r[j % MapSize]) : x.key = j => new[j] = x.pipe
               /\ new[j] # None => \E x \in ToSet(r[j % MapSize]) : x.key = j
    <3>1. j % MapSize \in Hashes
      BY TableFacts
    <3>2. CASE j % MapSize # h
      <4>1. r[j % MapSize] = b[j % MapSize] /\ j # k
        BY <1>7, <3>1, <3>2 DEF h
      <4> QED BY <2>1, <4>1 DEF Matches
    <3>3. CASE j % MapSize = h
      <4>1. ToSet(r[j % MapSize]) = ToSet(b[j % MapSize]) \ {e}
        BY <1>6, <1>7, <3>3
      <4>2. CASE j = k
        BY <1>3, <1>6, <2>1, <3>3, <4>1, <4>2
      <4>3. CASE j # k
        BY <1>6, <2>1, <4>1, <4>3 DEF Matches
      <4> QED BY <4>2, <4>3
    <3> QED BY <3>2, <3>3
  <2> QED BY <2>1, <2>2 DEF Matches, new
<1> QED BY <1>8, <1>9 DEF r

\* The steps that change the table.
LEMMA TableSteps ==
    ASSUME IInv, (\E l \in setup.lines : Insert(l) \/ Delete(l)) \/ (\E yes \in BOOLEAN : Answer(yes)),
           sh \in {"prompt", "asking"}
    PROVE  MapInv' /\ sh' \in {"prompt", "asking", "exited"}
<1>1. Chains(buckets) /\ Matches(buckets, stored)
  BY DEF IInv, MapInv
<1>2. \A l \in setup.lines : l \in Lines
  BY ShellAssumption DEF IInv, Setup
<1>3. ASSUME NEW l \in setup.lines, Insert(l)
      PROVE  MapInv' /\ sh' \in {"prompt", "asking", "exited"}
  <2>1. l \in Lines /\ l.idx \in Indices /\ [stages |-> l.stages, bg |-> l.bg] \in Pipelines
    BY <1>2, TableFacts
  <2>2. FindInMap(l.idx) = stored[l.idx]
    BY <1>1, <2>1, FindFacts
  <2>3. CASE FindInMap(l.idx) # None
    BY <1>1, <1>3, <2>1, <2>2, <2>3 DEF Insert, MapInv, AskInv, mapVars
  <2>4. CASE FindInMap(l.idx) = None
    <3>1. /\ buckets' = InsertIntoMap(buckets, l.idx, [stages |-> l.stages, bg |-> l.bg])
          /\ stored' = [stored EXCEPT ![l.idx] = [stages |-> l.stages, bg |-> l.bg]]
          /\ sh' = "prompt"
      BY <1>3, <2>4 DEF Insert, Loop
    <3>2. Chains(buckets') /\ Matches(buckets', stored')
      BY <1>1, <2>1, <2>2, <2>4, <3>1, InsertFacts
    <3> QED BY <3>1, <3>2 DEF MapInv, AskInv
  <2> QED BY <2>3, <2>4
<1>4. ASSUME NEW l \in setup.lines, Delete(l)
      PROVE  MapInv' /\ sh' \in {"prompt", "asking", "exited"}
  <2>1. l.idx \in Indices
    BY <1>2, TableFacts
  <2>2. FindInMap(l.idx) = stored[l.idx]
    BY <1>1, <2>1, FindFacts
  <2>3. CASE FindInMap(l.idx) = None
    BY <1>1, <1>4, <2>3 DEF Delete, MapInv, AskInv, mapVars
  <2>4. CASE FindInMap(l.idx) # None
    <3>1. /\ buckets' = DeleteFromMap(buckets, l.idx) /\ sh' = "prompt"
          /\ stored' = [stored EXCEPT ![l.idx] = None]
      BY <1>4, <2>4 DEF Delete, Loop
    <3>2. Chains(buckets') /\ Matches(buckets', stored')
      BY <1>1, <2>1, <2>2, <2>4, <3>1, DeleteFacts
    <3> QED BY <3>1, <3>2 DEF MapInv, AskInv
  <2> QED BY <2>3, <2>4
<1>5. ASSUME NEW yes \in BOOLEAN, Answer(yes)
      PROVE  MapInv' /\ sh' \in {"prompt", "asking", "exited"}
  <2>1. sh = "asking" /\ sh' = "prompt"
    BY <1>5 DEF Answer, Loop
  <2>2. CASE ~yes
    BY <1>1, <1>5, <2>1, <2>2 DEF Answer, MapInv, AskInv, mapVars
  <2>3. CASE yes
    <3> DEFINE k == line.idx
               p == [stages |-> line.stages, bg |-> line.bg]
               without == [stored EXCEPT ![k] = None]
    <3>1. k \in Indices /\ p \in Pipelines /\ stored[k] # None
      BY <2>1, TableFacts DEF IInv, MapInv, AskInv
    <3>2. /\ buckets' = InsertIntoMap(DeleteFromMap(buckets, k), k, p)
          /\ stored' = [stored EXCEPT ![k] = p]
      BY <1>5, <2>3 DEF Answer
    <3> HIDE DEF k, p
    <3>3. Chains(DeleteFromMap(buckets, k)) /\ Matches(DeleteFromMap(buckets, k), without)
      BY <1>1, <3>1, DeleteFacts
    <3>4. without[k] = None /\ [without EXCEPT ![k] = p] = [stored EXCEPT ![k] = p]
      <4>1. stored \in [Indices -> Pipelines \cup {None}]
        BY <1>1 DEF Matches
      <4> QED BY <3>1, <4>1
    <3> HIDE DEF without
    <3>5. Chains(buckets') /\ Matches(buckets', stored')
      BY <3>1, <3>2, <3>3, <3>4, InsertFacts
    <3> QED BY <2>1, <3>5 DEF MapInv, AskInv
  <2> QED BY <2>2, <2>3
<1> QED BY <1>3, <1>4, <1>5

\* The steps that do not.
LEMMA TableFrame ==
    ASSUME MapInv, UNCHANGED mapVars, sh' # "asking" \/ UNCHANGED <<sh, line>>
    PROVE  MapInv'
BY DEF MapInv, AskInv, mapVars
-----------------------------------------------------------------------------
(* The inductive invariant and what it shows.                              *)

\* The beginning.
LEMMA InvInit == Init => IInv
<1> SUFFICES ASSUME Init
             PROVE  IInv
  OBVIOUS
<1>1. Control
  BY ShellAssumption DEF Init, Control, JobInv, TermInv, Foreground, NoJob, Fields, Jobs
<1>2. Chains(buckets)
  <2>1. buckets = [h \in Hashes |-> <<>>]
    BY DEF Init, Hashes
  <2>2. ToSet(<<>>) = {} /\ IsInjective(<<>>) /\ <<>> \in Seq(Node)
    BY DEF ToSet, IsInjective
  <2> QED BY <2>1, <2>2 DEF Chains
<1>3. Matches(buckets, stored)
  <2>1. \A k \in Indices : buckets[k % MapSize] = <<>>
    BY TableFacts DEF Init, Hashes
  <2>2. ToSet(<<>>) = {}
    BY DEF ToSet
  <2> QED BY <2>1, <2>2 DEF Init, Matches
<1> QED BY <1>1, <1>2, <1>3 DEF Init, IInv, MapInv, AskInv

\* The user's steps.
LEMMA UserSteps ==
    ASSUME IInv, User
    PROVE  Control' /\ MapInv'
<1>1. ASSUME NEW l \in setup.lines, Type(l)
      PROVE  Control' /\ MapInv'
  <2>1. AtPrompt /\ sh = "prompt" /\ UNCHANGED <<stopped, term, raced>>
    BY <1>1 DEF Type, AtPrompt
  <2>2. CASE RunLine(l)
    <3>1. ExecuteCmdPipe(l.stages, l.bg) /\ UNCHANGED <<line, mapVars>>
      BY <2>2 DEF RunLine
    <3>2. l.bg \in BOOLEAN
      BY TableFacts, ShellAssumption DEF IInv, Setup
    <3>3. Control'
      BY <2>1, <3>1, <3>2, StartSteps DEF IInv
    <3>4. sh' # "asking"
      BY <3>1 DEF ExecuteCmdPipe, Loop
    <3> QED BY <3>1, <3>3, <3>4, TableFrame DEF IInv
  <2>3. CASE Insert(l) \/ Delete(l)
    <3>1. MapInv' /\ sh' \in {"prompt", "asking", "exited"}
      BY <2>1, <2>3, TableSteps
    <3>2. UNCHANGED <<cur, job>>
      BY <2>3 DEF Insert, Delete
    <3> QED BY <2>1, <3>1, <3>2, PromptSteps DEF IInv
  <2>4. CASE Exit(l)
    <3>1. sh' = "exited" /\ UNCHANGED <<cur, job, mapVars>>
      BY <2>4 DEF Exit
    <3> QED BY <2>1, <3>1, PromptSteps, TableFrame DEF IInv
  <2> QED BY <1>1, <2>2, <2>3, <2>4 DEF Type
<1>2. ASSUME NEW k \in Indices, TypeIndex(k)
      PROVE  Control' /\ MapInv'
  <2>1. AtPrompt /\ sh = "prompt" /\ UNCHANGED <<stopped, term, raced, mapVars>>
    BY <1>2 DEF TypeIndex, AtPrompt
  <2>2. ASSUME FindInMap(k) # None, ExecuteCmdPipe(FindInMap(k).stages, FindInMap(k).bg)
        PROVE  Control' /\ MapInv'
    <3>1. FindInMap(k) = stored[k]
      BY FindFacts DEF IInv, MapInv
    <3>2. FindInMap(k).bg \in BOOLEAN
      BY <2>2, <3>1 DEF IInv, MapInv, Matches, Pipelines
    <3>3. sh' # "asking"
      BY <2>2 DEF ExecuteCmdPipe, Loop
    <3> QED BY <2>1, <2>2, <3>2, <3>3, StartSteps, TableFrame DEF IInv
  <2>3. ASSUME sh' \in {"prompt", "exited"}, UNCHANGED <<cur, job>>
        PROVE  Control' /\ MapInv'
    BY <2>1, <2>3, PromptSteps, TableFrame DEF IInv
  <2> QED BY <1>2, <2>2, <2>3 DEF TypeIndex, Loop
<1>3. ASSUME NEW yes \in BOOLEAN, Answer(yes)
      PROVE  Control' /\ MapInv'
  <2>1. sh = "asking" /\ UNCHANGED <<cur, job, stopped, term, raced>>
    BY <1>3 DEF Answer
  <2>2. MapInv' /\ sh' \in {"prompt", "asking", "exited"}
    BY <1>3, <2>1, TableSteps
  <2> QED BY <2>1, <2>2, PromptSteps DEF IInv
<1>4. CASE CtrlC \/ Resume
  <2>1. UNCHANGED <<sh, line, mapVars>>
    BY <1>4 DEF CtrlC, Resume
  <2> QED BY <1>4, <2>1, OuterSteps, TableFrame DEF IInv
<1> QED BY <1>1, <1>2, <1>3, <1>4 DEF User

\* Every step.
LEMMA InvStep == IInv /\ [Next]_vars => IInv'
<1> SUFFICES ASSUME IInv, [Next]_vars
             PROVE  IInv'
  OBVIOUS
<1>1. setup' = setup
  BY DEF Next, User, ShellStep, Job, Type, TypeIndex, Answer, CtrlC, Resume, GiveTerminal, Wait,
         ReadInBackground, Lead, Fork, CloseEnds, Reap, HandBack, Copy, Wire, RunCommand, JobStep, vars
<1>2. CASE User
  BY <1>1, <1>2, UserSteps DEF IInv
<1>3. CASE ShellStep
  <2>1. UNCHANGED mapVars /\ (sh' # "asking" \/ UNCHANGED <<sh, line>>)
    BY <1>3 DEF ShellStep, GiveTerminal, Wait, ReadInBackground, Loop
  <2> QED BY <1>1, <1>3, <2>1, OuterSteps, TableFrame DEF IInv, ShellStep
<1>4. ASSUME NEW j \in Jobs, Job(j)
      PROVE  IInv'
  <2>1. UNCHANGED <<sh, line, mapVars>>
    BY <1>4 DEF Job, Lead, Fork, CloseEnds, Reap, HandBack, Copy, Wire, RunCommand, JobStep
  <2> QED BY <1>1, <1>4, <2>1, InnerInv, TerminalSteps, TableFrame DEF IInv, Job
<1>5. CASE UNCHANGED vars
  <2>1. UNCHANGED <<sh, line, mapVars, cur, job, stopped, term, raced>>
    BY <1>5 DEF vars
  <2>2. Control'
    BY <2>1 DEF IInv, Control, JobInv, TermInv, Foreground
  <2> QED BY <1>1, <2>1, <2>2, TableFrame DEF IInv
<1> QED BY <1>2, <1>3, <1>4, <1>5 DEF Next

\* IInv is inductive: one foreground job at a time between the shell and the terminal, and
\* every number once in its chain.
THEOREM InvHolds == Spec => []IInv
<1> QED BY InvInit, InvStep, PTL DEF Spec

\* The shell is never stopped, and has the terminal back at every prompt, as long as no
\* leader has taken the terminal before the shell gave it.
THEOREM ControlBackUnlessRacedHolds == Spec => []ControlBackUnlessRaced
<1>1. IInv => ControlBackUnlessRaced
  BY DEF IInv, Control, TermInv, ControlBackUnlessRaced, ControlBack
<1> QED BY <1>1, InvHolds, PTL

\* find_in_map finds what the user stored last under a number and has not deleted, in a
\* table of any size.
THEOREM MapFaithfulHolds == Spec => []MapFaithful
<1>1. IInv => MapFaithful
  BY FindFacts DEF IInv, MapInv, MapFaithful
<1> QED BY <1>1, InvHolds, PTL
=============================================================================
