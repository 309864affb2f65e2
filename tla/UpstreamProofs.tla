-------------------------- MODULE UpstreamProofs --------------------------
(***************************************************************************)
(* Theorems about MCUpstream.  Each component has an inductive invariant   *)
(* of its own; a behaviour is one of the component in focus, so that its   *)
(* invariant holds of the whole.                                           *)
(***************************************************************************)
EXTENDS MCUpstream, AgentProofs

\* A step of the whole is one of the component in focus, and the focus stays.
LEMMA InFocus ==
  ASSUME [UpstreamNext]_upstreamVars
  PROVE  /\ focus' = focus
         /\ focus = "flow" => [FlowNext]_flowVars
         /\ focus = "loop" => [LoopNext]_loopVars
         /\ focus = "shell" => [ShellNext]_shellVars
         /\ focus = "timer" => [TimerNext]_timerVars
         /\ focus = "accounts" => [AcctNext]_acctVars
         /\ focus = "codes" => [CodesNext]_codeVars
         /\ focus = "list" => [ListNext]_listVars
         /\ focus = "projects" => [ProjNext]_projVars
         /\ focus = "skills" => [SkillsNext]_skillVars
         /\ focus = "tools" => [McpNext]_mcpVars
         /\ focus = "disk" => [FilesNext]_fileVars
         /\ focus = "files" => [DocsNext]_sfVars
         /\ focus = "patrol" => [PatrolNext]_patrolVars
         /\ focus = "gateway" => [GatewayNext]_gatewayVars
         /\ focus = "telemetry" => [TelNext]_telVars
<1>1. CASE UpstreamNext
  BY <1>1 DEF UpstreamNext, Parked
<1>2. CASE UNCHANGED upstreamVars
  BY <1>2 DEF upstreamVars
<1> QED BY <1>1, <1>2

LEMMA StartsInFocus ==
  ASSUME UpstreamInit
  PROVE  /\ focus = "flow" => FlowInit
         /\ focus = "loop" => LoopInit
         /\ focus = "shell" => ShellInit
         /\ focus = "timer" => TimerInit
         /\ focus = "accounts" => AcctInit
         /\ focus = "codes" => CodesInit
         /\ focus = "list" => ListInit
         /\ focus = "projects" => ProjInit
         /\ focus = "skills" => SkillsInit
         /\ focus = "tools" => McpInit
         /\ focus = "disk" => FilesInit
         /\ focus = "files" => DocsInit
         /\ focus = "patrol" => PatrolInit
         /\ focus = "gateway" => GatewayInit
         /\ focus = "telemetry" => TelInit
  BY DEF UpstreamInit, FlowStarts, LoopStarts, ShellStarts, TimerStarts, AcctStarts, CodesStarts, ListStarts,
     ProjStarts, SkillsStarts, McpStarts, FilesStarts, DocsStarts, PatrolStarts, GatewayStarts, TelStarts

-----------------------------------------------------------------------------
(* Discovery.  PatrolKept is inductive with the types.                      *)

PatrolTypes ==
  /\ source \in [Sources -> [continuous : BOOLEAN, active : BOOLEAN]]
  /\ jobs \in Seq(Job) /\ candidates \in [Items -> Nat] /\ twins \subseteq Items
PatrolInv == PatrolTypes /\ PatrolKept

\* What a provider answers is a sequence of items.
LEMMA BatchSeqs == Batches \subseteq Seq(Items)
<1> SUFFICES ASSUME NEW its \in Batches PROVE its \in Seq(Items)
  OBVIOUS
<1>1. PICK n \in 0..2 : its \in [1..n -> Items]
  BY DEF Batches
<1> QED BY <1>1, FcnIsSeq

\* One row of the jobs is rewritten for its own source.
Moved(js, j, st, its) == [js EXCEPT ![j].status = st, ![j].items = its]
MovesOne(js, j, st, moved) ==
  /\ moved \in Seq(Job) /\ DOMAIN moved = DOMAIN js
  /\ moved[j].src = js[j].src /\ moved[j].status = st
  /\ \A k \in DOMAIN js : k # j => moved[k] = js[k]
LEMMA JobMoves ==
  ASSUME NEW js \in Seq(Job), NEW j \in DOMAIN js, NEW st \in {"waiting", "running", "done", "dead"},
         NEW its \in Seq(Items)
  PROVE  MovesOne(js, j, st, Moved(js, j, st, its))
<1> DEFINE moved == Moved(js, j, st, its)
           newRow == [js[j] EXCEPT !.status = st, !.items = its]
<1>1. /\ js[j] \in Job /\ js \in [1..Len(js) -> Job] /\ Len(js) \in Nat
      /\ DOMAIN js = 1..Len(js)
  OBVIOUS
<1>2. newRow \in Job /\ newRow.src = js[j].src /\ newRow.status = st
  BY <1>1 DEF Job
<1>3. moved = [js EXCEPT ![j] = newRow]
  BY <1>1 DEF Moved
<1> HIDE DEF newRow, moved
<1>4. moved \in [1..Len(js) -> Job]
  BY <1>1, <1>2, <1>3
<1>5. moved \in Seq(Job) /\ DOMAIN moved = DOMAIN js /\ Len(moved) = Len(js)
  BY <1>1, <1>4, FcnIsSeq
<1>6. moved[j] = newRow /\ \A k \in DOMAIN js : k # j => moved[k] = js[k]
  BY <1>1, <1>3
<1> QED BY <1>2, <1>5, <1>6 DEF moved, MovesOne

\* A new job goes to the end.
LEMMA JobAdded ==
  ASSUME NEW js \in Seq(Job), NEW s \in Sources
  PROVE  LET more == Append(js, NewJob(s))
         IN  /\ more \in Seq(Job) /\ DOMAIN more = DOMAIN js \cup {Len(js) + 1}
             /\ Len(js) + 1 \notin DOMAIN js /\ more[Len(js) + 1] = NewJob(s)
             /\ NewJob(s).src = s /\ NewJob(s).status = "waiting"
             /\ \A k \in DOMAIN js : more[k] = js[k]
<1>1. NewJob(s) \in Job /\ NewJob(s).src = s /\ NewJob(s).status = "waiting"
  <2>1. <<>> \in Seq(Items)
    OBVIOUS
  <2> QED BY <2>1 DEF NewJob, Job
<1> HIDE DEF NewJob
<1> QED BY <1>1

\* Jobs and source of one s move, and what is promised of it holds after.
LEMMA OneSource ==
  ASSUME PatrolInv, PatrolTypes', NEW s \in Sources,
         \A t \in Sources : t # s => LiveJobs(t)' = LiveJobs(t) /\ source'[t] = source[t],
         halted \ {s} \subseteq halted',
         \A i, j \in LiveJobs(s)' : i = j,
         source'[s].continuous /\ source'[s].active /\ s \notin halted' => LiveJobs(s)' # {},
         \A i \in Items \ twins' : candidates'[i] <= 1
  PROVE  PatrolInv'
  BY DEF PatrolInv, PatrolKept

LEMMA PatrolStep ==
  ASSUME PatrolInv, PatrolNext
  PROVE  PatrolInv'
<1> USE DEF PatrolInv
<1>0. /\ jobs \in Seq(Job) /\ source \in [Sources -> [continuous : BOOLEAN, active : BOOLEAN]]
      /\ <<>> \in Seq(Items)
  BY DEF PatrolTypes
<1>1. ASSUME NEW k \in Keys, NEW s \in Sources, NEW c \in BOOLEAN, Start(k, s, c)
      PROVE  PatrolInv'
  <2>1. /\ source' = [source EXCEPT ![s] = [continuous |-> c, active |-> TRUE]]
        /\ halted' = halted \ {s} /\ UNCHANGED <<candidates, twins>>
    BY <1>1 DEF Start
  <2>2. source' \in [Sources -> [continuous : BOOLEAN, active : BOOLEAN]]
        /\ \A t \in Sources : t # s => source'[t] = source[t]
    BY <1>0, <2>1
  <2>3. CASE LiveJobs(s) # {}
    <3>1. jobs' = jobs
      BY <1>1, <2>3 DEF Start
    <3>2. \A t \in Sources : LiveJobs(t)' = LiveJobs(t)
      BY <3>1 DEF LiveJobs
    <3>3. PatrolTypes'
      BY <2>1, <2>2, <3>1 DEF PatrolTypes
    <3>4. \A i \in Items \ twins' : candidates'[i] <= 1
      BY <2>1 DEF PatrolKept
    <3>5. \A i, j \in LiveJobs(s) : i = j
      BY DEF PatrolKept
    <3> QED BY <2>1, <2>2, <2>3, <3>2, <3>3, <3>4, <3>5, OneSource
  <2>4. CASE LiveJobs(s) = {}
    <3>1. jobs' = Append(jobs, NewJob(s))
      BY <1>1, <2>4 DEF Start
    <3>2. /\ jobs' \in Seq(Job) /\ DOMAIN jobs' = DOMAIN jobs \cup {Len(jobs) + 1}
          /\ Len(jobs) + 1 \notin DOMAIN jobs /\ jobs'[Len(jobs) + 1].src = s
          /\ jobs'[Len(jobs) + 1].status = "waiting"
          /\ \A i \in DOMAIN jobs : jobs'[i] = jobs[i]
      BY <1>0, <3>1, JobAdded
    <3>3. /\ LiveJobs(s)' = {Len(jobs) + 1}
          /\ \A t \in Sources : t # s => LiveJobs(t)' = LiveJobs(t)
      BY <2>4, <3>2 DEF LiveJobs
    <3>4. PatrolTypes'
      BY <2>1, <2>2, <3>2 DEF PatrolTypes
    <3>5. \A i \in Items \ twins' : candidates'[i] <= 1
      BY <2>1 DEF PatrolKept
    <3>6. LiveJobs(s)' # {} /\ \A i, j \in LiveJobs(s)' : i = j
      BY <3>3
    <3> QED BY <2>1, <2>2, <3>3, <3>4, <3>5, <3>6, OneSource
  <2> QED BY <2>3, <2>4
<1>2. ASSUME NEW s \in Sources, NEW a \in BOOLEAN, UpdateSource(s, a)
      PROVE  PatrolInv'
  <2>1. /\ source' = [source EXCEPT ![s].active = a] /\ UNCHANGED <<jobs, candidates, twins>>
        /\ halted' = IF a /\ LiveJobs(s) = {} THEN halted \cup {s} ELSE halted
    BY <1>2 DEF UpdateSource
  <2>2. /\ source' \in [Sources -> [continuous : BOOLEAN, active : BOOLEAN]]
        /\ \A t \in Sources : t # s => source'[t] = source[t]
        /\ source'[s].active = a
    BY <1>0, <2>1
  <2>3. \A t \in Sources : LiveJobs(t)' = LiveJobs(t)
    BY <2>1 DEF LiveJobs
  <2> QED BY <2>1, <2>2, <2>3 DEF PatrolTypes, PatrolKept
<1>3. ASSUME NEW j \in 1..MaxJobs, Prepare(j) \/ RetryDiscover(j) \/ Halt(j)
      PROVE  PatrolInv'
  <2>1. j \in DOMAIN jobs /\ jobs[j].status \in {"waiting", "running"} /\ jobs[j].src \in Sources
    <3>1. j \in DOMAIN jobs /\ jobs[j].status \in {"waiting", "running"}
      BY <1>3 DEF Prepare, RetryDiscover, Halt, Is
    <3>2. jobs[j] \in Job
      BY <1>0, <3>1
    <3> QED BY <3>1, <3>2 DEF Job
  <2>2. PICK st \in {"waiting", "running", "dead"} : \E its \in Seq(Items) :
          /\ jobs' = [jobs EXCEPT ![j].status = st, ![j].items = its]
          /\ halted' = IF st = "dead" THEN halted \cup {jobs[j].src} ELSE halted
    <3>1. CASE Prepare(j)
      <4>1. PICK its \in Batches : jobs' = [jobs EXCEPT ![j].status = "running", ![j].items = its]
        BY <3>1 DEF Prepare
      <4>2. halted' = halted /\ its \in Seq(Items)
        BY <3>1, BatchSeqs DEF Prepare
      <4> QED BY <4>1, <4>2
    <3>2. CASE RetryDiscover(j) \/ Halt(j)
      BY <1>0, <3>2 DEF RetryDiscover, Halt
    <3> QED BY <1>3, <3>1, <3>2
  <2>3. /\ jobs' \in Seq(Job) /\ DOMAIN jobs' = DOMAIN jobs
        /\ jobs'[j].src = jobs[j].src /\ jobs'[j].status = st
        /\ \A k \in DOMAIN jobs : k # j => jobs'[k] = jobs[k]
    <3>1. PICK its \in Seq(Items) : jobs' = Moved(jobs, j, st, its)
      BY <2>2 DEF Moved
    <3>2. st \in {"waiting", "running", "done", "dead"}
      BY <2>2
    <3>3. MovesOne(jobs, j, st, Moved(jobs, j, st, its))
      BY <1>0, <2>1, <3>2, JobMoves
    <3> QED BY <3>1, <3>3 DEF MovesOne
  <2>4. UNCHANGED <<source, candidates, twins>>
    BY <1>3 DEF Prepare, RetryDiscover, Halt
  <2>5. \A t \in Sources : LiveJobs(t)' = (IF st = "dead" THEN LiveJobs(t) \ {j} ELSE LiveJobs(t))
    BY <2>1, <2>3 DEF LiveJobs
  <2>6. \A t \in Sources : t # jobs[j].src => j \notin LiveJobs(t)
    BY <2>1 DEF LiveJobs
  <2> QED BY <2>1, <2>2, <2>3, <2>4, <2>5, <2>6 DEF PatrolTypes, PatrolKept
<1>4. ASSUME NEW j \in 1..MaxJobs, ApplyDiscover(j)
      PROVE  PatrolInv'
  <2>0. PICK s : s = jobs[j].src
    OBVIOUS
  <2> DEFINE items == jobs[j].items
             New(i) == IF candidates[i] > 0 THEN 0 ELSE Cardinality({p \in DOMAIN items : items[p] = i})
             settled == [jobs EXCEPT ![j].status = "done", ![j].items = <<>>]
             goesOn == source[s].continuous /\ source[s].active
  <2>1. /\ candidates' = [i \in Items |-> candidates[i] + New(i)]
        /\ twins' = twins \cup {i \in Items : New(i) > 1}
        /\ jobs' = IF goesOn THEN Append(settled, NewJob(s)) ELSE settled
        /\ UNCHANGED <<source, halted>>
    BY <1>4, <2>0 DEF ApplyDiscover
  <2>2. j \in DOMAIN jobs /\ jobs[j].status = "running" /\ s \in Sources /\ items \in Seq(Items)
    <3>1. j \in DOMAIN jobs /\ jobs[j].status = "running"
      BY <1>4 DEF ApplyDiscover, Is
    <3>2. jobs[j] \in Job
      BY <1>0, <3>1
    <3> QED BY <2>0, <3>1, <3>2 DEF Job
  <2>3. \A i \in Items : New(i) \in Nat
    <3>1. ASSUME NEW i \in Items
          PROVE  Cardinality({p \in DOMAIN items : items[p] = i}) \in Nat
      <4>1. Len(items) \in Nat /\ DOMAIN items = 1..Len(items)
        BY <2>2
      <4>2. IsFiniteSet(1..Len(items))
        BY <4>1, FS_Interval
      <4>3. {p \in DOMAIN items : items[p] = i} \subseteq 1..Len(items)
        BY <4>1
      <4> QED BY <4>2, <4>3, FS_Subset, FS_CardinalityType
    <3> QED BY <3>1
  <2>4. /\ candidates' \in [Items -> Nat] /\ twins' \subseteq Items
        /\ \A i \in Items \ twins' : candidates'[i] <= 1
    <3>1. candidates \in [Items -> Nat] /\ \A i \in Items : candidates[i] > 0 => New(i) = 0
      BY DEF PatrolTypes
    <3>2. \A i \in Items \ twins : candidates[i] <= 1
      BY DEF PatrolKept
    <3>3. twins \subseteq Items
      BY DEF PatrolTypes
    <3> HIDE DEF New
    <3>4. ASSUME NEW i \in Items \ twins' PROVE candidates'[i] <= 1
      <4>1. i \in Items \ twins /\ New(i) \in Nat /\ ~(New(i) > 1) /\ candidates'[i] = candidates[i] + New(i)
        BY <2>1, <2>3
      <4> QED BY <3>1, <3>2, <4>1
    <3> QED BY <2>1, <2>3, <3>1, <3>3, <3>4
  <2>5. /\ settled \in Seq(Job) /\ DOMAIN settled = DOMAIN jobs
        /\ settled[j].status = "done" /\ settled[j].src = s
        /\ \A k \in DOMAIN jobs : k # j => settled[k] = jobs[k]
    <3>1. settled = Moved(jobs, j, "done", <<>>)
      BY DEF Moved
    <3>2. j \in DOMAIN jobs /\ "done" \in {"waiting", "running", "done", "dead"}
      BY <2>2
    <3>3. MovesOne(jobs, j, "done", Moved(jobs, j, "done", <<>>))
      BY <1>0, <3>2, JobMoves
    <3> HIDE DEF settled
    <3> QED BY <2>0, <3>1, <3>3 DEF MovesOne
  <2>6. LiveJobs(s) = {j}
    <3>1. j \in LiveJobs(s) /\ \A i, k \in LiveJobs(s) : i = k
      BY <2>0, <2>2 DEF LiveJobs, PatrolKept
    <3> QED BY <3>1
  <2>9. \A k \in DOMAIN settled : settled[k].src = jobs[k].src /\ (k # j => settled[k] = jobs[k])
    BY <2>5
  <2> HIDE DEF New, settled, items
  <2>7. CASE goesOn
    <3>1. /\ jobs' \in Seq(Job) /\ DOMAIN jobs' = DOMAIN settled \cup {Len(settled) + 1}
          /\ Len(settled) + 1 \notin DOMAIN settled /\ jobs'[Len(settled) + 1].src = s
          /\ jobs'[Len(settled) + 1].status = "waiting"
          /\ \A i \in DOMAIN settled : jobs'[i] = settled[i]
      BY <2>1, <2>2, <2>5, <2>7, JobAdded
    <3>2. LiveJobs(s)' = {Len(settled) + 1}
      BY <2>0, <2>2, <2>5, <2>6, <3>1 DEF LiveJobs
    <3>3. \A t \in Sources : t # s => LiveJobs(t)' = LiveJobs(t)
      BY <2>0, <2>2, <2>5, <3>1 DEF LiveJobs
    <3>4. PatrolTypes'
      BY <2>1, <2>4, <3>1 DEF PatrolTypes
    <3>5. LiveJobs(s)' # {} /\ \A i, k \in LiveJobs(s)' : i = k
      BY <3>2
    <3> QED BY <2>1, <2>2, <2>4, <3>3, <3>4, <3>5, OneSource
  <2>8. CASE ~goesOn
    <3>1. jobs' = settled
      BY <2>1, <2>8
    <3>2. LiveJobs(s)' = {}
      BY <2>0, <2>2, <2>5, <2>6, <3>1 DEF LiveJobs
    <3>3. \A t \in Sources : t # s => LiveJobs(t)' = LiveJobs(t)
      BY <2>0, <2>2, <2>5, <3>1 DEF LiveJobs
    <3>4. PatrolTypes'
      BY <2>1, <2>4, <2>5, <3>1 DEF PatrolTypes
    <3> QED BY <2>1, <2>2, <2>4, <2>8, <3>2, <3>3, <3>4, OneSource
  <2> QED BY <2>7, <2>8
<1> QED BY <1>1, <1>2, <1>3, <1>4 DEF PatrolNext

LEMMA PatrolInitInv == PatrolInit => PatrolInv
<1> SUFFICES ASSUME PatrolInit PROVE PatrolInv
  OBVIOUS
<1>1. \A s \in Sources : LiveJobs(s) = {}
  BY DEF PatrolInit, LiveJobs
<1> QED BY <1>1 DEF PatrolInit, PatrolInv, PatrolTypes, PatrolKept

LEMMA PatrolInvariant == PatrolInv /\ [PatrolNext]_patrolVars => PatrolInv'
<1>1. PatrolInv /\ UNCHANGED patrolVars => PatrolInv'
  BY DEF patrolVars, PatrolInv, PatrolTypes, PatrolKept, LiveJobs
<1> QED BY <1>1, PatrolStep

-----------------------------------------------------------------------------
(* Telemetry.  A process that runs, or has left no key and no lease behind  *)
(* it, is not taken for another: the time it is gone and the time its key   *)
(* or its lease has left add up to no more than the key or lease was given. *)

TelLives == {"new", "up", "leaving", "down"}
TelStages == {"idle", "taken", "runs", "settled"}
Beats == {NoState, "IDLE", "WORKING"}
AgentRows == [life : TelLives, job : TelJobs \cup {NoTask}, stage : TelStages, beat : Beats, gone : Nat]
KeyRows == [ttl : Nat, state : Beats]
JobRows == [status : {"QUEUED", "WAITING_RETRY", "RUNNING", "SUCCEEDED"},
            worker : {{}} \cup {{a} : a \in WorkerAgents}, lease : Nat]
States == {NoState, "WORKING", "IDLE", "STALE", "OFFLINE"}
Requested == [agent : SUBSET WorkerAgents, pc : {"idle", "rows", "shown"}, active : {NoState, "held", "expired"},
              overdue : BOOLEAN, holds : BOOLEAN, gone : Nat, redis : BOOLEAN, state : States]
TelTypes ==
  /\ agent \in [WorkerAgents -> AgentRows]
  /\ presence \in [WorkerAgents -> KeyRows]
  /\ row \in [TelJobs -> JobRows]
  /\ seen \in Requested

\* Of an agent row: it counts the time from its death, and a dead one does nothing.
LifeTrue(r) == /\ r.life # "down" => r.gone = 0
               /\ r.life = "down" => r.stage = "idle" /\ r.beat = NoState
               /\ r.stage # "idle" => r.job \in TelJobs
\* Of a key of it, and of a row that it took.
KeyFresh(r, key) == key.state # NoState => r.gone + key.ttl <= Ttl
RowFresh(r, j) == j.lease > 0 => r.gone + j.lease <= LeaseTicks

SeenTrue ==
  /\ seen.active = "held" => seen.gone <= LeaseTicks
  /\ seen.active = "expired" => seen.overdue
  /\ seen.holds => seen.active # NoState

TelInv ==
  /\ TelTypes
  /\ \A a \in WorkerAgents : /\ LifeTrue(agent[a]) /\ KeyFresh(agent[a], presence[a])
                             /\ \A j \in TelJobs : row[j].worker = {a} => RowFresh(agent[a], row[j])
  /\ seen.pc = "rows" => SeenTrue
  /\ TelemetryHonest

\* A finite set of numbers has a greatest one.
LEMMA Greatest ==
  ASSUME NEW S \in SUBSET Nat, S # {}, IsFiniteSet(S)
  PROVE  \E x \in S : \A y \in S : y <= x
<1> DEFINE above == {{m \in S : m >= x} : x \in S}
           R == StrictSubsetOrdering(S)
           F == FiniteSubsetsOf(S)
<1>1. IsWellFoundedOn(R, F) /\ F = SUBSET S
  BY FS_StrictSubsetOrderingWellFounded, FS_FiniteSubsetsOfFinite
<1> HIDE DEF R, F
<1>2. above \subseteq F /\ above # {}
  BY <1>1
<1>3. PICK s \in above : \A r \in above : <<r, s>> \notin R
  BY <1>1, <1>2, WFMin
<1>4. PICK x \in S : s = {m \in S : m >= x}
  BY <1>3
<1>5. ASSUME NEW y \in S, y > x PROVE FALSE
  <2>1. y \in Nat /\ x \in Nat
    OBVIOUS
  <2> DEFINE r == {m \in S : m >= y}
  <2>2. r \in above /\ r \subseteq S /\ s \subseteq S
    BY <1>4
  <2>3. r \subseteq s /\ x \in s /\ x \notin r
    <3>1. \A m \in S : m \in Nat
      OBVIOUS
    <3>2. \A m \in S : m >= y => m >= x
      BY <1>5, <2>1, <3>1
    <3>3. x >= x /\ ~(x >= y)
      BY <1>5, <2>1
    <3> QED BY <1>4, <3>2, <3>3
  <2>4. <<r, s>> \in R
    BY <2>2, <2>3 DEF R, StrictSubsetOrdering
  <2> QED BY <1>3, <2>2, <2>4
<1> QED BY <1>5

\* What an agent reads of its rows: the latest one that it runs, if any.
LEMMA ActiveShows ==
  ASSUME TelemetryAssumption, TelInv, NEW a \in WorkerAgents
  PROVE  /\ Active(a) \in {NoState, "held", "expired"}
         /\ Active(a) = NoState => Running(a) = {}
         /\ Active(a) = "held" => agent[a].gone <= LeaseTicks
         /\ Active(a) = "expired" => \E j \in Running(a) : row[j].lease = 0
<1> DEFINE run == Running(a)
           top == CHOOSE j \in run : \A k \in run : k <= j
<1>1. CASE run = {}
  BY <1>1 DEF Active, NoState
<1>2. CASE run # {}
  <2>1. run \in SUBSET Nat /\ IsFiniteSet(run) /\ run \subseteq TelJobs
    BY FS_Subset DEF Running, TelemetryAssumption
  <2> HIDE DEF run
  <2>2. top \in run
    BY <1>2, <2>1, Greatest
  <2>3. Active(a) = IF row[top].lease > 0 THEN "held" ELSE "expired"
    BY <1>2 DEF Active, run
  <2> HIDE DEF top
  <2>4. top \in TelJobs /\ row[top].worker = {a}
    BY <2>1, <2>2 DEF run, Running
  <2>5. row[top] \in JobRows /\ agent[a] \in AgentRows /\ RowFresh(agent[a], row[top])
    BY <2>4 DEF TelInv, TelTypes
  <2>6. row[top].lease \in Nat /\ agent[a].gone \in Nat /\ LeaseTicks \in Nat
    BY <2>5 DEF JobRows, AgentRows, TelemetryAssumption
  <2>7. row[top].lease > 0 => agent[a].gone <= LeaseTicks
    BY <2>5, <2>6 DEF RowFresh
  <2>8. ~(row[top].lease > 0) => row[top].lease = 0
    BY <2>6
  <2> QED BY <1>2, <2>2, <2>3, <2>7, <2>8 DEF NoState, run
<1> QED BY <1>1, <1>2

\* A step that lengthens no death and leaves what is shown.
LEMMA TelMoves ==
  ASSUME TelInv, TelTypes', seen' = seen,
         \A a \in WorkerAgents : /\ LifeTrue(agent'[a]) /\ KeyFresh(agent'[a], presence'[a])
                                 /\ agent'[a].gone <= agent[a].gone,
         \A j \in TelJobs : \/ row'[j] = row[j]
                           \/ \A a \in WorkerAgents : row'[j].worker = {a} => RowFresh(agent'[a], row'[j])
  PROVE  TelInv'
<1>1. \A a \in WorkerAgents, j \in TelJobs : row'[j].worker = {a} => RowFresh(agent'[a], row'[j])
  <2> SUFFICES ASSUME NEW a \in WorkerAgents, NEW j \in TelJobs, row'[j].worker = {a}, row'[j] = row[j]
               PROVE  RowFresh(agent'[a], row'[j])
    OBVIOUS
  <2>1. RowFresh(agent[a], row[j]) /\ agent'[a].gone <= agent[a].gone
    BY DEF TelInv
  <2>2. agent'[a].gone \in Nat /\ agent[a].gone \in Nat /\ row[j].lease \in Nat
    BY DEF TelInv, TelTypes, AgentRows, JobRows
  <2> QED BY <2>1, <2>2, TelemetryAssumption DEF RowFresh, TelemetryAssumption
<1>2. (seen.pc = "rows" => SeenTrue) => (seen.pc = "rows" => SeenTrue)'
  BY DEF SeenTrue
<1>3. TelemetryHonest'
  BY DEF TelInv, TelemetryHonest
<1> QED BY <1>1, <1>2, <1>3 DEF TelInv

LEMMA OneAgentMoves ==
  ASSUME TelInv, NEW a \in WorkerAgents, NEW r \in AgentRows, NEW key \in KeyRows,
         agent' = [agent EXCEPT ![a] = r], presence' = [presence EXCEPT ![a] = key],
         row' = row, seen' = seen, LifeTrue(r), KeyFresh(r, key), r.gone <= agent[a].gone
  PROVE  TelInv'
<1>1. TelTypes'
  BY DEF TelInv, TelTypes
<1>2. ASSUME NEW b \in WorkerAgents
      PROVE  /\ LifeTrue(agent'[b]) /\ KeyFresh(agent'[b], presence'[b])
             /\ agent'[b].gone <= agent[b].gone
  <2>1. /\ agent \in [WorkerAgents -> AgentRows] /\ presence \in [WorkerAgents -> KeyRows]
        /\ LifeTrue(agent[b]) /\ KeyFresh(agent[b], presence[b])
    BY DEF TelInv, TelTypes
  <2>2. CASE b = a
    BY <2>1, <2>2
  <2>3. CASE b # a
    <3>1. agent'[b] = agent[b] /\ presence'[b] = presence[b]
      BY <2>1, <2>3
    <3>2. agent[b].gone \in Nat
      BY <2>1 DEF AgentRows
    <3> QED BY <2>1, <3>1, <3>2
  <2> QED BY <2>2, <2>3
<1> QED BY <1>1, <1>2, TelMoves

\* The process and its heartbeat.
LEMMA ProcessKeeps ==
  ASSUME TelInv, NEW a \in WorkerAgents,
         \/ StartProcess(a) \/ BuildBeat(a) \/ WriteBeat(a) \/ Leave(a) \/ AgentDies(a)
         \/ Rest(a) \/ \E j \in TelJobs : TakeMessage(a, j)
  PROVE  TelInv'
<1>0. /\ agent \in [WorkerAgents -> AgentRows] /\ presence \in [WorkerAgents -> KeyRows]
      /\ LifeTrue(agent[a]) /\ KeyFresh(agent[a], presence[a])
  BY DEF TelInv, TelTypes
<1>1. /\ agent[a] \in AgentRows /\ presence[a] \in KeyRows /\ agent[a].gone \in Nat
      /\ presence = [presence EXCEPT ![a] = presence[a]] /\ NoKey \in KeyRows /\ Ttl \in Nat
      /\ row' = row /\ seen' = seen
  <2>1. agent[a] \in AgentRows /\ presence[a] \in KeyRows /\ presence = [presence EXCEPT ![a] = presence[a]]
    BY <1>0
  <2>2. agent[a].gone \in Nat /\ NoKey \in KeyRows
    BY <2>1 DEF AgentRows, KeyRows, NoKey, Beats
  <2>3. row' = row /\ seen' = seen
    BY DEF StartProcess, BuildBeat, WriteBeat, Leave, AgentDies, Rest, TakeMessage
  <2> QED BY <2>1, <2>2, <2>3, TelemetryAssumption DEF TelemetryAssumption
<1> DEFINE old == agent[a]
<1>2. ASSUME NEW r \in AgentRows, NEW key \in KeyRows, agent' = [agent EXCEPT ![a] = r],
             presence' = [presence EXCEPT ![a] = key], LifeTrue(r), KeyFresh(r, key), r.gone <= old.gone
      PROVE  TelInv'
  BY <1>1, <1>2, OneAgentMoves
<1>3. ASSUME NEW r \in AgentRows, agent' = [agent EXCEPT ![a] = r], r.gone = old.gone, LifeTrue(r),
             presence' = presence \/ presence' = [presence EXCEPT ![a] = NoKey]
      PROVE  TelInv'
  <2>1. KeyFresh(r, presence[a]) /\ KeyFresh(r, NoKey) /\ r.gone <= old.gone
    BY <1>0, <1>1, <1>3 DEF KeyFresh, NoKey
  <2> QED BY <1>1, <1>2, <1>3, <2>1
<1>4. CASE StartProcess(a)
  <2> DEFINE r == [old EXCEPT !.life = "up"]
  <2>1. /\ agent' = [agent EXCEPT ![a] = r] /\ presence' = presence /\ old.life = "new"
    BY <1>0, <1>4 DEF StartProcess
  <2>2. r \in AgentRows /\ r.gone = old.gone /\ LifeTrue(r)
    BY <1>0, <1>1, <2>1 DEF AgentRows, LifeTrue, TelLives
  <2> QED BY <1>3, <2>1, <2>2
<1>5. CASE BuildBeat(a)
  <2> DEFINE r == [old EXCEPT !.beat = Own(a)]
  <2>1. /\ agent' = [agent EXCEPT ![a] = r] /\ presence' = presence /\ old.life = "up" /\ Own(a) \in Beats
    BY <1>0, <1>5 DEF BuildBeat, Up, Own, Beats
  <2>2. r \in AgentRows /\ r.gone = old.gone /\ LifeTrue(r)
    BY <1>0, <1>1, <2>1 DEF AgentRows, LifeTrue
  <2> QED BY <1>3, <2>1, <2>2
<1>6. CASE WriteBeat(a)
  <2> DEFINE r == [old EXCEPT !.beat = NoState]
             key == [ttl |-> Ttl, state |-> old.beat]
  <2>1. /\ agent' = [agent EXCEPT ![a] = r] /\ old.life \in {"up", "leaving"}
        /\ presence' = presence \/ presence' = [presence EXCEPT ![a] = key]
    BY <1>0, <1>6 DEF WriteBeat
  <2>2. r \in AgentRows /\ r.gone = old.gone /\ r.gone = 0 /\ LifeTrue(r)
    BY <1>0, <1>1, <2>1 DEF AgentRows, LifeTrue, Beats
  <2>3. key \in KeyRows /\ KeyFresh(r, key) /\ r.gone <= old.gone
    BY <1>1, <2>2 DEF AgentRows, KeyRows, KeyFresh
  <2> HIDE DEF r, key
  <2> QED BY <1>2, <1>3, <2>1, <2>2, <2>3
<1>7. CASE Leave(a)
  <2> DEFINE r == [old EXCEPT !.life = "leaving"]
  <2>1. /\ agent' = [agent EXCEPT ![a] = r] /\ old.life = "up"
        /\ presence' = presence \/ presence' = [presence EXCEPT ![a] = NoKey]
    BY <1>0, <1>7 DEF Leave, Up
  <2>2. r \in AgentRows /\ r.gone = old.gone /\ LifeTrue(r)
    BY <1>0, <1>1, <2>1 DEF AgentRows, LifeTrue, TelLives
  <2> QED BY <1>3, <2>1, <2>2
<1>8. CASE AgentDies(a)
  <2> DEFINE r == [life |-> "down", job |-> NoTask, stage |-> "idle", beat |-> NoState, gone |-> 0]
  <2>1. agent' = [agent EXCEPT ![a] = r] /\ presence' = presence /\ old.life \in {"up", "leaving"}
    BY <1>8 DEF AgentDies
  <2>2. r \in AgentRows /\ LifeTrue(r)
    BY DEF AgentRows, LifeTrue, TelLives, TelStages, Beats
  <2>3. r.gone = old.gone
    BY <1>0, <2>1 DEF LifeTrue
  <2> QED BY <1>3, <2>1, <2>2, <2>3
<1>9. CASE Rest(a)
  <2> DEFINE r == [old EXCEPT !.stage = "idle", !.job = NoTask]
  <2>1. agent' = [agent EXCEPT ![a] = r] /\ presence' = presence /\ old.stage = "settled"
    BY <1>0, <1>9 DEF Rest
  <2>2. r \in AgentRows /\ r.gone = old.gone /\ LifeTrue(r)
    BY <1>0, <1>1, <2>1 DEF AgentRows, LifeTrue, TelStages
  <2> QED BY <1>3, <2>1, <2>2
<1>10. ASSUME NEW j \in TelJobs, TakeMessage(a, j) PROVE TelInv'
  <2> DEFINE r == [old EXCEPT !.job = j, !.stage = "taken"]
  <2>1. agent' = [agent EXCEPT ![a] = r] /\ presence' = presence /\ old.life = "up"
    BY <1>0, <1>10 DEF TakeMessage, Up
  <2>2. r \in AgentRows /\ r.gone = old.gone /\ LifeTrue(r)
    BY <1>0, <1>1, <2>1 DEF AgentRows, LifeTrue, TelStages
  <2> QED BY <1>3, <2>1, <2>2
<1> QED BY <1>4, <1>5, <1>6, <1>7, <1>8, <1>9, <1>10

\* A step that rewrites one row and, of an agent, at most the stage it is at.
LEMMA OneRowMoves ==
  ASSUME TelInv, NEW j \in TelJobs, NEW q \in JobRows, row' = [row EXCEPT ![j] = q],
         agent' \in [WorkerAgents -> AgentRows], presence' = presence, seen' = seen,
         \A b \in WorkerAgents : LifeTrue(agent'[b]) /\ agent'[b].gone = agent[b].gone,
         \A b \in WorkerAgents : q.worker = {b} => RowFresh(agent'[b], q)
  PROVE  TelInv'
<1>0. /\ presence \in [WorkerAgents -> KeyRows] /\ row \in [TelJobs -> JobRows]
      /\ agent \in [WorkerAgents -> AgentRows] /\ \A b \in WorkerAgents : KeyFresh(agent[b], presence[b])
  BY DEF TelInv, TelTypes
<1>1. TelTypes'
  BY <1>0 DEF TelInv, TelTypes
<1>2. \A b \in WorkerAgents : KeyFresh(agent'[b], presence'[b]) /\ agent'[b].gone <= agent[b].gone
  <2> SUFFICES ASSUME NEW b \in WorkerAgents
               PROVE  KeyFresh(agent'[b], presence'[b]) /\ agent'[b].gone <= agent[b].gone
    OBVIOUS
  <2>1. agent[b].gone \in Nat /\ agent'[b].gone = agent[b].gone
    BY <1>0 DEF AgentRows
  <2> QED BY <1>0, <2>1 DEF KeyFresh
<1>3. \A i \in TelJobs : row'[i] = IF i = j THEN q ELSE row[i]
  BY <1>0
<1> QED BY <1>1, <1>2, <1>3, TelMoves

\* Claim, renewal and settling of a row.
LEMMA RowKeeps ==
  ASSUME TelInv,
         \/ \E a \in WorkerAgents : ClaimRow(a) \/ RenewLease(a) \/ Settle(a)
         \/ \E j \in TelJobs : OthersWork(j)
  PROVE  TelInv'
<1>0. /\ agent \in [WorkerAgents -> AgentRows] /\ row \in [TelJobs -> JobRows]
      /\ \A a \in WorkerAgents : LifeTrue(agent[a]) /\ agent[a] \in AgentRows /\ agent[a].gone \in Nat
      /\ LeaseTicks \in Nat
  <2>1. /\ agent \in [WorkerAgents -> AgentRows] /\ row \in [TelJobs -> JobRows]
        /\ \A a \in WorkerAgents : LifeTrue(agent[a])
    BY DEF TelInv, TelTypes
  <2> QED BY <2>1, TelemetryAssumption DEF AgentRows, TelemetryAssumption
\* The agent's stage moves.
<1>1. ASSUME NEW a \in WorkerAgents, NEW st \in TelStages \ {"idle"}, agent[a].stage # "idle",
             agent' = [agent EXCEPT ![a].stage = st]
      PROVE  /\ agent' \in [WorkerAgents -> AgentRows]
             /\ \A b \in WorkerAgents : LifeTrue(agent'[b]) /\ agent'[b].gone = agent[b].gone
  <2> DEFINE r == [agent[a] EXCEPT !.stage = st]
  <2>1. r \in AgentRows /\ r.gone = agent[a].gone /\ LifeTrue(r)
    BY <1>0, <1>1 DEF AgentRows, LifeTrue
  <2>2. agent' = [agent EXCEPT ![a] = r]
    BY <1>0, <1>1
  <2> HIDE DEF r
  <2> QED BY <1>0, <2>1, <2>2
<1>2. ASSUME NEW j \in TelJobs, NEW w \in {{}} \cup {{a} : a \in WorkerAgents}, NEW lease \in Nat,
             NEW s \in {"QUEUED", "WAITING_RETRY", "RUNNING", "SUCCEEDED"}
      PROVE  [status |-> s, worker |-> w, lease |-> lease] \in JobRows
  BY DEF JobRows
<1>4. ASSUME NEW a \in WorkerAgents, ClaimRow(a) PROVE TelInv'
  <2>1. agent[a].stage = "taken" /\ agent[a].job \in TelJobs /\ agent[a].gone = 0
        /\ presence' = presence /\ seen' = seen
    BY <1>0, <1>4 DEF ClaimRow, LifeTrue
  <2>2. CASE Claimable(agent[a].job)
    <3> DEFINE q == [status |-> "RUNNING", worker |-> {a}, lease |-> LeaseTicks]
               st == "runs"
    <3>1. row' = [row EXCEPT ![agent[a].job] = q] /\ agent' = [agent EXCEPT ![a].stage = "runs"]
      BY <1>4, <2>2 DEF ClaimRow
    <3>2. /\ agent' \in [WorkerAgents -> AgentRows]
          /\ \A b \in WorkerAgents : LifeTrue(agent'[b]) /\ agent'[b].gone = agent[b].gone
      BY <1>1, <2>1, <3>1 DEF TelStages
    <3>3. q \in JobRows
      BY <1>0, <1>2, <2>1
    <3>4. \A b \in WorkerAgents : q.worker = {b} => RowFresh(agent'[b], q)
      <4> SUFFICES ASSUME NEW b \in WorkerAgents, {a} = {b} PROVE RowFresh(agent'[b], q)
        OBVIOUS
      <4>1. b = a
        OBVIOUS
      <4> QED BY <1>0, <2>1, <3>2, <4>1 DEF RowFresh
    <3> HIDE DEF q
    <3> QED BY <2>1, <3>1, <3>2, <3>3, <3>4, OneRowMoves
  <2>3. CASE ~Claimable(agent[a].job)
    <3>1. row' = row /\ agent' = [agent EXCEPT ![a].stage = "settled"]
      BY <1>4, <2>3 DEF ClaimRow
    <3>2. /\ agent' \in [WorkerAgents -> AgentRows]
          /\ \A b \in WorkerAgents : LifeTrue(agent'[b]) /\ agent'[b].gone = agent[b].gone
      BY <1>1, <2>1, <3>1 DEF TelStages
    <3>3. TelTypes' /\ \A b \in WorkerAgents : KeyFresh(agent'[b], presence'[b])
      BY <2>1, <3>1, <3>2 DEF TelInv, TelTypes, KeyFresh
    <3> QED BY <1>0, <2>1, <3>1, <3>2, <3>3, TelMoves
  <2> QED BY <2>2, <2>3
<1>5. ASSUME NEW a \in WorkerAgents, RenewLease(a) PROVE TelInv'
  <2>1. agent[a].stage = "runs" /\ agent[a].job \in TelJobs /\ agent[a].gone = 0
        /\ agent' = agent /\ presence' = presence /\ seen' = seen
        /\ row[agent[a].job].worker = {a} /\ row' = [row EXCEPT ![agent[a].job].lease = LeaseTicks]
    BY <1>0, <1>5 DEF RenewLease, HoldsRow, LifeTrue
  <2> DEFINE j == agent[a].job
             q == [row[j] EXCEPT !.lease = LeaseTicks]
  <2>2. row[j] \in JobRows
    BY <1>0, <2>1
  <2>3. q \in JobRows /\ q.worker = {a} /\ q.lease = LeaseTicks
    BY <1>0, <2>1, <2>2 DEF JobRows
  <2>4. row' = [row EXCEPT ![j] = q]
    BY <1>0, <2>1
  <2> HIDE DEF q
  <2>5. \A b \in WorkerAgents : q.worker = {b} => RowFresh(agent'[b], q)
    <3> SUFFICES ASSUME NEW b \in WorkerAgents, {a} = {b} PROVE RowFresh(agent'[b], q)
      BY <2>3
    <3>1. b = a
      OBVIOUS
    <3> QED BY <1>0, <2>1, <2>3, <3>1 DEF RowFresh
  <2> QED BY <1>0, <2>1, <2>3, <2>4, <2>5, OneRowMoves
<1>6. ASSUME NEW a \in WorkerAgents, Settle(a) PROVE TelInv'
  <2>1. /\ agent[a].stage = "runs" /\ agent[a].job \in TelJobs
        /\ agent' = [agent EXCEPT ![a].stage = "settled"] /\ presence' = presence /\ seen' = seen
    BY <1>0, <1>6 DEF Settle, LifeTrue
  <2>2. /\ agent' \in [WorkerAgents -> AgentRows]
        /\ \A b \in WorkerAgents : LifeTrue(agent'[b]) /\ agent'[b].gone = agent[b].gone
    BY <1>1, <2>1 DEF TelStages
  <2>3. CASE row' = row
    <3>1. TelTypes' /\ \A b \in WorkerAgents : KeyFresh(agent'[b], presence'[b])
      BY <2>1, <2>2, <2>3 DEF TelInv, TelTypes, KeyFresh
    <3> QED BY <1>0, <2>1, <2>2, <2>3, <3>1, TelMoves
  <2>4. ASSUME NEW s \in {"SUCCEEDED", "WAITING_RETRY"},
               row' = [row EXCEPT ![agent[a].job].status = s, ![agent[a].job].lease = 0]
        PROVE  TelInv'
    <3> DEFINE j == agent[a].job
               q == [row[j] EXCEPT !.status = s, !.lease = 0]
    <3>0. row[j] \in JobRows
      BY <1>0, <2>1
    <3>1. q \in JobRows /\ q.lease = 0
      BY <3>0 DEF JobRows
    <3>2. row' = [row EXCEPT ![j] = q]
      BY <1>0, <2>1, <2>4
    <3> HIDE DEF q
    <3>3. \A b \in WorkerAgents : RowFresh(agent'[b], q)
      BY <3>1 DEF RowFresh
    <3>4. j \in TelJobs
      BY <2>1
    <3> HIDE DEF j
    <3> QED BY <2>1, <2>2, <3>1, <3>2, <3>3, <3>4, OneRowMoves
  <2> QED BY <1>6, <2>3, <2>4 DEF Settle
<1>7. ASSUME NEW j \in TelJobs, OthersWork(j) PROVE TelInv'
  <2>1. agent' = agent /\ presence' = presence /\ seen' = seen
    BY <1>7 DEF OthersWork
  <2>2. ASSUME NEW q \in JobRows, row' = [row EXCEPT ![j] = q], \A b \in WorkerAgents : q.worker # {b}
        PROVE  TelInv'
    BY <1>0, <2>1, <2>2, OneRowMoves
  <2>3. \A b \in WorkerAgents : {} # {b}
    OBVIOUS
  <2>4. CASE row' = [row EXCEPT ![j] = [status |-> "RUNNING", worker |-> {}, lease |-> LeaseTicks]]
    <3> DEFINE q == [status |-> "RUNNING", worker |-> {}, lease |-> LeaseTicks]
    <3>1. q \in JobRows /\ q.worker = {}
      BY <1>0, <1>2
    <3>2. row' = [row EXCEPT ![j] = q]
      BY <2>4
    <3> HIDE DEF q
    <3> QED BY <2>2, <2>3, <3>1, <3>2
  <2>5. ASSUME NEW s \in {"SUCCEEDED", "WAITING_RETRY"}, row[j].worker = {},
               row' = [row EXCEPT ![j].status = s, ![j].lease = 0]
        PROVE  TelInv'
    <3> DEFINE q == [row[j] EXCEPT !.status = s, !.lease = 0]
    <3>0. row[j] \in JobRows
      BY <1>0
    <3>1. q \in JobRows /\ q.worker = {}
      BY <2>5, <3>0 DEF JobRows
    <3>2. row' = [row EXCEPT ![j] = q]
      BY <1>0, <2>5
    <3> HIDE DEF q
    <3> QED BY <2>2, <2>3, <3>1, <3>2
  <2> QED BY <1>7, <2>4, <2>5 DEF OthersWork
<1> QED BY <1>4, <1>5, <1>6, <1>7

\* Time passes: what a key or a lease loses, a dead agent is gone the longer.
LEMMA TickKeeps ==
  ASSUME TelInv, TelTick
  PROVE  TelInv'
<1>0. /\ agent \in [WorkerAgents -> AgentRows] /\ presence \in [WorkerAgents -> KeyRows]
      /\ row \in [TelJobs -> JobRows] /\ Ttl \in Nat /\ LeaseTicks \in Nat /\ seen' = seen
  BY TelemetryAssumption DEF TelInv, TelTypes, TelTick, TelemetryAssumption
<1> DEFINE aged(r) == [r EXCEPT !.gone = IF r.life # "down" \/ @ = MaxGone THEN @ ELSE @ + 1]
           fading(k) == IF k.ttl <= 1 THEN NoKey ELSE [k EXCEPT !.ttl = @ - 1]
           waning(q) == [q EXCEPT !.lease = Down1(@)]
<1>1. /\ agent' = [a \in WorkerAgents |-> aged(agent[a])]
      /\ presence' = [a \in WorkerAgents |-> fading(presence[a])]
      /\ row' = [j \in TelJobs |-> waning(row[j])]
  BY DEF TelTick
<1>2. ASSUME NEW r \in AgentRows
      PROVE  /\ aged(r) \in AgentRows /\ aged(r).gone <= r.gone + 1 /\ r.gone \in Nat
             /\ LifeTrue(r) => LifeTrue(aged(r))
  BY DEF AgentRows, LifeTrue
<1>3. ASSUME NEW k \in KeyRows
      PROVE  /\ fading(k) \in KeyRows /\ k.ttl \in Nat
             /\ fading(k).state # NoState => k.ttl = fading(k).ttl + 1 /\ k.state = fading(k).state
  BY DEF KeyRows, NoKey, Beats
<1>4. ASSUME NEW q \in JobRows
      PROVE  /\ waning(q) \in JobRows /\ waning(q).worker = q.worker /\ q.lease \in Nat
             /\ waning(q).lease > 0 => q.lease = waning(q).lease + 1
  BY DEF JobRows, Down1
<1> HIDE DEF aged, fading, waning
<1>5. TelTypes'
  BY <1>0, <1>1, <1>2, <1>3, <1>4 DEF TelInv, TelTypes
<1>6. ASSUME NEW a \in WorkerAgents
      PROVE  LifeTrue(agent'[a]) /\ KeyFresh(agent'[a], presence'[a])
  <2> DEFINE r == agent[a]  k == presence[a]
  <2>1. r \in AgentRows /\ k \in KeyRows /\ LifeTrue(r) /\ KeyFresh(r, k)
        /\ agent'[a] = aged(r) /\ presence'[a] = fading(k)
    BY <1>0, <1>1 DEF TelInv
  <2> HIDE DEF r, k
  <2>2. /\ aged(r) \in AgentRows /\ aged(r).gone <= r.gone + 1 /\ r.gone \in Nat /\ LifeTrue(aged(r))
        /\ fading(k) \in KeyRows /\ k.ttl \in Nat
        /\ fading(k).state # NoState => k.ttl = fading(k).ttl + 1 /\ k.state = fading(k).state
    BY <1>2, <1>3, <2>1
  <2>3. aged(r).gone \in Nat /\ fading(k).ttl \in Nat
    BY <2>2 DEF AgentRows, KeyRows
  <2> QED BY <1>0, <2>1, <2>2, <2>3 DEF KeyFresh
<1>7. ASSUME NEW a \in WorkerAgents, NEW j \in TelJobs, row'[j].worker = {a}
      PROVE  RowFresh(agent'[a], row'[j])
  <2> DEFINE r == agent[a]  q == row[j]
  <2>1. r \in AgentRows /\ q \in JobRows /\ agent'[a] = aged(r) /\ row'[j] = waning(q)
    BY <1>0, <1>1
  <2>2. q.worker = {a} => RowFresh(r, q)
    BY DEF TelInv
  <2> HIDE DEF r, q
  <2>3. /\ aged(r) \in AgentRows /\ aged(r).gone <= r.gone + 1 /\ r.gone \in Nat
        /\ waning(q) \in JobRows /\ waning(q).worker = q.worker /\ q.lease \in Nat
        /\ waning(q).lease > 0 => q.lease = waning(q).lease + 1
    BY <1>2, <1>4, <2>1
  <2>4. aged(r).gone \in Nat /\ waning(q).lease \in Nat
    BY <2>3 DEF AgentRows, JobRows
  <2>5. q.worker = {a}
    BY <1>7, <2>1, <2>3
  <2> QED BY <1>0, <2>1, <2>2, <2>3, <2>4, <2>5 DEF RowFresh
<1>8. (seen.pc = "rows" => SeenTrue)' /\ TelemetryHonest'
  BY <1>0 DEF TelInv, SeenTrue, TelemetryHonest
<1> QED BY <1>5, <1>6, <1>7, <1>8 DEF TelInv

\* The two reads of a request.
LEMMA RequestKeeps ==
  ASSUME TelInv, NEW a \in WorkerAgents, ReadRows(a) \/ ReadPresence(a)
  PROVE  TelInv'
<1>0. /\ agent' = agent /\ presence' = presence /\ row' = row
      /\ agent[a] \in AgentRows /\ presence[a] \in KeyRows /\ KeyFresh(agent[a], presence[a])
      /\ Ttl \in Nat /\ LeaseTicks \in Nat
  BY TelemetryAssumption DEF TelInv, TelTypes, ReadRows, ReadPresence, TelemetryAssumption
<1>1. seen' \in Requested /\ (SeenTrue' \/ seen'.pc # "rows") /\ TelemetryHonest' => TelInv'
  BY <1>0 DEF TelInv, TelTypes
<1>2. agent[a].gone \in Nat /\ presence[a].ttl \in Nat /\ presence[a].state \in Beats
  BY <1>0 DEF AgentRows, KeyRows
<1>3. CASE ReadRows(a)
  <2>1. seen' = [agent |-> {a}, pc |-> "rows", active |-> Active(a), gone |-> agent[a].gone, redis |-> TRUE,
                 state |-> NoState, overdue |-> \E j \in Running(a) : row[j].lease = 0, holds |-> HoldsRow(a)]
    BY <1>3 DEF ReadRows
  <2>2. HoldsRow(a) => Running(a) # {}
    BY DEF HoldsRow, Running, TelInv, LifeTrue
  <2>3. SeenTrue'
    BY <1>2, <2>1, <2>2, ActiveShows, TelemetryAssumption DEF SeenTrue
  <2>4. TelemetryHonest'
    BY <2>1 DEF TelemetryHonest
  <2>5. HoldsRow(a) \in BOOLEAN /\ (\E j \in Running(a) : row[j].lease = 0) \in BOOLEAN
    BY Zenon DEF HoldsRow
  <2>6. seen' \in Requested
    BY <1>2, <2>1, <2>5, ActiveShows, TelemetryAssumption DEF Requested, States
  <2> QED BY <1>1, <2>3, <2>4, <2>6
<1>4. CASE ReadPresence(a)
  <2>1. seen.pc = "rows" /\ SeenTrue
    BY <1>4 DEF ReadPresence, TelInv
  <2>2. PICK redis \in BOOLEAN :
          seen' = [seen EXCEPT !.pc = "shown", !.redis = redis,
                               !.gone = IF agent[a].gone < @ THEN agent[a].gone ELSE @,
                               !.state = StateShown(IF redis THEN presence[a].state ELSE NoState, seen.active)]
    BY <1>4 DEF ReadPresence
  <2> DEFINE live == IF redis THEN presence[a].state ELSE NoState
             less == IF agent[a].gone < seen.gone THEN agent[a].gone ELSE seen.gone
             said == StateShown(live, seen.active)
  <2>3. seen \in Requested /\ seen.gone \in Nat
    BY DEF TelInv, TelTypes, Requested
  <2>4. /\ less \in Nat /\ less <= seen.gone /\ less <= agent[a].gone
        /\ live # NoState => redis /\ agent[a].gone <= Ttl
        /\ live \in Beats
    BY <1>0, <1>2, <2>3 DEF KeyFresh, Beats
  <2>5. /\ said \in {"WORKING", "IDLE", "STALE", "OFFLINE"}
        /\ said = "STALE" => seen.active = "expired"
        /\ said = "OFFLINE" => seen.active = NoState
        /\ said = "WORKING" => seen.active = "held" \/ live = "WORKING"
        /\ said = "IDLE" => live = "IDLE"
    BY <2>3 DEF StateShown, Requested, NoState
  <2>6. seen' = [seen EXCEPT !.pc = "shown", !.redis = redis, !.gone = less, !.state = said]
    BY <2>2
  <2> HIDE DEF live, less, said
  <2>7. /\ seen' \in Requested /\ seen'.pc = "shown" /\ seen'.redis = redis /\ seen'.gone = less
        /\ seen'.state = said /\ seen'.active = seen.active
        /\ seen'.overdue = seen.overdue /\ seen'.holds = seen.holds
    BY <2>3, <2>4, <2>5, <2>6 DEF Requested, States
  <2>8. "WORKING" # NoState /\ "IDLE" # NoState
    BY DEF NoState
  <2>9. TelemetryHonest'
    <3>1. said \in {"WORKING", "IDLE"} => less <= Ttl \/ less <= LeaseTicks
      BY <1>0, <1>2, <2>1, <2>3, <2>4, <2>5, <2>8 DEF SeenTrue
    <3>2. redis /\ said = "WORKING" /\ seen.active = NoState => less <= Ttl
      BY <1>0, <1>2, <2>4, <2>5, <2>8 DEF NoState
    <3>3. said = "STALE" => seen.overdue
      BY <2>1, <2>5 DEF SeenTrue
    <3>4. said = "OFFLINE" => ~seen.holds
      BY <2>1, <2>5 DEF SeenTrue
    <3> QED BY <2>7, <3>1, <3>2, <3>3, <3>4 DEF TelemetryHonest
  <2> QED BY <1>1, <2>7, <2>9
<1> QED BY <1>3, <1>4

LEMMA TelInitInv == TelInit => TelInv
<1> SUFFICES ASSUME TelInit PROVE TelInv
  OBVIOUS
<1>1. TelTypes
  BY DEF TelInit, TelTypes, AgentRows, KeyRows, JobRows, Requested, TelLives, TelStages, Beats, States,
         NoKey, NoState, NoTask
<1>2. \A a \in WorkerAgents : /\ LifeTrue(agent[a]) /\ KeyFresh(agent[a], presence[a])
                              /\ \A j \in TelJobs : row[j].worker = {a} => RowFresh(agent[a], row[j])
  BY DEF TelInit, LifeTrue, KeyFresh, RowFresh, NoKey
<1>3. (seen.pc = "rows" => SeenTrue) /\ TelemetryHonest
  BY DEF TelInit, TelemetryHonest
<1> QED BY <1>1, <1>2, <1>3 DEF TelInv

LEMMA TelInvariant == TelInv /\ [TelNext]_telVars => TelInv'
<1>1. TelInv /\ UNCHANGED telVars => TelInv'
  <2> SUFFICES ASSUME TelInv, UNCHANGED telVars PROVE TelInv'
    OBVIOUS
  <2>1. UNCHANGED <<agent, presence, row, seen>>
    BY DEF telVars
  <2> QED BY <2>1 DEF TelInv, TelTypes, SeenTrue, TelemetryHonest
<1>2. TelInv /\ TelNext => TelInv'
  BY ProcessKeeps, RowKeeps, TickKeeps, RequestKeeps DEF TelNext
<1> QED BY <1>1, <1>2

-----------------------------------------------------------------------------
(* The gateway.  What is committed, and what the transaction holds, is a    *)
(* log that knows every object, and the transaction only adds to it, at its *)
(* own time: a replay of an earlier time reads the same entries after it.   *)

Writers == IdemKeys \cup {Worker}
Versions == [ver : Nat, by : Writers \cup {NoRecord}]
EventKinds == {"object", "edge", "config", "command"}
LogEntries == [kind : EventKinds, obj : Objects \cup {NoRecord}, snap : Versions, at : Nat, by : Writers]
Links == [ends : SUBSET Objects, at : Nat]
Databases == [objs : [Objects -> Versions], config : Nat, log : Seq(LogEntries),
              proj : [Objects -> Versions], edges : SUBSET Links,
              idem : [IdemKeys -> Results \cup {NoRecord}]]

\* The log names o, no later than t.
Named(d, o, t) == \E i \in DOMAIN d.log : d.log[i].obj = o /\ d.log[i].at <= t

Snapped(d) == \A i \in DOMAIN d.log : d.log[i].obj # NoRecord => d.log[i].snap.ver > 0
Dated(d, now) == \A i \in DOMAIN d.log : d.log[i].at <= now
KnownFrom(d, now) == \A o \in Objects : d.objs[o].ver > 0 => Named(d, o, now)
EndsKnown(d) == \A e \in d.edges : \A o \in e.ends : Named(d, o, e.at)
Sound(d, now) ==
  d \in Databases /\ d.proj = d.objs /\ Snapped(d) /\ Dated(d, now) /\ KnownFrom(d, now) /\ EndsKnown(d)

\* The events of a command's effect, and that there is at most the one of its record.
EventsBy(d, k) == {i \in DOMAIN d.log : d.log[i].kind = "command" /\ d.log[i].by = k}
OnlyEffect(d, k) == IF d.idem[k] = NoRecord THEN EventsBy(d, k) = {}
                    ELSE \E i \in DOMAIN d.log : EventsBy(d, k) = {i}

\* e is d and what was written at time t.
Extends(d, e, t) ==
  /\ DOMAIN d.log \subseteq DOMAIN e.log /\ d.edges \subseteq e.edges
  /\ \A i \in DOMAIN d.log : e.log[i] = d.log[i]
  /\ \A i \in DOMAIN e.log \ DOMAIN d.log : e.log[i].at = t
  /\ \A x \in e.edges \ d.edges : x.at = t

\* An entry is appended.
Appended(d, e, ent) ==
  /\ DOMAIN e.log = DOMAIN d.log \cup {Len(d.log) + 1} /\ Len(d.log) + 1 \notin DOMAIN d.log
  /\ e.log[Len(d.log) + 1] = ent /\ \A i \in DOMAIN d.log : e.log[i] = d.log[i]

PlainOf(d, e, kind, by) ==
  /\ e \in Databases /\ e.objs = d.objs /\ e.proj = d.proj /\ e.config = d.config
  /\ e.edges = d.edges /\ e.idem = d.idem
  /\ Appended(d, e, [kind |-> kind, obj |-> NoRecord, snap |-> NoObject, at |-> clock, by |-> by])

PutOf(d, e, o, v) ==
  /\ e \in Databases /\ e.objs = [d.objs EXCEPT ![o] = v] /\ e.proj = [d.proj EXCEPT ![o] = v]
  /\ e.edges = d.edges /\ e.idem = d.idem /\ e.config = d.config /\ v \in Versions /\ v.ver > 0
  /\ Appended(d, e, [kind |-> "object", obj |-> o, snap |-> v, at |-> clock, by |-> v.by])

LEMMA Appending ==
  ASSUME NEW s \in Seq(LogEntries), NEW ent \in LogEntries
  PROVE  /\ Append(s, ent) \in Seq(LogEntries) /\ Len(s) \in Nat
         /\ DOMAIN Append(s, ent) = DOMAIN s \cup {Len(s) + 1} /\ Len(s) + 1 \notin DOMAIN s
         /\ Append(s, ent)[Len(s) + 1] = ent /\ \A i \in DOMAIN s : Append(s, ent)[i] = s[i]
  OBVIOUS

LEMMA PlainFields ==
  ASSUME NEW d \in Databases, NEW kind \in EventKinds, NEW by \in Writers, clock \in Nat
  PROVE  PlainOf(d, PlainEvent(d, kind, by), kind, by)
<1> DEFINE ent == [kind |-> kind, obj |-> NoRecord, snap |-> NoObject, at |-> clock, by |-> by]
           e == PlainEvent(d, kind, by)
<1>1. ent \in LogEntries /\ d.log \in Seq(LogEntries)
  BY DEF LogEntries, Versions, NoObject, Databases
<1>2. e = [d EXCEPT !.log = Append(d.log, ent)]
  BY DEF PlainEvent
<1> HIDE DEF ent, e
<1>3. Append(d.log, ent) \in Seq(LogEntries)
  BY <1>1, Appending
<1>4. /\ e \in Databases /\ e.objs = d.objs /\ e.proj = d.proj /\ e.config = d.config
      /\ e.edges = d.edges /\ e.idem = d.idem /\ e.log = Append(d.log, ent)
  BY <1>2, <1>3 DEF Databases
<1>5. Appended(d, e, ent)
  BY <1>1, <1>4, Appending DEF Appended
<1> QED BY <1>4, <1>5 DEF PlainOf, ent, e

LEMMA PutFields ==
  ASSUME NEW d \in Databases, NEW o \in Objects, NEW by \in Writers, clock \in Nat
  PROVE  PutOf(d, Put(d, o, by), o, [ver |-> d.objs[o].ver + 1, by |-> by])
<1> DEFINE v == [ver |-> d.objs[o].ver + 1, by |-> by]
           new == [d EXCEPT !.objs[o] = [ver |-> @.ver + 1, by |-> by]]
           ent == [kind |-> "object", obj |-> o, snap |-> v, at |-> clock, by |-> by]
           e == Put(d, o, by)
<1>1. d.objs \in [Objects -> Versions] /\ d.proj \in [Objects -> Versions] /\ d.log \in Seq(LogEntries)
  BY DEF Databases
<1>2. d.objs[o].ver \in Nat
  BY <1>1 DEF Versions
<1>3. v \in Versions /\ v.ver > 0 /\ v.by = by
  BY <1>2 DEF Versions
<1>4. new = [d EXCEPT !.objs = [d.objs EXCEPT ![o] = v]]
  BY <1>1 DEF Databases
<1> HIDE DEF v
<1>5. /\ new.objs = [d.objs EXCEPT ![o] = v] /\ new.log = d.log /\ new.proj = d.proj
      /\ new.edges = d.edges /\ new.idem = d.idem /\ new.config = d.config
      /\ new \in Databases /\ new.objs[o] = v
  <2>1. [d.objs EXCEPT ![o] = v] \in [Objects -> Versions] /\ [d.objs EXCEPT ![o] = v][o] = v
    BY <1>1, <1>3
  <2> QED BY <1>4, <2>1 DEF Databases
<1>6. ent \in LogEntries
  BY <1>3 DEF LogEntries, EventKinds
<1> HIDE DEF new
<1>7. e = [new EXCEPT !.log = Append(@, [kind |-> "object", obj |-> o, snap |-> new.objs[o], at |-> clock, by |-> by]),
                      !.proj[o] = new.objs[o]]
  BY DEF Put, EventOf, new
<1>8. e = [new EXCEPT !.log = Append(d.log, ent), !.proj = [d.proj EXCEPT ![o] = v]]
  BY <1>5, <1>7 DEF Databases
<1> HIDE DEF e, ent
<1>9. Append(d.log, ent) \in Seq(LogEntries) /\ [d.proj EXCEPT ![o] = v] \in [Objects -> Versions]
  BY <1>1, <1>3, <1>6, Appending
<1>10. /\ e \in Databases /\ e.objs = [d.objs EXCEPT ![o] = v] /\ e.proj = [d.proj EXCEPT ![o] = v]
       /\ e.edges = d.edges /\ e.idem = d.idem /\ e.config = d.config /\ e.log = Append(d.log, ent)
  BY <1>5, <1>8, <1>9 DEF Databases
<1>11. Appended(d, e, ent)
  BY <1>1, <1>6, <1>10, Appending DEF Appended
<1> QED BY <1>3, <1>10, <1>11 DEF PutOf, ent, e, v

\* An entry more, of time now: what was named still is.
LEMMA NamedStays ==
  ASSUME NEW d, NEW e, NEW ent, Appended(d, e, ent), NEW o, NEW t, Named(d, o, t)
  PROVE  Named(e, o, t)
  BY DEF Appended, Named

LEMMA PlainSound ==
  ASSUME clock \in Nat, NEW d, Sound(d, clock), NEW e, NEW kind, NEW by \in Writers, PlainOf(d, e, kind, by)
  PROVE  /\ Sound(e, clock) /\ Extends(d, e, clock)
         /\ \A k \in IdemKeys : EventsBy(e, k) = IF k = by /\ kind = "command" THEN EventsBy(d, k) \cup {Len(d.log) + 1}
                                                 ELSE EventsBy(d, k)
<1> DEFINE ent == [kind |-> kind, obj |-> NoRecord, snap |-> NoObject, at |-> clock, by |-> by]
<1>1. Appended(d, e, ent) /\ e.objs = d.objs /\ e.proj = d.proj /\ e.edges = d.edges /\ e \in Databases
  BY DEF PlainOf
<1>2. ent.obj = NoRecord /\ ent.at = clock /\ ent.by = by /\ ent.kind = kind
  OBVIOUS
<1> HIDE DEF ent
<1>3. Snapped(e) /\ Dated(e, clock)
  BY <1>1, <1>2 DEF Sound, Snapped, Dated, Appended
<1>4. KnownFrom(e, clock) /\ EndsKnown(e)
  BY <1>1, NamedStays DEF Sound, KnownFrom, EndsKnown
<1>5. Extends(d, e, clock)
  BY <1>1, <1>2 DEF Appended, Extends
<1>6. ASSUME NEW k \in IdemKeys
      PROVE  EventsBy(e, k) = IF k = by /\ kind = "command" THEN EventsBy(d, k) \cup {Len(d.log) + 1} ELSE EventsBy(d, k)
  BY <1>1, <1>2 DEF Appended, EventsBy
<1> QED BY <1>1, <1>3, <1>4, <1>5, <1>6 DEF Sound

LEMMA PutSound ==
  ASSUME GatewayAssumption, clock \in Nat, NEW d, Sound(d, clock), NEW e, NEW o \in Objects, NEW v,
         PutOf(d, e, o, v)
  PROVE  /\ Sound(e, clock) /\ Extends(d, e, clock)
         /\ \A k \in IdemKeys : EventsBy(e, k) = EventsBy(d, k)
<1> DEFINE ent == [kind |-> "object", obj |-> o, snap |-> v, at |-> clock, by |-> v.by]
<1>1. /\ Appended(d, e, ent) /\ e.objs = [d.objs EXCEPT ![o] = v] /\ e.proj = [d.proj EXCEPT ![o] = v]
      /\ e.edges = d.edges /\ e \in Databases /\ v.ver > 0 /\ d.objs \in [Objects -> Versions]
  BY DEF PutOf, Sound, Databases
<1>2. ent.obj = o /\ ent.at = clock /\ ent.snap = v /\ o # NoRecord /\ ent.kind # "command"
  BY DEF GatewayAssumption
<1> HIDE DEF ent
<1>3. Snapped(e) /\ Dated(e, clock)
  BY <1>1, <1>2 DEF Sound, Snapped, Dated, Appended
<1>4. ASSUME NEW n \in Objects, e.objs[n].ver > 0 PROVE Named(e, n, clock)
  <2>1. CASE n = o
    BY <1>1, <1>2, <2>1 DEF Appended, Named
  <2>2. CASE n # o
    <3>1. e.objs[n] = d.objs[n]
      BY <1>1, <2>2
    <3> QED BY <1>1, <1>4, <3>1, NamedStays DEF Sound, KnownFrom
  <2> QED BY <2>1, <2>2
<1>5. KnownFrom(e, clock) /\ EndsKnown(e)
  BY <1>1, <1>4, NamedStays DEF Sound, KnownFrom, EndsKnown
<1>6. Extends(d, e, clock)
  BY <1>1, <1>2 DEF Appended, Extends
<1>7. ASSUME NEW k \in IdemKeys PROVE EventsBy(e, k) = EventsBy(d, k)
  BY <1>1, <1>2 DEF Appended, EventsBy
<1>8. e.proj = e.objs
  BY <1>1 DEF Sound
<1> QED BY <1>1, <1>3, <1>5, <1>6, <1>7, <1>8 DEF Sound

LEMMA ExtendsOn ==
  ASSUME NEW d, NEW e, NEW f, NEW t, Extends(d, e, t), Extends(e, f, t)
  PROVE  Extends(d, f, t)
<1>1. \A i \in DOMAIN d.log : i \in DOMAIN e.log /\ i \in DOMAIN f.log /\ f.log[i] = d.log[i]
  BY DEF Extends
<1>2. ASSUME NEW i \in DOMAIN f.log \ DOMAIN d.log PROVE f.log[i].at = t
  BY DEF Extends
<1>3. d.edges \subseteq f.edges /\ \A x \in f.edges \ d.edges : x.at = t
  BY DEF Extends
<1> QED BY <1>1, <1>2, <1>3 DEF Extends

\* The effect of a command: sound, and the command's only event and record.
Asked == [action : ActionNames, obj : Objects, expect : Nat]
EffectOf(d, e, cmd, k) ==
  /\ Sound(e, clock) /\ Extends(d, e, clock)
  /\ e.idem[k] \in Results /\ e.idem[k].cmd = cmd
  /\ \A j \in IdemKeys : j # k => e.idem[j] = d.idem[j] /\ EventsBy(e, j) = EventsBy(d, j)
  /\ \E i \in DOMAIN e.log : EventsBy(e, k) = {i}

LEMMA EffectKept ==
  ASSUME GatewayAssumption, clock \in Nat, NEW d, Sound(d, clock), NEW k \in IdemKeys, NEW cmd \in Asked,
         Accepts(d, cmd), EventsBy(d, k) = {}
  PROVE  EffectOf(d, Effect(d, cmd, k), cmd, k)
<1> DEFINE o == IF cmd.action = "change" THEN cmd.obj ELSE CHOOSE x \in Unused(d) : TRUE
           done == IF cmd.action = "configure" THEN Configured(d, k) ELSE Put(d, o, k)
           e == PlainEvent(done, "command", k)
           rec == [cmd |-> cmd, result |-> Len(d.log)]
           f == Effect(d, cmd, k)
<1>0. d \in Databases /\ k \in Writers /\ cmd.action \in ActionNames /\ cmd.obj \in Objects
      /\ d.log \in Seq(LogEntries) /\ Len(d.log) \in Nat
  BY DEF Sound, Writers, Asked, Databases
<1>1. /\ Sound(done, clock) /\ Extends(d, done, clock) /\ done.idem = d.idem
      /\ \A j \in IdemKeys : EventsBy(done, j) = EventsBy(d, j)
  <2>1. CASE cmd.action = "configure"
    <3> DEFINE c == [d EXCEPT !.config = @ + 1]
    <3>1. /\ c \in Databases /\ c.objs = d.objs /\ c.proj = d.proj /\ c.log = d.log
          /\ c.edges = d.edges /\ c.idem = d.idem
      <4>1. d.config + 1 \in Nat
        BY <1>0 DEF Databases
      <4> QED BY <1>0, <4>1 DEF Databases
    <3>2. done = PlainEvent(c, "config", k)
      BY <2>1 DEF Configured
    <3> HIDE DEF done, c
    <3>3. Sound(c, clock) /\ Extends(d, c, clock) /\ \A j \in IdemKeys : EventsBy(c, j) = EventsBy(d, j)
      BY <3>1 DEF Sound, Snapped, Dated, KnownFrom, EndsKnown, Named, Extends, EventsBy
    <3>4. PlainOf(c, done, "config", k)
      BY <1>0, <3>1, <3>2, PlainFields DEF EventKinds
    <3>5. /\ Sound(done, clock) /\ Extends(c, done, clock) /\ done.idem = c.idem
          /\ \A j \in IdemKeys : EventsBy(done, j) = EventsBy(c, j)
      BY <1>0, <3>3, <3>4, PlainSound DEF PlainOf
    <3> QED BY <3>1, <3>3, <3>5, ExtendsOn
  <2>2. CASE cmd.action # "configure"
    <3>1. o \in Objects
      <4>1. cmd.action \in {"create", "annotate"} => Unused(d) # {}
        BY DEF Accepts
      <4>2. cmd.action \in {"create", "annotate", "change"}
        BY <1>0, <2>2 DEF ActionNames
      <4> QED BY <1>0, <4>1, <4>2 DEF Unused
    <3>2. done = Put(d, o, k)
      BY <2>2
    <3> HIDE DEF o, done
    <3>3. PutOf(d, done, o, [ver |-> d.objs[o].ver + 1, by |-> k])
      BY <1>0, <3>1, <3>2, PutFields
    <3> QED BY <3>1, <3>3, PutSound DEF PutOf
  <2> QED BY <2>1, <2>2
<1>2. f = [e EXCEPT !.idem[k] = rec]
  BY DEF Effect
<1> HIDE DEF done, f
<1>3. PlainOf(done, e, "command", k)
  BY <1>0, <1>1, PlainFields DEF Sound, EventKinds
<1> HIDE DEF e
<1>4. /\ Sound(e, clock) /\ Extends(done, e, clock) /\ e.idem = d.idem /\ e \in Databases
      /\ \A j \in IdemKeys : EventsBy(e, j) = IF j = k THEN EventsBy(done, j) \cup {Len(done.log) + 1}
                                              ELSE EventsBy(done, j)
  BY <1>0, <1>1, <1>3, PlainSound DEF PlainOf, Sound
<1>5. Extends(d, e, clock)
  BY <1>1, <1>4, ExtendsOn
<1>6. rec \in Results /\ rec.cmd = cmd
  BY <1>0 DEF Results, Asked
<1> HIDE DEF rec
<1>7. e.idem \in [IdemKeys -> Results \cup {NoRecord}]
  BY <1>4 DEF Databases
<1>8. f = [e EXCEPT !.idem = [e.idem EXCEPT ![k] = rec]]
  BY <1>2, <1>4 DEF Databases
<1>9. [e.idem EXCEPT ![k] = rec] \in [IdemKeys -> Results \cup {NoRecord}]
  BY <1>6, <1>7
<1>10. /\ f \in Databases /\ f.objs = e.objs /\ f.proj = e.proj /\ f.log = e.log /\ f.edges = e.edges
       /\ f.idem = [e.idem EXCEPT ![k] = rec]
  BY <1>4, <1>8, <1>9 DEF Databases
<1>11. Sound(f, clock) /\ Extends(d, f, clock) /\ \A j \in IdemKeys : EventsBy(f, j) = EventsBy(e, j)
  BY <1>4, <1>5, <1>10 DEF Sound, Snapped, Dated, KnownFrom, EndsKnown, Named, Extends, EventsBy
<1>12. f.idem[k] = rec /\ \A j \in IdemKeys : j # k => f.idem[j] = d.idem[j]
  BY <1>4, <1>7, <1>10
<1>13. EventsBy(f, k) = {Len(done.log) + 1} /\ Len(done.log) + 1 \in DOMAIN f.log
  BY <1>1, <1>3, <1>4, <1>10, <1>11 DEF PlainOf, Appended
<1>14. \A j \in IdemKeys : j # k => EventsBy(f, j) = EventsBy(d, j)
  BY <1>1, <1>4, <1>11
<1> QED BY <1>6, <1>11, <1>12, <1>13, <1>14 DEF EffectOf, f

-----------------------------------------------------------------------------
\* What is read of the past: the entries up to that time, and of them the last of each object.
UpTo(d, o, t) == {i \in DOMAIN d.log : d.log[i].obj = o /\ d.log[i].at <= t}
LastUp(d, o, t) == CHOOSE i \in UpTo(d, o, t) : \A j \in UpTo(d, o, t) : j <= i

LEMMA LastOne ==
  ASSUME NEW d \in Databases, NEW o, NEW t, UpTo(d, o, t) # {}
  PROVE  LastUp(d, o, t) \in UpTo(d, o, t)
<1>1. d.log \in Seq(LogEntries)
  BY DEF Databases
<1>2. DOMAIN d.log = 1..Len(d.log) /\ Len(d.log) \in Nat
  BY <1>1
<1>3. UpTo(d, o, t) \subseteq 1..Len(d.log)
  BY <1>2 DEF UpTo
<1>4. IsFiniteSet(UpTo(d, o, t)) /\ UpTo(d, o, t) \in SUBSET Nat
  <2>1. IsFiniteSet(1..Len(d.log))
    BY <1>2, FS_Interval
  <2>2. IsFiniteSet(UpTo(d, o, t))
    BY <1>3, <2>1, FS_Subset
  <2>3. 1..Len(d.log) \subseteq Nat
    BY <1>2
  <2> QED BY <1>3, <2>2, <2>3
<1> DEFINE S == UpTo(d, o, t)
<1> HIDE DEF S
<1>5. S # {} /\ IsFiniteSet(S) /\ S \in SUBSET Nat
  BY <1>4 DEF S
<1>6. \E x \in S : \A y \in S : y <= x
  BY <1>5, Greatest
<1> QED BY <1>6 DEF S, LastUp

LEMMA ReplayIs ==
  ASSUME NEW d, NEW t, NEW o \in Objects
  PROVE  Replay(d, t)[o] = IF UpTo(d, o, t) = {} THEN NoObject
                           ELSE d.log[LastUp(d, o, t)].snap
  BY DEF Replay, UpTo, LastUp

\* What a transaction adds is not of a time before it.
LEMMA PastSame ==
  ASSUME NEW d \in Databases, NEW e \in Databases, NEW t \in Nat, NEW u \in Nat, u < t, Extends(d, e, t)
  PROVE  /\ Replay(e, u) = Replay(d, u) /\ EdgesAt(e, u) = EdgesAt(d, u)
         /\ Existing(e, u) = Existing(d, u)
<1>1. ASSUME NEW o \in Objects PROVE Replay(e, u)[o] = Replay(d, u)[o]
  <2>1. ~(t <= u)
    OBVIOUS
  <2>2. UpTo(e, o, u) = UpTo(d, o, u)
    BY <2>1 DEF UpTo, Extends
  <2> DEFINE last == LastUp(d, o, u)
  <2>3. UpTo(d, o, u) # {} => last \in DOMAIN d.log
    <3>1. UpTo(d, o, u) # {} => last \in UpTo(d, o, u)
      BY LastOne
    <3> QED BY <3>1 DEF UpTo
  <2>6. LastUp(e, o, u) = last
    BY <2>2 DEF LastUp
  <2>4. UpTo(d, o, u) # {} => e.log[last] = d.log[last]
    BY <2>3 DEF Extends
  <2>5. /\ Replay(e, u)[o] = IF UpTo(d, o, u) = {} THEN NoObject ELSE e.log[last].snap
        /\ Replay(d, u)[o] = IF UpTo(d, o, u) = {} THEN NoObject ELSE d.log[last].snap
    BY <2>2, <2>6, ReplayIs
  <2> HIDE DEF last
  <2> QED BY <2>4, <2>5
<1>2. Replay(e, u) = Replay(d, u)
  BY <1>1 DEF Replay
<1>3. EdgesAt(e, u) = EdgesAt(d, u)
  <2>1. ~(t <= u)
    OBVIOUS
  <2> QED BY <2>1 DEF EdgesAt, Extends
<1> QED BY <1>2, <1>3 DEF Existing

LEMMA NamedThere ==
  ASSUME GatewayAssumption, NEW d, NEW now, Sound(d, now), NEW o \in Objects, NEW t, Named(d, o, t)
  PROVE  Replay(d, t)[o].ver > 0
<1>1. UpTo(d, o, t) # {}
  BY DEF Named, UpTo
<1> DEFINE last == LastUp(d, o, t)
<1>2. last \in UpTo(d, o, t)
  BY <1>1, LastOne DEF Sound
<1>3. Replay(d, t)[o] = d.log[last].snap
  BY <1>1, ReplayIs
<1> HIDE DEF last
<1>4. last \in DOMAIN d.log /\ d.log[last].obj = o /\ o # NoRecord
  BY <1>2 DEF UpTo, GatewayAssumption
<1> QED BY <1>3, <1>4 DEF Sound, Snapped

-----------------------------------------------------------------------------
Senders == [pc : {"new", "sent", "lost", "refused", "conflict", "done"},
            cmd : Asked \cup {NoRecord}, got : Nat \cup {NoRecord}]

\* What the sender s was told, of the record r of its key.
ToldOf(s, r) ==
  /\ s.pc # "new" => s.cmd \in Asked
  /\ s.pc = "done" => r = [cmd |-> s.cmd, result |-> s.got]
  /\ s.pc \in {"conflict", "refused"} => r = NoRecord \/ r.cmd # s.cmd

KeysKept == \A k \in IdemKeys : ToldOf(sender[k], db.idem[k]) /\ OnlyEffect(db, k)

TxOpen ==
  tx # NoRecord =>
    /\ tx.start \in Nat /\ tx.start <= clock /\ tx.by \in Writers
    /\ Sound(tx.db, clock) /\ Extends(db, tx.db, tx.start)
    /\ \A j \in IdemKeys : j # tx.by => tx.db.idem[j] = db.idem[j] /\ EventsBy(tx.db, j) = EventsBy(db, j)
    /\ tx.by \in IdemKeys => /\ sender[tx.by].pc = "sent"
                             /\ tx.db.idem[tx.by] \in Results /\ tx.db.idem[tx.by].cmd = sender[tx.by].cmd
                             /\ \E i \in DOMAIN tx.db.log : EventsBy(tx.db, tx.by) = {i}

\* A read of the past: as PastStands says, and closed, which all reads are.
PastKept(d) ==
  /\ \A o \in DOMAIN shot.nodes : shot.nodes[o] = Replay(d, shot.at)[o]
  /\ shot.pc = "replayed" => DOMAIN shot.nodes \in Some(Existing(d, shot.at), ReplayLimit)
  /\ shot.edges \subseteq EdgesAt(d, shot.at)
  /\ ~shot.cut => \A e \in EdgesAt(d, shot.at) : e.ends \cap Passed # {} => e \in shot.edges
ShotPast ==
  shot.past => /\ shot.at \in Nat /\ shot.at < clock /\ (tx # NoRecord => shot.at < tx.start)
               /\ PastKept(db)

ShotFields == {"pc", "at", "past", "sel", "front", "edges", "todo", "nodes", "left", "limit", "cut"}
IsShot == /\ DOMAIN shot = ShotFields /\ shot = [f \in ShotFields |-> shot[f]]
          /\ shot.at \in Nat /\ shot.pc \in {"none", "replayed", "walks", "reads"}
          /\ shot.sel \subseteq Objects

\* What the walk has taken was there, and is closed; nothing is read before it ends.
ShotClosed ==
  /\ \A e \in shot.edges : e \in db.edges /\ e.at <= shot.at
  /\ \A e \in shot.edges : e.ends \subseteq shot.sel
  /\ shot.pc \in {"none", "walks"} => DOMAIN shot.nodes = {}
  /\ shot.pc = "replayed" => shot.edges = {}
  /\ shot.pc = "reads" => \A e \in shot.edges : e.ends \ shot.todo \subseteq DOMAIN shot.nodes

GatewayInv ==
  /\ clock \in Nat /\ Sound(db, clock) /\ sender \in [IdemKeys -> Senders]
  /\ KeysKept /\ TxOpen /\ IsShot /\ ShotPast /\ ShotClosed

LEMMA GatewayHolds ==
  ASSUME GatewayInv
  PROVE  GatewayKept
<1>1. ASSUME NEW k \in IdemKeys
      PROVE  CountBy(k) = (IF db.idem[k] = NoRecord THEN 0 ELSE 1)
  <2>1. CountBy(k) = Cardinality(EventsBy(db, k)) /\ OnlyEffect(db, k)
    BY DEF CountBy, EventsBy, GatewayInv, KeysKept
  <2>2. CASE db.idem[k] = NoRecord
    BY <2>1, <2>2, FS_EmptySet DEF OnlyEffect
  <2>3. CASE db.idem[k] # NoRecord
    <3>1. PICK i \in DOMAIN db.log : EventsBy(db, k) = {i}
      BY <2>1, <2>3 DEF OnlyEffect
    <3> QED BY <2>1, <2>3, <3>1, FS_Singleton
  <2> QED BY <2>2, <2>3
<1>2. OneEffect
  BY <1>1 DEF OneEffect, GatewayInv, KeysKept, ToldOf
<1>3. PastStands
  BY DEF PastStands, GatewayInv, Sound, ShotPast, PastKept, ShotClosed
<1> QED BY <1>2, <1>3 DEF GatewayKept

\* A sender that was not told anything that its key's record contradicts.
LEMMA SenderMoves ==
  ASSUME GatewayInv, NEW k \in IdemKeys, NEW s \in Senders, sender' = [sender EXCEPT ![k] = s],
         ToldOf(s, db.idem[k]), tx # NoRecord => tx.by # k, UNCHANGED <<db, tx, clock, shot>>
  PROVE  GatewayInv'
<1>1. sender' \in [IdemKeys -> Senders] /\ \A j \in IdemKeys : sender'[j] = IF j = k THEN s ELSE sender[j]
  BY DEF GatewayInv
<1>2. KeysKept' /\ TxOpen'
  BY <1>1 DEF GatewayInv, KeysKept, TxOpen
<1>3. IsShot' /\ ShotPast' /\ ShotClosed'
  BY DEF GatewayInv, IsShot, ShotPast, PastKept, Passed, ShotClosed
<1> QED BY <1>1, <1>2, <1>3 DEF GatewayInv

LEMMA SenderKeeps ==
  ASSUME GatewayInv, NEW k \in IdemKeys,
         \/ \E a \in ActionNames, o \in Objects : Send(k, a, o)
         \/ Resend(k) \/ Reuse(k) \/ Repeated(k) \/ Refuse(k)
  PROVE  GatewayInv'
<1> DEFINE old == sender[k]
<1>0. /\ old \in Senders /\ sender \in [IdemKeys -> Senders] /\ ToldOf(old, db.idem[k])
      /\ db \in Databases /\ db.idem[k] \in Results \cup {NoRecord}
      /\ tx # NoRecord /\ tx.by = k => old.pc = "sent"
  BY DEF GatewayInv, KeysKept, TxOpen, Sound, Databases
<1>1. \A o \in Objects : db.objs[o].ver \in Nat
  BY <1>0 DEF Databases, Versions
<1>2. UNCHANGED <<db, tx, clock, shot>>
  BY DEF Send, Resend, Reuse, Repeated, Refuse
<1>3. ASSUME NEW s \in Senders, sender' = [sender EXCEPT ![k] = s], ToldOf(s, db.idem[k]),
             tx = NoRecord \/ old.pc # "sent"
      PROVE  GatewayInv'
  BY <1>0, <1>2, <1>3, SenderMoves
<1>4. ASSUME NEW a \in ActionNames, NEW o \in Objects, Send(k, a, o) PROVE GatewayInv'
  <2> DEFINE cmd == [action |-> a, obj |-> o, expect |-> IF a = "configure" THEN db.config ELSE db.objs[o].ver]
             s == [pc |-> "sent", cmd |-> cmd, got |-> NoRecord]
  <2>1. sender' = [sender EXCEPT ![k] = s] /\ old.pc \in {"new", "refused"}
    BY <1>4 DEF Send
  <2>2. db.config \in Nat
    BY <1>0 DEF Databases
  <2>3. cmd \in Asked
    BY <1>1, <2>2 DEF Asked
  <2> HIDE DEF cmd
  <2>4. s \in Senders /\ ToldOf(s, db.idem[k])
    BY <2>3 DEF Senders, ToldOf
  <2> QED BY <1>3, <2>1, <2>4
<1>5. CASE Resend(k)
  <2> DEFINE s == [old EXCEPT !.pc = "sent"]
  <2>1. sender' = [sender EXCEPT ![k] = s] /\ old.pc = "lost"
    BY <1>0, <1>5 DEF Resend
  <2>2. s \in Senders /\ ToldOf(s, db.idem[k])
    BY <1>0, <2>1 DEF Senders, ToldOf
  <2> QED BY <1>3, <2>1, <2>2
<1>6. CASE Reuse(k)
  <2> DEFINE cmd == [old.cmd EXCEPT !.expect = db.objs[old.cmd.obj].ver]
             s == [old EXCEPT !.pc = "sent", !.cmd = cmd]
  <2>1. old.pc = "lost" /\ old.cmd \in Asked
    BY <1>0, <1>6 DEF Reuse, ToldOf
  <2>2. sender' = [sender EXCEPT ![k] = s]
    BY <1>0, <1>6, <2>1 DEF Reuse, Senders
  <2>3. cmd \in Asked
    BY <1>1, <2>1 DEF Asked
  <2> HIDE DEF cmd
  <2>4. s \in Senders /\ ToldOf(s, db.idem[k])
    BY <1>0, <2>3 DEF Senders, ToldOf
  <2> QED BY <1>3, <2>1, <2>2, <2>4
<1>7. CASE Repeated(k)
  <2>1. tx = NoRecord /\ old.pc = "sent" /\ db.idem[k] \in Results /\ old.cmd \in Asked
    BY <1>0, <1>7 DEF Repeated, ToldOf
  <2>2. CASE db.idem[k].cmd = old.cmd /\ sender' = [sender EXCEPT ![k].pc = "done", ![k].got = db.idem[k].result]
    <3> DEFINE s == [old EXCEPT !.pc = "done", !.got = db.idem[k].result]
    <3>1. sender' = [sender EXCEPT ![k] = s]
      BY <1>0, <2>2
    <3>2. db.idem[k].result \in Nat /\ db.idem[k] = [cmd |-> db.idem[k].cmd, result |-> db.idem[k].result]
      BY <2>1 DEF Results
    <3>3. s \in Senders /\ ToldOf(s, db.idem[k])
      BY <1>0, <2>1, <2>2, <3>2 DEF Senders, ToldOf
    <3> QED BY <1>3, <2>1, <3>1, <3>3
  <2>3. CASE db.idem[k].cmd # old.cmd /\ sender' = [sender EXCEPT ![k].pc = "conflict"]
    <3> DEFINE s == [old EXCEPT !.pc = "conflict"]
    <3>1. sender' = [sender EXCEPT ![k] = s]
      BY <1>0, <2>3
    <3>2. s \in Senders /\ ToldOf(s, db.idem[k])
      BY <1>0, <2>1, <2>3 DEF Senders, ToldOf
    <3> QED BY <1>3, <2>1, <3>1, <3>2
  <2>4. CASE sender' = [sender EXCEPT ![k].pc = "lost"]
    <3> DEFINE s == [old EXCEPT !.pc = "lost"]
    <3>1. sender' = [sender EXCEPT ![k] = s]
      BY <1>0, <2>4
    <3>2. s \in Senders /\ ToldOf(s, db.idem[k])
      BY <1>0, <2>1 DEF Senders, ToldOf
    <3> QED BY <1>3, <2>1, <3>1, <3>2
  <2> QED BY <1>7, <2>2, <2>3, <2>4 DEF Repeated
<1>8. CASE Refuse(k)
  <2> DEFINE s == [old EXCEPT !.pc = "refused"]
  <2>1. sender' = [sender EXCEPT ![k] = s] /\ tx = NoRecord /\ old.pc = "sent" /\ db.idem[k] = NoRecord
    BY <1>0, <1>8 DEF Refuse
  <2>2. s \in Senders /\ ToldOf(s, db.idem[k])
    BY <1>0, <2>1 DEF Senders, ToldOf
  <2> QED BY <1>3, <2>1, <2>2
<1> QED BY <1>4, <1>5, <1>6, <1>7, <1>8

\* A transaction opens on what is committed.
LEMMA TxOpens ==
  ASSUME GatewayAssumption, GatewayInv,
         \/ \E k \in IdemKeys : Execute(k)
         \/ WorkerWrites
  PROVE  GatewayInv'
<1>0. /\ clock \in Nat /\ Sound(db, clock) /\ db \in Databases /\ Worker \in Writers /\ Worker \notin IdemKeys
      /\ tx = NoRecord /\ UNCHANGED <<db, sender, clock, shot>>
  BY DEF GatewayInv, Sound, Writers, GatewayAssumption, Execute, WorkerWrites
<1>1. KeysKept' /\ ShotClosed' /\ IsShot'
  <2>1. KeysKept'
    BY <1>0 DEF GatewayInv, KeysKept, OnlyEffect, EventsBy
  <2>2. ShotClosed' /\ IsShot'
    BY <1>0 DEF GatewayInv, ShotClosed, IsShot
  <2> QED BY <2>1, <2>2
<1>2. tx'.start = clock => ShotPast'
  BY <1>0 DEF GatewayInv, ShotPast, PastKept, Passed
<1>3. tx'.start = clock /\ TxOpen' => GatewayInv'
  BY <1>0, <1>1, <1>2 DEF GatewayInv
<1>4. ASSUME NEW k \in IdemKeys, Execute(k) PROVE GatewayInv'
  <2> DEFINE e == Effect(db, sender[k].cmd, k)
  <2>1. /\ sender[k].pc = "sent" /\ db.idem[k] = NoRecord /\ Accepts(db, sender[k].cmd)
        /\ tx' = [by |-> k, start |-> clock, db |-> e]
    BY <1>4 DEF Execute
  <2>2. sender[k].cmd \in Asked /\ EventsBy(db, k) = {} /\ k \in Writers
    BY <2>1 DEF GatewayInv, KeysKept, ToldOf, OnlyEffect, Writers
  <2>3. EffectOf(db, e, sender[k].cmd, k)
    BY <1>0, <2>1, <2>2, EffectKept
  <2> HIDE DEF e
  <2>4. tx'.by = k /\ tx'.start = clock /\ tx'.db = e /\ clock <= clock
    BY <1>0, <2>1
  <2>5. TxOpen'
    BY <1>0, <2>1, <2>2, <2>3, <2>4 DEF TxOpen, EffectOf
  <2> QED BY <1>3, <2>4, <2>5
<1>5. ASSUME NEW e, tx' = [by |-> Worker, start |-> clock, db |-> e], Sound(e, clock), Extends(db, e, clock),
             \A j \in IdemKeys : e.idem[j] = db.idem[j] /\ EventsBy(e, j) = EventsBy(db, j)
      PROVE  GatewayInv'
  <2>1. tx'.by = Worker /\ tx'.start = clock /\ tx'.db = e /\ clock <= clock
    BY <1>0, <1>5
  <2>2. TxOpen'
    BY <1>0, <1>5, <2>1 DEF TxOpen
  <2> QED BY <1>3, <2>1, <2>2
<1>6. CASE WorkerWrites
  <2>1. PICK o \in There(db) : \E b \in There(db) : \E e \in {Put(db, o, Worker), LinkOf(db, o, b)} :
               tx' = [by |-> Worker, start |-> clock, db |-> e]
    BY <1>6 DEF WorkerWrites
  <2>2. PICK b \in There(db) : \E e \in {Put(db, o, Worker), LinkOf(db, o, b)} :
               tx' = [by |-> Worker, start |-> clock, db |-> e]
    BY <2>1
  <2>3. PICK e \in {Put(db, o, Worker), LinkOf(db, o, b)} : tx' = [by |-> Worker, start |-> clock, db |-> e]
    BY <2>2
  <2>4. o \in Objects /\ b \in Objects /\ db.objs[o].ver > 0 /\ db.objs[b].ver > 0
    BY DEF There
  <2>5. CASE e = Put(db, o, Worker)
    <3> DEFINE v == [ver |-> db.objs[o].ver + 1, by |-> Worker]
    <3>3. PutOf(db, e, o, v)
      BY <1>0, <2>4, <2>5, PutFields
    <3> HIDE DEF v
    <3>4. /\ Sound(e, clock) /\ Extends(db, e, clock) /\ e.idem = db.idem
          /\ \A j \in IdemKeys : EventsBy(e, j) = EventsBy(db, j)
      BY <1>0, <2>4, <3>3, PutSound DEF PutOf
    <3> QED BY <1>5, <2>3, <3>4
  <2>6. CASE e = LinkOf(db, o, b)
    <3> DEFINE edge == [ends |-> {o, b}, at |-> clock]
               d == [db EXCEPT !.edges = @ \cup {edge}]
    <3>3. e = PlainEvent(d, "edge", Worker)
      BY <2>6 DEF LinkOf
    <3>4. edge \in Links /\ edge.ends = {o, b} /\ edge.at = clock
      BY <1>0, <2>4 DEF Links
    <3> HIDE DEF edge
    <3>5. /\ d \in Databases /\ d.objs = db.objs /\ d.proj = db.proj /\ d.log = db.log
          /\ d.idem = db.idem /\ d.edges = db.edges \cup {edge}
      BY <1>0, <3>4 DEF Databases
    <3> HIDE DEF d
    <3>6. Named(db, o, clock) /\ Named(db, b, clock)
      BY <1>0, <2>4 DEF Sound, KnownFrom
    <3>7. EndsKnown(d)
      <4> SUFFICES ASSUME NEW x \in d.edges, NEW n \in x.ends PROVE Named(d, n, x.at)
        BY DEF EndsKnown
      <4>1. CASE x \in db.edges
        BY <1>0, <3>5, <4>1 DEF Sound, EndsKnown, Named
      <4>2. CASE x = edge
        BY <3>4, <3>5, <3>6, <4>2 DEF Named
      <4> QED BY <3>5, <4>1, <4>2
    <3>8. Sound(d, clock) /\ Extends(db, d, clock) /\ \A j \in IdemKeys : EventsBy(d, j) = EventsBy(db, j)
      BY <1>0, <3>4, <3>5, <3>7 DEF Sound, Snapped, Dated, KnownFrom, Named, Extends, EventsBy
    <3>9. PlainOf(d, e, "edge", Worker)
      BY <1>0, <3>3, <3>5, PlainFields DEF EventKinds
    <3>10. /\ Sound(e, clock) /\ Extends(d, e, clock) /\ e.idem = db.idem
           /\ \A j \in IdemKeys : EventsBy(e, j) = EventsBy(db, j)
      <4>1. /\ Sound(e, clock) /\ Extends(d, e, clock)
            /\ \A j \in IdemKeys : j # Worker => EventsBy(e, j) = EventsBy(d, j)
        BY <1>0, <3>8, <3>9, PlainSound
      <4>2. e.idem = db.idem
        BY <3>5, <3>9 DEF PlainOf
      <4> QED BY <1>0, <3>8, <4>1, <4>2
    <3>11. Extends(db, e, clock)
      BY <3>8, <3>10, ExtendsOn
    <3> QED BY <1>5, <2>3, <3>10, <3>11
  <2> QED BY <2>3, <2>5, <2>6
<1> QED BY <1>4, <1>6

\* It commits, or rolls back.
LEMMA TxEnds ==
  ASSUME GatewayAssumption, GatewayInv, Commit \/ RollsBack
  PROVE  GatewayInv'
<1>0. /\ tx # NoRecord /\ tx' = NoRecord /\ UNCHANGED <<clock, shot>> /\ clock \in Nat
      /\ sender \in [IdemKeys -> Senders] /\ db \in Databases /\ Worker \notin IdemKeys
  BY DEF Commit, RollsBack, GatewayInv, Sound, GatewayAssumption
<1>1. /\ tx.start \in Nat /\ tx.start <= clock /\ tx.by \in Writers
      /\ Sound(tx.db, clock) /\ Extends(db, tx.db, tx.start) /\ tx.db \in Databases
      /\ \A j \in IdemKeys : j # tx.by => tx.db.idem[j] = db.idem[j] /\ EventsBy(tx.db, j) = EventsBy(db, j)
  BY <1>0 DEF GatewayInv, TxOpen, Sound
<1>2. tx.by \in IdemKeys =>
        /\ sender[tx.by].pc = "sent" /\ sender[tx.by] \in Senders /\ sender[tx.by].cmd \in Asked
        /\ tx.db.idem[tx.by] \in Results /\ tx.db.idem[tx.by].cmd = sender[tx.by].cmd
        /\ \E i \in DOMAIN tx.db.log : EventsBy(tx.db, tx.by) = {i}
  BY <1>0 DEF GatewayInv, TxOpen, KeysKept, ToldOf
<1>3. TxOpen' /\ IsShot'
  BY <1>0 DEF TxOpen, GatewayInv, IsShot
<1>4. tx.by = Worker \/ tx.by \in IdemKeys
  BY <1>1 DEF Writers
\* Who waited for it hears of it, or not.
<1>5. ASSUME NEW pc \in {"done", "lost"}, NEW got \in Nat \cup {NoRecord}, tx.by \in IdemKeys,
             pc = "done" => db'.idem[tx.by] = [cmd |-> sender[tx.by].cmd, result |-> got],
             sender' = [sender EXCEPT ![tx.by] = [@ EXCEPT !.pc = pc, !.got = got]],
             \A j \in IdemKeys : j # tx.by => db'.idem[j] = db.idem[j] /\ EventsBy(db', j) = EventsBy(db, j),
             \A j \in IdemKeys : j # tx.by => OnlyEffect(db', j), OnlyEffect(db', tx.by)
      PROVE  sender' \in [IdemKeys -> Senders] /\ KeysKept'
  <2> DEFINE s == [sender[tx.by] EXCEPT !.pc = pc, !.got = got]
  <2>1. s \in Senders /\ s.pc = pc /\ s.cmd = sender[tx.by].cmd /\ s.got = got
    BY <1>2, <1>5 DEF Senders
  <2>2. ToldOf(s, db'.idem[tx.by])
    BY <1>2, <1>5, <2>1 DEF ToldOf
  <2>3. sender' = [sender EXCEPT ![tx.by] = s]
    BY <1>5
  <2> HIDE DEF s
  <2>4. sender' \in [IdemKeys -> Senders] /\ \A j \in IdemKeys : sender'[j] = IF j = tx.by THEN s ELSE sender[j]
    BY <1>0, <1>5, <2>1, <2>3
  <2> QED BY <1>5, <2>2, <2>4 DEF KeysKept, GatewayInv
<1>6. CASE Commit
  <2>1. db' = tx.db
    BY <1>6 DEF Commit
  <2>2. ShotPast' /\ ShotClosed'
    <3>1. shot.past => shot.at \in Nat /\ shot.at < tx.start /\ PastKept(db)
      BY <1>0 DEF GatewayInv, ShotPast
    <3>2. shot.past => /\ Replay(db', shot.at) = Replay(db, shot.at) /\ EdgesAt(db', shot.at) = EdgesAt(db, shot.at)
                       /\ Existing(db', shot.at) = Existing(db, shot.at)
      BY <1>0, <1>1, <2>1, <3>1, PastSame
    <3>3. ShotPast'
      BY <1>0, <3>1, <3>2 DEF GatewayInv, ShotPast, PastKept, Passed
    <3>4. db.edges \subseteq db'.edges
      BY <1>1, <2>1 DEF Extends
    <3> QED BY <1>0, <3>3, <3>4 DEF GatewayInv, ShotClosed
  <2>3. ASSUME NEW j \in IdemKeys, j # tx.by PROVE OnlyEffect(db', j) /\ db'.idem[j] = db.idem[j]
    <3>1. OnlyEffect(db, j) /\ EventsBy(db', j) = EventsBy(db, j) /\ db'.idem[j] = db.idem[j]
      BY <1>1, <2>1, <2>3 DEF GatewayInv, KeysKept
    <3>2. DOMAIN db.log \subseteq DOMAIN db'.log
      BY <1>1, <2>1 DEF Extends
    <3> QED BY <3>1, <3>2 DEF OnlyEffect
  <2>4. CASE tx.by = Worker
    <3>1. sender' = sender
      BY <1>6, <2>4 DEF Commit
    <3>2. KeysKept'
      BY <1>0, <2>3, <2>4, <3>1 DEF GatewayInv, KeysKept
    <3> QED BY <1>0, <1>1, <1>3, <2>1, <2>2, <3>1, <3>2 DEF GatewayInv
  <2>5. CASE tx.by \in IdemKeys
    <3> DEFINE k == tx.by
               r == tx.db.idem[tx.by]
    <3>1. r \in Results /\ r # NoRecord
      BY <1>2, <2>5 DEF GatewayAssumption
    <3>2. OnlyEffect(db', k)
      BY <1>2, <2>1, <2>5, <3>1 DEF OnlyEffect
    <3>3. r.result \in Nat /\ r = [cmd |-> sender[k].cmd, result |-> r.result]
      BY <1>2, <2>5, <3>1 DEF Results
    <3>4. \/ sender' = [sender EXCEPT ![k].pc = "done", ![k].got = r.result]
          \/ sender' = [sender EXCEPT ![k].pc = "lost"]
      BY <1>0, <1>6, <2>5 DEF Commit
    <3>5. CASE sender' = [sender EXCEPT ![k].pc = "done", ![k].got = r.result]
      <4>1. sender' = [sender EXCEPT ![k] = [@ EXCEPT !.pc = "done", !.got = r.result]]
        BY <1>0, <2>5, <3>5
      <4> QED BY <1>1, <1>5, <2>1, <2>3, <2>5, <3>2, <3>3, <4>1, <1>0, <1>3, <2>2 DEF GatewayInv
    <3>6. CASE sender' = [sender EXCEPT ![k].pc = "lost"]
      <4>1. sender[k].got \in Nat \cup {NoRecord}
        BY <1>2, <2>5 DEF Senders
      <4>2. sender' = [sender EXCEPT ![k] = [@ EXCEPT !.pc = "lost", !.got = sender[k].got]]
        BY <1>0, <1>2, <2>5, <3>6 DEF Senders
      <4> QED BY <1>1, <1>5, <2>1, <2>3, <2>5, <3>2, <4>1, <4>2, <1>0, <1>3, <2>2 DEF GatewayInv
    <3> QED BY <3>4, <3>5, <3>6
  <2> QED BY <1>4, <2>4, <2>5
<1>7. CASE RollsBack
  <2>1. db' = db
    BY <1>7 DEF RollsBack
  <2>2. ShotPast' /\ ShotClosed' /\ Sound(db', clock')
    BY <1>0, <2>1 DEF GatewayInv, ShotPast, PastKept, Passed, ShotClosed
  <2>3. \A j \in IdemKeys : OnlyEffect(db', j)
    BY <2>1 DEF GatewayInv, KeysKept
  <2>4. CASE tx.by = Worker
    <3>1. sender' = sender
      BY <1>7, <2>4 DEF RollsBack
    <3> QED BY <1>0, <1>3, <2>1, <2>2, <3>1 DEF GatewayInv, KeysKept
  <2>5. CASE tx.by \in IdemKeys
    <3>1. sender' = [sender EXCEPT ![tx.by].pc = "lost"]
      BY <1>0, <1>7, <2>5 DEF RollsBack
    <3>2. sender[tx.by].got \in Nat \cup {NoRecord}
      BY <1>2, <2>5 DEF Senders
    <3>3. sender' = [sender EXCEPT ![tx.by] = [@ EXCEPT !.pc = "lost", !.got = sender[tx.by].got]]
      BY <1>0, <1>2, <2>5, <3>1 DEF Senders
    <3>4. sender' \in [IdemKeys -> Senders] /\ KeysKept'
      BY <1>5, <2>1, <2>3, <2>5, <3>2, <3>3
    <3> QED BY <1>0, <1>3, <2>1, <2>2, <3>4 DEF GatewayInv
  <2> QED BY <1>4, <2>4, <2>5
<1> QED BY <1>6, <1>7

LEMMA SoundLater ==
  ASSUME NEW d, NEW t \in Nat, NEW u \in Nat, t <= u, Sound(d, t)
  PROVE  Sound(d, u)
<1>1. \A i \in DOMAIN d.log : d.log[i].at \in Nat
  <2>1. d.log \in Seq(LogEntries)
    BY DEF Sound, Databases
  <2>2. \A i \in DOMAIN d.log : d.log[i] \in LogEntries
    BY <2>1
  <2> QED BY <2>2 DEF LogEntries
<1>2. Dated(d, u)
  BY <1>1 DEF Sound, Dated
<1>3. \A o : Named(d, o, t) => Named(d, o, u)
  BY <1>1 DEF Named
<1> QED BY <1>2, <1>3 DEF Sound, KnownFrom

LEMMA TimeKeeps ==
  ASSUME GatewayInv, TimePasses
  PROVE  GatewayInv'
<1>1. clock' = clock + 1 /\ clock \in Nat /\ clock' \in Nat /\ clock <= clock' /\ UNCHANGED <<db, tx, sender, shot>>
  BY DEF GatewayInv, TimePasses
<1>2. Sound(db, clock')
  BY <1>1, SoundLater DEF GatewayInv
<1>3. TxOpen'
  <2> SUFFICES ASSUME tx # NoRecord PROVE Sound(tx.db, clock') /\ tx.start <= clock'
    BY <1>1 DEF GatewayInv, TxOpen
  <2>1. Sound(tx.db, clock) /\ tx.start \in Nat /\ tx.start <= clock
    BY DEF GatewayInv, TxOpen
  <2> QED BY <1>1, <2>1, SoundLater
<1>4. ShotPast'
  BY <1>1 DEF GatewayInv, ShotPast, PastKept, Passed
<1>5. KeysKept' /\ ShotClosed' /\ IsShot'
  BY <1>1 DEF GatewayInv, KeysKept, ShotClosed, IsShot
<1> QED BY <1>1, <1>2, <1>3, <1>4, <1>5 DEF GatewayInv

\* A step of the reader.
LEMMA ReadFrame ==
  ASSUME GatewayInv, UNCHANGED <<db, tx, sender, clock>>, IsShot', ShotPast', ShotClosed'
  PROVE  GatewayInv'
<1>1. KeysKept' /\ TxOpen'
  BY DEF GatewayInv, KeysKept, TxOpen
<1> QED BY <1>1 DEF GatewayInv

LEMMA OpenKeeps ==
  ASSUME GatewayAssumption, GatewayInv, NEW at \in 1..MaxClock,
         \/ ShowPast(at)
         \/ \E o \in Objects, depth \in 0..MaxDepth, limit \in 1..GraphLimit : OpenGraph(o, at, depth, limit)
  PROVE  GatewayInv'
<1>0. at \in Nat
  BY DEF GatewayAssumption
<1>1. at \in Nat /\ UNCHANGED <<db, tx, sender, clock>>
  BY <1>0 DEF ShowPast, OpenGraph
<1>2. CASE ShowPast(at)
  <2>1. PICK shown \in Some(Existing(db, at), ReplayLimit) :
               shot' = [NoShot EXCEPT !.pc = "replayed", !.at = at, !.past = IsPast(at),
                                      !.nodes = [o \in shown |-> Replay(db, at)[o]]]
    BY <1>2 DEF ShowPast
  <2>2. /\ shot'.pc = "replayed" /\ shot'.at = at /\ shot'.past = IsPast(at) /\ shot'.sel = {} /\ shot'.edges = {}
        /\ shot'.nodes = [o \in shown |-> Replay(db, at)[o]] /\ DOMAIN shot' = ShotFields
        /\ shot' = [f \in ShotFields |-> shot'[f]]
    BY <2>1 DEF NoShot, ShotFields
  <2>3. IsShot' /\ ShotClosed'
    BY <1>1, <2>2 DEF IsShot, ShotClosed
  <2>4. ShotPast'
    BY <1>1, <2>2 DEF ShotPast, PastKept, Passed, IsPast
  <2> QED BY <1>1, <2>3, <2>4, ReadFrame
<1>3. ASSUME NEW o \in Objects, NEW depth, NEW limit, OpenGraph(o, at, depth, limit) PROVE GatewayInv'
  <2>1. shot' = [NoShot EXCEPT !.pc = "walks", !.at = at, !.past = IsPast(at), !.sel = {o}, !.front = {o},
                               !.left = depth, !.limit = limit]
    BY <1>3 DEF OpenGraph
  <2>2. /\ shot'.pc = "walks" /\ shot'.at = at /\ shot'.past = IsPast(at) /\ shot'.sel = {o} /\ shot'.front = {o}
        /\ shot'.edges = {} /\ DOMAIN shot'.nodes = {} /\ DOMAIN shot' = ShotFields
        /\ shot' = [f \in ShotFields |-> shot'[f]]
    BY <2>1 DEF NoShot, ShotFields
  <2>3. IsShot' /\ ShotClosed'
    BY <1>1, <2>2 DEF IsShot, ShotClosed
  <2>4. ShotPast'
    BY <1>1, <2>2 DEF ShotPast, PastKept, Passed, IsPast
  <2> QED BY <1>1, <2>3, <2>4, ReadFrame
<1> QED BY <1>2, <1>3

LEMMA RoundKeeps ==
  ASSUME GatewayAssumption, GatewayInv, WalkRound
  PROVE  GatewayInv'
<1> DEFINE at == {e \in EdgesAt(db, shot.at) : e.ends \cap shot.front # {}}
<1>1. /\ UNCHANGED <<db, tx, sender, clock>> /\ IsShot /\ ShotPast /\ ShotClosed /\ shot.pc = "walks"
      /\ db \in Databases
  BY DEF WalkRound, GatewayInv, Sound
<1>2. PICK batch \in Some(at, 4 * shot.limit) :
        \E new \in Some(EndsOf(batch) \ shot.sel, shot.limit - Cardinality(shot.sel)) :
           shot' = [shot EXCEPT !.sel = shot.sel \cup new, !.front = new, !.left = @ - 1,
                                !.edges = @ \cup {e \in batch : e.ends \subseteq shot.sel \cup new},
                                !.cut = @ \/ batch # at \/ shot.sel \cup new # shot.sel \cup EndsOf(batch)]
  BY DEF WalkRound
<1>3. PICK new \in Some(EndsOf(batch) \ shot.sel, shot.limit - Cardinality(shot.sel)) :
           shot' = [shot EXCEPT !.sel = shot.sel \cup new, !.front = new, !.left = @ - 1,
                                !.edges = @ \cup {e \in batch : e.ends \subseteq shot.sel \cup new},
                                !.cut = @ \/ batch # at \/ shot.sel \cup new # shot.sel \cup EndsOf(batch)]
  BY <1>2
<1> DEFINE sel == shot.sel \cup new
           took == {e \in batch : e.ends \subseteq sel}
<1>4. batch \subseteq at /\ new \subseteq EndsOf(batch) \ shot.sel
  BY DEF Some
<1> HIDE DEF at, sel, took
<1>5. /\ shot'.pc = "walks" /\ shot'.at = shot.at /\ shot'.past = shot.past /\ shot'.nodes = shot.nodes
      /\ shot'.sel = sel /\ shot'.front = new /\ shot'.edges = shot.edges \cup took
      /\ shot'.cut = (shot.cut \/ batch # at \/ sel # shot.sel \cup EndsOf(batch)) /\ DOMAIN shot' = ShotFields
      /\ shot' = [f \in ShotFields |-> shot'[f]]
  BY <1>1, <1>3 DEF IsShot, ShotFields, sel, took
<1>6. ASSUME NEW e \in batch PROVE e \in db.edges /\ e.at <= shot.at /\ e.ends \subseteq Objects
  BY <1>1, <1>4 DEF at, EdgesAt, Databases, Links
<1>7. sel \subseteq Objects
  BY <1>1, <1>4, <1>6 DEF IsShot, sel, EndsOf
<1>8. IsShot'
  BY <1>1, <1>5, <1>7 DEF IsShot
<1>9. ShotClosed'
  <2>1. \A e \in took : e \in db.edges /\ e.at <= shot.at /\ e.ends \subseteq sel
    BY <1>6 DEF took
  <2>2. shot.sel \subseteq sel
    BY DEF sel
  <2> QED BY <1>1, <1>5, <2>1, <2>2 DEF ShotClosed
<1>10. ASSUME shot.past, ~shot'.cut, NEW e \in EdgesAt(db, shot.at), e.ends \cap (sel \ new) # {}
       PROVE  e \in shot.edges \cup took
  <2>1. ~shot.cut /\ batch = at /\ sel = shot.sel \cup EndsOf(batch)
    BY <1>5, <1>10
  <2>2. e.ends \cap shot.sel # {}
    BY <1>10 DEF sel
  <2>3. CASE e.ends \cap shot.front # {}
    <3>1. e \in batch
      BY <2>1, <2>3, <1>10 DEF at
    <3> QED BY <2>1, <3>1 DEF took, EndsOf
  <2>4. CASE e.ends \cap shot.front = {}
    BY <1>1, <1>10, <2>1, <2>2, <2>4 DEF ShotPast, PastKept, Passed
  <2> QED BY <2>3, <2>4
<1>11. took \subseteq EdgesAt(db, shot.at)
  BY <1>4 DEF took, at
<1>12. ShotPast'
  BY <1>1, <1>5, <1>10, <1>11 DEF ShotPast, PastKept, Passed
<1> QED BY <1>1, <1>8, <1>9, <1>12, ReadFrame

LEMMA WalkEndsKeeps ==
  ASSUME GatewayInv, WalkEnds
  PROVE  GatewayInv'
<1>1. UNCHANGED <<db, tx, sender, clock>> /\ IsShot /\ ShotPast /\ ShotClosed /\ shot.pc = "walks"
  BY DEF WalkEnds, GatewayInv
<1>2. /\ shot'.pc = "reads" /\ shot'.at = shot.at /\ shot'.past = shot.past /\ shot'.nodes = shot.nodes
      /\ shot'.sel = shot.sel /\ shot'.front = shot.front /\ shot'.edges = shot.edges /\ shot'.todo = shot.sel
      /\ shot'.cut = shot.cut /\ DOMAIN shot' = ShotFields /\ shot' = [f \in ShotFields |-> shot'[f]]
  BY <1>1 DEF WalkEnds, IsShot, ShotFields
<1>3. IsShot' /\ ShotClosed' /\ ShotPast'
  BY <1>1, <1>2 DEF IsShot, ShotClosed, ShotPast, PastKept, Passed
<1> QED BY <1>1, <1>3, ReadFrame

LEMMA ReadNodeKeeps ==
  ASSUME GatewayAssumption, GatewayInv, NEW n \in Objects, ReadNode(n)
  PROVE  GatewayInv'
<1> DEFINE dom == DOMAIN shot.nodes \cup ({n} \cap Existing(db, shot.at))
           nodes == [m \in dom |-> IF m = n THEN Replay(db, shot.at)[n] ELSE shot.nodes[m]]
<1>1. /\ UNCHANGED <<db, tx, sender, clock>> /\ IsShot /\ ShotPast /\ ShotClosed /\ shot.pc = "reads"
      /\ Sound(db, clock) /\ shot.at \in Nat
  BY DEF ReadNode, GatewayInv, IsShot
<1>2. shot' = [shot EXCEPT !.todo = shot.todo \ {n}, !.nodes = nodes]
  BY DEF ReadNode
<1>3. DOMAIN nodes = dom /\ \A m \in dom : nodes[m] = IF m = n THEN Replay(db, shot.at)[n] ELSE shot.nodes[m]
  OBVIOUS
<1> HIDE DEF nodes
<1>4. /\ shot'.pc = "reads" /\ shot'.at = shot.at /\ shot'.past = shot.past /\ shot'.nodes = nodes
      /\ shot'.sel = shot.sel /\ shot'.front = shot.front /\ shot'.edges = shot.edges
      /\ shot'.todo = shot.todo \ {n} /\ shot'.cut = shot.cut
      /\ DOMAIN shot' = ShotFields /\ shot' = [f \in ShotFields |-> shot'[f]]
  BY <1>1, <1>2 DEF IsShot, ShotFields
\* Both ends of an edge were there at its time.
<1>5. ASSUME NEW e \in shot.edges, n \in e.ends PROVE n \in Existing(db, shot.at)
  <2>1. e \in db.edges /\ e.at <= shot.at
    BY <1>1 DEF ShotClosed
  <2>2. e.at \in Nat /\ Named(db, n, e.at)
    BY <1>1, <1>5, <2>1 DEF Sound, EndsKnown, Databases, Links
  <2>3. \A i \in DOMAIN db.log : db.log[i].at \in Nat
    <3>1. db.log \in Seq(LogEntries)
      BY <1>1 DEF Sound, Databases
    <3>2. \A i \in DOMAIN db.log : db.log[i] \in LogEntries
      BY <3>1
    <3> QED BY <3>2 DEF LogEntries
  <2>4. Named(db, n, shot.at)
    BY <1>1, <2>1, <2>2, <2>3 DEF Named
  <2> QED BY <1>1, <2>4, NamedThere DEF Existing
<1>6. ASSUME NEW e \in shot.edges, NEW x \in e.ends, x \notin shot.todo \ {n} PROVE x \in dom
  BY <1>1, <1>5, <1>6 DEF ShotClosed
<1> HIDE DEF dom
<1>7. IsShot'
  BY <1>1, <1>4 DEF IsShot
<1>8. ShotClosed'
  BY <1>1, <1>3, <1>4, <1>6 DEF ShotClosed
<1>9. ShotPast'
  BY <1>1, <1>3, <1>4 DEF ShotPast, PastKept, Passed, dom
<1> QED BY <1>1, <1>7, <1>8, <1>9, ReadFrame

LEMMA GatewayInitInv == GatewayAssumption /\ GatewayInit => GatewayInv
<1> SUFFICES ASSUME GatewayAssumption, GatewayInit PROVE GatewayInv
  OBVIOUS
<1>1. /\ db.objs = [o \in Objects |-> NoObject] /\ db.proj = db.objs /\ db.log = <<>> /\ db.edges = {}
      /\ db.idem = [k \in IdemKeys |-> NoRecord] /\ clock = 1 /\ tx = NoRecord
      /\ db.log \in Seq(LogEntries) /\ DOMAIN db.log = {}
  BY DEF GatewayInit
<1>2. db \in Databases
  BY <1>1 DEF GatewayInit, Databases, Versions, NoObject
<1>3. Sound(db, clock)
  BY <1>1, <1>2 DEF Sound, Snapped, Dated, KnownFrom, EndsKnown, NoObject
<1>4. sender \in [IdemKeys -> Senders] /\ KeysKept
  BY <1>1 DEF GatewayInit, Senders, KeysKept, ToldOf, OnlyEffect, EventsBy
<1>5. TxOpen /\ IsShot /\ ShotPast /\ ShotClosed
  BY <1>1 DEF GatewayInit, NoShot, ShotFields, TxOpen, IsShot, ShotPast, ShotClosed
<1> QED BY <1>1, <1>3, <1>4, <1>5 DEF GatewayInv

LEMMA GatewayInvariant == GatewayAssumption /\ GatewayInv /\ [GatewayNext]_gatewayVars => GatewayInv'
<1> SUFFICES ASSUME GatewayAssumption, GatewayInv, [GatewayNext]_gatewayVars PROVE GatewayInv'
  OBVIOUS
<1>1. CASE UNCHANGED gatewayVars
  BY <1>1 DEF gatewayVars, GatewayInv, KeysKept, TxOpen, IsShot, ShotPast, PastKept, Passed, ShotClosed
<1>2. CASE GatewayNext
  BY <1>2, SenderKeeps, TxOpens, TxEnds, TimeKeeps, OpenKeeps, RoundKeeps, WalkEndsKeeps, ReadNodeKeeps
     DEF GatewayNext
<1> QED BY <1>1, <1>2

-----------------------------------------------------------------------------
(* The account.  A copy that will be saved differs from what was meant only *)
(* in fields at risk (CopiesTrue); a session that a touch will write back   *)
(* is in the index, or is excused (TouchesKnown).                           *)

Frame == [pc : Pcs, field : Fields \cup {NoField}, copy : [Fields -> BOOLEAN], sids : SUBSET Sids,
          next : {NoField, "open"}]
AcctTypes ==
  /\ user \in [Fields -> BOOLEAN] /\ meant \in [Fields -> BOOLEAN] /\ atRisk \subseteq Fields
  /\ job \in [Handlers -> Frame] /\ \A h \in Handlers : job[h].sids \subseteq used
  /\ keys \cup index \cup strays \subseteq used /\ used \subseteq Sids
DocTrue == \A f \in Fields \ atRisk : user[f] = meant[f]
CopiesTrue ==
  \A h \in Handlers : job[h].pc = "save" => \A f \in Fields \ atRisk : job[h].copy[f] = meant[f]
KeysKnown == keys \subseteq index \cup strays
TouchesKnown == \A h \in Handlers : job[h].pc = "setex" => job[h].sids \subseteq index \cup strays
AcctInv == AcctTypes /\ DocTrue /\ CopiesTrue /\ KeysKnown /\ TouchesKnown

\* A request moves on, and the others stay where they are.
Advanced(h, frame) == frame \in Frame /\ job' = [job EXCEPT ![h] = frame]
LEMMA Advances ==
  ASSUME AcctTypes, NEW h \in Handlers
  PROVE  /\ Free \in Frame /\ Free.pc = "free" /\ Free.sids = {}
         /\ Done(h) => Advanced(h, Free)
         /\ \A pc \in Pcs : Step(h, pc) => Advanced(h, [job[h] EXCEPT !.pc = pc])
<1>1. Free \in Frame /\ Free.pc = "free" /\ Free.sids = {}
  <2>1. "free" \in Pcs /\ {} \in SUBSET Sids /\ [f \in Fields |-> TRUE] \in [Fields -> BOOLEAN]
    BY DEF Pcs
  <2> QED BY <2>1 DEF Free, Frame
<1>2. Done(h) => Advanced(h, Free)
  BY <1>1 DEF Done, Advanced
<1>3. ASSUME NEW pc \in Pcs, Step(h, pc) PROVE Advanced(h, [job[h] EXCEPT !.pc = pc])
  BY <1>3 DEF Step, Advanced, AcctTypes, Frame
<1> QED BY <1>1, <1>2, <1>3

\* What the move of one request has to keep, when the document and the sessions stay.
LEMMA OnlyMoves ==
  ASSUME AcctInv, NEW h \in Handlers, NEW frame, Advanced(h, frame), UNCHANGED <<docVars, sidVars>>,
         frame.sids \subseteq used,
         frame.pc = "save" => frame.copy = user \/ (job[h].pc = "save" /\ frame.copy = job[h].copy),
         frame.pc = "setex" => frame.sids \subseteq keys
  PROVE  AcctInv'
<1> USE DEF AcctInv, docVars, sidVars, Advanced
<1>1. AcctTypes'
  BY DEF AcctTypes
<1>2. DocTrue' /\ KeysKnown'
  BY DEF DocTrue, KeysKnown
<1>3. \A g \in Handlers : job'[g] = IF g = h THEN frame ELSE job[g]
  BY DEF AcctTypes
<1>4. CopiesTrue'
  BY <1>3 DEF CopiesTrue, DocTrue
<1>5. TouchesKnown'
  BY <1>3 DEF TouchesKnown, KeysKnown
<1> QED BY <1>1, <1>2, <1>4, <1>5

LEMMA AcctInitInv == AcctInit => AcctInv
<1> SUFFICES ASSUME AcctInit PROVE AcctInv
  OBVIOUS
<1>1. Free \in Frame /\ Free.pc = "free" /\ Free.sids = {}
  <2>1. "free" \in Pcs /\ {} \in SUBSET Sids /\ [f \in Fields |-> TRUE] \in [Fields -> BOOLEAN]
    BY DEF Pcs
  <2> QED BY <2>1 DEF Free, Frame
<1>2. AcctTypes
  BY <1>1 DEF AcctInit, AcctTypes
<1> QED BY <1>1, <1>2 DEF AcctInv, AcctInit, DocTrue, CopiesTrue, KeysKnown, TouchesKnown

\* Requests that read: a change, a sign-in, a deletion, a logout of all, a token.
LEMMA ReadKeeps ==
  ASSUME AcctInv, NEW h \in Handlers,
         \/ \E f \in Fields \cup {NoField} : ReadUser(h, f)
         \/ \E s \in Sids, next \in {NoField, "open"} : Delete(h, s, next)
         \/ \E s \in Sids : ResolveToken(h, s)
         \/ Members(h)
  PROVE  AcctInv'
<1> USE DEF AcctInv
<1>0. Free \in Frame /\ Pcs = Pcs
  BY Advances
<1>1. ASSUME NEW f \in Fields \cup {NoField}, ReadUser(h, f) PROVE AcctInv'
  <2> DEFINE frame == [Free EXCEPT !.pc = "save", !.field = f, !.copy = user]
  <2>1. frame \in Frame /\ frame.pc = "save" /\ frame.copy = user /\ frame.sids = {}
    BY <1>0, Advances DEF Frame, Pcs, AcctTypes
  <2>2. Advanced(h, frame) /\ UNCHANGED <<docVars, sidVars>>
    BY <1>1, <2>1 DEF ReadUser, Advanced
  <2> HIDE DEF frame
  <2> QED BY <2>1, <2>2, OnlyMoves
<1>2. ASSUME NEW s \in Sids, NEW next \in {NoField, "open"}, Delete(h, s, next) PROVE AcctInv'
  <2> DEFINE frame == [Free EXCEPT !.pc = "delete", !.sids = {s}, !.next = next]
  <2>1. frame \in Frame /\ frame.pc = "delete" /\ frame.sids = {s}
    BY <1>0, Advances DEF Frame, Pcs
  <2>2. Advanced(h, frame) /\ UNCHANGED <<docVars, sidVars>> /\ {s} \subseteq used
    BY <1>2, <2>1 DEF Delete, Advanced, AcctTypes
  <2> HIDE DEF frame
  <2> QED BY <2>1, <2>2, OnlyMoves
<1>3. ASSUME NEW s \in Sids, ResolveToken(h, s) PROVE AcctInv'
  <2> DEFINE frame == [Free EXCEPT !.pc = "touch", !.sids = {s}]
  <2>1. frame \in Frame /\ frame.pc = "touch" /\ frame.sids = {s}
    BY <1>0, Advances DEF Frame, Pcs
  <2>2. Advanced(h, frame) /\ UNCHANGED <<docVars, sidVars>> /\ {s} \subseteq used
    BY <1>3, <2>1 DEF ResolveToken, Advanced, AcctTypes
  <2> HIDE DEF frame
  <2> QED BY <2>1, <2>2, OnlyMoves
<1>4. ASSUME Members(h) PROVE AcctInv'
  <2> DEFINE frame == [Free EXCEPT !.pc = "revoke", !.sids = index]
  <2>1. frame \in Frame /\ frame.pc = "revoke" /\ frame.sids = index
    BY <1>0, Advances DEF Frame, Pcs, AcctTypes
  <2>2. Advanced(h, frame) /\ UNCHANGED <<docVars, sidVars>> /\ index \subseteq used
    BY <1>4, <2>1 DEF Members, Advanced, AcctTypes
  <2> HIDE DEF frame
  <2> QED BY <2>1, <2>2, OnlyMoves
<1> QED BY <1>1, <1>2, <1>3, <1>4

\* The document is saved whole.
LEMMA SaveKeeps == ASSUME AcctInv, NEW h \in Handlers, SaveUser(h) PROVE AcctInv'
<1> USE DEF AcctInv
<1> DEFINE f == job[h].field
           copied == job[h].copy
           new == IF f = NoField THEN copied ELSE [copied EXCEPT ![f] = ~@]
<1>1. job[h] \in Frame
  BY DEF AcctTypes
<1>2. f \in Fields \cup {NoField} /\ copied \in [Fields -> BOOLEAN] /\ NoField \notin Fields
  BY <1>1 DEF Frame, NoField, Fields
<1>3. new \in [Fields -> BOOLEAN] /\ \A g \in Fields : g # f => new[g] = copied[g]
  BY <1>2
<1>4. /\ job[h].pc = "save" /\ user' = new /\ UNCHANGED sidVars
      /\ meant' = IF f = NoField THEN meant ELSE [meant EXCEPT ![f] = new[f]]
      /\ atRisk' = IF f # NoField /\ (\E g \in Handlers \ {h} : job[g].pc = "save")
                   THEN atRisk \cup {f} ELSE atRisk \ {f}
      /\ IF f = NoField THEN Step(h, "open") ELSE Done(h)
  BY DEF SaveUser
<1> HIDE DEF f, copied, new
<1>5. PICK frame : Advanced(h, frame) /\ frame.pc \in {"open", "free"} /\ frame.sids \subseteq job[h].sids
  <2>1. CASE f = NoField
    <3>1. "open" \in Pcs
      BY DEF Pcs
    <3>2. Advanced(h, [job[h] EXCEPT !.pc = "open"])
      BY <1>4, <2>1, <3>1, Advances
    <3>3. [job[h] EXCEPT !.pc = "open"].pc = "open" /\ [job[h] EXCEPT !.pc = "open"].sids = job[h].sids
      BY <1>1 DEF Frame
    <3> QED BY <3>2, <3>3
  <2>2. CASE f # NoField
    BY <1>4, <2>2, Advances
  <2> QED BY <2>1, <2>2
<1>6. \A g \in Handlers : job'[g] = IF g = h THEN frame ELSE job[g]
  BY <1>5 DEF Advanced, AcctTypes
<1>7. /\ meant' \in [Fields -> BOOLEAN] /\ (f \in Fields => meant'[f] = new[f])
      /\ \A g \in Fields : g # f => meant'[g] = meant[g]
  <2>1. meant \in [Fields -> BOOLEAN]
    BY DEF AcctTypes
  <2>2. CASE f = NoField
    BY <1>2, <1>4, <2>1, <2>2
  <2>3. CASE f # NoField
    <3>1. f \in Fields /\ meant' = [meant EXCEPT ![f] = new[f]] /\ new[f] \in BOOLEAN
      BY <1>2, <1>3, <1>4, <2>3
    <3> QED BY <2>1, <3>1
  <2> QED BY <2>2, <2>3
<1>8. AcctTypes'
  <2>1. job' \in [Handlers -> Frame]
    BY <1>5 DEF Advanced, AcctTypes
  <2>2. \A g \in Handlers : job'[g].sids \subseteq used
    BY <1>5, <1>6 DEF AcctTypes
  <2>3. atRisk' \subseteq Fields
    BY <1>2, <1>4 DEF AcctTypes
  <2> QED BY <1>3, <1>4, <1>7, <2>1, <2>2, <2>3 DEF AcctTypes, sidVars
<1>9. \A g \in Fields \ atRisk' : g # f => g \notin atRisk
  BY <1>4
<1>10. \A g \in Fields \ atRisk : copied[g] = meant[g]
  BY <1>4 DEF CopiesTrue, copied
<1>11. DocTrue'
  BY <1>3, <1>4, <1>7, <1>9, <1>10 DEF DocTrue
<1>12. CopiesTrue'
  <2> SUFFICES ASSUME NEW g \in Handlers, job'[g].pc = "save", NEW e \in Fields \ atRisk'
               PROVE  job'[g].copy[e] = meant'[e]
    BY DEF CopiesTrue
  <2>1. g # h /\ job'[g] = job[g] /\ job[g].pc = "save"
    BY <1>5, <1>6
  <2>2. f # NoField => atRisk' = atRisk \cup {f}
    BY <1>4, <2>1
  <2>3. e # f /\ e \notin atRisk
    BY <1>2, <1>9, <2>2
  <2> QED BY <1>7, <2>1, <2>3 DEF CopiesTrue
<1>13. KeysKnown' /\ TouchesKnown'
  BY <1>4, <1>5, <1>6 DEF KeysKnown, TouchesKnown, sidVars
<1> QED BY <1>8, <1>11, <1>12, <1>13

\* Keys and index move; nobody begins to save or to write back.
LEMMA SessionsMove ==
  ASSUME AcctInv, UNCHANGED docVars, KeysKnown',
         job' \in [Handlers -> Frame],
         \A g \in Handlers : \/ job'[g] = job[g]
                             \/ job'[g].pc \notin {"save", "setex"} /\ job'[g].sids \subseteq job[g].sids,
         keys' \cup index' \cup strays' \subseteq used', used \subseteq used', used' \subseteq Sids,
         \A g \in Handlers : job[g].pc = "setex" /\ job'[g].pc = "setex" =>
                               job[g].sids \subseteq index' \cup strays'
  PROVE  AcctInv'
<1> USE DEF AcctInv, docVars
<1>1. AcctTypes'
  <2>1. \A g \in Handlers : job'[g].sids \subseteq used'
    BY DEF AcctTypes
  <2> QED BY <2>1 DEF AcctTypes
<1>2. DocTrue' /\ CopiesTrue'
  BY DEF DocTrue, CopiesTrue
<1>3. TouchesKnown'
  BY DEF TouchesKnown
<1> QED BY <1>1, <1>2, <1>3

LEMMA SessionKeeps ==
  ASSUME AcctInv, NEW h \in Handlers,
         OpenSession(h) \/ TouchWrite(h) \/ DeleteKey(h) \/ Srem(h) \/ DeleteAll(h)
  PROVE  AcctInv'
<1> USE DEF AcctInv
<1>0. /\ job \in [Handlers -> Frame] /\ job[h] \in Frame /\ job[h].sids \subseteq used
      /\ keys \cup index \cup strays \subseteq used /\ used \subseteq Sids
  BY DEF AcctTypes
<1>1. ASSUME NEW frame, Advanced(h, frame), frame.pc \notin {"save", "setex"}, frame.sids \subseteq job[h].sids
      PROVE  /\ job' \in [Handlers -> Frame]
             /\ \A g \in Handlers : g # h => job'[g] = job[g]
             /\ job'[h] = frame
             /\ \A g \in Handlers : \/ job'[g] = job[g]
                                    \/ job'[g].pc \notin {"save", "setex"} /\ job'[g].sids \subseteq job[g].sids
  BY <1>0, <1>1 DEF Advanced
<1>2. \A pc \in Pcs : LET frame == [job[h] EXCEPT !.pc = pc]
                      IN  frame.pc = pc /\ frame.sids = job[h].sids
  BY <1>0 DEF Frame
<1> DEFINE Moving == /\ job' \in [Handlers -> Frame]
                     /\ \A g \in Handlers : g # h => job'[g] = job[g]
                     /\ job'[h].pc # "setex"
                     /\ \A g \in Handlers : \/ job'[g] = job[g]
                                            \/ job'[g].pc \notin {"save", "setex"} /\ job'[g].sids \subseteq job[g].sids
<1>3. Done(h) => Moving
  <2> SUFFICES ASSUME Done(h) PROVE Moving
    OBVIOUS
  <2>1. Advanced(h, Free) /\ Free.pc = "free" /\ Free.sids = {}
    BY Advances
  <2> QED BY <1>1, <2>1
<1>4. ASSUME NEW pc \in {"open", "srem"}, Step(h, pc) PROVE Moving
  <2>1. pc \in Pcs
    BY DEF Pcs
  <2>2. Advanced(h, [job[h] EXCEPT !.pc = pc])
    BY <1>4, <2>1, Advances
  <2>3. [job[h] EXCEPT !.pc = pc].pc = pc /\ [job[h] EXCEPT !.pc = pc].sids = job[h].sids
    BY <1>2, <2>1
  <2>4. PICK frame : frame = [job[h] EXCEPT !.pc = pc]
    OBVIOUS
  <2>5. Advanced(h, frame) /\ frame.pc = pc /\ frame.sids = job[h].sids
    BY <2>2, <2>3, <2>4
  <2> QED BY <1>1, <2>5
<1>5. \A g \in Handlers : job[g].pc = "setex" => job[g].sids \subseteq index \cup strays
  BY DEF TouchesKnown
<1>6. \A g \in Handlers : job[g].sids \subseteq used
  BY DEF AcctTypes
<1> HIDE DEF Moving
<1>7. CASE OpenSession(h)
  <2>1. PICK s \in Sids \ used : /\ used' = used \cup {s}
                                 /\ keys' = keys \cup {s} /\ index' = index \cup {s}
    BY <1>7 DEF OpenSession
  <2>2. Moving /\ UNCHANGED docVars /\ strays' = strays
    BY <1>3, <1>7 DEF OpenSession
  <2>3. KeysKnown'
    BY <2>1, <2>2 DEF KeysKnown
  <2> QED BY <1>0, <1>5, <2>1, <2>2, <2>3, SessionsMove DEF Moving
<1>8. CASE TouchWrite(h)
  <2>1. Moving /\ UNCHANGED docVars /\ keys' = keys \cup job[h].sids /\ UNCHANGED <<index, used, strays>>
    BY <1>3, <1>8 DEF TouchWrite
  <2>2. KeysKnown'
    BY <1>5, <1>8, <2>1 DEF KeysKnown, TouchWrite
  <2> QED BY <1>0, <1>5, <2>1, <2>2, SessionsMove DEF Moving
<1>9. CASE DeleteKey(h)
  <2>1. Moving /\ UNCHANGED docVars /\ keys' = keys \ job[h].sids /\ UNCHANGED <<index, used, strays>>
    BY <1>4, <1>9 DEF DeleteKey
  <2>2. KeysKnown'
    BY <2>1 DEF KeysKnown
  <2> QED BY <1>0, <1>5, <2>1, <2>2, SessionsMove DEF Moving
<1>10. CASE Srem(h)
  <2>1. /\ Moving /\ UNCHANGED docVars /\ UNCHANGED <<keys, used>> /\ index' = index \ job[h].sids
        /\ strays' = strays \cup Touched(job[h].sids) \cup (keys \cap job[h].sids)
    BY <1>3, <1>4, <1>10 DEF Srem
  <2>2. KeysKnown'
    BY <2>1 DEF KeysKnown
  <2>3. Touched(job[h].sids) \subseteq job[h].sids
    BY DEF Touched
  <2>4. \A g \in Handlers : job[g].pc = "setex" => job[g].sids \cap job[h].sids \subseteq Touched(job[h].sids)
    BY DEF Touched
  <2>5. \A g \in Handlers : job[g].pc = "setex" => job[g].sids \subseteq index' \cup strays'
    BY <1>5, <2>1, <2>4
  <2> QED BY <1>0, <2>1, <2>2, <2>3, <2>5, SessionsMove DEF Moving
<1>11. CASE DeleteAll(h)
  <2>1. /\ Moving /\ UNCHANGED docVars /\ used' = used /\ keys' = keys \ job[h].sids /\ index' = {}
        /\ strays' = strays \cup keys' \cup Touched(used)
    BY <1>3, <1>11 DEF DeleteAll
  <2>2. KeysKnown'
    BY <2>1 DEF KeysKnown
  <2>3. Touched(used) \subseteq used
    BY DEF Touched
  <2>4. \A g \in Handlers : job[g].pc = "setex" => job[g].sids \subseteq Touched(used)
    BY <1>6 DEF Touched
  <2> QED BY <1>0, <2>1, <2>2, <2>3, <2>4, SessionsMove DEF Moving
<1> QED BY <1>7, <1>8, <1>9, <1>10, <1>11

LEMMA AcctStep == AcctInv /\ [AcctNext]_acctVars => AcctInv'
<1> SUFFICES ASSUME AcctInv, [AcctNext]_acctVars PROVE AcctInv'
  OBVIOUS
<1>1. CASE UNCHANGED acctVars
  BY <1>1 DEF acctVars, AcctInv, AcctTypes, DocTrue, CopiesTrue, KeysKnown, TouchesKnown
<1>2. ASSUME NEW h \in Handlers, \E f \in Fields : ChangeUser(h, f) PROVE AcctInv'
  BY <1>2, ReadKeeps DEF ChangeUser
<1>3. ASSUME NEW h \in Handlers, SignIn(h) PROVE AcctInv'
  BY <1>3, ReadKeeps DEF SignIn
<1>4. ASSUME NEW h \in Handlers, \E s \in Sids : ResolveToken(h, s) \/ Logout(h, s) \/ Rotate(h, s)
      PROVE  AcctInv'
  <2>1. PICK s \in Sids : ResolveToken(h, s) \/ Delete(h, s, NoField) \/ Delete(h, s, "open")
    BY <1>4 DEF Logout, Rotate
  <2>2. NoField \in {NoField, "open"} /\ "open" \in {NoField, "open"}
    OBVIOUS
  <2> QED BY <2>1, <2>2, ReadKeeps
<1>5. ASSUME NEW h \in Handlers, TouchRead(h) PROVE AcctInv'
  <2>1. UNCHANGED <<docVars, sidVars>> /\ job[h] \in Frame /\ job[h].sids \subseteq used
    BY <1>5 DEF TouchRead, AcctInv, AcctTypes
  <2>2. CASE job[h].sids \subseteq keys
    <3>1. "setex" \in Pcs
      BY DEF Pcs
    <3>2. PICK frame : frame = [job[h] EXCEPT !.pc = "setex"]
      OBVIOUS
    <3>3. Advanced(h, frame)
      BY <1>5, <2>2, <3>1, <3>2, Advances DEF TouchRead, AcctInv
    <3>4. frame.pc = "setex" /\ frame.sids = job[h].sids
      BY <2>1, <3>2 DEF Frame
    <3> QED BY <2>1, <2>2, <3>3, <3>4, OnlyMoves
  <2>3. CASE ~(job[h].sids \subseteq keys)
    <3>1. Advanced(h, Free) /\ Free.pc = "free" /\ Free.sids = {}
      BY <1>5, <2>3, Advances DEF TouchRead, AcctInv
    <3> QED BY <2>1, <3>1, OnlyMoves
  <2> QED BY <2>2, <2>3
<1>6. ASSUME NEW s \in Sids, Expire(s) PROVE AcctInv'
  <2>1. UNCHANGED <<docVars, job, index, used, strays>> /\ keys' \subseteq keys
    BY <1>6 DEF Expire
  <2>2. KeysKnown'
    BY <2>1 DEF AcctInv, KeysKnown
  <2> QED BY <2>1, <2>2, SessionsMove DEF AcctInv, AcctTypes, TouchesKnown
<1> QED BY <1>1, <1>2, <1>3, <1>4, <1>5, <1>6, ReadKeeps, SaveKeeps, SessionKeeps DEF AcctNext

-----------------------------------------------------------------------------
(* Reset codes.  What a request alone has read is, but for entries whose    *)
(* time has run out since, what the cache still holds (AloneReads); and     *)
(* whenever the book knows, the cache is what it says (BookTrue).           *)

Entry == [code : Nat, age : Nat, tries : Nat]
Slot == [pc : {"free", "mail", "store", "compare"}, code : Nat, got : SUBSET Entry, clash : BOOLEAN]
CodeTypes == /\ cache \in SUBSET Entry /\ mreq \in [MailReqs -> Slot] /\ mailed \in Nat
             /\ \A e \in cache : e.age < Life
             /\ book \in [entry : SUBSET Entry, known : BOOLEAN, right : BOOLEAN]
AloneReads ==
  \A r \in Busy : ~mreq[r].clash =>
    Busy = {r} /\ (mreq[r].pc = "compare" => cache = Alive(mreq[r].got))
BookTrue == book.known => cache = book.entry
CodesInv == CodeTypes /\ AloneReads /\ BookTrue /\ book.right

\* One more wait for an entry, one more try of it.
Aged(e) == [e EXCEPT !.age = IF @ < Life THEN @ + 1 ELSE @]
Tried(e) == [e EXCEPT !.tries = @ + 1]
LEMMA EntryMoves ==
  ASSUME NEW e \in Entry
  PROVE  /\ Aged(e) \in Entry /\ Tried(e) \in Entry
         /\ e.age < Life \/ ~(Aged(e).age < Life)
  BY CodesAssumption DEF Aged, Tried, Entry

LEMMA EntriesAge ==
  ASSUME NEW S \in SUBSET Entry
  PROVE  /\ Older(S) \in SUBSET Entry /\ Alive(S) \in SUBSET Entry
         /\ Alive(Older(Alive(S))) = Alive(Older(S))
<1>1. \A T \in SUBSET Entry : Older(T) = {Aged(e) : e \in T} /\ Alive(T) \in SUBSET T
  BY DEF Older, Aged, Alive
<1>2. Older(S) \in SUBSET Entry
  BY <1>1, EntryMoves
<1>3. Alive(S) \in SUBSET Entry
  BY <1>1
<1>4. Alive(Older(Alive(S))) \subseteq Alive(Older(S))
  BY <1>1, <1>3 DEF Alive
<1>5. ASSUME NEW x \in Alive(Older(S)) PROVE x \in Alive(Older(Alive(S)))
  <2>1. PICK e \in S : x = Aged(e) /\ x.age < Life
    BY <1>1, <1>5 DEF Alive
  <2>2. e \in Alive(S)
    BY <2>1, EntryMoves DEF Alive
  <2> QED BY <1>1, <1>3, <2>1, <2>2 DEF Alive
<1> QED BY <1>2, <1>3, <1>4, <1>5

LEMMA CodesInitInv == CodesInit => CodesInv
<1> SUFFICES ASSUME CodesInit PROVE CodesInv
  OBVIOUS
<1>1. TRUE \in BOOLEAN /\ FALSE \in BOOLEAN /\ {} \in SUBSET Entry /\ 0 \in Nat
  OBVIOUS
<1>2. FreeSlot \in Slot /\ FreeSlot.pc = "free"
  BY <1>1 DEF FreeSlot, Slot
<1>3. CodeTypes
  BY <1>1, <1>2 DEF CodesInit, CodeTypes
<1>4. Busy = {}
  BY <1>2 DEF CodesInit, Busy
<1> QED BY <1>3, <1>4 DEF CodesInv, CodesInit, AloneReads, BookTrue

\* A request begins: none is alone that was, and it is alone when there was none.
LEMMA Begins ==
  ASSUME CodesInv, NEW r \in MailReqs, mreq[r].pc = "free", NEW pc \in {"mail", "compare"}, NEW code \in Nat,
         NEW read \in BOOLEAN, StartReq(r, pc, code, read), UNCHANGED <<cache, mailed, book>>
  PROVE  CodesInv'
<1> DEFINE mine == [pc |-> pc, code |-> code, got |-> IF read /\ pc = "compare" THEN cache ELSE {},
                    clash |-> ~read \/ Busy # {}]
<1>1. \A q \in MailReqs : mreq[q] \in Slot /\ mreq[q].clash \in BOOLEAN
  BY DEF CodesInv, CodeTypes, Slot
<1>2. mine \in Slot /\ mine.pc = pc /\ (~mine.clash => read /\ Busy = {}) /\ mine.got = IF read /\ pc = "compare" THEN cache ELSE {}
  <2>1. (~read \/ Busy # {}) \in BOOLEAN
    OBVIOUS
  <2>2. (IF read /\ pc = "compare" THEN cache ELSE {}) \in SUBSET Entry
    BY DEF CodesInv, CodeTypes
  <2> QED BY <2>1, <2>2 DEF Slot
<1> HIDE DEF mine
<1>3. ASSUME NEW q \in MailReqs
      PROVE  LET s == [mreq[q] EXCEPT !.clash = @ \/ q \in Busy]
             IN  s \in Slot /\ s.pc = mreq[q].pc /\ (s.clash <=> mreq[q].clash \/ q \in Busy)
  <2>1. (mreq[q].clash \/ q \in Busy) \in BOOLEAN
    OBVIOUS
  <2>2. mreq[q] \in Slot
    BY <1>1
  <2> QED BY <2>1, <2>2 DEF Slot
<1>4. mreq' = [q \in MailReqs |-> IF q = r THEN mine ELSE [mreq[q] EXCEPT !.clash = @ \/ q \in Busy]]
  BY DEF StartReq, mine
<1>5. mreq' \in [MailReqs -> Slot] /\ mreq'[r] = mine
  BY <1>2, <1>3, <1>4
<1>6. \A q \in MailReqs : q # r => mreq'[q].pc = mreq[q].pc /\ (mreq'[q].clash <=> mreq[q].clash \/ q \in Busy)
  BY <1>3, <1>4
<1>7. Busy' = Busy \cup {r} /\ r \notin Busy
  <2>1. \A q \in MailReqs : mreq'[q].pc # "free" <=> q = r \/ mreq[q].pc # "free"
    BY <1>2, <1>5, <1>6
  <2> QED BY <2>1 DEF Busy
<1>8. AloneReads'
  <2> SUFFICES ASSUME NEW q \in Busy', ~mreq'[q].clash
               PROVE  Busy' = {q} /\ (mreq'[q].pc = "compare" => cache' = Alive(mreq'[q].got))
    BY DEF AloneReads
  <2>1. q = r /\ read /\ Busy = {}
    BY <1>2, <1>5, <1>6, <1>7 DEF Busy
  <2>2. pc = "compare" => mreq'[q].got = cache
    BY <1>2, <1>5, <2>1
  <2>3. Alive(cache) = cache
    BY DEF Alive, CodesInv, CodeTypes
  <2> QED BY <1>2, <1>5, <1>7, <2>1, <2>2, <2>3
<1> QED BY <1>5, <1>8 DEF CodesInv, CodeTypes, BookTrue

\* A request ends.
LEMMA Ends ==
  ASSUME CodesInv, NEW r \in Busy, EndReq(r)
  PROVE  /\ mreq' \in [MailReqs -> Slot] /\ Busy' = Busy \ {r}
         /\ AloneReads'
<1>1. r \in MailReqs /\ mreq \in [MailReqs -> Slot] /\ FreeSlot \in Slot /\ FreeSlot.pc = "free"
  BY DEF Busy, FreeSlot, Slot, CodesInv, CodeTypes
<1>2. mreq' = [mreq EXCEPT ![r] = FreeSlot]
  BY DEF EndReq
<1>3. mreq' \in [MailReqs -> Slot] /\ Busy' = Busy \ {r}
  BY <1>1, <1>2 DEF Busy
<1>4. \A q \in Busy : q # r => mreq[q].clash
  BY DEF CodesInv, AloneReads
<1>5. \A q \in Busy' : mreq[q].clash /\ mreq'[q] = mreq[q]
  BY <1>1, <1>2, <1>3, <1>4 DEF Busy
<1> QED BY <1>3, <1>5 DEF AloneReads

\* What an ending request makes of the book.
LEMMA BookFollows ==
  ASSUME CodesInv, NEW r \in Busy, NEW entry \in SUBSET Entry, NEW right \in BOOLEAN, NEW ok \in BOOLEAN,
         Booked(r, entry, right, ok)
  PROVE  /\ book' \in [entry : SUBSET Entry, known : BOOLEAN, right : BOOLEAN]
         /\ book'.known => ok /\ ~mreq[r].clash /\ (book.known \/ mreq[r].pc = "store") /\ book'.entry = entry
         /\ (ok /\ ~mreq[r].clash /\ book.known => right) => book'.right
<1>1. book.right \in BOOLEAN /\ book.known \in BOOLEAN /\ mreq[r].clash \in BOOLEAN /\ book.right
  BY DEF CodesInv, CodeTypes, Busy, Slot
<1> DEFINE alone == ok /\ ~mreq[r].clash
           known == alone /\ (book.known \/ mreq[r].pc = "store")
           still == book.right /\ (alone /\ book.known => right)
<1>2. known \in BOOLEAN /\ still \in BOOLEAN
  OBVIOUS
<1>3. book' = [entry |-> IF known THEN entry ELSE {}, known |-> known, right |-> still]
  BY DEF Booked
<1>4. (IF known THEN entry ELSE {}) \in SUBSET Entry
  OBVIOUS
<1>5. (known => alone /\ (book.known \/ mreq[r].pc = "store")) /\ ((alone /\ book.known => right) => still)
  BY <1>1
<1> HIDE DEF known, still
<1>6. book' \in [entry : SUBSET Entry, known : BOOLEAN, right : BOOLEAN]
  BY <1>2, <1>3, <1>4
<1>7. book'.known = known /\ book'.right = still /\ (known => book'.entry = entry)
  BY <1>3
<1> QED BY <1>5, <1>6, <1>7

\* A request ends with what it did to the cache; the book knows it when it was alone.
LEMMA EndsBooked ==
  ASSUME CodesInv, NEW r \in Busy, EndReq(r), UNCHANGED mailed, cache' \in SUBSET Entry,
         \A e \in cache' : e.age < Life,
         NEW entry \in SUBSET Entry, NEW right \in BOOLEAN, NEW ok \in BOOLEAN, Booked(r, entry, right, ok),
         ok /\ ~mreq[r].clash /\ (book.known \/ mreq[r].pc = "store") => cache' = entry,
         ok /\ ~mreq[r].clash /\ book.known => right
  PROVE  CodesInv'
<1>1. /\ book' \in [entry : SUBSET Entry, known : BOOLEAN, right : BOOLEAN] /\ book'.right
      /\ book'.known => cache' = book'.entry
  BY BookFollows
<1>2. mreq' \in [MailReqs -> Slot] /\ AloneReads'
  BY Ends
<1> QED BY <1>1, <1>2 DEF CodesInv, CodeTypes, BookTrue

LEMMA Sends ==
  ASSUME CodesInv, NEW r \in MailReqs,
         AskForCode(r) \/ Mail(r) \/ StoreCode(r) \/ BreakOff(r) \/ (\E code \in 0..MaxCodes : ReadEntry(r, code))
  PROVE  CodesInv'
<1>1. CASE AskForCode(r)
  <2>1. PICK read \in BOOLEAN : StartReq(r, "mail", 0, read)
    BY <1>1 DEF AskForCode
  <2> QED BY <1>1, <2>1, Begins DEF AskForCode
<1>2. CASE \E code \in 0..MaxCodes : ReadEntry(r, code)
  <2>1. PICK code \in 0..MaxCodes : ReadEntry(r, code)
    BY <1>2
  <2>2. PICK read \in BOOLEAN : StartReq(r, "compare", code, read)
    BY <2>1 DEF ReadEntry
  <2> QED BY <2>1, <2>2, Begins DEF ReadEntry
<1>3. CASE BreakOff(r) \/ (Mail(r) /\ EndReq(r) /\ UNCHANGED <<mailed, book>>)
  <2>1. r \in Busy /\ EndReq(r) /\ UNCHANGED <<cache, mailed, book>>
    BY <1>3 DEF BreakOff, Mail, Busy
  <2>2. mreq' \in [MailReqs -> Slot] /\ AloneReads'
    BY <2>1, Ends
  <2> QED BY <2>1, <2>2 DEF CodesInv, CodeTypes, BookTrue
<1>4. CASE Mail(r) /\ ~(EndReq(r) /\ UNCHANGED <<mailed, book>>)
  <2>1. /\ mreq[r].pc = "mail" /\ mailed' = mailed + 1 /\ UNCHANGED <<cache, book>>
        /\ mreq' = [mreq EXCEPT ![r].pc = "store", ![r].code = mailed + 1]
    BY <1>4 DEF Mail
  <2>2. PICK s : s = [mreq[r] EXCEPT !.pc = "store", !.code = mailed + 1]
    OBVIOUS
  <2>3. mreq[r] \in Slot /\ mailed \in Nat /\ mreq \in [MailReqs -> Slot]
    BY DEF CodesInv, CodeTypes
  <2>4. s \in Slot /\ s.pc = "store" /\ s.clash = mreq[r].clash
    <3>1. mailed + 1 \in Nat /\ "store" \in {"free", "mail", "store", "compare"}
      BY <2>3
    <3>2. s \in Slot
      BY <2>2, <2>3, <3>1 DEF Slot
    <3> QED BY <2>2, <2>3, <3>2 DEF Slot
  <2>5. mreq' = [mreq EXCEPT ![r] = s]
    BY <2>1, <2>2, <2>3
  <2>6. mreq' \in [MailReqs -> Slot] /\ Busy' = Busy
    BY <2>1, <2>3, <2>4, <2>5 DEF Busy
  <2>7. AloneReads'
    BY <2>1, <2>3, <2>4, <2>5, <2>6 DEF CodesInv, AloneReads, Busy
  <2> QED BY <2>1, <2>3, <2>6, <2>7 DEF CodesInv, CodeTypes, BookTrue
<1>5. CASE StoreCode(r)
  <2>1. PICK new : new = {[code |-> mreq[r].code, age |-> 0, tries |-> 0]}
    OBVIOUS
  <2>2. new \in SUBSET Entry /\ \A e \in new : e.age < Life
    BY <2>1, CodesAssumption DEF Entry, CodesInv, CodeTypes, Slot
  <2>3. r \in Busy /\ EndReq(r) /\ UNCHANGED mailed
    BY <1>5 DEF StoreCode, Busy
  <2>4. (cache' = new /\ Booked(r, new, TRUE, TRUE)) \/ (UNCHANGED cache /\ Booked(r, new, TRUE, FALSE))
    BY <1>5, <2>1 DEF StoreCode
  <2>5. CASE cache' = new /\ Booked(r, new, TRUE, TRUE)
    BY <2>2, <2>3, <2>5, EndsBooked
  <2>6. CASE UNCHANGED cache /\ Booked(r, new, TRUE, FALSE)
    BY <2>2, <2>3, <2>6, EndsBooked DEF CodesInv, CodeTypes
  <2> QED BY <2>4, <2>5, <2>6
<1> QED BY <1>1, <1>2, <1>3, <1>4, <1>5

\* A verification that is alone decides by the entry the book has.
LEMMA Compares == ASSUME CodesInv, NEW r \in MailReqs, Compare(r) PROVE CodesInv'
<1>1. PICK got, code : got = mreq[r].got /\ code = mreq[r].code
  OBVIOUS
<1>2. PICK owed : owed = book.entry
  OBVIOUS
<1>3. PICK right : right = (Fits(got, code) = (\E e \in owed : e.tries < MaxTries /\ e.code = code))
  OBVIOUS
<1>4. PICK next : next = {[e EXCEPT !.tries = @ + 1] : e \in {x \in owed : x.tries < MaxTries /\ x.code # code}}
  OBVIOUS
<1>5. /\ r \in Busy /\ EndReq(r) /\ UNCHANGED mailed /\ mreq[r].pc = "compare"
      /\ \/ cache' = (IF got = {} THEN cache ELSE Left(got, code)) /\ Booked(r, next, right, TRUE)
         \/ got # {} /\ UNCHANGED cache /\ Booked(r, next, right, FALSE)
  BY <1>1, <1>2, <1>3, <1>4 DEF Compare, Busy
<1>6. got \in SUBSET Entry /\ owed \in SUBSET Entry /\ cache \in SUBSET Entry /\ \A e \in cache : e.age < Life
  BY <1>1, <1>2 DEF CodesInv, CodeTypes, Slot
<1>7. next = {Tried(e) : e \in {x \in owed : x.tries < MaxTries /\ x.code # code}}
  BY <1>4 DEF Tried
<1>8. Left(got, code) = {Tried(e) : e \in {x \in got : Valid(x) /\ x.code # code}}
  BY DEF Left, Tried
<1>9. next \in SUBSET Entry
  BY <1>6, <1>7, EntryMoves
<1>10. Left(got, code) \in SUBSET Entry /\ \A e \in Left(got, code) : e.age < Life
  <2>1. ASSUME NEW e \in Entry, Valid(e) PROVE Tried(e) \in Entry /\ Tried(e).age < Life
    BY <2>1, EntryMoves DEF Tried, Valid, Entry
  <2> QED BY <1>6, <1>8, <2>1
<1>11. right \in BOOLEAN
  BY <1>3
<1>12. ~mreq[r].clash /\ book.known => owed = Alive(got)
  BY <1>1, <1>2, <1>5 DEF CodesInv, AloneReads, BookTrue
<1>13. owed = Alive(got) => right
  <2> SUFFICES ASSUME owed = Alive(got) PROVE right
    OBVIOUS
  <2>1. \A e : e \in owed <=> e \in got /\ e.age < Life
    BY DEF Alive
  <2>2. Fits(got, code) <=> (\E e \in owed : e.tries < MaxTries /\ e.code = code)
    BY <2>1 DEF Fits, Valid
  <2>3. Fits(got, code) \in BOOLEAN
    BY DEF Fits
  <2> QED BY <1>3, <2>2, <2>3
<1>14. owed = Alive(got) => Left(got, code) = next
  <2> SUFFICES ASSUME owed = Alive(got) PROVE Left(got, code) = next
    OBVIOUS
  <2>1. {x \in got : Valid(x) /\ x.code # code} = {x \in owed : x.tries < MaxTries /\ x.code # code}
    BY DEF Alive, Valid
  <2> QED BY <1>7, <1>8, <2>1
<1>15. owed = Alive(got) /\ got = {} /\ book.known => cache = next
  BY <1>2, <1>7 DEF Alive, CodesInv, BookTrue
<1>16. CASE cache' = (IF got = {} THEN cache ELSE Left(got, code)) /\ Booked(r, next, right, TRUE)
  <2>1. cache' \in SUBSET Entry /\ \A e \in cache' : e.age < Life
    BY <1>6, <1>10, <1>16
  <2>2. ~mreq[r].clash /\ book.known => cache' = next /\ right
    BY <1>12, <1>13, <1>14, <1>15, <1>16
  <2> QED BY <1>5, <1>9, <1>11, <1>16, <2>1, <2>2, EndsBooked
<1>17. CASE UNCHANGED cache /\ Booked(r, next, right, FALSE)
  BY <1>5, <1>6, <1>9, <1>11, <1>17, EndsBooked
<1> QED BY <1>5, <1>16, <1>17

LEMMA CodesStep == CodesInv /\ [CodesNext]_codeVars => CodesInv'
<1> SUFFICES ASSUME CodesInv, [CodesNext]_codeVars PROVE CodesInv'
  OBVIOUS
<1>1. CASE CodesAge
  <2>1. cache \in SUBSET Entry /\ book.entry \in SUBSET Entry /\ \A r \in MailReqs : mreq[r] \in Slot
    BY DEF CodesInv, CodeTypes
  <2>2. /\ cache' = Alive(Older(cache)) /\ book' = [book EXCEPT !.entry = Alive(Older(book.entry))]
        /\ mreq' = [r \in MailReqs |-> [mreq[r] EXCEPT !.got = Older(mreq[r].got)]] /\ mailed' = mailed
    BY <1>1 DEF CodesAge
  <2>3. cache' \in SUBSET Entry /\ (\A e \in cache' : e.age < Life) /\ Alive(Older(book.entry)) \in SUBSET Entry
    BY <2>1, <2>2, EntriesAge DEF Alive
  <2>4. /\ book' \in [entry : SUBSET Entry, known : BOOLEAN, right : BOOLEAN] /\ book'.known = book.known
        /\ book'.right = book.right /\ book'.entry = Alive(Older(book.entry))
    BY <2>2, <2>3 DEF CodesInv, CodeTypes
  <2>5. ASSUME NEW r \in MailReqs
        PROVE  /\ mreq'[r] \in Slot /\ mreq'[r].pc = mreq[r].pc /\ mreq'[r].clash = mreq[r].clash
               /\ mreq'[r].got = Older(mreq[r].got) /\ mreq[r].got \in SUBSET Entry
    <3>1. mreq[r].got \in SUBSET Entry /\ mreq[r] \in Slot
      BY <2>1 DEF Slot
    <3>2. Older(mreq[r].got) \in SUBSET Entry
      BY <3>1, EntriesAge
    <3> QED BY <2>2, <3>1, <3>2 DEF Slot
  <2>6. mreq' \in [MailReqs -> Slot] /\ Busy' = Busy
    BY <2>2, <2>5 DEF Busy
  <2>7. AloneReads'
    <3> SUFFICES ASSUME NEW q \in Busy, ~mreq[q].clash
                 PROVE  Busy = {q} /\ (mreq[q].pc = "compare" => cache' = Alive(Older(mreq[q].got)))
      BY <2>5, <2>6 DEF AloneReads, Busy
    <3>1. Busy = {q} /\ (mreq[q].pc = "compare" => cache = Alive(mreq[q].got)) /\ q \in MailReqs
      BY DEF CodesInv, AloneReads, Busy
    <3> QED BY <2>2, <2>5, <3>1, EntriesAge
  <2>8. BookTrue'
    BY <2>2, <2>4 DEF CodesInv, BookTrue
  <2> QED BY <2>2, <2>3, <2>4, <2>6, <2>7, <2>8 DEF CodesInv, CodeTypes
<1>2. CASE UNCHANGED codeVars
  BY <1>2 DEF codeVars, CodesInv, CodeTypes, AloneReads, BookTrue, Busy
<1> QED BY <1>1, <1>2, Sends, Compares DEF CodesNext

-----------------------------------------------------------------------------
(* Projects.  Two requests that are under way on one project are in races   *)
(* (Overlapping); what a request has seen of its project is so still, or    *)
(* there is a race that says why not (SeenStill).                           *)

ProjDoc == [here : BOOLEAN, text : Texts, pin : BOOLEAN]
Said == [made : BOOLEAN, text : Texts, pin : BOOLEAN, gone : BOOLEAN]
ProjOps == {"update", "pin", "delete", "move"}
Edit == [op : ProjOps \cup {"none"}, of : Projs \cup {NoProj}, saw : ProjDoc, talk : Talks,
         pc : {"idle", "read", "cleared"}]
On(q, p) == preq[q].pc # "idle" /\ preq[q].of = p
ProjTypes ==
  /\ proj \in [Projs -> ProjDoc] /\ place \in [Talks -> Projs \cup {NoProj}]
  /\ preq \in [ProjReqs -> Edit] /\ answered \in [Projs -> Said]
  /\ \A q \in ProjReqs : preq[q].pc # "idle" => preq[q].of \in Projs /\ preq[q].op \in ProjOps
  /\ \A q \in ProjReqs : preq[q].pc = "cleared" => preq[q].op = "delete"
  /\ \A r \in races : r.of \in Projs
  /\ held \subseteq HeldTalks /\ returned \subseteq HeldTalks
Overlapping ==
  \A p \in Projs : \A q, o \in ProjReqs :
    q # o /\ On(q, p) /\ On(o, p) => Raced(p, {preq[q].op, preq[o].op})
\* What is known of a project that a request works on.
SeenStill ==
  \A p \in Projs : \A q \in ProjReqs : On(q, p) =>
    /\ answered[p].made
    /\ preq[q].op = "update" =>
         /\ preq[q].saw.here
         /\ proj[p].here \/ Raced(p, {"update", "delete"})
         /\ Raced(p, {"update", "delete"}) \/ Raced(p, {"update", "pin"}) \/ preq[q].saw.pin = answered[p].pin
    /\ preq[q].op = "move" => proj[p].here \/ Raced(p, {"delete", "move"})
    /\ preq[q].pc = "cleared" => Raced(p, {"delete", "move"}) \/ NoneIn(p)
\* Before it is made there is nothing of it.
Unplaced(p) == (\A t \in Talks : place[t] # p) /\ \A h \in held : h.of # p
Unmade ==
  \A p \in Projs : ~answered[p].made =>
    ~proj[p].here /\ ~answered[p].pin /\ ~answered[p].gone /\ Unplaced(p)
ProjInv == ProjTypes /\ Overlapping /\ SeenStill /\ Unmade /\ ProjectsKept

\* What the invariant says of one project.
KeptOf(p) ==
  /\ Kept(p) /\ ~Raced(p, {"update", "pin"}) => proj[p].pin = answered[p].pin
  /\ Kept(p) /\ ~Raced(p, {"update"}) => proj[p].text = answered[p].text
  /\ answered[p].gone /\ ~Raced(p, {"update", "delete"}) => ~proj[p].here
  /\ answered[p].made /\ ~proj[p].here => answered[p].gone
  /\ ~proj[p].here /\ ~Raced(p, {"delete", "move"}) => NoneIn(p)
UnmadeOf(p) ==
  ~answered[p].made =>
    ~proj[p].here /\ ~answered[p].pin /\ ~answered[p].gone /\ Unplaced(p)
SeenOf(p, q) ==
  On(q, p) =>
    /\ answered[p].made
    /\ preq[q].op = "update" =>
         /\ preq[q].saw.here
         /\ proj[p].here \/ Raced(p, {"update", "delete"})
         /\ Raced(p, {"update", "delete"}) \/ Raced(p, {"update", "pin"}) \/ preq[q].saw.pin = answered[p].pin
    /\ preq[q].op = "move" => proj[p].here \/ Raced(p, {"delete", "move"})
    /\ preq[q].pc = "cleared" => Raced(p, {"delete", "move"}) \/ NoneIn(p)

LEMMA ByProject ==
  ProjInv <=> /\ ProjTypes /\ Overlapping
              /\ \A p \in Projs : KeptOf(p) /\ UnmadeOf(p) /\ \A q \in ProjReqs : SeenOf(p, q)
  BY DEF ProjInv, ProjectsKept, KeptOf, Unmade, UnmadeOf, SeenStill, SeenOf

LEMMA ByProjectNext ==
  ASSUME ProjTypes', Overlapping',
         \A p \in Projs : KeptOf(p)' /\ UnmadeOf(p)' /\ \A q \in ProjReqs : SeenOf(p, q)'
  PROVE  ProjInv'
  BY DEF ProjInv, ProjectsKept, KeptOf, Unmade, UnmadeOf, SeenStill, SeenOf

\* A project none of whose own state moves, and on which nobody new works, stays as it was.
Elsewhere(p) ==
  /\ proj'[p] = proj[p] /\ answered'[p] = answered[p]
  /\ \A t \in Talks : place'[t] = p => place[t] = p
  /\ held' \subseteq held /\ returned \subseteq returned'
  /\ \A ops : Raced(p, ops) => Raced(p, ops)'
  /\ \A q \in ProjReqs : On(q, p)' => On(q, p) /\ preq'[q] = preq[q]
LEMMA OthersRest ==
  ASSUME ProjInv, NEW p \in Projs, Elsewhere(p)
  PROVE  KeptOf(p)' /\ UnmadeOf(p)' /\ \A q \in ProjReqs : SeenOf(p, q)'
<1>1. KeptOf(p) /\ UnmadeOf(p) /\ \A q \in ProjReqs : SeenOf(p, q)
  BY ByProject
<1>2. KeptOf(p)'
  BY <1>1 DEF KeptOf, Elsewhere, Kept, NoneIn
<1>3. UnmadeOf(p)'
  BY <1>1 DEF UnmadeOf, Unplaced, Elsewhere
<1>4. ASSUME NEW q \in ProjReqs PROVE SeenOf(p, q)'
  BY <1>1 DEF SeenOf, Elsewhere, NoneIn
<1> QED BY <1>2, <1>3, <1>4

\* What there is before a request: a document, an answer, a request at rest.
LEMMA NoEditType ==
  /\ NoDoc \in ProjDoc /\ ~NoDoc.here /\ ~NoDoc.pin
  /\ NoEdit \in Edit /\ NoEdit.pc = "idle"
<1>1. /\ (CHOOSE t \in Texts : TRUE) \in Texts /\ (CHOOSE t \in Talks : TRUE) \in Talks
      /\ TRUE \in BOOLEAN /\ FALSE \in BOOLEAN
  BY ProjAssumption
<1>2. NoDoc \in ProjDoc /\ ~NoDoc.here /\ ~NoDoc.pin
  BY <1>1 DEF NoDoc, ProjDoc
<1> QED BY <1>1, <1>2 DEF NoEdit, Edit

LEMMA ProjInitInv == ProjInit => ProjInv
<1> SUFFICES ASSUME ProjInit PROVE ProjInv
  OBVIOUS
<1>1. /\ \A p \in Projs : proj[p] = NoDoc
      /\ \A p \in Projs : answered[p] = [made |-> FALSE, text |-> NoDoc.text, pin |-> FALSE, gone |-> FALSE]
      /\ \A q \in ProjReqs : preq[q] = NoEdit
      /\ \A t \in Talks : place[t] = NoProj
      /\ races = {} /\ held = {} /\ returned = {}
  BY DEF ProjInit
<1>2. \A q \in ProjReqs : preq[q].pc = "idle"
  BY <1>1, NoEditType
<1>3. [made |-> FALSE, text |-> NoDoc.text, pin |-> FALSE, gone |-> FALSE] \in Said
  BY NoEditType DEF Said, ProjDoc
<1>4. ProjTypes
  BY <1>1, <1>2, <1>3, NoEditType DEF ProjTypes, ProjInit
<1>5. Overlapping /\ SeenStill
  BY <1>2 DEF Overlapping, SeenStill, On
<1>6. Unmade /\ ProjectsKept
  BY <1>1, NoEditType, ProjAssumption DEF Unmade, Unplaced, ProjectsKept, Kept, NoneIn
<1> QED BY <1>4, <1>5, <1>6 DEF ProjInv

\* A request gives up its place; the others are as they were.
LEMMA Releases ==
  ASSUME ProjTypes, NEW q \in ProjReqs, Release(q)
  PROVE  /\ preq' \in [ProjReqs -> Edit] /\ preq'[q].pc = "idle"
         /\ \A o \in ProjReqs : o # q => preq'[o] = preq[o]
         /\ \A o \in ProjReqs : preq'[o].pc # "idle" => o # q
  BY NoEditType DEF Release, ProjTypes

\* Raced, of a set of races.
RaceIn(rs, p, ops) == \E r \in rs : r.of = p /\ r.ops = ops

\* When nobody begins, who overlaps has overlapped.
LEMMA StillOverlapping ==
  ASSUME Overlapping, races' = races,
         \A o \in ProjReqs : preq'[o].pc # "idle" =>
           preq[o].pc # "idle" /\ preq'[o].of = preq[o].of /\ preq'[o].op = preq[o].op
  PROVE  Overlapping'
<1> SUFFICES ASSUME NEW p \in Projs, NEW q \in ProjReqs, NEW o \in ProjReqs, q # o, On(q, p)', On(o, p)'
             PROVE  RaceIn(races', p, {preq'[q].op, preq'[o].op})
  BY DEF Overlapping, Raced, RaceIn
<1>1. On(q, p) /\ On(o, p) /\ preq'[q].op = preq[q].op /\ preq'[o].op = preq[o].op
  BY DEF On
<1>2. Raced(p, {preq[q].op, preq[o].op})
  BY <1>1 DEF Overlapping
<1> QED BY <1>1, <1>2 DEF Raced, RaceIn

\* Who is where, when no session moves.
LEMMA StaysEmpty ==
  ASSUME UNCHANGED <<place, held, returned>>
  PROVE  \A p \in Projs : (NoneIn(p)' <=> NoneIn(p)) /\ (Unplaced(p)' <=> Unplaced(p))
  BY DEF NoneIn, Unplaced

LEMMA CreateKeeps ==
  ASSUME ProjInv, NEW c \in Projs, NEW text \in Texts, CreateProject(c, text)
  PROVE  ProjInv'
<1>0. ProjTypes /\ Overlapping /\ \A p \in Projs : KeptOf(p) /\ UnmadeOf(p) /\ \A q \in ProjReqs : SeenOf(p, q)
  BY ByProject
<1>1. /\ proj \in [Projs -> ProjDoc] /\ answered \in [Projs -> Said]
      /\ ~answered[c].made /\ UNCHANGED <<place, preq, races, held, returned>>
      /\ proj' = [proj EXCEPT ![c] = [here |-> TRUE, text |-> text, pin |-> FALSE]]
      /\ answered' = [answered EXCEPT ![c].made = TRUE, ![c].text = text]
  BY <1>0 DEF CreateProject, ProjTypes, chatVars
<1>2. PICK d : d = [here |-> TRUE, text |-> text, pin |-> FALSE]
  OBVIOUS
<1>3. d \in ProjDoc /\ d.here /\ ~d.pin /\ d.text = text
  BY <1>2 DEF ProjDoc
<1>4. PICK said : said = [answered[c] EXCEPT !.made = TRUE, !.text = text]
  OBVIOUS
<1>5. said \in Said /\ said.made /\ said.text = text /\ said.pin = answered[c].pin /\ said.gone = answered[c].gone
  BY <1>1, <1>4 DEF Said
<1>6. proj' = [proj EXCEPT ![c] = d] /\ answered' = [answered EXCEPT ![c] = said]
  BY <1>1, <1>2, <1>4
<1>7. /\ proj' \in [Projs -> ProjDoc] /\ answered' \in [Projs -> Said]
      /\ proj'[c] = d /\ answered'[c] = said
      /\ \A p \in Projs : p # c => proj'[p] = proj[p] /\ answered'[p] = answered[p]
  <2>0. proj \in [Projs -> ProjDoc] /\ answered \in [Projs -> Said]
    BY <1>1
  <2>1. proj' \in [Projs -> ProjDoc] /\ proj'[c] = d /\ \A p \in Projs : p # c => proj'[p] = proj[p]
    BY <1>3, <1>6, <2>0
  <2>2. answered' \in [Projs -> Said] /\ answered'[c] = said /\ \A p \in Projs : p # c => answered'[p] = answered[p]
    BY <1>5, <1>6, <2>0
  <2> QED BY <2>1, <2>2
<1>8. ProjTypes'
  BY <1>0, <1>1, <1>7 DEF ProjTypes
<1>9. Overlapping'
  BY <1>0, <1>1, StillOverlapping
<1>10. ASSUME NEW p \in Projs, p # c PROVE KeptOf(p)' /\ UnmadeOf(p)' /\ \A q \in ProjReqs : SeenOf(p, q)'
  <2>1. Elsewhere(p)
    BY <1>1, <1>7, <1>10 DEF Elsewhere, Raced, On
  <2> QED BY <2>1, OthersRest
<1>11. UnmadeOf(c) /\ \A q \in ProjReqs : ~On(q, c)
  BY <1>0, <1>1 DEF SeenOf
<1>12. KeptOf(c)'
  <2>1. said.pin = d.pin /\ ~said.gone
    BY <1>1, <1>3, <1>5, <1>11 DEF UnmadeOf, ProjDoc, Said
  <2> QED BY <1>3, <1>5, <1>7, <2>1 DEF KeptOf, Kept, NoneIn
<1>13. UnmadeOf(c)' /\ \A q \in ProjReqs : SeenOf(c, q)'
  BY <1>1, <1>5, <1>7, <1>11 DEF UnmadeOf, Unplaced, SeenOf, On, NoneIn
<1> QED BY <1>8, <1>9, <1>10, <1>12, <1>13, ByProjectNext

LEMMA ReadProjectKeeps ==
  ASSUME ProjInv, NEW q \in ProjReqs, NEW c \in Projs, NEW t \in Talks, NEW verb \in ProjOps,
         ReadProject(q, c, verb, t)
  PROVE  ProjInv'
<1>0. ProjTypes /\ Overlapping /\ \A p \in Projs : KeptOf(p) /\ UnmadeOf(p) /\ \A o \in ProjReqs : SeenOf(p, o)
  BY ByProject
<1>1. /\ preq[q].pc = "idle" /\ proj[c].here /\ UNCHANGED <<proj, place, answered, held, returned>>
      /\ preq' = [preq EXCEPT ![q] = [op |-> verb, of |-> c, talk |-> t, pc |-> "read",
                                      saw |-> IF verb = "update" THEN proj[c] ELSE NoDoc]]
      /\ races' = races \cup {[of |-> c, ops |-> {verb, preq[o].op}] :
                                o \in {o \in ProjReqs : preq[o].pc # "idle" /\ preq[o].of = c}}
      /\ proj \in [Projs -> ProjDoc] /\ preq \in [ProjReqs -> Edit]
  BY <1>0 DEF ReadProject, Owned, ProjTypes, chatVars
<1>2. PICK e : e = [op |-> verb, of |-> c, talk |-> t, pc |-> "read",
                    saw |-> IF verb = "update" THEN proj[c] ELSE NoDoc]
  OBVIOUS
<1>3. e \in Edit /\ e.op = verb /\ e.of = c /\ e.pc = "read" /\ (verb = "update" => e.saw = proj[c])
  <2>1. e.saw \in ProjDoc
    BY <1>1, <1>2, NoEditType
  <2> QED BY <1>2, <2>1 DEF Edit
<1>4. /\ preq' \in [ProjReqs -> Edit] /\ preq'[q] = e
      /\ \A o \in ProjReqs : o # q => preq'[o] = preq[o]
  BY <1>1, <1>2, <1>3
<1>5. \A p \in Projs : \A ops : Raced(p, ops) => Raced(p, ops)' /\ RaceIn(races', p, ops)
  BY <1>1 DEF Raced, RaceIn
<1>6. \A o \in ProjReqs : On(o, c) => RaceIn(races', c, {verb, preq[o].op})
  <2> SUFFICES ASSUME NEW o \in ProjReqs, On(o, c) PROVE RaceIn(races', c, {verb, preq[o].op})
    OBVIOUS
  <2>1. [of |-> c, ops |-> {verb, preq[o].op}] \in races'
    BY <1>1 DEF On
  <2> QED BY <2>1 DEF RaceIn
<1>7. ProjTypes'
  <2>1. \A r \in races' : r.of \in Projs
    <3> SUFFICES ASSUME NEW r \in races' PROVE r.of \in Projs
      OBVIOUS
    <3>1. CASE r \in races
      BY <1>0, <3>1 DEF ProjTypes
    <3>2. CASE r \notin races
      <4>1. PICK o \in ProjReqs : r = [of |-> c, ops |-> {verb, preq[o].op}]
        BY <1>1, <3>2
      <4> QED BY <4>1
    <3> QED BY <3>1, <3>2
  <2>2. \A o \in ProjReqs : preq'[o].pc # "idle" => preq'[o].of \in Projs /\ preq'[o].op \in ProjOps
    BY <1>0, <1>3, <1>4 DEF ProjTypes
  <2>3. \A o \in ProjReqs : preq'[o].pc = "cleared" => preq'[o].op = "delete"
    BY <1>0, <1>3, <1>4 DEF ProjTypes
  <2> QED BY <1>0, <1>1, <1>4, <2>1, <2>2, <2>3 DEF ProjTypes
<1>8. Overlapping'
  <2> SUFFICES ASSUME NEW p \in Projs, NEW a \in ProjReqs, NEW b \in ProjReqs, a # b, On(a, p)', On(b, p)'
               PROVE  RaceIn(races', p, {preq'[a].op, preq'[b].op})
    BY DEF Overlapping, Raced, RaceIn
  <2>1. CASE a # q /\ b # q
    <3>1. On(a, p) /\ On(b, p) /\ preq'[a] = preq[a] /\ preq'[b] = preq[b]
      BY <1>4, <2>1 DEF On
    <3>2. Raced(p, {preq[a].op, preq[b].op})
      BY <1>0, <3>1 DEF Overlapping
    <3> QED BY <1>5, <3>1, <3>2
  <2>2. CASE a = q
    <3>1. p = c /\ On(b, c) /\ preq'[b] = preq[b] /\ preq'[a].op = verb
      BY <1>3, <1>4, <2>2 DEF On
    <3> QED BY <1>6, <3>1
  <2>3. CASE b = q
    <3>1. p = c /\ On(a, c) /\ preq'[a] = preq[a] /\ preq'[b].op = verb
      BY <1>3, <1>4, <2>3 DEF On
    <3>2. RaceIn(races', c, {verb, preq[a].op})
      BY <1>6, <3>1
    <3>3. {verb, preq[a].op} = {preq'[a].op, preq'[b].op}
      BY <3>1
    <3> QED BY <3>1, <3>2, <3>3
  <2> QED BY <2>1, <2>2, <2>3
<1>9. ASSUME NEW p \in Projs PROVE KeptOf(p)' /\ UnmadeOf(p)'
  <2>1. KeptOf(p) /\ UnmadeOf(p)
    BY <1>0
  <2>2. KeptOf(p)'
    BY <1>1, <1>5, <2>1 DEF KeptOf, Kept, NoneIn
  <2> QED BY <1>1, <2>1, <2>2 DEF UnmadeOf, Unplaced
<1>10. ASSUME NEW p \in Projs, NEW o \in ProjReqs PROVE SeenOf(p, o)'
  <2>1. CASE o # q
    <3>1. SeenOf(p, o) /\ preq'[o] = preq[o]
      BY <1>0, <1>4, <2>1
    <3> QED BY <1>1, <1>5, <3>1 DEF SeenOf, On, NoneIn
  <2>2. CASE o = q
    <3> SUFFICES ASSUME On(q, p)' PROVE SeenOf(p, q)'
      BY <2>2 DEF SeenOf
    <3>1. p = c
      BY <1>3, <1>4 DEF On
    <3>2. KeptOf(c) /\ UnmadeOf(c)
      BY <1>0
    <3>3. answered[c].made
      BY <1>1, <3>2 DEF UnmadeOf, Unplaced
    <3>4. Raced(c, {"update", "delete"}) \/ Raced(c, {"update", "pin"}) \/ proj[c].pin = answered[c].pin
      BY <1>1, <3>2 DEF KeptOf, Kept, NoneIn
    <3>5. Raced(c, {"update", "delete"})' \/ Raced(c, {"update", "pin"})' \/ proj[c].pin = answered[c].pin
      BY <1>5, <3>4
    <3> QED BY <1>1, <1>3, <1>4, <2>2, <3>1, <3>3, <3>5 DEF SeenOf
  <2> QED BY <2>1, <2>2
<1> QED BY <1>7, <1>8, <1>9, <1>10, ByProjectNext

\* A step on project c by a request that then rests: what it has to keep.
LEMMA EndsOn ==
  ASSUME ProjInv, NEW q \in ProjReqs, NEW c \in Projs, preq[q].pc # "idle", preq[q].of = c, Release(q),
         races' = races, UNCHANGED <<held, returned>>,
         proj' \in [Projs -> ProjDoc], answered' \in [Projs -> Said],
         place' \in [Talks -> Projs \cup {NoProj}],
         \A p \in Projs : p # c => proj'[p] = proj[p] /\ answered'[p] = answered[p],
         \A t \in Talks : place'[t] \in {place[t], c},
         KeptOf(c)', UnmadeOf(c)',
         \A o \in ProjReqs : o # q /\ On(o, c) => SeenOf(c, o)'
  PROVE  ProjInv'
<1>0. ProjTypes /\ Overlapping
  BY ByProject
<1>1. /\ preq' \in [ProjReqs -> Edit] /\ preq'[q].pc = "idle"
      /\ \A o \in ProjReqs : o # q => preq'[o] = preq[o]
      /\ \A o \in ProjReqs : preq'[o].pc # "idle" => o # q
  BY <1>0, Releases
<1>2. ProjTypes'
  BY <1>0, <1>1 DEF ProjTypes
<1>3. Overlapping'
  BY <1>0, <1>1, StillOverlapping
<1>4. ASSUME NEW p \in Projs, p # c PROVE KeptOf(p)' /\ UnmadeOf(p)' /\ \A o \in ProjReqs : SeenOf(p, o)'
  <2>1. Elsewhere(p)
    BY <1>1, <1>4 DEF Elsewhere, Raced, On
  <2> QED BY <2>1, OthersRest
<1>5. ASSUME NEW o \in ProjReqs PROVE SeenOf(c, o)'
  <2> SUFFICES ASSUME On(o, c)' PROVE SeenOf(c, o)'
    BY DEF SeenOf
  <2>1. o # q /\ On(o, c)
    BY <1>1 DEF On
  <2> QED BY <2>1
<1> QED BY <1>2, <1>3, <1>4, <1>5, ByProjectNext

LEMMA EditKeeps ==
  ASSUME ProjInv, NEW q \in ProjReqs, NEW text \in Texts, UpdateProject(q, text)
  PROVE  ProjInv'
<1>0. ProjTypes /\ Overlapping /\ \A p \in Projs : KeptOf(p) /\ UnmadeOf(p) /\ \A o \in ProjReqs : SeenOf(p, o)
  BY ByProject
<1>1. PICK c : c = preq[q].of
  OBVIOUS
<1>2. /\ preq[q].pc = "read" /\ preq[q].op = "update" /\ Release(q) /\ UNCHANGED <<place, races, held, returned>>
      /\ proj' = [proj EXCEPT ![c] = [preq[q].saw EXCEPT !.text = text]]
      /\ answered' = [answered EXCEPT ![c].text = text]
      /\ c \in Projs /\ preq[q].saw \in ProjDoc /\ proj \in [Projs -> ProjDoc] /\ answered \in [Projs -> Said]
  BY <1>0, <1>1 DEF UpdateProject, Doing, Edited, ProjTypes, Edit, chatVars
<1>3. PICK d : d = [preq[q].saw EXCEPT !.text = text]
  OBVIOUS
<1>4. d \in ProjDoc /\ d.here = preq[q].saw.here /\ d.pin = preq[q].saw.pin /\ d.text = text
  BY <1>2, <1>3 DEF ProjDoc
<1>5. PICK said : said = [answered[c] EXCEPT !.text = text]
  OBVIOUS
<1>6. /\ said \in Said /\ said.text = text /\ said.pin = answered[c].pin /\ said.gone = answered[c].gone
      /\ said.made = answered[c].made
  BY <1>2, <1>5 DEF Said
<1>7. proj' = [proj EXCEPT ![c] = d] /\ answered' = [answered EXCEPT ![c] = said]
  BY <1>2, <1>3, <1>5
<1>8. /\ proj' \in [Projs -> ProjDoc] /\ answered' \in [Projs -> Said]
      /\ proj'[c] = d /\ answered'[c] = said
      /\ \A p \in Projs : p # c => proj'[p] = proj[p] /\ answered'[p] = answered[p]
  BY <1>2, <1>4, <1>6, <1>7
<1>9. On(q, c) /\ SeenOf(c, q) /\ KeptOf(c) /\ UnmadeOf(c)
  BY <1>0, <1>1, <1>2 DEF On
<1>10. \A ops : Raced(c, ops)' <=> Raced(c, ops)
  BY <1>2 DEF Raced
<1>11. answered[c].made /\ d.here
  BY <1>2, <1>4, <1>9 DEF SeenOf
<1>12. Raced(c, {"update", "delete"}) \/ (proj[c].here /\ ~answered[c].gone)
  BY <1>2, <1>9 DEF SeenOf, KeptOf
<1>13. Raced(c, {"update", "delete"}) \/ Raced(c, {"update", "pin"}) \/ d.pin = said.pin
  BY <1>2, <1>4, <1>6, <1>9 DEF SeenOf
<1>14. KeptOf(c)'
  BY <1>4, <1>6, <1>8, <1>10, <1>11, <1>12, <1>13 DEF KeptOf, Kept, NoneIn
<1>15. UnmadeOf(c)'
  BY <1>6, <1>8, <1>11 DEF UnmadeOf, Unplaced
<1>16. ASSUME NEW o \in ProjReqs, o # q, On(o, c) PROVE SeenOf(c, o)'
  <2>1. SeenOf(c, o) /\ preq'[o] = preq[o]
    BY <1>0, <1>2, <1>16, Releases
  <2>2. NoneIn(c)' <=> NoneIn(c)
    BY <1>2, StaysEmpty
  <2> QED BY <1>6, <1>8, <1>10, <1>11, <2>1, <2>2 DEF SeenOf, On
<1>17. place' \in [Talks -> Projs \cup {NoProj}] /\ \A t \in Talks : place'[t] \in {place[t], c}
  BY <1>0, <1>2 DEF ProjTypes
<1> QED BY <1>1, <1>2, <1>8, <1>14, <1>15, <1>16, <1>17, EndsOn

LEMMA PinKeeps ==
  ASSUME ProjInv, NEW q \in ProjReqs, NEW on \in BOOLEAN, PinProject(q, on)
  PROVE  ProjInv'
<1>0. ProjTypes /\ Overlapping /\ \A p \in Projs : KeptOf(p) /\ UnmadeOf(p) /\ \A o \in ProjReqs : SeenOf(p, o)
  BY ByProject
<1>1. PICK c : c = preq[q].of
  OBVIOUS
<1>2. /\ preq[q].pc = "read" /\ preq[q].op = "pin" /\ Release(q) /\ UNCHANGED <<place, races, held, returned>>
      /\ proj' = [proj EXCEPT ![c].pin = IF proj[c].here THEN on ELSE @]
      /\ answered' = [answered EXCEPT ![c].pin = on]
      /\ c \in Projs /\ proj \in [Projs -> ProjDoc] /\ answered \in [Projs -> Said]
  BY <1>0, <1>1 DEF PinProject, Doing, SetPin, Owned, ProjTypes, Edit, chatVars
<1>3. PICK d : d = [proj[c] EXCEPT !.pin = IF proj[c].here THEN on ELSE @]
  OBVIOUS
<1>4. d \in ProjDoc /\ d.here = proj[c].here /\ (d.here => d.pin = on) /\ d.text = proj[c].text
  BY <1>2, <1>3 DEF ProjDoc
<1>5. PICK said : said = [answered[c] EXCEPT !.pin = on]
  OBVIOUS
<1>6. /\ said \in Said /\ said.text = answered[c].text /\ said.pin = on /\ said.gone = answered[c].gone
      /\ said.made = answered[c].made
  BY <1>2, <1>5 DEF Said
<1>7. proj' = [proj EXCEPT ![c] = d] /\ answered' = [answered EXCEPT ![c] = said]
  BY <1>2, <1>3, <1>5
<1>8. /\ proj' \in [Projs -> ProjDoc] /\ answered' \in [Projs -> Said]
      /\ proj'[c] = d /\ answered'[c] = said
      /\ \A p \in Projs : p # c => proj'[p] = proj[p] /\ answered'[p] = answered[p]
  BY <1>2, <1>4, <1>6, <1>7
<1>9. On(q, c) /\ SeenOf(c, q) /\ KeptOf(c) /\ UnmadeOf(c)
  BY <1>0, <1>1, <1>2 DEF On
<1>10. \A ops : Raced(c, ops)' <=> Raced(c, ops)
  BY <1>2 DEF Raced
<1>11. answered[c].made
  BY <1>9 DEF SeenOf
<1>12. NoneIn(c)' <=> NoneIn(c)
  BY <1>2, StaysEmpty
<1>13. KeptOf(c)'
  BY <1>4, <1>6, <1>8, <1>9, <1>10, <1>12 DEF KeptOf, Kept
<1>14. UnmadeOf(c)'
  BY <1>6, <1>8, <1>11 DEF UnmadeOf, Unplaced
<1>15. ASSUME NEW o \in ProjReqs, o # q, On(o, c) PROVE SeenOf(c, o)'
  <2>1. SeenOf(c, o) /\ preq'[o] = preq[o]
    BY <1>0, <1>2, <1>15, Releases
  <2>2. preq[o].op = "update" => Raced(c, {"update", "pin"})
    <3>1. Raced(c, {preq[o].op, preq[q].op})
      BY <1>0, <1>2, <1>9, <1>15 DEF Overlapping
    <3> QED BY <1>2, <3>1
  <2> QED BY <1>4, <1>6, <1>8, <1>10, <1>12, <2>1, <2>2 DEF SeenOf, On
<1>16. place' \in [Talks -> Projs \cup {NoProj}] /\ \A t \in Talks : place'[t] \in {place[t], c}
  BY <1>0, <1>2 DEF ProjTypes
<1> QED BY <1>1, <1>2, <1>8, <1>13, <1>14, <1>15, <1>16, EndsOn

LEMMA DeleteKeeps ==
  ASSUME ProjInv, NEW q \in ProjReqs, DeleteProject(q)
  PROVE  ProjInv'
<1>0. ProjTypes /\ Overlapping /\ \A p \in Projs : KeptOf(p) /\ UnmadeOf(p) /\ \A o \in ProjReqs : SeenOf(p, o)
  BY ByProject
<1>1. PICK c : c = preq[q].of
  OBVIOUS
<1>2. /\ preq[q].pc = "cleared" /\ preq[q].op = "delete" /\ Release(q) /\ UNCHANGED <<place, races, held, returned>>
      /\ proj' = [proj EXCEPT ![c] = NoDoc]
      /\ answered' = [answered EXCEPT ![c].gone = TRUE]
      /\ c \in Projs /\ proj \in [Projs -> ProjDoc] /\ answered \in [Projs -> Said]
  BY <1>0, <1>1 DEF DeleteProject, ProjTypes, chatVars
<1>3. PICK said : said = [answered[c] EXCEPT !.gone = TRUE]
  OBVIOUS
<1>4. /\ said \in Said /\ said.text = answered[c].text /\ said.pin = answered[c].pin /\ said.gone
      /\ said.made = answered[c].made
  BY <1>2, <1>3 DEF Said
<1>5. answered' = [answered EXCEPT ![c] = said]
  BY <1>2, <1>3
<1>6. /\ proj' \in [Projs -> ProjDoc] /\ answered' \in [Projs -> Said]
      /\ proj'[c] = NoDoc /\ answered'[c] = said
      /\ \A p \in Projs : p # c => proj'[p] = proj[p] /\ answered'[p] = answered[p]
  BY <1>2, <1>4, <1>5, NoEditType
<1>7. On(q, c) /\ SeenOf(c, q)
  BY <1>0, <1>1, <1>2 DEF On
<1>8. \A ops : Raced(c, ops)' <=> Raced(c, ops)
  BY <1>2 DEF Raced
<1>9. answered[c].made /\ (Raced(c, {"delete", "move"}) \/ NoneIn(c))
  BY <1>2, <1>7 DEF SeenOf
<1>10. NoneIn(c)' <=> NoneIn(c)
  BY <1>2, StaysEmpty
<1>11. KeptOf(c)' /\ UnmadeOf(c)'
  BY <1>4, <1>6, <1>8, <1>9, <1>10, NoEditType DEF KeptOf, Kept, UnmadeOf
<1>12. ASSUME NEW o \in ProjReqs, o # q, On(o, c) PROVE SeenOf(c, o)'
  <2>1. SeenOf(c, o) /\ preq'[o] = preq[o]
    BY <1>0, <1>2, <1>12, Releases
  <2>2. Raced(c, {preq[q].op, preq[o].op})
    BY <1>0, <1>2, <1>7, <1>12 DEF Overlapping
  <2>3. /\ preq[o].op = "update" => Raced(c, {"update", "delete"})
        /\ preq[o].op = "move" => Raced(c, {"delete", "move"})
    <3>1. {"delete", "update"} = {"update", "delete"}
      OBVIOUS
    <3> QED BY <1>2, <2>2, <3>1
  <2> QED BY <1>4, <1>6, <1>8, <1>10, <2>1, <2>3 DEF SeenOf, On
<1>13. place' \in [Talks -> Projs \cup {NoProj}] /\ \A t \in Talks : place'[t] \in {place[t], c}
  BY <1>0, <1>2 DEF ProjTypes
<1> QED BY <1>1, <1>2, <1>6, <1>11, <1>12, <1>13, EndsOn

LEMMA MoveKeeps ==
  ASSUME ProjInv, NEW q \in ProjReqs, MoveSession(q)
  PROVE  ProjInv'
<1>0. ProjTypes /\ Overlapping /\ \A p \in Projs : KeptOf(p) /\ UnmadeOf(p) /\ \A o \in ProjReqs : SeenOf(p, o)
  BY ByProject
<1>1. PICK c : c = preq[q].of
  OBVIOUS
<1>2. /\ preq[q].pc = "read" /\ preq[q].op = "move" /\ Release(q) /\ UNCHANGED <<proj, answered, races, held, returned>>
      /\ place' = [place EXCEPT ![preq[q].talk] = c]
      /\ c \in Projs /\ preq[q].talk \in Talks /\ place \in [Talks -> Projs \cup {NoProj}]
  BY <1>0, <1>1 DEF MoveSession, Doing, ProjTypes, Edit, chatVars
<1>3. place' \in [Talks -> Projs \cup {NoProj}] /\ \A t \in Talks : place'[t] \in {place[t], c}
  BY <1>2
<1>4. On(q, c) /\ SeenOf(c, q) /\ KeptOf(c) /\ UnmadeOf(c)
  BY <1>0, <1>1, <1>2 DEF On
<1>5. \A ops : Raced(c, ops)' <=> Raced(c, ops)
  BY <1>2 DEF Raced
<1>6. answered[c].made /\ (proj[c].here \/ Raced(c, {"delete", "move"}))
  BY <1>2, <1>4 DEF SeenOf
<1>7. KeptOf(c)' /\ UnmadeOf(c)'
  BY <1>2, <1>4, <1>5, <1>6 DEF KeptOf, Kept, NoneIn, UnmadeOf, Unplaced
<1>8. ASSUME NEW o \in ProjReqs, o # q, On(o, c) PROVE SeenOf(c, o)'
  <2>1. SeenOf(c, o) /\ preq'[o] = preq[o]
    BY <1>0, <1>2, <1>8, Releases
  <2>2. preq[o].pc = "cleared" => Raced(c, {"delete", "move"})
    <3>1. Raced(c, {preq[o].op, preq[q].op})
      BY <1>0, <1>2, <1>4, <1>8 DEF Overlapping
    <3> QED BY <1>0, <1>2, <3>1 DEF ProjTypes
  <2> QED BY <1>2, <1>5, <2>1, <2>2 DEF SeenOf, On, NoneIn
<1>9. proj' \in [Projs -> ProjDoc] /\ answered' \in [Projs -> Said]
  BY <1>0, <1>2 DEF ProjTypes
<1> QED BY <1>1, <1>2, <1>3, <1>7, <1>8, <1>9, EndsOn

\* Sessions are taken out of projects; a request may come to its end without a trace.
LEMMA LeavesKeep ==
  ASSUME ProjInv, (\E q \in ProjReqs : ClearSessions(q) \/ ProjCrash(q)) \/ (\E t \in Talks : TakeOut(t))
  PROVE  ProjInv'
<1>0. ProjTypes /\ Overlapping /\ \A p \in Projs : KeptOf(p) /\ UnmadeOf(p) /\ \A o \in ProjReqs : SeenOf(p, o)
  BY ByProject
<1>1. ASSUME NEW t \in Talks, TakeOut(t) PROVE ProjInv'
  <2>1. /\ UNCHANGED <<proj, preq, answered, races, held, returned>>
        /\ place' \in [Talks -> Projs \cup {NoProj}]
        /\ \A u \in Talks : \A p \in Projs : place'[u] = p => place[u] = p
    BY <1>0, <1>1, ProjAssumption DEF TakeOut, ProjTypes, chatVars
  <2>2. \A p \in Projs : Elsewhere(p)
    BY <2>1 DEF Elsewhere, Raced, On
  <2>3. ProjTypes' /\ Overlapping'
    BY <1>0, <2>1, StillOverlapping DEF ProjTypes
  <2> QED BY <2>2, <2>3, OthersRest, ByProjectNext
<1>2. ASSUME NEW q \in ProjReqs, ProjCrash(q) PROVE ProjInv'
  <2>1. Release(q) /\ UNCHANGED <<proj, place, answered, races, held, returned>>
    BY <1>2 DEF ProjCrash, chatVars
  <2>2. /\ preq' \in [ProjReqs -> Edit] /\ preq'[q].pc = "idle"
        /\ \A o \in ProjReqs : o # q => preq'[o] = preq[o]
    BY <1>0, <2>1, Releases
  <2>3. \A p \in Projs : Elsewhere(p)
    BY <2>1, <2>2 DEF Elsewhere, Raced, On
  <2>4. ProjTypes'
    BY <1>0, <2>1, <2>2 DEF ProjTypes
  <2>5. Overlapping'
    BY <1>0, <2>1, <2>2, StillOverlapping
  <2> QED BY <2>3, <2>4, <2>5, OthersRest, ByProjectNext
<1>3. ASSUME NEW q \in ProjReqs, ClearSessions(q) PROVE ProjInv'
  <2>1. PICK c : c = preq[q].of
    OBVIOUS
  <2>2. /\ preq[q].pc = "read" /\ preq[q].op = "delete" /\ c \in Projs /\ preq[q] \in Edit
        /\ place' = [t \in Talks |-> IF place[t] = c THEN NoProj ELSE place[t]]
        /\ preq' = [preq EXCEPT ![q].pc = "cleared"] /\ UNCHANGED <<proj, answered, races, held, returned>>
        /\ preq \in [ProjReqs -> Edit] /\ place \in [Talks -> Projs \cup {NoProj}]
    BY <1>0, <1>3, <2>1 DEF ClearSessions, Doing, ProjTypes, chatVars
  <2>3. PICK e : e = [preq[q] EXCEPT !.pc = "cleared"]
    OBVIOUS
  <2>4. e \in Edit /\ e.op = "delete" /\ e.of = c /\ e.pc = "cleared" /\ e.saw = preq[q].saw
    BY <2>1, <2>2, <2>3 DEF Edit
  <2>5. /\ preq' \in [ProjReqs -> Edit] /\ preq'[q] = e
        /\ \A o \in ProjReqs : o # q => preq'[o] = preq[o]
    BY <2>2, <2>3, <2>4
  <2>6. /\ place' \in [Talks -> Projs \cup {NoProj}]
        /\ \A t \in Talks : place'[t] # c /\ \A p \in Projs : place'[t] = p => place[t] = p
    BY <2>2, ProjAssumption
  <2>7. ProjTypes'
    BY <1>0, <2>2, <2>4, <2>5, <2>6 DEF ProjTypes, ProjOps
  <2>8. Overlapping'
    BY <1>0, <2>1, <2>2, <2>4, <2>5, StillOverlapping
  <2>9. ASSUME NEW p \in Projs, p # c PROVE KeptOf(p)' /\ UnmadeOf(p)' /\ \A o \in ProjReqs : SeenOf(p, o)'
    <3>1. Elsewhere(p)
      BY <2>2, <2>4, <2>5, <2>6, <2>9 DEF Elsewhere, Raced, On
    <3> QED BY <3>1, OthersRest
  <2>10. \A ops : Raced(c, ops)' <=> Raced(c, ops)
    BY <2>2 DEF Raced
  <2>11. On(q, c) /\ SeenOf(c, q) /\ KeptOf(c) /\ UnmadeOf(c)
    BY <1>0, <2>1, <2>2 DEF On
  <2>12. KeptOf(c)' /\ UnmadeOf(c)'
    BY <2>2, <2>6, <2>10, <2>11 DEF KeptOf, Kept, NoneIn, UnmadeOf, Unplaced
  <2>13. ASSUME NEW o \in ProjReqs PROVE SeenOf(c, o)'
    <3>1. CASE o = q
      BY <2>2, <2>4, <2>5, <2>6, <2>11, <3>1 DEF SeenOf, On, NoneIn
    <3>2. CASE o # q
      <4>1. SeenOf(c, o) /\ preq'[o] = preq[o]
        BY <1>0, <2>2, <2>5, <3>2
      <4> QED BY <2>2, <2>6, <2>10, <4>1 DEF SeenOf, On, NoneIn
    <3> QED BY <3>1, <3>2
  <2> QED BY <2>7, <2>8, <2>9, <2>12, <2>13, ByProjectNext
<1> QED BY <1>1, <1>2, <1>3

\* A chat finds a session, and saves it as it found it.
LEMMA ChatsKeep ==
  ASSUME ProjInv, (\E t \in Talks : HoldTalk(t)) \/ \E h \in held : SaveTalk(h)
  PROVE  ProjInv'
<1>0. ProjTypes /\ Overlapping /\ \A p \in Projs : KeptOf(p) /\ UnmadeOf(p) /\ \A q \in ProjReqs : SeenOf(p, q)
  BY ByProject
<1>1. UNCHANGED <<proj, preq, answered, races>>
  BY DEF HoldTalk, SaveTalk
<1>2. \A p \in Projs : \A ops : Raced(p, ops)' <=> Raced(p, ops)
  BY <1>1 DEF Raced
<1>3. ASSUME NEW t \in Talks, HoldTalk(t) PROVE ProjInv'
  <2>1. held' = held \cup {[talk |-> t, of |-> place[t]]} /\ UNCHANGED <<place, returned>>
    BY <1>3 DEF HoldTalk
  <2>2. ProjTypes' /\ Overlapping'
    <3>1. [talk |-> t, of |-> place[t]] \in HeldTalks
      BY <1>0 DEF HeldTalks, ProjTypes
    <3>2. held' \subseteq HeldTalks
      BY <1>0, <2>1, <3>1 DEF ProjTypes
    <3>3. Overlapping'
      BY <1>0, <1>1, StillOverlapping
    <3> QED BY <1>0, <1>1, <2>1, <3>2, <3>3 DEF ProjTypes
  <2>3. ASSUME NEW p \in Projs PROVE KeptOf(p)' /\ UnmadeOf(p)' /\ \A q \in ProjReqs : SeenOf(p, q)'
    <3>1. KeptOf(p) /\ UnmadeOf(p) /\ \A q \in ProjReqs : SeenOf(p, q)
      BY <1>0
    <3>2. NoneIn(p)' <=> NoneIn(p)
      BY <2>1 DEF NoneIn
    <3>3. KeptOf(p)'
      BY <1>1, <1>2, <3>1, <3>2 DEF KeptOf, Kept
    <3>4. Unplaced(p) => Unplaced(p)'
      BY <2>1 DEF Unplaced
    <3>5. UnmadeOf(p)'
      BY <1>1, <3>1, <3>4 DEF UnmadeOf
    <3>6. ASSUME NEW q \in ProjReqs PROVE SeenOf(p, q)'
      BY <1>1, <1>2, <3>1, <3>2 DEF SeenOf, On
    <3> QED BY <3>3, <3>5, <3>6
  <2> QED BY <2>2, <2>3, ByProjectNext
<1>4. ASSUME NEW h \in held, SaveTalk(h) PROVE ProjInv'
  <2>1. /\ held' \subseteq held /\ place' = [place EXCEPT ![h.talk] = h.of]
        /\ returned' = IF place[h.talk] # h.of THEN returned \cup {h} ELSE returned
        /\ h \in HeldTalks /\ h.talk \in Talks /\ h.of \in Projs \cup {NoProj}
        /\ h = [talk |-> h.talk, of |-> h.of]
    BY <1>0, <1>4 DEF SaveTalk, ProjTypes, HeldTalks
  <2>2. ProjTypes' /\ Overlapping'
    <3>1. place' \in [Talks -> Projs \cup {NoProj}] /\ held' \subseteq HeldTalks /\ returned' \subseteq HeldTalks
      BY <1>0, <2>1 DEF ProjTypes
    <3>2. Overlapping'
      BY <1>0, <1>1, StillOverlapping
    <3> QED BY <1>0, <1>1, <3>1, <3>2 DEF ProjTypes
  <2>3. /\ place'[h.talk] = h.of /\ returned \subseteq returned'
        /\ \A t \in Talks : t # h.talk => place'[t] = place[t]
        /\ place[h.talk] = h.of \/ h \in returned'
    BY <1>0, <2>1 DEF ProjTypes
  <2>4. ASSUME NEW p \in Projs PROVE KeptOf(p)' /\ UnmadeOf(p)' /\ \A q \in ProjReqs : SeenOf(p, q)'
    <3>1. KeptOf(p) /\ UnmadeOf(p) /\ \A q \in ProjReqs : SeenOf(p, q)
      BY <1>0
    <3>2. NoneIn(p) => NoneIn(p)'
      <4> SUFFICES ASSUME NoneIn(p), NEW t \in Talks, place'[t] = p PROVE [talk |-> t, of |-> p] \in returned'
        BY DEF NoneIn
      <4>1. CASE place[t] = p
        BY <2>3, <4>1 DEF NoneIn
      <4>2. CASE place[t] # p
        <5>1. t = h.talk /\ h.of = p
          BY <2>3, <4>2
        <5> QED BY <2>1, <2>3, <4>2, <5>1
      <4> QED BY <4>1, <4>2
    <3>3. KeptOf(p)'
      BY <1>1, <1>2, <3>1, <3>2 DEF KeptOf, Kept
    <3>4. Unplaced(p) => Unplaced(p)'
      BY <1>4, <2>1, <2>3 DEF Unplaced
    <3>5. UnmadeOf(p)'
      BY <1>1, <3>1, <3>4 DEF UnmadeOf
    <3>6. ASSUME NEW q \in ProjReqs PROVE SeenOf(p, q)'
      BY <1>1, <1>2, <3>1, <3>2 DEF SeenOf, On
    <3> QED BY <3>3, <3>5, <3>6
  <2> QED BY <2>2, <2>4, ByProjectNext
<1> QED BY <1>3, <1>4

LEMMA ProjStep == ProjInv /\ [ProjNext]_projVars => ProjInv'
<1> SUFFICES ASSUME ProjInv, [ProjNext]_projVars PROVE ProjInv'
  OBVIOUS
<1>1. CASE UNCHANGED projVars
  <2>1. UNCHANGED <<proj, place, preq, answered, races, held, returned>>
    BY <1>1 DEF projVars, chatVars
  <2>2. ProjTypes /\ Overlapping
    BY ByProject
  <2>3. ProjTypes' /\ Overlapping'
    BY <2>1, <2>2, StillOverlapping DEF ProjTypes
  <2>4. \A p \in Projs : Elsewhere(p)
    BY <2>1 DEF Elsewhere, Raced, On
  <2> QED BY <2>3, <2>4, OthersRest, ByProjectNext
<1>2. CASE ProjNext
  BY <1>2, CreateKeeps, ReadProjectKeeps, EditKeeps, PinKeeps, DeleteKeeps, MoveKeeps, LeavesKeep, ChatsKeep
  DEF ProjNext, ProjOps
<1> QED BY <1>1, <1>2

-----------------------------------------------------------------------------
(* The session list.  An entry that differs from its document has a         *)
(* notification on the way that will put it right (OnTheWay), or is an      *)
(* exception; a removal is announced only of what is gone, or was brought   *)
(* back (RemovalsTrue).                                                     *)

ListTypes ==
  /\ doc \in [Sessions -> Values \cup {None}] /\ born \subseteq Sessions
  /\ copy \in Copies \cup {None} /\ revived \subseteq Sessions
  /\ clearing \in (SUBSET Sessions) \cup {None} /\ asked \in [Bars -> Asks]
  /\ due \in [Notes -> Nat] /\ chan \in [Bars -> Seq(Notes)]
  /\ ws \in [Bars -> {"off", "subscribed", "live"}]
  /\ list \in [Bars -> [Sessions -> Values \cup {None}]]
  /\ fetch \in [Bars -> [Sessions -> Values \cup {None}] \cup {None}]
  /\ excused \in [Bars -> SUBSET Sessions]
InChan(b, n) == \E i \in DOMAIN chan[b] : chan[b][i] = n
Coming(b, n) == due[n] > 0 \/ InChan(b, n)
OnTheWay(b, s) ==
  ws[b] = "live" /\ s \notin revived \cup excused[b] /\ list[b][s] # doc[s] =>
    IF doc[s] = None THEN Coming(b, Note("remove", s))
    ELSE Coming(b, Note("saved", s)) \/ Coming(b, Note("updated", s))
RemovalsTrue ==
  \A b \in Bars, s \in Sessions : Coming(b, Note("remove", s)) => s \in born /\ (doc[s] = None \/ s \in revived)
Births == /\ \A s \in Sessions : doc[s] # None => s \in born
          /\ copy # None => copy.s \in born
ListInv == ListTypes /\ RemovalsTrue /\ Births /\ \A b \in Bars, s \in Sessions : OnTheWay(b, s)

LEMMA NoteType ==
  /\ \A verb \in {"saved", "updated", "remove"} : \A s \in Sessions :
       Note(verb, s) \in Notes /\ Note(verb, s).op = verb /\ Note(verb, s).s = s
  /\ \A n \in Notes : n.op \in {"saved", "updated", "remove"} /\ n.s \in Sessions /\ n = Note(n.op, n.s)
  BY DEF Note, Notes

LEMMA ListConverges == ASSUME ListInv PROVE Converged
<1> SUFFICES ASSUME NEW b \in Bars, NEW s \in Sessions, CaughtUp(b, s)
             PROVE  list[b][s] = doc[s] \/ s \in revived \cup excused[b]
  BY DEF Converged
<1>1. ws[b] = "live" /\ chan[b] \in Seq(Notes) /\ DOMAIN chan[b] = 1..Len(chan[b])
  BY DEF CaughtUp, ListInv, ListTypes
<1>2. \A verb \in {"saved", "updated", "remove"} : ~Coming(b, Note(verb, s))
  <2> SUFFICES ASSUME NEW verb \in {"saved", "updated", "remove"} PROVE ~Coming(b, Note(verb, s))
    OBVIOUS
  <2>1. due[Note(verb, s)] = 0 /\ Note(verb, s).s = s
    BY NoteType DEF CaughtUp
  <2>2. \A i \in DOMAIN chan[b] : chan[b][i].s # s
    BY <1>1 DEF CaughtUp
  <2> QED BY <2>1, <2>2 DEF Coming, InChan
<1>3. OnTheWay(b, s)
  BY DEF ListInv
<1> QED BY <1>1, <1>2, <1>3 DEF OnTheWay

LEMMA ListInitInv == ListInit => ListInv
<1> SUFFICES ASSUME ListInit PROVE ListInv
  OBVIOUS
<1>1. ListTypes
  <2>1. <<>> \in Seq(Notes) /\ [s \in Sessions |-> None] \in [Sessions -> Values \cup {None}]
    OBVIOUS
  <2>2. NoAsk \in Asks
    BY DEF NoAsk, Asks
  <2> QED BY <2>1, <2>2 DEF ListInit, ListTypes
<1>2. \A b \in Bars : \A n \in Notes : ~Coming(b, n)
  BY DEF ListInit, Coming, InChan
<1>3. RemovalsTrue
  BY <1>2, NoteType DEF RemovalsTrue
<1>4. Births /\ \A b \in Bars, s \in Sessions : OnTheWay(b, s)
  BY DEF ListInit, Births, OnTheWay
<1> QED BY <1>1, <1>3, <1>4 DEF ListInv

-----------------------------------------------------------------------------
\* A write: what is on its way, and what is new on its way.
LEMMA WriteMoves ==
  ASSUME ListTypes, NEW s \in Sessions, NEW v \in Values \cup {None}, NEW verb \in {"saved", "updated", "remove"},
         Write(s, v, verb)
  PROVE  /\ doc' \in [Sessions -> Values \cup {None}] /\ doc'[s] = v
         /\ \A t \in Sessions : t # s => doc'[t] = doc[t]
         /\ due' \in [Notes -> Nat] /\ UNCHANGED <<clearing, chan, ws, list, fetch, excused>>
         /\ \A b \in Bars : Coming(b, Note(verb, s))'
         /\ \A b \in Bars : \A n \in Notes : Coming(b, n) => Coming(b, n)'
         /\ \A b \in Bars : \A n \in Notes : n # Note(verb, s) => (Coming(b, n)' <=> Coming(b, n))
<1>1. /\ doc \in [Sessions -> Values \cup {None}] /\ due \in [Notes -> Nat]
      /\ doc' = [doc EXCEPT ![s] = v]
      /\ due' = [due EXCEPT ![Note(verb, s)] = @ + 1]
      /\ UNCHANGED <<clearing, chan, ws, list, fetch, excused>>
  BY DEF Write, barVars, ListTypes
<1>2. PICK m \in Notes : m = Note(verb, s)
  BY NoteType
<1>3. /\ due' \in [Notes -> Nat] /\ due'[m] = due[m] + 1 /\ due'[m] > 0
      /\ \A n \in Notes : due'[n] >= due[n] /\ (n # m => due'[n] = due[n])
  BY <1>1, <1>2
<1>4. \A n \in Notes : due[n] > 0 => due'[n] > 0
  BY <1>1, <1>3
<1>5. doc' \in [Sessions -> Values \cup {None}] /\ doc'[s] = v /\ \A t \in Sessions : t # s => doc'[t] = doc[t]
  BY <1>1
<1>6. \A b \in Bars : \A n \in Notes : InChan(b, n)' <=> InChan(b, n)
  BY <1>1 DEF InChan
<1> QED BY <1>1, <1>2, <1>3, <1>4, <1>5, <1>6 DEF Coming

\* A document is written: what has to be known of it.
LEMMA WriteKeeps ==
  ASSUME ListInv, NEW s \in Sessions, NEW v \in Values \cup {None}, NEW verb \in {"saved", "updated", "remove"},
         Write(s, v, verb), asked' \in [Bars -> Asks],
         v = None <=> verb = "remove",
         born \subseteq born', born' \subseteq Sessions, revived \subseteq revived', revived' \subseteq Sessions,
         copy' \in Copies \cup {None}, copy' # None => copy'.s \in born', s \in born',
         v # None => (s \in born => doc[s] # None \/ s \in revived')
  PROVE  ListInv'
<1>0. ListTypes /\ RemovalsTrue /\ Births
  BY DEF ListInv
<1>1. /\ doc' \in [Sessions -> Values \cup {None}] /\ doc'[s] = v
      /\ \A t \in Sessions : t # s => doc'[t] = doc[t]
      /\ due' \in [Notes -> Nat] /\ UNCHANGED <<clearing, chan, ws, list, fetch, excused>>
      /\ \A b \in Bars : Coming(b, Note(verb, s))'
      /\ \A b \in Bars : \A n \in Notes : Coming(b, n) => Coming(b, n)'
      /\ \A b \in Bars : \A n \in Notes : n # Note(verb, s) => (Coming(b, n)' <=> Coming(b, n))
  BY <1>0, WriteMoves
<1>2. ListTypes'
  BY <1>0, <1>1 DEF ListTypes
<1>3. Births'
  BY <1>0, <1>1 DEF Births
<1>4. ASSUME NEW b \in Bars, NEW t \in Sessions, Coming(b, Note("remove", t))'
      PROVE  t \in born' /\ (doc'[t] = None \/ t \in revived')
  <2>1. Note("remove", t) \in Notes /\ Note("remove", t).op = "remove" /\ Note("remove", t).s = t
        /\ Note(verb, s).op = verb /\ Note(verb, s).s = s
    BY NoteType
  <2>2. CASE Note("remove", t) = Note(verb, s)
    BY <1>1, <2>1, <2>2
  <2>3. CASE Note("remove", t) # Note(verb, s)
    <3>1. Coming(b, Note("remove", t))
      BY <1>1, <1>4, <2>1, <2>3
    <3>2. t \in born /\ (doc[t] = None \/ t \in revived)
      BY <1>0, <3>1 DEF RemovalsTrue
    <3>3. CASE t = s
      BY <1>1, <3>2, <3>3
    <3>4. CASE t # s
      BY <1>1, <3>2, <3>4
    <3> QED BY <3>3, <3>4
  <2> QED BY <2>2, <2>3
<1>5. RemovalsTrue'
  BY <1>4 DEF RemovalsTrue
<1>6. ASSUME NEW b \in Bars, NEW t \in Sessions PROVE OnTheWay(b, t)'
  <2>1. OnTheWay(b, t) /\ ws'[b] = ws[b] /\ list'[b] = list[b] /\ excused'[b] = excused[b]
    BY <1>1 DEF ListInv
  <2>2. \A o \in {"saved", "updated", "remove"} : Coming(b, Note(o, t)) => Coming(b, Note(o, t))'
    BY <1>1, NoteType
  <2>3. CASE t = s
    <3>1. Coming(b, Note(verb, t))'
      BY <1>1, <2>3
    <3> QED BY <1>1, <2>3, <3>1, ListAssumption DEF OnTheWay
  <2>4. CASE t # s
    BY <1>1, <2>1, <2>2, <2>4 DEF OnTheWay
  <2> QED BY <2>3, <2>4
<1> QED BY <1>2, <1>3, <1>5, <1>6 DEF ListInv

LEMMA AskTypes ==
  ASSUME ListTypes, NEW verb \in {"updated", "remove", "cleared"}, NEW of \in SUBSET Sessions, Awaited(verb, of)
  PROVE  asked' \in [Bars -> Asks]
<1>1. asked \in [Bars -> Asks]
  BY DEF ListTypes
<1>2. CASE UNCHANGED asked
  BY <1>1, <1>2
<1>3. ASSUME NEW b \in Bars, asked' = [asked EXCEPT ![b] = [op |-> verb, of |-> of]]
      PROVE  asked' \in [Bars -> Asks]
  <2>1. [op |-> verb, of |-> of] \in Asks
    BY DEF Asks
  <2> QED BY <1>1, <1>3, <2>1
<1> QED BY <1>2, <1>3 DEF Awaited

LEMMA WritersKeep ==
  ASSUME ListInv,
         (\E s \in Sessions : CreateSession(s) \/ UpdateSession(s) \/ DeleteSession(s) \/ HoldCopy(s))
           \/ SaveCopy \/ ReadAffected
  PROVE  ListInv'
<1>0. ListTypes /\ RemovalsTrue /\ Births
  BY DEF ListInv
<1>1. ASSUME NEW s \in Sessions, CreateSession(s) PROVE ListInv'
  <2>1. PICK v \in Values : Write(s, v, "saved")
    BY <1>1 DEF CreateSession
  <2>2. s \notin born /\ born' = born \cup {s} /\ UNCHANGED <<copy, revived, asked>>
    BY <1>1 DEF CreateSession
  <2> QED BY <1>0, <2>1, <2>2, WriteKeeps, ListAssumption DEF ListTypes, Births
<1>2. ASSUME NEW s \in Sessions, UpdateSession(s) PROVE ListInv'
  <2>1. PICK v \in Values : Write(s, v, "updated")
    BY <1>2 DEF UpdateSession, SetFields
  <2>2. doc[s] # None /\ UNCHANGED <<born, copy, revived>>
    BY <1>2 DEF UpdateSession, Found
  <2>3. asked' \in [Bars -> Asks]
    BY <1>0, <1>2, AskTypes DEF UpdateSession
  <2> QED BY <1>0, <2>1, <2>2, <2>3, WriteKeeps, ListAssumption DEF ListTypes, Births
<1>3. ASSUME NEW s \in Sessions, DeleteSession(s) PROVE ListInv'
  <2>1. Write(s, None, "remove") /\ doc[s] # None /\ UNCHANGED <<born, copy, revived>>
    BY <1>3 DEF DeleteSession, Deleted, Found
  <2>2. asked' \in [Bars -> Asks]
    BY <1>0, <1>3, AskTypes DEF DeleteSession
  <2> QED BY <1>0, <2>1, <2>2, WriteKeeps DEF ListTypes, Births
<1>4. ASSUME NEW s \in Sessions, HoldCopy(s) PROVE ListInv'
  <2>1. /\ doc[s] # None /\ copy' = [s |-> s, v |-> doc[s]]
        /\ UNCHANGED <<doc, born, revived, clearing, due, asked, chan, ws, list, fetch, excused>>
    BY <1>4 DEF HoldCopy, owedVars, barVars
  <2>2. copy' \in Copies /\ copy'.s = s /\ s \in born
    BY <1>0, <2>1 DEF ListTypes, Copies, Births
  <2>3. ListTypes' /\ Births'
    BY <1>0, <2>1, <2>2 DEF ListTypes, Births
  <2>4. RemovalsTrue' /\ \A b \in Bars, t \in Sessions : OnTheWay(b, t)'
    BY <2>1 DEF ListInv, RemovalsTrue, OnTheWay, Coming, InChan
  <2> QED BY <2>3, <2>4 DEF ListInv
<1>5. ASSUME SaveCopy PROVE ListInv'
  <2>1. /\ copy \in Copies /\ copy' = None /\ born' = born /\ asked' = asked /\ copy.s \in born
        /\ revived' = IF doc[copy.s] = None THEN revived \cup {copy.s} ELSE revived
        /\ Write(copy.s, copy.v, "saved")
    BY <1>0, <1>5 DEF SaveCopy, ListTypes, Births
  <2>2. PICK s \in Sessions, v \in Values : s = copy.s /\ v = copy.v
    BY <2>1 DEF Copies
  <2>3. /\ Write(s, v, "saved") /\ s \in born /\ revived \subseteq revived' /\ revived' \subseteq Sessions
        /\ doc[s] # None \/ s \in revived'
    BY <1>0, <2>1, <2>2 DEF ListTypes
  <2> QED BY <1>0, <2>1, <2>3, WriteKeeps, ListAssumption DEF ListTypes
<1>6. ASSUME ReadAffected PROVE ListInv'
  <2>1. /\ clearing' = InProject
        /\ UNCHANGED <<doc, born, copy, revived, due, asked, chan, ws, list, fetch, excused>>
    BY <1>6 DEF ReadAffected, owedVars, barVars
  <2>2. InProject \in SUBSET Sessions
    BY DEF InProject
  <2>3. ListTypes' /\ Births'
    BY <1>0, <2>1, <2>2 DEF ListTypes, Births
  <2>4. RemovalsTrue' /\ \A b \in Bars, t \in Sessions : OnTheWay(b, t)'
    BY <2>1 DEF ListInv, RemovalsTrue, OnTheWay, Coming, InChan
  <2> QED BY <2>3, <2>4 DEF ListInv
<1> QED BY <1>1, <1>2, <1>3, <1>4, <1>5, <1>6

\* Sessions are taken out of a project: those read before are told of, the others are excused.
LEMMA ClearKeeps ==
  ASSUME ListInv, ClearProject
  PROVE  ListInv'
<1>0. ListTypes /\ RemovalsTrue /\ Births
  BY DEF ListInv
<1>1. PICK v \in Values \ Placed : doc' = [s \in Sessions |-> IF s \in InProject THEN v ELSE doc[s]]
  BY DEF ClearProject
<1>2. /\ clearing \in SUBSET Sessions /\ clearing' = None
      /\ due' = [n \in Notes |-> IF n.op = "saved" /\ n.s \in clearing THEN due[n] + 1 ELSE due[n]]
      /\ excused' = [b \in Bars |-> excused[b] \cup (InProject \ clearing)]
      /\ UNCHANGED <<born, copy, revived, chan, ws, list, fetch>>
  <2>1. clearing \in SUBSET Sessions
    BY <1>0 DEF ClearProject, ListTypes
  <2> QED BY <2>1 DEF ClearProject, barVars
<1>3. InProject \in SUBSET Sessions /\ (\A s \in InProject : doc[s] \in Values) /\ v \in Values /\ v # None
  BY <1>1, ListAssumption DEF InProject
<1>4. /\ doc' \in [Sessions -> Values \cup {None}]
      /\ \A s \in Sessions : doc'[s] = IF s \in InProject THEN v ELSE doc[s]
  BY <1>0, <1>1, <1>3 DEF ListTypes
<1>5. \A s \in Sessions : (doc'[s] = None) <=> (doc[s] = None)
  BY <1>3, <1>4, ListAssumption
<1>6. /\ due \in [Notes -> Nat] /\ due' \in [Notes -> Nat]
      /\ \A n \in Notes : due[n] > 0 => due'[n] > 0
      /\ \A n \in Notes : n.op # "saved" => due'[n] = due[n]
      /\ \A s \in clearing : due'[Note("saved", s)] > 0
  <2>1. due \in [Notes -> Nat]
    BY <1>0 DEF ListTypes
  <2>2. \A s \in clearing : due'[Note("saved", s)] = due[Note("saved", s)] + 1 /\ due[Note("saved", s)] \in Nat
    BY <1>2, <2>1, NoteType
  <2>3. \A n \in Notes : due'[n] \in {due[n], due[n] + 1} /\ due[n] \in Nat
    BY <1>2, <2>1
  <2>4. due' \in [Notes -> Nat]
    BY <1>2, <2>1, <2>3
  <2>5. \A n \in Notes : n.op # "saved" => due'[n] = due[n]
    BY <1>2
  <2>6. \A n \in Notes : due[n] > 0 => due'[n] > 0
    BY <2>3
  <2>7. \A s \in clearing : due'[Note("saved", s)] > 0
    BY <2>2
  <2> QED BY <2>1, <2>4, <2>5, <2>6, <2>7
<1>7. \A b \in Bars : \A m : InChan(b, m)' <=> InChan(b, m)
  BY <1>2 DEF InChan
<1>8. ListTypes'
  <2>1. asked' \in [Bars -> Asks]
    BY <1>0, AskTypes DEF ClearProject
  <2>2. excused' \in [Bars -> SUBSET Sessions]
    BY <1>0, <1>2, <1>3 DEF ListTypes
  <2>3. doc' \in [Sessions -> Values \cup {None}]
    BY <1>4
  <2> QED BY <1>0, <1>2, <1>6, <2>1, <2>2, <2>3 DEF ListTypes
<1>9. RemovalsTrue'
  <2>1. ASSUME NEW b \in Bars, NEW s \in Sessions, Coming(b, Note("remove", s))' PROVE Coming(b, Note("remove", s))
    BY <1>6, <1>7, <2>1, NoteType DEF Coming
  <2> QED BY <1>0, <1>2, <1>5, <2>1 DEF RemovalsTrue
<1>10. Births'
  BY <1>0, <1>2, <1>5 DEF Births
<1>11. ASSUME NEW b \in Bars, NEW s \in Sessions PROVE OnTheWay(b, s)'
  <2>1. OnTheWay(b, s) /\ excused'[b] = excused[b] \cup (InProject \ clearing)
    BY <1>2 DEF ListInv
  <2>2. \A verb \in {"saved", "updated", "remove"} : Coming(b, Note(verb, s)) => Coming(b, Note(verb, s))'
    BY <1>6, <1>7, NoteType DEF Coming
  <2>3. CASE s \in InProject /\ s \in clearing
    <3>1. Coming(b, Note("saved", s))'
      BY <1>6, <2>3 DEF Coming
    <3> QED BY <1>3, <1>4, <2>3, <3>1 DEF OnTheWay
  <2>4. CASE s \in InProject /\ s \notin clearing
    BY <2>1, <2>4 DEF OnTheWay
  <2>5. CASE s \notin InProject
    BY <1>2, <1>4, <2>1, <2>2, <2>5 DEF OnTheWay
  <2> QED BY <2>3, <2>4, <2>5
<1> QED BY <1>8, <1>9, <1>10, <1>11 DEF ListInv

-----------------------------------------------------------------------------
\* A notification goes to the end of a channel.
LEMMA ChannelGrows ==
  ASSUME NEW c \in Seq(Notes), NEW n \in Notes
  PROVE  LET d == Append(c, n)
         IN  /\ d \in Seq(Notes)
             /\ \A m : (\E i \in DOMAIN d : d[i] = m) <=> m = n \/ (\E i \in DOMAIN c : c[i] = m)
<1>1. /\ DOMAIN c = 1..Len(c) /\ Len(c) \in Nat /\ Append(c, n) \in Seq(Notes)
      /\ DOMAIN Append(c, n) = 1..(Len(c) + 1)
      /\ Append(c, n)[Len(c) + 1] = n /\ \A i \in DOMAIN c : Append(c, n)[i] = c[i]
  OBVIOUS
<1>2. 1..(Len(c) + 1) = (1..Len(c)) \cup {Len(c) + 1}
  BY <1>1
<1> QED BY <1>1, <1>2

\* The head leaves a channel; all else is as it was.
LEMMA ChannelShrinks ==
  ASSUME NEW c \in Seq(Notes), c # <<>>
  PROVE  /\ Head(c) \in Notes /\ Tail(c) \in Seq(Notes)
         /\ \A m : (\E i \in DOMAIN c : c[i] = m) => m = Head(c) \/ \E i \in DOMAIN Tail(c) : Tail(c)[i] = m
         /\ \A m : (\E i \in DOMAIN Tail(c) : Tail(c)[i] = m) => \E i \in DOMAIN c : c[i] = m
<1>1. /\ DOMAIN c = 1..Len(c) /\ Len(c) \in Nat /\ Len(c) >= 1 /\ Head(c) = c[1] /\ Head(c) \in Notes
      /\ Tail(c) \in Seq(Notes)
      /\ DOMAIN Tail(c) = 1..(Len(c) - 1) /\ \A i \in 1..(Len(c) - 1) : Tail(c)[i] = c[i + 1]
  OBVIOUS
<1>2. ASSUME NEW i \in DOMAIN c, i # 1 PROVE i - 1 \in DOMAIN Tail(c) /\ Tail(c)[i - 1] = c[i]
  BY <1>1, <1>2
<1>3. ASSUME NEW i \in DOMAIN Tail(c) PROVE i + 1 \in DOMAIN c /\ c[i + 1] = Tail(c)[i]
  BY <1>1, <1>3
<1> QED BY <1>1, <1>2, <1>3

LEMMA NotifyKeeps ==
  ASSUME ListInv, NEW n \in Notes, Notify(n)
  PROVE  ListInv'
<1>0. ListTypes /\ RemovalsTrue /\ Births
  BY DEF ListInv
<1>1. /\ due[n] > 0 /\ due' = [due EXCEPT ![n] = @ - 1] /\ due \in [Notes -> Nat] /\ chan \in [Bars -> Seq(Notes)]
      /\ IF n.op = "updated" /\ doc[n.s] = None THEN UNCHANGED chan ELSE Publish(n)
      /\ UNCHANGED <<doc, born, copy, revived, clearing, asked, ws, list, fetch, excused>>
  BY <1>0 DEF Notify, docsVars, barVars, ListTypes
<1>2. due' \in [Notes -> Nat] /\ \A m \in Notes : (m # n => due'[m] = due[m]) /\ (due'[m] > 0 => due[m] > 0)
  BY <1>1
<1>3. chan' \in [Bars -> Seq(Notes)]
      /\ \A b \in Bars : \A m \in Notes : /\ InChan(b, m) => InChan(b, m)'
                                          /\ InChan(b, m)' => m = n \/ InChan(b, m)
                                          /\ m = n /\ ws[b] = "live" /\ ~(n.op = "updated" /\ doc[n.s] = None) => InChan(b, m)'
  <2>1. CASE n.op = "updated" /\ doc[n.s] = None
    BY <1>1, <2>1 DEF InChan
  <2>2. CASE ~(n.op = "updated" /\ doc[n.s] = None)
    <3>1. chan' = [b \in Bars |-> IF b \in Listeners THEN Append(chan[b], n) ELSE chan[b]]
      BY <1>1, <2>2 DEF Publish
    <3>2. ASSUME NEW b \in Bars
          PROVE  /\ chan'[b] \in Seq(Notes)
                 /\ \A m \in Notes : /\ InChan(b, m) => InChan(b, m)'
                                     /\ InChan(b, m)' => m = n \/ InChan(b, m)
                                     /\ m = n /\ ws[b] = "live" => InChan(b, m)'
      <4>1. CASE b \in Listeners
        <5>1. chan'[b] = Append(chan[b], n) /\ chan[b] \in Seq(Notes)
          BY <1>1, <3>1, <4>1
        <5>2. /\ chan'[b] \in Seq(Notes)
              /\ \A m : (\E i \in DOMAIN chan'[b] : chan'[b][i] = m) <=> m = n \/ (\E i \in DOMAIN chan[b] : chan[b][i] = m)
          BY <5>1, ChannelGrows
        <5> QED BY <5>2 DEF InChan
      <4>2. CASE b \notin Listeners
        <5>1. chan'[b] = chan[b] /\ chan[b] \in Seq(Notes) /\ ws[b] # "live"
          BY <1>1, <3>1, <4>2 DEF Listeners
        <5> QED BY <5>1 DEF InChan
      <4> QED BY <4>1, <4>2
    <3>3. chan' \in [Bars -> Seq(Notes)]
      BY <3>1, <3>2
    <3> QED BY <2>2, <3>2, <3>3
  <2> QED BY <2>1, <2>2
<1>4. \A b \in Bars : \A m \in Notes : Coming(b, m)' => Coming(b, m)
  BY <1>1, <1>2, <1>3 DEF Coming
<1>5. \A b \in Bars : \A m \in Notes :
        ws[b] = "live" /\ Coming(b, m) /\ ~(m.op = "updated" /\ doc[m.s] = None) => Coming(b, m)'
  BY <1>1, <1>2, <1>3 DEF Coming
<1>6. ListTypes' /\ Births'
  BY <1>0, <1>1, <1>2, <1>3 DEF ListTypes, Births
<1>7. RemovalsTrue'
  <2>1. \A b \in Bars, s \in Sessions : Coming(b, Note("remove", s))' => Coming(b, Note("remove", s))
    BY <1>4, NoteType
  <2> QED BY <1>0, <1>1, <2>1 DEF RemovalsTrue
<1>8. ASSUME NEW b \in Bars, NEW s \in Sessions PROVE OnTheWay(b, s)'
  <2>1. OnTheWay(b, s)
    BY DEF ListInv
  <2>2. /\ Note("remove", s) \in Notes /\ Note("remove", s).op = "remove"
        /\ Note("saved", s) \in Notes /\ Note("saved", s).op = "saved"
        /\ Note("updated", s) \in Notes /\ Note("updated", s).s = s
    BY NoteType
  <2>3. ws[b] = "live" => /\ Coming(b, Note("remove", s)) => Coming(b, Note("remove", s))'
                          /\ Coming(b, Note("saved", s)) => Coming(b, Note("saved", s))'
                          /\ doc[s] # None /\ Coming(b, Note("updated", s)) => Coming(b, Note("updated", s))'
    BY <1>5, <2>2
  <2> QED BY <1>1, <2>1, <2>3 DEF OnTheWay
<1> QED BY <1>6, <1>7, <1>8 DEF ListInv

\* A step that only takes away from what is on its way, and keeps it for every entry that needs it.
LEMMA LessComing ==
  ASSUME ListInv, ListTypes', UNCHANGED <<doc, born, copy, revived>>,
         \A b \in Bars : \A m \in Notes : Coming(b, m)' => Coming(b, m),
         \A b \in Bars, s \in Sessions : OnTheWay(b, s)'
  PROVE  ListInv'
<1>1. \A b \in Bars, s \in Sessions : Coming(b, Note("remove", s))' => Coming(b, Note("remove", s))
  BY NoteType
<1>2. RemovalsTrue'
  BY <1>1 DEF RemovalsTrue, ListInv
<1> QED BY <1>2 DEF ListInv, Births

LEMMA LoseKeeps ==
  ASSUME ListInv, NEW n \in Notes, LoseNotice(n)
  PROVE  ListInv'
<1>0. ListTypes /\ RemovalsTrue /\ Births
  BY DEF ListInv
<1>1. /\ due[n] > 0 /\ due' = [due EXCEPT ![n] = @ - 1] /\ due \in [Notes -> Nat]
      /\ excused' = [b \in Bars |-> excused[b] \cup {n.s}]
      /\ UNCHANGED <<doc, born, copy, revived, clearing, asked, chan, ws, list, fetch>> /\ n.s \in Sessions
  BY <1>0, NoteType DEF LoseNotice, docsVars, barVars, ListTypes
<1>2. due' \in [Notes -> Nat] /\ \A m \in Notes : (m # n => due'[m] = due[m]) /\ (due'[m] > 0 => due[m] > 0)
  BY <1>1
<1>3. \A b \in Bars : \A m \in Notes : (Coming(b, m)' => Coming(b, m)) /\ (m # n /\ Coming(b, m) => Coming(b, m)')
  BY <1>1, <1>2 DEF Coming, InChan
<1>4. ListTypes'
  BY <1>0, <1>1, <1>2 DEF ListTypes
<1>5. ASSUME NEW b \in Bars, NEW s \in Sessions PROVE OnTheWay(b, s)'
  <2>1. OnTheWay(b, s) /\ excused'[b] = excused[b] \cup {n.s}
    BY <1>1 DEF ListInv
  <2>2. CASE s = n.s
    BY <2>1, <2>2 DEF OnTheWay
  <2>3. CASE s # n.s
    <3>1. \A verb \in {"saved", "updated", "remove"} : Coming(b, Note(verb, s)) => Coming(b, Note(verb, s))'
      BY <1>3, <2>3, NoteType
    <3> QED BY <1>1, <2>1, <3>1 DEF OnTheWay
  <2> QED BY <2>2, <2>3
<1> QED BY <1>1, <1>3, <1>4, <1>5, LessComing

\* A sidebar connects, reads the list, loses its connection, asks over REST.
LEMMA BarsKeep ==
  ASSUME ListInv, NEW a \in Bars, Subscribe(a) \/ Snapshot(a) \/ Drop(a) \/ Fetch(a) \/ Fetched(a) \/ RequestDone(a)
  PROVE  ListInv'
<1>0. ListTypes /\ RemovalsTrue /\ Births /\ <<>> \in Seq(Notes)
  BY DEF ListInv
<1>1. CASE Subscribe(a) \/ Drop(a)
  <2>1. /\ UNCHANGED <<doc, born, copy, revived, clearing, due, asked, list, fetch, excused>>
        /\ chan' = [chan EXCEPT ![a] = <<>>]
        /\ ws' = [ws EXCEPT ![a] = "subscribed"] \/ ws' = [ws EXCEPT ![a] = "off"]
    BY <1>1 DEF Subscribe, Drop, docsVars, owedVars
  <2>2. ListTypes'
    BY <1>0, <2>1 DEF ListTypes
  <2>3. chan'[a] = <<>> /\ ws'[a] # "live" /\ \A b \in Bars : b # a => chan'[b] = chan[b] /\ ws'[b] = ws[b]
    BY <1>0, <2>1 DEF ListTypes
  <2>4. \A b \in Bars : \A m \in Notes : (Coming(b, m)' => Coming(b, m)) /\ (b # a /\ Coming(b, m) => Coming(b, m)')
    BY <2>1, <2>3 DEF Coming, InChan
  <2>5. ASSUME NEW b \in Bars, NEW s \in Sessions PROVE OnTheWay(b, s)'
    <3>1. OnTheWay(b, s)
      BY DEF ListInv
    <3>2. b # a => \A verb \in {"saved", "updated", "remove"} : Coming(b, Note(verb, s)) => Coming(b, Note(verb, s))'
      BY <2>4, NoteType
    <3> QED BY <2>1, <2>3, <3>1, <3>2 DEF OnTheWay
  <2> QED BY <2>1, <2>2, <2>4, <2>5, LessComing
<1>2. CASE Snapshot(a)
  <2>1. /\ UNCHANGED <<doc, born, copy, revived, clearing, due, asked, chan, fetch>>
        /\ ws' = [ws EXCEPT ![a] = "live"] /\ list' = [list EXCEPT ![a] = doc]
        /\ excused' = [excused EXCEPT ![a] = {}]
    BY <1>2 DEF Snapshot, Summaries, docsVars, owedVars
  <2>2. ListTypes'
    BY <1>0, <2>1 DEF ListTypes
  <2>3. /\ list'[a] = doc
        /\ \A b \in Bars : b # a => ws'[b] = ws[b] /\ list'[b] = list[b] /\ excused'[b] = excused[b]
    BY <1>0, <2>1 DEF ListTypes
  <2>4. \A b \in Bars : \A m : Coming(b, m)' <=> Coming(b, m)
    BY <2>1 DEF Coming, InChan
  <2>5. \A b \in Bars, s \in Sessions : OnTheWay(b, s)'
    BY <2>1, <2>3, <2>4 DEF OnTheWay, ListInv
  <2> QED BY <2>1, <2>2, <2>4, <2>5, LessComing
<1>3. CASE Fetch(a)
  <2>1. /\ UNCHANGED <<doc, born, copy, revived, clearing, due, asked, chan, ws, list, excused>>
        /\ fetch' = [fetch EXCEPT ![a] = doc]
    BY <1>3 DEF Fetch, Summaries, docsVars, owedVars
  <2>2. ListTypes'
    BY <1>0, <2>1 DEF ListTypes
  <2>3. \A b \in Bars : \A m : Coming(b, m)' <=> Coming(b, m)
    BY <2>1 DEF Coming, InChan
  <2>4. \A b \in Bars, s \in Sessions : OnTheWay(b, s)'
    BY <2>1, <2>3 DEF OnTheWay, ListInv
  <2> QED BY <2>1, <2>2, <2>3, <2>4, LessComing
\* The list is replaced by something else, over REST or after a request of its own.
<1>4. CASE Fetched(a) \/ RequestDone(a)
  <2>1. PICK shown \in [Sessions -> Values \cup {None}] :
          /\ list' = [list EXCEPT ![a] = shown] /\ Overwritten(a, shown)
          /\ fetch' = [fetch EXCEPT ![a] = None] \/ UNCHANGED fetch
          /\ asked' = [asked EXCEPT ![a] = NoAsk] \/ UNCHANGED asked
          /\ UNCHANGED <<doc, born, copy, revived, clearing, due, chan, ws>>
    <3>1. CASE Fetched(a)
      <4>1. fetch[a] \in [Sessions -> Values \cup {None}]
        BY <1>0, <3>1 DEF Fetched, ListTypes
      <4> QED BY <3>1, <4>1 DEF Fetched, docsVars, owedVars
    <3>2. CASE RequestDone(a)
      BY <3>2 DEF RequestDone, docsVars
    <3> QED BY <1>4, <3>1, <3>2
  <2>2. NoAsk \in Asks
    BY DEF NoAsk, Asks
  <2>3. excused' = [excused EXCEPT ![a] = @ \cup {s \in Sessions : shown[s] \notin {list[a][s], doc[s]}}]
    BY <2>1 DEF Overwritten
  <2>4. /\ list'[a] = shown /\ excused'[a] = excused[a] \cup {s \in Sessions : shown[s] \notin {list[a][s], doc[s]}}
        /\ \A b \in Bars : b # a => list'[b] = list[b] /\ excused'[b] = excused[b]
    BY <1>0, <2>1, <2>3 DEF ListTypes
  <2>5. ListTypes'
    <3>1. excused' \in [Bars -> SUBSET Sessions]
      BY <1>0, <2>3 DEF ListTypes
    <3>2. list' \in [Bars -> [Sessions -> Values \cup {None}]]
      BY <1>0, <2>1 DEF ListTypes
    <3>3. fetch' \in [Bars -> [Sessions -> Values \cup {None}] \cup {None}] /\ asked' \in [Bars -> Asks]
      BY <1>0, <2>1, <2>2 DEF ListTypes
    <3> QED BY <1>0, <2>1, <3>1, <3>2, <3>3 DEF ListTypes
  <2>6. \A b \in Bars : \A m : Coming(b, m)' <=> Coming(b, m)
    BY <2>1 DEF Coming, InChan
  <2>7. ASSUME NEW b \in Bars, NEW s \in Sessions PROVE OnTheWay(b, s)'
    <3>1. OnTheWay(b, s) /\ (s \in excused[b] => s \in excused'[b])
      BY <2>4 DEF ListInv
    <3>2. s \notin excused'[b] => list'[b][s] \in {list[b][s], doc[s]}
      BY <2>4
    <3> QED BY <2>1, <2>6, <3>1, <3>2 DEF OnTheWay
  <2> QED BY <2>1, <2>5, <2>6, <2>7, LessComing
<1> QED BY <1>1, <1>2, <1>3, <1>4

LEMMA TakeKeeps ==
  ASSUME ListInv, NEW a \in Bars, Take(a)
  PROVE  ListInv'
<1>0. ListTypes /\ RemovalsTrue /\ Births
  BY DEF ListInv
<1>1. PICK n : n = Head(chan[a])
  OBVIOUS
<1>2. /\ ws[a] = "live" /\ chan[a] # <<>> /\ chan[a] \in Seq(Notes)
      /\ list' = [list EXCEPT ![a][n.s] = Shown(a, n)]
      /\ excused' = [excused EXCEPT ![a] = IF Shown(a, n) = doc[n.s] THEN @ \ {n.s} ELSE @]
      /\ chan' = [chan EXCEPT ![a] = Tail(@)]
      /\ UNCHANGED <<doc, born, copy, revived, clearing, due, asked, ws, fetch>>
  BY <1>0, <1>1 DEF Take, docsVars, owedVars, ListTypes
<1>3. /\ n \in Notes /\ Tail(chan[a]) \in Seq(Notes)
      /\ \A m : (\E i \in DOMAIN chan[a] : chan[a][i] = m) => m = n \/ \E i \in DOMAIN Tail(chan[a]) : Tail(chan[a])[i] = m
      /\ \A m : (\E i \in DOMAIN Tail(chan[a]) : Tail(chan[a])[i] = m) => \E i \in DOMAIN chan[a] : chan[a][i] = m
  BY <1>1, <1>2, ChannelShrinks
<1>4. n.s \in Sessions /\ n.op \in {"saved", "updated", "remove"} /\ n = Note(n.op, n.s)
  BY <1>3, NoteType
<1>5. PICK x : x = Shown(a, n)
  OBVIOUS
<1>6. x \in Values \cup {None} /\ (n.op = "remove" => x = None) /\ (n.op # "remove" /\ doc[n.s] # None => x = doc[n.s])
      /\ (n.op # "remove" /\ doc[n.s] = None => x = list[a][n.s])
  BY <1>0, <1>4, <1>5 DEF Shown, ListTypes
<1>7. PICK l : l = [list[a] EXCEPT ![n.s] = x]
  OBVIOUS
<1>8. l \in [Sessions -> Values \cup {None}] /\ l[n.s] = x /\ \A s \in Sessions : s # n.s => l[s] = list[a][s]
  BY <1>0, <1>4, <1>6, <1>7 DEF ListTypes
<1>9. /\ list' = [list EXCEPT ![a] = l]
      /\ list \in [Bars -> [Sessions -> Values \cup {None}]] /\ chan \in [Bars -> Seq(Notes)]
      /\ excused \in [Bars -> SUBSET Sessions]
  BY <1>0, <1>2, <1>5, <1>7 DEF ListTypes
<1>10. /\ list' \in [Bars -> [Sessions -> Values \cup {None}]] /\ list'[a] = l
       /\ \A b \in Bars : b # a => list'[b] = list[b]
  BY <1>8, <1>9
<1>11. /\ chan' \in [Bars -> Seq(Notes)] /\ chan'[a] = Tail(chan[a])
       /\ \A b \in Bars : b # a => chan'[b] = chan[b]
  BY <1>2, <1>3, <1>9
<1>12. /\ excused' \in [Bars -> SUBSET Sessions]
       /\ excused'[a] = IF x = doc[n.s] THEN excused[a] \ {n.s} ELSE excused[a]
       /\ \A b \in Bars : b # a => excused'[b] = excused[b]
  BY <1>2, <1>5, <1>9
<1>13. ListTypes'
  BY <1>0, <1>2, <1>10, <1>11, <1>12 DEF ListTypes
<1>14. \A b \in Bars : \A m \in Notes : /\ Coming(b, m)' => Coming(b, m)
                                        /\ Coming(b, m) /\ (b # a \/ m # n) => Coming(b, m)'
  <2>1. \A b \in Bars : \A m : b # a => (InChan(b, m)' <=> InChan(b, m))
    BY <1>11 DEF InChan
  <2>2. \A m : (InChan(a, m)' => InChan(a, m)) /\ (InChan(a, m) => m = n \/ InChan(a, m)')
    BY <1>3, <1>11 DEF InChan
  <2>3. due' = due
    BY <1>2
  <2> QED BY <2>1, <2>2, <2>3 DEF Coming
<1>15. Coming(a, n)
  <2>1. 1 \in DOMAIN chan[a] /\ chan[a][1] = n
    BY <1>1, <1>2
  <2> QED BY <2>1 DEF Coming, InChan
<1>16. ASSUME NEW b \in Bars, NEW s \in Sessions PROVE OnTheWay(b, s)'
  <2>1. OnTheWay(b, s)
    BY DEF ListInv
  <2>2. /\ Note("remove", s) \in Notes /\ Note("saved", s) \in Notes /\ Note("updated", s) \in Notes
        /\ Note("remove", s).op = "remove" /\ Note("saved", s).op = "saved" /\ Note("updated", s).op = "updated"
        /\ Note("remove", s).s = s /\ Note("saved", s).s = s /\ Note("updated", s).s = s
    BY NoteType
  <2>3. CASE b # a
    <3>1. \A verb \in {"saved", "updated", "remove"} : Coming(b, Note(verb, s)) => Coming(b, Note(verb, s))'
      BY <1>14, <2>3, NoteType
    <3> QED BY <1>2, <1>10, <1>12, <2>1, <2>3, <3>1 DEF OnTheWay
  <2>4. CASE b = a /\ s # n.s
    <3>1. \A verb \in {"saved", "updated", "remove"} : Coming(a, Note(verb, s)) => Coming(a, Note(verb, s))'
      BY <1>14, <2>4, NoteType
    <3>2. list'[a][s] = list[a][s] /\ (s \in excused[a] => s \in excused'[a])
      BY <1>8, <1>10, <1>12, <2>4
    <3> QED BY <1>2, <2>1, <2>4, <3>1, <3>2 DEF OnTheWay
  <2>5. CASE b = a /\ s = n.s
    <3>1. list'[a][s] = x /\ doc'[s] = doc[s] /\ revived' = revived
      BY <1>2, <1>8, <1>10, <2>5
    <3>2. CASE n.op = "remove"
      <4>1. doc[s] = None \/ s \in revived
        BY <1>0, <1>4, <1>15, <2>5, <3>2 DEF RemovalsTrue
      <4> QED BY <1>6, <2>5, <3>1, <3>2, <4>1 DEF OnTheWay
    <3>3. CASE n.op # "remove" /\ doc[n.s] # None
      BY <1>6, <2>5, <3>1, <3>3 DEF OnTheWay
    <3>4. CASE n.op # "remove" /\ doc[n.s] = None
      <4>1. x = list[a][s] /\ (Coming(a, Note("remove", s)) => Coming(a, Note("remove", s))')
        BY <1>6, <1>14, <2>2, <2>5, <3>4
      <4>2. x # doc[s] => excused'[a] = excused[a]
        BY <1>12, <2>5
      <4> QED BY <1>2, <2>1, <2>5, <3>1, <3>4, <4>1, <4>2 DEF OnTheWay
    <3> QED BY <3>2, <3>3, <3>4
  <2> QED BY <2>3, <2>4, <2>5
<1> QED BY <1>2, <1>13, <1>14, <1>16, LessComing

LEMMA ListStep == ListInv /\ [ListNext]_listVars => ListInv'
<1> SUFFICES ASSUME ListInv, [ListNext]_listVars PROVE ListInv'
  OBVIOUS
<1>1. CASE UNCHANGED listVars
  <2>1. UNCHANGED <<doc, born, copy, revived, clearing, due, asked, chan, ws, list, fetch, excused>>
    BY <1>1 DEF listVars, docsVars, owedVars, barVars
  <2> QED BY <2>1 DEF ListInv, ListTypes, RemovalsTrue, Births, OnTheWay, Coming, InChan
<1>2. CASE ListNext
  BY <1>2, WritersKeep, ClearKeeps, NotifyKeeps, LoseKeeps, BarsKeep, TakeKeeps DEF ListNext
<1> QED BY <1>1, <1>2

-----------------------------------------------------------------------------
(* Types.  An invariant above that says less than its component's type      *)
(* invariant is completed here: by what bounds its counters.                *)

LEMMA ProjTyped == ASSUME ProjInv PROVE ProjTypeOK
<1>1. \A q \in ProjReqs : preq[q] \in Edit
  BY DEF ProjInv, ProjTypes
<1>2. \A q \in ProjReqs : preq[q].pc \in {"idle", "read", "cleared"} /\ preq[q].saw \in ProjDoc
  BY <1>1 DEF Edit
<1> QED BY <1>2 DEF ProjInv, ProjTypes, ProjTypeOK, ProjDoc

LEMMA McpTyped == ASSUME McpInv PROVE McpTypeOK
<1>1. Len(config.order) = Cardinality(McpServers)
  BY FcnIsSeq DEF McpInv, ServersKnown
<1>2. \A t \in kit.tools : t.server \in McpServers /\ t.tool \in McpNames
  BY DEF McpInv, McpTypes, Toolkits, Tools
<1>3. mgr.pc \in {"new", "connect", "ready"} /\ mgr.clients \subseteq McpServers /\ kit.ready \in BOOLEAN
  BY DEF McpInv, McpTypes, Managers, Toolkits
<1> QED BY <1>1, <1>2, <1>3 DEF McpInv, ServersKnown, McpTypes, McpTypeOK

LEMMA ListTypesKept ==
  /\ ListInit => ListTypeOK
  /\ ListInv /\ ListTypeOK /\ [ListNext]_listVars /\ ListInv' => ListTypeOK'
<1>1. ListInv /\ revived \subseteq born => ListTypeOK
  BY DEF ListInv, ListTypes, Births, ListTypeOK
<1>2. ListInit => revived \subseteq born
  BY DEF ListInit
<1>3. ASSUME ListInv, revived \subseteq born, [ListNext]_listVars PROVE revived' \subseteq born'
  <2>1. CASE SaveCopy
    BY <1>3, <2>1 DEF SaveCopy, ListInv, Births
  <2>2. CASE revived' = revived /\ born \subseteq born'
    BY <1>3, <2>2
  <2>3. CASE \E s \in Sessions : CreateSession(s) \/ UpdateSession(s) \/ DeleteSession(s) \/ HoldCopy(s)
    BY <2>2, <2>3 DEF CreateSession, UpdateSession, DeleteSession, HoldCopy
  <2>7. CASE ReadAffected \/ ClearProject
    BY <2>2, <2>7 DEF ReadAffected, ClearProject
  <2>4. CASE \E n \in Notes : Notify(n) \/ LoseNotice(n)
    BY <2>2, <2>4 DEF Notify, LoseNotice, docsVars
  <2>5. CASE \E b \in Bars : Subscribe(b) \/ Snapshot(b) \/ Take(b) \/ Drop(b) \/ Fetch(b) \/ Fetched(b)
                             \/ RequestDone(b)
    BY <2>2, <2>5 DEF Subscribe, Snapshot, Take, Drop, Fetch, Fetched, RequestDone, docsVars
  <2>6. CASE UNCHANGED listVars
    BY <2>2, <2>6 DEF listVars, docsVars
  <2> QED BY <1>3, <2>1, <2>3, <2>4, <2>5, <2>6, <2>7 DEF ListNext
<1>4. (ListInv /\ revived \subseteq born => ListTypeOK)'
  BY DEF ListInv, ListTypes, Births, ListTypeOK
<1> QED BY <1>1, <1>2, <1>3, <1>4, ListInitInv DEF ListTypeOK

LEMMA AcctTypesKept ==
  /\ AcctInit => AcctTypeOK
  /\ AcctTypeOK /\ [AcctNext]_acctVars /\ AcctInv' => AcctTypeOK'
<1>1. AcctInv /\ changes \in 0..MaxChanges => AcctTypeOK
  <2>1. AcctInv => \A h \in Handlers : job[h] \in Frame
    BY DEF AcctInv, AcctTypes
  <2> QED BY <2>1 DEF AcctInv, AcctTypes, Frame, AcctTypeOK
<1>2. (AcctInv /\ changes \in 0..MaxChanges => AcctTypeOK)'
  <2>1. AcctInv' => \A h \in Handlers : job'[h] \in Frame
    BY DEF AcctInv, AcctTypes
  <2> QED BY <2>1 DEF AcctInv, AcctTypes, Frame, AcctTypeOK
<1>3. AcctInit => changes \in 0..MaxChanges
  BY AcctAssumption DEF AcctInit
<1>4. ASSUME changes \in 0..MaxChanges, [AcctNext]_acctVars PROVE changes' \in 0..MaxChanges
  <2>1. changes' = changes \/ (changes < MaxChanges /\ changes' = changes + 1)
    BY <1>4 DEF AcctNext, acctVars, ChangeUser, ReadUser, SignIn, SaveUser, OpenSession, TouchRead, TouchWrite, DeleteKey,
       Srem, Members, DeleteAll, ResolveToken, Logout, Rotate, Delete, Expire, Changes
  <2> QED BY <1>4, <2>1, AcctAssumption
<1> QED BY <1>1, <1>2, <1>3, <1>4, AcctInitInv DEF AcctTypeOK

SkillsCounted ==
  marred \subseteq {"raced", "import", "cut"} /\ toggles \in 0..MaxToggles /\ syncs \in 0..MaxSyncs
LEMMA SkillsTypesKept ==
  /\ SkillsInit => SkillsTypeOK
  /\ SkillsTypeOK /\ [SkillsNext]_skillVars /\ SkillsInv' => SkillsTypeOK'
<1>1. SkillsInv /\ SkillsCounted => SkillsTypeOK
  <2>1. SkillsInv => (\A h \in Requests : req[h] \in SkillAsks) /\ sync \in Syncs
    BY DEF SkillsInv, SeedTypes, SyncTypes
  <2> QED BY <2>1 DEF SkillsInv, SeedTypes, SyncTypes, SkillAsks, Syncs, Packages, SkillsCounted, SkillsTypeOK
<1>2. (SkillsInv /\ SkillsCounted => SkillsTypeOK)'
  <2>1. SkillsInv' => (\A h \in Requests : req'[h] \in SkillAsks) /\ sync' \in Syncs
    BY DEF SkillsInv, SeedTypes, SyncTypes
  <2> QED BY <2>1 DEF SkillsInv, SeedTypes, SyncTypes, SkillAsks, Syncs, Packages, SkillsCounted, SkillsTypeOK
<1>3. SkillsInit => SkillsCounted
  BY SkillsAssumption DEF SkillsInit, SkillsCounted
<1>4. ASSUME SkillsCounted, [SkillsNext]_skillVars PROVE SkillsCounted'
  <2>1. /\ marred' \subseteq marred \cup {"raced", "import", "cut"}
        /\ toggles' = toggles \/ (toggles < MaxToggles /\ toggles' = toggles + 1)
        /\ syncs' = syncs \/ (syncs < MaxSyncs /\ syncs' = syncs + 1)
    <3>1. CASE \E h \in Requests : BeginSeed(h) \/ SeedOfficial(h) \/ SeedPersonal(h) \/ Import(h)
                                   \/ SubscribePersonal(h) \/ Abort(h)
      BY <3>1 DEF BeginSeed, SeedOfficial, SeedPersonal, Import, WritePersonal, SubscribePersonal, Abort, syncVars
    <3>2. CASE \E x \in Ids, v \in {"on", "off"} : Toggle(x, v)
      BY <3>2 DEF Toggle, syncVars
    <3>3. CASE List \/ Removes \/ WritePackage \/ FindDirs \/ SweepEnds \/ ResolveSkill
      BY <3>3 DEF List, Removes, WritePackage, FindDirs, SweepEnds, ResolveSkill, seedVars
    <3>5. CASE \E how \in Outcomes : (\E x \in Ids : DeleteTree(x, how)) \/ (\E n \in Names : SweepDir(n, how))
      BY <3>5 DEF DeleteTree, SweepDir, seedVars
    <3>4. CASE UNCHANGED skillVars
      BY <3>4 DEF skillVars, seedVars, syncVars
    <3> QED BY <1>4, <3>1, <3>2, <3>3, <3>4, <3>5 DEF SkillsNext
  <2> QED BY <1>4, <2>1, SkillsAssumption DEF SkillsCounted
<1> QED BY <1>1, <1>2, <1>3, <1>4, SkillsInitInv DEF SkillsTypeOK, SkillsCounted
PatrolBounded ==
  /\ Len(jobs) <= MaxJobs /\ idem \in [Keys -> 0..Len(jobs)] /\ halted \subseteq Sources /\ updates \in 0..MaxUpdates
LEMMA PatrolTypesKept ==
  /\ PatrolInit => PatrolTypeOK
  /\ PatrolInv /\ PatrolTypeOK /\ [PatrolNext]_patrolVars /\ PatrolInv' => PatrolTypeOK'
<1>1. /\ PatrolInv /\ PatrolBounded => PatrolTypeOK
      /\ (PatrolInv /\ PatrolBounded => PatrolTypeOK)'
  BY DEF PatrolInv, PatrolTypes, PatrolBounded, PatrolTypeOK
<1>2. PatrolInit => PatrolBounded
  BY PatrolAssumption DEF PatrolInit, PatrolBounded
<1>3. ASSUME PatrolInv, PatrolBounded, [PatrolNext]_patrolVars PROVE PatrolBounded'
  <2>0. jobs \in Seq(Job) /\ Len(jobs) \in Nat /\ <<>> \in Seq(Items)
    BY <1>3 DEF PatrolInv, PatrolTypes
  <2>1. \A s \in Sources : Len(Append(jobs, NewJob(s))) = Len(jobs) + 1
    BY <2>0
  <2>2. \A n \in Nat : n >= Len(jobs) => idem \in [Keys -> 0..n]
    BY <1>3, <2>0 DEF PatrolBounded
  <2>3. ASSUME NEW j \in DOMAIN jobs, NEW st \in {"waiting", "running", "done", "dead"}, NEW its \in Seq(Items)
        PROVE  /\ Moved(jobs, j, st, its) \in Seq(Job) /\ Len(Moved(jobs, j, st, its)) = Len(jobs)
               /\ jobs[j].src \in Sources
    <3>1. jobs[j] \in Job
      BY <2>0
    <3>2. MovesOne(jobs, j, st, Moved(jobs, j, st, its))
      BY <2>0, <2>3, JobMoves
    <3>3. Moved(jobs, j, st, its) \in Seq(Job) /\ DOMAIN Moved(jobs, j, st, its) = DOMAIN jobs
      BY <3>2 DEF MovesOne
    <3> QED BY <2>0, <3>1, <3>3, LenProperties DEF Job
  <2>4. ASSUME NEW k \in Keys, NEW s \in Sources, NEW c \in BOOLEAN, Start(k, s, c) PROVE PatrolBounded'
    <3>1. halted' \subseteq Sources /\ updates' \in 0..MaxUpdates
      BY <1>3, <2>4 DEF Start, PatrolBounded
    <3>2. CASE LiveJobs(s) # {}
      <4>1. PICK j \in LiveJobs(s) : jobs' = jobs /\ idem' = [idem EXCEPT ![k] = j]
        BY <2>4, <3>2 DEF Start
      <4>2. j \in 0..Len(jobs)
        BY <2>0, <4>1 DEF LiveJobs
      <4> QED BY <1>3, <3>1, <4>1, <4>2 DEF PatrolBounded
    <3>3. CASE LiveJobs(s) = {}
      <4>1. Len(jobs) < MaxJobs /\ jobs' = Append(jobs, NewJob(s)) /\ idem' = [idem EXCEPT ![k] = Len(jobs) + 1]
        BY <2>4, <3>3 DEF Start
      <4>2. Len(jobs') = Len(jobs) + 1 /\ Len(jobs) + 1 <= MaxJobs
        BY <2>0, <2>1, <4>1, PatrolAssumption
      <4>3. idem \in [Keys -> 0..Len(jobs')] /\ Len(jobs) + 1 \in 0..Len(jobs')
        BY <2>0, <2>2, <4>2
      <4> QED BY <3>1, <4>1, <4>2, <4>3 DEF PatrolBounded
    <3> QED BY <3>2, <3>3
  <2>5. ASSUME NEW s \in Sources, NEW a \in BOOLEAN, UpdateSource(s, a) PROVE PatrolBounded'
    BY <1>3, <2>5, PatrolAssumption DEF UpdateSource, PatrolBounded
  <2>6. ASSUME NEW j \in 1..MaxJobs, Prepare(j) \/ RetryDiscover(j) \/ Halt(j) PROVE PatrolBounded'
    <3>1. j \in DOMAIN jobs /\ UNCHANGED <<idem, updates>>
      BY <2>6 DEF Prepare, RetryDiscover, Halt, Is
    <3>2. /\ \E st \in {"waiting", "running", "dead"} : \E its \in Seq(Items) : jobs' = Moved(jobs, j, st, its)
          /\ halted' \subseteq halted \cup {jobs[j].src}
      BY <2>0, <2>6, BatchSeqs DEF Prepare, RetryDiscover, Halt, Moved
    <3>3. Len(jobs') = Len(jobs) /\ jobs[j].src \in Sources
      BY <2>3, <3>1, <3>2
    <3> QED BY <1>3, <3>1, <3>2, <3>3 DEF PatrolBounded
  <2>7. ASSUME NEW j \in 1..MaxJobs, ApplyDiscover(j) PROVE PatrolBounded'
    <3>1. j \in DOMAIN jobs /\ UNCHANGED <<idem, halted, updates>>
      BY <2>7 DEF ApplyDiscover, Is
    <3> DEFINE settled == Moved(jobs, j, "done", <<>>)
    <3>2. \/ Len(jobs) < MaxJobs /\ jobs' = Append(settled, NewJob(jobs[j].src))
          \/ jobs' = settled
      BY <2>7 DEF ApplyDiscover, Moved
    <3>3. settled \in Seq(Job) /\ Len(settled) = Len(jobs) /\ jobs[j].src \in Sources
      BY <2>0, <2>3, <3>1
    <3> HIDE DEF settled
    <3>4. Len(jobs') \in Nat /\ Len(jobs') >= Len(jobs) /\ Len(jobs') <= MaxJobs
      BY <1>3, <2>0, <3>2, <3>3, PatrolAssumption DEF PatrolBounded
    <3> QED BY <1>3, <2>2, <3>1, <3>4 DEF PatrolBounded
  <2>8. CASE UNCHANGED patrolVars
    BY <1>3, <2>8 DEF patrolVars, PatrolBounded
  <2> QED BY <1>3, <2>4, <2>5, <2>6, <2>7, <2>8 DEF PatrolNext
<1> QED BY <1>1, <1>2, <1>3, PatrolInitInv DEF PatrolTypeOK, PatrolBounded

TelBounded ==
  /\ \A a \in WorkerAgents : /\ agent[a].gone <= MaxGone /\ presence[a].ttl <= Ttl
                             /\ agent[a].stage = "idle" => agent[a].job = NoTask
  /\ \A j \in TelJobs : row[j].lease <= LeaseTicks
LEMMA TelBoundsKept == ASSUME TelTypes, TelBounded, [TelNext]_telVars PROVE TelBounded'
<1>0. /\ agent \in [WorkerAgents -> AgentRows] /\ presence \in [WorkerAgents -> KeyRows] /\ row \in [TelJobs -> JobRows]
      /\ \A a \in WorkerAgents : agent[a] \in AgentRows /\ presence[a] \in KeyRows
      /\ \A j \in TelJobs : row[j] \in JobRows
  BY DEF TelTypes
<1>1. /\ \A a \in WorkerAgents : agent[a].gone \in Nat /\ presence[a].ttl \in Nat /\ agent[a].job \in TelJobs \cup {NoTask}
      /\ \A j \in TelJobs : row[j].lease \in Nat
      /\ Ttl \in Nat /\ LeaseTicks \in Nat /\ NoKey.ttl = 0
  BY <1>0, TelemetryAssumption DEF AgentRows, KeyRows, JobRows, NoKey
<1>2. ASSUME NEW a \in WorkerAgents, StartProcess(a) \/ BuildBeat(a) \/ WriteBeat(a) \/ Leave(a)
      PROVE  TelBounded'
  <2>1. /\ \A b \in WorkerAgents : agent'[b].gone = agent[b].gone /\ agent'[b].stage = agent[b].stage /\ agent'[b].job = agent[b].job
        /\ row' = row
    BY <1>0, <1>2 DEF StartProcess, BuildBeat, WriteBeat, Leave, AgentRows
  <2>2. \A b \in WorkerAgents : presence'[b] = presence[b] \/ presence'[b].ttl \in {0, Ttl}
    BY <1>0, <1>1, <1>2 DEF StartProcess, BuildBeat, WriteBeat, Leave
  <2> QED BY <1>1, <2>1, <2>2 DEF TelBounded
<1>3. ASSUME NEW a \in WorkerAgents, AgentDies(a) PROVE TelBounded'
  <2>1. /\ \A b \in WorkerAgents : agent'[b] = agent[b] \/ (agent'[b].gone = 0 /\ agent'[b].job = NoTask)
        /\ row' = row /\ presence' = presence
    BY <1>0, <1>3 DEF AgentDies
  <2> QED BY <1>1, <2>1, TelemetryAssumption DEF TelBounded
<1>4. ASSUME NEW a \in WorkerAgents,
             ClaimRow(a) \/ Settle(a) \/ Rest(a) \/ RenewLease(a) \/ (\E j \in TelJobs : TakeMessage(a, j))
      PROVE  TelBounded'
  <2>1. \A b \in WorkerAgents : /\ agent'[b].gone = agent[b].gone
                                /\ agent'[b] = agent[b] \/ (agent'[b].stage = "idle" => agent'[b].job = NoTask)
    <3>1. CASE ClaimRow(a) \/ Settle(a)
      <4>1. PICK st \in {"runs", "settled"} : agent' = [agent EXCEPT ![a].stage = st]
        BY <3>1 DEF ClaimRow, Settle
      <4> QED BY <1>0, <4>1 DEF AgentRows
    <3>2. CASE Rest(a)
      <4>1. agent' = [agent EXCEPT ![a].stage = "idle", ![a].job = NoTask]
        BY <3>2 DEF Rest
      <4> QED BY <1>0, <4>1 DEF AgentRows
    <3>3. CASE RenewLease(a)
      BY <3>3 DEF RenewLease
    <3>4. CASE \E j \in TelJobs : TakeMessage(a, j)
      <4>1. PICK j \in TelJobs : agent' = [agent EXCEPT ![a].job = j, ![a].stage = "taken"]
        BY <3>4 DEF TakeMessage
      <4> QED BY <1>0, <4>1 DEF AgentRows
    <3> QED BY <1>4, <3>1, <3>2, <3>3, <3>4
  <2>2. \A j \in TelJobs : row'[j] = row[j] \/ row'[j].lease \in {0, LeaseTicks}
    <3>1. CASE ClaimRow(a)
      BY <1>0, <3>1 DEF ClaimRow
    <3>2. CASE Settle(a)
      BY <1>0, <3>2 DEF Settle, JobRows
    <3>3. CASE RenewLease(a)
      BY <1>0, <3>3 DEF RenewLease, JobRows
    <3>4. CASE Rest(a) \/ \E j \in TelJobs : TakeMessage(a, j)
      BY <3>4 DEF Rest, TakeMessage
    <3> QED BY <1>4, <3>1, <3>2, <3>3, <3>4
  <2>3. presence' = presence
    BY <1>4 DEF ClaimRow, Settle, Rest, RenewLease, TakeMessage
  <2> QED BY <1>1, <2>1, <2>2, <2>3 DEF TelBounded
<1>5. ASSUME NEW j \in TelJobs, OthersWork(j) PROVE TelBounded'
  <2>1. \A i \in TelJobs : row'[i] = row[i] \/ row'[i].lease \in {0, LeaseTicks}
    BY <1>0, <1>5 DEF OthersWork, JobRows
  <2> QED BY <1>1, <1>5, <2>1 DEF OthersWork, TelBounded
<1>6. CASE TelTick
  <2>1. \A a \in WorkerAgents : presence'[a].ttl <= Ttl
    BY <1>0, <1>1, <1>6 DEF TelTick, KeyRows, TelBounded
  <2>2. \A j \in TelJobs : row'[j].lease <= LeaseTicks
    BY <1>0, <1>1, <1>6 DEF TelTick, JobRows, TelBounded, Down1
  <2>3. \A a \in WorkerAgents : /\ agent'[a].stage = agent[a].stage /\ agent'[a].job = agent[a].job
                                /\ agent'[a].gone = agent[a].gone \/ (agent[a].gone # MaxGone /\ agent'[a].gone = agent[a].gone + 1)
    BY <1>0, <1>6 DEF TelTick, AgentRows
  <2> QED BY <1>1, <2>1, <2>2, <2>3, TelemetryAssumption DEF TelBounded
<1>7. CASE (\E a \in WorkerAgents : ReadRows(a) \/ ReadPresence(a)) \/ UNCHANGED telVars
  BY <1>7 DEF ReadRows, ReadPresence, telVars, TelBounded
<1> QED BY <1>2, <1>3, <1>4, <1>5, <1>6, <1>7 DEF TelNext

LEMMA TelTypesKept ==
  /\ TelInit => TelTypeOK
  /\ TelInv /\ TelTypeOK /\ [TelNext]_telVars /\ TelInv' => TelTypeOK'
<1>0. MaxGone \in Nat /\ Ttl \in Nat /\ LeaseTicks \in Nat
  BY TelemetryAssumption
<1>1. TelInv /\ TelBounded => TelTypeOK
  <2> SUFFICES ASSUME TelInv, TelBounded PROVE TelTypeOK
    OBVIOUS
  <2>1. /\ \A a \in WorkerAgents : agent[a] \in AgentRows /\ presence[a] \in KeyRows /\ LifeTrue(agent[a])
        /\ \A j \in TelJobs : row[j] \in JobRows
    BY DEF TelInv, TelTypes
  <2>2. /\ \A a \in WorkerAgents : /\ agent[a].life \in TelLives /\ agent[a].stage \in TelStages
                                  /\ agent[a].gone \in Nat /\ presence[a].ttl \in Nat
        /\ \A j \in TelJobs : row[j].lease \in Nat /\ row[j].worker \in SUBSET WorkerAgents
    BY <2>1 DEF AgentRows, KeyRows, JobRows
  <2>3. \A a \in WorkerAgents : (agent[a].stage = "idle") = (agent[a].job = NoTask)
    BY <2>1, TelemetryAssumption DEF LifeTrue, TelBounded, NoTask
  <2> QED BY <1>0, <2>2, <2>3 DEF TelBounded, TelTypeOK, TelLives, TelStages
<1>2. (TelInv /\ TelBounded => TelTypeOK)'
  BY <1>1, PTL
<1>3. TelTypeOK => TelBounded
  BY <1>0 DEF TelTypeOK, TelBounded
<1>4. TelInit => TelBounded
  BY <1>0 DEF TelInit, TelBounded, NoKey
<1> QED BY <1>1, <1>2, <1>3, <1>4, TelBoundsKept, TelInitInv DEF TelInv
\* An entry at most, of a code that was mailed.
OneEntry(S) == S = {} \/ \E e \in S : S = {e}
InRange(S) == OneEntry(S) /\ \A e \in S : e.code \in 1..MaxCodes /\ e.tries \in 0..MaxTries
CodesBounded ==
  /\ InRange(cache) /\ mailed \in 0..MaxCodes
  /\ \A r \in MailReqs : InRange(mreq[r].got) /\ (mreq[r].pc = "store" => mreq[r].code \in 1..MaxCodes)

LEMMA RangeKept ==
  ASSUME NEW S \in SUBSET Entry, InRange(S)
  PROVE  /\ InRange(Older(S)) /\ InRange(Alive(S)) /\ Cardinality(S) <= 1
         /\ \A code : InRange(Left(S, code))
<1>1. \A e \in S : /\ Aged(e).code = e.code /\ Aged(e).tries = e.tries
                   /\ Tried(e).code = e.code /\ Tried(e).tries = e.tries + 1
  BY DEF Aged, Tried, Entry
<1>2. Older(S) = {Aged(e) : e \in S} /\ \A code : Left(S, code) = {Tried(e) : e \in {x \in S : Valid(x) /\ x.code # code}}
  BY DEF Older, Aged, Left, Tried
<1>3. InRange(Older(S))
  BY <1>1, <1>2 DEF InRange, OneEntry
<1>4. InRange(Alive(S))
  BY DEF Alive, InRange, OneEntry
<1>5. ASSUME NEW code PROVE InRange(Left(S, code))
  <2>1. \A e \in S : Valid(e) => Tried(e).tries \in 0..MaxTries
    BY <1>1, CodesAssumption DEF InRange, Valid
  <2>2. \A x \in Left(S, code) : \E e \in S : x = Tried(e) /\ Valid(e)
    BY <1>2
  <2>3. OneEntry(Left(S, code))
    BY <1>2 DEF InRange, OneEntry
  <2> QED BY <1>1, <2>1, <2>2, <2>3 DEF InRange
<1>6. Cardinality(S) <= 1
  BY FS_EmptySet, FS_Singleton DEF InRange, OneEntry
<1> QED BY <1>3, <1>4, <1>5, <1>6

LEMMA CodesBoundsKept == ASSUME CodeTypes, CodesBounded, [CodesNext]_codeVars PROVE CodesBounded'
<1>0. /\ mreq \in [MailReqs -> Slot] /\ cache \in SUBSET Entry
      /\ \A r \in MailReqs : mreq[r] \in Slot /\ mreq[r].got \in SUBSET Entry
      /\ InRange({}) /\ FreeSlot.got = {} /\ FreeSlot.pc = "free"
  BY DEF CodeTypes, Slot, InRange, OneEntry, FreeSlot
<1>1. ASSUME NEW r \in MailReqs, NEW pc \in {"mail", "compare"}, NEW code, NEW read \in BOOLEAN, StartReq(r, pc, code, read),
             UNCHANGED <<cache, mailed>>
      PROVE  CodesBounded'
  <2>1. \A q \in MailReqs : /\ mreq'[q].pc = (IF q = r THEN pc ELSE mreq[q].pc)
                            /\ q # r => mreq'[q].code = mreq[q].code
                            /\ mreq'[q].got \in {{}, cache, mreq[q].got}
    BY <1>0, <1>1 DEF StartReq, Slot
  <2> QED BY <1>0, <1>1, <2>1 DEF CodesBounded
<1>2. ASSUME NEW r \in MailReqs, EndReq(r)
      PROVE  \A q \in MailReqs : mreq'[q] = mreq[q] \/ mreq'[q] = FreeSlot
  BY <1>0, <1>2 DEF EndReq
<1>3. ASSUME NEW r \in MailReqs, EndReq(r), InRange(cache'), mailed' \in 0..MaxCodes PROVE CodesBounded'
  BY <1>0, <1>2, <1>3 DEF CodesBounded
<1>4. ASSUME NEW r \in MailReqs, Mail(r) PROVE CodesBounded'
  <2>1. CASE EndReq(r) /\ UNCHANGED <<mailed, cache>>
    BY <1>3, <2>1 DEF CodesBounded
  <2>2. CASE /\ mailed' = mailed + 1 /\ UNCHANGED cache
             /\ mreq' = [mreq EXCEPT ![r].pc = "store", ![r].code = mailed + 1]
    <3>1. mailed + 1 \in 1..MaxCodes
      BY <1>4, CodesAssumption DEF Mail, CodesBounded
    <3>2. \A q \in MailReqs : mreq'[q].got = mreq[q].got /\ (q # r => mreq'[q] = mreq[q]) /\ mreq'[r].code = mailed + 1
      BY <1>0, <2>2 DEF Slot
    <3>3. InRange(cache') /\ mailed' \in 0..MaxCodes
      BY <2>2, <3>1 DEF CodesBounded
    <3>4. \A q \in MailReqs : InRange(mreq'[q].got)
      BY <3>2 DEF CodesBounded
    <3>5. \A q \in MailReqs : mreq'[q].pc = "store" => mreq'[q].code \in 1..MaxCodes
      BY <3>1, <3>2 DEF CodesBounded
    <3> QED BY <3>3, <3>4, <3>5 DEF CodesBounded
  <2> QED BY <1>4, <2>1, <2>2 DEF Mail
<1>5. ASSUME NEW r \in MailReqs, StoreCode(r) PROVE CodesBounded'
  <2> DEFINE entry == [code |-> mreq[r].code, age |-> 0, tries |-> 0]
  <2>1. EndReq(r) /\ UNCHANGED mailed /\ (cache' = {entry} \/ cache' = cache) /\ mreq[r].code \in 1..MaxCodes
    BY <1>5 DEF StoreCode, CodesBounded
  <2>2. InRange({entry})
    BY <2>1, CodesAssumption DEF InRange, OneEntry
  <2> HIDE DEF entry
  <2> QED BY <1>3, <2>1, <2>2 DEF CodesBounded
<1>6. ASSUME NEW r \in MailReqs, Compare(r) PROVE CodesBounded'
  <2>1. EndReq(r) /\ UNCHANGED mailed /\ (cache' = cache \/ cache' = Left(mreq[r].got, mreq[r].code))
    BY <1>6 DEF Compare
  <2>2. InRange(Left(mreq[r].got, mreq[r].code))
    BY <1>0, RangeKept DEF CodesBounded
  <2> QED BY <1>3, <2>1, <2>2 DEF CodesBounded
<1>7. CASE CodesAge
  <2>1. /\ cache' = Alive(Older(cache)) /\ mailed' = mailed
        /\ \A r \in MailReqs : /\ mreq'[r].got = Older(mreq[r].got) /\ mreq'[r].pc = mreq[r].pc
                              /\ mreq'[r].code = mreq[r].code
    BY <1>0, <1>7 DEF CodesAge, Slot
  <2>2. InRange(Older(cache)) /\ \A r \in MailReqs : InRange(Older(mreq[r].got))
    BY <1>0, RangeKept DEF CodesBounded
  <2>3. InRange(Alive(Older(cache)))
    BY <1>0, <2>2, EntriesAge, RangeKept
  <2> QED BY <2>1, <2>2, <2>3 DEF CodesBounded
<1>8. CASE UNCHANGED codeVars
  BY <1>8 DEF codeVars, CodesBounded
<1>9. ASSUME NEW r \in MailReqs, AskForCode(r) \/ BreakOff(r) \/ \E code \in 0..MaxCodes : ReadEntry(r, code)
      PROVE  CodesBounded'
  <2>1. CASE AskForCode(r)
    BY <1>1, <2>1 DEF AskForCode
  <2>2. CASE BreakOff(r)
    BY <1>3, <2>2 DEF BreakOff, CodesBounded
  <2>3. ASSUME NEW code \in 0..MaxCodes, ReadEntry(r, code) PROVE CodesBounded'
    BY <1>1, <2>3 DEF ReadEntry
  <2> QED BY <1>9, <2>1, <2>2, <2>3
<1> QED BY <1>4, <1>5, <1>6, <1>7, <1>8, <1>9 DEF CodesNext

LEMMA CodesTyped == ASSUME CodesInv, CodesBounded PROVE CodesTypeOK
<1>1. \A r \in MailReqs : mreq[r] \in Slot
  BY DEF CodesInv, CodeTypes
<1>2. \A r \in MailReqs : mreq[r].pc \in {"free", "mail", "store", "compare"} /\ Cardinality(mreq[r].got) <= 1
  BY <1>1, RangeKept DEF Slot, CodesBounded
<1>3. Cardinality(cache) <= 1 /\ \A e \in cache : e.age \in 0..Life - 1
  BY RangeKept, CodesAssumption DEF CodesInv, CodeTypes, CodesBounded, Entry
<1> QED BY <1>2, <1>3 DEF CodesBounded, InRange, CodesTypeOK

LEMMA CodesStartBounded == CodesInit => CodesBounded
  BY CodesAssumption DEF CodesInit, CodesBounded, InRange, OneEntry, FreeSlot

\* What the gateway has written: a version more is an event more.
Numbered(d) ==
  /\ d.config \in Nat /\ d.config <= Len(d.log) + 1
  /\ \A o \in Objects : d.objs[o].ver <= Len(d.log) /\ d.objs[o].ver <= MaxLog
GatewayBounded ==
  /\ clock \in 1..MaxClock /\ Numbered(db) /\ (tx # NoRecord => Numbered(tx.db))
  /\ \A k \in IdemKeys : sender[k].pc # "new" => sender[k].cmd \in Command

LEMMA LogGrows ==
  ASSUME NEW d \in Databases, NEW e \in Databases, NEW ent, Appended(d, e, ent)
  PROVE  Len(e.log) = Len(d.log) + 1 /\ Len(d.log) \in Nat
<1>1. d.log \in Seq(LogEntries) /\ e.log \in Seq(LogEntries)
  BY DEF Databases
<1>2. /\ DOMAIN e.log = 1..Len(e.log) /\ DOMAIN d.log = 1..Len(d.log)
      /\ Len(e.log) \in Nat /\ Len(d.log) \in Nat
  BY <1>1
<1>3. \A n \in Nat : (1..n) \cup {n + 1} = 1..(n + 1)
  OBVIOUS
<1>4. DOMAIN e.log = 1..(Len(d.log) + 1)
  BY <1>2, <1>3 DEF Appended
<1> QED BY <1>1, <1>2, <1>4, LenProperties

LEMMA NumberedPlain ==
  ASSUME NEW d, Sound(d, clock), Numbered(d), NEW e, NEW kind, NEW by, PlainOf(d, e, kind, by)
  PROVE  Numbered(e) /\ Len(e.log) = Len(d.log) + 1
<1>1. d \in Databases /\ e \in Databases /\ Len(e.log) = Len(d.log) + 1 /\ Len(d.log) \in Nat
  BY LogGrows DEF Sound, PlainOf
<1>2. \A o \in Objects : d.objs[o].ver \in Nat
  BY <1>1 DEF Databases, Versions
<1> QED BY <1>1, <1>2 DEF PlainOf, Numbered

LEMMA NumberedPut ==
  ASSUME NEW d, Sound(d, clock), Numbered(d), Len(d.log) < MaxLog, NEW o \in Objects, NEW by \in Writers, clock \in Nat
  PROVE  Numbered(Put(d, o, by)) /\ Len(Put(d, o, by).log) = Len(d.log) + 1
<1> DEFINE e == Put(d, o, by)
           v == [ver |-> d.objs[o].ver + 1, by |-> by]
<1>1. d \in Databases /\ PutOf(d, e, o, v)
  BY PutFields DEF Sound
<1>2. v.ver = d.objs[o].ver + 1
  OBVIOUS
<1> HIDE DEF e, v
<1>3. e \in Databases /\ Len(e.log) = Len(d.log) + 1 /\ Len(d.log) \in Nat /\ e.config = d.config
  BY <1>1, LogGrows DEF PutOf
<1>4. /\ d.objs \in [Objects -> Versions] /\ \A x \in Objects : d.objs[x].ver \in Nat
      /\ e.objs = [d.objs EXCEPT ![o] = v]
  BY <1>1 DEF Databases, Versions, PutOf
<1>5. \A x \in Objects : e.objs[x].ver <= Len(d.log) + 1 /\ e.objs[x].ver <= MaxLog
  <2> SUFFICES ASSUME NEW x \in Objects PROVE e.objs[x].ver <= Len(d.log) + 1 /\ e.objs[x].ver <= MaxLog
    OBVIOUS
  <2>1. CASE x = o
    BY <1>2, <1>3, <1>4, <2>1, GatewayAssumption DEF Numbered
  <2>2. CASE x # o
    BY <1>3, <1>4, <2>2 DEF Numbered
  <2> QED BY <2>1, <2>2
<1>6. Numbered(e)
  BY <1>3, <1>5 DEF Numbered
<1> QED BY <1>3, <1>6 DEF e
LEMMA NumberedEffect ==
  ASSUME NEW d, Sound(d, clock), Numbered(d), Len(d.log) < MaxLog, NEW k \in IdemKeys, NEW cmd \in Asked, Accepts(d, cmd),
         clock \in Nat
  PROVE  Numbered(Effect(d, cmd, k))
<1> DEFINE o == IF cmd.action = "change" THEN cmd.obj ELSE CHOOSE x \in Unused(d) : TRUE
           done == IF cmd.action = "configure" THEN Configured(d, k) ELSE Put(d, o, k)
           e == PlainEvent(done, "command", k)
           f == Effect(d, cmd, k)
<1>0. /\ d \in Databases /\ k \in Writers /\ cmd.action \in ActionNames /\ cmd.obj \in Objects
      /\ d.log \in Seq(LogEntries) /\ Len(d.log) \in Nat
  BY DEF Sound, Writers, Asked, Databases
<1>1. f = [e EXCEPT !.idem[k] = [cmd |-> cmd, result |-> Len(d.log)]]
  BY DEF Effect
<1> HIDE DEF f
<1>2. CASE cmd.action = "configure"
  <2> DEFINE c == [d EXCEPT !.config = @ + 1]
  <2>1. done = PlainEvent(c, "config", k) /\ d.config + 1 \in Nat
    BY <1>0, <1>2 DEF Databases, Configured
  <2> HIDE DEF done
  <2>2. /\ c \in Databases /\ c.objs = d.objs /\ c.log = d.log /\ c.config = d.config + 1
    BY <1>0, <2>1 DEF Databases
  <2> HIDE DEF c
  <2>3. PlainOf(c, done, "config", k) /\ done \in Databases
    BY <1>0, <2>1, <2>2, PlainFields DEF EventKinds, PlainOf
  <2>7. PlainOf(done, e, "command", k)
    BY <1>0, <2>3, PlainFields DEF EventKinds
  <2> HIDE DEF e
  <2>8. Len(done.log) = Len(d.log) + 1 /\ done.config = d.config + 1 /\ done.objs = d.objs
    BY <2>2, <2>3, LogGrows DEF PlainOf
  <2>4. /\ e \in Databases /\ Len(e.log) = Len(d.log) + 2 /\ e.config = d.config + 1 /\ e.objs = d.objs
    BY <1>0, <2>3, <2>7, <2>8, LogGrows DEF PlainOf
  <2>5. f.log = e.log /\ f.config = e.config /\ f.objs = e.objs
    BY <1>1, <2>4 DEF Databases
  <2>6. \A x \in Objects : d.objs[x].ver \in Nat
    BY <1>0 DEF Databases, Versions
  <2> QED BY <1>0, <2>4, <2>5, <2>6 DEF Numbered, f
<1>3. CASE cmd.action # "configure"
  <2>1. o \in Objects
    <3>1. cmd.action \in {"create", "annotate"} => Unused(d) # {}
      BY DEF Accepts
    <3>2. cmd.action \in {"create", "annotate", "change"}
      BY <1>0, <1>3 DEF ActionNames
    <3> QED BY <1>0, <3>1, <3>2 DEF Unused
  <2>2. done = Put(d, o, k)
    BY <1>3
  <2> HIDE DEF o, done
  <2>3. Numbered(done) /\ PutOf(d, done, o, [ver |-> d.objs[o].ver + 1, by |-> k])
    BY <1>0, <2>1, <2>2, NumberedPut, PutFields
  <2>4. Sound(done, clock) /\ done \in Databases
    BY <2>1, <2>3, PutSound, GatewayAssumption DEF PutOf
  <2>5. PlainOf(done, e, "command", k)
    BY <1>0, <2>4, PlainFields DEF EventKinds
  <2> HIDE DEF e
  <2>6. Numbered(e) /\ e \in Databases
    BY <2>3, <2>4, <2>5, NumberedPlain DEF PlainOf
  <2>7. f.log = e.log /\ f.config = e.config /\ f.objs = e.objs
    BY <1>1, <2>6 DEF Databases
  <2> QED BY <2>6, <2>7 DEF Numbered, f
<1> QED BY <1>2, <1>3

LEMMA GatewayBoundsKept ==
  ASSUME GatewayInv, GatewayBounded, [GatewayNext]_gatewayVars PROVE GatewayBounded'
<1>0. /\ sender \in [IdemKeys -> Senders] /\ \A k \in IdemKeys : sender[k] \in Senders
      /\ Sound(db, clock) /\ db \in Databases /\ clock \in Nat /\ db.log \in Seq(LogEntries) /\ Len(db.log) \in Nat
      /\ \A o \in Objects : db.objs[o].ver \in Nat
      /\ MaxLog \in Nat /\ MaxClock \in Nat
  BY GatewayAssumption DEF GatewayInv, Sound, Databases, Versions
<1>1. ASSUME NEW k \in IdemKeys, \A j \in IdemKeys \ {k} : sender'[j] = sender[j], sender'[k].cmd \in Command,
             UNCHANGED <<db, tx, clock>>
      PROVE  GatewayBounded'
  BY <1>1 DEF GatewayBounded
<1>2. ASSUME NEW k \in IdemKeys, NEW a \in ActionNames, NEW o \in Objects, Send(k, a, o) PROVE GatewayBounded'
  <2> DEFINE expect == IF a = "configure" THEN db.config ELSE db.objs[o].ver
  <2>1. expect \in 0..MaxLog
    BY <1>0, <1>2 DEF Send, GatewayBounded, Numbered
  <2>2. sender' = [sender EXCEPT ![k] = [pc |-> "sent", cmd |-> [action |-> a, obj |-> o, expect |-> expect], got |-> NoRecord]]
        /\ UNCHANGED <<db, tx, clock>>
    BY <1>2 DEF Send
  <2> HIDE DEF expect
  <2>3. sender'[k].cmd \in Command /\ \A j \in IdemKeys \ {k} : sender'[j] = sender[j]
    BY <1>0, <2>1, <2>2 DEF Command
  <2> QED BY <1>1, <2>2, <2>3
<1>3. ASSUME NEW k \in IdemKeys, Resend(k) \/ Repeated(k) \/ Refuse(k) PROVE GatewayBounded'
  <2>1. /\ sender[k].pc # "new" /\ UNCHANGED <<db, tx, clock>>
        /\ \A j \in IdemKeys \ {k} : sender'[j] = sender[j]
        /\ sender'[k].cmd = sender[k].cmd
    BY <1>0, <1>3 DEF Resend, Repeated, Refuse, Senders
  <2>2. sender[k].cmd \in Command
    BY <2>1 DEF GatewayBounded
  <2> QED BY <1>1, <2>1, <2>2
<1>4. ASSUME NEW k \in IdemKeys, Reuse(k) PROVE GatewayBounded'
  <2>1. sender[k].cmd \in Command /\ UNCHANGED <<db, tx, clock>>
    BY <1>4 DEF Reuse, GatewayBounded
  <2>2. db.objs[sender[k].cmd.obj].ver \in 0..MaxLog
    BY <1>0, <2>1 DEF Command, GatewayBounded, Numbered
  <2> DEFINE now == db.objs[sender[k].cmd.obj].ver
  <2>3. sender' = [sender EXCEPT ![k].pc = "sent", ![k].cmd.expect = now]
    BY <1>4 DEF Reuse
  <2>4. now \in 0..MaxLog
    BY <2>2
  <2> HIDE DEF now
  <2>5. sender'[k].cmd = [sender[k].cmd EXCEPT !.expect = now] /\ \A j \in IdemKeys \ {k} : sender'[j] = sender[j]
    BY <1>0, <2>3 DEF Senders
  <2>6. sender'[k].cmd \in Command
    BY <2>1, <2>4, <2>5 DEF Command
  <2> QED BY <1>1, <2>1, <2>5, <2>6
<1>5. ASSUME NEW k \in IdemKeys, Execute(k) PROVE GatewayBounded'
  <2>1. /\ sender[k].pc = "sent" /\ Accepts(db, sender[k].cmd) /\ Len(db.log) < MaxLog
        /\ tx' = [by |-> k, start |-> clock, db |-> Effect(db, sender[k].cmd, k)]
        /\ UNCHANGED <<db, sender, clock>>
    BY <1>5 DEF Execute
  <2>2. sender[k].cmd \in Asked
    BY <2>1 DEF GatewayInv, KeysKept, ToldOf
  <2>3. Numbered(tx'.db)
    BY <1>0, <2>1, <2>2, NumberedEffect DEF GatewayBounded
  <2> QED BY <2>1, <2>3 DEF GatewayBounded
<1>6. CASE WorkerWrites
  <2>1. UNCHANGED <<db, sender, clock>> /\ Len(db.log) < MaxLog /\ Worker \in Writers
    BY <1>6 DEF WorkerWrites, Writers
  <2>2. PICK o \in There(db) : \E b \in There(db) : \E e \in {Put(db, o, Worker), LinkOf(db, o, b)} :
               tx' = [by |-> Worker, start |-> clock, db |-> e]
    BY <1>6 DEF WorkerWrites
  <2>3. PICK b \in There(db) : \E e \in {Put(db, o, Worker), LinkOf(db, o, b)} :
               tx' = [by |-> Worker, start |-> clock, db |-> e]
    BY <2>2
  <2>4. CASE tx' = [by |-> Worker, start |-> clock, db |-> Put(db, o, Worker)]
    <3>1. Numbered(tx'.db)
      BY <1>0, <2>1, <2>4, NumberedPut DEF GatewayBounded, There
    <3> QED BY <2>1, <3>1 DEF GatewayBounded
  <2>5. CASE tx' = [by |-> Worker, start |-> clock, db |-> LinkOf(db, o, b)]
    <3> DEFINE edge == [ends |-> {o, b}, at |-> clock]
               d == [db EXCEPT !.edges = @ \cup {edge}]
               e == LinkOf(db, o, b)
    <3>1. e = PlainEvent(d, "edge", Worker)
      BY DEF LinkOf
    <3>2. edge \in Links
      BY <1>0 DEF Links, There
    <3> HIDE DEF edge
    <3>3. d \in Databases /\ d.objs = db.objs /\ d.log = db.log /\ d.config = db.config
      BY <1>0, <3>2 DEF Databases
    <3> HIDE DEF d, e
    <3>4. PlainOf(d, e, "edge", Worker)
      BY <1>0, <2>1, <3>1, <3>3, PlainFields DEF EventKinds
    <3>5. e.objs = db.objs /\ e.config = db.config /\ Len(e.log) = Len(db.log) + 1
      BY <3>3, <3>4, LogGrows DEF PlainOf
    <3>6. Numbered(e)
      BY <1>0, <3>5 DEF GatewayBounded, Numbered
    <3>7. tx'.db = e
      BY <2>5 DEF e
    <3> QED BY <2>1, <3>6, <3>7 DEF GatewayBounded
  <2> QED BY <2>3, <2>4, <2>5
<1>7. CASE Commit \/ RollsBack
  <2>1. tx # NoRecord /\ tx' = NoRecord /\ clock' = clock /\ (db' = db \/ db' = tx.db)
    BY <1>7 DEF Commit, RollsBack
  <2>2. ASSUME NEW k \in IdemKeys PROVE sender'[k].cmd = sender[k].cmd /\ (sender[k].pc = "new" => sender'[k].pc = "new")
    <3>1. tx.by \in IdemKeys => sender[tx.by].pc = "sent"
      BY <2>1 DEF GatewayInv, TxOpen
    <3> QED BY <1>0, <1>7, <3>1 DEF Commit, RollsBack, Senders
  <2> QED BY <2>1, <2>2 DEF GatewayBounded
<1>8. CASE TimePasses
  BY <1>0, <1>8 DEF TimePasses, GatewayBounded
<1>9. CASE UNCHANGED <<db, tx, sender, clock>>
  BY <1>9 DEF GatewayBounded
<1>10. CASE \E at \in 1..MaxClock : \/ ShowPast(at)
                                   \/ \E o \in Objects, depth \in 0..MaxDepth, limit \in 1..GraphLimit :
                                        OpenGraph(o, at, depth, limit)
  BY <1>9, <1>10 DEF ShowPast, OpenGraph
<1>11. CASE WalkRound \/ WalkEnds \/ (\E n \in Objects : ReadNode(n)) \/ UNCHANGED gatewayVars
  BY <1>9, <1>11 DEF WalkRound, WalkEnds, ReadNode, gatewayVars
<1> QED BY <1>2, <1>3, <1>4, <1>5, <1>6, <1>7, <1>8, <1>10, <1>11 DEF GatewayNext

LEMMA GatewayTyped == ASSUME GatewayInv, GatewayBounded PROVE GatewayTypeOK
<1>1. \A o \in Objects : db.objs[o] \in Versions /\ db.objs[o].ver \in 0..MaxLog
  BY GatewayAssumption DEF GatewayInv, Sound, Databases, Versions, GatewayBounded, Numbered
<1>2. MaxLog \in Nat /\ \A o \in Objects : db.objs[o].ver \in 0..MaxLog + 2 /\ db.objs[o].by \in IdemKeys \cup {Worker, NoRecord}
  BY <1>1, GatewayAssumption DEF Versions, Writers
<1>3. \A k \in IdemKeys : sender[k].pc \in {"new", "sent", "lost", "refused", "conflict", "done"}
  BY DEF GatewayInv, Senders
<1> QED BY <1>2, <1>3 DEF GatewayBounded, Numbered, GatewayTypeOK

LEMMA GatewayStartsBounded == GatewayInit => GatewayBounded
<1> SUFFICES ASSUME GatewayInit PROVE GatewayBounded
  OBVIOUS
<1>1. clock = 1 /\ tx = NoRecord /\ db.config = 1 /\ Len(db.log) = 0 /\ \A o \in Objects : db.objs[o].ver = 0
  BY DEF GatewayInit, NoObject
<1>2. \A k \in IdemKeys : sender[k].pc = "new"
  BY DEF GatewayInit
<1> QED BY <1>1, <1>2, GatewayAssumption DEF GatewayBounded, Numbered

-----------------------------------------------------------------------------
(* The whole: whatever component a behaviour is of, its invariant holds.    *)

UpstreamInv ==
  /\ focus = "flow" => FlowInv
  /\ focus = "loop" => LoopInv
  /\ focus = "shell" => ShellInv
  /\ focus = "timer" => TimerInv
  /\ focus = "accounts" => AcctInv
  /\ focus = "codes" => CodesInv
  /\ focus = "list" => ListInv
  /\ focus = "projects" => ProjInv
  /\ focus = "skills" => SkillsInv
  /\ focus = "tools" => McpInv
  /\ focus = "disk" => FilesInv
  /\ focus = "files" => DocsInv
  /\ focus = "patrol" => PatrolInv
  /\ focus = "gateway" => GatewayInv
  /\ focus = "telemetry" => TelInv

LEMMA UpstreamInvariant == UpstreamSpec => []UpstreamInv
<1>1. UpstreamInit => UpstreamInv
  BY StartsInFocus, FlowInitInv, LoopInitInv, ShellInitInv, TimerInitInv, AcctInitInv, CodesInitInv,
     ListInitInv, ProjInitInv, SkillsInitInv, McpInitInv, FilesInitInv, DocsInitInv, PatrolInitInv, GatewayInitInv, TelInitInv, GatewayAssumption DEF UpstreamInv
<1>2. UpstreamInv /\ [UpstreamNext]_upstreamVars => UpstreamInv'
  <2> SUFFICES ASSUME UpstreamInv, [UpstreamNext]_upstreamVars PROVE UpstreamInv'
    OBVIOUS
  <2>1. focus' = focus
    BY InFocus
  <2>2. CASE focus = "flow"
    <3>1. FlowInv /\ [FlowNext]_flowVars
      BY <2>2, InFocus DEF UpstreamInv
    <3> QED BY <2>1, <2>2, <3>1, FlowStep DEF UpstreamInv
  <2>3. CASE focus = "patrol"
    <3>1. PatrolInv /\ [PatrolNext]_patrolVars
      BY <2>3, InFocus DEF UpstreamInv
    <3> QED BY <2>1, <2>3, <3>1, PatrolInvariant DEF UpstreamInv
  <2>4. CASE focus = "gateway"
    <3>1. GatewayInv /\ [GatewayNext]_gatewayVars
      BY <2>4, InFocus DEF UpstreamInv
    <3> QED BY <2>1, <2>4, <3>1, GatewayInvariant, GatewayAssumption DEF UpstreamInv
  <2>5. CASE focus = "telemetry"
    <3>1. TelInv /\ [TelNext]_telVars
      BY <2>5, InFocus DEF UpstreamInv
    <3> QED BY <2>1, <2>5, <3>1, TelInvariant DEF UpstreamInv
  <2>6. CASE focus = "loop"
    <3>1. LoopInv /\ [LoopNext]_loopVars
      BY <2>6, InFocus DEF UpstreamInv
    <3> QED BY <2>1, <2>6, <3>1, LoopStep DEF UpstreamInv
  <2>7. CASE focus = "shell"
    <3>1. ShellInv /\ [ShellNext]_shellVars
      BY <2>7, InFocus DEF UpstreamInv
    <3> QED BY <2>1, <2>7, <3>1, ShellStep DEF UpstreamInv
  <2>8. CASE focus = "timer"
    <3>1. TimerInv /\ [TimerNext]_timerVars
      BY <2>8, InFocus DEF UpstreamInv
    <3> QED BY <2>1, <2>8, <3>1, TimerStep DEF UpstreamInv
  <2>9. CASE focus = "accounts"
    <3>1. AcctInv /\ [AcctNext]_acctVars
      BY <2>9, InFocus DEF UpstreamInv
    <3> QED BY <2>1, <2>9, <3>1, AcctStep DEF UpstreamInv
  <2>10. CASE focus = "codes"
    <3>1. CodesInv /\ [CodesNext]_codeVars
      BY <2>10, InFocus DEF UpstreamInv
    <3> QED BY <2>1, <2>10, <3>1, CodesStep DEF UpstreamInv
  <2>11. CASE focus = "list"
    <3>1. ListInv /\ [ListNext]_listVars
      BY <2>11, InFocus DEF UpstreamInv
    <3> QED BY <2>1, <2>11, <3>1, ListStep DEF UpstreamInv
  <2>12. CASE focus = "projects"
    <3>1. ProjInv /\ [ProjNext]_projVars
      BY <2>12, InFocus DEF UpstreamInv
    <3> QED BY <2>1, <2>12, <3>1, ProjStep DEF UpstreamInv
  <2>13. CASE focus = "skills"
    <3>1. SkillsInv /\ [SkillsNext]_skillVars
      BY <2>13, InFocus DEF UpstreamInv
    <3> QED BY <2>1, <2>13, <3>1, SkillsStep DEF UpstreamInv
  <2>14. CASE focus = "tools"
    <3>1. McpInv /\ [McpNext]_mcpVars
      BY <2>14, InFocus DEF UpstreamInv
    <3> QED BY <2>1, <2>14, <3>1, McpStep DEF UpstreamInv
  <2>15. CASE focus = "disk"
    <3>1. FilesInv /\ [FilesNext]_fileVars
      BY <2>15, InFocus DEF UpstreamInv
    <3> QED BY <2>1, <2>15, <3>1, FilesStep DEF UpstreamInv
  <2>16. CASE focus = "files"
    <3>1. DocsInv /\ [DocsNext]_sfVars
      BY <2>16, InFocus DEF UpstreamInv
    <3> QED BY <2>1, <2>16, <3>1, DocsStep DEF UpstreamInv
  <2>17. CASE focus \notin {"flow", "loop", "patrol", "gateway", "telemetry", "shell", "timer", "accounts", "codes", "list", "projects", "skills", "tools", "disk", "files"}
    BY <2>1, <2>17 DEF UpstreamInv
  <2> QED BY <2>2, <2>3, <2>4, <2>5, <2>6, <2>7, <2>8, <2>9, <2>10, <2>11, <2>12, <2>13, <2>14, <2>15, <2>16, <2>17
<1> QED BY <1>1, <1>2, PTL DEF UpstreamSpec

\* The memory that goes to the model has one response for every call, whatever the user
\* sends while the flow works.
THEOREM FlowsPaired == UpstreamSpec => []FlowPaired
<1>1. UpstreamInv => FlowPaired
  BY DEF UpstreamInv, FlowInv, FlowPaired
<1> QED BY UpstreamInvariant, <1>1, PTL

\* A reply of the user becomes the response of the call that asked.
THEOREM FlowsReply == UpstreamSpec => []FlowReplies
<1>1. UpstreamInv => FlowReplies
  BY DEF UpstreamInv, FlowInv, FlowReplies
<1> QED BY UpstreamInvariant, <1>1, PTL

\* A flow that completes leaves no step open and reports success only for work that was done;
\* the single loop's plan, its timeline and what it lets the model do agree.
THEOREM StepsStayHonest == UpstreamSpec => []StepsHonest
<1>1. UpstreamInv => StepsHonest
  BY LoopHolds DEF UpstreamInv, FlowInv, StepsHonest
<1> QED BY UpstreamInvariant, <1>1, PTL

\* An exit code is that of its own command unless somebody interfered, and the sandbox ends
\* at the deadline it reports.
THEOREM SandboxStaysKept == UpstreamSpec => []SandboxKept
<1>1. UpstreamInv => SandboxKept
  BY DEF UpstreamInv, ShellInv, TimerInv, SandboxKept
<1> QED BY UpstreamInvariant, <1>1, PTL

\* One live patrol per source, and none lost; one effect per command and a past that stands;
\* and of an agent nothing shown that is not so.
THEOREM SwarmStaysKept == UpstreamSpec => []SwarmKept
<1>1. UpstreamInv => SwarmKept
  BY GatewayHolds DEF UpstreamInv, PatrolInv, TelInv, SwarmKept
<1> QED BY UpstreamInvariant, <1>1, PTL

\* A change to an account that was answered stays, every live session can be revoked through
\* the index, and a reset code is accepted as long, and as often, as it was issued for; but
\* for the overlaps that AccountsKept names.
THEOREM AccountsStayKept == UpstreamSpec => []AccountsKept
<1>1. AcctInv => ChangesKept
  BY DEF AcctInv, DocTrue, KeysKnown, ChangesKept
<1>2. CodesInv => CodesKept
  BY DEF CodesInv, BookTrue, CodesKept
<1>3. UpstreamInv => AccountsKept
  BY <1>1, <1>2 DEF UpstreamInv, AccountsKept
<1> QED BY UpstreamInvariant, <1>3, PTL

\* A sidebar with nothing left to hear shows the documents as they are, and of a project what
\* its answers said stays so; but for the overlaps that SessionsKept names.
THEOREM SessionsStayKept == UpstreamSpec => []SessionsKept
<1>1. UpstreamInv => SessionsKept
  BY ListConverges DEF UpstreamInv, ProjInv, SessionsKept
<1> QED BY UpstreamInvariant, <1>1, PTL

\* The skill a message is resolved to lies in the sandbox under its name, unless the skills
\* changed, a copy failed or the name is another's; nobody is given two default skills.
THEOREM SkillsStayFound == UpstreamSpec => []SkillsFound
<1>1. UpstreamInv => SkillsFound
  BY SkillsHold DEF UpstreamInv, SkillsFound
<1> QED BY UpstreamInvariant, <1>1, PTL

\* A tool is called at the server that offered it, and under its own name, unless another
\* server's name fits too.
THEOREM ToolsStayFound == UpstreamSpec => []ToolsFound
<1>1. UpstreamInv => ToolsFound
  BY DEF UpstreamInv, McpInv, ToolsFound
<1> QED BY UpstreamInvariant, <1>1, PTL

\* A file is what the requests that were answered made of it, unless two that change it
\* overlapped; a file of the sandbox that was offered stays listed, and once, with its content.
THEOREM FilesStayKept == UpstreamSpec => []FilesKept
<1>1. UpstreamInv => FilesKept
  BY FilesHold, DocsHold DEF UpstreamInv, FilesKept
<1> QED BY UpstreamInvariant, <1>1, PTL

-----------------------------------------------------------------------------
(* UpstreamBounded completes UpstreamInv to the types of the components whose *)
(* invariant leaves a counter unbounded.                                       *)
UpstreamBounded ==
  /\ focus = "list" => ListTypeOK
  /\ focus = "accounts" => AcctTypeOK
  /\ focus = "codes" => CodesBounded
  /\ focus = "skills" => SkillsTypeOK
  /\ focus = "patrol" => PatrolTypeOK
  /\ focus = "gateway" => GatewayBounded
  /\ focus = "telemetry" => TelTypeOK

LEMMA BoundsKept ==
  ASSUME UpstreamInv, UpstreamBounded, [UpstreamNext]_upstreamVars, UpstreamInv' PROVE UpstreamBounded'
<1>1. focus' = focus
  BY InFocus
<1>2. CASE focus = "list"
  <2>1. ListInv /\ ListTypeOK /\ [ListNext]_listVars /\ ListInv'
    BY <1>1, <1>2, InFocus DEF UpstreamInv, UpstreamBounded
  <2> QED BY <1>1, <1>2, <2>1, ListTypesKept DEF UpstreamBounded
<1>3. CASE focus = "accounts"
  <2>1. AcctTypeOK /\ [AcctNext]_acctVars /\ AcctInv'
    BY <1>1, <1>3, InFocus DEF UpstreamInv, UpstreamBounded
  <2> QED BY <1>1, <1>3, <2>1, AcctTypesKept DEF UpstreamBounded
<1>4. CASE focus = "codes"
  <2>1. CodeTypes /\ CodesBounded /\ [CodesNext]_codeVars
    BY <1>4, InFocus DEF UpstreamInv, CodesInv, UpstreamBounded
  <2> QED BY <1>1, <1>4, <2>1, CodesBoundsKept DEF UpstreamBounded
<1>5. CASE focus = "skills"
  <2>1. SkillsTypeOK /\ [SkillsNext]_skillVars /\ SkillsInv'
    BY <1>1, <1>5, InFocus DEF UpstreamInv, UpstreamBounded
  <2> QED BY <1>1, <1>5, <2>1, SkillsTypesKept DEF UpstreamBounded
<1>6. CASE focus = "patrol"
  <2>1. PatrolInv /\ PatrolTypeOK /\ [PatrolNext]_patrolVars /\ PatrolInv'
    BY <1>1, <1>6, InFocus DEF UpstreamInv, UpstreamBounded
  <2> QED BY <1>1, <1>6, <2>1, PatrolTypesKept DEF UpstreamBounded
<1>7. CASE focus = "gateway"
  <2>1. GatewayInv /\ GatewayBounded /\ [GatewayNext]_gatewayVars
    BY <1>7, InFocus DEF UpstreamInv, UpstreamBounded
  <2> QED BY <1>1, <1>7, <2>1, GatewayBoundsKept DEF UpstreamBounded
<1>8. CASE focus = "telemetry"
  <2>1. TelInv /\ TelTypeOK /\ [TelNext]_telVars /\ TelInv'
    BY <1>1, <1>8, InFocus DEF UpstreamInv, UpstreamBounded
  <2> QED BY <1>1, <1>8, <2>1, TelTypesKept DEF UpstreamBounded
<1>9. CASE focus \notin {"list", "accounts", "codes", "skills", "patrol", "gateway", "telemetry"}
  BY <1>1, <1>9 DEF UpstreamBounded
<1> QED BY <1>2, <1>3, <1>4, <1>5, <1>6, <1>7, <1>8, <1>9

\* The variables of the component that a behaviour is of have their types, and its counters
\* stay in their bounds.
THEOREM UpstreamTypesKept == UpstreamSpec => []UpstreamTypeOK
<1>1. UpstreamInit => UpstreamBounded
  BY StartsInFocus, ListTypesKept, AcctTypesKept, CodesStartBounded, SkillsTypesKept, PatrolTypesKept,
     GatewayStartsBounded, TelTypesKept DEF UpstreamBounded
<1>2. UpstreamInv /\ UpstreamBounded /\ [UpstreamNext]_upstreamVars /\ UpstreamInv' => UpstreamBounded'
  BY BoundsKept
<1>3. UpstreamInv /\ UpstreamBounded => UpstreamTypeOK
  <2> SUFFICES ASSUME UpstreamInv, UpstreamBounded PROVE UpstreamTypeOK
    OBVIOUS
  <2>1. /\ focus = "flow" => FlowTypeOK
        /\ focus = "loop" => LoopTypeOK
        /\ focus = "shell" => ShellTypeOK
        /\ focus = "timer" => TimerTypeOK
        /\ focus = "disk" => FilesTypeOK
        /\ focus = "files" => DocsTypeOK
    BY FlowTyped, LoopHolds, ShellTyped, FilesTyped, DocsTyped DEF UpstreamInv, TimerInv
  <2>2. /\ focus = "projects" => ProjTypeOK
        /\ focus = "tools" => McpTypeOK
        /\ focus = "codes" => CodesTypeOK
        /\ focus = "gateway" => GatewayTypeOK
    BY ProjTyped, McpTyped, CodesTyped, GatewayTyped DEF UpstreamInv, UpstreamBounded
  <2> QED BY <2>1, <2>2 DEF UpstreamBounded, UpstreamTypeOK
<1> QED BY UpstreamInvariant, <1>1, <1>2, <1>3, PTL DEF UpstreamSpec
=============================================================================
