---------------------------- MODULE AgentProofs ----------------------------
(***************************************************************************)
(* Theorems about the agent and its sandbox, for any values of the         *)
(* constants: the plan-and-act flow and the single loop, the skills and    *)
(* the tools they are given, the shell, the deadline and the files of the  *)
(* sandbox, and the session's list of files.  Each component has its       *)
(* inductive invariant here; UpstreamProofs draws from them what MCUpstream *)
(* states of the components it runs, and this module what AgentFlow says   *)
(* of its own specification.                                               *)
(***************************************************************************)
EXTENDS TLAPS, AgentFlow, AgentLoop, Skills, McpTools, SandboxShell, SandboxTimer, SandboxFiles,
        SessionFiles, FiniteSetTheorems, SequenceTheorems, WellFoundedInduction

\* A function on 1..n is a sequence of length n.
LEMMA FcnIsSeq ==
  ASSUME NEW S, NEW n \in Nat, NEW f \in [1..n -> S]
  PROVE  f \in Seq(S) /\ DOMAIN f = 1..n /\ Len(f) = n
  OBVIOUS

\* Of any numbers one is the least.
LEMMA Least ==
  ASSUME NEW T \in SUBSET Nat, T # {}
  PROVE  \E x \in T : \A y \in T : x <= y
<1>1. PICK n \in T : TRUE
  OBVIOUS
<1> DEFINE below == {0 .. x : x \in {m \in T : m <= n}}
           R == StrictSubsetOrdering(0 .. n)
           F == FiniteSubsetsOf(0 .. n)
<1>2. IsFiniteSet(0 .. n)
  BY <1>1, FS_Interval
<1>3. IsWellFoundedOn(R, F) /\ F = SUBSET (0 .. n)
  BY <1>2, FS_StrictSubsetOrderingWellFounded, FS_FiniteSubsetsOfFinite
<1> HIDE DEF R, F
<1>4. below \subseteq F /\ below # {}
  <2>1. n \in {m \in T : m <= n}
    BY <1>1
  <2>2. \A x \in {m \in T : m <= n} : 0 .. x \in SUBSET (0 .. n)
    BY <1>1
  <2> QED BY <1>3, <2>1, <2>2
<1>5. PICK s \in below : \A r \in below : <<r, s>> \notin R
  BY <1>3, <1>4, WFMin
<1>6. PICK x \in T : x <= n /\ s = 0 .. x
  BY <1>5
<1>7. ASSUME NEW y \in T, y < x PROVE FALSE
  <2>1. y \in Nat /\ x \in Nat /\ n \in Nat
    BY <1>7
  <2>2. 0 .. y \in below /\ y <= n
    BY <1>6, <1>7, <2>1
  <2>3. 0 .. y \subseteq 0 .. x /\ x \in 0 .. x /\ x \notin 0 .. y
    BY <1>7, <2>1
  <2>4. 0 .. y \in SUBSET (0 .. n) /\ 0 .. x \in SUBSET (0 .. n)
    BY <1>6, <2>1, <2>2
  <2>5. <<0 .. y, 0 .. x>> \in R
    BY <2>3, <2>4 DEF R, StrictSubsetOrdering
  <2> QED BY <1>5, <1>6, <2>2, <2>5
<1>8. \A y \in T : ~(y < x)
  BY <1>7
<1> QED BY <1>8

-----------------------------------------------------------------------------
(* The plan-and-act flow.  FlowInv says what it relies on between two of    *)
(* its awaits: an answer that is open belongs to the loop under way         *)
(* (OpenAnswers), the stored plan has the same next step as the one in      *)
(* memory (StepKnown), and what a question leaves behind is what the next   *)
(* run finds (Waits, Resumes).                                              *)

Memories == [last : {"none", "user", "tool", "call", "text"}, calls : Seq(Kinds), gap : BOOLEAN]
Loops == [who : Agents \cup {"none"}, pc : {"none", "ask", "calls"}, iter : 0..MaxIter, i : Nat,
          out : {"none", "good", "bad"}]
Phases == {"off", "planning", "executing", "updating", "summarizing", "completed"}

FlowTypes ==
  /\ fstatus \in {"pending", "running", "waiting", "completed"} /\ phase \in Phases
  /\ plan \in Seq(Statuses) /\ saved \in Seq(Statuses)
  /\ Len(plan) <= MaxSteps /\ Len(saved) <= MaxSteps /\ step \in 0..MaxSteps
  /\ resuming \in BOOLEAN /\ work \in {0, 1} /\ late \in BOOLEAN /\ did \in BOOLEAN
  /\ stale \in BOOLEAN /\ memory \in [Agents -> Memories] /\ loop \in Loops /\ cut \subseteq Agents

\* The loop under way, and whose answer it reads.
LoopShape ==
  /\ phase # "off" => fstatus = "running"
  /\ loop.pc = "none" => loop = Quiet
  /\ loop.pc # "none" => loop.who \in Agents /\ phase \notin {"off", "completed"}
  /\ loop.pc = "calls" => loop.i \in 1..(Len(Calls) + 1)
  /\ \A a \in Agents : (memory[a].last = "call") <=> (memory[a].calls # <<>>)

\* An answer still open is that of the loop under way, or was left by a cut loop, or the
\* next run will settle it.
OpenAnswers ==
  \A a \in Agents : memory[a].last = "call" =>
    /\ fstatus # "pending"
    /\ phase = "off" \/ a \in cut \/ (loop.pc = "calls" /\ loop.who = a)

\* The step under way is the next one of the stored plan, and work counted for it was done.
StepKnown ==
  /\ phase = "executing" /\ loop.pc = "none" => saved = plan \/ stale
  /\ phase = "executing" /\ loop.pc # "none" =>
       /\ step \in DOMAIN plan /\ ~resuming
       /\ step = NextStep(saved) \/ stale
       /\ work = 1 => did \/ stale
  /\ phase \in {"planning", "updating"} => ~resuming
  /\ phase = "updating" => step \in DOMAIN plan

\* What a question leaves in the session ...
Waits ==
  fstatus = "waiting" =>
    /\ phase = "off"
    /\ asker = NextStep(saved) \/ stale
    /\ memory["executor"].last = "call"
    /\ memory["executor"].calls[1] = "ask" \/ late
    /\ work = 1 => did \/ stale

\* ... and what the run finds that resumes it.
Resumes ==
  resuming /\ phase = "executing" => /\ loop.pc = "none"
                                     /\ work = 1 => did \/ stale

FlowInv == /\ FlowTypes /\ LoopShape /\ OpenAnswers /\ StepKnown /\ Waits /\ Resumes
           /\ PairingKept /\ ReplyReaches /\ NothingLeftOpen /\ HonestSuccess

-----------------------------------------------------------------------------
(* What the operators on plans and memories return.                         *)

\* The next step is the first open one, and there is one while any step is open.
LEMMA NextOpen ==
  ASSUME NEW p \in Seq(Statuses)
  PROVE  /\ Open(p) \subseteq 1..Len(p) /\ DOMAIN p = 1..Len(p) /\ Len(p) \in Nat
         /\ NextStep(p) = 0 <=> Open(p) = {}
         /\ NextStep(p) # 0 => NextStep(p) \in Open(p)
<1>1. Open(p) \subseteq 1..Len(p) /\ DOMAIN p = 1..Len(p) /\ Len(p) \in Nat
  BY DEF Open
<1>2. ASSUME Open(p) # {}
      PROVE  NextStep(p) \in Open(p)
  <2>1. Open(p) \in SUBSET Nat
    BY <1>1
  <2>2. \E x \in Open(p) : \A y \in Open(p) : x <= y
    BY <1>2, <2>1, Least
  <2> QED BY <1>2, <2>2 DEF NextStep
<1>3. Open(p) = {} => NextStep(p) = 0
  BY DEF NextStep
<1> QED BY <1>1, <1>2, <1>3

LEMMA MemorySteps ==
  ASSUME NEW m \in Memories, (m.last = "call") <=> (m.calls # <<>>)
  PROVE  /\ Told(m) \in Memories /\ Told(m).last = "user" /\ Told(m).calls = <<>>
         /\ Told(m).gap <=> m.gap \/ m.last = "call"
         /\ Responded(m) \in Memories /\ Responded(m).last = "tool" /\ Responded(m).calls = <<>>
         /\ Responded(m).gap <=> m.gap
         /\ RollBack(m) \in Memories /\ RollBack(m).last # "call" /\ RollBack(m).calls = <<>>
         /\ RollBack(m).gap => m.gap \/ (Len(m.calls) > 1 /\ m.calls[1] = "ask")
         /\ m.last = "call" /\ m.calls[1] = "ask" => RollBack(m).last = "tool"
<1>0. <<>> \in Seq(Kinds)
  OBVIOUS
<1>1. /\ Told(m) \in Memories /\ Told(m).last = "user" /\ Told(m).calls = <<>>
      /\ Told(m).gap <=> m.gap \/ m.last = "call"
  BY <1>0 DEF Told, Memories
<1>2. /\ Responded(m) \in Memories /\ Responded(m).last = "tool" /\ Responded(m).calls = <<>>
      /\ Responded(m).gap <=> m.gap
  BY <1>0 DEF Responded, Memories
<1>3. CASE m.last # "call"
  BY <1>1, <1>2, <1>3 DEF RollBack, Memories
<1>4. CASE m.last = "call" /\ m.calls[1] = "ask"
  BY <1>0, <1>1, <1>2, <1>4 DEF RollBack, Memories
<1>5. CASE m.last = "call" /\ m.calls[1] # "ask"
  BY <1>0, <1>1, <1>2, <1>5 DEF RollBack, Memories
<1> QED BY <1>1, <1>2, <1>3, <1>4, <1>5

LEMMA AnsweredMemory ==
  ASSUME NEW m \in Memories, NEW calls \in Seq(Kinds)
  PROVE  /\ Answered(m, calls) \in Memories /\ Answered(m, calls).calls = calls
         /\ Answered(m, calls).last = (IF calls = <<>> THEN "text" ELSE "call")
         /\ Answered(m, calls).gap <=> m.gap
  BY DEF Answered, Memories

LEMMA AnswersTyped == \A agent : \A calls \in Answers(agent) : calls \in Seq(Kinds) /\ calls # <<>>
<1> SUFFICES ASSUME NEW agent, NEW calls \in Answers(agent)
             PROVE  calls \in Seq(Kinds) /\ calls # <<>>
  OBVIOUS
<1>1. PICK n \in 1..MaxCalls : calls \in [1..n -> Kinds]
  BY DEF Answers, Kinds
<1>2. n \in Nat /\ n > 0
  BY <1>1, FlowAssumption
<1> QED BY <1>1, <1>2

LEMMA Bounds == MaxSteps \in Nat /\ MaxIter \in Nat /\ 0 \in 0..MaxSteps /\ 0 <= MaxSteps
  BY FlowAssumption

LEMMA LoopSteps ==
  /\ Quiet \in Loops /\ Quiet.pc = "none" /\ Quiet.out = "none"
  /\ \A a \in Agents : LET l == [Quiet EXCEPT !.who = a, !.pc = "ask"]
                        IN  l \in Loops /\ l.who = a /\ l.pc = "ask" /\ l.out = "none"
<1>1. MaxIter \in Nat /\ MaxSteps \in Nat
  BY Bounds
<1>2. Quiet \in Loops /\ Quiet.pc = "none" /\ Quiet.out = "none"
  BY <1>1 DEF Quiet, Loops
<1>3. ASSUME NEW a \in Agents
      PROVE  LET l == [Quiet EXCEPT !.who = a, !.pc = "ask"]
             IN  l \in Loops /\ l.who = a /\ l.pc = "ask" /\ l.out = "none"
  BY <1>1, <1>2 DEF Quiet, Loops
<1> QED BY <1>1, <1>2, <1>3

-----------------------------------------------------------------------------
LEMMA FlowInitInv == FlowInit => FlowInv
<1> SUFFICES ASSUME FlowInit PROVE FlowInv
  OBVIOUS
<1>1. Empty \in Memories /\ Empty.last = "none" /\ Empty.calls = <<>> /\ Empty.gap = FALSE
  BY DEF Empty, Memories
<1>2. <<>> \in Seq(Statuses) /\ Len(<<>>) = 0
  OBVIOUS
<1>3. FlowTypes
  BY <1>1, <1>2, LoopSteps, Bounds DEF FlowInit, FlowTypes, Phases
<1>4. LoopShape /\ OpenAnswers /\ PairingKept
  BY <1>1, LoopSteps DEF FlowInit, LoopShape, OpenAnswers, PairingKept
<1>5. StepKnown /\ Waits /\ Resumes /\ ReplyReaches /\ NothingLeftOpen /\ HonestSuccess
  BY DEF FlowInit, StepKnown, Waits, Resumes, ReplyReaches, NothingLeftOpen, HonestSuccess, OnStep
<1> QED BY <1>3, <1>4, <1>5 DEF FlowInv

\* A message: the open answers are settled, and what a question left is what is resumed.
LEMMA RunFlowKeeps ==
  ASSUME FlowInv, RunFlow
  PROVE  FlowInv'
<1>1. \A a \in Agents : memory[a] \in Memories /\ ((memory[a].last = "call") <=> (memory[a].calls # <<>>))
  BY DEF FlowInv, FlowTypes, LoopShape
<1>2. loop.pc = "none" /\ loop = Quiet /\ loop' = loop
  BY DEF RunFlow, FlowInv, LoopShape, FlowTypes, Loops
<1>3. /\ memory' \in [Agents -> Memories]
      /\ \A a \in Agents : /\ memory'[a].last # "call" /\ memory'[a].calls = <<>>
                           /\ memory'[a].gap => memory[a].gap \/ late'
  <2>1. CASE fstatus = "pending"
    BY <1>1, <2>1 DEF RunFlow, FlowInv, FlowTypes, OpenAnswers
  <2>2. CASE fstatus # "pending"
    <3>1. \A a \in Agents : memory'[a] = RollBack(memory[a])
      BY <2>2 DEF RunFlow
    <3>2. ASSUME NEW a \in Agents, Len(memory[a].calls) > 1 /\ memory[a].calls[1] = "ask"
          PROVE  late'
      BY <3>2 DEF RunFlow
    <3>3. memory' = [a \in Agents |-> RollBack(memory[a])]
      BY <2>2 DEF RunFlow
    <3> QED BY <1>1, <3>1, <3>2, <3>3, MemorySteps
  <2> QED BY <2>1, <2>2
<1>4. /\ plan' = saved /\ saved' = saved /\ stale' = stale /\ asker' = asker /\ cut' = cut
      /\ did' = did /\ fstatus' = "running" /\ phase' \in {"executing", "planning"}
      /\ resuming' <=> fstatus = "waiting"
      /\ phase' = "executing" <=> fstatus = "waiting"
      /\ work' \in {0, work} /\ step' = 0 /\ (late => late')
  BY DEF RunFlow
<1>5. late' \in BOOLEAN /\ resuming' \in BOOLEAN
  BY Zenon DEF RunFlow, FlowInv, FlowTypes
<1>6. FlowTypes'
  BY <1>2, <1>3, <1>4, <1>5, LoopSteps, Bounds DEF FlowInv, FlowTypes, Phases
<1>7. LoopShape' /\ OpenAnswers' /\ PairingKept'
  BY <1>2, <1>3, <1>4, LoopSteps DEF FlowInv, LoopShape, OpenAnswers, PairingKept
<1>8. StepKnown' /\ Waits' /\ Resumes' /\ NothingLeftOpen' /\ HonestSuccess'
  <2>1. loop'.pc = "none" /\ loop'.out = "none"
    BY <1>2, LoopSteps
  <2>2. StepKnown' /\ NothingLeftOpen' /\ HonestSuccess'
    BY <1>4, <2>1 DEF StepKnown, NothingLeftOpen, HonestSuccess, OnStep
  <2>3. Waits' /\ Resumes'
    BY <1>4, <2>1 DEF FlowInv, Waits, Resumes
  <2> QED BY <2>2, <2>3
<1>9. ReplyReaches'
  <2>1. ASSUME fstatus = "waiting"
        PROVE  /\ NextStep(plan') = asker' \/ stale'
               /\ memory'["executor"].last = "tool" \/ late'
    <3>1. memory["executor"].last = "call" /\ (memory["executor"].calls[1] = "ask" \/ late)
      BY <2>1 DEF FlowInv, Waits
    <3>2. memory'["executor"] = RollBack(memory["executor"])
      BY <2>1 DEF RunFlow, Agents
    <3>3. memory'["executor"].last = "tool" \/ late'
      BY <1>1, <1>4, <3>1, <3>2, MemorySteps DEF Agents
    <3> QED BY <1>4, <2>1, <3>3 DEF FlowInv, Waits
  <2> QED BY <1>4, <2>1 DEF ReplyReaches
<1> QED BY <1>6, <1>7, <1>8, <1>9 DEF FlowInv

\* The request of an agent is stored and its loop begins.
LEMMA Entered ==
  ASSUME FlowInv, NEW agent \in Agents, loop = Quiet, Enter(agent)
  PROVE  /\ memory' \in [Agents -> Memories] /\ memory'[agent].last = "user"
         /\ memory'[agent].calls = <<>>
         /\ memory'[agent].gap => memory[agent].gap \/ memory[agent].last = "call"
         /\ \A b \in Agents : b # agent => memory'[b] = memory[b]
         /\ loop' \in Loops /\ loop'.who = agent /\ loop'.pc = "ask" /\ loop'.out = "none"
<1>1. /\ memory[agent] \in Memories /\ ((memory[agent].last = "call") <=> (memory[agent].calls # <<>>))
      /\ memory \in [Agents -> Memories]
  BY DEF FlowInv, FlowTypes, LoopShape
<1>2. memory' = [memory EXCEPT ![agent] = Told(memory[agent])]
  BY <1>1 DEF Enter
<1>3. loop' = [Quiet EXCEPT !.who = agent, !.pc = "ask"]
  BY DEF Enter
<1>4. Told(memory[agent]) \in Memories /\ memory'[agent] = Told(memory[agent])
  BY <1>1, <1>2, MemorySteps
<1>5. memory' \in [Agents -> Memories] /\ \A b \in Agents : b # agent => memory'[b] = memory[b]
  BY <1>1, <1>2, <1>4
<1>6. /\ memory'[agent].last = "user" /\ memory'[agent].calls = <<>>
      /\ memory'[agent].gap => memory[agent].gap \/ memory[agent].last = "call"
  BY <1>1, <1>4, MemorySteps
<1>7. loop' \in Loops /\ loop'.who = agent /\ loop'.pc = "ask" /\ loop'.out = "none"
  BY <1>3, LoopSteps
<1> QED BY <1>5, <1>6, <1>7

\* With the loop of an agent begun the answers and pairs are as they were.
LEMMA EnteredKeeps ==
  ASSUME FlowInv, NEW agent \in Agents, loop = Quiet, Enter(agent),
         phase' = phase, phase \notin {"off", "completed"}, UNCHANGED <<fstatus, cut, late>>
  PROVE  LoopShape' /\ OpenAnswers' /\ PairingKept'
<1>1. /\ memory'[agent].last = "user" /\ memory'[agent].calls = <<>>
      /\ memory'[agent].gap => memory[agent].gap \/ memory[agent].last = "call"
      /\ \A b \in Agents : b # agent => memory'[b] = memory[b]
      /\ loop'.who = agent /\ loop'.pc = "ask"
  BY Entered
<1>2. loop.pc = "none"
  BY LoopSteps
<1>3. memory[agent].last = "call" => agent \in cut
  BY <1>2 DEF FlowInv, OpenAnswers
<1> QED BY <1>1, <1>2, <1>3 DEF FlowInv, LoopShape, OpenAnswers, PairingKept

LEMMA EnterKeeps ==
  ASSUME FlowInv, CreatePlan \/ UpdatePlan \/ Summarize \/ ExecuteStep
  PROVE  FlowInv'
<1>1. CASE CreatePlan \/ UpdatePlan \/ Summarize
  <2>1. PICK agent \in Agents : Enter(agent)
    BY <1>1 DEF CreatePlan, UpdatePlan, Summarize, Agents
  <2>2. /\ loop = Quiet /\ phase \in {"planning", "updating", "summarizing"} /\ phase' = phase
        /\ UNCHANGED <<fstatus, plan, saved, step, resuming, work, did, asker, cut, late, stale>>
    BY <1>1 DEF CreatePlan, UpdatePlan, Summarize, history
  <2>3. FlowTypes'
    BY <2>1, <2>2, Entered DEF FlowInv, FlowTypes
  <2>4. LoopShape' /\ OpenAnswers' /\ PairingKept'
    BY <2>1, <2>2, EnteredKeeps
  <2>5. StepKnown' /\ Resumes' /\ ReplyReaches' /\ NothingLeftOpen' /\ HonestSuccess'
    BY <2>2 DEF FlowInv, StepKnown, Resumes, ReplyReaches, NothingLeftOpen, HonestSuccess, OnStep
  <2>6. Waits'
    BY <2>2 DEF FlowInv, Waits
  <2> QED BY <2>3, <2>4, <2>5, <2>6 DEF FlowInv
<1>2. CASE ExecuteStep
  <2>1. Enter("executor") /\ "executor" \in Agents /\ loop = Quiet /\ loop.pc = "none"
    BY <1>2, LoopSteps DEF ExecuteStep, Agents
  <2>2. /\ phase = "executing" /\ phase' = phase /\ step' = NextStep(plan) /\ ~resuming'
        /\ plan' = [plan EXCEPT ![NextStep(plan)] = "running"]
        /\ work' = (IF resuming THEN work ELSE 0)
        /\ did' <=> (did /\ resuming /\ NextStep(plan) = asker)
        /\ UNCHANGED <<fstatus, saved, cut, late, stale>>
    BY <1>2 DEF ExecuteStep, StartCount
  <2>3. did' \in BOOLEAN /\ resuming' \in BOOLEAN
    BY <1>2, Zenon DEF ExecuteStep
  <2>4. NextStep(plan) \in DOMAIN plan /\ Len(plan) \in Nat /\ DOMAIN plan = 1..Len(plan)
    BY <1>2, NextOpen DEF ExecuteStep, FlowInv, FlowTypes
  <2>5. plan' \in Seq(Statuses) /\ Len(plan') = Len(plan) /\ DOMAIN plan' = DOMAIN plan
    BY <2>2, <2>4 DEF FlowInv, FlowTypes, Statuses
  <2>6. step' \in 0..MaxSteps /\ work' \in {0, 1}
    BY <2>2, <2>4, Bounds DEF FlowInv, FlowTypes
  <2>7. FlowTypes'
    BY <2>1, <2>2, <2>3, <2>5, <2>6, Entered DEF FlowInv, FlowTypes
  <2>8. LoopShape' /\ OpenAnswers' /\ PairingKept'
    BY <2>1, <2>2, EnteredKeeps
  <2>9. work' = 1 => did' \/ stale'
    BY <2>1, <2>2 DEF FlowInv, Resumes, ReplyReaches
  <2>10. step' = NextStep(saved') \/ stale'
    BY <2>1, <2>2 DEF FlowInv, StepKnown
  <2>11. loop'.pc = "ask" /\ loop'.out = "none"
    BY <2>1, Entered
  <2>12. StepKnown' /\ Waits' /\ Resumes' /\ ReplyReaches' /\ NothingLeftOpen' /\ HonestSuccess'
    BY <2>2, <2>4, <2>5, <2>9, <2>10, <2>11 DEF FlowInv, StepKnown, Waits, Resumes, ReplyReaches,
       NothingLeftOpen, HonestSuccess, OnStep
  <2> QED BY <2>7, <2>8, <2>12 DEF FlowInv
<1> QED BY <1>1, <1>2

\* The steps that do not touch a memory or begin a loop.
LEMMA PhaseKeeps ==
  ASSUME FlowInv, StepsDone \/ FlowDone \/ FlowStops
  PROVE  FlowInv'
<1>1. CASE StepsDone
  <2>1. Open(plan) = {} /\ loop.pc = "none"
    BY <1>1, NextOpen, LoopSteps DEF StepsDone, FlowInv, FlowTypes
  <2>2. phase' \in {"completed", "summarizing"} /\ step' = 0
        /\ UNCHANGED <<fstatus, plan, saved, resuming, memory, loop, work, did, asker, cut, late, stale>>
    BY <1>1 DEF StepsDone, history
  <2>3. FlowTypes'
    BY <2>2, LoopSteps, Bounds DEF FlowInv, FlowTypes, Phases
  <2>4. LoopShape' /\ OpenAnswers' /\ PairingKept'
    BY <1>1, <2>1, <2>2 DEF FlowInv, LoopShape, OpenAnswers, PairingKept, StepsDone
  <2>5. StepKnown' /\ Waits' /\ Resumes' /\ ReplyReaches' /\ NothingLeftOpen' /\ HonestSuccess'
    BY <1>1, <2>1, <2>2 DEF FlowInv, StepKnown, Waits, Resumes, ReplyReaches, NothingLeftOpen,
       HonestSuccess, OnStep, StepsDone
  <2> QED BY <2>3, <2>4, <2>5 DEF FlowInv
<1>2. CASE FlowDone \/ FlowStops
  <2>1. /\ phase' = "off" /\ plan' = <<>> /\ step' = 0 /\ ~resuming' /\ resuming' \in BOOLEAN
        /\ loop' = Quiet /\ fstatus' \in {"completed", "running"} /\ did' = FALSE
        /\ saved' \in {saved, plan} /\ UNCHANGED <<memory, work, cut, late, stale>>
    BY <1>2 DEF FlowDone, FlowStops, Over, history
  <2>2. <<>> \in Seq(Statuses) /\ Len(<<>>) = 0
    OBVIOUS
  <2>3. FlowTypes'
    BY <2>1, <2>2, LoopSteps, Bounds DEF FlowInv, FlowTypes, Phases
  <2>4. LoopShape' /\ OpenAnswers' /\ PairingKept'
    BY <2>1, LoopSteps DEF FlowInv, LoopShape, OpenAnswers, PairingKept
  <2>5. StepKnown' /\ Waits' /\ Resumes' /\ ReplyReaches' /\ NothingLeftOpen' /\ HonestSuccess'
    BY <2>1 DEF StepKnown, Waits, Resumes, ReplyReaches, NothingLeftOpen, HonestSuccess, OnStep
  <2> QED BY <2>3, <2>4, <2>5 DEF FlowInv
<1> QED BY <1>1, <1>2

-----------------------------------------------------------------------------
(* The tool loop.                                                           *)

\* What holds of the loop under way.
LEMMA InLoop ==
  ASSUME FlowInv, loop.pc # "none"
  PROVE  /\ loop.who \in Agents /\ loop \in Loops /\ memory[loop.who] \in Memories
         /\ memory \in [Agents -> Memories] /\ loop # Quiet
         /\ (memory[loop.who].last = "call") <=> (memory[loop.who].calls # <<>>)
         /\ phase \in {"planning", "executing", "updating", "summarizing"} /\ fstatus = "running"
         /\ phase = "executing" => ~resuming
         /\ loop.pc = "ask" => (memory[loop.who].last = "call" => loop.who \in cut)
<1>1. loop.who \in Agents /\ loop \in Loops /\ memory \in [Agents -> Memories] /\ loop # Quiet
  BY LoopSteps DEF FlowInv, FlowTypes, LoopShape
<1>2. phase \in {"planning", "executing", "updating", "summarizing"} /\ fstatus = "running"
  BY DEF FlowInv, FlowTypes, Phases, LoopShape
<1>3. phase = "executing" => ~resuming
  BY DEF FlowInv, StepKnown
<1>4. loop.pc = "ask" => (memory[loop.who].last = "call" => loop.who \in cut)
  BY <1>1, <1>2 DEF FlowInv, OpenAnswers
<1>5. (memory[loop.who].last = "call") <=> (memory[loop.who].calls # <<>>)
  BY <1>1 DEF FlowInv, LoopShape
<1> QED BY <1>1, <1>2, <1>3, <1>4, <1>5

\* A step inside the loop that leaves plan, phase and status alone.
LEMMA InsideKeeps ==
  ASSUME FlowInv, loop.pc # "none",
         UNCHANGED <<fstatus, phase, plan, saved, step, resuming, asker, cut, late, stale>>,
         memory' \in [Agents -> Memories], loop' \in Loops, loop'.who = loop.who,
         loop'.pc # "none",
         \A b \in Agents : b # loop.who => memory'[b] = memory[b],
         LET m == memory'[loop.who]
         IN  /\ (m.last = "call") <=> (m.calls # <<>>)
             /\ m.last = "call" => loop'.pc = "calls" \/ loop.who \in cut
             /\ m.gap => memory[loop.who].gap \/ loop.who \in cut
             /\ loop'.pc = "calls" => loop'.i \in 1..(Len(m.calls) + 1),
         work' \in {0, 1}, did' \in BOOLEAN, did => did', work' = 1 => work = 1 \/ did',
         loop'.out = "good" /\ phase = "executing" => loop.out = "good" \/ work = 1
  PROVE  FlowInv'
<1>1. /\ loop.who \in Agents /\ fstatus = "running" /\ (phase = "executing" => ~resuming)
      /\ phase \in {"planning", "executing", "updating", "summarizing"}
  BY InLoop
<1>2. FlowTypes'
  BY DEF FlowInv, FlowTypes
<1>3. LoopShape'
  BY <1>1 DEF FlowInv, LoopShape, Calls
<1>4. OpenAnswers'
  <2>1. ASSUME NEW b \in Agents, memory'[b].last = "call"
        PROVE  fstatus' # "pending" /\ (b \in cut \/ (loop'.pc = "calls" /\ loop'.who = b) \/ phase' = "off")
    BY <1>1, <2>1 DEF FlowInv, OpenAnswers
  <2> QED BY <2>1 DEF OpenAnswers
<1>5. PairingKept'
  BY DEF FlowInv, PairingKept
<1>6. StepKnown' /\ Waits' /\ Resumes' /\ ReplyReaches' /\ NothingLeftOpen'
  BY <1>1 DEF FlowInv, StepKnown, Waits, Resumes, ReplyReaches, NothingLeftOpen
<1>7. HonestSuccess'
  BY <1>1 DEF FlowInv, StepKnown, HonestSuccess, OnStep
<1> QED BY <1>2, <1>3, <1>4, <1>5, <1>6, <1>7 DEF FlowInv

LEMMA AnswerKeeps ==
  ASSUME FlowInv, AnswerCalls \/ AnswerText
  PROVE  FlowInv'
<1>1. loop.pc = "ask"
  BY DEF AnswerCalls, AnswerText
<1>2. /\ loop.who \in Agents /\ loop \in Loops /\ memory[loop.who] \in Memories
      /\ memory \in [Agents -> Memories]
      /\ (memory[loop.who].last = "call") <=> (memory[loop.who].calls # <<>>)
      /\ memory[loop.who].last = "call" => loop.who \in cut
  BY <1>1, InLoop
<1>3. /\ UNCHANGED <<fstatus, phase, plan, saved, step, resuming, asker, cut, late, stale>>
      /\ work' = work /\ did' = did /\ work' \in {0, 1} /\ did' \in BOOLEAN
      /\ loop.iter + 1 \in 0..MaxIter
  <2>1. loop.iter \in 0..MaxIter /\ loop.iter < MaxIter
    BY <1>2 DEF AnswerCalls, AnswerText, Loops
  <2> QED BY <2>1, Bounds DEF AnswerCalls, AnswerText, history, FlowInv, FlowTypes
<1>4. CASE AnswerCalls
  <2>1. PICK calls \in Answers(loop.who) :
          memory' = [memory EXCEPT ![loop.who] = Answered(memory[loop.who], calls)]
    BY <1>4 DEF AnswerCalls
  <2>2. calls \in Seq(Kinds) /\ calls # <<>> /\ Len(calls) \in Nat
    BY AnswersTyped
  <2> DEFINE m == Answered(memory[loop.who], calls)
  <2>3. m \in Memories /\ m.calls = calls /\ m.last = "call" /\ (m.gap <=> memory[loop.who].gap)
    BY <1>2, <2>2, AnsweredMemory
  <2> HIDE DEF m
  <2>4. /\ memory' \in [Agents -> Memories] /\ memory'[loop.who] = m
        /\ \A b \in Agents : b # loop.who => memory'[b] = memory[b]
    BY <1>2, <2>1, <2>3 DEF m
  <2>5. loop' \in Loops /\ loop'.who = loop.who /\ loop'.pc = "calls" /\ loop'.i = 1 /\ loop'.out = "none"
    BY <1>2, <1>3, <1>4 DEF AnswerCalls, Loops
  <2>6. 1 \in 1..(Len(calls) + 1)
    BY <2>2
  <2> QED BY <1>1, <1>3, <2>2, <2>3, <2>4, <2>5, <2>6, InsideKeeps
<1>5. CASE AnswerText
  <2> DEFINE text == Answered(memory[loop.who], <<>>)
             m == Told(text)
  <2>1. text \in Memories /\ text.calls = <<>> /\ text.last = "text" /\ (text.gap <=> memory[loop.who].gap)
    <3>1. <<>> \in Seq(Kinds)
      OBVIOUS
    <3> QED BY <1>2, <3>1, AnsweredMemory
  <2> HIDE DEF text
  <2>2. m \in Memories /\ m.calls = <<>> /\ m.last = "user" /\ (m.gap <=> memory[loop.who].gap)
    BY <2>1, MemorySteps
  <2>3. memory' = [memory EXCEPT ![loop.who] = m]
    BY <1>2, <1>5 DEF AnswerText, text
  <2> HIDE DEF m
  <2>4. /\ memory' \in [Agents -> Memories] /\ memory'[loop.who] = m
        /\ \A b \in Agents : b # loop.who => memory'[b] = memory[b]
    BY <1>2, <2>2, <2>3
  <2>5. loop' \in Loops /\ loop'.who = loop.who /\ loop'.pc = "ask" /\ loop'.out = loop.out
    BY <1>1, <1>2, <1>3, <1>5 DEF AnswerText, Loops
  <2> QED BY <1>1, <1>3, <2>2, <2>4, <2>5, InsideKeeps
<1> QED BY <1>4, <1>5

\* A call that is handled: a report judged, a tool used.
LEMMA CallKeeps ==
  ASSUME FlowInv, Report \/ UseTool
  PROVE  FlowInv'
<1>1. loop.pc = "calls" /\ loop.i <= Len(Calls)
  BY DEF Report, UseTool, InCalls
<1>2. /\ loop.who \in Agents /\ loop \in Loops /\ memory[loop.who] \in Memories
      /\ memory \in [Agents -> Memories]
      /\ (memory[loop.who].last = "call") <=> (memory[loop.who].calls # <<>>)
  BY <1>1, InLoop
<1>3. /\ UNCHANGED <<fstatus, phase, plan, saved, step, resuming, asker, cut, late, stale>>
      /\ memory' = memory
  BY DEF Report, UseTool, history
<1>4. loop.i + 1 \in 1..(Len(memory[loop.who].calls) + 1) /\ loop.i + 1 \in Nat
  <2>1. Len(memory[loop.who].calls) \in Nat
    BY <1>2 DEF Memories
  <2>2. loop.i \in Nat /\ loop.i <= Len(memory[loop.who].calls)
    BY <1>1, <1>2 DEF Loops, Calls
  <2> QED BY <2>1, <2>2
<1>5. CASE Report
  <2>1. Judged(Calls[loop.i]) \in {"none", "good", "bad"}
    BY <1>5 DEF Report, InCalls, Judged, Validates
  <2>2. Judged(Calls[loop.i]) = "good" /\ phase = "executing" => work = 1
    BY <1>5 DEF Report, InCalls, Judged, Validates, OnStep, FlowInv, FlowTypes
  <2>3. /\ loop' \in Loops /\ loop'.who = loop.who /\ loop'.pc = "calls" /\ loop'.i = loop.i + 1
        /\ loop'.out = Judged(Calls[loop.i])
    BY <1>1, <1>2, <1>4, <1>5, <2>1 DEF Report, Loops
  <2>4. work' = work /\ did' = did /\ work' \in {0, 1} /\ did' \in BOOLEAN
    BY <1>5 DEF Report, FlowInv, FlowTypes
  <2> QED BY <1>1, <1>2, <1>3, <1>4, <2>2, <2>3, <2>4, InsideKeeps
<1>6. CASE UseTool
  <2>1. /\ loop' \in Loops /\ loop'.who = loop.who /\ loop'.pc = "calls" /\ loop'.i = loop.i + 1
        /\ loop'.out = loop.out
    BY <1>1, <1>2, <1>4, <1>6 DEF UseTool, Loops
  <2>2. did' \in BOOLEAN
    BY <1>6, Zenon DEF UseTool, WorkDone, FlowInv, FlowTypes
  <2>3. work' \in {0, 1} /\ (did => did') /\ (work' = 1 => work = 1 \/ did')
    BY <1>6 DEF UseTool, WorkDone, FlowInv, FlowTypes
  <2> QED BY <1>1, <1>2, <1>3, <1>4, <2>1, <2>2, <2>3, InsideKeeps
<1> QED BY <1>5, <1>6

\* The responses to an answer are stored: none of it is open any more.
LEMMA Responds ==
  ASSUME FlowInv, loop.pc = "calls", memory' = [memory EXCEPT ![loop.who] = Responded(@)]
  PROVE  /\ memory' \in [Agents -> Memories]
         /\ memory'[loop.who].last = "tool" /\ memory'[loop.who].calls = <<>>
         /\ memory'[loop.who].gap <=> memory[loop.who].gap
         /\ \A b \in Agents : b # loop.who => memory'[b] = memory[b]
<1>1. /\ loop.who \in Agents /\ memory[loop.who] \in Memories /\ memory \in [Agents -> Memories]
      /\ (memory[loop.who].last = "call") <=> (memory[loop.who].calls # <<>>)
  BY InLoop
<1> DEFINE m == Responded(memory[loop.who])
<1>2. m \in Memories /\ m.last = "tool" /\ m.calls = <<>> /\ (m.gap <=> memory[loop.who].gap)
  BY <1>1, MemorySteps
<1>3. memory' = [memory EXCEPT ![loop.who] = m]
  BY <1>1
<1> HIDE DEF m
<1> QED BY <1>1, <1>2, <1>3

LEMMA NextTurnKeeps ==
  ASSUME FlowInv, NextTurn
  PROVE  FlowInv'
<1>1. /\ memory' \in [Agents -> Memories]
      /\ memory'[loop.who].last = "tool" /\ memory'[loop.who].calls = <<>>
      /\ memory'[loop.who].gap <=> memory[loop.who].gap
      /\ \A b \in Agents : b # loop.who => memory'[b] = memory[b]
  BY Responds DEF NextTurn
<1>2. loop.pc = "calls" /\ loop \in Loops
  BY InLoop DEF NextTurn
<1>3. loop' \in Loops /\ loop'.who = loop.who /\ loop'.pc = "ask" /\ loop'.out = loop.out
  BY <1>2 DEF NextTurn, Loops
<1>4. /\ UNCHANGED <<fstatus, phase, plan, saved, step, resuming, asker, cut, late, stale>>
      /\ work' = work /\ did' = did /\ work' \in {0, 1} /\ did' \in BOOLEAN
  BY DEF NextTurn, history, FlowInv, FlowTypes
<1> QED BY <1>1, <1>2, <1>3, <1>4, InsideKeeps

\* A step that fails.
LEMMA FailedPlan ==
  ASSUME FlowInv, loop.pc # "none", NEW mark \in {"failed", "completed"},
         plan' = [plan EXCEPT ![step] = mark]
  PROVE  /\ plan' \in Seq(Statuses) /\ Len(plan') = Len(plan) /\ Len(plan') <= MaxSteps
         /\ DOMAIN plan' = DOMAIN plan
         /\ phase = "executing" => Settled(plan'[step])
<1>1. plan \in Seq(Statuses) /\ mark \in Statuses
  BY DEF FlowInv, FlowTypes, Statuses
<1>2. plan' \in Seq(Statuses) /\ Len(plan') = Len(plan) /\ DOMAIN plan' = DOMAIN plan
  <2>1. Len(plan) \in Nat /\ plan \in [1..Len(plan) -> Statuses]
    BY <1>1
  <2>2. plan' \in [1..Len(plan) -> Statuses]
    BY <1>1, <2>1
  <2> QED BY <2>1, <2>2
<1>3. phase = "executing" => plan'[step] = mark
  BY DEF FlowInv, StepKnown
<1> QED BY <1>2, <1>3 DEF FlowInv, FlowTypes, Settled

LEMMA UnknownKeeps ==
  ASSUME FlowInv, UnknownTool
  PROVE  FlowInv'
<1>1. loop.pc = "calls" /\ loop.i <= Len(Calls) /\ memory' = memory
  BY DEF UnknownTool, InCalls
<1>2. /\ loop.who \in Agents /\ loop \in Loops /\ memory[loop.who] \in Memories
      /\ fstatus = "running" /\ (phase = "executing" => ~resuming)
      /\ phase \in {"planning", "executing", "updating", "summarizing"}
  BY <1>1, InLoop
<1>3. loop.i + 1 \in 1..(Len(memory[loop.who].calls) + 1) /\ loop.i + 1 \in Nat
  <2>1. Len(memory[loop.who].calls) \in Nat
    BY <1>2 DEF Memories
  <2>2. loop.i \in Nat /\ loop.i <= Len(memory[loop.who].calls)
    BY <1>1, <1>2 DEF Loops, Calls
  <2> QED BY <2>1, <2>2
<1>4. /\ loop' \in Loops /\ loop'.who = loop.who /\ loop'.pc = "calls" /\ loop'.i = loop.i + 1
      /\ loop'.out = loop.out
  BY <1>1, <1>2, <1>3 DEF UnknownTool, Loops
<1>5. /\ UNCHANGED <<fstatus, phase, saved, step, resuming, work, did, asker, cut, late, stale>>
      /\ phase # "executing" => plan' = plan
  BY DEF UnknownTool, history, OnStep
<1>6. plan' \in Seq(Statuses) /\ Len(plan') <= MaxSteps /\ DOMAIN plan' = DOMAIN plan
  <2>1. CASE phase = "executing"
    <3>1. plan' = [plan EXCEPT ![step] = "failed"]
      BY <2>1 DEF UnknownTool, OnStep
    <3> QED BY <1>1, <3>1, FailedPlan
  <2>2. CASE phase # "executing"
    BY <1>5, <2>2 DEF FlowInv, FlowTypes
  <2> QED BY <2>1, <2>2
<1>7. FlowTypes'
  BY <1>1, <1>4, <1>5, <1>6 DEF FlowInv, FlowTypes
<1>8. LoopShape' /\ OpenAnswers' /\ PairingKept'
  BY <1>1, <1>2, <1>3, <1>4, <1>5 DEF FlowInv, LoopShape, OpenAnswers, PairingKept, Calls
<1>9. StepKnown' /\ Waits' /\ Resumes' /\ ReplyReaches' /\ NothingLeftOpen' /\ HonestSuccess'
  BY <1>1, <1>2, <1>4, <1>5, <1>6 DEF FlowInv, StepKnown, Waits, Resumes, ReplyReaches,
     NothingLeftOpen, HonestSuccess, OnStep
<1> QED BY <1>7, <1>8, <1>9 DEF FlowInv

\* The loop is cut: its last answer stays open and the agent is marked.
LEMMA GiveUpKeeps ==
  ASSUME FlowInv, GiveUp
  PROVE  FlowInv'
<1>1. loop.pc = "ask" /\ loop' = Quiet /\ loop'.pc = "none" /\ loop'.out = "none"
  BY LoopSteps DEF GiveUp
<1>2. /\ loop.who \in Agents /\ loop \in Loops /\ memory[loop.who] \in Memories
      /\ memory \in [Agents -> Memories]
      /\ fstatus = "running" /\ (phase = "executing" => ~resuming)
      /\ phase \in {"planning", "executing", "updating", "summarizing"}
  BY <1>1, InLoop
<1>3. /\ UNCHANGED <<fstatus, saved, step, resuming, work, did, asker, late>>
      /\ phase # "executing" => plan' = plan
      /\ phase = "executing" => plan' = [plan EXCEPT ![step] = "failed"]
      /\ phase = "planning" => phase' = (IF plan = <<>> THEN "completed" ELSE "executing")
      /\ phase = "executing" => phase' = "updating"
      /\ phase = "updating" => phase' = "executing"
      /\ phase = "summarizing" => phase' = "completed"
      /\ stale => stale'
      /\ phase \in {"planning", "updating"} => stale'
  BY <1>2 DEF GiveUp, OnStep
<1>4. PICK calls \in Unread :
        /\ memory' = [memory EXCEPT ![loop.who] = Answered(memory[loop.who], calls)]
        /\ cut' = IF calls = <<>> THEN cut ELSE cut \cup {loop.who}
  BY DEF GiveUp
<1>5. calls \in Seq(Kinds)
  <2>1. <<>> \in Seq(Kinds) /\ <<"good">> \in Seq(Kinds) /\ <<"ask">> \in Seq(Kinds)
    BY DEF Kinds
  <2>2. <<"ask", "good">> \in Seq(Kinds)
    BY DEF Kinds
  <2> QED BY <2>1, <2>2 DEF Unread
<1> DEFINE m == Answered(memory[loop.who], calls)
<1>6. m \in Memories /\ m.calls = calls /\ (m.last = "call" <=> calls # <<>>) /\ (m.gap <=> memory[loop.who].gap)
  BY <1>2, <1>5, AnsweredMemory
<1>7. memory' = [memory EXCEPT ![loop.who] = m]
  BY <1>4
<1> HIDE DEF m
<1>8. /\ memory' \in [Agents -> Memories] /\ memory'[loop.who] = m
      /\ \A b \in Agents : b # loop.who => memory'[b] = memory[b]
  BY <1>2, <1>6, <1>7
<1>9. cut' \subseteq Agents /\ cut \subseteq cut' /\ (m.last = "call" => loop.who \in cut')
  BY <1>2, <1>4, <1>6 DEF FlowInv, FlowTypes
<1>10. /\ plan' \in Seq(Statuses) /\ Len(plan') <= MaxSteps /\ DOMAIN plan' = DOMAIN plan
       /\ phase = "executing" => Settled(plan'[step])
  <2>1. CASE phase = "executing"
    BY <1>1, <1>3, <2>1, FailedPlan
  <2>2. CASE phase # "executing"
    BY <1>3, <2>2 DEF FlowInv, FlowTypes
  <2> QED BY <2>1, <2>2
<1>11. stale' \in BOOLEAN /\ phase' \in Phases
  <2>1. stale' \in BOOLEAN
    BY Zenon DEF GiveUp
  <2>2. phase' \in Phases
    BY <1>2, <1>3 DEF Phases
  <2> QED BY <2>1, <2>2
<1>12. FlowTypes'
  BY <1>1, <1>3, <1>8, <1>9, <1>10, <1>11, LoopSteps DEF FlowInv, FlowTypes
<1>13. LoopShape'
  BY <1>1, <1>2, <1>3, <1>6, <1>8 DEF FlowInv, LoopShape
<1>14. OpenAnswers' /\ PairingKept'
  <2>1. ASSUME NEW b \in Agents, memory'[b].last = "call"
        PROVE  b \in cut'
    BY <1>1, <1>2, <1>6, <1>8, <1>9, <2>1 DEF FlowInv, OpenAnswers
  <2>2. OpenAnswers'
    BY <1>2, <1>3, <2>1 DEF OpenAnswers
  <2>3. PairingKept'
    BY <1>3, <1>6, <1>8, <1>9 DEF FlowInv, PairingKept
  <2> QED BY <2>2, <2>3
<1>15. Open(<<>>) = {}
  BY DEF Open
<1>16. StepKnown' /\ Waits'
  BY <1>1, <1>2, <1>3, <1>10 DEF FlowInv, StepKnown, Waits
<1>17. Resumes' /\ ReplyReaches'
  BY <1>1, <1>2, <1>3 DEF FlowInv, StepKnown, Resumes, ReplyReaches
<1>18. NothingLeftOpen' /\ HonestSuccess'
  BY <1>1, <1>2, <1>3, <1>10, <1>15 DEF FlowInv, NothingLeftOpen, HonestSuccess, OnStep
<1> QED BY <1>12, <1>13, <1>14, <1>16, <1>17, <1>18 DEF FlowInv

\* The question is out: what the next run needs is in the session.
LEMMA AskUserKeeps ==
  ASSUME FlowInv, AskUser
  PROVE  FlowInv'
<1>1. /\ loop.pc = "calls" /\ loop.i <= Len(Calls) /\ Calls[loop.i] = "ask" /\ loop.who = "executor"
      /\ phase = "executing"
  BY DEF AskUser, InCalls, OnStep
<1>2. /\ phase' = "off" /\ plan' = <<>> /\ step' = 0 /\ resuming' = FALSE /\ loop' = Quiet
      /\ loop'.pc = "none" /\ loop'.out = "none"
      /\ fstatus' = "waiting" /\ asker' = step
      /\ UNCHANGED <<saved, memory, work, did, cut, stale>>
      /\ (late => late') /\ (Len(Calls) > 1 => late')
  BY LoopSteps DEF AskUser, Over
<1>3. late' \in BOOLEAN
  BY Zenon DEF AskUser
<1>4. <<>> \in Seq(Statuses) /\ Len(<<>>) = 0
  OBVIOUS
<1>5. FlowTypes'
  BY <1>2, <1>3, <1>4, LoopSteps, Bounds DEF FlowInv, FlowTypes, Phases
<1>6. LoopShape' /\ OpenAnswers' /\ PairingKept'
  BY <1>2, <1>3 DEF FlowInv, LoopShape, OpenAnswers, PairingKept
<1>7. StepKnown' /\ Resumes' /\ ReplyReaches' /\ NothingLeftOpen' /\ HonestSuccess'
  BY <1>2 DEF StepKnown, Resumes, ReplyReaches, NothingLeftOpen, HonestSuccess, OnStep
<1>8. Waits'
  <2>1. /\ memory[loop.who] \in Memories /\ loop \in Loops
        /\ (memory[loop.who].last = "call") <=> (memory[loop.who].calls # <<>>)
    BY <1>1, InLoop
  <2>2. Calls = memory["executor"].calls /\ Calls \in Seq(Kinds)
    BY <1>1, <2>1 DEF Calls, Memories
  <2>3. loop.i >= 1 /\ loop.i \in Nat
    BY <1>1, <2>1 DEF FlowInv, LoopShape, Loops
  <2>4. Calls # <<>> /\ (Calls[1] = "ask" \/ Len(Calls) > 1)
    BY <1>1, <2>2, <2>3
  <2>5. asker' = NextStep(saved) \/ stale
    BY <1>1, <1>2 DEF FlowInv, StepKnown
  <2>6. work = 1 => did \/ stale
    BY <1>1 DEF FlowInv, StepKnown
  <2> QED BY <1>1, <1>2, <2>1, <2>2, <2>4, <2>5, <2>6 DEF Waits
<1> QED BY <1>5, <1>6, <1>7, <1>8 DEF FlowInv

\* What an accepted report does, whatever the phase makes of it.
LEMMA SubmittedPlan ==
  ASSUME FlowInv, Submit, phase' \in {"executing", "updating", "completed"}
  PROVE  /\ loop.pc = "calls" /\ loop' = Quiet /\ loop'.pc = "none" /\ loop'.out = "none"
         /\ fstatus = "running" /\ (phase = "executing" => ~resuming)
         /\ UNCHANGED <<fstatus, step, resuming, work, did, asker, cut, late>>
         /\ memory' \in [Agents -> Memories] /\ loop' \in Loops
         /\ LoopShape' /\ OpenAnswers' /\ PairingKept' /\ Waits'
<1>1. loop.pc = "calls" /\ loop' = Quiet /\ loop'.pc = "none" /\ loop'.out = "none" /\ loop' \in Loops
  BY LoopSteps DEF Submit
<1>2. /\ memory' \in [Agents -> Memories]
      /\ memory'[loop.who].last = "tool" /\ memory'[loop.who].calls = <<>>
      /\ memory'[loop.who].gap <=> memory[loop.who].gap
      /\ \A b \in Agents : b # loop.who => memory'[b] = memory[b]
  BY <1>1, Responds DEF Submit
<1>3. /\ UNCHANGED <<fstatus, step, resuming, work, did, asker, cut, late>>
      /\ fstatus = "running" /\ (phase = "executing" => ~resuming) /\ loop.who \in Agents
  BY <1>1, InLoop DEF Submit
<1>4. phase # "off"
  BY <1>1, InLoop
<1>5. LoopShape' /\ PairingKept' /\ Waits'
  BY <1>1, <1>2, <1>3 DEF FlowInv, LoopShape, PairingKept, Waits
<1>6. OpenAnswers'
  BY <1>1, <1>2, <1>3, <1>4 DEF FlowInv, OpenAnswers
<1> QED BY <1>1, <1>2, <1>3, <1>5, <1>6

LEMMA SubmitKeeps ==
  ASSUME FlowInv, PlanCreated \/ PlanUpdated \/ StepReported \/ Delivered
  PROVE  FlowInv'
<1>1. Submit /\ phase' \in {"executing", "updating", "completed"}
  BY DEF PlanCreated, PlanUpdated, StepReported, Delivered, OnStep
<1>2. /\ loop.pc = "calls" /\ loop' = Quiet /\ loop'.pc = "none" /\ loop'.out = "none"
      /\ fstatus = "running" /\ (phase = "executing" => ~resuming)
      /\ UNCHANGED <<fstatus, step, resuming, work, did, asker, cut, late>>
      /\ memory' \in [Agents -> Memories] /\ loop' \in Loops
      /\ LoopShape' /\ OpenAnswers' /\ PairingKept' /\ Waits'
  BY <1>1, SubmittedPlan
<1>3. ASSUME plan' \in Seq(Statuses), Len(plan') <= MaxSteps,
             \/ saved' = plan' /\ stale' = FALSE
             \/ saved' = saved /\ stale' = stale
      PROVE  FlowTypes'
  BY <1>1, <1>2, <1>3 DEF FlowInv, FlowTypes, Phases
<1>4. ASSUME FlowTypes', saved' = plan' \/ phase' # "executing",
             phase' = "executing" => ~resuming,
             phase' = "updating" => ~resuming /\ step \in DOMAIN plan' /\ Settled(plan'[step]),
             phase' = "completed" => Open(plan') = {}
      PROVE  FlowInv'
  <2>1. StepKnown' /\ Resumes' /\ ReplyReaches' /\ NothingLeftOpen' /\ HonestSuccess'
    BY <1>1, <1>2, <1>4 DEF StepKnown, Resumes, ReplyReaches, NothingLeftOpen, HonestSuccess, OnStep
  <2> QED BY <1>2, <1>4, <2>1 DEF FlowInv
<1>5. ASSUME NEW p \in FreshPlans
      PROVE  p \in Seq(Statuses) /\ FirstRunning(p) \in Seq(Statuses) /\ Len(FirstRunning(p)) <= MaxSteps
  <2>1. PICK n \in 0..MaxSteps : p \in [1..n -> {"pending"}]
    BY DEF FreshPlans
  <2>2. n \in Nat /\ n <= MaxSteps
    BY <2>1, Bounds
  <2>3. p \in Seq(Statuses) /\ Len(p) = n
    BY <2>1, <2>2 DEF Statuses
  <2>4. p # <<>> => [p EXCEPT ![1] = "running"] \in Seq(Statuses) /\ Len([p EXCEPT ![1] = "running"]) = n
    BY <2>3 DEF Statuses
  <2> QED BY <2>2, <2>3, <2>4 DEF FirstRunning
<1>6. Open(<<>>) = {}
  BY DEF Open
<1>7. CASE PlanCreated
  <2>1. /\ phase = "planning" /\ saved' = plan' /\ stale' = FALSE
        /\ phase' = (IF plan' = <<>> THEN "completed" ELSE "executing")
    BY <1>7 DEF PlanCreated
  <2>2. plan' \in Seq(Statuses) /\ Len(plan') <= MaxSteps
    BY <1>5, <1>7 DEF PlanCreated
  <2>3. ~resuming
    BY <2>1 DEF FlowInv, StepKnown
  <2> QED BY <1>3, <1>4, <1>6, <2>1, <2>2, <2>3
<1>8. CASE PlanUpdated
  <2>1. phase = "updating" /\ saved' = plan' /\ stale' = FALSE /\ phase' = "executing"
    BY <1>8 DEF PlanUpdated
  <2>2. PICK rest \in FreshPlans : Len(Replanned(plan, rest)) <= MaxSteps /\ plan' = Replanned(plan, rest)
    BY <1>8 DEF PlanUpdated
  <2>3. Replanned(plan, rest) \in Seq(Statuses)
    <3>1. plan \in Seq(Statuses) /\ rest \in Seq(Statuses)
      BY <1>5 DEF FlowInv, FlowTypes
    <3> DEFINE n == IF Open(plan) = {} THEN Len(plan) ELSE NextStep(plan) - 1
    <3>2. n \in 0..Len(plan)
      BY <3>1, NextOpen
    <3> HIDE DEF n
    <3>3. SubSeq(plan, 1, n) \in Seq(Statuses)
      BY <3>1, <3>2
    <3>4. Replanned(plan, rest) = SubSeq(plan, 1, n) \o rest
      BY DEF Replanned, n
    <3> QED BY <3>1, <3>3, <3>4
  <2>4. ~resuming
    BY <2>1 DEF FlowInv, StepKnown
  <2> QED BY <1>3, <1>4, <2>1, <2>2, <2>3, <2>4
<1>9. CASE StepReported
  <2>1. /\ phase = "executing" /\ plan' = [plan EXCEPT ![step] = "completed"]
        /\ \/ saved' = plan' /\ stale' = FALSE /\ phase' = "executing"
           \/ saved' = saved /\ stale' = stale /\ phase' = "updating"
    BY <1>9 DEF StepReported, OnStep
  <2>2. /\ plan' \in Seq(Statuses) /\ Len(plan') <= MaxSteps /\ DOMAIN plan' = DOMAIN plan
        /\ Settled(plan'[step])
    BY <1>2, <2>1, FailedPlan
  <2>3. step \in DOMAIN plan
    BY <1>2, <2>1 DEF FlowInv, StepKnown
  <2> QED BY <1>2, <1>3, <1>4, <2>1, <2>2, <2>3
<1>10. CASE Delivered
  <2>1. phase = "summarizing" /\ phase' = "completed" /\ UNCHANGED <<plan, saved, stale>>
    BY <1>10 DEF Delivered
  <2>2. Open(plan) = {} /\ plan \in Seq(Statuses) /\ Len(plan) <= MaxSteps
    BY <2>1 DEF FlowInv, FlowTypes, NothingLeftOpen
  <2> QED BY <1>3, <1>4, <2>1, <2>2
<1> QED BY <1>7, <1>8, <1>9, <1>10

-----------------------------------------------------------------------------
LEMMA FlowStep == FlowInv /\ [FlowNext]_flowVars => FlowInv'
<1> SUFFICES ASSUME FlowInv, [FlowNext]_flowVars PROVE FlowInv'
  OBVIOUS
<1>1. CASE UNCHANGED flowVars
  BY <1>1 DEF flowVars, FlowInv, FlowTypes, LoopShape, OpenAnswers, StepKnown, Waits, Resumes,
       PairingKept, ReplyReaches, NothingLeftOpen, HonestSuccess, OnStep, Calls
<1>2. CASE FlowNext
  BY <1>2, RunFlowKeeps, EnterKeeps, PhaseKeeps, AnswerKeeps, CallKeeps, NextTurnKeeps,
     UnknownKeeps, GiveUpKeeps, AskUserKeeps, SubmitKeeps DEF FlowNext
<1> QED BY <1>1, <1>2

LEMMA FlowInvariant == FlowSpec => []FlowInv
  BY FlowInitInv, FlowStep, PTL DEF FlowSpec

LEMMA FlowTyped == ASSUME FlowInv PROVE FlowTypeOK
<1>1. loop \in Loops /\ memory \in [Agents -> Memories]
  BY DEF FlowInv, FlowTypes
<1>2. loop.who \in Agents \cup {"none"} /\ loop.iter \in 0..MaxIter
  BY <1>1 DEF Loops
<1>3. \A a \in Agents : /\ memory[a].last \in {"none", "user", "tool", "call", "text"}
                       /\ memory[a].calls \in Seq(Kinds) /\ memory[a].gap \in BOOLEAN
  BY <1>1 DEF Memories
<1>4. \A a \in Agents : (memory[a].last = "call") = (memory[a].calls # <<>>)
  BY DEF FlowInv, LoopShape
<1> QED BY <1>2, <1>3, <1>4 DEF FlowInv, FlowTypes, LoopShape, Phases, FlowTypeOK

\* Every variable of the flow keeps its type.
THEOREM FlowTypesKept == FlowSpec => []FlowTypeOK
<1>1. FlowInv => FlowTypeOK
  BY FlowTyped
<1> QED BY FlowInvariant, <1>1, PTL

\* Every call the model made has a response, wherever a flow stopped: only a loop that was
\* cut, or a question that shared its answer, leaves one without.
THEOREM PairsKept == FlowSpec => []PairingKept
<1>1. FlowInv => PairingKept
  BY DEF FlowInv
<1> QED BY FlowInvariant, <1>1, PTL

\* A reply of the user reaches the step that asked, and the executor's memory ends with it.
THEOREM RepliesReach == FlowSpec => []ReplyReaches
<1>1. FlowInv => ReplyReaches
  BY DEF FlowInv
<1> QED BY FlowInvariant, <1>1, PTL

\* A step is left only settled, the flow is done only when all are, and a success has
\* work behind it.
THEOREM StepsSettled == FlowSpec => [](NothingLeftOpen /\ HonestSuccess)
<1>1. FlowInv => NothingLeftOpen /\ HonestSuccess
  BY DEF FlowInv
<1> QED BY FlowInvariant, <1>1, PTL

-----------------------------------------------------------------------------
(* The single loop.  LoopHonest is inductive once it says what the agent's  *)
(* copy rests on: a run that has changed the plan has told the agent when   *)
(* nothing is left (FinishKnown), and a plan in memory is the stored one.   *)

AtMostOneRuns(p) == \A i, j \in RunningSteps(p) : i = j
Rows == {"none", "started", "completed"}
Flags == [notified : BOOLEAN, finished : BOOLEAN, hint : BOOLEAN]
Turns == [n : 0..MaxTurns, reported : BOOLEAN, output : BOOLEAN]
SingleShape ==
  /\ session \in {"pending", "running", "waiting", "completed"}
  /\ flow \in {"off", "planning", "acting"}
  /\ steps \in Seq(Progress) /\ stored \in Seq(Progress)
  /\ rows \in [DOMAIN steps -> Rows] /\ silent \subseteq DOMAIN steps
LoopFlags ==
  /\ manus \in Flags /\ turn \in Turns /\ replanned \in BOOLEAN /\ undue \in BOOLEAN
OneAtATime == AtMostOneRuns(steps) /\ AtMostOneRuns(stored)
FinishKnown ==
  /\ flow = "planning" => ~replanned
  /\ flow = "acting" /\ replanned /\ PlanFinished(steps) => manus.finished
PlanSame == /\ steps # <<>> => steps = stored
            /\ flow = "acting" \/ session = "waiting" => steps = stored
LoopInv == SingleShape /\ LoopFlags /\ OneAtATime /\ TimelineKept /\ WorkEnds /\ FinishKnown /\ PlanSame

LEMMA LoopHolds == ASSUME LoopInv PROVE LoopTypeOK /\ LoopHonest
<1>1. ASSUME NEW p \in Seq(Progress), AtMostOneRuns(p)
      PROVE  Cardinality(RunningSteps(p)) <= 1
  <2>1. CASE RunningSteps(p) = {}
    BY <2>1, FS_EmptySet
  <2>2. CASE RunningSteps(p) # {}
    <3>1. PICK i \in RunningSteps(p) : RunningSteps(p) = {i}
      BY <1>1, <2>2 DEF AtMostOneRuns
    <3>2. Cardinality({i}) = 1
      BY FS_Singleton
    <3> QED BY <3>1, <3>2
  <2> QED BY <2>1, <2>2
<1>2. OneStepRuns
  BY <1>1 DEF LoopInv, SingleShape, OneAtATime, OneStepRuns
<1>3. PlanResumed
  BY DEF LoopInv, PlanSame, PlanResumed
<1>4. LoopTypeOK
  BY DEF LoopInv, SingleShape, LoopFlags, LoopTypeOK, Rows, Flags, Turns
<1> QED BY <1>2, <1>3, <1>4 DEF LoopHonest, LoopInv

\* The steps before the first open one are done.
LEMMA StepsOfPlan ==
  ASSUME NEW p \in Seq(Progress)
  PROVE  /\ DOMAIN p = 1..Len(p) /\ Len(p) \in Nat /\ Undone(p) \subseteq 1..Len(p)
         /\ Undone(p) # {} => First(Undone(p)) \in Undone(p)
         /\ SettledPart(p) \in 0..Len(p)
         /\ \A i \in 1..SettledPart(p) : StepDone(p[i])
<1>1. DOMAIN p = 1..Len(p) /\ Len(p) \in Nat /\ Undone(p) \subseteq 1..Len(p)
  BY DEF Undone
<1>2. CASE Undone(p) = {}
  BY <1>1, <1>2 DEF SettledPart, Undone
<1>3. CASE Undone(p) # {}
  <2>1. Undone(p) \in SUBSET Nat
    BY <1>1
  <2>2. \E x \in Undone(p) : \A y \in Undone(p) : x <= y
    BY <1>3, <2>1, Least
  <2>3. First(Undone(p)) \in Undone(p) /\ \A y \in Undone(p) : First(Undone(p)) <= y
    BY <2>2 DEF First
  <2>4. PICK x \in Undone(p) : x = First(Undone(p)) /\ \A y \in Undone(p) : x <= y
    BY <2>3
  <2>5. SettledPart(p) = x - 1 /\ x \in 1..Len(p)
    BY <1>1, <1>3, <2>4 DEF SettledPart
  <2>6. \A i \in 1..(x - 1) : i \in DOMAIN p /\ i \notin Undone(p)
    BY <1>1, <2>4, <2>5
  <2>7. \A i \in 1..(x - 1) : StepDone(p[i])
    BY <2>6 DEF Undone
  <2> QED BY <1>1, <2>3, <2>5, <2>7
<1> QED BY <1>1, <1>2, <1>3

LEMMA SeqIsFcn ==
  ASSUME NEW S, NEW q \in Seq(S)
  PROVE  q \in [DOMAIN q -> S]
<1>1. q \in [1..Len(q) -> S]
  OBVIOUS
<1>2. DOMAIN q = 1..Len(q)
  OBVIOUS
<1> QED BY <1>1, <1>2

LEMMA PlanFunctions ==
  ASSUME NEW p, NEW n \in Nat, p \in [1..n -> Progress]
  PROVE  p \in Seq(Progress) /\ DOMAIN p = 1..n /\ Len(p) = n
  BY FcnIsSeq

\* A plan of pending steps with its first one started.
NewPlan(p) == /\ p \in Seq(Progress) /\ AtMostOneRuns(p)
              /\ \A i \in DOMAIN p : p[i] # "completed"
LEMMA FreshPlan ==
  ASSUME NEW n \in Nat
  PROVE  NewPlan(FirstStepRunning(FreshRest(n)))
<1> DEFINE p == FreshRest(n)
<1> SUFFICES NewPlan(FirstStepRunning(p))
  OBVIOUS
<1>1. p \in [1..n -> Progress] /\ \A i \in 1..n : p[i] = "pending"
  BY DEF FreshRest, Progress
<1>2. p \in Seq(Progress) /\ DOMAIN p = 1..n
  BY <1>1, PlanFunctions
<1> HIDE DEF p
<1>3. CASE Undone(p) = {}
  BY <1>1, <1>2, <1>3 DEF FirstStepRunning, NewPlan, AtMostOneRuns, RunningSteps
<1>4. CASE Undone(p) # {}
  <2> DEFINE k == First(Undone(p))
             q == [p EXCEPT ![k] = "running"]
  <2>1. k \in 1..n
    BY <1>2, <1>4, StepsOfPlan
  <2> HIDE DEF k
  <2>2. q \in [1..n -> Progress] /\ \A i \in 1..n : q[i] = IF i = k THEN "running" ELSE "pending"
    BY <1>1, <2>1 DEF Progress
  <2>3. q \in Seq(Progress) /\ DOMAIN q = 1..n
    BY <2>2, PlanFunctions
  <2>4. FirstStepRunning(p) = q
    BY <1>4 DEF FirstStepRunning, k
  <2> HIDE DEF q
  <2> QED BY <2>2, <2>3, <2>4 DEF NewPlan, AtMostOneRuns, RunningSteps
<1> QED BY <1>3, <1>4

LEMMA FreshFlags ==
  /\ NewAgent \in Flags /\ ~NewAgent.finished /\ ~NewAgent.hint
  /\ \A b \in BOOLEAN : LET a == [NewAgent EXCEPT !.notified = b]
                        IN  a \in Flags /\ ~a.finished /\ ~a.hint
  /\ \A n \in 0..MaxTurns : NewTurn(n) \in Turns
<1>1. TRUE \in BOOLEAN /\ FALSE \in BOOLEAN
  OBVIOUS
<1>2. NewAgent \in Flags /\ ~NewAgent.finished /\ ~NewAgent.hint
  BY <1>1 DEF NewAgent, Flags
<1>3. \A n \in 0..MaxTurns : NewTurn(n) \in Turns
  BY <1>1 DEF NewTurn, Turns
<1>4. ASSUME NEW m \in Flags, ~m.finished, ~m.hint, NEW b \in BOOLEAN
      PROVE  [m EXCEPT !.notified = b] \in Flags /\ ~[m EXCEPT !.notified = b].finished
             /\ ~[m EXCEPT !.notified = b].hint
  BY <1>4 DEF Flags
<1> QED BY <1>2, <1>3, <1>4

LEMMA LoopInitInv == LoopInit => LoopInv
<1> SUFFICES ASSUME LoopInit PROVE LoopInv
  OBVIOUS
<1>1. SingleShape
  BY DEF LoopInit, SingleShape
<1>2. LoopFlags
  <2>1. 0 \in 0..MaxTurns
    BY LoopAssumption
  <2> QED BY <2>1, FreshFlags DEF LoopInit, LoopFlags
<1>3. OneAtATime /\ TimelineKept /\ WorkEnds /\ FinishKnown /\ PlanSame
  BY DEF LoopInit, OneAtATime, AtMostOneRuns, RunningSteps, TimelineKept, WorkEnds, FinishKnown,
         PlanSame, NewAgent
<1> QED BY <1>1, <1>2, <1>3 DEF LoopInv

\* Steps that leave the plan alone.
LEMMA PlanRests ==
  ASSUME LoopInv, UNCHANGED <<steps, stored, rows, silent>>, session' \in {"running", "waiting", "completed"},
         flow' \in {"off", "planning", "acting"},
         flow' = "acting" \/ session' = "waiting" => steps = stored
  PROVE  SingleShape' /\ OneAtATime' /\ TimelineKept' /\ PlanSame'
<1>1. SingleShape' /\ PlanSame'
  BY DEF LoopInv, SingleShape, PlanSame
<1> QED BY <1>1 DEF LoopInv, OneAtATime, TimelineKept

LEMMA LoopBegins == ASSUME LoopInv, StartLoop \/ MakePlan \/ NoPlanMade PROVE LoopInv'
<1>1. CASE StartLoop
  <2>1. turn' = NewTurn(1) /\ replanned' = FALSE /\ undue' = undue /\ stored' = stored
    BY <1>1 DEF StartLoop
  <2>2. manus' \in Flags /\ ~manus'.finished /\ ~manus'.hint
    <3>1. \/ manus' = NewAgent
          \/ \E b \in BOOLEAN : manus' = [NewAgent EXCEPT !.notified = b]
      BY <1>1 DEF StartLoop, LoopInv, LoopFlags, Flags
    <3> QED BY <3>1, FreshFlags
  <2>3. LoopFlags' /\ WorkEnds' /\ FinishKnown'
    <3>1. turn' \in Turns
      BY <2>1, LoopAssumption, FreshFlags
    <3> QED BY <2>1, <2>2, <3>1 DEF LoopFlags, LoopInv, WorkEnds, FinishKnown
  <2>4. CASE session = "waiting"
    <3>1. steps' = steps /\ UNCHANGED <<rows, silent>> /\ flow' = "acting" /\ session' = "running" /\ steps = stored
      BY <1>1, <2>4 DEF StartLoop, LoopInv, PlanSame
    <3>2. SingleShape' /\ OneAtATime' /\ TimelineKept' /\ PlanSame'
      BY <2>1, <3>1, PlanRests
    <3> QED BY <2>3, <3>2 DEF LoopInv
  <2>5. CASE session # "waiting" /\ UNCHANGED <<steps, rows, silent>>
    <3>1. flow' = "planning" /\ session' = "running"
      BY <1>1, <2>5 DEF StartLoop
    <3>2. SingleShape' /\ OneAtATime' /\ TimelineKept' /\ PlanSame'
      BY <2>1, <2>5, <3>1, PlanRests
    <3> QED BY <2>3, <3>2 DEF LoopInv
  <2>6. CASE session # "waiting" /\ steps' = <<>> /\ rows' = <<>> /\ silent' = {}
    <3>1. flow' = "planning" /\ session' = "running"
      BY <1>1, <2>6 DEF StartLoop
    <3>2. SingleShape' /\ TimelineKept' /\ PlanSame'
      BY <2>1, <2>6, <3>1 DEF LoopInv, SingleShape, TimelineKept, PlanSame
    <3>3. OneAtATime'
      BY <2>1, <2>6 DEF LoopInv, OneAtATime, AtMostOneRuns, RunningSteps
    <3> QED BY <2>3, <3>2, <3>3 DEF LoopInv
  <2> QED BY <1>1, <2>4, <2>5, <2>6 DEF StartLoop
<1>2. CASE MakePlan
  <2>1. PICK n \in 0..MaxPlan : steps' = FirstStepRunning(FreshRest(n))
    BY <1>2 DEF MakePlan
  <2>2. NewPlan(steps')
    BY <2>1, LoopAssumption, FreshPlan
  <2>3. /\ stored' = steps' /\ silent' = {} /\ UNCHANGED <<manus, turn, replanned, undue>> /\ ~replanned
        /\ session' \in {"pending", "running", "waiting", "completed"} /\ flow' \in {"off", "acting"}
        /\ rows' = [i \in DOMAIN steps' |-> IF steps'[i] = "running" THEN "started" ELSE "none"]
    BY <1>2 DEF MakePlan, EndFlow, LoopInv, SingleShape, FinishKnown
  <2>4. SingleShape' /\ PlanSame'
    BY <2>2, <2>3 DEF NewPlan, SingleShape, PlanSame, Rows
  <2>5. LoopFlags' /\ WorkEnds' /\ FinishKnown'
    BY <2>3 DEF LoopInv, LoopFlags, WorkEnds, FinishKnown
  <2>6. OneAtATime' /\ TimelineKept'
    BY <2>2, <2>3 DEF NewPlan, OneAtATime, TimelineKept
  <2> QED BY <2>4, <2>5, <2>6 DEF LoopInv
<1>3. CASE NoPlanMade
  <2>1. /\ UNCHANGED <<steps, stored, rows, manus, turn, replanned, undue, silent>> /\ ~replanned
        /\ flow' = "off" \/ (flow' = "acting" /\ steps # <<>> /\ session' = session)
        /\ session' = "completed" \/ (flow' = "acting" /\ session' = session)
    BY <1>3 DEF NoPlanMade, EndFlow, LoopInv, FinishKnown
  <2>2. SingleShape' /\ PlanSame'
    BY <2>1 DEF LoopInv, SingleShape, PlanSame
  <2>3. LoopFlags' /\ WorkEnds' /\ FinishKnown' /\ OneAtATime' /\ TimelineKept'
    BY <2>1 DEF LoopInv, LoopFlags, WorkEnds, FinishKnown, OneAtATime, TimelineKept
  <2> QED BY <2>2, <2>3 DEF LoopInv
<1> QED BY <1>1, <1>2, <1>3

LEMMA CallsRest ==
  ASSUME LoopInv, NotifyUser \/ AskAndWait \/ Work \/ ReportRefused \/ Submitted \/ AskModel
  PROVE  LoopInv'
<1>1. UNCHANGED <<steps, stored, rows, silent, replanned>> /\ flow = "acting" /\ steps = stored
  BY DEF NotifyUser, AskAndWait, Work, ReportRefused, Submitted, AskModel, Acting, PlanAlone, LoopInv, PlanSame
<1>2. \/ flow' = "acting" /\ session' = session
      \/ flow' = "off" /\ session' = "waiting"
  BY DEF NotifyUser, AskAndWait, Work, ReportRefused, Submitted, AskModel, Acting, PlanAlone
<1>3. SingleShape' /\ PlanSame' /\ OneAtATime' /\ TimelineKept'
  BY <1>1, <1>2 DEF LoopInv, SingleShape, PlanSame, OneAtATime, TimelineKept
<1>4. CASE NotifyUser \/ AskAndWait
  <2>1. /\ manus' \in Flags
        /\ manus'.finished = manus.finished /\ manus'.hint = manus.hint /\ UNCHANGED <<turn, undue>>
    BY <1>4 DEF NotifyUser, AskAndWait, LoopInv, LoopFlags, Flags
  <2> QED BY <1>1, <1>2, <1>3, <2>1 DEF LoopInv, LoopFlags, WorkEnds, FinishKnown
<1>5. CASE Work
  <2>1. ~undue' /\ undue' \in BOOLEAN /\ UNCHANGED <<manus, turn>> /\ flow' = "acting"
    BY <1>5 DEF Work, LoopInv, WorkEnds, FinishKnown, Acting
  <2> QED BY <1>1, <1>3, <2>1 DEF LoopInv, LoopFlags, WorkEnds, FinishKnown
<1>6. CASE ReportRefused \/ Submitted
  <2>1. turn' \in Turns /\ UNCHANGED <<manus, undue>>
    BY <1>6 DEF ReportRefused, Submitted, LoopInv, LoopFlags, Turns
  <2> QED BY <1>1, <1>2, <1>3, <2>1 DEF LoopInv, LoopFlags, WorkEnds, FinishKnown
<1>7. CASE AskModel
  <2>1. turn' \in Turns /\ UNCHANGED undue
    BY <1>7, LoopAssumption DEF AskModel, LoopInv, LoopFlags, NewTurn, Turns
  <2>2. manus' = [manus EXCEPT !.hint = @ /\ ~turn.reported]
    BY <1>7 DEF AskModel
  <2>3. manus' \in Flags /\ manus'.finished = manus.finished
    BY <2>2 DEF LoopInv, LoopFlags, Flags
  <2>4. manus'.hint => manus.hint
    BY <2>2 DEF LoopInv, LoopFlags, Flags
  <2> QED BY <1>1, <1>2, <1>3, <2>1, <2>3, <2>4 DEF LoopInv, LoopFlags, WorkEnds, FinishKnown
<1> QED BY <1>4, <1>5, <1>6, <1>7

LEMMA ReportKeeps == ASSUME LoopInv, ReportPlan PROVE LoopInv'
<1>1. PICK update \in Reports(steps) : \E keep \in Preferred(Updated(steps, update), update) :
        steps' = OneRunning(Updated(steps, update), keep)
  BY DEF ReportPlan
<1>2. PICK keep : steps' = OneRunning(Updated(steps, update), keep)
  BY <1>1
<1>3. /\ stored' = steps' /\ replanned' = TRUE /\ UNCHANGED <<undue, silent, session, flow>> /\ flow = "acting"
      /\ rows' = StepRows(steps, steps') /\ turn' = [turn EXCEPT !.reported = TRUE]
      /\ manus' = IF PlanFinished(steps') THEN [manus EXCEPT !.finished = TRUE, !.hint = TRUE] ELSE manus
  BY DEF ReportPlan, Acting
<1>4. steps \in [1..Len(steps) -> Progress] /\ Len(steps) \in Nat /\ DOMAIN steps = 1..Len(steps)
  BY DEF LoopInv, SingleShape
<1>5. PICK known \in SUBSET DOMAIN steps : update \in [known -> Progress]
  BY DEF Reports
<1>6. Updated(steps, update) \in [1..Len(steps) -> Progress]
  BY <1>4, <1>5 DEF Updated
<1>7. PICK now : now = Updated(steps, update)
  OBVIOUS
<1>8. now \in [1..Len(steps) -> Progress] /\ DOMAIN now = 1..Len(steps)
  BY <1>6, <1>7
<1>9. /\ steps' \in [1..Len(steps) -> Progress]
      /\ \A i \in 1..Len(steps) : steps'[i] = "running" => i = keep
  BY <1>2, <1>7, <1>8 DEF OneRunning, Progress
<1>10. steps' \in Seq(Progress) /\ DOMAIN steps' = DOMAIN steps
  BY <1>4, <1>9, PlanFunctions
<1>11. AtMostOneRuns(steps')
  BY <1>4, <1>9, <1>10 DEF AtMostOneRuns, RunningSteps
<1>12. /\ rows' \in [DOMAIN steps -> Rows]
       /\ \A i \in DOMAIN steps : steps'[i] = "completed" /\ steps[i] # "completed" => rows'[i] = "completed"
       /\ \A i \in DOMAIN steps : steps'[i] = "completed" /\ steps[i] = "completed" => rows'[i] = rows[i]
  BY <1>3, <1>10 DEF StepRows, Rows, LoopInv, SingleShape
<1>13. SingleShape' /\ PlanSame' /\ OneAtATime'
  BY <1>3, <1>10, <1>11, <1>12 DEF LoopInv, SingleShape, PlanSame, OneAtATime
<1>14. TimelineKept'
  BY <1>3, <1>10, <1>12 DEF LoopInv, TimelineKept
<1>15. turn' \in Turns
  BY <1>3 DEF LoopInv, LoopFlags, Turns
<1>16. /\ manus' \in Flags
       /\ PlanFinished(steps') => manus'.finished
       /\ manus'.hint => manus'.finished
  BY <1>3 DEF LoopInv, LoopFlags, WorkEnds, Flags
<1>17. LoopFlags' /\ WorkEnds' /\ FinishKnown'
  BY <1>3, <1>15, <1>16 DEF LoopInv, LoopFlags, WorkEnds, FinishKnown
<1> QED BY <1>13, <1>14, <1>17 DEF LoopInv

\* What is settled stays, a new rest follows.
Renewed(q, S, p, k, n, x) ==
  /\ q \in Seq(S) /\ DOMAIN q = 1..(k + n)
  /\ \A i \in 1..k : q[i] = p[i]
  /\ \A i \in (k + 1)..(k + n) : q[i] = x
LEMMA RestReplaced ==
  ASSUME NEW S, NEW p \in Seq(S), NEW k \in 0..Len(p), NEW n \in Nat, NEW x \in S
  PROVE  Renewed(SubSeq(p, 1, k) \o [i \in 1..n |-> x], S, p, k, n, x)
<1> DEFINE rest == [i \in 1..n |-> x]
           head == SubSeq(p, 1, k)
<1>1. rest \in Seq(S) /\ Len(rest) = n
  BY FcnIsSeq
<1>2. head \in Seq(S) /\ Len(head) = k /\ \A i \in 1..k : head[i] = p[i]
  OBVIOUS
<1>3. \A i \in 1..n : rest[i] = x
  OBVIOUS
<1> HIDE DEF rest, head
<1>4. /\ head \o rest \in Seq(S) /\ Len(head \o rest) = k + n
      /\ \A i \in 1..(k + n) : (head \o rest)[i] = IF i <= k THEN head[i] ELSE rest[i - k]
  <2>1. head \o rest \in Seq(S)
    BY <1>1, <1>2
  <2>2. Len(head \o rest) = k + n
    BY <1>1, <1>2
  <2>3. \A i \in 1..(Len(head) + Len(rest)) :
          (head \o rest)[i] = IF i <= Len(head) THEN head[i] ELSE rest[i - Len(head)]
    BY <1>1, <1>2
  <2> QED BY <1>1, <1>2, <2>1, <2>2, <2>3
<1>5. \A i \in (k + 1)..(k + n) : i - k \in 1..n /\ ~(i <= k)
  OBVIOUS
<1>6. \A i \in 1..k : i \in 1..(k + n) /\ i <= k
  OBVIOUS
<1>7. DOMAIN (head \o rest) = 1..(k + n)
  BY <1>4
<1> QED BY <1>2, <1>3, <1>4, <1>5, <1>6, <1>7 DEF rest, head, Renewed

LEMMA ReplanKeeps == ASSUME LoopInv, Replan PROVE LoopInv'
<1>1. PICK k : k = SettledPart(steps)
  OBVIOUS
<1>2. PICK n \in 0..(MaxPlan - k) :
        /\ steps' = SubSeq(steps, 1, k) \o FreshRest(n)
        /\ rows' = SubSeq(rows, 1, k) \o [i \in 1..n |-> "none"]
        /\ manus' = [manus EXCEPT !.finished = PlanFinished(steps'), !.hint = PlanFinished(steps')]
  BY <1>1 DEF Replan
<1>3. /\ stored' = steps' /\ replanned' = TRUE /\ UNCHANGED <<turn, undue, session, flow>> /\ flow = "acting"
      /\ silent' = silent \cap (1..k)
  BY <1>1 DEF Replan, Acting
<1>4. /\ steps \in Seq(Progress) /\ DOMAIN steps = 1..Len(steps) /\ Len(steps) \in Nat
      /\ rows \in [1..Len(steps) -> Rows] /\ silent \subseteq 1..Len(steps)
  BY DEF LoopInv, SingleShape
<1>5. /\ k \in 0..Len(steps)
      /\ \A i \in 1..k : StepDone(steps[i])
  BY <1>1, <1>4, StepsOfPlan
<1>6. n \in Nat
  BY <1>2, <1>4, <1>5, LoopAssumption
<1>7. Renewed(steps', Progress, steps, k, n, "pending")
  BY <1>2, <1>4, <1>5, <1>6, RestReplaced DEF FreshRest, Progress
<1>8. Renewed(rows', Rows, rows, k, n, "none")
  <2>1. rows \in Seq(Rows) /\ Len(rows) = Len(steps)
    BY <1>4, FcnIsSeq
  <2> QED BY <1>2, <1>5, <1>6, <2>1, RestReplaced DEF Rows
<1>9. /\ \A i \in DOMAIN steps' : i \in 1..k \/ steps'[i] = "pending"
      /\ \A i \in 1..k : i \in DOMAIN steps /\ steps'[i] = steps[i] /\ rows'[i] = rows[i]
  BY <1>4, <1>5, <1>6, <1>7, <1>8 DEF Renewed
<1>10. AtMostOneRuns(steps')
  BY <1>5, <1>9 DEF AtMostOneRuns, RunningSteps, StepDone
<1>11. SingleShape'
  <2>1. DOMAIN steps' = 1..(k + n) /\ 1..k \subseteq 1..(k + n) /\ steps' \in Seq(Progress)
    BY <1>5, <1>6, <1>7 DEF Renewed
  <2>2. rows' \in [DOMAIN steps' -> Rows]
    <3>1. rows' \in Seq(Rows) /\ DOMAIN rows' = 1..(k + n)
      BY <1>8 DEF Renewed
    <3>2. rows' \in [DOMAIN rows' -> Rows]
      BY <3>1, SeqIsFcn
    <3> QED BY <2>1, <3>1, <3>2
  <2>3. silent' \subseteq DOMAIN steps'
    BY <1>3, <2>1
  <2> QED BY <1>3, <2>1, <2>2, <2>3 DEF LoopInv, SingleShape
<1>12. PlanSame' /\ OneAtATime'
  BY <1>3, <1>10 DEF PlanSame, OneAtATime
<1>13. TimelineKept'
  <2> SUFFICES ASSUME NEW i \in DOMAIN steps', steps'[i] = "completed"
               PROVE  rows'[i] = "completed" \/ i \in silent'
    BY DEF TimelineKept
  <2>1. i \in 1..k
    BY <1>9
  <2> QED BY <1>3, <1>9, <2>1 DEF LoopInv, TimelineKept
<1>14. manus' \in Flags
  <2>1. PlanFinished(steps') \in BOOLEAN
    BY DEF PlanFinished
  <2> QED BY <1>2, <2>1 DEF LoopInv, LoopFlags, Flags
<1>15. (PlanFinished(steps') => manus'.finished) /\ (manus'.hint => manus'.finished)
  BY <1>2 DEF LoopInv, LoopFlags, Flags
<1>16. LoopFlags' /\ WorkEnds' /\ FinishKnown'
  BY <1>3, <1>14, <1>15 DEF LoopInv, LoopFlags, WorkEnds, FinishKnown
<1> QED BY <1>11, <1>12, <1>13, <1>16 DEF LoopInv

LEMMA EndKeeps == ASSUME LoopInv, EndLoop PROVE LoopInv'
<1>1. /\ flow' = "off" /\ session' = "completed" /\ stored' = steps'
      /\ steps' = Closed(steps) /\ rows' = ClosedRows(steps)
      /\ silent' = silent \cup (Undone(steps) \ RunningSteps(steps))
      /\ UNCHANGED <<manus, turn, replanned, undue>>
  BY DEF EndLoop, EndFlow
<1>2. /\ steps \in [1..Len(steps) -> Progress] /\ Len(steps) \in Nat /\ DOMAIN steps = 1..Len(steps)
      /\ rows \in [1..Len(steps) -> Rows]
  BY DEF LoopInv, SingleShape
<1>3. steps' \in [1..Len(steps) -> Progress]
  BY <1>1, <1>2 DEF Closed, Progress
<1>4. steps' \in Seq(Progress) /\ DOMAIN steps' = DOMAIN steps
  BY <1>2, <1>3, PlanFunctions
<1>5. \A i \in DOMAIN steps : StepDone(steps'[i])
  BY <1>1, <1>2 DEF Closed, StepDone
<1>6. SingleShape' /\ PlanSame'
  BY <1>1, <1>2, <1>4 DEF LoopInv, SingleShape, PlanSame, ClosedRows, Rows, Undone
<1>7. OneAtATime'
  BY <1>1, <1>4, <1>5 DEF OneAtATime, AtMostOneRuns, RunningSteps, StepDone
<1>8. TimelineKept'
  <2> SUFFICES ASSUME NEW i \in DOMAIN steps, steps'[i] = "completed"
               PROVE  rows'[i] = "completed" \/ i \in silent'
    BY <1>4 DEF TimelineKept
  <2>1. CASE steps[i] = "running"
    BY <1>1, <2>1 DEF ClosedRows
  <2>2. CASE steps[i] = "completed"
    BY <1>1, <2>2 DEF ClosedRows, LoopInv, TimelineKept
  <2>3. CASE steps[i] = "pending"
    BY <1>1, <2>3 DEF Undone, RunningSteps, StepDone
  <2>4. CASE steps[i] = "failed"
    BY <1>1, <1>2, <2>4 DEF Closed, StepDone
  <2> QED BY <1>2, <2>1, <2>2, <2>3, <2>4 DEF Progress
<1>9. LoopFlags' /\ WorkEnds' /\ FinishKnown'
  BY <1>1 DEF LoopInv, LoopFlags, WorkEnds, FinishKnown
<1> QED BY <1>6, <1>7, <1>8, <1>9 DEF LoopInv

LEMMA LoopStep == LoopInv /\ [LoopNext]_loopVars => LoopInv'
<1> SUFFICES ASSUME LoopInv, [LoopNext]_loopVars PROVE LoopInv'
  OBVIOUS
<1>1. CASE StopLoop
  <2>1. /\ flow' = "off" /\ session' \in {"completed", "running"} /\ steps' = <<>> /\ rows' = <<>>
        /\ silent' = {} /\ manus' = NewAgent /\ UNCHANGED <<stored, turn, replanned, undue>>
    BY <1>1 DEF StopLoop
  <2>2. SingleShape' /\ PlanSame' /\ TimelineKept'
    BY <2>1 DEF LoopInv, SingleShape, PlanSame, TimelineKept
  <2>3. OneAtATime'
    BY <2>1 DEF LoopInv, OneAtATime, AtMostOneRuns, RunningSteps
  <2>4. LoopFlags' /\ WorkEnds' /\ FinishKnown'
    BY <2>1, FreshFlags DEF LoopInv, LoopFlags, WorkEnds, FinishKnown
  <2> QED BY <2>2, <2>3, <2>4 DEF LoopInv
<1>2. CASE UNCHANGED loopVars
  BY <1>2 DEF loopVars, LoopInv, SingleShape, LoopFlags, OneAtATime, TimelineKept, WorkEnds, FinishKnown, PlanSame
<1> QED BY <1>1, <1>2, LoopBegins, CallsRest, ReportKeeps, ReplanKeeps, EndKeeps DEF LoopNext

-----------------------------------------------------------------------------
(* Skills.  While nothing has changed since the runner listed the skills,   *)
(* each one that is no longer in its list lies in the sandbox, where no     *)
(* deletion of it still runs, or is one of those that are excused (Copied); *)
(* a directory of another skill is on the list of the sweep, until it is    *)
(* deleted or its deletion runs on; and of the first looks that nothing     *)
(* disturbed one is at work at most, and knows what it has done (Seeded).   *)

Packages == Ids \cup {"none", "part"}
SkillAsks == [pc : {"free", "seed", "subscribe", "imported"}, todo : SUBSET Official, id : Personal \cup {"none"}]
Syncs == [pc : {"idle", "skills", "write", "sweep", "resolve", "used"}, names : SUBSET Names, left : SUBSET Ids,
          cur : Ids \cup {"none"}, doomed : SUBSET Names, used : Ids \cup {"none"}]
SeedTypes ==
  /\ docs \in Seq(Personal) /\ nameOf \in [Personal -> Names] /\ subs \in [Ids -> {"none", "on", "off"}]
  /\ req \in [Requests -> SkillAsks]
  /\ \A h \in Requests : req[h].pc \in {"subscribe", "imported"} => req[h].id \in Personal
  /\ IsFiniteSet(Enabled)
SyncTypes ==
  /\ sync \in Syncs /\ (sync.pc = "write" => sync.cur \in Ids) /\ failed \subseteq Names /\ lagged \subseteq Names
  /\ removing \subseteq Names
  /\ tree \in [Names -> Packages] /\ changed \in BOOLEAN /\ swept \in BOOLEAN

OneDefault == \E i \in DOMAIN docs : Defaults = {i}
Seeded ==
  marred = {} =>
    /\ \A g, h \in Seeding : g = h
    /\ Seeding = {} => IF Subscriptions = {} THEN Defaults = {} ELSE Official \subseteq Subscriptions /\ OneDefault
    /\ \A h \in Seeding : IF req[h].pc = "seed"
                          THEN Official \ req[h].todo \subseteq Subscriptions /\ Defaults = {}
                          ELSE Official \subseteq Subscriptions /\ OneDefault

\* The package of x is in its place, and stays there.
Excused(x) == Name(x) \in failed \cup lagged \/ \E y \in Enabled : y # x /\ Name(y) = Name(x)
InPlace(x) == Excused(x) \/ (tree[Name(x)] = x /\ Name(x) \notin removing)
UnderWay == sync.pc \in {"skills", "write"}
Ready == Name(sync.cur) \in removing => Name(sync.cur) \in lagged
SweptTo(S) == \A n \in Names : tree[n] # "none" => n \in S \cup lagged
Copied ==
  ~changed /\ sync.pc # "idle" =>
    /\ sync.names = {Name(x) : x \in Enabled}
    /\ UnderWay => sync.left \subseteq Enabled
    /\ sync.pc = "write" => sync.cur \in Enabled /\ Ready
    /\ \A x \in Enabled : InPlace(x) \/ (UnderWay /\ x \in sync.left) \/ (sync.pc = "write" /\ x = sync.cur)
    /\ sync.pc = "sweep" => sync.names \cap sync.doomed = {} /\ (swept => SweptTo(sync.names \cup sync.doomed))
    /\ sync.pc \in {"resolve", "used"} /\ swept => SweptTo(sync.names)
    /\ sync.pc = "used" => sync.used = "none" \/ sync.used \in Enabled
SkillsInv == SeedTypes /\ SyncTypes /\ Seeded /\ Copied

LEMMA SkillsInitInv == SkillsInit => SkillsInv
<1> SUFFICES ASSUME SkillsInit PROVE SkillsInv
  OBVIOUS
<1>1. Enabled = {} /\ Subscriptions = {} /\ Seeding = {} /\ Defaults = {}
  BY DEF SkillsInit, Enabled, Subscriptions, Seeding, Defaults, NoReq
<1>2. SeedTypes
  BY <1>1, FS_EmptySet DEF SkillsInit, SeedTypes, NoReq, SkillAsks, Names
<1>3. SyncTypes
  BY DEF SkillsInit, SyncTypes, Syncs, Packages
<1> QED BY <1>1, <1>2, <1>3 DEF SkillsInit, SkillsInv, Seeded, Copied

\* What the copying needs of a name.
LEMMA NameTyped == ASSUME SeedTypes PROVE \A x \in Ids : Name(x) \in Names
  BY DEF SeedTypes, Name, Names, Ids

-----------------------------------------------------------------------------
(* The seeding.                                                             *)

\* A step that changes what the runner has listed says so.
LEMMA ListedStale ==
  ASSUME SyncTypes, changed', UNCHANGED syncVars
  PROVE  SyncTypes' /\ Copied'
  BY DEF SyncTypes, Copied, syncVars

LEMMA ListedSame ==
  ASSUME SyncTypes, Copied, UNCHANGED <<docs, nameOf, subs, syncVars, changed>>
  PROVE  SyncTypes' /\ Copied'
  BY DEF SyncTypes, Copied, UnderWay, Ready, SweptTo, InPlace, Excused, Enabled, Name, syncVars

\* A request moves from one place to another.
LEMMA RequestMoves ==
  ASSUME SeedTypes, NEW h \in Requests, NEW r \in SkillAsks, req' = [req EXCEPT ![h] = r],
         r.pc \in {"subscribe", "imported"} => r.id \in Personal
  PROVE  /\ req' \in [Requests -> SkillAsks] /\ req'[h] = r
         /\ \A g \in Requests : g # h => req'[g] = req[g]
         /\ \A g \in Requests : req'[g].pc \in {"subscribe", "imported"} => req'[g].id \in Personal
         /\ Seeding' = IF r.pc \in {"seed", "subscribe"} THEN Seeding \cup {h} ELSE Seeding \ {h}
<1>1. /\ req' \in [Requests -> SkillAsks] /\ req'[h] = r
      /\ \A g \in Requests : g # h => req'[g] = req[g]
  BY DEF SeedTypes
<1>2. \A g \in Requests : req'[g].pc \in {"subscribe", "imported"} => req'[g].id \in Personal
  BY <1>1 DEF SeedTypes
<1> QED BY <1>1, <1>2 DEF Seeding

LEMMA FreeTyped == NoReq \in SkillAsks /\ NoReq.pc = "free"
  BY DEF NoReq, SkillAsks

LEMMA BeginSeedKeeps ==
  ASSUME SkillsInv, NEW h \in Requests, BeginSeed(h)
  PROVE  SkillsInv'
<1>1. PICK r : r = [NoReq EXCEPT !.pc = "seed", !.todo = Official]
  OBVIOUS
<1>2. r \in SkillAsks /\ r.pc = "seed" /\ r.todo = Official
  BY <1>1 DEF SkillAsks, NoReq
<1>3. /\ req' = [req EXCEPT ![h] = r] /\ Subscriptions = {} /\ marred' = IF Seeding = {} THEN marred ELSE marred \cup {"raced"}
      /\ UNCHANGED <<docs, nameOf, subs, syncVars, changed>>
  BY <1>1 DEF BeginSeed
<1>4. SeedTypes /\ SyncTypes /\ Seeded /\ Copied
  BY DEF SkillsInv
<1>5. /\ req' \in [Requests -> SkillAsks] /\ req'[h] = r
      /\ \A g \in Requests : req'[g].pc \in {"subscribe", "imported"} => req'[g].id \in Personal
      /\ Seeding' = Seeding \cup {h}
  BY <1>2, <1>3, <1>4, RequestMoves
<1>6. Enabled' = Enabled /\ Subscriptions' = Subscriptions /\ Defaults' = Defaults
  BY <1>3 DEF Enabled, Subscriptions, Defaults
<1>7. SeedTypes'
  BY <1>3, <1>4, <1>5, <1>6 DEF SeedTypes
<1>8. Seeded'
  <2>1. marred' = {} => marred = {} /\ Seeding = {}
    BY <1>3
  <2> QED BY <1>2, <1>3, <1>4, <1>5, <1>6, <2>1 DEF Seeded
<1> QED BY <1>3, <1>4, <1>7, <1>8, ListedSame DEF SkillsInv

\* A subscription, and what it makes of the sets of them.
LEMMA SubscribedSets ==
  ASSUME SeedTypes, NEW x \in Ids, NEW v \in {"on", "off"}, subs' = [subs EXCEPT ![x] = v]
  PROVE  /\ subs' \in [Ids -> {"none", "on", "off"}] /\ Subscriptions' = Subscriptions \cup {x}
         /\ IsFiniteSet(Enabled')
<1>1. /\ subs' \in [Ids -> {"none", "on", "off"}] /\ subs'[x] = v
      /\ \A y \in Ids : y # x => subs'[y] = subs[y]
  BY DEF SeedTypes
<1>2. Enabled' \subseteq Enabled \cup {x}
  BY <1>1 DEF Enabled
<1>3. IsFiniteSet(Enabled')
  BY <1>2, FS_AddElement, FS_Subset DEF SeedTypes
<1> QED BY <1>1, <1>3 DEF Subscriptions

LEMMA SeedOfficialKeeps ==
  ASSUME SkillsInv, NEW h \in Requests, SeedOfficial(h)
  PROVE  SkillsInv'
<1>0. SeedTypes /\ SyncTypes /\ Seeded /\ Copied
  BY DEF SkillsInv
<1>1. PICK x \in req[h].todo : /\ subs' = [subs EXCEPT ![x] = "on"] /\ changed' = TRUE
                               /\ req' = [req EXCEPT ![h].todo = @ \ {x}]
                               /\ req[h].pc = "seed"
                               /\ UNCHANGED <<docs, nameOf, syncVars, marred>>
  BY DEF SeedOfficial, Subscribed
<1>2. PICK r : r = [req[h] EXCEPT !.todo = @ \ {x}]
  OBVIOUS
<1>3. req[h] \in SkillAsks
  BY <1>0 DEF SeedTypes
<1>4. r \in SkillAsks /\ r.pc = "seed" /\ r.todo = req[h].todo \ {x} /\ x \in Ids
  BY <1>1, <1>2, <1>3 DEF SkillAsks, Ids
<1>5. req' = [req EXCEPT ![h] = r]
  BY <1>0, <1>1, <1>2 DEF SeedTypes
<1>6. /\ req' \in [Requests -> SkillAsks] /\ req'[h] = r
      /\ \A g \in Requests : g # h => req'[g] = req[g]
      /\ \A g \in Requests : req'[g].pc \in {"subscribe", "imported"} => req'[g].id \in Personal
      /\ Seeding' = Seeding \cup {h}
  BY <1>0, <1>4, <1>5, RequestMoves
<1>7. h \in Seeding
  BY <1>1 DEF Seeding
<1>8. /\ subs' \in [Ids -> {"none", "on", "off"}] /\ Subscriptions' = Subscriptions \cup {x}
      /\ IsFiniteSet(Enabled')
  BY <1>0, <1>1, <1>4, SubscribedSets
<1>9. SeedTypes'
  BY <1>0, <1>1, <1>6, <1>8 DEF SeedTypes
<1>10. Defaults' = Defaults /\ (OneDefault => OneDefault')
  BY <1>1 DEF Defaults, OneDefault
<1>11. Seeded'
  <2>1. marred' = {} => \A g \in Seeding' : g = h
    BY <1>0, <1>1, <1>6, <1>7 DEF Seeded
  <2> QED BY <1>0, <1>1, <1>4, <1>6, <1>7, <1>8, <1>10, <2>1 DEF Seeded
<1> QED BY <1>0, <1>1, <1>9, <1>11, ListedStale DEF SkillsInv

\* A new personal skill goes behind the ones there are.
LEMMA PersonalWritten ==
  ASSUME SeedTypes, NEW h \in Requests, NEW name \in Names, NEW pc \in {"subscribe", "imported"},
         WritePersonal(h, name, pc)
  PROVE  /\ SeedTypes' /\ changed' /\ UNCHANGED <<subs, syncVars, marred>>
         /\ Subscriptions' = Subscriptions
         /\ Defaults' = Defaults \cup (IF name = DefaultName THEN {Len(docs) + 1} ELSE {})
         /\ DOMAIN docs' = DOMAIN docs \cup {Len(docs) + 1}
         /\ req'[h].pc = pc
         /\ \A g \in Requests : g # h => req'[g] = req[g]
         /\ Seeding' = IF pc = "subscribe" THEN Seeding \cup {h} ELSE Seeding \ {h}
<1>1. PICK p \in Personal \ Written :
        /\ docs' = Append(docs, p) /\ nameOf' = [nameOf EXCEPT ![p] = name]
        /\ req' = [req EXCEPT ![h].pc = pc, ![h].id = p]
        /\ changed' = TRUE /\ UNCHANGED <<subs, syncVars, marred>>
  <2>1. Written \subseteq Personal
    BY DEF Written, SeedTypes
  <2>2. \E p \in Personal \ Written : TRUE
    BY <2>1 DEF WritePersonal
  <2> QED BY <2>2 DEF WritePersonal
<1>2. PICK r : r = [req[h] EXCEPT !.pc = pc, !.id = p]
  OBVIOUS
<1>3. req[h] \in SkillAsks
  BY DEF SeedTypes
<1>4. r \in SkillAsks /\ r.pc = pc /\ r.id = p
  BY <1>1, <1>2, <1>3 DEF SkillAsks
<1>5. req' = [req EXCEPT ![h] = r]
  BY <1>1, <1>2 DEF SeedTypes
<1>6. /\ req' \in [Requests -> SkillAsks] /\ req'[h] = r
      /\ \A g \in Requests : g # h => req'[g] = req[g]
      /\ \A g \in Requests : req'[g].pc \in {"subscribe", "imported"} => req'[g].id \in Personal
      /\ Seeding' = IF r.pc \in {"seed", "subscribe"} THEN Seeding \cup {h} ELSE Seeding \ {h}
  BY <1>1, <1>4, <1>5, RequestMoves
<1>7. /\ docs' \in Seq(Personal) /\ Len(docs) \in Nat /\ DOMAIN docs = 1..Len(docs)
      /\ DOMAIN docs' = DOMAIN docs \cup {Len(docs) + 1} /\ Len(docs) + 1 \notin DOMAIN docs
      /\ docs'[Len(docs) + 1] = p /\ \A i \in DOMAIN docs : docs'[i] = docs[i]
  BY <1>1 DEF SeedTypes
<1>8. /\ nameOf' \in [Personal -> Names] /\ nameOf'[p] = name
      /\ \A i \in DOMAIN docs : docs[i] # p /\ nameOf'[docs[i]] = nameOf[docs[i]]
  BY <1>1 DEF SeedTypes, Written
<1>9. Defaults' = Defaults \cup (IF name = DefaultName THEN {Len(docs) + 1} ELSE {})
  BY <1>7, <1>8 DEF Defaults
<1>10. Enabled' = Enabled /\ Subscriptions' = Subscriptions
  BY <1>1 DEF Enabled, Subscriptions
<1>11. SeedTypes'
  BY <1>1, <1>6, <1>7, <1>8, <1>10 DEF SeedTypes
<1> QED BY <1>1, <1>4, <1>6, <1>7, <1>9, <1>10, <1>11

LEMMA WritePersonalKeeps ==
  ASSUME SkillsInv, NEW h \in Requests, SeedPersonal(h) \/ Import(h)
  PROVE  SkillsInv'
<1>0. SeedTypes /\ SyncTypes /\ Seeded /\ Copied
  BY DEF SkillsInv
<1>1. CASE SeedPersonal(h)
  <2>1. req[h].pc = "seed" /\ req[h].todo = {} /\ WritePersonal(h, DefaultName, "subscribe") /\ h \in Seeding
    BY <1>1 DEF SeedPersonal, Seeding
  <2>2. DefaultName \in Names
    BY DEF Names
  <2>3. /\ SeedTypes' /\ changed' /\ UNCHANGED <<subs, syncVars, marred>>
        /\ Subscriptions' = Subscriptions /\ Defaults' = Defaults \cup {Len(docs) + 1}
        /\ DOMAIN docs' = DOMAIN docs \cup {Len(docs) + 1}
        /\ req'[h].pc = "subscribe"
        /\ Seeding' = Seeding \cup {h}
    BY <1>0, <2>1, <2>2, PersonalWritten
  <2>4. Seeded'
    <3> SUFFICES ASSUME marred = {} PROVE Seeded'
      BY <2>3 DEF Seeded
    <3>1. (\A g \in Seeding : g = h) /\ Official \subseteq Subscriptions /\ Defaults = {}
      BY <1>0, <2>1 DEF Seeded
    <3>2. Defaults' = {Len(docs) + 1} /\ Len(docs) + 1 \in DOMAIN docs'
      BY <2>3, <3>1
    <3>3. OneDefault'
      BY <3>2 DEF OneDefault
    <3> QED BY <2>1, <2>3, <3>1, <3>3 DEF Seeded
  <2> QED BY <1>0, <2>3, <2>4, ListedStale DEF SkillsInv
<1>2. CASE Import(h)
  <2>1. PICK n \in Names \ {DefaultName} : WritePersonal(h, n, "imported")
    BY <1>2 DEF Import
  <2>2. h \notin Seeding
    BY <1>2, FreeTyped DEF Import, Seeding
  <2>3. /\ SeedTypes' /\ changed' /\ UNCHANGED <<subs, syncVars, marred>>
        /\ Subscriptions' = Subscriptions /\ Defaults' = Defaults
        /\ DOMAIN docs \subseteq DOMAIN docs'
        /\ \A g \in Requests : g # h => req'[g] = req[g]
        /\ Seeding' = Seeding
    <3>1. PICK k \in Names : k = n
      OBVIOUS
    <3>2. /\ SeedTypes' /\ changed' /\ UNCHANGED <<subs, syncVars, marred>>
          /\ Subscriptions' = Subscriptions
          /\ Defaults' = Defaults \cup (IF k = DefaultName THEN {Len(docs) + 1} ELSE {})
          /\ DOMAIN docs' = DOMAIN docs \cup {Len(docs) + 1}
          /\ \A g \in Requests : g # h => req'[g] = req[g]
          /\ Seeding' = Seeding \ {h}
      BY <1>0, <2>1, <3>1, PersonalWritten
    <3> QED BY <2>2, <3>1, <3>2
  <2>4. OneDefault => OneDefault'
    BY <2>3 DEF OneDefault
  <2>5. \A g \in Seeding' : g \in Seeding /\ req'[g] = req[g]
    BY <2>2, <2>3 DEF Seeding
  <2>6. Seeded'
    BY <1>0, <2>3, <2>4, <2>5 DEF Seeded
  <2> QED BY <1>0, <2>3, <2>6, ListedStale DEF SkillsInv
<1> QED BY <1>1, <1>2

LEMMA SubscribePersonalKeeps ==
  ASSUME SkillsInv, NEW h \in Requests, SubscribePersonal(h)
  PROVE  SkillsInv'
<1>0. SeedTypes /\ SyncTypes /\ Seeded /\ Copied
  BY DEF SkillsInv
<1>1. PICK x : x = req[h].id
  OBVIOUS
<1>2. /\ req[h].pc \in {"subscribe", "imported"} /\ subs' = [subs EXCEPT ![x] = "on"] /\ changed' = TRUE
      /\ req' = [req EXCEPT ![h] = NoReq]
      /\ marred' = IF Subscriptions = {} /\ Seeding = {} THEN marred \cup {"import"} ELSE marred
      /\ UNCHANGED <<docs, nameOf, syncVars>>
  BY <1>1 DEF SubscribePersonal, Subscribed
<1>3. x \in Ids
  BY <1>0, <1>1, <1>2 DEF SeedTypes, Ids
<1>4. /\ req' \in [Requests -> SkillAsks]
      /\ \A g \in Requests : g # h => req'[g] = req[g]
      /\ \A g \in Requests : req'[g].pc \in {"subscribe", "imported"} => req'[g].id \in Personal
      /\ Seeding' = Seeding \ {h}
  BY <1>0, <1>2, FreeTyped, RequestMoves
<1>5. /\ subs' \in [Ids -> {"none", "on", "off"}] /\ Subscriptions' = Subscriptions \cup {x}
      /\ IsFiniteSet(Enabled')
  BY <1>0, <1>2, <1>3, SubscribedSets
<1>6. SeedTypes'
  BY <1>0, <1>2, <1>4, <1>5 DEF SeedTypes
<1>7. Defaults' = Defaults /\ (OneDefault => OneDefault')
  BY <1>2 DEF Defaults, OneDefault
<1>8. ASSUME marred' = {} PROVE Seeded'
  <2>1. marred = {} /\ (Subscriptions # {} \/ Seeding # {})
    BY <1>2, <1>8
  <2>2. CASE req[h].pc = "subscribe"
    <3>1. h \in Seeding
      BY <2>2 DEF Seeding
    <3>2. Seeding' = {} /\ Official \subseteq Subscriptions /\ OneDefault
      BY <1>0, <1>4, <2>1, <2>2, <3>1 DEF Seeded
    <3> QED BY <1>5, <1>7, <3>2 DEF Seeded
  <2>3. CASE req[h].pc = "imported"
    <3>1. h \notin Seeding /\ Seeding' = Seeding
      BY <1>4, <2>3 DEF Seeding
    <3>2. \A g \in Seeding' : g \in Seeding /\ req'[g] = req[g]
      BY <1>4, <3>1 DEF Seeding
    <3> QED BY <1>0, <1>5, <1>7, <2>1, <3>1, <3>2 DEF Seeded
  <2> QED BY <1>2, <2>2, <2>3
<1>9. Seeded'
  BY <1>8 DEF Seeded
<1> QED BY <1>0, <1>2, <1>6, <1>9, ListedStale DEF SkillsInv

LEMMA AbortKeeps ==
  ASSUME SkillsInv, NEW h \in Requests, Abort(h)
  PROVE  SkillsInv'
<1>0. SeedTypes /\ SyncTypes /\ Seeded /\ Copied
  BY DEF SkillsInv
<1>1. /\ req' = [req EXCEPT ![h] = NoReq]
      /\ marred' = IF h \in Seeding /\ Subscriptions # {} THEN marred \cup {"cut"} ELSE marred
      /\ UNCHANGED <<docs, nameOf, subs, syncVars, changed>>
  BY DEF Abort
<1>2. /\ req' \in [Requests -> SkillAsks]
      /\ \A g \in Requests : g # h => req'[g] = req[g]
      /\ \A g \in Requests : req'[g].pc \in {"subscribe", "imported"} => req'[g].id \in Personal
      /\ Seeding' = Seeding \ {h}
  BY <1>0, <1>1, FreeTyped, RequestMoves
<1>3. Enabled' = Enabled /\ Subscriptions' = Subscriptions /\ Defaults' = Defaults /\ (OneDefault => OneDefault')
  BY <1>1 DEF Enabled, Subscriptions, Defaults, OneDefault
<1>4. SeedTypes'
  BY <1>0, <1>1, <1>2, <1>3 DEF SeedTypes
<1>5. ASSUME marred' = {} PROVE Seeded'
  <2>1. marred = {} /\ (h \notin Seeding \/ Subscriptions = {})
    BY <1>1, <1>5
  <2>2. CASE h \in Seeding
    <3>1. Seeding' = {} /\ Subscriptions' = {}
      BY <1>0, <1>2, <1>3, <2>1, <2>2 DEF Seeded
    <3>2. Defaults = {}
      <4>1. req[h].pc = "seed" \/ req[h].pc = "subscribe"
        BY <2>2 DEF Seeding
      <4> QED BY <1>0, <2>1, <2>2, <4>1, SkillsAssumption DEF Seeded
    <3> QED BY <1>3, <3>1, <3>2 DEF Seeded
  <2>3. CASE h \notin Seeding
    <3>1. Seeding' = Seeding /\ \A g \in Seeding' : g \in Seeding /\ req'[g] = req[g]
      BY <1>2, <2>3 DEF Seeding
    <3> QED BY <1>0, <1>3, <2>1, <3>1 DEF Seeded
  <2> QED BY <2>2, <2>3
<1>6. Seeded'
  BY <1>5 DEF Seeded
<1> QED BY <1>0, <1>1, <1>4, <1>6, ListedSame DEF SkillsInv

LEMMA ToggleKeeps ==
  ASSUME SkillsInv, NEW x \in Ids, NEW v \in {"on", "off"}, Toggle(x, v)
  PROVE  SkillsInv'
<1>0. SeedTypes /\ SyncTypes /\ Seeded /\ Copied
  BY DEF SkillsInv
<1>1. /\ subs' = [subs EXCEPT ![x] = v] /\ changed' = TRUE /\ Subscriptions # {}
      /\ UNCHANGED <<docs, nameOf, req, syncVars, marred>>
  BY DEF Toggle
<1>2. /\ subs' \in [Ids -> {"none", "on", "off"}] /\ Subscriptions' = Subscriptions \cup {x}
      /\ IsFiniteSet(Enabled')
  BY <1>0, <1>1, SubscribedSets
<1>3. SeedTypes'
  BY <1>0, <1>1, <1>2 DEF SeedTypes
<1>4. Defaults' = Defaults /\ Seeding' = Seeding /\ (OneDefault => OneDefault')
  BY <1>1 DEF Defaults, OneDefault, Seeding
<1>5. Seeded'
  BY <1>0, <1>1, <1>2, <1>4 DEF Seeded
<1> QED BY <1>0, <1>1, <1>3, <1>5, ListedStale DEF SkillsInv

-----------------------------------------------------------------------------
(* The runner.                                                              *)

\* The seeding does not look at the runner.
LEMMA SeedSame == SeedTypes /\ Seeded /\ UNCHANGED seedVars => SeedTypes' /\ Seeded'
  BY DEF SeedTypes, Seeded, Seeding, Subscriptions, Defaults, OneDefault, Enabled, seedVars

LEMMA NamesSame ==
  UNCHANGED seedVars => Enabled' = Enabled /\ \A x : Name(x)' = Name(x)
  BY DEF Enabled, Name, seedVars

LEMMA ListKeeps == SkillsInv /\ List => SkillsInv'
<1> SUFFICES ASSUME SkillsInv, List PROVE SkillsInv'
  OBVIOUS
<1>0. SeedTypes /\ SyncTypes /\ Seeded
  BY DEF SkillsInv
<1>1. /\ changed' = FALSE /\ failed' = {} /\ lagged' = {} /\ swept' = TRUE
      /\ sync' = [pc |-> "skills", names |-> {Name(x) : x \in Enabled}, left |-> Enabled, cur |-> "none",
                  doomed |-> {}, used |-> "none"]
      /\ UNCHANGED <<seedVars, tree, removing>>
  BY DEF List
<1>2. {Name(x) : x \in Enabled} \subseteq Names /\ Enabled \subseteq Ids
  BY <1>0, NameTyped DEF Enabled
<1>3. sync' \in Syncs
  BY <1>1, <1>2 DEF Syncs
<1>4. SyncTypes'
  BY <1>0, <1>1, <1>3 DEF SyncTypes
<1>5. Copied'
  <2>1. {Name(x) : x \in Enabled}' = {Name(x) : x \in Enabled} /\ Enabled' = Enabled
    BY <1>1, NamesSame
  <2> QED BY <1>1, <2>1 DEF Copied, UnderWay
<1> QED BY <1>0, <1>1, <1>4, <1>5, SeedSame DEF SkillsInv

\* A deletion, however it is answered, concerns one name.
LEMMA RmMoves ==
  ASSUME SyncTypes, NEW n \in Names, NEW how \in Outcomes, Rm(n, how)
  PROVE  /\ tree' \in [Names -> Packages] /\ removing' \subseteq Names /\ removing' \subseteq removing \cup {n}
         /\ lagged \subseteq lagged' /\ lagged' \subseteq Names
         /\ \A m \in Names : m # n => tree'[m] = tree[m]
         /\ Taken(how) => (removing' = {} /\ tree'[n] = "none") \/ n \in lagged'
<1>1. tree \in [Names -> Packages] /\ "none" \in Packages /\ "part" \in Packages
  BY DEF SyncTypes, Packages
<1>2. tree' \in [Names -> Packages] /\ \A m \in Names : m # n => tree'[m] = tree[m]
  BY <1>1 DEF Rm
<1>3. Taken(how) => (removing' = {} /\ tree'[n] = "none") \/ n \in lagged'
  BY <1>1 DEF Rm, Taken
<1>4. removing' \subseteq removing \cup {n} /\ lagged \subseteq lagged' /\ lagged' \subseteq lagged \cup {n}
  BY DEF Rm, Outcomes
<1> QED BY <1>2, <1>3, <1>4 DEF SyncTypes

\* What concerns one name leaves the packages of the others in their places.
LEMMA OthersStay ==
  ASSUME SeedTypes, UNCHANGED seedVars, NEW n,
         \A m \in Names : m # n => tree'[m] = tree[m],
         removing' \subseteq removing \cup {n}, failed \subseteq failed', lagged \subseteq lagged'
  PROVE  /\ \A y \in Enabled : InPlace(y) /\ Name(y) # n => InPlace(y)'
         /\ \A y \in Enabled : Name(y) \in failed' \cup lagged' => InPlace(y)'
         /\ \A x, y \in Enabled : x # y /\ Name(x) = Name(y) => InPlace(y)'
<1>1. Enabled' = Enabled /\ \A y : Name(y)' = Name(y)
  BY NamesSame
<1>2. \A y \in Enabled : Name(y) \in Names
  BY NameTyped DEF Enabled
<1>3. ASSUME NEW y \in Enabled PROVE Excused(y) => Excused(y)'
  BY <1>1, <1>3 DEF Excused
<1>4. ASSUME NEW y \in Enabled, InPlace(y), Name(y) # n PROVE InPlace(y)'
  BY <1>1, <1>2, <1>3, <1>4 DEF InPlace
<1>5. ASSUME NEW y \in Enabled, Name(y) \in failed' \cup lagged' PROVE InPlace(y)'
  BY <1>1, <1>5 DEF InPlace, Excused
<1>6. ASSUME NEW x \in Enabled, NEW y \in Enabled, x # y, Name(x) = Name(y) PROVE InPlace(y)'
  BY <1>1, <1>6 DEF InPlace, Excused
<1> QED BY <1>4, <1>5, <1>6

LEMMA DeleteSkillKeeps == ASSUME SkillsInv, NEW x \in Ids, NEW how \in Outcomes, DeleteTree(x, how) PROVE SkillsInv'
<1>0. SeedTypes /\ SyncTypes /\ Seeded /\ Copied
  BY DEF SkillsInv
<1>1. /\ sync.pc = "skills" /\ x \in sync.left /\ Rm(Name(x), how)
      /\ IF Taken(how)
         THEN sync' = [sync EXCEPT !.pc = "write", !.left = @ \ {x}, !.cur = x] /\ UNCHANGED failed
         ELSE sync' = [sync EXCEPT !.left = @ \ {x}] /\ failed' = failed \cup {Name(x)}
      /\ UNCHANGED <<seedVars, swept, changed>>
  BY DEF DeleteTree
<1>2. Name(x) \in Names
  BY <1>0, NameTyped
<1>3. /\ sync' \in Syncs /\ sync'.left = sync.left \ {x} /\ sync'.names = sync.names
      /\ IF Taken(how) THEN sync'.pc = "write" /\ sync'.cur = x ELSE sync'.pc = "skills" /\ Name(x) \in failed'
      /\ failed \subseteq failed' /\ failed' \subseteq Names
  <2>0. sync \in Syncs /\ failed \subseteq Names
    BY <1>0 DEF SyncTypes
  <2>1. CASE Taken(how)
    <3>1. sync' = [sync EXCEPT !.pc = "write", !.left = @ \ {x}, !.cur = x] /\ failed' = failed
      BY <1>1, <2>1
    <3> QED BY <2>0, <2>1, <3>1 DEF Syncs
  <2>2. CASE ~Taken(how)
    <3>1. sync' = [sync EXCEPT !.left = @ \ {x}] /\ failed' = failed \cup {Name(x)}
      BY <1>1, <2>2
    <3> QED BY <1>1, <1>2, <2>0, <2>2, <3>1 DEF Syncs
  <2> QED BY <2>1, <2>2
<1>4. /\ tree' \in [Names -> Packages] /\ removing' \subseteq Names /\ removing' \subseteq removing \cup {Name(x)}
      /\ lagged \subseteq lagged' /\ lagged' \subseteq Names
      /\ \A m \in Names : m # Name(x) => tree'[m] = tree[m]
      /\ Taken(how) => removing' = {} \/ Name(x) \in lagged'
  BY <1>0, <1>1, <1>2, RmMoves
<1>5. SyncTypes'
  BY <1>0, <1>1, <1>3, <1>4 DEF SyncTypes
<1>6. Copied'
  <2>1. Enabled' = Enabled /\ \A y : Name(y)' = Name(y)
    BY <1>1, NamesSame
  <2> SUFFICES ASSUME ~changed PROVE Copied'
    BY <1>1 DEF Copied
  <2>2. /\ sync.names = {Name(y) : y \in Enabled} /\ sync.left \subseteq Enabled /\ x \in Enabled
        /\ \A y \in Enabled : InPlace(y) \/ y \in sync.left
    BY <1>0, <1>1 DEF Copied, UnderWay
  <2>3. /\ \A y \in Enabled : InPlace(y) /\ Name(y) # Name(x) => InPlace(y)'
        /\ \A y \in Enabled : Name(y) \in failed' \cup lagged' => InPlace(y)'
        /\ \A y, z \in Enabled : z # y /\ Name(z) = Name(y) => InPlace(y)'
    BY <1>0, <1>1, <1>3, <1>4, OthersStay
  <2>4. ASSUME NEW y \in Enabled PROVE InPlace(y)' \/ y \in sync'.left \/ (sync'.pc = "write" /\ y = sync'.cur)
    <3>1. CASE y = x
      BY <1>3, <2>2, <2>3, <3>1
    <3>2. CASE y # x
      BY <1>3, <2>2, <2>3, <3>2
    <3> QED BY <3>1, <3>2
  <2>5. sync'.pc = "write" => sync'.cur \in Enabled /\ Ready'
    BY <1>3, <1>4, <2>1, <2>2 DEF Ready
  <2>6. {Name(y) : y \in Enabled}' = {Name(y) : y \in Enabled}
    BY <2>1
  <2> QED BY <1>3, <2>1, <2>2, <2>4, <2>5, <2>6 DEF Copied, UnderWay
<1> QED BY <1>0, <1>1, <1>5, <1>6, SeedSame DEF SkillsInv

LEMMA RemovesKeeps == SkillsInv /\ Removes => SkillsInv'
<1> SUFFICES ASSUME SkillsInv, Removes PROVE SkillsInv'
  OBVIOUS
<1>0. SeedTypes /\ SyncTypes /\ Seeded /\ Copied
  BY DEF SkillsInv
<1>1. /\ removing' = {} /\ tree' = [n \in Names |-> IF n \in removing THEN "none" ELSE tree[n]]
      /\ UNCHANGED <<seedVars, sync, failed, lagged, swept, changed>>
  BY DEF Removes
<1>3. SyncTypes'
  BY <1>0, <1>1 DEF SyncTypes, Packages
<1>4. Copied'
  <2>1. Enabled' = Enabled /\ \A y : Name(y)' = Name(y)
    BY <1>1, NamesSame
  <2>2. ASSUME NEW y \in Enabled, InPlace(y) PROVE InPlace(y)'
    <3>1. Name(y) \in Names
      BY <1>0, NameTyped DEF Enabled
    <3> QED BY <1>1, <2>1, <2>2, <3>1 DEF InPlace, Excused
  <2>3. {Name(y) : y \in Enabled}' = {Name(y) : y \in Enabled}
    BY <2>1
  <2>4. Ready'
    BY <1>1 DEF Ready
  <2>5. \A S : SweptTo(S) => SweptTo(S)'
    BY <1>1 DEF SweptTo
  <2> QED BY <1>0, <1>1, <2>1, <2>2, <2>3, <2>4, <2>5 DEF Copied, UnderWay
<1> QED BY <1>0, <1>1, <1>3, <1>4, SeedSame DEF SkillsInv

LEMMA PackageKeeps == SkillsInv /\ WritePackage => SkillsInv'
<1> SUFFICES ASSUME SkillsInv, WritePackage PROVE SkillsInv'
  OBVIOUS
<1>0. SeedTypes /\ SyncTypes /\ Seeded /\ Copied
  BY DEF SkillsInv
<1>1. PICK x : x = sync.cur
  OBVIOUS
<1>2. /\ sync.pc = "write" /\ sync' = [sync EXCEPT !.pc = "skills", !.cur = "none"]
      /\ \/ tree' = [tree EXCEPT ![Name(x)] = x] /\ UNCHANGED failed
         \/ tree' = [tree EXCEPT ![Name(x)] = "part"] /\ failed' = failed \cup {Name(x)}
      /\ UNCHANGED <<seedVars, removing, lagged, swept, changed>>
  BY <1>1 DEF WritePackage
<1>3. /\ sync' \in Syncs /\ sync'.pc = "skills" /\ sync'.left = sync.left /\ sync'.names = sync.names
  BY <1>0, <1>2 DEF SyncTypes, Syncs
<1>4. x \in Ids /\ Name(x) \in Names
  BY <1>0, <1>1, <1>2, NameTyped DEF SyncTypes
<1>5. /\ tree' \in [Names -> Packages] /\ failed \subseteq failed' /\ failed' \subseteq Names
      /\ tree'[Name(x)] = x \/ Name(x) \in failed'
      /\ \A n \in Names : n # Name(x) => tree'[n] = tree[n]
  BY <1>0, <1>2, <1>4 DEF SyncTypes, Packages
<1>6. SyncTypes'
  BY <1>0, <1>2, <1>3, <1>5 DEF SyncTypes
<1>7. Copied'
  <2>1. Enabled' = Enabled /\ \A y : Name(y)' = Name(y)
    BY <1>2, NamesSame
  <2> SUFFICES ASSUME ~changed PROVE Copied'
    BY <1>2 DEF Copied
  <2>2. /\ sync.names = {Name(y) : y \in Enabled} /\ x \in Enabled /\ sync.left \subseteq Enabled
        /\ Name(x) \in removing => Name(x) \in lagged
        /\ \A y \in Enabled : InPlace(y) \/ y \in sync.left \/ y = x
    BY <1>0, <1>1, <1>2 DEF Copied, UnderWay, Ready
  <2>3. /\ \A y \in Enabled : InPlace(y) /\ Name(y) # Name(x) => InPlace(y)'
        /\ \A y, z \in Enabled : z # y /\ Name(z) = Name(y) => InPlace(y)'
    BY <1>0, <1>2, <1>5, OthersStay
  <2>4. ASSUME NEW y \in Enabled, InPlace(y) \/ y = x PROVE InPlace(y)'
    <3>1. CASE y = x
      BY <1>2, <1>5, <2>1, <2>2, <3>1 DEF InPlace, Excused
    <3>2. CASE y # x
      BY <2>2, <2>3, <2>4, <3>2
    <3> QED BY <3>1, <3>2
  <2>5. {Name(y) : y \in Enabled}' = {Name(y) : y \in Enabled}
    BY <2>1
  <2> QED BY <1>3, <2>1, <2>2, <2>4, <2>5 DEF Copied, UnderWay
<1> QED BY <1>0, <1>2, <1>6, <1>7, SeedSame DEF SkillsInv

LEMMA FindKeeps == SkillsInv /\ FindDirs => SkillsInv'
<1> SUFFICES ASSUME SkillsInv, FindDirs PROVE SkillsInv'
  OBVIOUS
<1>0. SeedTypes /\ SyncTypes /\ Seeded /\ Copied
  BY DEF SkillsInv
<1>1. /\ sync.pc = "skills" /\ sync.left = {} /\ removing' \subseteq removing
      /\ \/ sync' = [sync EXCEPT !.pc = "sweep", !.doomed = Doomed] /\ UNCHANGED swept
         \/ sync' = [sync EXCEPT !.pc = "resolve"] /\ swept' = FALSE
      /\ UNCHANGED <<seedVars, tree, failed, lagged, changed>>
  BY DEF FindDirs
<1>2. /\ sync' \in Syncs /\ sync'.names = sync.names
      /\ \/ sync'.pc = "sweep" /\ sync'.doomed = Doomed /\ swept' = swept
         \/ sync'.pc = "resolve" /\ swept' = FALSE
  BY <1>0, <1>1 DEF SyncTypes, Syncs, Doomed
<1>3. SyncTypes'
  BY <1>0, <1>1, <1>2 DEF SyncTypes
<1>4. Copied'
  <2>1. Enabled' = Enabled /\ \A y : Name(y)' = Name(y)
    BY <1>1, NamesSame
  <2> SUFFICES ASSUME ~changed PROVE Copied'
    BY <1>1 DEF Copied
  <2>2. sync.names = {Name(y) : y \in Enabled} /\ \A y \in Enabled : InPlace(y)
    BY <1>0, <1>1 DEF Copied
  <2>3. \A y \in Enabled : InPlace(y)'
    BY <1>1, <2>1, <2>2 DEF InPlace, Excused
  <2>4. {Name(y) : y \in Enabled}' = {Name(y) : y \in Enabled}
    BY <2>1
  <2>5. sync.names \cap Doomed = {} /\ SweptTo(sync.names \cup Doomed)'
    BY <1>1 DEF Doomed, SweptTo
  <2>6. sync'.pc = "sweep" => sync'.names \cap sync'.doomed = {} /\ SweptTo(sync.names \cup sync.doomed)'
    <3> SUFFICES ASSUME sync'.pc = "sweep" PROVE sync'.names \cap sync'.doomed = {} /\ SweptTo(sync.names \cup sync.doomed)'
      OBVIOUS
    <3>1. sync'.names = sync.names /\ sync'.doomed = Doomed
      BY <1>2
    <3>2. \A m \in Names : tree'[m] # "none" => m \in sync'.names \cup sync'.doomed \cup lagged'
      BY <2>5, <3>1, <1>1 DEF Doomed
    <3> QED BY <2>5, <3>1, <3>2 DEF SweptTo
  <2> QED BY <1>2, <2>1, <2>2, <2>3, <2>4, <2>6 DEF Copied, UnderWay
<1> QED BY <1>0, <1>1, <1>3, <1>4, SeedSame DEF SkillsInv

LEMMA SweepDirKeeps == ASSUME SkillsInv, NEW n \in Names, NEW how \in Outcomes, SweepDir(n, how) PROVE SkillsInv'
<1>0. SeedTypes /\ SyncTypes /\ Seeded /\ Copied
  BY DEF SkillsInv
<1>1. /\ sync.pc = "sweep" /\ n \in sync.doomed /\ Rm(n, how)
      /\ IF Taken(how)
         THEN sync' = [sync EXCEPT !.doomed = @ \ {n}] /\ UNCHANGED swept
         ELSE sync' = [sync EXCEPT !.pc = "resolve", !.doomed = {}] /\ swept' = FALSE
      /\ UNCHANGED <<seedVars, failed, changed>>
  BY DEF SweepDir
<1>2. /\ sync' \in Syncs /\ sync'.names = sync.names
      /\ IF Taken(how) THEN sync'.pc = "sweep" /\ sync'.doomed = sync.doomed \ {n} /\ swept' = swept
         ELSE sync'.pc = "resolve" /\ swept' = FALSE
  <2>0. sync \in Syncs
    BY <1>0 DEF SyncTypes
  <2>1. CASE Taken(how)
    <3>1. sync' = [sync EXCEPT !.doomed = @ \ {n}] /\ swept' = swept
      BY <1>1, <2>1
    <3> QED BY <1>1, <2>0, <2>1, <3>1 DEF Syncs
  <2>2. CASE ~Taken(how)
    <3>1. sync' = [sync EXCEPT !.pc = "resolve", !.doomed = {}] /\ swept' = FALSE
      BY <1>1, <2>2
    <3> QED BY <2>0, <2>2, <3>1 DEF Syncs
  <2> QED BY <2>1, <2>2
<1>3. /\ tree' \in [Names -> Packages] /\ removing' \subseteq Names /\ removing' \subseteq removing \cup {n}
      /\ lagged \subseteq lagged' /\ lagged' \subseteq Names
      /\ \A m \in Names : m # n => tree'[m] = tree[m]
      /\ Taken(how) => tree'[n] = "none" \/ n \in lagged'
  BY <1>0, <1>1, RmMoves
<1>4. SyncTypes'
  BY <1>0, <1>1, <1>2, <1>3 DEF SyncTypes
<1>5. Copied'
  <2>1. Enabled' = Enabled /\ \A y : Name(y)' = Name(y)
    BY <1>1, NamesSame
  <2> SUFFICES ASSUME ~changed PROVE Copied'
    BY <1>1 DEF Copied
  <2>2. /\ sync.names = {Name(y) : y \in Enabled} /\ \A y \in Enabled : InPlace(y)
        /\ sync.names \cap sync.doomed = {} /\ (swept => SweptTo(sync.names \cup sync.doomed))
    BY <1>0, <1>1 DEF Copied, UnderWay
  <2>3. \A y \in Enabled : InPlace(y) /\ Name(y) # n => InPlace(y)'
    BY <1>0, <1>1, <1>3, OthersStay
  <2>4. \A y \in Enabled : InPlace(y)'
    BY <1>1, <2>2, <2>3
  <2>5. {Name(y) : y \in Enabled}' = {Name(y) : y \in Enabled}
    BY <2>1
  <2>6. ASSUME Taken(how), swept PROVE \A m \in Names : tree'[m] # "none" => m \in sync'.names \cup sync'.doomed \cup lagged'
    <3>1. \A m \in Names : tree[m] # "none" => m \in sync.names \cup sync.doomed \cup lagged
      BY <2>2, <2>6 DEF SweptTo
    <3> QED BY <1>2, <1>3, <2>6, <3>1
  <2> QED BY <1>2, <2>1, <2>2, <2>4, <2>5, <2>6 DEF Copied, UnderWay, SweptTo
<1> QED BY <1>0, <1>1, <1>4, <1>5, SeedSame DEF SkillsInv

LEMMA SweepEndsKeeps == SkillsInv /\ SweepEnds => SkillsInv'
<1> SUFFICES ASSUME SkillsInv, SweepEnds PROVE SkillsInv'
  OBVIOUS
<1>0. SeedTypes /\ SyncTypes /\ Seeded /\ Copied
  BY DEF SkillsInv
<1>1. /\ sync.pc = "sweep" /\ sync.doomed = {} /\ sync' = [sync EXCEPT !.pc = "resolve"]
      /\ UNCHANGED <<seedVars, tree, removing, failed, lagged, swept, changed>>
  BY DEF SweepEnds
<1>2. sync' \in Syncs /\ sync'.pc = "resolve" /\ sync'.names = sync.names
  BY <1>0, <1>1 DEF SyncTypes, Syncs
<1>3. SyncTypes'
  BY <1>0, <1>1, <1>2 DEF SyncTypes
<1>4. Copied'
  <2>1. Enabled' = Enabled /\ \A y : Name(y)' = Name(y)
    BY <1>1, NamesSame
  <2>2. {Name(y) : y \in Enabled}' = {Name(y) : y \in Enabled} /\ \A y \in Enabled : InPlace(y) => InPlace(y)'
    BY <1>1, <2>1 DEF InPlace, Excused
  <2>3. \A S : SweptTo(S) => SweptTo(S)'
    BY <1>1 DEF SweptTo
  <2>4. sync.names \cup sync.doomed = sync'.names
    BY <1>1, <1>2
  <2> QED BY <1>0, <1>1, <1>2, <2>1, <2>2, <2>3, <2>4 DEF Copied, UnderWay
<1> QED BY <1>0, <1>1, <1>3, <1>4, SeedSame DEF SkillsInv

LEMMA ResolveKeeps == SkillsInv /\ ResolveSkill => SkillsInv'
<1> SUFFICES ASSUME SkillsInv, ResolveSkill PROVE SkillsInv'
  OBVIOUS
<1>0. SeedTypes /\ SyncTypes /\ Seeded /\ Copied
  BY DEF SkillsInv
<1>1. PICK u : /\ sync.pc = "resolve" /\ sync' = [sync EXCEPT !.pc = "used", !.used = u]
               /\ u = "none" \/ u \in Enabled
               /\ UNCHANGED <<seedVars, tree, removing, failed, lagged, swept, changed>>
  <2>1. PICK x : /\ sync.pc = "resolve"
                 /\ sync' = [sync EXCEPT !.pc = "used", !.used = IF Usable(x) THEN x ELSE "none"]
                 /\ UNCHANGED <<seedVars, tree, removing, failed, lagged, swept, changed>>
    BY DEF ResolveSkill
  <2>2. Written \subseteq Personal
    BY <1>0 DEF Written, SeedTypes
  <2>3. Usable(x) => x \in Enabled
    BY <2>2 DEF Usable, Enabled, Ids
  <2> QED BY <2>1, <2>3
<1>2. sync' \in Syncs /\ sync'.pc = "used" /\ sync'.names = sync.names /\ sync'.used = u
  BY <1>0, <1>1 DEF SyncTypes, Syncs, Enabled
<1>3. SyncTypes'
  BY <1>0, <1>1, <1>2 DEF SyncTypes
<1>4. Copied'
  <2>1. Enabled' = Enabled /\ \A y : Name(y)' = Name(y)
    BY <1>1, NamesSame
  <2>2. {Name(y) : y \in Enabled}' = {Name(y) : y \in Enabled} /\ \A y \in Enabled : InPlace(y) => InPlace(y)'
    BY <1>1, <2>1 DEF InPlace, Excused
  <2>3. SweptTo(sync.names) => SweptTo(sync.names)'
    BY <1>1, <1>2 DEF SweptTo
  <2> QED BY <1>0, <1>1, <1>2, <2>1, <2>2, <2>3 DEF Copied, UnderWay
<1> QED BY <1>0, <1>1, <1>3, <1>4, SeedSame DEF SkillsInv

LEMMA SkillsStep == SkillsInv /\ [SkillsNext]_skillVars => SkillsInv'
<1> SUFFICES ASSUME SkillsInv, [SkillsNext]_skillVars PROVE SkillsInv'
  OBVIOUS
<1>1. CASE UNCHANGED skillVars
  BY <1>1, SeedSame, ListedSame DEF SkillsInv, skillVars, seedVars
<1>2. CASE SkillsNext
  BY <1>2, BeginSeedKeeps, SeedOfficialKeeps, WritePersonalKeeps, SubscribePersonalKeeps, AbortKeeps, ToggleKeeps,
     ListKeeps, DeleteSkillKeeps, RemovesKeeps, PackageKeeps, FindKeeps, SweepDirKeeps, SweepEndsKeeps, ResolveKeeps DEF SkillsNext
<1> QED BY <1>1, <1>2

LEMMA SkillsHold == ASSUME SkillsInv PROVE SkillsKept
<1>0. SeedTypes /\ Seeded /\ Copied
  BY DEF SkillsInv
<1>1. ASSUME sync.pc = "used", ~changed, sync.used # "none", Cardinality(Namesakes(Name(sync.used))) = 1
      PROVE  tree[Name(sync.used)] = sync.used \/ Name(sync.used) \in failed \cup lagged
  <2>1. PICK x \in Enabled : x = sync.used /\ InPlace(x)
    BY <1>0, <1>1 DEF Copied, UnderWay
  <2>2. Namesakes(Name(x)) \subseteq Enabled
    BY DEF Namesakes
  <2>3. PICK y : Namesakes(Name(x)) = {y}
    BY <1>0, <1>1, <2>1, <2>2, FS_Subset, FS_Singleton DEF SeedTypes
  <2>4. \A z \in Enabled : Name(z) = Name(x) => z = x
    BY <2>3 DEF Namesakes
  <2> QED BY <2>1, <2>4 DEF InPlace, Excused
<1>2. ASSUME sync.pc = "used", ~changed, swept, NEW n \in Names \ lagged, tree[n] # "none" PROVE Namesakes(n) # {}
  <2>1. n \in {Name(x) : x \in Enabled}
    BY <1>0, <1>2 DEF Copied, UnderWay, SweptTo
  <2> QED BY <2>1 DEF Namesakes
<1>3. FilesThere
  BY <1>1, <1>2 DEF FilesThere
<1>4. OneDefault => Cardinality(Defaults) = 1
  BY FS_Singleton DEF OneDefault
<1>5. SeededOnce
  BY <1>0, <1>4 DEF Seeded, SeededOnce
<1> QED BY <1>3, <1>5 DEF SkillsKept

-----------------------------------------------------------------------------
(* Tools.  A tool keeps the name it was built with, and its server stays a  *)
(* client until the runner is destroyed (Serving); what a name that one     *)
(* server alone could have offered leads to is that server (LeadsBack).     *)

Words == STRING \cup {"mcp"}
Managers == [pc : {"new", "connect", "ready"}, next : Nat, clients : SUBSET McpServers,
             cached : SUBSET [server : McpServers, tools : SUBSET McpNames]]
Tools == [name : Seq(Words), server : McpServers, tool : McpNames]
Toolkits == [ready : BOOLEAN, tools : SUBSET Tools]
ServersKnown ==
  /\ config.order \in [1..Cardinality(McpServers) -> McpServers] /\ Cardinality(McpServers) \in Nat
  /\ Range(config.order) = McpServers /\ config.enabled \subseteq McpServers
  /\ \A i, j \in DOMAIN config.order : config.order[i] = config.order[j] => i = j
McpTypes ==
  /\ mgr \in Managers /\ mgr.next \in 1..Cardinality(McpServers) + 1 /\ kit \in Toolkits
  /\ called.how \in {"none", "unresolved", "unconnected", "unknown", "ran"}
Serving ==
  /\ mgr.clients \subseteq config.enabled /\ \A c \in mgr.cached : c.server \in mgr.clients
  /\ kit.ready => mgr.pc \in {"ready", "new"}
  /\ ~kit.ready => kit.tools = {} /\ mgr.pc # "ready" /\ called = NoCall
  /\ \A t \in kit.tools : /\ t.name = Offered(t.server, t.tool)
                          /\ mgr.pc = "ready" => t.server \in mgr.clients
McpInv == ServersKnown /\ McpTypes /\ Serving /\ ToolsRouted

LEMMA ServersListed ==
  ASSUME NEW order \in SetToSeqs(McpServers)
  PROVE  /\ order \in [1..Cardinality(McpServers) -> McpServers] /\ Cardinality(McpServers) \in Nat
         /\ Range(order) = McpServers
         /\ \A i, j \in DOMAIN order : order[i] = order[j] => i = j
<1> DEFINE D == 1..Cardinality(McpServers)
<1>1. Cardinality(McpServers) \in Nat
  BY McpAssumption, FS_CardinalityType
<1>2. order \in [D -> McpServers] /\ \A i, j \in D : order[i] = order[j] => i = j
  BY DEF SetToSeqs
<1>3. order \in Injection(D, McpServers)
  BY <1>2 DEF Injection, IsInjective
<1>4. Cardinality(D) = Cardinality(McpServers)
  BY <1>1, FS_Interval
<1>5. order \in Surjection(D, McpServers)
  BY <1>3, <1>4, McpAssumption, FS_Injection
<1>6. Range(order) = McpServers
  BY <1>2, <1>5 DEF Surjection, Range
<1> QED BY <1>1, <1>2, <1>6

LEMMA McpInitInv == McpInit => McpInv
<1> SUFFICES ASSUME McpInit PROVE McpInv
  OBVIOUS
<1>1. PICK order \in SetToSeqs(McpServers), on \in SUBSET McpServers : config = [order |-> order, enabled |-> on]
  BY DEF McpInit
<1>2. ServersKnown
  BY <1>1, ServersListed DEF ServersKnown
<1>3. mgr = NewManager /\ kit = [ready |-> FALSE, tools |-> {}] /\ called = NoCall
  BY DEF McpInit
<1>4. McpTypes
  BY <1>2, <1>3 DEF McpTypes, Managers, Toolkits, NewManager, NoCall, ServersKnown
<1> QED BY <1>2, <1>3, <1>4 DEF McpInv, Serving, ToolsRouted, NewManager, NoCall

LEMMA OneIsSeq == ASSUME NEW S, NEW x \in S PROVE <<x>> \in Seq(S)
  OBVIOUS

LEMMA WiderSeq == ASSUME NEW S, NEW T, S \subseteq T PROVE Seq(S) \subseteq Seq(T)
  OBVIOUS

\* A tool's name is the prefix of its server and its own name.
LEMMA OfferedIs ==
  ASSUME NEW s \in McpServers, NEW t \in McpNames
  PROVE  /\ Offered(s, <<>>) = Prefix(s) /\ Prefix(s) \in Seq(Words)
         /\ Offered(s, t) \in Seq(Words) /\ Offered(s, t) # <<>>
         /\ IsStrictPrefix(Prefix(s), Offered(s, t))
         /\ SubSeq(Offered(s, t), Len(Prefix(s)) + 1, Len(Offered(s, t))) = t
<1>1. s \in Seq(Words) /\ t \in Seq(Words) /\ t # <<>>
  BY McpAssumption, WiderSeq DEF Words
<1>2. Prefix(s) \in Seq(Words)
  <2>1. <<"mcp">> \in Seq(Words)
    BY OneIsSeq DEF Words
  <2> QED BY <1>1, <2>1, ConcatProperties DEF Prefix
<1>3. Offered(s, <<>>) = Prefix(s) \o <<>> /\ Offered(s, t) = Prefix(s) \o t
  BY DEF Offered, Prefix
<1>4. PICK p \in Seq(Words) : p = Prefix(s)
  BY <1>2
<1>5. p \o <<>> = p
  BY ConcatEmptySeq
<1>6. /\ p \o t \in Seq(Words) /\ Len(p \o t) = Len(p) + Len(t)
      /\ \A i \in 1..Len(p) + Len(t) : (p \o t)[i] = IF i <= Len(p) THEN p[i] ELSE t[i - Len(p)]
  BY <1>1, ConcatProperties
<1>7. Len(p) \in Nat /\ Len(t) \in Nat /\ Len(t) > 0
  BY <1>1
<1>8. SubSeq(p \o t, 1, Len(p)) = p
  <2>1. \A i \in 1..Len(p) : (p \o t)[i] = p[i] /\ p[i] \in Words
    BY <1>6, <1>7
  <2>2. /\ SubSeq(p \o t, 1, Len(p)) \in Seq(Words) /\ Len(SubSeq(p \o t, 1, Len(p))) = Len(p)
        /\ \A i \in 1..Len(p) : SubSeq(p \o t, 1, Len(p))[i] = p[i]
    BY <1>7, <2>1, SubSeqProperties
  <2> QED BY <2>2, SeqEqual
<1>9. SubSeq(p, 1, Len(p)) = p
  <2>1. \A i \in 1..Len(p) : p[i] \in Words
    OBVIOUS
  <2>2. /\ SubSeq(p, 1, Len(p)) \in Seq(Words) /\ Len(SubSeq(p, 1, Len(p))) = Len(p)
        /\ \A i \in 1..Len(p) : SubSeq(p, 1, Len(p))[i] = p[i]
    BY <1>7, <2>1, SubSeqProperties
  <2> QED BY <2>2, SeqEqual
<1>10. SubSeq(p \o t, Len(p) + 1, Len(p \o t)) = t
  <2>1. \A i \in Len(p) + 1..Len(p) + Len(t) : (p \o t)[i] = t[i - Len(p)] /\ t[i - Len(p)] \in Words
    BY <1>1, <1>6, <1>7
  <2>2. PICK u : u = SubSeq(p \o t, Len(p) + 1, Len(p \o t))
    OBVIOUS
  <2>3. /\ u \in Seq(Words) /\ Len(u) = Len(t)
        /\ \A i \in 1..Len(t) : u[i] = (p \o t)[Len(p) + i]
    BY <1>6, <1>7, <2>1, <2>2, SubSeqProperties
  <2>4. \A i \in 1..Len(t) : u[i] = t[i]
    BY <1>7, <2>1, <2>3
  <2> QED BY <1>1, <2>2, <2>3, <2>4, SeqEqual
<1>11. IsStrictPrefix(p, p \o t)
  <2>1. Len(p) <= Len(p \o t) /\ p # p \o t
    BY <1>6, <1>7
  <2>2. IsPrefix(p, p \o t)
    BY <1>8, <1>9, <2>1 DEF IsPrefix
  <2> QED BY <2>1, <2>2 DEF IsStrictPrefix
<1>12. p \o t # <<>>
  BY <1>6, <1>7
<1> QED BY <1>3, <1>4, <1>5, <1>6, <1>10, <1>11, <1>12

\* A name that one server alone could have offered leads to that server and that tool.
LEMMA RoutedTo ==
  ASSUME ServersKnown, McpTypes, Serving, NEW tool \in kit.tools, Cardinality(Claimants(tool.name)) = 1
  PROVE  /\ Resolved(tool.name) = {tool.server} /\ tool.server \in McpServers /\ tool.tool \in McpNames
         /\ SubSeq(tool.name, Len(Prefix(tool.server)) + 1, Len(tool.name)) = tool.tool
<1>1. tool.server \in McpServers /\ tool.tool \in McpNames /\ tool.name = Offered(tool.server, tool.tool)
  BY DEF McpTypes, Toolkits, Tools, Serving
<1>2. PICK s \in McpServers, t \in McpNames, name \in {tool.name} : s = tool.server /\ t = tool.tool
  BY <1>1
<1>3. \A x \in McpServers : Offered(x, <<>>) = Prefix(x)
  BY <1>1, OfferedIs
<1>4. s \in Claimants(name) /\ \A x \in McpServers : x \in Claimants(name) <=> NameFits(x, name)
  BY <1>1, <1>2, <1>3, OfferedIs DEF Claimants, NameFits
<1>5. Claimants(name) = {s}
  <2>1. IsFiniteSet(Claimants(name))
    BY McpAssumption, FS_Subset DEF Claimants
  <2>2. PICK x : Claimants(name) = {x}
    BY <1>2, <2>1, FS_Singleton
  <2> QED BY <1>4, <2>2
<1>6. PICK k \in DOMAIN config.order : config.order[k] = s
  BY DEF ServersKnown, Range
<1>7. \A i \in DOMAIN config.order : config.order[i] \in McpServers
  BY DEF ServersKnown
<1>8. {i \in DOMAIN config.order : NameFits(config.order[i], name)} = {k}
  BY <1>4, <1>5, <1>6, <1>7 DEF ServersKnown
<1>9. (CHOOSE i \in {k} : \A j \in {k} : i <= j) = k
  <2>1. k <= k
    BY DEF ServersKnown
  <2> QED BY <2>1
<1>10. Resolved(name) = {s}
  BY <1>6, <1>8, <1>9 DEF Resolved
<1> QED BY <1>1, <1>2, <1>10, OfferedIs

-----------------------------------------------------------------------------
(* The steps.                                                               *)

\* The manager moves on before there is a tool.
LEMMA ManagerMoves ==
  ASSUME McpInv, UNCHANGED <<config, kit, called>>, ~kit.ready,
         NEW m \in Managers, mgr' = m, m.next \in 1..Cardinality(McpServers) + 1, m.pc # "ready",
         m.clients \subseteq config.enabled, \A c \in m.cached : c.server \in m.clients
  PROVE  McpInv'
<1>1. ServersKnown' /\ McpTypes'
  BY DEF McpInv, ServersKnown, McpTypes
<1>2. kit.tools = {}
  BY DEF McpInv, Serving
<1>3. Serving'
  BY <1>2 DEF McpInv, Serving
<1>4. ToolsRouted'
  BY <1>2 DEF McpInv, ToolsRouted
<1> QED BY <1>1, <1>3, <1>4 DEF McpInv

LEMMA NewIsManager == NewManager \in Managers /\ NewManager.next \in 1..Cardinality(McpServers) + 1
<1>1. Cardinality(McpServers) \in Nat
  BY McpAssumption, FS_CardinalityType
<1> QED BY <1>1 DEF NewManager, Managers

LEMMA InitializeTools == ASSUME McpInv, Initialize PROVE McpInv'
<1> DEFINE m == [mgr EXCEPT !.pc = "connect"]
<1>1. m \in Managers /\ m.next = mgr.next /\ m.clients = mgr.clients /\ m.cached = mgr.cached /\ m.pc = "connect"
  BY DEF McpInv, McpTypes, Managers
<1> HIDE DEF m
<1>2. mgr' = m /\ ~kit.ready
  BY DEF Initialize, m
<1> QED BY <1>1, <1>2, ManagerMoves DEF McpInv, McpTypes, Serving, Initialize

\* While it connects there is no tool, and the next server is one that is configured.
LEMMA Connecting ==
  ASSUME McpInv, mgr.pc = "connect"
  PROVE  /\ ~kit.ready
         /\ ~AllTried => mgr.next + 1 \in 1..Cardinality(McpServers) + 1 /\ Server \in McpServers
<1>1. ~kit.ready
  BY DEF McpInv, Serving
<1>2. ASSUME ~AllTried PROVE mgr.next \in 1..Cardinality(McpServers)
  <2>1. Len(config.order) = Cardinality(McpServers) /\ mgr.next \in 1..Cardinality(McpServers) + 1
    BY DEF McpInv, ServersKnown, McpTypes
  <2> QED BY <1>2, <2>1 DEF AllTried, McpInv, ServersKnown
<1>3. ASSUME ~AllTried PROVE mgr.next + 1 \in 1..Cardinality(McpServers) + 1 /\ Server \in McpServers
  BY <1>2, <1>3 DEF McpInv, ServersKnown, Server
<1> QED BY <1>1, <1>3

LEMMA SkipServerTools == ASSUME McpInv, SkipServer PROVE McpInv'
<1> DEFINE m == [mgr EXCEPT !.next = @ + 1]
<1>1. m \in Managers /\ m.next = mgr.next + 1 /\ m.clients = mgr.clients /\ m.cached = mgr.cached /\ m.pc = mgr.pc
  BY DEF McpInv, McpTypes, Managers
<1> HIDE DEF m
<1>2. mgr' = m /\ mgr.pc = "connect" /\ ~AllTried
  BY DEF SkipServer, m
<1>3. ~kit.ready /\ m.next \in 1..Cardinality(McpServers) + 1
  BY <1>1, <1>2, Connecting
<1> QED BY <1>1, <1>2, <1>3, ManagerMoves DEF McpInv, McpTypes, Serving, SkipServer

Served(m, n, cs, cd) == [m EXCEPT !.next = n, !.clients = cs, !.cached = cd]
Listings == SUBSET [server : McpServers, tools : SUBSET McpNames]
LEMMA ManagerServes ==
  ASSUME NEW m \in Managers, NEW n \in Nat, NEW cs \in SUBSET McpServers, NEW cd \in Listings
  PROVE  /\ Served(m, n, cs, cd) \in Managers /\ Served(m, n, cs, cd).pc = m.pc
         /\ Served(m, n, cs, cd).next = n /\ Served(m, n, cs, cd).clients = cs /\ Served(m, n, cs, cd).cached = cd
  BY DEF Managers, Listings, Served

LEMMA ConnectTools == ASSUME McpInv, Connect PROVE McpInv'
<1>1. mgr.pc = "connect" /\ ~AllTried /\ Server \in config.enabled /\ UNCHANGED <<config, kit, called>>
  BY DEF Connect
<1>2. /\ ~kit.ready /\ mgr.next + 1 \in 1..Cardinality(McpServers) + 1 /\ Server \in McpServers
      /\ mgr \in Managers /\ mgr.clients \subseteq config.enabled /\ \A c \in mgr.cached : c.server \in mgr.clients
  BY <1>1, Connecting DEF McpInv, McpTypes, Serving
<1>3. CASE mgr' = [mgr EXCEPT !.next = @ + 1]
  <2>1. PICK m : m = mgr'
    OBVIOUS
  <2>2. /\ m \in Managers /\ m.next = mgr.next + 1
        /\ m.clients = mgr.clients /\ m.cached = mgr.cached /\ m.pc = mgr.pc
    BY <1>2, <1>3, <2>1 DEF Managers
  <2> QED BY <1>1, <1>2, <2>1, <2>2, ManagerMoves
<1>4. CASE \E tools \in {{}, McpNames} :
             mgr' = [mgr EXCEPT !.next = @ + 1, !.clients = @ \cup {Server},
                                !.cached = @ \cup {[server |-> Server, tools |-> tools]}]
  <2>1. PICK tools \in {{}, McpNames} :
             mgr' = [mgr EXCEPT !.next = @ + 1, !.clients = @ \cup {Server},
                                !.cached = @ \cup {[server |-> Server, tools |-> tools]}]
    BY <1>4
  <2>2. PICK c : c = [server |-> Server, tools |-> tools]
    OBVIOUS
  <2>3. c \in [server : McpServers, tools : SUBSET McpNames] /\ c.server = Server
    BY <1>2, <2>1, <2>2
  <2>4. PICK m : m = mgr'
    OBVIOUS
  <2>5. PICK cs \in SUBSET McpServers, cd \in Listings :
             cs = mgr.clients \cup {Server} /\ cd = mgr.cached \cup {c}
    BY <1>2, <2>3 DEF Managers, Listings
  <2>6. m = [mgr EXCEPT !.next = @ + 1, !.clients = cs, !.cached = cd]
    BY <2>1, <2>2, <2>4, <2>5
  <2>7. /\ m \in Managers /\ m.next = mgr.next + 1 /\ m.pc = mgr.pc
        /\ m.clients = mgr.clients \cup {Server} /\ m.cached = mgr.cached \cup {c}
    <3>1. PICK n \in Nat, k \in Managers : n = mgr.next + 1 /\ k = mgr
      BY <1>2 DEF Managers
    <3>2. m = Served(k, n, cs, cd)
      BY <2>6, <3>1 DEF Served
    <3>3. /\ Served(k, n, cs, cd) \in Managers /\ Served(k, n, cs, cd).pc = k.pc
          /\ Served(k, n, cs, cd).next = n /\ Served(k, n, cs, cd).clients = cs /\ Served(k, n, cs, cd).cached = cd
      BY ManagerServes
    <3> QED BY <2>5, <3>1, <3>2, <3>3
  <2> QED BY <1>1, <1>2, <2>3, <2>4, <2>7, ManagerMoves
<1> QED BY <1>3, <1>4 DEF Connect

LEMMA AbandonTools == ASSUME McpInv, Abandon PROVE McpInv'
  BY Connecting, NewIsManager, ManagerMoves DEF Abandon, NewManager

LEMMA BuildToolsTools == ASSUME McpInv, BuildTools PROVE McpInv'
<1> DEFINE m == [mgr EXCEPT !.pc = "ready"]
           OffersOf(c) == {[name |-> Offered(c.server, t), server |-> c.server, tool |-> t] : t \in c.tools}
           offers == UNION {OffersOf(c) : c \in mgr.cached}
<1>1. mgr \in Managers /\ mgr.clients \subseteq config.enabled /\ \A c \in mgr.cached : c.server \in mgr.clients
  BY DEF McpInv, McpTypes, Serving
<1>2. m \in Managers /\ m.next = mgr.next /\ m.clients = mgr.clients /\ m.cached = mgr.cached /\ m.pc = "ready"
  BY <1>1 DEF Managers
<1>3. \A t \in offers : t \in Tools /\ t.name = Offered(t.server, t.tool) /\ t.name # <<>> /\ t.server \in mgr.clients
  <2> SUFFICES ASSUME NEW t \in offers
      PROVE  t \in Tools /\ t.name = Offered(t.server, t.tool) /\ t.name # <<>> /\ t.server \in mgr.clients
    OBVIOUS
  <2>1. PICK c \in mgr.cached : t \in OffersOf(c)
    OBVIOUS
  <2>2. PICK n \in c.tools : t = [name |-> Offered(c.server, n), server |-> c.server, tool |-> n]
    BY <2>1
  <2>3. c.server \in McpServers /\ n \in McpNames /\ c.server \in mgr.clients
    BY <1>1, <2>1, <2>2 DEF Managers
  <2>4. Offered(c.server, n) \in Seq(Words) /\ Offered(c.server, n) # <<>>
    BY <2>3, OfferedIs
  <2> QED BY <2>2, <2>3, <2>4 DEF Tools
<1>4. kit' = [ready |-> TRUE, tools |-> offers] /\ mgr' = m /\ UNCHANGED <<config, called>> /\ mgr.pc = "connect"
  BY DEF BuildTools
<1> HIDE DEF m, offers
<1>5. ~kit.ready /\ called = NoCall
  BY <1>4, Connecting DEF McpInv, Serving
<1>6. kit' \in Toolkits
  BY <1>3, <1>4 DEF Toolkits
<1>7. ServersKnown' /\ McpTypes'
  BY <1>2, <1>4, <1>6 DEF McpInv, ServersKnown, McpTypes
<1>8. Serving'
  BY <1>1, <1>2, <1>3, <1>4 DEF Serving
<1>9. ToolsRouted'
  BY <1>3, <1>4, <1>5 DEF ToolsRouted, NoCall
<1> QED BY <1>7, <1>8, <1>9 DEF McpInv

LEMMA CleanupTools == ASSUME McpInv, Cleanup PROVE McpInv'
<1>1. (mgr' = NewManager \/ mgr' = mgr) /\ kit.ready /\ UNCHANGED <<config, kit, called>>
  BY DEF Cleanup
<1>2. ServersKnown' /\ McpTypes'
  BY <1>1, NewIsManager DEF McpInv, ServersKnown, McpTypes
<1>3. Serving'
  BY <1>1 DEF McpInv, Serving, NewManager
<1>4. ToolsRouted'
  BY <1>1 DEF McpInv, ToolsRouted, NewManager
<1> QED BY <1>2, <1>3, <1>4 DEF McpInv

LEMMA CallToolRouted == ASSUME McpInv, NEW tool \in kit.tools, CallTool(tool) PROVE McpInv'
<1>1. UNCHANGED <<config, mgr, kit>> /\ kit.ready
  BY DEF CallTool
<1>2. ServersKnown /\ McpTypes /\ Serving
  BY DEF McpInv
<1>3. PICK name : name = tool.name
  OBVIOUS
<1> DEFINE rest(s) == SubSeq(name, Len(Prefix(s)) + 1, Len(name))
<1>4. \/ Resolved(name) = {} /\ called' = [NoCall EXCEPT !.name = name, !.how = "unresolved"]
      \/ \E s \in Resolved(name) :
           called' = [name |-> name, at |-> s, tool |-> rest(s),
                      how |-> IF s \notin mgr.clients THEN "unconnected"
                              ELSE IF rest(s) \in McpNames THEN "ran" ELSE "unknown"]
  BY <1>3 DEF CallTool
<1>5. /\ called'.how \in {"unresolved", "unconnected", "unknown", "ran"} /\ called'.name = name
      /\ called'.how = "ran" => called'.at \in mgr.clients
  <2>1. CASE Resolved(name) = {} /\ called' = [NoCall EXCEPT !.name = name, !.how = "unresolved"]
    BY <2>1 DEF NoCall
  <2>2. CASE \E s \in Resolved(name) :
               called' = [name |-> name, at |-> s, tool |-> rest(s),
                          how |-> IF s \notin mgr.clients THEN "unconnected"
                                  ELSE IF rest(s) \in McpNames THEN "ran" ELSE "unknown"]
    BY <2>2
  <2> QED BY <1>4, <2>1, <2>2
<1>7. ASSUME NEW t \in kit.tools, t.name = name, Cardinality(Claimants(t.name)) = 1
      PROVE  /\ called'.how \in {"ran", "unconnected"} /\ called'.at = t.server /\ called'.tool = t.tool
             /\ called'.how = "unconnected" => mgr.pc = "new"
  <2>1. Resolved(name) = {t.server} /\ rest(t.server) = t.tool /\ t.tool \in McpNames
    BY <1>2, <1>7, RoutedTo
  <2>2. called' = [name |-> name, at |-> t.server, tool |-> t.tool,
                   how |-> IF t.server \notin mgr.clients THEN "unconnected" ELSE "ran"]
    BY <1>4, <2>1
  <2>3. t.server \notin mgr.clients => mgr.pc = "new"
    BY <1>1, <1>2, <1>7 DEF Serving
  <2> QED BY <2>2, <2>3
<1>8. ServersKnown' /\ McpTypes' /\ Serving'
  BY <1>1, <1>2, <1>5 DEF ServersKnown, McpTypes, Serving
<1>9. ToolsRouted'
  BY <1>1, <1>2, <1>5, <1>7 DEF ToolsRouted, Serving, Claimants
<1> QED BY <1>8, <1>9 DEF McpInv

LEMMA McpStep == ASSUME McpInv, [McpNext]_mcpVars PROVE McpInv'
<1>1. CASE UNCHANGED mcpVars
  BY <1>1 DEF mcpVars, McpInv, ServersKnown, McpTypes, Serving, ToolsRouted, Claimants
<1>2. CASE \E tool \in kit.tools : CallTool(tool)
  BY <1>2, CallToolRouted
<1> QED BY <1>1, <1>2, InitializeTools, SkipServerTools, ConnectTools, AbandonTools, BuildToolsTools, CleanupTools
           DEF McpNext

-----------------------------------------------------------------------------
(* The shell.  While a client polls for a command nobody disturbed, the     *)
(* pane has it in its queue or its prompt as the last block, and the        *)
(* refresh finds it there whatever has been scrolled away; or the session   *)
(* was made again and says nothing (PaneAgrees).                                *)

Steps == {"idle", "look", "dir", "interrupt", "again", "wait", "last", "reset", "remake", "cd", "type", "poll"}
OfExec == {"dir", "cd", "type", "poll"}
Rcs == Codes \cup {Killed, Exited}
Curs == [id : Codes, k : Nat, done : BOOLEAN, rc : Rcs]
Shells == [known : BOOLEAN, dead : BOOLEAN, cur : Curs]
Panes == [up : BOOLEAN, blocks : Seq(Codes), queue : Seq(Codes)]
ShellCalls == [op : {"none", "exec", "kill"}, pc : Steps, id : Codes, k : Nat]

Records == shell \in Shells /\ pane \in Panes
CallsMade == call \in [Clients -> ShellCalls] /\ made \in Codes /\ early \cup disturbed \subseteq 1..made
AnswersTrue == /\ told \in [1..MaxRequests -> Rcs \cup {Untold}]
               /\ \A i \in 1..MaxRequests : i > made => told[i] = Untold
IsCall(r, m) == /\ r.op = "exec" => r.id \in 1..m
                /\ r.op # "exec" => r.id = 0 /\ r.pc \notin OfExec
Issued == \A c \in Clients : IsCall(call[c], made)

Typed(sh, pn, i) ==
  \/ ~pn.up
  \/ pn.queue = <<i>> /\ Len(pn.blocks) <= sh.cur.k
  \/ pn.queue = <<>> /\ Len(pn.blocks) \in 1..(sh.cur.k + 1) /\ Last(pn.blocks) = i
PaneAgrees(sh, pn, i) ==
  sh.cur.id = 0 \/ (sh.cur.id = i /\ IF sh.cur.done THEN sh.cur.rc \in {i, Exited} ELSE Typed(sh, pn, i))
Watched(c) == call[c].pc = "poll" /\ call[c].id \notin early \cup disturbed => PaneAgrees(shell, pane, call[c].id)
Watching == \A c \in Clients : Watched(c)
ShellInv == Records /\ CallsMade /\ AnswersTrue /\ Issued /\ Watching /\ ExecHonest

LEMMA Endings ==
  ASSUME NEW cur \in Curs, NEW rc \in Rcs
  PROVE  /\ Ended(cur, rc) \in Curs /\ Ended(cur, rc).id = cur.id /\ Ended(cur, rc).k = cur.k
         /\ Ended(cur, rc).done
         /\ Ended(cur, rc).rc = IF cur.done THEN cur.rc ELSE rc
         /\ cur.done => Ended(cur, rc) = cur
<1>1. CASE cur.done
  BY <1>1 DEF Ended
<1>2. CASE ~cur.done
  <2>1. Ended(cur, rc) = [cur EXCEPT !.done = TRUE, !.rc = rc]
    BY <1>2 DEF Ended
  <2> QED BY <1>2, <2>1 DEF Curs
<1> QED BY <1>1, <1>2

LEMMA NewCur ==
  ASSUME NEW sh \in Shells, NEW cur \in Curs
  PROVE  /\ [sh EXCEPT !.cur = cur] \in Shells /\ [sh EXCEPT !.cur = cur].cur = cur
         /\ [sh EXCEPT !.dead = TRUE, !.cur = cur] \in Shells
         /\ [sh EXCEPT !.dead = TRUE, !.cur = cur].cur = cur
  BY DEF Shells

\* A refresh settles a command by its own prompt.
Refreshes(sh, new, pn) ==
  /\ new \in Shells /\ new.cur.id = sh.cur.id
  /\ \A i \in Nat : PaneAgrees(sh, pn, i) => PaneAgrees(new, pn, i)
LEMMA RefreshSettles == ASSUME Records PROVE Refreshes(shell, Refreshed, pane)
<1> DEFINE cur == shell.cur
           n == Len(pane.blocks)
<1>1. cur \in Curs /\ shell \in Shells /\ cur.k \in Nat /\ cur.done \in BOOLEAN
  BY DEF Records, Shells, Curs
<1>2. pane.blocks \in Seq(Codes) /\ n \in Nat /\ pane.up \in BOOLEAN
  BY DEF Records, Panes
<1> HIDE DEF cur
<1>3. ASSUME NEW rc \in Rcs, NEW new \in Shells, new.cur = Ended(cur, rc),
             \A i \in Nat : ~cur.done /\ Typed(shell, pane, i) => rc \in {i, Exited}
      PROVE  Refreshes(shell, new, pane)
  <2>1. /\ new.cur.id = cur.id /\ new.cur.done
        /\ new.cur.rc = IF cur.done THEN cur.rc ELSE rc
    BY <1>1, <1>3, Endings
  <2> QED BY <1>3, <2>1 DEF Refreshes, PaneAgrees, cur
<1>4. CASE ~pane.up
  <2>1. Refreshed = [shell EXCEPT !.dead = TRUE, !.cur = Ended(cur, Exited)]
    BY <1>4 DEF Refreshed, cur
  <2>2. Exited \in Rcs
    BY DEF Rcs
  <2>4. Refreshed \in Shells /\ Refreshed.cur = Ended(cur, Exited)
    BY <1>1, <2>1, <2>2, Endings, NewCur
  <2>5. \A i \in Nat : ~cur.done /\ Typed(shell, pane, i) => Exited \in {i, Exited}
    BY <2>2
  <2> QED BY <1>3, <2>2, <2>4, <2>5
<1>5. CASE pane.up /\ n > cur.k
  <2>1. Refreshed = [shell EXCEPT !.cur = Ended(cur, pane.blocks[cur.k + 1])]
    BY <1>5 DEF Refreshed, cur
  <2>2. pane.blocks[cur.k + 1] \in Rcs
    BY <1>1, <1>2, <1>5 DEF Rcs
  <2>3. \A i \in Nat : Typed(shell, pane, i) => pane.blocks[cur.k + 1] = i
    BY <1>1, <1>2, <1>5 DEF Typed, Last, cur
  <2>4. Refreshed \in Shells /\ Refreshed.cur = Ended(cur, pane.blocks[cur.k + 1])
    BY <1>1, <2>1, <2>2, Endings, NewCur
  <2>5. \A i \in Nat : ~cur.done /\ Typed(shell, pane, i) => pane.blocks[cur.k + 1] \in {i, Exited}
    BY <2>2, <2>3
  <2> QED BY <1>3, <2>2, <2>4, <2>5
<1>6. CASE pane.up /\ ~(n > cur.k) /\ n \in 1..(cur.k - 1) /\ pane.queue = <<>>
  <2>1. Refreshed = [shell EXCEPT !.cur = Ended(cur, Last(pane.blocks))]
    BY <1>6 DEF Refreshed, cur
  <2>2. Last(pane.blocks) \in Rcs
    BY <1>1, <1>2, <1>6 DEF Rcs, Last
  <2>3. \A i \in Nat : Typed(shell, pane, i) => Last(pane.blocks) = i
    BY <1>6 DEF Typed
  <2>4. Refreshed \in Shells /\ Refreshed.cur = Ended(cur, Last(pane.blocks))
    BY <1>1, <2>1, <2>2, Endings, NewCur
  <2>5. \A i \in Nat : ~cur.done /\ Typed(shell, pane, i) => Last(pane.blocks) \in {i, Exited}
    BY <2>2, <2>3
  <2> QED BY <1>3, <2>2, <2>4, <2>5
<1>7. CASE pane.up /\ ~(n > cur.k) /\ ~(n \in 1..(cur.k - 1) /\ pane.queue = <<>>)
  <2>1. Refreshed = shell
    BY <1>7 DEF Refreshed, cur
  <2> QED BY <1>1, <2>1 DEF Refreshes
<1> QED BY <1>4, <1>5, <1>6, <1>7

\* One call moves on, or is answered.
MovesCall(new, old, c) ==
  /\ new \in [Clients -> ShellCalls]
  /\ \A d \in Clients : d # c => new[d] = old[d]
LEMMA CallMoves ==
  ASSUME CallsMade, NEW c \in Clients, NEW pc \in Steps
  PROVE  /\ MovesCall([call EXCEPT ![c].pc = pc], call, c)
         /\ [call EXCEPT ![c].pc = pc][c].pc = pc
         /\ [call EXCEPT ![c].pc = pc][c].id = call[c].id
         /\ [call EXCEPT ![c].pc = pc][c].op = call[c].op
<1>1. call[c] \in ShellCalls /\ call \in [Clients -> ShellCalls]
  BY DEF CallsMade
<1>2. /\ [call[c] EXCEPT !.pc = pc] \in ShellCalls /\ [call[c] EXCEPT !.pc = pc].pc = pc
      /\ [call[c] EXCEPT !.pc = pc].id = call[c].id /\ [call[c] EXCEPT !.pc = pc].op = call[c].op
  BY <1>1 DEF ShellCalls
<1>3. [call EXCEPT ![c].pc = pc] = [call EXCEPT ![c] = [call[c] EXCEPT !.pc = pc]]
  BY <1>1
<1> QED BY <1>1, <1>2, <1>3 DEF MovesCall

LEMMA CallAnswered ==
  ASSUME CallsMade, NEW c \in Clients
  PROVE  /\ MovesCall([call EXCEPT ![c] = Idle], call, c) /\ [call EXCEPT ![c] = Idle][c] = Idle
         /\ Idle.pc = "idle" /\ Idle.id = 0 /\ Idle.op = "none" /\ Idle \in ShellCalls
<1>1. Idle \in ShellCalls /\ Idle.pc = "idle" /\ Idle.id = 0 /\ Idle.op = "none"
  BY ShellAssumption DEF Idle, ShellCalls, Codes, Steps
<1>2. call \in [Clients -> ShellCalls]
  BY DEF CallsMade
<1> QED BY <1>1, <1>2 DEF MovesCall

\* Steps that disturb nobody.
Counts == made' \in {made, made + 1} /\ made' \in Codes
LEMMA Undisturbed ==
  ASSUME ShellInv, Records', Counts, UNCHANGED <<early, disturbed>>, call' \in [Clients -> ShellCalls],
         \A d \in Clients : call'[d] = call[d] \/ (call'[d].pc # "poll" /\ IsCall(call'[d], made')),
         \A i \in Nat : PaneAgrees(shell, pane, i) => PaneAgrees(shell', pane', i)
  PROVE  CallsMade' /\ Issued' /\ Watching'
<1>1. made \in Nat /\ made' \in Nat /\ 1..made \subseteq 1..made'
  BY ShellAssumption DEF Counts, ShellInv, CallsMade, Codes
<1>2. CallsMade'
  BY <1>1 DEF ShellInv, CallsMade, Counts
<1>3. Issued'
  BY <1>1 DEF ShellInv, Issued, IsCall
<1>4. ASSUME NEW d \in Clients PROVE Watched(d)'
  <2>1. call[d].id \in Nat
    BY <1>1, ShellAssumption DEF ShellInv, CallsMade, ShellCalls, Codes
  <2> QED BY <1>4, <2>1 DEF ShellInv, Watching, Watched
<1> QED BY <1>2, <1>3, <1>4 DEF Watching

LEMMA AnswersStay ==
  ASSUME ShellInv, Counts, UNCHANGED told, early \cup disturbed \subseteq early' \cup disturbed'
  PROVE  AnswersTrue' /\ ExecHonest'
<1>1. made \in Nat /\ made' \in Nat /\ MaxRequests \in Nat /\ made' <= MaxRequests
  BY ShellAssumption DEF Counts, ShellInv, CallsMade, Codes
<1>2. AnswersTrue'
  BY <1>1 DEF ShellInv, AnswersTrue, Counts
<1>3. ASSUME NEW i \in (1..made') \ (early' \cup disturbed') PROVE told[i] \in {Untold, i, Exited}
  <2>1. CASE i <= made
    BY <1>1, <1>3, <2>1 DEF ShellInv, ExecHonest
  <2>2. CASE i > made
    BY <1>1, <1>3, <2>2 DEF ShellInv, AnswersTrue
  <2> QED BY <1>1, <2>1, <2>2
<1> QED BY <1>2, <1>3 DEF ExecHonest

\* Steps that type, interrupt or reset: every other client is disturbed by them.
LEMMA Disturbing ==
  ASSUME ShellInv, Records', Counts, NEW c \in Clients, MovesCall(call', call, c), Disturb(c),
         UNCHANGED told, early \subseteq early', early' \subseteq early \cup {call[c].id}, early' \subseteq 1..made,
         IsCall(call'[c], made'), Watched(c)'
  PROVE  ShellInv'
<1>1. made \in Nat /\ made' \in Nat /\ 1..made \subseteq 1..made'
  BY ShellAssumption DEF Counts, ShellInv, CallsMade, Codes
<1>2. \A d \in Clients : call[d].id \in 0..made
  BY <1>1 DEF ShellInv, Issued, IsCall, CallsMade, ShellCalls
<1>3. Others(c) \subseteq 1..made
  BY <1>1, <1>2 DEF Others
<1>4. CallsMade'
  BY <1>1, <1>3 DEF ShellInv, CallsMade, Counts, Disturb, MovesCall
<1>5. Issued'
  BY <1>1 DEF ShellInv, Issued, IsCall, MovesCall
<1>6. ASSUME NEW d \in Clients, d # c PROVE Watched(d)'
  <2>1. call'[d] = call[d]
    BY <1>6 DEF MovesCall
  <2>2. call[d].pc = "poll" => call[d].id \in 1..made
    BY <1>6 DEF ShellInv, Issued, IsCall, OfExec
  <2>3. call[d].pc = "poll" => call[d].id \in Others(c)
    BY <1>1, <1>6, <2>2 DEF Others
  <2> QED BY <2>1, <2>3 DEF Watched, Disturb
<1>7. AnswersTrue' /\ ExecHonest'
  <2>1. early \cup disturbed \subseteq early' \cup disturbed'
    BY DEF Disturb
  <2> QED BY <2>1, AnswersStay
<1> QED BY <1>4, <1>5, <1>6, <1>7 DEF ShellInv, Watching

LEMMA ShellInitInv == ShellInit => ShellInv
<1> SUFFICES ASSUME ShellInit PROVE ShellInv
  OBVIOUS
<1>1. 0 \in Codes /\ 0 \in Nat /\ TRUE \in BOOLEAN /\ FALSE \in BOOLEAN /\ <<>> \in Seq(Codes)
  BY ShellAssumption DEF Codes
<1>2. NoCur \in Curs
  BY <1>1 DEF NoCur, Curs, Rcs
<1>3. shell \in Shells
  BY <1>1, <1>2 DEF ShellInit, Shells
<1>4. pane \in Panes
  BY <1>1 DEF ShellInit, Panes
<1>5. Idle \in ShellCalls /\ Idle.op = "none" /\ Idle.pc = "idle" /\ Idle.id = 0
  BY <1>1 DEF Idle, ShellCalls, Steps
<1>6. CallsMade /\ Issued /\ Watching
  BY <1>1, <1>5 DEF ShellInit, CallsMade, Issued, IsCall, OfExec, Watching, Watched
<1>7. AnswersTrue /\ ExecHonest
  BY ShellAssumption DEF ShellInit, AnswersTrue, ExecHonest
<1> QED BY <1>3, <1>4, <1>6, <1>7 DEF ShellInv, Records

\* What bash does by itself.
LEMMA PaneMoves == ASSUME ShellInv, Finish \/ Dies \/ Scrolls PROVE ShellInv'
<1>1. UNCHANGED <<shell, call, made, told, early, disturbed>> /\ pane.up /\ pane.queue # <<>>
  BY DEF Finish, Dies, Scrolls
<1>2. Counts
  BY <1>1 DEF Counts, ShellInv, CallsMade
<1>3. pane \in Panes /\ pane.blocks \in Seq(Codes) /\ pane.queue \in Seq(Codes) /\ shell \in Shells
  BY DEF ShellInv, Records, Panes
<1>4. Head(pane.queue) \in Codes /\ Tail(pane.queue) \in Seq(Codes)
  BY <1>1, <1>3
<1>5. shell.cur.k \in Nat
  BY <1>3 DEF Shells, Curs
<1>6. pane' \in Panes /\ \A i \in Nat : Typed(shell, pane, i) => Typed(shell, pane', i)
  <2>1. CASE Finish
    <3>1. pane' = [pane EXCEPT !.blocks = Append(pane.blocks, Head(pane.queue)), !.queue = Tail(pane.queue)]
      BY <2>1 DEF Finish
    <3>2. Append(pane.blocks, Head(pane.queue)) \in Seq(Codes)
      BY <1>3, <1>4
    <3>3. /\ pane' \in Panes /\ pane'.blocks = Append(pane.blocks, Head(pane.queue))
          /\ pane'.queue = Tail(pane.queue)
      BY <1>3, <1>4, <3>1, <3>2 DEF Panes
    <3>4. ASSUME NEW i \in Nat, Typed(shell, pane, i) PROVE Typed(shell, pane', i)
      <4>1. pane.queue = <<i>> /\ Len(pane.blocks) <= shell.cur.k
        BY <1>1, <3>4 DEF Typed
      <4>2. pane'.queue = <<>> /\ Len(pane'.blocks) = Len(pane.blocks) + 1 /\ Last(pane'.blocks) = i
        BY <1>3, <3>3, <4>1 DEF Last
      <4> QED BY <1>3, <1>5, <4>1, <4>2 DEF Typed
    <3> QED BY <3>3, <3>4
  <2>2. CASE Dies
    <3>1. pane' = [pane EXCEPT !.up = FALSE, !.queue = <<>>]
      BY <2>2 DEF Dies
    <3>2. FALSE \in BOOLEAN /\ <<>> \in Seq(Codes)
      OBVIOUS
    <3>3. pane' \in Panes
      BY <1>3, <3>1, <3>2 DEF Panes
    <3>4. pane'.up = FALSE
      BY <1>3, <3>1 DEF Panes
    <3> QED BY <3>3, <3>4 DEF Typed
  <2>3. CASE Scrolls
    <3>1. pane' = [pane EXCEPT !.blocks = Tail(pane.blocks)] /\ pane.blocks # <<>>
      BY <2>3 DEF Scrolls
    <3>2. Tail(pane.blocks) \in Seq(Codes) /\ Len(Tail(pane.blocks)) = Len(pane.blocks) - 1 /\ Len(pane.blocks) \in Nat
      BY <1>3, <3>1
    <3>3. pane' \in Panes /\ pane'.blocks = Tail(pane.blocks) /\ pane'.queue = pane.queue
      BY <1>3, <3>1, <3>2 DEF Panes
    <3> QED BY <1>1, <1>5, <3>2, <3>3 DEF Typed
  <2> QED BY <2>1, <2>2, <2>3
<1>7. \A i \in Nat : PaneAgrees(shell, pane, i) => PaneAgrees(shell', pane', i)
  BY <1>1, <1>6 DEF PaneAgrees
<1>8. Records'
  BY <1>1, <1>6 DEF ShellInv, Records
<1>9. CallsMade' /\ Issued' /\ Watching'
  BY <1>1, <1>2, <1>7, <1>8, Undisturbed DEF ShellInv, CallsMade
<1>10. AnswersTrue' /\ ExecHonest'
  BY <1>1, <1>2, AnswersStay
<1> QED BY <1>8, <1>9, <1>10 DEF ShellInv

\* What a request adds to nothing: a pane and a shell that say nothing of any command.
LEMMA Ensured ==
  ASSUME Records, Ensure
  PROVE  Records' /\ \A i \in Nat : PaneAgrees(shell, pane, i) => PaneAgrees(shell', pane', i)
<1>1. CASE shell.known /\ ~shell.dead
  BY <1>1 DEF Ensure, Records
<1>2. CASE ~(shell.known /\ ~shell.dead)
  <2>1. 0 \in Codes /\ 0 \in Nat /\ TRUE \in BOOLEAN /\ FALSE \in BOOLEAN /\ <<>> \in Seq(Codes)
    BY ShellAssumption DEF Codes
  <2>2. NoCur \in Curs /\ NoCur.id = 0
    BY <2>1 DEF NoCur, Curs, Rcs
  <2>3. shell' = [known |-> TRUE, dead |-> FALSE, cur |-> NoCur]
    BY <1>2 DEF Ensure
  <2>4. shell' \in Shells /\ shell'.cur = NoCur
    BY <2>1, <2>2, <2>3 DEF Shells
  <2>5. <<0>> \in Seq(Codes)
    BY <2>1
  <2>6. \E b \in Seq(Codes) : b = <<0>>
    BY <2>5
  <2>7. \E q \in Seq(Codes) : q = <<>>
    BY <2>1
  <2>8. PICK b \in Seq(Codes), q \in Seq(Codes) : b = <<0>> /\ q = <<>>
    BY <2>6, <2>7
  <2>9. pane' = [up |-> TRUE, blocks |-> b, queue |-> q]
    BY <1>2, <2>8 DEF Ensure, NewPane
  <2>10. pane' \in Panes
    BY <2>1, <2>8, <2>9 DEF Panes
  <2> QED BY <2>2, <2>4, <2>10 DEF Records, PaneAgrees
<1> QED BY <1>1, <1>2

\* The steps of a request that type nothing.
Quietly(c) == /\ UNCHANGED <<told, early, disturbed>> /\ Counts
              /\ MovesCall(call', call, c)
              /\ call'[c] = call[c] \/ (call'[c].pc # "poll" /\ IsCall(call'[c], made'))
LEMMA QuietSteps ==
  ASSUME ShellInv, NEW c \in Clients, Quietly(c),
         (UNCHANGED pane /\ shell' \in {shell, Refreshed}) \/ Ensure
  PROVE  ShellInv'
<1>1. Records' /\ \A i \in Nat : PaneAgrees(shell, pane, i) => PaneAgrees(shell', pane', i)
  <2>1. CASE UNCHANGED pane /\ shell' \in {shell, Refreshed}
    BY <2>1, RefreshSettles DEF ShellInv, Records, Refreshes
  <2>2. CASE Ensure
    BY <2>2, Ensured DEF ShellInv
  <2> QED BY <2>1, <2>2
<1>2. \A d \in Clients : call'[d] = call[d] \/ (call'[d].pc # "poll" /\ IsCall(call'[d], made'))
  BY DEF Quietly, MovesCall
<1>3. CallsMade' /\ Issued' /\ Watching'
  BY <1>1, <1>2, Undisturbed DEF Quietly, MovesCall
<1>4. AnswersTrue' /\ ExecHonest'
  BY AnswersStay DEF Quietly
<1> QED BY <1>1, <1>3, <1>4 DEF ShellInv

LEMMA MovesQuietly ==
  ASSUME ShellInv, NEW c \in Clients, UNCHANGED <<made, told, early, disturbed>>,
         \/ Answer(c)
         \/ \E pc \in Steps \ {"poll"} : Goto(c, pc) /\ (pc \in OfExec => call[c].op = "exec")
         \/ UNCHANGED call
  PROVE  Quietly(c)
<1>1. Counts
  BY DEF Counts, ShellInv, CallsMade
<1>2. IsCall(call[c], made) /\ CallsMade /\ call \in [Clients -> ShellCalls]
  BY DEF ShellInv, Issued, CallsMade
<1>3. CASE Answer(c)
  <2>1. MovesCall(call', call, c) /\ call'[c] = Idle
    BY <1>2, <1>3, CallAnswered DEF Answer
  <2>2. Idle.pc = "idle" /\ Idle.id = 0 /\ Idle.op = "none"
    BY <1>2, CallAnswered
  <2> QED BY <1>1, <2>1, <2>2 DEF Quietly, IsCall, OfExec
<1>4. ASSUME NEW pc \in Steps \ {"poll"}, Goto(c, pc), pc \in OfExec => call[c].op = "exec"
      PROVE  Quietly(c)
  <2>1. /\ MovesCall(call', call, c) /\ call'[c].pc = pc /\ call'[c].id = call[c].id
        /\ call'[c].op = call[c].op
    BY <1>2, <1>4, CallMoves DEF Goto
  <2> QED BY <1>1, <1>2, <1>4, <2>1 DEF Quietly, IsCall, OfExec
<1>5. CASE UNCHANGED call
  BY <1>1, <1>2, <1>5 DEF Quietly, MovesCall
<1> QED BY <1>3, <1>4, <1>5

\* The steps of a request in its order; what it is, it keeps.
LEMMA QuietRequests ==
  ASSUME ShellInv, NEW c \in Clients,
         \/ Look(c) \/ PromptIsBack(c) \/ NotInterrupted(c) \/ Remake(c) \/ HiddenDone(c)
         \/ Fails(c) \/ EnsureAgain(c) \/ StillRunning(c) \/ View(c)
  PROVE  ShellInv'
<1>1. call[c].pc \in OfExec => call[c].op = "exec"
  BY DEF ShellInv, Issued, IsCall
<1>2. {"interrupt", "dir", "again", "reset", "type"} \subseteq Steps \ {"poll"}
  BY DEF Steps
<1>3. UNCHANGED <<made, told, early, disturbed>>
  BY DEF Look, PromptIsBack, NotInterrupted, Remake, HiddenDone, Fails, EnsureAgain, StillRunning, View
<1>4. (UNCHANGED pane /\ shell' \in {shell, Refreshed}) \/ Ensure
  BY DEF Look, PromptIsBack, NotInterrupted, Remake, HiddenDone, Fails, EnsureAgain, StillRunning, View, Refresh
<1>5. \/ Answer(c)
      \/ \E pc \in Steps \ {"poll"} : Goto(c, pc) /\ (pc \in OfExec => call[c].op = "exec")
      \/ UNCHANGED call
  <2>1. CASE Look(c) \/ PromptIsBack(c) \/ Remake(c)
    <3>1. Answer(c) \/ Goto(c, "interrupt") \/ (call[c].op = "exec" /\ Goto(c, "dir"))
      BY <2>1 DEF Look, PromptIsBack, Remake
    <3>2. "interrupt" \notin OfExec
      BY DEF OfExec
    <3> QED BY <1>2, <3>1, <3>2
  <2>2. CASE NotInterrupted(c)
    <3>1. Goto(c, "again") \/ Goto(c, "reset")
      BY <2>2 DEF NotInterrupted
    <3>2. "again" \notin OfExec /\ "reset" \notin OfExec
      BY DEF OfExec
    <3> QED BY <1>2, <3>1, <3>2
  <2>3. CASE HiddenDone(c)
    <3>1. Goto(c, "type") /\ call[c].op = "exec"
      BY <1>1, <2>3 DEF HiddenDone, OfExec
    <3> QED BY <1>2, <3>1
  <2>4. CASE Fails(c) \/ EnsureAgain(c) \/ StillRunning(c) \/ View(c)
    BY <2>4 DEF Fails, EnsureAgain, StillRunning, View
  <2> QED BY <2>1, <2>2, <2>3, <2>4
<1>6. Quietly(c)
  BY <1>3, <1>5, MovesQuietly
<1> QED BY <1>4, <1>6, QuietSteps

LEMMA RequestsKeep == ASSUME ShellInv, NEW c \in Clients, Exec(c) \/ Kill(c) PROVE ShellInv'
<1>1. made \in Nat /\ made' = made + 1 /\ MaxRequests \in Nat /\ made' \in Codes
  BY ShellAssumption DEF Exec, Kill, Request, ShellInv, CallsMade, Codes
<1>2. PICK asked \in {"exec", "kill"} :
        call' = [call EXCEPT ![c] = [op |-> asked, pc |-> "look", k |-> 0, id |-> IF asked = "exec" THEN made + 1 ELSE 0]]
  BY DEF Exec, Kill, Request
<1>3. PICK id \in Codes : id = IF asked = "exec" THEN made + 1 ELSE 0
  BY <1>1, ShellAssumption DEF Codes
<1>4. PICK r : r = [op |-> asked, pc |-> "look", k |-> 0, id |-> id]
  OBVIOUS
<1>5. r \in ShellCalls /\ r.op = asked /\ r.pc = "look" /\ r.id = id
  BY <1>4 DEF ShellCalls, Steps
<1>6. call' = [call EXCEPT ![c] = r] /\ call \in [Clients -> ShellCalls]
  BY <1>2, <1>3, <1>4 DEF ShellInv, CallsMade
<1>7. MovesCall(call', call, c) /\ call'[c] = r
  BY <1>5, <1>6 DEF MovesCall
<1>8. IsCall(r, made')
  BY <1>1, <1>3, <1>5 DEF IsCall, OfExec
<1>9. UNCHANGED <<told, early, disturbed>> /\ ((UNCHANGED pane /\ shell' \in {shell, Refreshed}) \/ Ensure)
  BY DEF Exec, Kill
<1>10. Quietly(c)
  BY <1>1, <1>5, <1>7, <1>8, <1>9 DEF Quietly, Counts
<1> QED BY <1>9, <1>10, QuietSteps

\* Keys sent to the pane.
LEMMA QueueKinds ==
  ASSUME Records
  PROVE  /\ pane \in Panes /\ pane.queue \in Seq(Codes) /\ pane.blocks \in Seq(Codes)
         /\ AfterCtrlC \in Seq(Codes) /\ \A i \in Codes : Append(pane.queue, i) \in Seq(Codes)
         /\ 0 \in Codes
<1>1. pane \in Panes /\ pane.queue \in Seq(Codes) /\ pane.blocks \in Seq(Codes)
  BY DEF Records, Panes
<1>2. 0 \in Codes
  BY ShellAssumption DEF Codes
<1>3. AfterCtrlC \in Seq(Codes)
  <2>1. pane.queue # <<>> => Head(pane.queue) \in Codes
    BY <1>1
  <2> QED BY <1>1, <1>2, <2>1 DEF AfterCtrlC
<1>4. \A i \in Codes : Append(pane.queue, i) \in Seq(Codes)
  BY <1>1
<1> QED BY <1>1, <1>2, <1>3, <1>4

LEMMA QueueSet ==
  ASSUME Records, NEW q \in Seq(Codes), pane' = [pane EXCEPT !.queue = q]
  PROVE  pane' \in Panes /\ pane'.queue = q /\ pane'.blocks = pane.blocks /\ pane'.up = pane.up
  BY DEF Records, Panes

LEMMA KeysSent ==
  ASSUME ShellInv, NEW c \in Clients, Interrupt(c) \/ HardReset(c) \/ WriteInput(c)
  PROVE  ShellInv'
<1>1. Records /\ CallsMade /\ IsCall(call[c], made)
  BY DEF ShellInv, Issued
<1>2. Records'
  <2>1. CASE Interrupt(c)
    <3>1. UNCHANGED shell /\ (UNCHANGED pane \/ pane' = [pane EXCEPT !.queue = AfterCtrlC])
      BY <2>1 DEF Interrupt
    <3> QED BY <1>1, <3>1, QueueKinds, QueueSet DEF Records
  <2>2. CASE WriteInput(c)
    <3>1. shell' \in Shells
      BY <1>1, <2>2, RefreshSettles DEF WriteInput, Refresh, Refreshes
    <3>2. AfterCtrlC \in Seq(Codes) /\ Append(pane.queue, 0) \in Seq(Codes) /\ pane \in Panes
      BY <1>1, QueueKinds
    <3>3. pane' \in Panes
      <4>1. \/ UNCHANGED pane
            \/ pane' = [pane EXCEPT !.queue = AfterCtrlC]
            \/ pane' = [pane EXCEPT !.queue = Append(pane.queue, 0)]
        BY <2>2 DEF WriteInput
      <4> QED BY <1>1, <3>2, <4>1, QueueSet
    <3> QED BY <3>1, <3>3 DEF Records
  <2>3. CASE HardReset(c)
    <3>1. shell.cur \in Curs /\ Killed \in Rcs /\ shell \in Shells
      BY <1>1 DEF Records, Shells, Rcs
    <3>2. Ended(shell.cur, Killed) \in Curs
      BY <3>1, Endings
    <3>3. shell' = [shell EXCEPT !.cur = Ended(shell.cur, Killed), !.dead = TRUE]
      BY <2>3 DEF HardReset
    <3>4. shell' \in Shells
      BY <3>1, <3>2, <3>3 DEF Shells
    <3>5. FALSE \in BOOLEAN /\ <<>> \in Seq(Codes)
      OBVIOUS
    <3>6. pane' \in Panes
      BY <1>1, <2>3, <3>5 DEF HardReset, Records, Panes
    <3> QED BY <3>4, <3>6 DEF Records
  <2> QED BY <2>1, <2>2, <2>3
<1>3. Counts
  <2>1. made + 1 \in Codes \/ ~WriteInput(c)
    BY <1>1, ShellAssumption DEF WriteInput, CallsMade, Codes
  <2> QED BY <1>1, <2>1 DEF Interrupt, HardReset, WriteInput, Counts, CallsMade
<1>4. Disturb(c) /\ UNCHANGED <<told, early>>
  BY DEF Interrupt, HardReset, WriteInput
<1>5. MovesCall(call', call, c) /\ IsCall(call'[c], made') /\ call'[c].pc # "poll"
  <2>1. CASE UNCHANGED call
    <3>1. call[c].pc # "poll"
      <4>1. Idle.pc = "idle"
        BY DEF Idle
      <4> QED BY <2>1, <4>1 DEF Interrupt, HardReset, WriteInput
    <3>2. IsCall(call[c], made')
      BY <1>1, <1>3, ShellAssumption DEF IsCall, Counts, CallsMade, Codes
    <3> QED BY <1>1, <2>1, <3>1, <3>2 DEF MovesCall, CallsMade
  <2>2. CASE Answer(c)
    BY <1>1, <2>2, CallAnswered DEF Answer, IsCall, OfExec
  <2>3. ASSUME NEW pc \in {"last", "wait", "remake"}, Goto(c, pc), made' = made
        PROVE  MovesCall(call', call, c) /\ IsCall(call'[c], made') /\ call'[c].pc # "poll"
    <3>1. /\ MovesCall(call', call, c) /\ call'[c].pc = pc /\ call'[c].id = call[c].id
          /\ call'[c].op = call[c].op
      <4>1. pc \in Steps
        BY DEF Steps
      <4> QED BY <1>1, <2>3, <4>1, CallMoves DEF Goto
    <3> QED BY <1>1, <2>3, <3>1 DEF IsCall, OfExec
  <2>4. UNCHANGED call \/ Answer(c) \/ (made' = made /\ \E pc \in {"last", "wait", "remake"} : Goto(c, pc))
    BY DEF Interrupt, HardReset, WriteInput
  <2> QED BY <2>1, <2>2, <2>3, <2>4
<1>6. Watched(c)'
  BY <1>5 DEF Watched
<1>7. early' \subseteq 1..made
  BY <1>1, <1>4 DEF CallsMade
<1> QED BY <1>2, <1>3, <1>4, <1>5, <1>6, <1>7, Disturbing

\* The cd and the command itself.
LEMMA Typing == ASSUME ShellInv, NEW c \in Clients, Hidden(c) \/ Type(c) PROVE ShellInv'
<1>1. Records /\ CallsMade /\ IsCall(call[c], made) /\ shell \in Shells /\ call[c] \in ShellCalls
  BY DEF ShellInv, Issued, Records, CallsMade
<1>2. call[c].op = "exec" /\ call[c].id \in 1..made /\ call[c].id \in Codes
  BY <1>1 DEF Hidden, Type, IsCall, OfExec, ShellCalls
<1>3. Len(pane.blocks) \in Nat /\ pane.blocks \in Seq(Codes) /\ pane.queue \in Seq(Codes)
  BY <1>1, QueueKinds
<1>4. Counts /\ Disturb(c) /\ UNCHANGED told
  BY <1>1 DEF Hidden, Type, Counts, CallsMade
<1>5. CASE Hidden(c)
  <2>1. Records'
    BY <1>1, <1>5, QueueKinds, QueueSet DEF Hidden, Records
  <2>2. PICK r : r = [call[c] EXCEPT !.pc = "cd", !.k = Len(pane.blocks)]
    OBVIOUS
  <2>3. r \in ShellCalls /\ r.pc = "cd" /\ r.op = call[c].op /\ r.id = call[c].id
    BY <1>1, <1>3, <2>2 DEF ShellCalls, Steps
  <2>4. call' = [call EXCEPT ![c] = r] /\ UNCHANGED <<early, made>>
    BY <1>5, <2>2 DEF Hidden
  <2>5. MovesCall(call', call, c) /\ call'[c] = r
    BY <1>1, <2>3, <2>4 DEF MovesCall, CallsMade
  <2>6. IsCall(call'[c], made') /\ Watched(c)' /\ early' \subseteq 1..made
    BY <1>1, <1>2, <2>3, <2>4, <2>5 DEF IsCall, Watched, CallsMade
  <2> QED BY <1>4, <2>1, <2>4, <2>5, <2>6, Disturbing
<1>6. CASE Type(c)
  <2>1. PICK id \in 1..made : id = call[c].id /\ id \in Codes
    BY <1>2
  <2>2. PICK cur : cur = [id |-> id, k |-> Len(pane.blocks), done |-> FALSE, rc |-> 0]
    OBVIOUS
  <2>3. cur \in Curs /\ cur.id = id /\ cur.k = Len(pane.blocks) /\ cur.done = FALSE
    <3>1. FALSE \in BOOLEAN /\ 0 \in Rcs
      BY ShellAssumption DEF Rcs, Codes
    <3> QED BY <1>3, <2>1, <2>2, <3>1 DEF Curs
  <2>4. shell' = [shell EXCEPT !.cur = cur] /\ pane' = [pane EXCEPT !.queue = Append(pane.queue, id)]
    BY <1>6, <2>1, <2>2 DEF Type
  <2>5. shell' \in Shells /\ shell'.cur = cur
    BY <1>1, <2>3, <2>4, NewCur
  <2>6. pane' \in Panes /\ pane'.queue = Append(pane.queue, id) /\ pane'.blocks = pane.blocks
    BY <1>1, <2>1, <2>4, QueueKinds, QueueSet
  <2>7. /\ MovesCall(call', call, c) /\ call'[c].pc = "poll" /\ call'[c].id = id
        /\ call'[c].op = "exec"
    <3>1. "poll" \in Steps
      BY DEF Steps
    <3>2. call' = [call EXCEPT ![c].pc = "poll"]
      BY <1>6 DEF Type, Goto
    <3> QED BY <1>1, <1>2, <2>1, <3>1, <3>2, CallMoves
  <2>8. made' = made /\ early' = IF pane.queue = <<>> THEN early ELSE early \cup {id}
    BY <1>6, <2>1 DEF Type
  <2>9. IsCall(call'[c], made') /\ early \subseteq early' /\ early' \subseteq early \cup {call[c].id} /\ early' \subseteq 1..made
    BY <1>1, <2>1, <2>7, <2>8 DEF IsCall, CallsMade
  <2>10. Watched(c)'
    <3>1. CASE pane.queue = <<>>
      <4>1. pane'.queue = <<id>>
        BY <2>6, <3>1
      <4> QED BY <1>3, <2>3, <2>5, <2>6, <2>7, <4>1 DEF Watched, PaneAgrees, Typed
    <3>2. CASE pane.queue # <<>>
      BY <2>7, <2>8, <3>2 DEF Watched
    <3> QED BY <3>1, <3>2
  <2>11. Records'
    BY <2>5, <2>6 DEF Records
  <2> QED BY <1>4, <2>7, <2>9, <2>10, <2>11, Disturbing
<1> QED BY <1>5, <1>6

\* The answer of a command nobody disturbed is its own.
LEMMA Answering == ASSUME ShellInv, NEW c \in Clients, Completed(c) PROVE ShellInv'
<1>1. /\ call[c].pc = "poll" /\ shell' = Refreshed /\ shell'.cur.done /\ Answer(c)
      /\ UNCHANGED <<pane, made, early, disturbed>>
      /\ told' = IF shell'.cur.id = 0 THEN told ELSE [told EXCEPT ![call[c].id] = shell'.cur.rc]
  BY DEF Completed, Refresh
<1>2. PICK i \in 1..made : i = call[c].id
  BY <1>1 DEF ShellInv, Issued, IsCall, OfExec
<1>3. made \in Nat /\ made <= MaxRequests /\ MaxRequests \in Nat /\ i \in Nat
  BY ShellAssumption DEF ShellInv, CallsMade, Codes
<1>4. shell' \in Shells /\ shell'.cur.rc \in Rcs /\ \A j \in Nat : PaneAgrees(shell, pane, j) => PaneAgrees(shell', pane', j)
  <2>1. shell' \in Shells /\ \A j \in Nat : PaneAgrees(shell, pane, j) => PaneAgrees(shell', pane', j)
    BY <1>1, RefreshSettles DEF ShellInv, Refreshes
  <2> QED BY <2>1 DEF Shells, Curs
<1>5. Records'
  BY <1>1, <1>4 DEF ShellInv, Records
<1>6. /\ call' \in [Clients -> ShellCalls]
      /\ \A d \in Clients : call'[d] = call[d] \/ (call'[d].pc # "poll" /\ IsCall(call'[d], made'))
  <2>1. MovesCall(call', call, c) /\ call'[c] = Idle /\ Idle.pc = "idle" /\ Idle.id = 0 /\ Idle.op = "none"
    BY <1>1, CallAnswered DEF Answer, ShellInv
  <2> QED BY <2>1 DEF MovesCall, IsCall, OfExec
<1>7. Counts
  BY <1>1 DEF Counts, ShellInv, CallsMade
<1>8. CallsMade' /\ Issued' /\ Watching'
  BY <1>1, <1>4, <1>5, <1>6, <1>7, Undisturbed
<1>9. AnswersTrue'
  BY <1>1, <1>2, <1>3, <1>4 DEF ShellInv, AnswersTrue
<1>10. ExecHonest'
  <2> SUFFICES ASSUME NEW j \in (1..made) \ (early \cup disturbed)
               PROVE  told'[j] \in {Untold, j, Exited}
    BY <1>1 DEF ExecHonest
  <2>1. told[j] \in {Untold, j, Exited} /\ j \in 1..MaxRequests
    BY <1>3 DEF ShellInv, ExecHonest
  <2>2. CASE j # i \/ shell'.cur.id = 0
    BY <1>1, <1>2, <2>1, <2>2 DEF ShellInv, AnswersTrue
  <2>3. CASE j = i /\ shell'.cur.id # 0
    <3>1. PaneAgrees(shell', pane', i)
      BY <1>1, <1>2, <1>3, <1>4, <2>3 DEF ShellInv, Watching, Watched
    <3>2. shell'.cur.rc \in {i, Exited}
      BY <1>1, <2>3, <3>1 DEF PaneAgrees
    <3> QED BY <1>1, <1>2, <2>1, <2>3, <3>2 DEF ShellInv, AnswersTrue
  <2> QED BY <2>2, <2>3
<1> QED BY <1>5, <1>8, <1>9, <1>10 DEF ShellInv

LEMMA ShellStep == ShellInv /\ [ShellNext]_shellVars => ShellInv'
<1> SUFFICES ASSUME ShellInv, [ShellNext]_shellVars PROVE ShellInv'
  OBVIOUS
<1>1. CASE UNCHANGED shellVars
  <2>1. UNCHANGED <<shell, pane, call, made, told, early, disturbed>>
    BY <1>1 DEF shellVars
  <2>2. Records' /\ CallsMade' /\ AnswersTrue' /\ Issued' /\ ExecHonest'
    BY <2>1 DEF ShellInv, Records, CallsMade, AnswersTrue, Issued, ExecHonest
  <2>3. Watching'
    BY <2>1 DEF ShellInv, Watching, Watched
  <2> QED BY <2>2, <2>3 DEF ShellInv
<1>2. CASE \E c \in Clients : \/ Exec(c) \/ Kill(c) \/ Interrupt(c) \/ HardReset(c) \/ WriteInput(c)
                             \/ Hidden(c) \/ Type(c) \/ Completed(c)
  BY <1>2, RequestsKeep, KeysSent, Typing, Answering
<1>3. CASE \E c \in Clients : \/ Look(c) \/ PromptIsBack(c) \/ NotInterrupted(c) \/ Remake(c) \/ HiddenDone(c)
                             \/ Fails(c) \/ EnsureAgain(c) \/ StillRunning(c) \/ View(c)
  BY <1>3, QuietRequests
<1> QED BY <1>1, <1>2, <1>3, PaneMoves DEF ShellNext

LEMMA ShellTyped == ASSUME ShellInv PROVE ShellTypeOK
<1>1. shell \in [known : BOOLEAN, dead : BOOLEAN,
                  cur : [id : Codes, k : Nat, done : BOOLEAN, rc : Codes \cup {Killed, Exited}]]
  BY DEF ShellInv, Records, Shells, Curs, Rcs
<1>2. pane.up \in BOOLEAN /\ pane.blocks \in Seq(Codes) /\ pane.queue \in Seq(Codes)
  BY DEF ShellInv, Records, Panes
<1>3. \A c \in Clients : call[c].id \in 0..made
  BY ShellAssumption DEF ShellInv, CallsMade, Issued, IsCall, ShellCalls, Codes
<1>4. told \in [1..MaxRequests -> Codes \cup {Killed, Exited, Untold}]
  <2>1. Rcs \cup {Untold} = Codes \cup {Killed, Exited, Untold}
    BY DEF Rcs
  <2> QED BY <2>1 DEF ShellInv, AnswersTrue
<1> QED BY <1>1, <1>2, <1>3, <1>4 DEF ShellInv, CallsMade, ShellTypeOK

-----------------------------------------------------------------------------
(* The sandbox's deadline.  A shutdown that is under way before anything is *)
(* asked of supervisord is what DeadlineKept says of the one that happened. *)

Waking == state = "up" /\ "timeout" \in rpcs => (active /\ deadline = 0) \/ overtaken
TimerInv == TimerTypeOK /\ DeadlineKept /\ Waking

LEMMA TimerInitInv == TimerInit => TimerInv
<1> SUFFICES ASSUME TimerInit PROVE TimerInv
  OBVIOUS
<1>1. default \in Nat /\ active = (default > 0) /\ auto = TRUE /\ timers = {default} \ {0} /\ deadline = default
  BY TimerAssumption DEF TimerInit
<1>2. (default > 0) \in BOOLEAN /\ TRUE \in BOOLEAN /\ FALSE \in BOOLEAN
  OBVIOUS
<1>3. active \in BOOLEAN /\ auto \in BOOLEAN /\ overtaken \in BOOLEAN
  BY <1>1, <1>2 DEF TimerInit
<1>4. TimerTypeOK
  BY <1>1, <1>3, TimerAssumption DEF TimerInit, TimerTypeOK
<1>5. rpcs = {} /\ state = "up"
  BY DEF TimerInit
<1>6. active <=> default > 0
  BY <1>1
<1>7. DeadlineKept /\ Waking
  BY <1>1, <1>5, <1>6 DEF DeadlineKept, Waking
<1> QED BY <1>4, <1>7 DEF TimerInv

\* A deadline moved, by any of its writers.
LEMMA DeadlineMoves ==
  ASSUME TimerInv, state = "up", UNCHANGED <<default, state>>, Overtakes, rpcs' \subseteq rpcs, Counted,
         NEW m \in Nat, deadline' = m, active' \in BOOLEAN, auto' \in BOOLEAN,
         timers' \subseteq {m}, ~active' => timers' = {}, active' /\ m > 0 => timers' # {}
  PROVE  TimerInv'
<1>1. overtaken' \in BOOLEAN
  BY DEF Overtakes, TimerInv, TimerTypeOK
<1>2. sets' \in 0..MaxSets
  BY TimerAssumption DEF Counted, TimerInv, TimerTypeOK
<1>4. TimerTypeOK'
  BY <1>1, <1>2 DEF TimerInv, TimerTypeOK
<1>5. "timeout" \in rpcs' => overtaken'
  BY DEF Overtakes
<1>6. timers' \subseteq (IF active' THEN {deadline'} ELSE {})
  OBVIOUS
<1>7. active' /\ deadline' > 0 => timers' # {}
  OBVIOUS
<1> QED BY <1>4, <1>5, <1>6, <1>7 DEF TimerInv, DeadlineKept, Waking

\* There is never a task asleep but the one of the deadline.
LEMMA OneSleeper == ASSUME TimerInv PROVE timers \ {deadline} = {} /\ Minutes \subseteq Nat
  BY TimerAssumption DEF TimerInv, DeadlineKept

LEMMA TimerStep == TimerInv /\ [TimerNext]_timerVars => TimerInv'
<1> SUFFICES ASSUME TimerInv, [TimerNext]_timerVars PROVE TimerInv'
  OBVIOUS
<1>1. ASSUME NEW m \in Nat \ {0}, SetTimer(m), state = "up", UNCHANGED <<default, state, rpcs>>, Counted,
             auto' \in BOOLEAN
      PROVE  TimerInv'
  <2>1. deadline' = m /\ active' = TRUE /\ Overtakes /\ timers' = {m}
    BY <1>1, OneSleeper DEF SetTimer
  <2>3. m \in Nat /\ rpcs' \subseteq rpcs /\ active' \in BOOLEAN
    BY <1>1, <2>1
  <2> QED BY <1>1, <2>1, <2>3, DeadlineMoves
<1>2. CASE Extend
  <2>1. PICK m \in Minutes : (IF m = 0 THEN default ELSE m) # 0 /\ SetTimer(IF m = 0 THEN default ELSE m)
    BY <1>2 DEF Extend
  <2>2. (IF m = 0 THEN default ELSE m) \in Nat \ {0}
    BY <2>1, OneSleeper DEF TimerInv, TimerTypeOK
  <2> QED BY <1>1, <1>2, <2>1, <2>2 DEF Extend
<1>3. CASE AutoExtend
  <2>1. default \in Nat \ {0} /\ auto' \in BOOLEAN
    BY <1>3, OneSleeper DEF AutoExtend, TimerInv, TimerTypeOK
  <2> QED BY <1>1, <1>3, <2>1 DEF AutoExtend
<1>4. CASE Cancel
  <2>1. /\ timers' = {} /\ active' = FALSE /\ auto' = TRUE /\ deadline' = 0 /\ Overtakes /\ Counted
        /\ state = "up" /\ UNCHANGED <<default, rpcs, state>>
    BY <1>4, OneSleeper DEF Cancel
  <2>3. 0 \in Nat /\ active' \in BOOLEAN /\ auto' \in BOOLEAN /\ rpcs' \subseteq rpcs
    BY <2>1
  <2> QED BY <2>1, <2>3, DeadlineMoves
<1>5. CASE AppRestart
  <2>1. /\ active' = (default > 0) /\ auto' = TRUE /\ deadline' = default /\ timers' = {default} \ {0}
        /\ Overtakes /\ Counted /\ rpcs' \subseteq rpcs /\ state = "up" /\ UNCHANGED <<default, state>>
    BY <1>5 DEF AppRestart, Fresh
  <2>2. default \in Nat
    BY OneSleeper DEF TimerInv, TimerTypeOK
  <2>3. active' \in BOOLEAN /\ auto' \in BOOLEAN
    BY <2>1
  <2>4. active' <=> default > 0
    BY <2>1
  <2>5. timers' \subseteq {default} /\ (~active' => timers' = {}) /\ (active' /\ default > 0 => timers' # {})
    BY <2>1, <2>2, <2>4
  <2> QED BY <2>1, <2>2, <2>3, <2>5, DeadlineMoves
<1>6. CASE Tick
  <2>1. /\ state = "up" /\ 0 \notin timers /\ deadline \in Nat /\ deadline > 0 /\ deadline' = deadline - 1
        /\ timers' = {t - 1 : t \in timers} /\ UNCHANGED <<default, active, auto, rpcs, overtaken, state, sets>>
    BY <1>6 DEF Tick, TimerInv, TimerTypeOK
  <2>2. timers' \subseteq (IF active THEN {deadline'} ELSE {})
    BY <2>1 DEF TimerInv, DeadlineKept
  <2>3. active => timers' # {}
    BY <2>1 DEF TimerInv, DeadlineKept
  <2>4. deadline' \in Nat
    BY <2>1
  <2>5. timers' \subseteq Nat
    BY <2>2, <2>4
  <2>6. TimerTypeOK'
    BY <2>1, <2>4, <2>5 DEF TimerInv, TimerTypeOK
  <2>7. Waking' /\ ("timeout" \in rpcs => overtaken)
    BY <2>1 DEF TimerInv, Waking
  <2> QED BY <2>1, <2>2, <2>3, <2>6, <2>7 DEF TimerInv, DeadlineKept
<1>7. CASE Wake
  <2>1. /\ state = "up" /\ 0 \in timers /\ timers' = timers \ {0} /\ rpcs' = rpcs \cup {"timeout"}
        /\ UNCHANGED <<default, active, auto, deadline, overtaken, state, sets>>
    BY <1>7 DEF Wake
  <2>2. active /\ deadline = 0
    BY <2>1 DEF TimerInv, DeadlineKept
  <2>3. TimerTypeOK'
    BY <2>1 DEF TimerInv, TimerTypeOK, Services
  <2> QED BY <2>1, <2>2, <2>3 DEF TimerInv, DeadlineKept, Waking
<1>8. ASSUME NEW what \in Services, Ask(what) PROVE TimerInv'
  <2>1. /\ state = "up" /\ rpcs' = rpcs \cup {what} /\ what # "timeout" /\ Counted
        /\ UNCHANGED <<default, active, auto, deadline, timers, overtaken, state>>
    BY <1>8 DEF Ask, Services
  <2>2. TimerTypeOK'
    BY <1>8, <2>1, TimerAssumption DEF TimerInv, TimerTypeOK, Counted
  <2> QED BY <2>1, <2>2 DEF TimerInv, DeadlineKept, Waking
<1>9. ASSUME NEW what \in Services \cup {"timeout"}, Obeyed(what) \/ Refused(what) PROVE TimerInv'
  <2>1. CASE Obeyed(what)
    <3>1. /\ what \in rpcs /\ state = "up" /\ state' \in {"down", "stopped"} /\ rpcs' = {what} /\ timers' = {}
          /\ UNCHANGED <<default, active, auto, deadline, overtaken, sets>>
      BY <2>1 DEF Obeyed
    <3>2. TimerTypeOK'
      BY <3>1 DEF TimerInv, TimerTypeOK
    <3>3. rpcs' = {"timeout"} => (active' /\ deadline' = 0) \/ overtaken'
      BY <3>1 DEF TimerInv, Waking
    <3> QED BY <3>1, <3>2, <3>3 DEF TimerInv, DeadlineKept, Waking
  <2>2. CASE Refused(what)
    BY <2>2 DEF Refused, TimerInv, TimerTypeOK, DeadlineKept, Waking
  <2> QED BY <1>9, <2>1, <2>2
<1>10. CASE UNCHANGED timerVars
  BY <1>10 DEF timerVars, TimerInv, TimerTypeOK, DeadlineKept, Waking
<1> QED BY <1>2, <1>3, <1>4, <1>5, <1>6, <1>7, <1>8, <1>9, <1>10 DEF TimerNext

-----------------------------------------------------------------------------
(* Files.  Two requests at work whose order matters are both marked         *)
(* (Marks); a file that nobody has begun to change is what it should be     *)
(* (Steady); and a request that is not marked has brought its file, or the  *)
(* temporary one, as far as its state says (Working).                       *)

FileTexts == Seq(Chunk)
FileStates == [there : BOOLEAN, text : FileTexts]
FileOps == [pc : {"new", "read", "open", "fill", "temp", "filltemp", "cat", "unlink", "answered", "failed"},
            kind : FileKinds, path : Paths, sudo : BOOLEAN, old : FileReqs \cup {"lf"}, text : FileTexts, at : Nat,
            clash : BOOLEAN, right : BOOLEAN]
InReach(o) == o.at <= Len(o.text) /\ Len(o.text) <= MaxLen
DiskTypes ==
  /\ disk \in [Paths -> FileStates] /\ wanted \in [Paths -> FileStates] /\ temp \in FileStates
  /\ risk \subseteq Paths /\ op \in [FileReqs -> FileOps]
  /\ \A p \in Paths : Len(disk[p].text) <= MaxLen

\* A request's place goes with what it is.
AtWork(o) == o.pc \in {"open", "fill", "temp", "filltemp", "cat", "unlink"}
Shaped(o) ==
  /\ o.pc \in {"open", "fill"} => ~o.sudo
  /\ o.pc \in {"temp", "filltemp", "cat", "unlink"} => o.sudo
  /\ AtWork(o) => o.kind # "read"
  /\ o.pc = "read" => o.kind \in {"read", "replace"}
  /\ o.pc \in {"open", "temp"} => o.at = 0
Shapes == \A r \in FileReqs : InReach(op[r]) /\ Shaped(op[r]) /\ op[r].right

Marks == \A r, q \in FileReqs : r # q /\ Pending(r) /\ Pending(q) /\ Clash(op[r], op[q]) => op[r].clash
Started(o) == o.pc \in {"fill", "cat", "unlink"}
SteadyAt(p) == p \notin risk /\ (\A q \in FileReqs : Started(op[q]) => op[q].path # p) => disk[p] = wanted[p]
Steady == \A p \in Paths : SteadyAt(p)

\* A request that is not marked, of a file that is known or will be.
Clear(r) == AtWork(op[r]) /\ ~op[r].clash /\ (op[r].kind \in {"write", "upload"} \/ op[r].path \notin risk)
Base(r) == IF op[r].kind = "append" THEN wanted[op[r].path].text ELSE <<>>
Made(r) ==
  /\ WrittenTo(r, wanted[op[r].path]) = Of(Base(r) \o op[r].text)
  /\ op[r].pc = "fill" => disk[op[r].path] = Of(Base(r) \o SubSeq(op[r].text, 1, op[r].at))
  /\ op[r].pc = "filltemp" => temp = Of(SubSeq(op[r].text, 1, op[r].at))
  /\ op[r].pc = "cat" => temp = Of(op[r].text) /\ disk[op[r].path] = Of(Base(r))
  /\ op[r].pc = "unlink" => temp.there /\ disk[op[r].path] = Of(Base(r) \o op[r].text)
Working == \A r \in FileReqs : Clear(r) => Made(r)

FilesInv == DiskTypes /\ Shapes /\ Marks /\ Steady /\ Working

LEMMA FilesHold == ASSUME FilesInv PROVE FilesHonest
<1>1. ASSUME NEW p \in Paths, p \notin risk, \A r \in FileReqs : Pending(r) => op[r].path # p PROVE disk[p] = wanted[p]
  <2>1. \A r \in FileReqs : Started(op[r]) => Pending(r)
    BY DEF Started, Pending
  <2> QED BY <1>1, <2>1 DEF FilesInv, Steady, SteadyAt
<1> QED BY <1>1 DEF FilesInv, Shapes, FilesHonest

LEMMA FilesInitInv == FilesInit => FilesInv
<1> SUFFICES ASSUME FilesInit PROVE FilesInv
  OBVIOUS
<1>1. Absent \in FileStates /\ Len(Absent.text) = 0
  BY DEF Absent, FileStates, FileTexts
<1>2. <<"crlf", "crlf">> \in FileTexts /\ Len(<<"crlf", "crlf">>) = 2
  BY DEF FileTexts, Chunk
<1>3. Of(<<"crlf", "crlf">>) \in FileStates /\ Len(Of(<<"crlf", "crlf">>).text) = 2
  BY <1>2 DEF Of, FileStates
<1>4. \A p \in Paths : disk[p] \in FileStates /\ Len(disk[p].text) <= MaxLen
  <2>1. \A p \in Paths : disk[p] = Absent \/ disk[p] = Of(<<"crlf", "crlf">>)
    BY DEF FilesInit
  <2>2. 0 <= MaxLen /\ 2 <= MaxLen
    BY FilesAssumption
  <2> SUFFICES ASSUME NEW p \in Paths PROVE disk[p] \in FileStates /\ Len(disk[p].text) <= MaxLen
    OBVIOUS
  <2>3. CASE disk[p] = Absent
    BY <1>1, <2>2, <2>3
  <2>4. CASE disk[p] = Of(<<"crlf", "crlf">>)
    BY <1>3, <2>2, <2>4
  <2> QED BY <2>1, <2>3, <2>4
<1>5. NewOp \in FileOps /\ InReach(NewOp) /\ Shaped(NewOp) /\ NewOp.right /\ NewOp.pc = "new"
  BY FilesAssumption DEF NewOp, FileOps, FileKinds, FileTexts, InReach, Shaped, AtWork
<1>6. \A r \in FileReqs : op[r] = NewOp
  BY DEF FilesInit
<1>7. DiskTypes
  <2>1. disk \in [Paths -> FileStates]
    <3>1. DOMAIN disk = Paths /\ disk = [p \in Paths |-> disk[p]]
      BY DEF FilesInit
    <3> QED BY <1>4, <3>1
  <2> QED BY <1>1, <1>4, <1>5, <2>1 DEF DiskTypes, FilesInit
<1>8. Shapes /\ Marks /\ Working
  BY <1>5, <1>6 DEF Shapes, Marks, Pending, Working, Clear, AtWork
<1>9. Steady
  BY DEF Steady, SteadyAt, FilesInit
<1> QED BY <1>7, <1>8, <1>9 DEF FilesInv

-----------------------------------------------------------------------------
(* FileTexts.                                                                   *)

LEMMA TextsJoin ==
  ASSUME NEW s \in FileTexts, NEW t \in FileTexts
  PROVE  /\ s \o t \in FileTexts /\ Len(s \o t) = Len(s) + Len(t)
         /\ s \o <<>> = s /\ <<>> \o s = s /\ <<>> \in FileTexts
  BY ConcatProperties, ConcatEmptySeq, EmptySeq DEF FileTexts

LEMMA TextsGrow ==
  ASSUME NEW s \in FileTexts, NEW t \in FileTexts, NEW n \in Nat, n < Len(t)
  PROVE  /\ SubSeq(t, 1, n) \in FileTexts /\ Len(SubSeq(t, 1, n)) = n /\ t[n + 1] \in Chunk
         /\ Append(SubSeq(t, 1, n), t[n + 1]) = SubSeq(t, 1, n + 1)
         /\ Append(s \o SubSeq(t, 1, n), t[n + 1]) = s \o SubSeq(t, 1, n + 1)
         /\ WrittenAt(SubSeq(t, 1, n), n, t[n + 1]) = SubSeq(t, 1, n + 1)
         /\ SubSeq(t, 1, n + 1) \in FileTexts
<1> DEFINE a == SubSeq(t, 1, n)
           b == SubSeq(t, 1, n + 1)
<1>1. Len(t) \in Nat /\ \A i \in 1..Len(t) : t[i] \in Chunk
  BY DEF FileTexts
<1>2. a \in FileTexts /\ Len(a) = n /\ \A i \in 1..n : a[i] = t[i]
  BY <1>1, SubSeqProperties DEF FileTexts
<1>3. b \in FileTexts /\ Len(b) = n + 1 /\ \A i \in 1..n + 1 : b[i] = t[i]
  BY <1>1, SubSeqProperties DEF FileTexts
<1>4. PICK x \in Chunk : x = t[n + 1]
  BY <1>1
<1> HIDE DEF a, b
<1>5. Append(a, x) = b
  <2>1. Append(a, x) \in FileTexts /\ Len(Append(a, x)) = n + 1
        /\ \A i \in 1..n + 1 : Append(a, x)[i] = IF i = n + 1 THEN x ELSE a[i]
    BY <1>2 DEF FileTexts
  <2>2. \A i \in 1..n + 1 : Append(a, x)[i] = b[i]
    BY <1>2, <1>3, <1>4, <2>1
  <2> QED BY <1>3, <2>1, <2>2, SeqEqual DEF FileTexts
<1>6. Append(s \o a, x) = s \o b
  <2>1. <<x>> \in FileTexts /\ Append(a, x) = a \o <<x>>
    BY <1>2 DEF FileTexts
  <2>2. Append(s \o a, x) = (s \o a) \o <<x>>
    BY <1>2, TextsJoin DEF FileTexts
  <2>3. (s \o a) \o <<x>> = s \o (a \o <<x>>)
    BY <1>2, <2>1, ConcatAssociative DEF FileTexts
  <2> QED BY <1>5, <2>1, <2>2, <2>3
<1>7. WrittenAt(a, n, x) = b
  <2>1. WrittenAt(a, n, x) = [i \in 1..n + 1 |-> IF i = n + 1 THEN x ELSE IF i <= n THEN a[i] ELSE "nul"]
    BY <1>2 DEF WrittenAt
  <2>2. b = [i \in 1..n + 1 |-> b[i]]
    BY <1>3 DEF FileTexts
  <2>3. \A i \in 1..n + 1 : (IF i = n + 1 THEN x ELSE IF i <= n THEN a[i] ELSE "nul") = b[i]
    BY <1>2, <1>3, <1>4
  <2> QED BY <2>1, <2>2, <2>3
<1> QED BY <1>2, <1>3, <1>4, <1>5, <1>6, <1>7 DEF a, b

LEMMA TextsEnd ==
  ASSUME NEW t \in FileTexts
  PROVE  /\ SubSeq(t, 1, 0) = <<>> /\ SubSeq(t, 1, Len(t)) = t
         /\ t \o SubSeq(<<>>, Len(t) + 1, Len(<<>>)) = t
<1>1. Len(t) \in Nat /\ Len(<<>>) = 0
  BY DEF FileTexts
<1>2. SubSeq(<<>>, Len(t) + 1, Len(<<>>)) = <<>>
  BY <1>1, SubSeqEmpty
<1> QED BY <1>2, SubSeqEmpty, SubSeqFull, TextsJoin DEF FileTexts

\* What is written at an offset within the bound stays within it.
LEMMA TextsWritten ==
  ASSUME NEW t \in FileTexts, NEW n \in Nat, NEW x \in Chunk
  PROVE  /\ WrittenAt(t, n, x) \in FileTexts
         /\ Len(WrittenAt(t, n, x)) = IF n < Len(t) THEN Len(t) ELSE n + 1
<1>1. PICK m \in Nat : m = IF n < Len(t) THEN Len(t) ELSE n + 1
  BY DEF FileTexts
<1>2. WrittenAt(t, n, x) = [i \in 1..m |-> IF i = n + 1 THEN x ELSE IF i <= Len(t) THEN t[i] ELSE "nul"]
  BY <1>1 DEF WrittenAt
<1>3. \A i \in 1..m : (IF i = n + 1 THEN x ELSE IF i <= Len(t) THEN t[i] ELSE "nul") \in Chunk
  BY DEF FileTexts, Chunk
<1>4. WrittenAt(t, n, x) \in [1..m -> Chunk]
  BY <1>2, <1>3
<1> QED BY <1>1, <1>4, FcnIsSeq DEF FileTexts

LEMMA TextsMapped ==
  ASSUME NEW t \in FileTexts, NEW old, NEW new \in Chunk
  PROVE  /\ Plain(t) \in FileTexts /\ Len(Plain(t)) = Len(t)
         /\ Replaced(t, old, new) \in FileTexts /\ Len(Replaced(t, old, new)) = Len(t)
<1>1. PICK m \in Nat : m = Len(t) /\ DOMAIN t = 1..m /\ \A i \in 1..m : t[i] \in Chunk
  BY DEF FileTexts
<1>2. Plain(t) \in [1..m -> Chunk]
  BY <1>1 DEF Plain, Chunk
<1>3. Replaced(t, old, new) \in [1..m -> Chunk]
  BY <1>1 DEF Replaced
<1> QED BY <1>1, <1>2, <1>3, FcnIsSeq DEF FileTexts

-----------------------------------------------------------------------------
(* A step of one request.                                                   *)

\* While a writer that is not marked is at work, nobody else writes its file, nor, with sudo,
\* the temporary one; and one that is at work keeps those that are not marked away.
LEMMA Alone ==
  ASSUME FilesInv, NEW r \in FileReqs, NEW q \in FileReqs, q # r, Pending(r), Pending(q), Writes(op[r]),
         ~op[q].clash \/ ~op[r].clash
  PROVE  op[q].path # op[r].path /\ (Writes(op[q]) => ~(op[q].sudo /\ op[r].sudo))
<1>1. Clash(op[r], op[q]) => op[r].clash /\ op[q].clash
  BY DEF FilesInv, Marks, Clash
<1> QED BY <1>1 DEF Clash, FilesInv, DiskTypes, FileOps

\* What r is does not change; where it is does.
SameAsk(o, n) == n.path = o.path /\ n.kind = o.kind /\ n.sudo = o.sudo /\ n.old = o.old /\ n.clash = o.clash

LEMMA RequestSteps ==
  ASSUME FilesInv, NEW r \in FileReqs, NEW o \in FileOps, op' = [op EXCEPT ![r] = o], Pending(r),
         SameAsk(op[r], o), InReach(o), Shaped(o), o.right,
         Writes(op[r]) \/ UNCHANGED <<disk, temp, wanted, risk>>,
         disk' \in [Paths -> FileStates], \A p \in Paths : Len(disk'[p].text) <= MaxLen,
         temp' \in FileStates, wanted' \in [Paths -> FileStates], risk' \subseteq Paths,
         \A p \in Paths : p # op[r].path => disk'[p] = disk[p] /\ wanted'[p] = wanted[p] /\ (p \in risk' <=> p \in risk),
         temp' = temp \/ op[r].sudo,
         SteadyAt(op[r].path)', (Clear(r) => Made(r))'
  PROVE  FilesInv'
<1>0. /\ op \in [FileReqs -> FileOps] /\ op' \in [FileReqs -> FileOps] /\ op'[r] = o
      /\ \A q \in FileReqs : q # r => op'[q] = op[q]
      /\ op[r] \in FileOps
  BY DEF FilesInv, DiskTypes
<1>1. DiskTypes'
  BY <1>0 DEF DiskTypes
<1>2. Shapes'
  BY <1>0 DEF FilesInv, Shapes
<1>3. Marks'
  <2> SUFFICES ASSUME NEW p \in FileReqs, NEW q \in FileReqs, p # q, Pending(p)', Pending(q)', Clash(op'[p], op'[q])
               PROVE  op'[p].clash
    BY DEF Marks
  <2>1. ASSUME NEW k \in FileReqs, Pending(k)' PROVE Pending(k)
    BY <1>0, <2>1 DEF Pending
  <2>2. Pending(p) /\ Pending(q)
    BY <2>1
  <2>3. \A k \in FileReqs : /\ op'[k].path = op[k].path /\ op'[k].kind = op[k].kind
                            /\ op'[k].sudo = op[k].sudo /\ op'[k].clash = op[k].clash
    BY <1>0 DEF SameAsk
  <2>4. Clash(op[p], op[q])
    BY <2>3 DEF Clash, Writes
  <2> QED BY <2>2, <2>3, <2>4 DEF FilesInv, Marks
<1>4. Steady'
  <2> SUFFICES ASSUME NEW p \in Paths, p # op[r].path PROVE SteadyAt(p)'
    <3>1. \A p \in Paths : p = op[r].path => SteadyAt(p)'
      BY <1>0 DEF SameAsk, SteadyAt
    <3> QED BY <3>1 DEF Steady
  <2>1. disk'[p] = disk[p] /\ wanted'[p] = wanted[p] /\ (p \in risk' <=> p \in risk)
    OBVIOUS
  <2>2. ASSUME \A q \in FileReqs : Started(op'[q]) => op'[q].path # p, NEW q \in FileReqs, Started(op[q])
        PROVE  op[q].path # p
    BY <1>0, <2>2
  <2>3. SteadyAt(p)
    BY DEF FilesInv, Steady
  <2> QED BY <2>1, <2>2, <2>3 DEF SteadyAt
<1>5. Working'
  <2> SUFFICES ASSUME NEW q \in FileReqs, q # r, Clear(q)' PROVE Made(q)'
    BY DEF Working
  <2>1. op'[q] = op[q] /\ op[q] \in FileOps
    BY <1>0 DEF FilesInv, DiskTypes
  <2>2. AtWork(op[q]) /\ ~op[q].clash /\ Pending(q)
    BY <2>1 DEF Clear, AtWork, Pending
  <2>3. Writes(op[q]) /\ Shaped(op[q])
    BY <2>2 DEF FilesInv, Shapes, Shaped, Writes
  <2>4. CASE UNCHANGED <<disk, temp, wanted, risk>>
    <3>1. Clear(q)
      BY <2>1, <2>4 DEF Clear
    <3> QED BY <2>1, <2>4, <3>1 DEF FilesInv, Working, Made, Base, WrittenTo
  <2>5. CASE Writes(op[r])
    <3>1. op[q].path # op[r].path /\ ~(op[q].sudo /\ op[r].sudo)
      BY <2>2, <2>3, <2>5, Alone
    <3>2. op[q].path \in Paths
      BY <2>1 DEF FileOps
    <3>3. /\ disk'[op[q].path] = disk[op[q].path] /\ wanted'[op[q].path] = wanted[op[q].path]
          /\ (op[q].path \in risk' <=> op[q].path \in risk)
      BY <3>1, <3>2
    <3>4. Clear(q)
      BY <2>1, <3>3 DEF Clear
    <3>5. Made(q)
      BY <3>4 DEF FilesInv, Working
    <3>6. op[q].pc \in {"filltemp", "cat", "unlink"} => temp' = temp
      BY <2>3, <3>1 DEF Shaped
    <3>7. WrittenTo(q, wanted[op[q].path])' = WrittenTo(q, wanted[op[q].path]) /\ Base(q)' = Base(q)
      BY <2>1, <3>3 DEF WrittenTo, Base
    <3> QED BY <2>1, <3>3, <3>5, <3>6, <3>7 DEF Made
  <2> QED BY <2>4, <2>5
<1> QED BY <1>1, <1>2, <1>3, <1>4, <1>5 DEF FilesInv

LEMMA OpTyped == ASSUME FilesInv, NEW r \in FileReqs
                 PROVE  /\ op[r] \in FileOps /\ InReach(op[r]) /\ Shaped(op[r]) /\ op[r].right
                        /\ op[r].path \in Paths /\ disk[op[r].path] \in FileStates /\ wanted[op[r].path] \in FileStates
                        /\ op[r].text \in FileTexts /\ <<r, r>> \in FileTexts /\ Len(<<r, r>>) = 2
                        /\ op \in [FileReqs -> FileOps]
<1>1. op[r] \in FileOps /\ InReach(op[r]) /\ Shaped(op[r]) /\ op[r].right /\ op \in [FileReqs -> FileOps]
  BY DEF FilesInv, DiskTypes, Shapes
<1>2. op[r].path \in Paths /\ op[r].text \in FileTexts
  BY <1>1 DEF FileOps
<1>3. disk[op[r].path] \in FileStates /\ wanted[op[r].path] \in FileStates
  BY <1>2 DEF FilesInv, DiskTypes
<1>4. <<r, r>> \in FileTexts /\ Len(<<r, r>>) = 2
  BY DEF FileTexts, Chunk
<1> QED BY <1>1, <1>2, <1>3, <1>4

LEMMA ContentsTyped ==
  ASSUME NEW o \in FileOps, NEW f \in FileStates PROVE Contents(o, f) \in FileTexts /\ Len(Contents(o, f)) = Len(f.text)
<1>1. PICK t \in FileTexts : t = f.text
  BY DEF FileStates
<1>2. PICK c \in Chunk : TRUE
  BY DEF Chunk
<1> QED BY <1>1, <1>2, TextsMapped DEF Contents

LEMMA WrittenTyped == ASSUME FilesInv, NEW r \in FileReqs, NEW f \in FileStates PROVE WrittenTo(r, f) \in FileStates
<1>1. op[r] \in FileOps /\ <<r, r>> \in FileTexts
  BY OpTyped
<1>2. f.text \in FileTexts
  BY DEF FileStates
<1>3. f.text \o <<r, r>> \in FileTexts
  BY <1>1, <1>2, TextsJoin
<1>4. Contents(op[r], f) \in FileTexts
  BY <1>1, ContentsTyped
<1>5. Replaced(Contents(op[r], f), op[r].old, r) \in FileTexts
  <2>1. r \in Chunk
    BY DEF Chunk
  <2> QED BY <1>4, <2>1, TextsMapped
<1>6. \/ WrittenTo(r, f) = Of(<<r, r>>) \/ WrittenTo(r, f) = Of(f.text \o <<r, r>>)
      \/ WrittenTo(r, f) = Of(Replaced(Contents(op[r], f), op[r].old, r)) \/ WrittenTo(r, f) = f
  BY DEF WrittenTo, Contents
<1>7. \A t \in FileTexts : Of(t) \in FileStates
  BY DEF Of, FileStates
<1> QED BY <1>1, <1>3, <1>5, <1>6, <1>7

\* Before a writer that is not marked has begun, its file is what it should be.
LEMMA Untouched ==
  ASSUME FilesInv, NEW r \in FileReqs, Pending(r), Writes(op[r]), ~op[r].clash, ~Started(op[r]), op[r].path \notin risk
  PROVE  disk[op[r].path] = wanted[op[r].path]
<1>1. ASSUME NEW q \in FileReqs, Started(op[q]) PROVE op[q].path # op[r].path
  <2>1. q # r /\ Pending(q)
    BY <1>1 DEF Started, Pending
  <2> QED BY <2>1, Alone
<1>2. op[r].path \in Paths
  BY OpTyped
<1> QED BY <1>1, <1>2 DEF FilesInv, Steady, SteadyAt

LEMMA RequestEnds ==
  ASSUME FilesInv, NEW r \in FileReqs, Pending(r), Writes(op[r]), NEW how \in {"answered", "failed"}, EndFile(r, how),
         UNCHANGED disk, temp' \in FileStates, temp' = temp \/ op[r].sudo,
         /\ ~op[r].clash
         /\ (how = "answered" /\ op[r].kind \in {"write", "upload"}) \/ op[r].path \notin risk
         => disk[op[r].path] = IF how = "answered" THEN WrittenTo(r, wanted[op[r].path]) ELSE wanted[op[r].path]
  PROVE  FilesInv'
<1>0. PICK o \in FileOps, p \in Paths, w \in FileStates : o = op[r] /\ p = op[r].path /\ w = WrittenTo(r, wanted[p])
  <2>1. op[r] \in FileOps /\ op[r].path \in Paths /\ wanted[op[r].path] \in FileStates
    BY OpTyped
  <2> QED BY <2>1, WrittenTyped
<1>1. /\ op' = [op EXCEPT ![r].pc = how]
      /\ wanted' = IF how = "answered" /\ ~o.clash THEN [wanted EXCEPT ![p] = w] ELSE wanted
      /\ risk' = IF o.clash THEN risk \cup {p}
                 ELSE IF o.kind \in {"write", "upload"} /\ how = "answered" THEN risk \ {p} ELSE risk
  BY <1>0 DEF EndFile
<1>2. PICK n : n = [o EXCEPT !.pc = how]
  OBVIOUS
<1>3. n \in FileOps /\ SameAsk(o, n) /\ InReach(o) /\ n.at = o.at /\ n.text = o.text /\ n.right = o.right /\ n.right /\ n.pc = how
  BY <1>0, <1>2, OpTyped DEF FileOps, SameAsk
<1>4. op' = [op EXCEPT ![r] = n]
  BY <1>0, <1>1, <1>2
<1>5. op'[r] = n
  BY <1>4, OpTyped
<1>6. InReach(n) /\ Shaped(n)
  BY <1>3 DEF InReach, Shaped, AtWork
<1>7. /\ wanted' \in [Paths -> FileStates] /\ risk' \subseteq Paths
      /\ \A x \in Paths : x # p => wanted'[x] = wanted[x] /\ (x \in risk' <=> x \in risk)
      /\ disk \in [Paths -> FileStates] /\ \A x \in Paths : Len(disk[x].text) <= MaxLen
  BY <1>0, <1>1 DEF FilesInv, DiskTypes
<1>8. SteadyAt(p)'
  <2> SUFFICES ASSUME p \notin risk' PROVE disk[p] = wanted'[p]
    BY DEF SteadyAt
  <2>1. ~o.clash /\ ((how = "answered" /\ o.kind \in {"write", "upload"}) \/ p \notin risk)
    BY <1>1
  <2>2. disk[p] = IF how = "answered" THEN w ELSE wanted[p]
    BY <1>0, <2>1
  <2> QED BY <1>1, <2>1, <2>2 DEF FilesInv, DiskTypes
<1>9. SteadyAt(op[r].path)'
  BY <1>0, <1>3, <1>5, <1>8 DEF SameAsk
<1>10. ~Clear(r)'
  BY <1>3, <1>5 DEF Clear, AtWork
<1> QED BY <1>0, <1>3, <1>4, <1>6, <1>7, <1>9, <1>10, RequestSteps

\* A request that ends and has not begun to write changes nothing.
LEMMA QuietEnd ==
  ASSUME FilesInv, NEW r \in FileReqs, op[r].pc \in {"read", "open", "temp", "filltemp"}, NEW how \in {"answered", "failed"},
         op' = [op EXCEPT ![r].pc = how, ![r].right = TRUE] \/ op' = [op EXCEPT ![r].pc = how],
         UNCHANGED <<disk, temp, wanted, risk>>
  PROVE  FilesInv'
<1>1. PICK n : n = [op[r] EXCEPT !.pc = how]
  OBVIOUS
<1>2. op' = [op EXCEPT ![r] = n]
  <2>1. n = [op[r] EXCEPT !.pc = how, !.right = TRUE]
    BY <1>1, OpTyped DEF FileOps
  <2> QED BY <1>1, <2>1
<1>3. op'[r] = n /\ n.pc = how
  BY <1>1, <1>2, OpTyped DEF FileOps
<1>4. n \in FileOps /\ SameAsk(op[r], n) /\ n.at = op[r].at /\ n.text = op[r].text /\ n.right
  BY <1>1, OpTyped DEF FileOps, SameAsk
<1>5. InReach(n) /\ Shaped(n)
  BY <1>3, <1>4, OpTyped DEF InReach, Shaped, AtWork
<1>6. SteadyAt(op[r].path)'
  <2>1. \A q \in FileReqs : Started(op[q]) => op'[q] = op[q]
    BY <1>2, <1>3, OpTyped DEF Started
  <2>2. SteadyAt(op[r].path)
    BY OpTyped DEF FilesInv, Steady
  <2>3. op'[r].path = op[r].path
    BY <1>3, <1>4 DEF SameAsk
  <2> QED BY <2>1, <2>2, <2>3 DEF SteadyAt
<1>7. ~Clear(r)' /\ Pending(r)
  BY <1>3 DEF Clear, AtWork, Pending
<1> QED BY <1>2, <1>3, <1>4, <1>5, <1>6, <1>7, RequestSteps DEF FilesInv, DiskTypes

LEMMA FailEarlyKeeps == ASSUME FilesInv, NEW r \in FileReqs, FailEarly(r) PROVE FilesInv'
  BY QuietEnd DEF FailEarly

LEMMA LookAtKeeps == ASSUME FilesInv, NEW r \in FileReqs, LookAt(r) PROVE FilesInv'
<1>1. /\ op[r].pc = "read" /\ op[r].kind = "read" /\ UNCHANGED <<disk, temp, wanted, risk>>
      /\ op' = [op EXCEPT ![r].pc = "answered",
                          ![r].right = \/ op[r].clash \/ op[r].path \in risk
                                       \/ Contents(op[r], disk[op[r].path]) = Contents(op[r], wanted[op[r].path])]
  BY DEF LookAt
<1>2. op[r].clash \/ op[r].path \in risk \/ disk[op[r].path] = wanted[op[r].path]
  <2> SUFFICES ASSUME ~op[r].clash, op[r].path \notin risk PROVE disk[op[r].path] = wanted[op[r].path]
    OBVIOUS
  <2>1. ASSUME NEW q \in FileReqs, Started(op[q]) PROVE op[q].path # op[r].path
    <3>1. q # r /\ Pending(q) /\ Pending(r)
      BY <1>1, <2>1 DEF Started, Pending
    <3>2. Writes(op[q])
      BY <2>1, OpTyped DEF Started, Shaped, AtWork, Writes
    <3> QED BY <3>1, <3>2, Alone
  <2> QED BY <2>1, OpTyped DEF FilesInv, Steady, SteadyAt
<1>3. (\/ op[r].clash \/ op[r].path \in risk
       \/ Contents(op[r], disk[op[r].path]) = Contents(op[r], wanted[op[r].path])) = TRUE
  BY <1>2, OpTyped DEF FileOps
<1>4. op' = [op EXCEPT ![r].pc = "answered", ![r].right = TRUE]
  BY <1>1, <1>3
<1> QED BY <1>1, <1>4, QuietEnd

\* What the first step of writing a text starts from.
LEMMA Opens ==
  ASSUME NEW o \in FileOps, NEW n, n = Opening(o)
  PROVE  /\ n \in FileOps /\ SameAsk(o, n) /\ n.text = o.text /\ n.at = 0 /\ n.right = o.right
         /\ n.pc = IF o.sudo THEN "temp" ELSE "open"
         /\ o.kind # "read" => Shaped(n)
<1>1. /\ n \in FileOps /\ SameAsk(o, n) /\ n.text = o.text /\ n.at = 0 /\ n.right = o.right
      /\ n.pc = IF o.sudo THEN "temp" ELSE "open"
  BY DEF Opening, FileOps, SameAsk
<1>2. o.kind # "read" => Shaped(n)
  BY <1>1 DEF Shaped, SameAsk, FileOps
<1> QED BY <1>1, <1>2

LEMMA ReadToReplaceKeeps == ASSUME FilesInv, NEW r \in FileReqs, ReadToReplace(r) PROVE FilesInv'
<1>0. PICK o \in FileOps, p \in Paths, text \in FileTexts :
        o = op[r] /\ p = op[r].path /\ text = Contents(op[r], disk[p]) /\ Len(text) <= MaxLen
  <2>1. Len(disk[op[r].path].text) <= MaxLen
    BY OpTyped DEF FilesInv, DiskTypes
  <2> QED BY <2>1, OpTyped, ContentsTyped
<1>1. /\ o.pc = "read" /\ o.kind = "replace" /\ disk[p].there /\ UNCHANGED <<disk, temp>>
      /\ IF Holds(text, o.old)
         THEN op' = [op EXCEPT ![r] = Opening([o EXCEPT !.text = Replaced(text, o.old, r)])] /\ UNCHANGED <<wanted, risk>>
         ELSE EndFile(r, "answered")
  BY <1>0 DEF ReadToReplace
<1>2. Pending(r) /\ Writes(op[r]) /\ ~Started(op[r])
  BY <1>0, <1>1 DEF Pending, Writes, Started
<1>3. ~o.clash /\ p \notin risk => disk[p] = wanted[p]
  BY <1>0, <1>2, Untouched
<1>4. CASE ~Holds(text, o.old)
  <2>1. ASSUME ~o.clash, p \notin risk PROVE disk[p] = WrittenTo(r, wanted[p])
    <3>1. disk[p] = wanted[p] /\ ~Holds(Contents(o, wanted[p]), o.old)
      BY <1>0, <1>3, <1>4, <2>1
    <3> QED BY <1>0, <1>1, <3>1 DEF WrittenTo, Contents
  <2>2. temp' \in FileStates /\ temp' = temp /\ EndFile(r, "answered")
    BY <1>1, <1>4 DEF FilesInv, DiskTypes
  <2> QED BY <1>0, <1>1, <1>2, <2>1, <2>2, RequestEnds
<1>5. CASE Holds(text, o.old)
  <2>1. PICK new \in FileTexts : new = Replaced(text, o.old, r) /\ Len(new) = Len(text)
    <3>1. r \in Chunk
      BY DEF Chunk
    <3> QED BY <3>1, TextsMapped
  <2>2. PICK m : m = [o EXCEPT !.text = new]
    OBVIOUS
  <2>3. m \in FileOps /\ SameAsk(o, m) /\ m.text = new /\ m.right = o.right
    BY <2>1, <2>2 DEF FileOps, SameAsk
  <2>4. PICK n : n = Opening(m)
    OBVIOUS
  <2>5. /\ n \in FileOps /\ SameAsk(m, n) /\ n.text = new /\ n.at = 0 /\ n.right = o.right
        /\ n.pc = (IF m.sudo THEN "temp" ELSE "open") /\ Shaped(n)
    <3>1. m.kind # "read"
      BY <1>1, <2>3 DEF SameAsk
    <3> QED BY <2>3, <2>4, <3>1, Opens
  <2>6. /\ SameAsk(op[r], n) /\ n.right /\ InReach(n)
        /\ n.pc = IF o.sudo THEN "temp" ELSE "open"
    BY <1>0, <2>1, <2>3, <2>5, OpTyped DEF SameAsk, InReach, FileTexts
  <2>7. op' = [op EXCEPT ![r] = n] /\ op'[r] = n /\ UNCHANGED <<disk, temp, wanted, risk>>
    <3>1. op' = [op EXCEPT ![r] = n] /\ UNCHANGED <<disk, temp, wanted, risk>>
      BY <1>1, <1>5, <2>1, <2>2, <2>4
    <3> QED BY <3>1, OpTyped
  <2>8. SteadyAt(p)'
    <3>1. \A q \in FileReqs : Started(op[q]) => op'[q] = op[q]
      BY <1>2, <2>7, OpTyped
    <3> QED BY <2>7, <3>1 DEF SteadyAt, FilesInv, Steady
  <2>9. SteadyAt(op[r].path)'
    BY <1>0, <2>6, <2>7, <2>8 DEF SameAsk
  <2>10. ASSUME Clear(r)' PROVE Made(r)'
    <3>1. ~o.clash /\ p \notin risk
      BY <1>0, <1>1, <2>6, <2>7, <2>10 DEF Clear, SameAsk
    <3>2. Contents(o, wanted[p]) = text /\ wanted[p].there
      BY <1>0, <1>1, <1>3, <3>1
    <3>3. WrittenTo(r, wanted[p])' = Of(new)
      BY <1>0, <1>1, <1>5, <2>1, <2>6, <2>7, <3>2 DEF WrittenTo, Contents, SameAsk
    <3>4. Base(r)' = <<>> /\ <<>> \o new = new
      BY <1>0, <1>1, <2>1, <2>6, <2>7, TextsJoin DEF Base, SameAsk
    <3>5. op'[r].pc \in {"open", "temp"}
      BY <2>6, <2>7
    <3>6. WrittenTo(r, wanted[op[r].path])' = WrittenTo(r, wanted[p])'
      BY <1>0, <2>6, <2>7 DEF SameAsk
    <3> QED BY <2>5, <2>7, <3>3, <3>4, <3>5, <3>6 DEF Made
  <2> QED BY <1>2, <2>5, <2>6, <2>7, <2>9, <2>10, RequestSteps DEF FilesInv, DiskTypes
<1> QED BY <1>4, <1>5

PlacedAt(o, pc, at) == [o EXCEPT !.pc = pc, !.at = at]

\* A writer goes on: only its own file, and with sudo the temporary one, may change.
LEMMA WriterSteps ==
  ASSUME FilesInv, NEW r \in FileReqs, AtWork(op[r]), NEW n, NEW d \in FileStates,
         n.pc \in {"fill", "filltemp", "cat", "unlink"}, n.at \in Nat, n.at <= Len(op[r].text),
         n = PlacedAt(op[r], n.pc, n.at), op' = [op EXCEPT ![r] = n],
         n.pc = "fill" <=> ~op[r].sudo,
         disk' = [disk EXCEPT ![op[r].path] = d], Len(d.text) <= MaxLen, UNCHANGED <<wanted, risk>>,
         n.pc = "filltemp" => ~Started(op[r]) /\ d = disk[op[r].path],
         temp' \in FileStates, temp' = temp \/ op[r].sudo,
         Clear(r) =>
           /\ n.pc = "fill" => d = Of(Base(r) \o SubSeq(op[r].text, 1, n.at))
           /\ n.pc = "filltemp" => temp' = Of(SubSeq(op[r].text, 1, n.at))
           /\ n.pc = "cat" => temp' = Of(op[r].text) /\ d = Of(Base(r))
           /\ n.pc = "unlink" => temp'.there /\ d = Of(Base(r) \o op[r].text)
  PROVE  FilesInv'
<1>0. PICK o \in FileOps, p \in Paths : o = op[r] /\ p = op[r].path /\ Shaped(o) /\ InReach(o) /\ o.right
  BY OpTyped
<1>1. /\ n \in FileOps /\ SameAsk(o, n) /\ n.text = o.text /\ n.right = o.right
  BY <1>0 DEF FileOps, SameAsk, PlacedAt
<1>2. InReach(n) /\ n.right /\ op'[r] = n
  BY <1>0, <1>1, OpTyped DEF InReach
<1>3. o.kind # "read" /\ Pending(r) /\ Writes(op[r])
  BY <1>0 DEF Shaped, AtWork, Pending, Writes
<1>4. Shaped(n)
  BY <1>0, <1>1, <1>3 DEF Shaped, SameAsk, FileOps
<1>5. disk' \in [Paths -> FileStates] /\ disk'[p] = d /\ \A x \in Paths : x # p => disk'[x] = disk[x]
  BY <1>0 DEF FilesInv, DiskTypes
<1>6. \A x \in Paths : Len(disk'[x].text) <= MaxLen
  BY <1>5 DEF FilesInv, DiskTypes
<1>7. SteadyAt(p)'
  <2>1. CASE n.pc = "filltemp"
    <3>1. \A q \in FileReqs : Started(op[q]) => op'[q] = op[q]
      BY <2>1, OpTyped
    <3>2. disk'[p] = disk[p]
      BY <1>0, <1>5, <2>1
    <3>3. SteadyAt(p)
      BY DEF FilesInv, Steady
    <3> QED BY <3>1, <3>2, <3>3 DEF SteadyAt
  <2>2. CASE n.pc # "filltemp"
    <3>1. Started(op'[r]) /\ op'[r].path = p
      BY <1>0, <1>1, <1>2, <2>2 DEF Started, SameAsk
    <3> QED BY <3>1 DEF SteadyAt
  <2> QED BY <2>1, <2>2
<1>8. SteadyAt(op[r].path)'
  BY <1>0, <1>1, <1>2, <1>7 DEF SameAsk
<1>9. ASSUME Clear(r)' PROVE Made(r)'
  <2>1. Clear(r)
    BY <1>0, <1>1, <1>2, <1>9 DEF Clear, SameAsk
  <2>2. Made(r)
    BY <2>1 DEF FilesInv, Working
  <2>3. Base(r)' = Base(r) /\ op'[r].path = p /\ op'[r].text = o.text
    BY <1>0, <1>1, <1>2 DEF Base, SameAsk
  <2>4. WrittenTo(r, wanted[p])' = WrittenTo(r, wanted[p])
    BY <1>0, <1>1, <1>2 DEF WrittenTo, SameAsk
  <2> QED BY <1>0, <1>2, <1>5, <2>1, <2>2, <2>3, <2>4 DEF Made
<1>10. risk' \subseteq Paths /\ wanted' \in [Paths -> FileStates]
  BY DEF FilesInv, DiskTypes
<1> QED BY <1>0, <1>1, <1>2, <1>3, <1>4, <1>5, <1>6, <1>8, <1>9, <1>10, RequestSteps

\* The content a writer starts from: nothing, or the file for an append.
LEMMA BaseOpens ==
  ASSUME FilesInv, NEW r \in FileReqs, AtWork(op[r]),
         NEW d, d = (IF op[r].kind = "append" THEN Of(disk[op[r].path].text) ELSE Of(<<>>))
  PROVE  /\ d \in FileStates /\ Len(d.text) <= MaxLen /\ Base(r) \in FileTexts
         /\ Clear(r) /\ ~Started(op[r]) => d = Of(Base(r))
<1>1. /\ disk[op[r].path].text \in FileTexts /\ wanted[op[r].path].text \in FileTexts /\ <<>> \in FileTexts
      /\ Len(disk[op[r].path].text) <= MaxLen /\ Len(<<>>) = 0 /\ 0 <= MaxLen
  <2>1. <<>> \in FileTexts /\ Len(<<>>) = 0 /\ 0 <= MaxLen
    BY FilesAssumption DEF FileTexts
  <2> QED BY <2>1, OpTyped DEF FilesInv, DiskTypes, FileStates
<1>2. d \in FileStates /\ Len(d.text) <= MaxLen /\ Base(r) \in FileTexts
  BY <1>1 DEF Of, FileStates, Base
<1>3. ASSUME Clear(r), ~Started(op[r]), op[r].kind = "append" PROVE disk[op[r].path] = wanted[op[r].path]
  BY <1>3, OpTyped, Untouched DEF Clear, AtWork, Pending, Writes
<1> QED BY <1>2, <1>3 DEF Base

LEMMA OpenFileKeeps == ASSUME FilesInv, NEW r \in FileReqs, OpenFile(r) PROVE FilesInv'
<1>1. op[r].pc = "open" /\ UNCHANGED <<temp, wanted, risk>> /\ AtWork(op[r]) /\ ~Started(op[r])
  BY DEF OpenFile, AtWork, Started
<1>3. CASE /\ op' = [op EXCEPT ![r].pc = "fill"]
           /\ disk' = [disk EXCEPT ![op[r].path] = IF op[r].kind = "append" THEN Of(@.text) ELSE Of(<<>>)]
  <2>1. PICK d : d = IF op[r].kind = "append" THEN Of(disk[op[r].path].text) ELSE Of(<<>>)
    OBVIOUS
  <2>2. /\ d \in FileStates /\ Len(d.text) <= MaxLen /\ Base(r) \in FileTexts
        /\ Clear(r) => d = Of(Base(r))
    BY <1>1, <2>1, BaseOpens
  <2>3. disk' = [disk EXCEPT ![op[r].path] = d]
    BY <1>3, <2>1
  <2>4. op[r].at = 0 /\ ~op[r].sudo
    BY <1>1, OpTyped DEF Shaped
  <2>5. PICK n : n = PlacedAt(op[r], "fill", 0)
    OBVIOUS
  <2>6. n.pc = "fill" /\ n.at = 0 /\ n = PlacedAt(op[r], n.pc, n.at) /\ op' = [op EXCEPT ![r] = n]
    <3>1. /\ n.pc = "fill" /\ n.at = 0 /\ n = PlacedAt(op[r], n.pc, n.at)
          /\ n = [op[r] EXCEPT !.pc = "fill"]
      BY <2>4, <2>5, OpTyped DEF FileOps, PlacedAt
    <3> QED BY <1>3, <3>1
  <2>7. SubSeq(op[r].text, 1, 0) = <<>> /\ Base(r) \o <<>> = Base(r) /\ 0 \in Nat /\ 0 <= Len(op[r].text)
    BY <2>2, OpTyped, TextsEnd, TextsJoin DEF FileTexts
  <2>8. temp' \in FileStates /\ temp' = temp
    BY <1>1 DEF FilesInv, DiskTypes
  <2> QED BY <1>1, <2>2, <2>3, <2>4, <2>6, <2>7, <2>8, WriterSteps
<1> QED BY <1>3 DEF OpenFile

LEMMA FillKeeps == ASSUME FilesInv, NEW r \in FileReqs, Fill(r) PROVE FilesInv'
<1>0. PICK o \in FileOps, p \in Paths, f \in FileStates, t \in FileTexts, at \in Nat :
        o = op[r] /\ p = o.path /\ f = disk[p] /\ t = o.text /\ at = o.at /\ at + 1 <= MaxLen /\ f.text \in FileTexts
  <2>1. op[r].at \in Nat /\ op[r].at < Len(op[r].text) /\ Len(op[r].text) \in Nat /\ Len(op[r].text) <= MaxLen
    BY OpTyped DEF FileOps, FileTexts, InReach, Fill
  <2>2. op[r].at + 1 <= MaxLen
    BY <2>1, FilesAssumption
  <2>3. \A g \in FileStates : g.text \in FileTexts
    BY DEF FileStates
  <2> QED BY <2>1, <2>2, <2>3, OpTyped
<1>1. /\ o.pc = "fill" /\ at < Len(t) /\ Len(f.text) < MaxLen
      /\ disk' = [disk EXCEPT ![p].text =
                    IF o.kind = "append" THEN Append(@, t[at + 1]) ELSE WrittenAt(@, at, t[at + 1])]
      /\ op' = [op EXCEPT ![r].at = @ + 1] /\ UNCHANGED <<temp, wanted, risk>>
  BY <1>0 DEF Fill
<1>2. PICK x \in Chunk : x = t[at + 1]
  BY <1>0, <1>1 DEF FileTexts
<1>3. PICK body \in FileTexts : /\ body = (IF o.kind = "append" THEN Append(f.text, x) ELSE WrittenAt(f.text, at, x))
                            /\ Len(body) <= MaxLen
  <2>1. Append(f.text, x) \in FileTexts /\ Len(Append(f.text, x)) <= MaxLen
    BY <1>0, <1>1, FilesAssumption DEF FileTexts
  <2>2. WrittenAt(f.text, at, x) \in FileTexts /\ Len(WrittenAt(f.text, at, x)) <= MaxLen
    <3>1. /\ WrittenAt(f.text, at, x) \in FileTexts
          /\ Len(WrittenAt(f.text, at, x)) = IF at < Len(f.text) THEN Len(f.text) ELSE at + 1
      BY <1>0, TextsWritten
    <3>2. Len(f.text) <= MaxLen
      BY <1>0, <1>1, FilesAssumption DEF FileTexts
    <3> QED BY <1>0, <3>1, <3>2
  <2> QED BY <2>1, <2>2
<1>4. PICK d : d = [f EXCEPT !.text = body]
  OBVIOUS
<1>5. d \in FileStates /\ d.text = body /\ d.there = f.there /\ Len(d.text) <= MaxLen
  BY <1>3, <1>4 DEF FileStates
<1>6. disk' = [disk EXCEPT ![p] = d]
  BY <1>0, <1>1, <1>2, <1>3, <1>4
<1>7. PICK n : n = PlacedAt(op[r], "fill", at + 1)
  OBVIOUS
<1>8. n.pc = "fill" /\ n.at = at + 1 /\ n = PlacedAt(op[r], n.pc, n.at) /\ op' = [op EXCEPT ![r] = n]
  <2>1. /\ n.pc = "fill" /\ n.at = at + 1 /\ n = PlacedAt(op[r], n.pc, n.at)
        /\ n = [op[r] EXCEPT !.at = at + 1]
    BY <1>0, <1>1, <1>7, OpTyped DEF FileOps, PlacedAt
  <2> QED BY <1>0, <1>1, <2>1
<1>9. AtWork(op[r]) /\ ~op[r].sudo
  BY <1>0, <1>1, OpTyped DEF AtWork, Shaped
<1>10. ASSUME Clear(r) PROVE d = Of(Base(r) \o SubSeq(t, 1, at + 1))
  <2>1. f = Of(Base(r) \o SubSeq(t, 1, at))
    BY <1>0, <1>1, <1>10 DEF FilesInv, Working, Made
  <2>2. f.there = TRUE /\ f.text = Base(r) \o SubSeq(t, 1, at)
    BY <2>1 DEF Of
  <2>3. Base(r) \in FileTexts
    BY <1>9, BaseOpens
  <2>4. body = Base(r) \o SubSeq(t, 1, at + 1)
    <3>0. /\ Append(Base(r) \o SubSeq(t, 1, at), x) = Base(r) \o SubSeq(t, 1, at + 1)
          /\ WrittenAt(SubSeq(t, 1, at), at, x) = SubSeq(t, 1, at + 1)
          /\ SubSeq(t, 1, at) \in FileTexts /\ SubSeq(t, 1, at + 1) \in FileTexts
      BY <1>1, <1>2, <2>3, TextsGrow
    <3>1. CASE o.kind = "append"
      BY <1>3, <2>2, <3>0, <3>1
    <3>2. CASE o.kind # "append"
      <4>1. Base(r) = <<>> /\ f.text = SubSeq(t, 1, at)
        BY <1>0, <2>2, <3>0, <3>2, TextsJoin DEF Base
      <4>2. body = SubSeq(t, 1, at + 1)
        BY <1>3, <3>0, <3>2, <4>1
      <4> QED BY <3>0, <4>1, <4>2, TextsJoin
    <3> QED BY <3>1, <3>2
  <2> QED BY <1>4, <1>5, <2>2, <2>4 DEF Of, FileStates
<1>11. temp' \in FileStates /\ temp' = temp
  BY <1>1 DEF FilesInv, DiskTypes
<1>12. at + 1 \in Nat /\ at + 1 <= Len(t)
  BY <1>1 DEF FileTexts
<1>13. /\ n.at \in Nat /\ n.at <= Len(op[r].text) /\ n.pc = "fill" /\ disk' = [disk EXCEPT ![op[r].path] = d]
       /\ Clear(r) => d = Of(Base(r) \o SubSeq(op[r].text, 1, n.at))
  BY <1>0, <1>6, <1>8, <1>10, <1>12
<1> QED BY <1>1, <1>5, <1>8, <1>9, <1>11, <1>13, WriterSteps

LEMMA CloseKeeps == ASSUME FilesInv, NEW r \in FileReqs, Close(r) PROVE FilesInv'
<1>1. op[r].pc = "fill" /\ op[r].at = Len(op[r].text) /\ EndFile(r, "answered") /\ UNCHANGED <<disk, temp>>
  BY DEF Close
<1>2. AtWork(op[r]) /\ Pending(r) /\ Writes(op[r])
  BY <1>1, OpTyped DEF AtWork, Pending, Shaped, Writes
<1>3. ASSUME ~op[r].clash, op[r].kind \in {"write", "upload"} \/ op[r].path \notin risk
      PROVE  disk[op[r].path] = WrittenTo(r, wanted[op[r].path])
  <2>1. Made(r)
    BY <1>2, <1>3 DEF Clear, FilesInv, Working
  <2>2. SubSeq(op[r].text, 1, op[r].at) = op[r].text
    BY <1>1, OpTyped, TextsEnd
  <2> QED BY <1>1, <2>1, <2>2 DEF Made
<1>4. temp' \in FileStates /\ temp' = temp
  BY <1>1 DEF FilesInv, DiskTypes
<1> QED BY <1>1, <1>2, <1>3, <1>4, RequestEnds

LEMMA DiskKept == ASSUME FilesInv, NEW p \in Paths
                  PROVE  /\ disk = [disk EXCEPT ![p] = disk[p]] /\ disk[p] \in FileStates /\ Len(disk[p].text) <= MaxLen
                         /\ temp \in FileStates
  BY DEF FilesInv, DiskTypes

LEMMA OpenTempKeeps == ASSUME FilesInv, NEW r \in FileReqs, OpenTemp(r) PROVE FilesInv'
<1>1. /\ op[r].pc = "temp" /\ temp' = Of(<<>>) /\ op' = [op EXCEPT ![r].pc = "filltemp"]
      /\ UNCHANGED <<disk, wanted, risk>> /\ AtWork(op[r]) /\ ~Started(op[r])
  BY DEF OpenTemp, AtWork, Started
<1>2. op[r].at = 0 /\ op[r].sudo
  BY <1>1, OpTyped DEF Shaped
<1>3. PICK n : n = PlacedAt(op[r], "filltemp", 0)
  OBVIOUS
<1>4. n.pc = "filltemp" /\ n.at = 0 /\ n = PlacedAt(op[r], n.pc, n.at) /\ op' = [op EXCEPT ![r] = n]
  <2>1. /\ n.pc = "filltemp" /\ n.at = 0 /\ n = PlacedAt(op[r], n.pc, n.at)
        /\ n = [op[r] EXCEPT !.pc = "filltemp"]
    BY <1>2, <1>3, OpTyped DEF FileOps, PlacedAt
  <2> QED BY <1>1, <2>1
<1>5. SubSeq(op[r].text, 1, 0) = <<>> /\ 0 \in Nat /\ 0 <= Len(op[r].text)
  BY OpTyped, TextsEnd DEF FileTexts
<1>6. temp' \in FileStates
  BY <1>1, EmptySeq DEF Of, FileStates, FileTexts
<1>7. PICK d \in FileStates : d = disk[op[r].path] /\ disk' = [disk EXCEPT ![op[r].path] = d] /\ Len(d.text) <= MaxLen
  BY <1>1, OpTyped, DiskKept
<1>8. /\ n.at \in Nat /\ n.at <= Len(op[r].text) /\ n.pc # "fill"
      /\ Clear(r) => temp' = Of(SubSeq(op[r].text, 1, n.at))
  BY <1>1, <1>4, <1>5
<1> QED BY <1>1, <1>2, <1>4, <1>6, <1>7, <1>8, WriterSteps

LEMMA FillTempKeeps == ASSUME FilesInv, NEW r \in FileReqs, FillTemp(r) PROVE FilesInv'
<1>0. PICK o \in FileOps, t \in FileTexts, at \in Nat : o = op[r] /\ t = o.text /\ at = o.at
  BY OpTyped DEF FileOps
<1>1. /\ o.pc = "filltemp" /\ at < Len(t)
      /\ temp' = (IF temp.there THEN Of(WrittenAt(temp.text, at, t[at + 1])) ELSE temp)
      /\ op' = [op EXCEPT ![r].at = @ + 1] /\ UNCHANGED <<disk, wanted, risk>>
      /\ AtWork(op[r]) /\ ~Started(op[r])
  BY <1>0 DEF FillTemp, AtWork, Started
<1>2. op[r].sudo
  BY <1>0, <1>1, OpTyped DEF Shaped
<1>3. PICK n : n = PlacedAt(op[r], "filltemp", at + 1)
  OBVIOUS
<1>4. n.pc = "filltemp" /\ n.at = at + 1 /\ n = PlacedAt(op[r], n.pc, n.at) /\ op' = [op EXCEPT ![r] = n]
  <2>1. /\ n.pc = "filltemp" /\ n.at = at + 1 /\ n = PlacedAt(op[r], n.pc, n.at)
        /\ n = [op[r] EXCEPT !.at = at + 1]
    BY <1>0, <1>1, <1>3, OpTyped DEF FileOps, PlacedAt
  <2> QED BY <1>0, <1>1, <2>1
<1>5. at + 1 \in Nat /\ at + 1 <= Len(t) /\ t[at + 1] \in Chunk
  BY <1>1 DEF FileTexts
<1>6. temp' \in FileStates
  <2>1. temp \in FileStates /\ temp.text \in FileTexts
    BY DEF FilesInv, DiskTypes, FileStates
  <2>2. WrittenAt(temp.text, at, t[at + 1]) \in FileTexts
    BY <1>5, <2>1, TextsWritten
  <2> QED BY <1>1, <2>1, <2>2 DEF Of, FileStates
<1>7. PICK d \in FileStates : d = disk[op[r].path] /\ disk' = [disk EXCEPT ![op[r].path] = d] /\ Len(d.text) <= MaxLen
  BY <1>1, OpTyped, DiskKept
<1>8. ASSUME Clear(r) PROVE temp' = Of(SubSeq(t, 1, at + 1))
  <2>1. temp = Of(SubSeq(t, 1, at))
    BY <1>0, <1>1, <1>8 DEF FilesInv, Working, Made
  <2>2. temp.there = TRUE /\ temp.text = SubSeq(t, 1, at)
    BY <2>1 DEF Of
  <2>3. WrittenAt(SubSeq(t, 1, at), at, t[at + 1]) = SubSeq(t, 1, at + 1)
    BY <1>1, TextsGrow
  <2> QED BY <1>1, <2>2, <2>3
<1>9. /\ n.at \in Nat /\ n.at <= Len(op[r].text)
      /\ Clear(r) => temp' = Of(SubSeq(op[r].text, 1, n.at))
  BY <1>0, <1>4, <1>5, <1>8
<1> QED BY <1>1, <1>2, <1>4, <1>6, <1>7, <1>9, WriterSteps

LEMMA RedirectKeeps == ASSUME FilesInv, NEW r \in FileReqs, Redirect(r) PROVE FilesInv'
<1>1. /\ op[r].pc = "filltemp" /\ op[r].at = Len(op[r].text) /\ UNCHANGED <<temp, wanted, risk>>
      /\ disk' = [disk EXCEPT ![op[r].path] = IF op[r].kind = "append" THEN Of(@.text) ELSE Of(<<>>)]
      /\ op' = [op EXCEPT ![r].pc = "cat", ![r].at = 0] /\ AtWork(op[r]) /\ ~Started(op[r])
  BY DEF Redirect, AtWork, Started
<1>2. op[r].sudo
  BY <1>1, OpTyped DEF Shaped
<1>3. PICK d : d = IF op[r].kind = "append" THEN Of(disk[op[r].path].text) ELSE Of(<<>>)
  OBVIOUS
<1>4. d \in FileStates /\ Len(d.text) <= MaxLen /\ (Clear(r) => d = Of(Base(r)))
  BY <1>1, <1>3, BaseOpens
<1>5. disk' = [disk EXCEPT ![op[r].path] = d]
  BY <1>1, <1>3
<1>6. PICK n : n = PlacedAt(op[r], "cat", 0)
  OBVIOUS
<1>7. n.pc = "cat" /\ n.at = 0 /\ n = PlacedAt(op[r], n.pc, n.at) /\ op' = [op EXCEPT ![r] = n]
  <2>1. n.pc = "cat" /\ n.at = 0 /\ n = PlacedAt(op[r], n.pc, n.at)
    BY <1>6, OpTyped DEF FileOps, PlacedAt
  <2> QED BY <1>1, <1>6, <2>1 DEF PlacedAt
<1>8. ASSUME Clear(r) PROVE temp = Of(op[r].text)
  <2>1. temp = Of(SubSeq(op[r].text, 1, Len(op[r].text)))
    BY <1>1, <1>8 DEF FilesInv, Working, Made
  <2> QED BY <2>1, OpTyped, TextsEnd
<1>9. 0 <= Len(op[r].text) /\ temp' \in FileStates /\ temp' = temp
  BY <1>1, OpTyped DEF FileTexts, FilesInv, DiskTypes
<1>10. /\ n.at \in Nat /\ n.at <= Len(op[r].text) /\ n.pc = "cat"
       /\ Clear(r) => temp' = Of(op[r].text) /\ d = Of(Base(r))
  BY <1>1, <1>4, <1>7, <1>8, <1>9
<1> QED BY <1>1, <1>2, <1>4, <1>5, <1>7, <1>9, <1>10, WriterSteps

\* A copy of a text that fits fits.
LEMMA CattedFits ==
  ASSUME NEW o, NEW b \in FileTexts, NEW t \in FileTexts, Len(b) + Len(t) <= MaxLen
  PROVE  Catted(o, b, t) \in FileTexts /\ Len(Catted(o, b, t)) <= MaxLen
<1>0. Len(b) \in Nat /\ Len(t) \in Nat /\ \A i \in 1..Len(b) : b[i] \in Chunk
  BY DEF FileTexts
<1>1. b \o t \in FileTexts /\ Len(b \o t) <= MaxLen
  BY TextsJoin
<1>2. PICK u \in FileTexts : u = SubSeq(b, Len(t) + 1, Len(b)) /\ Len(u) <= Len(b)
  <2>1. \A i \in Len(t) + 1..Len(b) : b[i] \in Chunk
    BY <1>0
  <2>2. /\ SubSeq(b, Len(t) + 1, Len(b)) \in Seq(Chunk)
        /\ Len(SubSeq(b, Len(t) + 1, Len(b))) = IF Len(t) + 1 <= Len(b) THEN Len(b) - (Len(t) + 1) + 1 ELSE 0
    BY <1>0, <2>1, SubSeqProperties
  <2>3. (IF Len(t) + 1 <= Len(b) THEN Len(b) - (Len(t) + 1) + 1 ELSE 0) <= Len(b)
    BY <1>0
  <2> QED BY <2>2, <2>3 DEF FileTexts
<1>3. t \o u \in FileTexts /\ Len(t \o u) = Len(t) + Len(u) /\ Len(u) \in Nat
  BY TextsJoin DEF FileTexts
<1>4. Len(t \o u) <= MaxLen
  BY <1>0, <1>2, <1>3, FilesAssumption
<1> QED BY <1>1, <1>2, <1>3, <1>4 DEF Catted

LEMMA CatKeeps == ASSUME FilesInv, NEW r \in FileReqs, Cat(r) PROVE FilesInv'
<1>0. PICK p \in Paths, f \in FileStates, t \in FileTexts, b \in FileTexts :
         p = op[r].path /\ f = disk[p] /\ t = temp.text /\ b = f.text
  <2>1. \A g \in FileStates : g.text \in FileTexts
    BY DEF FileStates
  <2> QED BY <2>1, OpTyped DEF FilesInv, DiskTypes
<1>1. op[r].pc = "cat" /\ UNCHANGED temp /\ AtWork(op[r]) /\ op[r].sudo /\ Pending(r) /\ Writes(op[r])
  BY OpTyped DEF Cat, AtWork, Shaped, Pending, Writes
<1>2. Clear(r) => temp = Of(op[r].text) /\ f = Of(Base(r))
  BY <1>0, <1>1 DEF FilesInv, Working, Made
<1>3. temp' \in FileStates /\ temp' = temp
  BY <1>1 DEF FilesInv, DiskTypes
<1>4. CASE ~temp.there
  <2>1. EndFile(r, "failed") /\ UNCHANGED disk
    BY <1>4 DEF Cat
  <2>2. ~(~op[r].clash /\ op[r].path \notin risk)
    BY <1>1, <1>2, <1>4 DEF Clear, Of
  <2> QED BY <1>1, <1>3, <2>1, <2>2, RequestEnds
<1>5. CASE temp.there
  <2>1. /\ Len(b) + Len(t) <= MaxLen /\ op' = [op EXCEPT ![r].pc = "unlink"] /\ UNCHANGED <<wanted, risk>>
        /\ disk' = [disk EXCEPT ![p].text = Catted(op[r], @, t)]
    BY <1>0, <1>5 DEF Cat
  <2>2. PICK body \in FileTexts : body = Catted(op[r], b, t) /\ Len(body) <= MaxLen
    BY <2>1, CattedFits
  <2>3. PICK d : d = [f EXCEPT !.text = body]
    OBVIOUS
  <2>4. d \in FileStates /\ d.text = body /\ Len(d.text) <= MaxLen
    BY <2>2, <2>3 DEF FileStates
  <2>5. disk' = [disk EXCEPT ![p] = d]
    BY <1>0, <2>1, <2>2, <2>3
  <2>6. PICK n : n = PlacedAt(op[r], "unlink", op[r].at)
    OBVIOUS
  <2>7. /\ n.pc = "unlink" /\ n.at = op[r].at /\ n = PlacedAt(op[r], n.pc, n.at)
        /\ op' = [op EXCEPT ![r] = n]
    <3>1. /\ n.pc = "unlink" /\ n.at = op[r].at /\ n = PlacedAt(op[r], n.pc, n.at)
          /\ n = [op[r] EXCEPT !.pc = "unlink"]
      BY <2>6, OpTyped DEF FileOps, PlacedAt
    <3> QED BY <2>1, <3>1
  <2>8. ASSUME Clear(r) PROVE temp'.there /\ d = Of(Base(r) \o op[r].text)
    <3>1. t = op[r].text /\ b = Base(r) /\ f.there = TRUE
      BY <1>0, <1>2, <2>8 DEF Of
    <3>2. op[r].kind # "append" => b = <<>>
      BY <3>1 DEF Base
    <3>3. t \o SubSeq(<<>>, Len(t) + 1, Len(<<>>)) = t /\ <<>> \o t = t
      BY TextsEnd, TextsJoin
    <3>4. body = b \o t
      BY <2>2, <3>2, <3>3 DEF Catted
    <3> QED BY <1>1, <1>5, <2>3, <3>1, <3>4 DEF Of, FileStates
  <2>9. n.at \in Nat /\ n.at <= Len(op[r].text)
    BY <2>7, OpTyped DEF FileOps, InReach
  <2> QED BY <1>0, <1>1, <1>3, <2>1, <2>4, <2>5, <2>7, <2>8, <2>9, WriterSteps
<1> QED BY <1>4, <1>5

LEMMA UnlinkKeeps == ASSUME FilesInv, NEW r \in FileReqs, Unlink(r) PROVE FilesInv'
<1>1. /\ op[r].pc = "unlink" /\ temp' = Absent /\ UNCHANGED disk
      /\ EndFile(r, IF temp.there THEN "answered" ELSE "failed")
  BY DEF Unlink
<1>2. AtWork(op[r]) /\ Pending(r) /\ Writes(op[r]) /\ op[r].sudo
  BY <1>1, OpTyped DEF AtWork, Pending, Shaped, Writes
<1>3. ASSUME ~op[r].clash, op[r].kind \in {"write", "upload"} \/ op[r].path \notin risk
      PROVE  temp.there /\ disk[op[r].path] = WrittenTo(r, wanted[op[r].path])
  <2>1. Made(r)
    BY <1>2, <1>3 DEF Clear, FilesInv, Working
  <2> QED BY <1>1, <2>1 DEF Made
<1>4. temp' \in FileStates
  BY <1>1, EmptySeq DEF Absent, FileStates, FileTexts
<1>5. CASE temp.there
  BY <1>1, <1>2, <1>3, <1>4, <1>5, RequestEnds
<1>6. CASE ~temp.there
  BY <1>1, <1>2, <1>3, <1>4, <1>6, RequestEnds
<1> QED BY <1>5, <1>6

\* A failure with the file open puts it in doubt, whatever it holds.
LEMMA FallShortKeeps == ASSUME FilesInv, NEW r \in FileReqs, FallShort(r) PROVE FilesInv'
<1>0. PICK p \in Paths, f \in FileStates, b \in FileTexts, t \in FileTexts :
        p = op[r].path /\ f = disk[p] /\ b = f.text /\ t = temp.text
  <2>1. \A g \in FileStates : g.text \in FileTexts
    BY DEF FileStates
  <2> QED BY <2>1, OpTyped DEF FilesInv, DiskTypes
<1>1. /\ op[r].pc \in {"fill", "cat", "unlink"} /\ UNCHANGED <<temp, wanted>> /\ risk' = risk \cup {p}
      /\ op' = [op EXCEPT ![r].pc = "failed"]
  BY <1>0 DEF FallShort
<1>2. AtWork(op[r]) /\ Pending(r) /\ Writes(op[r])
  BY <1>1, OpTyped DEF AtWork, Pending, Shaped, Writes
<1>3. PICK d \in FileStates : Len(d.text) <= MaxLen /\ disk' = [disk EXCEPT ![p] = d]
  <2>1. CASE UNCHANGED disk
    BY <1>0, <2>1, DiskKept
  <2>2. CASE disk' # disk
    <3>1. /\ Len(b) + Len(t) <= MaxLen
          /\ \E n \in 0..Len(t) : disk' = [disk EXCEPT ![p].text = Catted(op[r], @, SubSeq(t, 1, n))]
      BY <1>0, <2>2 DEF FallShort
    <3>2. PICK n \in 0..Len(t) : disk' = [disk EXCEPT ![p].text = Catted(op[r], @, SubSeq(t, 1, n))]
      BY <3>1
    <3>3. Len(t) \in Nat /\ n \in Nat /\ n <= Len(t) /\ \A i \in 1..Len(t) : t[i] \in Chunk
      BY DEF FileTexts
    <3>4. PICK u \in FileTexts : u = SubSeq(t, 1, n) /\ Len(u) = n
      <4>1. 1 \in Int /\ n \in Int /\ \A i \in 1..n : t[i] \in Chunk
        BY <3>3
      <4>2. /\ SubSeq(t, 1, n) \in Seq(Chunk)
            /\ Len(SubSeq(t, 1, n)) = IF 1 <= n THEN n - 1 + 1 ELSE 0
        BY <4>1, SubSeqProperties
      <4>3. (IF 1 <= n THEN n - 1 + 1 ELSE 0) = n
        BY <3>3
      <4> QED BY <4>2, <4>3 DEF FileTexts
    <3>5. Len(b) \in Nat
      BY DEF FileTexts
    <3>6. Len(b) + Len(u) <= MaxLen
      BY <3>1, <3>3, <3>4, <3>5, FilesAssumption
    <3>7. PICK body \in FileTexts : body = Catted(op[r], b, u) /\ Len(body) <= MaxLen
      BY <3>6, CattedFits
    <3>8. PICK d : d = [f EXCEPT !.text = body]
      OBVIOUS
    <3>9. d \in FileStates /\ d.text = body /\ disk' = [disk EXCEPT ![p] = d]
      BY <1>0, <3>2, <3>4, <3>7, <3>8 DEF FileStates
    <3> QED BY <3>7, <3>9
  <2> QED BY <2>1, <2>2
<1>4. PICK n : n = [op[r] EXCEPT !.pc = "failed"]
  OBVIOUS
<1>5. op' = [op EXCEPT ![r] = n] /\ op'[r] = n /\ n.pc = "failed"
  BY <1>1, <1>4, OpTyped DEF FileOps
<1>6. n \in FileOps /\ SameAsk(op[r], n) /\ n.at = op[r].at /\ n.text = op[r].text /\ n.right
  BY <1>4, OpTyped DEF FileOps, SameAsk
<1>7. InReach(n) /\ Shaped(n)
  BY <1>5, <1>6, OpTyped DEF InReach, Shaped, AtWork
<1>8. /\ disk' \in [Paths -> FileStates] /\ \A x \in Paths : Len(disk'[x].text) <= MaxLen
      /\ \A x \in Paths : x # p => disk'[x] = disk[x] /\ wanted'[x] = wanted[x] /\ (x \in risk' <=> x \in risk)
      /\ temp' \in FileStates /\ wanted' \in [Paths -> FileStates] /\ risk' \subseteq Paths
  BY <1>1, <1>3 DEF FilesInv, DiskTypes
<1>9. SteadyAt(op[r].path)'
  <2>1. op'[r].path = p /\ p \in risk'
    BY <1>0, <1>1, <1>5, <1>6 DEF SameAsk
  <2> QED BY <2>1 DEF SteadyAt
<1>10. ~Clear(r)'
  BY <1>5 DEF Clear, AtWork
<1> QED BY <1>0, <1>1, <1>2, <1>5, <1>6, <1>7, <1>8, <1>9, <1>10, RequestSteps

-----------------------------------------------------------------------------
(* A new request marks whoever it disturbs, and itself.                     *)

LEMMA AskFileKeeps ==
  ASSUME FilesInv, NEW r \in FileReqs, NEW kind \in FileKinds, NEW p \in Paths, NEW sudo \in BOOLEAN,
         NEW old \in FileReqs \cup {"lf"}, AskFile(r, kind, p, sudo, old)
  PROVE  FilesInv'
<1>1. PICK o : o = [NewOp EXCEPT !.kind = kind, !.path = p, !.sudo = sudo, !.old = old, !.text = <<r, r>>, !.pc = "read"]
  OBVIOUS
<1>2. /\ o \in FileOps /\ o.kind = kind /\ o.path = p /\ o.sudo = sudo /\ o.old = old /\ o.text = <<r, r>>
      /\ o.pc = "read" /\ o.at = 0 /\ ~o.clash /\ o.right
  <2>1. NewOp \in FileOps /\ NewOp.at = 0 /\ ~NewOp.clash /\ NewOp.right
    BY FilesAssumption DEF NewOp, FileOps, FileKinds, FileTexts
  <2>2. <<r, r>> \in FileTexts
    BY OpTyped
  <2> QED BY <1>1, <2>1, <2>2 DEF FileOps
<1>3. PICK others \in SUBSET FileReqs : others = {q \in FileReqs : Pending(q) /\ Clash(o, op[q])}
  OBVIOUS
<1>4. PICK flag \in BOOLEAN : flag = (others # {})
  OBVIOUS
<1>5. PICK mine : mine = [o EXCEPT !.clash = flag]
  OBVIOUS
<1>6. /\ mine \in FileOps /\ mine.kind = kind /\ mine.path = p /\ mine.sudo = sudo /\ mine.old = old
      /\ mine.text = <<r, r>> /\ mine.pc = "read" /\ mine.at = 0 /\ mine.clash = flag /\ mine.right
  BY <1>2, <1>5 DEF FileOps
<1>7. PICK n : n = IF kind \in {"replace", "read"} THEN mine ELSE Opening(mine)
  OBVIOUS
<1>8. /\ n \in FileOps /\ n.kind = kind /\ n.path = p /\ n.sudo = sudo /\ n.old = old
      /\ n.text = <<r, r>> /\ n.at = 0 /\ n.clash = flag /\ n.right
      /\ n.pc \in {"read", "open", "temp"} /\ (n.pc # "read" => kind \notin {"replace", "read"}) /\ Shaped(n)
  <2>1. CASE kind \in {"replace", "read"}
    BY <1>6, <1>7, <2>1 DEF Shaped, AtWork
  <2>2. CASE kind \notin {"replace", "read"}
    <3>1. PICK m : m = Opening(mine)
      OBVIOUS
    <3>2. /\ m \in FileOps /\ SameAsk(mine, m) /\ m.text = mine.text /\ m.at = 0 /\ m.right = mine.right
          /\ m.pc = (IF mine.sudo THEN "temp" ELSE "open") /\ Shaped(m)
      BY <1>6, <2>2, <3>1, Opens
    <3> QED BY <1>6, <1>7, <2>2, <3>1, <3>2 DEF SameAsk
  <2> QED BY <2>1, <2>2
<1>9. InReach(n)
  BY <1>8, OpTyped, FilesAssumption DEF InReach
<1>10. /\ op[r].pc = "new" /\ UNCHANGED <<disk, temp, wanted, risk>>
       /\ op' = [q \in FileReqs |-> IF q = r THEN n ELSE IF q \in others THEN [op[q] EXCEPT !.clash = TRUE] ELSE op[q]]
  BY <1>1, <1>3, <1>4, <1>5, <1>7 DEF AskFile
<1>11. \A q \in FileReqs : q # r =>
         /\ op'[q] \in FileOps /\ op'[q].pc = op[q].pc /\ op'[q].kind = op[q].kind /\ op'[q].path = op[q].path
         /\ op'[q].sudo = op[q].sudo /\ op'[q].at = op[q].at /\ op'[q].text = op[q].text /\ op'[q].right = op[q].right
         /\ op[q].clash \/ q \in others => op'[q].clash
         /\ q \notin others => op'[q] = op[q]
  <2> SUFFICES ASSUME NEW q \in FileReqs, q # r
      PROVE  /\ op'[q] \in FileOps /\ op'[q].pc = op[q].pc /\ op'[q].kind = op[q].kind /\ op'[q].path = op[q].path
             /\ op'[q].sudo = op[q].sudo /\ op'[q].at = op[q].at /\ op'[q].text = op[q].text /\ op'[q].right = op[q].right
             /\ op[q].clash \/ q \in others => op'[q].clash
             /\ q \notin others => op'[q] = op[q]
    OBVIOUS
  <2>1. op[q] \in FileOps /\ op'[q] = IF q \in others THEN [op[q] EXCEPT !.clash = TRUE] ELSE op[q]
    BY <1>10, OpTyped
  <2>2. CASE q \in others
    BY <2>1, <2>2 DEF FileOps
  <2>3. CASE q \notin others
    BY <2>1, <2>3
  <2> QED BY <2>2, <2>3
<1>12. op'[r] = n
  BY <1>10
<1>13. DiskTypes'
  <2>1. op' \in [FileReqs -> FileOps]
    BY <1>8, <1>10, <1>11, <1>12
  <2> QED BY <1>10, <2>1 DEF FilesInv, DiskTypes
<1>14. Shapes'
  <2> SUFFICES ASSUME NEW q \in FileReqs PROVE InReach(op'[q]) /\ Shaped(op'[q]) /\ op'[q].right
    BY DEF Shapes
  <2>1. CASE q = r
    BY <1>8, <1>9, <1>12, <2>1
  <2>2. CASE q # r
    <3>1. /\ op'[q].pc = op[q].pc /\ op'[q].kind = op[q].kind /\ op'[q].at = op[q].at /\ op'[q].text = op[q].text
          /\ InReach(op[q]) /\ Shaped(op[q])
      BY <1>11, <2>2, OpTyped
    <3>2. (op'[q].sudo <=> op[q].sudo) /\ op'[q].right
      BY <1>11, <2>2, OpTyped
    <3>3. InReach(op'[q])
      BY <3>1 DEF InReach
    <3>4. Shaped(op'[q])
      BY <3>1, <3>2 DEF Shaped, AtWork
    <3> QED BY <3>2, <3>3, <3>4
  <2> QED BY <2>1, <2>2
<1>15. Marks'
  <2> SUFFICES ASSUME NEW k \in FileReqs, NEW q \in FileReqs, k # q, Pending(k)', Pending(q)', Clash(op'[k], op'[q])
               PROVE  op'[k].clash
    BY DEF Marks
  <2>1. CASE k = r
    <3>1. Pending(q) /\ Clash(o, op[q])
      BY <1>2, <1>8, <1>11, <1>12, <2>1 DEF Pending, Clash, Writes
    <3> QED BY <1>3, <1>4, <1>8, <1>12, <2>1, <3>1
  <2>2. CASE q = r
    <3>1. Pending(k) /\ Clash(o, op[k])
      BY <1>2, <1>8, <1>11, <1>12, <2>2 DEF Pending, Clash, Writes
    <3> QED BY <1>3, <1>11, <2>2, <3>1
  <2>3. CASE k # r /\ q # r
    <3>1. Pending(k) /\ Pending(q) /\ Clash(op[k], op[q])
      BY <1>11, <2>3 DEF Pending, Clash, Writes
    <3> QED BY <1>11, <2>3, <3>1 DEF FilesInv, Marks
  <2> QED BY <2>1, <2>2, <2>3
<1>16. Steady'
  <2> SUFFICES ASSUME NEW x \in Paths PROVE SteadyAt(x)'
    BY DEF Steady
  <2>1. ASSUME NEW q \in FileReqs, Started(op[q]) PROVE Started(op'[q]) /\ op'[q].path = op[q].path
    BY <1>10, <1>11, <2>1 DEF Started
  <2>2. SteadyAt(x)
    BY DEF FilesInv, Steady
  <2> QED BY <1>10, <2>1, <2>2 DEF SteadyAt
<1>17. Working'
  <2> SUFFICES ASSUME NEW q \in FileReqs, Clear(q)' PROVE Made(q)'
    BY DEF Working
  <2>1. CASE q # r
    <3>1. op'[q] = op[q]
      BY <1>11, <2>1 DEF Clear
    <3>2. Clear(q)
      BY <1>10, <3>1 DEF Clear
    <3> QED BY <1>10, <3>1, <3>2 DEF FilesInv, Working, Made, Base, WrittenTo
  <2>2. CASE q = r
    <3>1. n.pc \in {"open", "temp"} /\ kind \in {"write", "append", "upload"}
      BY <1>8, <1>12, <2>2 DEF Clear, AtWork, FileKinds
    <3>2. wanted[p].text \in FileTexts /\ <<r, r>> \in FileTexts /\ <<>> \o <<r, r>> = <<r, r>>
      <4>1. wanted[p] \in FileStates /\ <<r, r>> \in FileTexts
        BY OpTyped DEF FilesInv, DiskTypes
      <4> QED BY <4>1, TextsJoin DEF FileStates
    <3>3. WrittenTo(r, wanted[p])' = Of((IF kind = "append" THEN wanted[p].text ELSE <<>>) \o <<r, r>>)
      BY <1>8, <1>10, <1>12, <3>1, <3>2 DEF WrittenTo
    <3>4. Base(r)' = (IF kind = "append" THEN wanted[p].text ELSE <<>>) /\ op'[r].path = p /\ op'[r].text = <<r, r>>
      BY <1>8, <1>10, <1>12 DEF Base
    <3> QED BY <1>12, <2>2, <3>1, <3>3, <3>4 DEF Made
  <2> QED BY <2>1, <2>2
<1> QED BY <1>13, <1>14, <1>15, <1>16, <1>17 DEF FilesInv

LEMMA FilesStep == ASSUME FilesInv, [FilesNext]_fileVars PROVE FilesInv'
<1>1. CASE UNCHANGED fileVars
  BY <1>1 DEF fileVars, FilesInv, DiskTypes, Shapes, Marks, Pending, Steady, SteadyAt, Working, Clear, Made, Base, WrittenTo
<1>2. CASE FilesNext
  <2>1. PICK r \in FileReqs :
          \/ \E kind \in FileKinds, p \in Paths, sudo \in BOOLEAN, old \in FileReqs \cup {"lf"} : AskFile(r, kind, p, sudo, old)
          \/ FailEarly(r) \/ LookAt(r) \/ ReadToReplace(r) \/ OpenFile(r) \/ Fill(r) \/ Close(r)
          \/ OpenTemp(r) \/ FillTemp(r) \/ Redirect(r) \/ Cat(r) \/ Unlink(r) \/ FallShort(r)
    BY <1>2 DEF FilesNext
  <2> QED BY <2>1, AskFileKeeps, FailEarlyKeeps, LookAtKeeps, ReadToReplaceKeeps, OpenFileKeeps, FillKeeps, CloseKeeps,
             OpenTempKeeps, FillTempKeeps, RedirectKeeps, CatKeeps, UnlinkKeeps, FallShortKeeps
<1> QED BY <1>1, <1>2

LEMMA FilesTyped == ASSUME FilesInv PROVE FilesTypeOK
<1>1. ASSUME NEW p \in Paths PROVE Len(disk[p].text) <= MaxLen /\ \A i \in DOMAIN disk[p].text : disk[p].text[i] \in Chunk
  BY DEF FilesInv, DiskTypes, FileStates, FileTexts
<1> QED BY <1>1 DEF FilesTypeOK, FilesInv, DiskTypes, FileOps

-----------------------------------------------------------------------------
(* The session's files.  A path that is not shared is listed once (Once),   *)
(* and its id is nobody else's (OwnIds); it stays listed (Stays) with the   *)
(* file's content (Stored), and the runner knows what it is about (AtStep). *)
(* A copy that a chat holds lists each path once as well (Fine), so that    *)
(* only what differs from it is taken back.                                 *)

DocEntries == [path : Docs, id : 1..MaxIds]
Runners == [pc : {"rest", "calling", "run", "called", "find", "download", "remove", "upload", "add", "attach", "enlist"},
            kind : {"write", "read"}, path : Docs, before : 0..MaxBody, old : 0..MaxBody, known : BOOLEAN,
            info : 0..MaxIds, body : 0..MaxBody, id : 0..MaxIds]
DocTypes ==
  /\ box \in [Docs -> 0..MaxBody] /\ store \in Seq(0..MaxBody) /\ Len(store) <= MaxIds
  /\ listed \in Seq(DocEntries) /\ \A i \in DOMAIN listed : listed[i].id \in DOMAIN store
  /\ runner \in Runners /\ diff = TRUE
  /\ ghost \in [ever : SUBSET Docs, loose : SUBSET Docs, shared : SUBSET Docs]

OnlyOnce(p) == \A i, j \in Entries(p) : i = j
Once == \A p \in Docs \ ghost.shared : OnlyOnce(p)
OwnIds == \A i, j \in DOMAIN listed : listed[i].id = listed[j].id /\ listed[i].path # listed[j].path =>
                                        listed[i].path \in ghost.shared
AddsTo(p) == runner.path = p /\ runner.pc \in {"upload", "add"}
Stays == \A p \in ghost.ever \ ghost.shared : Entries(p) # {} \/ AddsTo(p)
Stored == \A p \in Docs \ (ghost.shared \cup ghost.loose) : ~InSync(p) =>
            \A i \in Entries(p) : store[listed[i].id] = box[p]
HasBody == runner.id \in DOMAIN store /\ store[runner.id] = runner.body
AtStep ==
  /\ runner.pc = "run" /\ runner.known /\ runner.old # 0 => runner.old = box[runner.path]
  /\ runner.pc = "called" /\ runner.known /\ runner.old # 0 => runner.old = runner.before
  /\ runner.pc \in {"download", "remove"} =>
       /\ runner.path \notin ghost.shared =>
            \/ runner.info = 0 /\ Entries(runner.path) = {}
            \/ runner.info # 0 /\ \E i \in Entries(runner.path) : listed[i].id = runner.info
       /\ runner.info # 0 => \A i \in DOMAIN listed : listed[i].id = runner.info =>
                              listed[i].path \in {runner.path} \cup ghost.shared
  /\ runner.pc = "remove" => runner.body # 0
  /\ runner.pc \in {"upload", "add"} => runner.body # 0 /\ (runner.path \notin ghost.shared => Entries(runner.path) = {})
  /\ runner.pc = "add" => HasBody /\ \A i \in DOMAIN listed : listed[i].id # runner.id
  /\ runner.pc \in {"attach", "enlist"} => runner.id \in DOMAIN store
  /\ runner.pc = "enlist" =>
       /\ runner.path \in ghost.loose
       /\ runner.path \notin ghost.shared => Entries(runner.path) = {}
       /\ \A i \in DOMAIN listed : listed[i].id = runner.id => {listed[i].path, runner.path} \subseteq ghost.shared
RosterInv == DocTypes /\ Once /\ OwnIds /\ Stays /\ Stored /\ AtStep

LEMMA RosterInit == DocsInit => RosterInv
<1> SUFFICES ASSUME DocsInit PROVE RosterInv
  OBVIOUS
<1>1. DocTypes
  <2>1. Resting \in Runners
    BY DocsAssumption DEF Resting, Runners
  <2> QED BY <2>1, DocsAssumption DEF DocsInit, DocTypes
<1>2. \A p : Entries(p) = {}
  BY DEF DocsInit, Entries
<1> QED BY <1>1, <1>2 DEF DocsInit, RosterInv, Once, OnlyOnce, OwnIds, Stays, Stored, AtStep, Resting

LEMMA RosterHolds == ASSUME RosterInv PROVE SessionFilesKept
<1>1. ASSUME NEW p \in Docs \ ghost.shared, Entries(p) # {}, p \notin ghost.loose, ~InSync(p)
      PROVE  store[FirstId(p)] = box[p]
  <2>1. PICK i \in Entries(p) : TRUE
    BY <1>1
  <2>2. Entries(p) = {i} /\ i \in Nat
    BY <1>1, <2>1 DEF RosterInv, DocTypes, Once, OnlyOnce, Entries
  <2>3. (CHOOSE x \in {i} : \A j \in {i} : x <= j) = i
    <3>1. i <= i
      BY <2>2
    <3> QED BY <3>1
  <2>4. FirstId(p) = listed[i].id
    BY <2>2, <2>3 DEF FirstId
  <2> QED BY <1>1, <2>1, <2>4 DEF RosterInv, Stored
<1> QED BY <1>1 DEF RosterInv, DocTypes, Once, OnlyOnce, Stays, AddsTo, SessionFilesKept

-----------------------------------------------------------------------------
(* The list without an id.                                                  *)

LEMMA Ranked ==
  ASSUME NEW n \in Nat, NEW K, K \subseteq 1..n
  PROVE  /\ Cardinality(K) \in Nat
         /\ \A i \in K : Rank(K, i) \in 1..Cardinality(K)
         /\ \A i, j \in K : Rank(K, i) = Rank(K, j) => i = j
         /\ \A k \in 1..Cardinality(K) : \E i \in K : Rank(K, i) = k
<1> DEFINE Upto(i) == {j \in K : j <= i}
           N == Cardinality(K)
<1>0. \A i \in K : i \in Nat
  OBVIOUS
<1>1. IsFiniteSet(K) /\ N \in Nat
  <2>1. IsFiniteSet(1..n)
    BY FS_Interval
  <2>2. IsFiniteSet(K)
    BY <2>1, FS_Subset
  <2> QED BY <2>2, FS_CardinalityType
<1>2. ASSUME NEW i \in K PROVE IsFiniteSet(Upto(i)) /\ Cardinality(Upto(i)) \in 1..N
  <2>1. Upto(i) \subseteq K /\ i \in Upto(i)
    BY <1>0
  <2>2. IsFiniteSet(Upto(i)) /\ Cardinality(Upto(i)) <= N
    BY <1>1, <2>1, FS_Subset
  <2>3. Cardinality(Upto(i)) \in Nat /\ Cardinality(Upto(i)) # 0
    BY <2>1, <2>2, FS_CardinalityType, FS_EmptySet
  <2> QED BY <1>1, <2>2, <2>3
<1>3. ASSUME NEW i \in K, NEW j \in K, i < j PROVE Cardinality(Upto(i)) < Cardinality(Upto(j))
  <2>1. Upto(i) \subseteq Upto(j) /\ j \in Upto(j) /\ j \notin Upto(i)
    <3>1. i \in Nat /\ j \in Nat /\ i < j
      BY <1>0, <1>3
    <3>2. \A x \in K : x <= i => x <= j
      BY <1>0, <3>1
    <3>3. ~(j <= i) /\ j <= j
      BY <3>1
    <3> QED BY <3>2, <3>3
  <2>2. Cardinality(Upto(i)) <= Cardinality(Upto(j)) /\ Cardinality(Upto(i)) # Cardinality(Upto(j))
    BY <1>2, <2>1, FS_Subset
  <2> QED BY <1>2, <2>2
<1>4. ASSUME NEW i \in K, NEW j \in K, Cardinality(Upto(i)) = Cardinality(Upto(j)) PROVE i = j
  <2>1. i \in Nat /\ j \in Nat /\ Cardinality(Upto(i)) \in Nat
    BY <1>0, <1>2
  <2>2. ~(i < j) /\ ~(j < i)
    BY <1>3, <1>4, <2>1
  <2> QED BY <2>1, <2>2
<1>5. PICK f : f = [i \in K |-> Cardinality(Upto(i))]
  OBVIOUS
<1>6. f \in Injection(K, 1..N)
  BY <1>2, <1>4, <1>5 DEF Injection, IsInjective
<1>7. IsFiniteSet(1..N) /\ Cardinality(1..N) = N
  BY <1>1, FS_Interval
<1>8. f \in Surjection(K, 1..N)
  BY <1>1, <1>6, <1>7, FS_Injection
<1>9. \A k \in 1..N : \E i \in K : f[i] = k
  BY <1>8 DEF Surjection
<1> QED BY <1>1, <1>2, <1>4, <1>5, <1>9 DEF Rank

\* What is left: every entry with another id, each once.
Leaves(id, from) ==
  /\ from \in [1..Cardinality(Staying(id)) -> Staying(id)]
  /\ Without(id) \in Seq(DocEntries) /\ DOMAIN Without(id) = DOMAIN from
  /\ \A k \in DOMAIN from : Without(id)[k] = listed[from[k]]
  /\ \A k, m \in DOMAIN from : from[k] = from[m] => k = m
  /\ \A i \in Staying(id) : \E k \in DOMAIN from : from[k] = i
LEMMA WithoutIs == ASSUME DocTypes, NEW id PROVE \E from : Leaves(id, from)
<1> DEFINE K == Staying(id)
           N == Cardinality(K)
<1>1. K \subseteq 1..Len(listed) /\ Len(listed) \in Nat
  BY DEF DocTypes, Staying
<1>2. /\ N \in Nat /\ \A i \in K : Rank(K, i) \in 1..N
      /\ \A i, j \in K : Rank(K, i) = Rank(K, j) => i = j
      /\ \A k \in 1..N : \E i \in K : Rank(K, i) = k
  BY <1>1, Ranked
<1>3. PICK from : from = [k \in 1..N |-> CHOOSE i \in K : Rank(K, i) = k]
  OBVIOUS
<1>4. \A k \in 1..N : from[k] \in K /\ Rank(K, from[k]) = k
  BY <1>2, <1>3
<1>5. from \in [1..N -> K] /\ DOMAIN from = 1..N
  BY <1>3, <1>4
<1>6. Without(id) = [k \in 1..N |-> listed[from[k]]]
  BY <1>3 DEF Without
<1>7. \A i \in K : listed[i] \in DocEntries
  BY <1>1 DEF DocTypes
<1>8. Without(id) \in [1..N -> DocEntries]
  BY <1>4, <1>6, <1>7
<1>9. Without(id) \in Seq(DocEntries) /\ DOMAIN Without(id) = 1..N
  BY <1>2, <1>8, FcnIsSeq
<1>10. \A i \in K : from[Rank(K, i)] = i
  BY <1>2, <1>4
<1>11. \A k, m \in 1..N : from[k] = from[m] => k = m
  BY <1>4
<1>12. \A i \in K : \E k \in 1..N : from[k] = i
  BY <1>2, <1>10
<1>13. \A k \in 1..N : Without(id)[k] = listed[from[k]]
  BY <1>6
<1>14. Leaves(id, from)
  BY <1>5, <1>9, <1>11, <1>12, <1>13 DEF Leaves
<1> QED BY <1>14

-----------------------------------------------------------------------------
(* The steps that leave the list alone.                                     *)

GrowsTo(s, t) == Len(s) <= Len(t) /\ \A k \in 1..Len(s) : t[k] = s[k]
ListStays ==
  /\ listed' = listed /\ box' \in [Docs -> 0..MaxBody] /\ runner' \in Runners /\ diff' = TRUE
  /\ store' \in Seq(0..MaxBody) /\ Len(store') <= MaxIds /\ GrowsTo(store, store')
  /\ ghost' \in [ever : SUBSET Docs, loose : SUBSET Docs, shared : SUBSET Docs]
  /\ ghost.shared \subseteq ghost'.shared /\ ghost'.ever \subseteq ghost.ever
  /\ \A p \in ghost'.ever : AddsTo(p) => AddsTo(p)'
  /\ \A p \in Docs : p \notin ghost'.loose /\ ~InSync(p)' => box'[p] = box[p] /\ p \notin ghost.loose /\ ~InSync(p)

LEMMA QuietStep == ASSUME RosterInv, ListStays, AtStep' PROVE RosterInv'
<1>1. /\ \A i \in DOMAIN listed : listed[i].id \in DOMAIN store /\ listed[i].id \in DOMAIN store'
                                  /\ store'[listed[i].id] = store[listed[i].id]
      /\ \A p : Entries(p)' = Entries(p)
  <2>1. DOMAIN store = 1..Len(store) /\ DOMAIN store' = 1..Len(store') /\ Len(store) \in Nat /\ Len(store') \in Nat
    BY DEF RosterInv, DocTypes, ListStays
  <2> QED BY <2>1 DEF RosterInv, DocTypes, ListStays, GrowsTo, Entries
<1>2. DocTypes'
  BY <1>1 DEF RosterInv, DocTypes, ListStays
<1>3. Once' /\ OwnIds'
  BY <1>1 DEF RosterInv, Once, OnlyOnce, OwnIds, ListStays
<1>4. Stays'
  BY <1>1 DEF RosterInv, Stays, ListStays
<1>5. Stored'
  BY <1>1 DEF RosterInv, Stored, ListStays, Entries
<1> QED BY <1>2, <1>3, <1>4, <1>5 DEF RosterInv

LEMMA DocsTyping == ASSUME RosterInv
  PROVE /\ box \in [Docs -> 0..MaxBody] /\ store \in Seq(0..MaxBody) /\ Len(store) <= MaxIds /\ Len(store) \in Nat
        /\ DOMAIN store = 1..Len(store) /\ \A k \in 1..Len(store) : store[k] \in 0..MaxBody
        /\ listed \in Seq(DocEntries) /\ \A i \in DOMAIN listed : listed[i] \in DocEntries /\ listed[i].id \in DOMAIN store
        /\ runner \in Runners /\ diff = TRUE /\ GrowsTo(store, store) /\ runner.path \in Docs /\ box[runner.path] \in 0..MaxBody
        /\ ghost \in [ever : SUBSET Docs, loose : SUBSET Docs, shared : SUBSET Docs]
<1>1. /\ box \in [Docs -> 0..MaxBody] /\ store \in Seq(0..MaxBody) /\ Len(store) <= MaxIds /\ listed \in Seq(DocEntries)
      /\ runner \in Runners /\ diff = TRUE /\ \A i \in DOMAIN listed : listed[i].id \in DOMAIN store
      /\ ghost \in [ever : SUBSET Docs, loose : SUBSET Docs, shared : SUBSET Docs]
  BY DEF RosterInv, DocTypes
<1>2. runner.path \in Docs
  BY <1>1 DEF Runners
<1>3. /\ Len(store) \in Nat /\ DOMAIN store = 1..Len(store) /\ \A k \in 1..Len(store) : store[k] \in 0..MaxBody
  BY <1>1, LenProperties, ElementOfSeq
<1>4. \A i \in DOMAIN listed : listed[i] \in DocEntries
  BY <1>1
<1>5. GrowsTo(store, store)
  BY <1>3 DEF GrowsTo
<1> QED BY <1>1, <1>2, <1>3, <1>4, <1>5

LEMMA RestingIs == /\ Resting \in Runners /\ Resting.pc = "rest" /\ Resting.old = 0 /\ Resting.path = UploadDoc
                   /\ Resting.known = TRUE
  BY DocsAssumption DEF Resting, Runners

\* A ghost that a path is out of step with.
LEMMA Loosened ==
  ASSUME RosterInv, NEW p \in Docs, NEW g, g = [ghost EXCEPT !.loose = @ \cup {p}]
  PROVE  /\ g \in [ever : SUBSET Docs, loose : SUBSET Docs, shared : SUBSET Docs]
         /\ g.ever = ghost.ever /\ g.shared = ghost.shared /\ g.loose = ghost.loose \cup {p}
  BY DocsTyping

LEMMA StartCallKeeps ==
  ASSUME RosterInv, NEW kind \in {"write", "read", "deliver"}, NEW p \in Docs, StartCall(kind, p) PROVE RosterInv'
<1>1. PICK n : n = runner'
  OBVIOUS
<1>2. /\ runner.pc = "rest" /\ UNCHANGED <<box, listed, store, diff, ghost>>
      /\ n = [Resting EXCEPT !.pc = IF kind = "deliver" THEN "find" ELSE "calling", !.path = p,
                             !.kind = IF kind = "deliver" THEN "read" ELSE kind]
  BY <1>1 DEF StartCall
<1>3. n \in Runners /\ n.pc \in {"find", "calling"}
  BY <1>2, RestingIs DEF Runners
<1>4. ListStays
  BY <1>1, <1>2, <1>3, DocsTyping DEF ListStays, AddsTo, InSync
<1>5. AtStep'
  BY <1>1, <1>3 DEF AtStep
<1> QED BY <1>4, <1>5, QuietStep

LEMMA CallingKeeps == ASSUME RosterInv, Calling PROVE RosterInv'
<1>1. /\ runner.pc = "calling" /\ UNCHANGED <<box, listed, store, diff, ghost>>
      /\ \E old \in IF runner.kind = "write" THEN {0, box[runner.path]} ELSE {0} : runner' = [runner EXCEPT !.pc = "run", !.old = old]
  BY DEF Calling
<1>2. PICK old \in {0, box[runner.path]} : runner' = [runner EXCEPT !.pc = "run", !.old = old]
  BY <1>1
<1>3. old \in 0..MaxBody
  BY DocsTyping, DocsAssumption
<1>4. /\ runner' \in Runners /\ runner'.pc = "run" /\ runner'.old = old /\ runner'.path = runner.path
  BY <1>2, <1>3, DocsTyping DEF Runners
<1>5. ListStays
  BY <1>1, <1>4, DocsTyping DEF ListStays, AddsTo, InSync
<1>6. AtStep'
  BY <1>1, <1>2, <1>4 DEF AtStep
<1> QED BY <1>5, <1>6, QuietStep

LEMMA RunToolKeeps == ASSUME RosterInv, RunTool PROVE RosterInv'
<1>0. PICK b \in 0..MaxBody : b = IF runner.old = 0 THEN 0 ELSE box[runner.path]
  BY DocsTyping, DocsAssumption
<1>1. PICK n : n = [runner EXCEPT !.pc = "called", !.before = b]
  OBVIOUS
<1>2. /\ runner.pc = "run" /\ UNCHANGED <<listed, store, diff, ghost>> /\ runner' = n
      /\ \/ box' = box
         \/ \E body \in 1..MaxBody : box' = [box EXCEPT ![runner.path] = body]
  BY <1>0, <1>1 DEF RunTool
<1>3. /\ n \in Runners /\ n.pc = "called" /\ n.before = b /\ n.old = runner.old /\ n.path = runner.path /\ n.known = runner.known
  BY <1>1, DocsTyping DEF Runners
<1>4. box' \in [Docs -> 0..MaxBody] /\ \A p \in Docs : p # runner.path => box'[p] = box[p]
  BY <1>2, DocsTyping
<1>5. ListStays
  BY <1>2, <1>3, <1>4, DocsTyping DEF ListStays, AddsTo, InSync
<1>6. AtStep'
  <2>1. runner.known /\ runner.old # 0 => runner.old = b
    BY <1>0, <1>2 DEF RosterInv, AtStep
  <2> QED BY <1>2, <1>3, <2>1 DEF AtStep
<1> QED BY <1>5, <1>6, QuietStep

LEMMA CalledKeeps == ASSUME RosterInv, Called PROVE RosterInv'
<1>1. runner.pc = "called" /\ UNCHANGED <<box, listed, store>>
  BY DEF Called
<1>2. CASE /\ runner' = [Resting EXCEPT !.pc = "find", !.path = runner.path]
           /\ diff' = (diff /\ (runner.old # 0 /\ runner.known => runner.old = runner.before))
           /\ UNCHANGED ghost
  <2>1. PICK p \in Docs : p = runner.path
    BY DocsTyping
  <2>0. PICK n : n = [Resting EXCEPT !.pc = "find", !.path = p]
    OBVIOUS
  <2>2. n \in Runners /\ n.pc = "find" /\ n.path = p /\ runner' = n
    BY <1>2, <2>0, <2>1, RestingIs DEF Runners
  <2>3. diff' = TRUE
    BY <1>1, <1>2, DocsTyping DEF RosterInv, AtStep
  <2>4. ListStays
    BY <1>1, <1>2, <2>1, <2>2, <2>3, DocsTyping DEF ListStays, AddsTo, InSync
  <2>5. AtStep'
    BY <2>2 DEF AtStep
  <2> QED BY <2>4, <2>5, QuietStep
<1>3. CASE runner' = Resting /\ Loose(runner.path) /\ UNCHANGED diff
  <2>1. ListStays
    BY <1>1, <1>3, RestingIs, DocsTyping, Loosened DEF ListStays, AddsTo, InSync, Loose
  <2>2. AtStep'
    BY <1>3, RestingIs DEF AtStep
  <2> QED BY <2>1, <2>2, QuietStep
<1> QED BY <1>2, <1>3 DEF Called

\* Where a path is listed first, if it is.
LEMMA FirstIdIs ==
  ASSUME RosterInv, NEW p
  PROVE  \/ FirstId(p) = 0 /\ Entries(p) = {}
         \/ FirstId(p) \in 1..MaxIds /\ \E i \in Entries(p) : listed[i].id = FirstId(p)
<1>1. CASE Entries(p) = {}
  BY <1>1 DEF FirstId
<1>2. CASE Entries(p) # {}
  <2>1. Entries(p) \subseteq Nat
    BY DocsTyping DEF Entries
  <2>2. \E i \in Entries(p) : \A j \in Entries(p) : i <= j
    BY <1>2, <2>1, Least
  <2>3. PICK i \in Entries(p) : i = CHOOSE x \in Entries(p) : \A j \in Entries(p) : x <= j
    BY <2>2
  <2>4. FirstId(p) = listed[i].id
    BY <1>2, <2>3 DEF FirstId
  <2>5. listed[i] \in DocEntries
    BY DocsTyping DEF Entries
  <2> QED BY <2>4, <2>5 DEF DocEntries
<1> QED BY <1>1, <1>2

LEMMA SyncFindKeeps == ASSUME RosterInv, SyncFind PROVE RosterInv'
<1>1. PICK k \in 0..MaxIds : k = FirstId(runner.path)
  BY FirstIdIs, DocsAssumption
<1>2. /\ runner.pc = "find" /\ UNCHANGED <<box, listed, store, diff, ghost>>
      /\ runner' = [runner EXCEPT !.pc = "download", !.info = k]
  BY <1>1 DEF SyncFind
<1>3. runner' \in Runners /\ runner'.pc = "download" /\ runner'.info = k /\ runner'.path = runner.path
  BY <1>2, DocsTyping DEF Runners
<1>4. ListStays
  BY <1>2, <1>3, DocsTyping DEF ListStays, AddsTo, InSync
<1>5. \/ k = 0 /\ Entries(runner.path) = {}
      \/ k # 0 /\ \E i \in Entries(runner.path) : listed[i].id = k
  BY <1>1, FirstIdIs
<1>7. ASSUME k # 0, NEW i \in DOMAIN listed, listed[i].id = k, listed[i].path # runner.path
      PROVE  listed[i].path \in ghost.shared
  <2>1. PICK j \in DOMAIN listed : listed[j].path = runner.path /\ listed[j].id = k
    BY <1>5, <1>7 DEF Entries
  <2> QED BY <1>7, <2>1 DEF RosterInv, OwnIds
<1>6. AtStep'
  BY <1>2, <1>3, <1>5, <1>7 DEF AtStep, Entries
<1> QED BY <1>4, <1>6, QuietStep

LEMMA SyncDownloadKeeps == ASSUME RosterInv, SyncDownload PROVE RosterInv'
<1>1. runner.pc = "download" /\ UNCHANGED <<box, listed, store, diff>>
  BY DEF SyncDownload
<1>2. CASE /\ box[runner.path] # 0 /\ UNCHANGED ghost
           /\ runner' = [runner EXCEPT !.pc = "remove", !.body = box[runner.path], !.known = TRUE]
  <2>1. PICK b \in 0..MaxBody : b = box[runner.path] /\ runner' = [runner EXCEPT !.pc = "remove", !.body = b, !.known = TRUE]
    BY <1>2, DocsTyping
  <2>2. /\ runner' \in Runners /\ runner'.pc = "remove" /\ runner'.body = b /\ runner'.path = runner.path
        /\ runner'.info = runner.info
    BY <2>1, DocsTyping DEF Runners
  <2>3. ListStays
    BY <1>1, <1>2, <2>2, DocsTyping DEF ListStays, AddsTo, InSync
  <2>4. AtStep'
    BY <1>1, <1>2, <2>1, <2>2 DEF RosterInv, AtStep, Entries
  <2> QED BY <2>3, <2>4, QuietStep
<1>3. CASE runner' = Resting /\ Loose(runner.path)
  <2>1. ListStays
    BY <1>1, <1>3, RestingIs, DocsTyping, Loosened DEF ListStays, AddsTo, InSync, Loose
  <2>2. AtStep'
    BY <1>3, RestingIs DEF AtStep
  <2> QED BY <2>1, <2>2, QuietStep
<1> QED BY <1>2, <1>3 DEF SyncDownload

\* The storage takes a body under a new id.
LEMMA StoreGrows ==
  ASSUME RosterInv, Len(store) < MaxIds, NEW body \in 1..MaxBody, store' = Append(store, body)
  PROVE  /\ store' \in Seq(0..MaxBody) /\ Len(store') <= MaxIds /\ GrowsTo(store, store')
         /\ Len(store) + 1 \in DOMAIN store' /\ store'[Len(store) + 1] = body /\ Len(store) + 1 \in 0..MaxIds
         /\ \A i \in DOMAIN listed : listed[i].id # Len(store) + 1
<1>1. /\ store \in Seq(0..MaxBody) /\ Len(store) \in Nat /\ DOMAIN store = 1..Len(store)
      /\ \A i \in DOMAIN listed : listed[i].id \in DOMAIN store
  BY DocsTyping
<1>2. /\ store' \in Seq(0..MaxBody) /\ Len(store') = Len(store) + 1 /\ store'[Len(store) + 1] = body
      /\ \A k \in 1..Len(store) : store'[k] = store[k]
  BY <1>1
<1>3. Len(store) + 1 <= MaxIds
  BY <1>1, DocsAssumption
<1> QED BY <1>1, <1>2, <1>3, DocsAssumption DEF GrowsTo

\* What the runner holds of the storage stays so.
LEMMA BodyStays == ASSUME RosterInv, GrowsTo(store, store'), store' \in Seq(0..MaxBody), runner.id \in DOMAIN store
                   PROVE  runner.id \in DOMAIN store' /\ store'[runner.id] = store[runner.id]
  BY DocsTyping DEF GrowsTo

LEMMA SyncUploadKeeps == ASSUME RosterInv, SyncUpload PROVE RosterInv'
<1>1. runner.pc = "upload" /\ UNCHANGED <<box, listed, diff>>
  BY DEF SyncUpload
<1>2. CASE /\ Len(store) < MaxIds /\ store' = Append(store, runner.body)
           /\ runner' = [runner EXCEPT !.pc = "add", !.id = Len(store) + 1] /\ UNCHANGED ghost
  <2>1. runner.body \in 1..MaxBody
    <3>1. runner.body # 0
      BY <1>1 DEF RosterInv, AtStep
    <3>2. runner.body \in 0..MaxBody
      BY DocsTyping DEF Runners
    <3> QED BY <3>1, <3>2, DocsAssumption
  <2>2. PICK k \in 0..MaxIds : k = Len(store) + 1
    BY <1>2, <2>1, StoreGrows
  <2>3. /\ runner' \in Runners /\ runner'.pc = "add" /\ runner'.id = k /\ runner'.path = runner.path /\ runner'.body = runner.body
    BY <1>2, <2>2, DocsTyping DEF Runners
  <2>4. /\ store' \in Seq(0..MaxBody) /\ Len(store') <= MaxIds /\ GrowsTo(store, store')
        /\ k \in DOMAIN store' /\ store'[k] = runner.body /\ \A i \in DOMAIN listed : listed[i].id # k
    BY <1>2, <2>1, <2>2, StoreGrows
  <2>5. ListStays
    BY <1>1, <1>2, <2>3, <2>4, DocsTyping DEF ListStays, AddsTo, InSync
  <2>6. AtStep'
    BY <1>1, <1>2, <2>3, <2>4 DEF RosterInv, AtStep, Entries, HasBody
  <2> QED BY <2>5, <2>6, QuietStep
<1>3. CASE /\ runner' = Resting /\ UNCHANGED store
           /\ ghost' = [ghost EXCEPT !.loose = @ \cup {runner.path}, !.ever = @ \ {runner.path}]
  <2>1. /\ ghost' \in [ever : SUBSET Docs, loose : SUBSET Docs, shared : SUBSET Docs]
        /\ ghost'.loose = ghost.loose \cup {runner.path} /\ ghost'.ever = ghost.ever \ {runner.path}
        /\ ghost'.shared = ghost.shared
    BY <1>3, DocsTyping
  <2>2. ListStays
    BY <1>1, <1>3, <2>1, RestingIs, DocsTyping DEF ListStays, AddsTo, InSync
  <2>3. AtStep'
    BY <1>3, RestingIs DEF AtStep
  <2> QED BY <2>2, <2>3, QuietStep
<1> QED BY <1>2, <1>3 DEF SyncUpload

LEMMA RunnerDiesKeeps == ASSUME RosterInv, RunnerDies PROVE RosterInv'
<1>1. /\ runner' = Resting /\ UNCHANGED <<box, listed, store, diff>> /\ runner.pc # "rest"
      /\ ghost' = [ghost EXCEPT !.loose = @ \cup {runner.path},
                                !.ever = IF runner.pc \in {"upload", "add"} THEN @ \ {runner.path} ELSE @]
  BY DEF RunnerDies
<1>2. /\ ghost' \in [ever : SUBSET Docs, loose : SUBSET Docs, shared : SUBSET Docs]
      /\ ghost'.loose = ghost.loose \cup {runner.path} /\ ghost'.shared = ghost.shared
      /\ ghost'.ever = IF runner.pc \in {"upload", "add"} THEN ghost.ever \ {runner.path} ELSE ghost.ever
  BY <1>1, DocsTyping
<1>3. ListStays
  BY <1>1, <1>2, RestingIs, DocsTyping DEF ListStays, AddsTo, InSync
<1>4. AtStep'
  BY <1>1, RestingIs DEF AtStep
<1> QED BY <1>3, <1>4, QuietStep

LEMMA StartAttachKeeps == ASSUME RosterInv, NEW id \in 1..MaxIds, StartAttach(id) PROVE RosterInv'
<1>1. PICK b \in 0..MaxBody, k \in 0..MaxIds : b = store[id] /\ k = id
  BY DocsTyping, DocsAssumption DEF StartAttach
<1>2. /\ runner.pc = "rest" /\ id \in DOMAIN store /\ UNCHANGED <<box, listed, store, diff, ghost>>
      /\ runner' = [Resting EXCEPT !.pc = "attach", !.id = k, !.body = b]
  BY <1>1 DEF StartAttach
<1>3. runner' \in Runners /\ runner'.pc = "attach" /\ runner'.id = k /\ runner'.body = b
  BY <1>2, RestingIs DEF Runners
<1>4. ListStays
  BY <1>2, <1>3, DocsTyping DEF ListStays, AddsTo, InSync
<1>5. AtStep'
  BY <1>1, <1>2, <1>3 DEF AtStep
<1> QED BY <1>4, <1>5, QuietStep

LEMMA AttachCopyKeeps == ASSUME RosterInv, AttachCopy PROVE RosterInv'
<1>1. PICK p \in Docs, k \in 0..MaxIds, b \in 0..MaxBody : p = runner.path /\ k = runner.id /\ b = runner.body
  BY DocsTyping DEF Runners
<1>2. PICK tw \in SUBSET Docs : tw = Twins(k, p)
  <2>1. \A i \in DOMAIN listed : listed[i].path \in Docs
    BY DocsTyping DEF DocEntries
  <2> QED BY <2>1 DEF Twins
<1>3. /\ runner.pc = "attach" /\ box' = [box EXCEPT ![p] = b] /\ runner' = [runner EXCEPT !.pc = "enlist"]
      /\ ghost' = [ghost EXCEPT !.loose = @ \cup {p}, !.shared = IF tw = {} THEN @ ELSE @ \cup tw \cup {p}]
      /\ UNCHANGED <<listed, store, diff>>
  BY <1>1, <1>2 DEF AttachCopy, Pc
<1>4. runner' \in Runners /\ runner'.pc = "enlist" /\ runner'.path = p /\ runner'.id = k /\ runner'.body = b
  BY <1>1, <1>3, DocsTyping DEF Runners
<1>5. /\ ghost' \in [ever : SUBSET Docs, loose : SUBSET Docs, shared : SUBSET Docs]
      /\ ghost'.loose = ghost.loose \cup {p} /\ ghost'.ever = ghost.ever
      /\ ghost'.shared = IF tw = {} THEN ghost.shared ELSE ghost.shared \cup tw \cup {p}
  BY <1>3, DocsTyping
<1>6. box' \in [Docs -> 0..MaxBody] /\ \A x \in Docs : x # p => box'[x] = box[x]
  BY <1>3, DocsTyping
<1>7. ListStays
  BY <1>1, <1>3, <1>4, <1>5, <1>6, DocsTyping DEF ListStays, AddsTo, InSync
<1>8. runner'.id \in DOMAIN store'
  BY <1>1, <1>3, <1>4 DEF RosterInv, AtStep
<1>9. ASSUME p \notin ghost'.shared PROVE Entries(p)' = {}
  <2>1. tw = {}
    BY <1>5, <1>9
  <2>2. Entries(p) = {}
    BY <1>2, <2>1 DEF Twins
  <2> QED BY <1>3, <2>2 DEF Entries
<1>10. ASSUME NEW i \in DOMAIN listed, listed[i].id = k PROVE {listed[i].path, p} \subseteq ghost'.shared
  <2>1. listed[i].path \in tw
    BY <1>2, <1>10 DEF Twins
  <2> QED BY <1>5, <2>1
<1>11. AtStep'
  BY <1>3, <1>4, <1>8, <1>9, <1>10 DEF AtStep
<1> QED BY <1>7, <1>11, QuietStep

LEMMA UserUploadsKeeps == ASSUME RosterInv, UserUploads PROVE RosterInv'
<1>1. PICK body \in 1..MaxBody : /\ Len(store) < MaxIds /\ store' = Append(store, body)
                                 /\ UNCHANGED <<box, listed, runner, diff, ghost>>
  BY DEF UserUploads
<1>2. store' \in Seq(0..MaxBody) /\ Len(store') <= MaxIds /\ GrowsTo(store, store')
  BY <1>1, StoreGrows
<1>3. ListStays
  BY <1>1, <1>2, DocsTyping DEF ListStays, AddsTo, InSync
<1>4. (runner.id \in DOMAIN store => runner'.id \in DOMAIN store') /\ (HasBody => HasBody')
  BY <1>1, <1>2, BodyStays DEF HasBody
<1>5. AtStep'
  BY <1>1, <1>4 DEF RosterInv, AtStep, Entries
<1> QED BY <1>3, <1>5, QuietStep

LEMMA ScribblesKeeps == ASSUME RosterInv, NEW p \in Docs, Scribbles(p) PROVE RosterInv'
<1>1. PICK body \in 0..MaxBody : box' = [box EXCEPT ![p] = body]
  BY DEF Scribbles
<1>2. /\ Loose(p) /\ UNCHANGED <<listed, store, diff>>
      /\ runner' = IF runner.pc \in {"calling", "run", "called"} /\ runner.path = p THEN [runner EXCEPT !.known = FALSE] ELSE runner
  BY DEF Scribbles
<1>3. /\ runner' \in Runners /\ runner'.pc = runner.pc /\ runner'.path = runner.path /\ runner'.old = runner.old
      /\ runner'.before = runner.before /\ runner'.info = runner.info /\ runner'.body = runner.body /\ runner'.id = runner.id
      /\ runner.pc \in {"calling", "run", "called"} /\ runner.path = p => ~runner'.known
      /\ ~(runner.pc \in {"calling", "run", "called"} /\ runner.path = p) => runner' = runner
  <2>1. CASE runner.pc \in {"calling", "run", "called"} /\ runner.path = p
    BY <1>2, <2>1, DocsTyping DEF Runners
  <2>2. CASE ~(runner.pc \in {"calling", "run", "called"} /\ runner.path = p)
    BY <1>2, <2>2, DocsTyping
  <2> QED BY <2>1, <2>2
<1>4. box' \in [Docs -> 0..MaxBody] /\ \A x \in Docs : x # p => box'[x] = box[x]
  BY <1>1, DocsTyping
<1>5. /\ ghost' \in [ever : SUBSET Docs, loose : SUBSET Docs, shared : SUBSET Docs]
      /\ ghost'.loose = ghost.loose \cup {p} /\ ghost'.ever = ghost.ever /\ ghost'.shared = ghost.shared
  BY <1>2, Loosened DEF Loose
<1>6. ListStays
  BY <1>2, <1>3, <1>4, <1>5, DocsTyping DEF ListStays, AddsTo, InSync
<1>7. AtStep'
  <2>1. HasBody' = HasBody /\ \A x : Entries(x)' = Entries(x)
    BY <1>2, <1>3 DEF HasBody, Entries
  <2>2. AtStep
    BY DEF RosterInv
  <2> QED BY <1>2, <1>3, <1>4, <1>5, <2>1, <2>2, DocsTyping DEF AtStep
<1> QED BY <1>6, <1>7, QuietStep

-----------------------------------------------------------------------------
(* The steps that change the list.                                          *)

LEMMA ListGrows ==
  ASSUME RosterInv, NEW e \in DocEntries, listed' = Append(listed, e)
  PROVE  /\ listed' \in Seq(DocEntries) /\ DOMAIN listed' = DOMAIN listed \cup {Len(listed) + 1}
         /\ Len(listed) + 1 \notin DOMAIN listed /\ listed'[Len(listed) + 1] = e
         /\ \A i \in DOMAIN listed : listed'[i] = listed[i]
         /\ \A p : Entries(p)' = IF p = e.path THEN Entries(p) \cup {Len(listed) + 1} ELSE Entries(p)
<1>1. /\ listed' \in Seq(DocEntries) /\ DOMAIN listed' = DOMAIN listed \cup {Len(listed) + 1}
      /\ Len(listed) + 1 \notin DOMAIN listed /\ listed'[Len(listed) + 1] = e
      /\ \A i \in DOMAIN listed : listed'[i] = listed[i]
  BY DocsTyping
<1> QED BY <1>1 DEF Entries

LEMMA EntryAdded ==
  ASSUME RosterInv, runner.pc \in {"add", "enlist"}, listed' = Append(listed, [path |-> runner.path, id |-> runner.id]),
         runner' = Resting, UNCHANGED <<box, store, diff>>,
         ghost' \in [ever : SUBSET Docs, loose : SUBSET Docs, shared : SUBSET Docs],
         ghost'.shared = ghost.shared, ghost'.ever = ghost.ever \cup {runner.path},
         \A p \in Docs : p # runner.path => (p \in ghost'.loose <=> p \in ghost.loose),
         runner.path \notin ghost.shared \cup ghost'.loose => box[runner.path] = store[runner.id]
  PROVE  RosterInv'
<1>0. PICK e, new : e = [path |-> runner.path, id |-> runner.id] /\ new = Len(listed) + 1
  OBVIOUS
<1>1. /\ e.path = runner.path /\ e.id = runner.id /\ runner.id \in DOMAIN store
      /\ e.path \notin ghost.shared => Entries(e.path) = {}
      /\ \A i \in DOMAIN listed : listed[i].id = e.id => {listed[i].path, e.path} \subseteq ghost.shared
  BY <1>0 DEF RosterInv, AtStep, HasBody
<1>2. e \in DocEntries
  <2>1. runner.id \in 1..MaxIds
    BY <1>1, DocsTyping, DocsAssumption
  <2> QED BY <1>0, <2>1, DocsTyping DEF DocEntries
<1>3. /\ listed' \in Seq(DocEntries) /\ DOMAIN listed' = DOMAIN listed \cup {new}
      /\ new \notin DOMAIN listed /\ listed'[new] = e
      /\ \A i \in DOMAIN listed : listed'[i] = listed[i]
      /\ \A p : Entries(p)' = IF p = e.path THEN Entries(p) \cup {new} ELSE Entries(p)
  BY <1>0, <1>2, ListGrows
<1>4. DocTypes'
  BY <1>1, <1>3, RestingIs, DocsTyping DEF DocTypes
<1>5. Once'
  BY <1>1, <1>3 DEF RosterInv, Once, OnlyOnce
<1>6. OwnIds'
  <2> SUFFICES ASSUME NEW i \in DOMAIN listed', NEW j \in DOMAIN listed', listed'[i].id = listed'[j].id,
                      listed'[i].path # listed'[j].path
               PROVE  listed'[i].path \in ghost.shared
    BY DEF OwnIds
  <2>1. CASE i \in DOMAIN listed /\ j \in DOMAIN listed
    BY <1>3, <2>1 DEF RosterInv, OwnIds
  <2>2. CASE i = new \/ j = new
    BY <1>1, <1>3, <2>2
  <2> QED BY <1>3, <2>1, <2>2
<1>7. Stays'
  <2> SUFFICES ASSUME NEW p \in ghost'.ever \ ghost.shared PROVE Entries(p)' # {}
    BY DEF Stays
  <2>1. CASE p = e.path
    BY <1>3, <2>1
  <2>2. CASE p # e.path
    BY <1>1, <1>3, <2>2 DEF RosterInv, Stays, AddsTo
  <2> QED BY <2>1, <2>2
<1>8. Stored'
  <2> SUFFICES ASSUME NEW p \in Docs \ (ghost.shared \cup ghost'.loose), NEW i \in Entries(p)'
               PROVE  store[listed'[i].id] = box[p]
    BY DEF Stored
  <2>1. CASE p = e.path
    BY <1>1, <1>3, <2>1
  <2>2. CASE p # e.path
    <3>1. ~InSync(p) /\ p \notin ghost.loose /\ i \in Entries(p)
      BY <1>1, <1>3, <2>2 DEF InSync
    <3>2. listed'[i] = listed[i]
      BY <1>3, <3>1 DEF Entries
    <3> QED BY <3>1, <3>2 DEF RosterInv, Stored
  <2> QED BY <2>1, <2>2
<1>9. AtStep'
  BY RestingIs DEF AtStep
<1> QED BY <1>4, <1>5, <1>6, <1>7, <1>8, <1>9 DEF RosterInv

LEMMA SyncAddKeeps == ASSUME RosterInv, SyncAdd PROVE RosterInv'
<1>1. PICK g : g = ghost'
  OBVIOUS
<1>2. /\ runner.pc = "add" /\ listed' = Append(listed, [path |-> runner.path, id |-> runner.id])
      /\ runner' = Resting /\ UNCHANGED <<box, store, diff>>
      /\ g = [ghost EXCEPT !.ever = @ \cup {runner.path},
                           !.loose = IF box[runner.path] = runner.body THEN @ \ {runner.path} ELSE @ \cup {runner.path}]
  BY <1>1 DEF SyncAdd
<1>3. /\ g \in [ever : SUBSET Docs, loose : SUBSET Docs, shared : SUBSET Docs] /\ g.shared = ghost.shared
      /\ g.ever = ghost.ever \cup {runner.path}
      /\ g.loose = IF box[runner.path] = runner.body THEN ghost.loose \ {runner.path} ELSE ghost.loose \cup {runner.path}
  BY <1>2, DocsTyping
<1>4. store[runner.id] = runner.body
  BY <1>2 DEF RosterInv, AtStep, HasBody
<1> QED BY <1>1, <1>2, <1>3, <1>4, EntryAdded

LEMMA EnlistKeeps == ASSUME RosterInv, Enlist PROVE RosterInv'
<1>1. PICK g : g = ghost'
  OBVIOUS
<1>2. /\ runner.pc = "enlist" /\ listed' = Append(listed, [path |-> runner.path, id |-> runner.id])
      /\ runner' = Resting /\ UNCHANGED <<box, store, diff>>
      /\ g = [ghost EXCEPT !.ever = @ \cup {runner.path},
                           !.loose = IF runner.path \in ghost.shared \/ box[runner.path] # store[runner.id] THEN @ ELSE @ \ {runner.path}]
  BY <1>1 DEF Enlist
<1>3. /\ g \in [ever : SUBSET Docs, loose : SUBSET Docs, shared : SUBSET Docs] /\ g.shared = ghost.shared
      /\ g.ever = ghost.ever \cup {runner.path}
      /\ g.loose = IF runner.path \in ghost.shared \/ box[runner.path] # store[runner.id] THEN ghost.loose
                   ELSE ghost.loose \ {runner.path}
  BY <1>2, DocsTyping
<1>4. runner.path \in ghost.loose
  BY <1>2 DEF RosterInv, AtStep
<1> QED BY <1>1, <1>2, <1>3, <1>4, EntryAdded

LEMMA SyncRemoveKeeps == ASSUME RosterInv, SyncRemove PROVE RosterInv'
<1>1. /\ runner.pc = "remove" /\ listed' = Removed(runner.info)
      /\ runner' = [runner EXCEPT !.pc = "upload", !.info = 0] /\ UNCHANGED <<box, store, diff, ghost>>
  BY DEF SyncRemove
<1>2. /\ runner' \in Runners /\ runner'.pc = "upload" /\ runner'.path = runner.path /\ runner'.body = runner.body
      /\ runner.body # 0
  <2>1. runner' \in Runners /\ runner'.pc = "upload" /\ runner'.path = runner.path /\ runner'.body = runner.body
    <3>1. PICK k \in 0..MaxIds : k = 0
      BY DocsAssumption
    <3>2. runner' = [runner EXCEPT !.pc = "upload", !.info = k]
      BY <1>1, <3>1
    <3> QED BY <3>2, DocsTyping DEF Runners
  <2> QED BY <1>1, <2>1 DEF RosterInv, AtStep
<1>3. CASE runner.info = 0
  <2>1. listed' = listed /\ (runner.path \notin ghost.shared => Entries(runner.path) = {})
    BY <1>1, <1>3 DEF Removed, RosterInv, AtStep
  <2>2. ListStays
    BY <1>1, <1>2, <2>1, DocsTyping DEF ListStays, AddsTo, InSync
  <2>3. AtStep'
    BY <1>1, <1>2, <2>1 DEF AtStep, Entries
  <2> QED BY <2>2, <2>3, QuietStep
<1>4. CASE runner.info # 0
  <2>1. listed' = Without(runner.info)
    BY <1>1, <1>4 DEF Removed
  <2>2. /\ runner.path \notin ghost.shared => \E own \in Entries(runner.path) : listed[own].id = runner.info
        /\ \A i \in DOMAIN listed : listed[i].id = runner.info => listed[i].path \in {runner.path} \cup ghost.shared
    BY <1>1, <1>4 DEF RosterInv, AtStep
  <2>3. PICK from : Leaves(runner.info, from)
    BY WithoutIs DEF RosterInv
  <2>4. /\ listed' \in Seq(DocEntries) /\ DOMAIN listed' = DOMAIN from
        /\ \A k \in DOMAIN listed' : /\ from[k] \in DOMAIN listed /\ listed'[k] = listed[from[k]]
                                     /\ listed[from[k]].id # runner.info
        /\ \A k, m \in DOMAIN listed' : from[k] = from[m] => k = m
        /\ \A i \in DOMAIN listed : listed[i].id # runner.info => \E k \in DOMAIN listed' : from[k] = i
    BY <2>1, <2>3 DEF Leaves, Staying
  <2>5. \A p, k : k \in Entries(p)' => k \in DOMAIN listed' /\ from[k] \in Entries(p) /\ listed'[k] = listed[from[k]]
    BY <2>4 DEF Entries
  <2>6. ASSUME NEW p \in Docs \ ghost.shared, p # runner.path, NEW i \in Entries(p) PROVE \E k : k \in Entries(p)'
    <3>1. i \in DOMAIN listed /\ listed[i].path = p
      BY DEF Entries
    <3>2. listed[i].id # runner.info
      BY <2>2, <2>6, <3>1
    <3>3. PICK k \in DOMAIN listed' : from[k] = i
      BY <2>4, <3>1, <3>2
    <3> QED BY <2>4, <3>1, <3>3 DEF Entries
  <2>7. ASSUME runner.path \notin ghost.shared PROVE Entries(runner.path)' = {}
    <3> SUFFICES ASSUME NEW k \in Entries(runner.path)' PROVE FALSE
      BY <1>2
    <3>0. PICK own \in Entries(runner.path) : listed[own].id = runner.info
      BY <2>2, <2>7
    <3>1. k \in DOMAIN listed' /\ from[k] \in Entries(runner.path)
      BY <1>2, <2>5
    <3>2. from[k] = own
      BY <2>7, <3>0, <3>1, DocsTyping DEF RosterInv, Once, OnlyOnce
    <3> QED BY <2>4, <3>0, <3>1, <3>2
  <2>8. DocTypes'
    BY <1>1, <1>2, <2>4, DocsTyping DEF DocTypes
  <2>9. Once'
    BY <1>1, <2>4, <2>5 DEF RosterInv, Once, OnlyOnce
  <2>10. OwnIds'
    BY <1>1, <2>4 DEF RosterInv, OwnIds
  <2>11. Stays'
    <3> SUFFICES ASSUME NEW p \in ghost.ever \ ghost.shared, p # runner.path PROVE Entries(p)' # {}
      BY <1>1, <1>2 DEF Stays, AddsTo
    <3>1. p \in Docs \ ghost.shared
      BY DocsTyping
    <3>2. Entries(p) # {}
      BY DEF RosterInv, Stays, AddsTo
    <3> QED BY <2>6, <3>1, <3>2
  <2>12. Stored'
    <3> SUFFICES ASSUME NEW p \in Docs \ (ghost.shared \cup ghost.loose), p # runner.path, NEW k \in Entries(p)'
                 PROVE  store[listed'[k].id] = box[p]
      BY <1>1, <1>2 DEF Stored, InSync
    <3>1. ~InSync(p)
      BY DEF InSync
    <3> QED BY <2>5, <3>1 DEF RosterInv, Stored
  <2>13. AtStep'
    BY <1>1, <1>2, <2>7 DEF AtStep
  <2> QED BY <2>8, <2>9, <2>10, <2>11, <2>12, <2>13 DEF RosterInv
<1> QED BY <1>3, <1>4

LEMMA RunnerKeeps == ASSUME RosterInv, RunnerNext PROVE RosterInv'
  BY StartCallKeeps, CallingKeeps, RunToolKeeps, CalledKeeps, SyncFindKeeps, SyncDownloadKeeps, SyncRemoveKeeps,
     SyncUploadKeeps, SyncAddKeeps, RunnerDiesKeeps, StartAttachKeeps, AttachCopyKeeps, EnlistKeeps, UserUploadsKeeps,
     ScribblesKeeps DEF RunnerNext

\* A deleted body puts in doubt whatever lists it.
LEMMA UserDeletesKeeps == ASSUME RosterInv, NEW id, UserDeletes(id) PROVE RosterInv'
<1>1. PICK out : out = {listed[i].path : i \in {j \in DOMAIN listed : listed[j].id = id}}
  OBVIOUS
<1>2. /\ id \in DOMAIN store /\ ~(runner.pc = "add" /\ runner.id = id) /\ store' = [store EXCEPT ![id] = 0]
      /\ ghost' = [ghost EXCEPT !.loose = @ \cup out] /\ UNCHANGED <<box, listed, runner, diff>>
  BY <1>1 DEF UserDeletes
<1>3. out \subseteq Docs
  BY <1>1, DocsTyping DEF DocEntries
<1>4. /\ ghost' \in [ever : SUBSET Docs, loose : SUBSET Docs, shared : SUBSET Docs]
      /\ ghost'.loose = ghost.loose \cup out /\ ghost'.ever = ghost.ever /\ ghost'.shared = ghost.shared
  BY <1>2, <1>3, DocsTyping
<1>5. /\ store' \in Seq(0..MaxBody) /\ DOMAIN store' = DOMAIN store /\ Len(store') = Len(store)
      /\ \A k \in DOMAIN store : k # id => store'[k] = store[k]
  <2>1. 0 \in 0..MaxBody
    BY DocsAssumption
  <2> QED BY <1>2, <2>1, DocsTyping
<1>6. \A p : Entries(p)' = Entries(p)
  BY <1>2 DEF Entries
<1>7. DocTypes'
  BY <1>2, <1>4, <1>5 DEF RosterInv, DocTypes
<1>8. Once' /\ OwnIds' /\ Stays'
  BY <1>2, <1>4, <1>6 DEF RosterInv, Once, OnlyOnce, OwnIds, Stays, AddsTo
<1>9. Stored'
  <2> SUFFICES ASSUME NEW p \in Docs \ (ghost.shared \cup ghost'.loose), ~InSync(p), NEW i \in Entries(p)
               PROVE  store'[listed[i].id] = box[p]
    BY <1>2, <1>4, <1>6 DEF Stored, InSync
  <2>1. i \in DOMAIN listed /\ listed[i].path = p
    BY DEF Entries
  <2>2. listed[i].id # id
    BY <1>1, <1>4, <2>1
  <2>3. store[listed[i].id] = box[p]
    BY <1>4 DEF RosterInv, Stored
  <2> QED BY <1>5, <2>1, <2>2, <2>3, DocsTyping
<1>10. AtStep'
  <2>1. runner.pc = "add" => HasBody'
    BY <1>2, <1>5 DEF RosterInv, AtStep, HasBody
  <2>2. AtStep
    BY DEF RosterInv
  <2> QED BY <1>2, <1>4, <1>5, <1>6, <2>1, <2>2 DEF AtStep
<1> QED BY <1>7, <1>8, <1>9, <1>10 DEF RosterInv

-----------------------------------------------------------------------------
(* The copies that chats hold.                                              *)

Fine(l) ==
  /\ l \in Seq(DocEntries) /\ \A i \in DOMAIN l : l[i].id \in DOMAIN store
  /\ \A i, j \in DOMAIN l : l[i].path = l[j].path /\ l[i].path \notin ghost.shared => i = j
  /\ \A i, j \in DOMAIN l : l[i].id = l[j].id /\ l[i].path # l[j].path => l[i].path \in ghost.shared
  /\ runner.pc = "add" => \A i \in DOMAIN l : l[i].id # runner.id
Held == [list : Seq(DocEntries), saves : 0..2]
CopiesFine == copies \in Seq(Held) /\ \A k \in DOMAIN copies : Fine(copies[k].list)
DocsInv == RosterInv /\ CopiesFine

LEMMA DocsInitInv == DocsInit => DocsInv
  BY RosterInit DEF DocsInit, DocsInv, CopiesFine
LEMMA DocsHold == ASSUME DocsInv PROVE SessionFilesKept
  BY RosterHolds DEF DocsInv

LEMMA DocsTyped == ASSUME DocsInv PROVE DocsTypeOK
<1>1. /\ box \in [Docs -> 0..MaxBody] /\ ghost.loose \subseteq Docs
      /\ runner.path \in Docs /\ runner.info \in 0..MaxIds
  BY DEF DocsInv, RosterInv, DocTypes, Runners
<1>2. \A i \in DOMAIN listed : listed[i].path \in Docs /\ listed[i].id \in DOMAIN store
  <2>1. \A i \in DOMAIN listed : listed[i] \in DocEntries /\ listed[i].id \in DOMAIN store
    BY DEF DocsInv, RosterInv, DocTypes
  <2> QED BY <2>1 DEF DocEntries
<1>3. ASSUME NEW k \in DOMAIN copies, NEW i \in DOMAIN copies[k].list
      PROVE  copies[k].list[i].path \in Docs /\ copies[k].list[i].id \in DOMAIN store
  <2>1. copies[k].list[i] \in DocEntries /\ copies[k].list[i].id \in DOMAIN store
    BY DEF DocsInv, CopiesFine, Fine
  <2> QED BY <2>1 DEF DocEntries
<1> QED BY <1>1, <1>2, <1>3 DEF DocsTypeOK

\* The session's list is as fine as a copy of it.
LEMMA ListIsFine == ASSUME RosterInv PROVE Fine(listed)
<1>1. ASSUME NEW i \in DOMAIN listed, NEW j \in DOMAIN listed, listed[i].path = listed[j].path,
             listed[i].path \notin ghost.shared
      PROVE  i = j
  <2>1. listed[i].path \in Docs
    BY DocsTyping DEF DocEntries
  <2> QED BY <1>1, <2>1 DEF RosterInv, Once, OnlyOnce, Entries
<1>2. runner.pc = "add" => \A i \in DOMAIN listed : listed[i].id # runner.id
  BY DEF RosterInv, AtStep
<1>3. listed \in Seq(DocEntries) /\ \A i \in DOMAIN listed : listed[i].id \in DOMAIN store
  BY DEF RosterInv, DocTypes
<1> QED BY <1>1, <1>2, <1>3 DEF RosterInv, OwnIds, Fine

\* What a step may do without touching a copy that is fine.
Around ==
  /\ ghost.shared \subseteq ghost'.shared /\ DOMAIN store \subseteq DOMAIN store'
  /\ runner'.pc = "add" => (runner.pc = "add" /\ runner'.id = runner.id) \/ runner'.id \notin DOMAIN store
LEMMA FineStays == ASSUME Around, NEW l, Fine(l) PROVE Fine(l)'
  BY DEF Around, Fine

LEMMA RunnerAround == ASSUME RosterInv, RunnerNext PROVE Around
<1>1. /\ store \in Seq(0..MaxBody) /\ Len(store) \in Nat /\ DOMAIN store = 1..Len(store) /\ Len(store) + 1 \notin DOMAIN store
      /\ runner \in Runners /\ ghost \in [ever : SUBSET Docs, loose : SUBSET Docs, shared : SUBSET Docs]
  BY DocsTyping
<1>2. ASSUME NEW body, store' = Append(store, body) PROVE DOMAIN store \subseteq DOMAIN store'
  BY <1>1, <1>2
<1>3. Resting.pc = "rest"
  BY DEF Resting
<1>4. ASSUME SyncUpload PROVE Around
  <2>1. CASE /\ store' = Append(store, runner.body) /\ UNCHANGED ghost
             /\ runner' = [runner EXCEPT !.pc = "add", !.id = Len(store) + 1]
    <3>1. runner'.id = Len(store) + 1
      BY <1>1, <2>1 DEF Runners
    <3> QED BY <1>1, <1>2, <2>1, <3>1 DEF Around
  <2>2. CASE /\ runner' = Resting /\ UNCHANGED store
             /\ ghost' = [ghost EXCEPT !.loose = @ \cup {runner.path}, !.ever = @ \ {runner.path}]
    BY <1>1, <1>3, <2>2 DEF Around
  <2> QED BY <1>4, <2>1, <2>2 DEF SyncUpload
<1>5. ASSUME UserUploads PROVE Around
  BY <1>2, <1>5 DEF UserUploads, Around
<1>6. ASSUME NEW kind, NEW p, StartCall(kind, p) PROVE Around
  <2>1. runner'.pc \in {"find", "calling"} /\ UNCHANGED <<store, ghost>>
    BY <1>6 DEF StartCall, Resting
  <2> QED BY <2>1 DEF Around
<1>7. ASSUME Calling \/ RunTool \/ SyncFind PROVE Around
  <2>1. runner'.pc \in {"run", "called", "download"} /\ UNCHANGED <<store, ghost>>
    BY <1>1, <1>7 DEF Calling, RunTool, SyncFind, Runners
  <2> QED BY <2>1 DEF Around
<1>8. ASSUME Called \/ SyncDownload \/ SyncRemove PROVE Around
  <2>1. runner'.pc \in {"find", "rest", "remove", "upload"} /\ UNCHANGED store
    BY <1>1, <1>3, <1>8 DEF Called, SyncDownload, SyncRemove, Runners, Resting
  <2>2. ghost'.shared = ghost.shared
    BY <1>1, <1>8 DEF Called, SyncDownload, SyncRemove, Loose
  <2> QED BY <2>1, <2>2 DEF Around
<1>9. ASSUME SyncAdd \/ RunnerDies \/ Enlist PROVE Around
  <2>1. runner'.pc = "rest" /\ UNCHANGED store
    BY <1>3, <1>9 DEF SyncAdd, RunnerDies, Enlist
  <2>2. ghost'.shared = ghost.shared
    BY <1>1, <1>9 DEF SyncAdd, RunnerDies, Enlist
  <2> QED BY <2>1, <2>2 DEF Around
<1>10. ASSUME NEW id, StartAttach(id) PROVE Around
  <2>1. runner'.pc = "attach" /\ UNCHANGED <<store, ghost>>
    BY <1>10 DEF StartAttach, Resting
  <2> QED BY <2>1 DEF Around
<1>11. ASSUME AttachCopy PROVE Around
  <2>1. runner'.pc = "enlist" /\ UNCHANGED store
    BY <1>1, <1>11 DEF AttachCopy, Pc, Runners
  <2>2. ghost.shared \subseteq ghost'.shared
    BY <1>1, <1>11 DEF AttachCopy
  <2> QED BY <2>1, <2>2 DEF Around
<1>12. ASSUME NEW p, Scribbles(p) PROVE Around
  <2>1. runner'.pc = runner.pc /\ runner'.id = runner.id /\ UNCHANGED store
    BY <1>1, <1>12 DEF Scribbles, Runners
  <2>2. ghost'.shared = ghost.shared
    BY <1>1, <1>12 DEF Scribbles, Loose
  <2> QED BY <2>1, <2>2 DEF Around
<1> QED BY <1>4, <1>5, <1>6, <1>7, <1>8, <1>9, <1>10, <1>11, <1>12 DEF RunnerNext

\* A save takes back only what it names.
LEMMA SaveCopyKeeps == ASSUME DocsInv, NEW k \in DOMAIN copies, SaveListed(k) PROVE RosterInv'
<1>1. PICK l, out : l = copies[k].list /\ out = TakenBack(l)
  OBVIOUS
<1>2. /\ listed' = l /\ UNCHANGED <<box, store, runner, diff>> /\ ghost' = [ghost EXCEPT !.shared = @ \cup out]
  BY <1>1 DEF SaveListed
<1>3. Fine(l) /\ RosterInv
  BY <1>1 DEF DocsInv, CopiesFine
<1>4. /\ ghost' \in [ever : SUBSET Docs, loose : SUBSET Docs, shared : SUBSET Docs]
      /\ ghost'.shared = ghost.shared \cup out /\ ghost'.ever = ghost.ever /\ ghost'.loose = ghost.loose
  BY <1>1, <1>2, <1>3, DocsTyping DEF TakenBack
<1>5. \A i \in DOMAIN l : l[i].path \in Docs
  <2>1. \A i \in DOMAIN l : l[i] \in DocEntries
    BY <1>3 DEF Fine
  <2> QED BY <2>1 DEF DocEntries
<1>6. ASSUME NEW p \in Docs \ out
      PROVE  /\ \A i \in DOMAIN l : l[i].path = p => \E j \in DOMAIN listed : listed[j].path = p /\ listed[j].id = l[i].id
             /\ \A j \in DOMAIN listed : listed[j].path = p => \E i \in DOMAIN l : l[i].path = p /\ l[i].id = listed[j].id
             /\ p = runner.path /\ runner.pc = "enlist" => \A i \in DOMAIN l : l[i].id # runner.id
  <2>1. IdsOf(l, p) = IdsOf(listed, p)
    BY <1>1 DEF TakenBack
  <2>2. \A i \in DOMAIN l : l[i].path = p => l[i].id \in IdsOf(listed, p)
    BY <2>1 DEF IdsOf
  <2>3. \A j \in DOMAIN listed : listed[j].path = p => listed[j].id \in IdsOf(l, p)
    BY <2>1 DEF IdsOf
  <2> QED BY <1>1, <2>2, <2>3 DEF IdsOf, TakenBack
<1>7. \A p \in Docs \ out : (Entries(p)' = {}) <=> (Entries(p) = {})
  BY <1>2, <1>6 DEF Entries
<1>8. DocTypes'
  BY <1>2, <1>3, <1>4 DEF RosterInv, DocTypes, Fine
<1>9. Once'
  BY <1>2, <1>3, <1>4 DEF Once, OnlyOnce, Entries, Fine
<1>10. OwnIds'
  BY <1>2, <1>3, <1>4 DEF OwnIds, Fine
<1>11. Stays'
  BY <1>2, <1>3, <1>4, <1>7, DocsTyping DEF RosterInv, Stays, AddsTo
<1>12. Stored'
  <2> SUFFICES ASSUME NEW p \in Docs \ (ghost'.shared \cup ghost.loose), ~InSync(p), NEW i \in DOMAIN l, l[i].path = p
               PROVE  store[l[i].id] = box[p]
    BY <1>2, <1>4 DEF Stored, InSync, Entries
  <2>1. PICK j \in DOMAIN listed : listed[j].path = p /\ listed[j].id = l[i].id
    BY <1>4, <1>6
  <2>2. j \in Entries(p)
    BY <2>1 DEF Entries
  <2> QED BY <1>3, <1>4, <2>1, <2>2 DEF RosterInv, Stored
<1>13. AtStep'
  <2>0. AtStep /\ runner.path \in Docs /\ DOMAIN store = DOMAIN store'
    BY <1>2, <1>3, DocsTyping DEF RosterInv
  <2>1. ASSUME runner.pc \in {"download", "remove"}
        PROVE  /\ runner.path \notin ghost'.shared =>
                    \/ runner.info = 0 /\ Entries(runner.path)' = {}
                    \/ runner.info # 0 /\ \E i \in Entries(runner.path)' : l[i].id = runner.info
               /\ runner.info # 0 => \A i \in DOMAIN l : l[i].id = runner.info => l[i].path \in {runner.path} \cup ghost'.shared
    <3>1. ASSUME runner.path \notin ghost'.shared, runner.info = 0 PROVE Entries(runner.path)' = {}
      BY <1>2, <1>4, <1>7, <2>0, <2>1, <3>1 DEF AtStep, Entries
    <3>2. ASSUME runner.path \notin ghost'.shared, runner.info # 0
          PROVE  \E i \in Entries(runner.path)' : l[i].id = runner.info
      <4>1. PICK j \in Entries(runner.path) : listed[j].id = runner.info
        BY <1>4, <2>0, <2>1, <3>2 DEF AtStep
      <4>2. PICK i \in DOMAIN l : l[i].path = runner.path /\ l[i].id = listed[j].id
        BY <1>4, <1>6, <2>0, <3>2 DEF Entries
      <4> QED BY <1>2, <4>1, <4>2 DEF Entries
    <3>3. ASSUME runner.info # 0, NEW i \in DOMAIN l, l[i].id = runner.info, l[i].path \notin ghost'.shared
          PROVE  l[i].path = runner.path
      <4>1. PICK j \in DOMAIN listed : listed[j].path = l[i].path /\ listed[j].id = l[i].id
        BY <1>4, <1>5, <1>6, <3>3
      <4> QED BY <1>4, <2>0, <2>1, <3>3, <4>1 DEF AtStep
    <3> QED BY <3>1, <3>2, <3>3
  <2>2. runner.pc \in {"upload", "add"} => runner.body # 0 /\ (runner.path \notin ghost'.shared => Entries(runner.path)' = {})
    BY <1>2, <1>4, <1>7, <2>0 DEF AtStep, Entries
  <2>3. runner.pc = "add" => HasBody' /\ \A i \in DOMAIN l : l[i].id # runner.id
    BY <1>2, <1>3, <2>0 DEF AtStep, HasBody, Fine
  <2>4. ASSUME runner.pc = "enlist"
        PROVE  /\ runner.path \notin ghost'.shared => Entries(runner.path)' = {}
               /\ \A i \in DOMAIN l : l[i].id = runner.id => {l[i].path, runner.path} \subseteq ghost'.shared
    <3>1. runner.path \notin ghost'.shared => Entries(runner.path)' = {}
      BY <1>2, <1>4, <1>7, <2>0, <2>4 DEF AtStep, Entries
    <3>2. ASSUME NEW i \in DOMAIN l, l[i].id = runner.id PROVE l[i].path \in ghost'.shared /\ runner.path \in ghost'.shared
      <4>1. runner.path \in ghost'.shared
        BY <1>4, <1>6, <2>0, <2>4, <3>2
      <4>2. CASE l[i].path \in out
        BY <1>4, <4>1, <4>2
      <4>3. CASE l[i].path \notin out
        <5>1. PICK j \in DOMAIN listed : listed[j].path = l[i].path /\ listed[j].id = runner.id
          BY <1>5, <1>6, <3>2, <4>3
        <5> QED BY <1>4, <2>0, <2>4, <4>1, <5>1 DEF AtStep
      <4> QED BY <4>2, <4>3
    <3> QED BY <3>1, <3>2
  <2> QED BY <1>2, <1>4, <2>0, <2>1, <2>2, <2>3, <2>4 DEF AtStep
<1> QED BY <1>8, <1>9, <1>10, <1>11, <1>12, <1>13 DEF RosterInv

LEMMA DocsStep == ASSUME DocsInv, [DocsNext]_sfVars PROVE DocsInv'
<1>0. RosterInv /\ CopiesFine /\ ghost \in [ever : SUBSET Docs, loose : SUBSET Docs, shared : SUBSET Docs]
  BY DocsTyping DEF DocsInv
<1>1. CASE UNCHANGED sfVars
  <2>1. RosterInv'
    BY <1>0, <1>1 DEF sfVars, RosterInv, DocTypes, Once, OnlyOnce, OwnIds, Stays, AddsTo, Stored, InSync, HasBody, AtStep, Entries
  <2> QED BY <1>0, <1>1, <2>1 DEF sfVars, DocsInv, CopiesFine, Fine
<1>2. CASE RunnerNext
  <2>1. Around /\ copies' = copies
    BY <1>0, <1>2, RunnerAround DEF RunnerNext
  <2>2. CopiesFine'
    BY <1>0, <2>1, FineStays DEF CopiesFine
  <2> QED BY <1>0, <1>2, <2>2, RunnerKeeps DEF DocsInv
<1>3. ASSUME NEW id \in DOMAIN store, UserDeletes(id) PROVE DocsInv'
  <2>1. /\ store' = [store EXCEPT ![id] = 0] /\ UNCHANGED <<copies, runner>>
        /\ ghost' = [ghost EXCEPT !.loose = @ \cup {listed[i].path : i \in {j \in DOMAIN listed : listed[j].id = id}}]
    BY <1>3 DEF UserDeletes
  <2>2. Around
    BY <1>0, <2>1 DEF Around
  <2>3. CopiesFine'
    BY <1>0, <2>1, <2>2, FineStays DEF CopiesFine
  <2> QED BY <1>0, <1>3, <2>3, UserDeletesKeeps DEF DocsInv
<1>4. ASSUME TakeCopy PROVE DocsInv'
  <2>1. copies' = Append(copies, [list |-> listed, saves |-> 2]) /\ UNCHANGED <<box, listed, store, runner, diff, ghost>>
    BY <1>4 DEF TakeCopy
  <2>2. RosterInv'
    BY <1>0, <2>1 DEF RosterInv, DocTypes, Once, OnlyOnce, OwnIds, Stays, AddsTo, Stored, InSync, HasBody, AtStep, Entries
  <2>3. PICK c \in Held : c = [list |-> listed, saves |-> 2]
    <3>1. [list |-> listed, saves |-> 2] \in Held
      BY <1>0, DocsTyping DEF Held
    <3> QED BY <3>1
  <2>4. /\ copies' \in Seq(Held) /\ DOMAIN copies' = DOMAIN copies \cup {Len(copies) + 1}
        /\ copies'[Len(copies) + 1] = c /\ \A k \in DOMAIN copies : copies'[k] = copies[k]
    BY <1>0, <2>1, <2>3 DEF CopiesFine
  <2>5. \A k \in DOMAIN copies' : Fine(copies'[k].list)
    BY <1>0, <2>3, <2>4, ListIsFine DEF CopiesFine
  <2>6. CopiesFine'
    BY <2>1, <2>4, <2>5 DEF CopiesFine, Fine
  <2> QED BY <2>2, <2>6 DEF DocsInv
<1>5. ASSUME NEW k \in DOMAIN copies, SaveListed(k) PROVE DocsInv'
  <2>1. PICK c \in Held : c = IF copies[k].saves = 2 THEN [copies[k] EXCEPT !.saves = 1] ELSE [list |-> <<>>, saves |-> 0]
    <3>1. copies[k] \in Held
      BY <1>0 DEF CopiesFine
    <3>2. [copies[k] EXCEPT !.saves = 1] \in Held
      BY <3>1 DEF Held
    <3>3. [list |-> <<>>, saves |-> 0] \in Held
      BY DEF Held
    <3> QED BY <3>2, <3>3
  <2>2. copies' = [copies EXCEPT ![k] = c]
    BY <1>5, <2>1 DEF SaveListed
  <2>3. UNCHANGED <<store, runner>> /\ ghost.shared \subseteq ghost'.shared
    BY <1>0, <1>5 DEF SaveListed
  <2>4. Around
    BY <2>3 DEF Around
  <2>5. c.list = copies[k].list \/ c.list = <<>>
    BY <1>0, <2>1 DEF CopiesFine, Held
  <2>6. Fine(<<>>) /\ Fine(copies[k].list)
    BY <1>0 DEF CopiesFine, Fine
  <2>7. Fine(c.list)'
    BY <2>4, <2>5, <2>6, FineStays
  <2>8. /\ copies' \in Seq(Held) /\ DOMAIN copies' = DOMAIN copies /\ copies'[k] = c
        /\ \A m \in DOMAIN copies : m # k => copies'[m] = copies[m]
    BY <1>0, <2>2 DEF CopiesFine
  <2>9. \A m \in DOMAIN copies : m # k => Fine(copies[m].list)'
    BY <1>0, <2>4, FineStays, <2>8 DEF CopiesFine
  <2>10. CopiesFine'
    BY <2>7, <2>8, <2>9 DEF CopiesFine
  <2> QED BY <1>5, <2>10, SaveCopyKeeps DEF DocsInv
<1> QED BY <1>1, <1>2, <1>3, <1>4, <1>5 DEF DocsNext
=============================================================================
