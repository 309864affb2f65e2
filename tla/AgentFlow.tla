------------------------------ MODULE AgentFlow ------------------------------
(***************************************************************************)
(* One session's plan-and-act flow: the planner makes a plan, the executor *)
(* takes its steps one at a time, each in a loop of model answers and tool *)
(* calls, and failed steps go back to the planner.  The flow may stop at   *)
(* any await (the user stops it, the model fails, the API restarts, a      *)
(* newer message supersedes it) and it stops by itself to wait for the     *)
(* user; the next message starts again from what was stored.               *)
(*                                                                         *)
(* What the model answers is any sequence of calls.  A memory is reduced   *)
(* to its last message, since nothing else decides what happens next, and  *)
(* to whether some earlier call was never answered.  A call is             *)
(*   good, bad, invalid   a report through the output tool: success, an    *)
(*                        honest failure, arguments that do not validate   *)
(*   ask, work, other     message_ask_user, a work tool, an unknown tool   *)
(***************************************************************************)
EXTENDS Naturals, Sequences

CONSTANTS MaxIter,      \* max_iterations of the tool loop
          MaxCalls,     \* bound on the calls of one answer
          MaxSteps,     \* bound on the steps of a plan
          MaxMessages   \* bound on the messages of the user

ASSUME FlowAssumption == {MaxIter, MaxCalls, MaxSteps, MaxMessages} \subseteq Nat

VARIABLES fstatus,    \* status of the session document
          phase,      \* AgentStatus, or "off": no flow is running
          plan,       \* the flow's plan, a sequence of step statuses
          saved,      \* the plan of the last PlanEvent in the session
          step,       \* the step being executed, 0: none
          resuming,   \* _resume_waiting
          memory,     \* of the two agents
          loop,       \* the tool loop under way
          work,       \* _step_work_tool_calls
          asker, did, cut, late, stale,   \* history, see the properties
          messages

flowVars == <<fstatus, phase, plan, saved, step, resuming, memory, loop, work,
              asker, did, cut, late, stale, messages>>
history  == <<asker, cut, late, stale, messages>>

Agents == {"planner", "executor"}
Kinds  == {"good", "bad", "invalid", "ask", "work", "other"}
\* The tools get_tool finds: the planner has no toolkits.
Toolkit(agent) == IF agent = "executor" THEN {"work", "ask"} ELSE {}
\* The planner has no tools: whatever else it calls is unknown, which leads where an
\* invalid report leads it.
Answers(agent) == LET kinds == IF agent = "planner" THEN {"good", "ask"} ELSE Kinds
                  IN  UNION {[1..n -> kinds] : n \in 1..MaxCalls}

Settled(st) == st \in {"completed", "failed"}
Open(p) == {i \in DOMAIN p : ~Settled(p[i])}
NextStep_SkipsRunning(p) ==
  LET fresh == {i \in DOMAIN p : p[i] = "pending"}
  IN  IF fresh = {} THEN 0 ELSE CHOOSE i \in fresh : \A j \in fresh : i <= j
NextStep(p) == IF Open(p) = {} THEN 0 ELSE CHOOSE i \in Open(p) : \A j \in Open(p) : i <= j

Empty == [last |-> "none", calls |-> <<>>, gap |-> FALSE]
Quiet == [who |-> "none", pc |-> "none", iter |-> 0, i |-> 0, out |-> "none"]

FlowInit ==
  /\ fstatus = "pending" /\ phase = "off" /\ plan = <<>> /\ saved = <<>> /\ step = 0
  /\ resuming = FALSE /\ memory = [a \in Agents |-> Empty] /\ loop = Quiet /\ work = 0
  /\ asker = 0 /\ did = FALSE /\ cut = {} /\ late = FALSE /\ stale = FALSE /\ messages = 0

-----------------------------------------------------------------------------
(* Memory.                                                                  *)

\* A message of the user: calls of the last answer stay without a response.
Told(m) == [last |-> "user", calls |-> <<>>, gap |-> m.gap \/ m.last = "call"]
\* The responses to all calls of the last answer.
Responded_KeepsCalls(m) == [m EXCEPT !.last = "tool"]
Responded(m) == [m EXCEPT !.last = "tool", !.calls = <<>>]
Answered(m, calls) == [m EXCEPT !.last = IF calls = <<>> THEN "text" ELSE "call", !.calls = calls]

RollBack_KeepsOpen(m) ==
  IF m.last = "call" /\ m.calls[1] = "ask"
  THEN [last |-> "tool", calls |-> <<>>, gap |-> m.gap \/ Len(m.calls) > 1] ELSE m
RollBack_NoReply(m) ==
  IF m.last # "call" THEN m ELSE [m EXCEPT !.last = "user", !.calls = <<>>]
\* Before a new run: the reply answers a question, any other open answer is dropped.
RollBack(m) ==
  IF m.last # "call" THEN m
  ELSE IF m.calls[1] = "ask"
       THEN [last |-> "tool", calls |-> <<>>, gap |-> m.gap \/ Len(m.calls) > 1]
       ELSE [m EXCEPT !.last = "user", !.calls = <<>>]

-----------------------------------------------------------------------------
(* The flow.                                                                *)

\* A message: what was stored is read, open answers are settled, the status is written.
\* The runner is another object after a stop, and the same for a message it found waiting.
RunFlow ==
  /\ phase = "off" /\ messages < MaxMessages /\ messages' = messages + 1
  /\ memory' = IF fstatus = "pending" THEN memory ELSE [a \in Agents |-> RollBack(memory[a])]
  /\ resuming' = (fstatus = "waiting")
  /\ phase' = IF fstatus = "waiting" THEN "executing" ELSE "planning"
  /\ fstatus' = "running" /\ plan' = saved /\ work' \in {0, work} /\ step' = 0
  /\ late' = (late \/ \E a \in Agents : Len(memory[a].calls) > 1 /\ memory[a].calls[1] = "ask")
  /\ UNCHANGED <<saved, loop, asker, did, cut, stale>>

\* execute: the request is stored, the tool loop begins.
Enter(agent) ==
  /\ memory' = [memory EXCEPT ![agent] = Told(@)]
  /\ loop' = [Quiet EXCEPT !.who = agent, !.pc = "ask"]

CreatePlan ==
  /\ phase = "planning" /\ loop = Quiet /\ Enter("planner")
  /\ UNCHANGED <<fstatus, phase, plan, saved, step, resuming, work, did, history>>

UpdatePlan ==
  /\ phase = "updating" /\ loop = Quiet /\ Enter("planner")
  /\ UNCHANGED <<fstatus, phase, plan, saved, step, resuming, work, did, history>>

Summarize ==
  /\ phase = "summarizing" /\ loop = Quiet /\ Enter("executor")
  /\ UNCHANGED <<fstatus, phase, plan, saved, step, resuming, work, did, history>>

\* execute_step resets the counter of work, resume_step goes on with what there is.
StartCount(was) == IF resuming THEN was ELSE 0

ExecuteStep ==
  /\ phase = "executing" /\ loop = Quiet /\ NextStep(plan) # 0 /\ Enter("executor")
  /\ step' = NextStep(plan) /\ resuming' = FALSE
  /\ plan' = [plan EXCEPT ![step'] = "running"]
  /\ work' = StartCount(work) /\ did' = (did /\ resuming /\ step' = asker) /\ asker' = 0
  /\ UNCHANGED <<fstatus, phase, saved, cut, late, stale, messages>>

StepsDone ==
  /\ phase = "executing" /\ loop = Quiet /\ NextStep(plan) = 0
  /\ phase' = (IF plan = <<>> THEN "completed" ELSE "summarizing") /\ step' = 0
  /\ UNCHANGED <<fstatus, plan, saved, resuming, memory, loop, work, did, history>>

\* The next run reads the plan of the session, and starts with neither step nor loop.
Over == phase' = "off" /\ plan' = <<>> /\ step' = 0 /\ resuming' = FALSE /\ loop' = Quiet

\* The last PlanEvent and DoneEvent; the runner writes COMPLETED when its queue is empty.
FlowDone ==
  /\ phase = "completed" /\ saved' = plan /\ fstatus' = "completed" /\ Over
  /\ did' = FALSE
  /\ UNCHANGED <<memory, work, history>>

-----------------------------------------------------------------------------
(* The tool loop.                                                           *)

OnStep == phase = "executing"
Calls == memory[loop.who].calls

\* The model answers with calls, and the loop has an iteration left for them.
AnswerCalls ==
  /\ loop.pc = "ask" /\ loop.iter < MaxIter
  /\ \E calls \in Answers(loop.who) : memory' = [memory EXCEPT ![loop.who] = Answered(@, calls)]
  /\ loop' = [loop EXCEPT !.pc = "calls", !.iter = @ + 1, !.i = 1, !.out = "none"]
  /\ UNCHANGED <<fstatus, phase, plan, saved, step, resuming, work, did, history>>

\* It answers with plain text: it is told to use the output tool.
AnswerText ==
  /\ loop.pc = "ask" /\ loop.iter < MaxIter
  /\ memory' = [memory EXCEPT ![loop.who] = Told(Answered(@, <<>>))]
  /\ loop' = [loop EXCEPT !.iter = @ + 1]
  /\ UNCHANGED <<fstatus, phase, plan, saved, step, resuming, work, did, history>>

\* What roll_back tells apart of an answer that is stored and not looked at.
Unread == {<<>>, <<"good">>, <<"ask">>, <<"ask", "good">>}

\* Maximum iteration count reached.
GiveUp ==
  /\ loop.pc = "ask" /\ loop.iter = MaxIter
  /\ \E calls \in Unread :
       /\ memory' = [memory EXCEPT ![loop.who] = Answered(@, calls)]
       /\ cut' = IF calls = <<>> THEN cut ELSE cut \cup {loop.who}
  /\ loop' = Quiet
  /\ plan' = IF OnStep THEN [plan EXCEPT ![step] = "failed"] ELSE plan
  /\ phase' = CASE phase = "planning" -> IF plan = <<>> THEN "completed" ELSE "executing"
                [] phase = "executing" -> "updating"
                [] phase = "updating" -> "executing"
                [] OTHER -> "completed"
  /\ stale' = (stale \/ phase \in {"planning", "updating"})
  /\ UNCHANGED <<fstatus, saved, step, resuming, work, did, asker, late, messages>>

\* OutputTool.validate.
Validates(kind) == kind # "invalid"

\* What a report comes to: success is refused before any work of the step.
Judged(kind) ==
  CASE ~Validates(kind) -> "none"
    [] kind = "good" -> IF OnStep /\ work = 0 THEN "none" ELSE "good"
    [] kind = "bad" -> "bad"

InCalls(kinds) == loop.pc = "calls" /\ loop.i <= Len(Calls) /\ Calls[loop.i] \in kinds

Report ==
  /\ InCalls({"good", "bad", "invalid"})
  /\ loop' = [loop EXCEPT !.i = @ + 1, !.out = Judged(Calls[loop.i])]
  /\ UNCHANGED <<fstatus, phase, plan, saved, step, resuming, memory, work, did, history>>

\* invoke_tool of the executor: a work tool counts, whether it succeeded or raised.
WorkDone(kind) == /\ work' = IF kind = "work" THEN 1 ELSE work
                  /\ did' = (did \/ kind = "work")

\* A tool that exists; during a step, asking waits, and a summary does not.
UseTool ==
  /\ InCalls(Toolkit(loop.who) \ (IF OnStep THEN {"ask"} ELSE {}))
  /\ WorkDone(Calls[loop.i])
  /\ loop' = [loop EXCEPT !.i = @ + 1]
  /\ UNCHANGED <<fstatus, phase, plan, saved, step, resuming, memory, history>>

\* An ErrorEvent, which fails the step, though the loop goes on.
UnknownTool ==
  /\ InCalls({"ask", "work", "other"} \ Toolkit(loop.who))
  /\ plan' = IF OnStep THEN [plan EXCEPT ![step] = "failed"] ELSE plan
  /\ loop' = [loop EXCEPT !.i = @ + 1]
  /\ UNCHANGED <<fstatus, phase, saved, step, resuming, memory, work, did, history>>

\* The question is out: the flow returns, with nothing of this answer responded to.
AskUser ==
  /\ loop.who = "executor" /\ OnStep /\ InCalls({"ask"})
  /\ fstatus' = "waiting" /\ Over /\ asker' = step /\ late' = (late \/ Len(Calls) > 1)
  /\ UNCHANGED <<saved, memory, work, did, cut, stale, messages>>

\* All calls are handled and none was an accepted report: the responses go to the model.
NextTurn ==
  /\ loop.pc = "calls" /\ loop.i > Len(Calls) /\ loop.out = "none"
  /\ memory' = [memory EXCEPT ![loop.who] = Responded(@)]
  /\ loop' = [loop EXCEPT !.pc = "ask", !.i = 0]
  /\ UNCHANGED <<fstatus, phase, plan, saved, step, resuming, work, did, history>>

\* An accepted report ends the loop.
Submit ==
  /\ loop.pc = "calls" /\ loop.i > Len(Calls) /\ loop.out # "none"
  /\ memory' = [memory EXCEPT ![loop.who] = Responded(@)]
  /\ loop' = Quiet
  /\ UNCHANGED <<fstatus, step, resuming, work, did, asker, cut, late, messages>>

FreshPlans == UNION {[1..n -> {"pending"}] : n \in 0..MaxSteps}
FirstRunning(p) == IF p = <<>> THEN p ELSE [p EXCEPT ![1] = "running"]

PlanCreated ==
  /\ phase = "planning" /\ Submit
  /\ \E p \in FreshPlans : plan' = FirstRunning(p)
  /\ saved' = plan' /\ stale' = FALSE
  /\ phase' = IF plan' = <<>> THEN "completed" ELSE "executing"

\* The settled steps stay, what the planner now sees as the rest follows them.
Replanned(p, rest) == SubSeq(p, 1, IF Open(p) = {} THEN Len(p) ELSE NextStep(p) - 1) \o rest

PlanUpdated ==
  /\ phase = "updating" /\ Submit
  /\ \E rest \in FreshPlans : /\ Len(Replanned(plan, rest)) <= MaxSteps
                         /\ plan' = Replanned(plan, rest)
  /\ saved' = plan' /\ stale' = FALSE /\ phase' = "executing"

\* complete_step: a success is a PlanEvent, a failure goes to the planner first.
StepReported ==
  /\ OnStep /\ Submit
  /\ plan' = [plan EXCEPT ![step] = "completed"]
  /\ IF loop.out = "good" THEN saved' = plan' /\ stale' = FALSE /\ UNCHANGED phase
     ELSE phase' = "updating" /\ UNCHANGED <<saved, stale>>

Delivered ==
  /\ phase = "summarizing" /\ Submit /\ phase' = "completed" /\ UNCHANGED <<plan, saved, stale>>

\* Any await may be the last: stopped or failed (COMPLETED is written), superseded by a
\* newer message or lost with the process (RUNNING stays).
FlowStops ==
  /\ phase # "off" /\ Over /\ fstatus' \in {"completed", "running"} /\ did' = FALSE /\ asker' = 0
  /\ UNCHANGED <<saved, memory, work, cut, late, stale, messages>>

FlowNext ==
  \/ RunFlow \/ CreatePlan \/ UpdatePlan \/ Summarize \/ ExecuteStep \/ StepsDone \/ FlowDone
  \/ AnswerCalls \/ AnswerText \/ GiveUp \/ Report \/ UseTool \/ UnknownTool \/ AskUser
  \/ NextTurn \/ PlanCreated \/ PlanUpdated \/ StepReported \/ Delivered \/ FlowStops

FlowSpec == FlowInit /\ [][FlowNext]_flowVars

-----------------------------------------------------------------------------
Statuses == {"pending", "running", "completed", "failed"}
FlowTypeOK ==
  /\ fstatus \in {"pending", "running", "waiting", "completed"}
  /\ phase \in {"off", "planning", "executing", "updating", "summarizing", "completed"}
  /\ plan \in Seq(Statuses) /\ saved \in Seq(Statuses) /\ step \in 0..MaxSteps
  /\ resuming \in BOOLEAN /\ work \in {0, 1} /\ late \in BOOLEAN /\ did \in BOOLEAN /\ stale \in BOOLEAN
  /\ \A a \in Agents : /\ memory[a].last \in {"none", "user", "tool", "call", "text"}
                       /\ memory[a].calls \in Seq(Kinds) /\ memory[a].gap \in BOOLEAN
                       /\ (memory[a].last = "call") = (memory[a].calls # <<>>)
  /\ loop.who \in Agents \cup {"none"} /\ loop.iter \in 0..MaxIter /\ cut \subseteq Agents
  /\ (loop.pc = "calls") => (loop.i \in 1..(Len(Calls) + 1))

(* Every call the model ever made has a response before the next request,  *)
(* wherever a flow stopped and however often it was started again.  Two    *)
(* ways to lose one are named: the loop was cut with its last answer       *)
(* unread, or a question shared its answer with other calls.               *)
PairingKept == \A a \in Agents : memory[a].gap => a \in cut \/ late

(* memory.py promises the pairing without exception; here of the executor, *)
(* the agent that has tools.                                                *)
CallsAnswered == ~memory["executor"].gap

(* When a flow comes back from a question, the step it resumes is the one  *)
(* that asked, as the stored plan has it, and the executor's memory ends   *)
(* with the reply.  Exceptions: the planner gave up, so that the stored    *)
(* plan is behind; the question shared its answer with other calls.        *)
ReplyReaches == resuming /\ phase = "executing" =>
  /\ NextStep(plan) = asker \/ stale
  /\ memory["executor"].last = "tool" \/ late

(* A step is left only when it is settled, and the flow reports itself     *)
(* done only when all of them are.                                         *)
NothingLeftOpen == /\ phase = "updating" => Settled(plan[step])
                   /\ phase \in {"summarizing", "completed"} => Open(plan) = {}

(* A success report is accepted only from a step that used a work tool,    *)
(* though the counter that decides it belongs to the agent and outlives    *)
(* steps and runs.                                                         *)
HonestSuccess == OnStep /\ loop.out = "good" => did \/ stale
=============================================================================
