------------------------------- MODULE AgentLoop -------------------------------
(***************************************************************************)
(* The single-loop flow (AgentLoopFlow with ManusAgent): the planner makes *)
(* a plan, then one loop of model answers does all of it.  The model       *)
(* reports the plan's progress and asks for a new rest through two tools   *)
(* the flow listens to, and the flow tells the agent when the plan is      *)
(* finished, from when on no work is let through.                          *)
(*                                                                         *)
(* The model calls what it likes, one call after the other.  Memory is     *)
(* AgentFlow's and left out; so are titles, results and texts.  The ids of *)
(* a plan's steps are distinct: a step is its position.                    *)
(***************************************************************************)
EXTENDS Naturals, Sequences, FiniteSets

CONSTANTS MaxTurns,     \* max_iterations of the tool loop
          MaxPlan,      \* bound on the steps of a plan
          MaxRuns       \* bound on the messages of the user

ASSUME LoopAssumption == MaxTurns \in Nat \ {0} /\ MaxPlan \in Nat /\ MaxRuns \in Nat

VARIABLES session,    \* status of the session document
          flow,       \* "off", "planning" or "acting"
          steps,      \* the statuses of the plan's steps; <<>> without a plan
          stored,     \* those of the last PlanEvent in the session
          rows,       \* what the chat's timeline shows of each step
          manus,      \* [notified, finished, hint]: ManusAgent
          turn,       \* [n, reported, output]: of the tool loop
          replanned,    \* history: this run has changed the plan
          undue,      \* history: work was let through with nothing left to do
          silent,     \* history: steps that were closed while pending
          runs

loopVars == <<session, flow, steps, stored, rows, manus, turn, replanned, undue, silent, runs>>

Progress == {"pending", "running", "completed", "failed"}
StepDone(st) == st \in {"completed", "failed"}
Undone(p) == {i \in DOMAIN p : ~StepDone(p[i])}
RunningSteps(p) == {i \in DOMAIN p : p[i] = "running"}
PlanFinished(p) == Undone(p) = {}
First(s) == CHOOSE i \in s : \A j \in s : i <= j

NewAgent == [notified |-> FALSE, finished |-> FALSE, hint |-> FALSE]
NewTurn(n) == [n |-> n, reported |-> FALSE, output |-> FALSE]

LoopInit ==
  /\ session = "pending" /\ flow = "off" /\ steps = <<>> /\ stored = <<>> /\ rows = <<>>
  /\ manus = NewAgent /\ turn = NewTurn(0) /\ replanned = FALSE /\ undue = FALSE
  /\ silent = {} /\ runs = 0

-----------------------------------------------------------------------------
(* The plan and its timeline.                                               *)

FirstStepRunning(p) ==
  IF Undone(p) = {} THEN p ELSE [p EXCEPT ![First(Undone(p))] = "running"]

\* The step that stays running: the last one reported so, or the first in the plan.
Preferred(p, update) ==
  LET claimed == {i \in DOMAIN update : update[i] = "running"}
  IN  IF claimed # {} THEN claimed
      ELSE IF RunningSteps(p) # {} THEN {First(RunningSteps(p))} ELSE {0}

Updated(p, update) == [i \in DOMAIN p |-> IF i \in DOMAIN update THEN update[i] ELSE p[i]]
OneRunning(p, keep) ==
  [i \in DOMAIN p |-> IF p[i] = "running" /\ i # keep THEN "pending" ELSE p[i]]

\* The StepEvents of a report, as rows of the timeline.
StepRows(was, now) ==
  [i \in DOMAIN now |->
     IF now[i] = "running" /\ was[i] = "pending" THEN "started"
     ELSE IF now[i] = "completed" /\ was[i] # "completed" THEN "completed"
     ELSE rows[i]]

\* update_plan: what is done before the first open step stays, the new rest follows.
SettledPart(p) == IF Undone(p) = {} THEN Len(p) ELSE First(Undone(p)) - 1
FreshRest(n) == [i \in 1..n |-> "pending"]

\* complete_plan_events.
Closed(p) == [i \in DOMAIN p |-> IF StepDone(p[i]) THEN p[i] ELSE "completed"]
ClosedRows(p) == [i \in DOMAIN p |-> IF p[i] = "running" THEN "completed" ELSE rows[i]]

-----------------------------------------------------------------------------
(* The flow.                                                                *)

\* A message.  A reply to a question goes on with the stored plan, and counts as a
\* greeting; otherwise the planner starts, in a new flow or in the last message's.
StartLoop ==
  /\ flow = "off" /\ runs < MaxRuns /\ runs' = runs + 1
  /\ session' = "running" /\ turn' = NewTurn(1) /\ replanned' = FALSE
  /\ IF session = "waiting"
     THEN /\ flow' = "acting" /\ steps' = stored
          /\ manus' = [NewAgent EXCEPT !.notified = TRUE] /\ UNCHANGED <<rows, silent>>
     ELSE /\ flow' = "planning"
          /\ \/ /\ manus' = [NewAgent EXCEPT !.notified = manus.notified]
                /\ UNCHANGED <<steps, rows, silent>>
             \/ manus' = NewAgent /\ steps' = <<>> /\ rows' = <<>> /\ silent' = {}
  /\ UNCHANGED <<stored, undue>>

\* The flow is over; the runner writes COMPLETED.
EndFlow == flow' = "off" /\ session' = "completed"

MakePlan ==
  /\ flow = "planning"
  /\ \E n \in 0..MaxPlan : steps' = FirstStepRunning(FreshRest(n))
  /\ stored' = steps' /\ silent' = {}
  /\ rows' = [i \in DOMAIN steps' |-> IF steps'[i] = "running" THEN "started" ELSE "none"]
  /\ IF steps' = <<>> THEN EndFlow ELSE flow' = "acting" /\ UNCHANGED session
  /\ UNCHANGED <<manus, turn, replanned, undue, runs>>

\* The planner reaches its maximum of iterations: the plan of an earlier message stays.
NoPlanMade ==
  /\ flow = "planning"
  /\ IF steps = <<>> THEN EndFlow ELSE flow' = "acting" /\ UNCHANGED session
  /\ UNCHANGED <<steps, stored, rows, manus, turn, replanned, undue, silent, runs>>

-----------------------------------------------------------------------------
(* The calls of the model.                                                  *)

Acting == flow = "acting" /\ UNCHANGED <<session, flow, runs>>
PlanAlone == UNCHANGED <<steps, stored, rows, replanned, silent>>

\* message_notify_user with a text.
NotifyUser ==
  /\ Acting /\ PlanAlone /\ manus' = [manus EXCEPT !.notified = TRUE] /\ UNCHANGED <<turn, undue>>

\* message_ask_user: the flow returns in the middle of the answer.
AskAndWait ==
  /\ flow = "acting" /\ flow' = "off" /\ session' = "waiting"
  /\ PlanAlone /\ UNCHANGED <<manus, turn, undue, runs>>

\* A work tool; before a greeting and after the plan's end it is answered without being run.
Work ==
  /\ Acting /\ PlanAlone /\ manus.notified /\ ~manus.finished
  /\ undue' = (undue \/ (replanned /\ PlanFinished(steps)))
  /\ UNCHANGED <<manus, turn>>

\* plan_report, refused: no greeting yet, or arguments that do not validate.
ReportRefused ==
  /\ Acting /\ PlanAlone /\ turn' = [turn EXCEPT !.reported = TRUE] /\ UNCHANGED <<manus, undue>>

Reports(p) == UNION {[known -> Progress] : known \in SUBSET DOMAIN p}

ReportPlan ==
  /\ Acting /\ manus.notified /\ replanned' = TRUE
  /\ \E update \in Reports(steps) :
       LET now == Updated(steps, update)
       IN  \E keep \in Preferred(now, update) :
             /\ steps' = OneRunning(now, keep)
             /\ rows' = StepRows(steps, steps')
  /\ stored' = steps'
  /\ manus' = IF PlanFinished(steps') THEN [manus EXCEPT !.finished = TRUE, !.hint = TRUE]
              ELSE manus
  /\ turn' = [turn EXCEPT !.reported = TRUE]
  /\ UNCHANGED <<undue, silent>>

\* replan: the planner rewrites the rest while the loop waits in the middle of its turn.
Replan ==
  /\ Acting /\ manus.notified /\ replanned' = TRUE
  /\ \E n \in 0..(MaxPlan - SettledPart(steps)) :
       /\ steps' = SubSeq(steps, 1, SettledPart(steps)) \o FreshRest(n)
       /\ rows' = SubSeq(rows, 1, SettledPart(steps)) \o [i \in 1..n |-> "none"]
       /\ manus' = [manus EXCEPT !.finished = PlanFinished(steps'), !.hint = PlanFinished(steps')]
  /\ stored' = steps' /\ silent' = silent \cap (1..SettledPart(steps))
  /\ UNCHANGED <<turn, undue>>

\* deliver_result, valid or not: the last one of an answer counts.
Submitted ==
  /\ Acting /\ PlanAlone
  /\ \E valid \in BOOLEAN : turn' = [turn EXCEPT !.output = valid]
  /\ UNCHANGED <<manus, undue>>

\* The responses go to the model, a hint with the response to a report.
AskModel ==
  /\ Acting /\ PlanAlone /\ ~turn.output /\ turn.n < MaxTurns
  /\ turn' = NewTurn(turn.n + 1)
  /\ manus' = [manus EXCEPT !.hint = @ /\ ~turn.reported]
  /\ UNCHANGED undue

\* A result was submitted, or the maximum of iterations is reached: open steps are closed.
EndLoop ==
  /\ flow = "acting" /\ (turn.output \/ turn.n = MaxTurns) /\ EndFlow
  /\ steps' = Closed(steps) /\ rows' = ClosedRows(steps) /\ stored' = steps'
  /\ silent' = silent \cup (Undone(steps) \ RunningSteps(steps))
  /\ UNCHANGED <<manus, turn, replanned, undue, runs>>

\* Stopped or failed, superseded or lost with the process, at any await.
StopLoop ==
  /\ flow # "off" /\ flow' = "off" /\ session' \in {"completed", "running"}
  /\ steps' = <<>> /\ rows' = <<>> /\ silent' = {} /\ manus' = NewAgent
  /\ UNCHANGED <<stored, turn, replanned, undue, runs>>

LoopNext ==
  \/ StartLoop \/ MakePlan \/ NoPlanMade \/ NotifyUser \/ AskAndWait \/ Work \/ ReportRefused
  \/ ReportPlan \/ Replan \/ Submitted \/ AskModel \/ EndLoop \/ StopLoop

LoopSpec == LoopInit /\ [][LoopNext]_loopVars

-----------------------------------------------------------------------------
LoopTypeOK ==
  /\ session \in {"pending", "running", "waiting", "completed"}
  /\ flow \in {"off", "planning", "acting"}
  /\ steps \in Seq(Progress) /\ stored \in Seq(Progress) /\ DOMAIN rows = DOMAIN steps
  /\ \A i \in DOMAIN rows : rows[i] \in {"none", "started", "completed"}
  /\ manus \in [notified : BOOLEAN, finished : BOOLEAN, hint : BOOLEAN]
  /\ turn \in [n : 0..MaxTurns, reported : BOOLEAN, output : BOOLEAN]
  /\ replanned \in BOOLEAN /\ undue \in BOOLEAN /\ silent \subseteq DOMAIN steps

(* Whatever the model reports, in any order and across questions, new      *)
(* rests and messages, at most one step of the plan runs.                  *)
OneStepRuns == Cardinality(RunningSteps(steps)) <= 1 /\ Cardinality(RunningSteps(stored)) <= 1

(* A step that is completed is shown so, unless the flow's end closed it   *)
(* while it was pending.                                                   *)
TimelineKept ==
  \A i \in DOMAIN steps : steps[i] = "completed" => rows[i] = "completed" \/ i \in silent

(* The agent's copy of "the plan is finished" does not fall behind the     *)
(* plan: once this run has settled every step, no work is let through      *)
(* until there is something to do, and the model is told so only then.     *)
WorkEnds == ~undue /\ (manus.hint => manus.finished)

(* What a reply to a question goes on with is the plan that was left.      *)
PlanResumed == flow = "acting" \/ session = "waiting" => steps = stored

LoopHonest == OneStepRuns /\ TimelineKept /\ WorkEnds /\ PlanResumed
=============================================================================
