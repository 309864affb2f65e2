------------------------------ MODULE SwarmTelemetry ------------------------------
(***************************************************************************)
(* What the console says of the execution agents.  An agent is a Celery    *)
(* process; a thread of it writes a key with a time to live into Redis     *)
(* every second, and the rows of the jobs it claimed carry its name and a  *)
(* lease it renews.  A request reads the rows, then the keys, and shows    *)
(* one state per agent.                                                    *)
(*                                                                         *)
(* The request shows one agent here; the others are shown the same way.    *)
(* Of an agent outside WorkerAgents the model has only what it does to the rows. *)
(* Time is counted in ticks, a few beats and renewals long.  Roles,        *)
(* sensors and counts are left out.  Redis and Celery are external.        *)
(***************************************************************************)
EXTENDS Naturals, FiniteSets

CONSTANTS WorkerAgents,             \* the agents that are followed
          TelJobs,            \* positive naturals: the later created job is the greater one
          Ttl, LeaseTicks,    \* of a key, of a lease
          MaxGone             \* bound on the time counted since an agent ran

ASSUME TelemetryAssumption ==
  /\ TelJobs \subseteq Nat \ {0} /\ IsFiniteSet(TelJobs)
  /\ Ttl \in Nat \ {0} /\ LeaseTicks \in Nat \ {0} /\ MaxGone \in Nat /\ MaxGone > Ttl /\ MaxGone > LeaseTicks

VARIABLES agent,      \* WorkerAgents -> [life, job, stage, beat, gone]
          presence,   \* WorkerAgents -> [ttl, state]: the key in Redis
          row,        \* TelJobs -> [status, worker, lease]: worker is {a}, or {} for nobody or an agent that is not followed
          seen        \* the request: [agent, pc, active, overdue, holds, gone, redis, state]

telVars == <<agent, presence, row, seen>>

NoState == "none"
NoTask == 0
NoKey == [ttl |-> 0, state |-> NoState]

TelInit ==
  /\ agent = [a \in WorkerAgents |-> [life |-> "new", job |-> NoTask, stage |-> "idle", beat |-> NoState, gone |-> 0]]
  /\ presence = [a \in WorkerAgents |-> NoKey]
  /\ row = [j \in TelJobs |-> [status |-> "QUEUED", worker |-> {}, lease |-> 0]]
  /\ seen = [agent |-> {}, pc |-> "idle", active |-> NoState, overdue |-> FALSE, holds |-> FALSE, gone |-> 0, redis |-> TRUE, state |-> NoState]

-----------------------------------------------------------------------------
(* The process and its heartbeat thread.                                    *)

Up(a) == agent[a].life = "up"
Own(a) == IF agent[a].stage = "idle" THEN "IDLE" ELSE "WORKING"

StartProcess(a) ==
  /\ agent[a].life = "new" /\ agent' = [agent EXCEPT ![a].life = "up"]
  /\ UNCHANGED <<presence, row, seen>>

\* The payload is built, then written: what it says may be over by then.
BuildBeat(a) ==
  /\ Up(a) /\ agent[a].beat = NoState
  /\ agent' = [agent EXCEPT ![a].beat = Own(a)]
  /\ UNCHANGED <<presence, row, seen>>

WriteBeat(a) ==
  /\ agent[a].life \in {"up", "leaving"} /\ agent[a].beat # NoState
  /\ agent' = [agent EXCEPT ![a].beat = NoState]
  /\ \/ presence' = [presence EXCEPT ![a] = [ttl |-> Ttl, state |-> agent[a].beat]]
     \/ UNCHANGED presence                                  \* Redis is not reached
  /\ UNCHANGED <<row, seen>>

\* The key is deleted; the thread may still write the beat it has built.
Leave(a) ==
  /\ Up(a) /\ agent[a].stage = "idle"
  /\ agent' = [agent EXCEPT ![a].life = "leaving"]
  /\ presence' \in {presence, [presence EXCEPT ![a] = NoKey]}
  /\ UNCHANGED <<row, seen>>

\* It leaves for good, or is killed.  Its name is not used again.
AgentDies(a) ==
  /\ agent[a].life \in {"up", "leaving"}
  /\ agent' = [agent EXCEPT ![a] = [life |-> "down", job |-> NoTask, stage |-> "idle", beat |-> NoState, gone |-> 0]]
  /\ UNCHANGED <<presence, row, seen>>

-----------------------------------------------------------------------------
(* execute: one message at a time.                                          *)

TakeMessage(a, j) ==
  /\ Up(a) /\ agent[a].stage = "idle"
  /\ agent' = [agent EXCEPT ![a].job = j, ![a].stage = "taken"]
  /\ UNCHANGED <<presence, row, seen>>

Claimable(j) == \/ row[j].status \in {"QUEUED", "WAITING_RETRY"}
                \/ row[j].status = "RUNNING" /\ row[j].lease = 0

ClaimRow(a) ==
  /\ agent[a].stage = "taken"
  /\ IF Claimable(agent[a].job)
     THEN /\ row' = [row EXCEPT ![agent[a].job] = [status |-> "RUNNING", worker |-> {a}, lease |-> LeaseTicks]]
          /\ agent' = [agent EXCEPT ![a].stage = "runs"]
     ELSE agent' = [agent EXCEPT ![a].stage = "settled"] /\ UNCHANGED row
  /\ UNCHANGED <<presence, seen>>

HoldsRow(a) == /\ agent[a].stage = "runs"
               /\ row[agent[a].job].status = "RUNNING" /\ row[agent[a].job].worker = {a}

RenewLease(a) ==
  /\ HoldsRow(a) /\ row' = [row EXCEPT ![agent[a].job].lease = LeaseTicks]
  /\ UNCHANGED <<agent, presence, seen>>

\* It succeeds, is put off, finds itself fenced, or cannot write that it failed.
Settle(a) ==
  /\ agent[a].stage = "runs" /\ agent' = [agent EXCEPT ![a].stage = "settled"]
  /\ \/ /\ HoldsRow(a)
        /\ \E s \in {"SUCCEEDED", "WAITING_RETRY"} :
             row' = [row EXCEPT ![agent[a].job].status = s, ![agent[a].job].lease = 0]
     \/ UNCHANGED row
  /\ UNCHANGED <<presence, seen>>

\* An agent that is not followed claims, renews, settles or loses the row.
OthersWork(j) ==
  /\ \/ /\ Claimable(j)
        /\ row' = [row EXCEPT ![j] = [status |-> "RUNNING", worker |-> {}, lease |-> LeaseTicks]]
     \/ /\ row[j].status = "RUNNING" /\ row[j].worker = {}
        /\ \E s \in {"SUCCEEDED", "WAITING_RETRY"} : row' = [row EXCEPT ![j].status = s, ![j].lease = 0]
  /\ UNCHANGED <<agent, presence, seen>>

Rest(a) ==
  /\ agent[a].stage = "settled" /\ agent' = [agent EXCEPT ![a].stage = "idle", ![a].job = NoTask]
  /\ UNCHANGED <<presence, row, seen>>

Down1(n) == IF n = 0 THEN 0 ELSE n - 1

TelTick ==
  /\ presence' = [a \in WorkerAgents |-> IF presence[a].ttl <= 1 THEN NoKey ELSE [presence[a] EXCEPT !.ttl = @ - 1]]
  /\ row' = [j \in TelJobs |-> [row[j] EXCEPT !.lease = Down1(@)]]
  /\ agent' = [a \in WorkerAgents |-> [agent[a] EXCEPT !.gone = IF agent[a].life # "down" \/ @ = MaxGone THEN @ ELSE @ + 1]]
  /\ UNCHANGED seen

-----------------------------------------------------------------------------
(* agent_telemetry.                                                         *)

\* The row of the agent that is RUNNING, the latest created one.
Running(a) == {j \in TelJobs : row[j].worker = {a} /\ row[j].status = "RUNNING"}
Active(a) == LET run == Running(a)
             IN  IF run = {} THEN NoState
                 ELSE IF row[CHOOSE j \in run : \A k \in run : k <= j].lease > 0 THEN "held" ELSE "expired"

ReadRows(a) ==
  /\ seen.pc # "rows" /\ agent[a].life # "new"
  /\ seen' = [agent |-> {a}, pc |-> "rows", active |-> Active(a), gone |-> agent[a].gone, redis |-> TRUE, state |-> NoState,
              overdue |-> \E j \in Running(a) : row[j].lease = 0, holds |-> HoldsRow(a)]
  /\ UNCHANGED <<agent, presence, row>>

StateShown(live, active) ==
  CASE active = "expired" -> "STALE"
    [] active = "held" \/ live = "WORKING" -> "WORKING"
    [] live = "IDLE" -> "IDLE"
    [] OTHER -> "OFFLINE"

ReadPresence(a) ==
  /\ seen.pc = "rows" /\ seen.agent = {a}
  /\ \E redis \in BOOLEAN :
       seen' = [seen EXCEPT !.pc = "shown", !.redis = redis,
                            !.gone = IF agent[a].gone < @ THEN agent[a].gone ELSE @,
                            !.state = StateShown(IF redis THEN presence[a].state ELSE NoState, seen.active)]
  /\ UNCHANGED <<agent, presence, row>>

TelNext ==
  \/ \E a \in WorkerAgents :
       \/ StartProcess(a) \/ BuildBeat(a) \/ WriteBeat(a) \/ Leave(a) \/ AgentDies(a)
       \/ ClaimRow(a) \/ RenewLease(a) \/ Settle(a) \/ Rest(a) \/ ReadRows(a) \/ ReadPresence(a)
       \/ \E j \in TelJobs : TakeMessage(a, j)
  \/ \E j \in TelJobs : OthersWork(j)
  \/ TelTick

TelSpec == TelInit /\ [][TelNext]_telVars

-----------------------------------------------------------------------------
TelTypeOK ==
  /\ \A a \in WorkerAgents :
       /\ agent[a].life \in {"new", "up", "leaving", "down"} /\ agent[a].stage \in {"idle", "taken", "runs", "settled"}
       /\ agent[a].gone \in 0..MaxGone /\ presence[a].ttl \in 0..Ttl
       /\ (agent[a].stage = "idle") = (agent[a].job = NoTask)
  /\ \A j \in TelJobs : row[j].lease \in 0..LeaseTicks /\ row[j].worker \in SUBSET WorkerAgents

(* What is shown of an agent.  Working or idle: its process was there, or   *)
(* had left for no longer than a key or a lease lives.  Stale: a lease of   *)
(* it had run out.  Offline: it had no job in work.  Working on no job that *)
(* the rows know of, as its key says when Redis answers: the process was    *)
(* there, or had left for no longer than a key lives.                       *)
TelemetryHonest ==
  seen.pc = "shown" =>
    /\ seen.state \in {"WORKING", "IDLE"} => seen.gone <= Ttl \/ seen.gone <= LeaseTicks
    /\ seen.state = "STALE" => seen.overdue
    /\ seen.state = "OFFLINE" => ~seen.holds
    /\ seen.redis /\ seen.state = "WORKING" /\ seen.active = NoState => seen.gone <= Ttl
=============================================================================
