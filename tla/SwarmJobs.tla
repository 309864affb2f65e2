------------------------------ MODULE SwarmJobs ------------------------------
(***************************************************************************)
(* The durable job ledger of the swarm control plane: rows of swarm_jobs,  *)
(* the Task object of each row, and the worker processes that claim, run,  *)
(* retry and give up jobs (backend/app/swarm/application/worker.py), with  *)
(* the operator commands that reach a job (application/service.py).        *)
(*                                                                         *)
(* Every write transaction takes the row lock on swarm_config first        *)
(* (Service.transaction), so one transaction is one action.  What happens  *)
(* between two transactions of one worker - media work, waiting, a crash - *)
(* is the interleaving of these actions.                                   *)
(*                                                                         *)
(* Wall-clock times are kept as what the code compares them with: `live`   *)
(* is lease_until >= now, `due` is not_before <= now.  A lease can run out *)
(* at any instant (Expire): a renewal may be late for any reason.          *)
(* A claim needs a delivered message; dispatch.py delivers at least once   *)
(* and republishes every due job, so a claim may be tried at any moment.   *)
(***************************************************************************)
EXTENDS Naturals, Sequences

CONSTANTS
  Jobs,           \* idempotency keys `trace:kind:object` that may be scheduled
  Workers,        \* worker processes
  Kinds,          \* task types, the names of the queues an operator may pause
  KindOf,         \* the task type of each job
  MaxAttempts,    \* max_attempts of each job, fixed when it is scheduled
  NextTasks,      \* the jobs that apply() of each job may schedule
  UpdateTargets,  \* statuses that operators write on a Task with `update`
  NoJob           \* what an idle worker holds

ASSUME JobsAssumption ==
  /\ NoJob \notin Jobs
  /\ KindOf \in [Jobs -> Kinds]
  /\ NextTasks \in [Jobs -> SUBSET Jobs]
  /\ MaxAttempts \in [Jobs -> Nat \ {0}]    \* validate_config: 1 <= max_attempts

VARIABLES
  \* The columns of swarm_jobs that the handlers read and write.
  status, attempt, token,
  due,        \* the jobs whose not_before has passed
  live,       \* the jobs whose lease_until has not passed
  cancelled,  \* the jobs whose `cancelled` flag is set
  task,       \* status of the Task object of each row
  applied,    \* how many times apply() has been committed for each job
  alerts,     \* how many "Task exhausted retries" alerts each job has
  paused,     \* paused_queues of the configuration row
  issued,     \* how many lease tokens (uid()) have been drawn
  \* The worker processes.
  pc,         \* where each one stands in run_one
  held,       \* the job dict it got from claim()
  pulse       \* the ones whose heartbeat thread is running

row == <<status, attempt, token, due, live, cancelled>>
ledger == <<row, task, applied, alerts>>
worker == <<pc, held, pulse>>
vars == <<ledger, paused, issued, worker>>

JobStatus == {"ABSENT", "QUEUED", "RUNNING", "WAITING_RETRY",
              "SUCCEEDED", "DEAD_LETTER", "CANCELLED"}
TaskStatus == JobStatus \cup {"CLAIMED", "FAILED"}
Terminal == {"SUCCEEDED", "DEAD_LETTER", "CANCELLED"}

\* The Task machine of 06_STATE_MACHINES.yaml.
TaskTransitions ==
  {<<"QUEUED", "CLAIMED">>, <<"QUEUED", "CANCELLED">>,
   <<"CLAIMED", "RUNNING">>, <<"CLAIMED", "QUEUED">>, <<"CLAIMED", "CANCELLED">>,
   <<"RUNNING", "SUCCEEDED">>, <<"RUNNING", "WAITING_RETRY">>,
   <<"RUNNING", "FAILED">>, <<"RUNNING", "CANCELLED">>,
   <<"WAITING_RETRY", "QUEUED">>, <<"WAITING_RETRY", "DEAD_LETTER">>,
   <<"WAITING_RETRY", "CANCELLED">>,
   <<"FAILED", "WAITING_RETRY">>, <<"FAILED", "DEAD_LETTER">>}

\* Mutant: change() without validate_transition.
Unvalidated(s, t) == TRUE

\* change() accepts a status: unvalidated when it is the current one.
Move(s, t) == s = t \/ <<s, t>> \in TaskTransitions

\* A handler that walks a Task through several statuses in one transaction is
\* refused as a whole when one of the steps is.
Walk(path) == \A i \in 1 .. Len(path) - 1 : Move(path[i], path[i + 1])

Exists(j) == status[j] # "ABSENT"
Idle == [job |-> NoJob, token |-> 0, attempt |-> 0]

Init ==
  /\ status = [j \in Jobs |-> "ABSENT"]
  /\ attempt = [j \in Jobs |-> 0]
  /\ token = [j \in Jobs |-> 0]
  /\ due = {} /\ live = {} /\ cancelled = {}
  /\ task = [j \in Jobs |-> "ABSENT"]
  /\ applied = [j \in Jobs |-> 0]
  /\ alerts = [j \in Jobs |-> 0]
  /\ paused = {}
  /\ issued = 0
  /\ pc = [w \in Workers |-> "idle"]
  /\ held = [w \in Workers |-> Idle]
  /\ pulse = {}

-----------------------------------------------------------------------------
(* Scheduling and operator commands.                                       *)

\* A key that has a row, whatever its status, is not scheduled again.  The
\* next round of a continuous discovery is scheduled ahead of its time.
Schedule(j) ==
  /\ ~Exists(j)
  /\ status' = [status EXCEPT ![j] = "QUEUED"]
  /\ task' = [task EXCEPT ![j] = "QUEUED"]
  /\ due' \in {due, due \cup {j}}
  /\ UNCHANGED <<attempt, token, live, cancelled, applied, alerts>>
  /\ UNCHANGED <<paused, issued, worker>>

\* Mutant: cancel_task writes the Task and the row without change().
CancelAnyway(j) ==
  /\ Exists(j)
  /\ task' = [task EXCEPT ![j] = "CANCELLED"]
  /\ status' = [status EXCEPT ![j] = "CANCELLED"]
  /\ cancelled' = cancelled \cup {j}
  /\ UNCHANGED <<attempt, token, due, live, applied, alerts>>
  /\ UNCHANGED <<paused, issued, worker>>

\* Mutant: cancel_task without the update of the row.
CancelObjectOnly(j) ==
  /\ Exists(j)
  /\ Move(task[j], "CANCELLED")
  /\ task' = [task EXCEPT ![j] = "CANCELLED"]
  /\ UNCHANGED <<row, applied, alerts, paused, issued, worker>>

CancelTask(j) ==
  /\ Exists(j)
  /\ Move(task[j], "CANCELLED")
  /\ task' = [task EXCEPT ![j] = "CANCELLED"]
  /\ status' = [status EXCEPT ![j] = "CANCELLED"]
  /\ cancelled' = cancelled \cup {j}
  /\ UNCHANGED <<attempt, token, due, live, applied, alerts>>
  /\ UNCHANGED <<paused, issued, worker>>

\* The generic `update` command on a Task: the object moves, its row does not.
UpdateTask(j, s) ==
  /\ Exists(j)
  /\ Move(task[j], s)
  /\ task' = [task EXCEPT ![j] = s]
  /\ UNCHANGED <<row, applied, alerts, paused, issued, worker>>

PauseQueue(k) ==
  /\ paused' = paused \cup {k}
  /\ UNCHANGED <<ledger, issued, worker>>

ResumeQueue(k) ==
  /\ paused' = paused \ {k}
  /\ UNCHANGED <<ledger, issued, worker>>

-----------------------------------------------------------------------------
(* Time.                                                                   *)

Expire(j) ==
  /\ j \in live
  /\ live' = live \ {j}
  /\ UNCHANGED <<status, attempt, token, due, cancelled, task, applied, alerts>>
  /\ UNCHANGED <<paused, issued, worker>>

BecomeDue(j) ==
  /\ Exists(j) /\ j \notin due
  /\ due' = due \cup {j}
  /\ UNCHANGED <<status, attempt, token, live, cancelled, task, applied, alerts>>
  /\ UNCHANGED <<paused, issued, worker>>

-----------------------------------------------------------------------------
(* Worker.claim, called for the job a delivered message names.             *)

\* Mutant: a claim that never takes over the job of a lost worker.
NotYetRun(j) ==
  /\ j \notin cancelled /\ j \in due
  /\ status[j] \in {"QUEUED", "WAITING_RETRY"}
  /\ KindOf[j] \notin paused

Claimable(j) ==
  /\ j \notin cancelled
  /\ j \in due
  /\ \/ status[j] \in {"QUEUED", "WAITING_RETRY"}
     \/ status[j] = "RUNNING" /\ j \notin live
  /\ KindOf[j] \notin paused

\* The Task's status once the claim has taken the job from a lost worker.
Reclaimed(j) == IF status[j] = "RUNNING" THEN "WAITING_RETRY" ELSE task[j]

ToRunning(s) ==
  IF s = "WAITING_RETRY" THEN <<s, "QUEUED", "CLAIMED", "RUNNING">>
                         ELSE <<s, "CLAIMED", "RUNNING">>
ToDeadLetter(s) ==
  IF s = "QUEUED" THEN <<s, "CLAIMED", "RUNNING", "WAITING_RETRY", "DEAD_LETTER">>
                  ELSE <<s, "DEAD_LETTER">>

\* Mutant: off by one.
PastExhausted(j) == attempt[j] > MaxAttempts[j]

Exhausted(j) == attempt[j] >= MaxAttempts[j]

\* Mutant: the lease token of a job is its task id.
SameToken == issued' = 1

\* uid(): a lease token that no claim has drawn before.
DrawToken == issued' = issued + 1

Claim(w, j) ==
  /\ pc[w] = "idle"
  /\ Claimable(j)
  /\ ~Exhausted(j)
  /\ Move(task[j], Reclaimed(j)) /\ Walk(ToRunning(Reclaimed(j)))
  /\ task' = [task EXCEPT ![j] = "RUNNING"]
  /\ status' = [status EXCEPT ![j] = "RUNNING"]
  /\ attempt' = [attempt EXCEPT ![j] = @ + 1]
  /\ live' = live \cup {j}
  /\ DrawToken
  /\ token' = [token EXCEPT ![j] = issued']
  /\ held' = [held EXCEPT ![w] = [job |-> j, token |-> issued',
                                  attempt |-> attempt[j] + 1]]
  /\ pc' = [pc EXCEPT ![w] = "claimed"]
  /\ pulse' = pulse \cup {w}
  /\ UNCHANGED <<due, cancelled, applied, alerts, paused>>

\* A claim that finds the attempts used up gives the job up and returns None.
ClaimExhausted(w, j) ==
  /\ pc[w] = "idle"
  /\ Claimable(j)
  /\ Exhausted(j)
  /\ Move(task[j], Reclaimed(j)) /\ Walk(ToDeadLetter(Reclaimed(j)))
  /\ task' = [task EXCEPT ![j] = "DEAD_LETTER"]
  /\ status' = [status EXCEPT ![j] = "DEAD_LETTER"]
  /\ UNCHANGED <<attempt, token, due, live, cancelled, applied, alerts>>
  /\ UNCHANGED <<paused, issued, worker>>

-----------------------------------------------------------------------------
(* Worker.execute of the job a worker holds.                               *)

\* The lease the worker holds is the one of the row, and the row is running.
Current(w) ==
  LET j == held[w].job IN token[j] = held[w].token /\ status[j] = "RUNNING"

\* Mutant: a commit that looks at nothing but the cancel flag.
NotCancelled(w) == held[w].job \notin cancelled

Authorized(w) == Current(w) /\ held[w].job \notin cancelled

\* fence(), at the start of prepare() and before each step of a publication.
Fenced(w) == Authorized(w) /\ held[w].job \in live

Goto(w, label) ==
  /\ pc' = [pc EXCEPT ![w] = label]
  /\ UNCHANGED <<held, pulse>>

\* Mutant: a worker that goes on without its job.
ForgetJob(w) ==
  /\ held' = [held EXCEPT ![w] = Idle]
  /\ pulse' = pulse \ {w}
  /\ UNCHANGED pc

Release(w) ==
  /\ pc' = [pc EXCEPT ![w] = "idle"]
  /\ held' = [held EXCEPT ![w] = Idle]
  /\ pulse' = pulse \ {w}

\* One beat of the pulse thread; it ends when the row refuses it.
Heartbeat(w) ==
  /\ pc[w] # "idle" /\ w \in pulse
  /\ live' = IF Authorized(w) THEN live \cup {held[w].job} ELSE live
  /\ pulse' = IF Authorized(w) THEN pulse ELSE pulse \ {w}
  /\ UNCHANGED <<status, attempt, token, due, cancelled, task, applied, alerts>>
  /\ UNCHANGED <<paused, issued, pc, held>>

\* prepare() starts by fencing itself against the row.
Fence(w) ==
  /\ pc[w] = "claimed"
  /\ Goto(w, IF Fenced(w) THEN "fenced" ELSE "failed")
  /\ UNCHANGED <<ledger, paused, issued>>

\* The media, provider or publishing work returns artifacts or raises.
Prepare(w) ==
  /\ pc[w] = "fenced"
  /\ \E outcome \in {"prepared", "failed"} : Goto(w, outcome)
  /\ UNCHANGED <<ledger, paused, issued>>

\* A column of statuses once j has succeeded and the tasks `next` are scheduled.
Succeeding(column, j, next) ==
  [i \in Jobs |-> IF i \in next THEN "QUEUED"
                  ELSE IF i = j THEN "SUCCEEDED" ELSE column[i]]

\* The transaction that applies the artifacts and schedules the tasks that come
\* next, unless they have rows; some are due at once.  The client may see an
\* exception although the database committed: the worker then goes on as after a
\* failure.
CommitTasks(w, next, now) ==
  LET j == held[w].job IN
  /\ pc[w] = "prepared"
  /\ Authorized(w)
  /\ Move(task[j], "SUCCEEDED")
  /\ next \subseteq {i \in NextTasks[j] : ~Exists(i)} /\ now \subseteq next
  /\ applied' = [applied EXCEPT ![j] = @ + 1]
  /\ task' = Succeeding(task, j, next)
  /\ status' = Succeeding(status, j, next)
  /\ due' = due \cup now
  /\ live' = live \ {j}
  /\ Release(w) \/ Goto(w, "failed")
  /\ UNCHANGED <<attempt, token, cancelled, alerts, paused, issued>>

Commit(w) == \E next, now \in SUBSET Jobs : CommitTasks(w, next, now)

\* `return False`: the lease is no longer this worker's.
CommitRefused(w) ==
  /\ pc[w] = "prepared"
  /\ ~Authorized(w)
  /\ Release(w)
  /\ UNCHANGED <<ledger, paused, issued>>

\* apply(), change() or the database raises: nothing of the transaction is kept.
CommitRaises(w) ==
  /\ pc[w] = "prepared"
  /\ Authorized(w)
  /\ Goto(w, "failed")
  /\ UNCHANGED <<ledger, paused, issued>>

\* The handler's transaction after an exception: back off, or give up.
RecordFailure(w) ==
  LET j == held[w].job
      lastTry == held[w].attempt >= MaxAttempts[j]
      verdict == IF lastTry THEN "DEAD_LETTER" ELSE "WAITING_RETRY"
  IN
  /\ pc[w] = "failed"
  /\ Current(w)
  /\ Move(task[j], "WAITING_RETRY")
  /\ task' = [task EXCEPT ![j] = verdict]
  /\ status' = [status EXCEPT ![j] = verdict]
  /\ live' = live \ {j}
  /\ due' = due \ {j}
  /\ alerts' = [alerts EXCEPT ![j] = IF lastTry THEN @ + 1 ELSE @]
  /\ Release(w)
  /\ UNCHANGED <<attempt, token, cancelled, applied, paused, issued>>

\* The row is not this worker's any more, or the Task refuses the move and the
\* exception leaves execute(): either way the ledger stays as it is.
FailureRefused(w) ==
  /\ pc[w] = "failed"
  /\ ~(Current(w) /\ Move(task[held[w].job], "WAITING_RETRY"))
  /\ Release(w)
  /\ UNCHANGED <<ledger, paused, issued>>

\* The process dies, or loses the database while it records a failure.
Crash(w) ==
  /\ pc[w] # "idle"
  /\ Release(w)
  /\ UNCHANGED <<ledger, paused, issued>>

-----------------------------------------------------------------------------
\* The steps of execute() that touch nothing but the ledger.
Handle(w) ==
  \/ Fence(w)
  \/ CommitRefused(w) \/ CommitRaises(w)
  \/ RecordFailure(w) \/ FailureRefused(w)

Step(w) == Prepare(w) \/ Commit(w) \/ Handle(w)

Deliver(w, j) == Claim(w, j) \/ ClaimExhausted(w, j)

\* What goes on around the jobs whatever they do: operators and time.
Around ==
  \/ \E j \in Jobs :
       \/ CancelTask(j)
       \/ \E s \in UpdateTargets : UpdateTask(j, s)
       \/ Expire(j) \/ BecomeDue(j)
  \/ \E k \in Kinds : PauseQueue(k) \/ ResumeQueue(k)

Next ==
  \/ Around
  \/ \E j \in Jobs : Schedule(j)
  \/ \E j \in Jobs, w \in Workers : Deliver(w, j)
  \/ \E w \in Workers : Heartbeat(w) \/ Step(w) \/ Crash(w)

Spec == Init /\ [][Next]_vars

\* A worker process whose heartbeat thread still renews the lease of j.
Attended(j) ==
  \E w \in Workers : held[w].job = j /\ w \in pulse /\ Current(w)

\* Time passes; a lease nobody renews runs out; a worker that lives reaches the
\* end of execute() (every media and provider call has a timeout); due jobs are
\* republished every ten seconds, so some worker tries each of them again.
Fairness ==
  /\ \A j \in Jobs :
       /\ WF_vars(BecomeDue(j))
       /\ WF_vars(~Attended(j) /\ Expire(j))
       /\ WF_vars(\E w \in Workers : Deliver(w, j))
  /\ \A w \in Workers : WF_vars(Step(w))

FairSpec == Spec /\ Fairness

-----------------------------------------------------------------------------
(* Properties.                                                             *)

\* Every variable keeps its shape: no status, lease or snapshot outside the
\* values the table columns and the claimed job dict can hold.
TypeOK ==
  /\ status \in [Jobs -> JobStatus]
  /\ attempt \in [Jobs -> Nat]
  /\ token \in [Jobs -> Nat]
  /\ due \subseteq Jobs /\ live \subseteq Jobs /\ cancelled \subseteq Jobs
  /\ task \in [Jobs -> TaskStatus]
  /\ applied \in [Jobs -> Nat]
  /\ alerts \in [Jobs -> Nat]
  /\ paused \subseteq Kinds
  /\ issued \in Nat
  /\ pc \in [Workers -> {"idle", "claimed", "fenced", "prepared", "failed"}]
  /\ held \in [Workers -> [job : Jobs \cup {NoJob}, token : Nat, attempt : Nat]]
  /\ pulse \subseteq Workers
  /\ \A w \in Workers : pc[w] # "idle" => held[w].job \in Jobs

\* However often a job is delivered, reclaimed and retried, the effects of its
\* handler are committed at most once, exactly when the row says SUCCEEDED
\* (execute() applies and closes the row in one transaction).
AppliedExactlyOnce ==
  \A j \in Jobs : applied[j] = IF status[j] = "SUCCEEDED" THEN 1 ELSE 0

\* Two worker processes never hold the same lease of a job: a reclaimed job has
\* a new token, so at most one of them can commit or record a failure.
OneLeaseHolder ==
  \A v, w \in Workers :
    /\ pc[v] # "idle" /\ pc[w] # "idle"
    /\ held[v].job = held[w].job /\ held[v].token = held[w].token
    => v = w

\* Attempts never pass max_attempts, and a job is dead-lettered, with at most
\* one alert, only after every one of them was used.
RetriesBounded ==
  \A j \in Jobs :
    /\ attempt[j] <= MaxAttempts[j]
    /\ status[j] = "DEAD_LETTER" => attempt[j] = MaxAttempts[j]
    /\ alerts[j] <= 1
    /\ alerts[j] = 1 => status[j] = "DEAD_LETTER"

\* A settled row and its Task object say the same, whatever operators write
\* with `update`: the ledger and the ontology cannot disagree on an outcome.
SettledAgree ==
  \A j \in Jobs : status[j] \in Terminal => task[j] = status[j]

\* A Task that an operator cancelled, with cancel_task or with a plain `update`,
\* never has its handler's effects committed afterwards.
CancelledNeverApplied ==
  [][\A j \in Jobs : task[j] = "CANCELLED" => applied'[j] = applied[j]]_vars

\* A settled row is never opened again by a retry, a late worker or a command.
SettledForGood ==
  [][\A j \in Jobs : status[j] \in Terminal =>
       status'[j] = status[j]]_vars

\* Without raw updates of Task objects the row and the Task move together.
RowsMatchTasks ==
  \A j \in Jobs : task[j] = status[j]

\* Every scheduled job is settled in the end, through crashes, lost leases and
\* failures, unless its queue stays paused.
EveryJobSettles ==
  \A j \in Jobs :
    <>[](KindOf[j] \notin paused) =>
      (Exists(j) ~> status[j] \in Terminal)

\* What a row says of its job, as the promise of JobPromise sees it.
Outcome(s) ==
  CASE s = "ABSENT"      -> "none"
    [] s = "SUCCEEDED"   -> "succeeded"
    [] s = "DEAD_LETTER" -> "dead"
    [] s = "CANCELLED"   -> "cancelled"
    [] OTHER                  -> "open"

outcomes == [j \in Jobs |-> Outcome(status[j])]

Promise == INSTANCE JobPromise
  WITH outcome <- outcomes, tries <- attempt, effects <- applied

\* The ledger, with its workers, leases and crashes, keeps the promise of
\* JobPromise: tries are counted, bounded and settled once.
KeepsPromise == Promise!Spec

=============================================================================
