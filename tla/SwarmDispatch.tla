---------------------------- MODULE SwarmDispatch ----------------------------
(***************************************************************************)
(* How a scheduled job reaches a worker: the transactional outbox, the     *)
(* Dispatcher that relays it to the broker and republishes due jobs        *)
(* (infrastructure/dispatch.py), and the Celery messages that make workers *)
(* claim (Worker.run_one), on top of the job ledger of SwarmJobs.          *)
(*                                                                         *)
(* SwarmJobs assumes that some worker tries every due job again and again; *)
(* here that is what the dispatcher has to achieve, with a broker that may *)
(* be down, lose messages or deliver them twice.                           *)
(***************************************************************************)
EXTENDS SwarmJobs, SequencesExt

CONSTANTS
  RelayLimit,  \* rows of the outbox relayed at once (100)
  MaxPending,  \* bound: rows of the outbox that wait for the relay
  MaxQueued    \* bound: messages of one job in the broker

\* A handler returns, and schedules, a list of tasks.
ASSUME DispatchAssumption ==
  /\ RelayLimit \in Nat /\ MaxPending \in Nat /\ MaxQueued \in Nat
  /\ \A j \in Jobs : IsFiniteSet(NextTasks[j])

VARIABLES
  outbox,  \* the task rows not yet dispatched, oldest first
  broker   \* how many messages of each job the queues hold

dispatchVars == <<vars, outbox, broker>>

CountOf(rows, j) == Cardinality({i \in DOMAIN rows : rows[i] = j})

DispatchInit ==
  /\ Init
  /\ outbox = <<>>
  /\ broker = [j \in Jobs |-> 0]

-----------------------------------------------------------------------------
(* The transactions that write the outbox.                                 *)

\* Mutant: the message is written in a transaction of its own, before the row.
EnqueueFirst(j) ==
  /\ ~Exists(j)
  /\ Len(outbox) < MaxPending
  /\ outbox' = Append(outbox, j)
  /\ UNCHANGED <<vars, broker>>

\* Service.schedule: a job that is due now gets its message with its row.
ScheduleAndEnqueue(j) ==
  /\ Schedule(j)
  /\ Len(outbox) < MaxPending
  /\ outbox' = IF j \in due' THEN Append(outbox, j) ELSE outbox
  /\ UNCHANGED broker

\* apply() schedules the next tasks, and their messages, with its effects.
CommitAndEnqueue(w) ==
  /\ \E next, now \in SUBSET Jobs : \E rows \in SetToSeqs(now) :
       /\ CommitTasks(w, next, now)
       /\ Len(outbox) + Len(rows) <= MaxPending
       /\ outbox' = outbox \o rows
  /\ UNCHANGED broker

\* Mutant: a job that some worker once claimed is left to that worker.
NeverLost(j) == status[j] \in {"QUEUED", "WAITING_RETRY"}

\* The statuses of the jobs that are published again.
Unfinished(j) == status[j] \in {"QUEUED", "WAITING_RETRY", "RUNNING"}

\* Dispatcher.requeue_due: whether or not a message is under way already.
Requeue ==
  LET found == {j \in Jobs : Unfinished(j) /\ j \in due \ (live \cup cancelled)} IN
  /\ found # {}
  /\ \E rows \in SetToSeqs(found) :
       /\ Len(outbox) + Len(rows) <= MaxPending
       /\ outbox' = outbox \o rows
  /\ UNCHANGED <<vars, broker>>

-----------------------------------------------------------------------------
(* The relay.                                                              *)

\* Mutant: the entries after a refused one are marked with the others.
MarkAll(n) == <<>>

\* What is left of the outbox once its first n entries are marked.
Unmarked(n) == SubSeq(outbox, n + 1, Len(outbox))

\* Messages of a job beyond the bound are one message.
Enqueued(j, n) == IF broker[j] + n > MaxQueued THEN MaxQueued ELSE broker[j] + n

\* Dispatcher.once: the broker takes the first n entries and refuses the next, if
\* there is one.  They are marked when the transaction commits; a failure before
\* that has them published again.  The transaction holds the configuration row,
\* so that no claim comes between.
Relay(n) ==
  /\ n \in 1 .. Len(outbox) /\ n <= RelayLimit
  /\ broker' = [j \in Jobs |->
       Enqueued(j, CountOf(SubSeq(outbox, 1, n), j))]
  /\ outbox' \in {Unmarked(n), outbox}
  /\ UNCHANGED vars

-----------------------------------------------------------------------------
(* Messages (external: Celery and Redis, configured for late acknowledgement). *)

Consume(j) ==
  /\ broker[j] > 0
  /\ broker' = [broker EXCEPT ![j] = @ - 1]
  /\ UNCHANGED outbox

\* A worker process gets a message and claims its job.
Take(w, j) == Consume(j) /\ Deliver(w, j)

\* It finds nothing to claim, or the claim raises: the message is gone.
Discard(w, j) ==
  /\ pc[w] = "idle"
  /\ Consume(j)
  /\ UNCHANGED vars

\* The broker loses a message.
Lose(j) ==
  /\ Consume(j)
  /\ UNCHANGED vars

\* The message of a job that takes long is delivered a second time.
Redeliver(w) ==
  /\ pc[w] # "idle"
  /\ broker' = [broker EXCEPT ![held[w].job] = Enqueued(held[w].job, 1)]
  /\ UNCHANGED <<vars, outbox>>

\* A worker that dies gives its unacknowledged message back, if anybody notices.
CrashAndReject(w) ==
  LET j == held[w].job IN
  /\ Crash(w)
  /\ broker' \in {broker, [broker EXCEPT ![j] = Enqueued(j, 1)]}
  /\ UNCHANGED outbox

-----------------------------------------------------------------------------
LedgerOnly ==
  /\ Around \/ \E w \in Workers : Heartbeat(w)
  /\ UNCHANGED <<outbox, broker>>

\* The steps of execute() that schedule nothing, and the one that may.
Work(w) ==
  \/ (Prepare(w) \/ Handle(w)) /\ UNCHANGED <<outbox, broker>>
  \/ CommitAndEnqueue(w)

DispatchNext ==
  \/ LedgerOnly
  \/ \E j \in Jobs : ScheduleAndEnqueue(j) \/ Lose(j)
  \/ Requeue
  \/ \E n \in 1 .. RelayLimit : Relay(n)
  \/ \E w \in Workers, j \in Jobs : Take(w, j) \/ Discard(w, j)
  \/ \E w \in Workers : Work(w) \/ Redeliver(w) \/ CrashAndReject(w)

DispatchSpec == DispatchInit /\ [][DispatchNext]_dispatchVars

\* The dispatcher's loop goes on, its broker is up again and again, and a job
\* whose messages keep coming is claimed in the end.
DispatchFairness ==
  /\ WF_dispatchVars(Requeue)
  /\ WF_dispatchVars(\E n \in 1 .. RelayLimit : Relay(n) /\ outbox' = Unmarked(n))
  /\ \A j \in Jobs : SF_dispatchVars(\E w \in Workers : Take(w, j))
  /\ \A w \in Workers : WF_dispatchVars(Work(w))

DispatchFairSpec == DispatchSpec /\ DispatchFairness

-----------------------------------------------------------------------------
(* Properties.                                                             *)

\* The outbox and the queues keep their shape, and name only jobs that have a row.
DispatchTypeOK ==
  /\ outbox \in Seq({j \in Jobs : Exists(j)}) /\ Len(outbox) <= MaxPending
  /\ broker \in [Jobs -> 0 .. MaxQueued]
  /\ \A j \in Jobs : broker[j] > 0 => Exists(j)

\* A row leaves the outbox only for the broker: one that refuses a message, or a
\* transaction that does not commit, leaves the row where it was.
RelayKeepsWork ==
  [][\A j \in Jobs : CountOf(outbox', j) < CountOf(outbox, j) =>
       broker'[j] > broker[j] \/ broker'[j] = MaxQueued]_dispatchVars

\* What SwarmJobs assumes: a job that can be claimed is claimed in the end, though
\* messages are lost, discarded while it was not due, or never sent at all.
DeliveryIsFair ==
  \A j \in Jobs : WF_vars(\E w \in Workers : Deliver(w, j))

=============================================================================
