------------------------------ MODULE SwarmPatrol ------------------------------
(***************************************************************************)
(* Discovery: the start_discovery command configures a source and starts   *)
(* its patrol, and a patrol that commits schedules the next one.  Leases,  *)
(* fences and retries of a job are those of SwarmJobs; here a job is live  *)
(* or settled, and what a RUNNING one has fetched is kept with it.  Every  *)
(* command and every commit is one transaction under the write lock.       *)
(***************************************************************************)
EXTENDS Naturals, Sequences, FiniteSets, SequencesExt

CONSTANTS Sources, Items,        \* source objects; external ids of one provider
          Keys,                  \* idempotency keys, each of one command
          MaxJobs, MaxUpdates    \* bounds on the jobs made, and on updates by hand

ASSUME PatrolAssumption == MaxJobs \in Nat /\ MaxUpdates \in Nat

VARIABLES source,      \* Sources -> metadata: continuous, active
          jobs,        \* the DISCOVER jobs: [src, status, items]
          candidates,  \* Items -> how many candidates were created for it
          idem,        \* Keys -> the task of the recorded result, 0 before
          halted,      \* sources whose patrol ended otherwise than by its commit
          twins,       \* items one batch named twice
          updates

patrolVars == <<source, jobs, candidates, idem, halted, twins, updates>>

PatrolInit ==
  /\ source = [s \in Sources |-> [continuous |-> FALSE, active |-> FALSE]]
  /\ jobs = <<>> /\ candidates = [i \in Items |-> 0]
  /\ idem = [k \in Keys |-> 0] /\ halted = {} /\ twins = {} /\ updates = 0

\* QUEUED, CLAIMED and WAITING_RETRY are one status, "waiting".
LiveJobs(s) == {j \in DOMAIN jobs : jobs[j].src = s /\ jobs[j].status \in {"waiting", "running"}}
Is(j, statuses) == j \in DOMAIN jobs /\ jobs[j].status \in statuses
NewJob(s) == [src |-> s, status |-> "waiting", items |-> <<>>]

-----------------------------------------------------------------------------
\* A command with a key that is known is answered with the recorded result: nothing changes.
Start(k, s, continuous) ==
  /\ idem[k] = 0
  /\ source' = [source EXCEPT ![s] = [continuous |-> continuous, active |-> TRUE]]
  /\ IF LiveJobs(s) # {}
     THEN UNCHANGED jobs /\ idem' = [idem EXCEPT ![k] = CHOOSE j \in LiveJobs(s) : TRUE]
     ELSE /\ Len(jobs) < MaxJobs /\ jobs' = Append(jobs, NewJob(s))
          /\ idem' = [idem EXCEPT ![k] = Len(jobs) + 1]
  /\ halted' = halted \ {s}
  /\ UNCHANGED <<candidates, twins, updates>>

\* The update command on a source: its metadata as the operator has it.  No job is made.
UpdateSource(s, active) ==
  /\ updates < MaxUpdates /\ updates' = updates + 1
  /\ source' = [source EXCEPT ![s].active = active]
  /\ halted' = IF active /\ LiveJobs(s) = {} THEN halted \cup {s} ELSE halted
  /\ UNCHANGED <<jobs, candidates, idem, twins>>

\* claim, and prepare: the provider's answer, bounded at two items.
Batches == UNION {[1..n -> Items] : n \in 0..2}
Prepare(j) ==
  /\ Is(j, {"waiting"})
  /\ \E items \in Batches :
       jobs' = [jobs EXCEPT ![j].status = "running", ![j].items = items]
  /\ UNCHANGED <<source, candidates, idem, halted, twins, updates>>

\* The handler of DISCOVER.  The candidates that exist are read before the loop over the items.
ApplyDiscover(j) ==
  /\ Is(j, {"running"})
  /\ LET s == jobs[j].src   items == jobs[j].items
         New(i) == IF candidates[i] > 0 THEN 0 ELSE Cardinality({p \in DOMAIN items : items[p] = i})
         settled == [jobs EXCEPT ![j].status = "done", ![j].items = <<>>]
     IN  /\ candidates' = [i \in Items |-> candidates[i] + New(i)]
         /\ twins' = twins \cup {i \in Items : New(i) > 1}
         /\ IF source[s].continuous /\ source[s].active
            THEN Len(jobs) < MaxJobs /\ jobs' = Append(settled, NewJob(s))
            ELSE jobs' = settled
  /\ UNCHANGED <<source, idem, halted, updates>>

\* The attempt fails or its lease runs out, and the job waits for the next one ...
RetryDiscover(j) ==
  /\ Is(j, {"running"})
  /\ jobs' = [jobs EXCEPT ![j].status = "waiting", ![j].items = <<>>]
  /\ UNCHANGED <<source, candidates, idem, halted, twins, updates>>

\* ... or there is none: dead-lettered after its last attempt, or cancelled.
Halt(j) ==
  /\ Is(j, {"waiting", "running"})
  /\ jobs' = [jobs EXCEPT ![j].status = "dead", ![j].items = <<>>]
  /\ halted' = halted \cup {jobs[j].src}
  /\ UNCHANGED <<source, candidates, idem, twins, updates>>

PatrolNext ==
  \/ \E k \in Keys, s \in Sources, c \in BOOLEAN : Start(k, s, c)
  \/ \E s \in Sources, a \in BOOLEAN : UpdateSource(s, a)
  \/ \E j \in 1..MaxJobs : Prepare(j) \/ ApplyDiscover(j) \/ RetryDiscover(j) \/ Halt(j)

PatrolSpec == PatrolInit /\ [][PatrolNext]_patrolVars

-----------------------------------------------------------------------------
Job == [src : Sources, status : {"waiting", "running", "done", "dead"}, items : Seq(Items)]
PatrolTypeOK ==
  /\ source \in [Sources -> [continuous : BOOLEAN, active : BOOLEAN]]
  /\ jobs \in Seq(Job) /\ Len(jobs) <= MaxJobs
  /\ candidates \in [Items -> Nat] /\ idem \in [Keys -> 0..Len(jobs)]
  /\ halted \subseteq Sources /\ twins \subseteq Items /\ updates \in 0..MaxUpdates

(* A source has at most one live DISCOVER job, whatever is started while    *)
(* one runs or commits, and a continuous one never loses its patrol unless  *)
(* a job of it was dead-lettered or cancelled, or it was made active again  *)
(* by an update, which schedules nothing.  No item becomes two candidates,  *)
(* except the two of one batch (worker.py:171).                             *)
PatrolKept ==
  /\ \A s \in Sources : /\ \A i, j \in LiveJobs(s) : i = j
                        /\ source[s].continuous /\ source[s].active /\ s \notin halted
                           => LiveJobs(s) # {}
  /\ \A i \in Items \ twins : candidates[i] <= 1
=============================================================================
