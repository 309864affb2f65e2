----------------------------- MODULE JobPromise ------------------------------
(***************************************************************************)
(* What the swarm's job ledger promises to the rest of the system, without *)
(* workers, leases, messages or time: a scheduled job is tried a bounded   *)
(* number of times and settles at most once - with its effects committed   *)
(* exactly when it succeeded, dead-lettered only when every try was used,  *)
(* or cancelled - and stays settled.  Stated by the queue semantics of     *)
(* docs/swarm/00_MASTER_IMPLEMENTATION_SPEC.md sections 8 and 21, and      *)
(* implemented by SwarmJobs.                                               *)
(***************************************************************************)
EXTENDS Naturals

CONSTANTS Jobs, MaxAttempts

VARIABLES outcome, tries, effects

vars == <<outcome, tries, effects>>

Init ==
  /\ outcome = [j \in Jobs |-> "none"]
  /\ tries = [j \in Jobs |-> 0]
  /\ effects = [j \in Jobs |-> 0]

Settle(j, how) == outcome' = [outcome EXCEPT ![j] = how]

Submit(j) ==
  /\ outcome[j] = "none"
  /\ Settle(j, "open")
  /\ UNCHANGED <<tries, effects>>

Try(j) ==
  /\ outcome[j] = "open"
  /\ tries[j] < MaxAttempts[j]
  /\ tries' = [tries EXCEPT ![j] = @ + 1]
  /\ UNCHANGED <<outcome, effects>>

\* A job that succeeds submits the jobs that come next with its effects.
Succeed(j, next) ==
  /\ outcome[j] = "open"
  /\ tries[j] > 0
  /\ \A i \in next : outcome[i] = "none"
  /\ outcome' = [i \in Jobs |-> IF i \in next THEN "open"
                               ELSE IF i = j THEN "succeeded" ELSE outcome[i]]
  /\ effects' = [effects EXCEPT ![j] = @ + 1]
  /\ UNCHANGED tries

GiveUp(j) ==
  /\ outcome[j] = "open"
  /\ tries[j] = MaxAttempts[j]
  /\ Settle(j, "dead")
  /\ UNCHANGED <<tries, effects>>

Withdraw(j) ==
  /\ outcome[j] = "open"
  /\ Settle(j, "cancelled")
  /\ UNCHANGED <<tries, effects>>

Next == \E j \in Jobs :
  \/ Submit(j) \/ Try(j) \/ GiveUp(j) \/ Withdraw(j)
  \/ \E next \in SUBSET Jobs : Succeed(j, next)

Spec == Init /\ [][Next]_vars

=============================================================================
