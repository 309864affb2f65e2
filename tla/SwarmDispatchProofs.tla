------------------------- MODULE SwarmDispatchProofs -------------------------
(***************************************************************************)
(* That the dispatcher loses no message it has not handed to the broker,   *)
(* and that what it adds to the job ledger leaves the ledger's guarantees  *)
(* as they are, for any set of jobs, workers and broker losses.            *)
(***************************************************************************)
EXTENDS SwarmDispatch, SwarmJobsProofs, FiniteSetTheorems, SequenceTheorems

\* The jobs that have a row.
Rows == {j \in Jobs : Exists(j)}

\* So far only finitely many jobs were scheduled: requeue_due can list them.
RowsFinite == IsFiniteSet(Rows)

\* The job a worker holds has a row: rows are never deleted.
HeldExists == \A w \in Workers : pc[w] # "idle" => Exists(held[w].job)

DispatchInv == TypeOK /\ RowsFinite /\ HeldExists /\ DispatchTypeOK

-----------------------------------------------------------------------------
(* The ledger's part.                                                      *)

LEMMA StepOfLedger == [DispatchNext]_dispatchVars => [Next]_vars
<1> SUFFICES ASSUME [DispatchNext]_dispatchVars PROVE [Next]_vars
  OBVIOUS
<1>1. CASE LedgerOnly
  BY <1>1 DEF LedgerOnly, Next
<1>2. ASSUME NEW j \in Jobs, ScheduleAndEnqueue(j) PROVE Next
  BY <1>2 DEF ScheduleAndEnqueue, Next
<1>3. ASSUME NEW w \in Workers, CommitAndEnqueue(w) PROVE Commit(w)
  BY <1>3 DEF CommitAndEnqueue, Commit
<1>4. ASSUME NEW w \in Workers, Work(w) PROVE Next
  BY <1>3, <1>4 DEF Work, Step, Next
<1>5. ASSUME NEW w \in Workers, NEW j \in Jobs, Take(w, j) PROVE Next
  BY <1>5 DEF Take, Next
<1>6. ASSUME NEW w \in Workers, CrashAndReject(w) PROVE Next
  BY <1>6 DEF CrashAndReject, Next
<1>7. CASE UNCHANGED vars
  BY <1>7
<1> QED
  BY <1>1, <1>2, <1>4, <1>5, <1>6, <1>7
  DEF DispatchNext, Requeue, Relay, Discard, Lose, Redeliver, dispatchVars

\* Outbox, relay and broker add nothing to what a row may go through: with them
\* the ledger still is the ledger of SwarmJobs.
THEOREM DispatchIsLedger == DispatchSpec => Spec
<1>1. DispatchInit => Init
  BY DEF DispatchInit
<1> QED BY <1>1, StepOfLedger, PTL DEF DispatchSpec, Spec

\* However often the broker loses or repeats a message, a job is tried at most
\* max_attempts times and settles once, with its effects committed once.
THEOREM DispatchKeepsPromise == DispatchSpec => KeepsPromise
BY DispatchIsLedger, LedgerKeepsPromise

\* No handler and no command deletes a row, and a step adds finitely many.
LEMMA RowsGrow ==
  ASSUME TypeOK, [Next]_vars,
         \A j \in Jobs : IsFiniteSet(NextTasks[j])
  PROVE  /\ Rows \subseteq Rows'
         /\ \E new \in SUBSET Jobs : IsFiniteSet(new) /\ Rows' \subseteq Rows \cup new
<1> USE DEF TypeOK
<1>e. IsFiniteSet({}) /\ {} \in SUBSET Jobs
  BY FS_EmptySet
<1>0. ASSUME NEW j \in Jobs, NEW s \in JobStatus, s # "ABSENT", Exists(j),
             status' = [status EXCEPT ![j] = s]
      PROVE  Rows' = Rows
  BY <1>0 DEF Rows, Exists
<1>1. ASSUME NEW j \in Jobs, Schedule(j)
      PROVE  Rows' = Rows \cup {j} /\ IsFiniteSet({j})
  BY <1>1, FS_Singleton DEF Schedule, Rows, Exists
<1>2. ASSUME NEW j \in Jobs, CancelTask(j) PROVE Rows' = Rows
  BY <1>0, <1>2 DEF CancelTask, JobStatus
<1>3. ASSUME NEW w \in Workers, NEW j \in Jobs, Deliver(w, j) PROVE Rows' = Rows
  <2>1. Exists(j)
    BY <1>3 DEF Deliver, Claim, ClaimExhausted, Claimable, Exists
  <2> QED BY <1>0, <1>3, <2>1 DEF Deliver, Claim, ClaimExhausted, JobStatus
<1>4. ASSUME NEW w \in Workers, RecordFailure(w) PROVE Rows' = Rows
  <2>1. held[w].job \in Jobs /\ Exists(held[w].job)
    BY <1>4 DEF RecordFailure, Current, Exists
  <2> QED BY <1>0, <1>4, <2>1 DEF RecordFailure, JobStatus
<1>5. ASSUME NEW w \in Workers, Commit(w)
      PROVE  \E next \in SUBSET Jobs : IsFiniteSet(next) /\ Rows' = Rows \cup next
  <2>1. PICK next \in SUBSET Jobs, now \in SUBSET Jobs : CommitTasks(w, next, now)
    BY <1>5 DEF Commit
  <2>2. held[w].job \in Jobs /\ Exists(held[w].job) /\ next \subseteq NextTasks[held[w].job]
    BY <2>1 DEF CommitTasks, Authorized, Current, Exists
  <2>3. IsFiniteSet(next)
    BY <2>2, FS_Subset
  <2>4. Rows' = Rows \cup next
    BY <2>1, <2>2 DEF CommitTasks, Succeeding, Rows, Exists
  <2> QED BY <2>3, <2>4
<1>6. ASSUME UNCHANGED status PROVE Rows' = Rows
  BY <1>6 DEF Rows, Exists
<1>7. CASE \E j \in Jobs : Schedule(j)
  <2>1. PICK j \in Jobs : Schedule(j)
    BY <1>7
  <2>2. Rows' = Rows \cup {j} /\ IsFiniteSet({j}) /\ {j} \in SUBSET Jobs
    BY <1>1, <2>1
  <2> QED BY <2>2
<1>8. CASE \E w \in Workers : Commit(w)
  <2>1. PICK w \in Workers : Commit(w)
    BY <1>8
  <2>2. PICK next \in SUBSET Jobs : IsFiniteSet(next) /\ Rows' = Rows \cup next
    BY <1>5, <2>1
  <2> QED BY <2>2
<1>9. CASE Rows' = Rows
  BY <1>9, <1>e
<1> QED
  BY <1>2, <1>3, <1>4, <1>6, <1>7, <1>8, <1>9
  DEF Next, Around, Step, Handle, UpdateTask, Expire, BecomeDue, Heartbeat, Fence, Prepare,
      CommitRefused, CommitRaises, FailureRefused, Crash, PauseQueue, ResumeQueue,
      ledger, row, vars

\* A worker that begins to hold a job holds one that has a row.
LEMMA HeldStep ==
  ASSUME TypeOK, HeldExists, [Next]_vars, Rows \subseteq Rows'
  PROVE  HeldExists'
<1> USE DEF TypeOK
<1>0. \A j \in Jobs : Exists(j) => Exists(j)'
  BY DEF Rows, Exists
<1>1. ASSUME NEW w \in Workers, NEW j \in Jobs, Claim(w, j) PROVE HeldExists'
  <2>1. Exists(j)
    BY <1>1 DEF Claim, Claimable, Exists
  <2>2. /\ held' = [held EXCEPT ![w] = [job |-> j, token |-> issued',
                                        attempt |-> attempt[j] + 1]]
        /\ pc' = [pc EXCEPT ![w] = "claimed"]
    BY <1>1 DEF Claim
  <2>3. \A v \in Workers : pc'[v] # "idle" =>
          held'[v].job = j \/ (pc[v] # "idle" /\ held'[v] = held[v])
    BY <2>2
  <2>4. \A v \in Workers : pc'[v] # "idle" => held'[v].job \in Jobs /\ Exists(held'[v].job)
    BY <2>1, <2>3 DEF HeldExists
  <2> QED BY <1>0, <2>4 DEF HeldExists, Exists
<1>2. ASSUME NEW w \in Workers,
             Release(w) \/ \E label \in {"fenced", "prepared", "failed"} : Goto(w, label),
             pc[w] # "idle"
      PROVE  HeldExists'
  <2>1. \A v \in Workers : pc'[v] # "idle" => pc[v] # "idle" /\ held'[v] = held[v]
    BY <1>2 DEF Release, Goto
  <2>2. \A v \in Workers : pc'[v] # "idle" => held'[v].job \in Jobs /\ Exists(held'[v].job)
    BY <2>1 DEF HeldExists
  <2> QED BY <1>0, <2>2 DEF HeldExists, Exists
<1>3. CASE UNCHANGED <<pc, held>>
  <2>1. \A v \in Workers : pc'[v] # "idle" => held'[v].job \in Jobs /\ Exists(held'[v].job)
    BY <1>3 DEF HeldExists
  <2> QED BY <1>0, <2>1 DEF HeldExists, Exists
<1>4. ASSUME NEW w \in Workers, Step(w) \/ Crash(w) PROVE HeldExists'
  <2>1. CASE Commit(w)
    BY <1>2, <2>1, CommitShape
  <2> QED
    BY <1>2, <1>4, <2>1
    DEF Step, Handle, Fence, Prepare, CommitRefused, CommitRaises, RecordFailure,
        FailureRefused, Crash
<1> QED
  BY <1>1, <1>3, <1>4
  DEF Next, Around, Deliver, Schedule, CancelTask, UpdateTask, Expire, BecomeDue,
      ClaimExhausted, Heartbeat, PauseQueue, ResumeQueue, worker, vars

-----------------------------------------------------------------------------
(* The rows of the outbox.                                                 *)

\* A query returns a finite set of jobs in some order.
LEMMA OrderOfSet ==
  ASSUME NEW S, IsFiniteSet(S), NEW rows \in SetToSeqs(S)
  PROVE  rows \in Seq(S)
<1>1. Cardinality(S) \in Nat
  BY FS_CardinalityType
<1>2. rows \in [1 .. Cardinality(S) -> S]
  BY DEF SetToSeqs
<1> QED BY <1>1, <1>2

\* The places of j in a sequence can be counted.
LEMMA Countable ==
  ASSUME NEW S, NEW rows \in Seq(S), NEW j
  PROVE  /\ IsFiniteSet({i \in DOMAIN rows : rows[i] = j})
         /\ CountOf(rows, j) \in Nat
<1>1. DOMAIN rows = 1 .. Len(rows) /\ Len(rows) \in Nat
  BY LenProperties
<1>2. IsFiniteSet(1 .. Len(rows))
  BY <1>1, FS_Interval
<1>3. IsFiniteSet({i \in DOMAIN rows : rows[i] = j})
  BY <1>1, <1>2, FS_Subset
<1> QED BY <1>3, FS_CardinalityType DEF CountOf

\* Rows added behind the others take none away.
LEMMA CountGrows ==
  ASSUME NEW S, NEW rows \in Seq(S), NEW more \in Seq(S), NEW j
  PROVE  CountOf(rows \o more, j) >= CountOf(rows, j)
<1> DEFINE before == {i \in DOMAIN rows : rows[i] = j}
           after == {i \in DOMAIN (rows \o more) : (rows \o more)[i] = j}
<1>1. rows \o more \in Seq(S) /\ Len(rows \o more) = Len(rows) + Len(more)
      /\ \A i \in 1 .. Len(rows) : (rows \o more)[i] = rows[i]
  BY ConcatProperties
<1>2. before \subseteq after
  BY <1>1, LenProperties
<1>3. IsFiniteSet(after) /\ IsFiniteSet(before)
  BY <1>1, Countable
<1>4. Cardinality(before) <= Cardinality(after)
  BY <1>2, <1>3, FS_Subset
<1>5. Cardinality(before) \in Nat /\ Cardinality(after) \in Nat
  BY <1>3, FS_CardinalityType
<1> QED BY <1>4, <1>5 DEF CountOf

\* The first n rows of the outbox and the rest are rows of the outbox.
LEMMA Relayed ==
  ASSUME NEW S, outbox \in Seq(S), NEW n \in 1 .. Len(outbox)
  PROVE  /\ SubSeq(outbox, 1, n) \in Seq(S) /\ Len(SubSeq(outbox, 1, n)) = n
         /\ \A i \in 1 .. n : SubSeq(outbox, 1, n)[i] = outbox[i]
         /\ Unmarked(n) \in Seq(S) /\ Len(Unmarked(n)) = Len(outbox) - n
         /\ \A i \in 1 .. Len(outbox) - n : Unmarked(n)[i] = outbox[i + n]
<1>1. Len(outbox) \in Nat
  BY LenProperties
<1>2. SubSeq(outbox, 1, n) \in Seq(S) /\ Len(SubSeq(outbox, 1, n)) = n
      /\ \A i \in 1 .. n : SubSeq(outbox, 1, n)[i] = outbox[i]
  BY <1>1, SubSeqProperties
<1>3. Unmarked(n) \in Seq(S) /\ Len(Unmarked(n)) = Len(outbox) - n
  BY <1>1, SubSeqProperties DEF Unmarked
<1>4. \A i \in 1 .. Len(outbox) - n : Unmarked(n)[i] = outbox[i + n]
  BY <1>1, SubSeqProperties DEF Unmarked
<1> QED BY <1>2, <1>3, <1>4

\* A job that is not among the first n rows loses none when they are marked.
LEMMA MarkedOnlyRelayed ==
  ASSUME NEW S, outbox \in Seq(S), NEW n \in 1 .. Len(outbox), NEW j,
         CountOf(SubSeq(outbox, 1, n), j) = 0
  PROVE  CountOf(Unmarked(n), j) = CountOf(outbox, j)
<1> DEFINE sent == SubSeq(outbox, 1, n)
           left == {i \in DOMAIN Unmarked(n) : Unmarked(n)[i] = j}
           all == {i \in DOMAIN outbox : outbox[i] = j}
           f == [i \in left |-> i + n]
<1>1. Len(outbox) \in Nat /\ DOMAIN outbox = 1 .. Len(outbox)
  BY LenProperties
<1>2. /\ sent \in Seq(S) /\ DOMAIN sent = 1 .. n
      /\ DOMAIN Unmarked(n) = 1 .. Len(outbox) - n
  BY Relayed, LenProperties
<1>3. \A i \in 1 .. n : outbox[i] # j
  <2>1. IsFiniteSet({i \in DOMAIN sent : sent[i] = j})
    BY <1>2, Countable
  <2>2. {i \in DOMAIN sent : sent[i] = j} = {}
    BY <2>1, FS_EmptySet DEF CountOf
  <2> QED BY <1>2, <2>2, Relayed
<1>4. \A i \in left : f[i] \in all
  <2> SUFFICES ASSUME NEW i \in left PROVE i + n \in all
    OBVIOUS
  <2>1. i \in 1 .. Len(outbox) - n /\ Unmarked(n)[i] = j
    BY <1>2
  <2>2. outbox[i + n] = j
    BY <2>1, Relayed
  <2>3. i + n \in 1 .. Len(outbox)
    BY <1>1, <2>1
  <2> QED BY <1>1, <2>2, <2>3
<1>5. \A i \in all : \E k \in left : f[k] = i
  <2> SUFFICES ASSUME NEW i \in all PROVE \E k \in left : f[k] = i
    OBVIOUS
  <2>1. i - n \in 1 .. Len(outbox) - n
    BY <1>1, <1>3
  <2>2. i - n + n = i /\ outbox[i] = j
    BY <1>1
  <2>3. Unmarked(n)[i - n] = j
    BY <2>1, <2>2, Relayed
  <2>4. i - n \in left
    BY <1>2, <2>1, <2>3
  <2> QED BY <2>2, <2>4
<1>6. f \in Bijection(left, all)
  BY <1>1, <1>2, <1>4, <1>5 DEF Bijection, Injection, Surjection, IsInjective
<1>7. IsFiniteSet(left)
  BY Countable, Relayed
<1>8. Cardinality(all) = Cardinality(left)
  BY <1>6, <1>7, FS_Bijection DEF ExistsBijection
<1> QED BY <1>8 DEF CountOf

-----------------------------------------------------------------------------
(* The dispatcher's invariant.                                             *)

LEMMA InitDispatchInv == DispatchInit => DispatchInv
<1> SUFFICES ASSUME DispatchInit PROVE DispatchInv
  OBVIOUS
<1>1. Init /\ TypeOK
  BY InitTypeOK DEF DispatchInit
<1>2. Rows = {}
  BY <1>1 DEF Init, Rows, Exists
<1>3. DispatchTypeOK
  BY DispatchAssumption DEF DispatchInit, DispatchTypeOK
<1>4. HeldExists
  BY <1>1 DEF Init, HeldExists
<1> QED BY <1>1, <1>2, <1>3, <1>4, FS_EmptySet DEF DispatchInv, RowsFinite

\* A step keeps the types of the outbox if it is some of its rows, then some
\* rows of jobs that exist after the step.
LEMMA OutboxType ==
  ASSUME outbox \in Seq(Rows), Rows \subseteq Rows', NEW more \in Seq(Rows'),
         Len(outbox) + Len(more) <= MaxPending, outbox' = outbox \o more
  PROVE  outbox' \in Seq(Rows') /\ Len(outbox') <= MaxPending
<1>1. outbox \in Seq(Rows')
  BY SeqMonotonic
<1> QED BY <1>1, ConcatProperties

\* What the broker holds of a job, once n more messages have come.
LEMMA EnqueuedType ==
  ASSUME DispatchTypeOK, NEW j \in Jobs, NEW n \in Nat
  PROVE  /\ Enqueued(j, n) \in 0 .. MaxQueued
         /\ Enqueued(j, n) > 0 => broker[j] > 0 \/ n > 0
         /\ n > 0 => Enqueued(j, n) > broker[j] \/ Enqueued(j, n) = MaxQueued
BY DispatchAssumption DEF DispatchTypeOK, Enqueued

\* A message more or less of one job.
LEMMA BrokerType ==
  ASSUME DispatchTypeOK, Rows \subseteq Rows', NEW j \in Jobs, Exists(j),
         NEW n \in 0 .. MaxQueued,
         broker' = [broker EXCEPT ![j] = n]
  PROVE  /\ broker' \in [Jobs -> 0 .. MaxQueued]
         /\ \A i \in Jobs : broker'[i] > 0 => Exists(i)'
BY DEF DispatchTypeOK, Rows

\* What a transaction adds to the outbox: some rows, in some order.
LEMMA RowsAdded ==
  ASSUME TypeOK, IsFiniteSet(Rows), outbox \in Seq(Rows), Rows \subseteq Rows',
         \/ \E j \in Jobs : ScheduleAndEnqueue(j)
         \/ \E w \in Workers : CommitAndEnqueue(w)
         \/ Requeue
  PROVE  \/ UNCHANGED outbox
         \/ \E more \in Seq(Rows') :
              Len(outbox) + Len(more) <= MaxPending /\ outbox' = outbox \o more
<1>0. outbox \in Seq(Rows') /\ Len(outbox) \in Nat
  BY SeqMonotonic, LenProperties
<1>1. ASSUME NEW j \in Jobs, ScheduleAndEnqueue(j), j \in due'
      PROVE  <<j>> \in Seq(Rows') /\ Len(outbox) + Len(<<j>>) <= MaxPending
             /\ outbox' = outbox \o <<j>>
  <2>1. j \in Rows' /\ outbox' = Append(outbox, j) /\ Len(outbox) < MaxPending
    BY <1>1 DEF ScheduleAndEnqueue, Schedule, TypeOK, Rows, Exists
  <2> QED BY <1>0, <2>1, AppendIsConcat, DispatchAssumption
<1>2. ASSUME NEW w \in Workers, CommitAndEnqueue(w)
      PROVE  \E more \in Seq(Rows') :
               Len(outbox) + Len(more) <= MaxPending /\ outbox' = outbox \o more
  <2>1. PICK next \in SUBSET Jobs, now \in SUBSET Jobs :
          \E rows \in SetToSeqs(now) : /\ CommitTasks(w, next, now)
                                      /\ Len(outbox) + Len(rows) <= MaxPending
                                      /\ outbox' = outbox \o rows
    BY <1>2 DEF CommitAndEnqueue
  <2>2. PICK rows \in SetToSeqs(now) : /\ CommitTasks(w, next, now)
                                      /\ Len(outbox) + Len(rows) <= MaxPending
                                      /\ outbox' = outbox \o rows
    BY <2>1
  <2>3. held[w].job \in Jobs
    BY <2>2 DEF CommitTasks, TypeOK
  <2>4. now \subseteq next /\ next \subseteq NextTasks[held[w].job]
        /\ status' = Succeeding(status, held[w].job, next)
    BY <2>2 DEF CommitTasks
  <2>5. IsFiniteSet(NextTasks[held[w].job]) /\ now \subseteq NextTasks[held[w].job]
    BY <2>3, <2>4, DispatchAssumption
  <2>6. IsFiniteSet(now) /\ now \subseteq Rows'
    BY <2>4, <2>5, FS_Subset DEF Succeeding, Rows, Exists
  <2>7. rows \in Seq(Rows')
    BY <2>6, OrderOfSet, SeqMonotonic
  <2> QED BY <2>2, <2>7
<1>3. ASSUME Requeue
      PROVE  \E more \in Seq(Rows') :
               Len(outbox) + Len(more) <= MaxPending /\ outbox' = outbox \o more
  <2> DEFINE found == {j \in Jobs : Unfinished(j) /\ j \in due \ (live \cup cancelled)}
  <2>1. PICK rows \in SetToSeqs(found) : /\ Len(outbox) + Len(rows) <= MaxPending
                                        /\ outbox' = outbox \o rows
    BY <1>3 DEF Requeue
  <2>2. found \subseteq Rows
    BY DEF Unfinished, Rows, Exists
  <2>3. IsFiniteSet(found) /\ found \subseteq Rows'
    BY <2>2, FS_Subset
  <2>4. rows \in Seq(Rows')
    BY <2>3, OrderOfSet, SeqMonotonic
  <2> QED BY <2>1, <2>4
<1>4. ASSUME NEW j \in Jobs, ScheduleAndEnqueue(j), j \notin due' PROVE UNCHANGED outbox
  BY <1>4 DEF ScheduleAndEnqueue
<1> QED BY <1>1, <1>2, <1>3, <1>4

LEMMA NextDispatchInv == DispatchInv /\ [DispatchNext]_dispatchVars => DispatchInv'
<1> SUFFICES ASSUME DispatchInv, [DispatchNext]_dispatchVars PROVE DispatchInv'
  OBVIOUS
<1>0. /\ TypeOK /\ IsFiniteSet(Rows) /\ DispatchTypeOK /\ HeldExists
      /\ outbox \in Seq(Rows) /\ Len(outbox) <= MaxPending /\ Len(outbox) \in Nat
  BY LenProperties DEF DispatchInv, RowsFinite, DispatchTypeOK, Rows
<1>1. [Next]_vars
  BY StepOfLedger
<1>2. Rows \subseteq Rows'
  BY <1>0, <1>1, RowsGrow, DispatchAssumption
<1>3. RowsFinite'
  <2>1. PICK new \in SUBSET Jobs : IsFiniteSet(new) /\ Rows' \subseteq Rows \cup new
    BY <1>0, <1>1, RowsGrow, DispatchAssumption
  <2>2. IsFiniteSet(Rows \cup new)
    BY <1>0, <2>1, FS_Union
  <2> QED BY <2>1, <2>2, FS_Subset DEF RowsFinite
<1>4. TypeOK' /\ HeldExists'
  BY <1>0, <1>1, <1>2, NextTypeOK, HeldStep
<1>o. ASSUME UNCHANGED outbox
      PROVE  outbox' \in Seq(Rows') /\ Len(outbox') <= MaxPending
  BY <1>0, <1>2, <1>o, SeqMonotonic
<1>b. ASSUME UNCHANGED broker
      PROVE  /\ broker' \in [Jobs -> 0 .. MaxQueued]
             /\ \A i \in Jobs : broker'[i] > 0 => Exists(i)'
  BY <1>0, <1>2, <1>b DEF DispatchTypeOK, Rows
<1>5. outbox' \in Seq(Rows') /\ Len(outbox') <= MaxPending
  <2>1. ASSUME NEW more \in Seq(Rows'),
               Len(outbox) + Len(more) <= MaxPending, outbox' = outbox \o more
        PROVE  outbox' \in Seq(Rows') /\ Len(outbox') <= MaxPending
    BY <1>0, <1>2, <2>1, OutboxType
  <2>4. ASSUME NEW n \in 1 .. RelayLimit, Relay(n)
        PROVE  outbox' \in Seq(Rows') /\ Len(outbox') <= MaxPending
    <3>1. n \in 1 .. Len(outbox) /\ outbox' \in {Unmarked(n), outbox}
      BY <2>4 DEF Relay
    <3>2. CASE outbox' = Unmarked(n)
      <4>1. outbox' \in Seq(Rows) /\ Len(outbox') = Len(outbox) - n
        BY <1>0, <3>1, <3>2, Relayed
      <4>2. Len(outbox) - n <= MaxPending
        BY <1>0, <3>1, DispatchAssumption
      <4> QED BY <1>2, <4>1, <4>2, SeqMonotonic
    <3> QED BY <1>o, <3>1, <3>2
  <2> QED
    BY <1>0, <1>1, <1>2, <1>o, <2>1, <2>4, RowsAdded
    DEF DispatchNext, dispatchVars, LedgerOnly, Lose, Take, Discard, Consume, Work,
        Redeliver, CrashAndReject
<1>6. /\ broker' \in [Jobs -> 0 .. MaxQueued]
      /\ \A i \in Jobs : broker'[i] > 0 => Exists(i)'
  <2>1. ASSUME NEW j \in Jobs, Consume(j)
        PROVE  /\ broker' \in [Jobs -> 0 .. MaxQueued]
               /\ \A i \in Jobs : broker'[i] > 0 => Exists(i)'
    <3>1. broker[j] - 1 \in 0 .. MaxQueued /\ Exists(j)
      BY <1>0, <2>1, DispatchAssumption DEF Consume, DispatchTypeOK
    <3> QED BY <1>0, <1>2, <2>1, <3>1, BrokerType DEF Consume
  <2>2. ASSUME NEW w \in Workers, pc[w] # "idle",
               broker' = [broker EXCEPT ![held[w].job] = Enqueued(held[w].job, 1)]
        PROVE  /\ broker' \in [Jobs -> 0 .. MaxQueued]
               /\ \A i \in Jobs : broker'[i] > 0 => Exists(i)'
    <3>1. held[w].job \in Jobs /\ Exists(held[w].job)
      BY <1>0, <2>2 DEF TypeOK, HeldExists
    <3>2. Enqueued(held[w].job, 1) \in 0 .. MaxQueued
      BY <1>0, <3>1, EnqueuedType
    <3> QED BY <1>0, <1>2, <2>2, <3>1, <3>2, BrokerType
  <2>3. ASSUME NEW n \in 1 .. RelayLimit, Relay(n)
        PROVE  /\ broker' \in [Jobs -> 0 .. MaxQueued]
               /\ \A i \in Jobs : broker'[i] > 0 => Exists(i)'
    <3> DEFINE sent == SubSeq(outbox, 1, n)
    <3>1. n \in 1 .. Len(outbox)
          /\ broker' = [j \in Jobs |-> Enqueued(j, CountOf(sent, j))]
      BY <2>3 DEF Relay
    <3>2. sent \in Seq(Rows)
      BY <1>0, <3>1, Relayed
    <3>3. \A j \in Jobs : CountOf(sent, j) \in Nat
      BY <3>2, Countable
    <3>4. \A j \in Jobs : CountOf(sent, j) > 0 => Exists(j)
      <4> SUFFICES ASSUME NEW j \in Jobs, CountOf(sent, j) > 0 PROVE Exists(j)
        OBVIOUS
      <4>1. {i \in DOMAIN sent : sent[i] = j} # {}
        <5>1. CountOf(sent, j) # 0
          BY <3>3
        <5> HIDE DEF sent
        <5>2. Cardinality({i \in DOMAIN sent : sent[i] = j}) # 0
          BY <5>1 DEF CountOf
        <5> QED BY <5>2, FS_EmptySet
      <4>2. PICK i \in DOMAIN sent : sent[i] = j
        BY <4>1
      <4>3. sent[i] \in Rows
        BY <3>2, <4>2, LenProperties
      <4> QED BY <4>2, <4>3 DEF Rows
    <3>5. \A j \in Jobs : broker[j] > 0 => Exists(j)
      BY <1>0 DEF DispatchTypeOK
    <3>6. broker' \in [Jobs -> 0 .. MaxQueued] /\ \A i \in Jobs : broker'[i] > 0 => Exists(i)
      <4>1. \A j \in Jobs : Enqueued(j, CountOf(sent, j)) \in 0 .. MaxQueued
              /\ (Enqueued(j, CountOf(sent, j)) > 0 => broker[j] > 0 \/ CountOf(sent, j) > 0)
        BY <1>0, <3>3, EnqueuedType
      <4> QED BY <3>1, <3>4, <3>5, <4>1
    <3> QED BY <1>2, <3>6 DEF Rows
  <2>4. ASSUME NEW w \in Workers, CrashAndReject(w)
        PROVE  /\ broker' \in [Jobs -> 0 .. MaxQueued]
               /\ \A i \in Jobs : broker'[i] > 0 => Exists(i)'
    BY <1>b, <2>2, <2>4 DEF CrashAndReject, Crash
  <2> QED
    BY <1>b, <2>1, <2>2, <2>3, <2>4
    DEF DispatchNext, dispatchVars, LedgerOnly, ScheduleAndEnqueue, CommitAndEnqueue, Lose,
        Take, Discard, Requeue, Work, Redeliver
<1> QED BY <1>3, <1>4, <1>5, <1>6 DEF DispatchInv, DispatchTypeOK, Rows

LEMMA DispatchInvariant == DispatchSpec => []DispatchInv
BY InitDispatchInv, NextDispatchInv, PTL DEF DispatchSpec

\* The outbox and the queues name only jobs that have a row, through redelivery,
\* crashes and every failed transaction of the relay.
THEOREM DispatchTypes == DispatchSpec => []DispatchTypeOK
BY DispatchInvariant, PTL DEF DispatchInv

-----------------------------------------------------------------------------
(* What the relay may never do.                                            *)

LEMMA RelayStep ==
  ASSUME DispatchInv, [DispatchNext]_dispatchVars, NEW j \in Jobs,
         CountOf(outbox', j) < CountOf(outbox, j)
  PROVE  broker'[j] > broker[j] \/ broker'[j] = MaxQueued
<1>0. /\ outbox \in Seq(Rows) /\ outbox \in Seq(Rows') /\ outbox' \in Seq(Rows')
      /\ DispatchTypeOK /\ TypeOK /\ IsFiniteSet(Rows) /\ Rows \subseteq Rows'
  <2>1. TypeOK /\ IsFiniteSet(Rows) /\ DispatchTypeOK /\ outbox \in Seq(Rows)
    BY DEF DispatchInv, DispatchTypeOK, RowsFinite, Rows
  <2>2. Rows \subseteq Rows'
    BY <2>1, StepOfLedger, RowsGrow, DispatchAssumption
  <2>3. outbox' \in Seq(Rows')
    BY NextDispatchInv DEF DispatchInv, DispatchTypeOK, Rows
  <2> QED BY <2>1, <2>2, <2>3, SeqMonotonic
<1>1. CountOf(outbox, j) \in Nat
  BY <1>0, Countable
<1>2. outbox' # outbox
  BY <1>1
<1>3. ASSUME NEW more \in Seq(Rows'), outbox' = outbox \o more PROVE FALSE
  <2>1. CountOf(outbox', j) >= CountOf(outbox, j)
    BY <1>0, <1>3, CountGrows
  <2>2. CountOf(outbox', j) \in Nat
    BY <1>0, Countable
  <2> QED BY <1>1, <2>1, <2>2
<1>4. ASSUME NEW n \in 1 .. RelayLimit, Relay(n)
      PROVE  broker'[j] > broker[j] \/ broker'[j] = MaxQueued
  <2> DEFINE sent == SubSeq(outbox, 1, n)
  <2>1. n \in 1 .. Len(outbox) /\ outbox' = Unmarked(n)
        /\ broker'[j] = Enqueued(j, CountOf(sent, j))
    BY <1>2, <1>4 DEF Relay
  <2>2. CountOf(sent, j) \in Nat
    BY <1>0, <2>1, Relayed, Countable
  <2>3. CountOf(sent, j) # 0
    BY <1>0, <1>1, <2>1, MarkedOnlyRelayed
  <2> DEFINE k == CountOf(sent, j)
  <2>4. k \in Nat /\ k > 0 /\ broker'[j] = Enqueued(j, k)
    BY <2>1, <2>2, <2>3
  <2> HIDE DEF k
  <2>5. Enqueued(j, k) > broker[j] \/ Enqueued(j, k) = MaxQueued
    BY <1>0, <2>4, EnqueuedType
  <2> QED BY <2>4, <2>5
<1> QED
  BY <1>0, <1>2, <1>3, <1>4, RowsAdded
  DEF DispatchNext, dispatchVars, LedgerOnly, Lose, Take, Discard, Consume, Work,
      Redeliver, CrashAndReject

\* A row leaves the outbox only when the broker has its message: a refusal or a
\* transaction that does not commit leaves it where it was.
THEOREM RelayLosesNothing == DispatchSpec => RelayKeepsWork
<1>1. DispatchInv /\ [DispatchNext]_dispatchVars
        => [\A j \in Jobs : CountOf(outbox', j) < CountOf(outbox, j) =>
              broker'[j] > broker[j] \/ broker'[j] = MaxQueued]_dispatchVars
  BY RelayStep
<1> QED BY <1>1, DispatchInvariant, PTL DEF DispatchSpec, RelayKeepsWork

=============================================================================
