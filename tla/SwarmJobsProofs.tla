--------------------------- MODULE SwarmJobsProofs ---------------------------
(***************************************************************************)
(* Proofs about the job ledger of SwarmJobs, for any set of jobs, workers, *)
(* queues and operator updates and any bound on the attempts of each job.  *)
(***************************************************************************)
EXTENDS TLAPS, SwarmJobs

\* The bound on the attempts of a job is a number.
LEMMA MaxAttemptsType == MaxAttempts \in [Jobs -> Nat]
BY JobsAssumption

-----------------------------------------------------------------------------
(* Type correctness.                                                       *)

\* A job that is not exhausted has an attempt left.
LEMMA AttemptLeft ==
  ASSUME TypeOK, NEW j \in Jobs, ~Exhausted(j)
  PROVE  attempt[j] < MaxAttempts[j]
<1>1. attempt[j] \in Nat /\ MaxAttempts[j] \in Nat
  BY MaxAttemptsType DEF TypeOK
<1> QED BY <1>1 DEF Exhausted

LEMMA InitTypeOK == Init => TypeOK
BY DEF Init, TypeOK, Idle, JobStatus, TaskStatus

\* What a worker does to its own bookkeeping when it lets go of a job keeps the
\* types of that bookkeeping.
LEMMA ReleaseType ==
  ASSUME TypeOK, NEW w \in Workers, Release(w)
  PROVE  /\ pc' \in [Workers -> {"idle", "claimed", "fenced", "prepared", "failed"}]
         /\ held' \in [Workers -> [job : Jobs \cup {NoJob}, token : Nat, attempt : Nat]]
         /\ pulse' \subseteq Workers
         /\ \A v \in Workers : pc'[v] # "idle" => held'[v].job \in Jobs
BY DEF TypeOK, Release, Idle

\* The rows after a commit: the job has succeeded, jobs that had no row are
\* queued, every other row stays.
LEMMA CommitShape ==
  ASSUME TypeOK, NEW w \in Workers, Commit(w)
  PROVE  LET j == held[w].job IN
         /\ j \in Jobs /\ status[j] = "RUNNING"
         /\ Move(task[j], "SUCCEEDED")
         /\ \E next \in SUBSET Jobs :
              /\ \A i \in next : i # j /\ status[i] = "ABSENT"
              /\ status' = Succeeding(status, j, next)
              /\ task' = Succeeding(task, j, next)
         /\ applied' = [applied EXCEPT ![j] = @ + 1]
         /\ due' \subseteq Jobs /\ live' \subseteq Jobs
         /\ pc[w] # "idle"
         /\ Release(w) \/ Goto(w, "failed")
         /\ UNCHANGED <<attempt, token, cancelled, alerts, paused, issued>>
<1>1. PICK next \in SUBSET Jobs, now \in SUBSET Jobs : CommitTasks(w, next, now)
  BY DEF Commit
<1>2. held[w].job \in Jobs /\ status[held[w].job] = "RUNNING"
  BY <1>1 DEF CommitTasks, Authorized, Current, TypeOK
<1>3. \A i \in next : i # held[w].job /\ status[i] = "ABSENT"
  BY <1>1, <1>2 DEF CommitTasks, Exists
<1>4. due' \subseteq Jobs /\ live' \subseteq Jobs
  BY <1>1 DEF CommitTasks, TypeOK
<1> QED BY <1>1, <1>2, <1>3, <1>4 DEF CommitTasks

LEMMA NextTypeOK == TypeOK /\ [Next]_vars => TypeOK'
<1> SUFFICES ASSUME TypeOK, [Next]_vars PROVE TypeOK'
  OBVIOUS
<1> USE DEF TypeOK
<1>1. ASSUME NEW j \in Jobs, Schedule(j) PROVE TypeOK'
  BY <1>1 DEF Schedule, worker, JobStatus, TaskStatus
<1>2. ASSUME NEW j \in Jobs, CancelTask(j) PROVE TypeOK'
  BY <1>2 DEF CancelTask, worker, JobStatus, TaskStatus
<1>3. ASSUME NEW j \in Jobs, NEW s \in UpdateTargets, UpdateTask(j, s) PROVE TypeOK'
  <2>1. s \in TaskStatus
    BY <1>3 DEF UpdateTask, Move, TaskTransitions, TaskStatus, JobStatus
  <2> QED BY <1>3, <2>1 DEF UpdateTask, row, worker
<1>4. ASSUME NEW j \in Jobs, Expire(j) \/ BecomeDue(j) PROVE TypeOK'
  BY <1>4 DEF Expire, BecomeDue, worker
<1>5. ASSUME NEW w \in Workers, NEW j \in Jobs, Claim(w, j) PROVE TypeOK'
  BY <1>5 DEF Claim, DrawToken, JobStatus, TaskStatus
<1>6. ASSUME NEW w \in Workers, NEW j \in Jobs, ClaimExhausted(w, j) PROVE TypeOK'
  BY <1>6 DEF ClaimExhausted, worker, JobStatus, TaskStatus
<1>7. ASSUME NEW w \in Workers, Heartbeat(w) PROVE TypeOK'
  BY <1>7 DEF Heartbeat
<1>8. ASSUME NEW w \in Workers, Fence(w) \/ Prepare(w) \/ CommitRaises(w) PROVE TypeOK'
  BY <1>8 DEF Fence, Fenced, Prepare, CommitRaises, Goto, ledger, row
<1>9. ASSUME NEW w \in Workers, Commit(w) PROVE TypeOK'
  <2> DEFINE j == held[w].job
  <2>1. PICK next \in SUBSET Jobs : /\ status' = Succeeding(status, j, next)
                                  /\ task' = Succeeding(task, j, next)
    BY <1>9, CommitShape
  <2>2. status' \in [Jobs -> JobStatus] /\ task' \in [Jobs -> TaskStatus]
    BY <2>1 DEF Succeeding, JobStatus, TaskStatus
  <2>3. applied' \in [Jobs -> Nat] /\ due' \subseteq Jobs /\ live' \subseteq Jobs
    BY <1>9, CommitShape
  <2>4. CASE Release(w)
    BY <1>9, <2>2, <2>3, <2>4, CommitShape, ReleaseType
  <2>5. CASE Goto(w, "failed")
    BY <1>9, <2>2, <2>3, <2>5, CommitShape DEF Goto
  <2> QED BY <1>9, <2>4, <2>5, CommitShape
<1>10. ASSUME NEW w \in Workers, CommitRefused(w) \/ FailureRefused(w) \/ Crash(w)
       PROVE TypeOK'
  BY <1>10, ReleaseType DEF CommitRefused, FailureRefused, Crash, ledger, row
<1>11. ASSUME NEW w \in Workers, RecordFailure(w) PROVE TypeOK'
  BY <1>11, ReleaseType DEF RecordFailure, JobStatus, TaskStatus
<1>12. ASSUME NEW k \in Kinds, PauseQueue(k) \/ ResumeQueue(k) PROVE TypeOK'
  BY <1>12 DEF PauseQueue, ResumeQueue, ledger, row, worker
<1>13. CASE UNCHANGED vars
  BY <1>13 DEF vars, ledger, row, worker
<1> QED
  BY <1>1, <1>2, <1>3, <1>4, <1>5, <1>6, <1>7, <1>8, <1>9, <1>10, <1>11, <1>12, <1>13
  DEF Next, Around, Deliver, Step, Handle

\* Every variable of the ledger keeps its shape, through every handler of
\* Worker and every command, for every instance.
THEOREM TypeCorrect == Spec => []TypeOK
BY InitTypeOK, NextTypeOK, PTL DEF Spec

-----------------------------------------------------------------------------
(* The inductive invariant.  What the runs check is not inductive by       *)
(* itself: that a worker with the row's token may commit only once needs   *)
(* tokens to be fresh, and that a failure dead-letters only the last       *)
(* attempt needs the worker's snapshot of `attempt` to be the row's.       *)

\* No row and no worker holds a token that has not been drawn yet.
TokensDrawn ==
  /\ \A j \in Jobs : token[j] <= issued
  /\ \A w \in Workers : held[w].token <= issued

\* A worker that still holds the row's lease remembers the row's attempt.
SnapshotMatches ==
  \A w \in Workers :
    pc[w] # "idle" /\ held[w].token = token[held[w].job]
      => held[w].attempt = attempt[held[w].job]

\* RetriesBounded in three parts, the alerts of unsettled rows pinned to none.
AttemptsWithinMax == \A j \in Jobs : attempt[j] <= MaxAttempts[j]
DeadLetterExhausted ==
  \A j \in Jobs : status[j] = "DEAD_LETTER" => attempt[j] = MaxAttempts[j]
AlertsOfDeadLetters ==
  \A j \in Jobs : alerts[j] = 0 \/ (alerts[j] = 1 /\ status[j] = "DEAD_LETTER")
RetryLedger == AttemptsWithinMax /\ DeadLetterExhausted /\ AlertsOfDeadLetters

LedgerInv ==
  /\ TypeOK
  /\ TokensDrawn
  /\ OneLeaseHolder
  /\ SnapshotMatches
  /\ AppliedExactlyOnce
  /\ RetryLedger
  /\ SettledAgree

LEMMA InitLedgerInv == Init => LedgerInv
<1> SUFFICES ASSUME Init PROVE LedgerInv
  OBVIOUS
<1>1. TypeOK
  BY InitTypeOK
<1>2. TokensDrawn /\ OneLeaseHolder /\ SnapshotMatches
  BY <1>1 DEF TypeOK, Init, Idle, TokensDrawn, OneLeaseHolder, SnapshotMatches
<1>3. AppliedExactlyOnce /\ SettledAgree
  BY DEF Init, AppliedExactlyOnce, SettledAgree, Terminal
<1>4. RetryLedger
  BY <1>1, MaxAttemptsType DEF Init, TypeOK, RetryLedger, AttemptsWithinMax,
     DeadLetterExhausted, AlertsOfDeadLetters
<1> QED BY <1>1, <1>2, <1>3, <1>4 DEF LedgerInv

\* A worker that lets go of its job, or keeps it, disturbs no lease: tokens are
\* only compared between workers that hold a job.
LEMMA WorkersOnly ==
  ASSUME TypeOK, TokensDrawn, OneLeaseHolder, SnapshotMatches,
         NEW w \in Workers, NEW label \in {"claimed", "fenced", "prepared", "failed"},
         Release(w) \/ (pc[w] # "idle" /\ Goto(w, label)),
         UNCHANGED <<issued, token, attempt>>
  PROVE  TokensDrawn' /\ OneLeaseHolder' /\ SnapshotMatches'
<1>1. CASE Release(w)
  <2>1. TokensDrawn'
    BY <1>1 DEF TypeOK, Release, Idle, TokensDrawn
  <2>2. \A v \in Workers : pc'[v] # "idle" =>
           v # w /\ pc[v] # "idle" /\ held'[v] = held[v]
    BY <1>1 DEF TypeOK, Release
  <2> QED BY <2>1, <2>2 DEF OneLeaseHolder, SnapshotMatches
<1>2. CASE pc[w] # "idle" /\ Goto(w, label)
  <2>1. held' = held /\ \A v \in Workers : pc'[v] # "idle" => pc[v] # "idle"
    BY <1>2 DEF TypeOK, Goto
  <2> QED BY <2>1 DEF TokensDrawn, OneLeaseHolder, SnapshotMatches
<1> QED BY <1>1, <1>2

\* A step that leaves the leases and the workers alone keeps what relates them.
LEMMA LeasesUnchanged ==
  ASSUME TokensDrawn, OneLeaseHolder, SnapshotMatches,
         UNCHANGED <<issued, token, attempt, pc, held>>
  PROVE  TokensDrawn' /\ OneLeaseHolder' /\ SnapshotMatches'
BY DEF TokensDrawn, OneLeaseHolder, SnapshotMatches

\* A step that leaves the columns of every row alone keeps what the rows say,
\* provided that it moves no Task out of a terminal status.
LEMMA RowsUnchanged ==
  ASSUME AppliedExactlyOnce, RetryLedger, SettledAgree,
         UNCHANGED <<status, attempt, applied, alerts>>,
         \A j \in Jobs : task[j] \in Terminal => task'[j] = task[j]
  PROVE  AppliedExactlyOnce' /\ RetryLedger' /\ SettledAgree'
<1>1. AppliedExactlyOnce' /\ SettledAgree'
  BY DEF AppliedExactlyOnce, SettledAgree
<1>2. RetryLedger'
  BY DEF RetryLedger, AttemptsWithinMax, DeadLetterExhausted, AlertsOfDeadLetters
<1> QED BY <1>1, <1>2

LEMMA NextLedgerInv == LedgerInv /\ [Next]_vars => LedgerInv'
<1> SUFFICES ASSUME LedgerInv, [Next]_vars PROVE LedgerInv'
  OBVIOUS
<1> USE DEF LedgerInv
<1>0. TypeOK'
  BY NextTypeOK
<1>1. ASSUME NEW j \in Jobs, Schedule(j) PROVE LedgerInv'
  <2>1. TokensDrawn' /\ OneLeaseHolder' /\ SnapshotMatches'
    BY <1>1, LeasesUnchanged DEF Schedule, worker
  <2>2. AppliedExactlyOnce' /\ SettledAgree'
    BY <1>1 DEF Schedule, Exists, TypeOK, AppliedExactlyOnce, SettledAgree, Terminal
  <2>3. AttemptsWithinMax'
    BY <1>1, MaxAttemptsType DEF Schedule, Exists, TypeOK, RetryLedger, AttemptsWithinMax
  <2>4. DeadLetterExhausted'
    BY <1>1, MaxAttemptsType DEF Schedule, Exists, TypeOK, RetryLedger, DeadLetterExhausted
  <2>5. AlertsOfDeadLetters'
    BY <1>1 DEF Schedule, Exists, TypeOK, RetryLedger, AlertsOfDeadLetters
  <2> QED BY <1>0, <2>1, <2>2, <2>3, <2>4, <2>5 DEF RetryLedger
<1>2. ASSUME NEW j \in Jobs, CancelTask(j) PROVE LedgerInv'
  <2>1. TokensDrawn' /\ OneLeaseHolder' /\ SnapshotMatches'
    BY <1>2, LeasesUnchanged DEF CancelTask, worker
  <2>2. status[j] \notin {"SUCCEEDED", "DEAD_LETTER"}
    BY <1>2 DEF CancelTask, Move, TaskTransitions, SettledAgree, Terminal
  <2>3. AppliedExactlyOnce' /\ SettledAgree'
    BY <1>2, <2>2 DEF CancelTask, TypeOK, AppliedExactlyOnce, SettledAgree, Terminal
  <2>4. AttemptsWithinMax'
    BY <1>2, <2>2, MaxAttemptsType DEF CancelTask, TypeOK, RetryLedger, AttemptsWithinMax
  <2>5. DeadLetterExhausted'
    BY <1>2, <2>2, MaxAttemptsType DEF CancelTask, TypeOK, RetryLedger, DeadLetterExhausted
  <2>6. AlertsOfDeadLetters'
    BY <1>2, <2>2 DEF CancelTask, TypeOK, RetryLedger, AlertsOfDeadLetters
  <2> QED BY <1>0, <2>1, <2>3, <2>4, <2>5, <2>6 DEF RetryLedger
<1>3. ASSUME NEW j \in Jobs, NEW s \in UpdateTargets, UpdateTask(j, s)
      PROVE  LedgerInv'
  <2>1. TokensDrawn' /\ OneLeaseHolder' /\ SnapshotMatches'
    BY <1>3, LeasesUnchanged DEF UpdateTask, row, worker
  <2>2. \A i \in Jobs : task[i] \in Terminal => task'[i] = task[i]
    BY <1>3 DEF UpdateTask, Move, TaskTransitions, Terminal, TypeOK
  <2>3. AppliedExactlyOnce' /\ RetryLedger' /\ SettledAgree'
    BY <1>3, <2>2, RowsUnchanged DEF UpdateTask, row
  <2> QED BY <1>0, <2>1, <2>3
<1>4. ASSUME NEW j \in Jobs, Expire(j) \/ BecomeDue(j) PROVE LedgerInv'
  <2>1. TokensDrawn' /\ OneLeaseHolder' /\ SnapshotMatches'
    BY <1>4, LeasesUnchanged DEF Expire, BecomeDue, worker
  <2>2. AppliedExactlyOnce' /\ RetryLedger' /\ SettledAgree'
    BY <1>4, RowsUnchanged DEF Expire, BecomeDue
  <2> QED BY <1>0, <2>1, <2>2
<1>5. ASSUME NEW w \in Workers, NEW j \in Jobs, Claim(w, j) PROVE LedgerInv'
  <2>1. TokensDrawn'
    BY <1>5 DEF Claim, DrawToken, TypeOK, TokensDrawn
  <2>2. OneLeaseHolder' /\ SnapshotMatches'
    BY <1>5 DEF Claim, DrawToken, TypeOK, TokensDrawn, OneLeaseHolder, SnapshotMatches
  <2>3. status[j] \notin Terminal
    BY <1>5 DEF Claim, Claimable, Terminal
  <2>4. AppliedExactlyOnce' /\ SettledAgree'
    BY <1>5, <2>3 DEF Claim, TypeOK, AppliedExactlyOnce, SettledAgree, Terminal
  <2>5. AttemptsWithinMax'
    <3>1. /\ attempt \in [Jobs -> Nat] /\ attempt[j] < MaxAttempts[j]
          /\ attempt' = [attempt EXCEPT ![j] = attempt[j] + 1]
      BY <1>5, AttemptLeft DEF Claim, TypeOK
    <3>2. attempt[j] + 1 <= MaxAttempts[j]
      <4>1. attempt[j] \in Nat /\ MaxAttempts[j] \in Nat
        BY <3>1, MaxAttemptsType
      <4> QED BY <3>1, <4>1
    <3> QED BY <3>1, <3>2 DEF RetryLedger, AttemptsWithinMax
  <2>6. DeadLetterExhausted'
    BY <1>5, <2>3, MaxAttemptsType DEF Claim, Terminal, TypeOK, RetryLedger, DeadLetterExhausted
  <2>7. AlertsOfDeadLetters'
    BY <1>5, <2>3 DEF Claim, Terminal, TypeOK, RetryLedger, AlertsOfDeadLetters
  <2> QED BY <1>0, <2>1, <2>2, <2>4, <2>5, <2>6, <2>7 DEF RetryLedger
<1>6. ASSUME NEW w \in Workers, NEW j \in Jobs, ClaimExhausted(w, j)
      PROVE  LedgerInv'
  <2>1. TokensDrawn' /\ OneLeaseHolder' /\ SnapshotMatches'
    BY <1>6, LeasesUnchanged DEF ClaimExhausted, worker
  <2>2. status[j] \notin Terminal
    BY <1>6 DEF ClaimExhausted, Claimable, Terminal
  <2>3. attempt[j] = MaxAttempts[j]
    <3>1. attempt[j] \in Nat /\ MaxAttempts[j] \in Nat
      BY MaxAttemptsType DEF TypeOK
    <3>2. attempt[j] >= MaxAttempts[j] /\ attempt[j] <= MaxAttempts[j]
      BY <1>6 DEF ClaimExhausted, Exhausted, RetryLedger, AttemptsWithinMax
    <3> QED BY <3>1, <3>2
  <2>4. AppliedExactlyOnce' /\ SettledAgree'
    BY <1>6, <2>2 DEF ClaimExhausted, TypeOK, AppliedExactlyOnce, SettledAgree, Terminal
  <2>5. AttemptsWithinMax'
    BY <1>6, <2>2, <2>3, MaxAttemptsType DEF ClaimExhausted, Terminal, TypeOK, RetryLedger, AttemptsWithinMax
  <2>6. DeadLetterExhausted'
    BY <1>6, <2>2, <2>3, MaxAttemptsType DEF ClaimExhausted, Terminal, TypeOK, RetryLedger, DeadLetterExhausted
  <2>7. AlertsOfDeadLetters'
    BY <1>6, <2>2, <2>3 DEF ClaimExhausted, Terminal, TypeOK, RetryLedger, AlertsOfDeadLetters
  <2> QED BY <1>0, <2>1, <2>4, <2>5, <2>6, <2>7 DEF RetryLedger
<1>7. ASSUME NEW w \in Workers, Heartbeat(w) PROVE LedgerInv'
  <2>1. TokensDrawn' /\ OneLeaseHolder' /\ SnapshotMatches'
    BY <1>7, LeasesUnchanged DEF Heartbeat
  <2>2. AppliedExactlyOnce' /\ RetryLedger' /\ SettledAgree'
    BY <1>7, RowsUnchanged DEF Heartbeat
  <2> QED BY <1>0, <2>1, <2>2
<1>8. ASSUME NEW w \in Workers,
             Fence(w) \/ Prepare(w) \/ CommitRaises(w)
               \/ CommitRefused(w) \/ FailureRefused(w) \/ Crash(w)
      PROVE  LedgerInv'
  <2>1. /\ UNCHANGED <<ledger, issued>>
        /\ \/ Release(w)
           \/ pc[w] # "idle" /\ \E label \in {"fenced", "prepared", "failed"} : Goto(w, label)
    BY <1>8 DEF Fence, Prepare, CommitRaises, CommitRefused, FailureRefused, Crash
  <2>2. TokensDrawn' /\ OneLeaseHolder' /\ SnapshotMatches'
    BY <2>1, WorkersOnly DEF ledger, row
  <2>3. AppliedExactlyOnce' /\ RetryLedger' /\ SettledAgree'
    BY <2>1, RowsUnchanged DEF ledger, row
  <2> QED BY <1>0, <2>2, <2>3
<1>9. ASSUME NEW w \in Workers, Commit(w) PROVE LedgerInv'
  <2> DEFINE j == held[w].job
  <2>1. /\ j \in Jobs /\ status[j] = "RUNNING"
        /\ applied' = [applied EXCEPT ![j] = @ + 1]
        /\ UNCHANGED <<attempt, alerts>>
    BY <1>9, CommitShape
  <2>2. PICK next \in SUBSET Jobs :
          /\ \A i \in next : i # j /\ status[i] = "ABSENT"
          /\ status' = Succeeding(status, j, next)
          /\ task' = Succeeding(task, j, next)
    BY <1>9, CommitShape
  <2>3. TokensDrawn' /\ OneLeaseHolder' /\ SnapshotMatches'
    BY <1>9, CommitShape, WorkersOnly
  <2>4. AppliedExactlyOnce' /\ SettledAgree'
    BY <2>1, <2>2 DEF Succeeding, TypeOK, AppliedExactlyOnce, SettledAgree, Terminal
  <2>5. AttemptsWithinMax'
    BY <2>1 DEF RetryLedger, AttemptsWithinMax
  <2>6. DeadLetterExhausted'
    BY <2>1, <2>2 DEF Succeeding, TypeOK, RetryLedger, DeadLetterExhausted
  <2>7. AlertsOfDeadLetters'
    BY <2>1, <2>2 DEF Succeeding, TypeOK, RetryLedger, AlertsOfDeadLetters
  <2> QED BY <1>0, <2>3, <2>4, <2>5, <2>6, <2>7 DEF RetryLedger
<1>10. ASSUME NEW w \in Workers, RecordFailure(w) PROVE LedgerInv'
  <2> DEFINE j == held[w].job
  <2>1. j \in Jobs /\ status[j] = "RUNNING" /\ held[w].attempt = attempt[j]
    BY <1>10 DEF RecordFailure, Current, TypeOK, SnapshotMatches
  <2>2. TokensDrawn' /\ OneLeaseHolder' /\ SnapshotMatches'
    BY <1>10, WorkersOnly DEF RecordFailure
  <2>3. AppliedExactlyOnce' /\ SettledAgree'
    BY <1>10, <2>1 DEF RecordFailure, TypeOK, AppliedExactlyOnce, SettledAgree, Terminal
  <2>4. held[w].attempt >= MaxAttempts[j] => attempt[j] = MaxAttempts[j]
    <3>1. attempt[j] \in Nat /\ MaxAttempts[j] \in Nat
      BY <2>1, MaxAttemptsType DEF TypeOK
    <3>2. attempt[j] <= MaxAttempts[j]
      BY <2>1 DEF RetryLedger, AttemptsWithinMax
    <3> QED BY <2>1, <3>1, <3>2
  <2>5. alerts[j] = 0
    BY <2>1 DEF RetryLedger, AlertsOfDeadLetters
  <2>6. AttemptsWithinMax'
    BY <1>10, <2>1, <2>4, <2>5, MaxAttemptsType DEF RecordFailure, TypeOK, RetryLedger, AttemptsWithinMax
  <2>7. DeadLetterExhausted'
    BY <1>10, <2>1, <2>4, <2>5, MaxAttemptsType DEF RecordFailure, TypeOK, RetryLedger, DeadLetterExhausted
  <2>8. AlertsOfDeadLetters'
    BY <1>10, <2>1, <2>4, <2>5 DEF RecordFailure, TypeOK, RetryLedger, AlertsOfDeadLetters
  <2> QED BY <1>0, <2>2, <2>3, <2>6, <2>7, <2>8 DEF RetryLedger
<1>11. ASSUME NEW k \in Kinds, PauseQueue(k) \/ ResumeQueue(k) PROVE LedgerInv'
  <2>1. UNCHANGED <<ledger, issued, worker>>
    BY <1>11 DEF PauseQueue, ResumeQueue
  <2> QED BY <1>0, <2>1, LeasesUnchanged, RowsUnchanged DEF ledger, row, worker
<1>12. CASE UNCHANGED vars
  BY <1>0, <1>12, LeasesUnchanged, RowsUnchanged DEF vars, ledger, row, worker
<1> QED
  BY <1>1, <1>2, <1>3, <1>4, <1>5, <1>6, <1>7, <1>8, <1>9, <1>10, <1>11, <1>12
  DEF Next, Around, Deliver, Step, Handle

LEMMA LedgerInvariant == Spec => []LedgerInv
BY InitLedgerInv, NextLedgerInv, PTL DEF Spec

\* The handler of a job takes effect once and only once when it succeeds, for
\* any number of workers, deliveries, crashes and lost leases.
THEOREM AppliedOnce == Spec => []AppliedExactlyOnce
BY LedgerInvariant, PTL DEF LedgerInv

\* At most one worker process holds a given lease of a job.
THEOREM LeaseExclusive == Spec => []OneLeaseHolder
BY LedgerInvariant, PTL DEF LedgerInv

\* Attempts respect each job's own max_attempts and a dead letter has used all.
THEOREM RetriesWithinBound == Spec => []RetriesBounded
<1>1. ASSUME TypeOK, RetryLedger PROVE RetriesBounded
  <2> SUFFICES ASSUME NEW j \in Jobs
               PROVE  /\ attempt[j] <= MaxAttempts[j]
                      /\ status[j] = "DEAD_LETTER" => attempt[j] = MaxAttempts[j]
                      /\ alerts[j] <= 1
                      /\ alerts[j] = 1 => status[j] = "DEAD_LETTER"
    BY DEF RetriesBounded
  <2>1. alerts[j] \in {0, 1}
    BY <1>1 DEF RetryLedger, AlertsOfDeadLetters
  <2> QED
    BY <1>1, <2>1 DEF RetryLedger, AttemptsWithinMax, DeadLetterExhausted, AlertsOfDeadLetters
<1> QED BY <1>1, LedgerInvariant, PTL DEF LedgerInv

\* The row and the Task agree on every settled job, whatever `update` writes.
THEOREM OutcomesAgree == Spec => []SettledAgree
BY LedgerInvariant, PTL DEF LedgerInv

-----------------------------------------------------------------------------
(* Without raw updates of Task objects.                                    *)

\* The handlers and commands that write a Task write its row, and the other way.
LEMMA RowsMatchStep ==
  ASSUME TypeOK, RowsMatchTasks, [Next]_vars, UpdateTargets = {}
  PROVE  RowsMatchTasks'
<1> USE DEF TypeOK, RowsMatchTasks
<1>1. ASSUME NEW j \in Jobs, Schedule(j) \/ CancelTask(j) PROVE RowsMatchTasks'
  BY <1>1 DEF Schedule, CancelTask
<1>2. ASSUME NEW w \in Workers, NEW j \in Jobs, Deliver(w, j) PROVE RowsMatchTasks'
  BY <1>2 DEF Deliver, Claim, ClaimExhausted
<1>3. ASSUME NEW w \in Workers, Commit(w) PROVE RowsMatchTasks'
  BY <1>3, CommitShape DEF Succeeding
<1>4. ASSUME NEW w \in Workers, RecordFailure(w) PROVE RowsMatchTasks'
  BY <1>4 DEF RecordFailure
<1>5. CASE UNCHANGED <<status, task>>
  BY <1>5
<1> QED
  BY <1>1, <1>2, <1>3, <1>4, <1>5
  DEF Next, Around, Step, Handle, Expire, BecomeDue, Heartbeat, Fence, Prepare,
      CommitRefused, CommitRaises, FailureRefused, Crash, PauseQueue, ResumeQueue,
      ledger, row, vars

\* Where operators move Tasks only with cancel_task, the row and its Task say the
\* same at every moment: claims, retries and give-ups write both.
THEOREM RowsAndTasksMove ==
  ASSUME UpdateTargets = {} PROVE Spec => []RowsMatchTasks
<1>1. Init => RowsMatchTasks
  BY DEF Init, RowsMatchTasks
<1>2. TypeOK /\ RowsMatchTasks /\ [Next]_vars => RowsMatchTasks'
  BY RowsMatchStep
<1> QED BY <1>1, <1>2, TypeCorrect, PTL DEF Spec

-----------------------------------------------------------------------------
(* What a step may never do.                                               *)

\* No handler and no command reopens a settled row.
LEMMA SettledStep ==
  ASSUME LedgerInv, [Next]_vars, NEW i \in Jobs, status[i] \in Terminal
  PROVE  status'[i] = status[i]
<1> USE DEF LedgerInv
<1>1. ASSUME NEW j \in Jobs, Schedule(j) PROVE status'[i] = status[i]
  BY <1>1 DEF Schedule, Exists, TypeOK, Terminal
<1>2. ASSUME NEW j \in Jobs, CancelTask(j) PROVE status'[i] = status[i]
  BY <1>2 DEF CancelTask, Move, TaskTransitions, SettledAgree, TypeOK, Terminal
<1>3. ASSUME NEW w \in Workers, NEW j \in Jobs, Claim(w, j) \/ ClaimExhausted(w, j)
      PROVE  status'[i] = status[i]
  BY <1>3 DEF Claim, ClaimExhausted, Claimable, TypeOK, Terminal
<1>4. ASSUME NEW w \in Workers, Commit(w) \/ RecordFailure(w)
      PROVE  status'[i] = status[i]
  <2>1. CASE Commit(w)
    BY <2>1, CommitShape DEF Succeeding, TypeOK, Terminal
  <2>2. CASE RecordFailure(w)
    BY <2>2 DEF RecordFailure, Current, TypeOK, Terminal
  <2> QED BY <1>4, <2>1, <2>2
<1>5. CASE UNCHANGED status
  BY <1>5
<1> QED
  BY <1>1, <1>2, <1>3, <1>4, <1>5
  DEF Next, Around, Deliver, Step, Handle, UpdateTask, Expire, BecomeDue, Heartbeat, Fence, Prepare,
      CommitRefused, CommitRaises, FailureRefused, Crash, PauseQueue, ResumeQueue,
      ledger, row, vars

\* A settled row stays as it is, through every handler and every command.
THEOREM SettledStays == Spec => SettledForGood
<1>1. LedgerInv /\ [Next]_vars
        => [\A j \in Jobs : status[j] \in Terminal => status'[j] = status[j]]_vars
  BY SettledStep
<1> QED BY <1>1, LedgerInvariant, PTL DEF Spec, SettledForGood

\* Once a Task is cancelled, by cancel_task or by a raw update, no worker that
\* is still running it can commit its effects.
THEOREM CancelledStaysUnapplied == Spec => CancelledNeverApplied
<1>1. ASSUME LedgerInv, [Next]_vars
      PROVE  \A j \in Jobs : task[j] = "CANCELLED" => applied'[j] = applied[j]
  <2> SUFFICES ASSUME NEW i \in Jobs, task[i] = "CANCELLED"
               PROVE  applied'[i] = applied[i]
    OBVIOUS
  <2> USE <1>1 DEF LedgerInv
  <2>1. ASSUME NEW w \in Workers, Commit(w) PROVE applied'[i] = applied[i]
    BY <2>1, CommitShape DEF Move, TaskTransitions, TypeOK
  <2>2. CASE UNCHANGED applied
    BY <2>2
  <2> QED
    BY <2>1, <2>2
    DEF Next, Around, Deliver, Step, Handle, Schedule, CancelTask, UpdateTask, Expire, BecomeDue, Claim,
        ClaimExhausted, Heartbeat, Fence, Prepare, RecordFailure,
        CommitRefused, CommitRaises, FailureRefused, Crash, PauseQueue, ResumeQueue,
        ledger, row, vars
<1>2. LedgerInv /\ [Next]_vars
        => [\A j \in Jobs : task[j] = "CANCELLED" => applied'[j] = applied[j]]_vars
  BY <1>1
<1> QED BY <1>2, LedgerInvariant, PTL DEF Spec, CancelledNeverApplied

-----------------------------------------------------------------------------
(* The ledger keeps the promise of JobPromise.  A step of the ledger is a  *)
(* step of the promise or leaves what the promise sees unchanged.          *)

\* A running job has been tried.
RunningTried == \A j \in Jobs : status[j] = "RUNNING" => attempt[j] > 0

LEMMA RunningTriedInvariant == Spec => []RunningTried
<1>1. Init => RunningTried
  BY DEF Init, RunningTried
<1>2. ASSUME LedgerInv, RunningTried, [Next]_vars PROVE RunningTried'
  <2> USE <1>2 DEF LedgerInv
  <2>1. ASSUME NEW j \in Jobs, Schedule(j) \/ CancelTask(j) PROVE RunningTried'
    BY <2>1 DEF Schedule, CancelTask, TypeOK, RunningTried
  <2>2. ASSUME NEW w \in Workers, NEW j \in Jobs, Claim(w, j) PROVE RunningTried'
    <3>1. attempt[j] + 1 > 0
      BY DEF TypeOK
    <3>2. attempt' = [attempt EXCEPT ![j] = attempt[j] + 1]
          /\ status' = [status EXCEPT ![j] = "RUNNING"]
      BY <2>2 DEF Claim
    <3> QED BY <3>1, <3>2 DEF TypeOK, RunningTried
  <2>3. ASSUME NEW w \in Workers, NEW j \in Jobs, ClaimExhausted(w, j) PROVE RunningTried'
    BY <2>3 DEF ClaimExhausted, TypeOK, RunningTried
  <2>4. ASSUME NEW w \in Workers, Commit(w) \/ RecordFailure(w) PROVE RunningTried'
    <3>1. CASE Commit(w)
      BY <3>1, CommitShape DEF Succeeding, TypeOK, RunningTried
    <3>2. CASE RecordFailure(w)
      BY <3>2 DEF RecordFailure, TypeOK, RunningTried
    <3> QED BY <2>4, <3>1, <3>2
  <2>5. CASE UNCHANGED <<status, attempt>>
    BY <2>5 DEF RunningTried
  <2> QED
    BY <2>1, <2>2, <2>3, <2>4, <2>5
    DEF Next, Around, Deliver, Step, Handle, UpdateTask, Expire, BecomeDue, Heartbeat, Fence, Prepare,
        CommitRefused, CommitRaises, FailureRefused, Crash, PauseQueue, ResumeQueue,
        ledger, row, vars
<1> QED BY <1>1, <1>2, LedgerInvariant, PTL DEF Spec

LEMMA PromiseInit == Init => Promise!Init
BY DEF Init, Promise!Init, outcomes, Outcome

\* The row of one job moves to status s: the promise sees one outcome change.
LEMMA OutcomeMoves ==
  ASSUME TypeOK, NEW j \in Jobs, NEW s \in JobStatus, status' = [status EXCEPT ![j] = s]
  PROVE  outcomes' = [outcomes EXCEPT ![j] = Outcome(s)]
BY DEF TypeOK, outcomes

\* A move between two unsettled statuses is invisible to the promise.
LEMMA OpenStaysOpen ==
  ASSUME TypeOK, NEW j \in Jobs, NEW s \in JobStatus, status' = [status EXCEPT ![j] = s],
         Outcome(status[j]) = Outcome(s)
  PROVE  outcomes' = outcomes
BY DEF TypeOK, outcomes

LEMMA PromiseStep ==
  ASSUME LedgerInv, RunningTried, [Next]_vars
  PROVE  [Promise!Next]_(Promise!vars)
<1> USE DEF LedgerInv, Promise!vars
<1>0. \A j \in Jobs : outcomes[j] = Outcome(status[j])
  BY DEF outcomes
<1>1. ASSUME NEW j \in Jobs, Schedule(j) PROVE Promise!Submit(j)
  <2>1. outcomes' = [outcomes EXCEPT ![j] = "open"]
    BY <1>1, OutcomeMoves DEF Schedule, JobStatus, Outcome
  <2> QED BY <1>0, <1>1, <2>1 DEF Schedule, Exists, Outcome, Promise!Submit, Promise!Settle
<1>2. ASSUME NEW j \in Jobs, CancelTask(j)
      PROVE  Promise!Withdraw(j) \/ UNCHANGED Promise!vars
  <2>1. CASE status[j] = "CANCELLED"
    BY <1>2, <2>1, OpenStaysOpen DEF CancelTask, JobStatus
  <2>2. CASE status[j] # "CANCELLED"
    <3>1. Outcome(status[j]) = "open"
      BY <1>2, <2>2 DEF CancelTask, Exists, Move, TaskTransitions, SettledAgree,
         Terminal, Outcome
    <3>2. outcomes' = [outcomes EXCEPT ![j] = "cancelled"]
      BY <1>2, OutcomeMoves DEF CancelTask, JobStatus, Outcome
    <3> QED BY <1>0, <1>2, <3>1, <3>2 DEF CancelTask, Promise!Withdraw, Promise!Settle
  <2> QED BY <2>1, <2>2
<1>3. ASSUME NEW w \in Workers, NEW j \in Jobs, Claim(w, j) PROVE Promise!Try(j)
  <2>1. Outcome(status[j]) = "open" /\ Outcome("RUNNING") = "open"
    BY <1>3 DEF Claim, Claimable, Outcome
  <2>2. outcomes' = outcomes
    BY <1>3, <2>1, OpenStaysOpen DEF Claim, JobStatus
  <2> QED BY <1>0, <1>3, <2>1, <2>2, AttemptLeft DEF Claim, Promise!Try
<1>4. ASSUME NEW w \in Workers, NEW j \in Jobs, ClaimExhausted(w, j)
      PROVE  Promise!GiveUp(j)
  <2>1. Outcome(status[j]) = "open"
    BY <1>4 DEF ClaimExhausted, Claimable, Outcome
  <2>2. outcomes' = [outcomes EXCEPT ![j] = "dead"]
    BY <1>4, OutcomeMoves DEF ClaimExhausted, JobStatus, Outcome
  <2>3. attempt[j] \in Nat /\ MaxAttempts[j] \in Nat
    BY MaxAttemptsType DEF TypeOK
  <2>4. attempt[j] >= MaxAttempts[j] /\ attempt[j] <= MaxAttempts[j]
    BY <1>4 DEF ClaimExhausted, Exhausted, RetryLedger, AttemptsWithinMax
  <2>5. attempt[j] = MaxAttempts[j]
    BY <2>3, <2>4
  <2> QED
    BY <1>0, <1>4, <2>1, <2>2, <2>5 DEF ClaimExhausted, Promise!GiveUp, Promise!Settle
<1>5. ASSUME NEW w \in Workers, Commit(w)
      PROVE  \E next \in SUBSET Jobs : Promise!Succeed(held[w].job, next)
  <2> DEFINE j == held[w].job
  <2>1. j \in Jobs /\ status[j] = "RUNNING" /\ attempt[j] > 0
    BY <1>5, CommitShape DEF RunningTried
  <2>2. PICK next \in SUBSET Jobs :
          /\ \A i \in next : i # j /\ status[i] = "ABSENT"
          /\ status' = Succeeding(status, j, next)
    BY <1>5, CommitShape
  <2>3. \A i \in Jobs : status'[i] = IF i \in next THEN "QUEUED"
                                   ELSE IF i = j THEN "SUCCEEDED" ELSE status[i]
    BY <2>2 DEF Succeeding
  <2>4. outcomes' = [i \in Jobs |-> IF i \in next THEN "open"
                                   ELSE IF i = j THEN "succeeded" ELSE outcomes[i]]
    BY <1>0, <2>3 DEF outcomes, Outcome
  <2>5. Promise!Succeed(j, next)
    BY <1>0, <1>5, <2>1, <2>2, <2>4, CommitShape DEF Outcome, Promise!Succeed
  <2> QED BY <2>5
<1>6. ASSUME NEW w \in Workers, RecordFailure(w)
      PROVE  Promise!GiveUp(held[w].job) \/ UNCHANGED Promise!vars
  <2> DEFINE j == held[w].job
  <2>1. j \in Jobs /\ status[j] = "RUNNING" /\ held[w].attempt = attempt[j]
    BY <1>6 DEF RecordFailure, Current, TypeOK, SnapshotMatches
  <2>2. CASE held[w].attempt >= MaxAttempts[j]
    <3>1. outcomes' = [outcomes EXCEPT ![j] = "dead"]
      BY <1>6, <2>1, <2>2, OutcomeMoves DEF RecordFailure, JobStatus, Outcome
    <3>2. attempt[j] \in Nat /\ MaxAttempts[j] \in Nat
      BY <2>1, MaxAttemptsType DEF TypeOK
    <3>3. attempt[j] <= MaxAttempts[j]
      BY <2>1 DEF RetryLedger, AttemptsWithinMax
    <3>4. attempt[j] = MaxAttempts[j]
      BY <2>1, <2>2, <3>2, <3>3
    <3> QED
      BY <1>0, <1>6, <2>1, <3>1, <3>4
      DEF RecordFailure, Outcome, Promise!GiveUp, Promise!Settle
  <2>3. CASE ~(held[w].attempt >= MaxAttempts[j])
    <3>1. status' = [status EXCEPT ![j] = "WAITING_RETRY"]
      BY <1>6, <2>3 DEF RecordFailure
    <3>2. outcomes' = outcomes
      BY <2>1, <3>1, OpenStaysOpen DEF JobStatus, Outcome
    <3> QED BY <1>6, <3>2 DEF RecordFailure
  <2> QED BY <2>2, <2>3
<1>7. CASE UNCHANGED <<status, attempt, applied>>
  BY <1>7 DEF outcomes
<1>8. ASSUME NEW w \in Workers, Commit(w) \/ RecordFailure(w) PROVE held[w].job \in Jobs
  BY <1>8, CommitShape DEF RecordFailure, TypeOK
<1> QED
  BY <1>1, <1>2, <1>3, <1>4, <1>5, <1>6, <1>7, <1>8
  DEF Next, Around, Deliver, Step, Handle, UpdateTask, Expire, BecomeDue, Heartbeat, Fence, Prepare,
      CommitRefused, CommitRaises, FailureRefused, Crash, PauseQueue, ResumeQueue,
      ledger, row, vars, Promise!Next

\* With its workers, leases, heartbeats, crashes and raw updates, the ledger
\* implements the promise that a job is tried at most max_attempts times and
\* settles once, with its effects committed exactly when it succeeded.
THEOREM LedgerKeepsPromise == Spec => KeepsPromise
BY PromiseInit, PromiseStep, LedgerInvariant, RunningTriedInvariant, PTL
DEF Spec, KeepsPromise, Promise!Spec

=============================================================================
