-------------------------- MODULE SwarmPublishProofs --------------------------
(***************************************************************************)
(* Proofs about publication, for any set of compositions, workers and      *)
(* operator updates.  A publication is a behaviour of the job ledger, so   *)
(* what SwarmJobsProofs proves of the ledger holds here, and the           *)
(* invariant of the publication rests on it.                               *)
(***************************************************************************)
EXTENDS TLAPS, SwarmPublish, SwarmJobsProofs

-----------------------------------------------------------------------------
(* Every step of a publication is a step of the ledger.                    *)

LEMMA PublishStepIsLedgerStep == [PublishNext]_publishVars => [Next]_vars
<1>1. ASSUME LedgerOnly PROVE Next
  BY <1>1 DEF LedgerOnly, Next, Step
<1>2. ASSUME NEW j \in Jobs, Publish(j) PROVE [Next]_vars
  BY <1>2 DEF Publish, Next
<1>3. ASSUME NEW w \in Workers, AcceptRemote(w) \/ PublishRaises(w) PROVE Next
  BY <1>3 DEF AcceptRemote, PublishRaises, Next, Step
<1>4. ASSUME NEW w \in Workers, CommitPublished(w) PROVE Next
  BY <1>4 DEF CommitPublished, Next, Step
<1>5. ASSUME NEW j \in Jobs, NEW s \in CompositionTargets, SetComposition(j, s)
      PROVE  UNCHANGED vars
  BY <1>5 DEF SetComposition
<1>6. ASSUME NEW s \in AccountTargets, SetAccount(s) PROVE UNCHANGED vars
  BY <1>6 DEF SetAccount
<1>7. ASSUME NEW w \in Workers, RequestIntent(w) PROVE UNCHANGED vars
  BY <1>7 DEF RequestIntent
<1>8. ASSUME UNCHANGED publishVars PROVE UNCHANGED vars
  BY <1>8 DEF publishVars
<1> QED
  BY <1>1, <1>2, <1>3, <1>4, <1>5, <1>6, <1>7, <1>8 DEF PublishNext

\* With its commands and its two remote transactions, a publication is a
\* behaviour of the job ledger.
THEOREM PublicationIsLedger == PublishSpec => Spec
<1>1. PublishInit => Init
  BY DEF PublishInit
<1> QED BY <1>1, PublishStepIsLedgerStep, PTL DEF PublishSpec, Spec

-----------------------------------------------------------------------------
(* The inductive invariant.  That a platform has one post for a            *)
(* composition needs what the workers between two steps rely on: one that  *)
(* has asked has a durable intent, and one that is prepared has its post   *)
(* accepted.                                                               *)

AskedHasIntent == \A w \in asked : intent[held[w].job] # "NONE"

PreparedIsAccepted == \A w \in Workers : pc[w] = "prepared" => remote[held[w].job] = 1

PublishInv ==
  /\ LedgerInv
  /\ PublishTypeOK
  /\ PostedAtMostOnce
  /\ RecordsAgree
  /\ AskedHasIntent
  /\ PreparedIsAccepted

LEMMA InitPublishInv == PublishInit => PublishInv
<1> SUFFICES ASSUME PublishInit PROVE PublishInv
  OBVIOUS
<1>1. Init
  BY DEF PublishInit
<1>2. LedgerInv
  BY <1>1, InitLedgerInv
<1>3. PublishTypeOK /\ AskedHasIntent
  BY DEF PublishInit, PublishTypeOK, CompositionStatus, AccountStatus, AskedHasIntent
<1>4. PostedAtMostOnce
  BY DEF PublishInit, PostedAtMostOnce
<1>5. RecordsAgree
  BY <1>1 DEF PublishInit, Init, RecordsAgree
<1>6. PreparedIsAccepted
  BY <1>1 DEF Init, PreparedIsAccepted
<1> QED BY <1>2, <1>3, <1>4, <1>5, <1>6 DEF PublishInv

\* A job succeeds, and is prepared, only in the steps of a publication; and what
\* a worker holds does not change while it stays where it is.
LEMMA LedgerOnlyShape ==
  ASSUME LedgerInv, LedgerOnly
  PROVE  /\ \A j \in Jobs : status'[j] = "SUCCEEDED" <=> status[j] = "SUCCEEDED"
         /\ \A w \in Workers : pc'[w] \in {"fenced", "prepared"} /\ pc'[w] = pc[w]
                                 => held'[w] = held[w]
         /\ \A w \in Workers : pc'[w] = "prepared" => pc[w] = "prepared"
<1> USE DEF LedgerInv
<1>1. \A j \in Jobs : status[j] = "SUCCEEDED" => status'[j] = "SUCCEEDED"
  <2>1. Next
    BY DEF LedgerOnly, Next, Step
  <2> QED BY <2>1, SettledStep DEF Terminal
<1>2. \A j \in Jobs : status'[j] = "SUCCEEDED" => status[j] = "SUCCEEDED"
  BY DEF LedgerOnly, Around, Deliver, Handle, CancelTask, UpdateTask, Expire, BecomeDue,
     PauseQueue, ResumeQueue, Claim, ClaimExhausted, Heartbeat, Fence, CommitRefused,
     CommitRaises, RecordFailure, FailureRefused, Crash, ledger, row, TypeOK
<1>3. \A w \in Workers : pc'[w] \in {"fenced", "prepared"} /\ pc'[w] = pc[w]
                           => held'[w] = held[w]
  BY DEF LedgerOnly, Around, Deliver, Handle, CancelTask, UpdateTask, Expire, BecomeDue,
     PauseQueue, ResumeQueue, Claim, ClaimExhausted, Heartbeat, Fence, CommitRefused,
     CommitRaises, RecordFailure, FailureRefused, Crash, Release, Goto, worker, TypeOK
<1>4. \A w \in Workers : pc'[w] = "prepared" => pc[w] = "prepared"
  BY DEF LedgerOnly, Around, Deliver, Handle, CancelTask, UpdateTask, Expire, BecomeDue,
     PauseQueue, ResumeQueue, Claim, ClaimExhausted, Heartbeat, Fence, CommitRefused,
     CommitRaises, RecordFailure, FailureRefused, Crash, Release, Goto, worker, TypeOK
<1> QED BY <1>1, <1>2, <1>3, <1>4

\* Steps of the ledger that leave the publication alone.
LEMMA LedgerOnlyPublishInv == PublishInv /\ LedgerOnly => PublishInv'
<1> SUFFICES ASSUME PublishInv, LedgerOnly PROVE PublishInv'
  OBVIOUS
<1> USE DEF PublishInv
<1>1. UNCHANGED publication /\ asked' = {w \in asked : pc'[w] = "fenced"}
  BY DEF LedgerOnly
<1>2. LedgerInv'
  <2>1. [PublishNext]_publishVars
    BY DEF PublishNext
  <2> QED BY <2>1, PublishStepIsLedgerStep, NextLedgerInv
<1>3. PublishTypeOK'
  BY <1>1 DEF publication, PublishTypeOK
<1>4. PostedAtMostOnce'
  BY <1>1 DEF publication, PostedAtMostOnce
<1>5. RecordsAgree'
  BY <1>1, LedgerOnlyShape DEF publication, RecordsAgree
<1>6. AskedHasIntent'
  <2>1. \A w \in asked' : w \in asked /\ held'[w] = held[w]
    BY <1>1, LedgerOnlyShape DEF PublishTypeOK
  <2> QED BY <1>1, <2>1 DEF publication, AskedHasIntent
<1>7. PreparedIsAccepted'
  <2>1. \A w \in Workers : pc'[w] = "prepared" => pc[w] = "prepared" /\ held'[w] = held[w]
    BY LedgerOnlyShape
  <2> QED BY <1>1, <2>1 DEF publication, PreparedIsAccepted
<1> QED BY <1>2, <1>3, <1>4, <1>5, <1>6, <1>7

\* A command or a publishing step leaves every job's status alone.
LEMMA StatusUnchangedRecords ==
  ASSUME RecordsAgree, UNCHANGED <<posts, intent, remote, status>>,
         \A j \in Jobs : composition[j] = "PUBLISHED" => composition'[j] = "PUBLISHED"
  PROVE  RecordsAgree'
BY DEF RecordsAgree

LEMMA NextPublishInv == PublishInv /\ [PublishNext]_publishVars => PublishInv'
<1> SUFFICES ASSUME PublishInv, [PublishNext]_publishVars PROVE PublishInv'
  OBVIOUS
<1> USE DEF PublishInv
<1>0. LedgerInv'
  BY PublishStepIsLedgerStep, NextLedgerInv
<1>1. CASE LedgerOnly
  BY <1>1, LedgerOnlyPublishInv
<1>2. ASSUME NEW j \in Jobs, Publish(j) PROVE PublishInv'
  <2>1. /\ composition' = [composition EXCEPT ![j] = "PUBLISH_QUEUED"]
        /\ composition[j] = "APPROVED"
        /\ UNCHANGED <<account, intent, remote, posts, asked, pc, held>>
    BY <1>2 DEF Publish, Schedule, vars, worker
  <2>2. \A i \in Jobs : status'[i] = "SUCCEEDED" <=> status[i] = "SUCCEEDED"
    BY <1>2 DEF Publish, Schedule, Exists, vars, ledger, row, LedgerInv, TypeOK
  <2>3. PublishTypeOK'
    BY <2>1 DEF PublishTypeOK, CompositionStatus
  <2>4. RecordsAgree'
    BY <2>1, <2>2 DEF RecordsAgree, PublishTypeOK
  <2>5. PostedAtMostOnce' /\ AskedHasIntent' /\ PreparedIsAccepted'
    BY <2>1 DEF PostedAtMostOnce, AskedHasIntent, PreparedIsAccepted
  <2> QED BY <1>0, <2>3, <2>4, <2>5
<1>3. ASSUME NEW j \in Jobs, NEW s \in CompositionTargets, SetComposition(j, s)
      PROVE  PublishInv'
  <2>1. /\ composition' = [composition EXCEPT ![j] = s]
        /\ CompositionMove(composition[j], s)
        /\ UNCHANGED <<account, intent, remote, posts, asked, pc, held, status>>
    BY <1>3 DEF SetComposition, vars, ledger, row, worker
  <2>2. PublishTypeOK'
    <3>1. s \in CompositionStatus
      BY <2>1 DEF CompositionMove, CompositionTransitions, CompositionStatus, PublishTypeOK
    <3> QED BY <2>1, <3>1 DEF PublishTypeOK
  <2>3. \A i \in Jobs : composition[i] = "PUBLISHED" => composition'[i] = "PUBLISHED"
    BY <2>1 DEF CompositionMove, CompositionTransitions, PublishTypeOK
  <2>4. RecordsAgree'
    BY <2>1, <2>3, StatusUnchangedRecords
  <2>5. PostedAtMostOnce' /\ AskedHasIntent' /\ PreparedIsAccepted'
    BY <2>1 DEF PostedAtMostOnce, AskedHasIntent, PreparedIsAccepted
  <2> QED BY <1>0, <2>2, <2>4, <2>5
<1>4. ASSUME NEW s \in AccountTargets, SetAccount(s) PROVE PublishInv'
  <2>1. /\ account' = s /\ AccountMove(account, s)
        /\ UNCHANGED <<composition, intent, remote, posts, asked, pc, held, status>>
    BY <1>4 DEF SetAccount, vars, ledger, row, worker
  <2>2. PublishTypeOK'
    <3>1. s \in AccountStatus
      BY <2>1 DEF AccountMove, AccountTransitions, AccountStatus, PublishTypeOK
    <3> QED BY <2>1, <3>1 DEF PublishTypeOK
  <2>3. RecordsAgree'
    BY <2>1, StatusUnchangedRecords
  <2>4. PostedAtMostOnce' /\ AskedHasIntent' /\ PreparedIsAccepted'
    BY <2>1 DEF PostedAtMostOnce, AskedHasIntent, PreparedIsAccepted
  <2> QED BY <1>0, <2>2, <2>3, <2>4
<1>5. ASSUME NEW w \in Workers, RequestIntent(w) PROVE PublishInv'
  <2> DEFINE j == held[w].job
  <2>1. /\ intent' = [intent EXCEPT ![j] = IF intent[j] = "NONE" THEN "REQUESTED"
                                                                ELSE intent[j]]
        /\ asked' = asked \cup {w} /\ pc[w] = "fenced"
        /\ UNCHANGED <<composition, account, remote, posts, pc, held, status>>
    BY <1>5 DEF RequestIntent, vars, ledger, row, worker
  <2>2. j \in Jobs
    BY <2>1 DEF LedgerInv, TypeOK
  <2>3. intent' \in [Jobs -> {"NONE", "REQUESTED", "SUCCEEDED"}]
    BY <2>1, <2>2 DEF PublishTypeOK
  <2>4. \A i \in Jobs : /\ intent'[i] = "SUCCEEDED" <=> intent[i] = "SUCCEEDED"
                        /\ intent[i] # "NONE" => intent'[i] # "NONE"
    BY <2>1, <2>2 DEF PublishTypeOK
  <2>5. intent'[j] # "NONE"
    BY <2>1, <2>2 DEF PublishTypeOK
  <2>6. PublishTypeOK'
    BY <2>1, <2>3 DEF PublishTypeOK
  <2>7. PostedAtMostOnce' /\ RecordsAgree'
    BY <2>1, <2>4 DEF PostedAtMostOnce, RecordsAgree
  <2>8. AskedHasIntent'
    <3>1. \A v \in asked : held[v].job \in Jobs
      BY DEF LedgerInv, TypeOK, PublishTypeOK
    <3> QED BY <2>1, <2>4, <2>5, <3>1 DEF AskedHasIntent
  <2>9. PreparedIsAccepted'
    BY <2>1 DEF PreparedIsAccepted
  <2> QED BY <1>0, <2>6, <2>7, <2>8, <2>9
<1>6. ASSUME NEW w \in Workers, AcceptRemote(w) PROVE PublishInv'
  <2> DEFINE j == held[w].job
  <2>1. /\ remote' = [remote EXCEPT ![j] = IF remote[j] > 0 THEN remote[j] ELSE remote[j] + 1]
        /\ asked' = asked \ {w} /\ w \in asked /\ pc[w] = "fenced"
        /\ \E outcome \in {"prepared", "failed"} : pc' = [pc EXCEPT ![w] = outcome]
        /\ UNCHANGED <<composition, account, intent, posts, held, status>>
    BY <1>6 DEF AcceptRemote, Accepted, Prepare, Goto, ledger, row
  <2>2. j \in Jobs /\ intent[j] # "NONE"
    BY <2>1 DEF LedgerInv, TypeOK, AskedHasIntent
  <2>3. remote' = [remote EXCEPT ![j] = 1]
    <3>1. remote[j] \in Nat /\ remote[j] <= 1
      BY <2>2 DEF PublishTypeOK, PostedAtMostOnce
    <3>2. (IF remote[j] > 0 THEN remote[j] ELSE remote[j] + 1) = 1
      BY <3>1
    <3> QED BY <2>1, <3>2
  <2>4. /\ remote'[j] = 1
        /\ \A i \in Jobs : i # j => remote'[i] = remote[i]
    BY <2>2, <2>3 DEF PublishTypeOK
  <2>5. PublishTypeOK'
    BY <2>1, <2>3 DEF PublishTypeOK, LedgerInv, TypeOK
  <2>6. PostedAtMostOnce' /\ RecordsAgree'
    BY <2>1, <2>2, <2>4 DEF PostedAtMostOnce, RecordsAgree
  <2>7. AskedHasIntent'
    BY <2>1 DEF AskedHasIntent
  <2>8. PreparedIsAccepted'
    <3> SUFFICES ASSUME NEW v \in Workers, pc'[v] = "prepared"
                 PROVE  remote'[held[v].job] = 1
      BY <2>1 DEF PreparedIsAccepted
    <3>1. CASE v = w
      BY <2>4, <3>1
    <3>2. CASE v # w
      <4>1. pc[v] = "prepared"
        BY <2>1, <3>2 DEF LedgerInv, TypeOK
      <4>2. held[v].job \in Jobs /\ remote[held[v].job] = 1
        BY <4>1 DEF PreparedIsAccepted, LedgerInv, TypeOK
      <4> QED BY <2>4, <4>2
    <3> QED BY <3>1, <3>2
  <2> QED BY <1>0, <2>5, <2>6, <2>7, <2>8
<1>7. ASSUME NEW w \in Workers, PublishRaises(w) PROVE PublishInv'
  <2>1. /\ asked' = asked \ {w} /\ pc' = [pc EXCEPT ![w] = "failed"]
        /\ UNCHANGED <<publication, held, status>>
    BY <1>7 DEF PublishRaises, Prepare, Goto, ledger, row, LedgerInv, TypeOK
  <2>2. PublishTypeOK' /\ PostedAtMostOnce' /\ RecordsAgree' /\ AskedHasIntent'
    BY <2>1 DEF publication, PublishTypeOK, PostedAtMostOnce, RecordsAgree,
       AskedHasIntent, LedgerInv, TypeOK
  <2>3. PreparedIsAccepted'
    BY <2>1 DEF publication, PreparedIsAccepted, LedgerInv, TypeOK
  <2> QED BY <1>0, <2>2, <2>3
<1>8. ASSUME NEW w \in Workers, CommitPublished(w) PROVE PublishInv'
  <2> DEFINE j == held[w].job
  <2>1. /\ posts' = [posts EXCEPT ![j] = posts[j] + 1]
        /\ intent' = [intent EXCEPT ![j] = "SUCCEEDED"]
        /\ composition' = [composition EXCEPT ![j] = "PUBLISHED"]
        /\ UNCHANGED <<account, remote, asked>>
    BY <1>8 DEF CommitPublished, RecordPost
  <2>2. j \in Jobs /\ status[j] = "RUNNING" /\ pc[w] = "prepared"
    BY <1>8, CommitShape DEF CommitPublished, Commit, CommitTasks, LedgerInv
  <2>3. PICK next \in SUBSET Jobs :
          /\ \A i \in next : i # j /\ status[i] = "ABSENT"
          /\ status' = Succeeding(status, j, next)
    BY <1>8, CommitShape DEF CommitPublished, LedgerInv
  <2>4. /\ status'[j] = "SUCCEEDED"
        /\ \A i \in Jobs : i # j => (status'[i] = "SUCCEEDED" <=> status[i] = "SUCCEEDED")
    BY <2>2, <2>3 DEF Succeeding
  <2>5. remote[j] = 1 /\ posts[j] = 0
    BY <2>2 DEF PreparedIsAccepted, RecordsAgree
  <2>6. /\ \A v \in Workers : v # w => pc'[v] = pc[v] /\ held'[v] = held[v]
        /\ pc'[w] \in {"idle", "failed"}
    BY <1>8, CommitShape DEF CommitPublished, Release, Goto, LedgerInv, TypeOK
  <2>7. PublishTypeOK'
    BY <2>1, <2>2, <2>5, <2>6 DEF PublishTypeOK, CompositionStatus
  <2>8. PostedAtMostOnce'
    BY <2>1, <2>2 DEF PostedAtMostOnce, PublishTypeOK
  <2>9. RecordsAgree'
    BY <2>1, <2>2, <2>4, <2>5 DEF RecordsAgree, PublishTypeOK
  <2>10. AskedHasIntent'
    <3>1. \A v \in asked : v # w /\ held[v].job \in Jobs
      BY <2>2 DEF PublishTypeOK, LedgerInv, TypeOK
    <3>2. \A v \in asked : held'[v] = held[v]
      BY <2>6, <3>1 DEF PublishTypeOK
    <3> QED BY <2>1, <3>1, <3>2 DEF AskedHasIntent, PublishTypeOK
  <2>11. PreparedIsAccepted'
    BY <2>1, <2>6 DEF PreparedIsAccepted
  <2> QED BY <1>0, <2>7, <2>8, <2>9, <2>10, <2>11
<1>9. CASE UNCHANGED publishVars
  <2>1. UNCHANGED <<publication, asked, pc, held, status>>
    BY <1>9 DEF publishVars, vars, ledger, row, worker
  <2> QED BY <1>0, <2>1 DEF publication, PublishTypeOK, PostedAtMostOnce, RecordsAgree,
      AskedHasIntent, PreparedIsAccepted
<1> QED
  BY <1>1, <1>2, <1>3, <1>4, <1>5, <1>6, <1>7, <1>8, <1>9 DEF PublishNext

LEMMA PublishInvariant == PublishSpec => []PublishInv
BY InitPublishInv, NextPublishInv, PTL DEF PublishSpec

\* The publication's state keeps its shape through every command and handler.
THEOREM PublishTypeCorrect == PublishSpec => []PublishTypeOK
BY PublishInvariant, PTL DEF PublishInv

\* The platform has at most one post for a composition and never one without a
\* durable intent, for any number of workers, timeouts, retries and lost leases.
THEOREM PostsAtMostOnce == PublishSpec => []PostedAtMostOnce
BY PublishInvariant, PTL DEF PublishInv

\* The Post, the intent, the job and the composition of a publication agree.
THEOREM PublicationRecordsAgree == PublishSpec => []RecordsAgree
BY PublishInvariant, PTL DEF PublishInv

-----------------------------------------------------------------------------
(* Only the second transaction posts, and it checks again.                 *)

\* Whatever happened between the two transactions, a worker posts for an active
\* account and for a running, uncancelled job whose current lease it holds.
THEOREM AuthorityChecked == PublishSpec => PostsWithAuthority
<1> DEFINE Authority ==
      \A j \in Jobs : remote'[j] # remote[j] =>
        /\ account = "ACTIVE"
        /\ status[j] = "RUNNING" /\ j \notin cancelled
        /\ \E w \in asked : held[w].job = j /\ held[w].token = token[j]
<1>1. ASSUME PublishInv, NEW w \in Workers, AcceptRemote(w) PROVE Authority
  <2>1. /\ w \in asked /\ account = "ACTIVE"
        /\ token[held[w].job] = held[w].token /\ status[held[w].job] = "RUNNING"
        /\ held[w].job \notin cancelled
    BY <1>1 DEF AcceptRemote, MayAccept, MayPublish, Fenced, Authorized, Current
  <2>2. \A j \in Jobs : remote'[j] # remote[j] => j = held[w].job
    BY <1>1 DEF AcceptRemote, PublishInv, PublishTypeOK
  <2> QED BY <2>1, <2>2
<1>2. ASSUME UNCHANGED remote PROVE Authority
  BY <1>2
<1>3. PublishInv /\ [PublishNext]_publishVars => [Authority]_publishVars
  BY <1>1, <1>2 DEF PublishNext, LedgerOnly, publication, Publish, SetComposition,
     SetAccount, RequestIntent, PublishRaises, CommitPublished, publishVars
<1> QED BY <1>3, PublishInvariant, PTL DEF PublishSpec, PostsWithAuthority

=============================================================================
