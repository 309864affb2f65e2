----------------------------- MODULE SwarmPublish -----------------------------
(***************************************************************************)
(* Publication of approved compositions: the `publish` command             *)
(* (application/service.py), the two transactions of Worker.publish_remote *)
(* and the PUBLISH branch of Worker.apply (application/worker.py), on top  *)
(* of the job ledger of SwarmJobs.                                         *)
(*                                                                         *)
(* The jobs here are the PUBLISH jobs.  The key `trace:PUBLISH:id` of one  *)
(* is made from its composition alone, so a job stands for its composition *)
(* and for the key `publish:id` of its intent and of its remote post.  One *)
(* account receives them all: what counts is whether it is ACTIVE.         *)
(***************************************************************************)
EXTENDS SwarmJobs

CONSTANTS
  CompositionTargets,  \* statuses operators give a Composition by approve,
                       \* reject or `update`
  AccountTargets       \* statuses operators give the Account

VARIABLES
  composition,  \* status of the Composition of each job
  account,      \* status of the Account
  intent,       \* status of the row `publish:id` of execution_intents
  remote,       \* how many posts the platform has accepted for each key
  posts,        \* how many Post objects each composition has
  asked         \* the workers between the two transactions of publish_remote

publication == <<composition, account, intent, remote, posts>>
publishVars == <<vars, publication, asked>>

CompositionTransitions ==
  {<<"REVIEW", "APPROVED">>, <<"REVIEW", "REJECTED">>,
   <<"REVIEW", "RENDER_QUEUED">>,
   <<"RENDER_QUEUED", "RENDERING">>, <<"RENDER_QUEUED", "FAILED">>,
   <<"RENDERING", "REVIEW">>, <<"RENDERING", "FAILED">>,
   <<"APPROVED", "PUBLISH_QUEUED">>, <<"APPROVED", "ARCHIVED">>,
   <<"PUBLISH_QUEUED", "PUBLISHED">>, <<"PUBLISH_QUEUED", "FAILED">>,
   <<"FAILED", "RENDER_QUEUED">>, <<"FAILED", "REVIEW">>, <<"FAILED", "ARCHIVED">>}

AccountTransitions ==
  {<<"ACTIVE", "PAUSED">>, <<"ACTIVE", "DEGRADED">>, <<"ACTIVE", "DISABLED">>,
   <<"PAUSED", "ACTIVE">>, <<"PAUSED", "DISABLED">>,
   <<"DEGRADED", "ACTIVE">>, <<"DEGRADED", "PAUSED">>, <<"DEGRADED", "DISABLED">>}

CompositionMove(s, t) == s = t \/ <<s, t>> \in CompositionTransitions
AccountMove(s, t) == s = t \/ <<s, t>> \in AccountTransitions

\* A rendered composition waits for its review.
PublishInit ==
  /\ Init
  /\ composition = [j \in Jobs |-> "REVIEW"]
  /\ account = "ACTIVE"
  /\ intent = [j \in Jobs |-> "NONE"]
  /\ remote = [j \in Jobs |-> 0]
  /\ posts = [j \in Jobs |-> 0]
  /\ asked = {}

-----------------------------------------------------------------------------
(* Commands.                                                               *)

\* The `publish` command: the PUBLISH job of a composition is scheduled once,
\* whatever has become of it since.
Publish(j) ==
  /\ composition[j] = "APPROVED"
  /\ composition' = [composition EXCEPT ![j] = "PUBLISH_QUEUED"]
  /\ \/ Schedule(j)
     \/ Exists(j) /\ UNCHANGED vars
  /\ UNCHANGED <<account, intent, remote, posts, asked>>

\* approve, reject and `update` of a Composition.
SetComposition(j, s) ==
  /\ CompositionMove(composition[j], s)
  /\ composition' = [composition EXCEPT ![j] = s]
  /\ UNCHANGED <<vars, account, intent, remote, posts, asked>>

\* pause_account, resume_account and `update` of the Account.
SetAccount(s) ==
  /\ AccountMove(account, s)
  /\ account' = s
  /\ UNCHANGED <<vars, composition, intent, remote, posts, asked>>

-----------------------------------------------------------------------------
(* Worker.publish_remote of a worker that prepare() has fenced.            *)

\* Both transactions start with the same checks.
MayPublish(w) == Fenced(w) /\ account = "ACTIVE"

\* Mutant: the second transaction trusts the checks of the first.
UncheckedAccept(w) == TRUE

\* The checks of the transaction that posts.
MayAccept(w) == MayPublish(w)

\* The first transaction: the intent is durable before anything is posted.
RequestIntent(w) ==
  LET j == held[w].job IN
  /\ pc[w] = "fenced" /\ w \notin asked
  /\ MayPublish(w)
  /\ intent' = [intent EXCEPT ![j] = IF @ = "NONE" THEN "REQUESTED" ELSE @]
  /\ asked' = asked \cup {w}
  /\ UNCHANGED <<vars, composition, account, remote, posts>>

\* Mutant: a retry that does not look for an accepted post.
NeverAccepted(j) == FALSE

Accepted(j) == remote[j] > 0

\* The second transaction: the platform accepts the post unless it has one for
\* the key.  Its answer is lost when it timed out, or with the acknowledgement
\* of the transaction.
AcceptRemote(w) ==
  LET j == held[w].job IN
  /\ pc[w] = "fenced" /\ w \in asked
  /\ MayAccept(w)
  /\ remote' = [remote EXCEPT ![j] = IF Accepted(j) THEN @ ELSE @ + 1]
  /\ Prepare(w)
  /\ asked' = asked \ {w}
  /\ UNCHANGED <<composition, account, intent, posts>>

\* Mutant: a failed worker believes that it has asked.
RaisesStillAsking(w) ==
  /\ Prepare(w) /\ pc'[w] = "failed"
  /\ UNCHANGED <<asked, publication>>

\* Either transaction refuses or fails; or no platform is configured.
PublishRaises(w) ==
  /\ Prepare(w) /\ pc'[w] = "failed"
  /\ asked' = asked \ {w}
  /\ UNCHANGED publication

\* Mutant: the intent is left as requested.
RecordPostOnly(j) ==
  /\ posts' = [posts EXCEPT ![j] = @ + 1]
  /\ UNCHANGED intent

\* The Post of a publication, and the end of its intent.
RecordPost(j) ==
  /\ posts' = [posts EXCEPT ![j] = @ + 1]
  /\ intent' = [intent EXCEPT ![j] = "SUCCEEDED"]

\* execute() commits the job together with the PUBLISH branch of apply().  The
\* COLLECT_METRICS job it schedules for the Post is not among these Jobs.
CommitPublished(w) ==
  LET j == held[w].job IN
  /\ Commit(w)
  /\ CompositionMove(composition[j], "PUBLISHED")
  /\ RecordPost(j)
  /\ composition' = [composition EXCEPT ![j] = "PUBLISHED"]
  /\ UNCHANGED <<account, remote, asked>>

-----------------------------------------------------------------------------
\* What happens to the ledger and its workers besides; a worker that dies or
\* loses its job between the two transactions forgets that it asked.
LedgerOnly ==
  /\ \/ Around
     \/ \E j \in Jobs, w \in Workers : Deliver(w, j)
     \/ \E w \in Workers : Heartbeat(w) \/ Handle(w) \/ Crash(w)
  /\ asked' = {w \in asked : pc'[w] = "fenced"}
  /\ UNCHANGED publication

PublishNext ==
  \/ LedgerOnly
  \/ \E j \in Jobs :
       Publish(j) \/ \E s \in CompositionTargets : SetComposition(j, s)
  \/ \E s \in AccountTargets : SetAccount(s)
  \/ \E w \in Workers :
       RequestIntent(w) \/ AcceptRemote(w) \/ PublishRaises(w) \/ CommitPublished(w)

PublishSpec == PublishInit /\ [][PublishNext]_publishVars

-----------------------------------------------------------------------------
(* Properties.                                                             *)

CompositionStatus == {"REVIEW", "APPROVED", "REJECTED", "RENDER_QUEUED",
  "RENDERING", "PUBLISH_QUEUED", "PUBLISHED", "FAILED", "ARCHIVED"}
AccountStatus == {"ACTIVE", "PAUSED", "DEGRADED", "DISABLED"}

\* The publication's own state keeps its shape, and only a worker that prepare()
\* has fenced is between the two transactions of publish_remote.
PublishTypeOK ==
  /\ composition \in [Jobs -> CompositionStatus]
  /\ account \in AccountStatus
  /\ intent \in [Jobs -> {"NONE", "REQUESTED", "SUCCEEDED"}]
  /\ remote \in [Jobs -> Nat]
  /\ posts \in [Jobs -> Nat]
  /\ asked \subseteq Workers
  /\ \A w \in asked : pc[w] = "fenced"

\* Timeouts after acceptance, retries, lost leases and a second worker included:
\* the platform has at most one post for a composition, and never one without a
\* persisted intent.
PostedAtMostOnce ==
  \A j \in Jobs :
    /\ remote[j] <= 1
    /\ remote[j] = 1 => intent[j] # "NONE"

\* The records of a publication agree: the Post, the succeeded intent and the
\* succeeded job come together, for an accepted post and a published composition.
RecordsAgree ==
  \A j \in Jobs :
    /\ posts[j] = IF status[j] = "SUCCEEDED" THEN 1 ELSE 0
    /\ intent[j] = "SUCCEEDED" <=> status[j] = "SUCCEEDED"
    /\ status[j] = "SUCCEEDED" => remote[j] = 1 /\ composition[j] = "PUBLISHED"

\* Nothing is posted for an account that was paused, or for a task that was
\* cancelled or taken over, while the worker was between its two transactions.
PostsWithAuthority ==
  [][\A j \in Jobs : remote'[j] # remote[j] =>
       /\ account = "ACTIVE"
       /\ status[j] = "RUNNING" /\ j \notin cancelled
       /\ \E w \in asked : held[w].job = j /\ held[w].token = token[j]]_publishVars

=============================================================================
