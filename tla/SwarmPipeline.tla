---------------------------- MODULE SwarmPipeline -----------------------------
(***************************************************************************)
(* The media pipeline: what each handler of Worker.apply and of            *)
(* Worker.prepare (application/worker.py) does to a Candidate and to its   *)
(* Composition, with the operator commands that move them                  *)
(* (application/service.py), while the job ledger keeps its JobPromise.    *)
(*                                                                         *)
(* A job is a pair of a candidate and a stage.  Every key of a candidate's *)
(* jobs, `trace:stage:id`, is made from the trace of its creation, and its *)
(* one COMPOSE job makes its one composition, whose RENDER job is listed   *)
(* under the candidate too.  What an apply() adds to the metadata of a     *)
(* candidate - fingerprint, atoms, account - is there once the effects of  *)
(* its stage are; operators do not rewrite metadata here.                  *)
(***************************************************************************)
EXTENDS JobPromise, FiniteSets

CONSTANTS
  Candidates,
  AssetOf,           \* the recording of each candidate: equal hashes, or nearly
                     \* equal ones, taken as an equivalence
  TopicOf,           \* metadata.topic
  Unknown,           \* candidates of UNKNOWN or RESTRICTED provenance
  CandidateTargets,  \* statuses operators give a Candidate with `update`
  CompositionTargets \* statuses operators give a Composition

Stages == {"NORMALIZE", "DEDUPLICATE", "ANALYZE_VIDEO", "ATOMIZE", "CLUSTER",
           "ROUTE", "COMPOSE", "RENDER"}

ASSUME PipelineAssumption ==
  /\ Jobs = Candidates \X Stages
  /\ Unknown \subseteq Candidates

VARIABLES
  candidate,    \* status of each Candidate, or "ABSENT"
  composition,  \* status of its Composition, or "ABSENT"
  similar,      \* the SIMILAR_TO edges
  members,      \* the MEMBER_OF_TREND edges, by topic
  memberCount,  \* metadata.member_count of each topic's TrendCluster
  preparing     \* how many workers have fenced each job and not yet begun it

ontology == <<candidate, composition, similar, members, memberCount>>
pipelineVars == <<vars, ontology, preparing>>

CandidateTransitions ==
  LET From(s, targets) == {s} \X targets IN
  From("DISCOVERED", {"NORMALIZED", "ARCHIVED", "FAILED"})
  \cup From("NORMALIZED", {"DEDUPED", "ARCHIVED", "FAILED"})
  \cup From("DEDUPED", {"ANALYZING", "ARCHIVED", "FAILED"})
  \cup From("ANALYZING", {"ANALYZED", "FAILED"})
  \cup From("ANALYZED", {"ROUTED", "HELD", "ARCHIVED", "FAILED"})
  \cup From("ROUTED", {"SYNTHESIS_QUEUED", "PUBLISH_QUEUED", "REVIEW_PENDING",
                       "HELD", "ARCHIVED", "FAILED"})
  \cup From("HELD", {"ROUTED", "SYNTHESIS_QUEUED", "PUBLISH_QUEUED",
                     "REVIEW_PENDING", "ARCHIVED"})
  \cup From("SYNTHESIS_QUEUED", {"COMPOSED", "FAILED"})
  \cup From("COMPOSED", {"PUBLISH_QUEUED", "HELD", "ARCHIVED", "FAILED"})
  \cup From("PUBLISH_QUEUED", {"PUBLISHED", "HELD", "FAILED"})
  \cup From("FAILED", {"ANALYZING", "ROUTED", "SYNTHESIS_QUEUED",
                       "PUBLISH_QUEUED", "ARCHIVED"})
  \cup From("REVIEW_PENDING", {"PUBLISH_QUEUED", "SYNTHESIS_QUEUED", "HELD",
                               "ARCHIVED"})

CompositionTransitions ==
  {<<"RENDER_QUEUED", "RENDERING">>, <<"RENDER_QUEUED", "FAILED">>,
   <<"RENDERING", "REVIEW">>, <<"RENDERING", "FAILED">>,
   <<"REVIEW", "APPROVED">>, <<"REVIEW", "REJECTED">>, <<"REVIEW", "RENDER_QUEUED">>,
   <<"APPROVED", "PUBLISH_QUEUED">>, <<"APPROVED", "ARCHIVED">>,
   <<"PUBLISH_QUEUED", "PUBLISHED">>, <<"PUBLISH_QUEUED", "FAILED">>,
   <<"FAILED", "RENDER_QUEUED">>, <<"FAILED", "REVIEW">>, <<"FAILED", "ARCHIVED">>}

\* change(): a new status is one that the machine allows after the current one.
MoveCandidate(c, s) ==
  /\ candidate[c] = s \/ <<candidate[c], s>> \in CandidateTransitions
  /\ candidate' = [candidate EXCEPT ![c] = s]

MoveComposition(c, s) ==
  /\ composition[c] = s \/ <<composition[c], s>> \in CompositionTransitions
  /\ composition' = [composition EXCEPT ![c] = s]

PipelineInit ==
  /\ Init
  /\ candidate = [c \in Candidates |-> "ABSENT"]
  /\ composition = [c \in Candidates |-> "ABSENT"]
  /\ similar = {}
  /\ members = [t \in {TopicOf[c] : c \in Candidates} |-> {}]
  /\ memberCount = [t \in {TopicOf[c] : c \in Candidates} |-> 0]
  /\ preparing = [j \in Jobs |-> 0]

Done(c, stage) == effects[<<c, stage>>] > 0

\* The metadata of a candidate has its hashes.
Fingerprinted(c) == Done(c, "DEDUPLICATE")

-----------------------------------------------------------------------------
(* The handlers of apply().  Each commits with the success of its job.     *)

\* Mutant: a handler that forgets its next_task.
Unscheduled(c, stage) == {}

\* schedule() of a stage: nothing when its key has a job, whatever its status.
Following(c, stage) ==
  {j \in {<<c, stage>>} : outcome[j] = "none"}

Normalize(c) ==
  /\ Succeed(<<c, "NORMALIZE">>, Following(c, "DEDUPLICATE"))
  /\ MoveCandidate(c, "NORMALIZED")
  /\ UNCHANGED <<composition, similar, members, memberCount, preparing>>

\* Mutant: only the candidates that are still at this stage are compared.
AtThisStage(d) == candidate[d] = "DEDUPED"

\* The handler compares with every candidate whose hashes are recorded.
Comparable(d) == Fingerprinted(d)

Deduplicate(c) ==
  /\ Succeed(<<c, "DEDUPLICATE">>, Following(c, "ANALYZE_VIDEO"))
  /\ similar' = similar \cup
       {<<c, d>> : d \in {d \in Candidates \ {c} :
                            Comparable(d) /\ AssetOf[d] = AssetOf[c]}}
  /\ MoveCandidate(c, "DEDUPED")
  /\ UNCHANGED <<composition, members, memberCount, preparing>>

AnalyzeVideo(c) ==
  /\ Succeed(<<c, "ANALYZE_VIDEO">>, Following(c, "ATOMIZE"))
  /\ MoveCandidate(c, "ANALYZED")
  /\ UNCHANGED <<composition, similar, members, memberCount, preparing>>

\* The atoms are made whatever the status of the candidate is by now.
Atomize(c) ==
  /\ Succeed(<<c, "ATOMIZE">>, Following(c, "CLUSTER"))
  /\ UNCHANGED <<ontology, preparing>>

\* Mutant: a trend is made although the topic has one.
AlwaysNew(t) == 0

\* member_count of the trend of a topic; a new trend starts with none.
CountBefore(t) == memberCount[t]

Cluster(c) ==
  LET t == TopicOf[c] IN
  /\ Succeed(<<c, "CLUSTER">>, Following(c, "ROUTE"))
  /\ members' = [members EXCEPT ![t] = @ \cup {c}]
  /\ memberCount' = [memberCount EXCEPT ![t] = CountBefore(t) + 1]
  /\ UNCHANGED <<candidate, composition, similar, preparing>>

\* Media of unknown provenance goes on to the review in the same transaction.
Route(c) ==
  /\ Succeed(<<c, "ROUTE">>, {})
  /\ candidate[c] \in {"ANALYZED", "HELD", "FAILED", "ROUTED"}
  /\ candidate' = [candidate EXCEPT
       ![c] = IF c \in Unknown THEN "REVIEW_PENDING" ELSE "ROUTED"]
  /\ UNCHANGED <<composition, similar, members, memberCount, preparing>>

\* Mutant: metadata.get('account_id') instead of metadata['account_id'].
AnyAccount(c) == Done(c, "ATOMIZE")

\* COMPOSE needs the atoms of the storyboard and the account of the route.
Composable(c) == Done(c, "ATOMIZE") /\ Done(c, "ROUTE")

Compose(c) ==
  /\ Succeed(<<c, "COMPOSE">>, Following(c, "RENDER"))
  /\ Composable(c)
  /\ composition' = [composition EXCEPT ![c] = "RENDER_QUEUED"]
  /\ MoveCandidate(c, "COMPOSED")
  /\ UNCHANGED <<similar, members, memberCount, preparing>>

Render(c) ==
  /\ Succeed(<<c, "RENDER">>, {})
  /\ MoveComposition(c, "REVIEW")
  /\ UNCHANGED <<candidate, similar, members, memberCount, preparing>>

Apply(c) ==
  \/ Normalize(c) \/ Deduplicate(c) \/ AnalyzeVideo(c) \/ Atomize(c)
  \/ Cluster(c) \/ Route(c) \/ Compose(c) \/ Render(c)

-----------------------------------------------------------------------------
(* prepare(): two stages announce themselves in a transaction of their own,*)
(* which does not look at the job again.                                   *)

Announced == {"ANALYZE_VIDEO", "RENDER"}

\* A worker claims a job.  It is fenced right after, unless the job is cancelled
\* or the worker lost by then; what matters is how long it takes from there.
Attempt(j) ==
  /\ Try(j)
  /\ preparing' \in {preparing} \cup
       {[preparing EXCEPT ![i] = @ + 1] : i \in {j} \cap (Candidates \X Announced)}
  /\ UNCHANGED ontology

Begin(j) ==
  /\ preparing[j] > 0
  /\ preparing' = [preparing EXCEPT ![j] = @ - 1]
  /\ UNCHANGED vars

BeginAnalysis(c) ==
  /\ Begin(<<c, "ANALYZE_VIDEO">>)
  /\ candidate' = [candidate EXCEPT ![c] = IF @ = "DEDUPED" THEN "ANALYZING" ELSE @]
  /\ UNCHANGED <<composition, similar, members, memberCount>>

BeginRender(c) ==
  /\ Begin(<<c, "RENDER">>)
  /\ composition' = [composition EXCEPT ![c] = IF @ = "RENDER_QUEUED" THEN "RENDERING" ELSE @]
  /\ UNCHANGED <<candidate, similar, members, memberCount>>

-----------------------------------------------------------------------------
(* The rest of a job's life, and the commands.                             *)

DeadLetter(j) ==
  /\ GiveUp(j)
  /\ UNCHANGED <<ontology, preparing>>

CancelTask(j) ==
  /\ Withdraw(j)
  /\ UNCHANGED <<ontology, preparing>>

\* Mutant: the job is committed before the candidate.
DiscoverJobFirst(c) ==
  /\ candidate[c] = "ABSENT"
  /\ Submit(<<c, "NORMALIZE">>)
  /\ UNCHANGED <<ontology, preparing>>

\* A candidate is discovered with its first job, unless it has no media.
Discover(c) ==
  /\ candidate[c] = "ABSENT"
  /\ candidate' = [candidate EXCEPT ![c] = "DISCOVERED"]
  /\ Submit(<<c, "NORMALIZE">>) \/ UNCHANGED vars
  /\ UNCHANGED <<composition, similar, members, memberCount, preparing>>

\* The `synthesize` command.
Synthesize(c) ==
  /\ candidate[c] \in {"ROUTED", "REVIEW_PENDING", "HELD"}
  /\ candidate' = [candidate EXCEPT ![c] = "SYNTHESIS_QUEUED"]
  /\ \/ Submit(<<c, "COMPOSE">>)
     \/ outcome[<<c, "COMPOSE">>] # "none" /\ UNCHANGED vars
  /\ UNCHANGED <<composition, similar, members, memberCount, preparing>>

UpdateCandidate(c, s) ==
  /\ MoveCandidate(c, s)
  /\ UNCHANGED <<vars, composition, similar, members, memberCount, preparing>>

\* approve, reject and `update` of a Composition.
UpdateComposition(c, s) ==
  /\ MoveComposition(c, s)
  /\ UNCHANGED <<vars, candidate, similar, members, memberCount, preparing>>

Command(c) ==
  \/ Discover(c) \/ Synthesize(c)
  \/ \E s \in CandidateTargets : UpdateCandidate(c, s)
  \/ \E s \in CompositionTargets : UpdateComposition(c, s)

PipelineNext ==
  \/ \E c \in Candidates :
       \/ Apply(c) \/ Command(c)
       \/ BeginAnalysis(c) \/ BeginRender(c)
  \/ \E j \in Jobs : Attempt(j) \/ DeadLetter(j) \/ CancelTask(j)

PipelineSpec == PipelineInit /\ [][PipelineNext]_pipelineVars

\* The ledger tries every open job until it is settled (SwarmJobs,
\* EveryJobSettles): a candidate's jobs go on as long as one of them can.
PipelineFairness ==
  \A c \in Candidates :
    WF_pipelineVars(Apply(c) \/ \E stage \in Stages :
      Attempt(<<c, stage>>) \/ DeadLetter(<<c, stage>>))

PipelineFairSpec == PipelineSpec /\ PipelineFairness

-----------------------------------------------------------------------------
(* Properties.                                                             *)

CandidateStatus == {"ABSENT", "DISCOVERED", "NORMALIZED", "DEDUPED", "ANALYZING",
  "ANALYZED", "ROUTED", "HELD", "SYNTHESIS_QUEUED", "COMPOSED", "PUBLISH_QUEUED",
  "PUBLISHED", "FAILED", "REVIEW_PENDING", "ARCHIVED"}
CompositionStatus == {"ABSENT", "RENDER_QUEUED", "RENDERING", "REVIEW", "APPROVED",
  "REJECTED", "PUBLISH_QUEUED", "PUBLISHED", "FAILED", "ARCHIVED"}

\* The objects keep their shape, and only discovered candidates have jobs.
PipelineTypeOK ==
  /\ outcome \in [Jobs -> {"none", "open", "succeeded", "dead", "cancelled"}]
  /\ candidate \in [Candidates -> CandidateStatus]
  /\ composition \in [Candidates -> CompositionStatus]
  /\ similar \subseteq Candidates \X Candidates
  /\ members \in [{TopicOf[c] : c \in Candidates} -> SUBSET Candidates]
  /\ memberCount \in [{TopicOf[c] : c \in Candidates} -> Nat]
  /\ preparing \in [Jobs -> Nat]
  /\ \A j \in Jobs : outcome[j] # "none" => candidate[j[1]] # "ABSENT"

\* A composition is made of the atoms of its candidate and for the account the
\* candidate was routed to, even when a candidate held by an operator half way
\* through the pipeline is synthesized before its route.
CompositionGrounded ==
  \A c \in Candidates : composition[c] # "ABSENT" =>
    Done(c, "ATOMIZE") /\ Done(c, "ROUTE") /\ outcome[<<c, "COMPOSE">>] = "succeeded"

\* Two candidates of one recording, both fingerprinted, are linked, whichever was
\* first and whatever became of it since (A12 of the acceptance matrix).
SimilarLinked ==
  \A c, d \in Candidates :
    c # d /\ AssetOf[c] = AssetOf[d] /\ Fingerprinted(c) /\ Fingerprinted(d)
      => <<c, d>> \in similar \/ <<d, c>> \in similar

\* Candidates of one topic share a trend that counts each of them once, through
\* the retries of CLUSTER (A13).
TrendCounts ==
  \A t \in DOMAIN members :
    /\ memberCount[t] = Cardinality(members[t])
    /\ members[t] = {c \in Candidates : TopicOf[c] = t /\ Done(c, "CLUSTER")}

\* What is left to a human: to decide on a candidate, or to look at a job that
\* was given up or cancelled.
InHumanHands(c) ==
  \/ candidate[c] \notin {"ABSENT", "DISCOVERED", "NORMALIZED", "DEDUPED",
                          "ANALYZING", "ANALYZED"}
  \/ \E stage \in Stages : outcome[<<c, stage>>] \in {"dead", "cancelled"}

\* A candidate with media never disappears between two stages: it reaches the
\* route, the review or a human who stopped it, whatever its provenance (A26).
NeverDisappears ==
  \A c \in Candidates :
    outcome[<<c, "NORMALIZE">>] = "open" ~> InHumanHands(c)

\* Only a job that is still open starts the analysis of a candidate or the
\* rendering of its composition: what is cancelled is not worked on.
StartsWithAuthority ==
  [][\A c \in Candidates :
       /\ candidate[c] = "DEDUPED" /\ candidate'[c] = "ANALYZING"
            => outcome[<<c, "ANALYZE_VIDEO">>] = "open"
       /\ composition[c] = "RENDER_QUEUED" /\ composition'[c] = "RENDERING"
            => outcome[<<c, "RENDER">>] = "open"]_pipelineVars

\* A candidate queued for synthesis has a job that will compose it.
SynthesisEnqueued ==
  [][\A c \in Candidates :
       candidate[c] # "SYNTHESIS_QUEUED" /\ candidate'[c] = "SYNTHESIS_QUEUED"
         => outcome'[<<c, "COMPOSE">>] = "open"]_pipelineVars

=============================================================================
