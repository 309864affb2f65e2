------------------------- MODULE SwarmPipelineProofs -------------------------
(***************************************************************************)
(* That the pipeline keeps its objects in order, for any candidates,       *)
(* recordings, topics and provenances, and any statuses operators write.   *)
(*                                                                         *)
(* The handlers commit with the success of their job, so every argument    *)
(* goes through the ledger: PromiseInv says that the effects of a stage    *)
(* are there exactly once its job has succeeded, and a success stays.      *)
(* Without it a retried CLUSTER could count a candidate twice, and a       *)
(* composition could be made of atoms that are not there.                  *)
(***************************************************************************)
EXTENDS TLAPS, SwarmPipeline, FiniteSetTheorems

Outcomes == {"none", "open", "succeeded", "dead", "cancelled"}

\* The ledger: a job's effects are committed once, with its success.
EffectsOnce == \A j \in Jobs : effects[j] = IF outcome[j] = "succeeded" THEN 1 ELSE 0
PromiseInv == outcome \in [Jobs -> Outcomes] /\ effects \in [Jobs -> Nat] /\ EffectsOnce

\* A trend's members are finitely many, so that they can be counted.
MembersFinite == \A t \in DOMAIN members : IsFiniteSet(members[t])

PipelineInv == PromiseInv /\ PipelineTypeOK /\ CompositionGrounded /\ SimilarLinked
               /\ TrendCounts /\ MembersFinite

-----------------------------------------------------------------------------
(* The ledger's part.                                                      *)

\* A step of the ledger keeps its invariant; a success and its effects stay.
LEMMA PromiseKept ==
  ASSUME PromiseInv, [Next]_vars
  PROVE  /\ PromiseInv'
         /\ \A j \in Jobs : outcome[j] = "succeeded" => outcome'[j] = "succeeded"
         /\ \A j \in Jobs : effects[j] > 0 => effects'[j] > 0
<1> USE DEF PromiseInv, EffectsOnce, Outcomes
<1>1. CASE UNCHANGED vars
  BY <1>1 DEF vars
<1>2. ASSUME NEW j \in Jobs, Submit(j) \/ Try(j) \/ GiveUp(j) \/ Withdraw(j)
      PROVE  /\ PromiseInv'
             /\ \A i \in Jobs : outcome[i] = "succeeded" => outcome'[i] = "succeeded"
             /\ effects' = effects
  BY <1>2 DEF Submit, Try, GiveUp, Withdraw, Settle
<1>3. ASSUME NEW j \in Jobs, NEW next \in SUBSET Jobs, Succeed(j, next)
      PROVE  /\ PromiseInv'
             /\ \A i \in Jobs : outcome[i] = "succeeded" => outcome'[i] = "succeeded"
             /\ \A i \in Jobs : effects[i] > 0 => effects'[i] > 0
  BY <1>3 DEF Succeed
<1> QED BY <1>1, <1>2, <1>3 DEF Next

LEMMA JobOf == ASSUME NEW c \in Candidates, NEW s \in Stages
               PROVE  <<c, s>> \in Jobs
  BY PipelineAssumption

\* What a handler schedules is a set of jobs.
LEMMA FollowingJobs == ASSUME NEW c \in Candidates, NEW s \in Stages
                       PROVE  Following(c, s) \in SUBSET Jobs /\ {} \in SUBSET Jobs
  BY JobOf DEF Following

\* Every step of the pipeline is a step of the ledger, or leaves it alone.
LEMMA StepIsPromised == [PipelineNext]_pipelineVars => [Next]_vars
<1> SUFFICES ASSUME [PipelineNext]_pipelineVars PROVE [Next]_vars
  OBVIOUS
<1>1. CASE UNCHANGED pipelineVars
  BY <1>1 DEF pipelineVars
<1>2. ASSUME NEW c \in Candidates, Apply(c)
      PROVE  Next
  <2>1. \E s \in Stages, next \in SUBSET Jobs : Succeed(<<c, s>>, next)
    BY <1>2, FollowingJobs DEF Apply, Normalize, Deduplicate, AnalyzeVideo, Atomize, Cluster,
       Route, Compose, Render, Stages
  <2> QED BY <2>1, JobOf DEF Next
<1>3. ASSUME NEW c \in Candidates, Command(c) \/ BeginAnalysis(c) \/ BeginRender(c)
      PROVE  Next \/ UNCHANGED vars
  <2>1. UNCHANGED vars \/ \E s \in Stages : Submit(<<c, s>>)
    BY <1>3 DEF Command, Discover, Synthesize, UpdateCandidate, UpdateComposition, BeginAnalysis,
       BeginRender, Begin, Stages
  <2> QED BY <2>1, JobOf DEF Next
<1>4. ASSUME NEW j \in Jobs, Attempt(j) \/ DeadLetter(j) \/ CancelTask(j)
      PROVE  Next
  BY <1>4 DEF Attempt, DeadLetter, CancelTask, Next
<1> QED BY <1>1, <1>2, <1>3, <1>4 DEF PipelineNext

\* The pipeline runs on the ledger that SwarmJobs implements: it asks nothing of it that
\* JobPromise does not give (Worker.execute, apply() inside the closing transaction).
THEOREM PipelinePromised == PipelineSpec => Spec
<1>1. PipelineInit => Init
  BY DEF PipelineInit
<1> QED BY <1>1, StepIsPromised, PTL DEF PipelineSpec, Spec

\* A handler's commit leaves the effects of its stage behind, and of no other.
LEMMA SucceedDone ==
  ASSUME PromiseInv, NEW c \in Candidates, NEW s \in Stages, NEW next, Succeed(<<c, s>>, next)
  PROVE  /\ ~Done(c, s) /\ Done(c, s)'
         /\ \A d \in Candidates, r \in Stages : Done(d, r)' <=> Done(d, r) \/ (d = c /\ r = s)
<1>1. <<c, s>> \in Jobs /\ \A d \in Candidates, r \in Stages : <<d, r>> \in Jobs
  BY JobOf
<1>2. effects' = [effects EXCEPT ![<<c, s>>] = @ + 1] /\ effects[<<c, s>>] = 0
  BY <1>1 DEF Succeed, PromiseInv, EffectsOnce
<1> QED BY <1>1, <1>2 DEF Done, PromiseInv

\* No step but a handler's commit adds effects.
LEMMA SameDone ==
  ASSUME effects' = effects
  PROVE  \A d \in Candidates, r \in Stages : Done(d, r)' <=> Done(d, r)
  BY DEF Done

-----------------------------------------------------------------------------
(* The statuses.                                                           *)

LEMMA CandidateMoves ==
  ASSUME candidate \in [Candidates -> CandidateStatus], NEW c \in Candidates, NEW s,
         MoveCandidate(c, s)
  PROVE  /\ candidate' \in [Candidates -> CandidateStatus]
         /\ \A d \in Candidates : candidate[d] # "ABSENT" => candidate'[d] # "ABSENT"
<1>1. \A a, b : <<a, b>> \in CandidateTransitions => b \in CandidateStatus \ {"ABSENT"}
  BY DEF CandidateTransitions, CandidateStatus
<1> QED BY <1>1 DEF MoveCandidate

LEMMA CompositionMoves ==
  ASSUME composition \in [Candidates -> CompositionStatus], NEW c \in Candidates, NEW s,
         MoveComposition(c, s)
  PROVE  /\ composition' \in [Candidates -> CompositionStatus]
         /\ \A d \in Candidates : composition[d] = "ABSENT" => composition'[d] = "ABSENT"
<1>1. \A a, b : <<a, b>> \in CompositionTransitions => a # "ABSENT" /\ b \in CompositionStatus
  BY DEF CompositionTransitions, CompositionStatus
<1> QED BY <1>1 DEF MoveComposition

-----------------------------------------------------------------------------
(* The invariants.                                                         *)

LEMMA PipelineInitInv == PipelineInit => PipelineInv
<1> SUFFICES ASSUME PipelineInit PROVE PipelineInv
  OBVIOUS
<1>1. PromiseInv
  BY DEF PipelineInit, Init, PromiseInv, EffectsOnce, Outcomes
<1>2. ASSUME NEW c \in Candidates, NEW s \in Stages
      PROVE  ~Done(c, s)
  <2>1. effects[<<c, s>>] = 0
    BY JobOf DEF PipelineInit, Init
  <2> QED BY <2>1 DEF Done
<1>3. PipelineTypeOK
  BY <1>1 DEF PromiseInv, Outcomes, PipelineInit, Init, PipelineTypeOK, CandidateStatus,
              CompositionStatus
<1>4. CompositionGrounded /\ SimilarLinked
  BY <1>2 DEF PipelineInit, CompositionGrounded, SimilarLinked, Fingerprinted, Stages
<1>5. TrendCounts /\ MembersFinite
  BY <1>2, FS_EmptySet DEF PipelineInit, TrendCounts, MembersFinite, Stages
<1> QED BY <1>1, <1>3, <1>4, <1>5 DEF PipelineInv

\* What stays is grounded, linked and counted.
LEMMA OthersStay ==
  ASSUME PipelineInv, [Next]_vars, PipelineTypeOK',
         effects' = effects \/ \E c \in Candidates, s \in Stages :
             /\ s \notin {"DEDUPLICATE", "CLUSTER"}
             /\ \E next : Succeed(<<c, s>>, next),
         \A c \in Candidates : composition[c] = "ABSENT" => composition'[c] = "ABSENT",
         UNCHANGED <<similar, members, memberCount>>
  PROVE  PipelineInv'
<1>1. PromiseInv' /\ \A j \in Jobs : outcome[j] = "succeeded" => outcome'[j] = "succeeded"
  BY PromiseKept DEF PipelineInv
<1>2. /\ \A c \in Candidates, s \in Stages : Done(c, s) => Done(c, s)'
      /\ \A c \in Candidates : Done(c, "DEDUPLICATE")' <=> Done(c, "DEDUPLICATE")
      /\ \A c \in Candidates : Done(c, "CLUSTER")' <=> Done(c, "CLUSTER")
  <2>1. CASE effects' = effects
    BY <2>1, SameDone DEF Stages
  <2>2. ASSUME NEW c \in Candidates, NEW s \in Stages \ {"DEDUPLICATE", "CLUSTER"}, NEW next,
               Succeed(<<c, s>>, next)
        PROVE  \A d \in Candidates, r \in Stages : Done(d, r)' <=> Done(d, r) \/ (d = c /\ r = s)
    BY <2>2, SucceedDone DEF PipelineInv
  <2> QED BY <2>1, <2>2 DEF Stages
<1>3. CompositionGrounded'
  BY <1>1, <1>2, JobOf DEF PipelineInv, CompositionGrounded, Stages
<1>4. SimilarLinked'
  BY <1>2 DEF PipelineInv, SimilarLinked, Fingerprinted
<1>5. TrendCounts' /\ MembersFinite'
  BY <1>2 DEF PipelineInv, TrendCounts, MembersFinite
<1> QED BY <1>1, <1>3, <1>4, <1>5 DEF PipelineInv

\* Only candidates that were discovered have open jobs.
LEMMA OpenJobs ==
  ASSUME PipelineTypeOK, NEW c \in Candidates, NEW s \in Stages, outcome[<<c, s>>] # "none"
  PROVE  candidate[c] # "ABSENT"
<1>1. <<c, s>> \in Jobs /\ <<c, s>>[1] = c
  BY JobOf
<1> QED BY <1>1 DEF PipelineTypeOK

\* Jobs are added for candidates that are there.
LEMMA JobsKept ==
  ASSUME PipelineTypeOK, NEW c \in Candidates, outcome' \in [Jobs -> Outcomes],
         \A d \in Candidates, s \in Stages :
           outcome'[<<d, s>>] # "none" => outcome[<<d, s>>] # "none" \/ d = c,
         \A d \in Candidates : candidate[d] # "ABSENT" => candidate'[d] # "ABSENT",
         candidate'[c] # "ABSENT"
  PROVE  \A j \in Jobs : outcome'[j] # "none" => candidate'[j[1]] # "ABSENT"
<1> SUFFICES ASSUME NEW d \in Candidates, NEW s \in Stages, outcome'[<<d, s>>] # "none"
             PROVE  candidate'[d] # "ABSENT"
  BY PipelineAssumption
<1> QED BY OpenJobs

\* A handler that schedules the next stage of its candidate.
LEMMA HandlerTypes ==
  ASSUME PipelineInv, NEW c \in Candidates, NEW s \in Stages, NEW next \in SUBSET Jobs,
         next = {} \/ \E r \in Stages : next = Following(c, r),
         Succeed(<<c, s>>, next),
         candidate' \in [Candidates -> CandidateStatus],
         \A d \in Candidates : candidate[d] # "ABSENT" => candidate'[d] # "ABSENT"
  PROVE  /\ outcome' \in [Jobs -> Outcomes]
         /\ \A j \in Jobs : outcome'[j] # "none" => candidate'[j[1]] # "ABSENT"
<1>1. [Next]_vars
  BY JobOf DEF Next
<1>2. outcome' \in [Jobs -> Outcomes]
  BY <1>1, PromiseKept DEF PipelineInv, PromiseInv
<1>3. outcome[<<c, s>>] # "none"
  BY DEF Succeed
<1>4. candidate'[c] # "ABSENT"
  BY <1>3, OpenJobs DEF PipelineInv
<1>5. \A d \in Candidates, r \in Stages :
        outcome'[<<d, r>>] # "none" => outcome[<<d, r>>] # "none" \/ d = c
  BY JobOf DEF Succeed, Following
<1> QED BY <1>2, <1>4, <1>5, JobsKept DEF PipelineInv

LEMMA HandlersKeep ==
  ASSUME PipelineInv, NEW c \in Candidates,
         Normalize(c) \/ AnalyzeVideo(c) \/ Atomize(c) \/ Route(c) \/ Render(c)
  PROVE  PipelineInv'
<1>1. [Next]_vars
  BY StepIsPromised DEF PipelineNext, Apply
<1>2. PICK s \in Stages \ {"DEDUPLICATE", "CLUSTER"}, next \in SUBSET Jobs :
        Succeed(<<c, s>>, next) /\ (next = {} \/ \E r \in Stages : next = Following(c, r))
  BY FollowingJobs DEF Normalize, AnalyzeVideo, Atomize, Route, Render, Stages
<1>3. /\ candidate' \in [Candidates -> CandidateStatus]
      /\ \A d \in Candidates : candidate[d] # "ABSENT" => candidate'[d] # "ABSENT"
  <2>1. candidate \in [Candidates -> CandidateStatus]
    BY DEF PipelineInv, PipelineTypeOK
  <2>2. CASE Normalize(c) \/ AnalyzeVideo(c)
    BY <2>1, <2>2, CandidateMoves DEF Normalize, AnalyzeVideo
  <2>3. CASE Atomize(c) \/ Render(c)
    BY <2>1, <2>3 DEF Atomize, Render, ontology
  <2>4. CASE Route(c)
    BY <2>1, <2>4 DEF Route, CandidateStatus
  <2> QED BY <2>2, <2>3, <2>4
<1>4. /\ composition' \in [Candidates -> CompositionStatus]
      /\ \A d \in Candidates : composition[d] = "ABSENT" => composition'[d] = "ABSENT"
  <2>1. composition \in [Candidates -> CompositionStatus]
    BY DEF PipelineInv, PipelineTypeOK
  <2>2. CASE Render(c)
    BY <2>1, <2>2, CompositionMoves DEF Render
  <2>3. CASE ~Render(c)
    BY <2>1, <2>3 DEF Normalize, AnalyzeVideo, Atomize, Route, ontology
  <2> QED BY <2>2, <2>3
<1>5. UNCHANGED <<similar, members, memberCount, preparing>>
  BY DEF Normalize, AnalyzeVideo, Atomize, Route, Render, ontology
<1>6. PipelineTypeOK'
  BY <1>2, <1>3, <1>4, <1>5, HandlerTypes DEF PipelineInv, PipelineTypeOK, Outcomes
<1> QED BY <1>1, <1>2, <1>4, <1>5, <1>6, OthersStay

\* The composition is made when the effects of its stages are there.
LEMMA ComposeKeeps ==
  ASSUME PipelineInv, NEW c \in Candidates, Compose(c)
  PROVE  PipelineInv'
<1>1. [Next]_vars
  BY StepIsPromised DEF PipelineNext, Apply
<1>2. PromiseInv' /\ \A j \in Jobs : outcome[j] = "succeeded" => outcome'[j] = "succeeded"
  BY <1>1, PromiseKept DEF PipelineInv
<1>3. /\ Succeed(<<c, "COMPOSE">>, Following(c, "RENDER"))
      /\ Following(c, "RENDER") \in SUBSET Jobs
      /\ UNCHANGED <<similar, members, memberCount, preparing>>
  BY FollowingJobs DEF Compose, Stages
<1>4. /\ candidate' \in [Candidates -> CandidateStatus]
      /\ \A d \in Candidates : candidate[d] # "ABSENT" => candidate'[d] # "ABSENT"
      /\ composition' \in [Candidates -> CompositionStatus]
  BY CandidateMoves DEF Compose, PipelineInv, PipelineTypeOK, CompositionStatus
<1>5. PipelineTypeOK'
  BY <1>3, <1>4, HandlerTypes DEF PipelineInv, PipelineTypeOK, Outcomes, Stages
<1>6. \A d \in Candidates, r \in Stages :
        Done(d, r)' <=> Done(d, r) \/ (d = c /\ r = "COMPOSE")
  BY <1>3, SucceedDone DEF PipelineInv, Stages
<1>7. CompositionGrounded'
  <2>1. outcome'[<<c, "COMPOSE">>] = "succeeded"
    BY <1>3, JobOf DEF Succeed, Following, Stages
  <2>2. Done(c, "ATOMIZE")' /\ Done(c, "ROUTE")'
    BY <1>6 DEF Compose, Composable, Stages
  <2>3. \A d \in Candidates \ {c} : composition'[d] = composition[d]
    BY DEF Compose, PipelineInv, PipelineTypeOK
  <2> QED BY <1>2, <1>6, <2>1, <2>2, <2>3, JobOf DEF PipelineInv, CompositionGrounded, Stages
<1>8. SimilarLinked' /\ TrendCounts' /\ MembersFinite'
  BY <1>3, <1>6 DEF PipelineInv, SimilarLinked, Fingerprinted, TrendCounts, MembersFinite, Stages
<1> QED BY <1>2, <1>5, <1>7, <1>8 DEF PipelineInv

\* Whichever of two copies is fingerprinted second finds the first.
LEMMA DeduplicateKeeps ==
  ASSUME PipelineInv, NEW c \in Candidates, Deduplicate(c)
  PROVE  PipelineInv'
<1>1. [Next]_vars
  BY StepIsPromised DEF PipelineNext, Apply
<1>2. PromiseInv' /\ \A j \in Jobs : outcome[j] = "succeeded" => outcome'[j] = "succeeded"
  BY <1>1, PromiseKept DEF PipelineInv
<1>3. /\ Succeed(<<c, "DEDUPLICATE">>, Following(c, "ANALYZE_VIDEO"))
      /\ Following(c, "ANALYZE_VIDEO") \in SUBSET Jobs
      /\ UNCHANGED <<composition, members, memberCount, preparing>>
  BY FollowingJobs DEF Deduplicate, Stages
<1>4. /\ candidate' \in [Candidates -> CandidateStatus]
      /\ \A d \in Candidates : candidate[d] # "ABSENT" => candidate'[d] # "ABSENT"
  BY CandidateMoves DEF Deduplicate, PipelineInv, PipelineTypeOK
<1>5. similar' \subseteq Candidates \X Candidates
  BY DEF Deduplicate, PipelineInv, PipelineTypeOK
<1>6. PipelineTypeOK'
  BY <1>3, <1>4, <1>5, HandlerTypes DEF PipelineInv, PipelineTypeOK, Outcomes, Stages
<1>7. \A d \in Candidates, r \in Stages :
        Done(d, r)' <=> Done(d, r) \/ (d = c /\ r = "DEDUPLICATE")
  BY <1>3, SucceedDone DEF PipelineInv, Stages
<1>8. SimilarLinked'
  <2>1. \A d \in Candidates \ {c} : Fingerprinted(d) /\ AssetOf[d] = AssetOf[c] => <<c, d>> \in similar'
    BY DEF Deduplicate, Comparable
  <2>2. similar \subseteq similar'
    BY DEF Deduplicate
  <2>3. \A d \in Candidates : Fingerprinted(d)' <=> Fingerprinted(d) \/ d = c
    BY <1>7 DEF Fingerprinted, Stages
  <2> QED BY <2>1, <2>2, <2>3 DEF PipelineInv, SimilarLinked
<1>9. CompositionGrounded' /\ TrendCounts' /\ MembersFinite'
  BY <1>2, <1>3, <1>7, JobOf DEF PipelineInv, CompositionGrounded, TrendCounts, MembersFinite, Stages
<1> QED BY <1>2, <1>6, <1>8, <1>9 DEF PipelineInv

\* The trend's count goes up with a member it did not have.
LEMMA ClusterKeeps ==
  ASSUME PipelineInv, NEW c \in Candidates, Cluster(c)
  PROVE  PipelineInv'
<1> DEFINE t == TopicOf[c]
<1>1. [Next]_vars
  BY StepIsPromised DEF PipelineNext, Apply
<1>2. PromiseInv' /\ \A j \in Jobs : outcome[j] = "succeeded" => outcome'[j] = "succeeded"
  BY <1>1, PromiseKept DEF PipelineInv
<1>3. /\ Succeed(<<c, "CLUSTER">>, Following(c, "ROUTE"))
      /\ Following(c, "ROUTE") \in SUBSET Jobs
      /\ members' = [members EXCEPT ![t] = @ \cup {c}]
      /\ memberCount' = [memberCount EXCEPT ![t] = @ + 1]
      /\ UNCHANGED <<candidate, composition, similar, preparing>>
  BY FollowingJobs DEF Cluster, CountBefore, Stages
<1>4. t \in DOMAIN members /\ t \in DOMAIN memberCount /\ DOMAIN members' = DOMAIN members
  BY <1>3 DEF PipelineInv, PipelineTypeOK
<1>5. PipelineTypeOK'
  <2>1. /\ members' \in [{TopicOf[d] : d \in Candidates} -> SUBSET Candidates]
        /\ memberCount' \in [{TopicOf[d] : d \in Candidates} -> Nat]
    <3>1. members[t] \cup {c} \subseteq Candidates /\ memberCount[t] + 1 \in Nat
      BY <1>4 DEF PipelineInv, PipelineTypeOK
    <3> QED BY <1>3, <3>1 DEF PipelineInv, PipelineTypeOK
  <2>2. candidate' \in [Candidates -> CandidateStatus]
    BY <1>3 DEF PipelineInv, PipelineTypeOK
  <2> HIDE DEF t
  <2>3. /\ outcome' \in [Jobs -> Outcomes]
        /\ \A j \in Jobs : outcome'[j] # "none" => candidate'[j[1]] # "ABSENT"
    BY <1>3, <2>2, HandlerTypes DEF Stages
  <2> QED BY <1>3, <2>1, <2>2, <2>3 DEF PipelineInv, PipelineTypeOK, Outcomes
<1> HIDE DEF t
<1>6. /\ ~Done(c, "CLUSTER")
      /\ \A d \in Candidates, r \in Stages :
           Done(d, r)' <=> Done(d, r) \/ (d = c /\ r = "CLUSTER")
  <2>1. "CLUSTER" \in Stages /\ PromiseInv /\ Succeed(<<c, "CLUSTER">>, Following(c, "ROUTE"))
    BY <1>3 DEF PipelineInv, Stages
  <2> QED BY <2>1, SucceedDone
<1>7. c \notin members[t] /\ IsFiniteSet(members[t]) /\ memberCount[t] = Cardinality(members[t])
  BY <1>4, <1>6 DEF PipelineInv, TrendCounts, MembersFinite
<1>8. /\ IsFiniteSet(members[t] \cup {c})
      /\ Cardinality(members[t] \cup {c}) = Cardinality(members[t]) + 1
  BY <1>7, FS_AddElement
<1>9. \A u \in DOMAIN members \ {t} : members'[u] = members[u] /\ memberCount'[u] = memberCount[u]
  BY <1>3 DEF PipelineInv, PipelineTypeOK
<1>10. members'[t] = members[t] \cup {c} /\ memberCount'[t] = memberCount[t] + 1
  BY <1>3, <1>4
<1>11. TrendCounts' /\ MembersFinite'
  <2>1. "CLUSTER" \in Stages
    BY DEF Stages
  <2>2. members'[t] = {d \in Candidates : TopicOf[d] = t /\ Done(d, "CLUSTER")'}
    BY <1>4, <1>6, <1>10, <2>1 DEF t, PipelineInv, TrendCounts
  <2>3. \A u \in DOMAIN members \ {t} :
          members'[u] = {d \in Candidates : TopicOf[d] = u /\ Done(d, "CLUSTER")'}
    BY <1>4, <1>6, <1>9, <2>1 DEF t, PipelineInv, TrendCounts
  <2>4. \A u \in DOMAIN members : memberCount'[u] = Cardinality(members'[u])
    BY <1>7, <1>8, <1>9, <1>10 DEF PipelineInv, TrendCounts
  <2>5. \A u \in DOMAIN members : IsFiniteSet(members'[u])
    BY <1>8, <1>9, <1>10 DEF PipelineInv, MembersFinite
  <2> QED BY <1>4, <2>2, <2>3, <2>4, <2>5 DEF TrendCounts, MembersFinite
<1>12. CompositionGrounded' /\ SimilarLinked'
  BY <1>2, <1>3, <1>6, JobOf DEF PipelineInv, CompositionGrounded, SimilarLinked, Fingerprinted, Stages
<1> QED BY <1>2, <1>5, <1>11, <1>12 DEF PipelineInv

\* The commands, the announcements of prepare() and the ledger's own steps.
LEMMA CommandsKeep ==
  ASSUME PipelineInv, NEW c \in Candidates, Command(c) \/ BeginAnalysis(c) \/ BeginRender(c)
  PROVE  PipelineInv'
<1>1. [Next]_vars
  BY StepIsPromised DEF PipelineNext
<1>2. outcome' \in [Jobs -> Outcomes]
  BY <1>1, PromiseKept DEF PipelineInv, PromiseInv
<1>3. /\ effects' = effects /\ UNCHANGED <<similar, members, memberCount>>
      /\ \/ UNCHANGED vars
         \/ (Discover(c) \/ Synthesize(c)) /\ \E s \in Stages : Submit(<<c, s>>)
  BY DEF Command, Discover, Synthesize, UpdateCandidate, UpdateComposition, BeginAnalysis,
         BeginRender, Begin, Submit, vars, Stages
<1>4. /\ candidate' \in [Candidates -> CandidateStatus]
      /\ \A d \in Candidates : candidate[d] # "ABSENT" => candidate'[d] # "ABSENT"
  <2>1. candidate \in [Candidates -> CandidateStatus]
    BY DEF PipelineInv, PipelineTypeOK
  <2>2. CASE Discover(c) \/ Synthesize(c)
    BY <2>1, <2>2 DEF Discover, Synthesize, CandidateStatus
  <2>3. ASSUME NEW s, UpdateCandidate(c, s)
        PROVE  <1>4!1 /\ <1>4!2
    BY <2>1, <2>3, CandidateMoves DEF UpdateCandidate
  <2>4. CASE BeginAnalysis(c)
    BY <2>1, <2>4 DEF BeginAnalysis, CandidateStatus
  <2>5. ASSUME NEW s, UpdateComposition(c, s)
        PROVE  <1>4!1 /\ <1>4!2
    BY <2>1, <2>5 DEF UpdateComposition
  <2>6. CASE BeginRender(c)
    BY <2>1, <2>6 DEF BeginRender
  <2> QED BY <2>2, <2>3, <2>4, <2>5, <2>6 DEF Command
<1>5. \A j \in Jobs : outcome'[j] # "none" => candidate'[j[1]] # "ABSENT"
  <2>1. CASE UNCHANGED vars
    BY <1>4, <2>1, PipelineAssumption DEF vars, PipelineInv, PipelineTypeOK
  <2>2. CASE (Discover(c) \/ Synthesize(c)) /\ \E s \in Stages : Submit(<<c, s>>)
    <3>1. candidate'[c] # "ABSENT"
      BY <2>2 DEF Discover, Synthesize, PipelineInv, PipelineTypeOK
    <3>2. \A d \in Candidates, s \in Stages :
            outcome'[<<d, s>>] # "none" => outcome[<<d, s>>] # "none" \/ d = c
      BY <2>2, JobOf DEF Submit, Settle, PipelineInv, PipelineTypeOK
    <3> QED BY <1>2, <1>4, <3>1, <3>2, JobsKept DEF PipelineInv
  <2> QED BY <1>3, <2>1, <2>2
<1>6. /\ composition' \in [Candidates -> CompositionStatus]
      /\ \A d \in Candidates : composition[d] = "ABSENT" => composition'[d] = "ABSENT"
  <2>1. composition \in [Candidates -> CompositionStatus]
    BY DEF PipelineInv, PipelineTypeOK
  <2>2. ASSUME NEW s, UpdateComposition(c, s)
        PROVE  <1>6!1 /\ <1>6!2
    BY <2>1, <2>2, CompositionMoves DEF UpdateComposition
  <2>3. CASE BeginRender(c)
    BY <2>1, <2>3 DEF BeginRender, CompositionStatus
  <2>4. CASE UNCHANGED composition
    BY <2>1, <2>4
  <2> QED BY <2>2, <2>3, <2>4 DEF Command, Discover, Synthesize, UpdateCandidate, BeginAnalysis
<1>7. preparing' \in [Jobs -> Nat]
  <2>1. preparing \in [Jobs -> Nat]
    BY DEF PipelineInv, PipelineTypeOK
  <2>2. ASSUME NEW j \in Jobs, Begin(j)
        PROVE  preparing' \in [Jobs -> Nat]
    BY <2>1, <2>2 DEF Begin
  <2> QED BY <2>1, <2>2, JobOf DEF Command, Discover, Synthesize, UpdateCandidate,
          UpdateComposition, BeginAnalysis, BeginRender, Stages
<1>8. PipelineTypeOK'
  BY <1>2, <1>3, <1>4, <1>5, <1>6, <1>7 DEF PipelineInv, PipelineTypeOK, Outcomes
<1> QED BY <1>1, <1>3, <1>6, <1>8, OthersStay

\* Tries, dead letters and cancelled tasks.
LEMMA LedgerKeeps ==
  ASSUME PipelineInv, NEW j \in Jobs, Attempt(j) \/ DeadLetter(j) \/ CancelTask(j)
  PROVE  PipelineInv'
<1>1. [Next]_vars
  BY StepIsPromised DEF PipelineNext
<1>2. outcome' \in [Jobs -> Outcomes]
  BY <1>1, PromiseKept DEF PipelineInv, PromiseInv
<1>3. effects' = effects /\ UNCHANGED ontology
  BY DEF Attempt, DeadLetter, CancelTask, Try, GiveUp, Withdraw
<1>4. \A i \in Jobs : outcome'[i] # "none" => outcome[i] # "none"
  BY DEF Attempt, DeadLetter, CancelTask, Try, GiveUp, Withdraw, Settle, PipelineInv, PipelineTypeOK
<1>5. preparing' \in [Jobs -> Nat]
  <2>1. preparing \in [Jobs -> Nat]
    BY DEF PipelineInv, PipelineTypeOK
  <2>2. \A i \in Jobs : [preparing EXCEPT ![i] = @ + 1] \in [Jobs -> Nat]
    BY <2>1
  <2> QED BY <2>1, <2>2 DEF Attempt, DeadLetter, CancelTask
<1>6. PipelineTypeOK'
  BY <1>2, <1>3, <1>4, <1>5 DEF PipelineInv, PipelineTypeOK, Outcomes, ontology
<1> QED BY <1>1, <1>3, <1>6, OthersStay DEF ontology

LEMMA PipelineInductive == PipelineInv /\ [PipelineNext]_pipelineVars => PipelineInv'
<1> SUFFICES ASSUME PipelineInv, [PipelineNext]_pipelineVars PROVE PipelineInv'
  OBVIOUS
<1>1. CASE UNCHANGED pipelineVars
  <2>1. UNCHANGED <<vars, outcome, effects, ontology, preparing>>
    BY <1>1 DEF pipelineVars, vars
  <2>2. PipelineTypeOK'
    BY <2>1 DEF PipelineInv, PipelineTypeOK, ontology
  <2> QED BY <2>1, <2>2, OthersStay DEF ontology
<1>2. CASE PipelineNext
  BY <1>2, HandlersKeep, ComposeKeeps, DeduplicateKeeps, ClusterKeeps, CommandsKeep, LedgerKeeps
     DEF PipelineNext, Apply
<1> QED BY <1>1, <1>2

\* Everything above holds in every state the pipeline reaches.
THEOREM PipelineSafe == PipelineSpec => []PipelineInv
  BY PipelineInitInv, PipelineInductive, PTL DEF PipelineSpec

\* The objects keep their shape, and only discovered candidates have jobs.
THEOREM PipelineTypes == PipelineSpec => []PipelineTypeOK
<1>1. PipelineInv => PipelineTypeOK
  BY DEF PipelineInv
<1> QED BY <1>1, PipelineSafe, PTL

\* A composition has its atoms, its account and a job that succeeded, for any route an
\* operator sends its candidate (the COMPOSE handler of Worker.apply).
THEOREM CompositionsGrounded == PipelineSpec => []CompositionGrounded
<1>1. PipelineInv => CompositionGrounded
  BY DEF PipelineInv
<1> QED BY <1>1, PipelineSafe, PTL

\* Two fingerprinted copies of one recording are linked, for any number of candidates
\* (the DEDUPLICATE handler of Worker.apply).
THEOREM CopiesLinked == PipelineSpec => []SimilarLinked
<1>1. PipelineInv => SimilarLinked
  BY DEF PipelineInv
<1> QED BY <1>1, PipelineSafe, PTL

\* A trend counts each of its members once, through retries, for any number of topics
\* (the CLUSTER handler of Worker.apply).
THEOREM TrendsCount == PipelineSpec => []TrendCounts
<1>1. PipelineInv => TrendCounts
  BY DEF PipelineInv
<1> QED BY <1>1, PipelineSafe, PTL
=============================================================================
