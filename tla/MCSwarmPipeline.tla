--------------------------- MODULE MCSwarmPipeline ----------------------------
(* Small instances of SwarmPipeline for TLC.                                   *)
EXTENDS SwarmPipeline, TLC

CONSTANTS c1, c2

MCJobs == Candidates \X Stages
MCMaxAttempts == [j \in Jobs |-> 1]

\* Two copies of one recording, found under one topic.
MCAssetOf == [c \in Candidates |-> "recording"]
MCTopicOf == [c \in Candidates |-> "nature"]

=============================================================================
