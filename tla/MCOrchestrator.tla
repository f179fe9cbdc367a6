---------------------------- MODULE MCOrchestrator ----------------------------
(* Instances of Orchestrator for TLC.                                         *)
EXTENDS Orchestrator, TLC

\* Two PVCs in two clusters: a cross-cluster request with a budget of one retry,
\* and one whose strategy override names no strategy.
CrossCluster ==
  [srcCluster |-> "a", srcPVC |-> "p", dstCluster |-> "b", dstPVC |-> "p",
   allowOverwrite |-> FALSE, override |-> NoOverride, retryMax |-> 1]
BadOverride == [CrossCluster EXCEPT !.override = "ftp", !.retryMax = NoRetryMax]
WithinCluster ==
  [CrossCluster EXCEPT !.dstCluster = "a", !.dstPVC = "q", !.retryMax = 0]
SamePVC == [CrossCluster EXCEPT !.dstCluster = "a", !.allowOverwrite = TRUE]

TwoRetries == [CrossCluster EXCEPT !.retryMax = 2]

AllRequests == {CrossCluster, BadOverride, WithinCluster, SamePVC}

RetriedRequest == {TwoRetries}

HandlerSymmetry == Permutations(Handlers)
=============================================================================
