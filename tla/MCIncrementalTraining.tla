----------------------- MODULE MCIncrementalTraining -----------------------
(* IncrementalTraining for TLC: the graph of a featurizer that is trained    *)
(* and run, and of a classifier trained on what it gives.                   *)
EXTENDS IncrementalTraining

MCOrder == <<"data", "train_featurizer", "run_featurizer", "train_classifier">>
MCNeeds ==
  [n \in ToSet(MCOrder) |->
     CASE n = "data" -> {}
       [] n = "train_featurizer" -> {"data"}
       [] n = "run_featurizer" -> {"data", "train_featurizer"}
       [] n = "train_classifier" -> {"run_featurizer"}]

\* The graph as it was, and with the data or the classifier's
\* configuration changed.
MCVersions ==
  {[n \in ToSet(MCOrder) |-> 0]}
    \union {[[n \in ToSet(MCOrder) |-> 0] EXCEPT ![edited] = 1] : edited \in {"data", "train_classifier"}}

=============================================================================
