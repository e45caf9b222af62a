------------------------- MODULE IncrementalTraining -------------------------
(***************************************************************************)
(* Training with a cache: rasa/engine/training/graph_trainer.py, hooks.py   *)
(* and components.py over rasa/engine/caching.py.  A training first runs    *)
(* the graph with fingerprints alone, to see which nodes were run before    *)
(* with the same configuration and inputs; then it prunes the nodes whose   *)
(* results the cache can restore, and all that only they need; then it runs *)
(* what is left and caches it.  The cache drops what was used least         *)
(* recently, and is shared by trainings that overlap.                       *)
(*                                                                         *)
(* What a node gives is the record of how it came about; a fingerprint is   *)
(* the record itself.  Every cached result has the size of one unit, unless *)
(* it is too large for the cache.                                           *)
(***************************************************************************)
EXTENDS Naturals, FiniteSets, Sequences, FiniteSetsExt, SequencesExt

CONSTANTS
  Order,         \* the nodes of the training graph, parents first
  Needs,         \* per node, its parents
  Inputs,        \* the nodes that read the training data
  Targets,       \* the nodes that persist a part of the model
  Cacheable,     \* the nodes whose output is a Cacheable
  Fresh,         \* the nodes whose output has a fingerprint of its own: a Resource
  Random,        \* those whose output differs from run to run
  TooLarge,      \* those whose output exceeds the cache
  Versions,      \* what is trained: per node, its configuration or its data
  Capacity,      \* COMPONENTS_CACHE_SIZE of a cache that is not disabled
  MaxTrainings,  \* a bound on the trainings; an overlap counts as one more
  MaxFaults      \* a bound on the faults of the cache

Nodes == ToSet(Order)
Jobs == 1 .. MaxTrainings

ASSUME GraphAssumption ==
  /\ Order \in Seq(Nodes) /\ \A i, k \in DOMAIN Order : Order[i] = Order[k] => i = k
  /\ Needs \in [Nodes -> SUBSET Nodes]
  /\ \A i \in DOMAIN Order : Needs[Order[i]] \subseteq {Order[j] : j \in 1 .. i - 1}
  /\ Inputs \subseteq Nodes /\ \A n \in Inputs : Needs[n] = {}
  /\ Targets \subseteq Nodes /\ TooLarge \subseteq Cacheable /\ Cacheable \subseteq Nodes
  /\ Random \subseteq Fresh /\ Fresh \subseteq Cacheable \ Inputs
  /\ Targets \ Inputs \subseteq Cacheable
  /\ Versions \subseteq [Nodes -> Nat]
  /\ Capacity \in Nat \ {0} /\ {MaxTrainings, MaxFaults} \subseteq Nat

VARIABLES
  cache,     \* the cache entries, the least recently used first
  orphans,   \* results on disk that no entry refers to
  jobs,      \* the trainings
  faults,    \* the faults so far
  causes     \* history: what may have disturbed the cache

trainingVars == <<cache, orphans, jobs, faults, causes>>

-----------------------------------------------------------------------------
(* Outputs.                                                                 *)

NoOutput == [content |-> [node |-> "none"], made_of |-> {}, run |-> 0]

\* What a node gives.  Its content is how it came about: the node's
\* configuration or data, what went in and, if the node differs from run to
\* run, the run; made_of are this and the contents that went in.  Outputs are
\* told apart by content, and a Resource also by the run that made it.
Output(n, setting, inputs, run) ==
  LET content == [node |-> n, setting |-> setting,
                  inputs |-> [p \in Needs[n] |-> inputs[p].content],
                  run |-> IF n \in Random THEN run ELSE 0]
  IN  [content |-> content,
       made_of |-> {content} \union UNION {inputs[p].made_of : p \in Needs[n]},
       run |-> IF n \in Fresh THEN run ELSE 0]

\* Mistaken calculate_fingerprint_key: leaves out the configuration.
Key_InputsOnly(n, setting, inputs) == [node |-> n, setting |-> 0, inputs |-> inputs]

\* calculate_fingerprint_key, of the component's class, configuration and
\* inputs.  The node stands for its class: where two nodes of a graph have all
\* three in common, the code takes the one for the other.
Key(n, setting, inputs) == [node |-> n, setting |-> setting, inputs |-> inputs]

-----------------------------------------------------------------------------
(* LocalTrainingCache                                                       *)

Entries == ToSet(cache)
WithKey(entries, key) == {e \in ToSet(entries) : e.key = key}
InUse(entries, left) == Cardinality({e \in ToSet(entries) : e.stored}) + left

\* Mistaken _cache_output_to_disk: the size of the output left out.
MadeRoom_Full(entries, left) ==
  IF InUse(entries, left) =< Capacity THEN [entries |-> entries, left |-> left]
  ELSE [entries |-> Tail(entries), left |-> left]

\* _drop_least_recently_used_item, until a result of one unit fits: entries
\* go in the order of their use, and at last all that lies in the directory.
MadeRoom(entries, left) ==
  LET Fits(i) == InUse(SubSeq(entries, i, Len(entries)), left) + 1 =< Capacity
      fitting == {i \in 1 .. Len(entries) + 1 : Fits(i)}
  IN  IF fitting = {} THEN [entries |-> <<>>, left |-> 0]
      ELSE [entries |-> SubSeq(entries, Min(fitting), Len(entries)), left |-> left]

\* session.merge: the key is the primary key; an entry of the same key is
\* overwritten, and its result stays on disk.
Merged(entries, entry) ==
  LET same == {i \in DOMAIN entries : entries[i].key = entry.key}
  IN  Append(IF same = {} THEN entries ELSE RemoveAt(entries, Min(same)), entry)

\* Mistaken _get_cached_result: the condition on result_location reversed.
Restorable_Unstored(output) == \E e \in Entries : e.output = output /\ ~e.stored

\* get_cached_result: by the fingerprint of the output.
Restorable(output) == \E e \in Entries : e.output = output /\ e.stored

\* History: an entry has outlived that of what it was made of, which a node
\* that gives the same from run to run may give again.
Parted(entries) ==
  \E e \in ToSet(entries) :
    \E p \in Needs[e.key.node] \ (Inputs \union Random) :
      \A d \in ToSet(entries) : d.output # e.key.inputs[p]

-----------------------------------------------------------------------------
(* A training.                                                              *)

NoJob == [phase |-> "none", at |-> 0,
          version |-> [n \in Nodes |-> 0],
          print |-> [n \in Nodes |-> NoOutput], hits |-> {}, needed |-> {},
          value |-> [n \in Nodes |-> NoOutput], relost |-> FALSE]

Running == {j \in Jobs : jobs[j].phase \notin {"none", "done", "died"}}
At(j, phase) == jobs[j].phase = phase /\ jobs[j].at \in DOMAIN Order
Node(j) == Order[jobs[j].at]
InputsOf(n, outputs) == [p \in Needs[n] |-> outputs[p]]

\* Mistaken: a restored result does not stand in for the run of its node.
ToRun_Again(job, i) ==
  LET left == {k \in i + 1 .. Len(Order) : Order[k] \in job.needed \ Inputs}
  IN  [job EXCEPT !.phase = "run", !.at = Min(left \union {Len(Order) + 1})]

\* The next node to run after the one at i: one that is in the pruned graph
\* and has no value yet.
ToRun(job, i) ==
  LET left == {k \in i + 1 .. Len(Order) : Order[k] \in job.needed /\ job.value[Order[k]] = NoOutput}
  IN  [job EXCEPT !.phase = "run", !.at = Min(left \union {Len(Order) + 1})]

TrainingInit ==
  /\ cache = <<>> /\ orphans = 0
  /\ jobs = [j \in Jobs |-> NoJob]
  /\ faults = 0
  /\ causes = {}

\* train: with force_retraining the whole graph is run.
Start(j, version, forced) ==
  /\ jobs[j].phase = "none"
  /\ \A i \in 1 .. j - 1 : jobs[i].phase # "none"
  /\ jobs' = [jobs EXCEPT ![j] =
       [NoJob EXCEPT !.phase = IF forced THEN "run" ELSE "fingerprint",
                     !.at = 1, !.version = version,
                     !.needed = IF forced THEN Nodes ELSE Targets]]
  /\ causes' = causes \union (IF forced THEN {"forced"} ELSE {})
                      \union (IF Running # {} THEN {"overlap"} ELSE {})
  /\ "overlap" \in causes' => j < MaxTrainings
  /\ UNCHANGED <<cache, orphans, faults>>

\* The fingerprint run: an input node is run, another looks its key up.
Fingerprint(j) ==
  /\ At(j, "fingerprint")
  /\ LET n == Node(j)
         job == jobs[j]
         found == WithKey(cache, Key(n, job.version[n], InputsOf(n, job.print)))
         last == job.at = Len(Order)
         next == [job EXCEPT !.phase = IF last THEN "prune" ELSE @, !.at = IF last THEN @ ELSE @ + 1]
         read == Output(n, job.version[n], <<>>, 0)
     IN  IF n \in Inputs
           THEN /\ jobs' = [jobs EXCEPT ![j] = [next EXCEPT !.print[n] = read, !.value[n] = read]]
                /\ UNCHANGED cache
         ELSE IF found = {}
           THEN jobs' = [jobs EXCEPT ![j] = next] /\ UNCHANGED cache
         ELSE \E e \in found :
              /\ jobs' = [jobs EXCEPT ![j] = [next EXCEPT !.print[n] = e.output, !.hits = @ \union {n}]]
              /\ cache' = Merged(cache, e)
  /\ UNCHANGED <<orphans, faults, causes>>

\* _walk_and_prune, children first: a node that is needed is restored from
\* the cache, or is to be run and needs its parents.
Prune(j) ==
  /\ At(j, "prune")
  /\ LET n == Node(j)
         job == jobs[j]
         rerun == [job EXCEPT !.needed = @ \union Needs[n], !.relost = @ \/ n \in job.hits \intersect Random]
         Goes(next) == jobs' = [jobs EXCEPT ![j] =
           IF job.at = 1 THEN ToRun(next, 0) ELSE [next EXCEPT !.at = @ - 1]]
     IN  IF n \notin job.needed \/ n \in Inputs THEN Goes(job) /\ UNCHANGED faults
         ELSE IF n \in job.hits /\ Restorable(job.print[n])
           THEN \/ Goes([job EXCEPT !.value[n] = job.print[n]]) /\ UNCHANGED faults
                \/ Goes(rerun) /\ faults < MaxFaults /\ faults' = faults + 1
         ELSE Goes(rerun) /\ UNCHANGED faults
  /\ causes' = causes \union IF faults' # faults THEN {"fault"} ELSE {}
  /\ UNCHANGED <<cache, orphans>>

\* A node is run; to_cache writes its result beside the cache, unless it
\* fails, and room is made for it.
Run(j, fails) ==
  /\ At(j, "run")
  /\ LET n == Node(j)
         job == jobs[j]
         fits == n \in Cacheable \ TooLarge /\ ~fails
         room == MadeRoom(cache, orphans)
     IN  /\ fails => n \in Cacheable /\ faults < MaxFaults
         /\ faults' = IF fails THEN faults + 1 ELSE faults
         /\ jobs' = [jobs EXCEPT
              ![j].value[n] = Output(n, job.version[n], InputsOf(n, job.value), j),
              ![j].phase = IF fits THEN "store" ELSE "enter"]
         /\ IF fits THEN cache' = room.entries /\ orphans' = room.left
            ELSE UNCHANGED <<cache, orphans>>
         /\ causes' = causes \union (IF fails THEN {"fault"} ELSE {})
                             \union (IF cache' # cache \/ orphans' # orphans THEN {"evicted"} ELSE {})
                             \union (IF n \in TooLarge THEN {"too large"} ELSE {})
                             \union (IF Parted(cache') THEN {"parted"} ELSE {})

\* The result is moved into the cache, and an entry is written.
Store(j) ==
  /\ jobs[j].phase \in {"store", "enter"}
  /\ LET n == Node(j)
         job == jobs[j]
         key == Key(n, job.version[n], InputsOf(n, job.value))
         entry == [key |-> key, output |-> job.value[n], stored |-> job.phase = "store"]
     IN  /\ cache' = Merged(cache, entry)
         /\ orphans' = orphans + Cardinality({e \in WithKey(cache, key) : e.stored})
  /\ jobs' = [jobs EXCEPT ![j] = ToRun(jobs[j], jobs[j].at)]
  /\ causes' = causes \union (IF Parted(cache') THEN {"parted"} ELSE {})
  /\ UNCHANGED faults

\* create_model_package
Package(j) ==
  /\ jobs[j].phase = "run" /\ jobs[j].at > Len(Order)
  /\ jobs' = [jobs EXCEPT ![j] =
       [NoJob EXCEPT !.phase = "done", !.version = jobs[j].version,
                     !.value = [n \in Nodes |-> IF n \in Targets THEN jobs[j].value[n] ELSE NoOutput],
                     !.relost = jobs[j].relost]]
  /\ UNCHANGED <<cache, orphans, faults, causes>>

\* A training dies, or an error of a component or of the cache ends it; its
\* result may just have been moved into the cache.
Die(j) ==
  /\ j \in Running
  /\ jobs' = [jobs EXCEPT ![j] = [NoJob EXCEPT !.phase = "died"]]
  /\ orphans' \in {orphans, orphans + (IF jobs[j].phase = "store" THEN 1 ELSE 0)}
  /\ causes' = causes \union {"died"}
  /\ UNCHANGED <<cache, faults>>

TrainingNext ==
  \E j \in Jobs :
       \/ \E version \in Versions, forced \in BOOLEAN : Start(j, version, forced)
       \/ Fingerprint(j)
       \/ Prune(j)
       \/ \E fails \in BOOLEAN : Run(j, fails)
       \/ Store(j)
       \/ Package(j)
       \/ Die(j)

TrainingSpec == TrainingInit /\ [][TrainingNext]_trainingVars

-----------------------------------------------------------------------------
\* The type invariant.
TrainingTypeOK ==
  /\ \A e \in Entries : e.stored \in BOOLEAN /\ e.output # NoOutput
  /\ \A d, e \in Entries : d.key = e.key => d = e
  /\ orphans \in Nat
  /\ \A j \in Jobs :
       /\ jobs[j].phase \in {"none", "fingerprint", "prune", "run", "store", "enter", "done", "died"}
       /\ jobs[j].at \in 0 .. Len(Order) + 1
       /\ jobs[j].hits \subseteq Nodes \ Inputs
       /\ jobs[j].needed \subseteq Nodes

\* A node and all it is made of, by way of its parents.
Lineage(n) ==
  {m \in Nodes : \A S \in SUBSET Nodes : n \in S /\ (\A k \in S : Needs[k] \subseteq S) => m \in S}

\* What a training of the whole graph makes a node's output of, with the runs
\* of the nodes that differ from run to run: every node is run once, on what
\* its parents give.
FullTraining(n, setting, runs) ==
  {[node |-> m, setting |-> setting[m], run |-> IF m \in Random THEN runs[m] ELSE 0] : m \in Lineage(n)}

\* What an output was made of, what went into each left aside.
MadeOf(output) ==
  {[node |-> c.node, setting |-> c.setting, run |-> c.run] : c \in output.made_of}

\* A training that uses the cache gives a model that a full training on the
\* same data and configuration could have given: no part is stale or missing,
\* and the parts fit, each was trained on what the others give.  This takes
\* that a component that differs from run to run and was a hit of the
\* fingerprint run was not trained again, because its result was dropped or
\* could not be restored: others may be restored that were trained on the
\* result it had.
AsIfTrainedInFull ==
  \A j \in Jobs : jobs[j].phase = "done" /\ ~jobs[j].relost =>
    \E runs \in [Random -> Jobs] :
      \A n \in Targets : MadeOf(jobs[j].value[n]) = FullTraining(n, jobs[j].version, runs)

\* The cache keeps to its size, unless trainings overlap: the room one has
\* made another may have taken.
CacheWithinLimit == "overlap" \notin causes => InUse(cache, orphans) =< Capacity

\* Results that no entry refers to stay behind only where an entry was
\* overwritten, by a forced training, one that overlapped or one that could
\* not restore a result, where a training died, or where an entry outlived
\* that of what it was made of.
LeaksHaveCause ==
  causes \intersect {"forced", "overlap", "fault", "died", "parted"} = {} => orphans = 0

\* Nothing is trained again for nothing: after a training with the same data
\* and configuration no node is run, unless the cache was disturbed.
RetrainsForACause ==
  [][\A j \in Jobs :
       jobs[j].phase = "run" /\ jobs'[j].phase \in {"store", "enter"} =>
         \/ causes \ {"parted"} # {}
         \/ \A i \in Jobs : ~(jobs[i].phase = "done" /\ jobs[i].version = jobs[j].version)]_trainingVars

=============================================================================
