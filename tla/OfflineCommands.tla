--------------------------- MODULE OfflineCommands ---------------------------
(***************************************************************************)
(* The commands that work beside the server, rasa train and rasa evaluate   *)
(* markers: main (rasa/__main__.py) hands over to one of them, and all that *)
(* happens from then on is its work.  IncrementalTraining also has the      *)
(* trainings that other processes run on the same cache.                    *)
(***************************************************************************)
EXTENDS IncrementalTraining, Markers

VARIABLE command   \* the subcommand that was given; it never changes

commandVars == <<command, trainingVars, vars>>

\* main and the parser: the other subcommands do none of this work.
CommandInit ==
  /\ command \in {"train", "evaluate markers"}
  /\ TrainingInit
  /\ Init
  /\ command = "train" => config = CHOOSE c \in Configs : TRUE

RunTraining == command = "train" /\ TrainingNext /\ UNCHANGED <<command, vars>>

RunMarkers == command = "evaluate markers" /\ Next /\ UNCHANGED <<command, trainingVars>>

CommandNext == RunTraining \/ RunMarkers

CommandSpec == CommandInit /\ [][CommandNext]_commandVars

=============================================================================
