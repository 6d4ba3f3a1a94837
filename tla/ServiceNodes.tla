---------------------------- MODULE ServiceNodes ----------------------------
(***************************************************************************)
(* The nodes beside the mission: TaskRegistry, ExperimentManager and       *)
(* PreviewPlanner.  They are processes of their own and share no file and  *)
(* no topic, so that each sees the others stand still: a behaviour of all  *)
(* three is any shuffle of one of each, and what is true of one node in    *)
(* every shuffle is what is true of it while the others rest.              *)
(***************************************************************************)
EXTENDS TaskRegistry, ExperimentManager, PreviewPlanner

VARIABLE watched  \* the node whose steps are taken

ServicesInit ==
  /\ watched \in {"registry", "experiments", "preview"}
  /\ Init /\ ExperimentInit /\ PreviewInit

RegistryStep    == Next /\ UNCHANGED <<experimentVars, previewVars>>
ExperimentsStep == ExperimentNext /\ UNCHANGED <<vars, previewVars>>
PreviewStep     == PreviewNext /\ UNCHANGED <<vars, experimentVars>>

ServicesNext ==
  /\ \/ watched = "registry" /\ RegistryStep
     \/ watched = "experiments" /\ ExperimentsStep
     \/ watched = "preview" /\ PreviewStep
  /\ UNCHANGED watched

servicesVars == <<watched, vars, experimentVars, previewVars>>
ServicesSpec == ServicesInit /\ [][ServicesNext]_servicesVars
=============================================================================
