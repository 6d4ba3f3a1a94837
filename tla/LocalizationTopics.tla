------------------------- MODULE LocalizationTopics -------------------------
(***************************************************************************)
(* What the three localization nodes of agt_localization share: the status *)
(* messages and the topics and the action between them.                    *)
(*                                                                         *)
(*   relocalization node --evidence--> global correction manager           *)
(*          ^                                     |                        *)
(*          |                                 canonical                    *)
(*       Relocalize                               |                        *)
(*          |                                     v                        *)
(*          +------------------------ recovery trigger, safety controller  *)
(*                                                                         *)
(* A message carries no pose: registration may find any, so the pose is    *)
(* chosen where the correction manager first looks at it.                  *)
(***************************************************************************)
EXTENDS Integers, Sequences

CONSTANT
    EvidenceDepth   \* samples the evidence topic keeps for a slow reader

ASSUME TopicsAssumption == EvidenceDepth \in Nat \ {0}

VARIABLES
    evidence,   \* /agt/localization/evidence_status, oldest sample first
    canonical,  \* the newest sample of /agt/localization/status
    ask         \* the trigger's one Relocalize request, as its client knows it

(* The states that a reader of a status tells from the others, which are   *)
(* UNINITIALIZED, SEARCHING, VERIFYING and ERROR.                          *)
HealthStates == {"TRACKING", "DEGRADED", "RECOVERING", "LOST"}
Told(s) == IF s \in HealthStates THEN s ELSE "OTHER"

(* accepted stands for localization_accepted, pose_valid and ERROR_NONE,   *)
(* which every publisher sets together.                                    *)
Status == [state : HealthStates \cup {"OTHER"}, accepted : BOOLEAN]

Unaccepted(s) == [state |-> Told(s), accepted |-> FALSE]
Accepted(s)   == [state |-> Told(s), accepted |-> TRUE]

(* A request is sent, then refused, or running and done; "none" is the     *)
(* client's request_in_flight_ = false.                                    *)
Asks == {"none", "sent", "refused", "running", "done"}

TopicsTypeOK ==
    /\ evidence \in Seq(Status)
    /\ canonical \in Status
    /\ ask \in Asks

TopicsInit ==
    /\ evidence = <<>>
    /\ canonical = Unaccepted("UNINITIALIZED")
    /\ ask = "none"

(* A full topic drops its oldest sample (KEEP_LAST).                       *)
PublishEvidence(m) ==
    evidence' = IF Len(evidence) < EvidenceDepth
                THEN Append(evidence, m)
                ELSE Append(Tail(evidence), m)

PublishCanonical(m) == canonical' = m
=============================================================================
