-------------------------- MODULE GlobalCorrection --------------------------
(***************************************************************************)
(* The global correction manager and its core: the only node that moves    *)
(* map->odom.  It judges accepted evidence by the state it last heard of,  *)
(* and publishes the status that the rest of the robot goes by.            *)
(*                                                                         *)
(* Tests of one message alone (frame, time stamp, age, transform, fitness, *)
(* innovation, map identity, interval) are one choice of the environment:  *)
(* whichever fails, the handler does the same.  A pose stands for the      *)
(* map->odom transform it implies; poses lie on a line, so that the size   *)
(* of a jump is the distance of two numbers.                               *)
(***************************************************************************)
EXTENDS LocalizationTopics

CONSTANTS
    MaxPose,            \* the line of poses is 0..MaxPose
    TrackingLimit,      \* the largest jump while TRACKING
    RecoveringLimit,    \* ... and while RECOVERING; LOST may re-anchor anywhere
    RejectionsToLost    \* consecutive rejections that declare LOST

ASSUME CorrectionAssumption ==
    /\ MaxPose \in Nat
    /\ TrackingLimit \in Nat
    /\ RecoveringLimit \in Nat
    /\ RejectionsToLost \in Nat \ {0}

VARIABLES
    transform,  \* latest_map_from_odom_ and has_transform_
    policy,     \* policy_state_
    rejections  \* consecutive_correction_rejections_, as far as it matters

correctionVars == <<transform, policy, rejections>>

NoTransform == -1
Poses == 0..MaxPose

CorrectionTypeOK ==
    /\ transform \in Poses \cup {NoTransform}
    /\ policy \in {"TRACKING", "RECOVERING", "LOST"}
    /\ rejections \in 0..RejectionsToLost

CorrectionInit ==
    /\ transform = NoTransform
    /\ policy = "TRACKING"
    /\ rejections = 0

Distance(p, q) == IF p < q THEN q - p ELSE p - q

CorrectionState(s) ==
    CASE s = "LOST" -> "LOST"
      [] s \in {"RECOVERING", "DEGRADED"} -> "RECOVERING"
      [] OTHER -> "TRACKING"

(* The first pose is taken as it is; a pose that moves nothing is refused  *)
(* as a duplicate, one that moves too far for the policy as a jump.        *)
Correctable(p) ==
    \/ transform = NoTransform
    \/ /\ p # transform
       /\ CASE policy = "TRACKING" -> Distance(p, transform) <= TrackingLimit
            [] policy = "RECOVERING" -> Distance(p, transform) <= RecoveringLimit
            [] policy = "LOST" -> TRUE

(* Evidence that is not accepted is passed on, and may change the policy.  *)
Forward(m) ==
    /\ ~m.accepted
    /\ IF m.state \in HealthStates
       THEN /\ policy' = CorrectionState(m.state)
            /\ rejections' = IF m.state = "TRACKING" THEN 0 ELSE rejections
       ELSE UNCHANGED <<policy, rejections>>
    /\ PublishCanonical(m)
    /\ UNCHANGED transform

(* Variant: a re-anchoring leaves the policy of the lost robot.             *)
CorrectKeepingPolicy(m) ==
    /\ m.accepted
    /\ \E p \in Poses : Correctable(p) /\ transform' = p
    /\ rejections' = 0
    /\ PublishCanonical(m)
    /\ UNCHANGED policy

Correct(m) ==
    /\ m.accepted
    /\ \E p \in Poses : Correctable(p) /\ transform' = p
    /\ policy' = CorrectionState(m.state)
    /\ rejections' = 0
    /\ PublishCanonical(m)

(* publishRejectedCanonical, for a refused correction and for evidence     *)
(* that fails a test of its own.                                           *)
Reject(m) ==
    /\ m.accepted
    /\ rejections' = IF rejections < RejectionsToLost THEN rejections + 1 ELSE rejections
    /\ policy' = IF policy = "LOST" \/ rejections' >= RejectionsToLost
                 THEN "LOST" ELSE "RECOVERING"
    /\ PublishCanonical(Unaccepted(policy'))
    /\ UNCHANGED transform

(* localizationEvidenceCallback.                                           *)
CorrectionNext ==
    /\ evidence # <<>>
    /\ Forward(Head(evidence)) \/ Correct(Head(evidence)) \/ Reject(Head(evidence))
    /\ evidence' = Tail(evidence)
    /\ UNCHANGED ask
=============================================================================
