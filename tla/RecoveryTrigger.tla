-------------------------- MODULE RecoveryTrigger ---------------------------
(***************************************************************************)
(* The recovery trigger: it hears the canonical status and asks the        *)
(* relocalization node for a search when the robot is RECOVERING or LOST,  *)
(* at once when the state is new to it and after a cool-down otherwise.    *)
(* The cool-down may have passed at any time.                              *)
(***************************************************************************)
EXTENDS LocalizationTopics

VARIABLE
    known       \* latest_localization_state_ and the policy's last_state_, or
                \* "fine" for every state that asks for nothing

WantsSearch == {"RECOVERING", "LOST"}

TriggerTypeOK == known \in WantsSearch \cup {"fine"}

TriggerInit == known = "fine"

(* RecoveryTriggerPolicy::evaluate, and maybeTrigger: a request that the   *)
(* policy wants is not sent while the action server is not there.          *)
MayTrigger(state) == ask = "none" /\ state \in WantsSearch

Trigger(served) == ask' = IF served THEN "sent" ELSE ask

Heard == IF canonical.state \in WantsSearch THEN canonical.state ELSE "fine"

(* A state that is new triggers at once.                                   *)
StatusCallback(served) ==
    /\ known # Heard
    /\ known' = Heard
    /\ IF MayTrigger(Heard) THEN Trigger(served) ELSE UNCHANGED ask
    /\ UNCHANGED <<evidence, canonical>>

(* Variant: the timer waits for news as well.                               *)
RetryTimerOnNews(served) ==
    /\ known # Heard
    /\ MayTrigger(known)
    /\ Trigger(served)
    /\ UNCHANGED <<known, evidence, canonical>>

(* For a state that is not new the cool-down decides, whether the poll     *)
(* timer or another status brings it up.                                   *)
RetryTimer(served) ==
    /\ MayTrigger(known)
    /\ Trigger(served)
    /\ UNCHANGED <<known, evidence, canonical>>

(* Variant: a refusal is not noticed.                                       *)
AnswerCallbackOfResults ==
    /\ ask = "done"
    /\ ask' = "none"
    /\ UNCHANGED <<known, evidence, canonical>>

(* The goal response callback for a refusal, and the result callback.      *)
AnswerCallback ==
    /\ ask \in {"refused", "done"}
    /\ ask' = "none"
    /\ UNCHANGED <<known, evidence, canonical>>
=============================================================================
