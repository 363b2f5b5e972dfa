--------------------------- MODULE AttemptRecord ---------------------------
(***************************************************************************)
(* The execution attempt as the control store records it, and the rules    *)
(* under which one revision of the record may replace the one before it    *)
(* (control_plane.py, _apply_event, "attempt_transitioned").  The record   *)
(* keeps the fields those rules and the supervisor read:                   *)
(*   execution  pending .. lost                                            *)
(*   control    ready, awaiting_approval, policy_hold, control_failure     *)
(*   manifest   whether manifest_id has been frozen                        *)
(*   proof      the process whose seven proof fields are frozen, or None   *)
(*   revision   the optimistic-concurrency counter                         *)
(* The outcome axis is not kept: no caller of the store moves it.          *)
(***************************************************************************)
EXTENDS Integers

CONSTANT None       \* Python's None

ExecutionStates == {"pending", "launching", "running", "cancel_requested",
                    "succeeded", "failed", "cancelled", "lost"}
ControlStates == {"ready", "awaiting_approval", "policy_hold", "control_failure"}
TerminalStates == {"succeeded", "failed", "cancelled", "lost"}
ActiveStates == {"launching", "running", "cancel_requested"}

\* _EXECUTION_TRANSITIONS: the four terminal states have no successor.
ExecutionStep(current, next) ==
    \/ current = "pending" /\ next \in {"launching", "cancelled", "lost"}
    \/ current = "launching" /\ next \in {"running", "failed", "lost", "cancel_requested"}
    \/ current = "running" /\ next \in {"succeeded", "failed", "lost", "cancel_requested"}
    \/ current = "cancel_requested" /\ next \in {"cancelled", "failed", "lost"}

\* _CONTROL_TRANSITIONS
ControlStep(current, next) ==
    \/ current = "ready" /\ next \in {"awaiting_approval", "policy_hold", "control_failure"}
    \/ current = "awaiting_approval" /\ next \in {"ready", "policy_hold", "control_failure"}
    \/ current = "policy_hold" /\ next \in {"ready", "control_failure"}
    \/ current = "control_failure" /\ next = "ready"

\* The manifest and the process proof are written once, at one edge each.
ManifestFrozen(current, new) ==
    \/ new.manifest = current.manifest
    \/ /\ new.manifest
       /\ current.execution = "pending" /\ new.execution = "launching"

ProofFrozen(current, new) ==
    \/ new.proof = current.proof
    \/ /\ current.proof = None
       /\ current.execution = "launching" /\ new.execution = "running"

\* What _apply_event asks of a new revision of an attempt.
LegalTransition(current, new) ==
    /\ new.revision = current.revision + 1
    /\ ManifestFrozen(current, new)
    /\ ProofFrozen(current, new)
    /\ new.execution = current.execution \/ ExecutionStep(current.execution, new.execution)
    /\ new.control = current.control \/ ControlStep(current.control, new.control)
    /\ new.execution \in ActiveStates => new.manifest
    /\ new.execution \in {"running", "cancel_requested"} => new.proof # None
=============================================================================
