-------------------------- MODULE AttemptLifecycle --------------------------
(***************************************************************************)
(* What the owned execution boundary promises about one attempt, without   *)
(* the supervisors, stores and leases that keep the promise: the state on  *)
(* record, the one agent process it may start, and the leash by which the  *)
(* supervisor's shim holds that process.                                   *)
(***************************************************************************)
EXTENDS Integers

VARIABLES
    execution,  \* the attempt's execution state on record
    agent,      \* the agent process: "none", "running", "exited"
    leash,      \* the shim that proves and controls it: "none", "held", "cut"
    status      \* exit status behind the leash: "none", "zero", "nonzero"

vars == <<execution, agent, leash, status>>

Live == {"running", "cancel_requested"}

Init == execution = "pending" /\ agent = "none" /\ leash = "none" /\ status = "none"

Launch ==
    /\ execution = "pending"
    /\ execution' = "launching"
    /\ UNCHANGED <<agent, leash, status>>

\* The proof is on record; the shim waits at the gate, or has died already.
Confirm ==
    /\ execution = "launching"
    /\ execution' = "running"
    /\ \/ leash' = "held" /\ status' = "none"
       \/ leash' = "cut" /\ status' = "nonzero"
    /\ UNCHANGED agent

\* The agent starts at most once, behind its proof, while the record is live.
Start ==
    /\ execution \in Live /\ leash = "held" /\ agent = "none"
    /\ agent' = "running"
    /\ UNCHANGED <<execution, leash, status>>

\* An agent outlives its leash only when somebody kills the shim alone.
AgentExits ==
    /\ agent = "running"
    /\ agent' = "exited"
    /\ \/ leash = "held" /\ status' \in {"zero", "nonzero"}
       \/ leash = "cut" /\ UNCHANGED status
    /\ UNCHANGED <<execution, leash>>

\* The shim follows its agent, is killed with it, is killed alone, or leaves a
\* gate that never opened.
LeashCut ==
    /\ leash = "held" /\ leash' = "cut"
    /\ \/ agent = "exited" /\ UNCHANGED <<agent, status>>
       \/ agent = "running" /\ agent' = "exited" /\ status' = "nonzero"
       \/ UNCHANGED agent /\ status' = "nonzero"
    /\ UNCHANGED execution

RequestCancel ==
    /\ execution = "running"
    /\ execution' = "cancel_requested"
    /\ UNCHANGED <<agent, leash, status>>

\* The verdict on an observed exit.
Conclude ==
    /\ leash = "cut"
    /\ \/ execution = "cancel_requested" /\ execution' = "cancelled"
       \/ execution = "running" /\ status = "zero" /\ execution' = "succeeded"
       \/ execution = "running" /\ status # "zero" /\ execution' = "failed"
    /\ UNCHANGED <<agent, leash, status>>

\* A launch fails only before its agent has started.
FailLaunch ==
    /\ execution \in {"launching"} \cup Live /\ agent = "none"
    /\ execution' = "failed"
    /\ UNCHANGED <<agent, leash, status>>

\* What cannot be proved is lost; a process on its leash is not.
Lose ==
    /\ execution \in {"launching"} \cup Live
    /\ ~(leash = "held" /\ agent = "running")
    /\ execution' = "lost"
    /\ UNCHANGED <<agent, leash, status>>

Next ==
    \/ Launch \/ Confirm \/ Start \/ AgentExits \/ LeashCut
    \/ RequestCancel \/ Conclude \/ FailLaunch \/ Lose

Spec == Init /\ [][Next]_vars
=============================================================================
