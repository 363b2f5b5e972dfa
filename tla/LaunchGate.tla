----------------------------- MODULE LaunchGate -----------------------------
(***************************************************************************)
(* What approvals promise about the launches of a task's attempts,         *)
(* whatever the clients that ask, decide and launch do: the gate of an     *)
(* attempt under an approval-required contract is opened by an approval of *)
(* that attempt and by nothing else, a rejection shuts it for good, and no *)
(* request is decided twice.                                               *)
(***************************************************************************)
CONSTANTS Attempt, Approval

VARIABLES
    gate,       \* per attempt: "none", "held", "open", "shut" or "launched"
    guarded,    \* whether the contract requires an approval
    asked,      \* per attempt: the approvals requested and not decided
    decided     \* per attempt: the approvals consumed or rejected

vars == <<gate, guarded, asked, decided>>

Init ==
    /\ gate = [a \in Attempt |-> "none"]
    /\ guarded = FALSE
    /\ asked = [a \in Attempt |-> {}]
    /\ decided = [a \in Attempt |-> {}]

\* The contract is written before the first attempt and not again.
Contract ==
    /\ \A a \in Attempt : gate[a] = "none"
    /\ guarded' \in BOOLEAN
    /\ UNCHANGED <<gate, asked, decided>>

Create(a) ==
    /\ gate[a] = "none"
    /\ \/ gate' = [gate EXCEPT ![a] = "held"]
       \/ ~guarded /\ gate' = [gate EXCEPT ![a] = "open"]
    /\ UNCHANGED <<guarded, asked, decided>>

Hold(a) ==
    /\ gate[a] = "open"
    /\ gate' = [gate EXCEPT ![a] = "held"]
    /\ UNCHANGED <<guarded, asked, decided>>

\* A request may come at any time: see FailClosedOrder of ControlCommands.
Ask(a, p) ==
    /\ gate[a] # "none"
    /\ \A other \in Attempt : p \notin asked[other] \cup decided[other]
    /\ asked' = [asked EXCEPT ![a] = @ \cup {p}]
    /\ UNCHANGED <<gate, guarded, decided>>

Decide(a, p, verdict) ==
    /\ gate[a] = "held" /\ p \in asked[a]
    /\ gate' = [gate EXCEPT ![a] = verdict]
    /\ asked' = [asked EXCEPT ![a] = @ \ {p}]
    /\ decided' = [decided EXCEPT ![a] = @ \cup {p}]
    /\ UNCHANGED guarded

Launch(a) ==
    /\ gate[a] = "open"
    /\ gate' = [gate EXCEPT ![a] = "launched"]
    /\ UNCHANGED <<guarded, asked, decided>>

Next ==
    \/ Contract
    \/ \E a \in Attempt :
         \/ Create(a) \/ Hold(a) \/ Launch(a)
         \/ \E p \in Approval : Ask(a, p) \/ Decide(a, p, "open") \/ Decide(a, p, "shut")

Spec == Init /\ [][Next]_vars
=============================================================================
