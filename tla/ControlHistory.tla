--------------------------- MODULE ControlHistory ---------------------------
(***************************************************************************)
(* What the control store promises about its action log: the operations    *)
(* that took effect, each once and in an order that none of them leaves    *)
(* again, and no answer for an operation that did not.                     *)
(***************************************************************************)
EXTENDS Naturals, Sequences, FiniteSets

CONSTANT Operation

VARIABLES
    history,    \* the operations that took effect
    answered    \* the operations some caller was told have taken effect

historyVars == <<history, answered>>

\* The revision of a target is the number of operations on it.
RevisionOf(target) == Cardinality({i \in DOMAIN history : history[i].target = target})

Commit(op) ==
    /\ \A i \in DOMAIN history : history[i].key # op.key
    /\ op.expected = RevisionOf(op.target)
    /\ history' = Append(history, op)
    /\ answered' \in {answered, answered \cup {op}}

Answer(op) ==
    /\ \E i \in DOMAIN history : history[i] = op
    /\ answered' = answered \cup {op}
    /\ UNCHANGED history

HistoryInit == history = <<>> /\ answered = {}

HistorySpec ==
    HistoryInit /\ [][\E op \in Operation : Commit(op) \/ Answer(op)]_historyVars
=============================================================================
