----------------------------- MODULE ControlLog -----------------------------
(***************************************************************************)
(* The control store's action log as a file (control_plane.py): every       *)
(* mutation replays it, checks itself against the projection and appends    *)
(* one line, all under one lock. A crash may leave any part of the write;    *)
(* the next one ends the line that was left, and a caller that got no        *)
(* answer repeats its operation under the same key.                         *)
(*                                                                         *)
(* An operation stands for what its digest covers: the idempotency key, the *)
(* target and the revision of it that the caller has read, at some time.    *)
(* The rules of the single actions are in AttemptRecord and ControlCommands.*)
(***************************************************************************)
EXTENDS StoreValues, Naturals, Sequences, FiniteSets

CONSTANTS
    Operation,      \* the operations that callers make
    MaxLines        \* bound: lines of the log

ASSUME LogAssumption ==
    /\ \A op \in Operation : {"key", "target", "expected"} \subseteq DOMAIN op
    /\ MaxLines \in Nat

VARIABLES
    actions,        \* actions.jsonl
    answered        \* the operations that returned to a caller

logVars == <<actions, answered>>

-----------------------------------------------------------------------------
\* A line that lacks its newline is "unended" when all of its event was written
\* and "torn" when not; a torn line that got its newline later is "ended".
Line(form, op) == [form |-> form, op |-> op]
Open(l) == l.form \in {"unended", "torn"}

\* A line reads as an event unless a part is missing, or another line runs into it.
Readable(file, i) ==
    /\ file[i].form \in {"whole", "unended"}
    /\ i > 1 => ~Open(file[i - 1])
    /\ i < Len(file) => ~Open(file[i])

\* _apply_event: an unused key, and the revision that the target is at.
Accepts(events, op) ==
    /\ \A i \in DOMAIN events : events[i].key # op.key
    /\ op.expected = Cardinality({i \in DOMAIN events : events[i].target = op.target})

\* _project_unlocked: a line that is no event, or is refused, becomes an issue
\* and the projection goes on behind it.
Taken(events, file, i) ==
    IF Readable(file, i) /\ Accepts(events, file[i].op)
    THEN Append(events, file[i].op)
    ELSE events

UpTo(file) ==
    LET upTo[i \in 0 .. Len(file)] ==
            IF i = 0 THEN <<>> ELSE Taken(upTo[i - 1], file, i)
    IN  upTo

Events == UpTo(actions)[Len(actions)]

-----------------------------------------------------------------------------
MutantTerminated(file) == file

\* A writer gives a line that lacks its newline one before it appends its own.
Terminated(file) ==
    IF file # <<>> /\ Open(file[Len(file)])
    THEN [file EXCEPT ![Len(file)].form = IF @ = "unended" THEN "whole" ELSE "ended"]
    ELSE file

\* A key in the projection is answered with its event, without another append.
\* A key that was used for something else is a conflict, and nothing happens.
Repeat(op) ==
    /\ \E i \in DOMAIN Events : Events[i] = op
    /\ answered' = answered \cup {op}
    /\ UNCHANGED actions

MutantMutate(op) ==
    /\ \A i \in DOMAIN Events : Events[i].key # op.key
    /\ Len(actions) < MaxLines
    /\ actions' = Append(Terminated(actions), Line("whole", op))
    /\ answered' = answered \cup {op}

Mutate(op) ==
    /\ Accepts(Events, op)
    /\ Len(actions) < MaxLines
    /\ actions' = Append(Terminated(actions), Line("whole", op))
    /\ answered' = answered \cup {op}

\* Cut off anywhere in the write, or behind it and before the answer; fsync
\* raising is the latter. The write begins with the newline of the last line.
MutateCut(op) ==
    /\ Accepts(Events, op)
    /\ Len(actions) < MaxLines
    /\ \/ actions' = Terminated(actions)
       \/ \E l \in {Line("torn", None), Line("unended", op), Line("whole", op)} :
             actions' = Append(Terminated(actions), l)
    /\ UNCHANGED answered

LogInit == actions = <<>> /\ answered = {}

LogNext == \E op \in Operation : Repeat(op) \/ Mutate(op) \/ MutateCut(op)

LogSpec == LogInit /\ [][LogNext]_logVars

-----------------------------------------------------------------------------
\* An event is ignored only if part of it was never written: what a mutation has
\* checked and appended is accepted by every later replay, and no write runs into
\* the line that a crash left.
OnlyTornIgnored ==
    Len(Events) = Cardinality({i \in DOMAIN actions : actions[i].form \in {"whole", "unended"}})

\* Whatever crashes and repetitions there are, the log is a history: an event
\* that any reader has seen stays in its place, a key takes effect once, and
\* what was answered is in it.
History == INSTANCE ControlHistory WITH history <- Events
ImplementsHistory == History!HistorySpec
=============================================================================
