-------------------------- MODULE TaskContinuations --------------------------
(***************************************************************************)
(* The ledger of continuation tasks (task_continuations.py): the user joins *)
(* sessions to tasks, joins tasks, takes sessions out and renames tasks.    *)
(* Every operation replays the file, checks itself against the projection   *)
(* and appends one action, all under one lock.                             *)
(*                                                                         *)
(* Lines are only ever appended and replay goes from line to line: lines    *)
(* that have their newline are kept here as the projection they replay to.  *)
(* A crash may leave a last line without one, and in part. Titles, times,   *)
(* authors, hashes and the ids of actions are left out.                     *)
(***************************************************************************)
EXTENDS StoreValues, Naturals, FiniteSets, SequencesExt

CONSTANTS
    Session,        \* root sessions
    Task,           \* the ids of tasks, numbered in the order they are drawn
    MaxTogether     \* bound: sessions that one call makes a task of

ASSUME TaskAssumption == Task \subseteq Nat /\ MaxTogether \in Nat

VARIABLES
    settled,        \* the projection of the lines that are ended
    tail            \* the action in a last line without a newline, Torn or None

taskVars == <<settled, tail>>

-----------------------------------------------------------------------------
\* _ProjectionState; "members" has the active tasks, each with its sessions in order.
NoTasks == [members |-> <<>>, owner |-> <<>>, alias |-> <<>>, inactive |-> {}]

Known(p) == DOMAIN p.members \cup DOMAIN p.alias \cup p.inactive

\* _resolve_alias: along the aliases to their end. (Were they a cycle, it would raise.)
Resolve(p, t) ==
    LET along[n \in 0 .. Cardinality(DOMAIN p.alias)] ==
            IF n = 0 THEN t
            ELSE IF along[n - 1] \in DOMAIN p.alias THEN p.alias[along[n - 1]]
            ELSE along[n - 1]
    IN  along[Cardinality(DOMAIN p.alias)]

Active(p, t) == Resolve(p, t) \in DOMAIN p.members

Placed(position, old, new) == IF position = "prepend" THEN new \o old ELSE old \o new
Without(function, S) == Restrict(function, DOMAIN function \ S)
With(function, S, value) ==
    [x \in DOMAIN function \cup S |-> IF x \in S THEN value ELSE function[x]]

-----------------------------------------------------------------------------
\* The types of action (the file calls a merge a "link", too). Each has what it asks
\* of the projection and what it makes of it; replay and the operation that appends
\* the action use the same.
Create(t, sessions) == [do |-> "create", task |-> t, sessions |-> sessions]
Link(t, s, position) == [do |-> "link", task |-> t, session |-> s, position |-> position]
Merge(t, u, position) == [do |-> "merge", task |-> t, source |-> u, position |-> position]
Unlink(t, s) == [do |-> "unlink", task |-> t, session |-> s]
Rename(t) == [do |-> "rename", task |-> t]

Permitted(p, a) ==
    \/ /\ a.do = "create"
       /\ a.task \notin Known(p)
       /\ ToSet(a.sessions) \cap DOMAIN p.owner = {}
    \/ a.do = "link" /\ Active(p, a.task) /\ a.session \notin DOMAIN p.owner
    \/ /\ a.do = "merge"
       /\ Active(p, a.task) /\ Active(p, a.source)
       /\ Resolve(p, a.task) # Resolve(p, a.source)
    \/ /\ a.do = "unlink" /\ Active(p, a.task)
       /\ a.session \in DOMAIN p.owner /\ p.owner[a.session] = Resolve(p, a.task)
    \/ a.do = "rename" /\ Active(p, a.task)

Created(p, a) ==
    [p EXCEPT !.members = With(@, {a.task}, a.sessions),
              !.owner = With(@, ToSet(a.sessions), a.task)]

Extended(p, a) ==
    LET t == Resolve(p, a.task)
    IN  [p EXCEPT !.members[t] = Placed(a.position, @, <<a.session>>),
                  !.owner = With(@, {a.session}, t)]

\* The aliases of the task that goes are turned to the one that stays.
Merged(p, a) ==
    LET t == Resolve(p, a.task)
        u == Resolve(p, a.source)
        joined == Placed(a.position, p.members[t], p.members[u])
    IN  [p EXCEPT !.members = Without([@ EXCEPT ![t] = joined], {u}),
                  !.inactive = @ \cup {u},
                  !.alias = With([x \in DOMAIN @ |-> IF @[x] = u THEN t ELSE @[x]], {u}, t),
                  !.owner = [s \in DOMAIN @ |-> IF @[s] = u THEN t ELSE @[s]]]

MutantUnlinked(p, a) ==
    LET t == Resolve(p, a.task)
        rest == RemoveFirst(p.members[t], a.session)
    IN  IF Len(rest) >= 2
        THEN [p EXCEPT !.members[t] = rest, !.owner = Without(@, {a.session})]
        ELSE [p EXCEPT !.members = Without(@, {t}),
                       !.owner = Without(@, {a.session}),
                       !.inactive = @ \cup {t}]

\* A session that would be left alone in a task needs none. (No task has a session
\* twice, so that the first place it has there is its only one.)
Unlinked(p, a) ==
    LET t == Resolve(p, a.task)
        rest == RemoveFirst(p.members[t], a.session)
    IN  IF Len(rest) >= 2
        THEN [p EXCEPT !.members[t] = rest, !.owner = Without(@, {a.session})]
        ELSE [p EXCEPT !.members = Without(@, {t}),
                       !.owner = Without(@, ToSet(p.members[t])),
                       !.inactive = @ \cup {t}]

\* _apply_action.
Outcome(p, a) ==
    CASE a.do = "create" -> Created(p, a)
      [] a.do = "link" -> Extended(p, a)
      [] a.do = "merge" -> Merged(p, a)
      [] a.do = "unlink" -> Unlinked(p, a)
      [] a.do = "rename" -> p

Torn == [do |-> "torn"]

\* _load_state_unlocked: a line that is no action, or is refused, becomes an issue
\* and nothing else. A last line is read whether it is ended or not.
TaskProjection == IF tail # None /\ Permitted(settled, tail) THEN Outcome(settled, tail) ELSE settled

-----------------------------------------------------------------------------
\* The mutant does not end the last line: its own runs into it.
MutantWritten(p, a) == IF tail = None THEN Outcome(p, a) ELSE settled

\* _append_unlocked ends a last line that lacks its newline, and goes on behind it.
Written(p, a) == Outcome(p, a)

\* _commit_unlocked: applied first, which raises what is not permitted, then
\* appended. The write may be cut off anywhere; it begins with that newline.
Commit(p, a) ==
    /\ Permitted(p, a)
    /\ \/ settled' = Written(p, a) /\ tail' = None
       \/ settled' = p /\ tail' \in {None, Torn, a}

NewTask(p) == {t \in Task \ Known(p) : \A u \in Task \ Known(p) : t <= u}

CreateTask(p, sessions) ==
    /\ Len(sessions) >= 2 /\ IsInjective(sessions)
    /\ \E t \in NewTask(p) : Commit(p, Create(t, sessions))

\* A session that is in the task already is no action, and nothing happens.
LinkSession(p, t, s, position) ==
    /\ Active(p, t)
    /\ Commit(p, Link(Resolve(p, t), s, position))

MergeTasks(p, t, u, position) ==
    /\ Active(p, t) /\ Active(p, u)
    /\ Commit(p, Merge(Resolve(p, t), Resolve(p, u), position))

\* Two sessions that the user names: what it takes depends on what they are in.
LinkSessions(p, previous, next) ==
    LET Owned(s) == s \in DOMAIN p.owner
        TaskOf(s) == Resolve(p, p.owner[s])
    IN  /\ previous # next
        /\ \/ /\ Owned(previous) /\ Owned(next)
              /\ Commit(p, Merge(TaskOf(previous), TaskOf(next), "append"))
           \/ /\ Owned(previous) /\ ~Owned(next)
              /\ Commit(p, Link(TaskOf(previous), next, "append"))
           \/ /\ ~Owned(previous) /\ Owned(next)
              /\ Commit(p, Link(TaskOf(next), previous, "prepend"))
           \/ /\ ~Owned(previous) /\ ~Owned(next)
              /\ \E t \in NewTask(p) : Commit(p, Create(t, <<previous, next>>))

UnlinkSession(p, t, s) ==
    /\ Active(p, t)
    /\ Commit(p, Unlink(Resolve(p, t), s))

\* To another title, that is.
RenameTask(p, t) ==
    /\ Active(p, t)
    /\ Commit(p, Rename(Resolve(p, t)))

TaskInit == settled = NoTasks /\ tail = None

\* Every operation starts from a replay of its own.
TaskNext ==
    \E p \in {TaskProjection} :
        \/ \E n \in 2 .. MaxTogether : \E sessions \in [1 .. n -> Session] : CreateTask(p, sessions)
        \/ \E s1, s2 \in Session : LinkSessions(p, s1, s2)
        \/ \E t \in Task, s \in Session, position \in {"append", "prepend"} : LinkSession(p, t, s, position)
        \/ \E t, u \in Task, position \in {"append", "prepend"} : MergeTasks(p, t, u, position)
        \/ \E t \in Task, s \in Session : UnlinkSession(p, t, s)
        \/ \E t \in Task : RenameTask(p, t)

TaskSpec == TaskInit /\ [][TaskNext]_taskVars

-----------------------------------------------------------------------------
TaskTypeOK ==
    /\ DOMAIN settled.members \cup DOMAIN settled.alias \cup settled.inactive \subseteq Task
    /\ DOMAIN settled.owner \subseteq Session
    /\ tail # None => tail.do \in {"create", "link", "merge", "unlink", "rename", "torn"}

\* A session is in one task at most and the index knows which; no task is left
\* with a single session; an alias leads in one step to where it ends, which is
\* no alias, and a task that is gone is not active.
IndexAgrees ==
    \A p \in {TaskProjection} :
        /\ \A s \in Session : {t \in DOMAIN p.members : s \in ToSet(p.members[t])} =
                                  IF s \in DOMAIN p.owner THEN {p.owner[s]} ELSE {}
        /\ \A t \in DOMAIN p.members : Len(p.members[t]) >= 2 /\ IsInjective(p.members[t])
        /\ \A t \in DOMAIN p.alias : p.alias[t] \in (DOMAIN p.members \cup p.inactive) \ DOMAIN p.alias
        /\ DOMAIN p.alias \subseteq p.inactive
        /\ p.inactive \cap DOMAIN p.members = {}

\* Whatever crashes there are, the grouping changes by one whole operation that
\* the user asked for, and a task that is gone does not come back.
Groups == INSTANCE TaskGroups WITH groups <- TaskProjection.members, retired <- TaskProjection.inactive
ImplementsGroups == Groups!GroupsSpec
=============================================================================
