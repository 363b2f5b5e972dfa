--------------------------- MODULE SnapshotBuilds ---------------------------
(***************************************************************************)
(* Who builds the receipts, and when (receipt_snapshot_runtime.py): the     *)
(* managers of all daemons of a store share one lock, whose descriptor the  *)
(* worker inherits, and one checkpoint of the rest that a build has to be   *)
(* followed by. What a build reads and publishes is in ReceiptSnapshots;    *)
(* here it is the tokens it is published with.                             *)
(*                                                                         *)
(* Time is one bit: the rest that is running now is over, or it is not.     *)
(***************************************************************************)
EXTENDS StoreValues, Integers, FiniteSets

CONSTANTS
    Daemon,
    Worker,           \* room for workers that run, or have not been forgotten
    MaxInput,       \* bound: changes of the inputs
    MaxTrouble      \* bound: crashes, kills and failures to spawn

ASSUME BuildAssumption ==
    /\ Daemon \cap Worker = {}
    /\ None \notin Daemon \cup Worker
    /\ MaxInput \in Nat /\ MaxTrouble \in Nat

VARIABLES
    tokens,         \* the input and safety tokens of the inputs as they are
    published,      \* the tokens of the published generation, or None
    holders,        \* who has the locked descriptor open
    checkpoint,     \* build-budget.json, or the generation, names a rest that lasts
    manager, process,
    resting,        \* history: the rest that the last build, or failure, calls for lasts
    trouble

buildVars == <<tokens, published, holders, checkpoint, manager, process, resting, trouble>>

-----------------------------------------------------------------------------
InputTokens == [input : Nat, safety : Nat]
Watching == [pc |-> "idle", seen |-> None, child |-> None, rest |-> FALSE]
Unused == [pc |-> "none", sampled |-> None]

Running(w) == process[w].pc \in {"started", "building", "published"}
Children == {manager[d].child : d \in Daemon}

MutantAcquires(d) == \A e \in Daemon \ {d} : e \notin holders

\* flock: nobody has a locked descriptor open, neither daemon nor worker.
Acquires(d) == holders = {}

\* Appends move the input token, removals both.
InputChanges ==
    /\ tokens.input < MaxInput
    /\ \E s \in {0, 1} : tokens' = [input |-> tokens.input + 1, safety |-> tokens.safety + s]
    /\ UNCHANGED <<published, holders, checkpoint, manager, process, resting, trouble>>

\* The rest of the last build is over, by everybody's clock.
RestEnds ==
    /\ resting \/ checkpoint \/ \E d \in Daemon : manager[d].rest
    /\ resting' = FALSE
    /\ checkpoint' = FALSE
    /\ manager' = [d \in Daemon |-> [manager[d] EXCEPT !.rest = FALSE]]
    /\ UNCHANGED <<tokens, published, holders, process, trouble>>

-----------------------------------------------------------------------------
(* The worker. It publishes and leaves a checkpoint, then it exits, and its *)
(* descriptor of the lock is closed.                                       *)

Samples(w) ==
    /\ process[w].pc = "started"
    /\ process' = [process EXCEPT ![w] = [pc |-> "building", sampled |-> tokens]]
    /\ UNCHANGED <<tokens, published, holders, checkpoint, manager, resting, trouble>>

\* It publishes, or finds the safety token changed and fails; its rest begins.
\* What it publishes carries its CPU time, so the rest is known with the generation
\* or with the checkpoint behind it.
Builds(w) ==
    /\ process[w].pc = "building"
    /\ published' = IF process[w].sampled.safety = tokens.safety THEN process[w].sampled ELSE published
    /\ checkpoint' = TRUE
    /\ resting' = TRUE
    /\ process' = [process EXCEPT ![w].pc = "published"]
    /\ UNCHANGED <<tokens, holders, manager, trouble>>

Exits(w) ==
    /\ process[w].pc = "published"
    /\ process' = [process EXCEPT ![w].pc = "exited"]
    /\ holders' = holders \ {w}
    /\ UNCHANGED <<tokens, published, checkpoint, manager, resting, trouble>>

\* The kernel closes the descriptor of a killed worker. What it has used is known
\* to the daemon that waits for it, and to nobody when that is gone.
Killed(w) ==
    /\ Running(w) /\ trouble < MaxTrouble
    /\ process' = [process EXCEPT ![w].pc = IF @ = "published" THEN "exited" ELSE "killed"]
    /\ holders' = holders \ {w}
    /\ trouble' = trouble + 1
    /\ UNCHANGED <<tokens, published, checkpoint, manager, resting>>

\* An exited worker that no daemon waits for is init's to reap.
Forgotten(w) ==
    /\ process[w].pc \in {"exited", "killed"} /\ w \notin Children
    /\ process' = [process EXCEPT ![w] = Unused]
    /\ UNCHANGED <<tokens, published, holders, checkpoint, manager, resting, trouble>>

-----------------------------------------------------------------------------
(* The manager's check_once, and how its daemon ends.                       *)

MutantReap(d) ==
    LET w == manager[d].child
        owed == process[w].pc = "killed"
    IN  /\ manager[d].pc = "idle" /\ w # None
        /\ process[w].pc \in {"exited", "killed"}
        /\ checkpoint' = (checkpoint \/ owed)
        /\ resting' = (resting \/ owed)
        /\ manager' = [manager EXCEPT ![d].child = None, ![d].rest = @ \/ checkpoint']
        /\ process' = [process EXCEPT ![w] = Unused]
        /\ holders' = IF owed THEN holders ELSE holders \ {d}
        /\ UNCHANGED <<tokens, published, trouble>>

\* A worker that left no checkpoint is given one before the lock is released.
Reap(d) ==
    LET w == manager[d].child
        owed == process[w].pc = "killed"
    IN  /\ manager[d].pc = "idle" /\ w # None
        /\ process[w].pc \in {"exited", "killed"}
        /\ checkpoint' = (checkpoint \/ owed)
        /\ resting' = (resting \/ owed)
        /\ manager' = [manager EXCEPT ![d].child = None, ![d].rest = @ \/ checkpoint']
        /\ process' = [process EXCEPT ![w] = Unused]
        /\ holders' = holders \ {d}
        /\ UNCHANGED <<tokens, published, trouble>>

Look(d) ==
    /\ manager[d].pc = "idle" /\ manager[d].child = None
    /\ manager' = [manager EXCEPT ![d].pc = "looked", ![d].seen = tokens]
    /\ UNCHANGED <<tokens, published, holders, checkpoint, process, resting, trouble>>

MutantObserved(d) == manager[d].rest
Observed(d) == manager[d].rest \/ checkpoint

AtRest(d) == [manager[d] EXCEPT !.pc = "idle", !.seen = None, !.rest = Observed(d)]

\* A generation with another safety token is withdrawn. What is to be built may
\* not have settled yet, and its rest may not be over: both are waited for here.
Judge(d) ==
    /\ manager[d].pc = "looked"
    /\ LET seen == manager[d].seen
       IN  /\ published' = IF published # None /\ published.safety # seen.safety THEN None ELSE published
           /\ manager' = [manager EXCEPT ![d] =
                  IF published = seen \/ Observed(d) THEN AtRest(d) ELSE [@ EXCEPT !.pc = "locking"]]
    /\ UNCHANGED <<tokens, holders, checkpoint, process, resting, trouble>>

\* Another daemon may have built, or begun to rest, until the lock was taken.
Spawn(d) ==
    /\ manager[d].pc = "locking" /\ Acquires(d)
    /\ IF published = manager[d].seen \/ Observed(d)
       THEN /\ manager' = [manager EXCEPT ![d] = AtRest(d)]
            /\ UNCHANGED <<holders, process>>
       ELSE \E w \in Worker :
              /\ process[w].pc = "none"
              /\ process' = [process EXCEPT ![w] = [Unused EXCEPT !.pc = "started"]]
              /\ holders' = {d, w}
              /\ manager' = [manager EXCEPT ![d] = [Watching EXCEPT !.child = w]]
    /\ UNCHANGED <<tokens, published, checkpoint, resting, trouble>>

LockedOut(d) ==
    /\ manager[d].pc = "locking" /\ holders # {}
    /\ manager' = [manager EXCEPT ![d] = AtRest(d)]
    /\ UNCHANGED <<tokens, published, holders, checkpoint, process, resting, trouble>>

\* The process cannot be spawned: the lock is released, the failure backs off.
SpawnFails(d) ==
    /\ manager[d].pc = "locking" /\ Acquires(d) /\ trouble < MaxTrouble
    /\ manager' = [manager EXCEPT ![d] = [Watching EXCEPT !.rest = TRUE]]
    /\ checkpoint' = TRUE
    /\ resting' = TRUE
    /\ trouble' = trouble + 1
    /\ UNCHANGED <<tokens, published, holders, process>>

\* The daemon is killed, and started again; its worker runs on.
Crash(d) ==
    /\ trouble < MaxTrouble
    /\ manager' = [manager EXCEPT ![d] = Watching]
    /\ holders' = holders \ {d}
    /\ trouble' = trouble + 1
    /\ UNCHANGED <<tokens, published, checkpoint, process, resting>>

\* close: the child is terminated and its rest is written down.
Close(d) ==
    LET w == manager[d].child
    IN  /\ trouble < MaxTrouble
        /\ manager[d].pc = "idle" /\ w # None /\ Running(w)
        /\ manager' = [manager EXCEPT ![d] = Watching]
        /\ process' = [process EXCEPT ![w] = Unused]
        /\ holders' = holders \ {d, w}
        /\ checkpoint' = TRUE
        /\ resting' = TRUE
        /\ trouble' = trouble + 1
        /\ UNCHANGED <<tokens, published>>

-----------------------------------------------------------------------------
BuildInit ==
    /\ tokens = [input |-> 0, safety |-> 0]
    /\ published = None
    /\ holders = {}
    /\ checkpoint = FALSE
    /\ manager = [d \in Daemon |-> Watching]
    /\ process = [w \in Worker |-> Unused]
    /\ resting = FALSE
    /\ trouble = 0

ManagerNext(d) == Reap(d) \/ Look(d) \/ Judge(d) \/ Spawn(d) \/ LockedOut(d)
WorkerNext(w) == Samples(w) \/ Builds(w) \/ Exits(w) \/ Forgotten(w)

BuildNext ==
    \/ InputChanges
    \/ RestEnds
    \/ \E w \in Worker : WorkerNext(w) \/ Killed(w)
    \/ \E d \in Daemon : ManagerNext(d) \/ SpawnFails(d) \/ Crash(d) \/ Close(d)

BuildSpec == BuildInit /\ [][BuildNext]_buildVars

\* The checking thread runs while a reader looks, the worker runs, time passes.
BuildFairness ==
    /\ WF_buildVars(RestEnds)
    /\ \A w \in Worker : WF_buildVars(WorkerNext(w))
    /\ \A d \in Daemon : WF_buildVars(ManagerNext(d))

-----------------------------------------------------------------------------
BuildTypeOK ==
    /\ tokens \in InputTokens
    /\ published \in InputTokens \cup {None}
    /\ holders \subseteq Daemon \cup Worker
    /\ checkpoint \in BOOLEAN /\ resting \in BOOLEAN
    /\ manager \in [Daemon -> [pc : {"idle", "looked", "locking"}, seen : InputTokens \cup {None},
                               child : Worker \cup {None}, rest : BOOLEAN]]
    /\ process \in [Worker -> [pc : {"none", "started", "building", "published", "exited", "killed"},
                            sampled : InputTokens \cup {None}]]
    /\ trouble \in Nat

\* One worker at a time in all daemons, through crashes, kills and closed
\* descriptors; and the lock is never left with nobody who will release it: a
\* daemon that has it waits for its worker, a worker that has it still runs.
OneBuilder ==
    /\ \A v, w \in Worker : Running(v) /\ Running(w) => v = w
    /\ \A d \in Daemon \cap holders : manager[d].child # None
    /\ \A w \in Worker \cap holders : Running(w)

\* No worker is started before the rest is over that the last one's use of the
\* processor calls for: by no daemon that looked before that build or waited for
\* its lock, and by none that was restarted since.
RestIsKept ==
    [][\A w \in Worker : process[w].pc = "none" /\ process'[w].pc = "started" => ~resting]_buildVars

\* Once nothing changes the inputs any more and nothing crashes, the receipts
\* catch up and stay.
Converges == <>[](published = tokens)
=============================================================================
