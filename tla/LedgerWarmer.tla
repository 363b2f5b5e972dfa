---------------------------- MODULE LedgerWarmer ----------------------------
(***************************************************************************)
(* The thread that rebuilds the work ledger's caches after a change of the  *)
(* store while somebody reads (ledger_warmer.py). The store is written at   *)
(* any time, also during a rebuild, and requests are noted at any time.     *)
(*                                                                         *)
(* Time passes in ticks, of a check interval each. The moments that the     *)
(* code keeps are kept as ages, no further than they are compared.          *)
(***************************************************************************)
EXTENDS StoreValues, Naturals, FiniteSetsExt

CONSTANTS
    Token,          \* what a change token may be
    Settle,         \* settle_seconds, in ticks, as are the next two
    MaxWait,        \* max_wait_seconds
    Window,         \* reader_window_seconds
    RestFactor,     \* rest_factor
    MaxBuild        \* bound: ticks of a rebuild that count

\* The code's times are numbers and not None, and a store that is written gets a
\* token that is none of the five which the warmer may compare it to.
ASSUME WarmerAssumption ==
    /\ None \notin Token /\ None \notin Nat
    /\ \A old1, old2, old3, old4, old5 \in Token \cup {None} :
          \E t \in Token : t \notin {old1, old2, old3, old4, old5}
    /\ {Settle, MaxWait, Window, RestFactor, MaxBuild} \subseteq Nat

VARIABLES
    store,          \* the change token of the store as it is
    sinceReader,    \* of _last_reader_at; Window + 1 is outside of the window
    builtToken,     \* _built_token, None before the first rebuild
    unbuiltToken,   \* _unbuilt_token
    sinceFirst,     \* of _first_unbuilt_change_at
    sinceChange,    \* of _last_change_at
    rest,           \* what is left until _resting_until
    thread,         \* where the thread is
    token,          \* the token that the thread's rebuild was started for
    took,           \* ticks since the rebuild began
    seen,           \* the store that the last rebuild read, or failed to
    passedOver      \* consecutive checks that found a change and no rest, and left it

readerVars == <<store, sinceReader>>
ruleVars == <<builtToken, unbuiltToken, sinceFirst, sinceChange, rest>>
threadVars == <<thread, token, took, seen, passedOver>>
warmerVars == <<readerVars, ruleVars, threadVars>>

-----------------------------------------------------------------------------
IsWatching == sinceReader <= Window

\* A token is unlike every one that is still in use.
Write ==
    /\ store' = CHOOSE t \in Token \ {store, builtToken, unbuiltToken, token, seen} : TRUE
    /\ UNCHANGED <<sinceReader, ruleVars, threadVars>>

\* note_reader. Requests start the thread if it was never started; one that was
\* stopped is not started again.
NoteReader ==
    /\ sinceReader' = 0
    /\ thread' = IF thread = "new" THEN "started" ELSE thread
    /\ UNCHANGED <<store, ruleVars, token, took, seen, passedOver>>

Later(age, most) == IF age = None THEN None ELSE Min({age + 1, most})

\* _stop.wait(check_interval_seconds) is over.
Tick ==
    /\ sinceReader' = Later(sinceReader, Window + 1)
    /\ sinceFirst' = Later(sinceFirst, MaxWait)
    /\ sinceChange' = Later(sinceChange, Settle)
    /\ rest' = IF rest = 0 THEN 0 ELSE rest - 1
    /\ took' = IF thread \in {"rebuilding", "recording"} THEN Later(took, MaxBuild) ELSE 0
    /\ thread' = IF thread = "waiting" THEN "due" ELSE thread
    /\ UNCHANGED <<store, builtToken, unbuiltToken, token, seen, passedOver>>

-----------------------------------------------------------------------------
Forget == unbuiltToken' = None /\ sinceFirst' = None /\ sinceChange' = None

Wait == thread' = "waiting" /\ UNCHANGED <<builtToken, rest, token, took, seen, readerVars>>

\* _run_rebuild, with the token that was read before.
Begin ==
    /\ thread' = "rebuilding" /\ token' = store /\ took' = 0
    /\ UNCHANGED <<builtToken, rest, seen, readerVars>>

\* check_once with nobody reading, or with nothing to build.
CheckIdle ==
    /\ thread = "due"
    /\ ~IsWatching \/ store = builtToken
    /\ Forget /\ Wait
    /\ passedOver' = 0

\* The change token cannot be read.
CheckUnreadable ==
    /\ thread = "due"
    /\ IsWatching
    /\ Wait /\ UNCHANGED <<unbuiltToken, sinceFirst, sinceChange, passedOver>>

\* What a check makes of the ages: a store that it has not seen yet is a change.
IsChange == sinceFirst = None \/ store # unbuiltToken
FirstAge == IF sinceFirst = None THEN 0 ELSE sinceFirst
ChangeAge == IF IsChange THEN 0 ELSE sinceChange

MutantRebuildIsDue == ChangeAge >= Settle /\ rest = 0

RebuildIsDue == (ChangeAge >= Settle \/ FirstAge >= MaxWait) /\ rest = 0

CheckChanged ==
    /\ thread = "due"
    /\ IsWatching /\ store # builtToken
    /\ unbuiltToken' = store /\ sinceFirst' = FirstAge /\ sinceChange' = ChangeAge
    /\ \/ /\ ~RebuildIsDue /\ Wait
          /\ passedOver' = IF rest = 0 THEN Later(passedOver, MaxWait + 1) ELSE passedOver
       \/ /\ RebuildIsDue /\ Begin
          /\ passedOver' = 0

\* rebuild_now, the first thing that the thread does, unless the token cannot be read.
Startup ==
    /\ thread = "started"
    /\ Begin \/ Wait
    /\ UNCHANGED <<unbuiltToken, sinceFirst, sinceChange, passedOver>>

\* The store is read as it is by then. The code makes no difference between a
\* rebuild that fails and one that does not.
RebuildReads ==
    /\ thread = "rebuilding"
    /\ thread' = "recording"
    /\ seen' = store
    /\ UNCHANGED <<token, took, passedOver, ruleVars, readerVars>>

MutantBuilt == store

Built == token

\* _run_rebuild, behind the rebuild and whatever became of it.
RebuildEnds ==
    /\ thread = "recording"
    /\ builtToken' = Built
    /\ Forget
    /\ rest' = took * RestFactor
    /\ thread' = "waiting"
    /\ token' = None /\ took' = 0
    /\ UNCHANGED <<seen, passedOver, readerVars>>

\* The service shuts down: the thread is not waited for and makes no further check.
Stop ==
    /\ thread = "waiting"
    /\ thread' = "stopped"
    /\ UNCHANGED <<token, took, seen, passedOver, ruleVars, readerVars>>

Check == CheckIdle \/ CheckUnreadable \/ CheckChanged
Rebuild == Startup \/ RebuildReads \/ RebuildEnds

WarmerInit ==
    /\ store = CHOOSE t \in Token : TRUE
    /\ sinceReader = Window + 1
    /\ builtToken = None /\ unbuiltToken = None /\ sinceFirst = None /\ sinceChange = None
    /\ rest = 0
    /\ thread = "new" /\ token = None /\ took = 0 /\ seen = None
    /\ passedOver = 0

WarmerNext == Write \/ NoteReader \/ Tick \/ Check \/ Rebuild \/ Stop

WarmerSpec == WarmerInit /\ [][WarmerNext]_warmerVars

-----------------------------------------------------------------------------
WarmerTypeOK ==
    /\ {store, builtToken, unbuiltToken, token, seen} \subseteq Token \cup {None} /\ store # None
    /\ sinceReader \in 0 .. Window + 1
    /\ sinceFirst \in 0 .. MaxWait \cup {None} /\ sinceChange \in 0 .. Settle \cup {None}
    /\ rest \in 0 .. MaxBuild * RestFactor /\ took \in 0 .. MaxBuild
    /\ thread \in {"new", "started", "waiting", "due", "rebuilding", "recording", "stopped"}
    /\ passedOver \in 0 .. MaxWait + 1

\* A store that the warmer takes for built is the one that its last rebuild has read: a
\* write that lands during a rebuild is a change for the next check.
BuiltWasSeen == thread # "recording" /\ store = builtToken => seen = store

\* Writes that never pause do not postpone a rebuild for longer than max_wait: so many
\* checks in a row, an interval apart, may find a change and leave it, those not
\* counted that fall into the rest after a rebuild or cannot read the store.
ChangesAreBuilt == passedOver <= MaxWait
=============================================================================
