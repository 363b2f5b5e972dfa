--------------------------- MODULE IngestionHealth ---------------------------
(***************************************************************************)
(* Whether usage is imported, and whether the imports go well: the health   *)
(* file with the watcher's lease, the scans under way and a receipt per     *)
(* source (ingestion_health.py), and the processes that write it (usage     *)
(* watch and import-local in cli.py).                                      *)
(*                                                                         *)
(* A lease is named by the process that draws it, which draws one only. A   *)
(* call is one step: it reads and replaces the file under the lock.        *)
(***************************************************************************)
EXTENDS StoreValues, Naturals

CONSTANTS
    Process,        \* by process id; none is used again
    Source,
    Selection,      \* the sets of sources that --client stands for
    BuildOf,        \* the importer's version that a process runs
    StaleAfter,     \* _watcher_stale_after
    MaxSkips,       \* MAX_SKIPS_BEFORE_FULL
    MaxTime,        \* bound: the clock
    MaxScan         \* bound: scans that begin, and damages of the file, together

\* What an importer finds in a source: nothing wrong, only races with a client that
\* wrote its log (_TRANSIENT_RECEIPT_CODES), or anything else.
Finding == {"clean", "transient", "error"}
Verdicts == Finding \cup {"unchanged"}
Fine == {"clean", "unchanged"}

\* The receipt of a source: the scan that it belongs to, what it found, and when.
Receipts ==
    [scan : Nat, pid : Process, errors : Finding, success : Nat \cup {None},
     failure : Nat \cup {None}, streak : Nat]

\* The lease of the last watcher.
Watchers ==
    [running : BOOLEAN, lease : Process, sources : SUBSET Source, started : Nat, heartbeat : Nat]

ASSUME HealthAssumption ==
    /\ Selection \subseteq SUBSET Source
    /\ None \notin Nat \cup Process \cup Receipts \cup Watchers
    /\ {StaleAfter, MaxSkips, MaxTime, MaxScan} \subseteq Nat

VARIABLES
    health,         \* state.json
    now,            \* time.time(), as far as it is compared
    job,            \* what each process does
    scansBegun,     \* scan ids are drawn in the order of begin_scan
    damage,
    inspected,      \* the scans of dead processes that a repair has found
    departed,       \* the watcher that a runtime has found dead, or None
    past            \* history: per source the last two outcomes recorded, and the scan
                    \* that the last one is of

bounded == <<now, scansBegun, damage>>
repairs == <<inspected, departed>>
healthVars == <<health, job, bounded, repairs, past>>

-----------------------------------------------------------------------------
(* The file.                                                               *)

\* _empty_state, and what every reader takes a file for that it cannot read.
EmptyHealth(corrupt) ==
    [corrupt |-> corrupt, watcher |-> None, scans |-> {},
     receipts |-> [s \in Source |-> None]]

WatcherRuns == health.watcher # None /\ health.watcher.running
Holds(p) == WatcherRuns /\ health.watcher.lease = p
IsFresh == now <= health.watcher.heartbeat + StaleAfter
Dead == {p \in Process : job[p].pc = "gone"}

\* The receipt at the beginning of a scan: it keeps what was known before.
Attempted(r, x) ==
    IF r = None
    THEN [scan |-> x.id, pid |-> x.pid, errors |-> "clean",
          success |-> None, failure |-> None, streak |-> 0]
    ELSE [r EXCEPT !.scan = x.id, !.pid = x.pid]

\* ... and at its end.
Ended(r, outcome) ==
    IF outcome \in Fine
    THEN [r EXCEPT !.errors = "clean", !.success = now, !.streak = 0]
    ELSE [r EXCEPT !.errors = outcome, !.failure = now, !.streak = @ + 1]

MutantSpeaks(x, s) == s \in x.sources
\* An older scan leaves the receipt of a newer attempt alone.
Speaks(x, s) == s \in x.sources /\ health.receipts[s].scan = x.id

\* complete_scan and fail_scan, of a scan that is still registered.
Records(x, outcome) ==
    /\ health' = [health EXCEPT
                     !.scans = @ \ {x},
                     !.receipts = [s \in Source |->
                         IF Speaks(x, s) THEN Ended(@[s], outcome[s]) ELSE @[s]]]
    /\ past' = [s \in Source |->
                   IF Speaks(x, s) THEN [of |-> x.id, last |-> outcome[s], before |-> past[s].last]
                   ELSE past[s]]

Registered(p) == {x \in health.scans : x.id = job[p].scan}

-----------------------------------------------------------------------------
(* usage watch and import-local.                                           *)

NoJob(pc) ==
    [pc |-> pc, watches |-> FALSE, sources |-> {}, scan |-> 0, skips |-> 0,
     print |-> FALSE, committed |-> FALSE]

Goto(p, pc) == job' = [job EXCEPT ![p].pc = pc]
Returned(p) == [job[p] EXCEPT !.pc = "after", !.scan = 0, !.print = FALSE]
Quits(p) == job' = [job EXCEPT ![p] = NoJob("gone")]

\* import-local, usage watch --once; a dashboard may import again.
StartImport(p) ==
    /\ job[p].pc \in {"new", "idle"}
    /\ \E sources \in Selection :
         job' = [job EXCEPT ![p].pc = "begin", ![p].sources = sources]
    /\ UNCHANGED <<health, bounded, repairs, past>>

\* acquire_watcher retires the scans of the watcher that it replaces, hung or not, and
\* those of dead processes.
Superseded == IF WatcherRuns THEN {health.watcher.lease} ELSE {}

StartWatch(p) ==
    /\ job[p].pc = "new"
    /\ ~(WatcherRuns /\ IsFresh)
    /\ \E sources \in Selection :
         /\ health' = [health EXCEPT
                          !.corrupt = FALSE,
                          !.watcher = [running |-> TRUE, lease |-> p, sources |-> sources,
                                       started |-> now, heartbeat |-> now],
                          !.scans = {x \in @ : x.pid \notin Superseded \cup Dead}]
         /\ job' = [job EXCEPT ![p].pc = "top", ![p].sources = sources, ![p].watches = TRUE]
    /\ UNCHANGED <<bounded, repairs, past>>

WatchRefused(p) ==
    /\ job[p].pc = "new"
    /\ WatcherRuns /\ IsFresh
    /\ Quits(p)
    /\ UNCHANGED <<health, bounded, repairs, past>>

\* heartbeat_watcher, before and after each scan: without its lease a watcher ends. Before
\* a scan the logs' fingerprint is read: it is as it was when the last import that returned
\* was about to begin, in which case an unchanged scan may take the place of an import; or
\* it is another, or cannot be read.
Beat(p) ==
    /\ job[p].pc \in {"top", "after"}
    /\ Holds(p)
    /\ health' = [health EXCEPT !.watcher.heartbeat = now]
    /\ \/ job[p].pc = "after" /\ Goto(p, "top")
       \/ job[p].pc = "top" /\ job[p].committed /\ job[p].skips < MaxSkips /\ Goto(p, "skip")
       \/ /\ job[p].pc = "top"
          /\ \E read \in BOOLEAN : job' = [job EXCEPT ![p].pc = "begin", ![p].print = read]
    /\ UNCHANGED <<bounded, repairs, past>>

LosesLease(p) ==
    /\ job[p].pc \in {"top", "after"}
    /\ ~Holds(p)
    /\ Goto(p, "leave")
    /\ UNCHANGED <<health, bounded, repairs, past>>

\* begin_scan does not look at the lease.
Begins(p) ==
    LET x == [id |-> scansBegun + 1, pid |-> p, sources |-> job[p].sources]
    IN  /\ job[p].pc \in {"begin", "skip"}
        /\ scansBegun + damage < MaxScan /\ scansBegun' = x.id
        /\ health' = [health EXCEPT
                         !.corrupt = FALSE,
                         !.scans = @ \cup {x},
                         !.receipts = [s \in Source |->
                             IF s \in x.sources THEN Attempted(@[s], x) ELSE @[s]]]
        /\ job' = [job EXCEPT ![p].scan = x.id,
                              ![p].pc = IF @ = "begin" THEN "scanning" ELSE "skipping"]
        /\ UNCHANGED <<now, damage, repairs, past>>

\* The import returns, whatever it found: _scan_and_report is true.
ImportEnds(p) ==
    /\ job[p].pc = "scanning"
    /\ \E x \in Registered(p), finding \in [Source -> Finding] : Records(x, finding)
    /\ job' = [job EXCEPT ![p] =
                  IF @.watches
                  THEN [Returned(p) EXCEPT !.committed = @ \/ job[p].print, !.skips = 0]
                  ELSE NoJob("idle")]
    /\ UNCHANGED <<bounded, repairs>>

\* The import raises: fail_scan records it, overlooks it because the scan is no longer
\* registered, or cannot write either.
ImportFails(p) ==
    /\ job[p].pc = "scanning"
    /\ job' = [job EXCEPT ![p] = IF @.watches THEN Returned(p) ELSE NoJob("idle")]
    /\ \/ \E x \in Registered(p) : Records(x, [s \in Source |-> "error"])
       \/ UNCHANGED <<health, past>>
    /\ UNCHANGED <<bounded, repairs>>

\* The unchanged scan has read nothing and found nothing wrong; that it cannot be recorded
\* is passed over.
SkipEnds(p) ==
    /\ job[p].pc = "skipping"
    /\ \/ \E x \in Registered(p) : Records(x, [s \in Source |-> "unchanged"])
       \/ UNCHANGED <<health, past>>
    /\ job' = [job EXCEPT ![p] = [Returned(p) EXCEPT !.skips = @ + 1]]
    /\ UNCHANGED <<bounded, repairs>>

\* SIGTERM, noticed between a scan and the next; an interrupt is not, and leaves the scan
\* registered.
StopWatch(p) ==
    /\ job[p].watches
    /\ job[p].pc \in {"top", "after", "scanning", "skipping"}
    /\ Goto(p, "leave")
    /\ UNCHANGED <<health, bounded, repairs, past>>

\* release_watcher, of a lease that may be another's by now.
Release(lease) ==
    health' = IF health.watcher # None /\ health.watcher.lease = lease
              THEN [health EXCEPT !.watcher.running = FALSE, !.watcher.heartbeat = now]
              ELSE health

Leave(p) ==
    /\ job[p].pc = "leave"
    /\ Release(p)
    /\ Quits(p)
    /\ UNCHANGED <<bounded, repairs, past>>

\* The process exits or is killed.
Die(p) ==
    /\ job[p].pc \notin {"new", "gone"}
    /\ Quits(p)
    /\ UNCHANGED <<health, bounded, repairs, past>>

-----------------------------------------------------------------------------
(* Repairs, each in two calls.                                             *)

\* repair_dead_active_scans: processes are looked for without the lock.
Inspect ==
    /\ inspected = {} /\ ~health.corrupt
    /\ inspected' = {x \in health.scans : x.pid \in Dead} /\ inspected' # {}
    /\ UNCHANGED <<health, bounded, job, departed, past>>

Repair ==
    /\ inspected # {} /\ inspected' = {}
    /\ health' = [health EXCEPT !.scans = @ \ inspected]
    /\ UNCHANGED <<bounded, job, departed, past>>

\* runtime_watcher_snapshot: it releases the lease of a watcher that is gone although
\* its heartbeat is young.
FindDeparted ==
    /\ departed = None
    /\ WatcherRuns /\ IsFresh /\ health.watcher.lease \in Dead
    /\ departed' = health.watcher.lease
    /\ UNCHANGED <<health, bounded, job, inspected, past>>

MutantRetire ==
    /\ departed # None /\ departed' = None
    /\ health' = IF WatcherRuns
                 THEN [health EXCEPT !.watcher.running = FALSE, !.watcher.heartbeat = now]
                 ELSE health
    /\ UNCHANGED <<bounded, job, inspected, past>>

Retire ==
    /\ departed # None /\ departed' = None
    /\ Release(departed)
    /\ UNCHANGED <<bounded, job, inspected, past>>

-----------------------------------------------------------------------------
ClockTicks ==
    /\ now < MaxTime /\ now' = now + 1
    /\ UNCHANGED <<health, job, scansBegun, damage, repairs, past>>

\* The file is spoilt from outside.
Damage ==
    /\ scansBegun + damage < MaxScan /\ damage' = damage + 1
    /\ health' = EmptyHealth(TRUE)
    /\ UNCHANGED <<now, job, scansBegun, repairs, past>>

HealthInit ==
    /\ health = EmptyHealth(FALSE) /\ now = 0
    /\ job = [p \in Process |-> NoJob("new")]
    /\ scansBegun = 0 /\ damage = 0
    /\ inspected = {} /\ departed = None
    /\ past = [s \in Source |-> [of |-> 0, last |-> None, before |-> None]]

Works(p) ==
    \/ StartImport(p) \/ StartWatch(p) \/ WatchRefused(p) \/ Beat(p) \/ LosesLease(p) \/ Begins(p)
    \/ ImportEnds(p) \/ ImportFails(p) \/ SkipEnds(p) \/ StopWatch(p) \/ Leave(p) \/ Die(p)

HealthNext ==
    \/ \E p \in Process : Works(p)
    \/ Inspect \/ Repair \/ FindDeparted \/ Retire
    \/ ClockTicks \/ Damage

HealthSpec == HealthInit /\ [][HealthNext]_healthVars

-----------------------------------------------------------------------------
(* snapshot: what it shows of a source.                                    *)

InScope(s) == WatcherRuns /\ IsFresh /\ s \in health.watcher.sources

MutantSuppressed(r) == r.errors # "clean" /\ r.streak < 2
\* A race with a client is passed over once (_DEGRADE_AFTER_CONSECUTIVE_FAILURES).
Suppressed(r) == r.errors = "transient" /\ r.streak < 2
FailedAfterSuccess(r) == r.failure # None /\ (r.success = None \/ r.failure > r.success)

\* The source is healthy: in the scope of a watcher that is at work, on its account.
Green(s) ==
    LET r == health.receipts[s]
        sound == r.errors = "clean" /\ ~FailedAfterSuccess(r)
    IN  /\ r # None /\ r.success # None
        /\ \/ ~InScope(s) /\ (Suppressed(r) \/ sound)
           \/ /\ InScope(s) /\ r.success >= health.watcher.started
              /\ Suppressed(r) \/ (sound /\ BuildOf[r.pid] = BuildOf[health.watcher.lease])

Scans == [id : Nat, pid : Process, sources : SUBSET Source]
Steps == {"new", "idle", "top", "begin", "scanning", "skip", "skipping", "after", "leave", "gone"}
Jobs ==
    [pc : Steps, watches : BOOLEAN, sources : SUBSET Source, scan : Nat, skips : Nat,
     print : BOOLEAN, committed : BOOLEAN]
Pasts == [of : Nat, last : Verdicts \cup {None}, before : Verdicts \cup {None}]

\* Types.
HealthTypeOK ==
    /\ health \in [corrupt : BOOLEAN, watcher : Watchers \cup {None}, scans : SUBSET Scans,
                   receipts : [Source -> Receipts \cup {None}]]
    /\ {now, scansBegun, damage} \subseteq Nat
    /\ job \in [Process -> Jobs]
    /\ inspected \subseteq Scans /\ departed \in Process \cup {None}
    /\ past \in [Source -> Pasts]

\* Outcomes are recorded in the order in which scans began: a slow import never overwrites
\* what a newer one has found, whether scans overlap, fail, are retired or left behind, and
\* also when the file was spoilt in between.
OlderScansYield ==
    [][\A s \in Source : past'[s] # past[s] => past'[s].of > past[s].of]_healthVars

\* A source is shown healthy only if the last outcome recorded for it was clean, or a race
\* with a client that followed a clean one: no failure is hidden by a scan that is under
\* way, by a restart of the watcher or by a file that was spoilt in between.
GreenHasReason ==
    \A s \in Source : Green(s) =>
        \/ past[s].last \in Fine
        \/ past[s].last = "transient" /\ past[s].before \in Fine

\* Nobody ends the lease or the scan of a process that lives: it does so itself, or
\* another watcher takes over from one whose heartbeat is old, or the file is spoilt.
TakenOver(p) == Holds(p) /\ ~IsFresh /\ ~Holds(p)'
LiveIsUndisturbed == [][
    ~health'.corrupt =>
        /\ \A p \in Process \ Dead :
             Holds(p) /\ ~Holds(p)' => TakenOver(p) \/ job[p].pc = "leave"
        /\ \A x \in health.scans \ health'.scans :
             x.pid \notin Dead => TakenOver(x.pid) \/ job'[x.pid] # job[x.pid]]_healthVars

\* After the derived Evidence write, or anything else, failed, health does not remain
\* green until an import succeeds ("cannot remain green ... A later clean scan simply writes
\* clean source receipts").
GreenWasRead ==
    \A s \in Source : Green(s) => ~(past[s].last = "unchanged" /\ past[s].before = "error")
=============================================================================
