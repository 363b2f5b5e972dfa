-------------------------- MODULE ReceiptSnapshots --------------------------
(***************************************************************************)
(* The raw event log and the receipts served from snapshots of it          *)
(* (event_log.py, service.py, receipt_snapshot_*.py).                      *)
(*                                                                         *)
(* Writers append to the log, replace its rows and restore a backup of it; *)
(* a process of an older release still writes the flat file, which every   *)
(* service drains into the log. A daemon's manager has a worker build the  *)
(* receipts when their inputs have changed, one worker at a time in all    *)
(* daemons, and a reader is answered from the last build without waiting.  *)
(*                                                                         *)
(* A row is an Item; what a receipt says of it, other than the counters    *)
(* that a usage refresh may move, is its Fact. The inputs that are files   *)
(* (continuations, costs, runs) are one number.                            *)
(***************************************************************************)
EXTENDS StoreValues, Integers, FiniteSets

CONSTANTS
    Item, Fact,
    MaxRows,        \* bound: rows that one change takes out or puts in
    MaxChange       \* bound: changes that anybody makes to the inputs

ASSUME ReceiptAssumption ==
    /\ IsFiniteSet(Item)
    /\ None \notin Item \cup Nat
    /\ {MaxRows, MaxChange} \subseteq Nat

VARIABLES
    log,            \* events.sqlite3
    backup,         \* a copy of it, taken some time ago, or None
    flat,           \* events.jsonl
    files,          \* the other inputs
    deleted,        \* history: rows that a rewrite took out of the log
    changes,        \* how often one of them has been changed
    generation,     \* snapshots.sqlite3
    worker, reader

inputs == <<log, backup, flat, files, deleted, changes>>
receiptVars == <<inputs, generation, worker, reader>>

-----------------------------------------------------------------------------
Log == [items : SUBSET Item, revision : Nat, destructive : Nat, restored : Nat,
        absorbed : SUBSET Item]
Flat == [items : SUBSET Item, stamp : Nat]

\* The safety token revokes a snapshot, the input token makes it out of date.
Safety == [destructive : Nat, restored : Nat, stamp : Nat, files : Nat]
Tokens == [revision : Nat, safety : Safety]

SafetyNow ==
    [destructive |-> log.destructive, restored |-> log.restored, stamp |-> flat.stamp,
     files |-> files]
InputState == [revision |-> log.revision, safety |-> SafetyNow]

Generation == [tokens : Tokens, items : SUBSET Item, files : Nat]

Facts(items) == {Fact[i] : i \in items}

\* usage_refresh_preserves_snapshots: no fact has fewer rows than it had.
Preserves(old, new) ==
    \A f \in Facts(old) :
        Cardinality({i \in old : Fact[i] = f}) <= Cardinality({i \in new : Fact[i] = f})

-----------------------------------------------------------------------------
(* The log. An item is used once: its id is the server's own.              *)

Fresh(i) == i \notin log.items \cup deleted \cup flat.items

AppendRow(i) ==
    /\ Fresh(i)
    /\ log' = [log EXCEPT !.items = @ \cup {i}, !.revision = @ + 1]
    /\ UNCHANGED <<backup, flat, files, deleted>>

MutantDestroyed(old, new, trusted) == ~trusted

\* Deleting and inserting every row fires the triggers of both.
Destroyed(old, new, trusted) == ~(trusted /\ Preserves(old, new))

\* replace_all, of the rows out by the rows in.
ReplaceRows(out, in, trusted) ==
    LET new == (log.items \ out) \cup in
    IN  /\ Cardinality(out) <= MaxRows /\ Cardinality(in) <= MaxRows
        /\ \A i \in in : Fresh(i)
        /\ log.items # {}
        /\ log' = [log EXCEPT !.items = new, !.revision = @ + 1,
                       !.destructive = IF Destroyed(log.items, new, trusted) THEN @ + 1 ELSE @]
        /\ deleted' = deleted \cup out
        /\ UNCHANGED <<backup, flat, files>>

MutantAbsorbed(l, items) ==
    LET new == items \ (l.absorbed \cup l.items)
    IN  [l EXCEPT !.items = @ \cup new, !.absorbed = @ \cup new,
                  !.revision = IF new = {} THEN @ ELSE @ + 1]

\* absorb_new_events: every key of the flat file is recorded, whether its row is
\* new to the log or not.
Absorbed(l, items) ==
    LET new == items \ (l.absorbed \cup l.items)
    IN  [l EXCEPT !.items = @ \cup new, !.absorbed = @ \cup items,
                  !.revision = IF new = {} THEN @ ELSE @ + 1]

\* Opening a service, as a worker does before all else, drains the flat file, and
\* so does a read after the file changed.
OpenService ==
    /\ log' = Absorbed(log, flat.items)
    /\ UNCHANGED <<backup, flat, files, deleted, changes, generation, worker, reader>>

\* A process of an older release appends to the flat file, or rewrites it.
OldWrite(items) ==
    /\ Cardinality((flat.items \ items) \cup (items \ flat.items)) <= MaxRows
    /\ \A i \in items \ flat.items : Fresh(i)
    /\ flat' = [items |-> items, stamp |-> flat.stamp + 1]
    /\ UNCHANGED <<log, backup, files, deleted>>

ChangeFiles ==
    /\ files' = files + 1
    /\ UNCHANGED <<log, backup, flat, deleted>>

Backup ==
    /\ backup # log
    /\ backup' = log
    /\ UNCHANGED <<log, flat, files, deleted>>

\* A restored log has another inode, or another schema cookie in the same one.
Restored(l) == [backup EXCEPT !.restored = l.restored + 1]

Restore ==
    /\ backup # None
    /\ log' = Restored(log)
    /\ deleted' = {}
    /\ UNCHANGED <<backup, flat, files>>

InputsChange ==
    /\ changes < MaxChange
    /\ changes' = changes + 1
    /\ \/ \E i \in Item : AppendRow(i)
       \/ \E out \in SUBSET log.items, in \in SUBSET Item, trusted \in BOOLEAN :
             ReplaceRows(out, in, trusted)
       \/ \E items \in SUBSET Item : OldWrite(items)
       \/ ChangeFiles
       \/ Backup
       \/ Restore
    /\ UNCHANGED <<generation, worker, reader>>

-----------------------------------------------------------------------------
(* The worker: a process that builds the receipts and is gone. That there is *)
(* never more than one of them is for SnapshotBuilds.                       *)

NoWorker == [pc |-> "none", tokens |-> None, items |-> {}, files |-> 0]

\* The tokens are sampled before the inputs are read.
WorkerSamples ==
    /\ worker.pc = "none"
    /\ worker' = [worker EXCEPT !.pc = "sampled", !.tokens = InputState]
    /\ UNCHANGED <<inputs, generation, reader>>

\* list_all_events drains the flat file first; that it cannot is no error.
WorkerReads ==
    /\ worker.pc = "sampled"
    /\ log' \in {log, Absorbed(log, flat.items)}
    /\ worker' = [worker EXCEPT !.pc = "read", !.items = log'.items]
    /\ UNCHANGED <<backup, flat, files, deleted, changes, generation, reader>>

WorkerReadsFiles ==
    /\ worker.pc = "read"
    /\ worker' = [worker EXCEPT !.pc = "captured", !.files = files]
    /\ UNCHANGED <<inputs, generation, reader>>

\* A destructive change since the sample invalidates the capture: the worker fails.
Unspoilt == worker.tokens.safety = SafetyNow

WorkerVerifies ==
    /\ worker.pc = "captured" /\ Unspoilt
    /\ worker' = [worker EXCEPT !.pc = "verified"]
    /\ UNCHANGED <<inputs, generation, reader>>

MutantPublished == [tokens |-> InputState, items |-> worker.items, files |-> worker.files]
Published == [tokens |-> worker.tokens, items |-> worker.items, files |-> worker.files]

\* One transaction publishes the whole generation, whatever has changed by now.
Publish ==
    /\ worker.pc = "verified"
    /\ generation' = Published
    /\ worker' = NoWorker
    /\ UNCHANGED <<inputs, reader>>

\* It fails, or is killed.
WorkerFails ==
    /\ worker.pc # "none"
    /\ worker' = NoWorker
    /\ UNCHANGED <<inputs, generation, reader>>

\* A manager withdraws a generation whose safety token has been revoked.
Withdraw ==
    /\ generation # None /\ generation.tokens.safety # SafetyNow
    /\ generation' = None
    /\ UNCHANGED <<inputs, worker, reader>>

WorkerStep ==
    \/ WorkerSamples \/ WorkerReads \/ WorkerReadsFiles \/ WorkerVerifies
    \/ Publish \/ WorkerFails

-----------------------------------------------------------------------------
(* A request: manager.read, manager.status, perhaps read again, respond.    *)

Waiting == [pc |-> "idle", entry |-> None, state |-> None]

\* manager.read: one SELECT binds the payload and its generation. There is no
\* entry when the key has none, or when the safety token moved before the SELECT.
ReadEntry ==
    /\ reader.pc \in {"idle", "again"}
    /\ \E entry \in {generation, None} :
           reader' = [reader EXCEPT !.pc = "after", !.entry = entry]
    /\ UNCHANGED <<inputs, generation, worker>>

\* The safety token is read again behind the SELECT.
ReadAfter ==
    /\ reader.pc = "after"
    /\ LET safe == reader.entry # None /\ reader.entry.tokens.safety = SafetyNow
       IN  reader' = [reader EXCEPT !.entry = IF safe THEN @ ELSE None,
                         !.pc = IF reader.state = None THEN "status" ELSE "respond"]
    /\ UNCHANGED <<inputs, generation, worker>>

\* The generation and then the tokens. An entry is served by what Respond reads.
ReadStatus ==
    /\ reader.pc = "status"
    /\ LET state == IF generation = None \/ generation.tokens.safety # SafetyNow THEN "pending"
                    ELSE IF generation.tokens = InputState THEN "current" ELSE "updating"
       IN  reader' = [reader EXCEPT !.state = state,
                         !.pc = IF reader.entry = None /\ state = "current"
                                THEN "again" ELSE "respond"]
    /\ UNCHANGED <<inputs, generation, worker>>

Revoked == SafetyNow # reader.entry.tokens.safety

Response ==
    IF reader.entry = None
    THEN [code |-> IF reader.state = "current" THEN 404 ELSE 202, state |-> None, items |-> {}, files |-> 0]
    ELSE IF Revoked THEN [code |-> 202, state |-> None, items |-> {}, files |-> 0]
    ELSE [code |-> 200, state |-> IF reader.entry.tokens = InputState THEN "current" ELSE "updating",
          items |-> reader.entry.items, files |-> reader.entry.files]

Respond ==
    /\ reader.pc = "respond"
    /\ reader' = Waiting
    /\ UNCHANGED <<inputs, generation, worker>>

ReaderStep == ReadEntry \/ ReadAfter \/ ReadStatus \/ Respond

-----------------------------------------------------------------------------
\* The store of an older release: its rows are in the flat file and, mirrored,
\* in the log. A service of this release has just opened it.
ReceiptInit ==
    /\ \E old \in SUBSET Item :
          /\ Cardinality(old) <= MaxRows
          /\ flat = [items |-> old, stamp |-> 0]
          /\ log = Absorbed([items |-> old, revision |-> 0, destructive |-> 0, restored |-> 0,
                             absorbed |-> {}], old)
    /\ backup \in {None, log}
    /\ files = 0
    /\ deleted = {}
    /\ generation = None
    /\ worker = NoWorker
    /\ reader = Waiting
    /\ changes = 0

ReceiptNext == InputsChange \/ OpenService \/ WorkerStep \/ Withdraw \/ ReaderStep

ReceiptSpec == ReceiptInit /\ [][ReceiptNext]_receiptVars

-----------------------------------------------------------------------------
ReceiptTypeOK ==
    /\ log \in Log
    /\ backup \in Log \cup {None}
    /\ flat \in Flat
    /\ files \in Nat
    /\ deleted \subseteq Item
    /\ generation \in Generation \cup {None}
    /\ worker \in [pc : {"none", "sampled", "read", "captured", "verified"},
                   tokens : Tokens \cup {None}, items : SUBSET Item, files : Nat]
    /\ reader \in [pc : {"idle", "again", "after", "status", "respond"},
                   entry : Generation \cup {None},
                   state : {"pending", "current", "updating", None}]
    /\ changes \in Nat

\* A receipt lags ordinary appends but never survives the removal of its data:
\* whatever was appended, rewritten, restored or published while the request and
\* the build ran, a served receipt says nothing that the log no longer says when
\* it is answered, and reads no file that has changed since.
ServedHoldsNothingRemoved ==
    reader.pc = "respond" /\ Response.code = 200 =>
        Facts(Response.items) \subseteq Facts(log.items) /\ Response.files = files

\* A receipt served as current is what a build of the log as it is now would
\* give, counters included, though nothing is read in one transaction.
CurrentIsCurrent ==
    reader.pc = "respond" /\ Response.code = 200 /\ Response.state = "current" =>
        Response.items = log.items /\ Response.files = files

\* A row that a rewrite took out of the log does not come back from the flat file.
DeletedStaysDeleted == deleted \cap log.items = {}
=============================================================================
