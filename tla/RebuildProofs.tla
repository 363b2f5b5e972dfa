---------------------------- MODULE RebuildProofs ---------------------------
(***************************************************************************)
(* What is rebuilt in the background of the event log, for any rows, facts, *)
(* daemons, workers, crashes and changes. A served receipt says nothing    *)
(* that was removed and, when it is called current, what the log says; one *)
(* build runs at a time and rests when it should; and the ledger's caches  *)
(* follow every change within the bound that the warmer is given.          *)
(***************************************************************************)
EXTENDS ReceiptSnapshots, SnapshotBuilds, LedgerWarmer, FiniteSetTheorems, TLAPS

-----------------------------------------------------------------------------
(* Receipts: the event log, one build of a snapshot of it, and a request.  *)

(* The invariant. Tokens that were sampled are never newer than the inputs, *)
(* so that equal tokens mean that nothing has happened in between.         *)

\* A restored log may be older, but it was never restored that often.
Past(t) ==
    /\ t.safety.restored <= log.restored
    /\ t.safety.stamp <= flat.stamp
    /\ t.safety.files <= files
    /\ t.safety.restored = log.restored =>
          t.safety.destructive <= log.destructive /\ t.revision <= log.revision

RowsHold(t, items) ==
    /\ t.safety = SafetyNow => Facts(items) \subseteq Facts(log.items)
    /\ t = InputState => items = log.items

FilesHold(t, n) == t.safety = SafetyNow => n = files

Holds(g) == Past(g.tokens) /\ RowsHold(g.tokens, g.items) /\ FilesHold(g.tokens, g.files)

GenerationHolds == generation # None => \A h \in Generation : generation = h => Holds(h)

EntryHolds == reader.entry # None => \A h \in Generation : reader.entry = h => Holds(h)

Sampled == {"sampled", "read", "captured", "verified"}
HasRows == {"read", "captured", "verified"}
HasFiles == {"captured", "verified"}

WorkerHolds ==
    /\ worker.pc \in Sampled => worker.tokens \in Tokens
    /\ \A t \in Tokens : worker.tokens = t =>
          /\ worker.pc \in Sampled => Past(t)
          /\ worker.pc \in HasRows =>
                \A items \in SUBSET Item : worker.items = items => RowsHold(t, items)
          /\ worker.pc \in HasFiles => \A n \in Nat : worker.files = n => FilesHold(t, n)

\* A row that the flat file and the log both had is one that the log absorbed,
\* even when a rewrite has taken it out of the log since.
FlatIsAbsorbed ==
    /\ (log.items \cup deleted) \cap flat.items \subseteq log.absorbed
    /\ backup # None =>
          /\ backup.items \cap flat.items \subseteq backup.absorbed
          /\ backup.items \subseteq log.items \cup deleted

ReceiptInv ==
    /\ ReceiptTypeOK
    /\ GenerationHolds
    /\ WorkerHolds
    /\ EntryHolds
    /\ FlatIsAbsorbed
    /\ DeletedStaysDeleted

-----------------------------------------------------------------------------
(* Every step, as far as the inputs go.                                    *)

InputsTyped == log \in Log /\ backup \in Log \cup {None} /\ flat \in Flat /\ files \in Nat
               /\ deleted \subseteq Item

Absorb == log' = Absorbed(log, flat.items) /\ UNCHANGED <<backup, flat, files, deleted>>

InputsStep ==
    \/ \E i \in Item : AppendRow(i)
    \/ \E out \in SUBSET log.items, in \in SUBSET Item, trusted \in BOOLEAN :
          ReplaceRows(out, in, trusted)
    \/ \E items \in SUBSET Item : OldWrite(items)
    \/ ChangeFiles
    \/ Backup
    \/ Restore
    \/ Absorb
    \/ UNCHANGED <<log, backup, flat, files, deleted>>

LEMMA EveryInputsStep == [ReceiptNext]_receiptVars => InputsStep
BY DEF ReceiptNext, receiptVars, inputs, InputsStep, InputsChange, OpenService, Absorb, WorkerStep,
       WorkerSamples, WorkerReads, WorkerReadsFiles, WorkerVerifies, Publish, WorkerFails, Withdraw,
       ReaderStep, ReadEntry, ReadAfter, ReadStatus, Respond

LEMMA AbsorbedTyped ==
  ASSUME log \in Log, flat \in Flat
  PROVE  /\ Absorbed(log, flat.items) \in Log
         /\ Absorbed(log, flat.items).items = log.items \cup (flat.items \ (log.absorbed \cup log.items))
         /\ Absorbed(log, flat.items).absorbed = log.absorbed \cup flat.items
         /\ Absorbed(log, flat.items).restored = log.restored
         /\ Absorbed(log, flat.items).destructive = log.destructive
         /\ \/ /\ Absorbed(log, flat.items).revision = log.revision
               /\ Absorbed(log, flat.items).items = log.items
            \/ Absorbed(log, flat.items).revision = log.revision + 1
<1> DEFINE new == flat.items \ (log.absorbed \cup log.items)
           revision == IF new = {} THEN log.revision ELSE log.revision + 1
<1>1. Absorbed(log, flat.items) =
        [log EXCEPT !.items = log.items \cup new, !.absorbed = log.absorbed \cup flat.items,
                    !.revision = revision]
  BY DEF Absorbed
<1>2. new \in SUBSET Item /\ flat.items \in SUBSET Item
  BY DEF Log, Flat
<1>3. \/ revision = log.revision /\ log.items \cup new = log.items
      \/ revision = log.revision + 1
  OBVIOUS
<1>4. revision \in Nat
  BY DEF Log
<1>5. Absorbed(log, flat.items).items = log.items \cup (flat.items \ (log.absorbed \cup log.items))
  BY <1>1 DEF Log
<1> HIDE DEF new, revision
<1>6. (log.items \cup new) \in SUBSET Item /\ (log.absorbed \cup flat.items) \in SUBSET Item
  BY <1>2 DEF Log
<1>7. Absorbed(log, flat.items) \in Log
  BY <1>1, <1>4, <1>6 DEF Log
<1>8. /\ Absorbed(log, flat.items).items = log.items \cup new
      /\ Absorbed(log, flat.items).absorbed = log.absorbed \cup flat.items
      /\ Absorbed(log, flat.items).restored = log.restored
      /\ Absorbed(log, flat.items).destructive = log.destructive
      /\ Absorbed(log, flat.items).revision = revision
  BY <1>1 DEF Log
<1> QED BY <1>3, <1>5, <1>7, <1>8

LEMMA InputsTypes == InputsTyped /\ InputsStep => InputsTyped'
<1> SUFFICES ASSUME InputsTyped, InputsStep PROVE InputsTyped'
  OBVIOUS
<1>1. ASSUME NEW i \in Item, AppendRow(i) PROVE InputsTyped'
  <2>1. (log.items \cup {i}) \in SUBSET Item /\ log.revision + 1 \in Nat
    BY DEF InputsTyped, Log
  <2>2. log' \in Log
    BY <1>1, <2>1 DEF InputsTyped, AppendRow, Log
  <2> QED BY <1>1, <2>2 DEF InputsTyped, AppendRow
<1>2. ASSUME NEW out \in SUBSET log.items, NEW in \in SUBSET Item, NEW trusted \in BOOLEAN,
             ReplaceRows(out, in, trusted)
      PROVE  InputsTyped'
  <2> DEFINE new == (log.items \ out) \cup in
             destructive == IF Destroyed(log.items, new, trusted)
                            THEN log.destructive + 1 ELSE log.destructive
  <2>1. log' = [log EXCEPT !.items = new, !.revision = log.revision + 1, !.destructive = destructive]
    BY <1>2 DEF ReplaceRows
  <2>2. new \in SUBSET Item /\ log.revision + 1 \in Nat
    BY DEF InputsTyped, Log
  <2>3. destructive \in Nat
    BY DEF InputsTyped, Log
  <2> HIDE DEF new, destructive
  <2>4. log' \in Log
    BY <2>1, <2>2, <2>3 DEF InputsTyped, Log
  <2> QED BY <1>2, <2>4 DEF InputsTyped, ReplaceRows, Log
<1>3. ASSUME NEW items \in SUBSET Item, OldWrite(items) PROVE InputsTyped'
  BY <1>3 DEF InputsTyped, OldWrite, Flat
<1>4. CASE ChangeFiles
  BY <1>4 DEF InputsTyped, ChangeFiles
<1>5. CASE Backup
  BY <1>5 DEF InputsTyped, Backup
<1>6. CASE Restore
  BY <1>6 DEF InputsTyped, Restore, Restored, Log
<1>7. CASE Absorb
  BY <1>7, AbsorbedTyped DEF InputsTyped, Absorb
<1>8. CASE UNCHANGED <<log, backup, flat, files, deleted>>
  BY <1>8 DEF InputsTyped
<1> QED BY <1>1, <1>2, <1>3, <1>4, <1>5, <1>6, <1>7, <1>8 DEF InputsStep

\* A refresh that the counting trusts takes no fact away.
LEMMA PreservesFacts ==
  ASSUME NEW old \in SUBSET Item, NEW new \in SUBSET Item, Preserves(old, new)
  PROVE  Facts(old) \subseteq Facts(new)
<1> SUFFICES ASSUME NEW i \in old PROVE Fact[i] \in Facts(new)
  BY DEF Facts
<1> DEFINE O == {j \in old : Fact[j] = Fact[i]}
           N == {j \in new : Fact[j] = Fact[i]}
<1>1. Cardinality(O) <= Cardinality(N)
  BY DEF Preserves, Facts
<1>2. IsFiniteSet(O) /\ IsFiniteSet(N)
  <2>1. O \in SUBSET Item /\ N \in SUBSET Item /\ IsFiniteSet(Item)
    BY ReceiptAssumption
  <2> HIDE DEF O, N
  <2> QED BY <2>1, FS_Subset
<1>3. O # {}
  OBVIOUS
<1> HIDE DEF O
<1>4. Cardinality(O) \in Nat /\ Cardinality(O) # 0 /\ Cardinality(N) \in Nat
  <2> HIDE DEF N
  <2> QED BY <1>2, <1>3, FS_EmptySet, FS_CardinalityType
<1>5. Cardinality(N) # 0
  <2> HIDE DEF N
  <2> QED BY <1>1, <1>4
<1>6. N # {}
  <2> HIDE DEF N
  <2> QED BY <1>2, <1>5, FS_EmptySet
<1> QED BY <1>6 DEF Facts

-----------------------------------------------------------------------------
(* What a step of the inputs means for tokens sampled before it.           *)

NotEarlier(t) ==
    /\ Past(t)'
    /\ t.safety = SafetyNow' =>
          t.safety = SafetyNow /\ Facts(log.items) \subseteq Facts(log'.items) /\ files' = files
    /\ t = InputState' => t = InputState /\ log'.items = log.items

LEMMA FactsGrow == ASSUME NEW X, NEW Y, X \subseteq Y PROVE Facts(X) \subseteq Facts(Y)
BY DEF Facts

\* Rows are added or exchanged, and the safety token stays.
LEMMA LaterRows ==
  ASSUME InputsTyped, InputsTyped', NEW t \in Tokens, Past(t),
         SafetyNow' = SafetyNow, files' = files,
         Facts(log.items) \subseteq Facts(log'.items),
         log'.restored = log.restored, log'.destructive = log.destructive, flat'.stamp = flat.stamp,
         \/ log'.revision = log.revision /\ log'.items = log.items
         \/ log'.revision = log.revision + 1
  PROVE  NotEarlier(t)
<1>1. Past(t)'
  BY DEF InputsTyped, Log, Flat, Tokens, Safety, Past
<1>2. ASSUME t = InputState' PROVE t = InputState /\ log'.items = log.items
  <2>1. t.revision = log'.revision /\ t.safety = SafetyNow /\ t.safety.restored = log.restored
    BY <1>2 DEF InputState, SafetyNow
  <2>2. log'.revision = log.revision /\ log'.items = log.items
    BY <2>1 DEF InputsTyped, Log, Tokens, Past
  <2> QED BY <1>2, <2>2 DEF InputState
<1> QED BY <1>1, <1>2 DEF NotEarlier

\* Whatever else happens gives a safety token that nobody has sampled.
LEMMA LaterSafety ==
  ASSUME InputsTyped, InputsTyped', NEW t \in Tokens, Past(t),
         log'.restored >= log.restored, flat'.stamp >= flat.stamp, files' >= files,
         log'.restored = log.restored =>
             log'.destructive >= log.destructive /\ log'.revision >= log.revision,
         \/ log'.restored > log.restored
         \/ log'.restored = log.restored /\ log'.destructive > log.destructive
         \/ flat'.stamp > flat.stamp
         \/ files' > files
  PROVE  NotEarlier(t)
<1>1. Past(t)'
  BY DEF InputsTyped, Log, Flat, Tokens, Safety, Past
<1>2. t.safety # SafetyNow'
  BY DEF InputsTyped, Log, Flat, Tokens, Safety, Past, SafetyNow
<1>3. t # InputState'
  BY <1>2 DEF InputState
<1> QED BY <1>1, <1>2, <1>3 DEF NotEarlier

LEMMA InputsLater ==
  ASSUME InputsTyped, InputsStep, NEW t \in Tokens, Past(t)
  PROVE  NotEarlier(t)
<1> InputsTyped'
  BY InputsTypes
<1>1. ASSUME NEW i \in Item, AppendRow(i) PROVE NotEarlier(t)
  <2>1. /\ log'.items = log.items \cup {i} /\ log'.revision = log.revision + 1
        /\ log'.restored = log.restored /\ log'.destructive = log.destructive
        /\ flat' = flat /\ files' = files
    BY <1>1 DEF AppendRow, InputsTyped, Log
  <2>2. SafetyNow' = SafetyNow
    BY <2>1 DEF SafetyNow
  <2>3. Facts(log.items) \subseteq Facts(log'.items)
    BY <2>1, FactsGrow
  <2> QED BY <2>1, <2>2, <2>3, LaterRows
<1>2. ASSUME NEW out \in SUBSET log.items, NEW in \in SUBSET Item, NEW trusted \in BOOLEAN,
             ReplaceRows(out, in, trusted)
      PROVE  NotEarlier(t)
  <2> DEFINE new == (log.items \ out) \cup in
  <2>1. /\ log'.items = new /\ log'.revision = log.revision + 1 /\ log'.restored = log.restored
        /\ log'.destructive =
              IF Destroyed(log.items, new, trusted) THEN log.destructive + 1 ELSE log.destructive
        /\ flat' = flat /\ files' = files
    BY <1>2 DEF ReplaceRows, InputsTyped, Log
  <2>2. log.items \in SUBSET Item /\ new \in SUBSET Item
    BY DEF InputsTyped, Log
  <2> HIDE DEF new
  <2>3. CASE Destroyed(log.items, new, trusted)
    <3>1. log'.destructive > log.destructive /\ log'.revision >= log.revision
      BY <2>1, <2>3 DEF InputsTyped, Log
    <3>2. flat'.stamp >= flat.stamp /\ files' >= files /\ log'.restored >= log.restored
      BY <2>1 DEF InputsTyped, Flat, Log
    <3>3. log'.destructive >= log.destructive
      BY <3>1 DEF InputsTyped, Log
    <3> QED BY <2>1, <3>1, <3>2, <3>3, LaterSafety
  <2>4. CASE ~Destroyed(log.items, new, trusted)
    <3>1. log'.destructive = log.destructive
      BY <2>1, <2>4
    <3>2. SafetyNow' = SafetyNow
      BY <2>1, <3>1 DEF SafetyNow
    <3>3. Preserves(log.items, new)
      BY <2>4 DEF Destroyed
    <3>4. Facts(log.items) \subseteq Facts(log'.items)
      BY <2>1, <2>2, <3>3, PreservesFacts
    <3> QED BY <2>1, <3>1, <3>2, <3>4, LaterRows
  <2> QED BY <2>3, <2>4
<1>3. ASSUME NEW items \in SUBSET Item, OldWrite(items) PROVE NotEarlier(t)
  <2>1. /\ log' = log /\ files' = files /\ flat'.stamp = flat.stamp + 1
    BY <1>3 DEF OldWrite
  <2>2. flat'.stamp > flat.stamp /\ flat'.stamp >= flat.stamp /\ files' >= files
    BY <2>1 DEF InputsTyped, Flat
  <2>3. log'.restored >= log.restored /\ log'.destructive >= log.destructive
        /\ log'.revision >= log.revision
    BY <2>1 DEF InputsTyped, Log
  <2> QED BY <2>2, <2>3, LaterSafety
<1>4. CASE ChangeFiles
  <2>1. log' = log /\ flat' = flat /\ files' = files + 1
    BY <1>4 DEF ChangeFiles
  <2>2. flat'.stamp >= flat.stamp /\ files' > files /\ files' >= files
    BY <2>1 DEF InputsTyped, Flat
  <2>3. log'.restored >= log.restored /\ log'.destructive >= log.destructive
        /\ log'.revision >= log.revision
    BY <2>1 DEF InputsTyped, Log
  <2> QED BY <2>2, <2>3, LaterSafety
<1>5. CASE Restore
  <2>1. flat' = flat /\ files' = files /\ log'.restored = log.restored + 1
    BY <1>5 DEF Restore, Restored, InputsTyped, Log
  <2>2. flat'.stamp >= flat.stamp /\ files' >= files
    BY <2>1 DEF InputsTyped, Flat
  <2>3. log'.restored > log.restored /\ log'.restored >= log.restored /\ log'.restored # log.restored
    BY <2>1 DEF InputsTyped, Log
  <2> QED BY <2>2, <2>3, LaterSafety
<1>6. CASE Absorb
  <2>1. log' = Absorbed(log, flat.items) /\ flat' = flat /\ files' = files
    BY <1>6 DEF Absorb
  <2>2. /\ log.items \subseteq log'.items
        /\ log'.restored = log.restored /\ log'.destructive = log.destructive
        /\ \/ log'.revision = log.revision /\ log'.items = log.items
           \/ log'.revision = log.revision + 1
    BY <2>1, AbsorbedTyped DEF InputsTyped
  <2>3. SafetyNow' = SafetyNow
    BY <2>1, <2>2 DEF SafetyNow
  <2>4. Facts(log.items) \subseteq Facts(log'.items)
    BY <2>2, FactsGrow
  <2> QED BY <2>1, <2>2, <2>3, <2>4, LaterRows
<1>7. CASE Backup \/ UNCHANGED <<log, backup, flat, files, deleted>>
  <2>1. log' = log /\ flat' = flat /\ files' = files
    BY <1>7 DEF Backup
  <2>2. SafetyNow' = SafetyNow
    BY <2>1 DEF SafetyNow
  <2> QED BY <2>1, <2>2, LaterRows
<1> QED BY <1>1, <1>2, <1>3, <1>4, <1>5, <1>6, <1>7 DEF InputsStep

LEMMA RowsStay ==
  ASSUME NEW t \in Tokens, NEW items, NotEarlier(t), RowsHold(t, items)
  PROVE  RowsHold(t, items)'
BY DEF NotEarlier, RowsHold

LEMMA FilesStay ==
  ASSUME NEW t \in Tokens, NEW n, NotEarlier(t), FilesHold(t, n)
  PROVE  FilesHold(t, n)'
BY DEF NotEarlier, FilesHold

LEMMA HoldsStays ==
  ASSUME InputsTyped, InputsStep, NEW h \in Generation, Holds(h)
  PROVE  Holds(h)'
<1>1. h.tokens \in Tokens
  BY DEF Generation
<1> DEFINE t == h.tokens
<1>2. Past(t) /\ RowsHold(t, h.items) /\ FilesHold(t, h.files)
  BY DEF Holds
<1>3. NotEarlier(t)
  BY <1>1, <1>2, InputsLater
<1>4. Past(t)' /\ RowsHold(t, h.items)' /\ FilesHold(t, h.files)'
  BY <1>1, <1>2, <1>3, RowsStay, FilesStay DEF NotEarlier
<1> QED BY <1>4 DEF Holds

-----------------------------------------------------------------------------
(* Types of the worker, the reader and the generation.                     *)

WorkerState ==
    [pc : {"none", "sampled", "read", "captured", "verified"},
     tokens : Tokens \cup {None}, items : SUBSET Item, files : Nat]

ReaderState ==
    [pc : {"idle", "again", "after", "status", "respond"}, entry : Generation \cup {None},
     state : {"pending", "current", "updating", None}]

ActorsTyped ==
    /\ generation \in Generation \cup {None}
    /\ worker \in WorkerState
    /\ reader \in ReaderState
    /\ changes \in Nat

LEMMA TypesSplit == ReceiptTypeOK <=> InputsTyped /\ ActorsTyped
BY DEF ReceiptTypeOK, InputsTyped, ActorsTyped, WorkerState, ReaderState

LEMMA StateTyped ==
  ASSUME InputsTyped
  PROVE  SafetyNow \in Safety /\ InputState \in Tokens
BY DEF InputsTyped, Log, Flat, Safety, Tokens, SafetyNow, InputState

LEMMA BuilderTypes ==
  ASSUME ReceiptTypeOK, WorkerHolds, WorkerStep, InputsTyped'
  PROVE  ActorsTyped'
<1> InputsTyped /\ ActorsTyped
  BY TypesSplit
<1>1. CASE WorkerSamples
  BY <1>1, StateTyped DEF ActorsTyped, WorkerState, WorkerSamples, inputs
<1>2. CASE WorkerReads
  <2>1. log'.items \in SUBSET Item
    BY DEF InputsTyped, Log
  <2>2. worker' = [worker EXCEPT !.pc = "read", !.items = log'.items]
        /\ UNCHANGED <<generation, reader, changes>>
    BY <1>2 DEF WorkerReads
  <2> QED BY <2>1, <2>2 DEF ActorsTyped, WorkerState
<1>3. CASE WorkerReadsFiles
  <2>1. worker' = [worker EXCEPT !.pc = "captured", !.files = files] /\ files \in Nat
        /\ UNCHANGED <<generation, reader, changes>>
    BY <1>3 DEF WorkerReadsFiles, inputs, InputsTyped
  <2> QED BY <2>1 DEF ActorsTyped, WorkerState
<1>4. CASE WorkerVerifies
  BY <1>4 DEF ActorsTyped, WorkerState, WorkerVerifies, inputs
<1>5. CASE Publish
  <2>1. worker.tokens \in Tokens
    BY <1>5 DEF WorkerHolds, Publish, Sampled
  <2>2. Published \in Generation
    BY <2>1 DEF ActorsTyped, WorkerState, Published, Generation
  <2>3. NoWorker \in WorkerState
    BY DEF NoWorker, WorkerState
  <2> QED BY <1>5, <2>2, <2>3 DEF ActorsTyped, Publish, inputs
<1>6. CASE WorkerFails
  <2>1. NoWorker \in WorkerState
    BY DEF NoWorker, WorkerState
  <2> QED BY <1>6, <2>1 DEF ActorsTyped, WorkerFails, inputs
<1> QED BY <1>1, <1>2, <1>3, <1>4, <1>5, <1>6 DEF WorkerStep

LEMMA ReaderTypes ==
  ASSUME ReceiptTypeOK, ReaderStep
  PROVE  ActorsTyped'
<1> ActorsTyped
  BY TypesSplit
<1>1. CASE ReadEntry
  BY <1>1 DEF ActorsTyped, ReaderState, ReadEntry, inputs
<1>2. CASE ReadAfter
  <2> DEFINE safe == reader.entry # None /\ reader.entry.tokens.safety = SafetyNow
             entry == IF safe THEN reader.entry ELSE None
             pc == IF reader.state = None THEN "status" ELSE "respond"
  <2>1. entry \in Generation \cup {None} /\ pc \in {"status", "respond"}
    BY DEF ActorsTyped, ReaderState
  <2>2. reader' = [reader EXCEPT !.entry = entry, !.pc = pc] /\ UNCHANGED <<generation, worker, changes>>
    BY <1>2 DEF ReadAfter, inputs
  <2> HIDE DEF entry, pc
  <2> QED BY <2>1, <2>2 DEF ActorsTyped, ReaderState
<1>3. CASE ReadStatus
  <2>1. PICK state \in {"pending", "current", "updating"}, pc \in {"again", "respond"} :
           reader' = [reader EXCEPT !.state = state, !.pc = pc]
    BY <1>3 DEF ReadStatus
  <2> QED BY <1>3, <2>1 DEF ActorsTyped, ReaderState, ReadStatus, inputs
<1>4. CASE Respond
  BY <1>4 DEF ActorsTyped, ReaderState, Respond, Waiting, inputs
<1> QED BY <1>1, <1>2, <1>3, <1>4 DEF ReaderStep

LEMMA ReceiptNextTypes ==
  ASSUME ReceiptTypeOK, WorkerHolds, [ReceiptNext]_receiptVars
  PROVE  ReceiptTypeOK'
<1> InputsTyped /\ ActorsTyped
  BY TypesSplit
<1>1. InputsTyped'
  BY EveryInputsStep, InputsTypes
<1>2. ActorsTyped'
  <2>1. CASE InputsChange
    BY <2>1 DEF InputsChange, ActorsTyped
  <2>2. CASE OpenService
    BY <2>2 DEF OpenService, ActorsTyped
  <2>3. CASE Withdraw
    BY <2>3 DEF Withdraw, ActorsTyped, inputs
  <2>4. CASE UNCHANGED receiptVars
    BY <2>4 DEF receiptVars, ActorsTyped, inputs
  <2> QED BY <1>1, <2>1, <2>2, <2>3, <2>4, BuilderTypes, ReaderTypes DEF ReceiptNext
<1> QED BY <1>1, <1>2, TypesSplit DEF ReceiptTypeOK, InputsTyped, ActorsTyped, WorkerState, ReaderState

-----------------------------------------------------------------------------
(* What the worker has captured, what is published, and what is served.    *)

\* A step that leaves the worker alone leaves what it captured true.
LEMMA WorkerStays ==
  ASSUME InputsTyped, InputsStep, WorkerHolds, UNCHANGED worker
  PROVE  WorkerHolds'
<1>1. (worker.pc \in Sampled => worker.tokens \in Tokens)'
  BY DEF WorkerHolds
<1>2. ASSUME NEW t \in Tokens, worker.tokens = t, worker.pc \in Sampled
      PROVE  NotEarlier(t)
  BY <1>2, InputsLater DEF WorkerHolds
<1>3. ASSUME NEW t \in Tokens, worker.tokens = t, worker.pc \in HasRows,
             NEW items \in SUBSET Item, worker.items = items
      PROVE  RowsHold(t, items)'
  <2>1. worker.pc \in Sampled
    BY <1>3 DEF Sampled, HasRows
  <2>2. RowsHold(t, items)
    BY <1>3 DEF WorkerHolds
  <2> QED BY <1>2, <1>3, <2>1, <2>2, RowsStay
<1>4. ASSUME NEW t \in Tokens, worker.tokens = t, worker.pc \in HasFiles,
             NEW n \in Nat, worker.files = n
      PROVE  FilesHold(t, n)'
  <2>1. worker.pc \in Sampled
    BY <1>4 DEF Sampled, HasFiles
  <2>2. FilesHold(t, n)
    BY <1>4 DEF WorkerHolds
  <2> QED BY <1>2, <1>4, <2>1, <2>2, FilesStay
<1>5. ASSUME NEW t \in Tokens, worker.tokens = t, worker.pc \in Sampled
      PROVE  Past(t)'
  BY <1>2, <1>5 DEF NotEarlier
<1> QED BY <1>1, <1>3, <1>4, <1>5 DEF WorkerHolds

LEMMA WorkerMoves ==
  ASSUME ReceiptTypeOK, InputsStep, WorkerHolds, WorkerStep
  PROVE  WorkerHolds'
<1> InputsTyped /\ ActorsTyped
  BY TypesSplit
<1>1. CASE WorkerSamples
  <2>1. worker'.pc = "sampled" /\ worker'.tokens = InputState /\ log' = log /\ flat' = flat /\ files' = files
    BY <1>1 DEF WorkerSamples, inputs, ActorsTyped, WorkerState
  <2>2. InputState \in Tokens
    BY StateTyped
  <2>3. ASSUME NEW t \in Tokens, t = InputState PROVE Past(t)'
    BY <2>1, <2>3 DEF Past, InputState, SafetyNow, InputsTyped, Log, Flat
  <2> QED BY <2>1, <2>2, <2>3 DEF WorkerHolds, Sampled, HasRows, HasFiles
<1>2. CASE WorkerReads
  <2>1. /\ worker.pc = "sampled" /\ worker'.pc = "read" /\ worker'.tokens = worker.tokens
        /\ worker'.items = log'.items
    BY <1>2 DEF WorkerReads, ActorsTyped, WorkerState
  <2>2. ASSUME NEW t \in Tokens, worker'.tokens = t PROVE Past(t)'
    BY <2>1, <2>2, InputsLater DEF WorkerHolds, Sampled, NotEarlier
  <2>3. worker.tokens \in Tokens
    BY <2>1 DEF WorkerHolds, Sampled
  <2>4. ASSUME NEW t \in Tokens, NEW items \in SUBSET Item, worker'.items = items
        PROVE  RowsHold(t, items)'
    BY <2>1, <2>4 DEF RowsHold
  <2> QED BY <2>1, <2>2, <2>3, <2>4 DEF WorkerHolds, Sampled, HasRows, HasFiles
<1>3. CASE WorkerReadsFiles
  <2>1. /\ worker.pc = "read" /\ worker'.pc = "captured" /\ worker'.tokens = worker.tokens
        /\ worker'.items = worker.items /\ worker'.files = files
        /\ log' = log /\ flat' = flat /\ files' = files
    BY <1>3 DEF WorkerReadsFiles, inputs, ActorsTyped, WorkerState
  <2>2. ASSUME NEW t \in Tokens, worker'.tokens = t PROVE Past(t)'
    BY <2>1, <2>2 DEF WorkerHolds, Sampled, Past
  <2>3. ASSUME NEW t \in Tokens, worker'.tokens = t, NEW items \in SUBSET Item, worker'.items = items
        PROVE  RowsHold(t, items)'
    <3>1. RowsHold(t, items)
      BY <2>1, <2>3 DEF WorkerHolds, HasRows
    <3> QED BY <2>1, <3>1 DEF RowsHold, InputState, SafetyNow
  <2>4. ASSUME NEW t \in Tokens, NEW n \in Nat, worker'.files = n PROVE FilesHold(t, n)'
    BY <2>1, <2>4 DEF FilesHold
  <2>5. worker.tokens \in Tokens
    BY <2>1 DEF WorkerHolds, Sampled
  <2> QED BY <2>1, <2>2, <2>3, <2>4, <2>5 DEF WorkerHolds, Sampled, HasRows, HasFiles
<1>4. CASE WorkerVerifies
  <2>1. /\ worker.pc = "captured" /\ worker'.pc = "verified" /\ worker'.tokens = worker.tokens
        /\ worker'.items = worker.items /\ worker'.files = worker.files
        /\ log' = log /\ flat' = flat /\ files' = files
    BY <1>4 DEF WorkerVerifies, inputs, ActorsTyped, WorkerState
  <2>2. ASSUME NEW t \in Tokens, worker'.tokens = t PROVE Past(t)'
    BY <2>1, <2>2 DEF WorkerHolds, Sampled, Past
  <2>3. ASSUME NEW t \in Tokens, worker'.tokens = t, NEW items \in SUBSET Item, worker'.items = items
        PROVE  RowsHold(t, items)'
    <3>1. RowsHold(t, items)
      BY <2>1, <2>3 DEF WorkerHolds, HasRows
    <3> QED BY <2>1, <3>1 DEF RowsHold, InputState, SafetyNow
  <2>4. ASSUME NEW t \in Tokens, worker'.tokens = t, NEW n \in Nat, worker'.files = n
        PROVE  FilesHold(t, n)'
    <3>1. FilesHold(t, n)
      BY <2>1, <2>4 DEF WorkerHolds, HasFiles
    <3> QED BY <2>1, <3>1 DEF FilesHold, SafetyNow
  <2>5. worker.tokens \in Tokens
    BY <2>1 DEF WorkerHolds, Sampled
  <2> QED BY <2>1, <2>2, <2>3, <2>4, <2>5 DEF WorkerHolds, Sampled, HasRows, HasFiles
<1>5. CASE Publish \/ WorkerFails
  <2>1. worker'.pc = "none"
    BY <1>5 DEF Publish, WorkerFails, NoWorker
  <2> QED BY <2>1 DEF WorkerHolds, Sampled, HasRows, HasFiles
<1> QED BY <1>1, <1>2, <1>3, <1>4, <1>5 DEF WorkerStep

LEMMA GenerationStays ==
  ASSUME InputsTyped, InputsStep, GenerationHolds, generation' \in {generation, None}
  PROVE  GenerationHolds'
BY HoldsStays DEF GenerationHolds

LEMMA GenerationMoves ==
  ASSUME ReceiptTypeOK, InputsStep, WorkerHolds, GenerationHolds, Publish
  PROVE  GenerationHolds'
<1> SUFFICES ASSUME NEW h \in Generation, generation' = h PROVE Holds(h)'
  BY DEF GenerationHolds
<1> InputsTyped /\ ActorsTyped
  BY TypesSplit
<1>1. worker.pc = "verified" /\ h = Published
  BY DEF Publish
<1>2. h.tokens = worker.tokens /\ h.items = worker.items /\ h.files = worker.files
  BY <1>1 DEF Published
<1>3. h.tokens \in Tokens /\ h.items \in SUBSET Item /\ h.files \in Nat
  BY DEF Generation
<1>4. Past(h.tokens) /\ RowsHold(h.tokens, h.items) /\ FilesHold(h.tokens, h.files)
  BY <1>1, <1>2, <1>3 DEF WorkerHolds, Sampled, HasRows, HasFiles
<1> QED BY <1>4, HoldsStays DEF Holds

LEMMA EntryStays ==
  ASSUME InputsTyped, InputsStep, EntryHolds, GenerationHolds,
         reader'.entry \in {reader.entry, generation, None}
  PROVE  EntryHolds'
BY HoldsStays DEF EntryHolds, GenerationHolds

LEMMA ReaderMoves ==
  ASSUME ActorsTyped, ReaderStep
  PROVE  reader'.entry \in {reader.entry, generation, None}
<1>1. CASE ReadEntry
  BY <1>1 DEF ActorsTyped, ReaderState, ReadEntry
<1>2. CASE ReadAfter
  <2> DEFINE safe == reader.entry # None /\ reader.entry.tokens.safety = SafetyNow
             entry == IF safe THEN reader.entry ELSE None
             pc == IF reader.state = None THEN "status" ELSE "respond"
  <2>1. reader' = [reader EXCEPT !.entry = entry, !.pc = pc] /\ entry \in {reader.entry, None}
    BY <1>2 DEF ReadAfter
  <2> HIDE DEF entry, pc
  <2> QED BY <2>1 DEF ActorsTyped, ReaderState
<1>3. CASE ReadStatus
  BY <1>3 DEF ActorsTyped, ReaderState, ReadStatus
<1>4. CASE Respond
  BY <1>4 DEF Respond, Waiting
<1> QED BY <1>1, <1>2, <1>3, <1>4 DEF ReaderStep

LEMMA NextHolds ==
  ASSUME ReceiptTypeOK, WorkerHolds, GenerationHolds, EntryHolds, [ReceiptNext]_receiptVars
  PROVE  WorkerHolds' /\ GenerationHolds' /\ EntryHolds'
<1> InputsTyped /\ ActorsTyped /\ InputsStep
  BY TypesSplit, EveryInputsStep
<1>1. CASE WorkerStep
  <2>1. UNCHANGED reader
    BY <1>1 DEF WorkerStep, WorkerSamples, WorkerReads, WorkerReadsFiles, WorkerVerifies, Publish,
                WorkerFails
  <2>2. Publish \/ UNCHANGED generation
    BY <1>1 DEF WorkerStep, WorkerSamples, WorkerReads, WorkerReadsFiles, WorkerVerifies, WorkerFails
  <2> QED BY <1>1, <2>1, <2>2, WorkerMoves, GenerationMoves, GenerationStays, EntryStays
<1>2. CASE ReaderStep
  <2>1. UNCHANGED <<generation, worker>>
    BY <1>2 DEF ReaderStep, ReadEntry, ReadAfter, ReadStatus, Respond
  <2> QED BY <1>2, <2>1, ReaderMoves, WorkerStays, GenerationStays, EntryStays
<1>3. CASE InputsChange \/ OpenService \/ Withdraw \/ UNCHANGED receiptVars
  <2>1. UNCHANGED <<worker, reader>> /\ generation' \in {generation, None}
    BY <1>3 DEF InputsChange, OpenService, Withdraw, receiptVars
  <2> QED BY <2>1, WorkerStays, GenerationStays, EntryStays
<1> QED BY <1>1, <1>2, <1>3 DEF ReceiptNext

-----------------------------------------------------------------------------
(* Deleted rows.                                                           *)

LEMMA NextFlat ==
  ASSUME InputsTyped, InputsStep, FlatIsAbsorbed, DeletedStaysDeleted
  PROVE  FlatIsAbsorbed' /\ DeletedStaysDeleted'
<1>1. ASSUME NEW i \in Item, AppendRow(i) PROVE FlatIsAbsorbed' /\ DeletedStaysDeleted'
  <2>1. log'.items = log.items \cup {i} /\ log'.absorbed = log.absorbed
        /\ UNCHANGED <<backup, flat, deleted>>
    BY <1>1 DEF AppendRow, InputsTyped, Log
  <2> QED BY <1>1, <2>1 DEF AppendRow, Fresh, FlatIsAbsorbed, DeletedStaysDeleted
<1>2. ASSUME NEW out \in SUBSET log.items, NEW in \in SUBSET Item, NEW trusted \in BOOLEAN,
             ReplaceRows(out, in, trusted)
      PROVE  FlatIsAbsorbed' /\ DeletedStaysDeleted'
  <2>1. log'.items = (log.items \ out) \cup in /\ log'.absorbed = log.absorbed
        /\ deleted' = deleted \cup out /\ UNCHANGED <<backup, flat>>
    BY <1>2 DEF ReplaceRows, InputsTyped, Log
  <2>2. in \cap (log.items \cup deleted \cup flat.items) = {}
    BY <1>2 DEF ReplaceRows, Fresh
  <2> QED BY <2>1, <2>2 DEF FlatIsAbsorbed, DeletedStaysDeleted
<1>3. ASSUME NEW items \in SUBSET Item, OldWrite(items)
      PROVE  FlatIsAbsorbed' /\ DeletedStaysDeleted'
  <2>1. flat'.items = items /\ UNCHANGED <<log, backup, deleted>>
    BY <1>3 DEF OldWrite
  <2>2. (items \ flat.items) \cap (log.items \cup deleted) = {}
    BY <1>3 DEF OldWrite, Fresh
  <2> QED BY <2>1, <2>2 DEF FlatIsAbsorbed, DeletedStaysDeleted
<1>4. CASE ChangeFiles \/ UNCHANGED <<log, backup, flat, files, deleted>>
  BY <1>4 DEF ChangeFiles, FlatIsAbsorbed, DeletedStaysDeleted
<1>5. CASE Backup
  BY <1>5 DEF Backup, FlatIsAbsorbed, DeletedStaysDeleted
<1>6. CASE Restore
  <2>1. /\ backup # None /\ backup \in Log /\ log'.items = backup.items
        /\ log'.absorbed = backup.absorbed /\ deleted' = {} /\ UNCHANGED <<backup, flat>>
    BY <1>6 DEF Restore, Restored, InputsTyped, Log
  <2> QED BY <2>1 DEF FlatIsAbsorbed, DeletedStaysDeleted
<1>7. CASE Absorb
  <2>1. /\ log'.items = log.items \cup (flat.items \ (log.absorbed \cup log.items))
        /\ log'.absorbed = log.absorbed \cup flat.items
        /\ UNCHANGED <<backup, flat, deleted>>
    BY <1>7, AbsorbedTyped DEF Absorb, InputsTyped
  <2> QED BY <2>1 DEF FlatIsAbsorbed, DeletedStaysDeleted
<1> QED BY <1>1, <1>2, <1>3, <1>4, <1>5, <1>6, <1>7 DEF InputsStep

-----------------------------------------------------------------------------
LEMMA ReceiptInvInit == ReceiptInit => ReceiptInv
<1> SUFFICES ASSUME ReceiptInit PROVE ReceiptInv
  OBVIOUS
<1>1. PICK old \in SUBSET Item :
         /\ flat = [items |-> old, stamp |-> 0]
         /\ log = Absorbed([items |-> old, revision |-> 0, destructive |-> 0, restored |-> 0,
                            absorbed |-> {}], old)
  BY DEF ReceiptInit
<1>2. log = [items |-> old, revision |-> 0, destructive |-> 0, restored |-> 0, absorbed |-> old]
  BY <1>1 DEF Absorbed
<1>3. log \in Log /\ flat \in Flat
  BY <1>1, <1>2 DEF Log, Flat
<1>4. InputsTyped /\ ActorsTyped
  BY <1>3 DEF ReceiptInit, InputsTyped, ActorsTyped, NoWorker, WorkerState, Waiting, ReaderState
<1>5. WorkerHolds /\ GenerationHolds /\ EntryHolds
  BY DEF ReceiptInit, NoWorker, Waiting, WorkerHolds, GenerationHolds, EntryHolds, Sampled, HasRows,
         HasFiles
<1>6. FlatIsAbsorbed /\ DeletedStaysDeleted
  BY <1>1, <1>2 DEF ReceiptInit, FlatIsAbsorbed, DeletedStaysDeleted
<1> QED BY <1>4, <1>5, <1>6, TypesSplit DEF ReceiptInv

\* The invariant holds in every reachable state.
THEOREM ReceiptInvariant == ReceiptSpec => []ReceiptInv
<1>1. ReceiptInv /\ [ReceiptNext]_receiptVars => ReceiptInv'
  <2> SUFFICES ASSUME ReceiptInv, [ReceiptNext]_receiptVars PROVE ReceiptInv'
    OBVIOUS
  <2>1. ReceiptTypeOK'
    BY ReceiptNextTypes DEF ReceiptInv
  <2>2. WorkerHolds' /\ GenerationHolds' /\ EntryHolds'
    BY NextHolds DEF ReceiptInv
  <2>3. FlatIsAbsorbed' /\ DeletedStaysDeleted'
    BY NextFlat, EveryInputsStep, TypesSplit DEF ReceiptInv
  <2> QED BY <2>1, <2>2, <2>3 DEF ReceiptInv
<1> QED BY <1>1, ReceiptInvInit, PTL DEF ReceiptSpec

\* The log, the snapshot, the worker and the request keep their types.
THEOREM ReceiptTypes == ReceiptSpec => []ReceiptTypeOK
BY ReceiptInvariant, PTL DEF ReceiptInv

\* A served receipt says nothing that was removed (receipt_snapshot_http.py and the
\* safety token that receipt_snapshot_builder.py samples before it reads anything).
THEOREM NothingRemoved == ReceiptSpec => []ServedHoldsNothingRemoved
<1>1. ReceiptInv => ServedHoldsNothingRemoved
  <2> SUFFICES ASSUME ReceiptInv, reader.pc = "respond", Response.code = 200
               PROVE  Facts(Response.items) \subseteq Facts(log.items) /\ Response.files = files
    BY DEF ServedHoldsNothingRemoved
  <2>1. reader.entry # None /\ ~Revoked /\ Response.items = reader.entry.items
        /\ Response.files = reader.entry.files
    BY DEF Response
  <2>2. reader.entry \in Generation
    BY <2>1 DEF ReceiptInv, ReceiptTypeOK
  <2>3. PICK h \in Generation : reader.entry = h
    BY <2>2
  <2>4. Holds(h)
    BY <2>1, <2>3 DEF ReceiptInv, EntryHolds
  <2> QED BY <2>1, <2>3, <2>4 DEF Holds, RowsHold, FilesHold, Revoked
<1> QED BY <1>1, ReceiptInvariant, PTL

\* A receipt served as current is what the log says now.
THEOREM Current == ReceiptSpec => []CurrentIsCurrent
<1>1. ReceiptInv => CurrentIsCurrent
  <2> SUFFICES ASSUME ReceiptInv, reader.pc = "respond", Response.code = 200,
                      Response.state = "current"
               PROVE  Response.items = log.items /\ Response.files = files
    BY DEF CurrentIsCurrent
  <2>1. /\ reader.entry # None /\ ~Revoked /\ reader.entry.tokens = InputState
        /\ Response.items = reader.entry.items /\ Response.files = reader.entry.files
    BY DEF Response
  <2>2. reader.entry \in Generation
    BY <2>1 DEF ReceiptInv, ReceiptTypeOK
  <2>3. PICK h \in Generation : reader.entry = h
    BY <2>2
  <2>4. Holds(h)
    BY <2>1, <2>3 DEF ReceiptInv, EntryHolds
  <2> QED BY <2>1, <2>3, <2>4 DEF Holds, RowsHold, FilesHold, Revoked
<1> QED BY <1>1, ReceiptInvariant, PTL

\* What a rewrite deleted does not come back from the flat file (absorb_new_events
\* records the keys of rows that it does not import).
THEOREM StaysDeleted == ReceiptSpec => []DeletedStaysDeleted
BY ReceiptInvariant, PTL DEF ReceiptInv

-----------------------------------------------------------------------------
(* Who builds: managers, their workers, the lock and the rest.              *)

(* The invariant. The lock is held by its daemon until that has reaped its  *)
(* worker, and by the worker until it ends; it was free when the two got it. *)

WorkersHold == \A w \in Worker : w \in holders <=> Running(w)

DaemonsHold == \A d \in Daemon : d \in holders <=> manager[d].child # None

OneHolder == \A v, w \in Worker \cap holders : v = w

\* The checkpoint that everybody reads lasts as long as the rest it stands for.
RestIsWritten == resting => checkpoint

BuildsInv ==
    /\ BuildTypeOK
    /\ WorkersHold
    /\ DaemonsHold
    /\ OneHolder
    /\ RestIsWritten

-----------------------------------------------------------------------------
(* Types.                                                                  *)

LEMMA InitTypes == BuildInit => BuildTypeOK
<1> SUFFICES ASSUME BuildInit PROVE BuildTypeOK
  OBVIOUS
<1>1. tokens \in InputTokens /\ published \in InputTokens \cup {None}
  BY DEF BuildInit, InputTokens
<1>2. Watching \in [pc : {"idle", "looked", "locking"}, seen : InputTokens \cup {None},
                    child : Worker \cup {None}, rest : BOOLEAN]
  BY DEF Watching
<1>3. Unused \in [pc : {"none", "started", "building", "published", "exited", "killed"},
                  sampled : InputTokens \cup {None}]
  BY DEF Unused
<1> QED BY <1>1, <1>2, <1>3 DEF BuildInit, BuildTypeOK

LEMMA WorkerTypes ==
  ASSUME BuildTypeOK, NEW w \in Worker, WorkerNext(w) \/ Killed(w)
  PROVE  BuildTypeOK'
<1>1. CASE Samples(w)
  BY <1>1 DEF BuildTypeOK, Samples
<1>2. CASE Builds(w)
  <2>1. process[w].sampled \in InputTokens \cup {None}
    BY DEF BuildTypeOK
  <2>2. published' \in InputTokens \cup {None}
    BY <1>2, <2>1 DEF BuildTypeOK, Builds
  <2> QED BY <1>2, <2>2 DEF BuildTypeOK, Builds
<1>3. CASE Exits(w)
  BY <1>3 DEF BuildTypeOK, Exits
<1>4. CASE Forgotten(w)
  BY <1>4 DEF BuildTypeOK, Forgotten, Unused
<1>5. CASE Killed(w)
  BY <1>5 DEF BuildTypeOK, Killed
<1> QED BY <1>1, <1>2, <1>3, <1>4, <1>5 DEF WorkerNext

ManagerState ==
    [pc : {"idle", "looked", "locking"}, seen : InputTokens \cup {None},
     child : Worker \cup {None}, rest : BOOLEAN]

LEMMA ManagerFields ==
  ASSUME BuildTypeOK, NEW d \in Daemon
  PROVE  manager[d] \in ManagerState /\ manager[d].rest \in BOOLEAN
BY DEF BuildTypeOK, ManagerState

\* A step of a daemon that gives it a typed state keeps the type of all.
LEMMA ManagerUpdates ==
  ASSUME BuildTypeOK, NEW d \in Daemon, NEW m \in ManagerState, manager' = [manager EXCEPT ![d] = m]
  PROVE  manager' \in [Daemon -> ManagerState]
BY DEF BuildTypeOK, ManagerState

LEMMA AtRestTypes ==
  ASSUME BuildTypeOK, NEW d \in Daemon
  PROVE  AtRest(d) \in ManagerState
<1>1. Observed(d) \in BOOLEAN
  BY ManagerFields DEF BuildTypeOK, Observed
<1> QED BY <1>1, ManagerFields DEF AtRest, ManagerState

LEMMA WatchingTypes ==
  /\ Watching \in ManagerState
  /\ [Watching EXCEPT !.rest = TRUE] \in ManagerState
  /\ \A w \in Worker : [Watching EXCEPT !.child = w] \in ManagerState
BY DEF Watching, ManagerState

LEMMA ManagerTypes ==
  ASSUME BuildTypeOK, NEW d \in Daemon,
         ManagerNext(d) \/ SpawnFails(d) \/ Crash(d) \/ Close(d)
  PROVE  BuildTypeOK'
<1>1. CASE Reap(d)
  <2>1. manager[d].child \in Worker
    BY <1>1 DEF BuildTypeOK, Reap
  <2>2. checkpoint' \in BOOLEAN /\ resting' \in BOOLEAN
    BY <1>1 DEF BuildTypeOK, Reap
  <2> DEFINE m == [manager[d] EXCEPT !.child = None, !.rest = @ \/ checkpoint']
  <2>3. m \in ManagerState
    <3>1. (manager[d].rest \/ checkpoint') \in BOOLEAN
      BY <2>2, ManagerFields
    <3> QED BY <3>1, ManagerFields DEF ManagerState
  <2>4. manager' = [manager EXCEPT ![d] = m]
    BY <1>1 DEF Reap
  <2> HIDE DEF m
  <2>5. manager' \in [Daemon -> ManagerState]
    BY <2>3, <2>4, ManagerUpdates
  <2> QED BY <1>1, <2>1, <2>2, <2>5 DEF BuildTypeOK, ManagerState, Reap, Unused
<1>2. CASE Look(d)
  <2> DEFINE m == [manager[d] EXCEPT !.pc = "looked", !.seen = tokens]
  <2>1. m \in ManagerState
    <3>1. tokens \in InputTokens
      BY DEF BuildTypeOK
    <3> QED BY <3>1, ManagerFields DEF ManagerState
  <2>2. manager' = [manager EXCEPT ![d] = m]
    BY <1>2 DEF Look
  <2> HIDE DEF m
  <2>3. manager' \in [Daemon -> ManagerState]
    BY <2>1, <2>2, ManagerUpdates
  <2> QED BY <1>2, <2>3 DEF BuildTypeOK, ManagerState, Look
<1>3. CASE Judge(d)
  <2> DEFINE m == IF published = manager[d].seen \/ Observed(d)
                  THEN AtRest(d) ELSE [manager[d] EXCEPT !.pc = "locking"]
  <2>1. [manager[d] EXCEPT !.pc = "locking"] \in ManagerState
    BY ManagerFields DEF ManagerState
  <2>2. m \in ManagerState
    BY <2>1, AtRestTypes
  <2>3. manager' = [manager EXCEPT ![d] = m]
    BY <1>3 DEF Judge
  <2> HIDE DEF m
  <2>4. manager' \in [Daemon -> ManagerState]
    BY <2>2, <2>3, ManagerUpdates
  <2>5. published' \in InputTokens \cup {None}
    BY <1>3 DEF BuildTypeOK, Judge
  <2> QED BY <1>3, <2>4, <2>5 DEF BuildTypeOK, ManagerState, Judge
<1>4. CASE Spawn(d)
  <2>1. CASE manager' = [manager EXCEPT ![d] = AtRest(d)] /\ UNCHANGED <<holders, process>>
    <3>1. manager' \in [Daemon -> ManagerState]
      BY <2>1, AtRestTypes, ManagerUpdates
    <3> QED BY <1>4, <2>1, <3>1 DEF BuildTypeOK, ManagerState, Spawn
  <2>2. ASSUME NEW w \in Worker,
               process' = [process EXCEPT ![w] = [Unused EXCEPT !.pc = "started"]],
               holders' = {d, w},
               manager' = [manager EXCEPT ![d] = [Watching EXCEPT !.child = w]]
        PROVE  BuildTypeOK'
    <3>1. manager' \in [Daemon -> ManagerState]
      BY <2>2, WatchingTypes, ManagerUpdates
    <3> QED BY <1>4, <2>2, <3>1 DEF BuildTypeOK, ManagerState, Spawn, Unused
  <2> QED BY <1>4, <2>1, <2>2 DEF Spawn
<1>5. CASE LockedOut(d)
  <2>1. manager' \in [Daemon -> ManagerState]
    BY <1>5, AtRestTypes, ManagerUpdates DEF LockedOut
  <2> QED BY <1>5, <2>1 DEF BuildTypeOK, ManagerState, LockedOut
<1>6. CASE SpawnFails(d)
  <2>1. manager' \in [Daemon -> ManagerState]
    BY <1>6, WatchingTypes, ManagerUpdates DEF SpawnFails
  <2> QED BY <1>6, <2>1 DEF BuildTypeOK, ManagerState, SpawnFails
<1>7. CASE Crash(d)
  <2>1. manager' \in [Daemon -> ManagerState]
    BY <1>7, WatchingTypes, ManagerUpdates DEF Crash
  <2> QED BY <1>7, <2>1 DEF BuildTypeOK, ManagerState, Crash
<1>8. CASE Close(d)
  <2>1. manager' \in [Daemon -> ManagerState]
    BY <1>8, WatchingTypes, ManagerUpdates DEF Close
  <2> QED BY <1>8, <2>1 DEF BuildTypeOK, ManagerState, Close, Unused
<1> QED BY <1>1, <1>2, <1>3, <1>4, <1>5, <1>6, <1>7, <1>8 DEF ManagerNext

LEMMA NextTypes == BuildTypeOK /\ [BuildNext]_buildVars => BuildTypeOK'
<1> SUFFICES ASSUME BuildTypeOK, [BuildNext]_buildVars PROVE BuildTypeOK'
  OBVIOUS
<1>1. CASE InputChanges
  BY <1>1 DEF BuildTypeOK, InputChanges, InputTokens
<1>2. CASE RestEnds
  <2>1. ASSUME NEW d \in Daemon PROVE [manager[d] EXCEPT !.rest = FALSE] \in ManagerState
    BY ManagerFields DEF ManagerState
  <2>2. manager' \in [Daemon -> ManagerState]
    BY <1>2, <2>1 DEF RestEnds
  <2> QED BY <1>2, <2>2 DEF BuildTypeOK, ManagerState, RestEnds
<1>3. CASE UNCHANGED buildVars
  BY <1>3 DEF BuildTypeOK, buildVars
<1> QED BY <1>1, <1>2, <1>3, WorkerTypes, ManagerTypes DEF BuildNext

-----------------------------------------------------------------------------
(* The lock.                                                               *)

Locks == WorkersHold /\ DaemonsHold /\ OneHolder

LEMMA WorkerLocks ==
  ASSUME BuildTypeOK, Locks, NEW w \in Worker, WorkerNext(w) \/ Killed(w)
  PROVE  Locks'
<1>1. w \notin Daemon
  BY BuildAssumption
<1>2. CASE Samples(w)
  BY <1>2 DEF BuildTypeOK, Locks, WorkersHold, DaemonsHold, OneHolder, Running, Samples
<1>3. CASE Builds(w)
  BY <1>3 DEF BuildTypeOK, Locks, WorkersHold, DaemonsHold, OneHolder, Running, Builds
<1>4. CASE Exits(w)
  BY <1>1, <1>4 DEF BuildTypeOK, Locks, WorkersHold, DaemonsHold, OneHolder, Running, Exits
<1>5. CASE Forgotten(w)
  BY <1>5 DEF BuildTypeOK, Locks, WorkersHold, DaemonsHold, OneHolder, Running, Forgotten, Unused
<1>6. CASE Killed(w)
  BY <1>1, <1>6 DEF BuildTypeOK, Locks, WorkersHold, DaemonsHold, OneHolder, Running, Killed
<1> QED BY <1>2, <1>3, <1>4, <1>5, <1>6 DEF WorkerNext

LEMMA ManagerLocks ==
  ASSUME BuildTypeOK, Locks, NEW d \in Daemon,
         ManagerNext(d) \/ SpawnFails(d) \/ Crash(d) \/ Close(d)
  PROVE  Locks'
<1>1. d \notin Worker
  BY BuildAssumption
<1>2. CASE Reap(d)
  <2>1. manager[d].child \in Worker /\ ~Running(manager[d].child)
    BY <1>2 DEF BuildTypeOK, Reap, Running
  <2> QED BY <1>1, <1>2, <2>1
          DEF BuildTypeOK, Locks, WorkersHold, DaemonsHold, OneHolder, Running, Reap, Unused
<1>3. CASE Look(d)
  BY <1>3 DEF BuildTypeOK, Locks, WorkersHold, DaemonsHold, OneHolder, Running, Look
<1>4. CASE Judge(d)
  BY <1>4 DEF BuildTypeOK, Locks, WorkersHold, DaemonsHold, OneHolder, Running, Judge, AtRest
<1>5. CASE Spawn(d)
  <2>1. holders = {}
    BY <1>5 DEF Spawn, Acquires
  <2>2. CASE manager' = [manager EXCEPT ![d] = AtRest(d)] /\ UNCHANGED <<holders, process>>
    BY <2>2 DEF BuildTypeOK, Locks, WorkersHold, DaemonsHold, OneHolder, Running, AtRest
  <2>3. ASSUME NEW w \in Worker,
               process' = [process EXCEPT ![w] = [Unused EXCEPT !.pc = "started"]],
               holders' = {d, w},
               manager' = [manager EXCEPT ![d] = [Watching EXCEPT !.child = w]]
        PROVE  Locks'
    <3>1. w # None
      BY BuildAssumption
    <3>2. \A v \in Worker : ~Running(v)
      BY <2>1 DEF Locks, WorkersHold
    <3>3. WorkersHold'
      BY <1>1, <2>3, <3>2 DEF BuildTypeOK, WorkersHold, Running, Unused
    <3>4. \A e \in Daemon : manager[e].child = None
      BY <2>1 DEF Locks, DaemonsHold
    <3>5. w \notin Daemon
      BY BuildAssumption
    <3>6. DaemonsHold'
      BY <2>3, <3>1, <3>4, <3>5 DEF BuildTypeOK, DaemonsHold, Watching
    <3>7. OneHolder'
      BY <1>1, <2>3 DEF OneHolder
    <3> QED BY <3>3, <3>6, <3>7 DEF Locks
  <2> QED BY <1>5, <2>2, <2>3 DEF Spawn
<1>6. CASE LockedOut(d)
  BY <1>6 DEF BuildTypeOK, Locks, WorkersHold, DaemonsHold, OneHolder, Running, LockedOut, AtRest
<1>7. CASE SpawnFails(d)
  BY <1>7 DEF BuildTypeOK, Locks, WorkersHold, DaemonsHold, OneHolder, Running, SpawnFails,
              Acquires, Watching
<1>8. CASE Crash(d)
  BY <1>1, <1>8 DEF BuildTypeOK, Locks, WorkersHold, DaemonsHold, OneHolder, Running, Crash, Watching
<1>9. CASE Close(d)
  <2>1. manager[d].child \in Worker /\ manager[d].child \notin Daemon
    BY <1>9, BuildAssumption DEF BuildTypeOK, Close
  <2> QED BY <1>1, <1>9, <2>1
          DEF BuildTypeOK, Locks, WorkersHold, DaemonsHold, OneHolder, Running, Close, Watching, Unused
<1> QED BY <1>2, <1>3, <1>4, <1>5, <1>6, <1>7, <1>8, <1>9 DEF ManagerNext

LEMMA NextLocks == BuildTypeOK /\ Locks /\ [BuildNext]_buildVars => Locks'
<1> SUFFICES ASSUME BuildTypeOK, Locks, [BuildNext]_buildVars PROVE Locks'
  OBVIOUS
<1>1. CASE InputChanges
  BY <1>1 DEF Locks, WorkersHold, DaemonsHold, OneHolder, Running, InputChanges
<1>2. CASE RestEnds
  BY <1>2 DEF BuildTypeOK, Locks, WorkersHold, DaemonsHold, OneHolder, Running, RestEnds
<1>3. CASE UNCHANGED buildVars
  BY <1>3 DEF Locks, WorkersHold, DaemonsHold, OneHolder, Running, buildVars
<1> QED BY <1>1, <1>2, <1>3, WorkerLocks, ManagerLocks DEF BuildNext

-----------------------------------------------------------------------------
(* The rest.                                                               *)

LEMMA NextRest == BuildTypeOK /\ RestIsWritten /\ [BuildNext]_buildVars => RestIsWritten'
BY DEF BuildTypeOK, RestIsWritten, BuildNext, buildVars, InputChanges, RestEnds, WorkerNext, Samples,
       Builds, Exits, Killed, Forgotten, ManagerNext, Reap, Look, Judge, Spawn, LockedOut, SpawnFails,
       Crash, Close

\* Only Spawn starts a worker, and it has just read the checkpoint.
LEMMA StartsRested ==
  ASSUME BuildTypeOK, RestIsWritten, BuildNext, NEW w \in Worker,
         process[w].pc = "none", process'[w].pc = "started"
  PROVE  ~resting
<1>1. CASE \E d \in Daemon : Spawn(d)
  BY <1>1 DEF RestIsWritten, Spawn, Observed
<1>2. CASE InputChanges \/ RestEnds
  BY <1>2 DEF InputChanges, RestEnds
<1>3. ASSUME NEW v \in Worker, WorkerNext(v) \/ Killed(v)
      PROVE  FALSE
  BY <1>3 DEF BuildTypeOK, WorkerNext, Samples, Builds, Exits, Killed, Forgotten, Unused, Running
<1>4. ASSUME NEW d \in Daemon, Reap(d) \/ Close(d)
      PROVE  FALSE
  BY <1>4 DEF BuildTypeOK, Reap, Close, Unused
<1>5. ASSUME NEW d \in Daemon,
             Look(d) \/ Judge(d) \/ LockedOut(d) \/ SpawnFails(d) \/ Crash(d)
      PROVE  FALSE
  BY <1>5 DEF Look, Judge, LockedOut, SpawnFails, Crash
<1> QED BY <1>1, <1>2, <1>3, <1>4, <1>5 DEF BuildNext, ManagerNext

-----------------------------------------------------------------------------
\* The invariant holds in every reachable state.
THEOREM BuildsInvariant == BuildSpec => []BuildsInv
<1>1. BuildInit => BuildsInv
  <2> SUFFICES ASSUME BuildInit PROVE BuildsInv
    OBVIOUS
  <2>1. WorkersHold
    BY DEF BuildInit, WorkersHold, Running, Unused
  <2>2. DaemonsHold
    BY DEF BuildInit, DaemonsHold, Watching
  <2>3. OneHolder /\ RestIsWritten
    BY DEF BuildInit, OneHolder, RestIsWritten
  <2> QED BY <2>1, <2>2, <2>3, InitTypes DEF BuildsInv
<1>2. BuildsInv /\ [BuildNext]_buildVars => BuildsInv'
  BY NextTypes, NextLocks, NextRest DEF BuildsInv, Locks
<1> QED BY <1>1, <1>2, PTL DEF BuildSpec

\* The managers, the workers and what they share keep their types (the fields of
\* ReceiptSnapshotManager, receipt_snapshot_runtime.py).
THEOREM BuildTypes == BuildSpec => []BuildTypeOK
BY BuildsInvariant, PTL DEF BuildsInv

\* One worker at a time whatever crashes, and a lock that somebody will release
\* (receipt_snapshot_runtime.py, the build.lock that the worker inherits).
THEOREM OneBuild == BuildSpec => []OneBuilder
<1>1. BuildsInv => OneBuilder
  BY DEF BuildsInv, WorkersHold, DaemonsHold, OneHolder, OneBuilder
<1> QED BY <1>1, BuildsInvariant, PTL

\* No worker starts while a rest lasts (_observe_shared_budget under build.lock).
THEOREM RestKept == BuildSpec => RestIsKept
<1>1. BuildsInv /\ [BuildNext]_buildVars =>
        [\A w \in Worker : process[w].pc = "none" /\ process'[w].pc = "started" => ~resting]_buildVars
  BY StartsRested DEF BuildsInv
<1> QED BY <1>1, BuildsInvariant, PTL DEF BuildSpec, RestIsKept

-----------------------------------------------------------------------------
(* The warmer of the ledger.                                               *)

\* A store is not taken for built before a rebuild has read it, nor by a rebuild
\* that a write has overtaken.
BuiltInv ==
    /\ BuiltWasSeen
    /\ thread = "recording" /\ store = token => seen = store

\* The age of the change that waits bounds the checks that passed it over: a
\* check interval lies between two of them, and the next check is not yet due.
Pending == IF thread = "due" THEN 0 ELSE 1
PassedOverInv ==
    /\ passedOver <= MaxWait
    /\ passedOver # 0 => sinceFirst # None /\ passedOver <= sinceFirst + Pending
    /\ thread \in {"new", "started", "rebuilding", "recording"} => passedOver = 0

WarmerInv == WarmerTypeOK /\ BuiltInv /\ PassedOverInv

LEMMA WarmerNumbers ==
    /\ Settle \in Nat /\ MaxWait \in Nat /\ Window \in Nat /\ RestFactor \in Nat /\ MaxBuild \in Nat
    /\ None \notin Token /\ None \notin Nat
  BY WarmerAssumption

LEMMA SmallerOfTwo ==
    ASSUME NEW x \in Nat, NEW y \in Nat
    PROVE  Min({x, y}) = IF x <= y THEN x ELSE y
<1> DEFINE m == IF x <= y THEN x ELSE y
<1>1. m \in {x, y} /\ \A z \in {x, y} : m <= z
  OBVIOUS
<1>2. \A n \in {x, y} : (\A z \in {x, y} : n <= z) => n = m
  OBVIOUS
<1> QED
  BY <1>1, <1>2 DEF Min

\* An age goes on up to the bound that it is compared to.
LEMMA LaterAge ==
    ASSUME NEW most \in Nat, NEW age \in 0 .. most
    PROVE  Later(age, most) = IF age < most THEN age + 1 ELSE most
<1>1. age \in Nat /\ age # None
  BY WarmerNumbers
<1> QED
  BY <1>1, SmallerOfTwo DEF Later

LEMMA LaterType ==
    ASSUME NEW most \in Nat, NEW age \in 0 .. most \cup {None}
    PROVE  Later(age, most) \in 0 .. most \cup {None} /\ (age # None => Later(age, most) # None)
  BY LaterAge, WarmerNumbers DEF Later

LEMMA RestType ==
    ASSUME NEW n \in 0 .. MaxBuild
    PROVE  n * RestFactor \in 0 .. MaxBuild * RestFactor
  BY WarmerNumbers

LEMMA TokenType ==
    ASSUME WarmerTypeOK
    PROVE  /\ store \in Token /\ builtToken \in Token \cup {None} /\ unbuiltToken \in Token \cup {None}
           /\ token \in Token \cup {None} /\ seen \in Token \cup {None}
  BY DEF WarmerTypeOK

LEMMA FreshToken ==
    ASSUME WarmerTypeOK, Write
    PROVE  store' \in Token \ {store, builtToken, unbuiltToken, token, seen}
<1> DEFINE unused == Token \ {store, builtToken, unbuiltToken, token, seen}
<1>1. \E t \in unused : TRUE
  BY TokenType, WarmerAssumption
<1> QED
  BY <1>1 DEF Write

LEMMA InitWarmer == WarmerInit => WarmerInv
<1> SUFFICES ASSUME WarmerInit PROVE WarmerInv
  OBVIOUS
<1>1. \E t \in Token : TRUE
  BY WarmerAssumption
<1>2. store \in Token
  BY <1>1 DEF WarmerInit
<1>3. WarmerTypeOK
  BY <1>2, WarmerNumbers DEF WarmerInit, WarmerTypeOK
<1> QED
  BY <1>2, <1>3, WarmerNumbers DEF WarmerInv, WarmerInit, BuiltInv, BuiltWasSeen, PassedOverInv

LEMMA WriteKeeps == ASSUME WarmerInv, Write PROVE WarmerInv'
<1>1. store' \in Token \ {store, builtToken, unbuiltToken, token, seen}
  BY FreshToken DEF WarmerInv
<1> QED
  BY <1>1, WarmerNumbers DEF Write, ruleVars, threadVars, WarmerInv, WarmerTypeOK,
     BuiltInv, BuiltWasSeen, PassedOverInv, Pending

LEMMA TickKeeps == ASSUME WarmerInv, Tick PROVE WarmerInv'
<1> USE WarmerNumbers
<1>1. WarmerTypeOK'
  BY LaterType, LaterAge DEF Tick, WarmerInv, WarmerTypeOK
<1>2. BuiltInv'
  BY DEF Tick, WarmerInv, BuiltInv, BuiltWasSeen
<1>3. PassedOverInv'
  <2>1. passedOver \in Nat /\ sinceFirst \in 0 .. MaxWait \cup {None}
    BY DEF WarmerInv, WarmerTypeOK
  <2>2. sinceFirst # None =>
          sinceFirst' = IF sinceFirst < MaxWait THEN sinceFirst + 1 ELSE MaxWait
    BY <2>1, LaterAge DEF Tick
  <2> QED
    BY <2>1, <2>2 DEF Tick, WarmerInv, PassedOverInv, Pending
<1> QED
  BY <1>1, <1>2, <1>3 DEF WarmerInv

LEMMA CheckKeeps == ASSUME WarmerInv, Check PROVE WarmerInv'
<1> USE WarmerNumbers DEF readerVars, ruleVars, threadVars, Forget, Wait, Begin
<1>1. CASE CheckIdle \/ CheckUnreadable
  BY <1>1 DEF CheckIdle, CheckUnreadable, WarmerInv, WarmerTypeOK, BuiltInv, BuiltWasSeen,
     PassedOverInv, Pending
<1>2. CASE CheckChanged
  <2>1. /\ FirstAge \in 0 .. MaxWait /\ ChangeAge \in 0 .. Settle \cup {None}
        /\ sinceFirst # None => FirstAge = sinceFirst
        /\ passedOver \in 0 .. MaxWait + 1
    BY DEF FirstAge, ChangeAge, WarmerInv, WarmerTypeOK
  <2>2. /\ thread = "due" /\ store # builtToken /\ UNCHANGED <<builtToken, rest, seen, store, sinceReader>>
        /\ unbuiltToken' = store /\ sinceFirst' = FirstAge /\ sinceChange' = ChangeAge
    BY <1>2 DEF CheckChanged
  <2>3. BuiltInv'
    BY <1>2, <2>2 DEF CheckChanged, BuiltInv, BuiltWasSeen
  <2>4. CASE RebuildIsDue /\ Begin /\ passedOver' = 0
    BY <2>1, <2>2, <2>3, <2>4 DEF WarmerInv, WarmerTypeOK, PassedOverInv
  <2>5. CASE ~RebuildIsDue /\ Wait /\ passedOver' = IF rest = 0 THEN Later(passedOver, MaxWait + 1) ELSE passedOver
    <3>1. passedOver # 0 => passedOver <= FirstAge
      BY <2>1, <2>2 DEF WarmerInv, PassedOverInv, Pending
    <3>2. CASE rest = 0
      <4>1. FirstAge < MaxWait
        BY <2>1, <2>5, <3>2 DEF RebuildIsDue
      <4>2. passedOver' = passedOver + 1
        BY <2>1, <2>5, <3>1, <3>2, <4>1, LaterAge
      <4> QED
        BY <2>1, <2>2, <2>3, <2>5, <3>1, <4>1, <4>2 DEF WarmerInv, WarmerTypeOK, PassedOverInv, Pending
    <3>3. CASE rest # 0
      BY <2>1, <2>2, <2>3, <2>5, <3>1, <3>3 DEF WarmerInv, WarmerTypeOK, PassedOverInv, Pending
    <3> QED
      BY <3>2, <3>3
  <2> QED
    BY <1>2, <2>4, <2>5 DEF CheckChanged
<1> QED
  BY <1>1, <1>2 DEF Check

LEMMA RebuildKeeps == ASSUME WarmerInv, Rebuild PROVE WarmerInv'
<1> USE WarmerNumbers DEF readerVars, ruleVars, threadVars, Forget, Wait, Begin
<1>1. CASE Startup \/ RebuildReads
  BY <1>1 DEF Startup, RebuildReads, WarmerInv, WarmerTypeOK, BuiltInv, BuiltWasSeen, PassedOverInv, Pending
<1>2. CASE RebuildEnds
  <2>1. took \in 0 .. MaxBuild
    BY DEF WarmerInv, WarmerTypeOK
  <2>2. rest' \in 0 .. MaxBuild * RestFactor
    BY <1>2, <2>1, RestType DEF RebuildEnds
  <2> QED
    BY <1>2, <2>2 DEF RebuildEnds, Built, WarmerInv, WarmerTypeOK, BuiltInv, BuiltWasSeen, PassedOverInv, Pending
<1> QED
  BY <1>1, <1>2 DEF Rebuild

LEMMA NextWarmer == WarmerInv /\ [WarmerNext]_warmerVars => WarmerInv'
<1> SUFFICES ASSUME WarmerInv, [WarmerNext]_warmerVars PROVE WarmerInv'
  OBVIOUS
<1> USE WarmerNumbers DEF readerVars, ruleVars, threadVars
<1>1. CASE NoteReader \/ Stop
  BY <1>1 DEF NoteReader, Stop, WarmerInv, WarmerTypeOK, BuiltInv, BuiltWasSeen, PassedOverInv, Pending
<1>2. CASE UNCHANGED warmerVars
  BY <1>2 DEF warmerVars, WarmerInv, WarmerTypeOK, BuiltInv, BuiltWasSeen, PassedOverInv, Pending
<1> QED
  BY <1>1, <1>2, WriteKeeps, TickKeeps, CheckKeeps, RebuildKeeps DEF WarmerNext

LEMMA WarmerInvariant == WarmerSpec => []WarmerInv
  BY InitWarmer, NextWarmer, PTL DEF WarmerSpec

\* The ages and the rest stay within what the rules compare them to.
THEOREM WarmerTypes == WarmerSpec => []WarmerTypeOK
  BY WarmerInvariant, PTL DEF WarmerInv

\* A write that lands during a rebuild is not taken for built.
THEOREM BuiltSeen == WarmerSpec => []BuiltWasSeen
<1>1. WarmerInv => BuiltWasSeen
  BY DEF WarmerInv, BuiltInv
<1> QED
  BY <1>1, WarmerInvariant, PTL

\* Writes that never pause do not put off a rebuild for longer than max_wait.
THEOREM ChangesBuilt == WarmerSpec => []ChangesAreBuilt
<1>1. WarmerInv => ChangesAreBuilt
  BY DEF WarmerInv, PassedOverInv, ChangesAreBuilt
<1> QED
  BY <1>1, WarmerInvariant, PTL
=============================================================================
