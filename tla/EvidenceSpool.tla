--------------------------- MODULE EvidenceSpool ---------------------------
(***************************************************************************)
(* The evidence store: two append-only spools, a projection replayed from  *)
(* them, prune, and the compaction that rewrites both spools while other    *)
(* processes go on appending (evidence_store.py).                          *)
(*                                                                         *)
(* What a process does under the store's lock is one step, and each place  *)
(* where a crash or an exception may cut it off is a step of its own. An    *)
(* offset counts bytes, of which a line has as many as LineBytes says.     *)
(***************************************************************************)
EXTENDS Naturals, FiniteSets, SequencesExt

CONSTANTS
    Evidence,       \* evidence ids
    Shadow,         \* those of the default prune target
    Honest,         \* those that no selection may prune
    KeyOf,          \* the idempotency key of an evidence id
    Width,          \* the bytes of a line about an evidence id
    Digit,          \* a fence from here on takes one byte more
    Compactor,      \* processes that compact
    MaxReceipt,     \* bound: receipts that are ever written
    MaxRefused      \* bound: errors of the database

ASSUME SpoolAssumption ==
    /\ Shadow \subseteq Evidence \ Honest
    /\ KeyOf \in [Evidence -> Evidence]
    /\ Width \in [Evidence -> Nat \ {0}]
    /\ MaxReceipt \in Nat
    /\ MaxRefused \in Nat

VARIABLES
    main,           \* spool.jsonl
    usage,          \* refreshable-usage.jsonl
    proj,           \* what the projection holds
    cursor,         \* the replay offsets stored in it
    compaction,     \* what each compactor has prepared
    issued,         \* receipts written so far: a later one has a higher id
    acked,          \* receipts whose append returned, unless pruned since
    pruned,         \* receipts behind the cursor that prune removed since it was zero
    mixed           \* a swap was cut off between its two renames

spoolVars == <<main, usage, proj, cursor, compaction, issued, acked, pruned, mixed>>

-----------------------------------------------------------------------------
(* Lines and offsets.                                                      *)

ReceiptId == 1 .. MaxReceipt

\* A claimed link is a record about evidence. The bytes of an append that was
\* cut off are torn until the next writer ends the line.
MainLine == [kind : {"evidence", "link"}, id : ReceiptId, of : Evidence]
UsageLine == [kind : {"usage"}, id : ReceiptId, fence : Nat]
TornLine == [kind : {"torn", "ended"}, id : ReceiptId]

LineBytes(l) ==
    IF l.kind \in {"torn", "ended"} THEN 1
    ELSE IF l.kind = "usage" THEN IF l.fence < Digit THEN 2 ELSE 3
    ELSE IF l.kind = "link" THEN Width[l.of] + 1 ELSE Width[l.of]

Ends(file) ==
    LET end[k \in 0 .. Len(file)] == IF k = 0 THEN 0 ELSE end[k - 1] + LineBytes(file[k])
    IN  end
End(file, i) == Ends(file)[i]
Start(file, i) == End(file, i - 1)
Bytes(file) == End(file, Len(file))
Ids(file) == {file[i].id : i \in DOMAIN file}

\* The line a reader at pos is in: it reads the rest of it.
LineAt(file, pos) ==
    CHOOSE i \in DOMAIN file : Start(file, i) <= pos /\ pos < End(file, i)

\* What is written behind a torn tail is one line with it.
Valid(file, i, pos) ==
    /\ Start(file, i) = pos
    /\ file[i].kind \notin {"torn", "ended"}
    /\ i > 1 => file[i - 1].kind # "torn"

MutantEndTorn(file) == file

\* A writer that finds a torn tail ends that line first.
EndTorn(file) ==
    IF file # <<>> /\ Last(file).kind = "torn"
    THEN [file EXCEPT ![Len(file)].kind = "ended"]
    ELSE file

-----------------------------------------------------------------------------
(* Replay: one line after the other, in the order of arrival.              *)

\* The projection after line i was read from pos. A line that is not valid,
\* and one that the database refuses, leave an error behind.
Failed(p, l, why) == [p EXCEPT !.errors = @ \cup {<<l.id, why>>}]
Refusals(p, l) ==
    IF Cardinality(p.errors) < MaxRefused THEN {Failed(p, l, "refused")} ELSE {}

WithReceipt(p, l) == [p EXCEPT !.receipts = @ \cup {l}]
WithBatch(p, id) == [p EXCEPT !.batches = @ \cup {id}]

Already(p, l) == IF l.kind = "usage" THEN l.id \in p.batches ELSE l \in p.receipts
Holding(p, l) == IF l.kind = "usage" THEN WithBatch(p, l.id) ELSE WithReceipt(p, l)

Projected(p, file, i, pos) ==
    LET l == file[i]
    IN  IF ~Valid(file, i, pos) THEN {Failed(p, l, "invalid")}
        ELSE IF Already(p, l) THEN {p} ELSE {Holding(p, l)} \cup Refusals(p, l)

MainStep(m, r) ==
    LET i == LineAt(m, r.main)
    IN  {[r EXCEPT !.main = End(m, i), !.proj = p] : p \in Projected(r.proj, m, i, r.main)}

\* A usage batch is projected when the main spool has been replayed up to the
\* batch's fence. The replay raises when it cannot be.
Misfenced(m, r, batch) ==
    \/ batch.fence > Bytes(m)
    \/ r.main > batch.fence /\ batch.id \notin r.proj.batches
    \/ r.main < batch.fence /\ End(m, LineAt(m, r.main)) > batch.fence

UsageStep(m, u, r) ==
    LET i == LineAt(u, r.usage)
        whole == Valid(u, i, r.usage)
    IN  IF whole /\ Misfenced(m, r, u[i]) THEN {[r EXCEPT !.raised = TRUE]}
        ELSE IF whole /\ r.main < u[i].fence THEN MainStep(m, r)
        ELSE {[r EXCEPT !.usage = End(u, i), !.proj = p] :
                p \in Projected(r.proj, u, i, r.usage)}

ReplayStep(m, u, r) ==
    IF r.raised THEN {}
    ELSE IF r.usage < Bytes(u) THEN UsageStep(m, u, r)
    ELSE IF r.main < Bytes(m) THEN MainStep(m, r)
    ELSE {}

\* Where the replay from r may get to: each step reads a line, or raises.
Reached(m, u, r) ==
    LET reached[k \in 0 .. Len(m) + Len(u) + 1] ==
            IF k = 0 THEN {r}
            ELSE LET before == reached[k - 1]
                 IN  before \cup UNION {ReplayStep(m, u, s) : s \in before}
    IN  reached
Replays(m, u, r) == Reached(m, u, r)[Len(m) + Len(u) + 1]

Replayed(m, u, r) == {s \in Replays(m, u, r) : ReplayStep(m, u, s) = {}}

Empty == [receipts |-> {}, batches |-> {}, errors |-> {}]
FromZero == [main |-> 0, usage |-> 0, proj |-> Empty, raised |-> FALSE]

\* A stored offset that lies behind the end of its spool counts as zero.
Fitting(file, offset) == IF offset <= Bytes(file) THEN offset ELSE 0
Resumed ==
    [main |-> Fitting(main, cursor.main), usage |-> Fitting(usage, cursor.usage),
     proj |-> proj, raised |-> FALSE]

\* How _recover_unlocked may end.
Recoveries == Replayed(main, usage, Resumed)

Stored(r) == cursor' = [main |-> r.main, usage |-> r.usage]

-----------------------------------------------------------------------------
(* Opening the store, appending, reconciling usage.                        *)

Recover ==
    /\ \E r \in Recoveries : proj' = r.proj /\ Stored(r)
    /\ UNCHANGED <<main, usage, compaction, issued, acked, pruned, mixed>>

\* Cut off anywhere, the last line maybe projected and its offset not stored.
RecoverCut ==
    /\ \E r \in Replays(main, usage, Resumed) :
          /\ Stored(r)
          /\ \E next \in ReplayStep(main, usage, r) \cup {r} : proj' = next.proj
    /\ UNCHANGED <<main, usage, compaction, issued, acked, pruned, mixed>>

NewId == issued + 1

Append1(file, l) == Append(EndTorn(file), l)

\* append and append_claimed_link.
AppendRecord(kind, e) ==
    LET l == [kind |-> kind, id |-> NewId, of |-> e]
    IN  /\ issued < MaxReceipt
        /\ \E r \in Recoveries :
              /\ ~r.raised
              /\ main' = Append1(main, l)
              /\ proj' = WithReceipt(r.proj, l)
              /\ cursor' = [main |-> Bytes(main'), usage |-> r.usage]
        /\ issued' = NewId
        /\ acked' = acked \cup {NewId}
        /\ UNCHANGED <<usage, compaction, pruned, mixed>>

\* Cut off in the middle of the write, before the projection, or before the
\* offset is stored.
AppendCut(kind, e) ==
    LET l == [kind |-> kind, id |-> NewId, of |-> e]
    IN  /\ issued < MaxReceipt
        /\ \E r \in Recoveries :
              /\ ~r.raised
              /\ Stored(r)
              /\ \/ /\ main' = Append1(main, [kind |-> "torn", id |-> NewId])
                    /\ proj' = r.proj
                 \/ /\ main' = Append1(main, l)
                    /\ proj' \in {r.proj, WithReceipt(r.proj, l)}
        /\ issued' = NewId
        /\ UNCHANGED <<usage, compaction, acked, pruned, mixed>>

\* reconcile_refreshable_usage, when there is something to change: the batch
\* is fenced by the end of the main spool.
Reconcile ==
    LET l == [kind |-> "usage", id |-> NewId, fence |-> Bytes(main)]
    IN  /\ issued < MaxReceipt
        /\ \E r \in Recoveries :
              /\ ~r.raised
              /\ main' = EndTorn(main)
              /\ usage' = Append1(usage, l)
              /\ proj' = WithBatch(r.proj, NewId)
              /\ cursor' = [main |-> r.main, usage |-> Bytes(usage')]
        /\ issued' = NewId
        /\ acked' = acked \cup {NewId}
        /\ UNCHANGED <<compaction, pruned, mixed>>

ReconcileCut ==
    LET l == [kind |-> "usage", id |-> NewId, fence |-> Bytes(main)]
    IN  /\ issued < MaxReceipt
        /\ \E r \in Recoveries :
              /\ ~r.raised
              /\ Stored(r)
              /\ main' = EndTorn(main)
              /\ \/ /\ usage' = Append1(usage, [kind |-> "torn", id |-> NewId])
                    /\ proj' = r.proj
                 \/ /\ usage' = Append1(usage, l)
                    /\ proj' \in {r.proj, WithBatch(r.proj, NewId)}
        /\ issued' = NewId
        /\ UNCHANGED <<compaction, acked, pruned, mixed>>

-----------------------------------------------------------------------------
(* Prune, and the projection that somebody deletes.                        *)

Versions(p) == {l.of : l \in {k \in p.receipts : k.kind = "evidence"}}
MutantLinked(p) == {}
Linked(p) == {l.of : l \in {k \in p.receipts : k.kind = "link"}}

\* Whatever a selection matches goes with its receipts, up to the batch after
\* which the command stops or is cut off. What links refer to stays. A process
\* that has the store open prunes without a replay: a receipt whose append was
\* cut off between projection and offset is then replayed once more.
Prune(selection) ==
    LET gone == {l \in proj.receipts : l.kind = "evidence" /\ l.of \in selection}
        Behind(l) == \E i \in DOMAIN main : main[i] = l /\ End(main, i) <= Resumed.main
    IN  /\ selection # {}
        /\ selection \subseteq Versions(proj) \ (Honest \cup Linked(proj))
        /\ proj' = [proj EXCEPT !.receipts = @ \ gone]
        /\ pruned' = pruned \cup {l.id : l \in {k \in gone : Behind(k)}}
        /\ acked' = acked \ {l.id : l \in gone}
        /\ UNCHANGED <<main, usage, cursor, compaction, issued, mixed>>

\* Nobody has the store open. The next process that opens it replays all.
DeleteProjection ==
    /\ \A c \in Compactor : compaction[c].phase = "idle"
    /\ proj # Empty
    /\ proj' = Empty
    /\ cursor' = [main |-> 0, usage |-> 0]
    /\ pruned' = {}
    /\ UNCHANGED <<main, usage, compaction, issued, acked, mixed>>

-----------------------------------------------------------------------------
(* Compaction.                                                             *)

Idle ==
    [phase |-> "idle", main |-> <<>>, usage |-> <<>>, keys |-> {}, guarded |-> {},
     current |-> FALSE]

\* Under the lock: replay, read which keys answer, link both files.
Prepare(c) ==
    /\ compaction[c].phase = "idle"
    /\ \E r \in Recoveries :
          /\ ~r.raised
          /\ proj' = r.proj
          /\ Stored(r)
          /\ compaction' = [compaction EXCEPT ![c] =
                [phase |-> "prepared", main |-> main, usage |-> usage,
                 keys |-> {KeyOf[e] : e \in Versions(r.proj)}, guarded |-> Linked(r.proj),
                 current |-> TRUE]]
    /\ UNCHANGED <<main, usage, issued, acked, pruned, mixed>>

Droppable(plan, l) ==
    /\ l.kind = "evidence"
    /\ l.of \in Shadow
    /\ KeyOf[l.of] \notin plan.keys
    /\ l.of \notin plan.guarded

\* What is kept of the first lines of a file.
Kept(plan, file) ==
    LET kept[k \in 0 .. Len(file)] ==
            IF k = 0 THEN <<>>
            ELSE IF Droppable(plan, file[k]) THEN kept[k - 1] ELSE Append(kept[k - 1], file[k])
    IN  kept

Candidate(plan) == Kept(plan, plan.main)[Len(plan.main)]

\* The first kept line at or after a fence is where the fence moves to.
Refenced(plan, fence) ==
    LET before == Cardinality({i \in DOMAIN plan.main : Start(plan.main, i) < fence})
    IN  Bytes(Kept(plan, plan.main)[before])

WithFence(l, fence) == IF l.kind = "usage" THEN [l EXCEPT !.fence = fence] ELSE l

CandidateUsage(plan) ==
    [i \in DOMAIN plan.usage |->
        WithFence(plan.usage[i], Refenced(plan, plan.usage[i].fence))]

\* What the projection answers for must be in the rebuild of the candidate,
\* apart from what was appended meanwhile and what no kept line carries.
Covered(plan, rebuilt) ==
    LET tail == {main[i] : i \in Len(plan.main) + 1 .. Len(main)}
        meanwhile == {l.of : l \in {t \in tail : t.kind \in {"evidence", "link"}}}
        kept == Candidate(plan)
        carried == {kept[i].of : i \in {j \in DOMAIN kept : kept[j].kind = "evidence"}}
        SameKey(e, set) == KeyOf[e] \in {KeyOf[f] : f \in set}
    IN  /\ \A l \in proj.receipts :
              \/ l.kind = "evidence" /\ (SameKey(l.of, meanwhile) \/ ~SameKey(l.of, carried))
              \/ l.kind = "link" /\ l.of \in meanwhile
              \/ l \in rebuilt.receipts
        /\ proj.batches \cap Ids(plan.usage) \subseteq rebuilt.batches
        /\ proj.errors \subseteq rebuilt.errors

\* Without the lock: filter the snapshot, rebuild the candidate from zero.
Verify(c) ==
    LET plan == compaction[c]
    IN  /\ plan.phase = "prepared"
        /\ Candidate(plan) # plan.main
        /\ \E r \in Replayed(Candidate(plan), CandidateUsage(plan), FromZero) :
              ~r.raised /\ Covered(plan, r.proj)
        /\ compaction' = [compaction EXCEPT ![c].phase = "verified"]
        /\ UNCHANGED <<main, usage, proj, cursor, issued, acked, pruned, mixed>>

\* Nothing to drop, a verification or an archive that failed, a live spool
\* that is not the one linked any more, a crash: both spools stay as they are.
Abandon(c) ==
    /\ compaction[c].phase # "idle"
    /\ compaction' = [compaction EXCEPT ![c] = Idle]
    /\ UNCHANGED <<main, usage, proj, cursor, issued, acked, pruned, mixed>>

MutantNewMainCut(plan) == Kept(plan, main)[Len(plan.main)]
MutantNewMain(plan) == Candidate(plan) \o SubSeq(main, Len(Candidate(plan)) + 1, Len(main))

\* What is swapped in: the candidates, and behind them what was appended since.
NewMain(plan) ==
    Kept(plan, main)[Len(plan.main)] \o SubSeq(main, Len(plan.main) + 1, Len(main))

MutantShifted(plan, fence) == fence

Shifted(plan, fence) ==
    IF fence < Bytes(plan.main) THEN fence
    ELSE fence + Bytes(Candidate(plan)) - Bytes(plan.main)

NewUsage(plan) ==
    [i \in DOMAIN usage |->
        IF i <= Len(plan.usage)
        THEN WithFence(usage[i], Refenced(plan, usage[i].fence))
        ELSE WithFence(usage[i], Shifted(plan, usage[i].fence))]

\* The other compactors find that a path names another file now.
Replaced(c) ==
    [d \in Compactor |->
        IF d = c THEN Idle ELSE [compaction[d] EXCEPT !.current = FALSE]]

MutantSwap(c) ==
    LET plan == compaction[c]
    IN  /\ plan.phase = "verified" /\ plan.current
        /\ main' = NewMain(plan) /\ usage' = NewUsage(plan)
        /\ compaction' = Replaced(c)
        /\ UNCHANGED <<proj, cursor, issued, acked, pruned, mixed>>

Swap(c) ==
    LET plan == compaction[c]
    IN  /\ plan.phase = "verified"
        /\ plan.current
        /\ main' = NewMain(plan)
        /\ usage' = NewUsage(plan)
        /\ cursor' = [main |-> Bytes(main'), usage |-> Bytes(usage')]
        /\ compaction' = Replaced(c)
        /\ UNCHANGED <<proj, issued, acked, pruned, mixed>>

\* Cut off after the first rename, after both, or with one offset stored. A
\* main offset that was not stored makes the next replay begin at zero, and
\* then a pruned line that the spool still has is projected again.
SwapCut(c) ==
    LET plan == compaction[c]
    IN  /\ plan.phase = "verified"
        /\ plan.current
        /\ usage' = NewUsage(plan)
        /\ compaction' = Replaced(c)
        /\ \/ /\ main' = main
              /\ mixed' = (mixed \/ usage' # usage)
              /\ UNCHANGED <<cursor, pruned>>
           \/ /\ main' = NewMain(plan)
              /\ pruned' = {}
              /\ UNCHANGED <<cursor, mixed>>
           \/ /\ main' = NewMain(plan)
              /\ cursor' = [cursor EXCEPT !.main = Bytes(main')]
              /\ UNCHANGED <<pruned, mixed>>
        /\ UNCHANGED <<proj, issued, acked>>

-----------------------------------------------------------------------------
SpoolInit ==
    /\ main = <<>>
    /\ usage = <<>>
    /\ proj = Empty
    /\ cursor = [main |-> 0, usage |-> 0]
    /\ compaction = [c \in Compactor |-> Idle]
    /\ issued = 0
    /\ acked = {}
    /\ pruned = {}
    /\ mixed = FALSE

SpoolNext ==
    \/ Recover
    \/ RecoverCut
    \/ \E kind \in {"evidence", "link"}, e \in Evidence :
          AppendRecord(kind, e) \/ AppendCut(kind, e)
    \/ Reconcile
    \/ ReconcileCut
    \/ \E selection \in SUBSET Evidence : Prune(selection)
    \/ DeleteProjection
    \/ \E c \in Compactor : Prepare(c) \/ Verify(c) \/ Abandon(c) \/ Swap(c) \/ SwapCut(c)

SpoolSpec == SpoolInit /\ [][SpoolNext]_spoolVars

-----------------------------------------------------------------------------
MainFile == Seq(MainLine \cup TornLine)
UsageFile == Seq(UsageLine \cup TornLine)

SpoolTypeOK ==
    /\ main \in MainFile /\ usage \in UsageFile
    /\ proj.receipts \subseteq MainLine
    /\ proj.batches \subseteq ReceiptId
    /\ proj.errors \subseteq ReceiptId \X {"invalid", "refused"}
    /\ cursor \in [main : Nat, usage : Nat]
    /\ \A c \in Compactor :
          /\ compaction[c].phase \in {"idle", "prepared", "verified"}
          /\ compaction[c].main \in MainFile /\ compaction[c].usage \in UsageFile
    /\ issued \in 0 .. MaxReceipt
    /\ acked \subseteq ReceiptId
    /\ pruned \subseteq ReceiptId
    /\ mixed \in BOOLEAN

\* Everything the projection answers for is on the spools, so that it can be
\* rebuilt: a compaction drops only what nothing refers to, and loses nothing
\* that was appended while it ran.
ProjectionBacked ==
    /\ proj.receipts \subseteq {main[i] : i \in DOMAIN main}
    /\ proj.batches \subseteq Ids(usage)

\* A receipt whose append returned is on its spool until a prune removes it.
AckedIsDurable == acked \subseteq Ids(main) \cup Ids(usage)

\* ... and once the replay has caught up it is in the projection, unless a
\* database error was recorded for it: no crash, compaction or deletion of the
\* projection makes it disappear in silence.
Refused == {id \in ReceiptId : <<id, "refused">> \in proj.errors}
CaughtUp == Resumed.main = Bytes(main) /\ Resumed.usage = Bytes(usage)
AckedIsVisible ==
    CaughtUp =>
        acked \subseteq {l.id : l \in proj.receipts} \cup proj.batches \cup Refused

\* A fence splits the main spool where its batch arrived, before and after any
\* compaction: the lines before it are older than the batch, those behind it
\* newer, and no line lies across it.
FencesKeepArrivalOrder ==
    ~mixed =>
        \A b \in DOMAIN usage : usage[b].kind = "usage" =>
            \A i \in DOMAIN main :
                IF main[i].id < usage[b].id
                THEN End(main, i) <= usage[b].fence
                ELSE Start(main, i) >= usage[b].fence

\* Each receipt is on its spool once, in the order of arrival.
WrittenOnce ==
    \A file \in {main, usage} :
        \A i, j \in DOMAIN file : i < j => file[i].id < file[j].id

\* What prune removed stays removed: a replay that goes on from the stored
\* offset does not bring it back.
PrunedStaysPruned == pruned \cap {l.id : l \in proj.receipts} = {}

\* Every record on the main spool, its append acknowledged or not, is projected,
\* pruned or has an error recorded when the replay has caught up.
DurableIsVisible ==
    CaughtUp =>
        \A i \in DOMAIN main :
            \/ main[i].kind \notin {"evidence", "link"}
            \/ main[i] \in proj.receipts
            \/ main[i].id \in pruned \cup Refused

-----------------------------------------------------------------------------
(* What the store promises: ReceiptStore, with the whole lines of the spools *)
(* as the receipts on disk.                                                *)

Batches(ids) == {[kind |-> "usage", id |-> id] : id \in ids}
OnSpools ==
    {l \in {main[i] : i \in DOMAIN main} : l.kind \in {"evidence", "link"}}
        \cup Batches({usage[b].id : b \in {k \in DOMAIN usage : usage[k].kind = "usage"}})

Shown == proj.receipts \cup Batches(proj.batches)
IsPrunable(r) == r.kind = "evidence" /\ r.of \notin Honest

Promised ==
    INSTANCE ReceiptStore
        WITH Receipt <- MainLine \cup Batches(ReceiptId),
             Prunable <- {r \in MainLine : IsPrunable(r)},
             written <- OnSpools, newest <- issued, shown <- Shown,
             refused <- Refused, settled <- CaughtUp

\* The spools, their replay and their compaction keep what ReceiptStore
\* promises. Every append that returned is answered for, every query answers
\* with what a replay would find, and only prune takes a promise back.
ImplementsReceipts == Promised!ReceiptStoreSpec
=============================================================================
