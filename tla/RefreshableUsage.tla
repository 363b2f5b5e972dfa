-------------------------- MODULE RefreshableUsage --------------------------
(***************************************************************************)
(* Refreshable usage: one current fact per slot (a client's session, a     *)
(* model), refreshed by observations that come late, twice, out of order,  *)
(* with no order at all or with contents that contradict each other        *)
(* (evidence_runtime.py, evidence_store.py).  A reconcile decides a batch   *)
(* of transitions against the projection, writes it to the usage spool and *)
(* projects it; a replay projects it again, without deciding.              *)
(*                                                                         *)
(* The spool itself, its offsets and its fences are in EvidenceSpool: here *)
(* a batch is its position on the spool.                                   *)
(***************************************************************************)
EXTENDS StoreValues, Integers, Sequences, FiniteSets

CONSTANTS
    Slot,
    Content,        \* what a reading says, its evidence links included
    Material,       \* the usage in it, without the links
    Reading,        \* readings that a client's log may hold
    MaxEvents,      \* bound: readings in one ledger view
    MaxBatch        \* bound: batches ever written

ASSUME UsageAssumption ==
    /\ Reading \subseteq [slot : Slot, content : Content, order : Nat \cup {None}]
    /\ None \notin Nat \cup Content
    /\ MaxBatch \in Nat

VARIABLES
    written,        \* the batches on the usage spool
    replayed,       \* how many of them the stored replay offset is past
    view,           \* the projection
    ideal,          \* history: what a replay of the first k batches gives
    faultless,      \* history: the database has refused no batch
    listed          \* history: slots named by the last complete snapshot, or since

usageVars == <<written, replayed, view, ideal, faultless, listed>>

-----------------------------------------------------------------------------
Order == Nat \cup {None}
UsageHead == [known : BOOLEAN, content : Content \cup {None}, order : Order, tombstoned : BOOLEAN]
NoHead == [known |-> FALSE, content |-> None, order |-> None, tombstoned |-> FALSE]

Status == {"none", "current", "superseded"}
Conflict == [slot : Slot, content : Content \cup {None}, tombstoned : BOOLEAN, candidate : Content]
Projection ==
    [heads : [Slot -> UsageHead], revisions : [Slot -> [Content -> Status]],
     conflicts : SUBSET Conflict, batches : SUBSET (1 .. MaxBatch)]

Blank ==
    [heads |-> [s \in Slot |-> NoHead],
     revisions |-> [s \in Slot |-> [c \in Content |-> "none"]],
     conflicts |-> {}, batches |-> {}]

Action == {"none", "insert", "update", "resurrect", "watermark", "tombstone", "conflict"}
Transition ==
    [action : Action, prior : UsageHead, content : Content \cup {None}, order : Order]
Batch == [Slot -> Transition]

Newer(a, b) == a # None /\ b # None /\ a > b

-----------------------------------------------------------------------------
(* A view of the ledger, reduced to one reading per slot.                  *)

ReadingsOf(events, s) == {r \in events : r.slot = s}

\* Of the same content the reading with the latest order, any order before none.
Candidates(readings) ==
    {r \in readings : \A q \in readings :
        q.content = r.content => q.order = None \/ (r.order # None /\ ~Newer(q.order, r.order))}

\* Contents that contradict each other need orders, and one that is the latest.
Selected(readings) ==
    {r \in Candidates(readings) :
        \A q \in Candidates(readings) : q.content # r.content => Newer(r.order, q.order)}

\* An ambiguous slot is an error, and takes the authority to infer deletions.
Divergent(readings) == readings # {} /\ Selected(readings) = {}

-----------------------------------------------------------------------------
(* The decision.                                                           *)

ConflictOf(s, h, content) ==
    [slot |-> s, content |-> h.content, tombstoned |-> h.tombstoned, candidate |-> content]

MutantContradiction(p, s, h, r) == "conflict"

Contradiction(p, s, h, r) ==
    IF ConflictOf(s, h, r.content) \in p.conflicts THEN "none" ELSE "conflict"

DecideTombstoned(p, s, h, r, complete) ==
    IF Newer(r.order, h.order) THEN "resurrect"
    ELSE IF Newer(h.order, r.order) THEN "none"
    ELSE IF r.content # h.content THEN Contradiction(p, s, h, r)
    ELSE IF complete THEN "resurrect" ELSE "none"

MutantDecideLive(p, s, h, r) ==
    IF Newer(h.order, r.order) THEN "none"
    ELSE IF r.content = h.content THEN "watermark" ELSE "update"

DecideLive(p, s, h, r) ==
    IF r.content = h.content
    THEN IF Newer(r.order, h.order) THEN "watermark" ELSE "none"
    ELSE IF Newer(r.order, h.order) THEN "update"
    ELSE IF Newer(h.order, r.order) \/ Material[r.content] = Material[h.content] THEN "none"
    ELSE Contradiction(p, s, h, r)

Decide(p, s, r, complete) ==
    LET h == p.heads[s]
    IN  IF ~h.known THEN "insert"
        ELSE IF h.tombstoned THEN DecideTombstoned(p, s, h, r, complete)
        ELSE DecideLive(p, s, h, r)

NoTransition == [action |-> "none", prior |-> NoHead, content |-> None, order |-> None]

MutantTransitionFor(p, s, readings, complete) ==
    IF readings = {} THEN NoTransition
    ELSE LET r == CHOOSE r \in readings : TRUE
             action == Decide(p, s, r, complete)
         IN  IF action = "none" THEN NoTransition
             ELSE [action |-> action, prior |-> p.heads[s], content |-> r.content,
                   order |-> r.order]

TransitionFor(p, s, readings, complete) ==
    IF readings = {}
    THEN IF complete /\ p.heads[s].known /\ ~p.heads[s].tombstoned
         THEN [action |-> "tombstone", prior |-> p.heads[s], content |-> None, order |-> None]
         ELSE NoTransition
    ELSE LET r == CHOOSE r \in readings : TRUE
             action == Decide(p, s, r, complete)
         IN  IF action = "none" THEN NoTransition
             ELSE [action |-> action, prior |-> p.heads[s], content |-> r.content,
                   order |-> r.order]

Decided(p, events, complete) ==
    [s \in Slot |-> TransitionFor(p, s, Selected(ReadingsOf(events, s)), complete)]

Nothing(batch) == \A s \in Slot : batch[s].action = "none"

-----------------------------------------------------------------------------
(* The projection of a batch, decided now or read from the spool.          *)

\* The projection asks again whether the head is the one decided against.
Applies(p, s, t) ==
    LET h == p.heads[s]
        status == p.revisions[s]
    IN  /\ t.action = "insert" =>
              ~h.known /\ t.prior = NoHead /\ status[t.content] = "none"
        /\ t.action \notin {"none", "insert"} => h.known /\ h = t.prior
        /\ t.action \in {"update", "watermark", "tombstone"} =>
              ~h.tombstoned /\ status[h.content] = "current"
        /\ t.action = "resurrect" => h.tombstoned /\ status[h.content] = "superseded"
        /\ t.action \in {"update", "conflict"} => t.content # h.content
        /\ t.action \in {"update", "resurrect"} => status[t.content] # "current"
        /\ t.action = "watermark" => t.content = h.content /\ Newer(t.order, h.order)
        /\ t.action = "conflict" => ConflictOf(s, h, t.content) \notin p.conflicts

Applicable(p, batch) == \A s \in Slot : Applies(p, s, batch[s])

HeadAfter(h, t) ==
    IF t.action \in {"insert", "update", "resurrect", "watermark"}
    THEN [known |-> TRUE, content |-> t.content, order |-> t.order, tombstoned |-> FALSE]
    ELSE IF t.action = "tombstone" THEN [h EXCEPT !.tombstoned = TRUE]
    ELSE h

Becomes(t, c) == t.action \in {"insert", "update", "resurrect"} /\ c = t.content
MutantSupersedes(h, t, c) == t.action = "tombstone" /\ c = h.content
Supersedes(h, t, c) == t.action \in {"update", "tombstone"} /\ c = h.content

StatusAfter(status, h, t) ==
    [c \in Content |->
        IF Becomes(t, c) THEN "current" ELSE IF Supersedes(h, t, c) THEN "superseded" ELSE status[c]]

Conflicts(p, batch) ==
    {ConflictOf(s, p.heads[s], batch[s].content) :
        s \in {x \in Slot : batch[x].action = "conflict"}}

\* One transaction: batch n is projected whole or not at all.
Applied(p, batch, n) ==
    [heads |-> [s \in Slot |-> HeadAfter(p.heads[s], batch[s])],
     revisions |-> [s \in Slot |-> StatusAfter(p.revisions[s], p.heads[s], batch[s])],
     conflicts |-> p.conflicts \cup Conflicts(p, batch),
     batches |-> p.batches \cup {n}]

\* What a replay from zero gives after k batches.
IdealAt(k) == IF k = 0 THEN Blank ELSE ideal[k]

-----------------------------------------------------------------------------
CaughtUpUsage == replayed = Len(written)

\* reconcile_refreshable_usage, which has replayed first. A crash may cut it off
\* behind the write of the batch, its projection, or the store of the offset.
Reconciles(events, complete) ==
    LET batch == Decided(view, events, complete)
        n == Len(written) + 1
        named == {s \in Slot : Selected(ReadingsOf(events, s)) # {}}
    IN  /\ CaughtUpUsage
        /\ complete => \A s \in Slot : ~Divergent(ReadingsOf(events, s))
        /\ listed' = IF complete THEN named ELSE listed \cup named
        /\ IF Nothing(batch)
           THEN UNCHANGED <<written, replayed, view, ideal, faultless>>
           ELSE /\ n <= MaxBatch
                /\ written' = Append(written, batch)
                /\ ideal' = Append(ideal,
                       IF Applicable(IdealAt(n - 1), batch)
                       THEN Applied(IdealAt(n - 1), batch, n) ELSE IdealAt(n - 1))
                /\ \/ Applicable(view, batch) /\ view' = Applied(view, batch, n) /\ replayed' = n
                   \/ Applicable(view, batch) /\ view' = Applied(view, batch, n) /\ UNCHANGED replayed
                   \/ UNCHANGED <<view, replayed>>
                /\ UNCHANGED faultless

\* One line of the replay. A batch that was projected before is passed over; one
\* whose preconditions fail, or that the database refuses, leaves an error.
ReplayBatch ==
    LET n == replayed + 1
        batch == written[n]
    IN  /\ n <= Len(written)
        /\ \/ /\ n \in view.batches
              /\ replayed' = n
              /\ UNCHANGED <<view, faultless>>
           \/ /\ n \notin view.batches /\ Applicable(view, batch)
              /\ view' = Applied(view, batch, n)
              /\ replayed' \in {n, replayed}
              /\ UNCHANGED faultless
           \/ /\ n \notin view.batches /\ ~Applicable(view, batch)
              /\ replayed' = n
              /\ UNCHANGED <<view, faultless>>
        /\ UNCHANGED <<written, ideal, listed>>

DatabaseError ==
    /\ replayed < Len(written)
    /\ replayed + 1 \notin view.batches
    /\ replayed' = replayed + 1
    /\ faultless' = FALSE
    /\ UNCHANGED <<written, view, ideal, listed>>

\* A compaction that was cut off before it stored the offset.
Rewind ==
    /\ replayed > 0
    /\ replayed' = 0
    /\ UNCHANGED <<written, view, ideal, faultless, listed>>

\* Somebody deletes the projection to have it rebuilt.
DeleteView ==
    /\ view # Blank
    /\ view' = Blank
    /\ replayed' = 0
    /\ UNCHANGED <<written, ideal, faultless, listed>>

LedgerViews == {events \in SUBSET Reading : Cardinality(events) <= MaxEvents}

UsageInit ==
    /\ written = <<>>
    /\ replayed = 0
    /\ view = Blank
    /\ ideal = <<>>
    /\ faultless = TRUE
    /\ listed = {}

UsageNext ==
    \/ \E events \in LedgerViews, complete \in BOOLEAN : Reconciles(events, complete)
    \/ ReplayBatch
    \/ DatabaseError
    \/ Rewind
    \/ DeleteView

UsageSpec == UsageInit /\ [][UsageNext]_usageVars

-----------------------------------------------------------------------------
UsageTypeOK ==
    /\ written \in Seq(Batch) /\ Len(written) <= MaxBatch
    /\ replayed \in 0 .. Len(written)
    /\ view \in Projection
    /\ ideal \in Seq(Projection) /\ Len(ideal) = Len(written)
    /\ faultless \in BOOLEAN
    /\ listed \subseteq Slot

\* A live head has exactly one current revision, its own; a tombstoned one has
\* none, and its last revision is kept superseded so that it can come back. No
\* order of observations, replays, refusals and rewinds leaves two revisions
\* current or the head of a slot pointing nowhere.
Consistent(p) ==
    \A s \in Slot :
        LET h == p.heads[s]
            current == {c \in Content : p.revisions[s][c] = "current"}
        IN  /\ current = IF h.known /\ ~h.tombstoned THEN {h.content} ELSE {}
            /\ h.known => h.content \in Content /\ p.revisions[s][h.content] # "none"
            /\ ~h.known => h = NoHead /\ \A c \in Content : p.revisions[s][c] = "none"

OneCurrentRevision == Consistent(view)

\* The spool alone gives the projection back: as long as the database has refused
\* nothing, whatever was cut off, rewound or deleted, the projection is what a
\* replay from zero gives, and no batch on the spool fails its preconditions.
RebuildAgrees ==
    faultless =>
        \E n \in replayed .. Len(written) :
            /\ view = IdealAt(n)
            /\ \A k \in 1 .. Len(written) : Applicable(IdealAt(k - 1), written[k])

\* A reading changes the content of a fact only when its order is strictly later,
\* and no reading, late or repeated, takes the order of a fact back.
HeadsAdvance ==
    [][\A s \in Slot :
        LET h == view.heads[s]
            new == view'.heads[s]
        IN  h.known /\ new.known =>
              /\ new.content # h.content => Newer(new.order, h.order)
              /\ ~Newer(h.order, new.order)]_usageVars

\* A fact that the last complete snapshot did not list is not current, unless a
\* reading has named it since: neither a partial refresh nor a replay revives it.
UnlistedIsTombstoned ==
    faultless /\ CaughtUpUsage =>
        \A s \in Slot : view.heads[s].known /\ ~view.heads[s].tombstoned => s \in listed
=============================================================================
