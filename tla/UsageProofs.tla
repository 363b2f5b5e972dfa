----------------------------- MODULE UsageProofs -----------------------------
(***************************************************************************)
(* What refreshable usage promises for any slots, contents, readings and   *)
(* bounds: its types, one current revision per live fact, a projection     *)
(* that the spool alone gives back, contents that only move forward, and   *)
(* facts that stay deleted. And what the health file promises of the       *)
(* imports, for any processes, sources, versions and bounds: its types,    *)
(* outcomes that are recorded in order, no failure that is hidden, and     *)
(* processes that are left alone while they live.                          *)
(***************************************************************************)
EXTENDS RefreshableUsage, IngestionHealth, TLAPS


-----------------------------------------------------------------------------
(* Types.                                                                  *)

EventsOK(events) == events \subseteq Reading

LEMMA SelectedTyped ==
  ASSUME NEW events, EventsOK(events), NEW s \in Slot,
         NEW r \in Selected(ReadingsOf(events, s))
  PROVE  r.content \in Content /\ r.order \in Order
BY UsageAssumption DEF EventsOK, Selected, Candidates, ReadingsOf, Order

LEMMA DecideTyped ==
  ASSUME NEW p, NEW s, NEW r, NEW complete
  PROVE  Decide(p, s, r, complete) \in
            {"none", "insert", "update", "resurrect", "watermark", "conflict"}
<1>1. Contradiction(p, s, p.heads[s], r) \in {"none", "conflict"}
  BY DEF Contradiction
<1>2. DecideTombstoned(p, s, p.heads[s], r, complete) \in {"none", "resurrect", "conflict"}
  BY <1>1, Zenon DEF DecideTombstoned
<1>3. DecideLive(p, s, p.heads[s], r) \in {"none", "watermark", "update", "conflict"}
  BY <1>1, Zenon DEF DecideLive
<1> QED
  BY <1>2, <1>3 DEF Decide

LEMMA NoTransitionTyped == NoTransition \in Transition
BY DEF NoTransition, Transition, Action, NoHead, UsageHead, Order

LEMMA HeadTyped ==
  ASSUME NEW p \in Projection, NEW s \in Slot
  PROVE  p.heads[s] \in UsageHead
BY DEF Projection

LEMMA DecidedTyped ==
  ASSUME NEW p \in Projection, NEW events, EventsOK(events), NEW complete
  PROVE  Decided(p, events, complete) \in Batch
<1> SUFFICES ASSUME NEW s \in Slot
             PROVE  TransitionFor(p, s, Selected(ReadingsOf(events, s)), complete) \in Transition
  BY DEF Decided, Batch
<1> DEFINE readings == Selected(ReadingsOf(events, s))
           r == CHOOSE r \in readings : TRUE
           action == Decide(p, s, r, complete)
<1>1. p.heads[s] \in UsageHead
  BY HeadTyped
<1>2. CASE readings = {}
  BY <1>1, <1>2, NoTransitionTyped DEF TransitionFor, Transition, Action, Order
<1>3. CASE readings # {}
  <2>1. r \in readings
    BY <1>3
  <2>2. r.content \in Content /\ r.order \in Order
    BY <2>1, SelectedTyped
  <2>3. action \in Action
    BY DecideTyped DEF Action
  <2>4. [action |-> action, prior |-> p.heads[s], content |-> r.content, order |-> r.order]
          \in Transition
    BY <1>1, <2>2, <2>3 DEF Transition
  <2> QED
    BY <1>3, <2>4, NoTransitionTyped DEF TransitionFor
<1> QED
  BY <1>2, <1>3

LEMMA HeadAfterTyped ==
  ASSUME NEW h \in UsageHead, NEW t \in Transition
  PROVE  HeadAfter(h, t) \in UsageHead
BY DEF HeadAfter, UsageHead, Transition

LEMMA StatusAfterTyped ==
  ASSUME NEW status \in [Content -> Status], NEW h, NEW t
  PROVE  StatusAfter(status, h, t) \in [Content -> Status]
BY DEF StatusAfter, Status

LEMMA ConflictsTyped ==
  ASSUME NEW p \in Projection, NEW batch \in Batch, Applicable(p, batch),
         \A s \in Slot : batch[s].action = "conflict" => batch[s].content \in Content
  PROVE  Conflicts(p, batch) \subseteq Conflict
BY DEF Conflicts, ConflictOf, Conflict, Projection, UsageHead

\* A batch carries a content wherever it needs one.
Carries(batch) ==
    \A s \in Slot :
        batch[s].action \notin {"none", "tombstone"} => batch[s].content \in Content

LEMMA AppliedTyped ==
  ASSUME NEW p \in Projection, NEW batch \in Batch, Applicable(p, batch), Carries(batch),
         NEW n \in 1 .. MaxBatch
  PROVE  Applied(p, batch, n) \in Projection
<1>1. [s \in Slot |-> HeadAfter(p.heads[s], batch[s])] \in [Slot -> UsageHead]
  BY HeadAfterTyped DEF Projection, Batch
<1>2. [s \in Slot |-> StatusAfter(p.revisions[s], p.heads[s], batch[s])]
        \in [Slot -> [Content -> Status]]
  BY StatusAfterTyped DEF Projection
<1>3. Conflicts(p, batch) \subseteq Conflict
  BY ConflictsTyped DEF Carries
<1>4. p.conflicts \subseteq Conflict /\ p.batches \subseteq 1 .. MaxBatch
  BY DEF Projection
<1> QED
  BY <1>1, <1>2, <1>3, <1>4 DEF Applied, Projection

LEMMA BlankTyped == Blank \in Projection
BY DEF Blank, Projection, NoHead, UsageHead, Status, Order

LEMMA DecidedCarries ==
  ASSUME NEW p \in Projection, NEW events, EventsOK(events), NEW complete
  PROVE  Carries(Decided(p, events, complete))
<1> SUFFICES ASSUME NEW s \in Slot,
                    NEW t, t = TransitionFor(p, s, Selected(ReadingsOf(events, s)), complete),
                    t.action \notin {"none", "tombstone"}
             PROVE  t.content \in Content
  BY DEF Carries, Decided
<1> DEFINE readings == Selected(ReadingsOf(events, s))
           r == CHOOSE r \in readings : TRUE
<1>1. readings # {}
  BY DEF TransitionFor, NoTransition
<1>2. r \in readings
  BY <1>1
<1>3. r.content \in Content
  BY <1>2, SelectedTyped
<1> QED
  BY <1>1, <1>3 DEF TransitionFor, NoTransition

-----------------------------------------------------------------------------
(* One current revision.                                                   *)

LEMMA ConsistentBlank == Consistent(Blank)
BY DEF Consistent, Blank, NoHead

\* What Consistent says of one slot.
SlotConsistent(h, status) ==
    /\ \A c \in Content : status[c] = "current" <=> (h.known /\ ~h.tombstoned /\ c = h.content)
    /\ h.known => h.content \in Content /\ status[h.content] # "none"
    /\ ~h.known => h = NoHead /\ \A c \in Content : status[c] = "none"

LEMMA ConsistentSlots ==
  ASSUME NEW p \in Projection
  PROVE  Consistent(p) <=> \A s \in Slot : SlotConsistent(p.heads[s], p.revisions[s])
<1>1. ASSUME NEW s \in Slot, NEW h, h = p.heads[s], h.known => h.content \in Content
      PROVE  ({c \in Content : p.revisions[s][c] = "current"}
                = IF h.known /\ ~h.tombstoned THEN {h.content} ELSE {})
             <=> \A c \in Content : p.revisions[s][c] = "current"
                    <=> (h.known /\ ~h.tombstoned /\ c = h.content)
  <2>1. CASE h.known /\ ~h.tombstoned
    BY <1>1, <2>1
  <2>2. CASE ~(h.known /\ ~h.tombstoned)
    BY <1>1, <2>2
  <2> QED
    BY <2>1, <2>2
<1>2. ASSUME Consistent(p), NEW s \in Slot
      PROVE  SlotConsistent(p.heads[s], p.revisions[s])
  <2>1. p.heads[s].known => p.heads[s].content \in Content
    BY <1>2 DEF Consistent
  <2> QED
    BY <1>1, <1>2, <2>1 DEF Consistent, SlotConsistent
<1>3. ASSUME \A s \in Slot : SlotConsistent(p.heads[s], p.revisions[s])
      PROVE  Consistent(p)
  <2> SUFFICES ASSUME NEW s \in Slot
               PROVE  LET h == p.heads[s]
                          current == {c \in Content : p.revisions[s][c] = "current"}
                      IN  /\ current = IF h.known /\ ~h.tombstoned THEN {h.content} ELSE {}
                          /\ h.known => h.content \in Content /\ p.revisions[s][h.content] # "none"
                          /\ ~h.known => h = NoHead /\ \A c \in Content : p.revisions[s][c] = "none"
    BY DEF Consistent
  <2>1. p.heads[s].known => p.heads[s].content \in Content
    BY <1>3 DEF SlotConsistent
  <2> QED
    BY <1>1, <1>3, <2>1 DEF SlotConsistent
<1> QED
  BY <1>2, <1>3

LEMMA SlotKept ==
  ASSUME NEW p \in Projection, NEW s \in Slot, NEW t \in Transition,
         SlotConsistent(p.heads[s], p.revisions[s]), Applies(p, s, t),
         t.action \notin {"none", "tombstone"} => t.content \in Content
  PROVE  SlotConsistent(HeadAfter(p.heads[s], t), StatusAfter(p.revisions[s], p.heads[s], t))
<1> DEFINE h == p.heads[s]
           status == p.revisions[s]
<1>1. h \in UsageHead /\ status \in [Content -> Status]
  BY DEF Projection
<1>2. t.action \in Action
  BY DEF Transition
<1>3. CASE t.action \in {"none", "conflict"}
  <2>1. HeadAfter(h, t) = h
    BY <1>3 DEF HeadAfter
  <2>2. \A c \in Content : StatusAfter(status, h, t)[c] = status[c]
    BY <1>3 DEF StatusAfter, Becomes, Supersedes
  <2> HIDE DEF h, status
  <2> QED
    BY <2>1, <2>2 DEF SlotConsistent, h, status
<1>4. CASE t.action = "tombstone"
  <2>1. /\ HeadAfter(h, t).known = h.known
        /\ HeadAfter(h, t).content = h.content
        /\ HeadAfter(h, t).tombstoned = TRUE
    BY <1>1, <1>4 DEF HeadAfter, UsageHead
  <2>2. h.known
    BY <1>4 DEF Applies
  <2>3. \A c \in Content :
          StatusAfter(status, h, t)[c] = IF c = h.content THEN "superseded" ELSE status[c]
    BY <1>4 DEF StatusAfter, Becomes, Supersedes
  <2> QED
    BY <2>1, <2>2, <2>3 DEF SlotConsistent
<1>5. CASE t.action \in {"insert", "update", "resurrect", "watermark"}
  <2>1. /\ HeadAfter(h, t).known = TRUE
        /\ HeadAfter(h, t).content = t.content
        /\ HeadAfter(h, t).tombstoned = FALSE
    BY <1>5 DEF HeadAfter
  <2>2. t.content \in Content
    BY <1>5
  <2>3. CASE t.action = "watermark"
    <3>1. \A c \in Content : StatusAfter(status, h, t)[c] = status[c]
      BY <2>3 DEF StatusAfter, Becomes, Supersedes
    <3>2. h.known /\ ~h.tombstoned /\ t.content = h.content
      BY <2>3 DEF Applies
    <3> QED
      BY <2>1, <3>1, <3>2 DEF SlotConsistent
  <2>4. CASE t.action \in {"insert", "resurrect"}
    <3>1. \A c \in Content :
            StatusAfter(status, h, t)[c] = IF c = t.content THEN "current" ELSE status[c]
      BY <2>4 DEF StatusAfter, Becomes, Supersedes
    <3>2. ~h.known \/ h.tombstoned
      BY <2>4 DEF Applies
    <3>3. \A c \in Content : status[c] # "current"
      BY <3>2 DEF SlotConsistent
    <3> QED
      BY <2>1, <2>2, <3>1, <3>3 DEF SlotConsistent
  <2>5. CASE t.action = "update"
    <3>1. \A c \in Content :
            StatusAfter(status, h, t)[c] =
                IF c = t.content THEN "current"
                ELSE IF c = h.content THEN "superseded" ELSE status[c]
      BY <2>5 DEF StatusAfter, Becomes, Supersedes
    <3>2. h.known /\ ~h.tombstoned
      BY <2>5 DEF Applies
    <3> QED
      BY <2>1, <2>2, <3>1, <3>2 DEF SlotConsistent
  <2> QED
    BY <1>5, <2>3, <2>4, <2>5
<1> QED
  BY <1>2, <1>3, <1>4, <1>5 DEF Action

LEMMA AppliedSlot ==
  ASSUME NEW p, NEW batch, NEW n, NEW s \in Slot
  PROVE  /\ Applied(p, batch, n).heads[s] = HeadAfter(p.heads[s], batch[s])
         /\ Applied(p, batch, n).revisions[s] = StatusAfter(p.revisions[s], p.heads[s], batch[s])
         /\ Applied(p, batch, n).batches = p.batches \cup {n}
BY DEF Applied

LEMMA ConsistentKept ==
  ASSUME NEW p \in Projection, NEW batch \in Batch, NEW n \in 1 .. MaxBatch,
         Consistent(p), Applicable(p, batch), Carries(batch)
  PROVE  Consistent(Applied(p, batch, n))
<1>1. Applied(p, batch, n) \in Projection
  BY AppliedTyped
<1>2. ASSUME NEW s \in Slot
      PROVE  SlotConsistent(Applied(p, batch, n).heads[s], Applied(p, batch, n).revisions[s])
  <2>1. SlotConsistent(p.heads[s], p.revisions[s])
    BY ConsistentSlots
  <2>2. Applies(p, s, batch[s]) /\ batch[s] \in Transition
    BY DEF Applicable, Batch
  <2>3. batch[s].action \notin {"none", "tombstone"} => batch[s].content \in Content
    BY DEF Carries
  <2> QED
    BY <2>1, <2>2, <2>3, SlotKept, AppliedSlot
<1> QED
  BY <1>1, <1>2, ConsistentSlots

\* What is decided on a consistent projection can be projected on it.
LEMMA DecidedApplies ==
  ASSUME NEW p \in Projection, Consistent(p), NEW events, EventsOK(events),
         NEW complete \in BOOLEAN
  PROVE  Applicable(p, Decided(p, events, complete))
<1> SUFFICES ASSUME NEW s \in Slot,
                    NEW t, t = TransitionFor(p, s, Selected(ReadingsOf(events, s)), complete)
             PROVE  Applies(p, s, t)
  BY DEF Applicable, Decided
<1> DEFINE readings == Selected(ReadingsOf(events, s))
           r == CHOOSE r \in readings : TRUE
           h == p.heads[s]
           status == p.revisions[s]
           action == Decide(p, s, r, complete)
<1>1. SlotConsistent(h, status)
  BY ConsistentSlots
<1>2. h \in UsageHead /\ status \in [Content -> Status]
  BY DEF Projection
<1>3. CASE t = NoTransition
  BY <1>3 DEF Applies, NoTransition
<1>4. CASE readings = {} /\ t # NoTransition
  <2>1. /\ h.known /\ ~h.tombstoned
        /\ t.action = "tombstone" /\ t.prior = h
    BY <1>4 DEF TransitionFor
  <2>2. status[h.content] = "current"
    BY <1>1, <2>1 DEF SlotConsistent
  <2> QED
    BY <2>1, <2>2 DEF Applies
<1>5. CASE readings # {} /\ t # NoTransition
  <2>1. r \in readings
    BY <1>5
  <2>2. r.content \in Content
    BY <2>1, SelectedTyped
  <2>3. /\ t.action = action /\ t.prior = h /\ t.content = r.content /\ t.order = r.order
        /\ action # "none"
    BY <1>5 DEF TransitionFor
  <2> HIDE DEF r, readings
  <2>4. CASE ~h.known
    <3>1. action = "insert"
      BY <2>4 DEF Decide
    <3> QED
      BY <1>1, <2>2, <2>3, <2>4, <3>1 DEF Applies, SlotConsistent
  <2>5. CASE h.known /\ h.tombstoned
    <3>1. action = DecideTombstoned(p, s, h, r, complete)
      BY <2>5 DEF Decide
    <3>2. \/ action = "resurrect"
          \/ /\ action = "conflict" /\ r.content # h.content
             /\ ConflictOf(s, h, r.content) \notin p.conflicts
      BY <2>3, <3>1 DEF DecideTombstoned, Contradiction
    <3>3. status[h.content] = "superseded" /\ status[r.content] # "current"
      BY <1>1, <1>2, <2>2, <2>5 DEF SlotConsistent, Status
    <3> HIDE DEF action, h, status
    <3> QED
      BY <2>3, <2>5, <3>2, <3>3 DEF Applies, h, status
  <2>6. CASE h.known /\ ~h.tombstoned
    <3>1. action = DecideLive(p, s, h, r)
      BY <2>6 DEF Decide
    <3>2. \/ action = "watermark" /\ r.content = h.content /\ Newer(r.order, h.order)
          \/ action = "update" /\ r.content # h.content
          \/ /\ action = "conflict" /\ r.content # h.content
             /\ ConflictOf(s, h, r.content) \notin p.conflicts
      BY <2>3, <3>1 DEF DecideLive, Contradiction
    <3>3. /\ status[h.content] = "current"
          /\ r.content # h.content => status[r.content] # "current"
      BY <1>1, <1>2, <2>2, <2>6 DEF SlotConsistent
    <3> HIDE DEF action, h, status
    <3> QED
      BY <2>3, <2>6, <3>2, <3>3 DEF Applies, h, status
  <2> QED
    BY <1>2, <2>4, <2>5, <2>6 DEF UsageHead
<1> QED
  BY <1>3, <1>4, <1>5

-----------------------------------------------------------------------------
(* The inductive invariant.                                                *)

\* The new content of a transition was read with a later order, and no order is
\* earlier than the one it replaces. (Nothing checks that again in a replay.)
Forward(t) ==
    t.action \in {"update", "resurrect", "watermark"} =>
        /\ t.content # t.prior.content => Newer(t.order, t.prior.order)
        /\ ~Newer(t.prior.order, t.order)

BatchesOK ==
    \A k \in 1 .. Len(written) : Carries(written[k]) /\ \A s \in Slot : Forward(written[k][s])

ProjectionsOK ==
    /\ Consistent(view)
    /\ \A k \in 0 .. Len(written) : Consistent(IdealAt(k))

\* The spool read from zero, batch after batch, and where the view is on it.
Chained(k) ==
    /\ Applicable(IdealAt(k - 1), written[k])
    /\ IdealAt(k) = Applied(IdealAt(k - 1), written[k], k)

OnChain ==
    /\ \A k \in 1 .. Len(written) : Chained(k)
    /\ \A k \in 0 .. Len(written) : IdealAt(k).batches = 1 .. k
    /\ \E n \in replayed .. Len(written) : view = IdealAt(n)

Live(h) == h.known /\ ~h.tombstoned

Listed ==
    \A k \in 0 .. Len(written) :
        k = Len(written) => \A s \in Slot : Live(IdealAt(k).heads[s]) => s \in listed

UsageInv ==
    /\ UsageTypeOK
    /\ BatchesOK
    /\ ProjectionsOK
    /\ faultless => OnChain /\ Listed

LEMMA DecidedForward ==
  ASSUME NEW p \in Projection, NEW events, EventsOK(events), NEW complete \in BOOLEAN,
         NEW s \in Slot
  PROVE  Forward(Decided(p, events, complete)[s])
<1> DEFINE readings == Selected(ReadingsOf(events, s))
           r == CHOOSE r \in readings : TRUE
           h == p.heads[s]
           action == Decide(p, s, r, complete)
<1> SUFFICES ASSUME NEW t, t = TransitionFor(p, s, readings, complete),
                    t.action \in {"update", "resurrect", "watermark"}
             PROVE  /\ t.content # t.prior.content => Newer(t.order, t.prior.order)
                    /\ ~Newer(t.prior.order, t.order)
  BY DEF Decided, Forward
<1>1. readings # {}
  BY DEF TransitionFor, NoTransition
<1>2. r \in readings
  BY <1>1
<1>3. r.order \in Order /\ h.order \in Order
  BY <1>2, SelectedTyped DEF Projection, UsageHead
<1>4. t.action = action /\ t.prior = h /\ t.content = r.content /\ t.order = r.order
  BY <1>1 DEF TransitionFor, NoTransition
<1> HIDE DEF readings, r
<1>5. h.known
  BY <1>4 DEF Decide
<1>6. CASE h.tombstoned
  <2>1. action = DecideTombstoned(p, s, h, r, complete)
    BY <1>5, <1>6 DEF Decide
  <2>2. \/ Newer(r.order, h.order)
        \/ ~Newer(h.order, r.order) /\ r.content = h.content
    BY <1>4, <2>1 DEF DecideTombstoned, Contradiction
  <2> QED
    BY <1>3, <1>4, <2>2, UsageAssumption DEF Newer, Order
<1>7. CASE ~h.tombstoned
  <2>1. action = DecideLive(p, s, h, r)
    BY <1>5, <1>7 DEF Decide
  <2>2. Newer(r.order, h.order)
    BY <1>4, <2>1 DEF DecideLive, Contradiction
  <2> QED
    BY <1>3, <1>4, <2>2, UsageAssumption DEF Newer, Order
<1> QED
  BY <1>6, <1>7

LEMMA IdealTyped ==
  ASSUME UsageTypeOK, NEW k \in 0 .. Len(written)
  PROVE  IdealAt(k) \in Projection
BY BlankTyped DEF UsageTypeOK, IdealAt

LEMMA UsageInvInit == UsageInit => UsageInv
<1> SUFFICES ASSUME UsageInit PROVE UsageInv
  OBVIOUS
<1>1. UsageTypeOK
  BY BlankTyped, UsageAssumption DEF UsageInit, UsageTypeOK
<1>2. Len(written) = 0 /\ IdealAt(0) = Blank /\ view = Blank /\ replayed = 0
  BY DEF UsageInit, IdealAt
<1>3. BatchesOK
  BY <1>2 DEF BatchesOK
<1>4. ProjectionsOK
  BY <1>2, ConsistentBlank DEF ProjectionsOK
<1>5. Blank.batches = {} /\ \A s \in Slot : ~Live(Blank.heads[s])
  BY DEF Blank, Live, NoHead
<1>6. OnChain
  BY <1>2, <1>5 DEF OnChain
<1>7. Listed
  BY <1>2, <1>5 DEF Listed
<1> QED
  BY <1>1, <1>3, <1>4, <1>6, <1>7 DEF UsageInv

\* Steps that write nothing keep what is said of the spool.
LEMMA SpoolKept ==
  ASSUME UsageInv, UNCHANGED <<written, ideal, listed>>,
         replayed' \in 0 .. Len(written), view' \in Projection, Consistent(view'),
         faultless' \in BOOLEAN, faultless' => faultless,
         faultless' => \E n \in replayed' .. Len(written) : view' = IdealAt(n)
  PROVE  UsageInv'
<1>1. UsageTypeOK'
  BY DEF UsageInv, UsageTypeOK
<1>2. \A k : IdealAt(k)' = IdealAt(k)
  BY DEF IdealAt
<1>3. BatchesOK'
  BY DEF UsageInv, BatchesOK
<1>4. ProjectionsOK'
  BY <1>2 DEF UsageInv, ProjectionsOK, Consistent
<1>5. ASSUME faultless' PROVE OnChain'
  <2>1. OnChain
    BY <1>5 DEF UsageInv
  <2>2. \A k \in 1 .. Len(written) : Chained(k)'
    BY <1>2, <2>1 DEF OnChain, Chained
  <2> QED
    BY <1>2, <1>5, <2>1, <2>2 DEF OnChain
<1>6. ASSUME faultless' PROVE Listed'
  BY <1>2, <1>6 DEF UsageInv, Listed
<1> QED
  BY <1>1, <1>3, <1>4, <1>5, <1>6 DEF UsageInv

\* A batch that the spool holds, projected on a projection it applies to.
LEMMA Projects ==
  ASSUME UsageInv, NEW k \in 1 .. Len(written), Applicable(view, written[k])
  PROVE  /\ Applied(view, written[k], k) \in Projection
         /\ Consistent(Applied(view, written[k], k))
<1>1. /\ written[k] \in Batch /\ Carries(written[k]) /\ view \in Projection
      /\ Consistent(view) /\ k \in 1 .. MaxBatch
  BY UsageAssumption DEF UsageInv, UsageTypeOK, BatchesOK, ProjectionsOK
<1> QED
  BY <1>1, AppliedTyped, ConsistentKept

\* Where the view is on the chain, and what the next line is to it.
LEMMA NextOnChain ==
  ASSUME UsageInv, faultless, NEW k \in 1 .. Len(written), k = replayed + 1
  PROVE  \/ /\ k \in view.batches
            /\ \E n \in k .. Len(written) : view = IdealAt(n)
         \/ /\ k \notin view.batches
            /\ view = IdealAt(replayed)
            /\ Applicable(view, written[k])
            /\ Applied(view, written[k], k) = IdealAt(k)
<1>1. replayed \in 0 .. Len(written)
  BY DEF UsageInv, UsageTypeOK
<1>2. PICK n \in replayed .. Len(written) : view = IdealAt(n)
  BY DEF UsageInv, OnChain
<1>3. view.batches = 1 .. n
  BY <1>1, <1>2 DEF UsageInv, OnChain
<1>4. CASE n = replayed
  <2>1. Chained(k)
    BY DEF UsageInv, OnChain
  <2>2. k - 1 = replayed
    BY <1>1
  <2> QED
    BY <1>1, <1>2, <1>3, <1>4, <2>1, <2>2 DEF Chained
<1>5. CASE n # replayed
  <2>1. n \in k .. Len(written) /\ k \in 1 .. n
    BY <1>1, <1>2, <1>5
  <2> QED
    BY <1>2, <1>3, <2>1
<1> QED
  BY <1>4, <1>5

LEMMA ReplayKept == UsageInv /\ ReplayBatch => UsageInv'
<1> SUFFICES ASSUME UsageInv, ReplayBatch PROVE UsageInv'
  OBVIOUS
<1> DEFINE k == replayed + 1
<1>1. /\ replayed \in 0 .. Len(written) /\ Len(written) \in Nat
      /\ view \in Projection /\ Consistent(view) /\ faultless \in BOOLEAN
  BY DEF UsageInv, UsageTypeOK, ProjectionsOK
<1>2. k \in 1 .. Len(written) /\ UNCHANGED <<written, ideal, listed, faultless>>
  BY <1>1 DEF ReplayBatch
<1>3. CASE k \in view.batches /\ replayed' = k /\ view' = view
  <2>1. faultless => \E n \in k .. Len(written) : view = IdealAt(n)
    BY <1>2, <1>3, NextOnChain
  <2> QED
    BY <1>1, <1>2, <1>3, <2>1, SpoolKept
<1>4. CASE /\ k \notin view.batches /\ Applicable(view, written[k])
           /\ view' = Applied(view, written[k], k) /\ replayed' \in {k, replayed}
  <2>1. view' \in Projection /\ Consistent(view')
    BY <1>2, <1>4, Projects
  <2>2. faultless => view' = IdealAt(k)
    BY <1>2, <1>4, NextOnChain
  <2>3. faultless => \E n \in replayed' .. Len(written) : view' = IdealAt(n)
    BY <1>1, <1>2, <1>4, <2>2
  <2>4. replayed' \in 0 .. Len(written)
    BY <1>1, <1>2, <1>4
  <2> HIDE DEF k
  <2> QED
    BY <1>1, <1>2, <2>1, <2>3, <2>4, SpoolKept
<1>5. CASE k \notin view.batches /\ ~Applicable(view, written[k]) /\ replayed' = k /\ view' = view
  <2>1. ~faultless
    BY <1>2, <1>5, NextOnChain
  <2> QED
    BY <1>1, <1>2, <1>5, <2>1, SpoolKept
<1> QED
  BY <1>3, <1>4, <1>5 DEF ReplayBatch

LEMMA ErrorKept == UsageInv /\ DatabaseError => UsageInv'
<1> SUFFICES ASSUME UsageInv, DatabaseError PROVE UsageInv'
  OBVIOUS
<1>1. /\ replayed \in 0 .. Len(written) /\ Len(written) \in Nat
      /\ view \in Projection /\ Consistent(view)
  BY DEF UsageInv, UsageTypeOK, ProjectionsOK
<1>2. replayed' \in 0 .. Len(written) /\ faultless' = FALSE /\ UNCHANGED <<written, view, ideal, listed>>
  BY <1>1 DEF DatabaseError
<1> QED
  BY <1>1, <1>2, SpoolKept

LEMMA RewindKept == UsageInv /\ Rewind => UsageInv'
<1> SUFFICES ASSUME UsageInv, Rewind PROVE UsageInv'
  OBVIOUS
<1>1. /\ replayed \in 0 .. Len(written) /\ Len(written) \in Nat
      /\ view \in Projection /\ Consistent(view) /\ faultless \in BOOLEAN
  BY DEF UsageInv, UsageTypeOK, ProjectionsOK
<1>2. replayed' = 0 /\ UNCHANGED <<written, view, ideal, faultless, listed>>
  BY DEF Rewind
<1>3. faultless => \E n \in 0 .. Len(written) : view = IdealAt(n)
  BY <1>1 DEF UsageInv, OnChain
<1> QED
  BY <1>1, <1>2, <1>3, SpoolKept

LEMMA DeleteKept == UsageInv /\ DeleteView => UsageInv'
<1> SUFFICES ASSUME UsageInv, DeleteView PROVE UsageInv'
  OBVIOUS
<1>1. Len(written) \in Nat /\ faultless \in BOOLEAN
  BY DEF UsageInv, UsageTypeOK
<1>2. view' = Blank /\ replayed' = 0 /\ UNCHANGED <<written, ideal, faultless, listed>>
  BY DEF DeleteView
<1>3. IdealAt(0) = Blank
  BY DEF IdealAt
<1> QED
  BY <1>1, <1>2, <1>3, BlankTyped, ConsistentBlank, SpoolKept

\* A complete snapshot tombstones what it does not list.
LEMMA UnlistedEnds ==
  ASSUME NEW p \in Projection, NEW events, NEW complete \in BOOLEAN, NEW s \in Slot, NEW n,
         Live(Applied(p, Decided(p, events, complete), n).heads[s])
  PROVE  Selected(ReadingsOf(events, s)) # {} \/ (~complete /\ Live(p.heads[s]))
<1> DEFINE t == Decided(p, events, complete)[s]
           h == p.heads[s]
<1> SUFFICES ASSUME Selected(ReadingsOf(events, s)) = {} PROVE ~complete /\ Live(h)
  OBVIOUS
<1>1. t = TransitionFor(p, s, {}, complete)
  BY DEF Decided
<1>2. t.action \in {"none", "tombstone"}
  BY <1>1 DEF TransitionFor, NoTransition
<1>3. h \in UsageHead /\ Live(HeadAfter(h, t))
  BY AppliedSlot DEF Projection
<1>4. t.action # "tombstone"
  BY <1>3 DEF HeadAfter, UsageHead, Live
<1>5. HeadAfter(h, t) = h
  BY <1>2, <1>4 DEF HeadAfter
<1>6. ~(complete /\ Live(h))
  BY <1>1, <1>4 DEF TransitionFor, Live
<1> QED
  BY <1>3, <1>5, <1>6

Named(events) == {s \in Slot : Selected(ReadingsOf(events, s)) # {}}

\* What a reconcile names covers what is live behind its batch.
LEMMA NamedCovers ==
  ASSUME NEW p \in Projection, NEW events, NEW complete \in BOOLEAN, NEW n,
         NEW old, \A s \in Slot : Live(p.heads[s]) => s \in old
  PROVE  \A s \in Slot : Live(Applied(p, Decided(p, events, complete), n).heads[s])
            => s \in IF complete THEN Named(events) ELSE old \cup Named(events)
BY UnlistedEnds DEF Named

LEMMA QuietKept ==
  ASSUME UsageInv, NEW events, NEW complete \in BOOLEAN, CaughtUpUsage,
         Nothing(Decided(view, events, complete)),
         listed' = IF complete THEN Named(events) ELSE listed \cup Named(events),
         UNCHANGED <<written, replayed, view, ideal, faultless>>
  PROVE  UsageInv'
<1>1. UsageTypeOK'
  BY DEF UsageInv, UsageTypeOK, Named
<1>2. \A k : IdealAt(k)' = IdealAt(k)
  BY DEF IdealAt
<1>3. BatchesOK'
  BY DEF UsageInv, BatchesOK
<1>4. ProjectionsOK'
  BY <1>2 DEF UsageInv, ProjectionsOK, Consistent
<1>5. ASSUME faultless' PROVE OnChain' /\ Listed'
  <2>1. OnChain /\ Listed
    BY <1>5 DEF UsageInv
  <2>2. \A k \in 1 .. Len(written) : Chained(k)'
    BY <1>2, <2>1 DEF OnChain, Chained
  <2>3. OnChain'
    BY <1>2, <2>1, <2>2 DEF OnChain
  <2>4. Len(written) \in Nat /\ view \in Projection
    BY DEF UsageInv, UsageTypeOK
  <2>5. view = IdealAt(Len(written))
    BY <2>1, <2>4 DEF OnChain, CaughtUpUsage
  <2>6. \A s \in Slot : Live(view.heads[s]) => s \in listed
    BY <2>1, <2>4, <2>5 DEF Listed
  <2>7. ASSUME NEW s \in Slot
        PROVE  Applied(view, Decided(view, events, complete), 0).heads[s] = view.heads[s]
    <3>1. Decided(view, events, complete)[s].action = "none"
      BY DEF Nothing
    <3>2. HeadAfter(view.heads[s], Decided(view, events, complete)[s]) = view.heads[s]
      BY <3>1 DEF HeadAfter
    <3> QED
      BY <3>2, AppliedSlot
  <2>8. \A s \in Slot : Live(view.heads[s]) => s \in listed'
    BY <2>4, <2>6, <2>7, NamedCovers
  <2>9. Listed'
    BY <1>2, <2>4, <2>5, <2>8 DEF Listed
  <2> QED
    BY <2>3, <2>9
<1> QED
  BY <1>1, <1>3, <1>4, <1>5 DEF UsageInv

LEMMA WriteKept ==
  ASSUME UsageInv, NEW events, EventsOK(events), NEW complete \in BOOLEAN, CaughtUpUsage,
         NEW batch, batch = Decided(view, events, complete),
         NEW n, n = Len(written) + 1, n <= MaxBatch,
         listed' = IF complete THEN Named(events) ELSE listed \cup Named(events),
         written' = Append(written, batch),
         ideal' = Append(ideal, IF Applicable(IdealAt(n - 1), batch)
                                THEN Applied(IdealAt(n - 1), batch, n) ELSE IdealAt(n - 1)),
         \/ view' = Applied(view, batch, n) /\ replayed' \in {n, replayed}
         \/ UNCHANGED <<view, replayed>>,
         UNCHANGED faultless
  PROVE  UsageInv'
<1> DEFINE N == Len(written)
           before == IdealAt(N)
           after == IF Applicable(before, batch) THEN Applied(before, batch, n) ELSE before
<1>1. /\ N \in Nat /\ n \in 1 .. MaxBatch /\ n = N + 1 /\ n - 1 = N /\ replayed = N
      /\ written \in Seq(Batch) /\ ideal \in Seq(Projection) /\ Len(ideal) = N
      /\ view \in Projection /\ Consistent(view) /\ listed \subseteq Slot /\ faultless \in BOOLEAN
  BY UsageAssumption DEF UsageInv, UsageTypeOK, ProjectionsOK, CaughtUpUsage
<1>2. /\ batch \in Batch /\ Carries(batch) /\ Applicable(view, batch)
      /\ \A s \in Slot : Forward(batch[s])
  BY <1>1, DecidedTyped, DecidedCarries, DecidedApplies, DecidedForward
<1>3. before \in Projection /\ Consistent(before)
  BY <1>1, IdealTyped DEF UsageInv, ProjectionsOK
<1>4. after \in Projection /\ Consistent(after)
  BY <1>1, <1>2, <1>3, AppliedTyped, ConsistentKept
<1>5. Applied(view, batch, n) \in Projection /\ Consistent(Applied(view, batch, n))
  BY <1>1, <1>2, AppliedTyped, ConsistentKept
<1>6. ideal' = Append(ideal, after)
  BY <1>1
<1> HIDE DEF N, before, after
<1>7. /\ Len(written') = n /\ written'[n] = batch
      /\ \A k \in 1 .. N : written'[k] = written[k]
  BY <1>1 DEF N
<1>8. /\ Len(ideal') = n /\ ideal'[n] = after
      /\ \A k \in 1 .. N : ideal'[k] = ideal[k]
  BY <1>1, <1>4, <1>6
<1>9. IdealAt(n)' = after /\ \A k \in 0 .. N : IdealAt(k)' = IdealAt(k)
  BY <1>1, <1>8 DEF IdealAt
<1>10. UsageTypeOK'
  <2>1. written' \in Seq(Batch) /\ ideal' \in Seq(Projection)
    BY <1>1, <1>2, <1>4, <1>6
  <2>2. replayed' \in 0 .. n
    BY <1>1
  <2>3. view' \in Projection
    BY <1>1, <1>5
  <2>4. listed' \subseteq Slot
    BY <1>1 DEF Named
  <2> QED
    BY <1>1, <1>7, <1>8, <2>1, <2>2, <2>3, <2>4 DEF UsageTypeOK
<1>11. BatchesOK'
  <2> SUFFICES ASSUME NEW k \in 1 .. n
               PROVE  Carries(written'[k]) /\ \A s \in Slot : Forward(written'[k][s])
    BY <1>7 DEF BatchesOK
  <2>1. CASE k = n
    BY <1>2, <1>7, <2>1
  <2>2. CASE k # n
    <3>1. k \in 1 .. N
      BY <1>1, <2>2
    <3> QED
      BY <1>7, <3>1 DEF UsageInv, BatchesOK, N
  <2> QED
    BY <2>1, <2>2
<1>12. ProjectionsOK'
  <2>1. Consistent(view')
    BY <1>1, <1>5
  <2>2. ASSUME NEW k \in 0 .. n PROVE Consistent(IdealAt(k)')
    <3>1. CASE k = n
      BY <1>4, <1>9, <3>1
    <3>2. CASE k # n
      <4>1. k \in 0 .. N
        BY <1>1, <3>2
      <4> QED
        BY <1>9, <4>1 DEF UsageInv, ProjectionsOK, N
    <3> QED
      BY <3>1, <3>2
  <2> QED
    BY <1>7, <2>1, <2>2 DEF ProjectionsOK, Consistent
<1>13. ASSUME faultless PROVE OnChain' /\ Listed'
  <2>1. OnChain /\ Listed
    BY <1>13 DEF UsageInv
  <2>2. view = before
    BY <1>1, <2>1 DEF OnChain, N, before
  <2>3. after = Applied(view, batch, n)
    BY <1>2, <2>2 DEF after
  <2>4. ASSUME NEW k \in 1 .. n PROVE Chained(k)'
    <3>1. CASE k = n
      <4>1. IdealAt(k - 1)' = before
        BY <1>1, <1>9, <3>1 DEF before
      <4> QED
        BY <1>2, <1>7, <1>9, <2>2, <2>3, <3>1, <4>1 DEF Chained
    <3>2. CASE k # n
      <4>1. k \in 1 .. N /\ k - 1 \in 0 .. N /\ k \in 0 .. N
        BY <1>1, <3>2
      <4>2. Chained(k)
        BY <2>1, <4>1 DEF OnChain, N
      <4> QED
        BY <1>7, <1>9, <4>1, <4>2 DEF Chained
    <3> QED
      BY <3>1, <3>2
  <2>5. ASSUME NEW k \in 0 .. n PROVE (IdealAt(k)').batches = 1 .. k
    <3>1. CASE k = n
      <4>1. before.batches = 1 .. N
        BY <1>1, <2>1 DEF OnChain, N, before
      <4>2. after.batches = (1 .. N) \cup {n}
        BY <2>2, <2>3, <4>1 DEF Applied
      <4>3. (1 .. N) \cup {n} = 1 .. n
        BY <1>1
      <4> QED
        BY <1>9, <3>1, <4>2, <4>3
    <3>2. CASE k # n
      <4>1. k \in 0 .. N
        BY <1>1, <3>2
      <4> QED
        BY <1>9, <2>1, <4>1 DEF OnChain, N
    <3> QED
      BY <3>1, <3>2
  <2>6. \E k \in replayed' .. n : view' = IdealAt(k)'
    <3>1. CASE view' = Applied(view, batch, n)
      BY <1>1, <1>9, <2>3, <3>1
    <3>2. CASE view' = view /\ replayed' = N
      BY <1>1, <1>9, <2>2, <3>2 DEF before
    <3> QED
      BY <1>1, <3>1, <3>2
  <2>7. OnChain'
    BY <1>7, <2>4, <2>5, <2>6 DEF OnChain
  <2>8. \A s \in Slot : Live(view.heads[s]) => s \in listed
    <3>1. Len(written) \in 0 .. Len(written) /\ view = IdealAt(Len(written))
      BY <1>1, <2>2 DEF N, before
    <3> QED
      BY <2>1, <3>1 DEF Listed
  <2>9. \A s \in Slot : Live(after.heads[s]) => s \in listed'
    BY <1>1, <2>3, <2>8, NamedCovers
  <2>10. Listed'
    BY <1>7, <1>9, <2>9 DEF Listed
  <2> QED
    BY <2>7, <2>10
<1> QED
  BY <1>10, <1>11, <1>12, <1>13 DEF UsageInv

LEMMA ReconcileKept ==
  ASSUME UsageInv, NEW events \in LedgerViews, NEW complete \in BOOLEAN,
         Reconciles(events, complete)
  PROVE  UsageInv'
<1>1. EventsOK(events)
  BY DEF LedgerViews, EventsOK
<1>2. /\ CaughtUpUsage
      /\ listed' = IF complete THEN Named(events) ELSE listed \cup Named(events)
  BY DEF Reconciles, Named
<1>3. CASE Nothing(Decided(view, events, complete))
  BY <1>2, <1>3, QuietKept DEF Reconciles
<1>4. CASE ~Nothing(Decided(view, events, complete))
  BY <1>1, <1>2, <1>4, WriteKept DEF Reconciles
<1> QED
  BY <1>3, <1>4

LEMMA UsageInvStep == UsageInv /\ [UsageNext]_usageVars => UsageInv'
<1> SUFFICES ASSUME UsageInv, [UsageNext]_usageVars PROVE UsageInv'
  OBVIOUS
<1>1. CASE UNCHANGED usageVars
  <2>1. /\ replayed \in 0 .. Len(written) /\ view \in Projection /\ Consistent(view)
        /\ faultless \in BOOLEAN
    BY DEF UsageInv, UsageTypeOK, ProjectionsOK
  <2>2. faultless => \E n \in replayed .. Len(written) : view = IdealAt(n)
    BY DEF UsageInv, OnChain
  <2> QED
    BY <1>1, <2>1, <2>2, SpoolKept DEF usageVars
<1>2. CASE \E events \in LedgerViews, complete \in BOOLEAN : Reconciles(events, complete)
  BY <1>2, ReconcileKept
<1> QED
  BY <1>1, <1>2, ReplayKept, ErrorKept, RewindKept, DeleteKept DEF UsageNext

THEOREM UsageInvariant == UsageSpec => []UsageInv
BY UsageInvInit, UsageInvStep, PTL DEF UsageSpec

\* Every variable keeps its type (reconcile_refreshable_usage and the replay).
THEOREM UsageTypes == UsageSpec => []UsageTypeOK
<1>1. UsageInv => UsageTypeOK
  BY DEF UsageInv
<1> QED
  BY <1>1, UsageInvariant, PTL

\* A live fact has one current revision and a deleted one none, whatever was
\* observed, cut off, refused, rewound or deleted (_project_refreshable_usage_record).
THEOREM OneRevision == UsageSpec => []OneCurrentRevision
<1>1. UsageInv => OneCurrentRevision
  BY DEF UsageInv, ProjectionsOK, OneCurrentRevision
<1> QED
  BY <1>1, UsageInvariant, PTL

\* The usage spool alone gives the projection back (_recover_unlocked).
THEOREM Rebuilds == UsageSpec => []RebuildAgrees
<1>1. UsageInv => RebuildAgrees
  BY DEF UsageInv, OnChain, Chained, RebuildAgrees
<1> QED
  BY <1>1, UsageInvariant, PTL

\* What the last complete snapshot did not list and no reading has named since is
\* not current (reconcile_refreshable_usage, complete).
THEOREM DeletionsHold == UsageSpec => []UnlistedIsTombstoned
<1>1. ASSUME UsageInv PROVE UnlistedIsTombstoned
  <2> SUFFICES ASSUME faultless, CaughtUpUsage, NEW s \in Slot, Live(view.heads[s])
               PROVE  s \in listed
    BY DEF UnlistedIsTombstoned, Live
  <2>1. OnChain /\ Listed /\ Len(written) \in Nat
    BY <1>1 DEF UsageInv, UsageTypeOK
  <2>2. view = IdealAt(Len(written))
    BY <2>1 DEF OnChain, CaughtUpUsage
  <2> QED
    BY <2>1, <2>2 DEF Listed
<1> QED
  BY <1>1, UsageInvariant, PTL

\* A fact's content and order only move forward (reconcile_refreshable_usage's
\* decision, and the replay that trusts it).
THEOREM FactsAdvance == UsageSpec => HeadsAdvance
<1> DEFINE Advances(s) ==
        LET h == view.heads[s]
            new == view'.heads[s]
        IN  h.known /\ new.known =>
              /\ new.content # h.content => Newer(new.order, h.order)
              /\ ~Newer(h.order, new.order)
<1>1. ASSUME UsageInv, NEW batch \in Batch, Applicable(view, batch), NEW n,
             \A s \in Slot : Forward(batch[s]), view' = Applied(view, batch, n)
      PROVE  \A s \in Slot : Advances(s)
  <2> TAKE s \in Slot
  <2> DEFINE h == view.heads[s]
             t == batch[s]
  <2>1. view'.heads[s] = HeadAfter(h, t)
    BY <1>1, AppliedSlot
  <2>2. Applies(view, s, t) /\ Forward(t) /\ h \in UsageHead
    BY <1>1 DEF Applicable, UsageInv, UsageTypeOK, Projection
  <2>3. ~Newer(h.order, h.order)
    BY <2>2, UsageAssumption DEF UsageHead, Order, Newer
  <2> HIDE DEF h, t
  <2>4. CASE t.action \in {"update", "resurrect", "watermark"}
    <3>1. h = t.prior
      BY <2>2, <2>4 DEF Applies, h
    <3>2. HeadAfter(h, t).content = t.content /\ HeadAfter(h, t).order = t.order
      BY <2>4 DEF HeadAfter
    <3> QED
      BY <2>1, <2>2, <2>4, <3>1, <3>2 DEF Forward, h
  <2>5. CASE t.action = "insert"
    <3>1. ~h.known
      BY <2>2, <2>5 DEF Applies, h
    <3> QED
      BY <3>1 DEF h
  <2>6. CASE t.action \notin {"insert", "update", "resurrect", "watermark"}
    <3>1. HeadAfter(h, t).content = h.content /\ HeadAfter(h, t).order = h.order
      BY <2>2, <2>6 DEF HeadAfter, UsageHead
    <3> QED
      BY <2>1, <2>3, <3>1 DEF h
  <2> QED
    BY <2>4, <2>5, <2>6
<1>2. ASSUME UsageInv, view' \in {view, Blank}
      PROVE  \A s \in Slot : Advances(s)
  <2> TAKE s \in Slot
  <2>1. view.heads[s] \in UsageHead
    BY <1>2 DEF UsageInv, UsageTypeOK, Projection
  <2>2. ~Newer(view.heads[s].order, view.heads[s].order)
    BY <2>1, UsageAssumption DEF UsageHead, Order, Newer
  <2>3. ~Blank.heads[s].known
    BY DEF Blank, NoHead
  <2> QED
    BY <1>2, <2>2, <2>3
<1> HIDE DEF Advances
<1>3. ASSUME UsageInv, [UsageNext]_usageVars PROVE \A s \in Slot : Advances(s)
  <2>1. view \in Projection /\ Consistent(view)
    BY <1>3 DEF UsageInv, UsageTypeOK, ProjectionsOK
  <2>2. ASSUME NEW events \in LedgerViews, NEW complete \in BOOLEAN, Reconciles(events, complete)
        PROVE  \A s \in Slot : Advances(s)
    <3>1. EventsOK(events)
      BY DEF LedgerViews, EventsOK
    <3>2. \/ view' = view
          \/ /\ Applicable(view, Decided(view, events, complete))
             /\ view' = Applied(view, Decided(view, events, complete), Len(written) + 1)
      BY <2>2 DEF Reconciles
    <3>3. /\ Decided(view, events, complete) \in Batch
          /\ \A s \in Slot : Forward(Decided(view, events, complete)[s])
      BY <2>1, <3>1, DecidedTyped, DecidedForward
    <3> QED
      BY <1>1, <1>2, <1>3, <3>2, <3>3
  <2>3. CASE ReplayBatch
    <3>1. \/ view' = view
          \/ /\ Applicable(view, written[replayed + 1])
             /\ view' = Applied(view, written[replayed + 1], replayed + 1)
      BY <2>3 DEF ReplayBatch
    <3>2. replayed + 1 \in 1 .. Len(written)
      BY <1>3, <2>3 DEF ReplayBatch, UsageInv, UsageTypeOK
    <3>3. written[replayed + 1] \in Batch /\ \A s \in Slot : Forward(written[replayed + 1][s])
      BY <1>3, <3>2 DEF UsageInv, UsageTypeOK, BatchesOK
    <3> QED
      BY <1>1, <1>2, <1>3, <3>1, <3>3
  <2>4. CASE DatabaseError \/ Rewind \/ DeleteView \/ UNCHANGED usageVars
    <3>1. view' \in {view, Blank}
      BY <2>4 DEF DatabaseError, Rewind, DeleteView, usageVars
    <3> QED
      BY <1>2, <1>3, <3>1
  <2> QED
    BY <1>3, <2>2, <2>3, <2>4 DEF UsageNext
<1>4. ASSUME UsageInv, [UsageNext]_usageVars
      PROVE  [\A s \in Slot :
                LET h == view.heads[s]
                    new == view'.heads[s]
                IN  h.known /\ new.known =>
                      /\ new.content # h.content => Newer(new.order, h.order)
                      /\ ~Newer(h.order, new.order)]_usageVars
  BY <1>3, <1>4 DEF Advances
<1> QED
  BY <1>4, UsageInvariant, PTL DEF UsageSpec, HeadsAdvance

-----------------------------------------------------------------------------
(* What the health file promises: the invariant.                           *)

\* The scans that are registered have ids of their own.
ScansDistinct == \A x, y \in health.scans : x.id = y.id => x = y

\* A receipt belongs to the newest scan of its source that began, and a scan that may
\* still record it is newer than the one that was recorded last.
ScanInOrder(x) ==
    /\ x.id > 0 /\ x.id <= scansBegun
    /\ \A s \in x.sources :
         /\ health.receipts[s] # None
         /\ x.id <= health.receipts[s].scan
         /\ x.id = health.receipts[s].scan => past[s].of < x.id
ScansInOrder == \A x \in health.scans : ScanInOrder(x)

ReceiptsKnown ==
    \A s \in Source :
        /\ past[s].of <= scansBegun
        /\ health.receipts[s] # None => health.receipts[s].scan <= scansBegun

\* Nobody but the process that began a scan ends it.
JobOwns(p) ==
    /\ job[p].scan <= scansBegun
    /\ \A x \in health.scans : x.id = job[p].scan => x.pid = p
JobsOwn == \A p \in Process : JobOwns(p)

\* What a repair has found dead stays dead.
RepairsTheDead ==
    /\ \A x \in inspected : x.pid \in Dead
    /\ departed # None => departed \in Dead

\* A receipt that has once seen a success tells what was recorded last.
Tells(r, h) ==
    \/ r.errors = "clean" /\ r.streak = 0 /\ h.last \in Fine
    \/ /\ r.errors = "transient" /\ h.last = "transient" /\ r.streak > 0
       /\ r.streak = 1 => h.before \in Fine
    \/ r.errors = "error" /\ h.last = "error" /\ r.streak > 0
SourceTells(s) ==
    health.receipts[s] # None /\ health.receipts[s].success # None =>
        Tells(health.receipts[s], past[s])
ReceiptsTell == \A s \in Source : SourceTells(s)

HealthInv ==
    /\ HealthTypeOK
    /\ ScansDistinct /\ ScansInOrder /\ ReceiptsKnown /\ JobsOwn
    /\ RepairsTheDead /\ ReceiptsTell
-----------------------------------------------------------------------------
(* A file that keeps its receipts, whatever the processes do.              *)

\* A process begins no scan, and one that is gone stays gone.
JobMoves ==
    /\ \A q \in Process :
         /\ job'[q].scan \in {0, job[q].scan}
         /\ job[q].pc = "gone" => job'[q].pc = "gone"

LEMMA JobMoved ==
  ASSUME NEW p \in Process, job \in [Process -> Jobs], NEW j, job' = [job EXCEPT ![p] = j],
         j \in Jobs, j.scan \in {0, job[p].scan}, job[p].pc = "gone" => j.pc = "gone"
  PROVE  job' \in [Process -> Jobs] /\ JobMoves
BY DEF JobMoves

LEMMA JobsKept ==
  ASSUME HealthTypeOK, ScansInOrder, JobsOwn, JobMoves, scansBegun' = scansBegun,
         health'.scans \subseteq health.scans
  PROVE  JobsOwn'
<1> SUFFICES ASSUME NEW q \in Process  PROVE JobOwns(q)'
  BY DEF JobsOwn
<1>1. JobOwns(q) /\ job'[q].scan \in {0, job[q].scan}
  BY DEF JobsOwn, JobMoves
<1>2. \A x \in health.scans : x.id > 0
  BY DEF ScansInOrder, ScanInOrder
<1>3. scansBegun \in Nat
  BY DEF HealthTypeOK
<1> QED
  BY <1>1, <1>2, <1>3 DEF JobOwns

LEMMA DeadStay ==
  ASSUME JobMoves
  PROVE  Dead \subseteq Dead'
BY DEF Dead, JobMoves

LEMMA RepairsKept ==
  ASSUME RepairsTheDead, JobMoves, inspected' \in {inspected, {}}, departed' \in {departed, None}
  PROVE  RepairsTheDead'
BY DeadStay DEF RepairsTheDead

LEMMA ScansKept ==
  ASSUME ScansDistinct, ScansInOrder, ReceiptsKnown, ReceiptsTell,
         health'.scans \subseteq health.scans, health'.receipts = health.receipts,
         past' = past, scansBegun' = scansBegun
  PROVE  ScansDistinct' /\ ScansInOrder' /\ ReceiptsKnown' /\ ReceiptsTell'
<1>1. ScansDistinct'
  BY DEF ScansDistinct
<1>2. ScansInOrder'
  BY DEF ScansInOrder, ScanInOrder
<1>3. ReceiptsKnown'
  BY DEF ReceiptsKnown
<1>4. ReceiptsTell'
  BY DEF ReceiptsTell, SourceTells, Tells
<1> QED
  BY <1>1, <1>2, <1>3, <1>4

LEMMA ReceiptsKept ==
  ASSUME HealthInv, HealthTypeOK', JobMoves,
         health'.scans \subseteq health.scans, health'.receipts = health.receipts,
         past' = past, scansBegun' = scansBegun,
         inspected' \in {inspected, {}}, departed' \in {departed, None}
  PROVE  HealthInv'
BY JobsKept, RepairsKept, ScansKept DEF HealthInv

\* The processes' steps that leave the file as it is.
LEMMA IdleKept ==
  ASSUME HealthInv, UNCHANGED <<health, bounded, repairs, past>>, NEW p \in Process, NEW j \in Jobs,
         job' = [job EXCEPT ![p] = j], j.scan \in {0, job[p].scan},
         job[p].pc = "gone" => j.pc = "gone"
  PROVE  HealthInv'
<1>1. job' \in [Process -> Jobs] /\ JobMoves
  BY JobMoved DEF HealthInv, HealthTypeOK
<1>2. HealthTypeOK'
  BY <1>1 DEF HealthInv, HealthTypeOK, bounded, repairs
<1> QED
  BY <1>1, <1>2, ReceiptsKept DEF bounded, repairs

LEMMA NoJobTyped == \A pc \in Steps : NoJob(pc) \in Jobs /\ NoJob(pc).scan = 0
BY DEF NoJob, Jobs

LEMMA HeldTyped ==
  ASSUME HealthTypeOK
  PROVE  /\ health.watcher # None => health.watcher \in Watchers
         /\ health.scans \subseteq Scans
         /\ health.receipts \in [Source -> Receipts \cup {None}]
         /\ now \in Nat /\ scansBegun \in Nat
BY DEF HealthTypeOK

\* The watcher's lease changes and nothing else of the file.
LEMMA WatcherTyped ==
  ASSUME HealthTypeOK, NEW w \in Watchers, health' = [health EXCEPT !.watcher = w]
  PROVE  /\ health' \in [corrupt : BOOLEAN, watcher : Watchers \cup {None}, scans : SUBSET Scans,
                         receipts : [Source -> Receipts \cup {None}]]
         /\ health'.scans = health.scans /\ health'.receipts = health.receipts
BY DEF HealthTypeOK

LEMMA ReleaseTyped ==
  ASSUME HealthTypeOK, NEW lease, Release(lease)
  PROVE  /\ health' \in [corrupt : BOOLEAN, watcher : Watchers \cup {None}, scans : SUBSET Scans,
                         receipts : [Source -> Receipts \cup {None}]]
         /\ health'.scans = health.scans /\ health'.receipts = health.receipts
<1>1. CASE health.watcher # None /\ health.watcher.lease = lease
  <2> DEFINE w == [health.watcher EXCEPT !.running = FALSE, !.heartbeat = now]
  <2>1. w \in Watchers
    BY <1>1, HeldTyped DEF Watchers
  <2>2. health' = [health EXCEPT !.watcher = w]
    BY <1>1 DEF Release, HealthTypeOK
  <2> QED
    BY <2>1, <2>2, WatcherTyped
<1>2. CASE ~(health.watcher # None /\ health.watcher.lease = lease)
  BY <1>2 DEF Release, HealthTypeOK
<1> QED
  BY <1>1, <1>2

-----------------------------------------------------------------------------
(* The steps that only move a process.                                     *)

LEMMA StartImportKept ==
  ASSUME HealthInv, NEW p \in Process, StartImport(p)
  PROVE  HealthInv'
<1>1. PICK sources \in Selection :
        job' = [job EXCEPT ![p].pc = "begin", ![p].sources = sources]
  BY DEF StartImport
<1> DEFINE j == [job[p] EXCEPT !.pc = "begin", !.sources = sources]
<1>2. job[p] \in Jobs /\ sources \subseteq Source
  BY HealthAssumption DEF HealthInv, HealthTypeOK
<1>3. j \in Jobs /\ j.scan = job[p].scan
  BY <1>2 DEF Jobs, Steps
<1>4. job' = [job EXCEPT ![p] = j]
  BY <1>1 DEF HealthInv, HealthTypeOK
<1> QED
  BY <1>3, <1>4, IdleKept DEF StartImport

LEMMA QuitsKept ==
  ASSUME HealthInv, NEW p \in Process, Quits(p), UNCHANGED <<health, bounded, repairs, past>>
  PROVE  HealthInv'
<1>1. NoJob("gone") \in Jobs /\ NoJob("gone").scan = 0 /\ NoJob("gone").pc = "gone"
  BY NoJobTyped DEF Steps, NoJob
<1> QED
  BY <1>1, IdleKept DEF Quits

LEMMA GotoTyped ==
  ASSUME HealthTypeOK, NEW p \in Process, NEW pc \in Steps, Goto(p, pc), job[p].pc # "gone"
  PROVE  job' \in [Process -> Jobs] /\ JobMoves
<1> DEFINE j == [job[p] EXCEPT !.pc = pc]
<1>1. job[p] \in Jobs
  BY DEF HealthTypeOK
<1>2. j \in Jobs /\ j.scan = job[p].scan
  BY <1>1 DEF Jobs
<1>3. job' = [job EXCEPT ![p] = j]
  BY DEF Goto, HealthTypeOK
<1> QED
  BY <1>2, <1>3, JobMoved DEF HealthTypeOK

LEMMA GotoKept ==
  ASSUME HealthInv, NEW p \in Process, NEW pc \in Steps, Goto(p, pc), job[p].pc # "gone",
         UNCHANGED <<health, bounded, repairs, past>>
  PROVE  HealthInv'
<1>1. job' \in [Process -> Jobs] /\ JobMoves
  BY GotoTyped DEF HealthInv
<1>2. HealthTypeOK'
  BY <1>1 DEF HealthInv, HealthTypeOK, bounded, repairs
<1> QED
  BY <1>1, <1>2, ReceiptsKept DEF bounded, repairs

\* The steps of the watcher's lease.
LEMMA StartWatchKept ==
  ASSUME HealthInv, NEW p \in Process, StartWatch(p)
  PROVE  HealthInv'
<1>1. PICK sources \in Selection :
        /\ health' = [health EXCEPT
                         !.corrupt = FALSE,
                         !.watcher = [running |-> TRUE, lease |-> p, sources |-> sources,
                                      started |-> now, heartbeat |-> now],
                         !.scans = {x \in @ : x.pid \notin Superseded \cup Dead}]
        /\ job' = [job EXCEPT ![p].pc = "top", ![p].sources = sources, ![p].watches = TRUE]
  BY DEF StartWatch
<1> DEFINE j == [job[p] EXCEPT !.pc = "top", !.sources = sources, !.watches = TRUE]
           w == [running |-> TRUE, lease |-> p, sources |-> sources, started |-> now, heartbeat |-> now]
           scans == {x \in health.scans : x.pid \notin Superseded \cup Dead}
<1>2. HealthTypeOK /\ job[p] \in Jobs /\ sources \subseteq Source /\ job[p].pc = "new"
  BY HealthAssumption DEF HealthInv, HealthTypeOK, StartWatch
<1>3. j \in Jobs /\ j.scan = job[p].scan
  BY <1>2 DEF Jobs, Steps
<1>4. job' = [job EXCEPT ![p] = j]
  BY <1>1, <1>2 DEF HealthTypeOK
<1>5. job' \in [Process -> Jobs] /\ JobMoves
  BY <1>2, <1>3, <1>4, JobMoved DEF HealthTypeOK
<1>6. w \in Watchers
  BY <1>2, HeldTyped DEF Watchers
<1>7. health' = [health EXCEPT !.corrupt = FALSE, !.watcher = w, !.scans = scans]
  BY <1>1
<1> HIDE DEF w
<1>8. /\ health' \in [corrupt : BOOLEAN, watcher : Watchers \cup {None}, scans : SUBSET Scans,
                      receipts : [Source -> Receipts \cup {None}]]
      /\ health'.scans = scans /\ health'.receipts = health.receipts
  BY <1>2, <1>6, <1>7 DEF HealthTypeOK
<1>9. UNCHANGED <<bounded, repairs, past>>
  BY DEF StartWatch
<1>10. HealthTypeOK'
  BY <1>2, <1>5, <1>8, <1>9 DEF HealthTypeOK, bounded, repairs
<1> QED
  BY <1>5, <1>8, <1>9, <1>10, ReceiptsKept DEF bounded, repairs

LEMMA BeatKept ==
  ASSUME HealthInv, NEW p \in Process, Beat(p)
  PROVE  HealthInv'
<1> DEFINE w == [health.watcher EXCEPT !.heartbeat = now]
<1>1. HealthTypeOK /\ job[p] \in Jobs /\ job[p].pc # "gone" /\ health.watcher # None
  BY DEF HealthInv, HealthTypeOK, Beat, Holds, WatcherRuns
<1>2. w \in Watchers
  BY <1>1, HeldTyped DEF Watchers
<1>3. health' = [health EXCEPT !.watcher = w]
  BY <1>1 DEF Beat, HealthTypeOK
<1>4. /\ health' \in [corrupt : BOOLEAN, watcher : Watchers \cup {None}, scans : SUBSET Scans,
                      receipts : [Source -> Receipts \cup {None}]]
      /\ health'.scans = health.scans /\ health'.receipts = health.receipts
  BY <1>1, <1>2, <1>3, WatcherTyped
<1>5. job' \in [Process -> Jobs] /\ JobMoves
  <2>1. CASE Goto(p, "top") \/ Goto(p, "skip")
    BY <1>1, <2>1, GotoTyped DEF Steps
  <2>2. ASSUME NEW read \in BOOLEAN, job' = [job EXCEPT ![p].pc = "begin", ![p].print = read]
        PROVE  job' \in [Process -> Jobs] /\ JobMoves
    <3> DEFINE j == [job[p] EXCEPT !.pc = "begin", !.print = read]
    <3>1. j \in Jobs /\ j.scan = job[p].scan
      BY <1>1 DEF Jobs, Steps
    <3>2. job' = [job EXCEPT ![p] = j]
      BY <1>1, <2>2 DEF HealthTypeOK
    <3> QED
      BY <1>1, <3>1, <3>2, JobMoved DEF HealthTypeOK
  <2> QED
    BY <2>1, <2>2 DEF Beat
<1>6. UNCHANGED <<bounded, repairs, past>>
  BY DEF Beat
<1>7. HealthTypeOK'
  BY <1>1, <1>4, <1>5, <1>6 DEF HealthTypeOK, bounded, repairs
<1> QED
  BY <1>4, <1>5, <1>6, <1>7, ReceiptsKept DEF bounded, repairs

LEMMA LeaveKept ==
  ASSUME HealthInv, NEW p \in Process, Leave(p)
  PROVE  HealthInv'
<1>1. HealthTypeOK /\ Release(p) /\ Quits(p) /\ UNCHANGED <<bounded, repairs, past>>
  BY DEF HealthInv, Leave
<1>2. NoJob("gone") \in Jobs /\ NoJob("gone").scan = 0 /\ NoJob("gone").pc = "gone"
  BY NoJobTyped DEF Steps, NoJob
<1>3. job' \in [Process -> Jobs] /\ JobMoves
  BY <1>1, <1>2, JobMoved DEF Quits, HealthTypeOK
<1>4. HealthTypeOK'
  BY <1>1, <1>3, ReleaseTyped DEF HealthTypeOK, bounded, repairs
<1> QED
  BY <1>1, <1>3, <1>4, ReleaseTyped, ReceiptsKept DEF bounded, repairs
-----------------------------------------------------------------------------
(* A scan begins.                                                          *)

LEMMA AttemptedTyped ==
  ASSUME NEW r \in Receipts \cup {None}, NEW x \in Scans
  PROVE  /\ Attempted(r, x) \in Receipts /\ Attempted(r, x).scan = x.id
         /\ Attempted(r, x).success # None =>
              /\ r # None /\ r.success # None
              /\ Attempted(r, x).errors = r.errors /\ Attempted(r, x).streak = r.streak
<1>1. CASE r = None
  BY <1>1 DEF Attempted, Receipts, Scans, Finding
<1>2. CASE r # None
  BY <1>2 DEF Attempted, Receipts, Scans
<1> QED
  BY <1>1, <1>2

LEMMA NoneIsNone == None \notin Receipts /\ None \notin Watchers
BY HealthAssumption

LEMMA BeginsKept ==
  ASSUME HealthInv, NEW p \in Process, Begins(p)
  PROVE  HealthInv'
<1> DEFINE x == [id |-> scansBegun + 1, pid |-> p, sources |-> job[p].sources]
           R(s) == IF s \in x.sources THEN Attempted(health.receipts[s], x) ELSE health.receipts[s]
           pc == IF job[p].pc = "begin" THEN "scanning" ELSE "skipping"
           j == [job[p] EXCEPT !.scan = x.id, !.pc = pc]
<1>1. HealthTypeOK /\ job[p] \in Jobs /\ job[p].pc # "gone"
  BY DEF HealthInv, HealthTypeOK, Begins
<1>2. x \in Scans /\ x.sources \subseteq Source /\ x.id = scansBegun + 1 /\ x.pid = p
  BY <1>1, HeldTyped DEF Scans, Jobs
<1>3. /\ scansBegun' = x.id
      /\ health' = [health EXCEPT !.corrupt = FALSE, !.scans = @ \cup {x},
                                  !.receipts = [s \in Source |-> R(s)]]
      /\ job' = [job EXCEPT ![p].scan = x.id, ![p].pc = pc]
      /\ UNCHANGED <<now, damage, repairs, past>>
  BY <1>1 DEF Begins, HealthTypeOK
<1> HIDE DEF x, R
<1>4. \A s \in Source : R(s) \in Receipts \cup {None}
  BY <1>1, <1>2, HeldTyped, AttemptedTyped DEF R
<1>5. /\ health' \in [corrupt : BOOLEAN, watcher : Watchers \cup {None}, scans : SUBSET Scans,
                      receipts : [Source -> Receipts \cup {None}]]
      /\ health'.scans = health.scans \cup {x}
      /\ \A s \in Source : health'.receipts[s] = R(s)
  BY <1>1, <1>2, <1>3, <1>4 DEF HealthTypeOK
<1>6. j \in Jobs /\ j.scan = x.id /\ j.pc # "gone" /\ job' = [job EXCEPT ![p] = j]
  <2>1. x.id \in Nat
    BY <1>2 DEF Scans
  <2> QED
    BY <1>1, <1>3, <2>1 DEF Jobs, Steps, HealthTypeOK
<1> HIDE DEF j
<1>7. HealthTypeOK'
  <2>1. job' \in [Process -> Jobs]
    BY <1>1, <1>6 DEF HealthTypeOK
  <2>2. x.id \in Nat
    BY <1>2 DEF Scans
  <2> QED
    BY <1>1, <1>3, <1>5, <2>1, <2>2 DEF HealthTypeOK, repairs
<1>8. \A y \in health.scans : y \in Scans /\ y.id \in Nat /\ y.id > 0 /\ y.id <= scansBegun
  BY <1>1, HeldTyped DEF HealthInv, ScansInOrder, ScanInOrder, Scans
<1>9. scansBegun \in Nat
  BY <1>1 DEF HealthTypeOK
<1>10. ScansDistinct'
  BY <1>2, <1>5, <1>8, <1>9 DEF HealthInv, ScansDistinct
<1>11. \A s \in Source : s \in x.sources =>
         health'.receipts[s] \in Receipts /\ health'.receipts[s] # None
           /\ health'.receipts[s].scan = x.id
  BY <1>1, <1>2, <1>5, HeldTyped, AttemptedTyped, NoneIsNone DEF R
<1>12. \A s \in Source : s \notin x.sources => health'.receipts[s] = health.receipts[s]
  BY <1>5 DEF R
<1>13. past' = past /\ \A s \in Source : past[s].of \in Nat /\ past[s].of <= scansBegun
  BY <1>1, <1>3 DEF HealthInv, ReceiptsKnown, HealthTypeOK, Pasts
<1>14. ScansInOrder'
  <2> SUFFICES ASSUME NEW y \in health.scans \cup {x}  PROVE ScanInOrder(y)'
    BY <1>5 DEF ScansInOrder
  <2>1. CASE y = x
    BY <1>2, <1>3, <1>9, <1>11, <1>13, <2>1 DEF ScanInOrder
  <2>2. CASE y \in health.scans
    <3>1. ScanInOrder(y) /\ y.id \in Nat /\ y.id <= scansBegun /\ y.sources \subseteq Source
      BY <1>8, <2>2 DEF HealthInv, ScansInOrder, Scans
    <3> QED
      BY <1>2, <1>3, <1>9, <1>11, <1>12, <1>13, <3>1 DEF ScanInOrder
  <2> QED
    BY <2>1, <2>2
<1>15. ReceiptsKnown'
  <2> SUFFICES ASSUME NEW s \in Source
               PROVE  /\ past[s].of <= x.id
                      /\ health'.receipts[s] # None => health'.receipts[s].scan <= x.id
    BY <1>3, <1>13 DEF ReceiptsKnown
  <2>1. past[s].of <= x.id
    BY <1>2, <1>9, <1>13
  <2>2. CASE s \in x.sources
    BY <1>2, <1>9, <1>11, <2>1, <2>2
  <2>3. CASE s \notin x.sources
    <3>1. health.receipts[s] # None =>
             health.receipts[s].scan \in Nat /\ health.receipts[s].scan <= scansBegun
      BY <1>1, HeldTyped DEF HealthInv, ReceiptsKnown, Receipts
    <3> QED
      BY <1>2, <1>9, <1>12, <2>1, <2>3, <3>1
  <2> QED
    BY <2>2, <2>3
<1>16. JobsOwn'
  <2> SUFFICES ASSUME NEW q \in Process  PROVE JobOwns(q)'
    BY DEF JobsOwn
  <2>1. JobOwns(q) /\ job[q].scan \in Nat
    BY <1>1 DEF HealthInv, JobsOwn, HealthTypeOK, Jobs
  <2>2. CASE q = p
    <3>1. job'[q].scan = x.id
      BY <1>1, <1>6, <2>2 DEF HealthTypeOK
    <3>2. \A y \in health.scans : y.id # x.id
      BY <1>2, <1>8, <1>9
    <3>3. x.id \in Nat
      BY <1>2 DEF Scans
    <3>4. \A y \in health'.scans : y.id = x.id => y.pid = p
      BY <1>2, <1>5, <3>2
    <3>5. job'[q].scan <= scansBegun'
      BY <1>3, <3>1, <3>3
    <3>6. \A y \in health'.scans : y.id = job'[q].scan => y.pid = q
      BY <2>2, <3>1, <3>4
    <3> QED
      BY <3>5, <3>6, Zenon DEF JobOwns
  <2>3. CASE q # p
    <3>1. job'[q] = job[q]
      BY <1>1, <1>6, <2>3 DEF HealthTypeOK
    <3>2. x.id \in Nat /\ job[q].scan # x.id /\ job[q].scan <= x.id
      BY <1>2, <1>9, <2>1 DEF JobOwns
    <3> QED
      BY <1>3, <1>5, <2>1, <3>1, <3>2 DEF JobOwns
  <2> QED
    BY <2>2, <2>3
<1>17. RepairsTheDead'
  <2>1. \A q \in Process : job[q].pc = "gone" => job'[q].pc = "gone"
    BY <1>1, <1>6 DEF HealthTypeOK
  <2>2. Dead \subseteq Dead'
    BY <2>1 DEF Dead
  <2>3. RepairsTheDead
    BY DEF HealthInv
  <2> QED
    BY <1>3, <2>2, <2>3 DEF RepairsTheDead, repairs
<1>18. ReceiptsTell'
  <2> SUFFICES ASSUME NEW s \in Source, health'.receipts[s] # None,
                      health'.receipts[s].success # None
               PROVE  Tells(health'.receipts[s], past[s])
    BY <1>13 DEF ReceiptsTell, SourceTells, Tells
  <2>1. SourceTells(s)
    BY DEF HealthInv, ReceiptsTell
  <2>2. CASE s \in x.sources
    <3>1. health'.receipts[s] = Attempted(health.receipts[s], x)
      BY <1>5, <2>2 DEF R
    <3>2. health.receipts[s] \in Receipts \cup {None}
      BY <1>1, HeldTyped
    <3> QED
      BY <1>2, <2>1, <3>1, <3>2, AttemptedTyped DEF SourceTells, Tells
  <2>3. CASE s \notin x.sources
    BY <1>12, <2>1, <2>3 DEF SourceTells
  <2> QED
    BY <2>2, <2>3
<1> QED
  BY <1>7, <1>10, <1>14, <1>15, <1>16, <1>17, <1>18 DEF HealthInv

-----------------------------------------------------------------------------
(* A scan ends.                                                            *)

LEMMA EndedTyped ==
  ASSUME NEW r \in Receipts, NEW outcome \in Verdicts, now \in Nat
  PROVE  Ended(r, outcome) \in Receipts /\ Ended(r, outcome).scan = r.scan
<1>1. CASE outcome \in Fine
  BY <1>1 DEF Ended, Receipts, Finding
<1>2. CASE outcome \notin Fine
  <2>1. outcome \in Finding
    BY <1>2 DEF Verdicts, Finding, Fine
  <2>2. Ended(r, outcome) = [r EXCEPT !.errors = outcome, !.failure = now, !.streak = r.streak + 1]
    BY <1>2 DEF Ended
  <2>3. r.streak + 1 \in Nat /\ now \in Nat \cup {None}
    BY DEF Receipts
  <2> QED
    BY <2>1, <2>2, <2>3 DEF Receipts
<1> QED
  BY <1>1, <1>2

\* An outcome is recorded, of a source whose receipt told what came before.
LEMMA EndedTells ==
  ASSUME NEW r \in Receipts, NEW h, NEW outcome \in Verdicts, NEW n, NEW g,
         r.success # None => Tells(r, h),
         g = [of |-> n, last |-> outcome, before |-> h.last],
         Ended(r, outcome).success # None
  PROVE  Tells(Ended(r, outcome), g)
<1>1. CASE outcome \in Fine
  BY <1>1 DEF Ended, Receipts, Tells
<1>2. CASE outcome \notin Fine
  <2>1. outcome \in {"transient", "error"}
    BY <1>2 DEF Verdicts, Finding, Fine
  <2>2. /\ Ended(r, outcome).errors = outcome /\ Ended(r, outcome).streak = r.streak + 1
        /\ Ended(r, outcome).success = r.success
    BY <1>2 DEF Ended, Receipts
  <2>3. Tells(r, h)
    BY <2>2
  <2>4. r.streak \in Nat
    BY DEF Receipts
  <2> QED
    BY <2>1, <2>2, <2>3, <2>4 DEF Tells
<1> QED
  BY <1>1, <1>2

LEMMA Recorded ==
  ASSUME HealthInv, NEW x \in health.scans, NEW outcome \in [Source -> Verdicts],
         Records(x, outcome), scansBegun' = scansBegun
  PROVE  /\ health' \in [corrupt : BOOLEAN, watcher : Watchers \cup {None}, scans : SUBSET Scans,
                         receipts : [Source -> Receipts \cup {None}]]
         /\ past' \in [Source -> Pasts]
         /\ health'.scans \subseteq health.scans
         /\ ScansDistinct' /\ ScansInOrder' /\ ReceiptsKnown' /\ ReceiptsTell'
         /\ \A s \in Source : past'[s] # past[s] => past'[s].of > past[s].of
<1> DEFINE R(s) == IF Speaks(x, s) THEN Ended(health.receipts[s], outcome[s]) ELSE health.receipts[s]
           P(s) == IF Speaks(x, s)
                   THEN [of |-> x.id, last |-> outcome[s], before |-> past[s].last]
                   ELSE past[s]
<1>1. /\ HealthTypeOK /\ ScanInOrder(x) /\ x \in Scans
      /\ x.id \in Nat /\ scansBegun \in Nat /\ now \in Nat
  BY HeldTyped DEF HealthInv, HealthTypeOK, ScansInOrder, Scans
<1>2. /\ health' = [health EXCEPT !.scans = @ \ {x}, !.receipts = [s \in Source |-> R(s)]]
      /\ past' = [s \in Source |-> P(s)]
  BY <1>1 DEF Records, HealthTypeOK
<1> HIDE DEF R, P
<1>3. ASSUME NEW s \in Source, Speaks(x, s)
      PROVE  /\ health.receipts[s] \in Receipts /\ health.receipts[s] # None
             /\ health.receipts[s].scan = x.id /\ past[s].of < x.id
  BY <1>1, <1>3, HeldTyped DEF Speaks, ScanInOrder
<1>4. \A s \in Source : outcome[s] \in Verdicts /\ past[s] \in Pasts
  BY <1>1 DEF HealthTypeOK
<1>5. \A s \in Source : R(s) \in Receipts \cup {None}
  BY <1>1, <1>3, <1>4, HeldTyped, EndedTyped DEF R
<1>6. \A s \in Source : P(s) \in Pasts
  BY <1>1, <1>4 DEF P, Pasts
<1>7. /\ health' \in [corrupt : BOOLEAN, watcher : Watchers \cup {None}, scans : SUBSET Scans,
                      receipts : [Source -> Receipts \cup {None}]]
      /\ health'.scans = health.scans \ {x}
      /\ \A s \in Source : health'.receipts[s] = R(s)
  BY <1>1, <1>2, <1>5 DEF HealthTypeOK
<1>8. past' \in [Source -> Pasts] /\ \A s \in Source : past'[s] = P(s)
  BY <1>2, <1>6
<1>9. ASSUME NEW s \in Source, Speaks(x, s)
      PROVE  /\ health'.receipts[s] = Ended(health.receipts[s], outcome[s])
             /\ health'.receipts[s].scan = x.id
             /\ past'[s] = [of |-> x.id, last |-> outcome[s], before |-> past[s].last]
             /\ past'[s].of = x.id
  <2>1. health'.receipts[s] = R(s) /\ past'[s] = P(s)
    BY <1>7, <1>8
  <2>2. /\ R(s) = Ended(health.receipts[s], outcome[s])
        /\ P(s) = [of |-> x.id, last |-> outcome[s], before |-> past[s].last]
    BY <1>9 DEF R, P
  <2>3. Ended(health.receipts[s], outcome[s]).scan = x.id
    BY <1>1, <1>3, <1>4, <1>9, EndedTyped
  <2> QED
    BY <2>1, <2>2, <2>3
<1>10. ASSUME NEW s \in Source, ~Speaks(x, s)
       PROVE  health'.receipts[s] = health.receipts[s] /\ past'[s] = past[s]
  BY <1>7, <1>8, <1>10 DEF R, P
<1>11. ScansDistinct'
  BY <1>7 DEF HealthInv, ScansDistinct
<1>12. ScansInOrder'
  <2> SUFFICES ASSUME NEW y \in health.scans, y # x  PROVE ScanInOrder(y)'
    BY <1>7 DEF ScansInOrder
  <2>1. ScanInOrder(y) /\ y.id # x.id /\ y.sources \subseteq Source /\ y.id \in Nat
    BY <1>1, HeldTyped DEF HealthInv, ScansInOrder, ScansDistinct, Scans
  <2> SUFFICES ASSUME NEW s \in y.sources
               PROVE  /\ health'.receipts[s] # None
                      /\ y.id <= health'.receipts[s].scan
                      /\ y.id = health'.receipts[s].scan => past'[s].of < y.id
    BY <2>1 DEF ScanInOrder
  <2>2. s \in Source
    BY <2>1
  <2>3. CASE Speaks(x, s)
    <3>1. y.id <= x.id
      BY <1>3, <2>1, <2>2, <2>3 DEF ScanInOrder
    <3>2. health'.receipts[s] # None
      <4>1. health'.receipts[s] \in Receipts
        BY <1>1, <1>3, <1>4, <1>9, <2>2, <2>3, EndedTyped
      <4> QED
        BY <4>1, NoneIsNone
    <3> QED
      BY <1>9, <2>1, <2>2, <2>3, <3>1, <3>2
  <2>4. CASE ~Speaks(x, s)
    BY <1>10, <2>1, <2>2, <2>4 DEF ScanInOrder
  <2> QED
    BY <2>3, <2>4
<1>13. ReceiptsKnown'
  <2> SUFFICES ASSUME NEW s \in Source
               PROVE  /\ past'[s].of <= scansBegun
                      /\ health'.receipts[s] # None => health'.receipts[s].scan <= scansBegun
    BY DEF ReceiptsKnown
  <2>1. CASE Speaks(x, s)
    BY <1>1, <1>9, <2>1 DEF ScanInOrder
  <2>2. CASE ~Speaks(x, s)
    BY <1>10, <2>2 DEF HealthInv, ReceiptsKnown
  <2> QED
    BY <2>1, <2>2
<1>14. ReceiptsTell'
  <2> SUFFICES ASSUME NEW s \in Source, health'.receipts[s] # None,
                      health'.receipts[s].success # None
               PROVE  Tells(health'.receipts[s], past'[s])
    BY DEF ReceiptsTell, SourceTells, Tells
  <2>1. SourceTells(s)
    BY DEF HealthInv, ReceiptsTell
  <2>2. CASE Speaks(x, s)
    <3>1. health.receipts[s].success # None => Tells(health.receipts[s], past[s])
      BY <1>3, <2>1, <2>2 DEF SourceTells
    <3>2. health.receipts[s] \in Receipts /\ outcome[s] \in Verdicts
      BY <1>3, <1>4, <2>2
    <3>3. /\ health'.receipts[s] = Ended(health.receipts[s], outcome[s])
          /\ past'[s] = [of |-> x.id, last |-> outcome[s], before |-> past[s].last]
      BY <1>9, <2>2
    <3> QED
      BY <3>1, <3>2, <3>3, EndedTells
  <2>3. CASE ~Speaks(x, s)
    BY <1>10, <2>1, <2>3 DEF SourceTells
  <2> QED
    BY <2>2, <2>3
<1>15. ASSUME NEW s \in Source, past'[s] # past[s]
       PROVE  past'[s].of > past[s].of
  <2>1. Speaks(x, s)
    BY <1>10, <1>15
  <2>2. past'[s].of = x.id
    BY <1>9, <2>1
  <2> QED
    BY <1>1, <1>3, <1>4, <2>1, <2>2 DEF Pasts
<1> QED
  BY <1>7, <1>8, <1>11, <1>12, <1>13, <1>14, <1>15

LEMMA RecordedKept ==
  ASSUME HealthInv, NEW x \in health.scans, NEW outcome \in [Source -> Verdicts],
         Records(x, outcome), UNCHANGED <<bounded, repairs>>,
         job' \in [Process -> Jobs], JobMoves
  PROVE  HealthInv'
<1>1. scansBegun' = scansBegun
  BY DEF bounded
<1>2. HealthTypeOK'
  BY <1>1, Recorded DEF HealthInv, HealthTypeOK, bounded, repairs
<1>3. JobsOwn' /\ RepairsTheDead'
  BY <1>1, Recorded, JobsKept, RepairsKept DEF HealthInv, repairs
<1> QED
  BY <1>1, <1>2, <1>3, Recorded DEF HealthInv

\* What a process does when its scan has ended.
LEMMA ReturnedTyped ==
  ASSUME HealthTypeOK, NEW p \in Process
  PROVE  Returned(p) \in Jobs /\ Returned(p).scan = 0
<1>1. job[p] \in Jobs
  BY DEF HealthTypeOK
<1> QED
  BY <1>1 DEF Returned, Jobs, Steps

LEMMA ImportEndsKept ==
  ASSUME HealthInv, NEW p \in Process, ImportEnds(p)
  PROVE  HealthInv'
<1>1. PICK x \in health.scans, finding \in [Source -> Finding] : Records(x, finding)
  BY DEF ImportEnds, Registered
<1> DEFINE back == [Returned(p) EXCEPT !.committed = @ \/ job[p].print, !.skips = 0]
           j == IF job[p].watches THEN back ELSE NoJob("idle")
<1>2. HealthTypeOK /\ job[p] \in Jobs /\ job[p].pc # "gone"
  BY DEF HealthInv, HealthTypeOK, ImportEnds
<1>3. back \in Jobs /\ back.scan = 0
  BY <1>2, ReturnedTyped DEF Jobs
<1>4. NoJob("idle") \in Jobs /\ NoJob("idle").scan = 0
  BY NoJobTyped DEF Steps
<1>5. job' = [job EXCEPT ![p] = j]
  BY <1>2 DEF ImportEnds, HealthTypeOK
<1>6. j \in Jobs /\ j.scan = 0
  BY <1>3, <1>4
<1>7. job' \in [Process -> Jobs] /\ JobMoves
  BY <1>2, <1>5, <1>6, JobMoved DEF HealthTypeOK
<1>8. finding \in [Source -> Verdicts]
  BY DEF Verdicts
<1> QED
  BY <1>1, <1>7, <1>8, RecordedKept DEF ImportEnds

LEMMA ImportFailsKept ==
  ASSUME HealthInv, NEW p \in Process, ImportFails(p)
  PROVE  HealthInv'
<1> DEFINE j == IF job[p].watches THEN Returned(p) ELSE NoJob("idle")
           errors == [s \in Source |-> "error"]
<1>1. HealthTypeOK /\ job[p] \in Jobs /\ job[p].pc # "gone"
  BY DEF HealthInv, HealthTypeOK, ImportFails
<1>2. job' = [job EXCEPT ![p] = j] /\ UNCHANGED <<bounded, repairs>>
  BY <1>1 DEF ImportFails, HealthTypeOK
<1>3. j \in Jobs /\ j.scan = 0
  BY <1>1, ReturnedTyped, NoJobTyped DEF Steps
<1> HIDE DEF j
<1>4. job' \in [Process -> Jobs] /\ JobMoves
  BY <1>1, <1>2, <1>3, JobMoved DEF HealthTypeOK
<1>5. errors \in [Source -> Verdicts]
  BY DEF Verdicts, Finding
<1>6. CASE \E x \in Registered(p) : Records(x, errors)
  BY <1>2, <1>4, <1>5, <1>6, RecordedKept DEF Registered
<1>7. CASE UNCHANGED <<health, past>>
  BY <1>1, <1>2, <1>3, <1>7, IdleKept
<1> QED
  BY <1>6, <1>7 DEF ImportFails

LEMMA SkipEndsKept ==
  ASSUME HealthInv, NEW p \in Process, SkipEnds(p)
  PROVE  HealthInv'
<1> DEFINE j == [Returned(p) EXCEPT !.skips = @ + 1]
           same == [s \in Source |-> "unchanged"]
<1>1. HealthTypeOK /\ job[p] \in Jobs /\ job[p].pc # "gone"
  BY DEF HealthInv, HealthTypeOK, SkipEnds
<1>2. job' = [job EXCEPT ![p] = j] /\ UNCHANGED <<bounded, repairs>>
  BY DEF SkipEnds
<1>3. j \in Jobs /\ j.scan = 0
  BY <1>1, ReturnedTyped DEF Jobs
<1> HIDE DEF j
<1>4. job' \in [Process -> Jobs] /\ JobMoves
  BY <1>1, <1>2, <1>3, JobMoved DEF HealthTypeOK
<1>5. same \in [Source -> Verdicts]
  BY DEF Verdicts
<1>6. CASE \E x \in Registered(p) : Records(x, same)
  BY <1>2, <1>4, <1>5, <1>6, RecordedKept DEF Registered
<1>7. CASE UNCHANGED <<health, past>>
  BY <1>1, <1>2, <1>3, <1>7, IdleKept
<1> QED
  BY <1>6, <1>7 DEF SkipEnds

-----------------------------------------------------------------------------
(* Repairs, the clock and the damaged file.                                *)

LEMMA JobStays ==
  ASSUME UNCHANGED job
  PROVE  JobMoves
BY DEF JobMoves

LEMMA InspectKept == HealthInv /\ Inspect => HealthInv'
<1> SUFFICES ASSUME HealthInv, Inspect  PROVE HealthInv'
  OBVIOUS
<1>1. /\ inspected' = {x \in health.scans : x.pid \in Dead}
      /\ UNCHANGED <<health, now, scansBegun, damage, job, departed, past>>
  BY DEF Inspect, bounded
<1>2. Dead' = Dead
  BY <1>1 DEF Dead
<1>3. HealthTypeOK'
  BY <1>1, HeldTyped DEF HealthInv, HealthTypeOK
<1>4. RepairsTheDead'
  BY <1>1, <1>2 DEF HealthInv, RepairsTheDead
<1>5. ScansDistinct' /\ ScansInOrder' /\ ReceiptsKnown' /\ ReceiptsTell'
  BY <1>1, ScansKept DEF HealthInv
<1>6. JobsOwn'
  BY <1>1, JobStays, JobsKept DEF HealthInv
<1> QED
  BY <1>3, <1>4, <1>5, <1>6 DEF HealthInv

LEMMA RepairKept == HealthInv /\ Repair => HealthInv'
<1> SUFFICES ASSUME HealthInv, Repair  PROVE HealthInv'
  OBVIOUS
<1>1. /\ inspected' = {} /\ health' = [health EXCEPT !.scans = @ \ inspected]
      /\ UNCHANGED <<now, scansBegun, damage, job, departed, past>>
  BY DEF Repair, bounded
<1>2. /\ health' \in [corrupt : BOOLEAN, watcher : Watchers \cup {None}, scans : SUBSET Scans,
                      receipts : [Source -> Receipts \cup {None}]]
      /\ health'.scans \subseteq health.scans /\ health'.receipts = health.receipts
  BY <1>1 DEF HealthInv, HealthTypeOK
<1>3. HealthTypeOK'
  BY <1>1, <1>2 DEF HealthInv, HealthTypeOK
<1> QED
  BY <1>1, <1>2, <1>3, JobStays, ReceiptsKept

LEMMA FindDepartedKept == HealthInv /\ FindDeparted => HealthInv'
<1> SUFFICES ASSUME HealthInv, FindDeparted  PROVE HealthInv'
  OBVIOUS
<1>1. /\ departed' = health.watcher.lease /\ departed' \in Dead
      /\ UNCHANGED <<health, now, scansBegun, damage, job, inspected, past>>
  BY DEF FindDeparted, bounded
<1>2. Dead' = Dead
  BY <1>1 DEF Dead
<1>3. HealthTypeOK'
  BY <1>1 DEF HealthInv, HealthTypeOK, Dead
<1>4. RepairsTheDead'
  BY <1>1, <1>2 DEF HealthInv, RepairsTheDead
<1>5. ScansDistinct' /\ ScansInOrder' /\ ReceiptsKnown' /\ ReceiptsTell'
  BY <1>1, ScansKept DEF HealthInv
<1>6. JobsOwn'
  BY <1>1, JobStays, JobsKept DEF HealthInv
<1> QED
  BY <1>3, <1>4, <1>5, <1>6 DEF HealthInv

LEMMA RetireKept == HealthInv /\ Retire => HealthInv'
<1> SUFFICES ASSUME HealthInv, Retire  PROVE HealthInv'
  OBVIOUS
<1>1. /\ departed' = None /\ Release(departed)
      /\ UNCHANGED <<now, scansBegun, damage, job, inspected, past>>
  BY DEF Retire, bounded
<1>2. HealthTypeOK'
  BY <1>1, ReleaseTyped DEF HealthInv, HealthTypeOK
<1> QED
  BY <1>1, <1>2, ReleaseTyped, JobStays, ReceiptsKept DEF HealthInv

LEMMA ClockTicksKept == HealthInv /\ ClockTicks => HealthInv'
<1> SUFFICES ASSUME HealthInv, ClockTicks  PROVE HealthInv'
  OBVIOUS
<1>1. now' = now + 1 /\ UNCHANGED <<health, job, scansBegun, damage, inspected, departed, past>>
  BY DEF ClockTicks, repairs
<1>2. HealthTypeOK'
  BY <1>1 DEF HealthInv, HealthTypeOK
<1> QED
  BY <1>1, <1>2, JobStays, ReceiptsKept

LEMMA EmptyTyped ==
  \A corrupt \in BOOLEAN :
    /\ EmptyHealth(corrupt) \in [corrupt : BOOLEAN, watcher : Watchers \cup {None},
                                 scans : SUBSET Scans, receipts : [Source -> Receipts \cup {None}]]
    /\ EmptyHealth(corrupt).scans = {} /\ EmptyHealth(corrupt).corrupt = corrupt
    /\ \A s \in Source : EmptyHealth(corrupt).receipts[s] = None
BY DEF EmptyHealth

LEMMA DamageKept == HealthInv /\ Damage => HealthInv'
<1> SUFFICES ASSUME HealthInv, Damage  PROVE HealthInv'
  OBVIOUS
<1>1. /\ damage' = damage + 1 /\ health' = EmptyHealth(TRUE)
      /\ UNCHANGED <<now, job, scansBegun, inspected, departed, past>>
  BY DEF Damage, repairs
<1>2. health'.scans = {} /\ \A s \in Source : health'.receipts[s] = None
  BY <1>1, EmptyTyped
<1>3. HealthTypeOK'
  <2>1. health' \in [corrupt : BOOLEAN, watcher : Watchers \cup {None}, scans : SUBSET Scans,
                     receipts : [Source -> Receipts \cup {None}]]
    BY <1>1, EmptyTyped
  <2>2. damage' \in Nat
    BY <1>1 DEF HealthInv, HealthTypeOK
  <2> QED
    BY <1>1, <2>1, <2>2 DEF HealthInv, HealthTypeOK
<1>4. ScansDistinct' /\ ScansInOrder' /\ ReceiptsTell'
  BY <1>2 DEF ScansDistinct, ScansInOrder, ReceiptsTell, SourceTells
<1>5. ReceiptsKnown'
  BY <1>1, <1>2 DEF HealthInv, ReceiptsKnown
<1>6. RepairsTheDead'
  BY <1>1, JobStays, RepairsKept DEF HealthInv
<1>7. JobsOwn'
  BY <1>1, <1>2, JobStays, JobsKept DEF HealthInv
<1> QED
  BY <1>3, <1>4, <1>5, <1>6, <1>7 DEF HealthInv

-----------------------------------------------------------------------------
(* The invariant holds.                                                    *)

LEMMA HealthInvInit == HealthInit => HealthInv
<1> SUFFICES ASSUME HealthInit  PROVE HealthInv
  OBVIOUS
<1>1. /\ health = EmptyHealth(FALSE) /\ now = 0 /\ scansBegun = 0 /\ damage = 0
      /\ job = [p \in Process |-> NoJob("new")] /\ inspected = {} /\ departed = None
      /\ past = [s \in Source |-> [of |-> 0, last |-> None, before |-> None]]
  BY DEF HealthInit
<1>0. now = 0 /\ scansBegun = 0 /\ damage = 0 /\ inspected = {} /\ departed = None
  BY DEF HealthInit
<1>2. health.scans = {} /\ \A s \in Source : health.receipts[s] = None
  BY <1>1, EmptyTyped
<1>3. NoJob("new") \in Jobs /\ NoJob("new").scan = 0
  BY NoJobTyped DEF Steps
<1>4. HealthTypeOK
  <2>1. health \in [corrupt : BOOLEAN, watcher : Watchers \cup {None}, scans : SUBSET Scans,
                    receipts : [Source -> Receipts \cup {None}]]
    BY <1>1, EmptyTyped
  <2>2. job \in [Process -> Jobs]
    BY <1>1, <1>3
  <2>3. past \in [Source -> Pasts]
    BY <1>1 DEF Pasts
  <2> QED
    BY <1>0, <2>1, <2>2, <2>3 DEF HealthTypeOK
<1>5. ScansDistinct /\ ScansInOrder
  BY <1>2 DEF ScansDistinct, ScansInOrder
<1>6. ReceiptsTell
  BY <1>2 DEF ReceiptsTell, SourceTells
<1>7. ReceiptsKnown
  <2>1. \A s \in Source : past[s].of = 0
    BY <1>1
  <2> QED
    BY <1>0, <1>2, <2>1 DEF ReceiptsKnown
<1>8. JobsOwn
  <2>1. \A q \in Process : job[q].scan = 0
    BY <1>1, <1>3
  <2> QED
    BY <1>0, <1>2, <2>1 DEF JobsOwn, JobOwns
<1>9. RepairsTheDead
  BY <1>0 DEF RepairsTheDead
<1> QED
  BY <1>4, <1>5, <1>6, <1>7, <1>8, <1>9 DEF HealthInv

LEMMA WorksKept ==
  ASSUME HealthInv, NEW p \in Process, Works(p)
  PROVE  HealthInv'
<1>1. CASE StartImport(p)
  BY <1>1, StartImportKept
<1>2. CASE StartWatch(p)
  BY <1>2, StartWatchKept
<1>3. CASE WatchRefused(p) \/ Die(p)
  BY <1>3, QuitsKept DEF WatchRefused, Die
<1>4. CASE Beat(p)
  BY <1>4, BeatKept
<1>5. CASE LosesLease(p) \/ StopWatch(p)
  BY <1>5, GotoKept DEF LosesLease, StopWatch, Steps
<1>6. CASE Begins(p)
  BY <1>6, BeginsKept
<1>7. CASE ImportEnds(p)
  BY <1>7, ImportEndsKept
<1>8. CASE ImportFails(p)
  BY <1>8, ImportFailsKept
<1>9. CASE SkipEnds(p)
  BY <1>9, SkipEndsKept
<1>10. CASE Leave(p)
  BY <1>10, LeaveKept
<1> QED
  BY <1>1, <1>2, <1>3, <1>4, <1>5, <1>6, <1>7, <1>8, <1>9, <1>10 DEF Works

LEMMA HealthInvStep == HealthInv /\ [HealthNext]_healthVars => HealthInv'
<1> SUFFICES ASSUME HealthInv, [HealthNext]_healthVars  PROVE HealthInv'
  OBVIOUS
<1>1. ASSUME NEW p \in Process, Works(p)  PROVE HealthInv'
  BY <1>1, WorksKept
<1>2. CASE Inspect \/ Repair \/ FindDeparted \/ Retire \/ ClockTicks \/ Damage
  BY <1>2, InspectKept, RepairKept, FindDepartedKept, RetireKept, ClockTicksKept, DamageKept
<1>3. CASE UNCHANGED healthVars
  <2>1. UNCHANGED <<health, now, job, scansBegun, damage, inspected, departed, past>>
    BY <1>3 DEF healthVars, bounded, repairs
  <2>2. HealthTypeOK'
    BY <2>1 DEF HealthInv, HealthTypeOK
  <2> QED
    BY <2>1, <2>2, JobStays, ReceiptsKept
<1> QED
  BY <1>1, <1>2, <1>3 DEF HealthNext

\* The invariant of the health file, for any processes, sources, selections, versions of
\* the importer and bounds.
THEOREM HealthInvariant == HealthSpec => []HealthInv
<1> QED
  BY HealthInvInit, HealthInvStep, PTL DEF HealthSpec

\* The types.
THEOREM HealthTypes == HealthSpec => []HealthTypeOK
<1>1. HealthInv => HealthTypeOK
  BY DEF HealthInv
<1> QED
  BY <1>1, HealthInvariant, PTL

\* A source is shown healthy only if the last outcome recorded for it was clean, or a race
\* with a client that followed a clean one.
THEOREM GreenFollowsSuccess == HealthSpec => []GreenHasReason
<1>1. HealthInv => GreenHasReason
  <2> SUFFICES ASSUME HealthInv, NEW s \in Source, Green(s)
               PROVE  \/ past[s].last \in Fine
                      \/ past[s].last = "transient" /\ past[s].before \in Fine
    BY DEF GreenHasReason
  <2> DEFINE r == health.receipts[s]
  <2>1. r # None /\ r.success # None /\ (Suppressed(r) \/ r.errors = "clean")
    BY DEF Green
  <2>2. Tells(r, past[s])
    BY <2>1 DEF HealthInv, ReceiptsTell, SourceTells
  <2>3. r.streak \in Nat
    BY <2>1, HeldTyped DEF HealthInv, Receipts
  <2> QED
    BY <2>1, <2>2, <2>3 DEF Tells, Suppressed
<1> QED
  BY <1>1, HealthInvariant, PTL

-----------------------------------------------------------------------------
(* What a step may never do.                                               *)

LEMMA PastOfTheRest ==
  ASSUME HealthInv, HealthNext, past' # past
  PROVE  \E x \in health.scans, outcome \in [Source -> Verdicts] :
            Records(x, outcome) /\ scansBegun' = scansBegun
<1>1. PICK p \in Process : ImportEnds(p) \/ ImportFails(p) \/ SkipEnds(p)
  BY DEF HealthNext, Works, StartImport, StartWatch, WatchRefused, Beat, LosesLease, Begins,
         StopWatch, Leave, Die, Inspect, Repair, FindDeparted, Retire, ClockTicks, Damage
<1>2. CASE ImportEnds(p)
  <2>1. PICK x \in health.scans, finding \in [Source -> Finding] : Records(x, finding)
    BY <1>2 DEF ImportEnds, Registered
  <2>2. finding \in [Source -> Verdicts]
    BY DEF Verdicts
  <2> QED
    BY <1>2, <2>1, <2>2 DEF ImportEnds, bounded
<1>3. CASE ImportFails(p)
  <2>1. PICK x \in health.scans : Records(x, [s \in Source |-> "error"])
    BY <1>3 DEF ImportFails, Registered
  <2>2. [s \in Source |-> "error"] \in [Source -> Verdicts]
    BY DEF Verdicts, Finding
  <2> QED
    BY <1>3, <2>1, <2>2 DEF ImportFails, bounded
<1>4. CASE SkipEnds(p)
  <2>1. PICK x \in health.scans : Records(x, [s \in Source |-> "unchanged"])
    BY <1>4 DEF SkipEnds, Registered
  <2>2. [s \in Source |-> "unchanged"] \in [Source -> Verdicts]
    BY DEF Verdicts
  <2> QED
    BY <1>4, <2>1, <2>2 DEF SkipEnds, bounded
<1> QED
  BY <1>1, <1>2, <1>3, <1>4

\* Outcomes are recorded in the order in which scans began, whether scans overlap, fail,
\* are retired or left behind.
THEOREM OutcomesAdvance == HealthSpec => OlderScansYield
<1>1. HealthInv /\ [HealthNext]_healthVars =>
        [\A s \in Source : past'[s] # past[s] => past'[s].of > past[s].of]_healthVars
  <2> SUFFICES ASSUME HealthInv, HealthNext, NEW s \in Source, past'[s] # past[s]
               PROVE  past'[s].of > past[s].of
    OBVIOUS
  <2> QED
    BY PastOfTheRest, Recorded
<1> QED
  BY <1>1, HealthInvariant, PTL DEF HealthSpec, OlderScansYield

LEMMA LeaseTakenFairly ==
  ASSUME HealthInv, HealthNext, ~health'.corrupt, NEW p \in Process \ Dead,
         Holds(p), ~Holds(p)'
  PROVE  TakenOver(p) \/ job[p].pc = "leave"
<1>1. HealthTypeOK /\ health.watcher \in Watchers /\ health.watcher # None
  BY HeldTyped DEF HealthInv, Holds, WatcherRuns
<1>2. health'.watcher # health.watcher
  BY DEF Holds, WatcherRuns
<1>3. ASSUME NEW q \in Process, StartWatch(q)
      PROVE  TakenOver(p)
  BY <1>3 DEF StartWatch, TakenOver, Holds, WatcherRuns
<1>4. ASSUME NEW q \in Process, Leave(q)
      PROVE  job[p].pc = "leave"
  BY <1>2, <1>4 DEF Leave, Release, Holds
<1>5. CASE Retire
  <2>1. departed = p
    BY <1>2, <1>5 DEF Retire, Release, Holds
  <2> QED
    BY <1>5, <2>1 DEF HealthInv, RepairsTheDead, Retire
<1>6. ~Damage
  BY EmptyTyped DEF Damage
<1>7. ASSUME NEW q \in Process, Beat(q)
      PROVE  FALSE
  <2> DEFINE w == [health.watcher EXCEPT !.heartbeat = now]
  <2>1. w \in Watchers /\ w.lease = health.watcher.lease /\ w.running = health.watcher.running
    BY <1>1, HeldTyped DEF Watchers
  <2>2. health'.watcher = w
    BY <1>1, <1>7 DEF Beat, HealthTypeOK
  <2> QED
    BY <2>1, <2>2, NoneIsNone DEF Holds, WatcherRuns
<1>8. ASSUME NEW q \in Process, Begins(q)
      PROVE  FALSE
  BY <1>1, <1>2, <1>8 DEF Begins, HealthTypeOK
<1>9. \A x, outcome : Records(x, outcome) => health'.watcher = health.watcher
  BY <1>1 DEF Records, HealthTypeOK
<1>10. ASSUME NEW q \in Process, ImportEnds(q) \/ ImportFails(q) \/ SkipEnds(q)
       PROVE  FALSE
  BY <1>2, <1>9, <1>10 DEF ImportEnds, ImportFails, SkipEnds
<1>11. ~Repair
  BY <1>1, <1>2 DEF Repair, HealthTypeOK
<1>12. ASSUME NEW q \in Process,
              StartImport(q) \/ WatchRefused(q) \/ LosesLease(q) \/ StopWatch(q) \/ Die(q)
       PROVE  FALSE
  BY <1>2, <1>12 DEF StartImport, WatchRefused, LosesLease, StopWatch, Die
<1>13. ~Inspect /\ ~FindDeparted /\ ~ClockTicks
  BY <1>2 DEF Inspect, FindDeparted, ClockTicks
<1> QED
  BY <1>3, <1>4, <1>5, <1>6, <1>7, <1>8, <1>10, <1>11, <1>12, <1>13 DEF HealthNext, Works

LEMMA ScansEndedFairly ==
  ASSUME HealthInv, HealthNext, ~health'.corrupt, NEW x \in health.scans \ health'.scans,
         x.pid \notin Dead
  PROVE  TakenOver(x.pid) \/ job'[x.pid] # job[x.pid]
<1>1. HealthTypeOK /\ x \in Scans /\ x.pid \in Process
  BY HeldTyped DEF HealthInv, Scans
<1>2. health'.scans # health.scans
  OBVIOUS
<1>3. ASSUME NEW q \in Process, StartWatch(q)
      PROVE  TakenOver(x.pid) \/ job'[x.pid] # job[x.pid]
  <2>1. WatcherRuns /\ health.watcher.lease = x.pid
    BY <1>1, <1>3 DEF StartWatch, Superseded, HealthTypeOK
  <2>2. ~IsFresh
    BY <1>3, <2>1 DEF StartWatch
  <2>3. CASE x.pid = q
    <3>1. job[q].pc = "new" /\ job'[q].pc = "top"
      BY <1>1, <1>3 DEF StartWatch, HealthTypeOK, Jobs
    <3> QED
      BY <2>3, <3>1
  <2>4. CASE x.pid # q
    <3>1. health'.watcher.lease = q
      BY <1>1, <1>3 DEF StartWatch, HealthTypeOK
    <3> QED
      BY <2>1, <2>2, <2>4, <3>1 DEF TakenOver, Holds
  <2> QED
    BY <2>3, <2>4
<1>4. ASSUME NEW q \in Process, ImportEnds(q) \/ ImportFails(q) \/ SkipEnds(q)
      PROVE  job'[x.pid] # job[x.pid]
  <2>1. PICK y \in Registered(q) : health'.scans = health.scans \ {y}
    BY <1>1, <1>2, <1>4 DEF ImportEnds, ImportFails, SkipEnds, Records, HealthTypeOK
  <2>2. x = y /\ x.pid = q
    BY <2>1 DEF HealthInv, JobsOwn, JobOwns, Registered
  <2>3. job[q].pc \in {"scanning", "skipping"} /\ job'[q].pc \in {"after", "idle"}
    <3>1. job[q] \in Jobs
      BY <1>1 DEF HealthTypeOK
    <3>2. Returned(q).pc = "after" /\ Returned(q) \in Jobs /\ NoJob("idle").pc = "idle"
      BY <1>1, <3>1, ReturnedTyped DEF Returned, Jobs, NoJob
    <3>3. CASE ImportEnds(q)
      BY <1>1, <3>2, <3>3 DEF ImportEnds, HealthTypeOK, Jobs
    <3>4. CASE ImportFails(q)
      BY <1>1, <3>2, <3>4 DEF ImportFails, HealthTypeOK
    <3>5. CASE SkipEnds(q)
      BY <1>1, <3>2, <3>5 DEF SkipEnds, HealthTypeOK, Jobs
    <3> QED
      BY <1>4, <3>3, <3>4, <3>5
  <2> QED
    BY <2>2, <2>3
<1>5. ~Repair
  BY <1>1 DEF Repair, HealthInv, RepairsTheDead, HealthTypeOK
<1>6. ~Damage
  BY EmptyTyped DEF Damage
<1>7. ASSUME NEW q \in Process, Begins(q)
      PROVE  FALSE
  BY <1>1, <1>7 DEF Begins, HealthTypeOK
<1>8. ASSUME NEW q \in Process, Leave(q)
      PROVE  FALSE
  BY <1>1, <1>2, <1>8, ReleaseTyped DEF Leave
<1>9. ~Retire
  BY <1>1, <1>2, ReleaseTyped DEF Retire
<1>10. ASSUME NEW q \in Process, Beat(q)
       PROVE  FALSE
  BY <1>1, <1>2, <1>10 DEF Beat, HealthTypeOK
<1>11. ASSUME NEW q \in Process,
              StartImport(q) \/ WatchRefused(q) \/ LosesLease(q) \/ StopWatch(q) \/ Die(q)
       PROVE  FALSE
  BY <1>2, <1>11 DEF StartImport, WatchRefused, LosesLease, StopWatch, Die
<1>12. ~Inspect /\ ~FindDeparted /\ ~ClockTicks
  BY <1>2 DEF Inspect, FindDeparted, ClockTicks
<1> QED
  BY <1>3, <1>4, <1>5, <1>6, <1>7, <1>8, <1>9, <1>10, <1>11, <1>12 DEF HealthNext, Works

\* Nobody ends the lease or the scan of a process that lives: it does so itself, or
\* another watcher takes over from one whose heartbeat is old, or the file is spoilt.
THEOREM TheLivingAreUndisturbed == HealthSpec => LiveIsUndisturbed
<1>1. HealthInv /\ [HealthNext]_healthVars =>
        [~health'.corrupt =>
           /\ \A p \in Process \ Dead :
                Holds(p) /\ ~Holds(p)' => TakenOver(p) \/ job[p].pc = "leave"
           /\ \A x \in health.scans \ health'.scans :
                x.pid \notin Dead => TakenOver(x.pid) \/ job'[x.pid] # job[x.pid]]_healthVars
  BY LeaseTakenFairly, ScansEndedFairly
<1> QED
  BY <1>1, HealthInvariant, PTL DEF HealthSpec, LiveIsUndisturbed
=============================================================================
