------------------------------ MODULE MCStores ------------------------------
(***************************************************************************)
(* Instances of the stores for TLC. They share no state: one run explores  *)
(* each of them, the others staying as they were at first.                 *)
(***************************************************************************)
EXTENDS EvidenceSpool, RefreshableUsage, ReceiptSnapshots, SnapshotBuilds, ControlLog,
    TaskContinuations, LedgerWarmer, IngestionHealth, TLC

CONSTANTS
    e1, e3, c1, c2,                 \* EvidenceSpool
    a, b, u1, u2,                   \* RefreshableUsage
    p1, p2, f,                      \* ReceiptSnapshots
    d1, d2, w1, w2,                 \* SnapshotBuilds
    k1, k2, k3, k4, t1, t2,         \* ControlLog
    s1, s2, s3, s4,                 \* TaskContinuations
    x1, y1, y2,                     \* IngestionHealth
    Parts                           \* the stores that a run explores

VARIABLE part       \* the store that runs

-----------------------------------------------------------------------------
\* Lines of the one evidence id are a byte shorter than lines of the other.
Widths == [e \in Evidence |-> IF e = e3 THEN 3 ELSE 2]
Keys == [e \in Evidence |-> e]

\* Readings of a session with the same content in two orders, and with two contents
\* in the same order; and a reading of another session, without an order.
R(s, c, n) == [slot |-> s, content |-> c, order |-> n]
Readings == {R(u1, a, 1), R(u1, a, 2), R(u1, b, 2), R(u2, b, None)}
Materials == (a :> "x") @@ (b :> "y")

\* Two rows of one fact.
FactOf == [r \in {p1, p2} |-> f]

\* Two callers race for the first revision of a target and for its second, and
\* one of the keys is used for another target too.
Op(key, target, expected) == [key |-> key, target |-> target, expected |-> expected]
Operations ==
    {Op(k1, t1, 0), Op(k2, t1, 0), Op(k3, t1, 1), Op(k4, t1, 1), Op(k1, t2, 0), Op(k4, t2, 1)}

\* Processes of two versions of the importer.
Versions2 == [p \in {y1, y2} |-> p]

-----------------------------------------------------------------------------
storeVars == <<spoolVars, usageVars, receiptVars, buildVars, logVars, taskVars, warmerVars, healthVars, part>>

StoresInit ==
    /\ part \in Parts
    /\ SpoolInit /\ UsageInit /\ ReceiptInit /\ BuildInit /\ LogInit /\ TaskInit /\ WarmerInit
    /\ HealthInit
    /\ flat.items = IF part = "receipts" THEN {p1} ELSE {}
    /\ backup = IF part = "receipts" THEN log ELSE None

Alone(p) ==
    /\ part = p /\ UNCHANGED part
    /\ p # "spool" => UNCHANGED spoolVars
    /\ p # "usage" => UNCHANGED usageVars
    /\ p # "receipts" => UNCHANGED receiptVars
    /\ p # "builds" => UNCHANGED buildVars
    /\ p # "log" => UNCHANGED logVars
    /\ p # "tasks" => UNCHANGED taskVars
    /\ p # "warmer" => UNCHANGED warmerVars
    /\ p # "health" => UNCHANGED healthVars

\* Bound: the database refuses a receipt or a batch only where one less is written.
FewRefused ==
    /\ Refused # {} => issued < MaxReceipt
    /\ ~faultless => Len(written) < MaxBatch

StoresNext ==
    \/ Alone("spool") /\ SpoolNext /\ FewRefused'
    \/ Alone("usage") /\ UsageNext /\ FewRefused'
    \/ Alone("receipts") /\ ReceiptNext
    \/ Alone("builds") /\ BuildNext
    \/ Alone("log") /\ LogNext
    \/ Alone("tasks") /\ TaskNext
    \/ Alone("warmer") /\ WarmerNext
    \/ Alone("health") /\ HealthNext

StoresSpec ==
    /\ StoresInit /\ [][StoresNext]_storeVars
    /\ WF_storeVars(Alone("builds") /\ RestEnds)
    /\ \A w \in Worker : WF_storeVars(Alone("builds") /\ WorkerNext(w))
    /\ \A m \in Daemon : WF_storeVars(Alone("builds") /\ ManagerNext(m))

\* Converges, of a run of SnapshotBuilds.
BuildsConverge == part = "builds" => Converges
=============================================================================
