------------------- MODULE OwnedSupervisorLifecycleProofs -------------------
(***************************************************************************)
(* Why the record tells the truth about the process, for any number of     *)
(* supervisors: it is live while an agent runs, its verdict is the exit    *)
(* that happened, the metadata never tells more, and the whole system      *)
(* implements AttemptLifecycle.  At the end, how many conflicts it takes   *)
(* before a completion gives its verdict up.                               *)
(*                                                                         *)
(* The record can be ended by the failure of a launch, by a completion and *)
(* by a loss, and each has to be sure of something that it learnt several  *)
(* steps earlier.  The argument says what a thread at each step still      *)
(* knows (Knows) although the others went on: the record moves only        *)
(* forward, a process that is gone stays gone, and a launch that has       *)
(* failed never opens its gate (Forward).                                  *)
(***************************************************************************)
EXTENDS OwnedSupervisorProofs

\* The launch, up to the opening of the gate and in its failure.
BeforeGate == {"spawn", "fence_running", "write_metadata", "commit_running", "write_gate"}
GatedSteps == (BeforeGate \ {"spawn"}) \cup {"abort"}
LaunchSteps == BeforeGate \cup {"abort", "fail_fence", "fail_read", "fail_commit", "fail_meta"}

\* One supervisor launches the attempt, and the process on record is its child.
Launcher(s) == pc[s]["main"] \in LaunchSteps \/ shim[s] # "none"
LauncherInv ==
    /\ attempt.execution \in {"pending", "launching"} => attempt.proof = None
    /\ attempt.proof # None => shim[attempt.proof] # "none"
    /\ \A s \in Supervisor : Launcher(s) => attempt.execution # "pending"
    /\ \A p, q \in Supervisor : Launcher(p) /\ Launcher(q) => p = q

\* How a shim, its agent and its exit status hang together.
ShimState(s) ==
    /\ shim[s] = "none" => gate[s] = "none"
    /\ shim[s] \in {"none", "gated"} => target[s] = "none" /\ code[s] = "none"
    /\ shim[s] = "running" => target[s] # "none"
    /\ shim[s] = "paused" => target[s] = "exited"
    /\ shim[s] = "exited" \/ target[s] = "exited" => code[s] # "none"
    /\ code[s] = "zero" => target[s] = "exited"
    /\ pc[s]["main"] = "spawn" => shim[s] = "none"
    /\ pc[s]["main"] \in GatedSteps => shim[s] # "none"
    /\ pc[s]["main"] \in LaunchSteps => target[s] = "none" /\ gate[s] # "token"
ShimInv == \A s \in Supervisor : ShimState(s)

\* A launch that has failed: its agent will never start.
Dead(s) == pc[s]["main"] \notin BeforeGate /\ gate[s] # "token" /\ target[s] = "none"

\* What the metadata tells beside the record.
MetaInv ==
    /\ meta.status = "none" <=> meta.proof = None
    /\ meta.status \in {"none", "running", "cancel_requested"} \cup TerminalStates
    /\ meta.proof # None => shim[meta.proof] # "none"
    /\ attempt.proof # None => meta.status # "none"
    /\ \A s \in Supervisor :
         /\ pc[s]["main"] = "commit_running" => meta.status # "none"
         /\ pc[s]["main"] \in {"spawn", "fence_running", "write_metadata"} => meta.status = "none"
    /\ meta.status \in TerminalStates =>
         meta.status = attempt.execution \/ (meta.status = "failed" /\ Dead(meta.proof))

\* An agent that runs, or still may start, under its shim.
LiveInv ==
    \A s \in Supervisor : Armed(s) /\ shim[s] # "exited" => attempt.execution \in LiveStatuses

ProcessGone == attempt.proof # None /\ shim[attempt.proof] = "exited"
VerdictInv ==
    /\ attempt.execution = "succeeded" =>
         ProcessGone /\ target[attempt.proof] = "exited" /\ code[attempt.proof] = "zero"
    /\ attempt.execution = "cancelled" => ProcessGone

\* The attempt may be given up: it has ended, or nothing runs under control.
Over ==
    \/ Finished
    \/ attempt.proof # None /\ (shim[attempt.proof] = "exited" \/ Dead(attempt.proof))

\* What a thread knows of the record it has seen ...
KnowsRecord(s, t) ==
    /\ seen[s][t].revision <= attempt.revision
    /\ seen[s][t].revision = attempt.revision => seen[s][t] = attempt
    /\ seen[s][t].proof # None => attempt.proof = seen[s][t].proof
    /\ seen[s][t].execution \in LiveStatuses => seen[s][t].proof # None

\* ... from where it is in a launch or before a signal ...
KnowsLaunch(s, t) ==
    /\ pc[s][t] \in {"fence_manifest", "commit_launching"} => seen[s][t].execution = "pending"
    /\ pc[s][t] \in BeforeGate \ {"write_gate"} => seen[s][t].execution = "launching"
    /\ pc[s][t] = "fail_commit" => seen[s][t].execution \in ActiveStates

CancelSteps == {"cancel_meta", "cancel_fence", "sigterm", "grace", "kill_fence", "sigkill", "reap"}
KnowsCancel(s, t) ==
    /\ pc[s][t] = "cancel_commit" => seen[s][t].execution = "running"
    /\ pc[s][t] \in CancelSteps => seen[s][t].proof # None
    /\ t = "main" /\ pc[s][t] \in CancelSteps \cup {"lost_read", "done_fence", "done_read", "done_commit"}
         => PastRunning(attempt.execution)
    /\ pc[s][t] = "reap" => ProcessGone

\* ... when it is about to conclude ...
DoneSteps == {"done_fence", "done_read", "done_commit", "done_meta"}
KnowsDone(s, t) ==
    /\ pc[s][t] \in DoneSteps => ProcessGone
    /\ pc[s][t] = "done_commit" => seen[s][t].execution \in LiveStatuses
    /\ t = "main" /\ pc[s][t] = "done_commit" => seen[s][t].execution = "cancel_requested"
    /\ pc[s][t] = "done_meta" => seen[s][t].execution = attempt.execution /\ Finished
    /\ t = "monitor" /\ pc[s][t] \in {"watch"} \cup DoneSteps => attempt.proof = s

\* ... and when it is about to give the attempt up.  A lost lease stops it at
\* the fence.
KnowsLost(s, t) ==
    /\ pc[s][t] \in {"reconcile_verify", "loop_verify"} => seen[s][t].execution \in LiveStatuses
    /\ pc[s][t] = "lost_read" => attempt.proof # None /\ (grip[s] = "lost" \/ Over)
    /\ pc[s][t] \in {"lost_fence", "lost_commit"} =>
         /\ seen[s][t].execution \notin {"pending", "lost"}
         /\ \/ seen[s][t].execution = "launching"
            \/ Over
            \/ pc[s][t] = "lost_fence" /\ grip[s] = "lost"
    /\ pc[s][t] = "lost_meta" => attempt.execution = "lost"

Knows(s, t) ==
    /\ KnowsRecord(s, t)
    /\ KnowsLaunch(s, t)
    /\ KnowsCancel(s, t)
    /\ KnowsDone(s, t)
    /\ KnowsLost(s, t)

KnowsInv == attempt.revision >= 1 /\ \A s \in Supervisor, t \in Thread : Knows(s, t)

FateInv == LauncherInv /\ ShimInv /\ MetaInv /\ LiveInv /\ VerdictInv /\ KnowsInv

-----------------------------------------------------------------------------
(* What goes on being true.                                                *)

\* What no step takes back.
Forward ==
    /\ RecordMoves
    /\ \A s \in Supervisor :
         /\ shim[s] # "none" => shim'[s] # "none"
         /\ shim[s] = "exited" => shim'[s] = "exited"
         /\ shim[s] # "none" /\ Dead(s) => Dead(s)'
         /\ grip[s] = "lost" => grip'[s] = "lost"

LEMMA ProofType ==
    ASSUME TypeInv
    PROVE  /\ attempt.proof \in Supervisor \cup {None} /\ meta.proof \in Supervisor \cup {None}
           /\ None \notin Supervisor
  BY SupervisorAssumption DEF TypeInv, RecordOK, AttemptRecords, Metadata

LEMMA TerminalStays ==
    ASSUME RecordMoves, Finished
    PROVE  attempt'.execution = attempt.execution /\ Finished'
  BY DEF RecordMoves, LegalTransition, ExecutionStep, Finished, TerminalStates

LEMMA GoneStays ==
    ASSUME TypeInv, Forward, ProcessGone
    PROVE  ProcessGone'
<1>1. attempt'.proof = attempt.proof
  BY ProofStays DEF ProcessGone, Forward
<1> QED
  BY <1>1, ProofType DEF ProcessGone, Forward

LEMMA OverStays ==
    ASSUME TypeInv, LauncherInv, Forward, Over
    PROVE  Over'
<1>1. CASE Finished
  BY <1>1, TerminalStays DEF Forward, Over
<1>2. CASE ~Finished
  <2>1. attempt'.proof = attempt.proof /\ attempt.proof \in Supervisor /\ attempt.proof # None
    BY <1>2, ProofStays, ProofType DEF Forward, Over
  <2>2. shim[attempt.proof] # "none"
    BY <2>1 DEF LauncherInv
  <2> QED
    BY <1>2, <2>1, <2>2 DEF Forward, Over
<1> QED
  BY <1>1, <1>2

LEMMA SeenRecord ==
    ASSUME TypeInv, NEW s \in Supervisor, NEW t \in Thread
    PROVE  seen[s][t] \in AttemptRecords /\ seen[s][t].revision \in Nat
  BY DEF TypeInv, ThreadsInv, ThreadsOK, AttemptRecords

\* A thread that does not move still knows what it knew.
LEMMA KnowsStays ==
    ASSUME TypeInv, LauncherInv, Forward, NEW s \in Supervisor, NEW t \in Thread, Knows(s, t),
           pc'[s][t] = pc[s][t], seen'[s][t] = seen[s][t]
    PROVE  Knows(s, t)'
<1>1. KnowsRecord(s, t)'
  BY SeenRecord, RevisionGrows, ProofStays DEF Forward, Knows, KnowsRecord
<1>2. KnowsLaunch(s, t)'
  BY DEF Knows, KnowsLaunch
<1>3. KnowsCancel(s, t)'
  BY GoneStays, PastRunningStays DEF Forward, Knows, KnowsCancel
<1>4. KnowsDone(s, t)'
  <2>1. t = "monitor" /\ pc[s][t] \in {"watch"} \cup DoneSteps => attempt'.proof = s
    BY ProofStays, ProofType DEF Forward, Knows, KnowsDone
  <2> QED
    BY <2>1, GoneStays, TerminalStays DEF Forward, Knows, KnowsDone
<1>5. KnowsLost(s, t)'
  <2>1. attempt.proof # None => attempt'.proof # None
    BY ProofStays DEF Forward
  <2>2. attempt.execution = "lost" => attempt'.execution = "lost"
    BY TerminalStays DEF Forward, Finished, TerminalStates
  <2> QED
    BY <2>1, <2>2, OverStays DEF Forward, Knows, KnowsLost
<1> QED
  BY <1>1, <1>2, <1>3, <1>4, <1>5 DEF Knows

LEMMA GotoAt ==
    ASSUME TypeInv, NEW s \in Supervisor, NEW t \in Thread, NEW step, Goto(s, t, step)
    PROVE  /\ pc'[s][t] = step
           /\ \A q \in Supervisor, u \in Thread : q # s \/ u # t => pc'[q][u] = pc[q][u]
  BY DEF Goto, TypeInv, ThreadsInv, ThreadsOK

LEMMA SeenAt ==
    ASSUME TypeInv, NEW s \in Supervisor, NEW t \in Thread, NEW rec,
           seen' \in {seen, [seen EXCEPT ![s][t] = rec]}
    PROVE  /\ seen'[s][t] \in {seen[s][t], rec}
           /\ \A q \in Supervisor, u \in Thread : q # s \/ u # t => seen'[q][u] = seen[q][u]
  BY DEF TypeInv, ThreadsInv, ThreadsOK

(***************************************************************************)
(* Steps that move threads and leave the record and the processes alone.   *)
(***************************************************************************)

\* Where such a step may take the main thread: not into a launch, and in a
\* launch only on towards the gate or into its failure.
MovesOn(old, new) ==
    \/ new = old
    \/ new \notin LaunchSteps
    \/ old \in LaunchSteps /\ new \in LaunchSteps \ (BeforeGate \cup {"abort"})
    \/ old \in GatedSteps /\ new = "abort"
    \/ old = "fence_running" /\ new = "write_metadata"
WritesProof(old, new) == old = "write_metadata" /\ new = "commit_running"

LEMMA MovesForward ==
    ASSUME TypeInv, RecordMoves, UNCHANGED <<shim, target, gate>>, NEW s \in Supervisor,
           \A q \in Supervisor : q # s => pc'[q]["main"] = pc[q]["main"],
           \/ MovesOn(pc[s]["main"], pc'[s]["main"])
           \/ pc[s]["main"] \in BeforeGate
           \/ attempt.execution = "pending",
           LauncherInv, \A q \in Supervisor : grip[q] = "lost" => grip'[q] = "lost"
    PROVE  Forward
<1>1. ASSUME NEW q \in Supervisor, shim[q] # "none", Dead(q) PROVE Dead(q)'
  <2>1. attempt.execution # "pending"
    BY <1>1 DEF LauncherInv, Launcher
  <2> QED
    BY <1>1, <2>1 DEF Dead, MovesOn, LaunchSteps, BeforeGate, GatedSteps
<1> QED
  BY <1>1 DEF Forward

\* MetaInv but for a move that has to be justified by it.
LEMMA ThreadsMove ==
    ASSUME TypeInv, FateInv, UNCHANGED <<attempt, shim, target, gate, code>>,
           NEW s \in Supervisor,
           \A q \in Supervisor, t \in Thread : q # s =>
               pc'[q][t] = pc[q][t] /\ seen'[q][t] = seen[q][t],
           \/ MovesOn(pc[s]["main"], pc'[s]["main"])
           \/ WritesProof(pc[s]["main"], pc'[s]["main"]),
           \A q \in Supervisor : grip[q] = "lost" => grip'[q] = "lost",
           \A t \in Thread : Forward => Knows(s, t)'
    PROVE  /\ Forward
           /\ LauncherInv' /\ ShimInv' /\ LiveInv' /\ VerdictInv' /\ KnowsInv'
           /\ UNCHANGED meta /\ MovesOn(pc[s]["main"], pc'[s]["main"]) => MetaInv'
<1> USE DEF Thread, WritesProof
<1>0. LauncherInv /\ ShimInv /\ MetaInv /\ LiveInv /\ VerdictInv /\ KnowsInv
  BY DEF FateInv
<1>1. Forward
  BY <1>0, MovesForward DEF RecordMoves, BeforeGate, GatedSteps
<1>2. LauncherInv'
  <2>1. \A q \in Supervisor : Launcher(q)' => Launcher(q)
    BY DEF Launcher, MovesOn, LaunchSteps, BeforeGate, GatedSteps
  <2> QED
    BY <1>0, <2>1 DEF LauncherInv
<1>3. ShimInv'
  <2> SUFFICES ASSUME NEW q \in Supervisor PROVE ShimState(q)'
    BY DEF ShimInv
  <2>1. ShimState(q)
    BY <1>0 DEF ShimInv
  <2>2. CASE q = s
    BY <2>1, <2>2 DEF ShimState, MovesOn, LaunchSteps, BeforeGate, GatedSteps
  <2>3. CASE q # s
    BY <2>1, <2>3 DEF ShimState
  <2> QED
    BY <2>2, <2>3
<1>4. LiveInv'
  <2>1. \A q \in Supervisor : Armed(q)' => Armed(q)
    BY DEF Armed, MovesOn, LaunchSteps, BeforeGate, GatedSteps
  <2> QED
    BY <1>0, <2>1 DEF LiveInv
<1>5. VerdictInv'
  BY <1>0 DEF VerdictInv, ProcessGone
<1>6. KnowsInv'
  <2> SUFFICES ASSUME NEW q \in Supervisor, NEW t \in Thread PROVE Knows(q, t)'
    BY <1>0 DEF KnowsInv
  <2> QED
    BY <1>0, <1>1, KnowsStays DEF KnowsInv
<1>7. ASSUME UNCHANGED meta, MovesOn(pc[s]["main"], pc'[s]["main"]) PROVE MetaInv'
  <2>1. meta.proof # None => meta.proof \in Supervisor /\ shim[meta.proof] # "none"
    BY <1>0, ProofType DEF MetaInv
  <2>2. meta.status \in TerminalStates =>
          meta.status = attempt.execution \/ (meta.status = "failed" /\ Dead(meta.proof)')
    BY <1>0, <1>1, <1>7, <2>1 DEF MetaInv, Forward, Dead
  <2>3. \A q \in Supervisor :
          /\ pc'[q]["main"] = "commit_running" => meta.status # "none"
          /\ pc'[q]["main"] \in {"spawn", "fence_running", "write_metadata"} => meta.status = "none"
    BY <1>0, <1>7 DEF MetaInv, MovesOn, LaunchSteps, BeforeGate, GatedSteps
  <2> QED
    BY <1>0, <1>7, <2>2, <2>3 DEF MetaInv
<1> QED
  BY <1>1, <1>2, <1>3, <1>4, <1>5, <1>6, <1>7

\* Nothing is asked of a thread's knowledge at these steps.
FreeSteps == {"lease", "preflight", "wait", "cancel_read", "abort", "fail_fence", "fail_read",
              "fail_meta", "write_gate", "reconcile_read", "serve", "interrupted", "close",
              "closed", "exited", "loop_fence", "loop_read", "ended"}

LEMMA FreeKnows ==
    ASSUME NEW s \in Supervisor, NEW t \in Thread, pc'[s][t] \in FreeSteps, KnowsRecord(s, t)'
    PROVE  Knows(s, t)'
  BY DEF FreeSteps, Knows, KnowsLaunch, BeforeGate, GatedSteps, KnowsCancel, CancelSteps, KnowsDone, DoneSteps,
         KnowsLost

\* What a thread has just read is what the record says.
LEMMA ReadKnows ==
    ASSUME TypeInv, SafeInv, UNCHANGED attempt, NEW s \in Supervisor, NEW t \in Thread,
           \/ seen'[s][t] = attempt
           \/ seen'[s][t] = seen[s][t] /\ KnowsRecord(s, t)
    PROVE  KnowsRecord(s, t)'
  BY DEF KnowsRecord, TypeInv, RecordOK, AttemptRecords, SafeInv, RecordInv

\* One thread goes on, knowing what its new step needs.
LEMMA ThreadMoves ==
    ASSUME TypeInv, FateInv, UNCHANGED <<attempt, shim, target, gate, code>>,
           NEW s \in Supervisor, NEW t \in Thread, NEW step, Goto(s, t, step),
           seen' \in {seen, [seen EXCEPT ![s][t] = attempt]},
           t = "main" => MovesOn(pc[s]["main"], step) \/ WritesProof(pc[s]["main"], step),
           \A q \in Supervisor : grip[q] = "lost" => grip'[q] = "lost",
           Knows(s, t)'
    PROVE  /\ LauncherInv' /\ ShimInv' /\ LiveInv' /\ VerdictInv' /\ KnowsInv'
           /\ UNCHANGED meta /\ (t = "main" => MovesOn(pc[s]["main"], step)) => MetaInv'
<1>1. /\ pc'[s][t] = step
      /\ \A q \in Supervisor, u \in Thread : q # s \/ u # t =>
           pc'[q][u] = pc[q][u] /\ seen'[q][u] = seen[q][u]
  BY GotoAt, SeenAt
<1>2. \/ MovesOn(pc[s]["main"], pc'[s]["main"])
      \/ t = "main" /\ WritesProof(pc[s]["main"], pc'[s]["main"])
  BY <1>1 DEF MovesOn, Thread
<1>3. (t = "main" => MovesOn(pc[s]["main"], step)) => MovesOn(pc[s]["main"], pc'[s]["main"])
  BY <1>1 DEF MovesOn, Thread
<1>4. ASSUME NEW u \in Thread, Forward PROVE Knows(s, u)'
  BY <1>1, <1>4, KnowsStays DEF FateInv, KnowsInv
<1> QED
  BY <1>1, <1>2, <1>3, <1>4, ThreadsMove

LEMMA ThreadGoes ==
    ASSUME TypeInv, FateInv, UNCHANGED <<attempt, meta, shim, target, gate, code>>,
           NEW s \in Supervisor, NEW t \in Thread, NEW step, Goto(s, t, step),
           seen' \in {seen, [seen EXCEPT ![s][t] = attempt]},
           t = "main" => MovesOn(pc[s]["main"], step),
           \A q \in Supervisor : grip[q] = "lost" => grip'[q] = "lost",
           Knows(s, t)'
    PROVE  FateInv'
  BY ThreadMoves DEF FateInv

LEMMA FreeGoes ==
    ASSUME TypeInv, SafeInv, FateInv, UNCHANGED <<attempt, meta, shim, target, gate, code>>,
           NEW s \in Supervisor, NEW t \in Thread, NEW step \in FreeSteps, Goto(s, t, step),
           seen' \in {seen, [seen EXCEPT ![s][t] = attempt]},
           t = "main" => MovesOn(pc[s]["main"], step),
           \A q \in Supervisor : grip[q] = "lost" => grip'[q] = "lost"
    PROVE  FateInv'
<1>0. seen'[s][t] \in {seen[s][t], attempt}
  BY DEF TypeInv, ThreadsInv, ThreadsOK
<1>1. pc'[s][t] = step
  BY GotoAt
<1>2. KnowsRecord(s, t)'
  BY <1>0, ReadKnows DEF FateInv, KnowsInv, Knows
<1>3. Knows(s, t)'
  BY <1>1, <1>2, FreeKnows
<1> QED
  BY <1>3, ThreadGoes

LEMMA FenceGrip ==
    ASSUME TypeInv, NEW s \in Supervisor, FencePasses(s) \/ FenceFails(s)
    PROVE  /\ \A q \in Supervisor : grip[q] = "lost" => grip'[q] = "lost"
           /\ FencePasses(s) => grip[s] # "lost"
           /\ FenceFails(s) => grip'[s] = "lost"
  BY DEF FencePasses, FenceFails, HoldsLease, TypeInv, LeaseOK

\* A process on record that cannot be verified is gone, or was never let go.
LEMMA NotVerified ==
    ASSUME TypeInv, FateInv, NEW s \in Supervisor, NEW t \in Thread,
           seen[s][t].proof # None, ~Verified(seen[s][t])
    PROVE  Over
<1> DEFINE p == seen[s][t].proof
<1>1. p = attempt.proof /\ p \in Supervisor
  BY ProofType DEF FateInv, KnowsInv, Knows, KnowsRecord
<1>2. shim[p] # "none" /\ meta.status # "none"
  BY <1>1, ProofType DEF FateInv, LauncherInv, MetaInv
<1>3. meta.proof = p
  <2>1. meta.proof \in Supervisor /\ shim[meta.proof] # "none"
    BY <1>2, ProofType DEF FateInv, MetaInv
  <2> QED
    BY <1>1, <1>2, <2>1 DEF FateInv, LauncherInv, Launcher
<1>4. CASE shim[p] \notin LiveShim
  BY <1>1, <1>2, <1>4, ProofType DEF TypeInv, ProcessOK, Over
<1>5. CASE meta.status \notin LiveStatuses
  <2>1. meta.status \in TerminalStates
    BY <1>2, <1>5 DEF FateInv, MetaInv, LiveStatuses
  <2>2. meta.status = attempt.execution \/ Dead(p)
    BY <1>3, <2>1 DEF FateInv, MetaInv
  <2> QED
    BY <1>1, <2>1, <2>2, ProofType DEF Over, Finished
<1> QED
  BY <1>1, <1>3, <1>4, <1>5 DEF Verified

(***************************************************************************)
(* The launch.                                                             *)
(***************************************************************************)
LEMMA EnsureLeaseFate ==
    ASSUME TypeInv, SafeInv, FateInv, NEW s \in Supervisor, EnsureLease(s)
    PROVE  FateInv'
<1> USE DEF record, process, Thread, FreeSteps, MovesOn, LaunchSteps, BeforeGate, GatedSteps
<1>1. EnsureLeaseNext(s) \in {"preflight", "cancel_read", "reconcile_read"}
  BY DEF EnsureLeaseNext
<1>2. PICK step \in {"preflight", "cancel_read", "reconcile_read", "close"} : Goto(s, "main", step)
  BY <1>1 DEF EnsureLease, Fence
<1>3. \A q \in Supervisor : grip[q] = "lost" => grip'[q] = "lost"
  BY FenceGrip DEF EnsureLease, Fence, lease, TypeInv, LeaseOK
<1> QED
  BY <1>2, <1>3, FreeGoes DEF EnsureLease

LEMMA PreflightFate ==
    ASSUME TypeInv, SafeInv, FateInv, NEW s \in Supervisor,
           Preflight(s) \/ ReplayLaunch(s) \/ FenceManifest(s)
    PROVE  FateInv'
<1> USE DEF record, process, lease, Thread, FreeSteps, MovesOn, LaunchSteps, BeforeGate, GatedSteps
<1>1. CASE Preflight(s)
  <2>1. CASE attempt.execution = "pending" /\ attempt.control = "ready"
    <3>1. Goto(s, "main", "fence_manifest") /\ pc'[s]["main"] = "fence_manifest"
          /\ seen'[s]["main"] = attempt
      BY <1>1, <2>1, GotoAt DEF Preflight, TypeInv, ThreadsInv, ThreadsOK
    <3>2. Knows(s, "main")'
      BY <1>1, <2>1, <3>1, ReadKnows
      DEF Preflight, Knows, KnowsLaunch, KnowsCancel, CancelSteps, KnowsDone, DoneSteps, KnowsLost
    <3> QED
      BY <1>1, <3>1, <3>2, ThreadGoes DEF Preflight
  <2>2. CASE ~(attempt.execution = "pending" /\ attempt.control = "ready")
    BY <1>1, <2>2, FreeGoes DEF Preflight
  <2> QED
    BY <2>1, <2>2
<1>2. CASE ReplayLaunch(s)
  BY <1>2, FreeGoes DEF ReplayLaunch
<1>3. CASE FenceManifest(s)
  <2>1. CASE FencePasses(s) /\ Goto(s, "main", "commit_launching")
    <3>1. pc'[s]["main"] = "commit_launching" /\ seen'[s]["main"] = seen[s]["main"]
      BY <1>3, <2>1, GotoAt DEF FenceManifest
    <3>2. KnowsRecord(s, "main")'
      BY <1>3, <3>1, ReadKnows DEF FenceManifest, FateInv, KnowsInv, Knows
    <3>3. Knows(s, "main")'
      BY <1>3, <3>1, <3>2
      DEF FenceManifest, FateInv, KnowsInv, Knows, KnowsLaunch, KnowsCancel, CancelSteps,
          KnowsDone, DoneSteps, KnowsLost
    <3> QED
      BY <1>3, <2>1, <3>3, FenceGrip, ThreadGoes DEF FenceManifest
  <2>2. CASE FenceFails(s) /\ Goto(s, "main", "close")
    BY <1>3, <2>2, FenceGrip, FreeGoes DEF FenceManifest
  <2> QED
    BY <1>3, <2>1, <2>2 DEF FenceManifest, Fence
<1> QED
  BY <1>1, <1>2, <1>3

LEMMA FailFate ==
    ASSUME TypeInv, SafeInv, FateInv, NEW s \in Supervisor, FailFence(s) \/ FailRead(s)
    PROVE  FateInv'
<1> USE DEF record, process, lease, Thread, FreeSteps, MovesOn, LaunchSteps, BeforeGate, GatedSteps
<1>1. CASE FailFence(s)
  BY <1>1, FenceGrip, FreeGoes DEF FailFence, Fence
<1>2. CASE FailRead(s)
  <2>1. CASE attempt.execution \in ActiveStates
    <3>1. Goto(s, "main", "fail_commit") /\ pc'[s]["main"] = "fail_commit"
          /\ seen'[s]["main"] = attempt
      BY <1>2, <2>1, GotoAt DEF FailRead, TypeInv, ThreadsInv, ThreadsOK
    <3>2. Knows(s, "main")'
      BY <1>2, <2>1, <3>1, ReadKnows
      DEF FailRead, Knows, KnowsLaunch, KnowsCancel, CancelSteps, KnowsDone, DoneSteps, KnowsLost
    <3> QED
      BY <1>2, <3>1, <3>2, ThreadGoes DEF FailRead
  <2>2. CASE attempt.execution \notin ActiveStates
    BY <1>2, <2>2, FreeGoes DEF FailRead
  <2> QED
    BY <2>1, <2>2
<1> QED
  BY <1>1, <1>2

LEMMA OverGoes ==
    ASSUME TypeInv, FateInv, UNCHANGED <<attempt, shim, target, gate>>, Over,
           NEW s \in Supervisor, NEW t \in Thread, NEW step, Goto(s, t, step),
           t = "main" => MovesOn(pc[s]["main"], step)
    PROVE  Over'
<1>1. pc'[s][t] = step
      /\ \A q \in Supervisor, u \in Thread : q # s \/ u # t => pc'[q][u] = pc[q][u]
  BY GotoAt
<1>2. ASSUME NEW p \in Supervisor, Dead(p), shim[p] # "none" PROVE Dead(p)'
  BY <1>1, <1>2 DEF Dead, MovesOn, LaunchSteps, BeforeGate, GatedSteps, Thread
<1>3. CASE Finished
  BY <1>3 DEF Over, Finished
<1>4. CASE ~Finished
  <2>1. attempt.proof \in Supervisor /\ attempt.proof # None /\ shim[attempt.proof] # "none"
    BY <1>4, ProofType DEF Over, FateInv, LauncherInv
  <2>2. shim[attempt.proof] = "exited" \/ Dead(attempt.proof)
    BY <1>4 DEF Over
  <2> DEFINE p == attempt.proof
  <2>3. shim[p] = "exited" \/ Dead(p)'
    BY <1>2, <2>1, <2>2
  <2> QED
    BY <2>1, <2>3 DEF Over, Dead
<1> QED
  BY <1>3, <1>4

LEMMA ReturnFree ==
    \A s \in Supervisor, t \in Thread : Return(s, t) \in FreeSteps /\ Return(s, t) \notin LaunchSteps
  BY DEF Return, FreeSteps, LaunchSteps, BeforeGate, GatedSteps

(***************************************************************************)
(* The cancellation.                                                       *)
(***************************************************************************)
LEMMA SeenGone ==
    ASSUME TypeInv, FateInv, NEW s \in Supervisor, NEW t \in Thread, seen[s][t].proof # None
    PROVE  /\ attempt.proof = seen[s][t].proof /\ attempt.proof \in Supervisor
           /\ attempt.proof # None /\ shim[attempt.proof] # "none"
           /\ shim[attempt.proof] \notin LiveShim => ProcessGone
<1>1. attempt.proof = seen[s][t].proof /\ attempt.proof \in Supervisor
  BY ProofType DEF FateInv, KnowsInv, Knows, KnowsRecord
<1>2. shim[attempt.proof] # "none"
  BY <1>1, ProofType DEF FateInv, LauncherInv
<1> QED
  BY <1>1, <1>2, ProofType DEF ProcessGone, TypeInv, ProcessOK

LEMMA GoneOver == ProcessGone => Over
  BY DEF ProcessGone, Over

LEMMA CancelReadFate ==
    ASSUME TypeInv, SafeInv, FateInv, NEW s \in Supervisor, CancelRead(s)
    PROVE  FateInv'
<1> USE DEF record, process, lease, Thread, MovesOn, LaunchSteps, BeforeGate, GatedSteps
<1>1. seen'[s]["main"] = attempt /\ UNCHANGED <<attempt, shim>>
  BY DEF CancelRead, TypeInv, ThreadsInv, ThreadsOK
<1>2. KnowsRecord(s, "main")'
  BY <1>1, ReadKnows
<1>3. CASE CancelFrom(attempt) = "close"
  BY <1>3, FreeGoes DEF CancelRead, FreeSteps
<1>4. CASE CancelFrom(attempt) = "cancel_commit"
  <2>1. attempt.execution = "running" /\ pc'[s]["main"] = "cancel_commit"
        /\ Goto(s, "main", "cancel_commit")
    BY <1>4, GotoAt DEF CancelRead, CancelFrom
  <2>2. Knows(s, "main")'
    BY <1>1, <1>2, <2>1
    DEF Knows, KnowsLaunch, KnowsCancel, CancelSteps, KnowsDone, DoneSteps, KnowsLost
  <2> QED
    BY <2>1, <2>2, ThreadGoes DEF CancelRead
<1>5. CASE CancelFrom(attempt) = "cancel_fence"
  <2>1. attempt.execution = "cancel_requested" /\ attempt.proof # None
        /\ pc'[s]["main"] = "cancel_fence" /\ Goto(s, "main", "cancel_fence")
    BY <1>5, GotoAt DEF CancelRead, CancelFrom, Verified, LiveStatuses
  <2>2. Knows(s, "main")'
    BY <1>1, <1>2, <2>1
    DEF Knows, KnowsLaunch, KnowsCancel, CancelSteps, PastRunning, KnowsDone, DoneSteps, KnowsLost
  <2> QED
    BY <2>1, <2>2, ThreadGoes DEF CancelRead
<1> QED
  BY <1>3, <1>4, <1>5 DEF CancelFrom

\* A cancellation that holds its proof goes from one step to the next, ...
LEMMA CancelGoes ==
    ASSUME TypeInv, SafeInv, FateInv, NEW s \in Supervisor, pc[s]["main"] \in CancelSteps,
           UNCHANGED <<attempt, meta, shim, target, gate, code, seen>>,
           NEW step \in CancelSteps \ {"reap"}, Goto(s, "main", step),
           \A q \in Supervisor : grip[q] = "lost" => grip'[q] = "lost"
    PROVE  FateInv'
<1>1. pc'[s]["main"] = step /\ seen'[s]["main"] = seen[s]["main"]
  BY GotoAt DEF Thread
<1>2. KnowsRecord(s, "main")'
  BY <1>1, ReadKnows DEF FateInv, KnowsInv, Knows, Thread
<1>3. Knows(s, "main")'
  BY <1>1, <1>2
  DEF FateInv, KnowsInv, Knows, KnowsLaunch, BeforeGate, GatedSteps, KnowsCancel, CancelSteps, KnowsDone,
      DoneSteps, KnowsLost, Thread
<1> QED
  BY <1>3, ThreadGoes DEF MovesOn, LaunchSteps, BeforeGate, GatedSteps, CancelSteps, Thread

\* ... or gives up, with its lease lost or nothing left to control.
LEMMA CancelLoses ==
    ASSUME TypeInv, SafeInv, FateInv, NEW s \in Supervisor, pc[s]["main"] \in CancelSteps,
           UNCHANGED <<attempt, meta, shim, target, gate, code, seen>>,
           Goto(s, "main", "lost_read"), grip'[s] = "lost" \/ Over,
           \A q \in Supervisor : grip[q] = "lost" => grip'[q] = "lost"
    PROVE  FateInv'
<1>0. MovesOn(pc[s]["main"], "lost_read")
  BY DEF MovesOn, LaunchSteps, BeforeGate, GatedSteps
<1>1. pc'[s]["main"] = "lost_read" /\ seen'[s]["main"] = seen[s]["main"]
  BY GotoAt DEF Thread
<1>2. KnowsRecord(s, "main")'
  BY <1>1, ReadKnows DEF FateInv, KnowsInv, Knows, Thread
<1>3. grip'[s] = "lost" \/ Over'
  BY <1>0, OverGoes DEF Thread
<1>4. PastRunning(attempt.execution) /\ attempt.proof # None
  BY SeenGone DEF FateInv, KnowsInv, Knows, KnowsCancel, Thread
<1>5. Knows(s, "main")'
  BY <1>1, <1>2, <1>3, <1>4
  DEF Knows, KnowsLaunch, BeforeGate, GatedSteps, KnowsCancel, CancelSteps, KnowsDone, DoneSteps, KnowsLost
<1> QED
  BY <1>0, <1>5, ThreadGoes DEF Thread

LEMMA CancelMovesFate ==
    ASSUME TypeInv, SafeInv, FateInv, NEW s \in Supervisor,
           CancelFence(s) \/ Sigterm(s) \/ Grace(s) \/ KillFence(s)
    PROVE  FateInv'
<1> USE DEF record, process, lease, CancelSteps
<1>0. seen[s]["main"].proof # None
  BY DEF CancelFence, Sigterm, Grace, KillFence, FateInv, KnowsInv, Knows, KnowsCancel, Thread
<1>1. CASE CancelFence(s)
  <2>1. CASE FencePasses(s) /\ Goto(s, "main", "sigterm")
    BY <1>1, <2>1, FenceGrip, CancelGoes DEF CancelFence
  <2>2. CASE Goto(s, "main", "close") /\ (FenceFails(s) \/ UNCHANGED lease)
    BY <1>1, <2>2, FenceGrip, FreeGoes
    DEF CancelFence, FreeSteps, MovesOn, LaunchSteps, BeforeGate, GatedSteps, Thread
  <2> QED
    BY <1>1, <2>1, <2>2 DEF CancelFence, Fence
<1>2. CASE Sigterm(s)
  <2>1. CASE Goto(s, "main", "grace")
    BY <1>2, <2>1, CancelGoes DEF Sigterm
  <2>2. CASE Goto(s, "main", "lost_read") /\ ~GroupPresent(seen[s]["main"].proof)
    BY <1>0, <1>2, <2>2, SeenGone, GoneOver, CancelLoses DEF Sigterm, GroupPresent, Thread
  <2> QED
    BY <1>2, <2>1, <2>2 DEF Sigterm
<1>3. CASE Grace(s)
  <2>1. CASE Goto(s, "main", "kill_fence")
    BY <1>3, <2>1, CancelGoes DEF Grace
  <2>2. CASE Goto(s, "main", "lost_read") /\ ~Verified(seen[s]["main"])
    BY <1>0, <1>3, <2>2, NotVerified, CancelLoses DEF Grace, Thread
  <2> QED
    BY <1>3, <2>1, <2>2 DEF Grace
<1>4. CASE KillFence(s)
  <2>1. CASE FencePasses(s) /\ Goto(s, "main", "sigkill")
    BY <1>4, <2>1, FenceGrip, CancelGoes DEF KillFence
  <2>2. CASE FenceFails(s) /\ Goto(s, "main", "lost_read")
    BY <1>4, <2>2, FenceGrip, CancelLoses DEF KillFence
  <2>3. CASE FencePasses(s) /\ Goto(s, "main", "lost_read") /\ ~Verified(seen[s]["main"])
    BY <1>0, <1>4, <2>3, FenceGrip, NotVerified, CancelLoses DEF KillFence, Thread
  <2> QED
    BY <1>4, <2>1, <2>2, <2>3 DEF KillFence, Fence
<1> QED
  BY <1>1, <1>2, <1>3, <1>4

LEMMA ReapFate ==
    ASSUME TypeInv, SafeInv, FateInv, NEW s \in Supervisor, Reap(s)
    PROVE  FateInv'
<1> USE DEF record, process, lease, CancelSteps, Thread
<1>1. ProcessGone /\ PastRunning(attempt.execution)
  BY DEF Reap, FateInv, KnowsInv, Knows, KnowsCancel
<1>2. CASE Goto(s, "main", "lost_read")
  BY <1>1, <1>2, GoneOver, CancelLoses DEF Reap
<1>3. CASE Goto(s, "main", "done_fence")
  <2>1. pc'[s]["main"] = "done_fence" /\ seen'[s]["main"] = seen[s]["main"]
        /\ UNCHANGED <<attempt, shim>>
    BY <1>3, GotoAt DEF Reap
  <2>2. KnowsRecord(s, "main")'
    BY <2>1, ReadKnows DEF FateInv, KnowsInv, Knows
  <2>3. Knows(s, "main")'
    BY <1>1, <2>1, <2>2
    DEF Knows, KnowsLaunch, BeforeGate, GatedSteps, KnowsCancel, KnowsDone, DoneSteps, KnowsLost, ProcessGone
  <2> QED
    BY <1>3, <2>3, ThreadGoes DEF Reap, MovesOn, LaunchSteps, BeforeGate, GatedSteps
<1> QED
  BY <1>2, <1>3 DEF Reap

(***************************************************************************)
(* The completion.                                                         *)
(***************************************************************************)
LEMMA DoneReadsFate ==
    ASSUME TypeInv, SafeInv, FateInv, NEW s \in Supervisor, NEW t \in Thread,
           (Monitor(s) /\ t = "monitor") \/ DoneFence(s, t) \/ DoneRead(s, t)
    PROVE  FateInv'
<1> USE DEF record, process, lease, Thread, DoneSteps
<1>0. Knows(s, t)
  BY DEF FateInv, KnowsInv
<1>1. CASE Monitor(s) /\ t = "monitor"
  <2>1. Goto(s, t, "done_fence") /\ pc'[s][t] = "done_fence" /\ seen'[s][t] = seen[s][t]
        /\ UNCHANGED <<attempt, shim>>
    BY <1>1, GotoAt DEF Monitor
  <2>2. attempt.proof = s /\ shim[s] = "exited" /\ s # None
    BY <1>0, <1>1, ProofType DEF Monitor, Knows, KnowsDone
  <2>3. KnowsRecord(s, t)'
    BY <1>0, <2>1, ReadKnows DEF Knows
  <2>4. Knows(s, t)'
    BY <1>1, <2>1, <2>2, <2>3
    DEF Knows, KnowsLaunch, BeforeGate, GatedSteps, KnowsCancel, CancelSteps, KnowsDone, KnowsLost, ProcessGone
  <2> QED
    BY <1>1, <2>1, <2>4, ThreadGoes DEF Monitor
<1>2. CASE DoneFence(s, t)
  <2>1. CASE FencePasses(s) /\ Goto(s, t, "done_read")
    <3>1. pc'[s][t] = "done_read" /\ seen'[s][t] = seen[s][t] /\ UNCHANGED <<attempt, shim>>
      BY <1>2, <2>1, GotoAt DEF DoneFence
    <3>2. KnowsRecord(s, t)'
      BY <1>0, <3>1, ReadKnows DEF Knows
    <3>3. Knows(s, t)'
      BY <1>0, <1>2, <3>1, <3>2
      DEF DoneFence, Knows, KnowsLaunch, BeforeGate, GatedSteps, KnowsCancel, CancelSteps, KnowsDone,
          KnowsLost, ProcessGone
    <3> QED
      BY <1>2, <2>1, <3>3, FenceGrip, ThreadGoes DEF DoneFence, MovesOn, LaunchSteps, BeforeGate, GatedSteps
  <2>2. CASE FenceFails(s) /\ Goto(s, t, Return(s, t))
    BY <1>2, <2>2, FenceGrip, ReturnFree, FreeGoes DEF DoneFence, MovesOn
  <2> QED
    BY <1>2, <2>1, <2>2 DEF DoneFence, Fence
<1>3. CASE DoneRead(s, t)
  <2>1. seen'[s][t] = attempt /\ UNCHANGED <<attempt, shim>>
    BY <1>3 DEF DoneRead, TypeInv, ThreadsInv, ThreadsOK
  <2>2. KnowsRecord(s, t)'
    BY <2>1, ReadKnows
  <2>3. ProcessGone /\ (t = "monitor" => attempt.proof = s)
        /\ (t = "main" => PastRunning(attempt.execution))
    BY <1>0, <1>3 DEF DoneRead, Knows, KnowsDone, KnowsCancel
  <2>4. CASE Finished
    <3>1. Goto(s, t, "done_meta") /\ pc'[s][t] = "done_meta"
      BY <1>3, <2>4, GotoAt DEF DoneRead
    <3>2. Knows(s, t)'
      BY <2>1, <2>2, <2>3, <2>4, <3>1
      DEF Knows, KnowsLaunch, BeforeGate, GatedSteps, KnowsCancel, CancelSteps, KnowsDone, KnowsLost,
          ProcessGone, Finished
    <3> QED
      BY <1>3, <3>1, <3>2, ThreadGoes DEF DoneRead, MovesOn, LaunchSteps, BeforeGate, GatedSteps
  <2>5. CASE ~Finished
    <3>1. Goto(s, t, "done_commit") /\ pc'[s][t] = "done_commit"
      BY <1>3, <2>5, GotoAt DEF DoneRead
    <3>2. attempt.execution \in LiveStatuses
          /\ (t = "main" => attempt.execution = "cancel_requested")
      BY <2>3, <2>5 DEF FateInv, LauncherInv, ProcessGone, Finished, TerminalStates, LiveStatuses,
         PastRunning, TypeInv, RecordOK, AttemptRecords, ExecutionStates
    <3>3. Knows(s, t)'
      BY <2>1, <2>2, <2>3, <3>1, <3>2
      DEF Knows, KnowsLaunch, BeforeGate, GatedSteps, KnowsCancel, CancelSteps, KnowsDone, KnowsLost, ProcessGone
    <3> QED
      BY <1>3, <3>1, <3>3, ThreadGoes DEF DoneRead, MovesOn, LaunchSteps, BeforeGate, GatedSteps
  <2> QED
    BY <2>4, <2>5
<1> QED
  BY <1>1, <1>2, <1>3

(***************************************************************************)
(* Losses and recovery.                                                    *)
(***************************************************************************)

\* A thread that cannot verify the process on record goes to give it up.
LEMMA LosesFate ==
    ASSUME TypeInv, SafeInv, FateInv, NEW s \in Supervisor, NEW t \in Thread,
           pc[s][t] \in {"reconcile_verify", "loop_verify"}, ~Verified(seen[s][t]),
           UNCHANGED <<attempt, meta, shim, target, gate, code, seen, grip>>,
           Goto(s, t, "lost_fence")
    PROVE  FateInv'
<1>0. Knows(s, t) /\ MovesOn(pc[s]["main"], "lost_fence")
  BY DEF FateInv, KnowsInv, MovesOn, LaunchSteps, BeforeGate, GatedSteps
<1>1. pc'[s][t] = "lost_fence" /\ seen'[s][t] = seen[s][t]
  BY GotoAt
<1>2. seen[s][t].execution \in LiveStatuses /\ seen[s][t].proof # None
  BY <1>0 DEF Knows, KnowsLost, KnowsRecord
<1>3. Over'
  BY <1>0, <1>2, NotVerified, OverGoes
<1>4. KnowsRecord(s, t)'
  BY <1>0, <1>1, ReadKnows DEF Knows
<1>5. Knows(s, t)'
  BY <1>1, <1>2, <1>3, <1>4
  DEF Knows, KnowsLaunch, BeforeGate, GatedSteps, KnowsCancel, CancelSteps, KnowsDone, DoneSteps, KnowsLost,
      LiveStatuses
<1> QED
  BY <1>0, <1>5, ThreadGoes

LEMMA LostReadFate ==
    ASSUME TypeInv, SafeInv, FateInv, NEW s \in Supervisor, LostRead(s)
    PROVE  FateInv'
<1> USE DEF record, process, lease, Thread
<1>1. seen'[s]["main"] = attempt /\ UNCHANGED <<attempt, grip>> /\ pc[s]["main"] = "lost_read"
  BY DEF LostRead, TypeInv, ThreadsInv, ThreadsOK
<1>2. Knows(s, "main")
  BY DEF FateInv, KnowsInv
<1>3. CASE attempt.execution = "lost"
  BY <1>3, ReturnFree, FreeGoes DEF LostRead, MovesOn
<1>4. CASE attempt.execution # "lost"
  <2>1. Goto(s, "main", "lost_fence") /\ pc'[s]["main"] = "lost_fence"
        /\ MovesOn(pc[s]["main"], "lost_fence")
    BY <1>4, GotoAt DEF LostRead, MovesOn, LaunchSteps, BeforeGate, GatedSteps
  <2>2. grip[s] = "lost" \/ Over'
    BY <1>1, <1>2, <2>1, OverGoes DEF LostRead, Knows, KnowsLost
  <2>3. attempt.execution # "pending"
    BY <1>1, <1>2 DEF Knows, KnowsCancel, PastRunning
  <2>4. KnowsRecord(s, "main")'
    BY <1>1, ReadKnows
  <2>5. Knows(s, "main")'
    BY <1>1, <1>4, <2>1, <2>2, <2>3, <2>4
    DEF Knows, KnowsLaunch, BeforeGate, GatedSteps, KnowsCancel, CancelSteps, KnowsDone, DoneSteps, KnowsLost
  <2> QED
    BY <1>4, <2>1, <2>5, ThreadGoes DEF LostRead
<1> QED
  BY <1>3, <1>4

LEMMA LostFenceFate ==
    ASSUME TypeInv, SafeInv, FateInv, NEW s \in Supervisor, NEW t \in Thread, LostFence(s, t)
    PROVE  FateInv'
<1> USE DEF record, process
<1>1. Knows(s, t) /\ UNCHANGED <<attempt, seen>> /\ pc[s][t] = "lost_fence"
  BY DEF LostFence, FateInv, KnowsInv
<1>2. CASE FencePasses(s) /\ Goto(s, t, "lost_commit")
  <2>1. pc'[s][t] = "lost_commit" /\ MovesOn(pc[s]["main"], "lost_commit")
    BY <1>2, GotoAt DEF MovesOn, LaunchSteps, BeforeGate, GatedSteps
  <2>2. seen[s][t].execution = "launching" \/ Over'
    BY <1>1, <1>2, <2>1, FenceGrip, OverGoes DEF LostFence, Knows, KnowsLost
  <2>3. KnowsRecord(s, t)'
    BY <1>1, ReadKnows DEF Knows
  <2>4. Knows(s, t)'
    BY <1>1, <2>1, <2>2, <2>3
    DEF Knows, KnowsLaunch, BeforeGate, GatedSteps, KnowsCancel, CancelSteps, KnowsDone, DoneSteps, KnowsLost
  <2> QED
    BY <1>2, <2>1, <2>4, FenceGrip, ThreadGoes DEF LostFence
<1>3. CASE FenceFails(s) /\ Goto(s, t, Return(s, t))
  BY <1>3, FenceGrip, ReturnFree, FreeGoes DEF LostFence, MovesOn
<1> QED
  BY <1>2, <1>3 DEF LostFence, Fence

LEMMA ReconcileReadFate ==
    ASSUME TypeInv, SafeInv, FateInv, NEW s \in Supervisor, ReconcileRead(s)
    PROVE  FateInv'
<1> USE DEF record, process, lease, Thread, MovesOn, LaunchSteps, BeforeGate, GatedSteps
<1>1. seen'[s]["main"] = attempt /\ UNCHANGED attempt
  BY DEF ReconcileRead, TypeInv, ThreadsInv, ThreadsOK
<1>2. KnowsRecord(s, "main")'
  BY <1>1, ReadKnows
<1>3. CASE attempt.execution \notin ActiveStates
  BY <1>3, FreeGoes DEF ReconcileRead, FreeSteps
<1>4. CASE attempt.execution = "launching"
  <2>1. Goto(s, "main", "lost_fence") /\ pc'[s]["main"] = "lost_fence"
    BY <1>4, GotoAt DEF ReconcileRead, ActiveStates
  <2>2. Knows(s, "main")'
    BY <1>1, <1>2, <1>4, <2>1
    DEF Knows, KnowsLaunch, KnowsCancel, CancelSteps, KnowsDone, DoneSteps, KnowsLost
  <2> QED
    BY <2>1, <2>2, ThreadGoes DEF ReconcileRead
<1>5. CASE attempt.execution \in LiveStatuses
  <2>1. Goto(s, "main", "reconcile_verify") /\ pc'[s]["main"] = "reconcile_verify"
    BY <1>5, GotoAt DEF ReconcileRead, ActiveStates, LiveStatuses
  <2>2. Knows(s, "main")'
    BY <1>1, <1>2, <1>5, <2>1
    DEF Knows, KnowsLaunch, KnowsCancel, CancelSteps, KnowsDone, DoneSteps, KnowsLost
  <2> QED
    BY <2>1, <2>2, ThreadGoes DEF ReconcileRead
<1> QED
  BY <1>3, <1>4, <1>5 DEF ActiveStates, LiveStatuses

LEMMA ReconcileVerifyFate ==
    ASSUME TypeInv, SafeInv, FateInv, NEW s \in Supervisor, ReconcileVerify(s)
    PROVE  FateInv'
<1> USE DEF record, process, lease, Thread
<1>1. CASE Verified(seen[s]["main"])
  <2>1. /\ pc'[s]["main"] = "serve" /\ pc'[s]["monitor"] = "loop_fence"
        /\ \A q \in Supervisor : q # s => pc'[q] = pc[q]
        /\ UNCHANGED <<attempt, meta, shim, target, gate, code, seen, grip>>
    BY <1>1 DEF ReconcileVerify, Verified, Goto, TypeInv, ThreadsInv, ThreadsOK
  <2>2. ASSUME NEW t \in Thread PROVE Knows(s, t)'
    BY <2>1, ReadKnows, FreeKnows DEF FreeSteps, FateInv, KnowsInv, Knows
  <2> QED
    BY <2>1, <2>2, ThreadsMove DEF FateInv, MovesOn, LaunchSteps, BeforeGate, GatedSteps
<1>2. CASE ~Verified(seen[s]["main"])
  BY <1>2, LosesFate DEF ReconcileVerify
<1> QED
  BY <1>1, <1>2

LEMMA LoopFate ==
    ASSUME TypeInv, SafeInv, FateInv, NEW s \in Supervisor,
           LoopFence(s) \/ LoopRead(s) \/ LoopVerify(s)
    PROVE  FateInv'
<1> USE DEF record, process, lease, Thread
<1>1. CASE LoopFence(s)
  BY <1>1, FenceGrip, FreeGoes DEF LoopFence, Fence, FreeSteps
<1>2. CASE LoopRead(s)
  <2>1. CASE attempt.execution \in LiveStatuses
    <3>1. Goto(s, "monitor", "loop_verify") /\ pc'[s]["monitor"] = "loop_verify"
          /\ seen'[s]["monitor"] = attempt
      BY <1>2, <2>1, GotoAt DEF LoopRead, TypeInv, ThreadsInv, ThreadsOK
    <3>2. KnowsRecord(s, "monitor")'
      BY <1>2, <3>1, ReadKnows DEF LoopRead
    <3>3. Knows(s, "monitor")'
      BY <1>2, <2>1, <3>1, <3>2
      DEF LoopRead, Knows, KnowsLaunch, BeforeGate, GatedSteps, KnowsCancel, CancelSteps, KnowsDone, DoneSteps,
          KnowsLost
    <3> QED
      BY <1>2, <3>1, <3>3, ThreadGoes DEF LoopRead
  <2>2. CASE attempt.execution \notin LiveStatuses
    BY <1>2, <2>2, FreeGoes DEF LoopRead, FreeSteps
  <2> QED
    BY <2>1, <2>2
<1>3. CASE LoopVerify(s)
  <2>1. CASE Verified(seen[s]["monitor"])
    BY <1>3, <2>1, FreeGoes DEF LoopVerify, FreeSteps
  <2>2. CASE ~Verified(seen[s]["monitor"])
    BY <1>3, <2>2, LosesFate DEF LoopVerify
  <2> QED
    BY <2>1, <2>2
<1> QED
  BY <1>1, <1>2, <1>3

(***************************************************************************)
(* The other moves of a thread.                                            *)
(***************************************************************************)
LEMMA OtherMovesFate ==
    ASSUME TypeInv, SafeInv, FateInv, NEW s \in Supervisor,
           \/ WaitEnds(s) \/ WaitInterrupted(s) \/ StopServing(s) \/ Interrupt(s) \/ Close(s)
           \/ \E c \in Commands[s] : BeginCommand(s, c)
    PROVE  FateInv'
<1> USE DEF record, process, lease, Thread, FreeSteps, MovesOn, LaunchSteps, BeforeGate, GatedSteps
<1>1. CASE WaitEnds(s)
  BY <1>1, FenceGrip, FreeGoes DEF WaitEnds
<1>2. CASE WaitInterrupted(s)
  BY <1>2, FreeGoes DEF WaitInterrupted
<1>3. CASE StopServing(s)
  BY <1>3, FreeGoes DEF StopServing
<1>4. CASE Interrupt(s)
  BY <1>4, FreeGoes DEF Interrupt
<1>5. CASE Close(s)
  <2>1. \A q \in Supervisor : grip[q] = "lost" => grip'[q] = "lost"
    BY <1>5 DEF Close, TypeInv, LeaseOK
  <2> QED
    BY <1>5, <2>1, FreeGoes DEF Close
<1>6. CASE \E c \in Commands[s] : BeginCommand(s, c)
  BY <1>6, FreeGoes DEF BeginCommand
<1> QED
  BY <1>1, <1>2, <1>3, <1>4, <1>5, <1>6

(***************************************************************************)
(* The metadata.                                                           *)
(***************************************************************************)

\* A final status is written only as the record's verdict or by a dead launch.
LEMMA MetaUpdated ==
    ASSUME TypeInv, FateInv, UNCHANGED <<attempt, shim, target, gate, code, grip>>,
           NEW s \in Supervisor, NEW t \in Thread, NEW step, Goto(s, t, step),
           t = "main" => step \notin LaunchSteps,
           NEW status \in {"cancel_requested"} \cup TerminalStates, UpdateMetadata(status),
           status \in TerminalStates =>
               \/ status = attempt.execution
               \/ status = "failed" /\ (meta.proof # None => Dead(meta.proof))
    PROVE  MetaInv'
<1> USE DEF Thread
<1>0. MetaInv /\ LauncherInv
  BY DEF FateInv
<1>1. /\ meta'.proof = meta.proof
      /\ meta'.status = meta.status \/ (meta.status # "none" /\ meta'.status = status)
      /\ meta' = meta \/ meta'.status = status
  BY DEF UpdateMetadata, TypeInv, RecordOK, Metadata
<1>2. pc'[s][t] = step
      /\ \A q \in Supervisor, u \in Thread : q # s \/ u # t => pc'[q][u] = pc[q][u]
  BY GotoAt
<1>3. \A q \in Supervisor : pc'[q]["main"] \in BeforeGate => pc[q]["main"] = pc'[q]["main"]
  BY <1>2 DEF LaunchSteps
<1>4. meta'.status \in TerminalStates =>
        meta'.status = attempt'.execution \/ (meta'.status = "failed" /\ Dead(meta.proof)')
  <2>1. \A p \in Supervisor : Dead(p) => Dead(p)'
    BY <1>3 DEF Dead
  <2>2. meta'.status \in TerminalStates => meta.status # "none"
    BY <1>1 DEF TerminalStates
  <2>3. meta.status # "none" => meta.proof \in Supervisor /\ meta.proof # None
    BY <1>0, ProofType DEF MetaInv
  <2>4. meta'.status \in TerminalStates =>
          meta'.status = attempt.execution \/ (meta'.status = "failed" /\ Dead(meta.proof))
    BY <1>0, <1>1, <2>2, <2>3 DEF MetaInv
  <2>5. meta.proof \in Supervisor /\ Dead(meta.proof) => Dead(meta.proof)'
    BY <1>1, <2>1 DEF Dead
  <2> QED
    BY <2>2, <2>3, <2>4, <2>5
<1>5. meta'.status = "none" <=> meta.status = "none"
  BY <1>1 DEF TerminalStates
<1>6. meta'.status \in {"none", "running", "cancel_requested"} \cup TerminalStates
  BY <1>0, <1>1 DEF MetaInv
<1> QED
  BY <1>0, <1>1, <1>3, <1>4, <1>5, <1>6 DEF MetaInv, BeforeGate, GatedSteps

LEMMA MetaGoes ==
    ASSUME TypeInv, SafeInv, FateInv, UNCHANGED <<attempt, shim, target, gate, code, seen, grip>>,
           NEW s \in Supervisor, NEW t \in Thread, NEW step \in FreeSteps \ LaunchSteps,
           Goto(s, t, step), MetaInv'
    PROVE  FateInv'
<1>1. pc'[s][t] = step
  BY GotoAt
<1>2. KnowsRecord(s, t)'
  BY ReadKnows DEF FateInv, KnowsInv, Knows
<1>3. Knows(s, t)'
  BY <1>1, <1>2, FreeKnows
<1> QED
  BY <1>3, ThreadMoves DEF FateInv, MovesOn

LEMMA MetadataFate ==
    ASSUME TypeInv, SafeInv, FateInv, NEW s \in Supervisor, NEW t \in Thread,
           (t = "main" /\ FailMeta(s)) \/ DoneMeta(s, t) \/ LostMeta(s, t)
    PROVE  FateInv'
<1> USE DEF process, lease, FreeSteps, LaunchSteps, BeforeGate, GatedSteps, Thread
<1>1. CASE t = "main" /\ FailMeta(s)
  <2>1. meta.proof # None => Dead(meta.proof)
    <3>1. Launcher(s) /\ Dead(s)
      BY <1>1 DEF FailMeta, FateInv, ShimInv, ShimState, Launcher, Dead
    <3>2. meta.proof # None => meta.proof \in Supervisor /\ Launcher(meta.proof)
      BY ProofType DEF FateInv, MetaInv, Launcher
    <3> QED
      BY <3>1, <3>2 DEF FateInv, LauncherInv
  <2> QED
    BY <1>1, <2>1, MetaUpdated, MetaGoes DEF FailMeta, TerminalStates
<1>2. CASE DoneMeta(s, t)
  <2>1. seen[s][t].execution = attempt.execution /\ attempt.execution \in TerminalStates
    BY <1>2 DEF DoneMeta, FateInv, KnowsInv, Knows, KnowsDone, DoneSteps, Finished
  <2> QED
    BY <1>2, <2>1, ReturnFree, MetaUpdated, MetaGoes DEF DoneMeta
<1>3. CASE LostMeta(s, t)
  <2>1. attempt.execution = "lost"
    BY <1>3 DEF LostMeta, FateInv, KnowsInv, Knows, KnowsLost
  <2> QED
    BY <1>3, <2>1, ReturnFree, MetaUpdated, MetaGoes DEF LostMeta, TerminalStates
<1> QED
  BY <1>1, <1>2, <1>3

LEMMA CancelMetaFate ==
    ASSUME TypeInv, SafeInv, FateInv, NEW s \in Supervisor, CancelMeta(s)
    PROVE  FateInv'
<1> USE DEF process, lease, Thread
<1>1. MetaInv'
  BY MetaUpdated DEF CancelMeta, TerminalStates, LaunchSteps, BeforeGate, GatedSteps
<1>2. Goto(s, "main", "cancel_fence") /\ pc'[s]["main"] = "cancel_fence"
      /\ UNCHANGED <<attempt, shim, target, gate, code, seen, grip>> /\ pc[s]["main"] = "cancel_meta"
  BY GotoAt DEF CancelMeta
<1>3. KnowsRecord(s, "main")'
  BY <1>2, ReadKnows DEF FateInv, KnowsInv, Knows
<1>4. Knows(s, "main")'
  BY <1>2, <1>3
  DEF FateInv, KnowsInv, Knows, KnowsLaunch, BeforeGate, GatedSteps, KnowsCancel, CancelSteps, KnowsDone,
      DoneSteps, KnowsLost
<1> QED
  BY <1>1, <1>2, <1>4, ThreadMoves DEF FateInv, MovesOn, LaunchSteps, BeforeGate, GatedSteps

LEMMA RunningFate ==
    ASSUME TypeInv, SafeInv, FateInv, NEW s \in Supervisor, FenceRunning(s) \/ WriteMetadata(s)
    PROVE  FateInv'
<1> USE DEF record, process, lease, Thread, BeforeGate, GatedSteps
<1>0. Knows(s, "main")
  BY DEF FateInv, KnowsInv
<1>1. CASE FenceRunning(s)
  <2>1. CASE FencePasses(s) /\ Goto(s, "main", "write_metadata")
    <3>1. pc'[s]["main"] = "write_metadata" /\ seen'[s]["main"] = seen[s]["main"]
          /\ UNCHANGED attempt /\ pc[s]["main"] = "fence_running"
      BY <1>1, <2>1, GotoAt DEF FenceRunning
    <3>2. KnowsRecord(s, "main")'
      BY <1>0, <3>1, ReadKnows DEF Knows
    <3>3. Knows(s, "main")'
      BY <1>0, <3>1, <3>2
      DEF Knows, KnowsLaunch, KnowsCancel, CancelSteps, KnowsDone, DoneSteps, KnowsLost
    <3> QED
      BY <1>1, <2>1, <3>3, FenceGrip, ThreadGoes DEF FenceRunning, MovesOn
  <2>2. CASE FenceFails(s) /\ Goto(s, "main", "abort")
    BY <1>1, <2>2, FenceGrip, FreeGoes DEF FenceRunning, MovesOn, LaunchSteps, FreeSteps
  <2> QED
    BY <1>1, <2>1, <2>2 DEF FenceRunning, Fence
<1>2. CASE WriteMetadata(s)
  <2>1. /\ Goto(s, "main", "commit_running") /\ pc'[s]["main"] = "commit_running"
        /\ seen'[s]["main"] = seen[s]["main"] /\ pc[s]["main"] = "write_metadata"
        /\ UNCHANGED <<attempt, shim, target, gate, code, seen, grip>>
    BY <1>2, GotoAt DEF WriteMetadata
  <2>2. KnowsRecord(s, "main")'
    BY <1>0, <2>1, ReadKnows DEF Knows
  <2>3. Knows(s, "main")'
    BY <1>0, <2>1, <2>2
    DEF Knows, KnowsLaunch, KnowsCancel, CancelSteps, KnowsDone, DoneSteps, KnowsLost
  <2>4. MetaInv'
    <3>1. meta' = [status |-> "running", proof |-> s]
      BY <1>2, <2>1 DEF WriteMetadata, Preserved, TerminalStates, FateInv, MetaInv
    <3>2. shim[s] # "none" /\ Launcher(s)
      BY <2>1 DEF FateInv, ShimInv, ShimState, Launcher
    <3>3. \A q \in Supervisor : pc'[q]["main"] \in BeforeGate => q = s
      BY <2>1, <3>2, GotoAt DEF FateInv, LauncherInv, Launcher, LaunchSteps
    <3> QED
      BY <2>1, <3>1, <3>2, <3>3, ProofType DEF MetaInv, TerminalStates
  <2> QED
    BY <2>1, <2>3, <2>4, ThreadMoves DEF FateInv, WritesProof
<1> QED
  BY <1>1, <1>2

(***************************************************************************)
(* The shims and their agents.                                             *)
(***************************************************************************)
MetaSteps == {"spawn", "fence_running", "write_metadata"}

LEMMA ProcessesMove ==
    ASSUME TypeInv, FateInv, Forward, UNCHANGED <<attempt, meta>>, ShimInv',
           \A p \in Supervisor :
             /\ Launcher(p)' => Launcher(p)
             /\ Armed(p)' /\ shim'[p] # "exited" => Armed(p) /\ shim[p] # "exited"
             /\ shim[p] = "exited" /\ target[p] = "exited" =>
                  target'[p] = "exited" /\ code'[p] = code[p]
             /\ pc'[p]["main"] = "commit_running" => pc[p]["main"] = "commit_running"
             /\ pc'[p]["main"] \in MetaSteps => pc[p]["main"] \in MetaSteps
             /\ \A t \in Thread : Knows(p, t)'
    PROVE  FateInv'
<1>1. LauncherInv'
  BY ProofType DEF FateInv, LauncherInv, Forward
<1>2. MetaInv'
  <2>1. meta.proof # None => meta.proof \in Supervisor /\ shim[meta.proof] # "none"
    BY ProofType DEF FateInv, MetaInv
  <2>2. meta.proof # None => shim'[meta.proof] # "none" /\ (Dead(meta.proof) => Dead(meta.proof)')
    BY <2>1 DEF Forward, Dead
  <2>3. meta.status \in TerminalStates => meta.proof # None
    BY DEF FateInv, MetaInv, TerminalStates
  <2> QED
    BY <2>2, <2>3 DEF FateInv, MetaInv, MetaSteps
<1>3. LiveInv'
  BY DEF FateInv, LiveInv
<1>4. VerdictInv'
  <2>1. ProcessGone => ProcessGone'
    BY GoneStays
  <2>2. attempt.proof # None => attempt.proof \in Supervisor
    BY ProofType
  <2> QED
    BY <2>1, <2>2 DEF FateInv, VerdictInv, ProcessGone
<1>5. KnowsInv'
  BY DEF FateInv, KnowsInv
<1> QED
  BY <1>1, <1>2, <1>3, <1>4, <1>5 DEF FateInv

\* What happens to a shim and its agent while no supervisor moves.
LEMMA ShimFate ==
    ASSUME TypeInv, SafeInv, FateInv, NEW s \in Supervisor,
           ShimStep(s) \/ ShimKilled(s) \/ \E status \in {"zero", "nonzero"} : TargetExit(s, status)
    PROVE  FateInv'
<1>1. UNCHANGED <<attempt, meta, grip, pc, seen, gate>>
  BY DEF ShimStep, ShimEof, ShimExec, ShimReap, ShimKilled, TargetExit, record, lease, threads
<1>2. \A q \in Supervisor : q # s => shim'[q] = shim[q] /\ target'[q] = target[q] /\ code'[q] = code[q]
  BY DEF ShimStep, ShimEof, ShimExec, ShimReap, ShimKilled, TargetExit, TypeInv, ProcessOK
<1>3. /\ shim[s] # "none" \/ (target[s] = "running" /\ UNCHANGED shim)
      /\ shim'[s] # "none" \/ UNCHANGED shim
      /\ shim[s] = "exited" => shim'[s] = "exited"
      /\ target'[s] # "none" => target[s] # "none" \/ gate[s] = "token"
      /\ target[s] = "exited" /\ shim[s] = "exited" => target'[s] = "exited" /\ code'[s] = code[s]
  BY DEF ShimStep, ShimEof, ShimExec, ShimReap, ShimKilled, TargetExit, TypeInv, ProcessOK, LiveShim
<1>4. ShimState(s)
  BY DEF FateInv, ShimInv
<1>5. ShimState(s)'
  <2>1. CASE ShimEof(s) \/ ShimReap(s) \/ ShimKilled(s)
    BY <1>1, <1>4, <2>1
    DEF ShimState, ShimEof, ShimReap, ShimKilled, TypeInv, ProcessOK, LiveShim, BeforeGate, GatedSteps
  <2>2. CASE ShimExec(s)
    BY <1>1, <1>4, <2>2 DEF ShimState, ShimExec, TypeInv, ProcessOK, BeforeGate, GatedSteps
  <2>3. CASE \E status \in {"zero", "nonzero"} : TargetExit(s, status)
    <3>1. PICK status \in {"zero", "nonzero"} : TargetExit(s, status)
      BY <2>3
    <3>2. target[s] = "running" /\ shim[s] \in {"running", "exited"}
      BY <1>4, <3>1 DEF ShimState, TargetExit, TypeInv, ProcessOK, LiveShim
    <3>3. /\ target'[s] = "exited" /\ shim'[s] = shim[s]
          /\ shim[s] = "running" => code'[s] = status
          /\ shim[s] = "exited" => code'[s] = code[s]
      BY <3>1 DEF TargetExit, TypeInv, ProcessOK
    <3> QED
      BY <1>1, <1>4, <3>2, <3>3 DEF ShimState
  <2> QED
    BY <2>1, <2>2, <2>3 DEF ShimStep
<1>6. ShimInv'
  <2> SUFFICES ASSUME NEW q \in Supervisor PROVE ShimState(q)'
    BY DEF ShimInv
  <2>1. ShimState(q)
    BY DEF FateInv, ShimInv
  <2> QED
    BY <1>1, <1>2, <1>5, <2>1 DEF ShimState
<1>7. Forward
  <2>1. ASSUME NEW q \in Supervisor, shim[q] # "none" PROVE shim'[q] # "none"
    BY <1>2, <1>3, <2>1
  <2>2. ASSUME NEW q \in Supervisor, Dead(q) PROVE Dead(q)'
    BY <1>1, <1>2, <1>3, <2>2 DEF Dead
  <2> QED
    BY <1>1, <1>2, <1>3, <2>1, <2>2 DEF Forward, RecordMoves
<1>8. ASSUME NEW p \in Supervisor, NEW t \in Thread PROVE Knows(p, t)'
  BY <1>1, <1>7, KnowsStays DEF FateInv, KnowsInv
<1>9. ASSUME NEW p \in Supervisor
      PROVE  /\ Launcher(p)' => Launcher(p)
             /\ Armed(p)' /\ shim'[p] # "exited" => Armed(p) /\ shim[p] # "exited"
  BY <1>1, <1>2, <1>3, <1>4 DEF Launcher, Armed, ShimState
<1> QED
  BY <1>1, <1>2, <1>3, <1>6, <1>7, <1>8, <1>9, ProcessesMove

LEMMA SpawnFate ==
    ASSUME TypeInv, SafeInv, FateInv, NEW s \in Supervisor, Spawn(s)
    PROVE  FateInv'
<1> USE DEF Thread
<1>1. CASE Goto(s, "main", "fail_fence") /\ UNCHANGED <<shim, gate>>
  BY <1>1, FreeGoes DEF Spawn, lease, FreeSteps, MovesOn, LaunchSteps, BeforeGate, GatedSteps
<1>2. CASE ~(Goto(s, "main", "fail_fence") /\ UNCHANGED <<shim, gate>>)
  <2>1. PICK step \in {"fence_running", "abort"} : Goto(s, "main", step)
    BY <1>2 DEF Spawn
  <2>2. /\ UNCHANGED <<attempt, meta, grip, target, code, seen>>
        /\ shim' = [shim EXCEPT ![s] = "gated"] /\ gate' = [gate EXCEPT ![s] = "held"]
        /\ pc[s]["main"] = "spawn"
    BY <1>2 DEF Spawn, lease
  <2>3. /\ pc'[s]["main"] = step
        /\ \A q \in Supervisor, u \in Thread : q # s \/ u # "main" => pc'[q][u] = pc[q][u]
    BY <2>1, GotoAt
  <2>4. /\ shim'[s] = "gated" /\ gate'[s] = "held"
        /\ \A q \in Supervisor : q # s => shim'[q] = shim[q] /\ gate'[q] = gate[q]
    BY <2>2 DEF TypeInv, ProcessOK
  <2>5. shim[s] = "none" /\ ShimState(s)
    BY <2>2 DEF FateInv, ShimInv, ShimState
  <2>6. ShimInv'
    <3> SUFFICES ASSUME NEW q \in Supervisor PROVE ShimState(q)'
      BY DEF ShimInv
    <3>1. ShimState(q)
      BY DEF FateInv, ShimInv
    <3> QED
      BY <2>2, <2>3, <2>4, <2>5, <3>1 DEF ShimState, LaunchSteps, BeforeGate, GatedSteps
  <2>7. Forward
    BY <2>2, <2>3, <2>4, <2>5 DEF Forward, RecordMoves, Dead
  <2>8. ASSUME NEW p \in Supervisor, NEW t \in Thread PROVE Knows(p, t)'
    <3>0. Knows(p, t)
      BY DEF FateInv, KnowsInv
    <3>1. CASE p # s \/ t # "main"
      BY <2>2, <2>3, <2>7, <3>0, <3>1, KnowsStays DEF FateInv
    <3>2. CASE p = s /\ t = "main"
      <4>1. KnowsRecord(p, t)'
        BY <2>2, <3>0, ReadKnows DEF Knows
      <4>2. pc'[p][t] \in {"fence_running", "abort"} /\ pc[p][t] = "spawn"
            /\ seen'[p][t] = seen[p][t]
        BY <2>2, <2>3, <3>2
      <4> QED
        BY <3>0, <4>1, <4>2
        DEF Knows, KnowsLaunch, BeforeGate, GatedSteps, KnowsCancel, CancelSteps, KnowsDone, DoneSteps, KnowsLost
    <3> QED
      BY <3>1, <3>2
  <2>9. ASSUME NEW p \in Supervisor
        PROVE  /\ Launcher(p)' => Launcher(p)
               /\ Armed(p)' /\ shim'[p] # "exited" => Armed(p) /\ shim[p] # "exited"
    BY <2>1, <2>2, <2>3, <2>4, <2>5 DEF Launcher, Armed, LaunchSteps, BeforeGate, GatedSteps
  <2>10. ASSUME NEW p \in Supervisor
         PROVE  /\ pc'[p]["main"] = "commit_running" => pc[p]["main"] = "commit_running"
                /\ pc'[p]["main"] \in MetaSteps => pc[p]["main"] \in MetaSteps
                /\ shim[p] = "exited" => shim'[p] = "exited"
    BY <2>2, <2>3, <2>4, <2>5 DEF MetaSteps
  <2> QED
    BY <2>2, <2>6, <2>7, <2>8, <2>9, <2>10, ProcessesMove
<1> QED
  BY <1>1, <1>2

\* A command acts on a child: it opens or closes a gate, or ends a process.
LEMMA MainActs ==
    ASSUME TypeInv, FateInv, UNCHANGED <<attempt, meta, seen>>, ShimInv',
           NEW s \in Supervisor, NEW step, Goto(s, "main", step), step \notin BeforeGate,
           step \in LaunchSteps => pc[s]["main"] \in LaunchSteps,
           \A p \in Supervisor :
             /\ grip[p] = "lost" => grip'[p] = "lost"
             /\ shim'[p] = "none" <=> shim[p] = "none"
             /\ shim[p] = "exited" => shim'[p] = "exited"
             /\ gate'[p] = "token" => gate[p] = "token" \/ (p = s /\ pc[s]["main"] = "write_gate")
             /\ target'[p] # "none" => target[p] # "none"
             /\ shim[p] = "exited" /\ target[p] = "exited" =>
                  target'[p] = "exited" /\ code'[p] = code[p],
           Forward => Knows(s, "main")'
    PROVE  FateInv'
<1> USE DEF Thread
<1>1. /\ pc'[s]["main"] = step
      /\ \A q \in Supervisor, u \in Thread : q # s \/ u # "main" => pc'[q][u] = pc[q][u]
  BY GotoAt
<1>2. Forward
  BY <1>1 DEF Forward, RecordMoves, Dead, BeforeGate, GatedSteps
<1>3. ASSUME NEW p \in Supervisor, NEW t \in Thread PROVE Knows(p, t)'
  BY <1>1, <1>2, <1>3, KnowsStays DEF FateInv, KnowsInv
<1>4. ASSUME NEW p \in Supervisor
      PROVE  /\ Launcher(p)' => Launcher(p)
             /\ Armed(p)' /\ shim'[p] # "exited" => Armed(p) /\ shim[p] # "exited"
  BY <1>1 DEF Launcher, Armed, BeforeGate, GatedSteps
<1>5. ASSUME NEW p \in Supervisor
      PROVE  /\ pc'[p]["main"] = "commit_running" => pc[p]["main"] = "commit_running"
             /\ pc'[p]["main"] \in MetaSteps => pc[p]["main"] \in MetaSteps
  BY <1>1 DEF MetaSteps, BeforeGate, GatedSteps
<1> QED
  BY <1>2, <1>3, <1>4, <1>5, ProcessesMove

LEMMA WriteGateFate ==
    ASSUME TypeInv, SafeInv, FateInv, NEW s \in Supervisor, WriteGate(s)
    PROVE  FateInv'
<1> USE DEF record, Thread
<1>0. /\ UNCHANGED <<attempt, meta, seen, shim, target, code>> /\ pc[s]["main"] = "write_gate"
      /\ \A q \in Supervisor : grip[q] = "lost" => grip'[q] = "lost"
  BY FenceGrip DEF WriteGate, lease
<1>1. CASE Goto(s, "main", "abort") /\ UNCHANGED gate
  BY <1>0, <1>1, FreeGoes DEF FreeSteps, MovesOn, LaunchSteps, BeforeGate, GatedSteps
<1>2. CASE gate' = [gate EXCEPT ![s] = "token"] /\ shim[s] = "gated" /\ Goto(s, "main", "wait")
  <2>1. /\ gate'[s] = "token" /\ \A q \in Supervisor : q # s => gate'[q] = gate[q]
        /\ pc'[s]["main"] = "wait" /\ \A q \in Supervisor : q # s => pc'[q]["main"] = pc[q]["main"]
    BY <1>2, GotoAt DEF TypeInv, ProcessOK
  <2>2. ShimInv'
    <3> SUFFICES ASSUME NEW q \in Supervisor PROVE ShimState(q)'
      BY DEF ShimInv
    <3>1. ShimState(q)
      BY DEF FateInv, ShimInv
    <3> QED
      BY <1>0, <1>2, <2>1, <3>1 DEF ShimState, LaunchSteps, BeforeGate, GatedSteps
  <2>3. Knows(s, "main")'
    BY <1>0, <2>1, FreeKnows, ReadKnows DEF FreeSteps, FateInv, KnowsInv, Knows
  <2> QED
    BY <1>0, <1>2, <2>1, <2>2, <2>3, MainActs DEF LaunchSteps, BeforeGate, GatedSteps
<1> QED
  BY <1>1, <1>2 DEF WriteGate

LEMMA AbortLaunchFate ==
    ASSUME TypeInv, SafeInv, FateInv, NEW s \in Supervisor, AbortLaunch(s)
    PROVE  FateInv'
<1> USE DEF record, lease, Thread
<1>1. /\ UNCHANGED <<attempt, meta, seen, target, grip>> /\ pc[s]["main"] = "abort"
      /\ Goto(s, "main", "fail_fence")
  BY DEF AbortLaunch
<1>2. /\ gate'[s] = "closed" /\ \A q \in Supervisor : q # s => gate'[q] = gate[q]
      /\ \A q \in Supervisor : q # s => shim'[q] = shim[q] /\ code'[q] = code[q]
      /\ \/ shim'[s] = shim[s] /\ code'[s] = code[s]
         \/ shim[s] \in LiveShim /\ shim'[s] = "exited" /\ code'[s] = "nonzero"
  BY DEF AbortLaunch, TypeInv, ProcessOK
<1>3. pc'[s]["main"] = "fail_fence" /\ \A q \in Supervisor : q # s => pc'[q]["main"] = pc[q]["main"]
  BY <1>1, GotoAt
<1>4. shim[s] # "none"
  BY <1>1 DEF FateInv, ShimInv, ShimState, GatedSteps
<1>5. ShimInv'
  <2> SUFFICES ASSUME NEW q \in Supervisor PROVE ShimState(q)'
    BY DEF ShimInv
  <2>1. ShimState(q)
    BY DEF FateInv, ShimInv
  <2> QED
    BY <1>1, <1>2, <1>3, <1>4, <2>1 DEF ShimState, LaunchSteps, BeforeGate, GatedSteps, LiveShim
<1>6. Knows(s, "main")'
  BY <1>1, <1>3, FreeKnows, ReadKnows DEF FreeSteps, FateInv, KnowsInv, Knows
<1>7. \A p \in Supervisor :
        /\ shim'[p] = "none" <=> shim[p] = "none"
        /\ shim[p] = "exited" => shim'[p] = "exited"
        /\ shim[p] = "exited" /\ target[p] = "exited" => target'[p] = "exited" /\ code'[p] = code[p]
  BY <1>1, <1>2, <1>4 DEF LiveShim
<1> QED
  BY <1>1, <1>2, <1>5, <1>6, <1>7, MainActs DEF LaunchSteps, BeforeGate, GatedSteps

LEMMA SigkillFate ==
    ASSUME TypeInv, SafeInv, FateInv, NEW s \in Supervisor, Sigkill(s)
    PROVE  FateInv'
<1> USE DEF record, lease, Thread, CancelSteps
<1> DEFINE q == seen[s]["main"].proof
<1>1. /\ UNCHANGED <<attempt, meta, seen, gate, grip>> /\ pc[s]["main"] = "sigkill"
      /\ Knows(s, "main")
  BY DEF Sigkill, FateInv, KnowsInv
<1>2. q # None /\ PastRunning(attempt.execution)
  BY <1>1 DEF Knows, KnowsCancel
<1>3. /\ attempt.proof = q /\ q \in Supervisor /\ shim[q] # "none"
      /\ shim[q] \notin LiveShim => ProcessGone
  BY <1>2, SeenGone
<1>4. CASE Goto(s, "main", "lost_read") /\ ~GroupPresent(q) /\ UNCHANGED <<shim, target, code>>
  BY <1>1, <1>3, <1>4, GoneOver, CancelLoses DEF GroupPresent
<1>5. CASE /\ Goto(s, "main", "reap")
           /\ shim' = [shim EXCEPT ![q] = "exited"]
           /\ target' = [target EXCEPT ![q] = IF @ = "running" THEN "exited" ELSE @]
           /\ code' = [code EXCEPT ![q] = IF shim[q] \in LiveShim THEN "nonzero" ELSE @]
  <2>1. \A p \in Supervisor : p # q => shim'[p] = shim[p] /\ target'[p] = target[p] /\ code'[p] = code[p]
    BY <1>5 DEF TypeInv, ProcessOK
  <2>2. /\ shim'[q] = "exited"
        /\ target'[q] = IF target[q] = "running" THEN "exited" ELSE target[q]
        /\ code'[q] = IF shim[q] \in LiveShim THEN "nonzero" ELSE code[q]
    BY <1>3, <1>5 DEF TypeInv, ProcessOK
  <2>3. pc'[s]["main"] = "reap" /\ \A p \in Supervisor : p # s => pc'[p]["main"] = pc[p]["main"]
    BY <1>5, GotoAt
  <2>4. shim[q] \in LiveShim \/ shim[q] = "exited"
    BY <1>3 DEF TypeInv, ProcessOK
  <2>5. ShimInv'
    <3> SUFFICES ASSUME NEW p \in Supervisor PROVE ShimState(p)'
      BY DEF ShimInv
    <3>1. ShimState(p)
      BY DEF FateInv, ShimInv
    <3>2. pc'[p]["main"] \in LaunchSteps => pc'[p]["main"] = pc[p]["main"]
      BY <2>3 DEF LaunchSteps, BeforeGate, GatedSteps
    <3>3. CASE p # q
      BY <1>1, <2>1, <3>1, <3>2, <3>3 DEF ShimState, LaunchSteps, BeforeGate, GatedSteps
    <3>4. CASE p = q
      <4>1. pc'[p]["main"] # "spawn"
        BY <1>3, <3>1, <3>2, <3>4 DEF ShimState, LaunchSteps, BeforeGate
      <4>2. shim'[p] = "exited" /\ code'[p] # "none" /\ (code'[p] = "zero" => target'[p] = "exited")
        BY <2>2, <2>4, <3>1, <3>4 DEF ShimState
      <4>3. pc'[p]["main"] \in LaunchSteps => target'[p] = "none" /\ gate'[p] # "token"
        BY <1>1, <2>2, <3>1, <3>2, <3>4 DEF ShimState
      <4> QED
        BY <4>1, <4>2, <4>3 DEF ShimState
    <3> QED
      BY <3>3, <3>4
  <2>6. ASSUME Forward PROVE Knows(s, "main")'
    <3>1. ProcessGone'
      BY <1>1, <1>2, <1>3, <2>2 DEF ProcessGone
    <3>2. KnowsRecord(s, "main")'
      BY <1>1, ReadKnows DEF Knows
    <3> QED
      BY <1>1, <1>2, <2>3, <3>1, <3>2
      DEF Knows, KnowsLaunch, BeforeGate, GatedSteps, KnowsCancel, KnowsDone, DoneSteps, KnowsLost
  <2>7. \A p \in Supervisor :
          /\ shim'[p] = "none" <=> shim[p] = "none"
          /\ shim[p] = "exited" => shim'[p] = "exited"
          /\ target'[p] # "none" => target[p] # "none"
          /\ shim[p] = "exited" /\ target[p] = "exited" =>
               target'[p] = "exited" /\ code'[p] = code[p]
    BY <1>3, <2>1, <2>2 DEF LiveShim
  <2> QED
    BY <1>1, <1>5, <2>5, <2>6, <2>7, MainActs DEF LaunchSteps, BeforeGate, GatedSteps
<1> QED
  BY <1>4, <1>5 DEF Sigkill

LEMMA ExitFate ==
    ASSUME TypeInv, SafeInv, FateInv, NEW s \in Supervisor, Exit(s)
    PROVE  FateInv'
<1> USE DEF record, Thread
<1>1. /\ UNCHANGED <<attempt, meta, shim, target, code>>
      /\ \A t \in Thread : pc'[s][t] = "exited" /\ seen'[s][t] = NothingRead
      /\ \A q \in Supervisor : q # s => pc'[q] = pc[q] /\ seen'[q] = seen[q]
  BY DEF Exit, TypeInv, ThreadsInv, ThreadsOK
<1>2. /\ \A q \in Supervisor : grip[q] = "lost" => grip'[q] = "lost"
      /\ \A q \in Supervisor : gate'[q] = "token" => gate[q] = "token"
      /\ \A q \in Supervisor : gate[q] = "none" => gate'[q] = "none"
  BY DEF Exit, TypeInv, LeaseOK, ProcessOK
<1>3. ShimInv'
  <2> SUFFICES ASSUME NEW q \in Supervisor PROVE ShimState(q)'
    BY DEF ShimInv
  <2>1. ShimState(q)
    BY DEF FateInv, ShimInv
  <2>2. pc'[q]["main"] = pc[q]["main"] \/ pc'[q]["main"] = "exited"
    BY <1>1
  <2> QED
    BY <1>1, <1>2, <2>1, <2>2 DEF ShimState, LaunchSteps, BeforeGate, GatedSteps
<1>4. Forward
  BY <1>1, <1>2 DEF Forward, RecordMoves, Dead, BeforeGate
<1>5. ASSUME NEW t \in Thread PROVE Knows(s, t)'
  <2>1. KnowsRecord(s, t)'
    BY <1>1 DEF KnowsRecord, NothingRead, LiveStatuses, FateInv, KnowsInv, TypeInv, RecordOK,
       AttemptRecords
  <2> QED
    BY <1>1, <2>1, FreeKnows DEF FreeSteps
<1>6. ASSUME NEW p \in Supervisor, NEW t \in Thread PROVE Knows(p, t)'
  BY <1>1, <1>4, <1>5, <1>6, KnowsStays DEF FateInv, KnowsInv
<1>7. ASSUME NEW p \in Supervisor
      PROVE  /\ Launcher(p)' => Launcher(p)
             /\ Armed(p)' /\ shim'[p] # "exited" => Armed(p) /\ shim[p] # "exited"
             /\ pc'[p]["main"] = "commit_running" => pc[p]["main"] = "commit_running"
             /\ pc'[p]["main"] \in MetaSteps => pc[p]["main"] \in MetaSteps
  BY <1>1, <1>2 DEF Launcher, Armed, MetaSteps, LaunchSteps, BeforeGate
<1> QED
  BY <1>1, <1>3, <1>4, <1>6, <1>7, ProcessesMove

LEMMA LeaseFate ==
    ASSUME TypeInv, SafeInv, FateInv, GoesStale \/ \E s \in Supervisor : Heartbeat(s)
    PROVE  FateInv'
<1> USE DEF record, process, threads
<1>1. /\ UNCHANGED <<attempt, meta, shim, target, gate, code, pc, seen>>
      /\ \A q \in Supervisor : grip[q] = "lost" => grip'[q] = "lost"
  BY FenceGrip DEF GoesStale, Heartbeat
<1>2. Forward
  BY <1>1 DEF Forward, RecordMoves, Dead
<1>3. ShimInv'
  BY <1>1 DEF FateInv, ShimInv, ShimState
<1>4. ASSUME NEW p \in Supervisor, NEW t \in Thread PROVE Knows(p, t)'
  BY <1>1, <1>2, KnowsStays DEF FateInv, KnowsInv
<1>5. ASSUME NEW p \in Supervisor
      PROVE  (Launcher(p)' => Launcher(p)) /\ (Armed(p)' => Armed(p))
  BY <1>1 DEF Launcher, Armed
<1> QED
  BY <1>1, <1>2, <1>3, <1>4, <1>5, ProcessesMove

(***************************************************************************)
(* The commits.                                                            *)
(***************************************************************************)
LEMMA AcceptedSeen ==
    ASSUME FateInv, NEW s \in Supervisor, NEW t \in Thread, NEW new, Accepts(s, t, new)
    PROVE  seen[s][t] = attempt
  BY DEF FateInv, KnowsInv, Knows, KnowsRecord, Accepts

\* A revision that neither launches nor binds a process.
LEMMA RecordWritten ==
    ASSUME TypeInv, SafeInv, FateInv, RecordMoves,
           UNCHANGED <<meta, shim, target, gate, code, grip>>,
           attempt'.proof = attempt.proof,
           \/ attempt'.execution = attempt.execution
           \/ attempt'.execution \notin {"pending", "launching"},
           \/ attempt'.execution = attempt.execution
           \/ attempt'.execution \in LiveStatuses
           \/ \A p \in Supervisor : ~(Armed(p) /\ shim[p] # "exited"),
           VerdictInv',
           NEW s \in Supervisor, MovesOn(pc[s]["main"], pc'[s]["main"]),
           \A q \in Supervisor, t \in Thread : q # s =>
               pc'[q][t] = pc[q][t] /\ seen'[q][t] = seen[q][t],
           \A t \in Thread : Forward => Knows(s, t)'
    PROVE  FateInv'
<1> USE DEF Thread
<1>0. LauncherInv /\ ShimInv /\ MetaInv /\ LiveInv /\ KnowsInv
  BY DEF FateInv
<1>1. Forward
  BY <1>0, MovesForward
<1>2. \A q \in Supervisor : (Launcher(q)' => Launcher(q)) /\ (Armed(q)' => Armed(q))
  BY DEF Launcher, Armed, MovesOn, LaunchSteps, BeforeGate, GatedSteps
<1>3. LauncherInv'
  BY <1>0, <1>2 DEF LauncherInv
<1>4. ShimInv'
  <2> SUFFICES ASSUME NEW q \in Supervisor PROVE ShimState(q)'
    BY DEF ShimInv
  <2>1. ShimState(q)
    BY <1>0 DEF ShimInv
  <2>2. CASE q = s
    BY <2>1, <2>2 DEF ShimState, MovesOn, LaunchSteps, BeforeGate, GatedSteps
  <2>3. CASE q # s
    BY <2>1, <2>3 DEF ShimState
  <2> QED
    BY <2>2, <2>3
<1>5. LiveInv'
  BY <1>0, <1>2 DEF LiveInv
<1>6. MetaInv'
  <2>1. meta.proof # None => meta.proof \in Supervisor /\ shim[meta.proof] # "none"
    BY <1>0, ProofType DEF MetaInv
  <2>2. meta.proof # None /\ Dead(meta.proof) => Dead(meta.proof)'
    BY <1>1, <2>1 DEF Forward, Dead
  <2>3. meta.status \in TerminalStates /\ meta.status = attempt.execution
          => attempt'.execution = attempt.execution
    BY TerminalStays DEF Finished
  <2>4. meta.status \in TerminalStates => meta.proof # None
    BY <1>0 DEF MetaInv, TerminalStates
  <2>5. \A q \in Supervisor :
          /\ pc'[q]["main"] = "commit_running" => meta.status # "none"
          /\ pc'[q]["main"] \in {"spawn", "fence_running", "write_metadata"} => meta.status = "none"
    BY <1>0 DEF MetaInv, MovesOn, LaunchSteps, BeforeGate, GatedSteps
  <2> QED
    BY <1>0, <2>2, <2>3, <2>4, <2>5 DEF MetaInv
<1>7. KnowsInv'
  <2>1. attempt'.revision >= 1
    BY <1>0, RevisionGrows DEF KnowsInv
  <2>2. ASSUME NEW q \in Supervisor, NEW t \in Thread PROVE Knows(q, t)'
    BY <1>0, <1>1, KnowsStays DEF KnowsInv
  <2> QED
    BY <2>1, <2>2 DEF KnowsInv
<1> QED
  BY <1>3, <1>4, <1>5, <1>6, <1>7 DEF FateInv

\* ... by a thread that works from the record it has seen.
LEMMA ThreadCommits ==
    ASSUME TypeInv, SafeInv, FateInv, RecordMoves,
           UNCHANGED <<meta, shim, target, gate, code, grip>>,
           attempt'.proof = attempt.proof, attempt'.execution \notin {"pending", "launching"},
           \/ attempt'.execution \in LiveStatuses
           \/ \A p \in Supervisor : ~(Armed(p) /\ shim[p] # "exited"),
           VerdictInv',
           NEW s \in Supervisor, NEW t \in Thread, NEW step, Goto(s, t, step),
           t = "main" => MovesOn(pc[s]["main"], step),
           seen' \in {seen, [seen EXCEPT ![s][t] = attempt']},
           Forward => Knows(s, t)'
    PROVE  FateInv'
<1>1. /\ pc'[s][t] = step
      /\ \A q \in Supervisor, u \in Thread : q # s \/ u # t => pc'[q][u] = pc[q][u]
  BY GotoAt
<1>2. \A q \in Supervisor, u \in Thread : q # s \/ u # t => seen'[q][u] = seen[q][u]
  BY DEF TypeInv, ThreadsInv, ThreadsOK
<1>3. MovesOn(pc[s]["main"], pc'[s]["main"])
  BY <1>1 DEF MovesOn, Thread
<1>4. ASSUME NEW u \in Thread, Forward PROVE Knows(s, u)'
  BY <1>1, <1>2, <1>4, KnowsStays DEF FateInv, KnowsInv
<1> QED
  BY <1>1, <1>2, <1>3, <1>4, RecordWritten

LEMMA RecordKnows ==
    ASSUME TypeInv, SafeInv, RecordMoves, FateInv, NEW s \in Supervisor, NEW t \in Thread,
           seen'[s][t] = attempt' \/ seen'[s][t] = seen[s][t]
    PROVE  KnowsRecord(s, t)'
<1>1. CASE seen'[s][t] = attempt'
  BY <1>1, RecordInvStep, RevisionGrows DEF KnowsRecord, SafeInv, RecordInv
<1>2. CASE seen'[s][t] = seen[s][t]
  <2>1. KnowsRecord(s, t)
    BY DEF FateInv, KnowsInv, Knows
  <2> QED
    BY <1>2, <2>1, SeenRecord, RevisionGrows, ProofStays DEF KnowsRecord
<1> QED
  BY <1>1, <1>2

LEMMA FailCommitFate ==
    ASSUME TypeInv, SafeInv, FateInv, RecordMoves, NEW s \in Supervisor, FailCommit(s)
    PROVE  FateInv'
<1> USE DEF process, lease, Thread, FreeSteps, MovesOn, LaunchSteps, BeforeGate
<1>1. CASE ~Accepts(s, "main", Revise("failed"))
  BY <1>1, FreeGoes DEF FailCommit
<1>2. CASE Accepts(s, "main", Revise("failed"))
  <2>1. /\ attempt' = Revise("failed") /\ Goto(s, "main", "fail_meta") /\ pc[s]["main"] = "fail_commit"
        /\ UNCHANGED <<meta, seen, shim, target, gate, code, grip>>
    BY <1>2 DEF FailCommit
  <2>2. attempt'.execution = "failed" /\ attempt'.proof = attempt.proof
    BY <2>1 DEF Revise, TypeInv, RecordOK, AttemptRecords
  <2>3. \A p \in Supervisor : ~Armed(p)
    <3>1. ShimState(s) /\ Launcher(s)
      BY <2>1 DEF FateInv, ShimInv, Launcher
    <3>2. ~Armed(s)
      BY <2>1, <3>1 DEF Armed, ShimState
    <3>3. \A p \in Supervisor : Armed(p) => Launcher(p)
      BY DEF Armed, Launcher, FateInv, ShimInv, ShimState
    <3> QED
      BY <3>1, <3>2, <3>3 DEF FateInv, LauncherInv
  <2>4. VerdictInv'
    BY <2>2 DEF VerdictInv
  <2>5. Knows(s, "main")'
    BY <2>1, GotoAt, RecordKnows, FreeKnows
  <2> QED
    BY <2>1, <2>2, <2>3, <2>4, <2>5, ThreadCommits
<1> QED
  BY <1>1, <1>2

LEMMA CancelCommitFate ==
    ASSUME TypeInv, SafeInv, FateInv, RecordMoves, NEW s \in Supervisor, CancelCommit(s)
    PROVE  FateInv'
<1> USE DEF process, lease, Thread
<1> DEFINE new == Revise("cancel_requested")
<1>1. CASE ~Accepts(s, "main", new)
  BY <1>1, FreeGoes DEF CancelCommit, FreeSteps, MovesOn, LaunchSteps, BeforeGate
<1>2. CASE Accepts(s, "main", new)
  <2>1. /\ attempt' = new /\ Goto(s, "main", "cancel_meta") /\ pc[s]["main"] = "cancel_commit"
        /\ seen' = [seen EXCEPT ![s]["main"] = attempt']
        /\ UNCHANGED <<meta, shim, target, gate, code, grip>>
    BY <1>2 DEF CancelCommit
  <2>2. attempt'.execution = "cancel_requested" /\ attempt'.proof = attempt.proof
    BY <2>1 DEF Revise, TypeInv, RecordOK, AttemptRecords
  <2>3. attempt.proof # None
    BY <1>2, <2>1, AcceptedSeen
    DEF FateInv, KnowsInv, Knows, KnowsCancel, KnowsRecord, LiveStatuses
  <2>4. VerdictInv'
    BY <2>2 DEF VerdictInv
  <2>5. Knows(s, "main")'
    <3>1. pc'[s]["main"] = "cancel_meta" /\ seen'[s]["main"] = attempt'
      BY <2>1, GotoAt DEF TypeInv, ThreadsInv, ThreadsOK
    <3>2. KnowsRecord(s, "main")'
      BY <3>1, RecordKnows
    <3> QED
      BY <2>2, <2>3, <3>1, <3>2
      DEF Knows, KnowsLaunch, BeforeGate, GatedSteps, KnowsCancel, CancelSteps, PastRunning,
          KnowsDone, DoneSteps, KnowsLost
  <2> QED
    BY <2>1, <2>2, <2>4, <2>5, ThreadCommits DEF LiveStatuses, MovesOn, LaunchSteps, BeforeGate
<1> QED
  BY <1>1, <1>2

\* The verdict of a completion is the exit of the process on record.
LEMMA DoneAccepted ==
    ASSUME TypeInv, SafeInv, FateInv, NEW s \in Supervisor, NEW t \in Thread,
           pc[s][t] = "done_commit", Accepts(s, t, Revise(Verdict(s, t)))
    PROVE  /\ seen[s][t] = attempt /\ ProcessGone /\ attempt.execution \in LiveStatuses
           /\ attempt.execution = "cancel_requested" => Verdict(s, t) = "cancelled"
           /\ attempt.execution = "running" =>
                /\ attempt.proof = s
                /\ Verdict(s, t) = IF code[s] = "zero" THEN "succeeded" ELSE "failed"
<1>1. seen[s][t] = attempt
  BY AcceptedSeen
<1>2. /\ ProcessGone /\ attempt.execution \in LiveStatuses
      /\ t = "main" => attempt.execution = "cancel_requested"
      /\ t = "monitor" => attempt.proof = s
  BY <1>1 DEF FateInv, KnowsInv, Knows, KnowsDone, DoneSteps
<1> QED
  BY <1>1, <1>2 DEF Verdict, Thread

LEMMA DoneCommitFate ==
    ASSUME TypeInv, SafeInv, FateInv, RecordMoves, NEW s \in Supervisor, NEW t \in Thread,
           DoneCommit(s, t)
    PROVE  FateInv'
<1> USE DEF process, lease
<1> DEFINE new == Revise(Verdict(s, t))
<1>0. Knows(s, t) /\ pc[s][t] = "done_commit"
  BY DEF DoneCommit, FateInv, KnowsInv
<1>1. CASE ~Accepts(s, t, new)
  <2>1. UNCHANGED <<attempt, meta, shim, target, gate, code, grip, seen>>
    BY <1>1 DEF DoneCommit
  <2>2. CASE Goto(s, t, Return(s, t))
    BY <2>1, <2>2, ReturnFree, FreeGoes DEF MovesOn
  <2>3. CASE Goto(s, t, "done_read")
    <3>1. pc'[s][t] = "done_read" /\ seen'[s][t] = seen[s][t]
      BY <2>1, <2>3, GotoAt
    <3>2. KnowsRecord(s, t)'
      BY <1>0, <2>1, <3>1, ReadKnows DEF Knows
    <3>3. Knows(s, t)'
      BY <1>0, <2>1, <3>1, <3>2
      DEF Knows, KnowsLaunch, BeforeGate, GatedSteps, KnowsCancel, CancelSteps, KnowsDone, DoneSteps,
          KnowsLost, ProcessGone
    <3> QED
      BY <2>1, <2>3, <3>3, ThreadGoes DEF MovesOn, LaunchSteps, BeforeGate
  <2> QED
    BY <1>1, <2>2, <2>3 DEF DoneCommit
<1>2. CASE Accepts(s, t, new)
  <2>1. /\ attempt' = new /\ Goto(s, t, "done_meta") /\ seen' = [seen EXCEPT ![s][t] = attempt']
        /\ UNCHANGED <<meta, shim, target, gate, code, grip>>
    BY <1>2 DEF DoneCommit
  <2>2. attempt'.execution = Verdict(s, t) /\ attempt'.proof = attempt.proof
    BY <2>1 DEF Revise, TypeInv, RecordOK, AttemptRecords
  <2>3. /\ ProcessGone /\ Verdict(s, t) \in TerminalStates \ {"lost"}
        /\ Verdict(s, t) = "succeeded" => attempt.proof = s /\ code[s] = "zero"
    BY <1>0, <1>2, DoneAccepted DEF LiveStatuses, TerminalStates
  <2>4. \A p \in Supervisor : ~(Armed(p) /\ shim[p] # "exited")
    BY <2>3 DEF SafeInv, GateInv, ProcessGone
  <2>5. VerdictInv'
    <3>1. ProcessGone'
      BY <2>1, <2>2, <2>3 DEF ProcessGone
    <3>2. code[s] = "zero" => target[s] = "exited"
      BY DEF FateInv, ShimInv, ShimState
    <3> QED
      BY <2>1, <2>2, <2>3, <3>1, <3>2 DEF VerdictInv
  <2>6. Knows(s, t)'
    <3>1. pc'[s][t] = "done_meta" /\ seen'[s][t] = attempt'
      BY <2>1, GotoAt DEF TypeInv, ThreadsInv, ThreadsOK
    <3>2. KnowsRecord(s, t)'
      BY <3>1, RecordKnows
    <3>3. t = "monitor" => attempt'.proof = s
      BY <1>0, <2>2 DEF Knows, KnowsDone, DoneSteps
    <3> QED
      BY <2>1, <2>2, <2>3, <3>1, <3>2, <3>3
      DEF Knows, KnowsLaunch, BeforeGate, GatedSteps, KnowsCancel, CancelSteps, KnowsDone, DoneSteps,
          KnowsLost, ProcessGone, Finished
  <2>7. MovesOn(pc[s]["main"], "done_meta") /\ attempt'.execution \notin {"pending", "launching"}
    BY <2>2, <2>3 DEF MovesOn, LaunchSteps, BeforeGate, TerminalStates
  <2> QED
    BY <2>1, <2>2, <2>4, <2>5, <2>6, <2>7, ThreadCommits
<1> QED
  BY <1>1, <1>2

\* An attempt is lost only when nothing runs under control.
LEMMA LostAccepted ==
    ASSUME TypeInv, SafeInv, FateInv, NEW s \in Supervisor, NEW t \in Thread,
           pc[s][t] = "lost_commit", NEW new, new.execution = "lost", Accepts(s, t, new)
    PROVE  /\ attempt.execution \in ActiveStates
           /\ \A p \in Supervisor : ~(Armed(p) /\ shim[p] # "exited")
<1>1. seen[s][t] = attempt
  BY AcceptedSeen
<1>2. /\ attempt.execution \notin {"pending", "lost"}
      /\ attempt.execution = "launching" \/ Over
  BY <1>1 DEF FateInv, KnowsInv, Knows, KnowsLost
<1>3. attempt.execution \in ActiveStates
  BY <1>2 DEF Accepts, LegalTransition, ExecutionStep, ActiveStates
<1>4. \A p \in Supervisor : Armed(p) => attempt.proof = p /\ p # None
  BY ProofType DEF SafeInv, GateInv
<1>5. CASE attempt.execution = "launching"
  BY <1>3, <1>4, <1>5 DEF FateInv, LauncherInv
<1>6. CASE Over
  BY <1>3, <1>4, <1>6 DEF Over, Finished, TerminalStates, ActiveStates, Dead, Armed, BeforeGate
<1> QED
  BY <1>2, <1>3, <1>5, <1>6

LEMMA LostCommitFate ==
    ASSUME TypeInv, SafeInv, FateInv, RecordMoves, NEW s \in Supervisor, NEW t \in Thread,
           LostCommit(s, t)
    PROVE  FateInv'
<1> USE DEF process, lease
<1> DEFINE new == [Revise("lost") EXCEPT !.control = "control_failure"]
<1>1. CASE ~Accepts(s, t, new)
  BY <1>1, ReturnFree, FreeGoes DEF LostCommit, MovesOn
<1>2. CASE Accepts(s, t, new)
  <2>1. /\ attempt' = new /\ Goto(s, t, "lost_meta") /\ pc[s][t] = "lost_commit"
        /\ UNCHANGED <<meta, seen, shim, target, gate, code, grip>>
    BY <1>2 DEF LostCommit
  <2>2. new.execution = "lost" /\ new.proof = attempt.proof
    BY DEF Revise, TypeInv, RecordOK, AttemptRecords
  <2>3. \A p \in Supervisor : ~(Armed(p) /\ shim[p] # "exited")
    BY <1>2, <2>1, <2>2, LostAccepted
  <2>4. VerdictInv'
    BY <2>1, <2>2 DEF VerdictInv
  <2>5. Knows(s, t)'
    <3>1. pc'[s][t] = "lost_meta" /\ seen'[s][t] = seen[s][t]
      BY <2>1, GotoAt
    <3>2. KnowsRecord(s, t)'
      BY <3>1, RecordKnows
    <3> QED
      BY <2>1, <2>2, <3>1, <3>2
      DEF Knows, KnowsLaunch, BeforeGate, GatedSteps, KnowsCancel, CancelSteps, KnowsDone, DoneSteps,
          KnowsLost
  <2>6. MovesOn(pc[s]["main"], "lost_meta")
    BY DEF MovesOn, LaunchSteps, BeforeGate
  <2> QED
    BY <2>1, <2>2, <2>3, <2>4, <2>5, <2>6, ThreadCommits
<1> QED
  BY <1>1, <1>2

LEMMA UserFate ==
    ASSUME TypeInv, SafeInv, FateInv, RecordMoves, UserHold \/ UserResolve
    PROVE  FateInv'
<1>1. /\ UNCHANGED <<meta, shim, target, gate, code, grip, pc, seen>>
      /\ attempt'.execution = attempt.execution /\ attempt'.proof = attempt.proof
  BY DEF UserHold, UserResolve, lease, process, threads, TypeInv, RecordOK, AttemptRecords
<1>2. VerdictInv'
  BY <1>1 DEF FateInv, VerdictInv, ProcessGone
<1>3. CASE Supervisor = {}
  BY <1>1, <1>2, <1>3, RevisionGrows, ProofType
  DEF FateInv, LauncherInv, ShimInv, MetaInv, LiveInv, KnowsInv, Dead
<1>4. ASSUME NEW s \in Supervisor PROVE FateInv'
  <2>1. ASSUME NEW t \in Thread, Forward PROVE Knows(s, t)'
    BY <1>1, <2>1, KnowsStays DEF FateInv, KnowsInv
  <2> QED
    BY <1>1, <1>2, <2>1, RecordWritten DEF MovesOn
<1> QED
  BY <1>3, <1>4

\* The launch of a pending attempt: nobody else has launched it.
LEMMA CommitLaunchingFate ==
    ASSUME TypeInv, SafeInv, FateInv, RecordMoves, NEW s \in Supervisor, CommitLaunching(s)
    PROVE  FateInv'
<1> USE DEF process, lease, Thread
<1> DEFINE new == [Revise("launching") EXCEPT !.manifest = TRUE]
<1>1. CASE ~Accepts(s, "main", new)
  BY <1>1, FreeGoes DEF CommitLaunching, FreeSteps, MovesOn, LaunchSteps, BeforeGate
<1>2. CASE Accepts(s, "main", new)
  <2>1. /\ attempt' = new /\ Goto(s, "main", "spawn") /\ pc[s]["main"] = "commit_launching"
        /\ seen' = [seen EXCEPT ![s]["main"] = attempt']
        /\ UNCHANGED <<meta, shim, target, gate, code, grip>>
    BY <1>2 DEF CommitLaunching
  <2>2. attempt'.execution = "launching" /\ attempt'.proof = attempt.proof
    BY <2>1 DEF Revise, TypeInv, RecordOK, AttemptRecords
  <2>3. attempt.execution = "pending" /\ attempt.proof = None
    BY <1>2, <2>1, AcceptedSeen DEF FateInv, KnowsInv, Knows, KnowsLaunch, LauncherInv
  <2>4. \A p \in Supervisor : ~Launcher(p)
    BY <2>3 DEF FateInv, LauncherInv
  <2>5. /\ pc'[s]["main"] = "spawn" /\ seen'[s]["main"] = attempt'
        /\ \A q \in Supervisor, t \in Thread : q # s \/ t # "main" =>
             pc'[q][t] = pc[q][t] /\ seen'[q][t] = seen[q][t]
    BY <2>1, GotoAt DEF TypeInv, ThreadsInv, ThreadsOK
  <2>6. Forward
    BY <2>1, <2>4 DEF Forward, Launcher
  <2>7. LauncherInv'
    BY <2>1, <2>2, <2>3, <2>4, <2>5 DEF LauncherInv, Launcher, LaunchSteps, BeforeGate
  <2>8. ShimInv'
    <3> SUFFICES ASSUME NEW q \in Supervisor PROVE ShimState(q)'
      BY DEF ShimInv
    <3>1. ShimState(q) /\ shim[q] = "none"
      BY <2>4 DEF FateInv, ShimInv, Launcher
    <3> QED
      BY <2>1, <2>5, <3>1 DEF ShimState, LaunchSteps, BeforeGate, GatedSteps
  <2>9. MetaInv'
    <3>1. meta.proof = None /\ meta.status = "none"
      BY <2>4, ProofType DEF FateInv, MetaInv, Launcher
    <3>2. \A q \in Supervisor : pc'[q]["main"] # "commit_running"
      BY <2>4, <2>5 DEF Launcher, LaunchSteps, BeforeGate
    <3> QED
      BY <2>1, <2>2, <2>3, <3>1, <3>2 DEF MetaInv, TerminalStates
  <2>10. LiveInv'
    <3>1. \A q \in Supervisor : ~Armed(q)
      BY <2>4 DEF FateInv, ShimInv, ShimState, Armed, Launcher, LaunchSteps, BeforeGate
    <3>2. \A q \in Supervisor : ~Armed(q)'
      BY <2>1, <2>5, <3>1 DEF Armed
    <3> QED
      BY <3>2 DEF LiveInv
  <2>11. VerdictInv'
    BY <2>2 DEF VerdictInv
  <2>12. Knows(s, "main")'
    <3>1. KnowsRecord(s, "main")'
      BY <2>5, RecordKnows
    <3> QED
      BY <2>2, <2>5, <3>1
      DEF Knows, KnowsLaunch, BeforeGate, GatedSteps, KnowsCancel, CancelSteps, KnowsDone, DoneSteps,
          KnowsLost
  <2>13. KnowsInv'
    <3>1. attempt'.revision >= 1
      BY RevisionGrows DEF FateInv, KnowsInv
    <3>2. ASSUME NEW q \in Supervisor, NEW t \in Thread PROVE Knows(q, t)'
      BY <2>5, <2>6, <2>12, KnowsStays DEF FateInv, KnowsInv
    <3> QED
      BY <3>1, <3>2 DEF KnowsInv
  <2> QED
    BY <2>7, <2>8, <2>9, <2>10, <2>11, <2>13 DEF FateInv
<1> QED
  BY <1>1, <1>2

\* The process goes on record while its launch is on record and alive.
LEMMA RunningAccepted ==
    ASSUME TypeInv, SafeInv, FateInv, NEW s \in Supervisor, pc[s]["main"] = "commit_running",
           Accepts(s, "main", [Revise("running") EXCEPT !.proof = s])
    PROVE  /\ attempt.execution = "launching" /\ attempt.proof = None
           /\ shim[s] \in LiveShim \cup {"exited"} /\ target[s] = "none" /\ gate[s] # "token"
           /\ \A p \in Supervisor : Launcher(p) => p = s
           /\ meta.proof = s /\ meta.status \notin TerminalStates \cup {"none"}
<1>1. seen[s]["main"] = attempt
  BY AcceptedSeen DEF Thread
<1>2. attempt.execution = "launching" /\ attempt.proof = None
  BY <1>1 DEF FateInv, KnowsInv, Knows, KnowsLaunch, BeforeGate, LauncherInv, Thread
<1>3. shim[s] # "none" /\ target[s] = "none" /\ gate[s] # "token" /\ Launcher(s)
  BY DEF FateInv, ShimInv, ShimState, BeforeGate, GatedSteps, LaunchSteps, Launcher
<1>4. \A p \in Supervisor : Launcher(p) => p = s
  BY <1>3 DEF FateInv, LauncherInv
<1>5. meta.status # "none" /\ meta.proof = s
  BY <1>4, ProofType DEF FateInv, MetaInv, Launcher
<1>6. meta.status \notin TerminalStates
  BY <1>2, <1>5 DEF FateInv, MetaInv, Dead, BeforeGate, TerminalStates
<1> QED
  BY <1>2, <1>3, <1>4, <1>5, <1>6 DEF TypeInv, ProcessOK

LEMMA CommitRunningFate ==
    ASSUME TypeInv, SafeInv, FateInv, RecordMoves, NEW s \in Supervisor, CommitRunning(s)
    PROVE  FateInv'
<1> USE DEF process, lease, Thread
<1> DEFINE new == [Revise("running") EXCEPT !.proof = s]
<1>1. CASE ~Accepts(s, "main", new)
  BY <1>1, FreeGoes
  DEF CommitRunning, FreeSteps, MovesOn, LaunchSteps, BeforeGate, GatedSteps
<1>2. CASE Accepts(s, "main", new)
  <2>1. /\ attempt' = new /\ pc[s]["main"] = "commit_running"
        /\ pc' = [pc EXCEPT ![s] = [main |-> "write_gate", monitor |-> "watch"]]
        /\ seen' = [seen EXCEPT ![s]["main"] = attempt']
        /\ UNCHANGED <<meta, shim, target, gate, code, grip>>
    BY <1>2 DEF CommitRunning
  <2>2. attempt'.execution = "running" /\ attempt'.proof = s
    BY <2>1 DEF Revise, TypeInv, RecordOK, AttemptRecords
  <2>3. /\ attempt.execution = "launching" /\ attempt.proof = None
        /\ shim[s] # "none" /\ target[s] = "none" /\ gate[s] # "token"
        /\ \A p \in Supervisor : Launcher(p) => p = s
        /\ meta.proof = s /\ meta.status \notin TerminalStates \cup {"none"}
    BY <1>2, <2>1, RunningAccepted DEF LiveShim
  <2>4. /\ pc'[s]["main"] = "write_gate" /\ pc'[s]["monitor"] = "watch" /\ seen'[s]["main"] = attempt'
        /\ seen'[s]["monitor"] = seen[s]["monitor"]
        /\ \A q \in Supervisor : q # s => pc'[q] = pc[q] /\ seen'[q] = seen[q]
    BY <2>1 DEF TypeInv, ThreadsInv, ThreadsOK
  <2>5. Forward
    BY <2>1, <2>4 DEF Forward, Dead, BeforeGate
  <2>6. LauncherInv'
    BY <2>1, <2>2, <2>3, <2>4, ProofType DEF FateInv, LauncherInv, Launcher
  <2>7. ShimInv'
    <3> SUFFICES ASSUME NEW q \in Supervisor PROVE ShimState(q)'
      BY DEF ShimInv
    <3>1. ShimState(q)
      BY DEF FateInv, ShimInv
    <3>2. CASE q = s
      BY <2>1, <2>3, <2>4, <3>1, <3>2 DEF ShimState, LaunchSteps, BeforeGate, GatedSteps
    <3>3. CASE q # s
      BY <2>1, <2>4, <3>1, <3>3 DEF ShimState
    <3> QED
      BY <3>2, <3>3
  <2>8. MetaInv'
    <3>1. \A q \in Supervisor : pc'[q]["main"] \notin {"spawn", "fence_running", "write_metadata"}
      BY <2>3, <2>4 DEF Launcher, LaunchSteps, BeforeGate
    <3> QED
      BY <2>1, <2>3, <3>1 DEF FateInv, MetaInv
  <2>9. LiveInv' /\ VerdictInv'
    BY <2>2 DEF LiveInv, VerdictInv, LiveStatuses
  <2>10. ASSUME NEW t \in Thread PROVE Knows(s, t)'
    <3>1. KnowsRecord(s, t)'
      BY <2>4, RecordKnows
    <3> QED
      BY <2>2, <2>4, <3>1
      DEF Knows, KnowsLaunch, BeforeGate, GatedSteps, KnowsCancel, CancelSteps, KnowsDone, DoneSteps,
          KnowsLost
  <2>11. KnowsInv'
    <3>1. attempt'.revision >= 1
      BY RevisionGrows DEF FateInv, KnowsInv
    <3>2. ASSUME NEW q \in Supervisor, NEW t \in Thread PROVE Knows(q, t)'
      BY <2>4, <2>5, <2>10, KnowsStays DEF FateInv, KnowsInv
    <3> QED
      BY <3>1, <3>2 DEF KnowsInv
  <2> QED
    BY <2>6, <2>7, <2>8, <2>9, <2>11 DEF FateInv
<1> QED
  BY <1>1, <1>2

-----------------------------------------------------------------------------
LEMMA InitFate == Init => FateInv
<1> SUFFICES ASSUME Init PROVE FateInv
  OBVIOUS
<1>1. /\ attempt.execution = "pending" /\ attempt.proof = None /\ attempt.revision = 1
      /\ meta = [status |-> "none", proof |-> None]
      /\ \A s \in Supervisor : /\ shim[s] = "none" /\ target[s] = "none"
                               /\ gate[s] = "none" /\ code[s] = "none"
      /\ \A s \in Supervisor : pc[s]["main"] = "new" /\ pc[s]["monitor"] = "none"
      /\ \A s \in Supervisor, t \in Thread : seen[s][t] = NothingRead
  BY DEF Init, Thread
<1>2. LauncherInv /\ ShimInv /\ MetaInv /\ LiveInv /\ VerdictInv
  BY <1>1 DEF LauncherInv, Launcher, ShimInv, ShimState, MetaInv, LiveInv, Armed, VerdictInv,
     LaunchSteps, BeforeGate, GatedSteps, TerminalStates
<1>3. KnowsInv
  BY <1>1 DEF KnowsInv, Knows, KnowsRecord, KnowsLaunch, BeforeGate, GatedSteps, KnowsCancel,
     CancelSteps, KnowsDone, DoneSteps, KnowsLost, NothingRead, LiveStatuses, Thread
<1> QED
  BY <1>2, <1>3 DEF FateInv

LEMMA MainFate ==
    ASSUME TypeInv, SafeInv, FateInv, RecordMoves, NEW s \in Supervisor, MainStep(s)
    PROVE  FateInv'
<1>1. CASE LaunchStep(s)
  BY <1>1, PreflightFate, CommitLaunchingFate, SpawnFate, RunningFate, CommitRunningFate,
     WriteGateFate, AbortLaunchFate, FailFate, FailCommitFate, MetadataFate DEF LaunchStep, Thread
<1>2. CASE CancelStep(s)
  BY <1>2, CancelReadFate, CancelCommitFate, CancelMetaFate, CancelMovesFate, SigkillFate, ReapFate
  DEF CancelStep
<1>3. CASE CompleteStep(s, "main") \/ LostStep(s, "main")
  BY <1>3, DoneReadsFate, DoneCommitFate, LostFenceFate, LostCommitFate, MetadataFate
  DEF CompleteStep, LostStep, Thread
<1> QED
  BY <1>1, <1>2, <1>3, EnsureLeaseFate, OtherMovesFate, LostReadFate, ReconcileReadFate,
     ReconcileVerifyFate DEF MainStep

LEMMA NextFate == ASSUME TypeInv, SafeInv, FateInv, [Next]_vars PROVE FateInv'
<1>1. RecordMoves
  BY RecordStep
<1>2. ASSUME NEW s \in Supervisor, MonitorStep(s) PROVE FateInv'
  BY <1>1, <1>2, DoneReadsFate, DoneCommitFate, LostFenceFate, LostCommitFate, MetadataFate, LoopFate
  DEF MonitorStep, CompleteStep, LostStep, Thread
<1>3. ASSUME NEW s \in Supervisor, Chance(s) PROVE FateInv'
  BY <1>3, OtherMovesFate, ExitFate, ShimFate DEF Chance
<1>4. CASE UNCHANGED vars
  BY <1>4 DEF vars, FateInv, LauncherInv, Launcher, ShimInv, ShimState, MetaInv, Dead, LiveInv, Armed,
     VerdictInv, ProcessGone, KnowsInv, Knows, KnowsRecord, KnowsLaunch, KnowsCancel, KnowsDone,
     KnowsLost, Over, Finished
<1> QED
  BY <1>1, <1>2, <1>3, <1>4, MainFate, LeaseFate, ShimFate, UserFate DEF Next

LEMMA FateInvariant == Spec => []FateInv
  BY InitFate, NextFate, TypeInvariant, SafeInvariant, PTL DEF Spec

-----------------------------------------------------------------------------
(***************************************************************************)
(* What follows for the properties.                                        *)
(***************************************************************************)

\* No failed launch, recovery or late verdict of a former lease owner ends the
\* record while an agent runs under its shim.
THEOREM RunningIsRecordedHolds == Spec => []RunningIsRecorded
<1>1. FateInv => RunningIsRecorded
  BY DEF FateInv, LiveInv, Armed, RunningIsRecorded, Supervised
<1> QED
  BY <1>1, FateInvariant, PTL

\* No verdict is guessed: "succeeded" is the status zero of the process on
\* record, and a cancelled attempt's process is gone.
THEOREM HonestVerdictHolds == Spec => []HonestVerdict
<1>1. FateInv => HonestVerdict
  BY DEF FateInv, VerdictInv, ProcessGone, HonestVerdict
<1> QED
  BY <1>1, FateInvariant, PTL

\* metadata.json never tells more than the record, but for the "failed" that a
\* launcher leaves beside a cancellation or a loss; never beside a success.
THEOREM MetadataFollowsHolds == Spec => []MetadataFollows
<1>1. ASSUME TypeInv, FateInv, meta.status \in TerminalStates, meta.status # attempt.execution
      PROVE  meta.status = "failed" /\ attempt.execution # "succeeded"
  <2>1. meta.status = "failed" /\ Dead(meta.proof)
    BY <1>1 DEF FateInv, MetaInv
  <2>2. ASSUME attempt.execution = "succeeded" PROVE FALSE
    <3>1. /\ attempt.proof \in Supervisor /\ shim[attempt.proof] = "exited"
          /\ target[attempt.proof] = "exited"
      BY <1>1, <2>2, ProofType DEF FateInv, VerdictInv, ProcessGone
    <3>2. meta.proof \in Supervisor /\ shim[meta.proof] # "none"
      BY <1>1, ProofType DEF FateInv, MetaInv, TerminalStates
    <3>3. meta.proof = attempt.proof
      BY <1>1, <3>1, <3>2 DEF FateInv, LauncherInv, Launcher
    <3> QED
      BY <2>1, <3>1, <3>3 DEF Dead
  <2> QED
    BY <2>1, <2>2
<1>2. TypeInv /\ FateInv => MetadataFollows
  BY <1>1 DEF MetadataFollows
<1> QED
  BY <1>2, TypeInvariant, FateInvariant, PTL

-----------------------------------------------------------------------------
(***************************************************************************)
(* The refinement.  Only the process on record counts: a step that leaves  *)
(* it and the execution state alone is a stutter of AttemptLifecycle.      *)
(***************************************************************************)
LStep == [Lifecycle!Next]_(Lifecycle!vars)

LEMMA Stutters ==
    ASSUME attempt'.execution = attempt.execution, attempt'.proof = attempt.proof,
           attempt.proof # None =>
             /\ target'[attempt.proof] = target[attempt.proof]
             /\ code'[attempt.proof] = code[attempt.proof]
             /\ shim'[attempt.proof] = "exited" <=> shim[attempt.proof] = "exited"
    PROVE  LStep
  BY DEF LStep, Lifecycle!vars

\* The execution state moves under a process that does not.
LEMMA RecordActs ==
    ASSUME UNCHANGED <<shim, target, code>>, attempt'.proof = attempt.proof,
           \/ Lifecycle!Launch \/ Lifecycle!RequestCancel \/ Lifecycle!Conclude
           \/ Lifecycle!FailLaunch \/ Lifecycle!Lose
    PROVE  LStep
  BY DEF LStep, Lifecycle!Next

LEMMA InitLifecycle == Init => Lifecycle!Init
  BY DEF Init, Lifecycle!Init

LEMMA CommitsRefine ==
    ASSUME TypeInv, SafeInv, FateInv, NEW s \in Supervisor,
           \/ CommitLaunching(s) \/ CancelCommit(s) \/ FailCommit(s)
    PROVE  LStep
<1> USE DEF process, lease
<1>1. attempt \in AttemptRecords /\ "main" \in Thread
  BY DEF TypeInv, RecordOK, Thread
<1>2. UNCHANGED attempt \/ attempt'.proof = attempt.proof
  BY <1>1 DEF CommitLaunching, CancelCommit, FailCommit, Revise, AttemptRecords
<1>3. CASE UNCHANGED attempt
  BY <1>3, Stutters DEF CommitLaunching, CancelCommit, FailCommit
<1>4. CASE CommitLaunching(s) /\ attempt' # attempt
  <2>1. seen[s]["main"] = attempt /\ attempt'.execution = "launching" /\ attempt'.proof = attempt.proof
    BY <1>1, <1>4, AcceptedSeen DEF CommitLaunching, Revise, AttemptRecords
  <2>2. attempt.execution = "pending"
    BY <1>1, <1>4, <2>1 DEF CommitLaunching, FateInv, KnowsInv, Knows, KnowsLaunch
  <2>3. Lifecycle!Launch
    BY <1>4, <2>1, <2>2 DEF Lifecycle!Launch, CommitLaunching
  <2> QED
    BY <1>4, <2>1, <2>3, RecordActs DEF CommitLaunching
<1>5. CASE CancelCommit(s) /\ attempt' # attempt
  <2>1. seen[s]["main"] = attempt /\ attempt'.execution = "cancel_requested" /\ attempt'.proof = attempt.proof
    BY <1>1, <1>5, AcceptedSeen DEF CancelCommit, Revise, AttemptRecords
  <2>2. attempt.execution = "running"
    BY <1>1, <1>5, <2>1 DEF CancelCommit, FateInv, KnowsInv, Knows, KnowsCancel
  <2>3. Lifecycle!RequestCancel
    BY <1>5, <2>1, <2>2 DEF Lifecycle!RequestCancel, CancelCommit
  <2> QED
    BY <1>5, <2>1, <2>3, RecordActs DEF CancelCommit
<1>6. CASE FailCommit(s) /\ attempt' # attempt
  <2>1. /\ seen[s]["main"] = attempt /\ attempt'.execution = "failed"
        /\ attempt'.proof = attempt.proof /\ pc[s]["main"] = "fail_commit"
    BY <1>1, <1>6, AcceptedSeen DEF FailCommit, Revise, AttemptRecords
  <2>2. attempt.execution \in ActiveStates
    BY <1>1, <2>1 DEF FateInv, KnowsInv, Knows, KnowsLaunch
  <2>3. attempt.proof # None => target[attempt.proof] = "none"
    <3>1. Launcher(s) /\ target[s] = "none"
      BY <2>1 DEF Launcher, LaunchSteps, FateInv, ShimInv, ShimState
    <3> QED
      BY <3>1, ProofType DEF FateInv, LauncherInv, Launcher
  <2>4. Lifecycle!FailLaunch
    BY <1>6, <2>1, <2>2, <2>3 DEF Lifecycle!FailLaunch, Lifecycle!Live, ActiveStates, FailCommit
  <2> QED
    BY <1>6, <2>1, <2>4, RecordActs DEF FailCommit
<1> QED
  BY <1>2, <1>3, <1>4, <1>5, <1>6

LEMMA DoneCommitRefines ==
    ASSUME TypeInv, SafeInv, FateInv, NEW s \in Supervisor, NEW t \in Thread, DoneCommit(s, t)
    PROVE  LStep
<1> USE DEF process, lease
<1>1. attempt \in AttemptRecords
  BY DEF TypeInv, RecordOK
<1>2. CASE ~Accepts(s, t, Revise(Verdict(s, t)))
  BY <1>2, Stutters DEF DoneCommit
<1>3. CASE Accepts(s, t, Revise(Verdict(s, t)))
  <2>1. attempt' = Revise(Verdict(s, t)) /\ pc[s][t] = "done_commit"
    BY <1>3 DEF DoneCommit
  <2>2. attempt'.execution = Verdict(s, t) /\ attempt'.proof = attempt.proof
    BY <1>1, <2>1 DEF Revise, AttemptRecords
  <2>3. Lifecycle!Conclude
    BY <1>3, <2>1, <2>2, DoneAccepted
    DEF Lifecycle!Conclude, DoneCommit, ProcessGone, LiveStatuses
  <2> QED
    BY <2>2, <2>3, RecordActs DEF DoneCommit
<1> QED
  BY <1>2, <1>3

LEMMA LostCommitRefines ==
    ASSUME TypeInv, SafeInv, FateInv, NEW s \in Supervisor, NEW t \in Thread, LostCommit(s, t)
    PROVE  LStep
<1> USE DEF process, lease
<1> DEFINE new == [Revise("lost") EXCEPT !.control = "control_failure"]
<1>1. attempt \in AttemptRecords
  BY DEF TypeInv, RecordOK
<1>2. CASE ~Accepts(s, t, new)
  BY <1>2, Stutters DEF LostCommit
<1>3. CASE Accepts(s, t, new)
  <2>1. attempt' = new /\ pc[s][t] = "lost_commit"
    BY <1>3 DEF LostCommit
  <2>2. new.execution = "lost" /\ attempt'.execution = "lost" /\ attempt'.proof = attempt.proof
    BY <1>1, <2>1 DEF Revise, AttemptRecords
  <2> HIDE DEF new
  <2>3. /\ attempt.execution \in ActiveStates
        /\ \A p \in Supervisor : ~(Armed(p) /\ shim[p] # "exited")
    BY <1>3, <2>1, <2>2, LostAccepted
  <2>4. attempt.proof # None => ~(shim[attempt.proof] # "exited" /\ target[attempt.proof] = "running")
    BY <2>3, ProofType DEF Armed
  <2>5. Lifecycle!Lose
    BY <2>2, <2>3, <2>4 DEF Lifecycle!Lose, Lifecycle!Live, ActiveStates, LostCommit
  <2> QED
    BY <2>2, <2>5, RecordActs DEF LostCommit
<1> QED
  BY <1>2, <1>3

LEMMA CommitRunningRefines ==
    ASSUME TypeInv, SafeInv, FateInv, NEW s \in Supervisor, CommitRunning(s)
    PROVE  LStep
<1> USE DEF process, lease
<1> DEFINE new == [Revise("running") EXCEPT !.proof = s]
<1>1. CASE ~Accepts(s, "main", new)
  BY <1>1, Stutters DEF CommitRunning
<1>2. CASE Accepts(s, "main", new)
  <2>1. attempt' = new /\ UNCHANGED <<shim, target, code>> /\ pc[s]["main"] = "commit_running"
    BY <1>2 DEF CommitRunning
  <2>2. attempt'.execution = "running" /\ attempt'.proof = s /\ s # None
    BY <2>1, SupervisorAssumption DEF Revise, TypeInv, RecordOK, AttemptRecords
  <2>3. /\ attempt.execution = "launching" /\ attempt.proof = None /\ target[s] = "none"
        /\ shim[s] \in LiveShim \cup {"exited"}
    BY <1>2, <2>1, RunningAccepted
  <2>4. shim[s] = "exited" => code[s] = "nonzero"
    BY <2>3 DEF FateInv, ShimInv, ShimState, TypeInv, ProcessOK
  <2>5. shim[s] # "exited" => code[s] = "none"
    BY <2>3 DEF FateInv, ShimInv, ShimState, LiveShim
  <2>6. Lifecycle!Confirm
    BY <2>1, <2>2, <2>3, <2>4, <2>5 DEF Lifecycle!Confirm
  <2> QED
    BY <2>6 DEF LStep, Lifecycle!Next
<1> QED
  BY <1>1, <1>2

\* The child of one supervisor moves: it matters when it is on record.
LEMMA ChildRefines ==
    ASSUME TypeInv, SafeInv, FateInv, NEW s \in Supervisor,
           UNCHANGED attempt,
           \A q \in Supervisor : q # s =>
               shim'[q] = shim[q] /\ target'[q] = target[q] /\ code'[q] = code[q],
           attempt.proof = s => LStep
    PROVE  LStep
  BY Stutters, ProofType

LEMMA ShimRefines ==
    ASSUME TypeInv, SafeInv, FateInv, NEW s \in Supervisor,
           \/ ShimEof(s) \/ ShimExec(s) \/ ShimReap(s) \/ ShimKilled(s) \/ AbortLaunch(s)
           \/ \E status \in {"zero", "nonzero"} : TargetExit(s, status)
    PROVE  LStep
<1> USE DEF record, process, lease, threads, LiveShim
<1>1. UNCHANGED attempt
  BY DEF ShimEof, ShimExec, ShimReap, ShimKilled, AbortLaunch, TargetExit
<1>2. \A q \in Supervisor : q # s =>
          shim'[q] = shim[q] /\ target'[q] = target[q] /\ code'[q] = code[q]
  BY DEF ShimEof, ShimExec, ShimReap, ShimKilled, AbortLaunch, TargetExit, TypeInv, ProcessOK
<1>3. ASSUME attempt.proof = s PROVE LStep
  <2>1. s # None /\ ShimState(s)
    BY SupervisorAssumption DEF FateInv, ShimInv
  <2>2. shim \in [Supervisor -> {"none", "exited"} \cup LiveShim]
        /\ target \in [Supervisor -> {"none", "running", "exited"}]
        /\ code \in [Supervisor -> {"none", "zero", "nonzero"}]
    BY DEF TypeInv, ProcessOK
  <2>3. CASE ShimExec(s)
    <3>1. attempt.execution \in LiveStatuses
      BY <2>3 DEF ShimExec, FateInv, LiveInv, Armed
    <3>2. Lifecycle!Start
      BY <1>3, <2>1, <2>2, <2>3, <3>1 DEF ShimExec, ShimState, Lifecycle!Start, Lifecycle!Live, LiveStatuses
    <3> QED
      BY <3>2 DEF LStep, Lifecycle!Next
  <2>4. CASE ShimEof(s) \/ ShimKilled(s)
    <3>1. Lifecycle!LeashCut
      BY <1>3, <2>1, <2>2, <2>4 DEF ShimEof, ShimKilled, Lifecycle!LeashCut
    <3> QED
      BY <3>1 DEF LStep, Lifecycle!Next
  <2>5. CASE ShimReap(s)
    <3>1. CASE termed[s]
      BY <1>3, <2>2, <2>5, <3>1, Stutters DEF ShimReap
    <3>2. CASE ~termed[s]
      <4>1. Lifecycle!LeashCut
        BY <1>3, <2>1, <2>2, <2>5, <3>2 DEF ShimReap, Lifecycle!LeashCut
      <4> QED
        BY <4>1 DEF LStep, Lifecycle!Next
    <3> QED
      BY <3>1, <3>2
  <2>6. CASE AbortLaunch(s)
    <3>1. CASE UNCHANGED <<shim, code>>
      BY <2>6, <3>1, Stutters DEF AbortLaunch
    <3>2. CASE ~UNCHANGED <<shim, code>>
      <4>1. Lifecycle!LeashCut
        BY <1>3, <2>1, <2>2, <2>6, <3>2 DEF AbortLaunch, Lifecycle!LeashCut
      <4> QED
        BY <4>1 DEF LStep, Lifecycle!Next
    <3> QED
      BY <3>1, <3>2
  <2>7. ASSUME NEW status \in {"zero", "nonzero"}, TargetExit(s, status) PROVE LStep
    <3>1. shim[s] \in {"running", "exited"}
      BY <2>1, <2>2, <2>7 DEF TargetExit, ShimState
    <3>2. Lifecycle!AgentExits
      BY <1>3, <2>1, <2>2, <2>7, <3>1 DEF TargetExit, Lifecycle!AgentExits
    <3> QED
      BY <3>2 DEF LStep, Lifecycle!Next
  <2> QED
    BY <2>3, <2>4, <2>5, <2>6, <2>7
<1> QED
  BY <1>1, <1>2, <1>3, ChildRefines

LEMMA SigkillRefines ==
    ASSUME TypeInv, SafeInv, FateInv, NEW s \in Supervisor, Sigkill(s)
    PROVE  LStep
<1> USE DEF record, process, lease, threads, LiveShim
<1> DEFINE q == seen[s]["main"].proof
<1>1. UNCHANGED attempt /\ pc[s]["main"] = "sigkill"
  BY DEF Sigkill
<1>2. q # None
  BY <1>1 DEF FateInv, KnowsInv, Knows, KnowsCancel, CancelSteps, Thread
<1>3. attempt.proof = q /\ q \in Supervisor /\ shim[q] # "none" /\ ShimState(q)
  BY <1>2, SeenGone DEF Thread, FateInv, ShimInv
<1>4. CASE UNCHANGED <<shim, target, code>>
  BY <1>1, <1>4, Stutters
<1>5. CASE ~UNCHANGED <<shim, target, code>>
  <2>1. /\ shim' = [shim EXCEPT ![q] = "exited"]
        /\ target' = [target EXCEPT ![q] = IF @ = "running" THEN "exited" ELSE @]
        /\ code' = [code EXCEPT ![q] = IF shim[q] \in LiveShim THEN "nonzero" ELSE @]
    BY <1>5 DEF Sigkill
  <2> HIDE DEF q
  <2>2. shim \in [Supervisor -> {"none", "exited"} \cup LiveShim]
        /\ target \in [Supervisor -> {"none", "running", "exited"}]
        /\ code \in [Supervisor -> {"none", "zero", "nonzero"}]
    BY DEF TypeInv, ProcessOK
  <2>3. shim'[q] = "exited" /\ target'[q] = (IF target[q] = "running" THEN "exited" ELSE target[q])
        /\ code'[q] = IF shim[q] \in LiveShim THEN "nonzero" ELSE code[q]
    BY <1>3, <2>1, <2>2
  <2>4. CASE shim[q] \in LiveShim
    <3>1. Lifecycle!LeashCut
      BY <1>1, <1>2, <1>3, <2>3, <2>4 DEF Lifecycle!LeashCut
    <3> QED
      BY <3>1 DEF LStep, Lifecycle!Next
  <2>5. CASE shim[q] = "exited" /\ target[q] = "running"
    <3>1. Lifecycle!AgentExits
      BY <1>1, <1>2, <1>3, <2>3, <2>5 DEF Lifecycle!AgentExits
    <3> QED
      BY <3>1 DEF LStep, Lifecycle!Next
  <2>6. CASE shim[q] = "exited" /\ target[q] # "running"
    BY <1>1, <1>3, <2>3, <2>6, Stutters
  <2> QED
    BY <1>3, <2>2, <2>4, <2>5, <2>6
<1> QED
  BY <1>4, <1>5

\* The steps that touch neither the record nor a process.
LEMMA IdleRefines ==
    ASSUME UNCHANGED <<attempt, shim, target, code>>
    PROVE  LStep
  BY Stutters

LEMMA SpawnRefines ==
    ASSUME TypeInv, FateInv, NEW s \in Supervisor, Spawn(s)
    PROVE  LStep
<1>1. UNCHANGED <<attempt, target, code>> /\ shim' \in {shim, [shim EXCEPT ![s] = "gated"]}
  BY DEF Spawn
<1>2. Launcher(s) /\ shim[s] = "none"
  BY DEF Spawn, FateInv, ShimInv, ShimState, Launcher, LaunchSteps, BeforeGate
<1>3. attempt.proof # None => shim'[attempt.proof] = shim[attempt.proof]
  BY <1>1, <1>2, ProofType DEF FateInv, LauncherInv, TypeInv, ProcessOK
<1> QED
  BY <1>1, <1>3, Stutters

LEMMA MainRefines ==
    ASSUME TypeInv, SafeInv, FateInv, NEW s \in Supervisor, MainStep(s)
    PROVE  LStep
<1> USE DEF record, process, lease, threads, Thread
<1>1. CASE LaunchStep(s)
  <2>1. CASE Preflight(s) \/ ReplayLaunch(s) \/ FenceManifest(s) \/ FenceRunning(s) \/ WriteMetadata(s)
    BY <2>1, IdleRefines DEF Preflight, ReplayLaunch, FenceManifest, FenceRunning, WriteMetadata
  <2>2. CASE WriteGate(s) \/ FailFence(s) \/ FailRead(s) \/ FailMeta(s)
    BY <2>2, IdleRefines DEF WriteGate, FailFence, FailRead, FailMeta
  <2> QED
    BY <1>1, <2>1, <2>2, CommitsRefine, CommitRunningRefines, SpawnRefines, ShimRefines DEF LaunchStep
<1>2. CASE CancelStep(s)
  <2>1. CASE CancelRead(s) \/ CancelMeta(s) \/ CancelFence(s) \/ Sigterm(s) \/ Grace(s)
              \/ KillFence(s) \/ Reap(s)
    BY <2>1, IdleRefines DEF CancelRead, CancelMeta, CancelFence, Sigterm, Grace, KillFence, Reap
  <2> QED
    BY <1>2, <2>1, CommitsRefine, SigkillRefines DEF CancelStep
<1>3. CASE CompleteStep(s, "main") \/ LostStep(s, "main")
  <2>1. CASE \/ DoneFence(s, "main") \/ DoneRead(s, "main") \/ DoneMeta(s, "main")
             \/ LostFence(s, "main") \/ LostMeta(s, "main")
    BY <2>1, IdleRefines DEF DoneFence, DoneRead, DoneMeta, LostFence, LostMeta
  <2> QED
    BY <1>3, <2>1, DoneCommitRefines, LostCommitRefines DEF CompleteStep, LostStep
<1>4. CASE \/ EnsureLease(s) \/ WaitEnds(s) \/ LostRead(s) \/ ReconcileRead(s)
           \/ ReconcileVerify(s) \/ Close(s)
  BY <1>4, IdleRefines DEF EnsureLease, WaitEnds, LostRead, ReconcileRead, ReconcileVerify, Close
<1> QED
  BY <1>1, <1>2, <1>3, <1>4 DEF MainStep

LEMMA MonitorRefines ==
    ASSUME TypeInv, SafeInv, FateInv, NEW s \in Supervisor, MonitorStep(s)
    PROVE  LStep
<1> USE DEF record, process, lease, threads, Thread
<1>1. CASE Monitor(s) \/ LoopFence(s) \/ LoopRead(s) \/ LoopVerify(s)
  BY <1>1, IdleRefines DEF Monitor, LoopFence, LoopRead, LoopVerify
<1>2. CASE \/ DoneFence(s, "monitor") \/ DoneRead(s, "monitor") \/ DoneMeta(s, "monitor")
           \/ LostFence(s, "monitor") \/ LostMeta(s, "monitor")
  BY <1>2, IdleRefines DEF DoneFence, DoneRead, DoneMeta, LostFence, LostMeta
<1> QED
  BY <1>1, <1>2, DoneCommitRefines, LostCommitRefines DEF MonitorStep, CompleteStep, LostStep

LEMMA NextRefines == ASSUME TypeInv, SafeInv, FateInv, [Next]_vars PROVE LStep
<1> USE DEF record, process, lease, threads
<1>1. ASSUME NEW s \in Supervisor, Heartbeat(s) \/ ShimStep(s) \/ Chance(s) PROVE LStep
  <2>1. CASE Heartbeat(s) \/ WaitInterrupted(s) \/ StopServing(s) \/ Interrupt(s) \/ Exit(s)
    BY <2>1, IdleRefines DEF Heartbeat, WaitInterrupted, StopServing, Interrupt, Exit
  <2>2. CASE \E c \in Commands[s] : BeginCommand(s, c)
    BY <2>2, IdleRefines DEF BeginCommand
  <2> QED
    BY <1>1, <2>1, <2>2, ShimRefines DEF ShimStep, Chance
<1>2. CASE UserHold \/ UserResolve
  <2>1. attempt'.execution = attempt.execution /\ attempt'.proof = attempt.proof
    BY <1>2 DEF UserHold, UserResolve, TypeInv, RecordOK, AttemptRecords
  <2> QED
    BY <1>2, <2>1, Stutters DEF UserHold, UserResolve
<1>3. CASE GoesStale \/ UNCHANGED vars
  BY <1>3, IdleRefines DEF GoesStale, vars
<1> QED
  BY <1>1, <1>2, <1>3, MainRefines, MonitorRefines DEF Next

\* The supervisors, their stores, crashes and races keep the promise of
\* AttemptLifecycle: one agent, started behind its proof, concluded by the exit
\* that was observed, and given up only when nothing runs under control.
THEOREM LifecycleImplemented == Spec => ImplementsLifecycle
<1>1. TypeInv /\ SafeInv /\ FateInv /\ [Next]_vars => [Lifecycle!Next]_(Lifecycle!vars)
  BY NextRefines DEF LStep
<1> QED
  BY <1>1, InitLifecycle, TypeInvariant, SafeInvariant, FateInvariant, PTL
  DEF Spec, ImplementsLifecycle, Lifecycle!Spec

-----------------------------------------------------------------------------
(***************************************************************************)
(* The verdict and the turns.  A completion that finds its append refused  *)
(* reads again, MaxTries times.  That it does not run out of turns is an   *)
(* argument about revisions.  Once the process is gone no cancellation can *)
(* begin, and one that has begun needs the revision it read: after one     *)
(* conflict only users revise the live record, and they do so only below   *)
(* MaxRevision.  So the revision of the record tells how many conflicts    *)
(* the completion can have had (Turned).                                   *)
(***************************************************************************)

\* Every cancellation on its way has read a revision that is no longer current.
CancelsLate ==
    \A q \in Supervisor :
        pc[q]["main"] = "cancel_commit" => seen[q]["main"].revision < attempt.revision

\* The live record after k revisions that each cost a completion its turn.
Turned(k) ==
    /\ attempt.execution \in LiveStatuses
    /\ attempt.revision >= 3 + k
    /\ k > 0 => CancelsLate
    /\ k > 1 \/ (k > 0 /\ attempt.execution = "running") => 3 + k <= MaxRevision

FloorInv ==
    /\ attempt.execution = "launching" => attempt.revision >= 2
    /\ attempt.execution \in LiveStatuses => attempt.revision >= 3

Turn(s, t) ==
    /\ pc[s][t] = "done_read" => Finished \/ Turned(tries[s][t])
    /\ pc[s][t] = "done_commit" =>
         \/ Finished
         \/ attempt = seen[s][t] /\ Turned(tries[s][t])
         \/ Turned(tries[s][t] + 1)

TurnInv == FloorInv /\ \A s \in Supervisor, t \in Thread : Turn(s, t)

\* How fast a live record moves: a cancellation that has read it, users below
\* the bound, or its end.
Pace ==
    attempt.execution \in LiveStatuses =>
        \/ UNCHANGED attempt
        \/ Finished'
        \/ /\ attempt'.revision = attempt.revision + 1
           /\ \/ /\ attempt.execution = "running" /\ attempt'.execution = "cancel_requested"
                 /\ ~CancelsLate
              \/ attempt'.execution = attempt.execution /\ attempt.revision < MaxRevision

LEMMA MainPace ==
    ASSUME TypeInv, SafeInv, FateInv, NEW s \in Supervisor, MainStep(s)
    PROVE  Pace
<1>1. attempt \in AttemptRecords
  BY DEF TypeInv, RecordOK
<1>2. Knows(s, "main")
  BY DEF FateInv, KnowsInv, Thread
<1> USE <1>1, <1>2, AcceptedSeen DEF Thread, Pace, LiveStatuses, Finished, TerminalStates, Revise, AttemptRecords
<1>3. CASE CommitLaunching(s)
  BY <1>3 DEF CommitLaunching, Knows, KnowsLaunch
<1>4. CASE CommitRunning(s)
  BY <1>4 DEF CommitRunning, Knows, KnowsLaunch, BeforeGate
<1>5. CASE FailCommit(s)
  BY <1>5 DEF FailCommit
<1>6. CASE CancelCommit(s)
  <2>1. UNCHANGED attempt \/ Accepts(s, "main", Revise("cancel_requested"))
    BY <1>6 DEF CancelCommit
  <2>2. CASE Accepts(s, "main", Revise("cancel_requested"))
    <3>1. seen[s]["main"] = attempt /\ attempt.execution = "running" /\ ~CancelsLate
      BY <1>6, <2>2 DEF CancelCommit, Knows, KnowsCancel, CancelsLate
    <3>2. attempt' = Revise("cancel_requested") \/ UNCHANGED attempt
      BY <1>6 DEF CancelCommit
    <3> QED
      BY <3>1, <3>2
  <2> QED
    BY <2>1, <2>2
<1>7. CASE DoneCommit(s, "main")
  BY <1>7 DEF DoneCommit, Verdict
<1>8. CASE LostCommit(s, "main")
  BY <1>8 DEF LostCommit
<1>9. CASE UNCHANGED attempt
  BY <1>9
<1> QED
  BY <1>3, <1>4, <1>5, <1>6, <1>7, <1>8, <1>9
  DEF MainStep, EnsureLease, LaunchStep, Preflight, ReplayLaunch, FenceManifest, Spawn,
      FenceRunning, WriteMetadata, WriteGate, AbortLaunch, FailFence, FailRead, FailMeta,
      WaitEnds, CancelStep, CancelRead, CancelMeta, CancelFence, Sigterm, Grace, KillFence,
      Sigkill, Reap, LostRead, ReconcileRead, ReconcileVerify, Close, CompleteStep, DoneFence,
      DoneRead, DoneMeta, LostStep, LostFence, LostMeta, record

LEMMA NextPace ==
    ASSUME TypeInv, SafeInv, FateInv, [Next]_vars
    PROVE  Pace
<1>1. attempt \in AttemptRecords
  BY DEF TypeInv, RecordOK
<1>2. ASSUME NEW s \in Supervisor, MonitorStep(s) PROVE Pace
  <2>1. CASE DoneCommit(s, "monitor")
    BY <1>1, <2>1 DEF DoneCommit, Verdict, Pace, Finished, TerminalStates, Revise, AttemptRecords
  <2>2. CASE LostCommit(s, "monitor")
    BY <1>1, <2>2 DEF LostCommit, Pace, Finished, TerminalStates, Revise, AttemptRecords
  <2>3. CASE UNCHANGED attempt
    BY <2>3 DEF Pace
  <2> QED
    BY <1>2, <2>1, <2>2, <2>3
    DEF MonitorStep, Monitor, LoopFence, LoopRead, LoopVerify, CompleteStep, DoneFence,
        DoneRead, DoneMeta, LostStep, LostFence, LostMeta, record
<1>3. ASSUME NEW s \in Supervisor, Heartbeat(s) \/ ShimStep(s) \/ Chance(s) PROVE Pace
  BY <1>3 DEF Pace, Heartbeat, ShimStep, ShimEof, ShimExec, ShimReap, Chance,
     BeginCommand, WaitInterrupted, StopServing, Interrupt, Exit, TargetExit, ShimKilled, record
<1>4. CASE UserHold \/ UserResolve
  BY <1>1, <1>4 DEF UserHold, UserResolve, Pace, AttemptRecords
<1>5. CASE GoesStale \/ UNCHANGED vars
  BY <1>5 DEF GoesStale, Pace, record, vars
<1> QED
  BY <1>2, <1>3, <1>4, <1>5, MainPace DEF Next

LEMMA FloorStep ==
    ASSUME TypeInv, FateInv, FloorInv, RecordMoves
    PROVE  FloorInv'
<1>1. attempt.revision \in Nat /\ attempt.revision >= 1
  BY RevisionGrows DEF FateInv, KnowsInv
<1> QED
  BY <1>1 DEF FloorInv, RecordMoves, LegalTransition, ExecutionStep, LiveStatuses

\* Once the process is gone, no step begins a cancellation.
NoneBegins ==
    ProcessGone => \A q \in Supervisor : pc'[q]["main"] = "cancel_commit" =>
        pc'[q]["main"] = pc[q]["main"] /\ seen'[q]["main"] = seen[q]["main"]

\* A revision leaves the count of those before it true and can be counted in.
LEMMA TurnedStep ==
    ASSUME TypeInv, FateInv, Pace, NoneBegins, ProcessGone, NEW k \in Nat, Turned(k)
    PROVE  /\ Finished' \/ Turned(k)'
           /\ UNCHANGED attempt \/ Finished' \/ Turned(k + 1)'
<1>1. attempt.revision \in Nat /\ MaxRevision \in Nat
  BY SupervisorAssumption DEF TypeInv, RecordOK, AttemptRecords
<1>2. \A q \in Supervisor :
        seen[q]["main"].revision \in Nat /\ seen[q]["main"].revision <= attempt.revision
  BY SeenRecord DEF FateInv, KnowsInv, Knows, KnowsRecord, Thread
<1>3. CASE UNCHANGED attempt
  <2>1. CancelsLate => CancelsLate'
    BY <1>3 DEF CancelsLate, NoneBegins
  <2> QED
    BY <1>3, <2>1 DEF Turned
<1>4. CASE attempt'.revision = attempt.revision + 1 /\ ~Finished'
  <2>1. CancelsLate'
    BY <1>1, <1>2, <1>4 DEF CancelsLate, NoneBegins
  <2>2. \/ k = 0 /\ attempt'.execution = "cancel_requested"
        \/ attempt'.execution = attempt.execution /\ attempt.revision < MaxRevision
    BY <1>1, <1>4 DEF Pace, Turned, LiveStatuses
  <2> QED
    BY <1>1, <1>4, <2>1, <2>2 DEF Turned, LiveStatuses
<1> QED
  BY <1>3, <1>4 DEF Pace, Turned

\* What a step does to the completions that is none of theirs: it takes no
\* thread into one, and out of one only by the end of the command.
TurnSteps == {"done_read", "done_commit", "cancel_commit"}
GivenUp == {"done_commit", "interrupted", "exited", "watch", "loop_fence"}
Turnless ==
    \A s \in Supervisor, t \in Thread :
        /\ pc'[s][t] \in TurnSteps =>
             \/ /\ pc'[s][t] = pc[s][t]
                /\ tries'[s][t] = tries[s][t] /\ seen'[s][t] = seen[s][t]
             \/ pc'[s][t] = "cancel_commit" /\ ~ProcessGone
        /\ pc[s][t] = "done_commit" => pc'[s][t] \in GivenUp

LEMMA TurnKept ==
    ASSUME TypeInv, FateInv, RecordMoves, Pace, NoneBegins,
           NEW s \in Supervisor, NEW t \in Thread, Turn(s, t),
           pc'[s][t] \in {"done_read", "done_commit"} =>
               /\ pc'[s][t] = pc[s][t]
               /\ tries'[s][t] = tries[s][t] /\ seen'[s][t] = seen[s][t]
    PROVE  Turn(s, t)'
<1>1. PICK k \in Nat : k = tries[s][t]
  BY SupervisorAssumption DEF TypeInv, ThreadsInv, ThreadsOK
<1>2. Finished => Finished'
  BY TerminalStays
<1>3. pc[s][t] \in DoneSteps => ProcessGone
  BY DEF FateInv, KnowsInv, Knows, KnowsDone
<1>4. CASE pc'[s][t] = "done_read"
  <2>1. Finished \/ Turned(k)
    BY <1>1, <1>4 DEF Turn
  <2>2. Finished' \/ Turned(k)'
    BY <1>2, <1>3, <1>4, <2>1, TurnedStep DEF DoneSteps
  <2>3. tries'[s][t] = k
    BY <1>1, <1>4
  <2> QED
    BY <1>4, <2>2, <2>3 DEF Turn
<1>5. CASE pc'[s][t] = "done_commit"
  <2>1. Finished \/ (attempt = seen[s][t] /\ Turned(k)) \/ Turned(k + 1)
    BY <1>1, <1>5 DEF Turn
  <2>2. \/ Finished'
        \/ attempt' = seen[s][t] /\ Turned(k)'
        \/ Turned(k + 1)'
    BY <1>2, <1>3, <1>5, <2>1, TurnedStep DEF DoneSteps
  <2>3. tries'[s][t] = k /\ seen'[s][t] = seen[s][t]
    BY <1>1, <1>5
  <2> QED
    BY <1>5, <2>2, <2>3 DEF Turn
<1> QED
  BY <1>4, <1>5 DEF Turn

LEMMA TurnlessBegins == ASSUME Turnless PROVE NoneBegins
  BY DEF Turnless, NoneBegins, TurnSteps, Thread

LEMMA GotoTurnless ==
    ASSUME TypeInv, NEW s \in Supervisor, NEW t \in Thread, NEW step, step \notin TurnSteps,
           Goto(s, t, step), pc[s][t] # "done_commit" \/ step \in GivenUp, NEW rec, NEW count,
           seen' \in {seen, [seen EXCEPT ![s][t] = rec]},
           tries' \in {tries, [tries EXCEPT ![s][t] = count]}
    PROVE  Turnless
  BY DEF Goto, Turnless, GivenUp, TypeInv, ThreadsInv, ThreadsOK

LEMMA FenceTurnless ==
    ASSUME TypeInv, NEW s \in Supervisor, NEW t \in Thread, pc[s][t] # "done_commit",
           NEW passed, passed \notin TurnSteps, NEW failed, failed \notin TurnSteps,
           Fence(s, t, passed, failed), UNCHANGED <<seen, tries>>
    PROVE  Turnless
  BY GotoTurnless DEF Fence

LEMMA ThreadsTurnless == ASSUME UNCHANGED <<pc, seen, tries>> PROVE Turnless
  BY DEF Turnless, GivenUp

LEMMA ReturnTurnless == \A s \in Supervisor, t \in Thread : Return(s, t) \notin TurnSteps
  BY DEF Return, TurnSteps

LEMMA LaunchTurnless ==
    ASSUME TypeInv, NEW s \in Supervisor, LaunchStep(s)
    PROVE  Turnless
<1> USE DEF TurnSteps, GivenUp, Thread
<1>1. CASE Preflight(s)
  BY <1>1, GotoTurnless DEF Preflight
<1>2. CASE ReplayLaunch(s)
  BY <1>2, GotoTurnless DEF ReplayLaunch
<1>3. CASE FenceManifest(s)
  BY <1>3, FenceTurnless DEF FenceManifest
<1>4. CASE CommitLaunching(s)
  BY <1>4, GotoTurnless DEF CommitLaunching
<1>5. CASE Spawn(s)
  BY <1>5, GotoTurnless DEF Spawn
<1>6. CASE FenceRunning(s)
  BY <1>6, FenceTurnless DEF FenceRunning
<1>7. CASE WriteMetadata(s)
  BY <1>7, GotoTurnless DEF WriteMetadata
<1>8. CASE CommitRunning(s)
  <2>1. CASE pc' = [pc EXCEPT ![s] = [main |-> "write_gate", monitor |-> "watch"]]
    <3>1. /\ \A q \in Supervisor \ {s} :
               pc'[q] = pc[q] /\ seen'[q] = seen[q] /\ tries'[q] = tries[q]
          /\ \A t \in Thread : pc'[s][t] \in {"write_gate", "watch"}
          /\ pc[s]["main"] = "commit_running"
      BY <1>8, <2>1 DEF CommitRunning, TypeInv, ThreadsInv, ThreadsOK
    <3>2. pc'[s]["monitor"] = "watch"
      BY <2>1 DEF TypeInv, ThreadsInv, ThreadsOK
    <3> QED
      BY <3>1, <3>2 DEF Turnless
  <2> QED
    BY <1>8, <2>1, GotoTurnless DEF CommitRunning
<1>9. CASE WriteGate(s)
  BY <1>9, GotoTurnless DEF WriteGate
<1>10. CASE AbortLaunch(s)
  BY <1>10, GotoTurnless DEF AbortLaunch
<1>11. CASE FailFence(s)
  <2>1. PICK step \in {"fail_read", "close"} : Goto(s, "main", step)
    BY <1>11 DEF FailFence, Fence
  <2>2. pc[s]["main"] = "fail_fence" /\ UNCHANGED seen
    BY <1>11 DEF FailFence
  <2>3. \A q \in Supervisor, t \in Thread : q # s \/ t # "main" =>
          pc'[q][t] = pc[q][t] /\ tries'[q][t] = tries[q][t]
    BY <1>11, <2>1, GotoAt DEF FailFence, TypeInv, ThreadsInv, ThreadsOK
  <2>4. pc'[s]["main"] = step
    BY <2>1, GotoAt
  <2> QED
    BY <2>2, <2>3, <2>4 DEF Turnless
<1>12. CASE FailRead(s)
  BY <1>12, GotoTurnless DEF FailRead
<1>13. CASE FailCommit(s)
  BY <1>13, GotoTurnless DEF FailCommit
<1>14. CASE FailMeta(s)
  BY <1>14, GotoTurnless DEF FailMeta
<1> QED
  BY <1>1, <1>2, <1>3, <1>4, <1>5, <1>6, <1>7, <1>8, <1>9, <1>10, <1>11, <1>12, <1>13, <1>14
  DEF LaunchStep

LEMMA CancelTurnless ==
    ASSUME TypeInv, NEW s \in Supervisor, CancelStep(s)
    PROVE  Turnless
<1> USE DEF TurnSteps, GivenUp, Thread
<1>1. CASE CancelRead(s)
  <2>1. /\ Goto(s, "main", CancelFrom(attempt)) /\ seen' = [seen EXCEPT ![s]["main"] = attempt]
        /\ UNCHANGED tries /\ pc[s]["main"] = "cancel_read"
    BY <1>1 DEF CancelRead
  <2>2. CASE CancelFrom(attempt) = "cancel_commit"
    <3>1. ~ProcessGone
      BY <2>2 DEF CancelFrom, Verified, LiveShim, ProcessGone
    <3>2. /\ pc'[s]["main"] = "cancel_commit"
          /\ \A q \in Supervisor, u \in Thread : q # s \/ u # "main" =>
                pc'[q][u] = pc[q][u] /\ seen'[q][u] = seen[q][u]
      BY <2>1, <2>2, GotoAt DEF TypeInv, ThreadsInv, ThreadsOK
    <3> QED
      BY <2>1, <3>1, <3>2 DEF Turnless
  <2>3. CancelFrom(attempt) \in {"close", "cancel_fence", "cancel_commit"}
    BY DEF CancelFrom
  <2> QED
    BY <2>1, <2>2, <2>3, GotoTurnless
<1>2. CASE CancelCommit(s)
  BY <1>2, GotoTurnless DEF CancelCommit
<1>3. CASE CancelMeta(s)
  BY <1>3, GotoTurnless DEF CancelMeta
<1>4. CASE CancelFence(s)
  BY <1>4, GotoTurnless, FenceTurnless DEF CancelFence
<1>5. CASE Sigterm(s)
  BY <1>5, GotoTurnless DEF Sigterm
<1>6. CASE Grace(s)
  BY <1>6, GotoTurnless DEF Grace
<1>7. CASE KillFence(s)
  BY <1>7, FenceTurnless DEF KillFence
<1>8. CASE Sigkill(s)
  BY <1>8, GotoTurnless DEF Sigkill
<1>9. CASE Reap(s)
  BY <1>9, GotoTurnless DEF Reap
<1> QED
  BY <1>1, <1>2, <1>3, <1>4, <1>5, <1>6, <1>7, <1>8, <1>9 DEF CancelStep

LEMMA LostTurnless ==
    ASSUME TypeInv, NEW s \in Supervisor, NEW t \in Thread, LostStep(s, t) \/ DoneMeta(s, t)
    PROVE  Turnless
<1> USE ReturnTurnless DEF TurnSteps, GivenUp
<1>1. CASE LostFence(s, t)
  BY <1>1, FenceTurnless DEF LostFence
<1>2. CASE LostCommit(s, t)
  BY <1>2, GotoTurnless DEF LostCommit
<1>3. CASE LostMeta(s, t)
  BY <1>3, GotoTurnless DEF LostMeta
<1>4. CASE DoneMeta(s, t)
  BY <1>4, GotoTurnless DEF DoneMeta
<1> QED
  BY <1>1, <1>2, <1>3, <1>4 DEF LostStep

LEMMA ThreadTurnless ==
    ASSUME TypeInv, NEW s \in Supervisor,
           \/ EnsureLease(s) \/ WaitEnds(s) \/ LostRead(s) \/ ReconcileRead(s)
           \/ ReconcileVerify(s) \/ Close(s)
           \/ Monitor(s) \/ LoopFence(s) \/ LoopRead(s) \/ LoopVerify(s)
    PROVE  Turnless
<1> USE DEF TurnSteps, GivenUp, Thread
<1>1. CASE EnsureLease(s)
  BY <1>1, GotoTurnless, FenceTurnless DEF EnsureLease, EnsureLeaseNext
<1>2. CASE WaitEnds(s)
  BY <1>2, GotoTurnless DEF WaitEnds
<1>3. CASE LostRead(s)
  BY <1>3, GotoTurnless, ReturnTurnless DEF LostRead
<1>4. CASE ReconcileRead(s)
  BY <1>4, GotoTurnless DEF ReconcileRead
<1>5. CASE ReconcileVerify(s)
  <2>1. CASE pc' = [pc EXCEPT ![s] = [main |-> "serve", monitor |-> "loop_fence"]]
    BY <1>5, <2>1 DEF ReconcileVerify, Turnless, TypeInv, ThreadsInv, ThreadsOK
  <2> QED
    BY <1>5, <2>1, GotoTurnless DEF ReconcileVerify
<1>6. CASE Close(s)
  BY <1>6, GotoTurnless DEF Close
<1>7. CASE Monitor(s)
  BY <1>7, GotoTurnless DEF Monitor
<1>8. CASE LoopFence(s)
  BY <1>8, FenceTurnless DEF LoopFence
<1>9. CASE LoopRead(s)
  BY <1>9, GotoTurnless DEF LoopRead
<1>10. CASE LoopVerify(s)
  BY <1>10, GotoTurnless DEF LoopVerify
<1> QED
  BY <1>1, <1>2, <1>3, <1>4, <1>5, <1>6, <1>7, <1>8, <1>9, <1>10

LEMMA ChanceTurnless ==
    ASSUME TypeInv, NEW s \in Supervisor, Chance(s)
    PROVE  Turnless
<1> USE DEF TurnSteps, GivenUp, Thread
<1>1. ASSUME NEW c, BeginCommand(s, c) PROVE Turnless
  BY <1>1, GotoTurnless DEF BeginCommand
<1>2. CASE WaitInterrupted(s)
  BY <1>2, GotoTurnless DEF WaitInterrupted
<1>3. CASE StopServing(s)
  BY <1>3, GotoTurnless DEF StopServing
<1>4. CASE Interrupt(s)
  BY <1>4, GotoTurnless DEF Interrupt
<1>5. CASE Exit(s)
  BY <1>5 DEF Exit, Turnless, TypeInv, ThreadsInv, ThreadsOK
<1>6. ASSUME NEW status, TargetExit(s, status) PROVE Turnless
  BY <1>6, ThreadsTurnless DEF TargetExit, threads
<1>7. CASE ShimKilled(s)
  BY <1>7, ThreadsTurnless DEF ShimKilled, threads
<1> QED
  BY <1>1, <1>2, <1>3, <1>4, <1>5, <1>6, <1>7 DEF Chance

\* A completion starts with no turn spent, on a record that is live or over.
LEMMA ConcludesLive ==
    ASSUME TypeInv, FateInv, FloorInv, NEW s \in Supervisor, NEW t \in Thread,
           pc[s][t] \in DoneSteps
    PROVE  Finished \/ Turned(0)
<1>1. attempt.proof # None
  BY DEF FateInv, KnowsInv, Knows, KnowsDone, ProcessGone
<1>2. Finished \/ attempt.execution \in LiveStatuses
  BY <1>1 DEF FateInv, LauncherInv, Finished, TerminalStates, LiveStatuses, TypeInv, RecordOK,
     AttemptRecords, ExecutionStates
<1>3. attempt.revision \in Nat
  BY DEF TypeInv, RecordOK, AttemptRecords
<1>4. ASSUME attempt.execution \in LiveStatuses PROVE Turned(0)
  <2>1. attempt.revision >= 3
    BY <1>4 DEF FloorInv
  <2>2. attempt.revision >= 3 + 0 /\ ~(0 > 0) /\ ~(0 > 1)
    BY <1>3, <2>1
  <2> QED
    BY <1>4, <2>2 DEF Turned
<1> QED
  BY <1>2, <1>4

\* A refused verdict means that the record has moved: nothing else is against it.
LEMMA RefusedTurned ==
    ASSUME TypeInv, SafeInv, FateInv, NEW s \in Supervisor, NEW t \in Thread, Turn(s, t),
           pc[s][t] = "done_commit", ~Accepts(s, t, Revise(Verdict(s, t)))
    PROVE  Finished \/ Turned(tries[s][t] + 1)
<1> DEFINE new == Revise(Verdict(s, t))
<1> SUFFICES ASSUME attempt = seen[s][t] PROVE FALSE
  BY DEF Turn
<1>1. attempt \in AttemptRecords
  BY DEF TypeInv, RecordOK
<1>2. attempt.execution \in LiveStatuses
  BY DEF FateInv, KnowsInv, Knows, KnowsDone
<1>3. /\ new.execution = Verdict(s, t) /\ new.revision = attempt.revision + 1
      /\ new.manifest = attempt.manifest /\ new.proof = attempt.proof
      /\ new.control = attempt.control
  BY <1>1 DEF Revise, AttemptRecords
<1>4. \/ attempt.execution = "cancel_requested" /\ Verdict(s, t) = "cancelled"
      \/ attempt.execution = "running" /\ Verdict(s, t) \in {"succeeded", "failed"}
  BY <1>2 DEF Verdict, LiveStatuses
<1>5. LegalTransition(attempt, new)
  BY <1>3, <1>4 DEF LegalTransition, ManifestFrozen, ProofFrozen, ExecutionStep, ActiveStates
<1> QED
  BY <1>5 DEF Accepts

Turns(s, t) == DoneFence(s, t) \/ DoneRead(s, t) \/ DoneCommit(s, t)

LEMMA TurnsMove ==
    ASSUME TypeInv, FateInv, NEW s \in Supervisor, NEW t \in Thread, Turns(s, t)
    PROVE  /\ ProcessGone /\ NoneBegins
           /\ \A q \in Supervisor, u \in Thread : q # s \/ u # t =>
                pc'[q][u] = pc[q][u] /\ tries'[q][u] = tries[q][u] /\ seen'[q][u] = seen[q][u]
<1>1. PICK step \in {"done_read", "done_commit", "done_meta", Return(s, t)} : Goto(s, t, step)
  BY DEF Turns, DoneFence, Fence, DoneRead, DoneCommit
<1>2. \A q \in Supervisor, u \in Thread : q # s \/ u # t =>
         pc'[q][u] = pc[q][u] /\ tries'[q][u] = tries[q][u] /\ seen'[q][u] = seen[q][u]
  BY <1>1, GotoAt DEF Turns, DoneFence, DoneRead, DoneCommit, TypeInv, ThreadsInv, ThreadsOK
<1>3. ProcessGone
  BY DEF Turns, DoneFence, DoneRead, DoneCommit, FateInv, KnowsInv, Knows, KnowsDone, DoneSteps
<1>4. pc'[s][t] # "cancel_commit"
  BY <1>1, GotoAt, ReturnTurnless DEF TurnSteps
<1> QED
  BY <1>2, <1>3, <1>4 DEF NoneBegins, Thread

LEMMA TurnsTaken ==
    ASSUME TypeInv, SafeInv, FateInv, Pace, TurnInv,
           NEW s \in Supervisor, NEW t \in Thread, Turns(s, t)
    PROVE  Turn(s, t)'
<1>0. Turn(s, t) /\ FloorInv
  BY DEF TurnInv
<1>1. PICK k \in Nat : k = tries[s][t]
  BY SupervisorAssumption DEF TypeInv, ThreadsInv, ThreadsOK
<1>2. ASSUME NEW n \in Nat, UNCHANGED attempt, Finished \/ Turned(n)
      PROVE  Finished' \/ Turned(n)'
  BY <1>2, TurnsMove, TurnedStep DEF Finished
<1>3. CASE DoneFence(s, t)
  <2>1. PICK step \in {"done_read", Return(s, t)} : Goto(s, t, step)
    BY <1>3 DEF DoneFence, Fence
  <2>2. tries' = [tries EXCEPT ![s][t] = 0] /\ UNCHANGED attempt /\ pc[s][t] \in DoneSteps
    BY <1>3 DEF DoneFence, record, DoneSteps
  <2>3. tries'[s][t] = 0 /\ pc'[s][t] = step
    BY <2>1, <2>2, GotoAt DEF TypeInv, ThreadsInv, ThreadsOK
  <2>4. Finished' \/ Turned(0)'
    BY <1>0, <1>2, <2>2, ConcludesLive
  <2> QED
    BY <2>3, <2>4, ReturnTurnless DEF Turn, TurnSteps
<1>4. CASE DoneRead(s, t)
  <2>1. /\ seen' = [seen EXCEPT ![s][t] = attempt] /\ UNCHANGED <<attempt, tries>>
        /\ pc[s][t] = "done_read"
        /\ Goto(s, t, IF Finished THEN "done_meta" ELSE "done_commit")
    BY <1>4 DEF DoneRead, record
  <2>2. seen'[s][t] = attempt /\ pc'[s][t] = IF Finished THEN "done_meta" ELSE "done_commit"
    BY <2>1, GotoAt DEF TypeInv, ThreadsInv, ThreadsOK
  <2>3. Finished' \/ Turned(k)'
    BY <1>0, <1>1, <1>2, <2>1 DEF Turn
  <2>4. tries'[s][t] = k /\ attempt' = seen'[s][t]
    BY <1>1, <2>1, <2>2
  <2> QED
    BY <2>2, <2>3, <2>4 DEF Turn
<1>5. CASE DoneCommit(s, t)
  <2> DEFINE new == Revise(Verdict(s, t))
  <2>1. CASE Accepts(s, t, new)
    BY <1>5, <2>1, GotoAt DEF DoneCommit, Turn
  <2>2. CASE ~Accepts(s, t, new)
    <3>1. PICK step \in {"done_read", Return(s, t)} : Goto(s, t, step)
      BY <1>5, <2>2 DEF DoneCommit
    <3>2. /\ tries' = [tries EXCEPT ![s][t] = k + 1] /\ UNCHANGED attempt
          /\ pc[s][t] = "done_commit"
      BY <1>1, <1>5, <2>2 DEF DoneCommit
    <3>3. tries'[s][t] = k + 1 /\ pc'[s][t] = step
      BY <3>1, <3>2, GotoAt DEF TypeInv, ThreadsInv, ThreadsOK
    <3>4. Finished \/ Turned(k + 1)
      BY <1>0, <1>1, <2>2, <3>2, RefusedTurned
    <3>5. Finished' \/ Turned(k + 1)'
      BY <1>2, <3>2, <3>4
    <3> QED
      BY <3>3, <3>5, ReturnTurnless DEF Turn, TurnSteps
  <2> QED
    BY <2>1, <2>2
<1> QED
  BY <1>3, <1>4, <1>5 DEF Turns

LEMMA NextTurns ==
    ASSUME TypeInv, [Next]_vars
    PROVE  Turnless \/ \E s \in Supervisor, t \in Thread : Turns(s, t)
<1>1. ASSUME NEW s \in Supervisor, NEW t \in Thread, CompleteStep(s, t)
      PROVE  Turnless \/ Turns(s, t)
  BY <1>1, LostTurnless DEF CompleteStep, Turns
<1>2. ASSUME NEW s \in Supervisor, MainStep(s)
      PROVE  Turnless \/ Turns(s, "main")
  BY <1>1, <1>2, LaunchTurnless, CancelTurnless, LostTurnless, ThreadTurnless DEF MainStep, Thread
<1>3. ASSUME NEW s \in Supervisor, MonitorStep(s)
      PROVE  Turnless \/ Turns(s, "monitor")
  BY <1>1, <1>3, LostTurnless, ThreadTurnless DEF MonitorStep, Thread
<1>4. ASSUME NEW s \in Supervisor, Heartbeat(s) \/ ShimStep(s) PROVE Turnless
  BY <1>4, ThreadsTurnless DEF Heartbeat, ShimStep, ShimEof, ShimExec, ShimReap, threads
<1>5. CASE GoesStale \/ UserHold \/ UserResolve \/ UNCHANGED vars
  BY <1>5, ThreadsTurnless DEF GoesStale, UserHold, UserResolve, threads, vars
<1> QED
  BY <1>2, <1>3, <1>4, <1>5, ChanceTurnless DEF Next, Thread

LEMMA NextTurn == ASSUME TypeInv, SafeInv, FateInv, TurnInv, [Next]_vars PROVE TurnInv'
<1>1. RecordMoves /\ Pace /\ FloorInv'
  BY RecordStep, NextPace, FloorStep DEF TurnInv
<1>2. CASE Turnless
  BY <1>1, <1>2, TurnKept, TurnlessBegins DEF TurnInv, Turnless, TurnSteps
<1>3. ASSUME NEW s \in Supervisor, NEW t \in Thread, Turns(s, t) PROVE TurnInv'
  <2> SUFFICES ASSUME NEW q \in Supervisor, NEW u \in Thread PROVE Turn(q, u)'
    BY <1>1 DEF TurnInv
  <2>1. CASE q = s /\ u = t
    BY <1>1, <1>3, <2>1, TurnsTaken
  <2>2. CASE q # s \/ u # t
    BY <1>1, <1>3, <2>2, TurnsMove, TurnKept DEF TurnInv
  <2> QED
    BY <2>1, <2>2
<1> QED
  BY <1>2, <1>3, NextTurns

\* Only its own append takes a thread back from "done_commit" to its caller.
LEMMA CommitReturns ==
    ASSUME TypeInv, SafeInv, FateInv, TurnInv, [Next]_vars, NEW s \in Supervisor,
           NEW t \in Thread, pc[s][t] = "done_commit", pc'[s][t] = Return(s, t)
    PROVE  DoneCommit(s, t)
<1>1. pc'[s][t] \notin GivenUp
  BY DEF Return, GivenUp
<1>2. PICK q \in Supervisor, u \in Thread : Turns(q, u)
  BY <1>1, NextTurns DEF Turnless
<1>3. q = s /\ u = t
  BY <1>1, <1>2, TurnsMove DEF GivenUp
<1> QED
  BY <1>2, <1>3 DEF Turns, DoneFence, DoneRead

LEMMA TurnInvariant == Spec => []TurnInv
<1>1. Init => TurnInv
  BY DEF Init, TurnInv, FloorInv, LiveStatuses, Turn, Thread
<1> QED
  BY <1>1, NextTurn, TypeInvariant, SafeInvariant, FateInvariant, PTL DEF Spec

\* A completion that has a turn for a cancellation, and one more than the
\* revisions that users may make of a live attempt (MaxRevision - 3), never ends
\* with its verdict unrecorded.  The code has three turns and no bound on its
\* users: three holds that each land between a read and its append do cost it
\* the verdict.
THEOREM VerdictKept ==
    ASSUME MaxTries > 1, MaxRevision < MaxTries + 3
    PROVE  Spec => VerdictIsKept
<1>1. ASSUME TypeInv, SafeInv, FateInv, TurnInv, [Next]_vars, NEW s \in Supervisor,
             NEW t \in Thread, pc[s][t] = "done_commit", pc'[s][t] = Return(s, t)
      PROVE  Finished'
  <2>1. DoneCommit(s, t)
    BY <1>1, CommitReturns
  <2>2. ~Accepts(s, t, Revise(Verdict(s, t))) /\ UNCHANGED attempt
    BY <1>1, <2>1, GotoAt, ReturnFree DEF DoneCommit, FreeSteps
  <2>3. ~Retries(tries[s][t] + 1) \/ attempt.execution = Verdict(s, t)
    BY <1>1, <2>1, <2>2, GotoAt, ReturnFree DEF DoneCommit, FreeSteps
  <2>4. CASE attempt.execution = Verdict(s, t)
    BY <2>2, <2>4 DEF Verdict, Finished, TerminalStates
  <2>5. CASE ~Retries(tries[s][t] + 1)
    <3>1. tries[s][t] \in Nat /\ MaxTries \in Nat /\ MaxRevision \in Nat
      BY <1>1, SupervisorAssumption DEF TypeInv, ThreadsInv, ThreadsOK
    <3>2. ~Turned(tries[s][t] + 1)
      BY <2>5, <3>1 DEF Retries, Turned, LiveStatuses
    <3> QED
      BY <1>1, <2>2, <3>2, RefusedTurned DEF TurnInv, Finished
  <2> QED
    BY <2>3, <2>4, <2>5
<1>2. TypeInv /\ SafeInv /\ FateInv /\ TurnInv /\ [Next]_vars =>
        \A s \in Supervisor, t \in Thread :
            pc[s][t] = "done_commit" /\ pc'[s][t] = Return(s, t)
                => attempt'.execution \in TerminalStates
  BY <1>1 DEF Finished
<1> QED
  BY <1>2, TypeInvariant, SafeInvariant, FateInvariant, TurnInvariant, PTL DEF Spec, VerdictIsKept
=============================================================================
