-------------------------- MODULE OwnedSupervisor --------------------------
(***************************************************************************)
(* The supervisor that launches, watches, cancels and recovers one         *)
(* attempt (supervisor.py), with the three stores it writes: the attempt   *)
(* record in the control store, metadata.json in the run directory and the *)
(* supervisor lease.  Each member of Supervisor is one operating system    *)
(* process that runs one command of cli.py ("control launch", "control     *)
(* cancel", "control reconcile") or the recovery of api.py; the thread     *)
(* "main" runs the command and the thread "monitor" the background monitor *)
(* the command starts.  A supervisor spawns at most one child, so the      *)
(* child's process identity (pid, birth time, nonce, ...) is the           *)
(* supervisor's own name; it is what the proof fields of the record and of *)
(* the metadata hold.                                                      *)
(*                                                                         *)
(* A step is one call that other processes can see: a projection read, a   *)
(* compare-and-swap append, a metadata write, a lease read-and-write under *)
(* its flock, a signal.  Two supervisors, their threads, the children and  *)
(* the user's approval commands interleave between any two of them.        *)
(*                                                                         *)
(* Operators named Mutant... are not part of the model: each is a wrong    *)
(* version of the definition that follows it, which a property must refute.*)
(***************************************************************************)
EXTENDS AttemptRecord

CONSTANTS
    Supervisor,     \* supervisor processes, each living once
    Commands,       \* per supervisor: the commands it may be asked to run
    MaxRevision,    \* bound: users revise the attempt only below this revision
    MaxTries        \* attempts of a retry loop (3 in the code)

ASSUME SupervisorAssumption ==
    /\ None \notin Supervisor
    /\ Commands \in [Supervisor -> SUBSET {"launch", "cancel", "reconcile"}]
    /\ MaxRevision \in Nat
    /\ MaxTries \in Nat \ {0}

VARIABLES
    attempt,    \* the attempt in the control store's projection
    meta,       \* metadata.json of the run: its status and its process proof
    rundir,     \* whether the run directory exists
    owner,      \* lease_id in state.json while its state is "running", else None
    fresh,      \* whether the lease's last heartbeat is younger than stale_after
    grip,       \* per supervisor: lease never "held", "held", or "lost"/released
    command,    \* per supervisor: the command it runs
    pc,         \* per supervisor and thread: the next step
    seen,       \* per supervisor and thread: the record the step works from
    tries,      \* per supervisor and thread: turns of the retry loop it is in
    shim,       \* per supervisor: state of the launch shim it spawned
    target,     \* per supervisor: state of the agent process behind the shim
    gate,       \* per supervisor: the pipe the shim reads before it execs
    termed,     \* per supervisor: the shim's cancel_requested flag (SIGTERM seen)
    code        \* per supervisor: exit status the shim ends with

record == <<attempt, meta, rundir>>
lease == <<owner, fresh, grip>>
process == <<shim, target, gate, termed, code>>
threads == <<command, pc, seen, tries>>
vars == <<attempt, meta, rundir, owner, fresh, grip, command, pc, seen, tries,
          shim, target, gate, termed, code>>

Thread == {"main", "monitor"}
LiveStatuses == {"running", "cancel_requested"}
LiveShim == {"gated", "running", "paused"}

AttemptRecords == [execution: ExecutionStates, control: ControlStates,
                   manifest: BOOLEAN, proof: Supervisor \cup {None}, revision: Nat]

Metadata == [status: {"none"} \cup ExecutionStates, proof: Supervisor \cup {None}]

NothingRead == [execution |-> "pending", control |-> "ready", manifest |-> FALSE,
                proof |-> None, revision |-> 0]

MainSteps ==
    {"new", "lease", "preflight", "fence_manifest", "commit_launching", "spawn",
     "fence_running", "write_metadata", "commit_running", "write_gate", "abort",
     "fail_fence", "fail_read", "fail_commit", "fail_meta", "wait",
     "cancel_read", "cancel_commit", "cancel_meta", "cancel_fence", "sigterm",
     "grace", "kill_fence", "sigkill", "reap", "reconcile_read",
     "reconcile_verify", "serve", "interrupted", "close", "closed", "exited"}
MonitorSteps == {"none", "watch", "loop_fence", "loop_read", "loop_verify", "ended", "exited"}
SharedSteps == {"done_fence", "done_read", "done_commit", "done_meta",
                "lost_read", "lost_fence", "lost_commit", "lost_meta"}

Steps == MainSteps \cup MonitorSteps \cup SharedSteps

RecordOK ==
    /\ attempt \in AttemptRecords
    /\ meta \in Metadata
    /\ rundir \in BOOLEAN

LeaseOK ==
    /\ owner \in Supervisor \cup {None}
    /\ fresh \in BOOLEAN
    /\ grip \in [Supervisor -> {"none", "held", "lost"}]

ProcessOK ==
    /\ shim \in [Supervisor -> {"none", "exited"} \cup LiveShim]
    /\ target \in [Supervisor -> {"none", "running", "exited"}]
    /\ gate \in [Supervisor -> {"none", "held", "token", "closed"}]
    /\ termed \in [Supervisor -> BOOLEAN]
    /\ code \in [Supervisor -> {"none", "zero", "nonzero"}]

ThreadsOK ==
    /\ command \in [Supervisor -> {"none", "launch", "cancel", "reconcile"}]
    /\ pc \in [Supervisor -> [Thread -> Steps]]
    /\ seen \in [Supervisor -> [Thread -> AttemptRecords]]
    /\ tries \in [Supervisor -> [Thread -> 0 .. MaxTries]]

\* Every variable has its type; in particular no retry loop turns more often
\* than its range allows.
TypeOK == RecordOK /\ LeaseOK /\ ProcessOK /\ ThreadsOK

Init ==
    /\ \E control \in {"ready", "awaiting_approval"} :
         attempt = [execution |-> "pending", control |-> control,
                    manifest |-> FALSE, proof |-> None, revision |-> 1]
    /\ meta = [status |-> "none", proof |-> None]
    /\ rundir = FALSE
    /\ owner = None
    /\ fresh = FALSE
    /\ grip = [s \in Supervisor |-> "none"]
    /\ command = [s \in Supervisor |-> "none"]
    /\ pc = [s \in Supervisor |-> [t \in Thread |-> IF t = "main" THEN "new" ELSE "none"]]
    /\ seen = [s \in Supervisor |-> [t \in Thread |-> NothingRead]]
    /\ tries = [s \in Supervisor |-> [t \in Thread |-> 0]]
    /\ shim = [s \in Supervisor |-> "none"]
    /\ target = [s \in Supervisor |-> "none"]
    /\ gate = [s \in Supervisor |-> "none"]
    /\ termed = [s \in Supervisor |-> FALSE]
    /\ code = [s \in Supervisor |-> "none"]

-----------------------------------------------------------------------------
(* What the steps are made of.                                             *)

Alive(s) == pc[s]["main"] \notin {"new", "exited"}

Goto(s, t, step) == pc' = [pc EXCEPT ![s][t] = step]

\* Where a thread goes when the call it is in returns: the CLI command closes
\* its supervisor, a recovering supervisor goes on serving, a monitor ends.
Return(s, t) == IF t = "monitor" THEN "ended"
                ELSE IF command[s] = "reconcile" THEN "serve" ELSE "close"

\* ControlStore.transition_attempt: the new revision is built from the record
\* current at the append and accepted only if it follows the revision the
\* caller read.
Revise(execution) == [attempt EXCEPT !.execution = execution, !.revision = @ + 1]
MutantAcceptsStale(s, t, new) == LegalTransition(attempt, new)
Accepts(s, t, new) ==
    /\ attempt.revision = seen[s][t].revision
    /\ LegalTransition(attempt, new)

\* for _retry in range(3)
MutantRetries(again) == again + 1 < MaxTries
Retries(again) == again < MaxTries

\* RunStore._preserve_terminal_or_cancel_state, then the write.
Preserved(proposed) ==
    \/ meta.status \in TerminalStates /\ proposed # meta.status
    \/ meta.status = "cancel_requested" /\ proposed = "running"
UpdateMetadata(status) ==
    meta' = IF meta.status = "none" \/ Preserved(status) THEN meta
            ELSE [meta EXCEPT !.status = status]

\* OwnedSupervisor._verify_attempt_process over RunStore.verify_owned_process:
\* record and metadata hold the same complete proof, the metadata is live, and
\* the process it identifies exists (a zombie does not count).
MutantVerified(rec) ==
    /\ rec.proof # None
    /\ meta.proof = rec.proof
    /\ meta.status = "running"
    /\ shim[rec.proof] \in LiveShim
Verified(rec) ==
    /\ rec.proof # None
    /\ meta.proof = rec.proof
    /\ meta.status \in LiveStatuses
    /\ shim[rec.proof] \in LiveShim

\* killpg finds the group as long as one member of it is left; an exited shim
\* whose status nobody collected still counts, so either answer is possible.
GroupPresent(q) == shim[q] \in LiveShim \/ target[q] = "running"

-----------------------------------------------------------------------------
(* The lease.                                                              *)

HoldsLease(s) == grip[s] = "held" /\ owner = s

\* SupervisorLease.acquire refuses only a fresh lease of another live process.
Available(s) == ~(owner \notin {None, s} /\ fresh /\ Alive(owner))

\* _fence_lease: confirm the lease and renew its heartbeat ...
FencePasses(s) ==
    /\ HoldsLease(s)
    /\ fresh' = TRUE
    /\ UNCHANGED <<owner, grip>>
\* ... or learn that it is lost for good.
FenceFails(s) ==
    /\ ~HoldsLease(s)
    /\ grip' = [grip EXCEPT ![s] = "lost"]
    /\ UNCHANGED <<owner, fresh>>

\* A thread that passes the fence goes to one step, one that fails to another.
Fence(s, t, passed, failed) ==
    \/ FencePasses(s) /\ Goto(s, t, passed)
    \/ FenceFails(s) /\ Goto(s, t, failed)

EnsureLeaseNext(s) == CASE command[s] = "launch" -> "preflight"
                        [] command[s] = "cancel" -> "cancel_read"
                        [] OTHER -> "reconcile_read"

\* _ensure_lease: start() acquires the lease once; a lost one is never retaken.
EnsureLease(s) ==
    /\ pc[s]["main"] = "lease"
    /\ \/ /\ grip[s] = "none" /\ Available(s)
          /\ owner' = s /\ fresh' = TRUE
          /\ grip' = [grip EXCEPT ![s] = "held"]
          /\ Goto(s, "main", EnsureLeaseNext(s))
       \/ /\ grip[s] = "none" /\ ~Available(s)
          /\ Goto(s, "main", "close")
          /\ UNCHANGED lease
       \/ /\ grip[s] # "none"
          /\ Fence(s, "main", EnsureLeaseNext(s), "close")
    /\ UNCHANGED <<record, process, command, seen, tries>>

\* _heartbeat_loop: the third thread of a process, until the lease is released.
Heartbeat(s) ==
    /\ Alive(s) /\ grip[s] = "held"
    /\ \/ FencePasses(s)
       \/ FenceFails(s)
    /\ UNCHANGED <<record, process, threads>>

\* stale_after_seconds pass without a heartbeat: the owner's process is slow,
\* suspended or gone.
GoesStale ==
    /\ owner # None /\ fresh
    /\ fresh' = FALSE
    /\ UNCHANGED <<record, owner, grip, process, threads>>

-----------------------------------------------------------------------------
(* launch_attempt.                                                         *)

BeginCommand(s, c) ==
    /\ pc[s]["main"] = "new"
    /\ command' = [command EXCEPT ![s] = c]
    /\ Goto(s, "main", "lease")
    /\ UNCHANGED <<record, lease, process, seen, tries>>

\* preflight, reduced to the conditions on the attempt itself.
Preflight(s) ==
    /\ pc[s]["main"] = "preflight"
    /\ seen' = [seen EXCEPT ![s]["main"] = attempt]
    /\ Goto(s, "main", IF attempt.execution = "pending" /\ attempt.control = "ready"
                       THEN "fence_manifest" ELSE "close")
    /\ UNCHANGED <<record, lease, process, command, tries>>

\* The same command run again finds its idempotency key in the projection: it
\* returns the committed launch and waits for it in the foreground.
ReplayLaunch(s) ==
    /\ pc[s]["main"] = "preflight"
    /\ attempt.manifest
    /\ Goto(s, "main", "wait")
    /\ UNCHANGED <<record, lease, process, command, seen, tries>>

FenceManifest(s) ==
    /\ pc[s]["main"] = "fence_manifest"
    /\ Fence(s, "main", "commit_launching", "close")
    /\ UNCHANGED <<record, process, command, seen, tries>>

CommitLaunching(s) ==
    LET new == [Revise("launching") EXCEPT !.manifest = TRUE]
    IN  /\ pc[s]["main"] = "commit_launching"
        /\ \/ /\ Accepts(s, "main", new)
              /\ attempt' = new
              /\ seen' = [seen EXCEPT ![s]["main"] = new]
              /\ Goto(s, "main", "spawn")
           \/ /\ ~Accepts(s, "main", new)
              /\ Goto(s, "main", "close")
              /\ UNCHANGED <<attempt, seen>>
        /\ UNCHANGED <<meta, rundir, lease, process, command, tries>>

\* create_run_dir (exist_ok=False), the two pipes, Popen and the readiness
\* handshake; setup and handshake failures end in _record_launch_failure.
Spawn(s) ==
    /\ pc[s]["main"] = "spawn"
    /\ \/ /\ ~rundir
          /\ rundir' = TRUE
          /\ shim' = [shim EXCEPT ![s] = "gated"]
          /\ gate' = [gate EXCEPT ![s] = "held"]
          /\ \/ Goto(s, "main", "fence_running")
             \/ Goto(s, "main", "abort")
       \/ /\ rundir' \in {rundir, TRUE}
          /\ Goto(s, "main", "fail_fence")
          /\ UNCHANGED <<shim, gate>>
    /\ UNCHANGED <<attempt, meta, lease, target, termed, code, command, seen, tries>>

MutantFenceRunning(s) ==
    /\ pc[s]["main"] = "fence_running"
    /\ Fence(s, "main", "write_gate", "abort")
    /\ UNCHANGED <<record, process, command, seen, tries>>
FenceRunning(s) ==
    /\ pc[s]["main"] = "fence_running"
    /\ Fence(s, "main", "write_metadata", "abort")
    /\ UNCHANGED <<record, process, command, seen, tries>>

\* RunStore.write_metadata with the whole ownership proof.
WriteMetadata(s) ==
    /\ pc[s]["main"] = "write_metadata"
    /\ meta' = IF Preserved("running") THEN meta ELSE [status |-> "running", proof |-> s]
    /\ Goto(s, "main", "commit_running")
    /\ UNCHANGED <<attempt, rundir, lease, process, command, seen, tries>>

\* The running revision freezes the proof; then the monitor thread starts.
CommitRunning(s) ==
    LET new == [Revise("running") EXCEPT !.proof = s]
    IN  /\ pc[s]["main"] = "commit_running"
        /\ \/ /\ Accepts(s, "main", new)
              /\ attempt' = new
              /\ seen' = [seen EXCEPT ![s]["main"] = new]
              /\ pc' = [pc EXCEPT ![s] = [main |-> "write_gate", monitor |-> "watch"]]
           \/ /\ ~Accepts(s, "main", new)
              /\ Goto(s, "main", "abort")
              /\ UNCHANGED <<attempt, seen>>
        /\ UNCHANGED <<meta, rundir, lease, process, command, tries>>

\* fence_and_write_gate: owner check, heartbeat and gate byte under one flock.
\* The write fails when the shim is gone; the identity check before it may too.
WriteGate(s) ==
    /\ pc[s]["main"] = "write_gate"
    /\ \/ /\ FencePasses(s)
          /\ shim[s] = "gated"
          /\ gate' = [gate EXCEPT ![s] = "token"]
          /\ Goto(s, "main", "wait")
       \/ /\ FencePasses(s) /\ shim[s] # "gated"
          /\ Goto(s, "main", "abort")
          /\ UNCHANGED gate
       \/ /\ FenceFails(s)
          /\ Goto(s, "main", "abort")
          /\ UNCHANGED gate
       \/ /\ Goto(s, "main", "abort")
          /\ UNCHANGED <<lease, gate>>
    /\ UNCHANGED <<record, shim, target, termed, code, command, seen, tries>>

\* _abort_blocked_process: close the gate, give the shim a second to leave by
\* itself, else kill it if it is still exactly the process that was spawned.
AbortLaunch(s) ==
    /\ pc[s]["main"] = "abort"
    /\ gate' = [gate EXCEPT ![s] = "closed"]
    /\ \/ UNCHANGED <<shim, code>>
       \/ /\ shim[s] \in LiveShim
          /\ shim' = [shim EXCEPT ![s] = "exited"]
          /\ code' = [code EXCEPT ![s] = "nonzero"]
    /\ Goto(s, "main", "fail_fence")
    /\ UNCHANGED <<record, lease, target, termed, command, seen, tries>>

(* _record_launch_failure.                                                 *)

FailFence(s) ==
    /\ pc[s]["main"] = "fail_fence"
    /\ Fence(s, "main", "fail_read", "close")
    /\ tries' = [tries EXCEPT ![s]["main"] = 0]
    /\ UNCHANGED <<record, process, command, seen>>

FailRead(s) ==
    /\ pc[s]["main"] = "fail_read"
    /\ seen' = [seen EXCEPT ![s]["main"] = attempt]
    /\ Goto(s, "main", IF attempt.execution \in ActiveStates
                       THEN "fail_commit" ELSE "fail_meta")
    /\ UNCHANGED <<record, lease, process, command, tries>>

FailCommit(s) ==
    LET new == Revise("failed")
        again == tries[s]["main"] + 1
    IN  /\ pc[s]["main"] = "fail_commit"
        /\ \/ /\ Accepts(s, "main", new)
              /\ attempt' = new
              /\ Goto(s, "main", "fail_meta")
              /\ UNCHANGED tries
           \/ /\ ~Accepts(s, "main", new)
              /\ tries' = [tries EXCEPT ![s]["main"] = again]
              /\ Goto(s, "main", IF Retries(again) THEN "fail_read" ELSE "fail_meta")
              /\ UNCHANGED attempt
        /\ UNCHANGED <<meta, rundir, lease, process, command, seen>>

FailMeta(s) ==
    /\ pc[s]["main"] = "fail_meta"
    /\ UpdateMetadata("failed")
    /\ Goto(s, "main", "close")
    /\ UNCHANGED <<attempt, rundir, lease, process, command, seen, tries>>

-----------------------------------------------------------------------------
(* wait, in the foreground of "control launch".                            *)

Finished == attempt.execution \in TerminalStates

\* The loop of control_launch: a terminal attempt or a failed heartbeat ends it.
WaitEnds(s) ==
    /\ pc[s]["main"] = "wait"
    /\ \/ Finished /\ UNCHANGED lease
       \/ ~Finished /\ FenceFails(s)
    /\ Goto(s, "main", "close")
    /\ UNCHANGED <<record, process, command, seen, tries>>

\* --timeout-seconds expires, or Ctrl-C: the command cancels what it launched.
WaitInterrupted(s) ==
    /\ pc[s]["main"] = "wait"
    /\ command' = [command EXCEPT ![s] = "cancel"]
    /\ Goto(s, "main", "lease")
    /\ UNCHANGED <<record, lease, process, seen, tries>>

-----------------------------------------------------------------------------
(* cancel_attempt.                                                         *)

\* The proof is checked before the request is recorded, too.
MutantCancelFrom(rec) ==
    IF rec.execution \notin LiveStatuses \/ ~Verified(rec) THEN "close" ELSE "cancel_fence"
CancelFrom(rec) ==
    IF rec.execution \notin LiveStatuses \/ ~Verified(rec) THEN "close"
    ELSE IF rec.execution = "running" THEN "cancel_commit" ELSE "cancel_fence"

CancelRead(s) ==
    /\ pc[s]["main"] = "cancel_read"
    /\ seen' = [seen EXCEPT ![s]["main"] = attempt]
    /\ Goto(s, "main", CancelFrom(attempt))
    /\ UNCHANGED <<record, lease, process, command, tries>>

CancelCommit(s) ==
    LET new == Revise("cancel_requested")
    IN  /\ pc[s]["main"] = "cancel_commit"
        /\ \/ /\ Accepts(s, "main", new)
              /\ attempt' = new
              /\ seen' = [seen EXCEPT ![s]["main"] = new]
              /\ Goto(s, "main", "cancel_meta")
           \/ /\ ~Accepts(s, "main", new)
              /\ Goto(s, "main", "close")
              /\ UNCHANGED <<attempt, seen>>
        /\ UNCHANGED <<meta, rundir, lease, process, command, tries>>

CancelMeta(s) ==
    /\ pc[s]["main"] = "cancel_meta"
    /\ UpdateMetadata("cancel_requested")
    /\ Goto(s, "main", "cancel_fence")
    /\ UNCHANGED <<attempt, rundir, lease, process, command, seen, tries>>

\* Proof, fence and proof again, before the first signal.
CancelFence(s) ==
    /\ pc[s]["main"] = "cancel_fence"
    /\ \/ Verified(seen[s]["main"]) /\ Fence(s, "main", "sigterm", "close")
       \/ ~Verified(seen[s]["main"]) /\ Goto(s, "main", "close") /\ UNCHANGED lease
    /\ UNCHANGED <<record, process, command, seen, tries>>

\* killpg(SIGTERM): the shim notes it and stays; the target may handle it.
Sigterm(s) ==
    LET q == seen[s]["main"].proof
    IN  /\ pc[s]["main"] = "sigterm"
        /\ \/ /\ GroupPresent(q) \/ shim[q] = "exited"
              /\ termed' = [termed EXCEPT ![q] = @ \/ shim[q] \in LiveShim]
              /\ Goto(s, "main", "grace")
           \/ /\ ~GroupPresent(q)
              /\ Goto(s, "main", "lost_read")
              /\ UNCHANGED termed
        /\ UNCHANGED <<record, lease, shim, target, gate, code, command, seen, tries>>

\* cancel_grace_seconds of polling the proof.
MutantGrace(s) ==
    /\ pc[s]["main"] = "grace"
    /\ ~Verified(seen[s]["main"]) /\ Goto(s, "main", "lost_read")
    /\ UNCHANGED <<record, lease, process, command, seen, tries>>
Grace(s) ==
    /\ pc[s]["main"] = "grace"
    /\ \/ ~Verified(seen[s]["main"]) /\ Goto(s, "main", "lost_read")
       \/ Goto(s, "main", "kill_fence")
    /\ UNCHANGED <<record, lease, process, command, seen, tries>>

KillFence(s) ==
    /\ pc[s]["main"] = "kill_fence"
    /\ \/ Verified(seen[s]["main"]) /\ Fence(s, "main", "sigkill", "lost_read")
       \/ ~Verified(seen[s]["main"]) /\ Fence(s, "main", "lost_read", "lost_read")
    /\ UNCHANGED <<record, process, command, seen, tries>>

\* killpg(SIGKILL) reaches every member of the group.
Sigkill(s) ==
    LET q == seen[s]["main"].proof
    IN  /\ pc[s]["main"] = "sigkill"
        /\ \/ /\ GroupPresent(q) \/ shim[q] = "exited"
              /\ shim' = [shim EXCEPT ![q] = "exited"]
              /\ target' = [target EXCEPT ![q] = IF @ = "running" THEN "exited" ELSE @]
              /\ code' = [code EXCEPT ![q] = IF shim[q] \in LiveShim THEN "nonzero" ELSE @]
              /\ Goto(s, "main", "reap")
           \/ /\ ~GroupPresent(q)
              /\ Goto(s, "main", "lost_read")
              /\ UNCHANGED <<shim, target, code>>
        /\ UNCHANGED <<record, lease, gate, termed, command, seen, tries>>

\* Only the process that launched the shim can wait for it, and only while its
\* monitor has it in _managed; the wait has a timeout.
Managed(s) == pc[s]["monitor"] \notin {"none", "ended", "exited"}
Reap(s) ==
    /\ pc[s]["main"] = "reap"
    /\ \/ Managed(s) /\ shim[s] # "exited" /\ Goto(s, "main", "lost_read")
       \/ (Managed(s) => shim[s] = "exited") /\ Goto(s, "main", "done_fence")
    /\ UNCHANGED <<record, lease, process, command, seen, tries>>

-----------------------------------------------------------------------------
(* _complete_attempt, from the monitor thread or from a cancellation.      *)

MutantMonitor(s) ==
    /\ pc[s]["monitor"] = "watch"
    /\ Goto(s, "monitor", "done_fence")
    /\ UNCHANGED <<record, lease, process, command, seen, tries>>
Monitor(s) ==
    /\ pc[s]["monitor"] = "watch"
    /\ shim[s] = "exited"
    /\ Goto(s, "monitor", "done_fence")
    /\ UNCHANGED <<record, lease, process, command, seen, tries>>

DoneFence(s, t) ==
    /\ pc[s][t] = "done_fence"
    /\ Fence(s, t, "done_read", Return(s, t))
    /\ tries' = [tries EXCEPT ![s][t] = 0]
    /\ UNCHANGED <<record, process, command, seen>>

\* _completion_lock: held from the first read to the return.
Completing(s, t) ==
    \/ pc[s][t] \in {"done_commit", "done_meta"}
    \/ pc[s][t] = "done_read" /\ tries[s][t] > 0

DoneRead(s, t) ==
    /\ pc[s][t] = "done_read"
    /\ \A other \in Thread \ {t} : ~Completing(s, other)
    /\ seen' = [seen EXCEPT ![s][t] = attempt]
    /\ Goto(s, t, IF Finished THEN "done_meta" ELSE "done_commit")
    /\ UNCHANGED <<record, lease, process, command, tries>>

\* A requested cancellation decides the verdict, else the exit status does.
MutantVerdict(s, t) ==
    IF seen[s][t].execution = "cancel_requested" THEN "cancelled" ELSE "succeeded"
Verdict(s, t) ==
    IF seen[s][t].execution = "cancel_requested" THEN "cancelled"
    ELSE IF code[s] = "zero" THEN "succeeded" ELSE "failed"

\* A conflict is retried, unless another supervisor has used the same key
\* (monitor:attempt:pid:exit code:verdict), which is an error.
DoneCommit(s, t) ==
    LET new == Revise(Verdict(s, t))
        again == tries[s][t] + 1
    IN  /\ pc[s][t] = "done_commit"
        /\ \/ /\ Accepts(s, t, new)
              /\ attempt' = new
              /\ seen' = [seen EXCEPT ![s][t] = new]
              /\ Goto(s, t, "done_meta")
              /\ UNCHANGED tries
           \/ /\ ~Accepts(s, t, new)
              /\ tries' = [tries EXCEPT ![s][t] = again]
              /\ \/ Retries(again) /\ Goto(s, t, "done_read")
                 \/ /\ ~Retries(again) \/ attempt.execution = Verdict(s, t)
                    /\ Goto(s, t, Return(s, t))
              /\ UNCHANGED <<attempt, seen>>
        /\ UNCHANGED <<meta, rundir, lease, process, command>>

DoneMeta(s, t) ==
    /\ pc[s][t] = "done_meta"
    /\ UpdateMetadata(seen[s][t].execution)
    /\ Goto(s, t, Return(s, t))
    /\ UNCHANGED <<attempt, rundir, lease, process, command, seen, tries>>

-----------------------------------------------------------------------------
(* _mark_lost.  A cancellation reads the record afresh for it; the recovery *)
(* paths pass on the record they verified.                                 *)

LostRead(s) ==
    /\ pc[s]["main"] = "lost_read"
    /\ seen' = [seen EXCEPT ![s]["main"] = attempt]
    /\ Goto(s, "main", IF attempt.execution = "lost" THEN Return(s, "main") ELSE "lost_fence")
    /\ UNCHANGED <<record, lease, process, command, tries>>

MutantLostFence(s, t) ==
    /\ pc[s][t] = "lost_fence"
    /\ Fence(s, t, "lost_meta", Return(s, t))
    /\ UNCHANGED <<record, process, command, seen, tries>>
LostFence(s, t) ==
    /\ pc[s][t] = "lost_fence"
    /\ Fence(s, t, "lost_commit", Return(s, t))
    /\ UNCHANGED <<record, process, command, seen, tries>>

LostCommit(s, t) ==
    LET new == [Revise("lost") EXCEPT !.control = "control_failure"]
    IN  /\ pc[s][t] = "lost_commit"
        /\ \/ /\ Accepts(s, t, new)
              /\ attempt' = new
              /\ Goto(s, t, "lost_meta")
           \/ /\ ~Accepts(s, t, new)
              /\ Goto(s, t, Return(s, t))
              /\ UNCHANGED attempt
        /\ UNCHANGED <<meta, rundir, lease, process, command, seen, tries>>

LostMeta(s, t) ==
    /\ pc[s][t] = "lost_meta"
    /\ UpdateMetadata("lost")
    /\ Goto(s, t, Return(s, t))
    /\ UNCHANGED <<attempt, rundir, lease, process, command, seen, tries>>

-----------------------------------------------------------------------------
(* reconcile, and the monitor thread it starts for a process that another  *)
(* supervisor launched.                                                    *)

ReconcileRead(s) ==
    LET next == IF attempt.execution \notin ActiveStates THEN "serve"
                ELSE IF attempt.execution = "launching" THEN "lost_fence"
                ELSE "reconcile_verify"
    IN  /\ pc[s]["main"] = "reconcile_read"
        /\ seen' = [seen EXCEPT ![s]["main"] = attempt]
        /\ Goto(s, "main", next)
        /\ UNCHANGED <<record, lease, process, command, tries>>

ReconcileVerify(s) ==
    /\ pc[s]["main"] = "reconcile_verify"
    /\ \/ /\ Verified(seen[s]["main"])
          /\ pc' = [pc EXCEPT ![s] = [main |-> "serve", monitor |-> "loop_fence"]]
       \/ /\ ~Verified(seen[s]["main"])
          /\ Goto(s, "main", "lost_fence")
    /\ UNCHANGED <<record, lease, process, command, seen, tries>>

\* The daemon shuts down, or "control reconcile" prints its result.
StopServing(s) ==
    /\ pc[s]["main"] = "serve"
    /\ Goto(s, "main", "close")
    /\ UNCHANGED <<record, lease, process, command, seen, tries>>

\* _monitor_recovered polls: fence, read, verify.
LoopFence(s) ==
    /\ pc[s]["monitor"] = "loop_fence"
    /\ Fence(s, "monitor", "loop_read", "ended")
    /\ UNCHANGED <<record, process, command, seen, tries>>

LoopRead(s) ==
    /\ pc[s]["monitor"] = "loop_read"
    /\ seen' = [seen EXCEPT ![s]["monitor"] = attempt]
    /\ Goto(s, "monitor", IF attempt.execution \in LiveStatuses THEN "loop_verify" ELSE "ended")
    /\ UNCHANGED <<record, lease, process, command, tries>>

MutantLoopVerify(s) ==
    /\ pc[s]["monitor"] = "loop_verify"
    /\ Goto(s, "monitor", "loop_fence")
    /\ UNCHANGED <<record, lease, process, command, seen, tries>>
LoopVerify(s) ==
    /\ pc[s]["monitor"] = "loop_verify"
    /\ Goto(s, "monitor", IF Verified(seen[s]["monitor"]) THEN "loop_fence" ELSE "lost_fence")
    /\ UNCHANGED <<record, lease, process, command, seen, tries>>

-----------------------------------------------------------------------------
(* close, and the end of a supervisor process.                             *)

Close(s) ==
    /\ pc[s]["main"] \in {"close", "interrupted"}
    /\ owner' = IF HoldsLease(s) THEN None ELSE owner
    /\ grip' = [grip EXCEPT ![s] = IF @ = "held" THEN "lost" ELSE @]
    /\ Goto(s, "main", "closed")
    /\ UNCHANGED <<record, process, fresh, command, seen, tries>>

\* The process ends, in order or in a crash.  Its threads and what they knew die
\* with it and its end of the gate closes; its child lives on, and a lease it
\* holds stays in state.json.
Exit(s) ==
    /\ Alive(s)
    /\ pc' = [pc EXCEPT ![s] = [t \in Thread |-> "exited"]]
    /\ seen' = [seen EXCEPT ![s] = [t \in Thread |-> NothingRead]]
    /\ tries' = [tries EXCEPT ![s] = [t \in Thread |-> 0]]
    /\ command' = [command EXCEPT ![s] = "none"]
    /\ grip' = [grip EXCEPT ![s] = "lost"]
    /\ gate' = [gate EXCEPT ![s] = IF @ = "held" THEN "closed" ELSE @]
    /\ UNCHANGED <<record, owner, fresh, shim, target, termed, code>>

\* Ctrl-C outside the wait, or an I/O error no handler of the step expects: the
\* command's finally clause closes the supervisor.
Interrupt(s) ==
    /\ pc[s]["main"] \notin {"new", "wait", "serve", "interrupted", "close", "closed", "exited"}
    /\ Goto(s, "main", "interrupted")
    /\ UNCHANGED <<record, lease, process, command, seen, tries>>

-----------------------------------------------------------------------------
(* The launch shim (_LAUNCH_SHIM) and the agent process it forks.          *)

\* End of file on the gate: the shim leaves with status 126.
ShimEof(s) ==
    /\ shim[s] = "gated" /\ gate[s] = "closed"
    /\ shim' = [shim EXCEPT ![s] = "exited"]
    /\ code' = [code EXCEPT ![s] = "nonzero"]
    /\ UNCHANGED <<record, lease, threads, target, gate, termed>>

ShimExec(s) ==
    /\ shim[s] = "gated" /\ gate[s] = "token"
    /\ shim' = [shim EXCEPT ![s] = "running"]
    /\ target' = [target EXCEPT ![s] = "running"]
    /\ UNCHANGED <<record, lease, threads, gate, termed, code>>

TargetExit(s, status) ==
    /\ target[s] = "running"
    /\ target' = [target EXCEPT ![s] = "exited"]
    /\ code' = [code EXCEPT ![s] = IF shim[s] = "running" THEN status ELSE @]
    /\ UNCHANGED <<record, lease, threads, shim, gate, termed>>

\* The shim passes the status on, unless a cancellation has told it to stay
\* until the group is killed.
ShimReap(s) ==
    /\ shim[s] = "running" /\ target[s] = "exited"
    /\ shim' = [shim EXCEPT ![s] = IF termed[s] THEN "paused" ELSE "exited"]
    /\ UNCHANGED <<record, lease, threads, target, gate, termed, code>>

\* Somebody outside kills the shim, and only the shim.
ShimKilled(s) ==
    /\ shim[s] \in LiveShim
    /\ shim' = [shim EXCEPT ![s] = "exited"]
    /\ code' = [code EXCEPT ![s] = "nonzero"]
    /\ UNCHANGED <<record, lease, threads, target, gate, termed>>

-----------------------------------------------------------------------------
(* The user's approval commands, each a revision of the same record.       *)

\* request-approval holds the attempt before it records the request.
UserHold ==
    /\ attempt.revision < MaxRevision
    /\ attempt.control \in {"ready", "awaiting_approval"}
    /\ attempt' = [attempt EXCEPT !.control = "awaiting_approval", !.revision = @ + 1]
    /\ UNCHANGED <<meta, rundir, lease, process, threads>>

\* decide-approval releases or stops a pending attempt that is held.
UserResolve ==
    /\ attempt.revision < MaxRevision
    /\ attempt.execution = "pending" /\ attempt.control = "awaiting_approval"
    /\ \E control \in {"ready", "policy_hold"} :
         attempt' = [attempt EXCEPT !.control = control, !.revision = @ + 1]
    /\ UNCHANGED <<meta, rundir, lease, process, threads>>

-----------------------------------------------------------------------------
(* The specification.                                                      *)

LaunchStep(s) ==
    \/ Preflight(s) \/ ReplayLaunch(s) \/ FenceManifest(s) \/ CommitLaunching(s)
    \/ Spawn(s) \/ FenceRunning(s) \/ WriteMetadata(s) \/ CommitRunning(s)
    \/ WriteGate(s) \/ AbortLaunch(s)
    \/ FailFence(s) \/ FailRead(s) \/ FailCommit(s) \/ FailMeta(s)

CancelStep(s) ==
    \/ CancelRead(s) \/ CancelCommit(s) \/ CancelMeta(s) \/ CancelFence(s)
    \/ Sigterm(s) \/ Grace(s) \/ KillFence(s) \/ Sigkill(s) \/ Reap(s)

CompleteStep(s, t) == DoneFence(s, t) \/ DoneRead(s, t) \/ DoneCommit(s, t) \/ DoneMeta(s, t)

LostStep(s, t) == LostFence(s, t) \/ LostCommit(s, t) \/ LostMeta(s, t)

MainStep(s) ==
    \/ EnsureLease(s) \/ LaunchStep(s) \/ WaitEnds(s) \/ CancelStep(s)
    \/ LostRead(s) \/ ReconcileRead(s) \/ ReconcileVerify(s) \/ Close(s)
    \/ CompleteStep(s, "main") \/ LostStep(s, "main")

MonitorStep(s) ==
    \/ Monitor(s) \/ LoopFence(s) \/ LoopRead(s) \/ LoopVerify(s)
    \/ CompleteStep(s, "monitor") \/ LostStep(s, "monitor")

ShimStep(s) == ShimEof(s) \/ ShimExec(s) \/ ShimReap(s)

\* What nothing forces to happen.
Chance(s) ==
    \/ \E c \in Commands[s] : BeginCommand(s, c)
    \/ WaitInterrupted(s) \/ StopServing(s) \/ Interrupt(s) \/ Exit(s)
    \/ \E status \in {"zero", "nonzero"} : TargetExit(s, status)
    \/ ShimKilled(s)

Next ==
    \/ \E s \in Supervisor :
         MainStep(s) \/ MonitorStep(s) \/ Heartbeat(s) \/ ShimStep(s) \/ Chance(s)
    \/ GoesStale
    \/ UserHold
    \/ UserResolve

Spec == Init /\ [][Next]_vars

\* Fairness: a thread of a supervisor that can run does run.  Nothing is assumed
\* of the heartbeat, the shim, the agent or the user.  Each liveness property is
\* claimed under the part of it that it needs.
CancelSpec ==
    /\ Spec
    /\ \A s \in Supervisor :
         /\ WF_vars(CancelStep(s) \/ LostRead(s) \/ LostStep(s, "main") \/ CompleteStep(s, "main"))
         /\ WF_vars(CompleteStep(s, "monitor"))

RecoverySpec == Spec /\ \A s \in Supervisor : WF_vars(MonitorStep(s))

FairSpec == Spec /\ \A s \in Supervisor : WF_vars(MainStep(s)) /\ WF_vars(MonitorStep(s))

-----------------------------------------------------------------------------
(* Properties.                                                             *)

\* A shim that can still control its agent.
Supervised(s) == target[s] = "running" /\ shim[s] # "exited"

\* An agent process exists only behind an ownership proof that was durable
\* first, whatever crashed, was taken over or was aborted on the way: so at most
\* one of the supervisors that raced to launch the attempt ever started one.
ProofBeforeExec == \A s \in Supervisor : target[s] # "none" => attempt.proof = s

\* While an agent runs under its shim the record says that it is live: neither
\* the failure of a launch, a recovery that ran during it, nor a late verdict of
\* a former lease owner can end the record under a running agent.
RunningIsRecorded ==
    \A s \in Supervisor : Supervised(s) => attempt.execution \in LiveStatuses

\* A verdict is never guessed: "succeeded" needs the exit status zero of the
\* very process on record, and "cancelled" a process that is gone.
HonestVerdict ==
    /\ attempt.execution = "succeeded" =>
         target[attempt.proof] = "exited" /\ code[attempt.proof] = "zero"
    /\ attempt.execution = "cancelled" => shim[attempt.proof] = "exited"

\* The metadata never tells more than the record: a final status in it is the
\* record's verdict, except that the launcher's own "failed" may stay beside a
\* cancellation or a loss that another supervisor committed first.
MetadataFollows ==
    meta.status \in TerminalStates /\ meta.status # attempt.execution =>
        meta.status = "failed" /\ attempt.execution # "succeeded"

\* No signal of a cancellation reaches a process before the request for it is
\* in the control store.
IntentBeforeSignal ==
    \A s \in Supervisor :
        termed[s] => attempt.execution \notin {"pending", "launching", "running"}

\* A hold committed between the preflight and the launch stops the launch.
HoldStopsLaunch ==
    [][attempt.execution = "pending" /\ attempt'.execution = "launching"
         => attempt.control = "ready"]_vars

\* A thread that completes the attempt goes on until the record has ended: a
\* cancellation or a hold that lands between its read and its append costs it a
\* turn, not the verdict.  It holds as long as users revise a live attempt less
\* often than the thread turns (the theorem VerdictKept).
VerdictIsKept ==
    [][\A s \in Supervisor, t \in Thread :
           pc[s][t] = "done_commit" /\ pc'[s][t] = Return(s, t)
               => attempt'.execution \in TerminalStates]_vars

\* The supervisors, their stores and their races implement the promise of
\* AttemptLifecycle, the process on record being the only one that matters.
Lifecycle == INSTANCE AttemptLifecycle WITH
    execution <- attempt.execution,
    agent <- IF attempt.proof = None THEN "none" ELSE target[attempt.proof],
    leash <- IF attempt.proof = None THEN "none"
             ELSE IF shim[attempt.proof] = "exited" THEN "cut" ELSE "held",
    status <- IF attempt.proof = None THEN "none" ELSE code[attempt.proof]

ImplementsLifecycle == Lifecycle!Spec

\* While a recovering supervisor serves and owns the lease, a live attempt has
\* its monitor: otherwise nobody would notice the end of the process.
RecoveryKeepsWatch ==
    \A s \in Supervisor :
        pc[s]["main"] = "serve" /\ HoldsLease(s) /\ pc[s]["monitor"] = "ended"
            => attempt.execution \notin LiveStatuses

\* Another process has written the record or taken the lease since.
Overtaken(s, t) ==
    attempt.revision # seen[s][t].revision \/ owner \notin {s, None}

\* Liveness, under CancelSpec.  A cancellation that has signalled its process ends the record, unless it is
\* killed, interrupted or overtaken: it does not stop between the two signals,
\* nor after the second without a verdict.
CancelSettles ==
    \A s \in Supervisor :
        pc[s]["main"] = "grace" /\ HoldsLease(s)
            ~> \/ Finished
               \/ pc[s]["main"] \in {"interrupted", "exited"}
               \/ Overtaken(s, "main")

\* Liveness, under RecoverySpec.  Recovery does not watch a dead process for ever: once the shim on record is
\* gone, the recovered monitor ends the record, unless its supervisor closes,
\* dies or is overtaken first.
RecoverySettles ==
    \A s \in Supervisor :
        pc[s]["monitor"] = "loop_verify" /\ shim[attempt.proof] = "exited"
            ~> Finished \/ ~HoldsLease(s) \/ ~Alive(s) \/ Overtaken(s, "monitor")

\* Liveness, under FairSpec.  A foreground launch whose process is gone returns to its user.
ForegroundEnds ==
    \A s \in Supervisor :
        pc[s]["main"] = "wait" /\ attempt.proof # None /\ shim[attempt.proof] = "exited"
            ~> pc[s]["main"] # "wait"
====
