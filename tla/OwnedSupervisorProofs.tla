------------------------ MODULE OwnedSupervisorProofs -----------------------
(***************************************************************************)
(* Types of OwnedSupervisor, and why no agent starts without its proof, no *)
(* signal goes out without its request and no launch overrides a hold, for *)
(* any set of supervisors, any commands and any bounds.                    *)
(***************************************************************************)
EXTENDS OwnedSupervisor, TLAPS

(***************************************************************************)
(* The types.  TypeOK is not inductive: that a retry counter stays in its  *)
(* range depends on where its thread is.                                   *)
(***************************************************************************)
RetrySteps == {"fail_read", "fail_commit", "done_read", "done_commit"}

TriesInv == \A s \in Supervisor, t \in Thread :
                pc[s][t] \in RetrySteps => tries[s][t] < MaxTries

ThreadsInv == ThreadsOK /\ TriesInv
TypeInv == RecordOK /\ LeaseOK /\ ProcessOK /\ ThreadsInv

-----------------------------------------------------------------------------
(* What the pieces of an action do to the types.                           *)

LEMMA Update2 ==
    ASSUME NEW A, NEW B, NEW C, NEW f \in [A -> [B -> C]],
           NEW a \in A, NEW b \in B, NEW c \in C
    PROVE  [f EXCEPT ![a][b] = c] \in [A -> [B -> C]]
  OBVIOUS

LEMMA RecordFrame == ASSUME RecordOK, UNCHANGED record PROVE RecordOK'
  BY DEF RecordOK, record

LEMMA LeaseFrame == ASSUME LeaseOK, UNCHANGED lease PROVE LeaseOK'
  BY DEF LeaseOK, lease

LEMMA ProcessFrame == ASSUME ProcessOK, UNCHANGED process PROVE ProcessOK'
  BY DEF ProcessOK, process

LEMMA ThreadsFrame == ASSUME ThreadsInv, UNCHANGED threads PROVE ThreadsInv'
  BY DEF ThreadsInv, ThreadsOK, TriesInv, threads

\* A thread moves on without entering a retry loop.
LEMMA GotoThreads ==
    ASSUME ThreadsInv, NEW s \in Supervisor, NEW t \in Thread, NEW step \in Steps,
           Goto(s, t, step), step \in RetrySteps => pc[s][t] \in RetrySteps,
           command' \in [Supervisor -> {"none", "launch", "cancel", "reconcile"}],
           seen' \in [Supervisor -> [Thread -> AttemptRecords]],
           UNCHANGED tries
    PROVE  ThreadsInv'
<1>1. pc' \in [Supervisor -> [Thread -> Steps]]
  BY Update2 DEF ThreadsInv, ThreadsOK, Goto
<1>2. TriesInv'
  BY DEF ThreadsInv, ThreadsOK, TriesInv, Goto
<1> QED
  BY <1>1, <1>2 DEF ThreadsInv, ThreadsOK

LEMMA FenceLease ==
    ASSUME LeaseOK, NEW s \in Supervisor, FencePasses(s) \/ FenceFails(s)
    PROVE  LeaseOK'
  BY DEF LeaseOK, FencePasses, FenceFails

LEMMA FenceThreads ==
    ASSUME ThreadsInv, LeaseOK, NEW s \in Supervisor, NEW t \in Thread,
           NEW passed \in Steps \ RetrySteps, NEW failed \in Steps \ RetrySteps,
           Fence(s, t, passed, failed), UNCHANGED <<command, seen, tries>>
    PROVE  ThreadsInv' /\ LeaseOK'
<1>1. seen' \in [Supervisor -> [Thread -> AttemptRecords]]
      /\ command' \in [Supervisor -> {"none", "launch", "cancel", "reconcile"}]
  BY DEF ThreadsInv, ThreadsOK
<1> QED
  BY <1>1, GotoThreads, FenceLease DEF Fence

\* A thread enters a retry loop with its counter reset ...
LEMMA RetryEntered ==
    ASSUME ThreadsInv, LeaseOK, NEW s \in Supervisor, NEW t \in Thread,
           NEW passed \in Steps, NEW failed \in Steps, Fence(s, t, passed, failed),
           tries' = [tries EXCEPT ![s][t] = 0], UNCHANGED <<command, seen>>
    PROVE  ThreadsInv' /\ LeaseOK'
<1>1. LeaseOK'
  BY FenceLease DEF Fence
<1>2. PICK step \in Steps : pc' = [pc EXCEPT ![s][t] = step]
  BY DEF Fence, Goto
<1>3. pc' \in [Supervisor -> [Thread -> Steps]]
  BY <1>2, Update2 DEF ThreadsInv, ThreadsOK
<1>4. tries' \in [Supervisor -> [Thread -> 0 .. MaxTries]]
  BY Update2, SupervisorAssumption DEF ThreadsInv, ThreadsOK
<1>5. TriesInv'
  BY <1>2, SupervisorAssumption DEF ThreadsInv, ThreadsOK, TriesInv
<1> QED
  BY <1>1, <1>3, <1>4, <1>5 DEF ThreadsInv, ThreadsOK

\* ... and after a conflict goes on in it only while turns are left.
LEMMA RetryCounted ==
    ASSUME ThreadsInv, NEW s \in Supervisor, NEW t \in Thread, pc[s][t] \in RetrySteps,
           tries' = [tries EXCEPT ![s][t] = tries[s][t] + 1],
           NEW step \in Steps, Goto(s, t, step),
           step \in RetrySteps => Retries(tries[s][t] + 1), UNCHANGED <<command, seen>>
    PROVE  ThreadsInv'
<1> DEFINE again == tries[s][t] + 1
<1>1. again \in 0 .. MaxTries
  BY SupervisorAssumption DEF ThreadsInv, ThreadsOK, TriesInv
<1>2. tries' \in [Supervisor -> [Thread -> 0 .. MaxTries]]
  BY <1>1, Update2 DEF ThreadsInv, ThreadsOK
<1>3. pc' \in [Supervisor -> [Thread -> Steps]]
  BY Update2 DEF ThreadsInv, ThreadsOK, Goto
<1>4. TriesInv'
  BY <1>1, SupervisorAssumption DEF ThreadsInv, ThreadsOK, TriesInv, Retries, Goto
<1> QED
  BY <1>2, <1>3, <1>4 DEF ThreadsInv, ThreadsOK

LEMMA ReviseType ==
    ASSUME attempt \in AttemptRecords, NEW execution \in ExecutionStates
    PROVE  Revise(execution) \in AttemptRecords
<1>1. attempt.revision + 1 \in Nat
  BY DEF AttemptRecords
<1> QED
  BY <1>1 DEF Revise, AttemptRecords

LEMMA UpdateMetadataType ==
    ASSUME meta \in Metadata, NEW status \in ExecutionStates,
           UpdateMetadata(status)
    PROVE  meta' \in Metadata
<1>1. CASE meta.status = "none" \/ Preserved(status)
  BY <1>1 DEF UpdateMetadata
<1>2. CASE ~(meta.status = "none" \/ Preserved(status))
  <2>1. meta' = [meta EXCEPT !.status = status]
    BY <1>2 DEF UpdateMetadata
  <2> QED
    BY <2>1 DEF Metadata
<1> QED
  BY <1>1, <1>2

LEMMA NothingReadType == NothingRead \in AttemptRecords
  BY DEF NothingRead, AttemptRecords, ExecutionStates, ControlStates

\* A thread records what it read, or where its own write has brought the record.
LEMMA SeenType ==
    ASSUME ThreadsInv, NEW s \in Supervisor, NEW t \in Thread, NEW rec \in AttemptRecords,
           seen' = [seen EXCEPT ![s][t] = rec]
    PROVE  seen' \in [Supervisor -> [Thread -> AttemptRecords]]
  BY Update2 DEF ThreadsInv, ThreadsOK

-----------------------------------------------------------------------------
LEMMA InitType == ASSUME Init PROVE TypeInv
<1>1. RecordOK
  <2>1. attempt \in AttemptRecords
    BY DEF Init, AttemptRecords, ExecutionStates, ControlStates
  <2>2. meta \in Metadata /\ rundir \in BOOLEAN
    BY DEF Init, Metadata
  <2> QED
    BY <2>1, <2>2 DEF RecordOK
<1>2. LeaseOK
  BY DEF Init, LeaseOK
<1>3. ProcessOK
  BY DEF Init, ProcessOK
<1>4. ThreadsInv
  <2>1. pc \in [Supervisor -> [Thread -> Steps]]
    BY DEF Init, Steps, MainSteps, MonitorSteps
  <2>2. seen \in [Supervisor -> [Thread -> AttemptRecords]]
    BY NothingReadType DEF Init
  <2>3. tries \in [Supervisor -> [Thread -> 0 .. MaxTries]]
    BY SupervisorAssumption DEF Init
  <2>4. TriesInv
    BY SupervisorAssumption DEF Init, TriesInv
  <2> QED
    BY <2>1, <2>2, <2>3, <2>4 DEF Init, ThreadsInv, ThreadsOK
<1> QED
  BY <1>1, <1>2, <1>3, <1>4 DEF TypeInv

LEMMA LaunchType ==
    ASSUME TypeInv, NEW s \in Supervisor, LaunchStep(s)
    PROVE  TypeInv'
<1> USE DEF TypeInv, Thread, Steps, MainSteps, RetrySteps
<1>1. attempt \in AttemptRecords /\ meta \in Metadata /\ rundir \in BOOLEAN
  BY DEF RecordOK
<1>2. command \in [Supervisor -> {"none", "launch", "cancel", "reconcile"}]
      /\ seen \in [Supervisor -> [Thread -> AttemptRecords]]
  BY DEF ThreadsInv, ThreadsOK
<1>3. CASE Preflight(s)
  BY <1>1, <1>2, <1>3, GotoThreads, SeenType, RecordFrame, LeaseFrame, ProcessFrame DEF Preflight
<1>4. CASE ReplayLaunch(s)
  BY <1>2, <1>4, GotoThreads, RecordFrame, LeaseFrame, ProcessFrame DEF ReplayLaunch
<1>5. CASE FenceManifest(s)
  BY <1>5, FenceThreads, RecordFrame, ProcessFrame DEF FenceManifest
<1>6. CASE CommitLaunching(s)
  <2> DEFINE new == [Revise("launching") EXCEPT !.manifest = TRUE]
  <2>1. new \in AttemptRecords
    BY <1>1, ReviseType DEF ExecutionStates, AttemptRecords
  <2>2. RecordOK'
    BY <1>1, <1>6, <2>1 DEF CommitLaunching, RecordOK
  <2>3. seen' \in [Supervisor -> [Thread -> AttemptRecords]]
    BY <1>2, <1>6, <2>1, SeenType DEF CommitLaunching
  <2>4. ThreadsInv'
    BY <1>2, <1>6, <2>3, GotoThreads DEF CommitLaunching
  <2> QED
    BY <1>6, <2>2, <2>4, LeaseFrame, ProcessFrame DEF CommitLaunching
<1>7. CASE Spawn(s)
  <2>1. RecordOK'
    BY <1>1, <1>7 DEF Spawn, RecordOK
  <2>2. ProcessOK'
    BY <1>7 DEF Spawn, ProcessOK, LiveShim
  <2>3. ThreadsInv'
    BY <1>2, <1>7, GotoThreads DEF Spawn
  <2> QED
    BY <1>7, <2>1, <2>2, <2>3, LeaseFrame DEF Spawn
<1>8. CASE FenceRunning(s)
  BY <1>8, FenceThreads, RecordFrame, ProcessFrame DEF FenceRunning
<1>9. CASE WriteMetadata(s)
  <2>1. meta' \in Metadata
    BY <1>1, <1>9 DEF WriteMetadata, Metadata, ExecutionStates
  <2>2. RecordOK'
    BY <1>1, <1>9, <2>1 DEF WriteMetadata, RecordOK
  <2>3. ThreadsInv'
    BY <1>2, <1>9, GotoThreads DEF WriteMetadata
  <2> QED
    BY <1>9, <2>2, <2>3, LeaseFrame, ProcessFrame DEF WriteMetadata
<1>10. CASE CommitRunning(s)
  <2> DEFINE new == [Revise("running") EXCEPT !.proof = s]
  <2>1. new \in AttemptRecords
    BY <1>1, ReviseType DEF ExecutionStates, AttemptRecords
  <2>2. RecordOK'
    BY <1>1, <1>10, <2>1 DEF CommitRunning, RecordOK
  <2>3. ThreadsInv'
    <3>1. CASE ~Accepts(s, "main", new)
      BY <1>2, <1>10, <3>1, GotoThreads DEF CommitRunning
    <3>2. CASE Accepts(s, "main", new)
      <4>1. pc' = [pc EXCEPT ![s] = [main |-> "write_gate", monitor |-> "watch"]]
            /\ seen' = [seen EXCEPT ![s]["main"] = new] /\ UNCHANGED <<command, tries>>
        BY <1>10, <3>2 DEF CommitRunning
      <4>2. seen' \in [Supervisor -> [Thread -> AttemptRecords]]
        BY <1>2, <2>1, <4>1, SeenType
      <4>3. pc' \in [Supervisor -> [Thread -> Steps]]
        BY <4>1 DEF ThreadsInv, ThreadsOK, MonitorSteps
      <4> QED
        BY <4>1, <4>2, <4>3 DEF ThreadsInv, ThreadsOK, TriesInv
    <3> QED
      BY <3>1, <3>2
  <2> QED
    BY <1>10, <2>2, <2>3, LeaseFrame, ProcessFrame DEF CommitRunning
<1>11. CASE WriteGate(s)
  <2>1. LeaseOK'
    BY <1>11, FenceLease, LeaseFrame DEF WriteGate, lease
  <2>2. ProcessOK'
    BY <1>11 DEF WriteGate, ProcessOK
  <2>3. ThreadsInv'
    BY <1>2, <1>11, GotoThreads DEF WriteGate
  <2> QED
    BY <1>11, <2>1, <2>2, <2>3, RecordFrame DEF WriteGate
<1>12. CASE AbortLaunch(s)
  <2>1. ProcessOK'
    BY <1>12 DEF AbortLaunch, ProcessOK
  <2>2. ThreadsInv'
    BY <1>2, <1>12, GotoThreads DEF AbortLaunch
  <2> QED
    BY <1>12, <2>1, <2>2, RecordFrame, LeaseFrame DEF AbortLaunch
<1>13. CASE FailFence(s)
  BY <1>13, RetryEntered, RecordFrame, ProcessFrame DEF FailFence
<1>14. CASE FailRead(s)
  <2>1. seen' \in [Supervisor -> [Thread -> AttemptRecords]]
    BY <1>1, <1>14, SeenType DEF FailRead
  <2>2. ThreadsInv'
    BY <1>2, <1>14, <2>1, GotoThreads DEF FailRead
  <2> QED
    BY <1>14, <2>2, RecordFrame, LeaseFrame, ProcessFrame DEF FailRead
<1>15. CASE FailCommit(s)
  <2>1. RecordOK'
    BY <1>1, <1>15, ReviseType DEF FailCommit, RecordOK, ExecutionStates
  <2>2. ThreadsInv'
    <3>1. CASE Accepts(s, "main", Revise("failed"))
      BY <1>2, <1>15, <3>1, GotoThreads DEF FailCommit
    <3>2. CASE ~Accepts(s, "main", Revise("failed"))
      BY <1>15, <3>2, RetryCounted DEF FailCommit
    <3> QED
      BY <3>1, <3>2
  <2> QED
    BY <1>15, <2>1, <2>2, LeaseFrame, ProcessFrame DEF FailCommit
<1>16. CASE FailMeta(s)
  <2>1. meta' \in Metadata
    BY <1>1, <1>16, UpdateMetadataType DEF FailMeta, ExecutionStates
  <2>2. ThreadsInv'
    BY <1>2, <1>16, GotoThreads DEF FailMeta
  <2> QED
    BY <1>1, <1>16, <2>1, <2>2, LeaseFrame, ProcessFrame DEF FailMeta, RecordOK
<1> QED
  BY <1>3, <1>4, <1>5, <1>6, <1>7, <1>8, <1>9, <1>10, <1>11, <1>12, <1>13, <1>14, <1>15,
     <1>16 DEF LaunchStep

LEMMA CancelType ==
    ASSUME TypeInv, NEW s \in Supervisor, CancelStep(s)
    PROVE  TypeInv'
<1> USE DEF TypeInv, Thread, Steps, MainSteps, SharedSteps, RetrySteps
<1>1. attempt \in AttemptRecords /\ meta \in Metadata /\ rundir \in BOOLEAN
  BY DEF RecordOK
<1>2. command \in [Supervisor -> {"none", "launch", "cancel", "reconcile"}]
      /\ seen \in [Supervisor -> [Thread -> AttemptRecords]]
  BY DEF ThreadsInv, ThreadsOK
<1>3. CASE CancelRead(s)
  <2>1. seen' \in [Supervisor -> [Thread -> AttemptRecords]]
    BY <1>1, <1>3, SeenType DEF CancelRead
  <2>2. ThreadsInv'
    BY <1>2, <1>3, <2>1, GotoThreads DEF CancelRead, CancelFrom
  <2> QED
    BY <1>3, <2>2, RecordFrame, LeaseFrame, ProcessFrame DEF CancelRead
<1>4. CASE CancelCommit(s)
  <2> DEFINE new == Revise("cancel_requested")
  <2>1. new \in AttemptRecords
    BY <1>1, ReviseType DEF ExecutionStates
  <2>2. RecordOK'
    BY <1>1, <1>4, <2>1 DEF CancelCommit, RecordOK
  <2>3. seen' \in [Supervisor -> [Thread -> AttemptRecords]]
    BY <1>2, <1>4, <2>1, SeenType DEF CancelCommit
  <2>4. ThreadsInv'
    BY <1>2, <1>4, <2>3, GotoThreads DEF CancelCommit
  <2> QED
    BY <1>4, <2>2, <2>4, LeaseFrame, ProcessFrame DEF CancelCommit
<1>5. CASE CancelMeta(s)
  <2>1. meta' \in Metadata
    BY <1>1, <1>5, UpdateMetadataType DEF CancelMeta, ExecutionStates
  <2>2. ThreadsInv'
    BY <1>2, <1>5, GotoThreads DEF CancelMeta
  <2> QED
    BY <1>1, <1>5, <2>1, <2>2, LeaseFrame, ProcessFrame DEF CancelMeta, RecordOK
<1>6. CASE CancelFence(s)
  <2>1. LeaseOK' /\ ThreadsInv'
    BY <1>2, <1>6, FenceThreads, GotoThreads, LeaseFrame DEF CancelFence
  <2> QED
    BY <1>6, <2>1, RecordFrame, ProcessFrame DEF CancelFence
<1>7. CASE Sigterm(s)
  <2>1. ProcessOK'
    BY <1>7 DEF Sigterm, ProcessOK
  <2>2. ThreadsInv'
    BY <1>2, <1>7, GotoThreads DEF Sigterm
  <2> QED
    BY <1>7, <2>1, <2>2, RecordFrame, LeaseFrame DEF Sigterm
<1>8. CASE Grace(s)
  BY <1>2, <1>8, GotoThreads, RecordFrame, LeaseFrame, ProcessFrame DEF Grace
<1>9. CASE KillFence(s)
  BY <1>9, FenceThreads, RecordFrame, ProcessFrame DEF KillFence
<1>10. CASE Sigkill(s)
  <2>1. ProcessOK'
    BY <1>10 DEF Sigkill, ProcessOK
  <2>2. ThreadsInv'
    BY <1>2, <1>10, GotoThreads DEF Sigkill
  <2> QED
    BY <1>10, <2>1, <2>2, RecordFrame, LeaseFrame DEF Sigkill
<1>11. CASE Reap(s)
  BY <1>2, <1>11, GotoThreads, RecordFrame, LeaseFrame, ProcessFrame DEF Reap
<1> QED
  BY <1>3, <1>4, <1>5, <1>6, <1>7, <1>8, <1>9, <1>10, <1>11 DEF CancelStep

LEMMA CompleteType ==
    ASSUME TypeInv, NEW s \in Supervisor, NEW t \in Thread, CompleteStep(s, t)
    PROVE  TypeInv'
<1> USE DEF TypeInv, Steps, MainSteps, MonitorSteps, SharedSteps, RetrySteps
<1>1. attempt \in AttemptRecords /\ meta \in Metadata /\ rundir \in BOOLEAN
  BY DEF RecordOK
<1>2. command \in [Supervisor -> {"none", "launch", "cancel", "reconcile"}]
      /\ seen \in [Supervisor -> [Thread -> AttemptRecords]]
  BY DEF ThreadsInv, ThreadsOK
<1>3. Return(s, t) \in Steps /\ Return(s, t) \notin RetrySteps
  BY DEF Return
<1>4. CASE DoneFence(s, t)
  BY <1>3, <1>4, RetryEntered, RecordFrame, ProcessFrame DEF DoneFence
<1>5. CASE DoneRead(s, t)
  <2>1. seen' \in [Supervisor -> [Thread -> AttemptRecords]]
    BY <1>1, <1>5, SeenType DEF DoneRead
  <2>2. ThreadsInv'
    BY <1>2, <1>5, <2>1, GotoThreads DEF DoneRead
  <2> QED
    BY <1>5, <2>2, RecordFrame, LeaseFrame, ProcessFrame DEF DoneRead
<1>6. CASE DoneCommit(s, t)
  <2> DEFINE new == Revise(Verdict(s, t))
  <2>1. new \in AttemptRecords
    BY <1>1, ReviseType DEF Verdict, ExecutionStates
  <2>2. RecordOK'
    BY <1>1, <1>6, <2>1 DEF DoneCommit, RecordOK
  <2>3. ThreadsInv'
    <3>1. CASE Accepts(s, t, new)
      <4>1. seen' \in [Supervisor -> [Thread -> AttemptRecords]]
        BY <1>6, <2>1, <3>1, SeenType DEF DoneCommit
      <4> QED
        BY <1>2, <1>6, <3>1, <4>1, GotoThreads DEF DoneCommit
    <3>2. CASE ~Accepts(s, t, new)
      <4>1. PICK step \in Steps : /\ Goto(s, t, step)
                                  /\ step \in RetrySteps => Retries(tries[s][t] + 1)
        BY <1>3, <1>6, <3>2 DEF DoneCommit
      <4> QED
        BY <1>6, <3>2, <4>1, RetryCounted DEF DoneCommit
    <3> QED
      BY <3>1, <3>2
  <2> QED
    BY <1>6, <2>2, <2>3, LeaseFrame, ProcessFrame DEF DoneCommit
<1>7. CASE DoneMeta(s, t)
  <2>1. meta' \in Metadata
    <3>1. seen[s][t].execution \in ExecutionStates
      BY <1>2 DEF AttemptRecords
    <3> QED
      BY <1>1, <1>7, <3>1, UpdateMetadataType DEF DoneMeta
  <2>2. ThreadsInv'
    BY <1>2, <1>3, <1>7, GotoThreads DEF DoneMeta
  <2> QED
    BY <1>1, <1>7, <2>1, <2>2, LeaseFrame, ProcessFrame DEF DoneMeta, RecordOK
<1> QED
  BY <1>4, <1>5, <1>6, <1>7 DEF CompleteStep

LEMMA LostType ==
    ASSUME TypeInv, NEW s \in Supervisor, NEW t \in Thread, LostStep(s, t)
    PROVE  TypeInv'
<1> USE DEF TypeInv, Steps, MainSteps, MonitorSteps, SharedSteps, RetrySteps
<1>1. attempt \in AttemptRecords /\ meta \in Metadata /\ rundir \in BOOLEAN
  BY DEF RecordOK
<1>2. command \in [Supervisor -> {"none", "launch", "cancel", "reconcile"}]
      /\ seen \in [Supervisor -> [Thread -> AttemptRecords]]
  BY DEF ThreadsInv, ThreadsOK
<1>3. Return(s, t) \in Steps /\ Return(s, t) \notin RetrySteps
  BY DEF Return
<1>4. CASE LostFence(s, t)
  BY <1>3, <1>4, FenceThreads, RecordFrame, ProcessFrame DEF LostFence
<1>5. CASE LostCommit(s, t)
  <2>1. [Revise("lost") EXCEPT !.control = "control_failure"] \in AttemptRecords
    BY <1>1, ReviseType DEF ExecutionStates, ControlStates, AttemptRecords
  <2>2. RecordOK'
    BY <1>1, <1>5, <2>1 DEF LostCommit, RecordOK
  <2>3. ThreadsInv'
    BY <1>2, <1>3, <1>5, GotoThreads DEF LostCommit
  <2> QED
    BY <1>5, <2>2, <2>3, LeaseFrame, ProcessFrame DEF LostCommit
<1>6. CASE LostMeta(s, t)
  <2>1. meta' \in Metadata
    BY <1>1, <1>6, UpdateMetadataType DEF LostMeta, ExecutionStates
  <2>2. ThreadsInv'
    BY <1>2, <1>3, <1>6, GotoThreads DEF LostMeta
  <2> QED
    BY <1>1, <1>6, <2>1, <2>2, LeaseFrame, ProcessFrame DEF LostMeta, RecordOK
<1> QED
  BY <1>4, <1>5, <1>6 DEF LostStep

LEMMA MainType ==
    ASSUME TypeInv, NEW s \in Supervisor, MainStep(s)
    PROVE  TypeInv'
<1> USE DEF TypeInv, Thread, Steps, MainSteps, MonitorSteps, SharedSteps, RetrySteps
<1>1. attempt \in AttemptRecords
  BY DEF RecordOK
<1>2. command \in [Supervisor -> {"none", "launch", "cancel", "reconcile"}]
      /\ seen \in [Supervisor -> [Thread -> AttemptRecords]]
  BY DEF ThreadsInv, ThreadsOK
<1>3. CASE EnsureLease(s)
  <2>1. EnsureLeaseNext(s) \in Steps \ RetrySteps
    BY DEF EnsureLeaseNext
  <2>2. ThreadsInv'
    BY <1>2, <1>3, <2>1, GotoThreads, FenceThreads DEF EnsureLease
  <2>3. LeaseOK'
    <3>1. CASE Fence(s, "main", EnsureLeaseNext(s), "close")
      BY <3>1, FenceLease DEF Fence
    <3>2. CASE ~Fence(s, "main", EnsureLeaseNext(s), "close")
      BY <1>3, <3>2, LeaseFrame DEF EnsureLease, LeaseOK
    <3> QED
      BY <3>1, <3>2
  <2> QED
    BY <1>3, <2>2, <2>3, RecordFrame, ProcessFrame DEF EnsureLease
<1>4. CASE LaunchStep(s)
  BY <1>4, LaunchType
<1>5. CASE WaitEnds(s)
  <2>1. LeaseOK'
    BY <1>5, FenceLease, LeaseFrame DEF WaitEnds
  <2> QED
    BY <1>2, <1>5, <2>1, GotoThreads, RecordFrame, ProcessFrame DEF WaitEnds
<1>6. CASE CancelStep(s)
  BY <1>6, CancelType
<1>7. CASE LostRead(s)
  <2>1. seen' \in [Supervisor -> [Thread -> AttemptRecords]]
    BY <1>1, <1>7, SeenType DEF LostRead
  <2>2. ThreadsInv'
    BY <1>2, <1>7, <2>1, GotoThreads DEF LostRead, Return
  <2> QED
    BY <1>7, <2>2, RecordFrame, LeaseFrame, ProcessFrame DEF LostRead
<1>8. CASE ReconcileRead(s)
  <2>1. seen' \in [Supervisor -> [Thread -> AttemptRecords]]
    BY <1>1, <1>8, SeenType DEF ReconcileRead
  <2>2. ThreadsInv'
    BY <1>2, <1>8, <2>1, GotoThreads DEF ReconcileRead
  <2> QED
    BY <1>8, <2>2, RecordFrame, LeaseFrame, ProcessFrame DEF ReconcileRead
<1>9. CASE ReconcileVerify(s)
  <2>1. ThreadsInv'
    <3>1. CASE Verified(seen[s]["main"])
      <4>1. pc' = [pc EXCEPT ![s] = [main |-> "serve", monitor |-> "loop_fence"]]
            /\ UNCHANGED <<command, seen, tries>>
        BY <1>9, <3>1 DEF ReconcileVerify
      <4>2. pc' \in [Supervisor -> [Thread -> Steps]]
        BY <4>1 DEF ThreadsInv, ThreadsOK
      <4> QED
        BY <1>2, <4>1, <4>2 DEF ThreadsInv, ThreadsOK, TriesInv
    <3>2. CASE ~Verified(seen[s]["main"])
      BY <1>2, <1>9, <3>2, GotoThreads DEF ReconcileVerify
    <3> QED
      BY <3>1, <3>2
  <2> QED
    BY <1>9, <2>1, RecordFrame, LeaseFrame, ProcessFrame DEF ReconcileVerify
<1>10. CASE Close(s)
  <2>1. LeaseOK'
    BY <1>10 DEF Close, LeaseOK, HoldsLease
  <2> QED
    BY <1>2, <1>10, <2>1, GotoThreads, RecordFrame, ProcessFrame DEF Close
<1>11. CASE CompleteStep(s, "main")
  BY <1>11, CompleteType
<1>12. CASE LostStep(s, "main")
  BY <1>12, LostType
<1> QED
  BY <1>3, <1>4, <1>5, <1>6, <1>7, <1>8, <1>9, <1>10, <1>11, <1>12 DEF MainStep

LEMMA MonitorType ==
    ASSUME TypeInv, NEW s \in Supervisor, MonitorStep(s)
    PROVE  TypeInv'
<1> USE DEF TypeInv, Thread, Steps, MonitorSteps, SharedSteps, RetrySteps
<1>1. attempt \in AttemptRecords
  BY DEF RecordOK
<1>2. command \in [Supervisor -> {"none", "launch", "cancel", "reconcile"}]
      /\ seen \in [Supervisor -> [Thread -> AttemptRecords]]
  BY DEF ThreadsInv, ThreadsOK
<1>3. CASE Monitor(s)
  BY <1>2, <1>3, GotoThreads, RecordFrame, LeaseFrame, ProcessFrame DEF Monitor
<1>4. CASE LoopFence(s)
  BY <1>4, FenceThreads, RecordFrame, ProcessFrame DEF LoopFence
<1>5. CASE LoopRead(s)
  <2>1. seen' \in [Supervisor -> [Thread -> AttemptRecords]]
    BY <1>1, <1>5, SeenType DEF LoopRead
  <2>2. ThreadsInv'
    BY <1>2, <1>5, <2>1, GotoThreads DEF LoopRead
  <2> QED
    BY <1>5, <2>2, RecordFrame, LeaseFrame, ProcessFrame DEF LoopRead
<1>6. CASE LoopVerify(s)
  BY <1>2, <1>6, GotoThreads, RecordFrame, LeaseFrame, ProcessFrame DEF LoopVerify
<1> QED
  BY <1>3, <1>4, <1>5, <1>6, CompleteType, LostType DEF MonitorStep

LEMMA ProcessesType ==
    ASSUME TypeInv, NEW s \in Supervisor,
           ShimStep(s) \/ ShimKilled(s) \/ \E status \in {"zero", "nonzero"} : TargetExit(s, status)
    PROVE  TypeInv'
<1>1. ProcessOK'
  BY DEF TypeInv, ProcessOK, ShimStep, ShimEof, ShimExec, ShimReap, ShimKilled, TargetExit, LiveShim
<1> QED
  BY <1>1, RecordFrame, LeaseFrame, ThreadsFrame
  DEF TypeInv, ShimStep, ShimEof, ShimExec, ShimReap, ShimKilled, TargetExit

LEMMA ChanceType ==
    ASSUME TypeInv, NEW s \in Supervisor, Chance(s)
    PROVE  TypeInv'
<1> USE DEF TypeInv, Thread, Steps, MainSteps, MonitorSteps, SharedSteps, RetrySteps
<1>1. command \in [Supervisor -> {"none", "launch", "cancel", "reconcile"}]
      /\ seen \in [Supervisor -> [Thread -> AttemptRecords]]
  BY DEF ThreadsInv, ThreadsOK
<1>2. ASSUME NEW c \in Commands[s], BeginCommand(s, c) PROVE TypeInv'
  <2>1. command' \in [Supervisor -> {"none", "launch", "cancel", "reconcile"}]
    BY <1>1, <1>2, SupervisorAssumption DEF BeginCommand
  <2> QED
    BY <1>1, <1>2, <2>1, GotoThreads, RecordFrame, LeaseFrame, ProcessFrame DEF BeginCommand
<1>3. CASE WaitInterrupted(s)
  <2>1. command' \in [Supervisor -> {"none", "launch", "cancel", "reconcile"}]
    BY <1>1, <1>3 DEF WaitInterrupted
  <2> QED
    BY <1>1, <1>3, <2>1, GotoThreads, RecordFrame, LeaseFrame, ProcessFrame DEF WaitInterrupted
<1>4. CASE StopServing(s)
  BY <1>1, <1>4, GotoThreads, RecordFrame, LeaseFrame, ProcessFrame DEF StopServing
<1>5. CASE Interrupt(s)
  BY <1>1, <1>5, GotoThreads, RecordFrame, LeaseFrame, ProcessFrame DEF Interrupt
<1>6. CASE Exit(s)
  <2>1. LeaseOK' /\ ProcessOK'
    BY <1>6 DEF Exit, LeaseOK, ProcessOK
  <2>2. ThreadsInv'
    BY <1>6, NothingReadType, SupervisorAssumption DEF Exit, ThreadsInv, ThreadsOK, TriesInv
  <2> QED
    BY <1>6, <2>1, <2>2, RecordFrame DEF Exit
<1> QED
  BY <1>2, <1>3, <1>4, <1>5, <1>6, ProcessesType DEF Chance

LEMMA NextType == ASSUME TypeInv, [Next]_vars PROVE TypeInv'
<1>1. ASSUME NEW s \in Supervisor, Heartbeat(s) PROVE TypeInv'
  BY <1>1, FenceLease, RecordFrame, ProcessFrame, ThreadsFrame DEF Heartbeat, TypeInv
<1>2. CASE GoesStale
  <2>1. LeaseOK'
    BY <1>2 DEF GoesStale, TypeInv, LeaseOK
  <2> QED
    BY <1>2, <2>1, RecordFrame, ProcessFrame, ThreadsFrame DEF GoesStale, TypeInv
<1>3. CASE UserHold \/ UserResolve
  <2>1. attempt \in AttemptRecords /\ attempt.revision + 1 \in Nat
    BY DEF TypeInv, RecordOK, AttemptRecords
  <2>2. attempt' \in AttemptRecords
    BY <1>3, <2>1 DEF UserHold, UserResolve, AttemptRecords, ControlStates
  <2>3. RecordOK'
    BY <1>3, <2>2 DEF UserHold, UserResolve, TypeInv, RecordOK
  <2> QED
    BY <1>3, <2>3, LeaseFrame, ProcessFrame, ThreadsFrame DEF UserHold, UserResolve, TypeInv
<1>4. CASE UNCHANGED vars
  BY <1>4, RecordFrame, LeaseFrame, ProcessFrame, ThreadsFrame
  DEF vars, record, lease, process, threads, TypeInv
<1> QED
  BY <1>1, <1>2, <1>3, <1>4, MainType, MonitorType, ProcessesType, ChanceType DEF Next

LEMMA TypeInvariant == Spec => []TypeInv
  BY InitType, NextType, PTL DEF Spec

\* Every variable has its type in every reachable state, and no retry loop of
\* the supervisor turns more often than it may.
THEOREM TypeCorrect == Spec => []TypeOK
<1>1. TypeInv => TypeOK
  BY DEF TypeInv, TypeOK, ThreadsInv
<1> QED
  BY <1>1, TypeInvariant, PTL

(***************************************************************************)
(* Safety.  The argument has two halves.  The record only moves along legal *)
(* transitions (RecordStep): a proof on it stays, and an execution that    *)
(* has left "running" does not come back.  And a supervisor that is about  *)
(* to open a gate, to signal or to commit a launch (a hot step) has seen   *)
(* or written a record that justifies it (SafeInv); every other action is  *)
(* Quiet.                                                                  *)
(***************************************************************************)
\* The record carries what its execution state needs.
RecordInv ==
    /\ attempt.execution \in ActiveStates => attempt.manifest
    /\ attempt.execution \in LiveStatuses => attempt.proof # None

Armed(s) == pc[s]["main"] = "write_gate" \/ gate[s] = "token" \/ target[s] # "none"
GateInv == \A s \in Supervisor : Armed(s) => attempt.proof = s

Signalling(s) == pc[s]["main"] \in {"cancel_meta", "cancel_fence", "sigterm"} \/ termed[s]
PastRunning(execution) == execution \notin {"pending", "launching", "running"}
SignalInv == \A s \in Supervisor : Signalling(s) => PastRunning(attempt.execution)

Launching(s) == pc[s]["main"] \in {"fence_manifest", "commit_launching"}
LaunchInv ==
    \A s \in Supervisor : Launching(s) =>
        /\ seen[s]["main"].revision <= attempt.revision
        /\ seen[s]["main"].revision = attempt.revision => attempt.control = "ready"

SafeInv == RecordInv /\ GateInv /\ SignalInv /\ LaunchInv

HotSteps == {"write_gate", "cancel_meta", "cancel_fence", "sigterm",
             "fence_manifest", "commit_launching"}

\* What a step leaves alone that neither arms, nor signals, nor launches.
Quiet ==
    \A s \in Supervisor :
        /\ pc'[s]["main"] \in HotSteps =>
             pc'[s]["main"] = pc[s]["main"] /\ seen'[s]["main"] = seen[s]["main"]
        /\ gate'[s] = "token" => gate[s] = "token"
        /\ target'[s] # "none" => target[s] # "none"
        /\ termed'[s] => termed[s]

-----------------------------------------------------------------------------
(* How the record moves.                                                   *)

RecordMoves ==
    \/ UNCHANGED attempt
    \/ /\ LegalTransition(attempt, attempt')
       /\ attempt.execution = "pending" /\ attempt'.execution = "launching"
            => attempt.control = "ready"

LEMMA MainRecord ==
    ASSUME TypeInv, SafeInv, NEW s \in Supervisor, MainStep(s)
    PROVE  RecordMoves
<1>1. attempt \in AttemptRecords
  BY DEF TypeInv, RecordOK
<1>2. CASE CommitLaunching(s)
  BY <1>1, <1>2 DEF CommitLaunching, Accepts, RecordMoves, SafeInv, LaunchInv, Launching
<1>3. CASE CommitRunning(s)
  BY <1>1, <1>3 DEF CommitRunning, Accepts, RecordMoves, Revise, AttemptRecords
<1>4. CASE FailCommit(s)
  BY <1>1, <1>4 DEF FailCommit, Accepts, RecordMoves, Revise, AttemptRecords
<1>5. CASE CancelCommit(s)
  BY <1>1, <1>5 DEF CancelCommit, Accepts, RecordMoves, Revise, AttemptRecords
<1>6. CASE DoneCommit(s, "main")
  BY <1>1, <1>6 DEF DoneCommit, Accepts, RecordMoves, Revise, Verdict, AttemptRecords
<1>7. CASE LostCommit(s, "main")
  BY <1>1, <1>7 DEF LostCommit, Accepts, RecordMoves, Revise, AttemptRecords
<1>8. CASE UNCHANGED attempt
  BY <1>8 DEF RecordMoves
<1> QED
  BY <1>2, <1>3, <1>4, <1>5, <1>6, <1>7, <1>8
  DEF MainStep, EnsureLease, LaunchStep, Preflight, ReplayLaunch, FenceManifest, Spawn,
      FenceRunning, WriteMetadata, WriteGate, AbortLaunch, FailFence, FailRead, FailMeta,
      WaitEnds, CancelStep, CancelRead, CancelMeta, CancelFence, Sigterm, Grace, KillFence,
      Sigkill, Reap, LostRead, ReconcileRead, ReconcileVerify, Close, CompleteStep, DoneFence,
      DoneRead, DoneMeta, LostStep, LostFence, LostMeta, record

LEMMA RecordStep ==
    ASSUME TypeInv, SafeInv, [Next]_vars
    PROVE  RecordMoves
<1>1. attempt \in AttemptRecords
  BY DEF TypeInv, RecordOK
<1>2. ASSUME NEW s \in Supervisor, MonitorStep(s) PROVE RecordMoves
  <2>1. CASE DoneCommit(s, "monitor")
    BY <1>1, <2>1 DEF DoneCommit, Accepts, RecordMoves, Revise, Verdict, AttemptRecords
  <2>2. CASE LostCommit(s, "monitor")
    BY <1>1, <2>2 DEF LostCommit, Accepts, RecordMoves, Revise, AttemptRecords
  <2>3. CASE UNCHANGED attempt
    BY <2>3 DEF RecordMoves
  <2> QED
    BY <1>2, <2>1, <2>2, <2>3
    DEF MonitorStep, Monitor, LoopFence, LoopRead, LoopVerify, CompleteStep, DoneFence,
        DoneRead, DoneMeta, LostStep, LostFence, LostMeta, record
<1>3. ASSUME NEW s \in Supervisor, Heartbeat(s) \/ ShimStep(s) \/ Chance(s) PROVE RecordMoves
  BY <1>3 DEF RecordMoves, Heartbeat, ShimStep, ShimEof, ShimExec, ShimReap, Chance,
     BeginCommand, WaitInterrupted, StopServing, Interrupt, Exit, TargetExit, ShimKilled, record
<1>4. CASE UserHold \/ UserResolve
  BY <1>1, <1>4 DEF UserHold, UserResolve, RecordMoves, LegalTransition, ManifestFrozen,
     ProofFrozen, ControlStep, AttemptRecords, SafeInv, RecordInv, ActiveStates, LiveStatuses
<1>5. CASE GoesStale \/ UNCHANGED vars
  BY <1>5 DEF GoesStale, RecordMoves, record, vars
<1> QED
  BY <1>2, <1>3, <1>4, <1>5, MainRecord DEF Next

LEMMA RecordInvStep == ASSUME RecordInv, RecordMoves PROVE RecordInv'
  BY DEF RecordInv, RecordMoves, LegalTransition, LiveStatuses

LEMMA ProofStays ==
    ASSUME RecordMoves, attempt.proof # None
    PROVE  attempt'.proof = attempt.proof
  BY DEF RecordMoves, LegalTransition, ProofFrozen

LEMMA PastRunningStays ==
    ASSUME RecordMoves, PastRunning(attempt.execution)
    PROVE  PastRunning(attempt'.execution)
  BY DEF RecordMoves, LegalTransition, ExecutionStep, PastRunning

LEMMA RevisionGrows ==
    ASSUME TypeInv, RecordMoves
    PROVE  /\ attempt.revision \in Nat /\ attempt'.revision \in Nat
           /\ attempt' = attempt \/ attempt'.revision = attempt.revision + 1
  BY DEF TypeInv, RecordOK, AttemptRecords, RecordMoves, LegalTransition

LEMMA QuietSafe ==
    ASSUME TypeInv, SafeInv, RecordMoves, Quiet
    PROVE  SafeInv'
<1>1. RecordInv'
  BY RecordInvStep DEF SafeInv
<1>2. GateInv'
  <2> SUFFICES ASSUME NEW s \in Supervisor, Armed(s)' PROVE attempt'.proof = s
    BY DEF GateInv
  <2>1. Armed(s)
    BY DEF Armed, Quiet, HotSteps
  <2>2. attempt.proof = s /\ s # None
    BY <2>1, SupervisorAssumption DEF SafeInv, GateInv
  <2> QED
    BY <2>2, ProofStays
<1>3. SignalInv'
  <2> SUFFICES ASSUME NEW s \in Supervisor, Signalling(s)' PROVE PastRunning(attempt'.execution)
    BY DEF SignalInv
  <2>1. Signalling(s)
    BY DEF Signalling, Quiet, HotSteps
  <2> QED
    BY <2>1, PastRunningStays DEF SafeInv, SignalInv
<1>4. LaunchInv'
  <2> SUFFICES ASSUME NEW s \in Supervisor, Launching(s)'
               PROVE  /\ seen'[s]["main"].revision <= attempt'.revision
                      /\ seen'[s]["main"].revision = attempt'.revision => attempt'.control = "ready"
    BY DEF LaunchInv
  <2>1. Launching(s) /\ seen'[s]["main"] = seen[s]["main"]
    BY DEF Launching, Quiet, HotSteps
  <2>2. seen[s]["main"].revision \in Nat
    BY DEF TypeInv, ThreadsInv, ThreadsOK, AttemptRecords, Thread
  <2> QED
    BY <2>1, <2>2, RevisionGrows DEF SafeInv, LaunchInv
<1> QED
  BY <1>1, <1>2, <1>3, <1>4 DEF SafeInv

\* A thread of s moves to a step that is not hot, and the processes stay.
LEMMA GotoQuiet ==
    ASSUME TypeInv, NEW s \in Supervisor, NEW t \in Thread, NEW step, step \notin HotSteps,
           Goto(s, t, step), NEW rec,
           seen' \in {seen, [seen EXCEPT ![s][t] = rec]},
           UNCHANGED <<gate, target, termed>>
    PROVE  Quiet
<1>1. pc' = [pc EXCEPT ![s][t] = step]
  BY DEF Goto
<1>2. ASSUME NEW q \in Supervisor, pc'[q]["main"] \in HotSteps
      PROVE  pc'[q]["main"] = pc[q]["main"] /\ seen'[q]["main"] = seen[q]["main"]
  BY <1>1, <1>2 DEF TypeInv, ThreadsInv, ThreadsOK, Thread
<1> QED
  BY <1>2 DEF Quiet

LEMMA ReadQuiet ==
    ASSUME TypeInv, NEW s \in Supervisor, NEW t \in Thread, NEW step, step \notin HotSteps,
           Goto(s, t, step), seen' = [seen EXCEPT ![s][t] = attempt],
           UNCHANGED <<gate, target, termed>>
    PROVE  Quiet
<1>1. pc' = [pc EXCEPT ![s][t] = step]
  BY DEF Goto
<1>2. ASSUME NEW q \in Supervisor, pc'[q]["main"] \in HotSteps
      PROVE  pc'[q]["main"] = pc[q]["main"] /\ seen'[q]["main"] = seen[q]["main"]
  BY <1>1, <1>2 DEF TypeInv, ThreadsInv, ThreadsOK, Thread
<1> QED
  BY <1>2 DEF Quiet

LEMMA FenceQuiet ==
    ASSUME TypeInv, NEW s \in Supervisor, NEW t \in Thread,
           NEW passed, passed \notin HotSteps, NEW failed, failed \notin HotSteps,
           Fence(s, t, passed, failed), UNCHANGED <<seen, gate, target, termed>>
    PROVE  Quiet
  BY GotoQuiet DEF Fence

LEMMA ReturnCold == \A s \in Supervisor, t \in Thread : Return(s, t) \notin HotSteps
  BY DEF Return, HotSteps

LEMMA CompleteQuiet ==
    ASSUME TypeInv, NEW s \in Supervisor, NEW t \in Thread, CompleteStep(s, t) \/ LostStep(s, t)
    PROVE  Quiet
<1> USE DEF HotSteps, process
<1>1. CASE DoneFence(s, t)
  BY <1>1, FenceQuiet, ReturnCold DEF DoneFence
<1>2. CASE DoneRead(s, t)
  BY <1>2, ReadQuiet DEF DoneRead
<1>3. CASE DoneCommit(s, t)
  BY <1>3, GotoQuiet, ReturnCold DEF DoneCommit
<1>4. CASE DoneMeta(s, t)
  BY <1>4, GotoQuiet, ReturnCold DEF DoneMeta
<1>5. CASE LostFence(s, t)
  BY <1>5, FenceQuiet, ReturnCold DEF LostFence
<1>6. CASE LostCommit(s, t)
  BY <1>6, GotoQuiet, ReturnCold DEF LostCommit
<1>7. CASE LostMeta(s, t)
  BY <1>7, GotoQuiet, ReturnCold DEF LostMeta
<1> QED
  BY <1>1, <1>2, <1>3, <1>4, <1>5, <1>6, <1>7 DEF CompleteStep, LostStep

LEMMA MonitorQuiet ==
    ASSUME TypeInv, NEW s \in Supervisor, MonitorStep(s)
    PROVE  Quiet
<1> USE DEF HotSteps, process, Thread
<1>1. CASE Monitor(s)
  BY <1>1, GotoQuiet DEF Monitor
<1>2. CASE LoopFence(s)
  BY <1>2, FenceQuiet DEF LoopFence
<1>3. CASE LoopRead(s)
  BY <1>3, ReadQuiet DEF LoopRead
<1>4. CASE LoopVerify(s)
  BY <1>4, GotoQuiet DEF LoopVerify
<1> QED
  BY <1>1, <1>2, <1>3, <1>4, CompleteQuiet DEF MonitorStep

(***************************************************************************)
(* The launch.                                                             *)
(***************************************************************************)
LEMMA PreflightSafe ==
    ASSUME TypeInv, SafeInv, NEW s \in Supervisor, Preflight(s) \/ FenceManifest(s)
    PROVE  SafeInv'
<1> USE DEF record, process, Thread
<1>1. UNCHANGED <<attempt, gate, target, termed>>
  BY DEF Preflight, FenceManifest
<1>2. PICK step \in {"fence_manifest", "commit_launching", "close"} :
        pc' = [pc EXCEPT ![s]["main"] = step]
  BY DEF Preflight, FenceManifest, Fence, Goto
<1>3. RecordInv' /\ GateInv' /\ SignalInv'
  BY <1>1, <1>2 DEF SafeInv, RecordInv, GateInv, Armed, SignalInv, Signalling, TypeInv, ThreadsInv, ThreadsOK
<1>4. LaunchInv'
  <2>1. CASE Preflight(s)
    BY <1>1, <2>1 DEF Preflight, Goto, SafeInv, LaunchInv, Launching, TypeInv, RecordOK,
       AttemptRecords, ThreadsInv, ThreadsOK
  <2>2. CASE FenceManifest(s)
    BY <1>1, <1>2, <2>2 DEF FenceManifest, SafeInv, LaunchInv, Launching, TypeInv, ThreadsInv, ThreadsOK
  <2> QED
    BY <2>1, <2>2
<1> QED
  BY <1>3, <1>4 DEF SafeInv

LEMMA CommitRunningSafe ==
    ASSUME TypeInv, SafeInv, RecordMoves, NEW s \in Supervisor, CommitRunning(s)
    PROVE  SafeInv'
<1> DEFINE new == [Revise("running") EXCEPT !.proof = s]
<1>1. CASE ~Accepts(s, "main", new)
  <2>1. Quiet
    BY <1>1, GotoQuiet DEF CommitRunning, process, HotSteps, Thread
  <2> QED
    BY <2>1, QuietSafe
<1>2. CASE Accepts(s, "main", new)
  <2>1. /\ attempt' = new
        /\ pc' = [pc EXCEPT ![s] = [main |-> "write_gate", monitor |-> "watch"]]
        /\ seen' = [seen EXCEPT ![s]["main"] = new]
        /\ UNCHANGED <<gate, target, termed>>
    BY <1>2 DEF CommitRunning, process
  <2>2. attempt \in AttemptRecords /\ attempt'.proof = s
    BY <2>1 DEF TypeInv, RecordOK, Revise, AttemptRecords
  <2>3. RecordInv'
    BY RecordInvStep DEF SafeInv
  <2>4. GateInv'
    <3> SUFFICES ASSUME NEW q \in Supervisor, Armed(q)' PROVE attempt'.proof = q
      BY DEF GateInv
    <3>1. CASE q = s
      BY <2>2, <3>1
    <3>2. CASE q # s
      <4>1. Armed(q) /\ q # None
        BY <2>1, <3>2, SupervisorAssumption DEF Armed, TypeInv, ThreadsInv, ThreadsOK
      <4> QED
        BY <4>1, ProofStays DEF SafeInv, GateInv
    <3> QED
      BY <3>1, <3>2
  <2>5. SignalInv'
    <3> SUFFICES ASSUME NEW q \in Supervisor, Signalling(q)' PROVE PastRunning(attempt'.execution)
      BY DEF SignalInv
    <3>1. Signalling(q)
      BY <2>1 DEF Signalling, TypeInv, ThreadsInv, ThreadsOK
    <3> QED
      BY <3>1, PastRunningStays DEF SafeInv, SignalInv
  <2>6. LaunchInv'
    <3> SUFFICES ASSUME NEW q \in Supervisor, Launching(q)'
                 PROVE  /\ seen'[q]["main"].revision <= attempt'.revision
                        /\ seen'[q]["main"].revision = attempt'.revision => attempt'.control = "ready"
      BY DEF LaunchInv
    <3>1. Launching(q) /\ seen'[q] = seen[q]
      BY <2>1 DEF Launching, TypeInv, ThreadsInv, ThreadsOK
    <3>2. seen[q]["main"].revision \in Nat
      BY DEF TypeInv, ThreadsInv, ThreadsOK, AttemptRecords, Thread
    <3> QED
      BY <3>1, <3>2, RevisionGrows DEF SafeInv, LaunchInv
  <2> QED
    BY <2>3, <2>4, <2>5, <2>6 DEF SafeInv
<1> QED
  BY <1>1, <1>2

LEMMA WriteGateSafe ==
    ASSUME TypeInv, SafeInv, NEW s \in Supervisor, WriteGate(s)
    PROVE  SafeInv'
<1>1. UNCHANGED <<attempt, seen, target, termed>> /\ pc[s]["main"] = "write_gate"
  BY DEF WriteGate, record
<1>2. gate' \in {gate, [gate EXCEPT ![s] = "token"]}
  BY DEF WriteGate
<1>3. PICK step \in {"wait", "abort"} : pc' = [pc EXCEPT ![s]["main"] = step]
  BY DEF WriteGate, Goto
<1>4. GateInv'
  BY <1>1, <1>2, <1>3 DEF SafeInv, GateInv, Armed, TypeInv, ThreadsInv, ThreadsOK, ProcessOK, Thread
<1>5. RecordInv' /\ SignalInv' /\ LaunchInv'
  BY <1>1, <1>3 DEF SafeInv, RecordInv, SignalInv, Signalling, LaunchInv, Launching, TypeInv,
     ThreadsInv, ThreadsOK, Thread
<1> QED
  BY <1>4, <1>5 DEF SafeInv

LEMMA LaunchSafe ==
    ASSUME TypeInv, SafeInv, RecordMoves, NEW s \in Supervisor, LaunchStep(s)
    PROVE  SafeInv'
<1> USE DEF HotSteps, process, Thread
<1>1. CASE Preflight(s) \/ FenceManifest(s)
  BY <1>1, PreflightSafe
<1>2. CASE CommitRunning(s)
  BY <1>2, CommitRunningSafe
<1>3. CASE WriteGate(s)
  BY <1>3, WriteGateSafe
<1>4. ASSUME ~(Preflight(s) \/ FenceManifest(s) \/ CommitRunning(s) \/ WriteGate(s))
      PROVE  Quiet
  <2>1. CASE ReplayLaunch(s)
    BY <2>1, GotoQuiet DEF ReplayLaunch
  <2>2. CASE CommitLaunching(s)
    BY <2>2, GotoQuiet DEF CommitLaunching
  <2>3. CASE Spawn(s)
    <3>1. PICK step \in {"fence_running", "abort", "fail_fence"} : Goto(s, "main", step)
      BY <2>3 DEF Spawn
    <3>2. \A q \in Supervisor : gate'[q] = "token" => gate[q] = "token"
      BY <2>3 DEF Spawn, TypeInv, ProcessOK
    <3> QED
      BY <2>3, <3>1, <3>2 DEF Spawn, Quiet, Goto, TypeInv, ThreadsInv, ThreadsOK
  <2>4. CASE FenceRunning(s)
    BY <2>4, FenceQuiet DEF FenceRunning
  <2>5. CASE WriteMetadata(s)
    BY <2>5, GotoQuiet DEF WriteMetadata
  <2>6. CASE AbortLaunch(s)
    <3>1. \A q \in Supervisor : gate'[q] = "token" => gate[q] = "token"
      BY <2>6 DEF AbortLaunch, TypeInv, ProcessOK
    <3> QED
      BY <2>6, <3>1 DEF AbortLaunch, Quiet, Goto, TypeInv, ThreadsInv, ThreadsOK
  <2>7. CASE FailFence(s)
    BY <2>7, FenceQuiet DEF FailFence
  <2>8. CASE FailRead(s)
    BY <2>8, ReadQuiet DEF FailRead
  <2>9. CASE FailCommit(s)
    BY <2>9, GotoQuiet DEF FailCommit
  <2>10. CASE FailMeta(s)
    BY <2>10, GotoQuiet DEF FailMeta
  <2> QED
    BY <1>4, <2>1, <2>2, <2>3, <2>4, <2>5, <2>6, <2>7, <2>8, <2>9, <2>10 DEF LaunchStep
<1> QED
  BY <1>1, <1>2, <1>3, <1>4, QuietSafe

(***************************************************************************)
(* The cancellation.  Its hot steps leave gates and agents alone.          *)
(***************************************************************************)
LEMMA SignalStep ==
    ASSUME TypeInv, SafeInv, RecordMoves, PastRunning(attempt'.execution),
           NEW s \in Supervisor, NEW step \in Steps,
           step \notin {"write_gate", "fence_manifest", "commit_launching"},
           Goto(s, "main", step), \A q \in Supervisor : q # s => seen'[q] = seen[q],
           UNCHANGED <<gate, target>>
    PROVE  SafeInv'
<1> USE DEF Thread
<1>1. RecordInv'
  BY RecordInvStep DEF SafeInv
<1>2. GateInv'
  <2> SUFFICES ASSUME NEW q \in Supervisor, Armed(q)' PROVE attempt'.proof = q
    BY DEF GateInv
  <2>1. Armed(q) /\ q # None
    BY SupervisorAssumption DEF Armed, Goto, TypeInv, ThreadsInv, ThreadsOK
  <2> QED
    BY <2>1, ProofStays DEF SafeInv, GateInv
<1>3. SignalInv'
  BY DEF SignalInv
<1>4. LaunchInv'
  <2> SUFFICES ASSUME NEW q \in Supervisor, Launching(q)'
               PROVE  /\ seen'[q]["main"].revision <= attempt'.revision
                      /\ seen'[q]["main"].revision = attempt'.revision => attempt'.control = "ready"
    BY DEF LaunchInv
  <2>1. Launching(q) /\ seen'[q] = seen[q]
    BY DEF Launching, Goto, TypeInv, ThreadsInv, ThreadsOK
  <2>2. seen[q]["main"].revision \in Nat
    BY DEF TypeInv, ThreadsInv, ThreadsOK, AttemptRecords
  <2> QED
    BY <2>1, <2>2, RevisionGrows DEF SafeInv, LaunchInv
<1> QED
  BY <1>1, <1>2, <1>3, <1>4 DEF SafeInv

LEMMA CancelSafe ==
    ASSUME TypeInv, SafeInv, RecordMoves, NEW s \in Supervisor, CancelStep(s)
    PROVE  SafeInv'
<1> USE DEF HotSteps, process, record, Thread, Steps, MainSteps, SharedSteps
<1>1. CASE CancelRead(s)
  <2>1. CASE CancelFrom(attempt) = "cancel_fence"
    <3>1. PastRunning(attempt'.execution)
      BY <1>1, <2>1 DEF CancelRead, CancelFrom, PastRunning, LiveStatuses
    <3>2. \A q \in Supervisor : q # s => seen'[q] = seen[q]
      BY <1>1 DEF CancelRead, TypeInv, ThreadsInv, ThreadsOK
    <3> QED
      BY <1>1, <2>1, <3>1, <3>2, SignalStep DEF CancelRead
  <2>2. CASE CancelFrom(attempt) # "cancel_fence"
    <3>1. CancelFrom(attempt) \notin HotSteps
      BY <2>2 DEF CancelFrom
    <3> QED
      BY <1>1, <3>1, ReadQuiet, QuietSafe DEF CancelRead
  <2> QED
    BY <2>1, <2>2
<1>2. CASE CancelCommit(s)
  <2>1. CASE Accepts(s, "main", Revise("cancel_requested"))
    <3>1. PastRunning(attempt'.execution)
      BY <1>2, <2>1 DEF CancelCommit, Revise, PastRunning, TypeInv, RecordOK, AttemptRecords
    <3>2. \A q \in Supervisor : q # s => seen'[q] = seen[q]
      BY <1>2, <2>1 DEF CancelCommit, TypeInv, ThreadsInv, ThreadsOK
    <3> QED
      BY <1>2, <2>1, <3>1, <3>2, SignalStep DEF CancelCommit
  <2>2. CASE ~Accepts(s, "main", Revise("cancel_requested"))
    BY <1>2, <2>2, GotoQuiet, QuietSafe DEF CancelCommit
  <2> QED
    BY <2>1, <2>2
<1>3. CASE CancelMeta(s)
  <2>1. PastRunning(attempt'.execution)
    BY <1>3 DEF CancelMeta, SafeInv, SignalInv, Signalling
  <2> QED
    BY <1>3, <2>1, SignalStep DEF CancelMeta
<1>4. CASE CancelFence(s)
  <2>1. PastRunning(attempt'.execution)
    BY <1>4 DEF CancelFence, SafeInv, SignalInv, Signalling
  <2> QED
    BY <1>4, <2>1, SignalStep DEF CancelFence, Fence
<1>5. CASE Sigterm(s)
  <2>1. PastRunning(attempt'.execution)
    BY <1>5 DEF Sigterm, SafeInv, SignalInv, Signalling
  <2> QED
    BY <1>5, <2>1, SignalStep DEF Sigterm
<1>6. CASE Grace(s)
  BY <1>6, GotoQuiet, QuietSafe DEF Grace
<1>7. CASE KillFence(s)
  BY <1>7, FenceQuiet, QuietSafe DEF KillFence
<1>8. CASE Sigkill(s)
  <2>1. PICK step \in {"reap", "lost_read"} : Goto(s, "main", step)
    BY <1>8 DEF Sigkill
  <2>2. \A q \in Supervisor : target'[q] # "none" => target[q] # "none"
    BY <1>8 DEF Sigkill, TypeInv, ProcessOK
  <2>3. Quiet
    BY <1>8, <2>1, <2>2 DEF Sigkill, Quiet, Goto, TypeInv, ThreadsInv, ThreadsOK
  <2> QED
    BY <2>3, QuietSafe
<1>9. CASE Reap(s)
  BY <1>9, GotoQuiet, QuietSafe DEF Reap
<1> QED
  BY <1>1, <1>2, <1>3, <1>4, <1>5, <1>6, <1>7, <1>8, <1>9 DEF CancelStep

(***************************************************************************)
(* The other steps.                                                        *)
(***************************************************************************)
LEMMA MainSafe ==
    ASSUME TypeInv, SafeInv, RecordMoves, NEW s \in Supervisor, MainStep(s)
    PROVE  SafeInv'
<1> USE DEF HotSteps, process, record, Thread
<1>1. CASE LaunchStep(s)
  BY <1>1, LaunchSafe
<1>2. CASE CancelStep(s)
  BY <1>2, CancelSafe
<1>3. CASE EnsureLease(s)
  <2>1. EnsureLeaseNext(s) \notin HotSteps
    BY DEF EnsureLeaseNext
  <2>2. PICK step \in {EnsureLeaseNext(s), "close"} : Goto(s, "main", step)
    BY <1>3 DEF EnsureLease, Fence
  <2> QED
    BY <1>3, <2>1, <2>2, GotoQuiet, QuietSafe DEF EnsureLease
<1>4. CASE WaitEnds(s)
  BY <1>4, GotoQuiet, QuietSafe DEF WaitEnds
<1>5. CASE LostRead(s)
  BY <1>5, ReadQuiet, ReturnCold, QuietSafe DEF LostRead
<1>6. CASE ReconcileRead(s)
  <2>1. PICK step \in {"serve", "lost_fence", "reconcile_verify"} : Goto(s, "main", step)
    BY <1>6 DEF ReconcileRead
  <2> QED
    BY <1>6, <2>1, ReadQuiet, QuietSafe DEF ReconcileRead
<1>7. CASE ReconcileVerify(s)
  <2>1. Quiet
    BY <1>7 DEF ReconcileVerify, Quiet, Goto, TypeInv, ThreadsInv, ThreadsOK
  <2> QED
    BY <2>1, QuietSafe
<1>8. CASE Close(s)
  BY <1>8, GotoQuiet, QuietSafe DEF Close
<1>9. CASE CompleteStep(s, "main") \/ LostStep(s, "main")
  BY <1>9, CompleteQuiet, QuietSafe
<1> QED
  BY <1>1, <1>2, <1>3, <1>4, <1>5, <1>6, <1>7, <1>8, <1>9 DEF MainStep

\* The shim starts the agent, but only behind a gate that was opened.
LEMMA ShimSafe ==
    ASSUME TypeInv, SafeInv, NEW s \in Supervisor, ShimExec(s)
    PROVE  SafeInv'
<1>1. UNCHANGED <<attempt, pc, seen, gate, termed>>
  BY DEF ShimExec, record, threads
<1>2. \A q \in Supervisor : Armed(q)' => Armed(q)
  BY <1>1 DEF ShimExec, Armed, TypeInv, ProcessOK
<1> QED
  BY <1>1, <1>2 DEF SafeInv, RecordInv, GateInv, SignalInv, Signalling, LaunchInv, Launching

LEMMA ShimQuiet ==
    ASSUME TypeInv, NEW s \in Supervisor,
           ShimEof(s) \/ ShimReap(s) \/ ShimKilled(s) \/ Heartbeat(s)
           \/ \E status \in {"zero", "nonzero"} : TargetExit(s, status)
    PROVE  Quiet
<1>1. UNCHANGED <<pc, seen, gate, termed>>
  BY DEF ShimEof, ShimReap, ShimKilled, Heartbeat, TargetExit, record, threads, process
<1>2. \A q \in Supervisor : target'[q] # "none" => target[q] # "none"
  BY DEF ShimEof, ShimReap, ShimKilled, Heartbeat, TargetExit, process, TypeInv, ProcessOK
<1> QED
  BY <1>1, <1>2 DEF Quiet

LEMMA ChanceQuiet ==
    ASSUME TypeInv, NEW s \in Supervisor, Chance(s)
    PROVE  Quiet
<1> USE DEF HotSteps, process, Thread
<1>1. CASE \E c \in Commands[s] : BeginCommand(s, c)
  BY <1>1, GotoQuiet DEF BeginCommand
<1>2. CASE WaitInterrupted(s)
  BY <1>2, GotoQuiet DEF WaitInterrupted
<1>3. CASE StopServing(s)
  BY <1>3, GotoQuiet DEF StopServing
<1>4. CASE Interrupt(s)
  BY <1>4, GotoQuiet DEF Interrupt
<1>5. CASE Exit(s)
  BY <1>5 DEF Exit, Quiet, TypeInv, ThreadsInv, ThreadsOK, ProcessOK
<1>6. CASE ShimKilled(s) \/ \E status \in {"zero", "nonzero"} : TargetExit(s, status)
  BY <1>6, ShimQuiet
<1> QED
  BY <1>1, <1>2, <1>3, <1>4, <1>5, <1>6 DEF Chance

LEMMA NextSafe == ASSUME TypeInv, SafeInv, [Next]_vars PROVE SafeInv'
<1>1. RecordMoves
  BY RecordStep
<1>2. ASSUME NEW s \in Supervisor, MainStep(s) PROVE SafeInv'
  BY <1>1, <1>2, MainSafe
<1>3. ASSUME NEW s \in Supervisor, MonitorStep(s) \/ Chance(s) \/ Heartbeat(s) PROVE SafeInv'
  BY <1>1, <1>3, MonitorQuiet, ChanceQuiet, ShimQuiet, QuietSafe
<1>4. ASSUME NEW s \in Supervisor, ShimStep(s) PROVE SafeInv'
  BY <1>1, <1>4, ShimSafe, ShimQuiet, QuietSafe DEF ShimStep
<1>5. CASE GoesStale \/ UserHold \/ UserResolve \/ UNCHANGED vars
  <2>1. Quiet
    BY <1>5 DEF GoesStale, UserHold, UserResolve, vars, threads, process, Quiet
  <2> QED
    BY <1>1, <2>1, QuietSafe
<1> QED
  BY <1>2, <1>3, <1>4, <1>5 DEF Next

LEMMA InitSafe == Init => SafeInv
  BY SupervisorAssumption
  DEF Init, SafeInv, RecordInv, ActiveStates, LiveStatuses, GateInv, Armed, SignalInv, Signalling,
      LaunchInv, Launching, Thread

LEMMA SafeInvariant == Spec => []SafeInv
  BY InitSafe, NextSafe, TypeInvariant, PTL DEF Spec

-----------------------------------------------------------------------------
(* The theorems.                                                           *)

\* No agent process runs that the control store does not identify: whatever
\* crashed, was taken over or was aborted, the proof was durable first.
THEOREM ProofBeforeExecHolds == Spec => []ProofBeforeExec
<1>1. SafeInv => ProofBeforeExec
  BY DEF SafeInv, GateInv, Armed, ProofBeforeExec
<1> QED
  BY <1>1, SafeInvariant, PTL

\* At most one of any number of supervisors ever starts an agent.
THEOREM OneAgentEver ==
    Spec => [](\A p, q \in Supervisor : target[p] # "none" /\ target[q] # "none" => p = q)
<1>1. SafeInv => \A p, q \in Supervisor : target[p] # "none" /\ target[q] # "none" => p = q
  BY DEF SafeInv, GateInv, Armed
<1> QED
  BY <1>1, SafeInvariant, PTL

\* No process is signalled before its cancellation is in the control store,
\* and the record never returns to a state that forgets the request.
THEOREM IntentBeforeSignalHolds == Spec => []IntentBeforeSignal
<1>1. SafeInv => IntentBeforeSignal
  BY DEF SafeInv, SignalInv, Signalling, PastRunning, IntentBeforeSignal
<1> QED
  BY <1>1, SafeInvariant, PTL

\* No interleaving of a launch with the user's approval commands launches an
\* attempt that is on hold.
THEOREM HoldStopsLaunchHolds == Spec => HoldStopsLaunch
<1>1. TypeInv /\ SafeInv /\ [Next]_vars
        => [attempt.execution = "pending" /\ attempt'.execution = "launching"
              => attempt.control = "ready"]_vars
  <2> SUFFICES ASSUME TypeInv, SafeInv, [Next]_vars,
                      attempt.execution = "pending", attempt'.execution = "launching"
               PROVE  attempt.control = "ready"
    OBVIOUS
  <2> QED
    BY RecordStep DEF RecordMoves
<1> QED
  BY <1>1, TypeInvariant, SafeInvariant, PTL DEF Spec, HoldStopsLaunch

\* Whatever the supervisors do, one revision of the record follows another by a
\* legal transition: an ended attempt stays ended, and its manifest and process
\* proof never change.
THEOREM RecordMovesLegally == Spec => [][RecordMoves]_vars
<1>1. TypeInv /\ SafeInv /\ [Next]_vars => [RecordMoves]_vars
  BY RecordStep
<1> QED
  BY <1>1, TypeInvariant, SafeInvariant, PTL DEF Spec
=============================================================================
