-------------------------- MODULE ControlCommands --------------------------
(***************************************************************************)
(* The control commands (cli.py, "agentacct control ...") over the control *)
(* store (control_plane.py): registering agents and workspaces, planning a *)
(* task, requesting and deciding approvals, launching, retrying.  Each     *)
(* client is one process that runs one command after another; commands are *)
(* repeated and run side by side at will.  The projection of the action    *)
(* log is the state, and a step is one projection read or one append under *)
(* the store's lock.                                                       *)
(*                                                                         *)
(* The idempotency key of an append is derived from the command and its    *)
(* part, so the command is the key.  A command that is refused ends where  *)
(* it is, like one that is killed (End): what it has appended stays, and a *)
(* step whose guard fails is left to that.  One task is modelled; its ids  *)
(* of attempts and approvals are given explicitly.                         *)
(*                                                                         *)
(* Operators named Mutant... are not part of the model: each is a wrong    *)
(* version of the definition that follows it, which a property must refute.*)
(***************************************************************************)
EXTENDS AttemptRecord, FiniteSets

CONSTANTS
    Client,         \* processes that run commands
    Attempt,        \* attempt ids
    Approval,       \* approval ids
    Command         \* the commands that may be run

Envelopes == {"read_only", "workspace_write", "approval_required"}

PlanCommands == [kind: {"plan"}, attempt: Attempt, envelope: Envelopes]
RetryCommands == [kind: {"retry"}, source: Attempt, revision: Nat, attempt: Attempt]
RequestCommands == [kind: {"request"}, attempt: Attempt, revision: Nat, approval: Approval]
DecideCommands == [kind: {"decide"}, approval: Approval, approve: BOOLEAN]
LaunchCommands == [kind: {"launch"}, attempt: Attempt, revision: Nat]
RegisterCommands == [kind: {"agent", "workspace"}, revision: Nat, enabled: BOOLEAN]

ASSUME CommandAssumption ==
    /\ None \notin Attempt
    /\ Command \subseteq PlanCommands \cup RetryCommands \cup RequestCommands
                         \cup DecideCommands \cup LaunchCommands \cup RegisterCommands

VARIABLES
    agent,      \* the registered agent: revision (0 if none) and enabled
    workspace,  \* the registered workspace, likewise
    task,       \* whether the task exists
    contract,   \* the permission envelope of its contract, or "none"
    attempts,   \* the attempts of the task
    approvals,  \* the approval requests
    log,        \* the idempotency keys committed, with the attempt each revised
    expired,    \* approvals whose expires_at has passed
    pc,         \* per client: the next step of its command
    command,    \* per client: the command it runs
    seen        \* per client: attempt revision its step works from

store == <<agent, workspace, task, contract, attempts, approvals, log>>
vars == <<agent, workspace, task, contract, attempts, approvals, log, expired,
          pc, command, seen>>

Registrations == [revision: Nat, enabled: BOOLEAN]
Unregistered == [revision |-> 0, enabled |-> FALSE]

NoAttempt == [execution |-> "absent", control |-> "ready", manifest |-> FALSE,
              proof |-> None, revision |-> 0, agent |-> 0]
AttemptRecords == [execution: ExecutionStates \cup {"absent"}, control: ControlStates,
                   manifest: BOOLEAN, proof: Attempt \cup {None}, revision: Nat, agent: Nat]

NoApproval == [state |-> "absent", attempt |-> None]
ApprovalRecords == [state: {"absent", "pending", "consumed", "rejected"},
                    attempt: Attempt \cup {None}]

Moves == [kind: {"supervise"}, execution: ExecutionStates]
Keys == [by: Command \cup Moves, part: {"register", "task", "contract", "attempt", "hold", "request",
                                        "resolve", "launch", "transition"},
         target: Attempt \cup {None}]

NoCommand == [kind |-> "none"]
ClientSteps == {"idle", "task", "contract", "attempt", "hold", "request", "resolve",
                "preflight", "launch"}

\* Every variable has its type.
TypeOK ==
    /\ agent \in Registrations /\ workspace \in Registrations
    /\ task \in BOOLEAN
    /\ contract \in Envelopes \cup {"none"}
    /\ attempts \in [Attempt -> AttemptRecords]
    /\ approvals \in [Approval -> ApprovalRecords]
    /\ log \subseteq Keys
    /\ expired \subseteq Approval
    /\ pc \in [Client -> ClientSteps]
    /\ command \in [Client -> Command \cup {NoCommand}]
    /\ seen \in [Client -> Nat]

Init ==
    /\ agent = Unregistered /\ workspace = Unregistered
    /\ task = FALSE /\ contract = "none"
    /\ attempts = [a \in Attempt |-> NoAttempt]
    /\ approvals = [p \in Approval |-> NoApproval]
    /\ log = {} /\ expired = {}
    /\ pc = [c \in Client |-> "idle"]
    /\ command = [c \in Client |-> NoCommand]
    /\ seen = [c \in Client |-> 0]

-----------------------------------------------------------------------------
(* What the steps are made of.                                             *)

\* contract_requires_launch_approval: either spelling of a mutating contract.
MutantRequires(envelope) == envelope = "approval_required"
Requires(envelope) == envelope \in {"workspace_write", "approval_required"}

Exists(a) == attempts[a].execution # "absent"

\* Projection.idempotency holds the key of this part of the command.
Committed(k, part) == \E e \in log : e.by = k /\ e.part = part
Append(k, part, target) == log' = log \cup {[by |-> k, part |-> part, target |-> target]}

Goto(c, step) == pc' = [pc EXCEPT ![c] = step]

\* An idle client runs command k, whose first read leads to this step.
Start(c, k, step) ==
    /\ pc[c] = "idle"
    /\ command' = [command EXCEPT ![c] = k]
    /\ Goto(c, step)

\* A command's result is printed and its client is free again.
Done(c) ==
    /\ Goto(c, "idle")
    /\ command' = [command EXCEPT ![c] = NoCommand]
    /\ seen' = [seen EXCEPT ![c] = 0]

\* The command is refused, interrupted or killed.
End(c) ==
    /\ pc[c] # "idle"
    /\ Done(c)
    /\ UNCHANGED <<store, expired>>

\* The clock passes expires_at; once the approval is decided it does not matter.
Expires(p) ==
    /\ p \notin expired /\ approvals[p].state \in {"absent", "pending"}
    /\ expired' = expired \cup {p}
    /\ UNCHANGED <<store, pc, command, seen>>

-----------------------------------------------------------------------------
(* register-agent, register-workspace.                                     *)

Registered(k) == [revision |-> k.revision + 1, enabled |-> k.enabled]

RegisterAgent(k) ==
    /\ k.kind = "agent"
    /\ ~Committed(k, "register")
    /\ agent.revision = k.revision
    /\ agent' = Registered(k)
    /\ Append(k, "register", None)
    /\ UNCHANGED <<workspace, task, contract, attempts, approvals, expired, pc, command, seen>>

RegisterWorkspace(k) ==
    /\ k.kind = "workspace"
    /\ ~Committed(k, "register")
    /\ workspace.revision = k.revision
    /\ workspace' = Registered(k)
    /\ Append(k, "register", None)
    /\ UNCHANGED <<agent, task, contract, attempts, approvals, expired, pc, command, seen>>

-----------------------------------------------------------------------------
(* plan and retry: the task, its contract and its attempts.                *)

PlanCheck(c, k) ==
    /\ k.kind = "plan"
    /\ agent.enabled /\ workspace.enabled
    /\ Start(c, k, "task")
    /\ UNCHANGED <<store, expired, seen>>

CreateTask(c) ==
    LET k == command[c]
    IN  /\ pc[c] = "task"
        /\ \/ Committed(k, "task") /\ UNCHANGED <<task, log>>
           \/ /\ ~Committed(k, "task")
              /\ ~task
              /\ task' = TRUE
              /\ Append(k, "task", None)
        /\ Goto(c, "contract")
        /\ UNCHANGED <<agent, workspace, contract, attempts, approvals, expired, command, seen>>

CreateContract(c) ==
    LET k == command[c]
    IN  /\ pc[c] = "contract"
        /\ \/ Committed(k, "contract") /\ UNCHANGED <<contract, log>>
           \/ /\ ~Committed(k, "contract")
              /\ task /\ workspace.revision > 0 /\ contract = "none"
              /\ contract' = k.envelope
              /\ Append(k, "contract", None)
        /\ Goto(c, "attempt")
        /\ UNCHANGED <<agent, workspace, task, attempts, approvals, expired, command, seen>>

\* A retry needs an ended source, and its revision unless it is a repetition.
RetryCheck(c, k) ==
    /\ k.kind = "retry"
    /\ attempts[k.source].execution \in {"failed", "cancelled", "lost"}
    /\ agent.enabled
    /\ \/ Committed(k, "attempt")
       \/ attempts[k.source].revision = k.revision /\ workspace.enabled
    /\ Start(c, k, "attempt")
    /\ UNCHANGED <<store, expired, seen>>

\* create_attempt freezes the agent's revision, and holds the attempt from its
\* first revision when the contract requires an approval.
NewAttempt == [NoAttempt EXCEPT !.execution = "pending", !.revision = 1, !.agent = agent.revision,
                                !.control = IF Requires(contract) THEN "awaiting_approval" ELSE "ready"]

CreateAttempt(c) ==
    LET k == command[c]
    IN  /\ pc[c] = "attempt"
        /\ \/ Committed(k, "attempt") /\ UNCHANGED <<attempts, log>>
           \/ /\ ~Committed(k, "attempt")
              /\ ~Exists(k.attempt)
              /\ task /\ contract # "none" /\ agent.enabled /\ workspace.enabled
              /\ attempts' = [attempts EXCEPT ![k.attempt] = NewAttempt]
              /\ Append(k, "attempt", k.attempt)
        /\ Done(c)
        /\ UNCHANGED <<agent, workspace, task, contract, approvals, expired>>

-----------------------------------------------------------------------------
(* request-approval: hold the attempt, then record the request.            *)

\* The command's checks; a command that has held the attempt before passes.
MutantRequestPasses(k) ==
    /\ k.approval \notin expired
    /\ Exists(k.attempt)
    /\ attempts[k.attempt].revision = k.revision
    /\ attempts[k.attempt].control \in {"ready", "awaiting_approval"}
RequestPasses(k) ==
    /\ k.approval \notin expired
    /\ Exists(k.attempt)
    /\ \/ Committed(k, "hold")
       \/ /\ attempts[k.attempt].revision = k.revision
          /\ attempts[k.attempt].control \in {"ready", "awaiting_approval"}

RequestCheck(c, k) ==
    /\ k.kind = "request"
    /\ RequestPasses(k)
    /\ Start(c, k, "hold")
    /\ UNCHANGED <<store, expired, seen>>

\* Neither the key nor the revision is compared.
MutantHold(c) ==
    LET k == command[c]
        held == [attempts[k.attempt] EXCEPT !.control = "awaiting_approval", !.revision = @ + 1]
    IN  /\ pc[c] = "hold"
        /\ LegalTransition(attempts[k.attempt], held)
        /\ attempts' = [attempts EXCEPT ![k.attempt] = held]
        /\ Append(k, "hold", k.attempt)
        /\ Goto(c, "request")
        /\ UNCHANGED <<agent, workspace, task, contract, approvals, expired, command, seen>>
Hold(c) ==
    LET k == command[c]
        held == [attempts[k.attempt] EXCEPT !.control = "awaiting_approval", !.revision = @ + 1]
    IN  /\ pc[c] = "hold"
        /\ \/ Committed(k, "hold") /\ UNCHANGED <<attempts, log>>
           \/ /\ ~Committed(k, "hold")
              /\ attempts[k.attempt].revision = k.revision
              /\ LegalTransition(attempts[k.attempt], held)
              /\ attempts' = [attempts EXCEPT ![k.attempt] = held]
              /\ Append(k, "hold", k.attempt)
        /\ Goto(c, "request")
        /\ UNCHANGED <<agent, workspace, task, contract, approvals, expired, command, seen>>

Request(c) ==
    LET k == command[c]
    IN  /\ pc[c] = "request"
        /\ \/ Committed(k, "request") /\ UNCHANGED <<approvals, log>>
           \/ /\ ~Committed(k, "request")
              /\ approvals[k.approval].state = "absent" /\ k.approval \notin expired
              /\ approvals' = [approvals EXCEPT ![k.approval] =
                                 [state |-> "pending", attempt |-> k.attempt]]
              /\ Append(k, "request", None)
        /\ Done(c)
        /\ UNCHANGED <<agent, workspace, task, contract, attempts, expired>>

-----------------------------------------------------------------------------
(* decide-approval: resolve_approval_for_attempt moves the approval and its *)
(* attempt in one append.  The decision is dated when it is read.           *)

ReadApproval(c, k) ==
    LET p == k.approval
        a == approvals[p].attempt
    IN  /\ k.kind = "decide"
        /\ approvals[p].state = "pending" /\ p \notin expired
        /\ attempts[a].execution = "pending" /\ attempts[a].control = "awaiting_approval"
        /\ seen' = [seen EXCEPT ![c] = attempts[a].revision]
        /\ Start(c, k, "resolve")
        /\ UNCHANGED <<store, expired>>

Resolved(a, approve) ==
    [attempts[a] EXCEPT !.control = IF approve THEN "ready" ELSE "policy_hold", !.revision = @ + 1]

MutantResolve(c) ==
    LET k == command[c]
        p == k.approval
        a == approvals[p].attempt
    IN  /\ pc[c] = "resolve"
        /\ approvals[p].state = "pending"
        /\ attempts[a].execution = "pending"
        /\ approvals' = [approvals EXCEPT ![p].state = IF k.approve THEN "consumed" ELSE "rejected"]
        /\ attempts' = [attempts EXCEPT ![a] = Resolved(a, k.approve)]
        /\ Append(k, "resolve", a)
        /\ Done(c)
        /\ UNCHANGED <<agent, workspace, task, contract, expired>>
Resolve(c) ==
    LET k == command[c]
        p == k.approval
        a == approvals[p].attempt
    IN  /\ pc[c] = "resolve"
        /\ approvals[p].state = "pending"
        /\ attempts[a].revision = seen[c]
        /\ attempts[a].execution = "pending" /\ attempts[a].control = "awaiting_approval"
        /\ approvals' = [approvals EXCEPT ![p].state = IF k.approve THEN "consumed" ELSE "rejected"]
        /\ attempts' = [attempts EXCEPT ![a] = Resolved(a, k.approve)]
        /\ Append(k, "resolve", a)
        /\ Done(c)
        /\ UNCHANGED <<agent, workspace, task, contract, expired>>

-----------------------------------------------------------------------------
(* launch, as far as the store is concerned, and what follows it.          *)

LaunchCheck(c, k) ==
    /\ k.kind = "launch"
    /\ Exists(k.attempt) /\ attempts[k.attempt].revision = k.revision
    /\ Start(c, k, "preflight")
    /\ UNCHANGED <<store, expired, seen>>

Released(a) == \E p \in Approval : approvals[p] = [state |-> "consumed", attempt |-> a]

Preflight(c) ==
    LET a == command[c].attempt
    IN  /\ pc[c] = "preflight"
        /\ attempts[a].execution = "pending" /\ attempts[a].control = "ready"
        /\ agent.enabled /\ agent.revision = attempts[a].agent
        /\ workspace.enabled
        /\ Requires(contract) => Released(a)
        /\ seen' = [seen EXCEPT ![c] = attempts[a].revision]
        /\ Goto(c, "launch")
        /\ UNCHANGED <<store, expired, command>>

MutantCommitLaunching(c) ==
    LET k == command[c]
        launching == [attempts[k.attempt] EXCEPT !.execution = "launching", !.manifest = TRUE,
                                                 !.revision = @ + 1]
    IN  /\ pc[c] = "launch"
        /\ LegalTransition(attempts[k.attempt], launching)
        /\ attempts' = [attempts EXCEPT ![k.attempt] = launching]
        /\ Append(k, "launch", k.attempt)
        /\ Done(c)
        /\ UNCHANGED <<agent, workspace, task, contract, approvals, expired>>
CommitLaunching(c) ==
    LET k == command[c]
        launching == [attempts[k.attempt] EXCEPT !.execution = "launching", !.manifest = TRUE,
                                                 !.revision = @ + 1]
    IN  /\ pc[c] = "launch"
        /\ attempts[k.attempt].revision = seen[c]
        /\ LegalTransition(attempts[k.attempt], launching)
        /\ attempts' = [attempts EXCEPT ![k.attempt] = launching]
        /\ Append(k, "launch", k.attempt)
        /\ Done(c)
        /\ UNCHANGED <<agent, workspace, task, contract, approvals, expired>>

\* What supervisors append afterwards; OwnedSupervisor tells when and why.
Supervise(a) ==
    \E execution \in ExecutionStates \ {"pending", "launching"} :
        LET moved == [attempts[a] EXCEPT
                        !.execution = execution,
                        !.control = IF execution = "lost" THEN "control_failure" ELSE @,
                        !.proof = IF execution = "running" THEN a ELSE @,
                        !.revision = @ + 1]
        IN  /\ attempts[a].execution \in ActiveStates \ {execution}
            /\ LegalTransition(attempts[a], moved)
            /\ attempts' = [attempts EXCEPT ![a] = moved]
            /\ Append([kind |-> "supervise", execution |-> execution], "transition", a)
            /\ UNCHANGED <<agent, workspace, task, contract, approvals, expired, pc, command, seen>>

-----------------------------------------------------------------------------
(* The specification.                                                      *)

FirstStep(c, k) ==
    \/ PlanCheck(c, k) \/ RetryCheck(c, k) \/ RequestCheck(c, k)
    \/ ReadApproval(c, k) \/ LaunchCheck(c, k)

ClientStep(c) ==
    \/ CreateTask(c) \/ CreateContract(c) \/ CreateAttempt(c)
    \/ Hold(c) \/ Request(c) \/ Resolve(c) \/ Preflight(c) \/ CommitLaunching(c)
    \/ End(c)

Next ==
    \/ \E k \in Command : RegisterAgent(k) \/ RegisterWorkspace(k)
    \/ \E c \in Client, k \in Command : FirstStep(c, k)
    \/ \E c \in Client : ClientStep(c)
    \/ \E a \in Attempt : Supervise(a)
    \/ \E p \in Approval : Expires(p)

Spec == Init /\ [][Next]_vars

-----------------------------------------------------------------------------
(* Properties.                                                             *)

Launched(a) == attempts[a].execution \notin {"absent", "pending"}

\* A contract that lets the agent write, or says so itself, needs an approval.
Guarded == contract \notin {"none", "read_only"}

\* An attempt under such a contract that was ever launched has had an approval
\* of its own consumed.
ApprovedBeforeLaunch ==
    \A a \in Attempt : Launched(a) /\ Guarded => Released(a)

\* A rejection is final: whatever was requested, approved, held or launched
\* beside it, an attempt with a rejected approval is never launched.
RejectedNeverLaunches ==
    \A p \in Approval : approvals[p].state = "rejected" =>
        attempts[approvals[p].attempt].execution = "pending"

\* Every revision of an attempt is the work of exactly one committed key: no
\* repetition of a command, in this process or another, takes effect twice.
AppliedOnce ==
    \A a \in Attempt : attempts[a].revision = Cardinality({e \in log : e.target = a})

\* A command that was cut off can be completed by repeating it.  A request that
\* has held its attempt passes its checks again until its deadline; and of a plan
\* that has its task nobody else can take the contract or the attempt.
Resumable ==
    /\ \A k \in Command \cap RequestCommands :
         Committed(k, "hold") /\ k.approval \notin expired => RequestPasses(k)
    /\ \A k \in Command \cap PlanCommands : Committed(k, "task") =>
         /\ contract # "none" => Committed(k, "contract")
         /\ Exists(k.attempt) => Committed(k, "attempt")

\* The commands and their races implement the promise of LaunchGate.
GateOf(a) == IF ~Exists(a) THEN "none"
             ELSE IF Launched(a) THEN "launched"
             ELSE CASE attempts[a].control = "ready" -> "open"
                    [] attempts[a].control = "awaiting_approval" -> "held"
                    [] OTHER -> "shut"
ApprovalsOf(a, states) ==
    {p \in Approval : approvals[p].attempt = a /\ approvals[p].state \in states}

Gate == INSTANCE LaunchGate WITH
    gate <- [a \in Attempt |-> GateOf(a)],
    guarded <- Guarded,
    asked <- [a \in Attempt |-> ApprovalsOf(a, {"pending"})],
    decided <- [a \in Attempt |-> ApprovalsOf(a, {"consumed", "rejected"})]

ImplementsGate == Gate!Spec

\* The documented order: an attempt is held when its approval is requested.
FailClosedOrder ==
    [][\A p \in Approval :
         approvals[p].state = "absent" /\ approvals'[p].state = "pending"
            => attempts[approvals'[p].attempt].control = "awaiting_approval"]_vars

\* The documented freeze: no attempt is launched under an agent registration
\* other than the one it was created with.
FrozenAgent ==
    [][\A a \in Attempt : Exists(a) /\ ~Launched(a) /\ Launched(a)'
         => attempts[a].agent = agent.revision]_vars
=============================================================================
