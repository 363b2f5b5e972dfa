------------------------ MODULE ControlCommandsProofs -----------------------
(***************************************************************************)
(* Type correctness of ControlCommands, the approval theorems, and that it *)
(* implements LaunchGate, for any clients, attempts, approvals and commands. *)
(***************************************************************************)
EXTENDS ControlCommands, FiniteSetTheorems, TLAPS

\* The step a client is at tells the kind of the command it runs.
CommandInv ==
    \A c \in Client :
        /\ pc[c] \in {"task", "contract"} => command[c] \in PlanCommands
        /\ pc[c] = "attempt" => command[c] \in PlanCommands \cup RetryCommands
        /\ pc[c] \in {"hold", "request"} => command[c] \in RequestCommands
        /\ pc[c] = "resolve" => command[c] \in DecideCommands
        /\ pc[c] \in {"preflight", "launch"} => command[c] \in LaunchCommands
        /\ pc[c] # "idle" => command[c] \in Command

\* What the clients' variables satisfy, without the store.
ClientsInv ==
    /\ pc \in [Client -> ClientSteps]
    /\ command \in [Client -> Command \cup {NoCommand}]
    /\ seen \in [Client -> Nat]
    /\ CommandInv

StoreOK ==
    /\ agent \in Registrations /\ workspace \in Registrations
    /\ task \in BOOLEAN
    /\ contract \in Envelopes \cup {"none"}
    /\ attempts \in [Attempt -> AttemptRecords]
    /\ approvals \in [Approval -> ApprovalRecords]
    /\ log \subseteq Keys
    /\ expired \subseteq Approval

\* Requests are for attempts that exist.
ApprovalInv ==
    /\ \A p \in Approval : approvals[p].state # "absent" =>
         approvals[p].attempt \in Attempt /\ Exists(approvals[p].attempt)
    /\ \A c \in Client :
         /\ pc[c] \in {"hold", "request"} => Exists(command[c].attempt)
         /\ pc[c] = "resolve" => approvals[command[c].approval].state # "absent"

TypeInv == StoreOK /\ ClientsInv /\ ApprovalInv

LEMMA CommandKinds ==
    ASSUME NEW k \in Command
    PROVE  /\ k.kind = "plan" => k \in PlanCommands
           /\ k.kind = "retry" => k \in RetryCommands
           /\ k.kind = "request" => k \in RequestCommands
           /\ k.kind = "decide" => k \in DecideCommands
           /\ k.kind = "launch" => k \in LaunchCommands
           /\ k.kind \in {"agent", "workspace"} => k \in RegisterCommands
  BY CommandAssumption DEF PlanCommands, RetryCommands, RequestCommands, DecideCommands,
     LaunchCommands, RegisterCommands

LEMMA InitTyped == Init => TypeInv
<1> SUFFICES ASSUME Init PROVE TypeInv
  OBVIOUS
<1>1. NoAttempt \in AttemptRecords
  BY DEF NoAttempt, AttemptRecords, ControlStates
<1>2. NoApproval \in ApprovalRecords
  BY DEF NoApproval, ApprovalRecords
<1>3. Unregistered \in Registrations
  BY DEF Unregistered, Registrations
<1>4. StoreOK
  BY <1>1, <1>2, <1>3 DEF Init, StoreOK
<1>5. ClientsInv
  BY DEF Init, ClientsInv, CommandInv, ClientSteps
<1>6. ApprovalInv
  BY DEF Init, ApprovalInv, NoApproval
<1> QED
  BY <1>4, <1>5, <1>6 DEF TypeInv

LEMMA AppendTyped ==
    ASSUME log \subseteq Keys, NEW k \in Command \cup Moves, NEW target \in Attempt \cup {None},
           NEW part \in {"register", "task", "contract", "attempt", "hold", "request",
                         "resolve", "launch", "transition"},
           Append(k, part, target)
    PROVE  log' \subseteq Keys
  BY DEF Append, Keys

\* The fields of an attempt record, and what replacing one of them gives.
LEMMA Fields ==
    ASSUME NEW old \in AttemptRecords
    PROVE  /\ old.execution \in ExecutionStates \cup {"absent"}
           /\ old.control \in ControlStates
           /\ old.proof \in Attempt \cup {None}
           /\ old.revision \in Nat
           /\ old.revision + 1 \in Nat
  BY DEF AttemptRecords

LEMMA FieldTyped ==
    ASSUME NEW old \in AttemptRecords
    PROVE  /\ \A x \in ExecutionStates : [old EXCEPT !.execution = x] \in AttemptRecords
           /\ \A x \in ControlStates : [old EXCEPT !.control = x] \in AttemptRecords
           /\ [old EXCEPT !.manifest = TRUE] \in AttemptRecords
           /\ \A x \in Attempt \cup {None} : [old EXCEPT !.proof = x] \in AttemptRecords
           /\ \A x \in Nat : [old EXCEPT !.revision = x] \in AttemptRecords
           /\ \A x \in Nat : [old EXCEPT !.agent = x] \in AttemptRecords
<1>1. \A x \in ExecutionStates : [old EXCEPT !.execution = x] \in AttemptRecords
  BY DEF AttemptRecords
<1>2. \A x \in ControlStates : [old EXCEPT !.control = x] \in AttemptRecords
  BY DEF AttemptRecords
<1>3. [old EXCEPT !.manifest = TRUE] \in AttemptRecords
  BY DEF AttemptRecords
<1>4. \A x \in Attempt \cup {None} : [old EXCEPT !.proof = x] \in AttemptRecords
  BY DEF AttemptRecords
<1>5. \A x \in Nat : [old EXCEPT !.revision = x] \in AttemptRecords
  BY DEF AttemptRecords
<1>6. \A x \in Nat : [old EXCEPT !.agent = x] \in AttemptRecords
  BY DEF AttemptRecords
<1> QED
  BY <1>1, <1>2, <1>3, <1>4, <1>5, <1>6

\* The new revisions that the actions write are typed.
LEMMA NewTyped ==
    ASSUME agent \in Registrations
    PROVE  NewAttempt \in AttemptRecords
<1>1. NoAttempt \in AttemptRecords
  BY DEF NoAttempt, AttemptRecords, ControlStates
<1>2. agent.revision \in Nat
  BY DEF Registrations
<1> DEFINE control == IF Requires(contract) THEN "awaiting_approval" ELSE "ready"
<1>3. control \in ControlStates
  BY DEF ControlStates
<1>4. "pending" \in ExecutionStates
  BY DEF ExecutionStates
<1> HIDE DEF control
<1>5. [NoAttempt EXCEPT !.execution = "pending", !.revision = 1, !.agent = agent.revision,
                        !.control = control] \in AttemptRecords
  BY <1>1, <1>2, <1>3, <1>4, FieldTyped
<1> QED
  BY <1>5 DEF NewAttempt, control

LEMMA ControlTyped ==
    ASSUME NEW old \in AttemptRecords, NEW control \in ControlStates
    PROVE  [old EXCEPT !.control = control, !.revision = @ + 1] \in AttemptRecords
  BY Fields, FieldTyped

LEMMA LaunchingTyped ==
    ASSUME NEW old \in AttemptRecords
    PROVE  [old EXCEPT !.execution = "launching", !.manifest = TRUE, !.revision = @ + 1]
             \in AttemptRecords
<1>1. "launching" \in ExecutionStates
  BY DEF ExecutionStates
<1> QED
  BY <1>1, Fields, FieldTyped

LEMMA SupervisedTyped ==
    ASSUME NEW old \in AttemptRecords, NEW execution \in ExecutionStates, NEW a \in Attempt
    PROVE  [old EXCEPT !.execution = execution,
                       !.control = IF execution = "lost" THEN "control_failure" ELSE @,
                       !.proof = IF execution = "running" THEN a ELSE @,
                       !.revision = @ + 1] \in AttemptRecords
<1> DEFINE control == IF execution = "lost" THEN "control_failure" ELSE old.control
           proof == IF execution = "running" THEN a ELSE old.proof
<1>1. control \in ControlStates
  BY Fields DEF ControlStates
<1>2. proof \in Attempt \cup {None}
  BY Fields
<1> HIDE DEF control, proof
<1>3. [old EXCEPT !.execution = execution, !.control = control, !.proof = proof,
                  !.revision = @ + 1] \in AttemptRecords
  BY <1>1, <1>2, Fields, FieldTyped
<1> QED
  BY <1>3 DEF control, proof

-----------------------------------------------------------------------------
(* The bookkeeping of the clients.                                         *)

LEMMA GotoClients ==
    ASSUME ClientsInv, NEW c \in Client, NEW step \in ClientSteps, Goto(c, step),
           UNCHANGED command, seen' \in [Client -> Nat],
           step \in {"task", "contract"} => command[c] \in PlanCommands,
           step = "attempt" => command[c] \in PlanCommands \cup RetryCommands,
           step \in {"hold", "request"} => command[c] \in RequestCommands,
           step = "resolve" => command[c] \in DecideCommands,
           step \in {"preflight", "launch"} => command[c] \in LaunchCommands,
           command[c] \in Command
    PROVE  ClientsInv'
<1>1. pc' \in [Client -> ClientSteps]
  BY DEF Goto, ClientsInv
<1>2. \A d \in Client : pc'[d] = IF d = c THEN step ELSE pc[d]
  BY DEF Goto, ClientsInv
<1>3. CommandInv'
  BY <1>2 DEF ClientsInv, CommandInv
<1> QED
  BY <1>1, <1>3 DEF ClientsInv

LEMMA StartClients ==
    ASSUME ClientsInv, NEW c \in Client, NEW k \in Command, NEW step \in ClientSteps,
           Start(c, k, step), seen' \in [Client -> Nat],
           step \in {"task", "contract"} => k \in PlanCommands,
           step = "attempt" => k \in PlanCommands \cup RetryCommands,
           step \in {"hold", "request"} => k \in RequestCommands,
           step = "resolve" => k \in DecideCommands,
           step \in {"preflight", "launch"} => k \in LaunchCommands
    PROVE  ClientsInv'
<1>1. /\ pc' \in [Client -> ClientSteps]
      /\ command' \in [Client -> Command \cup {NoCommand}]
  BY DEF Start, Goto, ClientsInv
<1>2. \A d \in Client : /\ pc'[d] = IF d = c THEN step ELSE pc[d]
                        /\ command'[d] = IF d = c THEN k ELSE command[d]
  BY DEF Start, Goto, ClientsInv
<1>3. CommandInv'
  BY <1>2 DEF ClientsInv, CommandInv
<1> QED
  BY <1>1, <1>3 DEF ClientsInv

LEMMA DoneClients ==
    ASSUME ClientsInv, NEW c \in Client, Done(c)
    PROVE  ClientsInv'
<1>1. /\ pc' \in [Client -> ClientSteps]
      /\ command' \in [Client -> Command \cup {NoCommand}]
      /\ seen' \in [Client -> Nat]
  BY DEF Done, Goto, ClientsInv, ClientSteps
<1>2. \A d \in Client : /\ pc'[d] = IF d = c THEN "idle" ELSE pc[d]
                        /\ d # c => command'[d] = command[d]
  BY DEF Done, Goto, ClientsInv
<1>3. CommandInv'
  BY <1>2 DEF ClientsInv, CommandInv
<1> QED
  BY <1>1, <1>3 DEF ClientsInv

-----------------------------------------------------------------------------
(* Type correctness.                                                       *)

LEMMA Written ==
    ASSUME StoreOK, NEW a \in Attempt, NEW new \in AttemptRecords,
           attempts' = [attempts EXCEPT ![a] = new]
    PROVE  /\ attempts' \in [Attempt -> AttemptRecords]
           /\ attempts'[a] = new
           /\ \A b \in Attempt : b # a => attempts'[b] = attempts[b]
  BY DEF StoreOK

LEMMA Decided ==
    ASSUME StoreOK, NEW p \in Approval, NEW new \in ApprovalRecords,
           approvals' = [approvals EXCEPT ![p] = new]
    PROVE  /\ approvals' \in [Approval -> ApprovalRecords]
           /\ approvals'[p] = new
           /\ \A q \in Approval : q # p => approvals'[q] = approvals[q]
  BY DEF StoreOK

\* No attempt and no request ever disappears.
Grows ==
    /\ \A a \in Attempt : Exists(a) => Exists(a)'
    /\ \A p \in Approval : approvals[p].state # "absent" =>
         approvals'[p].state # "absent" /\ approvals'[p].attempt = approvals[p].attempt

LEMMA RegisterTyped ==
    ASSUME TypeInv, NEW k \in Command, RegisterAgent(k) \/ RegisterWorkspace(k)
    PROVE  TypeInv'
<1>1. Registered(k) \in Registrations
  BY CommandKinds DEF RegisterAgent, RegisterWorkspace, Registered, Registrations, RegisterCommands
<1>2. log' \subseteq Keys
  BY AppendTyped DEF RegisterAgent, RegisterWorkspace, TypeInv, StoreOK
<1>3. StoreOK'
  BY <1>1, <1>2 DEF RegisterAgent, RegisterWorkspace, TypeInv, StoreOK
<1>4. ClientsInv'
  BY DEF RegisterAgent, RegisterWorkspace, TypeInv, ClientsInv, CommandInv
<1>5. ApprovalInv'
  BY DEF RegisterAgent, RegisterWorkspace, TypeInv, ApprovalInv, Exists
<1> QED
  BY <1>3, <1>4, <1>5 DEF TypeInv

\* A command's first read changes no store, and finds what its next step needs.
LEMMA FirstStepTyped ==
    ASSUME TypeInv, NEW c \in Client, NEW k \in Command, FirstStep(c, k)
    PROVE  TypeInv'
<1> USE DEF TypeInv
<1>1. StoreOK'
  BY DEF FirstStep, PlanCheck, RetryCheck, RequestCheck, ReadApproval, LaunchCheck, store, StoreOK
<1>2. ClientsInv'
  <2>1. CASE PlanCheck(c, k)
    BY <2>1, StartClients, CommandKinds DEF PlanCheck, ClientsInv, ClientSteps
  <2>2. CASE RetryCheck(c, k)
    BY <2>2, StartClients, CommandKinds DEF RetryCheck, ClientsInv, ClientSteps
  <2>3. CASE RequestCheck(c, k)
    BY <2>3, StartClients, CommandKinds DEF RequestCheck, ClientsInv, ClientSteps
  <2>4. CASE ReadApproval(c, k)
    <3>1. approvals[k.approval].attempt \in Attempt
      BY <2>4, CommandKinds DEF ReadApproval, ApprovalInv, DecideCommands
    <3>2. seen' \in [Client -> Nat]
      BY <2>4, <3>1, Fields DEF ReadApproval, StoreOK, ClientsInv
    <3> QED
      BY <2>4, <3>2, StartClients, CommandKinds DEF ReadApproval, ClientSteps
  <2>5. CASE LaunchCheck(c, k)
    BY <2>5, StartClients, CommandKinds DEF LaunchCheck, ClientsInv, ClientSteps
  <2> QED
    BY <2>1, <2>2, <2>3, <2>4, <2>5 DEF FirstStep
<1>3. UNCHANGED <<attempts, approvals>>
  BY DEF FirstStep, PlanCheck, RetryCheck, RequestCheck, ReadApproval, LaunchCheck, store
<1>4. \A d \in Client : d # c => pc'[d] = pc[d] /\ command'[d] = command[d]
  BY DEF FirstStep, PlanCheck, RetryCheck, RequestCheck, ReadApproval, LaunchCheck, Start, Goto,
         ClientsInv
<1>5. command'[c] = k
  BY DEF FirstStep, PlanCheck, RetryCheck, RequestCheck, ReadApproval, LaunchCheck, Start,
         ClientsInv
<1>6. /\ pc'[c] \in {"hold", "request"} => Exists(k.attempt)
      /\ pc'[c] = "resolve" => approvals[k.approval].state # "absent"
  BY DEF FirstStep, PlanCheck, RetryCheck, RequestCheck, ReadApproval, LaunchCheck, Start, Goto,
         ClientsInv, RequestPasses
<1>7. ApprovalInv'
  BY <1>3, <1>4, <1>5, <1>6 DEF ApprovalInv, Exists
<1> QED
  BY <1>1, <1>2, <1>7

\* Besides the client that moves, nobody's need of the store is touched.
LEMMA ApprovalKept ==
    ASSUME TypeInv, Grows, NEW c \in Client,
           \A d \in Client : d # c => pc'[d] = pc[d] /\ command'[d] = command[d],
           pc'[c] \in {"hold", "request"} => attempts'[command'[c].attempt].execution # "absent",
           pc'[c] = "resolve" => approvals'[command'[c].approval].state # "absent",
           \A p \in Approval : approvals'[p].state # "absent" =>
             \/ approvals[p].state # "absent"
             \/ approvals'[p].attempt \in Attempt /\ Exists(approvals'[p].attempt)
    PROVE  ApprovalInv'
<1> USE DEF TypeInv
<1>1. ASSUME NEW p \in Approval, approvals'[p].state # "absent"
      PROVE  /\ approvals'[p].attempt \in Attempt
             /\ attempts'[approvals'[p].attempt].execution # "absent"
  BY <1>1 DEF Grows, ApprovalInv, Exists
<1>2. ASSUME NEW d \in Client, pc'[d] \in {"hold", "request"}
      PROVE  attempts'[command'[d].attempt].execution # "absent"
  <2>1. CASE d = c
    BY <1>2, <2>1
  <2>2. CASE d # c
    BY <1>2, <2>2 DEF Grows, ApprovalInv, Exists, ClientsInv, CommandInv, RequestCommands
  <2> QED
    BY <2>1, <2>2
<1>3. ASSUME NEW d \in Client, pc'[d] = "resolve"
      PROVE  approvals'[command'[d].approval].state # "absent"
  BY <1>3 DEF Grows, ApprovalInv, ClientsInv, CommandInv, DecideCommands
<1> QED
  BY <1>1, <1>2, <1>3 DEF ApprovalInv, Exists

LEMMA GotoMoves ==
    ASSUME ClientsInv, NEW c \in Client, NEW step \in ClientSteps, Goto(c, step),
           UNCHANGED command
    PROVE  /\ pc'[c] = step
           /\ \A d \in Client : d # c => pc'[d] = pc[d] /\ command'[d] = command[d]
  BY DEF Goto, ClientsInv

LEMMA DoneMoves ==
    ASSUME ClientsInv, NEW c \in Client, Done(c)
    PROVE  /\ pc'[c] = "idle"
           /\ \A d \in Client : d # c => pc'[d] = pc[d] /\ command'[d] = command[d]
  BY DEF Done, Goto, ClientsInv

LEMMA PlanStepTyped ==
    ASSUME TypeInv, NEW c \in Client, CreateTask(c) \/ CreateContract(c)
    PROVE  TypeInv'
<1> USE DEF TypeInv
<1>1. command[c] \in Command /\ command[c] \in PlanCommands
  BY DEF CreateTask, CreateContract, ClientsInv, CommandInv
<1>2. log' \subseteq Keys
  BY <1>1, AppendTyped DEF CreateTask, CreateContract, StoreOK
<1>3. contract' \in Envelopes \cup {"none"} /\ task' \in BOOLEAN
  BY <1>1 DEF CreateTask, CreateContract, StoreOK, PlanCommands
<1>4. StoreOK'
  BY <1>2, <1>3 DEF CreateTask, CreateContract, StoreOK
<1>5. ClientsInv'
  BY <1>1, GotoClients DEF CreateTask, CreateContract, ClientsInv, ClientSteps
<1>6. ApprovalInv'
  BY <1>1, GotoMoves, ApprovalKept DEF CreateTask, CreateContract, Grows, Exists, ClientSteps
<1> QED
  BY <1>4, <1>5, <1>6

LEMMA CreateAttemptTyped ==
    ASSUME TypeInv, NEW c \in Client, CreateAttempt(c)
    PROVE  TypeInv' /\ Grows
<1> USE DEF TypeInv
<1>1. command[c] \in Command /\ command[c].attempt \in Attempt
  BY DEF CreateAttempt, ClientsInv, CommandInv, PlanCommands, RetryCommands
<1>2. log' \subseteq Keys
  BY <1>1, AppendTyped DEF CreateAttempt, StoreOK
<1>3. NewAttempt \in AttemptRecords
  BY NewTyped DEF StoreOK
<1>4. attempts' \in [Attempt -> AttemptRecords] /\ Grows
  <2>1. CASE UNCHANGED attempts
    BY <2>1 DEF CreateAttempt, Grows, Exists, StoreOK
  <2>2. CASE /\ ~Exists(command[c].attempt)
             /\ attempts' = [attempts EXCEPT ![command[c].attempt] = NewAttempt]
    BY <1>1, <1>3, <2>2, Written DEF CreateAttempt, Grows, Exists
  <2> QED
    BY <2>1, <2>2 DEF CreateAttempt
<1>5. StoreOK'
  BY <1>2, <1>4 DEF CreateAttempt, StoreOK
<1>6. ClientsInv'
  BY DoneClients DEF CreateAttempt
<1>7. ApprovalInv'
  BY <1>4, DoneMoves, ApprovalKept DEF CreateAttempt
<1> QED
  BY <1>4, <1>5, <1>6, <1>7

LEMMA HoldTyped ==
    ASSUME TypeInv, NEW c \in Client, Hold(c)
    PROVE  TypeInv' /\ Grows
<1> USE DEF TypeInv
<1>1. /\ command[c] \in Command /\ command[c] \in RequestCommands
      /\ command[c].attempt \in Attempt
  BY DEF Hold, ClientsInv, CommandInv, RequestCommands
<1> DEFINE a == command[c].attempt
           held == [attempts[a] EXCEPT !.control = "awaiting_approval", !.revision = @ + 1]
<1>2. log' \subseteq Keys
  BY <1>1, AppendTyped DEF Hold, StoreOK
<1>3. held \in AttemptRecords /\ held.execution = attempts[a].execution
  <2>1. attempts[a] \in AttemptRecords /\ "awaiting_approval" \in ControlStates
    BY <1>1 DEF StoreOK, ControlStates
  <2>2. held \in AttemptRecords
    BY <2>1, ControlTyped
  <2>3. held.execution = attempts[a].execution
    BY <2>1 DEF AttemptRecords
  <2> QED
    BY <2>2, <2>3
<1> HIDE DEF held
<1>4. attempts' \in [Attempt -> AttemptRecords] /\ Grows
  <2>1. CASE UNCHANGED attempts
    BY <2>1 DEF Hold, Grows, Exists, StoreOK
  <2>2. CASE attempts' = [attempts EXCEPT ![a] = held]
    BY <1>1, <1>3, <2>2, Written DEF Hold, Grows, Exists
  <2> QED
    BY <2>1, <2>2 DEF Hold, held
<1>5. StoreOK'
  BY <1>2, <1>4 DEF Hold, StoreOK
<1>6. ClientsInv'
  BY <1>1, GotoClients DEF Hold, ClientsInv, ClientSteps
<1>7. ApprovalInv'
  <2>1. Exists(a) /\ pc'[c] = "request" /\ command' = command /\ approvals' = approvals
    BY GotoMoves DEF Hold, ApprovalInv, ClientSteps
  <2>2. attempts'[command'[c].attempt].execution # "absent"
    BY <1>1, <1>4, <2>1 DEF Grows, Exists
  <2>3. \A d \in Client : d # c => pc'[d] = pc[d] /\ command'[d] = command[d]
    BY GotoMoves DEF Hold, ClientSteps
  <2> QED
    BY <1>4, <2>1, <2>2, <2>3, ApprovalKept
<1> QED
  BY <1>4, <1>5, <1>6, <1>7

LEMMA RequestTyped ==
    ASSUME TypeInv, NEW c \in Client, Request(c)
    PROVE  TypeInv' /\ Grows
<1> USE DEF TypeInv
<1>1. /\ command[c] \in Command /\ command[c].attempt \in Attempt
      /\ command[c].approval \in Approval
  BY DEF Request, ClientsInv, CommandInv, RequestCommands
<1> DEFINE p == command[c].approval
           new == [state |-> "pending", attempt |-> command[c].attempt]
<1>2. log' \subseteq Keys
  BY <1>1, AppendTyped DEF Request, StoreOK
<1>3. new \in ApprovalRecords
  BY <1>1 DEF ApprovalRecords
<1>4. Exists(command[c].attempt)
  BY DEF Request, ApprovalInv
<1>5. /\ approvals' \in [Approval -> ApprovalRecords]
      /\ Grows
      /\ \A q \in Approval : approvals'[q] = approvals[q] \/ approvals'[q] = new
  <2>1. CASE UNCHANGED approvals
    BY <2>1 DEF Request, Grows, Exists, StoreOK
  <2>2. CASE approvals[p].state = "absent" /\ approvals' = [approvals EXCEPT ![p] = new]
    BY <1>1, <1>3, <2>2, Decided DEF Request, Grows, Exists
  <2> QED
    BY <2>1, <2>2 DEF Request
<1>6. StoreOK'
  BY <1>2, <1>5 DEF Request, StoreOK
<1>7. ClientsInv'
  BY DoneClients DEF Request
<1>8. ApprovalInv'
  BY <1>1, <1>4, <1>5, DoneMoves, ApprovalKept DEF Request
<1> QED
  BY <1>5, <1>6, <1>7, <1>8

\* The approval that a client decides was requested, for an attempt.
LEMMA Decides ==
    ASSUME TypeInv, NEW c \in Client, Resolve(c)
    PROVE  /\ command[c] \in Command /\ command[c].approval \in Approval
           /\ command[c].approve \in BOOLEAN
           /\ approvals[command[c].approval].attempt \in Attempt
  BY DEF Resolve, TypeInv, ClientsInv, CommandInv, DecideCommands, ApprovalInv

LEMMA ResolveTyped ==
    ASSUME TypeInv, NEW c \in Client, Resolve(c)
    PROVE  TypeInv' /\ Grows
<1> USE DEF TypeInv
<1> DEFINE k == command[c]
           p == k.approval
           a == approvals[p].attempt
           state == IF k.approve THEN "consumed" ELSE "rejected"
<1>1. k \in Command /\ p \in Approval /\ a \in Attempt
  BY Decides
<1>2. log' \subseteq Keys
  BY <1>1, AppendTyped DEF Resolve, StoreOK
<1>3. /\ [approvals[p] EXCEPT !.state = state] \in ApprovalRecords
      /\ [approvals[p] EXCEPT !.state = state].attempt = a
      /\ [approvals[p] EXCEPT !.state = state].state # "absent"
  <2>1. approvals[p] \in ApprovalRecords /\ state \in {"consumed", "rejected"}
    BY <1>1 DEF StoreOK
  <2> HIDE DEF state
  <2> QED
    BY <2>1 DEF ApprovalRecords
<1>4. /\ Resolved(a, k.approve) \in AttemptRecords
      /\ Resolved(a, k.approve).execution = attempts[a].execution
  <2> DEFINE control == IF k.approve THEN "ready" ELSE "policy_hold"
  <2>1. attempts[a] \in AttemptRecords /\ control \in ControlStates
    BY <1>1 DEF StoreOK, ControlStates
  <2> HIDE DEF control
  <2>2. [attempts[a] EXCEPT !.control = control, !.revision = @ + 1] \in AttemptRecords
    BY <2>1, ControlTyped
  <2>3. [attempts[a] EXCEPT !.control = control, !.revision = @ + 1].execution
          = attempts[a].execution
    BY <2>1 DEF AttemptRecords
  <2> QED
    BY <2>2, <2>3 DEF Resolved, control
<1>5. /\ approvals' = [approvals EXCEPT ![p] = [approvals[p] EXCEPT !.state = state]]
      /\ attempts' = [attempts EXCEPT ![a] = Resolved(a, k.approve)]
      /\ attempts[a].execution = "pending"
  BY <1>1 DEF Resolve, StoreOK
<1> HIDE DEF state
<1>6. /\ approvals' \in [Approval -> ApprovalRecords]
      /\ attempts' \in [Attempt -> AttemptRecords]
      /\ Grows
  BY <1>1, <1>3, <1>4, <1>5, Written, Decided DEF Grows, Exists
<1>7. StoreOK'
  BY <1>2, <1>6 DEF Resolve, StoreOK
<1>8. ClientsInv'
  BY DoneClients DEF Resolve
<1>9. \A q \in Approval : approvals'[q].state # "absent" => approvals[q].state # "absent"
  BY <1>1, <1>3, <1>5, Decided DEF Resolve
<1>10. ApprovalInv'
  BY <1>6, <1>9, DoneMoves, ApprovalKept DEF Resolve
<1> QED
  BY <1>6, <1>7, <1>8, <1>10

LEMMA PreflightTyped ==
    ASSUME TypeInv, NEW c \in Client, Preflight(c)
    PROVE  TypeInv'
<1> USE DEF TypeInv
<1>1. /\ command[c] \in Command /\ command[c] \in LaunchCommands
      /\ command[c].attempt \in Attempt
  BY DEF Preflight, ClientsInv, CommandInv, LaunchCommands
<1>2. seen' \in [Client -> Nat]
  BY <1>1, Fields DEF Preflight, StoreOK, ClientsInv
<1>3. StoreOK' /\ Grows
  BY DEF Preflight, store, StoreOK, Grows, Exists
<1>4. ClientsInv'
  BY <1>1, <1>2, GotoClients DEF Preflight, ClientSteps
<1>5. ApprovalInv'
  BY <1>3, GotoMoves, ApprovalKept DEF Preflight, store, ClientSteps
<1> QED
  BY <1>3, <1>4, <1>5

LEMMA LaunchTyped ==
    ASSUME TypeInv, NEW c \in Client, CommitLaunching(c)
    PROVE  TypeInv' /\ Grows
<1> USE DEF TypeInv
<1>1. command[c] \in Command /\ command[c].attempt \in Attempt
  BY DEF CommitLaunching, ClientsInv, CommandInv, LaunchCommands
<1> DEFINE a == command[c].attempt
           launching == [attempts[a] EXCEPT !.execution = "launching", !.manifest = TRUE,
                                            !.revision = @ + 1]
<1>2. log' \subseteq Keys
  BY <1>1, AppendTyped DEF CommitLaunching, StoreOK
<1>3. launching \in AttemptRecords /\ launching.execution = "launching"
  <2>1. attempts[a] \in AttemptRecords
    BY <1>1 DEF StoreOK
  <2> QED
    BY <2>1, LaunchingTyped DEF AttemptRecords
<1> HIDE DEF launching
<1>4. attempts' = [attempts EXCEPT ![a] = launching]
  BY DEF CommitLaunching, launching
<1>5. attempts' \in [Attempt -> AttemptRecords] /\ Grows
  BY <1>1, <1>3, <1>4, Written DEF CommitLaunching, Grows, Exists
<1>6. StoreOK'
  BY <1>2, <1>5 DEF CommitLaunching, StoreOK
<1>7. ClientsInv'
  BY DoneClients DEF CommitLaunching
<1>8. ApprovalInv'
  BY <1>5, DoneMoves, ApprovalKept DEF CommitLaunching
<1> QED
  BY <1>5, <1>6, <1>7, <1>8

LEMMA EndTyped ==
    ASSUME TypeInv, NEW c \in Client, End(c)
    PROVE  TypeInv'
<1> USE DEF TypeInv
<1>1. StoreOK' /\ Grows
  BY DEF End, store, StoreOK, Grows, Exists
<1>2. ClientsInv'
  BY DoneClients DEF End
<1>3. ApprovalInv'
  BY <1>1, DoneMoves, ApprovalKept DEF End, store
<1> QED
  BY <1>1, <1>2, <1>3

\* What a supervisor writes, with the part of it that other actors look at.
LEMMA Supervises ==
    ASSUME TypeInv, NEW a \in Attempt, Supervise(a)
    PROVE  \E new \in AttemptRecords :
             /\ attempts' = [attempts EXCEPT ![a] = new]
             /\ attempts[a].execution \in ActiveStates
             /\ new.execution \in ExecutionStates \ {"pending", "launching"}
             /\ LegalTransition(attempts[a], new)
<1>1. PICK execution \in ExecutionStates \ {"pending", "launching"} :
        LET moved == [attempts[a] EXCEPT
                        !.execution = execution,
                        !.control = IF execution = "lost" THEN "control_failure" ELSE @,
                        !.proof = IF execution = "running" THEN a ELSE @,
                        !.revision = @ + 1]
        IN  /\ attempts[a].execution \in ActiveStates \ {execution}
            /\ LegalTransition(attempts[a], moved)
            /\ attempts' = [attempts EXCEPT ![a] = moved]
  BY DEF Supervise
<1> DEFINE moved == [attempts[a] EXCEPT
                        !.execution = execution,
                        !.control = IF execution = "lost" THEN "control_failure" ELSE @,
                        !.proof = IF execution = "running" THEN a ELSE @,
                        !.revision = @ + 1]
<1>2. attempts[a] \in AttemptRecords
  BY DEF TypeInv, StoreOK
<1>3. moved \in AttemptRecords
  BY <1>2, SupervisedTyped
<1>4. moved.execution = execution
  BY <1>2 DEF AttemptRecords
<1> HIDE DEF moved
<1>5. /\ attempts[a].execution \in ActiveStates
      /\ LegalTransition(attempts[a], moved)
      /\ attempts' = [attempts EXCEPT ![a] = moved]
  BY <1>1 DEF moved
<1> QED
  BY <1>3, <1>4, <1>5

LEMMA SuperviseTyped ==
    ASSUME TypeInv, NEW a \in Attempt, Supervise(a)
    PROVE  TypeInv' /\ Grows
<1> USE DEF TypeInv
<1>1. PICK new \in AttemptRecords :
        /\ attempts' = [attempts EXCEPT ![a] = new]
        /\ new.execution \in ExecutionStates \ {"pending", "launching"}
  BY Supervises
<1>2. attempts' \in [Attempt -> AttemptRecords] /\ Grows
  BY <1>1, Written DEF Supervise, Grows, Exists, ExecutionStates
<1>3. log' \subseteq Keys
  BY AppendTyped DEF Supervise, StoreOK, Moves
<1>4. StoreOK'
  BY <1>2, <1>3 DEF Supervise, StoreOK
<1>5. ClientsInv'
  BY DEF Supervise, ClientsInv, CommandInv
<1>6. ApprovalInv'
  BY <1>2 DEF Supervise, ApprovalInv, ClientsInv, CommandInv, RequestCommands, Grows, Exists
<1> QED
  BY <1>2, <1>4, <1>5, <1>6

LEMMA ExpiresTyped ==
    ASSUME TypeInv, NEW p \in Approval, Expires(p)
    PROVE  TypeInv'
  BY DEF Expires, store, TypeInv, StoreOK, ClientsInv, CommandInv, ApprovalInv, Exists

LEMMA StutterTyped == TypeInv /\ UNCHANGED vars => TypeInv'
  BY DEF vars, TypeInv, StoreOK, ClientsInv, CommandInv, ApprovalInv, Exists

LEMMA NextTyped == TypeInv /\ [Next]_vars => TypeInv'
<1> SUFFICES ASSUME TypeInv, Next PROVE TypeInv'
  BY StutterTyped
<1>1. CASE \E k \in Command : RegisterAgent(k) \/ RegisterWorkspace(k)
  BY <1>1, RegisterTyped
<1>2. CASE \E c \in Client, k \in Command : FirstStep(c, k)
  BY <1>2, FirstStepTyped
<1>3. CASE \E c \in Client : ClientStep(c)
  BY <1>3, PlanStepTyped, CreateAttemptTyped, HoldTyped, RequestTyped, ResolveTyped,
     PreflightTyped, LaunchTyped, EndTyped DEF ClientStep
<1>4. CASE \E a \in Attempt : Supervise(a)
  BY <1>4, SuperviseTyped
<1>5. CASE \E p \in Approval : Expires(p)
  BY <1>5, ExpiresTyped
<1> QED
  BY <1>1, <1>2, <1>3, <1>4, <1>5 DEF Next

LEMMA Typed == Spec => []TypeInv
  BY InitTyped, NextTyped, PTL DEF Spec

\* In every behaviour of the commands and supervisors, by any number of
\* clients on any attempts and approvals, every variable has its type: in
\* particular every revision a command writes is a well-formed attempt record.
THEOREM TypeCorrect == Spec => []TypeOK
<1>1. TypeInv => TypeOK
  BY DEF TypeInv, StoreOK, ClientsInv, TypeOK
<1> QED
  BY <1>1, Typed, PTL

-----------------------------------------------------------------------------
(* Approvals and launches.                                                 *)

\* The contract is there before the attempts.
ContractFirst == (\E a \in Attempt : Exists(a)) => contract # "none"

\* Under a guarded contract an approval stands behind every attempt that may
\* be launched, not only behind those that have been.
ReadyReleased ==
    \A a \in Attempt : Exists(a) /\ Guarded /\ (Launched(a) \/ attempts[a].control = "ready")
        => Released(a)

\* A rejected attempt is under policy hold, which no command lifts.
RejectedHeld ==
    \A p \in Approval : approvals[p].state = "rejected" =>
        /\ attempts[approvals[p].attempt].execution = "pending"
        /\ attempts[approvals[p].attempt].control = "policy_hold"

\* As long as an attempt is at the revision its launch has checked, it is as it
\* was when it was checked.
CheckedLaunch ==
    \A c \in Client : pc[c] = "launch" =>
        LET now == attempts[command[c].attempt]
        IN  /\ now.execution # "absent"
            /\ seen[c] <= now.revision
            /\ seen[c] = now.revision => now.execution = "pending" /\ now.control = "ready"

SafetyInv == ContractFirst /\ ReadyReleased /\ RejectedHeld /\ CheckedLaunch

-----------------------------------------------------------------------------
(* What the steps leave alone.                                             *)

\* No client comes to its launch, and no revision is taken back.
LaunchesKept ==
    \A c \in Client : pc'[c] = "launch" =>
        pc[c] = "launch" /\ command'[c] = command[c] /\ seen'[c] = seen[c]

Revised(a) ==
    \/ attempts'[a] = attempts[a]
    \/ ~Exists(a)
    \/ /\ attempts'[a].revision = attempts[a].revision + 1
       /\ attempts'[a].execution # "absent"

LEMMA LaunchAttempt ==
    ASSUME TypeInv, NEW c \in Client, pc[c] = "launch"
    PROVE  command[c].attempt \in Attempt /\ seen[c] \in Nat
  BY DEF TypeInv, ClientsInv, CommandInv, LaunchCommands

LEMMA CheckedKept ==
    ASSUME TypeInv, CheckedLaunch, LaunchesKept, \A a \in Attempt : Revised(a)
    PROVE  CheckedLaunch'
<1> SUFFICES ASSUME NEW c \in Client, pc'[c] = "launch"
             PROVE  LET now == attempts'[command'[c].attempt]
                    IN  /\ now.execution # "absent"
                        /\ seen'[c] <= now.revision
                        /\ seen'[c] = now.revision =>
                             now.execution = "pending" /\ now.control = "ready"
  BY DEF CheckedLaunch
<1>1. /\ pc[c] = "launch" /\ command'[c] = command[c] /\ seen'[c] = seen[c]
      /\ command[c].attempt \in Attempt /\ seen[c] \in Nat
  BY LaunchAttempt DEF LaunchesKept
<1>2. attempts[command[c].attempt].revision \in Nat
  BY <1>1, Fields DEF TypeInv, StoreOK
<1> QED
  BY <1>1, <1>2 DEF CheckedLaunch, Revised, Exists

LEMMA DoneLaunches ==
    ASSUME ClientsInv, NEW c \in Client, Done(c)
    PROVE  LaunchesKept
  BY DEF Done, Goto, ClientsInv, LaunchesKept

LEMMA GotoLaunches ==
    ASSUME ClientsInv, NEW c \in Client, NEW step, Goto(c, step), step # "launch",
           UNCHANGED <<command, seen>>
    PROVE  LaunchesKept
  BY DEF Goto, ClientsInv, LaunchesKept

LEMMA SafetyFrame ==
    ASSUME TypeInv, SafetyInv, LaunchesKept, UNCHANGED <<contract, attempts, approvals>>
    PROVE  SafetyInv'
<1>1. CheckedLaunch'
  BY CheckedKept DEF SafetyInv, Revised
<1> QED
  BY <1>1 DEF SafetyInv, ContractFirst, ReadyReleased, RejectedHeld, Exists, Guarded, Launched,
     Released

-----------------------------------------------------------------------------
(* Every step keeps the invariant.                                         *)

LEMMA QuietSafe ==
    ASSUME TypeInv, SafetyInv,
           \/ \E k \in Command : RegisterAgent(k) \/ RegisterWorkspace(k)
           \/ \E c \in Client, k \in Command : FirstStep(c, k)
           \/ \E c \in Client : CreateTask(c) \/ End(c)
           \/ \E p \in Approval : Expires(p)
    PROVE  SafetyInv' /\ UNCHANGED <<contract, attempts, approvals>>
<1> USE DEF TypeInv
<1>1. CASE \E k \in Command : RegisterAgent(k) \/ RegisterWorkspace(k)
  BY <1>1, SafetyFrame DEF RegisterAgent, RegisterWorkspace, LaunchesKept
<1>2. CASE \E c \in Client, k \in Command : FirstStep(c, k)
  <2>1. PICK c \in Client, k \in Command : FirstStep(c, k)
    BY <1>2
  <2>2. UNCHANGED <<contract, attempts, approvals>>
    BY <2>1 DEF FirstStep, PlanCheck, RetryCheck, RequestCheck, ReadApproval, LaunchCheck, store
  <2>3. /\ \A d \in Client : d # c => /\ pc'[d] = pc[d] /\ command'[d] = command[d]
                                    /\ seen'[d] = seen[d]
        /\ pc'[c] # "launch"
    BY <2>1 DEF FirstStep, PlanCheck, RetryCheck, RequestCheck, ReadApproval, LaunchCheck, Start,
                Goto, ClientsInv
  <2>4. LaunchesKept
    BY <2>3 DEF LaunchesKept
  <2> QED
    BY <2>2, <2>4, SafetyFrame
<1>3. CASE \E c \in Client : CreateTask(c)
  BY <1>3, GotoLaunches, SafetyFrame DEF CreateTask
<1>4. CASE \E c \in Client : End(c)
  BY <1>4, DoneLaunches, SafetyFrame DEF End, store
<1>5. CASE \E p \in Approval : Expires(p)
  BY <1>5, SafetyFrame DEF Expires, store, LaunchesKept
<1> QED
  BY <1>1, <1>2, <1>3, <1>4, <1>5

LEMMA ContractSafe ==
    ASSUME TypeInv, SafetyInv, NEW c \in Client, CreateContract(c)
    PROVE  SafetyInv'
<1> USE DEF TypeInv
<1>1. /\ UNCHANGED <<attempts, approvals>>
      /\ \/ UNCHANGED contract
         \/ contract = "none" /\ contract' \in Envelopes
  BY DEF CreateContract, ClientsInv, CommandInv, PlanCommands
<1>2. LaunchesKept
  BY GotoLaunches DEF CreateContract
<1>3. CASE UNCHANGED contract
  BY <1>1, <1>2, <1>3, SafetyFrame
<1>4. CASE contract = "none" /\ contract' \in Envelopes
  <2>1. \A a \in Attempt : ~Exists(a)
    BY <1>4 DEF SafetyInv, ContractFirst
  <2>2. CheckedLaunch'
    BY <1>1, <1>2, CheckedKept DEF SafetyInv, Revised
  <2>3. RejectedHeld'
    BY <1>1 DEF SafetyInv, RejectedHeld
  <2> QED
    BY <1>1, <2>1, <2>2, <2>3 DEF SafetyInv, ContractFirst, ReadyReleased, Exists
<1> QED
  BY <1>1, <1>3, <1>4

LEMMA NewAttemptIs ==
    /\ NewAttempt.execution = "pending"
    /\ NewAttempt.control = IF Requires(contract) THEN "awaiting_approval" ELSE "ready"
  BY DEF NewAttempt, NoAttempt

LEMMA RequiresGuarded ==
    ASSUME TypeInv
    PROVE  Requires(contract) <=> Guarded
  BY DEF TypeInv, StoreOK, Envelopes, Requires, Guarded

LEMMA CreateSafe ==
    ASSUME TypeInv, SafetyInv, NEW c \in Client, CreateAttempt(c)
    PROVE  SafetyInv'
<1> USE DEF TypeInv
<1> DEFINE a == command[c].attempt
<1>1. a \in Attempt /\ UNCHANGED <<contract, approvals>>
  BY DEF CreateAttempt, ClientsInv, CommandInv, PlanCommands, RetryCommands
<1>2. LaunchesKept
  BY DoneLaunches DEF CreateAttempt
<1>3. CASE UNCHANGED attempts
  BY <1>1, <1>2, <1>3, SafetyFrame
<1>4. CASE /\ ~Exists(a) /\ contract # "none"
           /\ attempts' = [attempts EXCEPT ![a] = NewAttempt]
  <2>1. attempts'[a] = NewAttempt /\ \A b \in Attempt : b # a => attempts'[b] = attempts[b]
    BY <1>1, <1>4 DEF StoreOK
  <2>2. CheckedLaunch'
    BY <1>2, <1>4, <2>1, CheckedKept DEF SafetyInv, Revised
  <2>3. RejectedHeld'
    BY <1>1, <1>4, <2>1 DEF SafetyInv, RejectedHeld, ApprovalInv
  <2>4. ReadyReleased'
    <3>1. ASSUME NEW b \in Attempt, (Exists(b) /\ Guarded)',
                 (Launched(b) \/ attempts[b].control = "ready")'
          PROVE  Released(b)'
      <4>1. b # a
        BY <1>1, <2>1, <3>1, NewAttemptIs, RequiresGuarded DEF Launched, Guarded
      <4> QED
        BY <1>1, <2>1, <3>1, <4>1
        DEF SafetyInv, ReadyReleased, Exists, Guarded, Launched, Released
    <3> QED
      BY <3>1 DEF ReadyReleased
  <2>5. ContractFirst'
    BY <1>1, <1>4 DEF ContractFirst
  <2> QED
    BY <2>2, <2>3, <2>4, <2>5 DEF SafetyInv
<1> QED
  BY <1>3, <1>4 DEF CreateAttempt

\* What Hold, where it is no repetition, has found and leaves behind.
LEMMA Holds ==
    ASSUME TypeInv, NEW c \in Client, Hold(c), ~UNCHANGED attempts
    PROVE  LET a == command[c].attempt
           IN  /\ a \in Attempt
               /\ attempts[a].control \in {"ready", "awaiting_approval"}
               /\ attempts'[a].execution = attempts[a].execution
               /\ attempts'[a].control = "awaiting_approval"
               /\ attempts'[a].revision = attempts[a].revision + 1
               /\ \A b \in Attempt : b # a => attempts'[b] = attempts[b]
<1> USE DEF TypeInv
<1> DEFINE a == command[c].attempt
           held == [attempts[a] EXCEPT !.control = "awaiting_approval", !.revision = @ + 1]
<1>1. a \in Attempt /\ attempts[a] \in AttemptRecords
  BY DEF Hold, ClientsInv, CommandInv, RequestCommands, StoreOK
<1>2. /\ held.execution = attempts[a].execution
      /\ held.control = "awaiting_approval"
      /\ held.revision = attempts[a].revision + 1
  BY <1>1 DEF AttemptRecords
<1> HIDE DEF held
<1>3. attempts' = [attempts EXCEPT ![a] = held] /\ LegalTransition(attempts[a], held)
  BY DEF Hold, held
<1>4. attempts[a].control \in {"ready", "awaiting_approval"}
  BY <1>2, <1>3 DEF LegalTransition, ControlStep
<1> QED
  BY <1>1, <1>2, <1>3, <1>4 DEF StoreOK

LEMMA HoldSafe ==
    ASSUME TypeInv, SafetyInv, NEW c \in Client, Hold(c)
    PROVE  SafetyInv'
<1> USE DEF TypeInv
<1> DEFINE a == command[c].attempt
<1>1. UNCHANGED <<contract, approvals>>
  BY DEF Hold
<1>2. LaunchesKept
  BY GotoLaunches DEF Hold
<1>3. CASE UNCHANGED attempts
  BY <1>1, <1>2, <1>3, SafetyFrame
<1>4. CASE ~UNCHANGED attempts
  <2>1. /\ a \in Attempt
        /\ attempts[a].control \in {"ready", "awaiting_approval"}
        /\ attempts'[a].execution = attempts[a].execution
        /\ attempts'[a].control = "awaiting_approval"
        /\ attempts'[a].revision = attempts[a].revision + 1
        /\ \A b \in Attempt : b # a => attempts'[b] = attempts[b]
    BY <1>4, Holds
  <2>2. CheckedLaunch'
    BY <1>2, <2>1, CheckedKept DEF SafetyInv, Revised, Exists
  <2>3. RejectedHeld'
    BY <1>1, <2>1 DEF SafetyInv, RejectedHeld, ApprovalInv
  <2>4. ReadyReleased'
    BY <1>1, <2>1 DEF SafetyInv, ReadyReleased, Exists, Guarded, Launched, Released
  <2>5. ContractFirst'
    BY <1>1, <2>1 DEF SafetyInv, ContractFirst, Exists
  <2> QED
    BY <2>2, <2>3, <2>4, <2>5 DEF SafetyInv
<1> QED
  BY <1>3, <1>4

LEMMA RequestSafe ==
    ASSUME TypeInv, SafetyInv, NEW c \in Client, Request(c)
    PROVE  SafetyInv'
<1> USE DEF TypeInv
<1>1. UNCHANGED <<contract, attempts>> /\ LaunchesKept
  BY DoneLaunches DEF Request
<1>2. \A p \in Approval : \/ approvals'[p] = approvals[p]
                          \/ /\ approvals[p].state = "absent"
                             /\ approvals'[p].state = "pending"
  BY DEF Request, StoreOK
<1>3. CheckedLaunch'
  BY <1>1, CheckedKept DEF SafetyInv, Revised
<1>4. RejectedHeld'
  BY <1>1, <1>2 DEF SafetyInv, RejectedHeld
<1>5. ReadyReleased'
  BY <1>1, <1>2 DEF SafetyInv, ReadyReleased, Exists, Guarded, Launched, Released
<1>6. ContractFirst'
  BY <1>1 DEF SafetyInv, ContractFirst, Exists
<1> QED
  BY <1>3, <1>4, <1>5, <1>6 DEF SafetyInv

\* A decision, with all that it finds and leaves behind.
LEMMA Resolves ==
    ASSUME TypeInv, NEW c \in Client, Resolve(c)
    PROVE  LET p == command[c].approval
               a == approvals[p].attempt
           IN  /\ p \in Approval /\ a \in Attempt
               /\ approvals[p].state = "pending"
               /\ approvals'[p].attempt = a
               /\ attempts[a].execution = "pending" /\ attempts[a].control = "awaiting_approval"
               /\ attempts'[a].execution = "pending"
               /\ attempts'[a].revision = attempts[a].revision + 1
               /\ \/ /\ approvals'[p] = [state |-> "consumed", attempt |-> a]
                     /\ attempts'[a].control = "ready"
                  \/ /\ approvals'[p].state = "rejected"
                     /\ attempts'[a].control = "policy_hold"
               /\ \A q \in Approval : q # p => approvals'[q] = approvals[q]
               /\ \A b \in Attempt : b # a => attempts'[b] = attempts[b]
<1> USE DEF TypeInv
<1> DEFINE k == command[c]
           p == k.approval
           a == approvals[p].attempt
           state == IF k.approve THEN "consumed" ELSE "rejected"
           control == IF k.approve THEN "ready" ELSE "policy_hold"
           new == [attempts[a] EXCEPT !.control = control, !.revision = @ + 1]
<1>1. p \in Approval /\ a \in Attempt /\ k.approve \in BOOLEAN
  BY Decides
<1>2. attempts[a] \in AttemptRecords /\ approvals[p] \in ApprovalRecords
  BY <1>1 DEF StoreOK
<1>3. /\ approvals' = [approvals EXCEPT ![p] = [approvals[p] EXCEPT !.state = state]]
      /\ attempts' = [attempts EXCEPT ![a] = new]
  BY <1>1 DEF Resolve, Resolved, StoreOK
<1>4. /\ approvals[p].state = "pending"
      /\ attempts[a].execution = "pending" /\ attempts[a].control = "awaiting_approval"
  BY DEF Resolve
<1>5. \/ state = "consumed" /\ control = "ready"
      \/ state = "rejected" /\ control = "policy_hold"
  OBVIOUS
<1> HIDE DEF state, control
<1>6. new.execution = attempts[a].execution /\ new.control = control
      /\ new.revision = attempts[a].revision + 1
  BY <1>2 DEF AttemptRecords
<1>7. [approvals[p] EXCEPT !.state = state] = [state |-> state, attempt |-> a]
  BY <1>2 DEF ApprovalRecords
<1> HIDE DEF new
<1>8. approvals'[p] = [state |-> state, attempt |-> a]
      /\ \A q \in Approval : q # p => approvals'[q] = approvals[q]
  BY <1>1, <1>3, <1>7 DEF StoreOK
<1>9. attempts'[a] = new /\ \A b \in Attempt : b # a => attempts'[b] = attempts[b]
  BY <1>1, <1>3 DEF StoreOK
<1> QED
  BY <1>1, <1>4, <1>5, <1>6, <1>8, <1>9

LEMMA ResolveSafe ==
    ASSUME TypeInv, SafetyInv, NEW c \in Client, Resolve(c)
    PROVE  SafetyInv'
<1> USE DEF TypeInv
<1> DEFINE p == command[c].approval
           a == approvals[p].attempt
<1>1. UNCHANGED contract /\ LaunchesKept
  BY DoneLaunches DEF Resolve
<1>2. /\ p \in Approval /\ a \in Attempt
      /\ approvals[p].state = "pending"
      /\ approvals'[p].attempt = a
      /\ attempts[a].execution = "pending" /\ attempts[a].control = "awaiting_approval"
      /\ attempts'[a].execution = "pending"
      /\ attempts'[a].revision = attempts[a].revision + 1
      /\ \/ /\ approvals'[p] = [state |-> "consumed", attempt |-> a]
            /\ attempts'[a].control = "ready"
         \/ /\ approvals'[p].state = "rejected"
            /\ attempts'[a].control = "policy_hold"
      /\ \A q \in Approval : q # p => approvals'[q] = approvals[q]
      /\ \A b \in Attempt : b # a => attempts'[b] = attempts[b]
  BY Resolves
<1> HIDE DEF p, a
<1>3. CheckedLaunch'
  BY <1>1, <1>2, CheckedKept DEF SafetyInv, Revised
<1>4. RejectedHeld'
  <2>1. ASSUME NEW q \in Approval, approvals'[q].state = "rejected"
        PROVE  /\ attempts'[approvals'[q].attempt].execution = "pending"
               /\ attempts'[approvals'[q].attempt].control = "policy_hold"
    <3>1. CASE q = p
      BY <1>2, <2>1, <3>1
    <3>2. CASE q # p
      BY <1>2, <2>1, <3>2 DEF SafetyInv, RejectedHeld, ApprovalInv
    <3> QED
      BY <3>1, <3>2
  <2> QED
    BY <2>1 DEF RejectedHeld
<1>5. ReadyReleased'
  <2>1. ASSUME NEW b \in Attempt, Exists(b)', Guarded', (Launched(b) \/ attempts[b].control = "ready")'
        PROVE  Released(b)'
    <3>1. CASE b = a
      BY <1>2, <2>1, <3>1 DEF Launched, Released
    <3>2. CASE b # a
      BY <1>1, <1>2, <2>1, <3>2 DEF SafetyInv, ReadyReleased, Exists, Guarded, Launched, Released
    <3> QED
      BY <3>1, <3>2
  <2> QED
    BY <2>1 DEF ReadyReleased
<1>6. ContractFirst'
  BY <1>1, <1>2 DEF SafetyInv, ContractFirst, Exists
<1> QED
  BY <1>3, <1>4, <1>5, <1>6 DEF SafetyInv

LEMMA PreflightSafe ==
    ASSUME TypeInv, SafetyInv, NEW c \in Client, Preflight(c)
    PROVE  SafetyInv' /\ UNCHANGED <<contract, attempts, approvals>>
<1> USE DEF TypeInv
<1> DEFINE a == command[c].attempt
<1>1. a \in Attempt /\ UNCHANGED <<contract, attempts, approvals, command>>
  BY DEF Preflight, store, ClientsInv, CommandInv, LaunchCommands
<1>2. attempts[a].revision \in Nat
  BY <1>1, Fields DEF StoreOK
<1>3. /\ attempts[a].execution = "pending" /\ attempts[a].control = "ready"
      /\ seen'[c] = attempts[a].revision
      /\ \A d \in Client : d # c => pc'[d] = pc[d] /\ seen'[d] = seen[d]
  BY DEF Preflight, Goto, ClientsInv
<1>4. CheckedLaunch'
  BY <1>1, <1>2, <1>3 DEF SafetyInv, CheckedLaunch
<1> QED
  BY <1>1, <1>4 DEF SafetyInv, ContractFirst, ReadyReleased, RejectedHeld, Exists, Guarded,
     Launched, Released

\* A launch that is committed is one that was allowed when it was checked.
LEMMA Launches ==
    ASSUME TypeInv, CheckedLaunch, NEW c \in Client, CommitLaunching(c)
    PROVE  LET a == command[c].attempt
           IN  /\ a \in Attempt
               /\ attempts[a].execution = "pending" /\ attempts[a].control = "ready"
               /\ attempts'[a].execution = "launching" /\ attempts'[a].control = "ready"
               /\ attempts'[a].revision = attempts[a].revision + 1
               /\ \A b \in Attempt : b # a => attempts'[b] = attempts[b]
<1> USE DEF TypeInv
<1> DEFINE a == command[c].attempt
           launching == [attempts[a] EXCEPT !.execution = "launching", !.manifest = TRUE,
                                            !.revision = @ + 1]
<1>1. a \in Attempt /\ attempts[a] \in AttemptRecords
  BY LaunchAttempt DEF CommitLaunching, StoreOK
<1>2. /\ launching.execution = "launching" /\ launching.control = attempts[a].control
      /\ launching.revision = attempts[a].revision + 1
  BY <1>1 DEF AttemptRecords
<1> HIDE DEF launching
<1>3. attempts' = [attempts EXCEPT ![a] = launching] /\ attempts[a].revision = seen[c]
      /\ pc[c] = "launch"
  BY DEF CommitLaunching, launching
<1>4. attempts[a].execution = "pending" /\ attempts[a].control = "ready"
  BY <1>3 DEF CheckedLaunch
<1> QED
  BY <1>1, <1>2, <1>3, <1>4 DEF StoreOK

LEMMA LaunchSafe ==
    ASSUME TypeInv, SafetyInv, NEW c \in Client, CommitLaunching(c)
    PROVE  SafetyInv'
<1> USE DEF TypeInv
<1> DEFINE a == command[c].attempt
<1>1. UNCHANGED <<contract, approvals>> /\ LaunchesKept
  BY DoneLaunches DEF CommitLaunching
<1>2. /\ a \in Attempt
      /\ attempts[a].execution = "pending" /\ attempts[a].control = "ready"
      /\ attempts'[a].execution = "launching" /\ attempts'[a].control = "ready"
      /\ attempts'[a].revision = attempts[a].revision + 1
      /\ \A b \in Attempt : b # a => attempts'[b] = attempts[b]
  BY Launches DEF SafetyInv
<1> HIDE DEF a
<1>3. CheckedLaunch'
  BY <1>1, <1>2, CheckedKept DEF SafetyInv, Revised
<1>4. RejectedHeld'
  BY <1>1, <1>2 DEF SafetyInv, RejectedHeld, ApprovalInv
<1>5. ReadyReleased'
  BY <1>1, <1>2 DEF SafetyInv, ReadyReleased, Exists, Guarded, Launched, Released
<1>6. ContractFirst'
  BY <1>1, <1>2 DEF SafetyInv, ContractFirst, Exists
<1> QED
  BY <1>3, <1>4, <1>5, <1>6 DEF SafetyInv

LEMMA SuperviseSafe ==
    ASSUME TypeInv, SafetyInv, NEW a \in Attempt, Supervise(a)
    PROVE  SafetyInv'
<1> USE DEF TypeInv
<1>1. PICK new \in AttemptRecords :
        /\ attempts' = [attempts EXCEPT ![a] = new]
        /\ attempts[a].execution \in ActiveStates
        /\ new.execution \in ExecutionStates \ {"pending", "launching"}
        /\ LegalTransition(attempts[a], new)
  BY Supervises
<1>2. UNCHANGED <<contract, approvals>> /\ LaunchesKept
  BY DEF Supervise, LaunchesKept
<1>3. /\ attempts'[a] = new
      /\ new.revision = attempts[a].revision + 1
      /\ new.execution \notin {"absent", "pending"}
      /\ attempts[a].execution \notin {"absent", "pending"}
      /\ \A b \in Attempt : b # a => attempts'[b] = attempts[b]
  BY <1>1 DEF LegalTransition, ExecutionStates, ActiveStates, StoreOK
<1>4. CheckedLaunch'
  BY <1>2, <1>3, CheckedKept DEF SafetyInv, Revised
<1>5. RejectedHeld'
  BY <1>2, <1>3 DEF SafetyInv, RejectedHeld, ApprovalInv
<1>6. ReadyReleased'
  BY <1>2, <1>3 DEF SafetyInv, ReadyReleased, Exists, Guarded, Launched, Released
<1>7. ContractFirst'
  BY <1>2, <1>3 DEF SafetyInv, ContractFirst, Exists
<1> QED
  BY <1>4, <1>5, <1>6, <1>7 DEF SafetyInv

LEMMA InitSafe == Init => SafetyInv
  BY DEF Init, SafetyInv, ContractFirst, ReadyReleased, RejectedHeld, CheckedLaunch, Exists,
     NoAttempt, NoApproval

LEMMA NextSafe == TypeInv /\ SafetyInv /\ [Next]_vars => SafetyInv'
<1> SUFFICES ASSUME TypeInv, SafetyInv, [Next]_vars PROVE SafetyInv'
  OBVIOUS
<1>1. CASE UNCHANGED vars
  BY <1>1, SafetyFrame DEF vars, LaunchesKept
<1>2. CASE \E k \in Command : RegisterAgent(k) \/ RegisterWorkspace(k)
  BY <1>2, QuietSafe
<1>3. CASE \E c \in Client, k \in Command : FirstStep(c, k)
  BY <1>3, QuietSafe
<1>4. CASE \E c \in Client : ClientStep(c)
  BY <1>4, QuietSafe, ContractSafe, CreateSafe, HoldSafe, RequestSafe, ResolveSafe,
     PreflightSafe, LaunchSafe DEF ClientStep
<1>5. CASE \E a \in Attempt : Supervise(a)
  BY <1>5, SuperviseSafe
<1>6. CASE \E p \in Approval : Expires(p)
  BY <1>6, QuietSafe
<1> QED
  BY <1>1, <1>2, <1>3, <1>4, <1>5, <1>6 DEF Next

LEMMA Safe == Spec => [](TypeInv /\ SafetyInv)
<1>1. TypeInv /\ SafetyInv /\ [Next]_vars => (TypeInv /\ SafetyInv)'
  BY NextTyped, NextSafe
<1> QED
  BY <1>1, InitTyped, InitSafe, PTL DEF Spec

\* Whatever commands are raced, repeated or cut off, an attempt under a
\* contract that requires an approval is launched only if an approval of that
\* attempt has been consumed.
THEOREM LaunchesApproved == Spec => []ApprovedBeforeLaunch
<1>1. TypeInv /\ SafetyInv => ApprovedBeforeLaunch
  BY DEF SafetyInv, ReadyReleased, ApprovedBeforeLaunch, Launched, Exists
<1> QED
  BY <1>1, Safe, PTL

\* An attempt with a rejected approval is never launched, by the launch that
\* was being checked when it was rejected or by any later one.
THEOREM RejectionsFinal == Spec => []RejectedNeverLaunches
<1>1. TypeInv /\ SafetyInv => RejectedNeverLaunches
  BY DEF SafetyInv, RejectedHeld, RejectedNeverLaunches
<1> QED
  BY <1>1, Safe, PTL

-----------------------------------------------------------------------------
(* Every step is a step of LaunchGate, or changes nothing of it.           *)

LEMMA GateUnchanged ==
    ASSUME UNCHANGED <<contract, attempts, approvals>>
    PROVE  UNCHANGED Gate!vars
  BY DEF Gate!vars, GateOf, Exists, Launched, Guarded, ApprovalsOf

\* The gate of an attempt, case by case.
LEMMA GateNone == ASSUME NEW a \in Attempt, ~Exists(a) PROVE GateOf(a) = "none"
  BY DEF GateOf

LEMMA GateLaunched ==
    ASSUME NEW a \in Attempt, Launched(a)
    PROVE  GateOf(a) = "launched"
  BY DEF GateOf, Exists, Launched

LEMMA GatePending ==
    ASSUME NEW a \in Attempt, attempts[a].execution = "pending"
    PROVE  /\ GateOf(a) = "open" <=> attempts[a].control = "ready"
           /\ GateOf(a) = "held" <=> attempts[a].control = "awaiting_approval"
           /\ GateOf(a) \in {"open", "held", "shut"}
  BY DEF GateOf, Exists, Launched

LEMMA GateMoves ==
    ASSUME NEW a \in Attempt, NEW gate, GateOf(a)' = gate,
           \A b \in Attempt : b # a => GateOf(b)' = GateOf(b)
    PROVE  [b \in Attempt |-> GateOf(b)]' = [[b \in Attempt |-> GateOf(b)] EXCEPT ![a] = gate]
  OBVIOUS

LEMMA GateContract ==
    ASSUME TypeInv, SafetyInv, NEW c \in Client, CreateContract(c)
    PROVE  [Gate!Next]_Gate!vars
<1>1. /\ UNCHANGED <<attempts, approvals>>
      /\ UNCHANGED contract \/ contract = "none"
  BY DEF CreateContract
<1>2. CASE UNCHANGED contract
  BY <1>1, <1>2, GateUnchanged
<1>3. CASE contract = "none"
  <2>1. \A a \in Attempt : ~Exists(a)
    BY <1>3 DEF SafetyInv, ContractFirst
  <2>2. \A a \in Attempt : [b \in Attempt |-> GateOf(b)][a] = "none"
    BY <2>1, GateNone
  <2>3. UNCHANGED <<[b \in Attempt |-> GateOf(b)],
                    [b \in Attempt |-> ApprovalsOf(b, {"pending"})],
                    [b \in Attempt |-> ApprovalsOf(b, {"consumed", "rejected"})]>>
    BY <1>1 DEF GateOf, Exists, Launched, ApprovalsOf
  <2>4. Guarded' \in BOOLEAN
    BY DEF Guarded
  <2> QED
    BY <2>2, <2>3, <2>4 DEF Gate!Next, Gate!Contract
<1> QED
  BY <1>1, <1>2, <1>3

\* Steps that leave contract and approvals alone show in the gate only.
LEMMA AskedUnchanged ==
    ASSUME UNCHANGED <<contract, approvals>>
    PROVE  UNCHANGED <<Guarded, [b \in Attempt |-> ApprovalsOf(b, {"pending"})],
                       [b \in Attempt |-> ApprovalsOf(b, {"consumed", "rejected"})]>>
  BY DEF Guarded, ApprovalsOf

LEMMA GateSame ==
    ASSUME \A b \in Attempt : GateOf(b)' = GateOf(b)
    PROVE  UNCHANGED [b \in Attempt |-> GateOf(b)]
  OBVIOUS

LEMMA GateKept ==
    ASSUME NEW b \in Attempt, attempts'[b] = attempts[b]
    PROVE  GateOf(b)' = GateOf(b)
  BY DEF GateOf, Exists, Launched

LEMMA GateCreate ==
    ASSUME TypeInv, NEW c \in Client, CreateAttempt(c)
    PROVE  [Gate!Next]_Gate!vars
<1> USE DEF TypeInv
<1>1. PICK a \in Attempt : a = command[c].attempt
  BY DEF CreateAttempt, ClientsInv, CommandInv, PlanCommands, RetryCommands
<1>2. UNCHANGED <<contract, approvals>>
  BY DEF CreateAttempt
<1>3. CASE UNCHANGED attempts
  BY <1>2, <1>3, GateUnchanged
<1>4. CASE ~Exists(a) /\ attempts' = [attempts EXCEPT ![a] = NewAttempt]
  <2>1. attempts'[a] = NewAttempt /\ \A b \in Attempt : b # a => attempts'[b] = attempts[b]
    BY <1>4 DEF StoreOK
  <2>2. [b \in Attempt |-> GateOf(b)][a] = "none"
    BY <1>4, GateNone
  <2>3. \/ GateOf(a)' = "held"
        \/ ~Guarded /\ GateOf(a)' = "open"
    BY <2>1, NewAttemptIs, RequiresGuarded DEF GateOf, Exists, Launched
  <2>4. \A b \in Attempt : b # a => GateOf(b)' = GateOf(b)
    BY <2>1, GateKept
  <2>5. CASE GateOf(a)' = "held"
    <3>1. [b \in Attempt |-> GateOf(b)]'
            = [[b \in Attempt |-> GateOf(b)] EXCEPT ![a] = "held"]
      BY <2>4, <2>5, GateMoves
    <3> QED
      BY <1>2, <2>2, <3>1, AskedUnchanged DEF Gate!Create, Gate!Next
  <2>6. CASE ~Guarded /\ GateOf(a)' = "open"
    <3>1. [b \in Attempt |-> GateOf(b)]'
            = [[b \in Attempt |-> GateOf(b)] EXCEPT ![a] = "open"]
      BY <2>4, <2>6, GateMoves
    <3> QED
      BY <1>2, <2>2, <2>6, <3>1, AskedUnchanged DEF Gate!Create, Gate!Next
  <2> QED
    BY <2>3, <2>5, <2>6
<1> QED
  BY <1>1, <1>3, <1>4 DEF CreateAttempt

LEMMA GateHold ==
    ASSUME TypeInv, NEW c \in Client, Hold(c)
    PROVE  [Gate!Next]_Gate!vars
<1> USE DEF TypeInv
<1>1. UNCHANGED <<contract, approvals>>
  BY DEF Hold
<1>2. CASE UNCHANGED attempts
  BY <1>1, <1>2, GateUnchanged
<1>3. CASE ~UNCHANGED attempts
  <2>1. PICK a \in Attempt :
          /\ attempts[a].control \in {"ready", "awaiting_approval"}
          /\ attempts'[a].execution = attempts[a].execution
          /\ attempts'[a].control = "awaiting_approval"
          /\ \A b \in Attempt : b # a => attempts'[b] = attempts[b]
    BY <1>3, Holds
  <2>2. \A b \in Attempt : b # a => GateOf(b)' = GateOf(b)
    BY <2>1, GateKept
  <2>3. CASE GateOf(a) = "open"
    <3>1. GateOf(a)' = "held"
      BY <2>1, <2>3 DEF GateOf, Exists, Launched
    <3>2. [b \in Attempt |-> GateOf(b)][a] = "open"
      BY <2>3
    <3>3. [b \in Attempt |-> GateOf(b)]'
            = [[b \in Attempt |-> GateOf(b)] EXCEPT ![a] = "held"]
      BY <2>2, <3>1, GateMoves
    <3>4. Gate!Hold(a)
      BY <1>1, <3>2, <3>3, AskedUnchanged DEF Gate!Hold
    <3> QED
      BY <3>4 DEF Gate!Next
  <2>4. CASE GateOf(a) # "open"
    <3>1. GateOf(a)' = GateOf(a)
      BY <2>1, <2>4 DEF GateOf, Exists, Launched
    <3>2. UNCHANGED [b \in Attempt |-> GateOf(b)]
      BY <2>2, <3>1, GateSame
    <3> QED
      BY <1>1, <3>2, AskedUnchanged DEF Gate!vars
  <2> QED
    BY <2>3, <2>4
<1> QED
  BY <1>2, <1>3

LEMMA GateLaunch ==
    ASSUME TypeInv, SafetyInv, NEW c \in Client, CommitLaunching(c)
    PROVE  [Gate!Next]_Gate!vars
<1>1. PICK a \in Attempt :
        /\ attempts[a].execution = "pending" /\ attempts[a].control = "ready"
        /\ attempts'[a].execution = "launching"
        /\ \A b \in Attempt : b # a => attempts'[b] = attempts[b]
  BY Launches DEF SafetyInv
<1>2. UNCHANGED <<contract, approvals>>
  BY DEF CommitLaunching
<1>3. \A b \in Attempt : b # a => GateOf(b)' = GateOf(b)
  BY <1>1, GateKept
<1>4. GateOf(a)' = "launched"
  BY <1>1 DEF GateOf, Exists, Launched
<1>5. [b \in Attempt |-> GateOf(b)][a] = "open"
  BY <1>1, GatePending
<1>6. [b \in Attempt |-> GateOf(b)]' = [[b \in Attempt |-> GateOf(b)] EXCEPT ![a] = "launched"]
  BY <1>3, <1>4, GateMoves
<1>7. Gate!Launch(a)
  BY <1>2, <1>5, <1>6, AskedUnchanged DEF Gate!Launch
<1> QED
  BY <1>7 DEF Gate!Next

LEMMA GateSupervise ==
    ASSUME TypeInv, NEW a \in Attempt, Supervise(a)
    PROVE  [Gate!Next]_Gate!vars
<1>1. PICK new \in AttemptRecords :
        /\ attempts' = [attempts EXCEPT ![a] = new]
        /\ attempts[a].execution \in ActiveStates
        /\ new.execution \in ExecutionStates \ {"pending", "launching"}
  BY Supervises
<1>2. UNCHANGED <<contract, approvals>>
  BY DEF Supervise
<1>3. /\ attempts[a].execution \notin {"absent", "pending"}
      /\ attempts'[a].execution \notin {"absent", "pending"}
      /\ \A b \in Attempt : b # a => attempts'[b] = attempts[b]
  BY <1>1 DEF TypeInv, StoreOK, ExecutionStates, ActiveStates
<1>4. \A b \in Attempt : b # a => GateOf(b)' = GateOf(b)
  BY <1>3, GateKept
<1>5. GateOf(a)' = GateOf(a)
  BY <1>3 DEF GateOf, Exists, Launched
<1>6. UNCHANGED [b \in Attempt |-> GateOf(b)]
  BY <1>4, <1>5, GateSame
<1> QED
  BY <1>2, <1>6, AskedUnchanged DEF Gate!vars

LEMMA GateRequest ==
    ASSUME TypeInv, NEW c \in Client, Request(c)
    PROVE  [Gate!Next]_Gate!vars
<1> USE DEF TypeInv
<1>1. PICK a \in Attempt, p \in Approval : a = command[c].attempt /\ p = command[c].approval
  BY DEF Request, ClientsInv, CommandInv, RequestCommands
<1>2. UNCHANGED <<contract, attempts>>
  BY DEF Request
<1>3. CASE UNCHANGED approvals
  BY <1>2, <1>3, GateUnchanged
<1>4. CASE /\ approvals[p].state = "absent"
           /\ approvals' = [approvals EXCEPT ![p] = [state |-> "pending", attempt |-> a]]
  <2>1. /\ approvals'[p] = [state |-> "pending", attempt |-> a]
        /\ \A q \in Approval : q # p => approvals'[q] = approvals[q]
    BY <1>4 DEF StoreOK
  <2>2. \A b \in Attempt : ApprovalsOf(b, {"pending"})'
          = IF b = a THEN ApprovalsOf(a, {"pending"}) \cup {p} ELSE ApprovalsOf(b, {"pending"})
    BY <1>4, <2>1 DEF ApprovalsOf
  <2>3. \A b \in Attempt : ApprovalsOf(b, {"consumed", "rejected"})'
          = ApprovalsOf(b, {"consumed", "rejected"})
    BY <1>4, <2>1 DEF ApprovalsOf
  <2>4. \A b \in Attempt : GateOf(b)' = GateOf(b) /\ Guarded' = Guarded
    BY <1>2 DEF GateOf, Exists, Launched, Guarded
  <2>5. GateOf(a) # "none"
    <3>1. Exists(a)
      BY <1>1 DEF Request, ApprovalInv
    <3> QED
      BY <3>1 DEF GateOf, Exists, Launched
  <2>6. \A b \in Attempt : p \notin ApprovalsOf(b, {"pending"})
                                      \cup ApprovalsOf(b, {"consumed", "rejected"})
    BY <1>4 DEF ApprovalsOf
  <2>7. Gate!Ask(a, p)
    BY <2>2, <2>3, <2>4, <2>5, <2>6 DEF Gate!Ask
  <2> QED
    BY <2>7 DEF Gate!Next
<1> QED
  BY <1>1, <1>3, <1>4 DEF Request

LEMMA GateResolve ==
    ASSUME TypeInv, NEW c \in Client, Resolve(c)
    PROVE  [Gate!Next]_Gate!vars
<1>1. PICK a \in Attempt, p \in Approval :
        /\ approvals[p].state = "pending" /\ approvals[p].attempt = a
        /\ approvals'[p].attempt = a
        /\ attempts[a].execution = "pending" /\ attempts[a].control = "awaiting_approval"
        /\ attempts'[a].execution = "pending"
        /\ \/ approvals'[p].state = "consumed" /\ attempts'[a].control = "ready"
           \/ approvals'[p].state = "rejected" /\ attempts'[a].control = "policy_hold"
        /\ \A q \in Approval : q # p => approvals'[q] = approvals[q]
        /\ \A b \in Attempt : b # a => attempts'[b] = attempts[b]
  <2> DEFINE q == command[c].approval
             b == approvals[q].attempt
  <2>1. /\ q \in Approval /\ b \in Attempt
        /\ approvals[q].state = "pending"
        /\ approvals'[q].attempt = b
        /\ attempts[b].execution = "pending" /\ attempts[b].control = "awaiting_approval"
        /\ attempts'[b].execution = "pending"
        /\ \/ /\ approvals'[q] = [state |-> "consumed", attempt |-> b]
              /\ attempts'[b].control = "ready"
           \/ /\ approvals'[q].state = "rejected"
              /\ attempts'[b].control = "policy_hold"
        /\ \A other \in Approval : other # q => approvals'[other] = approvals[other]
        /\ \A other \in Attempt : other # b => attempts'[other] = attempts[other]
    BY Resolves
  <2>2. approvals[q].attempt = b
    OBVIOUS
  <2> HIDE DEF q, b
  <2>3. \/ approvals'[q].state = "consumed" /\ attempts'[b].control = "ready"
        \/ approvals'[q].state = "rejected" /\ attempts'[b].control = "policy_hold"
    BY <2>1
  <2> QED
    BY <2>1, <2>2, <2>3
<1>2. Guarded' = Guarded
  BY DEF Resolve, Guarded
<1>3. \A b \in Attempt : b # a => GateOf(b)' = GateOf(b)
  BY <1>1, GateKept
<1>4. [b \in Attempt |-> GateOf(b)][a] = "held"
  BY <1>1, GatePending
<1>5. p \in ApprovalsOf(a, {"pending"})
  BY <1>1 DEF ApprovalsOf
<1>6. \A b \in Attempt : ApprovalsOf(b, {"pending"})'
        = IF b = a THEN ApprovalsOf(a, {"pending"}) \ {p} ELSE ApprovalsOf(b, {"pending"})
  BY <1>1 DEF ApprovalsOf
<1>7. \A b \in Attempt : ApprovalsOf(b, {"consumed", "rejected"})'
        = IF b = a THEN ApprovalsOf(a, {"consumed", "rejected"}) \cup {p}
                   ELSE ApprovalsOf(b, {"consumed", "rejected"})
  BY <1>1 DEF ApprovalsOf
<1>8. CASE attempts'[a].control = "ready"
  <2>1. GateOf(a)' = "open"
    BY <1>1, <1>8 DEF GateOf, Exists, Launched
  <2>2. [b \in Attempt |-> GateOf(b)]' = [[b \in Attempt |-> GateOf(b)] EXCEPT ![a] = "open"]
    BY <1>3, <2>1, GateMoves
  <2>3. Gate!Decide(a, p, "open")
    BY <1>2, <1>4, <1>5, <1>6, <1>7, <2>2 DEF Gate!Decide
  <2> QED
    BY <2>3 DEF Gate!Next
<1>9. CASE attempts'[a].control = "policy_hold"
  <2>1. GateOf(a)' = "shut"
    BY <1>1, <1>9 DEF GateOf, Exists, Launched
  <2>2. [b \in Attempt |-> GateOf(b)]' = [[b \in Attempt |-> GateOf(b)] EXCEPT ![a] = "shut"]
    BY <1>3, <2>1, GateMoves
  <2>3. Gate!Decide(a, p, "shut")
    BY <1>2, <1>4, <1>5, <1>6, <1>7, <2>2 DEF Gate!Decide
  <2> QED
    BY <2>3 DEF Gate!Next
<1> QED
  BY <1>1, <1>8, <1>9

LEMMA GateInit == Init => Gate!Init
<1> SUFFICES ASSUME Init PROVE Gate!Init
  OBVIOUS
<1>1. \A a \in Attempt : ~Exists(a)
  BY DEF Init, Exists, NoAttempt
<1>2. \A a \in Attempt : GateOf(a) = "none"
  BY <1>1, GateNone
<1>3. Guarded = FALSE
  BY DEF Init, Guarded
<1>4. \A a \in Attempt : /\ ApprovalsOf(a, {"pending"}) = {}
                        /\ ApprovalsOf(a, {"consumed", "rejected"}) = {}
  BY DEF Init, ApprovalsOf, NoApproval
<1> QED
  BY <1>2, <1>3, <1>4 DEF Gate!Init

LEMMA GateNext == TypeInv /\ SafetyInv /\ [Next]_vars => [Gate!Next]_Gate!vars
<1> SUFFICES ASSUME TypeInv, SafetyInv, [Next]_vars PROVE [Gate!Next]_Gate!vars
  OBVIOUS
<1>1. CASE UNCHANGED vars
  BY <1>1, GateUnchanged DEF vars
<1>2. CASE \E k \in Command : RegisterAgent(k) \/ RegisterWorkspace(k)
  BY <1>2, QuietSafe, GateUnchanged
<1>3. CASE \E c \in Client, k \in Command : FirstStep(c, k)
  BY <1>3, QuietSafe, GateUnchanged
<1>4. CASE \E c \in Client : ClientStep(c)
  BY <1>4, QuietSafe, PreflightSafe, GateUnchanged, GateContract, GateCreate, GateHold,
     GateRequest, GateResolve, GateLaunch DEF ClientStep
<1>5. CASE \E a \in Attempt : Supervise(a)
  BY <1>5, GateSupervise
<1>6. CASE \E p \in Approval : Expires(p)
  BY <1>6, QuietSafe, GateUnchanged
<1> QED
  BY <1>1, <1>2, <1>3, <1>4, <1>5, <1>6 DEF Next

\* The commands, however they are interleaved, repeated and cut off, implement
\* the promise of LaunchGate: an attempt under a guarded contract is opened by an
\* approval of its own and by nothing else, a rejection shuts it for good, and no
\* request is decided twice.
THEOREM GateImplemented == Spec => ImplementsGate
<1>1. Spec => [][Gate!Next]_Gate!vars
  BY Safe, GateNext, PTL DEF Spec
<1>2. Spec => Gate!Init
  BY GateInit DEF Spec
<1> QED
  BY <1>1, <1>2 DEF ImplementsGate, Gate!Spec

-----------------------------------------------------------------------------
(* Keys: every revision of an attempt is the work of one of them.          *)

\* Supervisors have moved an attempt into an execution state from which it is
\* now in state now.
Passed(execution, now) ==
    \/ execution = now
    \/ execution = "running" /\ now \in {"cancel_requested", "succeeded", "failed", "cancelled", "lost"}
    \/ execution = "cancel_requested" /\ now \in {"cancelled", "failed", "lost"}

MovedInto == ExecutionStates \ {"pending", "launching"}

\* What was appended under a key is seen in the records: so the key cannot be
\* appended again by those commands that do not look it up.
KeyHolds(e) ==
    /\ e.part = "resolve" =>
         e.by.approval \in Approval /\ approvals[e.by.approval].state \in {"consumed", "rejected"}
    /\ e.part = "launch" => e.target \in Attempt /\ Launched(e.target)
    /\ e.part = "transition" =>
         /\ e.target \in Attempt /\ e.by.execution \in MovedInto
         /\ Passed(e.by.execution, attempts[e.target].execution)

Counted ==
    /\ IsFiniteSet(log)
    /\ AppliedOnce
    /\ \A a \in Attempt : ~Exists(a) => attempts[a].revision = 0

KeysInv == Counted /\ \A e \in log : KeyHolds(e)

\* Decisions stay, and executions go on.
GoesOn ==
    /\ \A p \in Approval :
         approvals[p].state \in {"consumed", "rejected"} => approvals'[p].state = approvals[p].state
    /\ \A a \in Attempt :
         /\ Launched(a) => attempts'[a].execution \notin {"absent", "pending"}
         /\ \A x \in MovedInto : Passed(x, attempts[a].execution) => Passed(x, attempts'[a].execution)

\* One append that revises attempt a under a new key, and one that revises none.
Revises(a, e) ==
    /\ log' = log \cup {e} /\ e \notin log /\ e.target = a
    /\ attempts'[a].revision = attempts[a].revision + 1 /\ attempts'[a].execution # "absent"
    /\ \A b \in Attempt \ {a} : attempts'[b] = attempts[b]

RevisesNone ==
    /\ attempts' = attempts
    /\ \E new : log' = log \cup new /\ IsFiniteSet(new) /\ \A e \in new : e.target \notin Attempt

LEMMA CountedOnce ==
    ASSUME Counted, NEW a \in Attempt, NEW e, Revises(a, e)
    PROVE  Counted'
<1>1. IsFiniteSet(log')
  BY FS_AddElement DEF Counted, Revises
<1>2. ASSUME NEW b \in Attempt
      PROVE  attempts'[b].revision = Cardinality({d \in log' : d.target = b})
  <2> DEFINE old == {d \in log : d.target = b}
             new == {d \in log' : d.target = b}
  <2>1. IsFiniteSet(old) /\ attempts[b].revision = Cardinality(old)
    BY FS_Subset DEF Counted, AppliedOnce
  <2>2. CASE b = a
    <3>1. new = old \cup {e} /\ e \notin old
      BY <2>2 DEF Revises
    <3> HIDE DEF old, new
    <3>2. Cardinality(new) = Cardinality(old) + 1
      BY <2>1, <3>1, FS_AddElement
    <3> QED
      BY <2>1, <2>2, <3>2 DEF Revises, new
  <2>3. CASE b # a
    <3>1. new = old
      BY <2>3 DEF Revises
    <3> QED
      BY <2>1, <2>3, <3>1 DEF Revises
  <2> QED
    BY <2>2, <2>3
<1>3. \A b \in Attempt : attempts'[b].execution = "absent" => attempts'[b].revision = 0
  BY DEF Counted, Revises, Exists
<1> QED
  BY <1>1, <1>2, <1>3 DEF Counted, AppliedOnce, Exists

LEMMA NotCounted ==
    ASSUME Counted, RevisesNone
    PROVE  Counted'
<1>1. IsFiniteSet(log')
  BY FS_Union DEF Counted, RevisesNone
<1>2. ASSUME NEW b \in Attempt
      PROVE  {d \in log' : d.target = b} = {d \in log : d.target = b}
  BY DEF RevisesNone
<1> QED
  BY <1>1, <1>2 DEF Counted, AppliedOnce, RevisesNone, Exists

LEMMA KeysGoOn ==
    ASSUME KeysInv, GoesOn, \A e \in log' \ log : KeyHolds(e)', Counted'
    PROVE  KeysInv'
<1>1. ASSUME NEW e \in log PROVE KeyHolds(e)'
  <2>1. KeyHolds(e)
    BY DEF KeysInv
  <2> QED
    BY <2>1 DEF KeyHolds, GoesOn, Launched
<1> QED
  BY <1>1 DEF KeysInv

LEMMA ExecutionKept ==
    ASSUME \A a \in Attempt : Exists(a) => attempts'[a].execution = attempts[a].execution,
           UNCHANGED approvals
    PROVE  GoesOn
  BY DEF GoesOn, Passed, MovedInto, Exists, Launched, ExecutionStates

LEMMA NothingAppended ==
    ASSUME KeysInv, UNCHANGED <<attempts, log>>, GoesOn
    PROVE  KeysInv'
<1>1. RevisesNone
  <2>1. log' = log \cup {} /\ IsFiniteSet({})
    BY FS_EmptySet
  <2> QED
    BY <2>1 DEF RevisesNone
<1> QED
  BY <1>1, NotCounted, KeysGoOn DEF KeysInv

LEMMA OtherAppended ==
    ASSUME KeysInv, UNCHANGED attempts, NEW k, NEW part \in {"register", "task", "contract", "request"},
           Append(k, part, None), GoesOn
    PROVE  KeysInv'
<1> DEFINE e == [by |-> k, part |-> part, target |-> None]
<1>1. log' = log \cup {e} /\ e.target = None /\ e.part = part
  BY DEF Append
<1> HIDE DEF e
<1>2. RevisesNone
  <2>1. IsFiniteSet({e})
    BY FS_Singleton
  <2> QED
    BY <1>1, <2>1, CommandAssumption DEF RevisesNone
<1>3. KeyHolds(e)'
  BY <1>1 DEF KeyHolds
<1> QED
  BY <1>1, <1>2, <1>3, NotCounted, KeysGoOn DEF KeysInv

\* The append of a new key that revises attempt a.
LEMMA RevisionAppended ==
    ASSUME TypeInv, KeysInv, GoesOn, NEW a \in Attempt, NEW e, log' = log \cup {e},
           e \notin log, e.target = a, KeyHolds(e)',
           NEW new \in AttemptRecords, attempts' = [attempts EXCEPT ![a] = new],
           new.revision = attempts[a].revision + 1, new.execution # "absent"
    PROVE  KeysInv'
<1>1. Revises(a, e)
  BY Written DEF Revises, TypeInv
<1>2. Counted'
  BY <1>1, CountedOnce DEF KeysInv
<1> QED
  BY <1>2, KeysGoOn

LEMMA RegisterKeys ==
    ASSUME KeysInv, NEW k \in Command, RegisterAgent(k) \/ RegisterWorkspace(k)
    PROVE  KeysInv'
<1>1. GoesOn
  BY ExecutionKept DEF RegisterAgent, RegisterWorkspace
<1> QED
  BY <1>1, OtherAppended DEF RegisterAgent, RegisterWorkspace

LEMMA PlanStepKeys ==
    ASSUME KeysInv, NEW c \in Client, CreateTask(c) \/ CreateContract(c)
    PROVE  KeysInv'
<1>1. GoesOn
  BY ExecutionKept DEF CreateTask, CreateContract
<1> QED
  BY <1>1, NothingAppended, OtherAppended DEF CreateTask, CreateContract

LEMMA RequestKeys ==
    ASSUME TypeInv, KeysInv, NEW c \in Client, Request(c)
    PROVE  KeysInv'
<1>1. UNCHANGED attempts
  BY DEF Request
<1>2. \A p \in Approval :
        approvals[p].state \in {"consumed", "rejected"} => approvals'[p].state = approvals[p].state
  BY DEF Request, TypeInv, StoreOK
<1>3. GoesOn
  BY <1>1, <1>2 DEF GoesOn, Launched
<1> QED
  BY <1>1, <1>3, NothingAppended, OtherAppended DEF Request

LEMMA CreateAttemptKeys ==
    ASSUME TypeInv, KeysInv, NEW c \in Client, CreateAttempt(c)
    PROVE  KeysInv'
<1> DEFINE k == command[c]
           a == k.attempt
<1>1. UNCHANGED approvals /\ a \in Attempt
  BY DEF CreateAttempt, TypeInv, ClientsInv, CommandInv, PlanCommands, RetryCommands
<1>2. CASE Committed(k, "attempt") /\ UNCHANGED <<attempts, log>>
  BY <1>1, <1>2, ExecutionKept, NothingAppended
<1>3. CASE /\ ~Committed(k, "attempt") /\ ~Exists(a)
           /\ attempts' = [attempts EXCEPT ![a] = NewAttempt] /\ Append(k, "attempt", a)
  <2>1. NewAttempt \in AttemptRecords
    BY NewTyped DEF TypeInv, StoreOK
  <2>2. NewAttempt.revision = 1 /\ NewAttempt.execution = "pending"
    BY DEF NewAttempt, NoAttempt
  <2>3. attempts[a].revision = 0
    BY <1>1, <1>3 DEF KeysInv, Counted
  <2>4. GoesOn
    BY <1>1, <1>3, <2>1, Written, ExecutionKept DEF TypeInv
  <2>e. PICK e : e = [by |-> k, part |-> "attempt", target |-> a]
    OBVIOUS
  <2>5. log' = log \cup {e} /\ e \notin log /\ e.target = a /\ e.part = "attempt"
    BY <1>3, <2>e DEF Append, Committed
  <2> HIDE DEF k, a
  <2>6. KeyHolds(e)'
    BY <2>5 DEF KeyHolds
  <2>7. NewAttempt.revision = attempts[a].revision + 1 /\ NewAttempt.execution # "absent"
    BY <2>2, <2>3
  <2> QED
    BY <1>1, <1>3, <2>1, <2>4, <2>5, <2>6, <2>7, RevisionAppended
<1> QED
  BY <1>2, <1>3 DEF CreateAttempt

LEMMA HoldKeys ==
    ASSUME TypeInv, KeysInv, NEW c \in Client, Hold(c)
    PROVE  KeysInv'
<1> DEFINE k == command[c]
           a == k.attempt
           held == [attempts[a] EXCEPT !.control = "awaiting_approval", !.revision = @ + 1]
<1>1. UNCHANGED approvals /\ a \in Attempt /\ Exists(a) /\ attempts[a] \in AttemptRecords
  BY DEF Hold, TypeInv, StoreOK, ClientsInv, CommandInv, ApprovalInv, RequestCommands
<1>2. CASE Committed(k, "hold") /\ UNCHANGED <<attempts, log>>
  BY <1>1, <1>2, ExecutionKept, NothingAppended
<1>3. CASE /\ ~Committed(k, "hold")
           /\ attempts' = [attempts EXCEPT ![a] = held] /\ Append(k, "hold", a)
  <2>1. held \in AttemptRecords
    BY <1>1, ControlTyped DEF ControlStates
  <2>2. held.revision = attempts[a].revision + 1 /\ held.execution = attempts[a].execution
    BY <1>1 DEF AttemptRecords
  <2>e. PICK e : e = [by |-> k, part |-> "hold", target |-> a]
    OBVIOUS
  <2>3. log' = log \cup {e} /\ e \notin log /\ e.target = a /\ e.part = "hold"
    BY <1>3, <2>e DEF Append, Committed
  <2> HIDE DEF held, k, a
  <2>4. GoesOn
    BY <1>1, <1>3, <2>1, <2>2, Written, ExecutionKept DEF TypeInv
  <2>5. KeyHolds(e)'
    BY <2>3 DEF KeyHolds
  <2> QED
    BY <1>1, <1>3, <2>1, <2>2, <2>3, <2>4, <2>5, RevisionAppended DEF Exists
<1> QED
  BY <1>2, <1>3 DEF Hold

LEMMA ResolveKeys ==
    ASSUME TypeInv, KeysInv, NEW c \in Client, Resolve(c)
    PROVE  KeysInv'
<1> DEFINE k == command[c]
           p == k.approval
           a == approvals[p].attempt
           new == Resolved(a, k.approve)
<1>1. p \in Approval /\ a \in Attempt /\ attempts[a] \in AttemptRecords
  BY Decides DEF TypeInv, StoreOK
<1>2. /\ approvals[p].state = "pending" /\ attempts[a].execution = "pending"
      /\ attempts' = [attempts EXCEPT ![a] = new] /\ Append(k, "resolve", a)
      /\ approvals' = [approvals EXCEPT ![p].state = IF k.approve THEN "consumed" ELSE "rejected"]
  BY DEF Resolve
<1>3. /\ new \in AttemptRecords
      /\ new.revision = attempts[a].revision + 1 /\ new.execution = attempts[a].execution
  <2>1. new \in AttemptRecords
    BY <1>1, ControlTyped DEF Resolved, ControlStates
  <2>2. new.revision = attempts[a].revision + 1 /\ new.execution = attempts[a].execution
    BY <1>1 DEF Resolved, AttemptRecords
  <2> QED
    BY <2>1, <2>2
<1>4. /\ approvals'[p].state \in {"consumed", "rejected"}
      /\ \A q \in Approval :
           approvals[q].state \in {"consumed", "rejected"} => approvals'[q].state = approvals[q].state
  BY <1>1, <1>2 DEF TypeInv, StoreOK, ApprovalRecords
<1> HIDE DEF new
<1>5. \A b \in Attempt : attempts'[b].execution = attempts[b].execution
  BY <1>1, <1>2, <1>3, Written DEF TypeInv
<1>6. GoesOn
  BY <1>4, <1>5 DEF GoesOn, Launched
<1>e. PICK e : e = [by |-> k, part |-> "resolve", target |-> a]
  OBVIOUS
<1>7. log' = log \cup {e} /\ e.target = a /\ e.part = "resolve" /\ e.by.approval = p
  BY <1>2, <1>e DEF Append
<1> HIDE DEF p, a
<1>8. e \notin log
  <2>1. KeyHolds(e) => approvals[p].state \in {"consumed", "rejected"}
    BY <1>7 DEF KeyHolds
  <2> QED
    BY <1>2, <2>1 DEF KeysInv
<1>9. KeyHolds(e)'
  BY <1>1, <1>4, <1>7 DEF KeyHolds
<1>10. new.execution # "absent"
  BY <1>2, <1>3
<1> QED
  BY <1>1, <1>2, <1>3, <1>6, <1>7, <1>8, <1>9, <1>10, RevisionAppended

LEMMA LaunchKeys ==
    ASSUME TypeInv, SafetyInv, KeysInv, NEW c \in Client, CommitLaunching(c)
    PROVE  KeysInv'
<1> DEFINE k == command[c]
           a == k.attempt
           new == [attempts[a] EXCEPT !.execution = "launching", !.manifest = TRUE, !.revision = @ + 1]
<1>1. a \in Attempt /\ attempts[a] \in AttemptRecords
  BY LaunchAttempt DEF CommitLaunching, TypeInv, StoreOK
<1>2. /\ attempts' = [attempts EXCEPT ![a] = new] /\ Append(k, "launch", a) /\ UNCHANGED approvals
      /\ pc[c] = "launch" /\ attempts[a].revision = seen[c]
  BY DEF CommitLaunching
<1>3. attempts[a].execution = "pending"
  BY <1>2 DEF SafetyInv, CheckedLaunch
<1>4. /\ new \in AttemptRecords
      /\ new.revision = attempts[a].revision + 1 /\ new.execution = "launching"
  <2>1. new \in AttemptRecords
    BY <1>1, LaunchingTyped
  <2>2. new.revision = attempts[a].revision + 1 /\ new.execution = "launching"
    BY <1>1 DEF AttemptRecords
  <2> QED
    BY <2>1, <2>2
<1> HIDE DEF new
<1>5. /\ attempts'[a].execution = "launching"
      /\ \A b \in Attempt \ {a} : attempts'[b] = attempts[b]
  BY <1>1, <1>2, <1>4, Written DEF TypeInv
<1>6. GoesOn
  BY <1>2, <1>3, <1>5 DEF GoesOn, Launched, Passed, MovedInto
<1>e. PICK e : e = [by |-> k, part |-> "launch", target |-> a]
  OBVIOUS
<1>7. log' = log \cup {e} /\ e.part = "launch" /\ e.target = a
  BY <1>2, <1>e DEF Append
<1> HIDE DEF k, a
<1>8. e \notin log
  BY <1>3, <1>7 DEF KeysInv, KeyHolds, Launched
<1>9. KeyHolds(e)'
  BY <1>1, <1>5, <1>7 DEF KeyHolds, Launched
<1>10. new.execution # "absent"
  BY <1>4
<1> QED
  BY <1>1, <1>2, <1>4, <1>6, <1>7, <1>8, <1>9, <1>10, RevisionAppended

LEMMA SuperviseKeys ==
    ASSUME TypeInv, KeysInv, NEW a \in Attempt, Supervise(a)
    PROVE  KeysInv'
<1>1. PICK x \in MovedInto :
        LET moved == [attempts[a] EXCEPT
                        !.execution = x,
                        !.control = IF x = "lost" THEN "control_failure" ELSE @,
                        !.proof = IF x = "running" THEN a ELSE @,
                        !.revision = @ + 1]
        IN  /\ attempts[a].execution \in ActiveStates \ {x}
            /\ LegalTransition(attempts[a], moved)
            /\ attempts' = [attempts EXCEPT ![a] = moved]
            /\ Append([kind |-> "supervise", execution |-> x], "transition", a)
            /\ UNCHANGED approvals
  BY DEF Supervise, MovedInto
<1> DEFINE moved == [attempts[a] EXCEPT
                        !.execution = x,
                        !.control = IF x = "lost" THEN "control_failure" ELSE @,
                        !.proof = IF x = "running" THEN a ELSE @,
                        !.revision = @ + 1]
           k == [kind |-> "supervise", execution |-> x]
           e == [by |-> k, part |-> "transition", target |-> a]
<1>2. attempts[a] \in AttemptRecords
  BY DEF TypeInv, StoreOK
<1>3. moved \in AttemptRecords
  BY <1>2, SupervisedTyped DEF MovedInto
<1>4. moved.execution = x /\ moved.revision = attempts[a].revision + 1
  BY <1>2 DEF AttemptRecords
<1> HIDE DEF moved
<1>5. /\ attempts' = [attempts EXCEPT ![a] = moved] /\ UNCHANGED approvals
      /\ Append(k, "transition", a)
      /\ attempts[a].execution \in ActiveStates \ {x} /\ LegalTransition(attempts[a], moved)
  BY <1>1 DEF moved
<1>6. ExecutionStep(attempts[a].execution, x)
  BY <1>4, <1>5 DEF LegalTransition
<1>7. /\ attempts'[a].execution = x
      /\ \A b \in Attempt \ {a} : attempts'[b] = attempts[b]
  BY <1>3, <1>4, <1>5, Written DEF TypeInv
<1>8. GoesOn
  BY <1>5, <1>6, <1>7 DEF GoesOn, Launched, Passed, MovedInto, ExecutionStep, ActiveStates, ExecutionStates
<1>9. log' = log \cup {e} /\ e.part = "transition" /\ e.target = a /\ e.by.execution = x
  BY <1>5 DEF Append
<1> HIDE DEF e, k
<1>10. e \notin log
  <2>1. ~Passed(x, attempts[a].execution)
    BY <1>5, <1>6 DEF Passed, ExecutionStep, ActiveStates
  <2> QED
    BY <1>9, <2>1 DEF KeysInv, KeyHolds
<1>11. KeyHolds(e)'
  BY <1>7, <1>9 DEF KeyHolds, Passed
<1>12. moved.execution # "absent"
  BY <1>4 DEF MovedInto, ExecutionStates
<1> QED
  BY <1>3, <1>4, <1>5, <1>8, <1>9, <1>10, <1>11, <1>12, RevisionAppended

LEMMA QuietKeys ==
    ASSUME KeysInv, UNCHANGED store
    PROVE  KeysInv'
<1>1. UNCHANGED <<attempts, log, approvals>>
  BY DEF store
<1> QED
  BY <1>1, ExecutionKept, NothingAppended

LEMMA KeysNext ==
    ASSUME TypeInv, SafetyInv, KeysInv, [Next]_vars
    PROVE  KeysInv'
<1>1. CASE UNCHANGED vars
  BY <1>1, QuietKeys DEF vars, store
<1>2. CASE \E k \in Command : RegisterAgent(k) \/ RegisterWorkspace(k)
  BY <1>2, RegisterKeys
<1>3. CASE \E c \in Client, k \in Command : FirstStep(c, k)
  BY <1>3, QuietKeys DEF FirstStep, PlanCheck, RetryCheck, RequestCheck, ReadApproval, LaunchCheck
<1>4. CASE \E c \in Client : ClientStep(c)
  <2>1. \A c \in Client : Preflight(c) \/ End(c) => UNCHANGED store
    BY DEF Preflight, End
  <2> QED
    BY <1>4, <2>1, QuietKeys, PlanStepKeys, CreateAttemptKeys, HoldKeys, RequestKeys, ResolveKeys,
       LaunchKeys DEF ClientStep
<1>5. CASE \E a \in Attempt : Supervise(a)
  BY <1>5, SuperviseKeys
<1>6. CASE \E p \in Approval : Expires(p)
  BY <1>6, QuietKeys DEF Expires
<1> QED
  BY <1>1, <1>2, <1>3, <1>4, <1>5, <1>6 DEF Next

LEMMA KeysInit == Init => KeysInv
<1> SUFFICES ASSUME Init PROVE KeysInv
  OBVIOUS
<1>1. ASSUME NEW a \in Attempt PROVE attempts[a].revision = 0
  BY DEF Init, NoAttempt
<1>2. \A a \in Attempt : {e \in log : e.target = a} = {}
  BY DEF Init
<1> QED
  BY <1>1, <1>2, FS_EmptySet DEF Init, KeysInv, Counted, AppliedOnce

\* However often commands are repeated, in one process or several, and cut off:
\* an attempt has exactly as many revisions as keys were committed for it, so no
\* key is applied twice and nothing is applied without one (_apply_event).
THEOREM AppliedOnceHolds == Spec => []AppliedOnce
<1>1. TypeInv /\ SafetyInv /\ KeysInv /\ [Next]_vars => KeysInv'
  BY KeysNext
<1>2. KeysInv => AppliedOnce
  BY DEF KeysInv, Counted
<1> QED
  BY <1>1, <1>2, KeysInit, Safe, Typed, PTL DEF Spec

-----------------------------------------------------------------------------
(* A command that was cut off can be repeated.                             *)

SomeAttempt == \E a \in Attempt : Exists(a)

\* The plan that has the task is the only one that has, and it leads: nobody
\* else takes the contract, nor creates an attempt before it has one.
PlanLeads ==
    /\ \A d, e \in log : d.part = "task" /\ e.part = "task" => d.by = e.by
    /\ \A e \in log : e.part = "task" =>
         /\ task
         /\ contract # "none" => Committed(e.by, "contract")
         /\ SomeAttempt => Committed(e.by, "attempt")
    /\ contract # "none" => task

\* A client in the middle of a plan or a retry has what its next append builds on.
PlanSteps ==
    \A c \in Client :
        /\ pc[c] = "contract" => Committed(command[c], "task")
        /\ pc[c] = "attempt" => Committed(command[c], "task")
                                \/ (command[c] \in RetryCommands /\ Exists(command[c].source))

HoldsExist == \A e \in log : e.part = "hold" => e.by.attempt \in Attempt /\ Exists(e.by.attempt)

PlanInv == PlanLeads /\ PlanSteps /\ HoldsExist

\* What most steps leave alone: which attempts exist, and who plans or retries.
SameAttempts == \A a \in Attempt : attempts'[a].execution # "absent" <=> Exists(a)

PlansKept ==
    \A c \in Client : pc'[c] \in {"contract", "attempt"} =>
        \/ pc'[c] = pc[c] /\ command'[c] = command[c]
        \/ pc'[c] = "attempt" /\ command'[c] \in RetryCommands /\ Exists(command'[c].source)

\* Nothing is taken from the log, and this is what is added to it.
Adds(k, part) ==
    /\ log \subseteq log'
    /\ \A e \in log' \ log : e.by = k /\ e.part = part

LEMMA AppendAdds ==
    ASSUME NEW k, NEW part, NEW target, Append(k, part, target)
    PROVE  Adds(k, part) /\ Committed(k, part)'
<1>1. PICK e : e = [by |-> k, part |-> part, target |-> target]
  OBVIOUS
<1>2. e.by = k /\ e.part = part
  BY <1>1
<1>3. log' = log \cup {e}
  BY <1>1 DEF Append
<1>4. Adds(k, part)
  BY <1>2, <1>3 DEF Adds
<1>5. Committed(k, part)'
  BY <1>2, <1>3 DEF Committed
<1> QED
  BY <1>4, <1>5

LEMMA CommittedStays ==
    ASSUME log \subseteq log'
    PROVE  \A k, part : Committed(k, part) => Committed(k, part)'
  BY DEF Committed

LEMMA PlanFrame ==
    ASSUME PlanInv, UNCHANGED <<task, contract>>, SameAttempts, PlansKept,
           NEW k, NEW part, Adds(k, part), part \notin {"task", "hold"}
    PROVE  PlanInv'
<1>1. \A j, p : Committed(j, p) => Committed(j, p)'
  BY CommittedStays DEF Adds
<1>2. \A e \in log' : e.part \in {"task", "hold"} => e \in log
  BY DEF Adds
<1>3. SomeAttempt' => SomeAttempt
  BY DEF SomeAttempt, SameAttempts, Exists
<1>4. PlanLeads'
  BY <1>1, <1>2, <1>3 DEF PlanInv, PlanLeads
<1>5. PlanSteps'
  <2> SUFFICES ASSUME NEW c \in Client
               PROVE  /\ pc'[c] = "contract" => Committed(command[c], "task")'
                      /\ pc'[c] = "attempt" => Committed(command[c], "task")'
                           \/ (command'[c] \in RetryCommands /\ Exists(command[c].source)')
    BY DEF PlanSteps
  <2>1. command'[c] \in RetryCommands => command'[c].source \in Attempt
    BY DEF RetryCommands
  <2>2. \A j : j \in Attempt /\ Exists(j) => attempts'[j].execution # "absent"
    BY DEF SameAttempts
  <2>3. CASE pc'[c] = pc[c] /\ command'[c] = command[c]
    BY <1>1, <2>1, <2>2, <2>3 DEF PlanInv, PlanSteps, Exists, Committed
  <2>4. CASE pc'[c] = "attempt" /\ command'[c] \in RetryCommands /\ Exists(command'[c].source)
    BY <2>1, <2>2, <2>4 DEF Exists
  <2> QED
    BY <2>3, <2>4 DEF PlansKept
<1>6. HoldsExist'
  BY <1>2 DEF PlanInv, HoldsExist, SameAttempts, Exists
<1> QED
  BY <1>4, <1>5, <1>6 DEF PlanInv

LEMMA NothingPlanned ==
    ASSUME PlanInv, UNCHANGED <<task, contract, log>>, SameAttempts, PlansKept
    PROVE  PlanInv'
<1>1. Adds("none", "none")
  BY DEF Adds
<1> QED
  BY <1>1, PlanFrame

LEMMA DonePlans ==
    ASSUME ClientsInv, NEW c \in Client, Done(c)
    PROVE  PlansKept
  BY DEF Done, Goto, ClientsInv, PlansKept

LEMMA GotoPlans ==
    ASSUME ClientsInv, NEW c \in Client, NEW step, Goto(c, step), UNCHANGED command,
           step \notin {"contract", "attempt"}
    PROVE  PlansKept
  BY DEF Goto, ClientsInv, PlansKept

LEMMA OneRevised ==
    ASSUME TypeInv, NEW a \in Attempt, Exists(a), NEW new, attempts' = [attempts EXCEPT ![a] = new],
           new.execution # "absent"
    PROVE  SameAttempts
  BY DEF TypeInv, StoreOK, SameAttempts, Exists

LEMMA RegisterPlans ==
    ASSUME PlanInv, NEW k \in Command, RegisterAgent(k) \/ RegisterWorkspace(k)
    PROVE  PlanInv'
<1>1. SameAttempts /\ PlansKept
  BY DEF RegisterAgent, RegisterWorkspace, SameAttempts, PlansKept, Exists
<1>2. Adds(k, "register")
  BY AppendAdds DEF RegisterAgent, RegisterWorkspace
<1> QED
  BY <1>1, <1>2, PlanFrame DEF RegisterAgent, RegisterWorkspace

LEMMA FirstStepPlans ==
    ASSUME TypeInv, PlanInv, NEW c \in Client, NEW k \in Command, FirstStep(c, k)
    PROVE  PlanInv'
<1>1. UNCHANGED <<task, contract, attempts, log>>
  BY DEF FirstStep, PlanCheck, RetryCheck, RequestCheck, ReadApproval, LaunchCheck, store
<1>2. PlansKept
  <2>1. CASE RetryCheck(c, k)
    <3>1. k \in RetryCommands /\ Exists(k.source)
      BY <2>1, CommandKinds DEF RetryCheck, Exists
    <3> QED
      BY <2>1, <3>1 DEF RetryCheck, Start, Goto, TypeInv, ClientsInv, PlansKept
  <2>2. CASE PlanCheck(c, k) \/ RequestCheck(c, k) \/ ReadApproval(c, k) \/ LaunchCheck(c, k)
    BY <2>2 DEF PlanCheck, RequestCheck, ReadApproval, LaunchCheck, Start, Goto, TypeInv, ClientsInv, PlansKept
  <2> QED
    BY <2>1, <2>2 DEF FirstStep
<1> QED
  BY <1>1, <1>2, NothingPlanned DEF SameAttempts, Exists

LEMMA CreateTaskPlans ==
    ASSUME TypeInv, SafetyInv, PlanInv, NEW c \in Client, CreateTask(c)
    PROVE  PlanInv'
<1>k. PICK k : k = command[c]
  OBVIOUS
<1>1. /\ pc[c] = "task" /\ UNCHANGED <<contract, attempts, command>> /\ Goto(c, "contract")
      /\ \A d \in Client : pc'[d] = IF d = c THEN "contract" ELSE pc[d]
  BY DEF CreateTask, Goto, TypeInv, ClientsInv
<1>2. log \subseteq log' /\ Committed(k, "task")'
  BY <1>k, AppendAdds DEF CreateTask, Adds, Committed
<1>3. \A j, p : Committed(j, p) => Committed(j, p)'
  BY <1>2, CommittedStays
<1>4. PlanSteps'
  BY <1>k, <1>1, <1>2, <1>3 DEF PlanInv, PlanSteps, Exists, Committed
<1>5. CASE Committed(k, "task") /\ UNCHANGED <<task, log>>
  <2>1. PlanLeads' /\ HoldsExist'
    BY <1>1, <1>5 DEF PlanInv, PlanLeads, HoldsExist, SomeAttempt, Exists, Committed
  <2> QED
    BY <1>4, <2>1 DEF PlanInv
<1>6. CASE ~task /\ task' = TRUE /\ Append(k, "task", None)
  <2>1. contract = "none" /\ ~SomeAttempt
    BY <1>6 DEF PlanInv, PlanLeads, SafetyInv, ContractFirst, SomeAttempt
  <2>2. \A e \in log : e.part # "task"
    BY <1>6 DEF PlanInv, PlanLeads
  <2>3. Adds(k, "task")
    BY <1>6, AppendAdds
  <2>4. PlanLeads'
    BY <1>1, <1>6, <2>1, <2>2, <2>3 DEF PlanLeads, Adds, SomeAttempt, Exists
  <2>5. HoldsExist'
    BY <1>1, <2>3 DEF PlanInv, HoldsExist, Adds, Exists
  <2> QED
    BY <1>4, <2>4, <2>5 DEF PlanInv
<1> QED
  BY <1>k, <1>5, <1>6 DEF CreateTask

LEMMA CreateContractPlans ==
    ASSUME TypeInv, PlanInv, NEW c \in Client, CreateContract(c)
    PROVE  PlanInv'
<1>k. PICK k : k = command[c]
  OBVIOUS
<1>1. /\ pc[c] = "contract" /\ UNCHANGED <<task, attempts, command>> /\ Committed(k, "task")
      /\ \A d \in Client : pc'[d] = IF d = c THEN "attempt" ELSE pc[d]
  BY <1>k DEF CreateContract, Goto, TypeInv, ClientsInv, PlanInv, PlanSteps
<1>2. Adds(k, "contract") /\ Committed(k, "contract")'
  BY <1>k, AppendAdds DEF CreateContract, Adds, Committed
<1>3. \A j, p : Committed(j, p) => Committed(j, p)'
  BY <1>2, CommittedStays DEF Adds
<1>4. PlanSteps'
  BY <1>k, <1>1, <1>3 DEF PlanInv, PlanSteps, Exists, Committed
<1>5. \A e \in log' : e.part \in {"task", "hold"} => e \in log
  BY <1>2 DEF Adds
<1>6. \A e \in log' : e.part = "task" => e.by = k
  BY <1>1, <1>5 DEF PlanInv, PlanLeads, Committed
<1>7. contract' # "none" => task
  BY <1>1 DEF CreateContract, PlanInv, PlanLeads
<1>8. PlanLeads'
  BY <1>1, <1>2, <1>3, <1>5, <1>6, <1>7 DEF PlanInv, PlanLeads, SomeAttempt, Exists
<1>9. HoldsExist'
  BY <1>1, <1>5 DEF PlanInv, HoldsExist, Exists
<1> QED
  BY <1>4, <1>8, <1>9 DEF PlanInv

LEMMA CreateAttemptPlans ==
    ASSUME TypeInv, PlanInv, NEW c \in Client, CreateAttempt(c)
    PROVE  PlanInv'
<1>k. PICK k : k = command[c]
  OBVIOUS
<1>1. /\ UNCHANGED <<task, contract>> /\ Grows
      /\ \A d \in Client : d # c => pc'[d] = pc[d] /\ command'[d] = command[d]
      /\ pc'[c] = "idle"
  BY CreateAttemptTyped, DoneMoves DEF CreateAttempt, TypeInv
<1>2. Adds(k, "attempt") /\ Committed(k, "attempt")'
  BY <1>k, AppendAdds DEF CreateAttempt, Adds, Committed
<1>3. \A j, p : Committed(j, p) => Committed(j, p)'
  BY <1>2, CommittedStays DEF Adds
<1>4. PlanSteps'
  <2> SUFFICES ASSUME NEW d \in Client, NEW j, j = command'[d]
      PROVE  /\ pc'[d] = "contract" => Committed(j, "task")'
             /\ pc'[d] = "attempt" => \/ Committed(j, "task")'
                                      \/ (j \in RetryCommands /\ Exists(j.source)')
    BY DEF PlanSteps, Exists, Committed
  <2>1. CASE d = c
    BY <1>1, <2>1
  <2>2. CASE d # c
    <3>1. pc'[d] = pc[d] /\ j = command[d]
      BY <1>1, <2>2
    <3>2. /\ pc[d] = "contract" => Committed(j, "task")
          /\ pc[d] = "attempt" => \/ Committed(j, "task")
                                  \/ (j \in RetryCommands /\ Exists(j.source))
      BY <3>1 DEF PlanInv, PlanSteps
    <3>3. j \in RetryCommands /\ Exists(j.source) => Exists(j.source)'
      BY <1>1 DEF Grows, RetryCommands, Exists
    <3> QED
      BY <1>3, <3>1, <3>2, <3>3
  <2> QED
    BY <2>1, <2>2
<1>5. \A e \in log' : e.part \in {"task", "hold"} => e \in log
  BY <1>2 DEF Adds
<1>6. Committed(k, "task") \/ SomeAttempt
  BY <1>k DEF CreateAttempt, PlanInv, PlanSteps, SomeAttempt, RetryCommands
<1>7. \A e \in log' : e.part = "task" => Committed(e.by, "attempt")'
  <2>1. CASE Committed(k, "task")
    <3>1. \A e \in log : e.part = "task" => e.by = k
      BY <2>1 DEF PlanInv, PlanLeads, Committed
    <3> QED
      BY <1>2, <1>5, <3>1
  <2>2. CASE SomeAttempt
    BY <1>3, <1>5, <2>2 DEF PlanInv, PlanLeads
  <2> QED
    BY <1>6, <2>1, <2>2
<1>8. PlanLeads'
  BY <1>1, <1>3, <1>5, <1>7 DEF PlanInv, PlanLeads
<1>9. HoldsExist'
  BY <1>1, <1>5 DEF PlanInv, HoldsExist, Grows, Exists
<1> QED
  BY <1>4, <1>8, <1>9 DEF PlanInv

LEMMA HoldPlans ==
    ASSUME TypeInv, PlanInv, NEW c \in Client, Hold(c)
    PROVE  PlanInv'
<1>k. PICK k : k = command[c]
  OBVIOUS
<1>1. k.attempt \in Attempt /\ Exists(k.attempt) /\ UNCHANGED <<task, contract, command>>
  BY <1>k DEF Hold, TypeInv, ClientsInv, CommandInv, ApprovalInv, RequestCommands
<1>2. PlansKept
  BY GotoPlans DEF Hold, TypeInv
<1>3. CASE UNCHANGED <<attempts, log>>
  BY <1>1, <1>2, <1>3, NothingPlanned DEF SameAttempts, Exists
<1>4. CASE /\ attempts' = [attempts EXCEPT ![k.attempt] =
                             [attempts[k.attempt] EXCEPT !.control = "awaiting_approval", !.revision = @ + 1]]
           /\ Append(k, "hold", k.attempt)
  <2> DEFINE held == [attempts[k.attempt] EXCEPT !.control = "awaiting_approval", !.revision = @ + 1]
  <2>1. held.execution # "absent"
    BY <1>1 DEF TypeInv, StoreOK, AttemptRecords, Exists
  <2>2. attempts' = [attempts EXCEPT ![k.attempt] = held]
    BY <1>4
  <2> HIDE DEF held
  <2>3. SameAttempts
    BY <1>1, <2>1, <2>2, OneRevised
  <2>4. Adds(k, "hold")
    BY <1>4, AppendAdds
  <2>5. \A j, p : Committed(j, p) => Committed(j, p)'
    BY <2>4, CommittedStays DEF Adds
  <2>6. PlanLeads'
    <3>1. \A e \in log' : e.part = "task" => e \in log
      BY <2>4 DEF Adds
    <3>2. SomeAttempt' => SomeAttempt
      BY <2>3 DEF SomeAttempt, SameAttempts, Exists
    <3> QED
      BY <1>1, <2>5, <3>1, <3>2 DEF PlanInv, PlanLeads
  <2>7. PlanSteps'
    <3>1. \A d \in Client : pc'[d] \in {"contract", "attempt"} => pc'[d] = pc[d] /\ command'[d] = command[d]
      BY DEF Hold, Goto, TypeInv, ClientsInv
    <3> QED
      BY <2>3, <2>5, <3>1 DEF PlanInv, PlanSteps, SameAttempts, Exists, Committed, RetryCommands
  <2>8. HoldsExist'
    BY <1>1, <2>3, <2>4 DEF PlanInv, HoldsExist, SameAttempts, Exists, Adds
  <2> QED
    BY <2>6, <2>7, <2>8 DEF PlanInv
<1> QED
  BY <1>k, <1>3, <1>4 DEF Hold

LEMMA RequestPlans ==
    ASSUME TypeInv, PlanInv, NEW c \in Client, Request(c)
    PROVE  PlanInv'
<1>1. PlansKept /\ SameAttempts
  BY DonePlans DEF Request, TypeInv, SameAttempts, Exists
<1>2. Adds(command[c], "request")
  BY AppendAdds DEF Request, Adds
<1> QED
  BY <1>1, <1>2, PlanFrame DEF Request

LEMMA ResolvePlans ==
    ASSUME TypeInv, PlanInv, NEW c \in Client, Resolve(c)
    PROVE  PlanInv'
<1> DEFINE a == approvals[command[c].approval].attempt
           new == Resolved(a, command[c].approve)
<1>1. PlansKept
  BY DonePlans DEF Resolve, TypeInv
<1>2. a \in Attempt /\ attempts[a].execution = "pending" /\ attempts' = [attempts EXCEPT ![a] = new]
  BY Decides DEF Resolve
<1>3. new.execution # "absent"
  BY <1>2 DEF Resolved, TypeInv, StoreOK, AttemptRecords
<1> HIDE DEF new
<1>4. SameAttempts
  BY <1>2, <1>3, OneRevised DEF Exists
<1>5. Adds(command[c], "resolve")
  BY AppendAdds DEF Resolve
<1> QED
  BY <1>1, <1>4, <1>5, PlanFrame DEF Resolve

LEMMA LaunchPlans ==
    ASSUME TypeInv, SafetyInv, PlanInv, NEW c \in Client, CommitLaunching(c)
    PROVE  PlanInv'
<1> DEFINE a == command[c].attempt
           new == [attempts[a] EXCEPT !.execution = "launching", !.manifest = TRUE, !.revision = @ + 1]
<1>1. PlansKept
  BY DonePlans DEF CommitLaunching, TypeInv
<1>2. a \in Attempt /\ Exists(a) /\ attempts' = [attempts EXCEPT ![a] = new]
  BY LaunchAttempt DEF CommitLaunching, SafetyInv, CheckedLaunch, Exists
<1>3. new.execution # "absent"
  BY <1>2 DEF TypeInv, StoreOK, AttemptRecords
<1> HIDE DEF new
<1>4. SameAttempts
  BY <1>2, <1>3, OneRevised
<1>5. Adds(command[c], "launch")
  BY AppendAdds DEF CommitLaunching
<1> QED
  BY <1>1, <1>4, <1>5, PlanFrame DEF CommitLaunching

LEMMA SupervisePlans ==
    ASSUME TypeInv, PlanInv, NEW a \in Attempt, Supervise(a)
    PROVE  PlanInv'
<1>1. PICK new \in AttemptRecords :
        /\ attempts' = [attempts EXCEPT ![a] = new]
        /\ attempts[a].execution \in ActiveStates
        /\ new.execution \in ExecutionStates \ {"pending", "launching"}
  BY Supervises
<1>2. SameAttempts
  BY <1>1, OneRevised DEF Exists, ActiveStates, ExecutionStates
<1>3. PICK x : Append([kind |-> "supervise", execution |-> x], "transition", a)
  BY DEF Supervise
<1>4. Adds([kind |-> "supervise", execution |-> x], "transition")
  BY <1>3, AppendAdds
<1>5. PlansKept /\ UNCHANGED <<task, contract>>
  BY DEF Supervise, PlansKept
<1> QED
  BY <1>2, <1>4, <1>5, PlanFrame

LEMMA PlansNext ==
    ASSUME TypeInv, SafetyInv, PlanInv, [Next]_vars
    PROVE  PlanInv'
<1>1. CASE UNCHANGED vars
  BY <1>1, NothingPlanned DEF vars, SameAttempts, PlansKept, Exists
<1>2. CASE \E k \in Command : RegisterAgent(k) \/ RegisterWorkspace(k)
  BY <1>2, RegisterPlans
<1>3. CASE \E c \in Client, k \in Command : FirstStep(c, k)
  BY <1>3, FirstStepPlans
<1>4. CASE \E c \in Client : ClientStep(c)
  <2>1. ASSUME NEW c \in Client, Preflight(c) PROVE PlanInv'
    <3>1. PlansKept
      BY <2>1, GotoPlans DEF Preflight, TypeInv
    <3> QED
      BY <2>1, <3>1, NothingPlanned DEF Preflight, store, SameAttempts, Exists
  <2>2. ASSUME NEW c \in Client, End(c) PROVE PlanInv'
    <3>1. PlansKept
      BY <2>2, DonePlans DEF End, TypeInv
    <3> QED
      BY <2>2, <3>1, NothingPlanned DEF End, store, SameAttempts, Exists
  <2> QED
    BY <1>4, <2>1, <2>2, CreateTaskPlans, CreateContractPlans, CreateAttemptPlans, HoldPlans,
       RequestPlans, ResolvePlans, LaunchPlans DEF ClientStep
<1>5. CASE \E a \in Attempt : Supervise(a)
  BY <1>5, SupervisePlans
<1>6. CASE \E p \in Approval : Expires(p)
  BY <1>6, NothingPlanned DEF Expires, store, SameAttempts, PlansKept, Exists
<1> QED
  BY <1>1, <1>2, <1>3, <1>4, <1>5, <1>6 DEF Next

LEMMA PlansResumable ==
    ASSUME PlanInv
    PROVE  Resumable
<1>1. ASSUME NEW k \in Command \cap RequestCommands, Committed(k, "hold"), k.approval \notin expired
      PROVE  RequestPasses(k)
  BY <1>1 DEF PlanInv, HoldsExist, Committed, RequestPasses
<1>2. ASSUME NEW k \in Command \cap PlanCommands, Committed(k, "task")
      PROVE  /\ contract # "none" => Committed(k, "contract")
             /\ Exists(k.attempt) => Committed(k, "attempt")
  <2>1. k.attempt \in Attempt
    BY DEF PlanCommands
  <2>2. PICK e \in log : e.by = k /\ e.part = "task"
    BY <1>2 DEF Committed
  <2> QED
    BY <2>1, <2>2 DEF PlanInv, PlanLeads, SomeAttempt
<1> QED
  BY <1>1, <1>2 DEF Resumable

\* A command that was cut off between two of its appends, by Ctrl-C, a crash or
\* another command that got in between, can be completed by repeating it: a
\* request that has held its attempt passes its checks until its deadline, and of
\* a plan that has its task nobody else takes the contract or the attempt.
THEOREM ResumableHolds == Spec => []Resumable
<1>1. TypeInv /\ SafetyInv /\ PlanInv /\ [Next]_vars => PlanInv'
  BY PlansNext
<1>2. Init => PlanInv
  BY DEF Init, PlanInv, PlanLeads, PlanSteps, HoldsExist
<1>3. PlanInv => Resumable
  BY PlansResumable
<1> QED
  BY <1>1, <1>2, <1>3, Safe, Typed, PTL DEF Spec
=============================================================================
