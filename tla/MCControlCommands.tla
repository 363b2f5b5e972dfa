------------------------- MODULE MCControlCommands -------------------------
(***************************************************************************)
(* Instances of ControlCommands for TLC.                                   *)
(***************************************************************************)
EXTENDS ControlCommands, TLC

CONSTANTS a1, a2,       \* an attempt and its retry
          MaxRequest,   \* attempt revisions that a request may name
          MaxLaunch     \* attempt revisions that a launch or retry may name

Registering ==
    [kind: {"agent", "workspace"}, revision: {0}, enabled: {TRUE}]

Approving ==
    [kind: {"request"}, attempt: {a1}, revision: 1 .. MaxRequest, approval: Approval]
        \cup [kind: {"decide"}, approval: Approval, approve: BOOLEAN]

Launching == [kind: {"launch"}, attempt: {a1}, revision: 1 .. MaxLaunch]

\* One attempt under a contract that requires an approval, and its launch.
OneAttempt ==
    Registering \cup Approving \cup Launching
        \cup [kind: {"plan"}, attempt: {a1}, envelope: {"workspace_write"}]

\* Any contract; the attempt ends and is retried; agent and workspace are
\* registered again, enabled or not.
WithRetry ==
    Registering \cup Approving \cup Launching
        \cup [kind: {"plan"}, attempt: {a1}, envelope: {"read_only", "approval_required"}]
        \cup [kind: {"agent"}, revision: {1}, enabled: BOOLEAN]
        \cup [kind: {"workspace"}, revision: {1}, enabled: {FALSE}]
        \cup [kind: {"retry"}, source: {a1}, revision: 1 .. MaxLaunch, attempt: {a2}]
        \cup [kind: {"launch"}, attempt: {a2}, revision: {1}]

Symmetry == Permutations(Client) \cup Permutations(Approval)
=============================================================================
