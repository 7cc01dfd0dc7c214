------------------------------ MODULE RunStates ------------------------------
(***************************************************************************)
(* The statuses of a workflow run and of its nodes, and the transition     *)
(* graph of a run: workflow_runtime/state_machine.py.                      *)
(***************************************************************************)

\* A run has no status before create_run inserts its row.
RunStatus == {"none", "pending", "running", "awaiting_approval",
              "completed", "failed", "cancelled"}

\* A node has no row before the runner first records it.  The enumeration of
\* the code also has 'pending' and 'running', which no writer ever stores.
NodeStatus == {"none", "awaiting_approval", "completed", "failed", "skipped"}

TerminalWorkflow == {"completed", "failed", "cancelled"}

\* The same-status pair is the idempotent no-op of transition_workflow_status,
\* which is tested before the graph is consulted.
AllowedWorkflow ==
  {<<"pending", "running">>, <<"pending", "cancelled">>,
   <<"running", "awaiting_approval">>, <<"running", "completed">>,
   <<"running", "failed">>, <<"running", "cancelled">>,
   <<"awaiting_approval", "running">>, <<"awaiting_approval", "failed">>,
   <<"awaiting_approval", "cancelled">>, <<"running", "running">>}

\* The status a run has after transition_workflow_status(from, to): a denied
\* transition raises, the caller logs it, and the row keeps its status.
Transitioned(from, to) ==
  IF <<from, to>> \in AllowedWorkflow THEN to ELSE from

==============================================================================
