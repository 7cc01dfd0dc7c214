----------------------------- MODULE WorkflowRun -----------------------------
(***************************************************************************)
(* One durable workflow run: its rows in PostgreSQL, and the coroutines    *)
(* that read and write them.                                               *)
(*                                                                         *)
(*   workflow_runtime/runner.py        the walker: run(), resume, release  *)
(*   workflow_runtime/compensation.py  the saga fired on failure and stop  *)
(*   routers/workflow_builder.py       POST run, approve, stop             *)
(*   routers/dlq_console.py            POST replay                         *)
(*   executors/approval.py             the approval gate                   *)
(*   activities/approval_escalation.py the SLA sweep                       *)
(*                                                                         *)
(* A process is one HTTP request.  FastAPI runs its background task in the *)
(* same coroutine after the response, so a request to start or replay      *)
(* becomes a walker and a request to approve becomes a resumer.  An action *)
(* is one database transaction (or the effect of one executor); between    *)
(* two of them any other process may run, on this worker or on another.    *)
(*                                                                         *)
(* todo[p] is the straight-line rest of p's current code path: the writes  *)
(* it will make, in order, before it next takes a decision.                *)
(*                                                                         *)
(* Nodes are numbered in the order in which the walk visits them, which is *)
(* the order of (sequence_order, node_id); an edge may point backwards.    *)
(***************************************************************************)
EXTENDS Naturals, Sequences, RunStates

CONSTANTS
  N,          \* number of nodes of the workflow
  Edges,      \* its 'main' sequence edges, [src, dst, arm]
  Gates,      \* nodes of type approval_gate
  AutoGates,  \* gates whose auto_threshold may let the run through
  Levels,     \* Levels[n]: levels of the approval chain bound to node n
  Effects,    \* nodes of class external or write_non_idempotent
  Dedup,      \* effects that look for their own earlier outbox row first
  Undoable,   \* effects whose catalog row names a registered compensation
  Decisions,  \* if_else and switch nodes
  Joins,      \* parallel joins
  HighRisk,   \* TRUE iff the workflow is registered as high risk
  Procs,      \* the requests made during the life of the run
  Requests,   \* Requests[p]: what request p may ask for
  Logged,     \* event types kept in the log
  Faults,     \* kinds of failure that may happen
  MaxFaults   \* and how many of them, in all

Nodes == 1..N
Arms  == {"plain", "true", "false"}
Asks  == {"start", "approve", "reject", "stop", "replay"}

ASSUME WorkflowAssumption ==
  /\ N \in Nat
  /\ Edges \subseteq [src : Nodes, dst : Nodes, arm : Arms]
  /\ Gates \subseteq Nodes /\ AutoGates \subseteq Gates
  /\ Levels \in [Nodes -> Nat \ {0}]
  /\ Effects \subseteq Nodes /\ Dedup \subseteq Effects
  /\ Undoable \subseteq Effects
  /\ Decisions \subseteq Nodes /\ Joins \subseteq Nodes
  /\ Gates \cap Effects = {} /\ Decisions \cap (Gates \cup Effects) = {}
  /\ HighRisk \in BOOLEAN
  /\ Requests \in [Procs -> SUBSET Asks]
  /\ MaxFaults \in Nat

VARIABLES
  \* rows of the database
  status,    \* workflow_runs.status
  row,       \* workflow_run_nodes.status, per node
  class,     \* the side_effect_class its first insert gave the node's row
  out,       \* the output it recorded: a branch, for a decision
  approval,  \* workflow_approvals.status, per node
  level,     \* workflow_approvals.level_no, per node
  log,       \* workflow_events of the run, in sequence_no order
  \* the processes
  pc,        \* where each of them is
  job,       \* which entry point it walks under: background run, or resume
  todo,      \* the writes it is about to make
  pos,       \* the node it is at
  seen,      \* prior_outputs
  resolved,  \* resolved_approvals
  pick,      \* approve: the row it selected, and the decision
  undo,      \* compensation: the nodes still to be compensated
  \* history, read by the properties only
  fired,     \* how often the effect of a node reached the outside
  undone,    \* effects that were compensated
  owed,      \* effects a stop found recorded: it is to compensate them
  consent,   \* how a gate, or an oversight, has been passed
  signed,    \* levels of a chain that were approved
  faults     \* failures so far

runVars   == <<status, row, class, out>>
gateVars  == <<approval, level>>
dbVars    == <<runVars, gateVars, log>>
walkVars  == <<job, pos, seen, resolved>>
procVars  == <<pc, todo, walkVars, pick, undo>>
histVars  == <<fired, undone, owed, consent, signed>>
vars      == <<dbVars, procVars, histVars, faults>>

Outputs    == {"none", "done", "true", "false"}
Classes    == {"none", "own", "skipped", "unknown"}
Approvals  == {"none", "pending", "approved", "rejected", "escalated",
               "cancelled"}
Places     == {"idle", "enter", "load", "outputs", "approvals", "walk", "ask",
               "execute", "insert", "saga", "undo", "decide", "refuse",
               "check", "anchor", "stoponly", "stopundo", "replaying", "done"}
Consents   == {"human", "auto", "dead", "open"}
EventTypes == {"workflow_created", "workflow_started", "workflow_resumed",
               "workflow_paused", "workflow_completed", "workflow_failed",
               "node_started", "node_completed", "node_failed",
               "node_skipped", "node_paused", "approval_resolved",
               "compensation_started", "compensation_completed"}

Nothing == [n \in Nodes |-> "none"]
Picks   == [node : 0..N, decision : {"none", "approve", "reject"}, level : Nat]
NoPick  == [node |-> 0, decision |-> "none", level |-> 0]

------------------------------------------------------------------------------
(* The writes a code path is made of. *)

StatusOps == [op : {"status"}, to : RunStatus]
RecordOps == [op : {"record"}, node : Nodes, to : NodeStatus,
              out : Outputs, class : Classes]
EmitOps   == [op : {"emit"}, event : EventTypes]
Ops       == StatusOps \cup RecordOps \cup EmitOps

Status(s)          == <<[op |-> "status", to |-> s]>>
Record(n, s, o, c) == <<[op |-> "record", node |-> n, to |-> s,
                         out |-> o, class |-> c]>>
Append1(e)         == <<[op |-> "emit", event |-> e]>>
Emit(e)            == IF e \in Logged THEN Append1(e) ELSE <<>>

\* Mutant: the status of the run is written before the record of the node.
PauseOpsStatusFirst(n, o) ==
  Status("awaiting_approval") \o Record(n, "awaiting_approval", o, "own")
    \o Emit("node_paused") \o Emit("workflow_paused")

PauseOps(n, o) ==
  Record(n, "awaiting_approval", o, "own") \o Emit("node_paused")
    \o Status("awaiting_approval") \o Emit("workflow_paused")

\* Mutant: the failure of a node is not propagated to its run.
FailOpsNodeOnly(n) ==
  Record(n, "failed", "none", "own") \o Emit("node_failed")
    \o Emit("workflow_failed")

FailOps(n) ==
  Record(n, "failed", "none", "own") \o Emit("node_failed")
    \o Status("failed") \o Emit("workflow_failed")

------------------------------------------------------------------------------
(* Branch gating. *)

\* _edge_is_live: a source without output, or skipped, kills its edges; an
\* edge out of a decision is live only if it is tagged with the arm taken.
EdgeIsLive(e, outputs) ==
  /\ outputs[e.src] \notin {"none", "skipped"}
  /\ outputs[e.src] \in {"true", "false"} => e.arm = outputs[e.src]

\* A join waits for all its arms, every other node for any of them.
Reached(n, outputs) ==
  LET preds == {e \in Edges : e.dst = n}
  IN  \/ preds = {}
      \/ n \in Joins    /\ \A e \in preds : EdgeIsLive(e, outputs)
      \/ n \notin Joins /\ \E e \in preds : EdgeIsLive(e, outputs)

------------------------------------------------------------------------------
Init ==
  /\ status = "none" /\ row = Nothing /\ class = Nothing /\ out = Nothing
  /\ approval = Nothing /\ level = [n \in Nodes |-> 1] /\ log = <<>>
  /\ pc = [p \in Procs |-> "idle"] /\ job = [p \in Procs |-> "none"]
  /\ todo = [p \in Procs |-> <<>>] /\ pos = [p \in Procs |-> 1]
  /\ seen = [p \in Procs |-> Nothing] /\ resolved = [p \in Procs |-> Nothing]
  /\ pick = [p \in Procs |-> NoPick] /\ undo = [p \in Procs |-> {}]
  /\ fired = [n \in Nodes |-> 0] /\ undone = {} /\ owed = {}
  /\ consent = [n \in Nodes |-> {}] /\ signed = [n \in Nodes |-> {}]
  /\ faults = 0

\* Process p stands at a decision, all its earlier writes made.
At(p, place) == pc[p] = place /\ todo[p] = <<>>

Go(p, place) == pc' = [pc EXCEPT ![p] = place]
Queue(p, ops) == todo' = [todo EXCEPT ![p] = ops]

\* The coroutine returns once it has made its last writes.
Leave(p, ops) ==
  /\ Go(p, "done") /\ Queue(p, ops)
  /\ pos' = [pos EXCEPT ![p] = 1]
  /\ seen' = [seen EXCEPT ![p] = Nothing]
  /\ resolved' = [resolved EXCEPT ![p] = Nothing]
  /\ pick' = [pick EXCEPT ![p] = NoPick]
  /\ undo' = [undo EXCEPT ![p] = {}]
  /\ UNCHANGED job

Fault(f) == f \in Faults /\ faults < MaxFaults /\ faults' = faults + 1

------------------------------------------------------------------------------
(* The writes. *)

\* Mutant: a raw UPDATE.
DoStatusUnchecked(p) ==
  /\ todo[p] # <<>> /\ Head(todo[p]).op = "status"
  /\ status' = Head(todo[p]).to
  /\ Queue(p, Tail(todo[p]))
  /\ UNCHANGED <<row, class, out, gateVars, log, pc, walkVars, pick, undo,
                 histVars, faults>>

\* _update_run_status: one transaction, row locked, denied moves ignored.
DoStatus(p) ==
  /\ todo[p] # <<>> /\ Head(todo[p]).op = "status"
  /\ status' = Transitioned(status, Head(todo[p]).to)
  /\ Queue(p, Tail(todo[p]))
  /\ UNCHANGED <<row, class, out, gateVars, log, pc, walkVars, pick, undo,
                 histVars, faults>>

\* upsert_run_node: overwrites status and output whatever they were; the
\* class is set by the insert only.
DoRecord(p) ==
  /\ todo[p] # <<>> /\ Head(todo[p]).op = "record"
  /\ LET r == Head(todo[p])
     IN  /\ row' = [row EXCEPT ![r.node] = r.to]
         /\ out' = [out EXCEPT ![r.node] = r.out]
         /\ class' = [class EXCEPT ![r.node] =
                        IF row[r.node] = "none" THEN r.class ELSE @]
  /\ Queue(p, Tail(todo[p]))
  /\ UNCHANGED <<status, gateVars, log, pc, walkVars, pick, undo, histVars,
                 faults>>

DoEmit(p) ==
  /\ todo[p] # <<>> /\ Head(todo[p]).op = "emit"
  /\ log' = IF Head(todo[p]).event \in Logged
            THEN Append(log, Head(todo[p]).event) ELSE log
  /\ Queue(p, Tail(todo[p]))
  /\ UNCHANGED <<runVars, gateVars, pc, walkVars, pick, undo, histVars,
                 faults>>

\* Retries exhausted: the walker goes on as if the row had been written.
LoseWrite(p) ==
  /\ todo[p] # <<>> /\ Head(todo[p]).op \in {"status", "record"}
  /\ Fault("write")
  /\ Queue(p, Tail(todo[p]))
  /\ UNCHANGED <<dbVars, pc, walkVars, pick, undo, histVars>>

\* _emit absorbs a failed append.  run_compensation_chain does not: the chain
\* is abandoned, and the caller absorbs that.
LoseEmit(p) ==
  /\ todo[p] # <<>> /\ Head(todo[p]).op = "emit"
  /\ Fault("emit")
  /\ IF Head(todo[p]).event = "compensation_started"
     THEN Leave(p, <<>>)
     ELSE /\ Queue(p, Tail(todo[p]))
          /\ UNCHANGED <<pc, walkVars, pick, undo>>
  /\ UNCHANGED <<dbVars, histVars>>

------------------------------------------------------------------------------
(* Requests. *)

Ask(p, kind) == At(p, "idle") /\ kind \in Requests[p]

\* start_workflow_run: a second POST with the same Idempotency-Key finds the
\* row, but a background walk is scheduled either way.
StartRun(p) ==
  /\ Ask(p, "start")
  /\ status' = IF status = "none" THEN "pending" ELSE status
  /\ Queue(p, IF status = "none" THEN Emit("workflow_created") ELSE <<>>)
  /\ Go(p, "enter") /\ job' = [job EXCEPT ![p] = "run"]
  /\ UNCHANGED <<row, class, out, gateVars, log, pos, seen, resolved, pick,
                 undo, histVars, faults>>

\* approve_workflow_run selects some pending row ...
PickApproval(p, n, decision) ==
  /\ Ask(p, decision)
  /\ approval[n] = "pending"
  /\ pick' = [pick EXCEPT ![p] =
                [node |-> n, decision |-> decision, level |-> level[n]]]
  /\ Go(p, "decide")
  /\ UNCHANGED <<dbVars, todo, walkVars, undo, histVars, faults>>

\* ... and updates it by its id, whatever its status has become.  Approval
\* below the last level re-opens the row at the next one; at the last level
\* the resume is scheduled.
Advance(p) ==
  /\ At(p, "decide") /\ pick[p].decision = "approve"
  /\ pick[p].level < Levels[pick[p].node]
  /\ level' = [level EXCEPT ![pick[p].node] = pick[p].level + 1]
  /\ signed' = [signed EXCEPT ![pick[p].node] = @ \cup {pick[p].level}]
  /\ Leave(p, <<>>)
  /\ UNCHANGED <<runVars, approval, log, fired, undone, owed, consent, faults>>

\* Mutant: every level is taken for the last.
ApproveAtAnyLevel(p) ==
  /\ At(p, "decide") /\ pick[p].decision = "approve"
  /\ approval' = [approval EXCEPT ![pick[p].node] = "approved"]
  /\ signed' = [signed EXCEPT ![pick[p].node] = @ \cup {pick[p].level}]
  /\ consent' = [consent EXCEPT ![pick[p].node] = @ \cup {"human"}]
  /\ Go(p, "check") /\ job' = [job EXCEPT ![p] = "resume"]
  /\ UNCHANGED <<runVars, level, log, todo, pos, seen, resolved, pick, undo,
                 fired, undone, owed, faults>>

Approve(p) ==
  /\ At(p, "decide") /\ pick[p].decision = "approve"
  /\ pick[p].level >= Levels[pick[p].node]
  /\ approval' = [approval EXCEPT ![pick[p].node] = "approved"]
  /\ signed' = [signed EXCEPT ![pick[p].node] = @ \cup {pick[p].level}]
  /\ consent' = [consent EXCEPT ![pick[p].node] = @ \cup {"human"}]
  /\ Go(p, "check") /\ job' = [job EXCEPT ![p] = "resume"]
  /\ UNCHANGED <<runVars, level, log, todo, pos, seen, resolved, pick, undo,
                 fired, undone, owed, faults>>

Reject(p) ==
  /\ At(p, "decide") /\ pick[p].decision = "reject"
  /\ approval' = [approval EXCEPT ![pick[p].node] = "rejected"]
  /\ Go(p, "refuse")
  /\ UNCHANGED <<runVars, level, log, todo, walkVars, pick, undo, histVars,
                 faults>>

\* The second transaction of a rejection: a raw UPDATE, only of a run that is
\* already waiting.
Refuse(p) ==
  /\ At(p, "refuse")
  /\ status' = IF status = "awaiting_approval" THEN "failed" ELSE status
  /\ Leave(p, <<>>)
  /\ UNCHANGED <<row, class, out, gateVars, log, histVars, faults>>

\* resume_after_approval: the sanity check, in a transaction of its own.
CheckResume(p) ==
  /\ At(p, "check")
  /\ IF status = "awaiting_approval"
     THEN Go(p, "enter") /\ UNCHANGED <<todo, walkVars, pick, undo>>
     ELSE Leave(p, <<>>)
  /\ UNCHANGED <<dbVars, histVars, faults>>

\* stop_workflow_run reads the status without a lock ...
StopRead(p) ==
  /\ Ask(p, "stop")
  /\ status \in {"awaiting_approval", "running"}
  /\ Go(p, "anchor")
  /\ UNCHANGED <<dbVars, todo, walkVars, pick, undo, histVars, faults>>

\* Mutant: only a run that waits is compensated.
StopAnchorWaiting(p) ==
  /\ At(p, "anchor")
  /\ Go(p, IF \E n \in Nodes : row[n] = "awaiting_approval"
           THEN "stopundo" ELSE "stoponly")
  /\ owed' = {n \in Undoable : row[n] = "completed"}
  /\ UNCHANGED <<dbVars, todo, walkVars, pick, undo, fired, undone, consent,
                 signed, faults>>

\* ... then looks for any recorded node: without one nothing is compensated ...
StopAnchor(p) ==
  /\ At(p, "anchor")
  /\ Go(p, IF row = Nothing THEN "stoponly" ELSE "stopundo")
  /\ owed' = {n \in Undoable : row[n] = "completed"}
  /\ UNCHANGED <<dbVars, todo, walkVars, pick, undo, fired, undone, consent,
                 signed, faults>>

\* ... and cancels pending approvals and the run, whatever its status is now.
StopWrite(p) ==
  /\ At(p, "stoponly") \/ At(p, "stopundo")
  /\ approval' = [n \in Nodes |-> IF approval[n] = "pending"
                                  THEN "cancelled" ELSE approval[n]]
  /\ status' = "cancelled"
  /\ IF pc[p] = "stopundo"
     THEN Go(p, "saga") /\ UNCHANGED <<todo, walkVars, pick, undo>>
     ELSE Leave(p, <<>>)
  /\ UNCHANGED <<row, class, out, level, log, histVars, faults>>

\* replay_workflow_run: only a failed run, checked without a lock ...
ReplayRead(p) ==
  /\ Ask(p, "replay")
  /\ status = "failed"
  /\ Go(p, "replaying")
  /\ UNCHANGED <<dbVars, todo, walkVars, pick, undo, histVars, faults>>

\* ... is set to running, by a raw UPDATE, and walked again.
ReplayWrite(p) ==
  /\ At(p, "replaying")
  /\ status' = "running"
  /\ Go(p, "enter") /\ job' = [job EXCEPT ![p] = "run"]
  /\ UNCHANGED <<row, class, out, gateVars, log, todo, pos, seen, resolved,
                 pick, undo, histVars, faults>>

\* The SLA sweep marks an overdue approval, whatever its on_timeout says.
Escalate(n) ==
  /\ approval[n] = "pending"
  /\ Fault("sla")
  /\ approval' = [approval EXCEPT ![n] = "escalated"]
  /\ UNCHANGED <<runVars, level, log, procVars, histVars>>

------------------------------------------------------------------------------
(* The walk. *)

Enter(p) ==
  /\ At(p, "enter")
  /\ Queue(p, Status("running")
                \o Emit(IF status \in {"awaiting_approval", "running"}
                        THEN "workflow_resumed" ELSE "workflow_started"))
  /\ Go(p, "load")
  /\ UNCHANGED <<dbVars, walkVars, pick, undo, histVars, faults>>

LoadWorkflow(p) ==
  /\ At(p, "load")
  /\ Go(p, "outputs")
  /\ UNCHANGED <<dbVars, todo, walkVars, pick, undo, histVars, faults>>

\* WorkflowRunError: the definition is gone, or not visible, or cyclic.
LoadFails(p) ==
  /\ At(p, "load")
  /\ Fault("load")
  /\ Leave(p, Status("failed") \o Emit("workflow_failed"))
  /\ UNCHANGED <<dbVars, histVars>>

\* Mutant: a resumed walk starts from nothing.
LoadNoOutputs(p) ==
  /\ At(p, "outputs")
  /\ Go(p, "approvals")
  /\ UNCHANGED <<dbVars, todo, walkVars, pick, undo, histVars, faults>>

LoadOutputs(p) ==
  /\ At(p, "outputs")
  /\ seen' = [seen EXCEPT ![p] =
                [n \in Nodes |-> IF row[n] = "completed"
                                 THEN out[n] ELSE "none"]]
  /\ Go(p, "approvals")
  /\ UNCHANGED <<dbVars, todo, job, pos, resolved, pick, undo, histVars, faults>>

LoadApprovals(p) ==
  /\ At(p, "approvals")
  /\ resolved' = [resolved EXCEPT ![p] =
                    [n \in Nodes |->
                       IF approval[n] \in {"approved", "rejected", "cancelled"}
                       THEN approval[n] ELSE "none"]]
  /\ Go(p, "walk")
  /\ UNCHANGED <<dbVars, todo, job, pos, seen, pick, undo, histVars, faults>>

\* Node n is the next of p's walk.
Visits(p, n) == At(p, "walk") /\ pos[p] = n

\* It has no output yet and one of its arms (a join: each of them) is live.
Open(p, n) == seen[p][n] = "none" /\ Reached(n, seen[p])

\* Mutant: the walk goes two nodes on.
PassedTwice(p, n, o, ops) ==
  /\ seen' = [seen EXCEPT ![p][n] = o]
  /\ pos' = [pos EXCEPT ![p] = n + 2]
  /\ Go(p, "walk") /\ Queue(p, ops)
  /\ UNCHANGED <<job, resolved, pick, undo>>

\* Mutant: the output is not kept in prior_outputs.
PassedForgotten(p, n, o, ops) ==
  /\ pos' = [pos EXCEPT ![p] = n + 1]
  /\ Go(p, "walk") /\ Queue(p, ops)
  /\ UNCHANGED <<job, seen, resolved, pick, undo>>

\* The node is behind p, with output o.
Passed(p, n, o, ops) ==
  /\ seen' = [seen EXCEPT ![p][n] = o]
  /\ pos' = [pos EXCEPT ![p] = n + 1]
  /\ Go(p, "walk") /\ Queue(p, ops)
  /\ UNCHANGED <<job, resolved, pick, undo>>

\* Mutant: the branch a decision took is lost.
CompletedNoBranch(p, n, o) ==
  Passed(p, n, "done",
         Record(n, "completed", "done", "own") \o Emit("node_completed"))

Completed(p, n, o) ==
  Passed(p, n, o, Record(n, "completed", o, "own") \o Emit("node_completed"))

\* Completed in an earlier walk of the run.
PassPrior(p, n) ==
  /\ Visits(p, n) /\ seen[p][n] # "none"
  /\ Passed(p, n, seen[p][n], Emit("node_skipped"))
  /\ UNCHANGED <<dbVars, histVars, faults>>

SkipDead(p, n) ==
  /\ Visits(p, n) /\ seen[p][n] = "none" /\ ~Reached(n, seen[p])
  /\ Passed(p, n, "skipped",
            Record(n, "skipped", "none", "skipped") \o Emit("node_skipped"))
  /\ consent' = [consent EXCEPT ![n] = IF n \in Gates THEN @ \cup {"dead"}
                                                      ELSE @]
  /\ UNCHANGED <<dbVars, fired, undone, owed, signed, faults>>

\* Mutant: any resolution of the gate will do.
PassResolved(p, n) ==
  /\ Visits(p, n) /\ Open(p, n)
  /\ n \in Gates /\ resolved[p][n] # "none"
  /\ Passed(p, n, "done",
            Record(n, "completed", "done", "own") \o Emit("approval_resolved")
              \o Emit("node_completed"))
  /\ UNCHANGED <<dbVars, histVars, faults>>

PassApproved(p, n) ==
  /\ Visits(p, n) /\ Open(p, n)
  /\ n \in Gates /\ resolved[p][n] = "approved"
  /\ Passed(p, n, "done",
            Record(n, "completed", "done", "own") \o Emit("approval_resolved")
              \o Emit("node_completed"))
  /\ UNCHANGED <<dbVars, histVars, faults>>

\* A rejected gate fails the run; nothing is compensated.
FailRejected(p, n) ==
  /\ Visits(p, n) /\ Open(p, n)
  /\ n \in Gates /\ resolved[p][n] = "rejected"
  /\ Leave(p, Emit("approval_resolved") \o Status("failed")
                \o Emit("workflow_failed"))
  /\ UNCHANGED <<dbVars, histVars, faults>>

\* Neither approved nor rejected when p loaded the approvals.
Unresolved(p, n) == n \in Gates => resolved[p][n] \notin {"approved", "rejected"}

\* The registry of this worker lacks the node's type; not compensated either.
NoExecutor(p, n) ==
  /\ Visits(p, n) /\ Open(p, n) /\ Unresolved(p, n)
  /\ Fault("missing")
  /\ Leave(p, Record(n, "failed", "none", "unknown") \o Status("failed")
                \o Emit("node_failed") \o Emit("workflow_failed"))
  /\ UNCHANGED <<dbVars, histVars>>

\* Mutant: asking once is enough.
NeedsOversightOnce(n) == HighRisk /\ n \in Effects /\ approval[n] = "none"

\* _oversight_required.
NeedsOversight(n) == HighRisk /\ n \in Effects /\ approval[n] # "approved"

AskOversight(p, n) ==
  /\ Visits(p, n) /\ Open(p, n) /\ Unresolved(p, n)
  /\ NeedsOversight(n)
  /\ Go(p, "ask")
  /\ UNCHANGED <<dbVars, todo, walkVars, pick, undo, histVars, faults>>

Proceed(p, n) ==
  /\ Visits(p, n) /\ Open(p, n) /\ Unresolved(p, n)
  /\ ~NeedsOversight(n)
  /\ Go(p, "execute") /\ Queue(p, Emit("node_started"))
  /\ UNCHANGED <<dbVars, walkVars, pick, undo, histVars, faults>>

\* The oversight check fails open on any database error.
OversightFailsOpen(p, n) ==
  /\ Visits(p, n) /\ Open(p, n) /\ Unresolved(p, n)
  /\ NeedsOversight(n)
  /\ Fault("check")
  /\ Go(p, "execute") /\ Queue(p, Emit("node_started"))
  /\ consent' = [consent EXCEPT ![n] = @ \cup {"open"}]
  /\ UNCHANGED <<dbVars, walkVars, pick, undo, fired, undone, owed, signed>>

\* _pause_for_oversight: an existing row is set back to pending.
PauseForOversight(p, n) ==
  /\ At(p, "ask") /\ pos[p] = n
  /\ approval' = [approval EXCEPT ![n] = "pending"]
  /\ Leave(p, PauseOps(n, "none"))
  /\ UNCHANGED <<runVars, level, log, histVars, faults>>

\* Mutant: the saga is also started when the run is completed.
EndOfWalkUndone(p) ==
  /\ Visits(p, N + 1)
  /\ Go(p, "saga") /\ Queue(p, Status("completed") \o Emit("workflow_completed"))
  /\ UNCHANGED <<dbVars, walkVars, pick, undo, histVars, faults>>

EndOfWalk(p) ==
  /\ Visits(p, N + 1)
  /\ Leave(p, Status("completed") \o Emit("workflow_completed"))
  /\ UNCHANGED <<dbVars, histVars, faults>>

------------------------------------------------------------------------------
(* The executors, seen from the run: what they write before they return. *)

Executes(p, n) == At(p, "execute") /\ pos[p] = n

\* auto_threshold holds.
GateLetsThrough(p, n) ==
  /\ Executes(p, n) /\ n \in AutoGates
  /\ Completed(p, n, "done")
  /\ consent' = [consent EXCEPT ![n] = @ \cup {"auto"}]
  /\ UNCHANGED <<dbVars, fired, undone, owed, signed, faults>>

\* Mutant: the pause of a gate is taken for its completion.
GatePausesNot(p, n) ==
  /\ Executes(p, n) /\ n \in Gates
  /\ approval' = [approval EXCEPT ![n] = IF @ = "none" THEN "pending" ELSE @]
  /\ level' = [level EXCEPT ![n] = 1]
  /\ Completed(p, n, "done")
  /\ UNCHANGED <<runVars, log, histVars, faults>>

\* The upsert opens the gate at level 1, but leaves the status of a row that
\* exists.
GatePauses(p, n) ==
  /\ Executes(p, n) /\ n \in Gates
  /\ approval' = [approval EXCEPT ![n] = IF @ = "none" THEN "pending" ELSE @]
  /\ level' = [level EXCEPT ![n] = 1]
  /\ Leave(p, PauseOps(n, "done"))
  /\ UNCHANGED <<runVars, log, histVars, faults>>

Fire(n) == fired' = [fired EXCEPT ![n] = @ + 1]

EffectFires(p, n) ==
  /\ Executes(p, n) /\ n \in Effects \ Dedup
  /\ Completed(p, n, "done") /\ Fire(n)
  /\ UNCHANGED <<dbVars, undone, owed, consent, signed, faults>>

\* send_email: SELECT by source_ref; a hit completes the node ...
DedupHit(p, n) ==
  /\ Executes(p, n) /\ n \in Dedup /\ fired[n] > 0
  /\ Completed(p, n, "done")
  /\ UNCHANGED <<dbVars, histVars, faults>>

\* Mutant: the message is enqueued without looking.
DedupBlind(p, n) ==
  /\ Executes(p, n) /\ n \in Dedup
  /\ Go(p, "insert")
  /\ UNCHANGED <<dbVars, todo, walkVars, pick, undo, histVars, faults>>

DedupMiss(p, n) ==
  /\ Executes(p, n) /\ n \in Dedup /\ fired[n] = 0
  /\ Go(p, "insert")
  /\ UNCHANGED <<dbVars, todo, walkVars, pick, undo, histVars, faults>>

\* ... a miss inserts.  No unique index backs the check.
DedupInsert(p, n) ==
  /\ At(p, "insert") /\ pos[p] = n
  /\ Completed(p, n, "done") /\ Fire(n)
  /\ UNCHANGED <<dbVars, undone, owed, consent, signed, faults>>

PureCompletes(p, n) ==
  /\ Executes(p, n) /\ n \notin Gates \cup Effects \cup Decisions
  /\ Completed(p, n, "done")
  /\ UNCHANGED <<dbVars, histVars, faults>>

DecisionTaken(p, n, arm) ==
  /\ Executes(p, n) /\ n \in Decisions
  /\ Completed(p, n, arm)
  /\ UNCHANGED <<dbVars, histVars, faults>>

\* The node is recorded failed, then the run, then the saga starts.
Fails(p, n) ==
  /\ Go(p, "saga") /\ Queue(p, FailOps(n))
  /\ UNCHANGED <<walkVars, pick, undo>>

\* The executor raises, or returns 'failed', before it did anything ...
ExecFails(p, n) ==
  /\ Executes(p, n)
  /\ Fault("exec")
  /\ Fails(p, n)
  /\ UNCHANGED <<dbVars, histVars>>

\* ... or after its effect got out: a timeout on an answered call.
ExecFailsLate(p, n) ==
  /\ Executes(p, n) /\ n \in Effects \ Dedup
  /\ Fault("execlate")
  /\ Fails(p, n) /\ Fire(n)
  /\ UNCHANGED <<dbVars, undone, owed, consent, signed>>

\* A decision that names no branch fails the run, without compensation.
DecisionUnnamed(p, n) ==
  /\ Executes(p, n) /\ n \in Decisions
  /\ Fault("branch")
  /\ Leave(p, FailOps(n))
  /\ UNCHANGED <<dbVars, histVars>>

------------------------------------------------------------------------------
(* The saga: compensation.py. *)

\* Mutant: whatever was recorded is compensated.
CompensableAll == {n \in Effects : row[n] # "none"}

\* Nodes recorded completed under an impactful class.
Compensable == {n \in Effects : row[n] = "completed" /\ class[n] = "own"}

SagaLoad(p) ==
  /\ At(p, "saga")
  /\ IF Compensable = {}
     THEN Leave(p, <<>>)
     ELSE /\ undo' = [undo EXCEPT ![p] = Compensable]
          /\ Go(p, "undo") /\ Queue(p, Append1("compensation_started"))
          /\ UNCHANGED <<walkVars, pick>>
  /\ UNCHANGED <<dbVars, histVars, faults>>

\* Latest first.  A node whose catalog row names no handler is passed over.
Undo(p, n) ==
  /\ At(p, "undo") /\ n \in undo[p] /\ \A m \in undo[p] : m <= n
  /\ undo' = [undo EXCEPT ![p] = @ \ {n}]
  /\ undone' = undone \cup ({n} \cap Undoable)
  /\ UNCHANGED <<dbVars, pc, todo, walkVars, pick, fired, owed, consent,
                 signed, faults>>

\* A handler that raises is recorded, and the chain goes on.
UndoFails(p, n) ==
  /\ At(p, "undo") /\ n \in undo[p] /\ \A m \in undo[p] : m <= n
  /\ Fault("undo")
  /\ undo' = [undo EXCEPT ![p] = @ \ {n}]
  /\ UNCHANGED <<dbVars, pc, todo, walkVars, pick, histVars>>

SagaEnds(p) ==
  /\ At(p, "undo") /\ undo[p] = {}
  /\ Leave(p, Emit("compensation_completed"))
  /\ UNCHANGED <<dbVars, histVars, faults>>

------------------------------------------------------------------------------
(* Interruptions. *)

\* CancelledError at shutdown, or an exception that escapes run().  The entry
\* point of a background run then releases the row; a resume has no handler.
Interrupted(p) ==
  /\ job[p] # "none" /\ (pc[p] # "done" \/ todo[p] # <<>>)
  /\ pc[p] = "enter" => todo[p] = <<>>    \* the handler has returned
  /\ Fault("interrupt")
  /\ Leave(p, IF job[p] = "run" THEN Status("failed") ELSE <<>>)
  /\ UNCHANGED <<dbVars, histVars>>

\* The worker dies.
Crash(p) ==
  /\ pc[p] # "idle" /\ (pc[p] # "done" \/ todo[p] # <<>>)
  /\ Fault("crash")
  /\ Leave(p, <<>>)
  /\ UNCHANGED <<dbVars, histVars>>

------------------------------------------------------------------------------
Request(p) ==
  \/ StartRun(p) \/ StopRead(p) \/ ReplayRead(p)
  \/ \E n \in Nodes, d \in {"approve", "reject"} : PickApproval(p, n, d)

Write(p) == DoStatus(p) \/ DoRecord(p) \/ DoEmit(p)

Handle(p) ==
  \/ Advance(p) \/ Approve(p) \/ Reject(p) \/ Refuse(p) \/ CheckResume(p)
  \/ StopAnchor(p) \/ StopWrite(p) \/ ReplayWrite(p)

Load(p) == Enter(p) \/ LoadWorkflow(p) \/ LoadOutputs(p) \/ LoadApprovals(p)

Visit(p, n) ==
  \/ PassPrior(p, n) \/ SkipDead(p, n) \/ PassApproved(p, n)
  \/ FailRejected(p, n) \/ AskOversight(p, n) \/ PauseForOversight(p, n)
  \/ Proceed(p, n)

Execute(p, n) ==
  \/ GateLetsThrough(p, n) \/ GatePauses(p, n) \/ EffectFires(p, n)
  \/ DedupHit(p, n) \/ DedupMiss(p, n) \/ DedupInsert(p, n)
  \/ PureCompletes(p, n)
  \/ \E arm \in {"true", "false"} : DecisionTaken(p, n, arm)

Compensate(p) == SagaLoad(p) \/ SagaEnds(p) \/ \E n \in Nodes : Undo(p, n)

\* A step of a request that has been made and is not disturbed.
Step(p) ==
  \/ Write(p) \/ Handle(p) \/ Load(p) \/ Compensate(p)
  \/ EndOfWalk(p) \/ \E n \in Nodes : Visit(p, n) \/ Execute(p, n)

Disturb(p) ==
  \/ LoseWrite(p) \/ LoseEmit(p) \/ LoadFails(p) \/ Interrupted(p) \/ Crash(p)
  \/ \E n \in Nodes : \/ NoExecutor(p, n) \/ OversightFailsOpen(p, n)
                      \/ ExecFails(p, n) \/ ExecFailsLate(p, n)
                      \/ DecisionUnnamed(p, n) \/ UndoFails(p, n)

Next ==
  \/ \E p \in Procs : Request(p) \/ Step(p) \/ Disturb(p)
  \/ \E n \in Nodes : Escalate(n)

Spec == Init /\ [][Next]_vars
------------------------------------------------------------------------------
DbTypeOK ==
  /\ status \in RunStatus
  /\ row \in [Nodes -> NodeStatus] /\ class \in [Nodes -> Classes]
  /\ out \in [Nodes -> Outputs]
  /\ approval \in [Nodes -> Approvals] /\ level \in [Nodes -> Nat]
  /\ log \in Seq(EventTypes)

ProcTypeOK ==
  /\ pc \in [Procs -> Places] /\ job \in [Procs -> {"none", "run", "resume"}]
  /\ todo \in [Procs -> Seq(Ops)] /\ pos \in [Procs -> 1..(N + 1)]
  /\ seen \in [Procs -> [Nodes -> Outputs \cup {"skipped"}]]
  /\ resolved \in [Procs -> [Nodes -> Approvals]]
  /\ pick \in [Procs -> Picks] /\ undo \in [Procs -> SUBSET Nodes]

HistTypeOK ==
  /\ fired \in [Nodes -> Nat] /\ undone \subseteq Nodes /\ owed \subseteq Nodes
  /\ consent \in [Nodes -> SUBSET Consents] /\ signed \in [Nodes -> SUBSET Nat]
  /\ faults \in 0..MaxFaults

\* The rows hold statuses of their enumerations, the walkers stand on a node
\* or just behind the last, and every queued write is well formed.
TypeOK == DbTypeOK /\ ProcTypeOK /\ HistTypeOK

\* A coroutine that can run is run.  Nobody is obliged to make a request.
FairSpec == Spec /\ \A p \in Procs : WF_vars(Step(p))

------------------------------------------------------------------------------
(* What a run promises. *)

Quiescent == \A p \in Procs : pc[p] \in {"idle", "done"} /\ todo[p] = <<>>

\* No effect reaches the outside before every gate that the walk visits ahead
\* of it was approved by a person, let through by its threshold, or found on
\* an arm not taken; whatever is replayed, retried or lost on the way.
ConsentBeforeEffect ==
  \A n \in Effects, g \in Gates :
    fired[n] > 0 /\ g < n => consent[g] # {}

\* In a high-risk workflow no effect is fired that no person approved, unless
\* the check itself failed and let it through (it fails open by design).
OversightBeforeEffect ==
  HighRisk => \A n \in Effects : fired[n] > 0 => consent[n] # {}

\* A gate or oversight is passed as approved only when each level of its chain
\* was approved: a run cannot be resumed from the first of two signatures.
EveryLevelSigned ==
  \A n \in Nodes : "human" \in consent[n] => 1..Levels[n] \subseteq signed[n]

\* A run that is started once, and resumed only through its own gates, fires
\* each effect at most once, across all its pauses.
EffectOnce == \A n \in Effects : fired[n] <= 1

\* send_email: one message per node, even if the run is replayed after a
\* failure that hides whether the message had gone out.
DedupOnce == \A n \in Dedup : fired[n] <= 1

\* An effect never fires again once its node is recorded completed.
CompletedFiresNoMore ==
  [][\A n \in Effects : row[n] = "completed" => fired'[n] = fired[n]]_vars

\* What the rows show of the outputs: a node that is not completed has none.
Recorded == [n \in Nodes |-> IF row[n] = "completed" THEN out[n] ELSE "skipped"]

\* What the recorded rows of a completed run show is what the edges of its
\* workflow prescribe: a node ran if and only if it was reached.
RoutedAsDrawn ==
  status = "completed" =>
    \A n \in Nodes : row[n] = IF Reached(n, Recorded)
                              THEN "completed" ELSE "skipped"

\* At most one arm of a decision is ever taken, though the node of the other
\* arm is visited again by each walk of the run.
OneArm ==
  \A e, f \in Edges :
    /\ e.src = f.src /\ e.src \in Decisions
    /\ e.arm # f.arm /\ e.dst # f.dst
    /\ \A d \in Edges : d.dst \in {e.dst, f.dst} => d \in {e, f}
    => ~(row[e.dst] = "completed" /\ row[f.dst] = "completed")

\* A run that waits for approval has a node that waits: the record of the
\* node is written before the status of the run.
WaitingHasNode ==
  status = "awaiting_approval" =>
    \E n \in Nodes : row[n] = "awaiting_approval" /\ approval[n] # "none"

\* Only effects that were fired are compensated.
UndoneWasFired == \A n \in undone : fired[n] > 0

\* A run that ends completed keeps the effects of its nodes.
CompletedKeepsEffects == status = "completed" => undone = {}

\* A run that was stopped, when all is quiet, has been undone as far as it had
\* been recorded when the stop came: waiting at a gate or running past it.
StopUndoes == Quiescent /\ status = "cancelled" => owed \subseteq undone

\* The raw UPDATE of a stop or a replay.
Overrides(p) ==
  pc[p] \in {"stoponly", "stopundo", "replaying"} /\ pc'[p] # pc[p]

\* Only a stop and a replay move a run out of a terminal status: no walker, no
\* rejection and no release of an interrupted run does, however late.
TerminalLeftByRequest ==
  [][status' # status /\ status \in TerminalWorkflow
       => \E p \in Procs : Overrides(p)]_vars

\* A started run comes to wait for a person or to an end.
RunSettles ==
  status \in {"pending", "running"} ~>
    status \in TerminalWorkflow \cup {"awaiting_approval"}

------------------------------------------------------------------------------
(* Why consent comes first: what each copy of a decision, in a row or in the *)
(* memory of a walker, is backed by.                                         *)

ConsentedGates == {g \in Gates : consent[g] # {}}

\* A write that does not record an unconsented gate completed.
SafeOps ==
  StatusOps \cup EmitOps \cup
  {r \in RecordOps : r.to = "completed" /\ r.node \in Gates
                       => r.node \in ConsentedGates}

RowsBacked      == \A g \in Gates : row[g] = "completed" => consent[g] # {}
ApprovalsBacked == \A n \in Nodes : approval[n] = "approved" => consent[n] # {}
SeenBacked      == \A p \in Procs, g \in Gates :
                     seen[p][g] # "none" => consent[g] # {}
ResolvedBacked  == \A p \in Procs, n \in Nodes :
                     resolved[p][n] = "approved" => consent[n] # {}
TodoBacked      == \A p \in Procs : todo[p] \in Seq(SafeOps)

\* A walker has passed only gates that somebody passed.
WalkBacked      == \A p \in Procs, g \in Gates : g < pos[p] => consent[g] # {}

\* It executes an effect of a high-risk workflow only with consent.
ExecuteBacked   == \A p \in Procs :
                     /\ pc[p] = "insert" => pos[p] \in Dedup
                     /\ HighRisk /\ pc[p] \in {"execute", "insert"}
                        => \A n \in Effects : n = pos[p] => consent[n] # {}

\* A level is opened, or picked up by an approver, after all those below it.
LevelsBacked    == \A n \in Nodes : 1..(level[n] - 1) \subseteq signed[n]
PicksBacked     == \A p \in Procs : pc[p] = "decide" =>
                     /\ pick[p].node \in Nodes
                     /\ 1..(pick[p].level - 1) \subseteq signed[pick[p].node]

DbBacked      == RowsBacked /\ ApprovalsBacked /\ LevelsBacked
ProcsBacked   == /\ SeenBacked /\ ResolvedBacked /\ TodoBacked
                 /\ WalkBacked /\ ExecuteBacked /\ PicksBacked
HistoryBacked == /\ ConsentBeforeEffect /\ OversightBeforeEffect
                 /\ EveryLevelSigned

\* The inductive invariant of consent.
ConsentInv == DbBacked /\ ProcsBacked /\ HistoryBacked

------------------------------------------------------------------------------
(* What its documentation says of it, and its code does not do. *)

\* state_machine.py says that a terminal run is immutable, and the stop endpoint and
\* its tests that a run that has completed is not stopped: a run that has completed, or
\* was stopped, stays so.  (A failed run may be replayed.)  Stop and replay both write
\* what they decided on a status that they read before.
EndedStaysEnded == [][status' # status => status \notin {"completed", "cancelled"}]_vars

\* approve_workflow_run says that on approve the run resumes in the background, and
\* that on reject it fails terminally: when all is quiet, no run waits at a node that
\* has been decided.
DecisionTakesEffect ==
  Quiescent /\ status = "awaiting_approval" =>
    ~\E n \in Nodes : /\ approval[n] \in {"approved", "rejected"}
                      /\ row[n] = "awaiting_approval"

====
