-------------------------- MODULE WorkflowRunProofs --------------------------
(***************************************************************************)
(* Theorems about WorkflowRun, for every workflow, every set of requests   *)
(* and every number of failures.                                           *)
(***************************************************************************)
EXTENDS WorkflowRun, TLAPS

------------------------------------------------------------------------------
(* The code paths are sequences of writes. *)

\* What the model queues is a sequence of well-formed writes: the pause and
\* failure paths of run(), and each single write.
LEMMA CodePaths ==
  ASSUME NEW n \in Nodes, NEW o \in Outputs
  PROVE  /\ \A s \in RunStatus : Status(s) \in Seq(Ops)
         /\ \A s \in NodeStatus, c \in Classes : Record(n, s, o, c) \in Seq(Ops)
         /\ \A e \in EventTypes : Emit(e) \in Seq(Ops) /\ Append1(e) \in Seq(Ops)
         /\ PauseOps(n, o) \in Seq(Ops) /\ FailOps(n) \in Seq(Ops)
<1>1. \A s \in RunStatus : Status(s) \in Seq(Ops)
  BY DEF Status, Ops, StatusOps
<1>2. \A s \in NodeStatus, c \in Classes, u \in Outputs :
        Record(n, s, u, c) \in Seq(Ops)
  BY DEF Record, Ops, RecordOps
<1>3. \A e \in EventTypes : Emit(e) \in Seq(Ops) /\ Append1(e) \in Seq(Ops)
  <2> SUFFICES ASSUME NEW e \in EventTypes
               PROVE  Emit(e) \in Seq(Ops) /\ Append1(e) \in Seq(Ops)
    OBVIOUS
  <2>1. [op |-> "emit", event |-> e] \in Ops
    BY DEF Ops, EmitOps
  <2>2. Append1(e) \in Seq(Ops)
    BY <2>1 DEF Append1
  <2> QED
    BY <2>2 DEF Emit
<1>4. PauseOps(n, o) \in Seq(Ops)
  <2>1. /\ Record(n, "awaiting_approval", o, "own") \in Seq(Ops)
        /\ Emit("node_paused") \in Seq(Ops)
        /\ Status("awaiting_approval") \in Seq(Ops)
        /\ Emit("workflow_paused") \in Seq(Ops)
    BY <1>1, <1>2, <1>3 DEF NodeStatus, Classes, EventTypes, RunStatus
  <2> QED
    BY <2>1 DEF PauseOps
<1>5. FailOps(n) \in Seq(Ops)
  <2>1. /\ Record(n, "failed", "none", "own") \in Seq(Ops)
        /\ Emit("node_failed") \in Seq(Ops)
        /\ Status("failed") \in Seq(Ops)
        /\ Emit("workflow_failed") \in Seq(Ops)
    BY <1>1, <1>2, <1>3 DEF NodeStatus, Classes, EventTypes, RunStatus, Outputs
  <2> QED
    BY <2>1 DEF FailOps
<1> QED
  BY <1>1, <1>2, <1>3, <1>4, <1>5

------------------------------------------------------------------------------
(* Type correctness. *)

\* The initial state is well typed.
LEMMA TypeInit == Init => TypeOK
  BY WorkflowAssumption
     DEF Init, TypeOK, DbTypeOK, ProcTypeOK, HistTypeOK, Nothing, NoPick, Picks,
         Nodes, RunStatus, NodeStatus, Classes, Outputs, Approvals, Places,
         Consents

\* A process that returns with well-formed last writes stays well typed.
LEMMA LeaveTyped ==
  ASSUME ProcTypeOK, NEW p \in Procs, NEW ops \in Seq(Ops), Leave(p, ops)
  PROVE  ProcTypeOK'
  BY WorkflowAssumption
     DEF ProcTypeOK, Leave, Go, Queue, Nothing, NoPick, Picks, Nodes, Outputs,
         Approvals, Places

\* So does a walker that passes a node.
LEMMA PassedTyped ==
  ASSUME ProcTypeOK, NEW p \in Procs, NEW n \in Nodes, NEW ops \in Seq(Ops),
         NEW o \in Outputs \cup {"skipped"}, Passed(p, n, o, ops)
  PROVE  ProcTypeOK'
  BY WorkflowAssumption DEF ProcTypeOK, Passed, Go, Queue, Nodes, Places

\* And one that only moves on, leaving new writes behind.
LEMMA MoveTyped ==
  ASSUME ProcTypeOK, NEW p \in Procs, NEW ops \in Seq(Ops),
         NEW place \in Places, Go(p, place), Queue(p, ops),
         UNCHANGED <<walkVars, pick, undo>>
  PROVE  ProcTypeOK'
  BY DEF ProcTypeOK, Go, Queue, walkVars

\* Making the first queued write leaves the others.
LEMMA WriteTyped ==
  ASSUME ProcTypeOK, NEW p \in Procs, todo[p] # <<>>, Queue(p, Tail(todo[p])),
         UNCHANGED <<pc, walkVars, pick, undo>>
  PROVE  ProcTypeOK' /\ Head(todo[p]) \in Ops
  BY DEF ProcTypeOK, Queue, walkVars

\* The facts about code paths that hold whatever the node.
LEMMA CodePathsAny ==
  /\ \A s \in RunStatus : Status(s) \in Seq(Ops)
  /\ \A e \in EventTypes : Emit(e) \in Seq(Ops) /\ Append1(e) \in Seq(Ops)
  /\ \A t, u \in Seq(Ops) : t \o u \in Seq(Ops)
  /\ <<>> \in Seq(Ops)
<1>1. ASSUME NEW s \in RunStatus
      PROVE  Status(s) \in Seq(Ops)
  BY DEF Status, Ops, StatusOps
<1>2. ASSUME NEW e \in EventTypes
      PROVE  Emit(e) \in Seq(Ops) /\ Append1(e) \in Seq(Ops)
  <2>1. [op |-> "emit", event |-> e] \in Ops
    BY DEF Ops, EmitOps
  <2> QED
    BY <2>1 DEF Emit, Append1
<1> QED
  BY <1>1, <1>2

\* A write that is made, or lost, keeps the types.
LEMMA TypeWrite ==
  ASSUME TypeOK, NEW p \in Procs,
         Write(p) \/ LoseWrite(p) \/ LoseEmit(p)
  PROVE  TypeOK'
<1> USE DEF TypeOK, vars, dbVars, runVars, gateVars, walkVars, histVars
<1>1. CASE DoStatus(p)
  <2>1. ProcTypeOK' /\ Head(todo[p]) \in Ops
    BY <1>1, WriteTyped DEF DoStatus
  <2>2. Head(todo[p]).to \in RunStatus
    BY <1>1, <2>1 DEF DoStatus, Ops, StatusOps, RecordOps, EmitOps
  <2> QED
    BY <1>1, <2>1, <2>2 DEF DoStatus, DbTypeOK, HistTypeOK, Transitioned
<1>2. CASE DoRecord(p)
  <2>1. ProcTypeOK' /\ Head(todo[p]) \in Ops
    BY <1>2, WriteTyped DEF DoRecord
  <2>2. Head(todo[p]) \in RecordOps
    BY <1>2, <2>1 DEF DoRecord, Ops, StatusOps, EmitOps
  <2> QED
    BY <1>2, <2>1, <2>2 DEF DoRecord, DbTypeOK, HistTypeOK, RecordOps
<1>3. CASE DoEmit(p)
  <2>1. ProcTypeOK' /\ Head(todo[p]) \in Ops
    BY <1>3, WriteTyped DEF DoEmit
  <2>2. Head(todo[p]).event \in EventTypes
    BY <1>3, <2>1 DEF DoEmit, Ops, StatusOps, RecordOps, EmitOps
  <2> QED
    BY <1>3, <2>1, <2>2 DEF DoEmit, DbTypeOK, HistTypeOK
<1>4. CASE LoseWrite(p)
  <2>1. ProcTypeOK'
    BY <1>4, WriteTyped DEF LoseWrite
  <2> QED
    BY <1>4, <2>1, WorkflowAssumption DEF LoseWrite, Fault, DbTypeOK, HistTypeOK
<1>5. CASE LoseEmit(p)
  <2>1. ProcTypeOK'
    <3>1. CASE Leave(p, <<>>)
      BY <3>1, LeaveTyped, CodePathsAny
    <3>2. CASE Queue(p, Tail(todo[p])) /\ UNCHANGED <<pc, walkVars, pick, undo>>
      BY <3>2, <1>5, WriteTyped DEF LoseEmit
    <3> QED
      BY <1>5, <3>1, <3>2 DEF LoseEmit
  <2> QED
    BY <1>5, <2>1, WorkflowAssumption DEF LoseEmit, Fault, DbTypeOK, HistTypeOK
<1> QED
  BY <1>1, <1>2, <1>3, <1>4, <1>5 DEF Write

\* Signing a level of a chain keeps the type of the signatures.
LEMMA SignTyped ==
  ASSUME NEW S \in [Nodes -> SUBSET Nat], NEW m, NEW l \in Nat
  PROVE  [S EXCEPT ![m] = @ \cup {l}] \in [Nodes -> SUBSET Nat]
<1>1. ASSUME NEW n \in Nodes
      PROVE  S[n] \cup {l} \in SUBSET Nat
  OBVIOUS
<1> QED
  BY <1>1

\* A request, and each step of its handler before a walk, keeps the types.
LEMMA TypeHandle ==
  ASSUME TypeOK, NEW p \in Procs, Request(p) \/ Handle(p) \/ Load(p) \/ LoadFails(p)
  PROVE  TypeOK'
<1> USE DEF TypeOK, vars, dbVars, runVars, gateVars, walkVars, histVars
<1>0. /\ \A s \in RunStatus : Status(s) \in Seq(Ops)
      /\ \A e \in EventTypes : Emit(e) \in Seq(Ops)
      /\ \A t, u \in Seq(Ops) : t \o u \in Seq(Ops)
      /\ <<>> \in Seq(Ops)
  BY CodePathsAny
<1>1. CASE StartRun(p)
  <2>1. Emit("workflow_created") \in Seq(Ops)
    BY <1>0 DEF EventTypes
  <2> QED
    BY <1>1, <1>0, <2>1
       DEF StartRun, Go, Queue, DbTypeOK, ProcTypeOK, HistTypeOK, RunStatus, Places
<1>2. CASE \E n \in Nodes, d \in {"approve", "reject"} : PickApproval(p, n, d)
  <2>1. PICK n \in Nodes, d \in {"approve", "reject"} : PickApproval(p, n, d)
    BY <1>2
  <2>2. [node |-> n, decision |-> d, level |-> level[n]] \in Picks
    BY WorkflowAssumption DEF Picks, Nodes, DbTypeOK
  <2> QED
    BY <2>1, <2>2 DEF PickApproval, Go, DbTypeOK, ProcTypeOK, HistTypeOK, Places
<1>3. CASE Advance(p)
  <2>1. ProcTypeOK'
    BY <1>3, <1>0, LeaveTyped DEF Advance
  <2>2. pick[p].level \in Nat /\ pick[p].level + 1 \in Nat
    <3>1. pick[p] \in Picks
      BY DEF ProcTypeOK
    <3> QED
      BY <3>1 DEF Picks
  <2>3. level' = [level EXCEPT ![pick[p].node] = pick[p].level + 1]
    BY <1>3 DEF Advance
  <2>4. level' \in [Nodes -> Nat]
    BY <2>2, <2>3 DEF DbTypeOK
  <2>5. signed' \in [Nodes -> SUBSET Nat]
    BY <1>3, <2>2, SignTyped DEF Advance, HistTypeOK
  <2> QED
    BY <1>3, <2>1, <2>4, <2>5 DEF Advance, DbTypeOK, HistTypeOK
<1>4. CASE Approve(p)
  <2>1. pick[p] \in Picks
    BY DEF ProcTypeOK
  <2> QED
    BY <1>4, <2>1 DEF Approve, Go, DbTypeOK, ProcTypeOK, HistTypeOK, Picks, Places,
                      Approvals, Consents
<1>5. CASE Reject(p)
  BY <1>5 DEF Reject, Go, DbTypeOK, ProcTypeOK, HistTypeOK, Places, Approvals
<1>6. CASE Refuse(p)
  <2>1. ProcTypeOK'
    BY <1>6, <1>0, LeaveTyped DEF Refuse
  <2> QED
    BY <1>6, <2>1, WorkflowAssumption DEF Refuse, DbTypeOK, HistTypeOK, RunStatus
<1>7. CASE CheckResume(p)
  <2>1. ProcTypeOK'
    BY <1>7, <1>0, LeaveTyped DEF CheckResume, Go, ProcTypeOK, Places
  <2> QED
    BY <1>7, <2>1 DEF CheckResume, DbTypeOK, HistTypeOK
<1>8. CASE StopRead(p)
  BY <1>8 DEF StopRead, Go, DbTypeOK, ProcTypeOK, HistTypeOK, Places
<1>9. CASE StopAnchor(p)
  BY <1>9, WorkflowAssumption
     DEF StopAnchor, Go, DbTypeOK, ProcTypeOK, HistTypeOK, Places
<1>10. CASE StopWrite(p)
  <2>1. ProcTypeOK'
    BY <1>10, <1>0, LeaveTyped DEF StopWrite, Go, ProcTypeOK, Places
  <2> QED
    BY <1>10, <2>1, WorkflowAssumption
       DEF StopWrite, DbTypeOK, HistTypeOK, Approvals, RunStatus
<1>11. CASE ReplayRead(p)
  BY <1>11 DEF ReplayRead, Go, DbTypeOK, ProcTypeOK, HistTypeOK, Places
<1>12. CASE ReplayWrite(p)
  BY <1>12 DEF ReplayWrite, Go, DbTypeOK, ProcTypeOK, HistTypeOK, Places, RunStatus
<1>13. CASE Enter(p)
  <2>1. \A e \in {"workflow_resumed", "workflow_started"} :
          Status("running") \o Emit(e) \in Seq(Ops)
    BY <1>0 DEF RunStatus, EventTypes
  <2> QED
    BY <1>13, <2>1 DEF Enter, Go, Queue, DbTypeOK, ProcTypeOK, HistTypeOK, Places
<1>14. CASE LoadWorkflow(p)
  BY <1>14 DEF LoadWorkflow, Go, DbTypeOK, ProcTypeOK, HistTypeOK, Places
<1>15. CASE LoadOutputs(p)
  BY <1>15 DEF LoadOutputs, Go, DbTypeOK, ProcTypeOK, HistTypeOK, Places, Outputs
<1>16. CASE LoadApprovals(p)
  BY <1>16 DEF LoadApprovals, Go, DbTypeOK, ProcTypeOK, HistTypeOK, Places, Approvals
<1>17. CASE LoadFails(p)
  <2>1. Status("failed") \o Emit("workflow_failed") \in Seq(Ops)
    BY <1>0 DEF RunStatus, EventTypes
  <2>2. ProcTypeOK'
    BY <1>17, <2>1, LeaveTyped DEF LoadFails
  <2> QED
    BY <1>17, <2>2, WorkflowAssumption DEF LoadFails, Fault, DbTypeOK, HistTypeOK
<1> QED
  BY <1>1, <1>2, <1>3, <1>4, <1>5, <1>6, <1>7, <1>8, <1>9, <1>10, <1>11, <1>12, <1>13, <1>14, <1>15, <1>16, <1>17
     DEF Request, Handle, Load

\* So does a node that is completed.
LEMMA CompletedTyped ==
  ASSUME ProcTypeOK, NEW p \in Procs, NEW n \in Nodes, NEW o \in Outputs,
         Completed(p, n, o)
  PROVE  ProcTypeOK'
<1>1. Record(n, "completed", o, "own") \in Seq(Ops)
  BY CodePaths DEF NodeStatus, Classes
<1>2. Emit("node_completed") \in Seq(Ops)
  BY CodePathsAny DEF EventTypes
<1>3. Record(n, "completed", o, "own") \o Emit("node_completed") \in Seq(Ops)
  BY <1>1, <1>2, CodePathsAny
<1> QED
  BY <1>3, PassedTyped DEF Completed

\* A visit of the walk to its next node keeps the types.
LEMMA TypeVisit ==
  ASSUME TypeOK, NEW p \in Procs, NEW n \in Nodes,
         Visit(p, n) \/ NoExecutor(p, n) \/ OversightFailsOpen(p, n)
  PROVE  TypeOK'
<1> USE DEF TypeOK, vars, dbVars, runVars, gateVars, walkVars, histVars
<1>0. /\ \A e \in EventTypes : Emit(e) \in Seq(Ops)
      /\ \A s \in RunStatus : Status(s) \in Seq(Ops)
      /\ \A t, u \in Seq(Ops) : t \o u \in Seq(Ops)
      /\ \A o \in Outputs, s \in NodeStatus, c \in Classes :
           Record(n, s, o, c) \in Seq(Ops)
  BY CodePaths, CodePathsAny
<1>1. CASE PassPrior(p, n)
  <2>1. Emit("node_skipped") \in Seq(Ops)
    BY <1>0 DEF EventTypes
  <2>2. seen[p][n] \in Outputs \cup {"skipped"}
    BY DEF ProcTypeOK
  <2>3. ProcTypeOK'
    BY <1>1, <2>1, <2>2, PassedTyped DEF PassPrior
  <2> QED
    BY <1>1, <2>3 DEF PassPrior, DbTypeOK, HistTypeOK
<1>2. CASE SkipDead(p, n)
  <2>1. Record(n, "skipped", "none", "skipped") \o Emit("node_skipped") \in Seq(Ops)
    BY <1>0 DEF EventTypes, NodeStatus, Outputs, Classes
  <2>2. ProcTypeOK'
    BY <1>2, <2>1, PassedTyped DEF SkipDead
  <2>3. consent[n] \cup {"dead"} \in SUBSET Consents
    BY DEF HistTypeOK, Consents
  <2> QED
    BY <1>2, <2>2, <2>3 DEF SkipDead, DbTypeOK, HistTypeOK
<1>3. CASE PassApproved(p, n)
  <2>1. Record(n, "completed", "done", "own") \o Emit("approval_resolved")
          \o Emit("node_completed") \in Seq(Ops)
    BY <1>0 DEF EventTypes, NodeStatus, Outputs, Classes
  <2>2. ProcTypeOK'
    BY <1>3, <2>1, PassedTyped DEF PassApproved, Outputs
  <2> QED
    BY <1>3, <2>2 DEF PassApproved, DbTypeOK, HistTypeOK
<1>4. CASE FailRejected(p, n)
  <2>1. Emit("approval_resolved") \o Status("failed")
          \o Emit("workflow_failed") \in Seq(Ops)
    BY <1>0 DEF EventTypes, RunStatus
  <2>2. ProcTypeOK'
    BY <1>4, <2>1, LeaveTyped DEF FailRejected
  <2> QED
    BY <1>4, <2>2 DEF FailRejected, DbTypeOK, HistTypeOK
<1>5. CASE AskOversight(p, n)
  BY <1>5 DEF AskOversight, Go, DbTypeOK, ProcTypeOK, HistTypeOK, Places
<1>6. CASE Proceed(p, n)
  <2>1. Emit("node_started") \in Seq(Ops)
    BY <1>0 DEF EventTypes
  <2>2. ProcTypeOK'
    BY <1>6, <2>1, MoveTyped DEF Proceed, Places
  <2> QED
    BY <1>6, <2>2 DEF Proceed, DbTypeOK, HistTypeOK
<1>7. CASE NoExecutor(p, n)
  <2>1. Record(n, "failed", "none", "unknown") \o Status("failed")
          \o Emit("node_failed") \o Emit("workflow_failed") \in Seq(Ops)
    BY <1>0 DEF EventTypes, NodeStatus, Outputs, Classes, RunStatus
  <2>2. ProcTypeOK'
    BY <1>7, <2>1, LeaveTyped DEF NoExecutor
  <2> QED
    BY <1>7, <2>2, WorkflowAssumption DEF NoExecutor, Fault, DbTypeOK, HistTypeOK
<1>8. CASE OversightFailsOpen(p, n)
  <2>1. Emit("node_started") \in Seq(Ops)
    BY <1>0 DEF EventTypes
  <2>2. ProcTypeOK'
    BY <1>8, <2>1, MoveTyped DEF OversightFailsOpen, Places
  <2>3. consent[n] \cup {"open"} \in SUBSET Consents
    BY DEF HistTypeOK, Consents
  <2>4. consent' \in [Nodes -> SUBSET Consents]
    BY <1>8, <2>3 DEF OversightFailsOpen, HistTypeOK
  <2>5. faults' \in 0..MaxFaults
    BY <1>8, WorkflowAssumption DEF OversightFailsOpen, Fault, HistTypeOK
  <2> QED
    BY <1>8, <2>2, <2>4, <2>5 DEF OversightFailsOpen, DbTypeOK, HistTypeOK
<1>9. CASE PauseForOversight(p, n)
  <2>1. PauseOps(n, "none") \in Seq(Ops)
    BY CodePaths DEF Outputs
  <2>2. ProcTypeOK'
    BY <1>9, <2>1, LeaveTyped DEF PauseForOversight
  <2> QED
    BY <1>9, <2>2 DEF PauseForOversight, DbTypeOK, HistTypeOK, Approvals
<1> QED
  BY <1>1, <1>2, <1>3, <1>4, <1>5, <1>6, <1>7, <1>8, <1>9 DEF Visit

\* The execution of a node keeps the types.
LEMMA TypeExecute ==
  ASSUME TypeOK, NEW p \in Procs, NEW n \in Nodes,
         \/ Execute(p, n) \/ ExecFails(p, n) \/ ExecFailsLate(p, n)
         \/ DecisionUnnamed(p, n)
  PROVE  TypeOK'
<1> USE DEF TypeOK, vars, dbVars, runVars, gateVars, walkVars, histVars
<1>0. /\ \A o \in Outputs : PauseOps(n, o) \in Seq(Ops)
      /\ FailOps(n) \in Seq(Ops) /\ <<>> \in Seq(Ops)
  BY CodePaths, CodePathsAny DEF Outputs
<1>1. CASE GateLetsThrough(p, n)
  <2>1. ProcTypeOK'
    BY <1>1, CompletedTyped DEF GateLetsThrough, Outputs
  <2>2. consent[n] \cup {"auto"} \in SUBSET Consents
    BY DEF HistTypeOK, Consents
  <2> QED
    BY <1>1, <2>1, <2>2 DEF GateLetsThrough, DbTypeOK, HistTypeOK
<1>2. CASE GatePauses(p, n)
  <2>1. ProcTypeOK'
    BY <1>2, <1>0, LeaveTyped DEF GatePauses, Outputs
  <2> QED
    BY <1>2, <2>1 DEF GatePauses, DbTypeOK, HistTypeOK, Approvals
<1>3. CASE EffectFires(p, n)
  <2>1. ProcTypeOK'
    BY <1>3, CompletedTyped DEF EffectFires, Outputs
  <2> QED
    BY <1>3, <2>1 DEF EffectFires, Fire, DbTypeOK, HistTypeOK
<1>4. CASE DedupHit(p, n)
  <2>1. ProcTypeOK'
    BY <1>4, CompletedTyped DEF DedupHit, Outputs
  <2> QED
    BY <1>4, <2>1 DEF DedupHit, DbTypeOK, HistTypeOK
<1>5. CASE DedupMiss(p, n)
  BY <1>5 DEF DedupMiss, Go, DbTypeOK, ProcTypeOK, HistTypeOK, Places
<1>6. CASE DedupInsert(p, n)
  <2>1. ProcTypeOK'
    BY <1>6, CompletedTyped DEF DedupInsert, Outputs
  <2> QED
    BY <1>6, <2>1 DEF DedupInsert, Fire, DbTypeOK, HistTypeOK
<1>7. CASE PureCompletes(p, n)
  <2>1. ProcTypeOK'
    BY <1>7, CompletedTyped DEF PureCompletes, Outputs
  <2> QED
    BY <1>7, <2>1 DEF PureCompletes, DbTypeOK, HistTypeOK
<1>8. ASSUME NEW arm \in {"true", "false"}, DecisionTaken(p, n, arm)
      PROVE  TypeOK'
  <2>1. ProcTypeOK'
    BY <1>8, CompletedTyped DEF DecisionTaken, Outputs
  <2> QED
    BY <1>8, <2>1 DEF DecisionTaken, DbTypeOK, HistTypeOK
<1>9. CASE ExecFails(p, n)
  <2>1. ProcTypeOK'
    BY <1>9, <1>0, MoveTyped DEF ExecFails, Fails, Places
  <2> QED
    BY <1>9, <2>1, WorkflowAssumption
       DEF ExecFails, Fails, Fault, DbTypeOK, HistTypeOK
<1>10. CASE ExecFailsLate(p, n)
  <2>1. ProcTypeOK'
    BY <1>10, <1>0, MoveTyped DEF ExecFailsLate, Fails, Places
  <2> QED
    BY <1>10, <2>1, WorkflowAssumption
       DEF ExecFailsLate, Fails, Fire, Fault, DbTypeOK, HistTypeOK
<1>11. CASE DecisionUnnamed(p, n)
  <2>1. ProcTypeOK'
    BY <1>11, <1>0, LeaveTyped DEF DecisionUnnamed
  <2> QED
    BY <1>11, <2>1, WorkflowAssumption
       DEF DecisionUnnamed, Fault, DbTypeOK, HistTypeOK
<1> QED
  BY <1>1, <1>2, <1>3, <1>4, <1>5, <1>6, <1>7, <1>8, <1>9, <1>10, <1>11
     DEF Execute

\* So do the end of a walk, the saga, and interruptions.
LEMMA TypeLeave ==
  ASSUME TypeOK, NEW p \in Procs,
         \/ EndOfWalk(p) \/ Compensate(p)
         \/ \E n \in Nodes : UndoFails(p, n)
         \/ Interrupted(p) \/ Crash(p)
  PROVE  TypeOK'
<1> USE DEF TypeOK, vars, dbVars, runVars, gateVars, walkVars, histVars
<1>0. /\ \A e \in EventTypes : Emit(e) \in Seq(Ops) /\ Append1(e) \in Seq(Ops)
      /\ \A s \in RunStatus : Status(s) \in Seq(Ops)
      /\ \A t, u \in Seq(Ops) : t \o u \in Seq(Ops)
      /\ <<>> \in Seq(Ops)
  BY CodePathsAny
<1>2. CASE EndOfWalk(p)
  <2>1. Status("completed") \o Emit("workflow_completed") \in Seq(Ops)
    BY <1>0 DEF RunStatus, EventTypes
  <2>2. ProcTypeOK'
    BY <1>2, <2>1, LeaveTyped DEF EndOfWalk
  <2> QED
    BY <1>2, <2>2 DEF EndOfWalk, DbTypeOK, HistTypeOK
<1>3. CASE SagaLoad(p)
  <2>1. CASE Compensable = {}
    <3>1. ProcTypeOK'
      BY <1>3, <2>1, <1>0, LeaveTyped DEF SagaLoad
    <3> QED
      BY <1>3, <3>1 DEF SagaLoad, DbTypeOK, HistTypeOK
  <2>2. CASE Compensable # {}
    <3>1. Append1("compensation_started") \in Seq(Ops)
      BY <1>0 DEF EventTypes
    <3>2. Compensable \in SUBSET Nodes
      BY WorkflowAssumption DEF Compensable
    <3>3. ProcTypeOK'
      <4>1. undo' = [undo EXCEPT ![p] = Compensable]
        BY <1>3, <2>2 DEF SagaLoad
      <4>2. undo' \in [Procs -> SUBSET Nodes]
        BY <4>1, <3>2 DEF ProcTypeOK
      <4>3. pc' \in [Procs -> Places] /\ todo' \in [Procs -> Seq(Ops)]
        BY <1>3, <2>2, <3>1 DEF SagaLoad, Go, Queue, ProcTypeOK, Places
      <4>4. UNCHANGED <<walkVars, pick>>
        BY <1>3, <2>2 DEF SagaLoad
      <4> QED
        BY <4>2, <4>3, <4>4 DEF ProcTypeOK
    <3> QED
      BY <1>3, <3>3 DEF SagaLoad, DbTypeOK, HistTypeOK
  <2> QED
    BY <2>1, <2>2
<1>4. CASE SagaEnds(p)
  <2>1. Emit("compensation_completed") \in Seq(Ops)
    BY <1>0 DEF EventTypes
  <2>2. ProcTypeOK'
    BY <1>4, <2>1, LeaveTyped DEF SagaEnds
  <2> QED
    BY <1>4, <2>2 DEF SagaEnds, DbTypeOK, HistTypeOK
<1>5. ASSUME NEW n \in Nodes, Undo(p, n)
      PROVE  TypeOK'
  <2>1. undo[p] \ {n} \in SUBSET Nodes
    BY DEF ProcTypeOK
  <2>2. ProcTypeOK'
    BY <1>5, <2>1 DEF Undo, ProcTypeOK
  <2> QED
    BY <1>5, <2>2 DEF Undo, DbTypeOK, HistTypeOK
<1>6. ASSUME NEW n \in Nodes, UndoFails(p, n)
      PROVE  TypeOK'
  <2>1. undo[p] \ {n} \in SUBSET Nodes
    BY DEF ProcTypeOK
  <2>2. ProcTypeOK'
    BY <1>6, <2>1 DEF UndoFails, ProcTypeOK
  <2> QED
    BY <1>6, <2>2, WorkflowAssumption DEF UndoFails, Fault, DbTypeOK, HistTypeOK
<1>7. CASE Interrupted(p)
  <2>1. Status("failed") \in Seq(Ops)
    BY <1>0 DEF RunStatus
  <2>2. ProcTypeOK'
    BY <1>7, <1>0, <2>1, LeaveTyped DEF Interrupted
  <2> QED
    BY <1>7, <2>2, WorkflowAssumption DEF Interrupted, Fault, DbTypeOK, HistTypeOK
<1>8. CASE Crash(p)
  <2>1. ProcTypeOK'
    BY <1>8, <1>0, LeaveTyped DEF Crash
  <2> QED
    BY <1>8, <2>1, WorkflowAssumption DEF Crash, Fault, DbTypeOK, HistTypeOK
<1> QED
  BY <1>2, <1>3, <1>4, <1>5, <1>6, <1>7, <1>8 DEF Compensate

\* Every step of the system keeps the types.
LEMMA TypeNext == TypeOK /\ [Next]_vars => TypeOK'
<1> SUFFICES ASSUME TypeOK, [Next]_vars
             PROVE  TypeOK'
  OBVIOUS
<1>1. CASE UNCHANGED vars
  BY <1>1 DEF TypeOK, DbTypeOK, ProcTypeOK, HistTypeOK, vars, dbVars, runVars,
              gateVars, procVars, walkVars, histVars
<1>2. ASSUME NEW p \in Procs, Request(p)
      PROVE  TypeOK'
  BY <1>2, TypeHandle
<1>3. ASSUME NEW p \in Procs, Step(p)
      PROVE  TypeOK'
  BY <1>3, TypeWrite, TypeHandle, TypeVisit, TypeExecute, TypeLeave DEF Step
<1>4. ASSUME NEW p \in Procs, Disturb(p)
      PROVE  TypeOK'
  BY <1>4, TypeWrite, TypeHandle, TypeVisit, TypeExecute, TypeLeave DEF Disturb
<1>5. ASSUME NEW n \in Nodes, Escalate(n)
      PROVE  TypeOK'
  BY <1>5, WorkflowAssumption
     DEF Escalate, Fault, TypeOK, DbTypeOK, ProcTypeOK, HistTypeOK, runVars,
         procVars, walkVars, histVars, Approvals
<1> QED
  BY <1>1, <1>2, <1>3, <1>4, <1>5 DEF Next

\* The state of every run stays well typed: the statuses in its rows are those
\* of the enumerations, its walkers stand on nodes, and whatever they are about
\* to write is a well-formed write.
THEOREM TypeCorrect == Spec => []TypeOK
<1>1. Init => TypeOK
  BY TypeInit
<1>2. TypeOK /\ [Next]_vars => TypeOK'
  BY TypeNext
<1> QED
  BY <1>1, <1>2, PTL DEF Spec

------------------------------------------------------------------------------
(* Consent. *)

\* Consent and signatures are never withdrawn.
Grows == \A n \in Nodes : consent[n] \subseteq consent'[n]
                            /\ signed[n] \subseteq signed'[n]

\* And only an approval adds a person's consent.
HumanKept == \A n \in Nodes : "human" \in consent'[n] => "human" \in consent[n]

\* What was safe to write stays safe as consent grows.
LEMMA SafeGrows ==
  ASSUME Grows
  PROVE  \A ops : ops \in Seq(SafeOps) => ops \in Seq(SafeOps')
<1>1. SafeOps \subseteq SafeOps'
  BY WorkflowAssumption DEF SafeOps, ConsentedGates, Grows
<1> QED
  BY <1>1

\* Sequences of safe writes can be cut and joined.
LEMMA SafeSeq ==
  /\ <<>> \in Seq(SafeOps)
  /\ \A t, u \in Seq(SafeOps) : t \o u \in Seq(SafeOps)
  /\ \A t \in Seq(SafeOps) : t # <<>> => /\ Tail(t) \in Seq(SafeOps)
                                         /\ Head(t) \in SafeOps
  OBVIOUS

\* Statuses and events are always safe to write; the record of a node is,
\* unless it completes a gate that nobody passed.
LEMMA SafePaths ==
  /\ \A s \in RunStatus : Status(s) \in Seq(SafeOps)
  /\ \A e \in EventTypes : Emit(e) \in Seq(SafeOps) /\ Append1(e) \in Seq(SafeOps)
  /\ \A n \in Nodes, s \in NodeStatus, o \in Outputs, c \in Classes :
       (s = "completed" /\ n \in Gates => n \in ConsentedGates)
       => Record(n, s, o, c) \in Seq(SafeOps)
<1>1. ASSUME NEW s \in RunStatus
      PROVE  Status(s) \in Seq(SafeOps)
  BY DEF Status, SafeOps, StatusOps
<1>2. ASSUME NEW e \in EventTypes
      PROVE  Emit(e) \in Seq(SafeOps) /\ Append1(e) \in Seq(SafeOps)
  <2>1. [op |-> "emit", event |-> e] \in SafeOps
    BY DEF SafeOps, EmitOps
  <2> QED
    BY <2>1 DEF Emit, Append1
<1>3. ASSUME NEW n \in Nodes, NEW s \in NodeStatus, NEW o \in Outputs,
             NEW c \in Classes,
             s = "completed" /\ n \in Gates => n \in ConsentedGates
      PROVE  Record(n, s, o, c) \in Seq(SafeOps)
  <2>1. [op |-> "record", node |-> n, to |-> s, out |-> o, class |-> c] \in SafeOps
    BY <1>3 DEF SafeOps, RecordOps
  <2> QED
    BY <2>1 DEF Record
<1> QED
  BY <1>1, <1>2, <1>3

\* The pause and the failure of a node are safe to write.
LEMMA SafePauses ==
  ASSUME NEW n \in Nodes, NEW o \in Outputs
  PROVE  PauseOps(n, o) \in Seq(SafeOps) /\ FailOps(n) \in Seq(SafeOps)
<1>1. /\ Record(n, "awaiting_approval", o, "own") \in Seq(SafeOps)
      /\ Record(n, "failed", "none", "own") \in Seq(SafeOps)
  BY SafePaths DEF NodeStatus, Classes, Outputs
<1>2. \A e \in {"node_paused", "workflow_paused", "node_failed",
                "workflow_failed"} : Emit(e) \in Seq(SafeOps)
  BY SafePaths DEF EventTypes
<1>3. \A s \in {"awaiting_approval", "failed"} : Status(s) \in Seq(SafeOps)
  BY SafePaths DEF RunStatus
<1> QED
  BY <1>1, <1>2, <1>3, SafeSeq DEF PauseOps, FailOps

\* The rows stay backed by consent while they do not change.
LEMMA DbKept ==
  ASSUME DbBacked, Grows, UNCHANGED <<row, approval, level>>
  PROVE  DbBacked'
  BY WorkflowAssumption
     DEF DbBacked, RowsBacked, ApprovalsBacked, LevelsBacked, Grows

\* What happened stays backed while no effect is fired and no person consents.
LEMMA HistoryKept ==
  ASSUME HistoryBacked, Grows, HumanKept, UNCHANGED fired
  PROVE  HistoryBacked'
  BY WorkflowAssumption
     DEF HistoryBacked, ConsentBeforeEffect, OversightBeforeEffect,
         EveryLevelSigned, Grows, HumanKept

\* A process that returns leaves nothing behind but its last writes.
LEMMA LeaveBacked ==
  ASSUME TypeOK, ProcsBacked, Grows, NEW p \in Procs, NEW ops \in Seq(SafeOps'),
         Leave(p, ops)
  PROVE  ProcsBacked'
<1> USE DEF TypeOK, ProcTypeOK, ProcsBacked, Leave, Go, Queue
<1>1. SeenBacked' /\ ResolvedBacked'
  BY WorkflowAssumption DEF SeenBacked, ResolvedBacked, Grows, Nothing
<1>2. TodoBacked'
  BY SafeGrows DEF TodoBacked
<1>3. WalkBacked'
  <2> SUFFICES ASSUME NEW q \in Procs, NEW g \in Gates, g < pos'[q]
               PROVE  consent'[g] # {}
    BY DEF WalkBacked
  <2>1. g \in 1..N
    BY WorkflowAssumption DEF Nodes
  <2>2. q # p
    BY <2>1
  <2> QED
    BY <2>1, <2>2 DEF WalkBacked, Grows, Nodes
<1>5. ExecuteBacked'
  BY WorkflowAssumption DEF ExecuteBacked, Grows
<1>4. PicksBacked'
  BY DEF PicksBacked, Grows
<1> QED
  BY <1>1, <1>2, <1>3, <1>4, <1>5

\* So does one that moves to a place with no obligation.
LEMMA MoveBacked ==
  ASSUME TypeOK, ProcsBacked, Grows, NEW p \in Procs, NEW ops \in Seq(SafeOps'),
         NEW place \in Places \ {"execute", "insert", "decide"},
         Go(p, place), Queue(p, ops), UNCHANGED <<pos, seen, resolved, pick>>
  PROVE  ProcsBacked'
<1> USE DEF TypeOK, ProcTypeOK, ProcsBacked, Go, Queue
<1>1. SeenBacked' /\ ResolvedBacked'
  BY WorkflowAssumption DEF SeenBacked, ResolvedBacked, Grows
<1>2. TodoBacked'
  BY SafeGrows DEF TodoBacked
<1>3. WalkBacked' /\ ExecuteBacked'
  BY WorkflowAssumption DEF WalkBacked, ExecuteBacked, Grows
<1>4. PicksBacked'
  BY DEF PicksBacked, Grows
<1> QED
  BY <1>1, <1>2, <1>3, <1>4

\* A walker passes a gate only if somebody did.
LEMMA PassedBacked ==
  ASSUME TypeOK, ProcsBacked, Grows, NEW p \in Procs, NEW n \in Nodes, NEW o,
         NEW ops \in Seq(SafeOps'), Passed(p, n, o, ops), pos[p] = n,
         n \in Gates => consent'[n] # {}
  PROVE  ProcsBacked'
<1> USE DEF TypeOK, ProcTypeOK, ProcsBacked, Passed, Go, Queue
<1>1. SeenBacked' /\ ResolvedBacked'
  BY WorkflowAssumption DEF SeenBacked, ResolvedBacked, Grows
<1>2. TodoBacked'
  BY SafeGrows DEF TodoBacked
<1>3. WalkBacked'
  <2> SUFFICES ASSUME NEW q \in Procs, NEW g \in Gates, g < pos'[q]
               PROVE  consent'[g] # {}
    BY DEF WalkBacked
  <2>1. g \in 1..N /\ n \in 1..N
    BY WorkflowAssumption DEF Nodes
  <2>2. q = p => pos'[q] = n + 1
    OBVIOUS
  <2>3. g < pos[q] \/ g = n
    BY <2>1, <2>2
  <2> QED
    BY <2>1, <2>3 DEF WalkBacked, Grows, Nodes
<1>4. ExecuteBacked' /\ PicksBacked'
  BY WorkflowAssumption DEF ExecuteBacked, PicksBacked, Grows
<1> QED
  BY <1>1, <1>2, <1>3, <1>4

\* A write made, or lost, leaves the others to be made.
LEMMA WriteBacked ==
  ASSUME TypeOK, ProcsBacked, NEW p \in Procs, todo[p] # <<>>,
         Queue(p, Tail(todo[p])),
         UNCHANGED <<pc, pos, seen, resolved, pick, consent, signed>>
  PROVE  ProcsBacked' /\ Head(todo[p]) \in SafeOps
<1>1. todo[p] \in Seq(SafeOps)
  BY DEF ProcsBacked, TodoBacked
<1>2. SafeOps' = SafeOps
  BY DEF SafeOps, ConsentedGates
<1>3. TodoBacked'
  BY <1>1, <1>2, SafeSeq DEF ProcsBacked, TodoBacked, Queue, TypeOK, ProcTypeOK
<1>4. /\ SeenBacked' /\ ResolvedBacked' /\ WalkBacked' /\ ExecuteBacked'
      /\ PicksBacked'
  BY DEF ProcsBacked, SeenBacked, ResolvedBacked, WalkBacked, ExecuteBacked,
         PicksBacked
<1> QED
  BY <1>1, <1>3, <1>4, SafeSeq DEF ProcsBacked

\* A write that is made, or lost, keeps consent backed.
LEMMA ConsentWrite ==
  ASSUME TypeOK, ConsentInv, NEW p \in Procs,
         Write(p) \/ LoseWrite(p) \/ LoseEmit(p)
  PROVE  ConsentInv'
<1> USE DEF ConsentInv, dbVars, runVars, gateVars, walkVars, histVars
<1>1. CASE DoStatus(p) \/ DoEmit(p) \/ LoseWrite(p)
  <2>1. ProcsBacked'
    BY <1>1, WriteBacked DEF DoStatus, DoEmit, LoseWrite
  <2>2. Grows /\ HumanKept /\ UNCHANGED <<row, approval, level, fired>>
    BY <1>1 DEF DoStatus, DoEmit, LoseWrite, Grows, HumanKept
  <2> QED
    BY <2>1, <2>2, DbKept, HistoryKept
<1>2. CASE DoRecord(p)
  <2>1. ProcsBacked' /\ Head(todo[p]) \in SafeOps
    BY <1>2, WriteBacked DEF DoRecord
  <2>2. Grows /\ HumanKept /\ UNCHANGED fired
    BY <1>2 DEF DoRecord, Grows, HumanKept
  <2>3. ApprovalsBacked' /\ LevelsBacked'
    BY <1>2 DEF DoRecord, DbBacked, ApprovalsBacked, LevelsBacked
  <2>4. RowsBacked'
    <3> DEFINE r == Head(todo[p])
    <3>0. r \in SafeOps /\ r.op = "record"
      BY <1>2, <2>1 DEF DoRecord
    <3>1. r \in RecordOps /\ (r.to = "completed" /\ r.node \in Gates
                                => r.node \in ConsentedGates)
      BY <3>0 DEF SafeOps, StatusOps, EmitOps, RecordOps
    <3>2. row' = [row EXCEPT ![r.node] = r.to] /\ UNCHANGED consent
      BY <1>2 DEF DoRecord
    <3> HIDE DEF r
    <3> QED
      BY <3>1, <3>2, WorkflowAssumption
         DEF DbBacked, RowsBacked, TypeOK, DbTypeOK, ConsentedGates
  <2> QED
    BY <2>1, <2>2, <2>3, <2>4, HistoryKept DEF DbBacked
<1>3. CASE LoseEmit(p)
  <2>1. Grows /\ HumanKept /\ UNCHANGED <<row, approval, level, fired>>
    BY <1>3 DEF LoseEmit, Grows, HumanKept
  <2>2. CASE Leave(p, <<>>)
    <3>1. ProcsBacked'
      BY <2>1, <2>2, SafeSeq, SafeGrows, LeaveBacked
    <3> QED
      BY <2>1, <3>1, DbKept, HistoryKept
  <2>3. CASE Queue(p, Tail(todo[p])) /\ UNCHANGED <<pc, walkVars, pick, undo>>
    <3>1. ProcsBacked'
      BY <1>3, <2>3, WriteBacked DEF LoseEmit
    <3> QED
      BY <2>1, <3>1, DbKept, HistoryKept
  <2> QED
    BY <1>3, <2>2, <2>3 DEF LoseEmit
<1> QED
  BY <1>1, <1>2, <1>3 DEF Write

\* Queued writes that stay where they are.
LEMMA StillBacked ==
  ASSUME TypeOK, ProcsBacked, Grows, NEW p \in Procs,
         NEW place \in Places \ {"execute", "insert", "decide"},
         Go(p, place), UNCHANGED <<todo, pos, seen, resolved, pick>>
  PROVE  ProcsBacked'
<1>1. todo[p] \in Seq(SafeOps')
  BY SafeGrows DEF ProcsBacked, TodoBacked
<1>2. Queue(p, todo[p])
  BY DEF Queue, TypeOK, ProcTypeOK
<1> QED
  BY <1>1, <1>2, MoveBacked

\* An approval consents to a node whose levels have all been signed.
LEMMA ConsentApproval ==
  ASSUME TypeOK, ConsentInv, NEW p \in Procs, Advance(p) \/ Approve(p)
  PROVE  ConsentInv'
<1> DEFINE n == pick[p].node
           l == pick[p].level
<1> USE DEF ConsentInv, dbVars, runVars, gateVars, walkVars, histVars
<1>0. /\ n \in Nodes /\ l \in Nat /\ 1..(l - 1) \subseteq signed[n]
      /\ Levels[n] \in Nat
  <2>1. pick[p] \in Picks /\ pc[p] = "decide"
    BY DEF TypeOK, ProcTypeOK, Advance, Approve, At
  <2>2. n \in Nodes /\ 1..(l - 1) \subseteq signed[n]
    BY <2>1 DEF ProcsBacked, PicksBacked
  <2>3. l \in Nat
    BY <2>1 DEF Picks
  <2> QED
    BY <2>2, <2>3, WorkflowAssumption
<1>1. /\ signed' = [signed EXCEPT ![n] = signed[n] \cup {l}]
      /\ signed \in [Nodes -> SUBSET Nat]
  BY DEF Advance, Approve, TypeOK, HistTypeOK
<1>2. 1..l \subseteq signed'[n]
  BY <1>0, <1>1
<1>3. \A m \in Nodes : signed[m] \subseteq signed'[m]
  BY <1>1
<1>4. CASE Advance(p)
  <2>1. Grows /\ HumanKept /\ UNCHANGED <<row, approval, fired>>
    BY <1>3, <1>4 DEF Advance, Grows, HumanKept
  <2>2. ProcsBacked'
    BY <1>4, <2>1, SafeSeq, SafeGrows, LeaveBacked DEF Advance
  <2>3. level' = [level EXCEPT ![n] = l + 1]
    BY <1>4 DEF Advance
  <2>4. LevelsBacked'
    <3> SUFFICES ASSUME NEW m \in Nodes
                 PROVE  1..(level'[m] - 1) \subseteq signed'[m]
      BY DEF LevelsBacked
    <3>1. CASE m = n
      <4>1. level'[m] - 1 = l
        BY <2>3, <3>1, <1>0 DEF TypeOK, DbTypeOK
      <4> QED
        BY <4>1, <3>1, <1>2
    <3>2. CASE m # n
      BY <2>3, <3>2, <1>3 DEF DbBacked, LevelsBacked, TypeOK, DbTypeOK
    <3> QED
      BY <3>1, <3>2
  <2>5. RowsBacked' /\ ApprovalsBacked'
    BY <1>4 DEF Advance, DbBacked, RowsBacked, ApprovalsBacked
  <2> QED
    BY <2>1, <2>2, <2>4, <2>5, HistoryKept DEF DbBacked
<1>5. CASE Approve(p)
  <2>1. /\ approval' = [approval EXCEPT ![n] = "approved"]
        /\ consent' = [consent EXCEPT ![n] = consent[n] \cup {"human"}]
        /\ l >= Levels[n] /\ UNCHANGED <<row, level, fired>>
    BY <1>5 DEF Approve
  <2>2. consent \in [Nodes -> SUBSET Consents] /\ approval \in [Nodes -> Approvals]
    BY DEF TypeOK, HistTypeOK, DbTypeOK
  <2>3. Grows /\ consent'[n] # {}
    BY <1>0, <1>3, <2>1, <2>2 DEF Grows
  <2>4. ProcsBacked'
    BY <1>5, <2>3, StillBacked DEF Approve, Places
  <2>5. DbBacked'
    BY <2>1, <2>2, <2>3, WorkflowAssumption
       DEF DbBacked, RowsBacked, ApprovalsBacked, LevelsBacked, Grows
  <2>6. ConsentBeforeEffect' /\ OversightBeforeEffect'
    BY <2>1, <2>3, WorkflowAssumption
       DEF HistoryBacked, ConsentBeforeEffect, OversightBeforeEffect, Grows
  <2>7. EveryLevelSigned'
    <3> SUFFICES ASSUME NEW m \in Nodes, "human" \in consent'[m]
                 PROVE  1..Levels[m] \subseteq signed'[m]
      BY DEF EveryLevelSigned
    <3>1. CASE m = n
      BY <3>1, <1>0, <1>2, <2>1
    <3>2. CASE m # n
      BY <3>2, <1>3, <2>1, <2>2 DEF HistoryBacked, EveryLevelSigned
    <3> QED
      BY <3>1, <3>2
  <2> QED
    BY <2>4, <2>5, <2>6, <2>7 DEF HistoryBacked
<1> QED
  BY <1>4, <1>5

\* A request, and its handling before a walk, keeps consent backed.
LEMMA ConsentHandle ==
  ASSUME TypeOK, ConsentInv, NEW p \in Procs,
         Request(p) \/ Handle(p) \/ Load(p) \/ LoadFails(p)
  PROVE  ConsentInv'
<1> USE DEF ConsentInv, dbVars, runVars, gateVars, walkVars, histVars
<1>0. /\ \A e \in EventTypes : Emit(e) \in Seq(SafeOps)
      /\ \A s \in RunStatus : Status(s) \in Seq(SafeOps)
      /\ \A t, u \in Seq(SafeOps) : t \o u \in Seq(SafeOps)
      /\ <<>> \in Seq(SafeOps)
  BY SafePaths, SafeSeq
<1>1. CASE StartRun(p)
  <2>1. Grows /\ HumanKept /\ UNCHANGED <<row, approval, level, fired>>
    BY <1>1 DEF StartRun, Grows, HumanKept
  <2>2. \A ops : ops \in {Emit("workflow_created"), <<>>} => ops \in Seq(SafeOps')
    BY <1>0, <2>1, SafeGrows DEF EventTypes
  <2>3. ProcsBacked'
    BY <1>1, <2>1, <2>2, MoveBacked DEF StartRun, Places
  <2> QED
    BY <2>1, <2>3, DbKept, HistoryKept
<1>2. ASSUME NEW n \in Nodes, NEW d \in {"approve", "reject"},
             PickApproval(p, n, d)
      PROVE  ConsentInv'
  <2>1. Grows /\ HumanKept /\ UNCHANGED <<row, approval, level, fired>>
    BY <1>2 DEF PickApproval, Grows, HumanKept
  <2>2. /\ pick' = [pick EXCEPT ![p] =
                      [node |-> n, decision |-> d, level |-> level[n]]]
        /\ pc' = [pc EXCEPT ![p] = "decide"]
        /\ UNCHANGED <<todo, pos, seen, resolved, signed, consent>>
    BY <1>2 DEF PickApproval, Go
  <2>3. PicksBacked'
    <3> SUFFICES ASSUME NEW q \in Procs, pc'[q] = "decide"
                 PROVE  /\ pick'[q].node \in Nodes
                        /\ 1..(pick'[q].level - 1) \subseteq signed'[pick'[q].node]
      BY DEF PicksBacked
    <3>1. CASE q = p
      BY <2>2, <3>1 DEF DbBacked, LevelsBacked, TypeOK, ProcTypeOK
    <3>2. CASE q # p
      BY <2>2, <3>2 DEF ProcsBacked, PicksBacked, TypeOK, ProcTypeOK
    <3> QED
      BY <3>1, <3>2
  <2>4. TodoBacked'
    BY <2>1, <2>2, SafeGrows DEF ProcsBacked, TodoBacked
  <2>5. SeenBacked' /\ ResolvedBacked' /\ WalkBacked' /\ ExecuteBacked'
    BY <2>2, WorkflowAssumption
       DEF ProcsBacked, SeenBacked, ResolvedBacked, WalkBacked, ExecuteBacked,
           TypeOK, ProcTypeOK
  <2> QED
    BY <2>1, <2>3, <2>4, <2>5, DbKept, HistoryKept DEF ProcsBacked
<1>3. CASE Advance(p) \/ Approve(p)
  BY <1>3, ConsentApproval
<1>4. CASE Reject(p)
  <2>1. Grows /\ HumanKept /\ UNCHANGED <<row, level, fired>>
    BY <1>4 DEF Reject, Grows, HumanKept
  <2>2. ProcsBacked'
    BY <1>4, <2>1, StillBacked DEF Reject, Places
  <2>3. DbBacked'
    BY <1>4 DEF Reject, DbBacked, RowsBacked, ApprovalsBacked, LevelsBacked,
                TypeOK, DbTypeOK
  <2> QED
    BY <2>1, <2>2, <2>3, HistoryKept
<1>5. CASE Refuse(p)
  <2>1. Grows /\ HumanKept /\ UNCHANGED <<row, approval, level, fired>>
    BY <1>5 DEF Refuse, Grows, HumanKept
  <2>2. ProcsBacked'
    BY <1>5, <1>0, <2>1, SafeGrows, LeaveBacked DEF Refuse
  <2> QED
    BY <2>1, <2>2, DbKept, HistoryKept
<1>6. CASE CheckResume(p)
  <2>1. Grows /\ HumanKept /\ UNCHANGED <<row, approval, level, fired>>
    BY <1>6 DEF CheckResume, Grows, HumanKept
  <2>2. CASE status = "awaiting_approval"
    <3>1. ProcsBacked'
      BY <1>6, <2>1, <2>2, StillBacked DEF CheckResume, Places
    <3> QED
      BY <2>1, <3>1, DbKept, HistoryKept
  <2>3. CASE status # "awaiting_approval"
    <3>1. ProcsBacked'
      BY <1>6, <1>0, <2>1, <2>3, SafeGrows, LeaveBacked DEF CheckResume
    <3> QED
      BY <2>1, <3>1, DbKept, HistoryKept
  <2> QED
    BY <2>2, <2>3
<1>7. CASE StopRead(p) \/ StopAnchor(p) \/ ReplayRead(p) \/ ReplayWrite(p)
           \/ LoadWorkflow(p)
  <2>1. Grows /\ HumanKept /\ UNCHANGED <<row, approval, level, fired>>
    BY <1>7 DEF StopRead, StopAnchor, ReplayRead, ReplayWrite, LoadWorkflow,
                Grows, HumanKept
  <2>2. ProcsBacked'
    BY <1>7, <2>1, StillBacked
       DEF StopRead, StopAnchor, ReplayRead, ReplayWrite, LoadWorkflow, Places
  <2> QED
    BY <2>1, <2>2, DbKept, HistoryKept
<1>8. CASE StopWrite(p)
  <2>1. Grows /\ HumanKept /\ UNCHANGED <<row, level, fired>>
    BY <1>8 DEF StopWrite, Grows, HumanKept
  <2>2. ProcsBacked'
    <3>1. CASE pc[p] = "stopundo"
      BY <1>8, <2>1, <3>1, StillBacked DEF StopWrite, Places
    <3>2. CASE pc[p] # "stopundo"
      BY <1>8, <1>0, <2>1, <3>2, SafeGrows, LeaveBacked DEF StopWrite
    <3> QED
      BY <3>1, <3>2
  <2>3. DbBacked'
    BY <1>8 DEF StopWrite, DbBacked, RowsBacked, ApprovalsBacked, LevelsBacked,
                TypeOK, DbTypeOK
  <2> QED
    BY <2>1, <2>2, <2>3, HistoryKept
<1>9. CASE Enter(p)
  <2>1. Grows /\ HumanKept /\ UNCHANGED <<row, approval, level, fired>>
    BY <1>9 DEF Enter, Grows, HumanKept
  <2>2. \A e \in {"workflow_resumed", "workflow_started"} :
          Status("running") \o Emit(e) \in Seq(SafeOps')
    BY <1>0, <2>1, SafeGrows DEF RunStatus, EventTypes
  <2>3. ProcsBacked'
    BY <1>9, <2>1, <2>2, MoveBacked DEF Enter, Places
  <2> QED
    BY <2>1, <2>3, DbKept, HistoryKept
<1>10. CASE LoadOutputs(p)
  <2>1. Grows /\ HumanKept /\ UNCHANGED <<row, approval, level, fired>>
    BY <1>10 DEF LoadOutputs, Grows, HumanKept
  <2>2. SeenBacked'
    BY <1>10, WorkflowAssumption
       DEF LoadOutputs, DbBacked, RowsBacked, ProcsBacked, SeenBacked, TypeOK,
           ProcTypeOK
  <2>3. TodoBacked'
    BY <1>10, <2>1, SafeGrows DEF LoadOutputs, ProcsBacked, TodoBacked
  <2>4. ResolvedBacked' /\ WalkBacked' /\ ExecuteBacked' /\ PicksBacked'
    BY <1>10, WorkflowAssumption
       DEF LoadOutputs, Go, ProcsBacked, ResolvedBacked, WalkBacked,
           ExecuteBacked, PicksBacked, TypeOK, ProcTypeOK
  <2> QED
    BY <2>1, <2>2, <2>3, <2>4, DbKept, HistoryKept DEF ProcsBacked
<1>11. CASE LoadApprovals(p)
  <2>1. Grows /\ HumanKept /\ UNCHANGED <<row, approval, level, fired>>
    BY <1>11 DEF LoadApprovals, Grows, HumanKept
  <2>2. ResolvedBacked'
    BY <1>11 DEF LoadApprovals, DbBacked, ApprovalsBacked, ProcsBacked,
                 ResolvedBacked, TypeOK, ProcTypeOK
  <2>3. TodoBacked'
    BY <1>11, <2>1, SafeGrows DEF LoadApprovals, ProcsBacked, TodoBacked
  <2>4. SeenBacked' /\ WalkBacked' /\ ExecuteBacked' /\ PicksBacked'
    BY <1>11, WorkflowAssumption
       DEF LoadApprovals, Go, ProcsBacked, SeenBacked, WalkBacked,
           ExecuteBacked, PicksBacked, TypeOK, ProcTypeOK
  <2> QED
    BY <2>1, <2>2, <2>3, <2>4, DbKept, HistoryKept DEF ProcsBacked
<1>12. CASE LoadFails(p)
  <2>1. Grows /\ HumanKept /\ UNCHANGED <<row, approval, level, fired>>
    BY <1>12 DEF LoadFails, Grows, HumanKept
  <2>2. Status("failed") \o Emit("workflow_failed") \in Seq(SafeOps')
    BY <1>0, <2>1, SafeGrows DEF RunStatus, EventTypes
  <2>3. ProcsBacked'
    BY <1>12, <2>1, <2>2, LeaveBacked DEF LoadFails
  <2> QED
    BY <2>1, <2>3, DbKept, HistoryKept
<1> QED
  BY <1>1, <1>2, <1>3, <1>4, <1>5, <1>6, <1>7, <1>8, <1>9, <1>10, <1>11, <1>12
     DEF Request, Handle, Load

\* A completed node is passed only with consent, if it is a gate.
LEMMA CompletedBacked ==
  ASSUME TypeOK, ProcsBacked, Grows, NEW p \in Procs, NEW n \in Nodes,
         NEW o \in Outputs, Completed(p, n, o), pos[p] = n,
         n \in Gates => consent'[n] # {}
  PROVE  ProcsBacked'
<1>1. Record(n, "completed", o, "own") \in Seq(SafeOps')
  <2>1. [op |-> "record", node |-> n, to |-> "completed", out |-> o,
         class |-> "own"] \in SafeOps'
    BY DEF SafeOps, RecordOps, ConsentedGates, NodeStatus, Classes
  <2> QED
    BY <2>1 DEF Record
<1>2. Emit("node_completed") \in Seq(SafeOps')
  BY SafePaths, SafeGrows DEF EventTypes
<1>3. Record(n, "completed", o, "own") \o Emit("node_completed")
        \in Seq(SafeOps')
  BY <1>1, <1>2
<1> QED
  BY <1>3, PassedBacked DEF Completed

\* A visit of the walk to its next node keeps consent backed.
LEMMA ConsentVisit ==
  ASSUME TypeOK, ConsentInv, NEW p \in Procs, NEW n \in Nodes,
         Visit(p, n) \/ NoExecutor(p, n) \/ OversightFailsOpen(p, n)
  PROVE  ConsentInv'
<1> USE DEF ConsentInv, Visits, dbVars, runVars, gateVars, walkVars, histVars
<1>0. /\ \A e \in EventTypes : Emit(e) \in Seq(SafeOps)
      /\ \A s \in RunStatus : Status(s) \in Seq(SafeOps)
      /\ \A t, u \in Seq(SafeOps) : t \o u \in Seq(SafeOps)
      /\ <<>> \in Seq(SafeOps)
  BY SafePaths, SafeSeq
<1>1. CASE PassPrior(p, n)
  <2>1. Grows /\ HumanKept /\ UNCHANGED <<row, approval, level, fired>>
    BY <1>1 DEF PassPrior, Grows, HumanKept
  <2>2. Emit("node_skipped") \in Seq(SafeOps')
    BY <1>0, <2>1, SafeGrows DEF EventTypes
  <2>3. n \in Gates => consent'[n] # {}
    BY <1>1 DEF PassPrior, ProcsBacked, SeenBacked
  <2>4. ProcsBacked'
    BY <1>1, <2>1, <2>2, <2>3, PassedBacked DEF PassPrior
  <2> QED
    BY <2>1, <2>4, DbKept, HistoryKept
<1>2. CASE SkipDead(p, n)
  <2>1. /\ consent' = [consent EXCEPT ![n] = IF n \in Gates
                                     THEN consent[n] \cup {"dead"} ELSE consent[n]]
        /\ consent \in [Nodes -> SUBSET Consents]
        /\ UNCHANGED <<signed, row, approval, level, fired>>
    BY <1>2 DEF SkipDead, TypeOK, HistTypeOK
  <2>2. Grows /\ HumanKept
    BY <2>1 DEF Grows, HumanKept
  <2>3. Record(n, "skipped", "none", "skipped") \o Emit("node_skipped")
          \in Seq(SafeOps)
    BY <1>0, SafePaths DEF EventTypes, NodeStatus, Outputs, Classes
  <2>4. Record(n, "skipped", "none", "skipped") \o Emit("node_skipped")
          \in Seq(SafeOps')
    BY <2>2, <2>3, SafeGrows
  <2>5. ProcsBacked'
    BY <1>2, <2>1, <2>2, <2>4, PassedBacked DEF SkipDead
  <2> QED
    BY <2>1, <2>2, <2>5, DbKept, HistoryKept
<1>3. CASE PassApproved(p, n)
  <2>1. Grows /\ HumanKept /\ UNCHANGED <<row, approval, level, fired, consent>>
    BY <1>3 DEF PassApproved, Grows, HumanKept
  <2>2. n \in Gates /\ consent[n] # {}
    BY <1>3 DEF PassApproved, ProcsBacked, ResolvedBacked
  <2>3. Record(n, "completed", "done", "own") \in Seq(SafeOps)
    BY <2>2, SafePaths DEF ConsentedGates, NodeStatus, Outputs, Classes
  <2>4. Record(n, "completed", "done", "own") \o Emit("approval_resolved")
          \o Emit("node_completed") \in Seq(SafeOps)
    BY <1>0, <2>3 DEF EventTypes
  <2>5. Record(n, "completed", "done", "own") \o Emit("approval_resolved")
          \o Emit("node_completed") \in Seq(SafeOps')
    BY <2>1, <2>4, SafeGrows
  <2>6. ProcsBacked'
    BY <1>3, <2>1, <2>2, <2>5, PassedBacked DEF PassApproved
  <2> QED
    BY <2>1, <2>6, DbKept, HistoryKept
<1>4. CASE FailRejected(p, n)
  <2>1. Grows /\ HumanKept /\ UNCHANGED <<row, approval, level, fired>>
    BY <1>4 DEF FailRejected, Grows, HumanKept
  <2>2. Emit("approval_resolved") \o Status("failed")
          \o Emit("workflow_failed") \in Seq(SafeOps')
    BY <1>0, <2>1, SafeGrows DEF EventTypes, RunStatus
  <2>3. ProcsBacked'
    BY <1>4, <2>1, <2>2, LeaveBacked DEF FailRejected
  <2> QED
    BY <2>1, <2>3, DbKept, HistoryKept
<1>5. CASE AskOversight(p, n)
  <2>1. Grows /\ HumanKept /\ UNCHANGED <<row, approval, level, fired>>
    BY <1>5 DEF AskOversight, Grows, HumanKept
  <2>2. ProcsBacked'
    BY <1>5, <2>1, StillBacked DEF AskOversight, Places
  <2> QED
    BY <2>1, <2>2, DbKept, HistoryKept
<1>6. CASE PauseForOversight(p, n)
  <2>1. Grows /\ HumanKept /\ UNCHANGED <<row, level, fired>>
    BY <1>6 DEF PauseForOversight, Grows, HumanKept
  <2>2. PauseOps(n, "none") \in Seq(SafeOps')
    BY <2>1, SafePauses, SafeGrows DEF Outputs
  <2>3. ProcsBacked'
    BY <1>6, <2>1, <2>2, LeaveBacked DEF PauseForOversight
  <2>4. DbBacked'
    BY <1>6 DEF PauseForOversight, DbBacked, RowsBacked, ApprovalsBacked,
                LevelsBacked, TypeOK, DbTypeOK
  <2> QED
    BY <2>1, <2>3, <2>4, HistoryKept
<1>7. CASE Proceed(p, n) \/ OversightFailsOpen(p, n)
  <2>1. Grows /\ HumanKept /\ UNCHANGED <<row, approval, level, fired>>
    BY <1>7 DEF Proceed, OversightFailsOpen, Grows, HumanKept, TypeOK, HistTypeOK
  <2>2. HighRisk /\ n \in Effects => consent'[n] # {}
    <3>1. CASE Proceed(p, n)
      BY <3>1 DEF Proceed, NeedsOversight, DbBacked, ApprovalsBacked
    <3>2. CASE OversightFailsOpen(p, n)
      BY <3>2 DEF OversightFailsOpen, TypeOK, HistTypeOK
    <3> QED
      BY <1>7, <3>1, <3>2
  <2>3. Emit("node_started") \in Seq(SafeOps')
    BY <1>0, <2>1, SafeGrows DEF EventTypes
  <2>4. /\ Go(p, "execute") /\ Queue(p, Emit("node_started"))
        /\ pos[p] = n /\ UNCHANGED <<pos, seen, resolved, pick>>
    BY <1>7 DEF Proceed, OversightFailsOpen
  <2>5. TodoBacked'
    BY <2>1, <2>3, <2>4, SafeGrows
       DEF Queue, ProcsBacked, TodoBacked, TypeOK, ProcTypeOK
  <2>6. ExecuteBacked'
    BY <2>1, <2>2, <2>4, WorkflowAssumption
       DEF Go, Grows, ProcsBacked, ExecuteBacked, TypeOK, ProcTypeOK
  <2>7. SeenBacked' /\ ResolvedBacked' /\ WalkBacked' /\ PicksBacked'
    BY <2>1, <2>4, WorkflowAssumption
       DEF Go, Grows, ProcsBacked, SeenBacked, ResolvedBacked, WalkBacked,
           PicksBacked, TypeOK, ProcTypeOK
  <2> QED
    BY <2>1, <2>5, <2>6, <2>7, DbKept, HistoryKept DEF ProcsBacked
<1>8. CASE NoExecutor(p, n)
  <2>1. Grows /\ HumanKept /\ UNCHANGED <<row, approval, level, fired>>
    BY <1>8 DEF NoExecutor, Grows, HumanKept
  <2>2. Record(n, "failed", "none", "unknown") \in Seq(SafeOps)
    BY SafePaths DEF NodeStatus, Outputs, Classes
  <2>3. Record(n, "failed", "none", "unknown") \o Status("failed")
          \o Emit("node_failed") \o Emit("workflow_failed") \in Seq(SafeOps)
    BY <1>0, <2>2 DEF EventTypes, RunStatus
  <2>4. Record(n, "failed", "none", "unknown") \o Status("failed")
          \o Emit("node_failed") \o Emit("workflow_failed") \in Seq(SafeOps')
    BY <2>1, <2>3, SafeGrows
  <2>5. ProcsBacked'
    BY <1>8, <2>1, <2>4, LeaveBacked DEF NoExecutor
  <2> QED
    BY <2>1, <2>5, DbKept, HistoryKept
<1> QED
  BY <1>1, <1>2, <1>3, <1>4, <1>5, <1>6, <1>7, <1>8 DEF Visit

\* An effect is fired behind the gates that the walk has passed, and, where
\* the workflow is of high risk, behind its own oversight.
LEMMA FireBacked ==
  ASSUME TypeOK, ConsentInv, NEW p \in Procs, NEW n \in Effects,
         pos[p] = n, pc[p] \in {"execute", "insert"}, Fire(n),
         UNCHANGED <<consent, signed>>
  PROVE  HistoryBacked'
<1> USE DEF ConsentInv, ProcsBacked
<1>1. /\ \A g \in Gates : g < n => consent[g] # {}
      /\ HighRisk => consent[n] # {}
  BY DEF WalkBacked, ExecuteBacked
<1>2. \A m \in Effects : m # n => fired'[m] = fired[m]
  BY WorkflowAssumption DEF Fire, TypeOK, HistTypeOK
<1> QED
  BY <1>1, <1>2, WorkflowAssumption
     DEF HistoryBacked, ConsentBeforeEffect, OversightBeforeEffect,
         EveryLevelSigned

\* The execution of a node keeps consent backed.
LEMMA ConsentExecute ==
  ASSUME TypeOK, ConsentInv, NEW p \in Procs, NEW n \in Nodes,
         \/ Execute(p, n) \/ ExecFails(p, n) \/ ExecFailsLate(p, n)
         \/ DecisionUnnamed(p, n)
  PROVE  ConsentInv'
<1> USE DEF ConsentInv, Executes, At, dbVars, runVars, gateVars, walkVars,
            histVars
<1>1. CASE GateLetsThrough(p, n)
  <2>1. /\ consent' = [consent EXCEPT ![n] = consent[n] \cup {"auto"}]
        /\ consent \in [Nodes -> SUBSET Consents]
        /\ UNCHANGED <<signed, row, approval, level, fired>>
    BY <1>1 DEF GateLetsThrough, TypeOK, HistTypeOK
  <2>2. Grows /\ HumanKept /\ consent'[n] # {}
    BY <2>1 DEF Grows, HumanKept
  <2>3. ProcsBacked'
    BY <1>1, <2>2, CompletedBacked DEF GateLetsThrough, Outputs
  <2> QED
    BY <2>1, <2>2, <2>3, DbKept, HistoryKept
<1>2. CASE GatePauses(p, n)
  <2>1. Grows /\ HumanKept /\ UNCHANGED <<row, fired>>
    BY <1>2 DEF GatePauses, Grows, HumanKept
  <2>2. PauseOps(n, "done") \in Seq(SafeOps')
    BY <2>1, SafePauses, SafeGrows DEF Outputs
  <2>3. ProcsBacked'
    BY <1>2, <2>1, <2>2, LeaveBacked DEF GatePauses
  <2>4. RowsBacked' /\ ApprovalsBacked'
    BY <1>2 DEF GatePauses, DbBacked, RowsBacked, ApprovalsBacked, TypeOK,
                DbTypeOK
  <2>5. LevelsBacked'
    <3> SUFFICES ASSUME NEW m \in Nodes
                 PROVE  1..(level'[m] - 1) \subseteq signed'[m]
      BY DEF LevelsBacked
    <3>1. level' = [level EXCEPT ![n] = 1] /\ UNCHANGED signed
      BY <1>2 DEF GatePauses
    <3>2. CASE m = n
      <4>1. level'[m] - 1 = 0
        BY <3>1, <3>2 DEF TypeOK, DbTypeOK
      <4> QED
        BY <4>1
    <3>3. CASE m # n
      BY <3>1, <3>3 DEF DbBacked, LevelsBacked, TypeOK, DbTypeOK
    <3> QED
      BY <3>2, <3>3
  <2> QED
    BY <2>1, <2>3, <2>4, <2>5, HistoryKept DEF DbBacked
<1>3. CASE EffectFires(p, n) \/ DedupInsert(p, n)
  <2>1. /\ n \in Effects /\ pos[p] = n /\ pc[p] \in {"execute", "insert"}
        /\ Fire(n) /\ Completed(p, n, "done")
        /\ UNCHANGED <<row, approval, level, consent, signed>>
    BY <1>3, WorkflowAssumption
       DEF EffectFires, DedupInsert, ProcsBacked, ExecuteBacked
  <2>2. Grows
    BY <2>1 DEF Grows
  <2>3. n \notin Gates
    BY <2>1, WorkflowAssumption
  <2>4. ProcsBacked'
    BY <2>1, <2>2, <2>3, CompletedBacked DEF Outputs
  <2> QED
    BY <2>1, <2>2, <2>4, DbKept, FireBacked
<1>4. CASE DedupHit(p, n) \/ PureCompletes(p, n)
           \/ \E arm \in {"true", "false"} : DecisionTaken(p, n, arm)
  <2>1. /\ n \notin Gates /\ pos[p] = n
        /\ \E o \in Outputs : Completed(p, n, o)
    BY <1>4, WorkflowAssumption
       DEF DedupHit, PureCompletes, DecisionTaken, Outputs
  <2>2. Grows /\ HumanKept /\ UNCHANGED <<row, approval, level, fired>>
    BY <1>4 DEF DedupHit, PureCompletes, DecisionTaken, Grows, HumanKept
  <2>3. ProcsBacked'
    BY <2>1, <2>2, CompletedBacked
  <2> QED
    BY <2>2, <2>3, DbKept, HistoryKept
<1>5. CASE DedupMiss(p, n)
  <2>1. Grows /\ HumanKept /\ UNCHANGED <<row, approval, level, fired>>
    BY <1>5 DEF DedupMiss, Grows, HumanKept
  <2>2. /\ Go(p, "insert") /\ pos[p] = n /\ n \in Dedup /\ pc[p] = "execute"
        /\ UNCHANGED <<todo, pos, seen, resolved, pick, consent, signed>>
    BY <1>5 DEF DedupMiss
  <2>3. TodoBacked'
    BY <2>1, <2>2, SafeGrows DEF ProcsBacked, TodoBacked
  <2>4. ExecuteBacked'
    BY <2>2 DEF Go, ProcsBacked, ExecuteBacked, TypeOK, ProcTypeOK
  <2>5. SeenBacked' /\ ResolvedBacked' /\ WalkBacked' /\ PicksBacked'
    BY <2>2 DEF Go, ProcsBacked, SeenBacked, ResolvedBacked, WalkBacked,
                PicksBacked, TypeOK, ProcTypeOK
  <2> QED
    BY <2>1, <2>3, <2>4, <2>5, DbKept, HistoryKept DEF ProcsBacked
<1>6. CASE ExecFails(p, n) \/ ExecFailsLate(p, n)
  <2>1. /\ Fails(p, n) /\ pos[p] = n /\ pc[p] = "execute"
        /\ UNCHANGED <<row, approval, level, consent, signed>>
    BY <1>6 DEF ExecFails, ExecFailsLate
  <2>2. Grows /\ HumanKept
    BY <2>1 DEF Grows, HumanKept
  <2>3. FailOps(n) \in Seq(SafeOps')
    BY <2>2, SafePauses, SafeGrows DEF Outputs
  <2>4. ProcsBacked'
    BY <2>1, <2>2, <2>3, MoveBacked DEF Fails, Places
  <2>5. HistoryBacked'
    <3>1. CASE ExecFails(p, n)
      BY <3>1, <2>2, HistoryKept DEF ExecFails
    <3>2. CASE ExecFailsLate(p, n)
      BY <3>2, <2>1, FireBacked DEF ExecFailsLate
    <3> QED
      BY <1>6, <3>1, <3>2
  <2> QED
    BY <2>1, <2>2, <2>4, <2>5, DbKept
<1>7. CASE DecisionUnnamed(p, n)
  <2>1. Grows /\ HumanKept /\ UNCHANGED <<row, approval, level, fired>>
    BY <1>7 DEF DecisionUnnamed, Grows, HumanKept
  <2>2. FailOps(n) \in Seq(SafeOps')
    BY <2>1, SafePauses, SafeGrows DEF Outputs
  <2>3. ProcsBacked'
    BY <1>7, <2>1, <2>2, LeaveBacked DEF DecisionUnnamed
  <2> QED
    BY <2>1, <2>3, DbKept, HistoryKept
<1> QED
  BY <1>1, <1>2, <1>3, <1>4, <1>5, <1>6, <1>7 DEF Execute

\* So do the end of a walk, the saga, and interruptions.
LEMMA ConsentLeave ==
  ASSUME TypeOK, ConsentInv, NEW p \in Procs,
         \/ EndOfWalk(p) \/ Compensate(p)
         \/ \E n \in Nodes : UndoFails(p, n)
         \/ Interrupted(p) \/ Crash(p)
  PROVE  ConsentInv'
<1> USE DEF ConsentInv, dbVars, runVars, gateVars, walkVars, histVars
<1>1. Grows /\ HumanKept /\ UNCHANGED <<row, approval, level, fired>>
  BY DEF EndOfWalk, Compensate, SagaLoad, SagaEnds, Undo, UndoFails, Interrupted,
         Crash, Grows, HumanKept
<1>2. \A ops : ops \in Seq(SafeOps) => ops \in Seq(SafeOps')
  BY <1>1, SafeGrows
<1>3. /\ Status("completed") \o Emit("workflow_completed") \in Seq(SafeOps')
      /\ Append1("compensation_started") \in Seq(SafeOps')
      /\ Emit("compensation_completed") \in Seq(SafeOps')
      /\ Status("failed") \in Seq(SafeOps') /\ <<>> \in Seq(SafeOps')
  BY <1>2, SafePaths, SafeSeq DEF EventTypes, RunStatus
<1>4. ProcsBacked'
  <2>1. CASE EndOfWalk(p)
    BY <2>1, <1>1, <1>3, LeaveBacked DEF EndOfWalk
  <2>2. CASE SagaLoad(p)
    <3>1. CASE Compensable = {}
      BY <2>2, <3>1, <1>1, <1>3, LeaveBacked DEF SagaLoad
    <3>2. CASE Compensable # {}
      BY <2>2, <3>2, <1>1, <1>3, MoveBacked DEF SagaLoad, Places
    <3> QED
      BY <3>1, <3>2
  <2>3. CASE SagaEnds(p)
    BY <2>3, <1>1, <1>3, LeaveBacked DEF SagaEnds
  <2>4. CASE \E n \in Nodes : Undo(p, n) \/ UndoFails(p, n)
    <3>1. UNCHANGED <<pc, todo, pos, seen, resolved, pick, consent, signed>>
      BY <2>4 DEF Undo, UndoFails
    <3>2. TodoBacked'
      BY <3>1, <1>2 DEF ProcsBacked, TodoBacked
    <3> QED
      BY <3>1, <3>2 DEF ProcsBacked, SeenBacked, ResolvedBacked, WalkBacked,
                        ExecuteBacked, PicksBacked
  <2>5. CASE Interrupted(p)
    BY <2>5, <1>1, <1>3, LeaveBacked DEF Interrupted
  <2>6. CASE Crash(p)
    BY <2>6, <1>1, <1>3, LeaveBacked DEF Crash
  <2> QED
    BY <2>1, <2>2, <2>3, <2>4, <2>5, <2>6 DEF Compensate
<1> QED
  BY <1>1, <1>4, DbKept, HistoryKept

\* Nobody has consented to anything before the run exists, and nothing has
\* happened.
LEMMA ConsentInit == Init => ConsentInv
<1> SUFFICES ASSUME Init
             PROVE  ConsentInv
  OBVIOUS
<1>1. DbBacked
  BY WorkflowAssumption
     DEF Init, DbBacked, RowsBacked, ApprovalsBacked, LevelsBacked, Nothing
<1>2. ProcsBacked
  BY WorkflowAssumption, SafeSeq
     DEF Init, ProcsBacked, SeenBacked, ResolvedBacked, TodoBacked, WalkBacked,
         ExecuteBacked, PicksBacked, Nothing, Nodes
<1>3. HistoryBacked
  BY WorkflowAssumption
     DEF Init, HistoryBacked, ConsentBeforeEffect, OversightBeforeEffect,
         EveryLevelSigned
<1> QED
  BY <1>1, <1>2, <1>3 DEF ConsentInv

\* Every step of the system keeps consent backed.
LEMMA ConsentNext == TypeOK /\ ConsentInv /\ [Next]_vars => ConsentInv'
<1> SUFFICES ASSUME TypeOK, ConsentInv, [Next]_vars
             PROVE  ConsentInv'
  OBVIOUS
<1>1. CASE UNCHANGED vars
  BY <1>1 DEF vars, dbVars, runVars, gateVars, procVars, walkVars, histVars,
              ConsentInv, DbBacked, ProcsBacked, HistoryBacked, RowsBacked,
              ApprovalsBacked, LevelsBacked, SeenBacked, ResolvedBacked,
              TodoBacked, WalkBacked, ExecuteBacked, PicksBacked, SafeOps,
              ConsentedGates, ConsentBeforeEffect, OversightBeforeEffect,
              EveryLevelSigned
<1>2. ASSUME NEW p \in Procs, Request(p)
      PROVE  ConsentInv'
  BY <1>2, ConsentHandle
<1>3. ASSUME NEW p \in Procs, Step(p)
      PROVE  ConsentInv'
  BY <1>3, ConsentWrite, ConsentHandle, ConsentVisit, ConsentExecute,
     ConsentLeave DEF Step
<1>4. ASSUME NEW p \in Procs, Disturb(p)
      PROVE  ConsentInv'
  BY <1>4, ConsentWrite, ConsentHandle, ConsentVisit, ConsentExecute,
     ConsentLeave DEF Disturb
<1>5. ASSUME NEW n \in Nodes, Escalate(n)
      PROVE  ConsentInv'
  <2> USE DEF ConsentInv, runVars, procVars, walkVars, histVars
  <2>1. Grows /\ HumanKept
    BY <1>5 DEF Escalate, Grows, HumanKept
  <2>2. DbBacked'
    BY <1>5 DEF Escalate, DbBacked, RowsBacked, ApprovalsBacked, LevelsBacked,
                TypeOK, DbTypeOK
  <2>3. TodoBacked'
    BY <1>5, <2>1, SafeGrows DEF Escalate, ProcsBacked, TodoBacked
  <2>4. ProcsBacked'
    BY <1>5, <2>3 DEF Escalate, ProcsBacked, SeenBacked, ResolvedBacked,
                      WalkBacked, ExecuteBacked, PicksBacked
  <2> QED
    BY <1>5, <2>1, <2>2, <2>4, HistoryKept DEF Escalate
<1> QED
  BY <1>1, <1>2, <1>3, <1>4, <1>5 DEF Next

\* In every run, whatever fails and whoever races whom, every gate that a walk
\* has left behind was approved by a person, let through by its threshold, or
\* on an arm not taken, and so were those ahead of every effect that was fired.
THEOREM ConsentCorrect == Spec => []ConsentInv
<1>1. Init => TypeOK /\ ConsentInv
  BY TypeInit, ConsentInit
<1>2. TypeOK /\ ConsentInv /\ [Next]_vars => (TypeOK /\ ConsentInv)'
  BY TypeNext, ConsentNext
<1> QED
  BY <1>1, <1>2, PTL DEF Spec

\* run() fires no effect ahead of a gate that its walk comes to first.
THEOREM ConsentFirst == Spec => []ConsentBeforeEffect
<1>1. ConsentInv => ConsentBeforeEffect
  BY DEF ConsentInv, HistoryBacked
<1> QED
  BY <1>1, ConsentCorrect, PTL

\* The oversight of a high-risk workflow precedes each of its effects, unless
\* the check failed open.
THEOREM OversightFirst == Spec => []OversightBeforeEffect
<1>1. ConsentInv => OversightBeforeEffect
  BY DEF ConsentInv, HistoryBacked
<1> QED
  BY <1>1, ConsentCorrect, PTL

\* approve_workflow_run takes no node for approved before every level of its
\* chain was, though it updates the row it has selected without a lock.
THEOREM ChainSigned == Spec => []EveryLevelSigned
<1>1. ConsentInv => EveryLevelSigned
  BY DEF ConsentInv, HistoryBacked
<1> QED
  BY <1>1, ConsentCorrect, PTL

------------------------------------------------------------------------------
(* Terminal runs. *)

\* No write of a walker, no rejection, no start and no interruption takes a run
\* out of a terminal status: only the raw UPDATE of a stop or of a replay does.
LEMMA TerminalStep ==
  ASSUME TypeOK, [Next]_vars, status' # status, status \in TerminalWorkflow
  PROVE  \E p \in Procs : Overrides(p)
<1> USE DEF dbVars, runVars, gateVars, walkVars, histVars, procVars
<1>1. ASSUME NEW p \in Procs, DoStatus(p)
      PROVE  FALSE
  <2>1. \A to : <<status, to>> \notin AllowedWorkflow
    BY DEF TerminalWorkflow, AllowedWorkflow
  <2> QED
    BY <1>1, <2>1 DEF DoStatus, Transitioned
<1>2. ASSUME NEW p \in Procs, StopWrite(p)
      PROVE  Overrides(p)
  <2>1. pc[p] = "stoponly" => pc'[p] = "done"
    BY <1>2 DEF StopWrite, Leave, Go, TypeOK, ProcTypeOK
  <2>2. pc[p] = "stopundo" => pc'[p] = "saga"
    BY <1>2 DEF StopWrite, Go, TypeOK, ProcTypeOK
  <2> QED
    BY <1>2, <2>1, <2>2 DEF StopWrite, At, Overrides
<1>3. ASSUME NEW p \in Procs, ReplayWrite(p)
      PROVE  Overrides(p)
  BY <1>3 DEF ReplayWrite, At, Go, Overrides, TypeOK, ProcTypeOK
<1>4. \A p \in Procs : ~StartRun(p) /\ ~Refuse(p)
  BY DEF StartRun, Refuse, TerminalWorkflow
<1>5. ASSUME NEW p \in Procs, Request(p) \/ Handle(p)
      PROVE  StopWrite(p) \/ ReplayWrite(p)
  BY <1>4, <1>5
     DEF Request, Handle, StopRead, ReplayRead, PickApproval, Advance, Approve,
         Reject, CheckResume, StopAnchor
<1>6. ASSUME NEW p \in Procs
      PROVE  /\ ~DoRecord(p) /\ ~DoEmit(p) /\ ~LoseWrite(p) /\ ~LoseEmit(p)
             /\ ~Load(p) /\ ~LoadFails(p) /\ ~EndOfWalk(p) /\ ~Compensate(p)
             /\ ~Interrupted(p) /\ ~Crash(p)
  BY DEF DoRecord, DoEmit, LoseWrite, LoseEmit, Load, Enter, LoadWorkflow,
         LoadOutputs, LoadApprovals, LoadFails, EndOfWalk, Compensate, SagaLoad,
         SagaEnds, Undo, Interrupted, Crash
<1>7. ASSUME NEW p \in Procs, NEW n \in Nodes
      PROVE  /\ ~Visit(p, n) /\ ~NoExecutor(p, n) /\ ~OversightFailsOpen(p, n)
             /\ ~UndoFails(p, n)
  BY DEF Visit, PassPrior, SkipDead, PassApproved, FailRejected, AskOversight,
         PauseForOversight, Proceed, NoExecutor, OversightFailsOpen, UndoFails
<1>8. ASSUME NEW p \in Procs, NEW n \in Nodes
      PROVE  /\ ~Execute(p, n) /\ ~ExecFails(p, n) /\ ~ExecFailsLate(p, n)
             /\ ~DecisionUnnamed(p, n)
  BY DEF Execute, GateLetsThrough, GatePauses, EffectFires, DedupHit, DedupMiss,
         DedupInsert, PureCompletes, DecisionTaken, ExecFails, ExecFailsLate,
         DecisionUnnamed
<1>9. status' = status \/ Next
  BY DEF vars
<1>10. \A n \in Nodes : ~Escalate(n)
  BY DEF Escalate
<1> QED
  BY <1>1, <1>2, <1>3, <1>5, <1>6, <1>7, <1>8, <1>9, <1>10
     DEF Next, Step, Disturb, Write

\* A run leaves a terminal status only by the UPDATE of a stop or a replay that
\* bypasses transition_workflow_status; every walker and release is stopped by
\* the transition graph, however late it writes.
THEOREM TerminalLeft == Spec => TerminalLeftByRequest
<1>1. TypeOK /\ [Next]_vars =>
        [status' # status /\ status \in TerminalWorkflow
           => \E p \in Procs : Overrides(p)]_vars
  BY TerminalStep
<1> QED
  BY <1>1, TypeCorrect, PTL DEF Spec, TerminalLeftByRequest

==============================================================================
