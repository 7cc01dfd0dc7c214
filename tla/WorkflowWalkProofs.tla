-------------------------- MODULE WorkflowWalkProofs --------------------------
(***************************************************************************)
(* Theorems about the walks of WorkflowRun, for every workflow, every set  *)
(* of requests and, unless a theorem says otherwise, every failure: what a *)
(* run keeps of its promises as long as no two walks of it overlap.        *)
(***************************************************************************)
EXTENDS WorkflowRunProofs

Walking == {"enter", "load", "outputs", "approvals", "walk", "ask", "execute",
            "insert"}

\* A process walks the run, or has still to write what it walked to.
Active(p) == pc[p] \in Walking \/ todo[p] \notin Seq(EmitOps)

\* No two walks overlap.
OneWalker == \A p, q \in Procs : Active(p) /\ Active(q) => p = q

\* The next write of p records a node.
Pending(p) == todo[p] # <<>> /\ Head(todo[p]).op = "record"
Entry(p)   == Head(todo[p])

QuietOps == StatusOps \cup EmitOps

------------------------------------------------------------------------------
(* Sequences of writes. *)

\* The writes t begin with r, and all that follow are in S.
Begins(t, r, S) == t # <<>> /\ Head(t) = r /\ Tail(t) \in Seq(S)

\* What is first is joined to what follows.
LEMMA BeginsOne ==
  ASSUME NEW S, NEW r, NEW t \in Seq(S)
  PROVE  Begins(<<r>> \o t, r, S)
<1>1. Tail(<<r>> \o t) = t
  <2>1. t \in Seq(S \cup {r}) /\ <<r>> \in Seq(S \cup {r})
    OBVIOUS
  <2>2. Len(<<r>> \o t) = 1 + Len(t)
    BY <2>1
  <2>3. Tail(<<r>> \o t) \in Seq(S \cup {r}) /\ Len(Tail(<<r>> \o t)) = Len(t)
    BY <2>1, <2>2
  <2>4. ASSUME NEW i \in 1..Len(t)
        PROVE  Tail(<<r>> \o t)[i] = t[i]
    BY <2>1, <2>2
  <2> QED
    BY <2>1, <2>3, <2>4
<1>2. <<r>> \o t # <<>> /\ Head(<<r>> \o t) = r
  <2>1. t \in Seq(S \cup {r}) /\ <<r>> \in Seq(S \cup {r})
    OBVIOUS
  <2> QED
    BY <2>1
<1> QED
  BY <1>1, <1>2 DEF Begins

\* And so is what comes after that.
LEMMA BeginsMore ==
  ASSUME NEW S, NEW T, NEW r, NEW t \in Seq(T), Begins(t, r, S), NEW u \in Seq(S)
  PROVE  Begins(t \o u, r, S)
<1>1. t \in Seq(T \cup S) /\ u \in Seq(T \cup S) /\ t # <<>>
  BY DEF Begins
<1>2. t \o u # <<>> /\ Head(t \o u) = Head(t)
  BY <1>1
<1>3. Tail(t \o u) = Tail(t) \o u
  <2>1. Len(t \o u) = Len(t) + Len(u) /\ Len(t) > 0
    BY <1>1
  <2>2. /\ Tail(t \o u) \in Seq(T \cup S)
        /\ Len(Tail(t \o u)) = Len(t) + Len(u) - 1
    BY <1>1, <1>2, <2>1
  <2>3. /\ Tail(t) \o u \in Seq(T \cup S)
        /\ Len(Tail(t) \o u) = Len(t) + Len(u) - 1
    BY <1>1, <2>1
  <2>4. ASSUME NEW i \in 1..(Len(t) + Len(u) - 1)
        PROVE  Tail(t \o u)[i] = (Tail(t) \o u)[i]
    BY <1>1, <1>2, <2>1
  <2> QED
    BY <2>2, <2>3, <2>4
<1>4. Tail(t) \o u \in Seq(S)
  BY DEF Begins
<1> QED
  BY <1>2, <1>3, <1>4 DEF Begins

\* A sequence is made of its first member and the others.
LEMMA SeqParts ==
  ASSUME NEW S, NEW t \in Seq(S), t # <<>>
  PROVE  Head(t) \in S /\ Tail(t) \in Seq(S)
OBVIOUS

LEMMA SeqWhole ==
  ASSUME NEW S, NEW T, NEW t \in Seq(T), t # <<>>, Head(t) \in S,
         Tail(t) \in Seq(S)
  PROVE  t \in Seq(S)
<1>1. ASSUME NEW i \in 1..Len(t)
      PROVE  t[i] \in S
  <2>1. CASE i = 1
    BY <2>1
  <2>2. CASE i # 1
    <3>1. i - 1 \in 1..Len(Tail(t)) /\ Tail(t)[i - 1] = t[i]
      BY <2>2
    <3> QED
      BY <3>1
  <2> QED
    BY <2>1, <2>2
<1> QED
  BY <1>1

LEMMA SeqMore ==
  ASSUME NEW S, NEW T, S \subseteq T, NEW t \in Seq(S)
  PROVE  t \in Seq(T)
OBVIOUS

\* What the code paths look like: those that record a node begin with its
\* record, and none but a completed walk and Enter writes other statuses than
\* the two a node leaves its run with.
LEMMA PathShapes ==
  /\ \A e \in EventTypes : /\ Emit(e) \in Seq(EmitOps)
                           /\ Append1(e) \in Seq(EmitOps)
  /\ \A s \in RunStatus : Status(s) \in Seq(StatusOps)
  /\ <<>> \in Seq(EmitOps)
<1>1. ASSUME NEW e \in EventTypes
      PROVE  Emit(e) \in Seq(EmitOps) /\ Append1(e) \in Seq(EmitOps)
  <2>1. [op |-> "emit", event |-> e] \in EmitOps
    BY DEF EmitOps
  <2> QED
    BY <2>1 DEF Emit, Append1
<1>2. ASSUME NEW s \in RunStatus
      PROVE  Status(s) \in Seq(StatusOps)
  BY DEF Status, StatusOps
<1> QED
  BY <1>1, <1>2

StatusOp(s) == [op |-> "status", to |-> s]
EntryOf(n, s, o, c) ==
  [op |-> "record", node |-> n, to |-> s, out |-> o, class |-> c]

\* A path that begins with a record, and goes on with events and, perhaps, the
\* status s.
LEMMA RecordFirst ==
  ASSUME NEW n \in Nodes, NEW t \in NodeStatus, NEW o \in Outputs,
         NEW c \in Classes, NEW s \in RunStatus, NEW d \in EventTypes,
         NEW e \in EventTypes
  PROVE  /\ Begins(Record(n, t, o, c) \o Emit(d), EntryOf(n, t, o, c), EmitOps)
         /\ Begins(Record(n, t, o, c) \o Emit(d) \o Emit(e),
                   EntryOf(n, t, o, c), EmitOps)
         /\ Begins(Record(n, t, o, c) \o Emit(d) \o Status(s) \o Emit(e),
                   EntryOf(n, t, o, c), EmitOps \cup {StatusOp(s)})
         /\ Begins(Record(n, t, o, c) \o Status(s) \o Emit(d) \o Emit(e),
                   EntryOf(n, t, o, c), EmitOps \cup {StatusOp(s)})
<1> DEFINE r == EntryOf(n, t, o, c)
           S == EmitOps \cup {StatusOp(s)}
           T == EmitOps \cup {StatusOp(s)} \cup {r}
<1>1. /\ Emit(d) \in Seq(EmitOps) /\ Emit(e) \in Seq(EmitOps)
      /\ Emit(d) \in Seq(S) /\ Emit(e) \in Seq(S)
      /\ Emit(d) \in Seq(T) /\ Emit(e) \in Seq(T)
  <2>1. Emit(d) \in Seq(EmitOps) /\ Emit(e) \in Seq(EmitOps)
    BY PathShapes
  <2>2. EmitOps \subseteq S /\ EmitOps \subseteq T
    OBVIOUS
  <2> HIDE DEF S, T
  <2> QED
    BY <2>1, <2>2, SeqMore
<1>2. Status(s) \in Seq(S) /\ Status(s) \in Seq(T)
  BY DEF Status, StatusOp
<1>3. Record(n, t, o, c) = <<r>> /\ <<r>> \in Seq(T) /\ <<r>> \o <<>> = <<r>>
  BY DEF Record, EntryOf
<1>4. Begins(<<r>>, r, EmitOps) /\ Begins(<<r>>, r, S)
  <2>1. <<r>> # <<>> /\ Head(<<r>>) = r /\ Tail(<<r>>) = <<>>
    OBVIOUS
  <2> QED
    BY <2>1 DEF Begins
<1> HIDE DEF r, S, T
<1>5. \A t1, t2 \in Seq(T) : t1 \o t2 \in Seq(T)
  OBVIOUS
<1>6. Begins(<<r>> \o Emit(d), r, EmitOps) /\ Begins(<<r>> \o Emit(d), r, S)
  BY <1>1, <1>3, <1>4, BeginsMore
<1>7. Begins(<<r>> \o Emit(d) \o Emit(e), r, EmitOps)
  BY <1>1, <1>3, <1>5, <1>6, BeginsMore
<1>8. Begins(<<r>> \o Emit(d) \o Status(s) \o Emit(e), r, S)
  <2>1. Begins(<<r>> \o Emit(d) \o Status(s), r, S)
    BY <1>1, <1>2, <1>3, <1>5, <1>6, BeginsMore
  <2> QED
    BY <2>1, <1>1, <1>2, <1>3, <1>5, BeginsMore
<1>9. Begins(<<r>> \o Status(s) \o Emit(d) \o Emit(e), r, S)
  <2>1. Begins(<<r>> \o Status(s), r, S)
    BY <1>2, <1>3, <1>4, BeginsMore
  <2>2. Begins(<<r>> \o Status(s) \o Emit(d), r, S)
    BY <2>1, <1>1, <1>2, <1>3, <1>5, BeginsMore
  <2> QED
    BY <2>2, <1>1, <1>2, <1>3, <1>5, BeginsMore
<1>10. /\ r = EntryOf(n, t, o, c)
       /\ S = EmitOps \cup {StatusOp(s)}
  BY DEF r, S
<1> QED
  BY <1>3, <1>6, <1>7, <1>8, <1>9, <1>10

\* At most one of the writes t tells the run a status.
TellsOnce(t) == \E k \in Nat : \A i \in 1..Len(t) : t[i].op = "status" => i = k

LEMMA TellsOnceMore ==
  ASSUME NEW t \in Seq(Ops), t # <<>>, TellsOnce(t)
  PROVE  /\ TellsOnce(Tail(t))
         /\ /\ Head(t).op = "status" /\ Tail(t) \in Seq(QuietOps)
            => Tail(t) \in Seq(EmitOps)
<1>1. PICK k \in Nat : \A i \in 1..Len(t) : t[i].op = "status" => i = k
  BY DEF TellsOnce
<1>2. /\ Len(t) \in Nat \ {0} /\ Len(Tail(t)) = Len(t) - 1
      /\ \A i \in 1..Len(Tail(t)) : Tail(t)[i] = t[i + 1] /\ i + 1 \in 1..Len(t)
      /\ Head(t) = t[1] /\ Tail(t) \in Seq(Ops)
  OBVIOUS
<1>3. \A i \in 1..Len(Tail(t)) : Tail(t)[i].op = "status" => i = k - 1
  BY <1>1, <1>2
<1>4. TellsOnce(Tail(t))
  <2>1. CASE k = 0
    <3>1. \A i \in 1..Len(Tail(t)) : Tail(t)[i].op = "status" => i = 0
      BY <1>2, <1>3, <2>1
    <3> QED
      BY <3>1 DEF TellsOnce
  <2>2. CASE k # 0
    BY <1>3, <2>2 DEF TellsOnce
  <2> QED
    BY <2>1, <2>2
<1>5. ASSUME Head(t).op = "status", Tail(t) \in Seq(QuietOps)
      PROVE  Tail(t) \in Seq(EmitOps)
  <2>1. k = 1
    BY <1>1, <1>2, <1>5
  <2>2. ASSUME NEW i \in 1..Len(Tail(t))
        PROVE  Tail(t)[i] \in EmitOps
    <3>1. Tail(t)[i].op # "status"
      BY <1>2, <1>3, <2>1
    <3>2. Tail(t)[i] \in QuietOps
      BY <1>5
    <3> QED
      BY <3>1, <3>2 DEF QuietOps, StatusOps
  <2> DEFINE u == Tail(t)
  <2>3. u \in Seq(Ops) /\ \A i \in 1..Len(u) : u[i] \in EmitOps
    BY <1>2, <2>2
  <2> HIDE DEF u
  <2>4. u \in Seq(EmitOps)
    BY <2>3
  <2> QED
    BY <2>4 DEF u
<1> QED
  BY <1>4, <1>5

\* A pause tells its run once that it waits.
LEMMA PauseOnce ==
  ASSUME NEW n \in Nodes, NEW o \in Outputs
  PROVE  TellsOnce(PauseOps(n, o))
<1> DEFINE S == RecordOps \cup EmitOps
           r == EntryOf(n, "awaiting_approval", o, "own")
           a == <<r>> \o Emit("node_paused")
           b == Emit("workflow_paused")
           u == StatusOp("awaiting_approval")
<1>1. Emit("node_paused") \in Seq(EmitOps) /\ b \in Seq(EmitOps)
  BY PathShapes DEF EventTypes
<1>2. r \in RecordOps
  BY DEF EntryOf, RecordOps, NodeStatus, Classes
<1>3. a \in Seq(S) /\ b \in Seq(S)
  <2>1. EmitOps \subseteq S /\ r \in S
    BY <1>2
  <2> HIDE DEF S, r
  <2>2. Emit("node_paused") \in Seq(S) /\ b \in Seq(S)
    BY <1>1, <2>1, SeqMore
  <2> QED
    BY <2>1, <2>2
<1>4. \A x \in S : x.op # "status"
  BY DEF RecordOps, EmitOps
<1>5. PauseOps(n, o) = a \o <<u>> \o b
  BY DEF PauseOps, Record, EntryOf, Status, StatusOp
<1> HIDE DEF S, r, a, b, u
<1>6. ASSUME NEW i \in 1..Len(a \o <<u>> \o b), (a \o <<u>> \o b)[i].op = "status"
      PROVE  i = Len(a) + 1
  <2>1. a \in Seq(S \cup {u}) /\ b \in Seq(S \cup {u}) /\ <<u>> \in Seq(S \cup {u})
    BY <1>3
  <2>2. Len(a \o <<u>> \o b) = Len(a) + 1 + Len(b)
    BY <2>1
  <2>3. CASE i <= Len(a)
    <3>1. (a \o <<u>> \o b)[i] = a[i]
      BY <2>1, <2>3
    <3> QED
      BY <1>3, <1>4, <1>6, <2>3, <3>1
  <2>4. CASE i > Len(a) + 1
    <3>1. /\ (a \o <<u>> \o b)[i] = b[i - Len(a) - 1]
          /\ i - Len(a) - 1 \in 1..Len(b)
      BY <2>1, <2>2, <2>4
    <3> QED
      BY <1>3, <1>4, <1>6, <3>1
  <2> QED
    BY <1>3, <2>2, <2>3, <2>4
<1>7. Len(a) + 1 \in Nat
  BY <1>3
<1> QED
  BY <1>5, <1>6, <1>7 DEF TellsOnce

------------------------------------------------------------------------------
(* The steps of a walk, as the rows and the walkers see them. *)

\* Where a walker knows what was recorded before it.
Late == {"approvals", "walk", "ask", "execute", "insert"}

\* Where a process has not visited a node yet.
Fresh == {"idle", "decide", "check", "replaying", "enter", "load", "outputs",
          "approvals"}

rowVars == <<row, class, out>>

Others(p) ==
  \A q \in Procs \ {p} : /\ pc'[q] = pc[q] /\ todo'[q] = todo[q]
                         /\ pos'[q] = pos[q] /\ seen'[q] = seen[q]

Kept(p) == pc'[p] = pc[p] /\ pos'[p] = pos[p] /\ seen'[p] = seen[p]

\* A failure of a kind in K has happened.
Failure(K) == Faults \cap K # {} /\ faults' = faults + 1

\* A write is made or lost, but no node is recorded.
ShedStep(p) ==
  /\ todo[p] # <<>> /\ todo'[p] = Tail(todo[p])
  /\ Kept(p) /\ UNCHANGED <<rowVars, fired>>
  /\ Pending(p) => Failure({"write"})
  /\ Head(todo[p]).op = "status" => DoStatus(p) \/ Failure({"write"})

\* p returns, without having recorded a node at last.
LeaveStep(p) ==
  /\ pc'[p] = "done" /\ todo'[p] \in Seq(EmitOps \cup {StatusOp("failed")})
  /\ UNCHANGED <<rowVars, fired>>
  /\ Pending(p) => Failure({"interrupt", "crash"})

\* The walk is at its end.
EndStep(p) ==
  /\ pc[p] = "walk" /\ todo[p] = <<>> /\ pos[p] = N + 1
  /\ pc'[p] = "done" /\ todo'[p] \in Seq(EmitOps \cup {StatusOp("completed")})
  /\ UNCHANGED <<rowVars, fired>>

\* Where p may give the walk up.
AtNode(p, n) ==
  /\ todo[p] = <<>> /\ pos[p] = n
  /\ pc[p] \in {"ask", "execute"} \/ (pc[p] = "walk" /\ Open(p, n))

PauseStep(p, n) ==
  /\ AtNode(p, n) /\ pc'[p] = "done" /\ approval'[n] # "none"
  /\ \E o \in Outputs : Begins(todo'[p], EntryOf(n, "awaiting_approval", o, "own"),
                               EmitOps \cup {StatusOp("awaiting_approval")})
  /\ TellsOnce(todo'[p]) /\ UNCHANGED <<rowVars, fired>>

FailStep(p, n) ==
  /\ AtNode(p, n) /\ pc'[p] \in {"done", "saga"}
  /\ \E c \in Classes :
       /\ Begins(todo'[p], EntryOf(n, "failed", "none", c),
                 EmitOps \cup {StatusOp("failed")})
       /\ c = "own" \/ "missing" \in Faults
  /\ todo'[p] \notin Seq(Ops \ {StatusOp("failed")})
  /\ UNCHANGED rowVars
  /\ \/ UNCHANGED fired
     \/ Fire(n) /\ n \in Effects \ Dedup /\ Failure({"execlate"})

\* p goes on to the next node, with output o of this one.
PassStep(p, n, o) ==
  /\ todo[p] = <<>> /\ pos[p] = n
  /\ pc'[p] = "walk" /\ pos'[p] = n + 1 /\ seen'[p] = [seen[p] EXCEPT ![n] = o]
  /\ UNCHANGED rowVars

PriorStep(p, n) ==
  /\ PassStep(p, n, seen[p][n]) /\ UNCHANGED fired
  /\ pc[p] = "walk" /\ seen[p][n] # "none" /\ todo'[p] \in Seq(EmitOps)

SkipStep(p, n) ==
  /\ PassStep(p, n, "skipped") /\ UNCHANGED fired
  /\ pc[p] = "walk" /\ seen[p][n] = "none" /\ ~Reached(n, seen[p])
  /\ Begins(todo'[p], EntryOf(n, "skipped", "none", "skipped"), EmitOps)

CompleteStep(p, n, o) ==
  /\ PassStep(p, n, o)
  /\ pc[p] \in {"execute", "insert"} \/ (pc[p] = "walk" /\ Open(p, n))
  /\ Begins(todo'[p], EntryOf(n, "completed", o, "own"), EmitOps)
  /\ IF n \in Decisions THEN o \in {"true", "false"} ELSE o = "done"
  /\ \/ UNCHANGED fired /\ (n \in Effects => fired[n] > 0)
     \/ Fire(n) /\ n \in Effects /\ (n \in Dedup => pc[p] = "insert")

\* p comes closer to its node.
MoveStep(p) ==
  /\ todo[p] = <<>> /\ todo'[p] \in Seq(EmitOps)
  /\ pos'[p] = pos[p] /\ seen'[p] = seen[p]
  /\ \/ pc[p] = "approvals" /\ pc'[p] = "walk"
     \/ /\ pc[p] = "walk" /\ pc'[p] \in {"ask", "execute"}
        /\ pos[p] \in Nodes /\ Open(p, pos[p])
     \/ /\ pc[p] = "execute" /\ pc'[p] = "insert"
        /\ pos[p] \in Dedup /\ fired[pos[p]] = 0
  /\ UNCHANGED <<rowVars, fired>>

\* p learns what was recorded.
LoadStep(p) ==
  /\ pc[p] = "outputs" /\ pc'[p] = "approvals"
  /\ todo[p] = <<>> /\ todo'[p] = <<>> /\ pos'[p] = pos[p]
  /\ seen'[p] = [n \in Nodes |-> IF row[n] = "completed" THEN out[n] ELSE "none"]
  /\ UNCHANGED <<rowVars, fired>>

\* p walks not yet, or no more.
OutsideStep(p) ==
  /\ pc[p] \notin Late \cup {"outputs", "done"} /\ pc'[p] \notin Late \cup {"done"}
  /\ pc'[p] \in Fresh => pc[p] \in Fresh
  /\ pc'[p] = "enter" => status' # "none"
  /\ pc'[p] = "saga" => pc[p] = "stopundo" /\ status' = "cancelled"
  /\ pc'[p] = "undo" => pc[p] = "saga" /\ UNCHANGED status
  /\ pc'[p] = "replaying" => "replay" \in Requests[p]
  /\ todo[p] = <<>> /\ pos'[p] = pos[p] /\ seen'[p] = seen[p]
  /\ \/ todo'[p] \in Seq(EmitOps) /\ pc'[p] \notin {"load", "outputs"}
     \/ /\ todo'[p] \in Seq(EmitOps) /\ pc'[p] = "outputs"
        /\ pc[p] = "load" /\ UNCHANGED status
     \/ /\ Begins(todo'[p], StatusOp("running"), EmitOps) /\ pc'[p] = "load"
        /\ pc[p] = "enter" /\ UNCHANGED status
  /\ UNCHANGED <<rowVars, fired>>

StepOf(p) ==
  \/ DoRecord(p) \/ ShedStep(p) \/ LeaveStep(p) \/ EndStep(p) \/ MoveStep(p)
  \/ LoadStep(p) \/ OutsideStep(p)
  \/ \E n \in Nodes : \/ PauseStep(p, n) \/ FailStep(p, n) \/ PriorStep(p, n)
                      \/ SkipStep(p, n) \/ \E o \in Outputs : CompleteStep(p, n, o)

\* Nothing of this changes.
NoStep == UNCHANGED <<rowVars, fired, pc, todo, pos, seen>>

\* What Leave and Passed do to the processes.
LEMMA LeaveView ==
  ASSUME TypeOK, NEW p \in Procs, NEW ops, Leave(p, ops)
  PROVE  Others(p) /\ pc'[p] = "done" /\ todo'[p] = ops
  BY DEF Leave, Go, Queue, Others, TypeOK, ProcTypeOK

\* A process that has nothing left to write returns.
LEMMA LeaveEmpty ==
  ASSUME TypeOK, NEW p \in Procs, Leave(p, <<>>), ~Pending(p),
         UNCHANGED <<rowVars, fired>>
  PROVE  Others(p) /\ LeaveStep(p)
<1>1. <<>> \in Seq(EmitOps \cup {StatusOp("failed")})
  OBVIOUS
<1> QED
  BY <1>1, LeaveView DEF LeaveStep

LEMMA PassedView ==
  ASSUME TypeOK, NEW p \in Procs, NEW n \in Nodes, NEW o, NEW ops,
         Passed(p, n, o, ops)
  PROVE  /\ Others(p) /\ pc'[p] = "walk" /\ pos'[p] = n + 1
         /\ seen'[p] = [seen[p] EXCEPT ![n] = o] /\ todo'[p] = ops
  BY DEF Passed, Go, Queue, Others, TypeOK, ProcTypeOK

LEMMA GoView ==
  ASSUME TypeOK, NEW p \in Procs, NEW place, Go(p, place),
         UNCHANGED <<pos, seen>>
  PROVE  /\ pc'[p] = place /\ pos'[p] = pos[p] /\ seen'[p] = seen[p]
         /\ \A ops : Queue(p, ops) => Others(p) /\ todo'[p] = ops
         /\ UNCHANGED todo => Others(p) /\ todo'[p] = todo[p]
  BY DEF Go, Queue, Others, TypeOK, ProcTypeOK

\* Writes, made or lost.
LEMMA WriteView ==
  ASSUME TypeOK, NEW p \in Procs, Write(p) \/ LoseWrite(p) \/ LoseEmit(p)
  PROVE  Others(p) /\ StepOf(p)
<1> USE DEF dbVars, runVars, gateVars, walkVars, histVars, rowVars
<1>1. CASE DoStatus(p) \/ DoRecord(p) \/ DoEmit(p) \/ LoseWrite(p)
  <2>1. /\ todo[p] # <<>> /\ Queue(p, Tail(todo[p]))
        /\ UNCHANGED <<pc, pos, seen>>
    BY <1>1 DEF DoStatus, DoRecord, DoEmit, LoseWrite
  <2>2. Others(p) /\ todo'[p] = Tail(todo[p]) /\ Kept(p)
    BY <2>1 DEF Queue, Others, Kept, TypeOK, ProcTypeOK
  <2>3. CASE DoStatus(p) \/ DoEmit(p) \/ LoseWrite(p)
    <3>1. /\ UNCHANGED <<rowVars, fired>> /\ (Pending(p) => Failure({"write"}))
          /\ Head(todo[p]).op = "status" => DoStatus(p) \/ Failure({"write"})
      <4>1. CASE DoStatus(p)
        BY <4>1 DEF DoStatus, Pending
      <4>2. CASE DoEmit(p) \/ LoseWrite(p)
        BY <4>2 DEF DoEmit, LoseWrite, Pending, Failure, Fault
      <4> QED
        BY <2>3, <4>1, <4>2
    <3> QED
      BY <2>1, <2>2, <3>1 DEF ShedStep, StepOf
  <2> QED
    BY <1>1, <2>2, <2>3 DEF StepOf
<1>2. CASE LoseEmit(p)
  <2>1. ~Pending(p) /\ UNCHANGED <<rowVars, fired>> /\ todo[p] # <<>>
    BY <1>2 DEF LoseEmit, Pending
  <2>2. CASE Leave(p, <<>>)
    BY <2>1, <2>2, LeaveEmpty DEF StepOf
  <2>3. CASE Queue(p, Tail(todo[p])) /\ UNCHANGED <<pc, walkVars, pick, undo>>
    <3>1. Head(todo[p]).op # "status"
      BY <1>2 DEF LoseEmit
    <3> QED
      BY <2>1, <2>3, <3>1
         DEF Queue, Others, Kept, ShedStep, StepOf, TypeOK, ProcTypeOK
  <2> QED
    BY <1>2, <2>2, <2>3 DEF LoseEmit
<1> QED
  BY <1>1, <1>2 DEF Write

\* Some sequences that the paths outside a walk queue.
LEMMA OutsideShapes ==
  /\ \A e \in EventTypes : Emit(e) \in Seq(EmitOps) /\ Append1(e) \in Seq(EmitOps)
  /\ <<>> \in Seq(EmitOps)
  /\ \A S : EmitOps \subseteq S => \A t \in Seq(EmitOps) : t \in Seq(S)
  /\ \A e \in EventTypes : \A s \in RunStatus :
       /\ Begins(Status(s) \o Emit(e), StatusOp(s), EmitOps)
       /\ Status(s) \o Emit(e) \in Seq(EmitOps \cup {StatusOp(s)})
       /\ Status(s) \in Seq(EmitOps \cup {StatusOp(s)})
       /\ Emit("approval_resolved") \o Status(s) \o Emit(e)
            \in Seq(EmitOps \cup {StatusOp(s)})
<1>1. ASSUME NEW e \in EventTypes, NEW s \in RunStatus
      PROVE  /\ Begins(Status(s) \o Emit(e), StatusOp(s), EmitOps)
             /\ Status(s) \o Emit(e) \in Seq(EmitOps \cup {StatusOp(s)})
             /\ Status(s) \in Seq(EmitOps \cup {StatusOp(s)})
             /\ Emit("approval_resolved") \o Status(s) \o Emit(e)
                  \in Seq(EmitOps \cup {StatusOp(s)})
  <2>1. Emit(e) \in Seq(EmitOps) /\ Emit("approval_resolved") \in Seq(EmitOps)
    BY PathShapes DEF EventTypes
  <2>2. Status(s) = <<StatusOp(s)>>
    BY DEF Status, StatusOp
  <2>3. Begins(Status(s) \o Emit(e), StatusOp(s), EmitOps)
    BY <2>1, <2>2, BeginsOne
  <2> DEFINE S == EmitOps \cup {StatusOp(s)}
  <2>4. Emit(e) \in Seq(S) /\ Emit("approval_resolved") \in Seq(S)
    BY <2>1
  <2>5. Status(s) \in Seq(S)
    BY <2>2
  <2> HIDE DEF S
  <2>6. \A t, u \in Seq(S) : t \o u \in Seq(S)
    OBVIOUS
  <2>7. /\ Status(s) \o Emit(e) \in Seq(S)
        /\ Emit("approval_resolved") \o Status(s) \in Seq(S)
    BY <2>4, <2>5, <2>6
  <2>8. Emit("approval_resolved") \o Status(s) \o Emit(e) \in Seq(S)
    BY <2>4, <2>6, <2>7
  <2> QED
    BY <2>3, <2>5, <2>7, <2>8 DEF S
<1>2. \A S : EmitOps \subseteq S => \A t \in Seq(EmitOps) : t \in Seq(S)
  BY SeqMore
<1> QED
  BY <1>1, <1>2, PathShapes

\* Requests, and their handling up to a walk.
LEMMA HandleView ==
  ASSUME TypeOK, NEW p \in Procs,
         Request(p) \/ Handle(p) \/ Load(p) \/ LoadFails(p)
  PROVE  Others(p) /\ StepOf(p)
<1> USE DEF dbVars, runVars, gateVars, walkVars, histVars, rowVars
<1>1. CASE Advance(p) \/ Refuse(p)
  <2>1. Leave(p, <<>>) /\ ~Pending(p) /\ UNCHANGED <<rowVars, fired>>
    BY <1>1 DEF Advance, Refuse, At, Pending
  <2> QED
    BY <2>1, LeaveEmpty DEF StepOf
<1>2. CASE LoadFails(p)
  <2>1. /\ Leave(p, Status("failed") \o Emit("workflow_failed"))
        /\ ~Pending(p) /\ UNCHANGED <<rowVars, fired>>
    BY <1>2 DEF LoadFails, At, Pending
  <2>2. Status("failed") \o Emit("workflow_failed")
          \in Seq(EmitOps \cup {StatusOp("failed")})
    BY OutsideShapes DEF EventTypes, RunStatus
  <2> QED
    BY <2>1, <2>2, LeaveView DEF LeaveStep, StepOf
<1>3. ASSUME NEW from \in Places \ (Late \cup {"outputs", "done"}), At(p, from),
             NEW to \in Places \ (Late \cup {"load", "outputs", "done"}),
             to \in Fresh => from \in Fresh, to # "undo",
             to = "saga" => from = "stopundo" /\ status' = "cancelled",
             to = "enter" => status' # "none",
             to = "replaying" => "replay" \in Requests[p],
             Go(p, to), UNCHANGED <<pos, seen, rowVars, fired>>,
             UNCHANGED todo \/ \E t \in Seq(EmitOps) : Queue(p, t)
      PROVE  Others(p) /\ StepOf(p)
  <2>1. todo[p] = <<>> /\ pc[p] = from
    BY <1>3 DEF At
  <2>2. Others(p) /\ todo'[p] \in Seq(EmitOps)
    BY <1>3, <2>1, GoView, PathShapes
  <2>3. pc'[p] = to /\ pos'[p] = pos[p] /\ seen'[p] = seen[p]
    BY <1>3, GoView
  <2> QED
    BY <1>3, <2>1, <2>2, <2>3 DEF OutsideStep, StepOf
<1>4. CASE StartRun(p)
  <2>1. \E t \in Seq(EmitOps) : Queue(p, t)
    BY <1>4, PathShapes DEF StartRun, EventTypes
  <2> QED
    BY <1>4, <2>1, <1>3 DEF StartRun, Ask, Places, Late, Fresh
<1>5. ASSUME NEW n \in Nodes, NEW d \in {"approve", "reject"}, PickApproval(p, n, d)
      PROVE  Others(p) /\ StepOf(p)
  BY <1>5, <1>3 DEF PickApproval, Ask, Places, Late, Fresh
<1>6. CASE Approve(p)
  BY <1>6, <1>3 DEF Approve, Places, Late, Fresh
<1>7. CASE Reject(p)
  BY <1>7, <1>3 DEF Reject, Places, Late, Fresh
<1>8. CASE StopRead(p)
  BY <1>8, <1>3 DEF StopRead, Ask, Places, Late, Fresh
<1>9. CASE ReplayRead(p)
  BY <1>9, <1>3 DEF ReplayRead, Ask, Places, Late, Fresh
<1>10. CASE ReplayWrite(p)
  BY <1>10, <1>3 DEF ReplayWrite, Places, Late, Fresh
<1>11. CASE StopAnchor(p)
  <2>1. At(p, "anchor") /\ UNCHANGED <<pos, seen, rowVars, fired, todo>>
    BY <1>11 DEF StopAnchor
  <2>2. Go(p, "stoponly") \/ Go(p, "stopundo")
    BY <1>11 DEF StopAnchor
  <2> QED
    BY <2>1, <2>2, <1>3 DEF Places, Late, Fresh
<1>12. CASE CheckResume(p)
  <2>1. CASE status = "awaiting_approval"
    BY <1>12, <2>1, <1>3 DEF CheckResume, Places, Late, Fresh
  <2>2. CASE status # "awaiting_approval"
    BY <1>12, <2>2, LeaveView, PathShapes, OutsideShapes
       DEF CheckResume, LeaveStep, StepOf, At, Pending
  <2> QED
    BY <2>1, <2>2
<1>13. CASE StopWrite(p)
  <2>1. CASE pc[p] = "stopundo"
    <3>1. /\ At(p, "stopundo") /\ Go(p, "saga") /\ status' = "cancelled"
          /\ UNCHANGED <<pos, seen, rowVars, fired, todo>>
      BY <1>13, <2>1 DEF StopWrite, At
    <3> QED
      BY <3>1, <1>3 DEF Places, Late, Fresh
  <2>2. CASE pc[p] # "stopundo"
    <3>1. Leave(p, <<>>) /\ ~Pending(p) /\ UNCHANGED <<rowVars, fired>>
      BY <1>13, <2>2 DEF StopWrite, At, Pending
    <3> QED
      BY <3>1, LeaveEmpty DEF StepOf
  <2> QED
    BY <2>1, <2>2
<1>14. CASE Enter(p)
  <2>1. \E e \in EventTypes : Queue(p, Status("running") \o Emit(e))
    BY <1>14 DEF Enter, EventTypes
  <2>2. /\ At(p, "enter") /\ Go(p, "load")
        /\ UNCHANGED <<pos, seen, rowVars, fired, status>>
    BY <1>14 DEF Enter
  <2>3. Begins(todo'[p], StatusOp("running"), EmitOps) /\ Others(p)
    BY <2>1, <2>2, GoView, OutsideShapes DEF RunStatus
  <2>4. pc'[p] = "load" /\ pos'[p] = pos[p] /\ seen'[p] = seen[p]
    BY <2>2, GoView
  <2> QED
    BY <2>2, <2>3, <2>4 DEF OutsideStep, StepOf, At, Late, Fresh
<1>15. CASE LoadWorkflow(p)
  <2>1. /\ At(p, "load") /\ Go(p, "outputs")
        /\ UNCHANGED <<pos, seen, rowVars, fired, todo, status>>
    BY <1>15 DEF LoadWorkflow
  <2>2. /\ Others(p) /\ todo'[p] = <<>> /\ pc'[p] = "outputs"
        /\ pos'[p] = pos[p] /\ seen'[p] = seen[p]
    BY <2>1, GoView DEF At
  <2> QED
    BY <2>1, <2>2, PathShapes DEF OutsideStep, StepOf, At, Late, Fresh
<1>16. CASE LoadOutputs(p)
  BY <1>16 DEF LoadOutputs, At, Go, LoadStep, StepOf, Others, TypeOK, ProcTypeOK
<1>17. CASE LoadApprovals(p)
  BY <1>17, GoView, PathShapes DEF LoadApprovals, At, MoveStep, StepOf
<1> QED
  BY <1>1, <1>2, <1>4, <1>5, <1>6, <1>7, <1>8, <1>9, <1>10, <1>11, <1>12, <1>13,
     <1>14, <1>15, <1>16, <1>17
     DEF Request, Handle, Load

\* The paths that begin with the record of a node.
LEMMA NodeShapes ==
  ASSUME NEW n \in Nodes, NEW o \in Outputs
  PROVE  /\ Begins(PauseOps(n, o), EntryOf(n, "awaiting_approval", o, "own"),
                   EmitOps \cup {StatusOp("awaiting_approval")})
         /\ Begins(FailOps(n), EntryOf(n, "failed", "none", "own"),
                   EmitOps \cup {StatusOp("failed")})
         /\ Begins(Record(n, "failed", "none", "unknown") \o Status("failed")
                     \o Emit("node_failed") \o Emit("workflow_failed"),
                   EntryOf(n, "failed", "none", "unknown"),
                   EmitOps \cup {StatusOp("failed")})
         /\ Begins(Record(n, "skipped", "none", "skipped") \o Emit("node_skipped"),
                   EntryOf(n, "skipped", "none", "skipped"), EmitOps)
         /\ Begins(Record(n, "completed", o, "own") \o Emit("node_completed"),
                   EntryOf(n, "completed", o, "own"), EmitOps)
         /\ Begins(Record(n, "completed", o, "own") \o Emit("approval_resolved")
                     \o Emit("node_completed"),
                   EntryOf(n, "completed", o, "own"), EmitOps)
<1>0. /\ \A t \in {"awaiting_approval", "failed", "skipped", "completed"} :
           t \in NodeStatus
      /\ \A c \in {"own", "unknown", "skipped"} : c \in Classes
      /\ "none" \in Outputs
      /\ \A s \in {"awaiting_approval", "failed"} : s \in RunStatus
      /\ \A e \in {"node_paused", "workflow_paused", "node_failed",
                    "workflow_failed", "node_skipped", "node_completed",
                    "approval_resolved"} : e \in EventTypes
  BY DEF NodeStatus, Classes, Outputs, RunStatus, EventTypes
<1>1. Begins(PauseOps(n, o), EntryOf(n, "awaiting_approval", o, "own"),
             EmitOps \cup {StatusOp("awaiting_approval")})
  BY <1>0, RecordFirst DEF PauseOps
<1>2. Begins(FailOps(n), EntryOf(n, "failed", "none", "own"),
             EmitOps \cup {StatusOp("failed")})
  BY <1>0, RecordFirst DEF FailOps
<1>3. Begins(Record(n, "failed", "none", "unknown") \o Status("failed")
               \o Emit("node_failed") \o Emit("workflow_failed"),
             EntryOf(n, "failed", "none", "unknown"),
             EmitOps \cup {StatusOp("failed")})
  BY <1>0, RecordFirst
<1>4. Begins(Record(n, "skipped", "none", "skipped") \o Emit("node_skipped"),
             EntryOf(n, "skipped", "none", "skipped"), EmitOps)
  BY <1>0, RecordFirst
<1>5. Begins(Record(n, "completed", o, "own") \o Emit("node_completed"),
             EntryOf(n, "completed", o, "own"), EmitOps)
  BY <1>0, RecordFirst
<1>6. Begins(Record(n, "completed", o, "own") \o Emit("approval_resolved")
               \o Emit("node_completed"),
             EntryOf(n, "completed", o, "own"), EmitOps)
  BY <1>0, RecordFirst
<1> QED
  BY <1>1, <1>2, <1>3, <1>4, <1>5, <1>6

\* What is in one part of a sequence is in the whole.
LEMMA NotWithout ==
  ASSUME NEW S, NEW T, NEW t \in Seq(T), NEW u \in Seq(T)
  PROVE  /\ t \notin Seq(S) => t \o u \notin Seq(S)
         /\ u \notin Seq(S) => t \o u \notin Seq(S)
<1>1. ASSUME t \o u \in Seq(S)
      PROVE  t \in Seq(S) /\ u \in Seq(S)
  <2>1. Len(t \o u) = Len(t) + Len(u)
    OBVIOUS
  <2>2. \A i \in 1..Len(t) : t[i] = (t \o u)[i]
    OBVIOUS
  <2>3. \A i \in 1..Len(u) : u[i] = (t \o u)[Len(t) + i]
    OBVIOUS
  <2>4. \A i \in 1..(Len(t) + Len(u)) : (t \o u)[i] \in S
    BY <1>1, <2>1
  <2> QED
    BY <2>2, <2>3, <2>4
<1> QED
  BY <1>1

\* The failure of a node fails its run.
LEMMA FailShapes ==
  ASSUME NEW n \in Nodes
  PROVE  /\ FailOps(n) \notin Seq(Ops \ {StatusOp("failed")})
         /\ Record(n, "failed", "none", "unknown") \o Status("failed")
              \o Emit("node_failed") \o Emit("workflow_failed")
              \notin Seq(Ops \ {StatusOp("failed")})
<1> DEFINE S == Ops \ {StatusOp("failed")}
<1>1. Status("failed") \notin Seq(S)
  <2>1. Status("failed") = <<StatusOp("failed")>>
    BY DEF Status, StatusOp
  <2>2. Status("failed")[1] = StatusOp("failed") /\ 1 \in 1..Len(Status("failed"))
    BY <2>1
  <2> QED
    BY <2>2
<1>2. /\ Record(n, "failed", "none", "own") \in Seq(Ops)
      /\ Record(n, "failed", "none", "unknown") \in Seq(Ops)
      /\ Emit("node_failed") \in Seq(Ops) /\ Emit("workflow_failed") \in Seq(Ops)
      /\ Status("failed") \in Seq(Ops)
      /\ \A t, u \in Seq(Ops) : t \o u \in Seq(Ops)
  BY CodePaths, CodePathsAny
     DEF NodeStatus, Classes, Outputs, EventTypes, RunStatus
<1> HIDE DEF S
<1>3. Record(n, "failed", "none", "own") \o Emit("node_failed")
        \o Status("failed") \o Emit("workflow_failed") \notin Seq(S)
  <2>1. Record(n, "failed", "none", "own") \o Emit("node_failed")
          \o Status("failed") \notin Seq(S)
    BY <1>1, <1>2, NotWithout
  <2> QED
    BY <1>2, <2>1, NotWithout
<1>4. Record(n, "failed", "none", "unknown") \o Status("failed")
        \o Emit("node_failed") \o Emit("workflow_failed") \notin Seq(S)
  <2>1. Record(n, "failed", "none", "unknown") \o Status("failed") \notin Seq(S)
    BY <1>1, <1>2, NotWithout
  <2>2. Record(n, "failed", "none", "unknown") \o Status("failed")
          \o Emit("node_failed") \notin Seq(S)
    BY <1>2, <2>1, NotWithout
  <2> QED
    BY <1>2, <2>2, NotWithout
<1> QED
  BY <1>3, <1>4 DEF S, FailOps

\* A node that is completed.
LEMMA CompletedView ==
  ASSUME TypeOK, NEW p \in Procs, NEW n \in Nodes, NEW o \in Outputs,
         Completed(p, n, o)
  PROVE  /\ Others(p) /\ pc'[p] = "walk" /\ pos'[p] = n + 1
         /\ seen'[p] = [seen[p] EXCEPT ![n] = o]
         /\ Begins(todo'[p], EntryOf(n, "completed", o, "own"), EmitOps)
  BY PassedView, NodeShapes DEF Completed

\* The visit of a node.
LEMMA VisitView ==
  ASSUME TypeOK, NEW p \in Procs, NEW n \in Nodes,
         Visit(p, n) \/ NoExecutor(p, n) \/ OversightFailsOpen(p, n)
  PROVE  Others(p) /\ StepOf(p)
<1> USE DEF dbVars, runVars, gateVars, walkVars, histVars, rowVars, At
<1>0. /\ \A e \in EventTypes : Emit(e) \in Seq(EmitOps)
      /\ \A s \in {"node_skipped", "node_started", "approval_resolved",
                   "workflow_failed"} : s \in EventTypes
      /\ "none" \in Outputs /\ "done" \in Outputs /\ "failed" \in RunStatus
      /\ "own" \in Classes /\ "unknown" \in Classes
  BY PathShapes DEF EventTypes, Outputs, RunStatus, Classes
<1>1. CASE PassPrior(p, n)
  <2>1. /\ pc[p] = "walk" /\ todo[p] = <<>> /\ pos[p] = n /\ seen[p][n] # "none"
        /\ Passed(p, n, seen[p][n], Emit("node_skipped"))
        /\ UNCHANGED <<rowVars, fired>>
    BY <1>1 DEF PassPrior, Visits
  <2>2. PriorStep(p, n) /\ Others(p)
    BY <1>0, <2>1, PassedView DEF PriorStep, PassStep
  <2> QED
    BY <2>2 DEF StepOf
<1>2. CASE SkipDead(p, n)
  <2>1. /\ pc[p] = "walk" /\ todo[p] = <<>> /\ pos[p] = n /\ seen[p][n] = "none"
        /\ ~Reached(n, seen[p])
        /\ Passed(p, n, "skipped",
                  Record(n, "skipped", "none", "skipped") \o Emit("node_skipped"))
        /\ UNCHANGED <<rowVars, fired>>
    BY <1>2 DEF SkipDead, Visits
  <2>2. SkipStep(p, n) /\ Others(p)
    BY <1>0, <2>1, PassedView, NodeShapes DEF SkipStep, PassStep
  <2> QED
    BY <2>2 DEF StepOf
<1>3. CASE PassApproved(p, n)
  <2>1. /\ pc[p] = "walk" /\ todo[p] = <<>> /\ pos[p] = n /\ Open(p, n)
        /\ n \in Gates
        /\ Passed(p, n, "done",
                  Record(n, "completed", "done", "own")
                    \o Emit("approval_resolved") \o Emit("node_completed"))
        /\ UNCHANGED <<rowVars, fired>>
    BY <1>3 DEF PassApproved, Visits
  <2>2. n \notin Decisions /\ n \notin Effects
    BY <2>1, WorkflowAssumption
  <2>3. CompleteStep(p, n, "done") /\ Others(p)
    BY <1>0, <2>1, <2>2, PassedView, NodeShapes DEF CompleteStep, PassStep
  <2> QED
    BY <1>0, <2>3 DEF StepOf
<1>4. CASE FailRejected(p, n)
  <2>1. /\ Leave(p, Emit("approval_resolved") \o Status("failed")
                      \o Emit("workflow_failed"))
        /\ ~Pending(p) /\ UNCHANGED <<rowVars, fired>>
    BY <1>4 DEF FailRejected, Visits, Pending
  <2> QED
    BY <1>0, <2>1, LeaveView, OutsideShapes DEF LeaveStep, StepOf
<1>5. CASE AskOversight(p, n)
  <2>1. /\ pc[p] = "walk" /\ todo[p] = <<>> /\ pos[p] = n /\ Open(p, n)
        /\ Go(p, "ask") /\ UNCHANGED <<pos, seen, rowVars, fired, todo>>
    BY <1>5 DEF AskOversight, Visits
  <2> QED
    BY <2>1, GoView, PathShapes DEF MoveStep, StepOf
<1>6. CASE Proceed(p, n) \/ OversightFailsOpen(p, n)
  <2>1. /\ pc[p] = "walk" /\ todo[p] = <<>> /\ pos[p] = n /\ Open(p, n)
        /\ Go(p, "execute") /\ Queue(p, Emit("node_started"))
        /\ UNCHANGED <<pos, seen, rowVars, fired>>
    BY <1>6 DEF Proceed, OversightFailsOpen, Visits
  <2> QED
    BY <1>0, <2>1, GoView DEF MoveStep, StepOf
<1>7. CASE PauseForOversight(p, n)
  <2>1. /\ pc[p] = "ask" /\ todo[p] = <<>> /\ pos[p] = n
        /\ Leave(p, PauseOps(n, "none")) /\ UNCHANGED <<rowVars, fired>>
        /\ approval' = [approval EXCEPT ![n] = "pending"]
    BY <1>7 DEF PauseForOversight
  <2>2. approval'[n] # "none"
    BY <2>1 DEF TypeOK, DbTypeOK
  <2>3. /\ Others(p) /\ pc'[p] = "done"
        /\ Begins(todo'[p], EntryOf(n, "awaiting_approval", "none", "own"),
                  EmitOps \cup {StatusOp("awaiting_approval")})
    BY <1>0, <2>1, LeaveView, NodeShapes
  <2>4. PauseStep(p, n)
    BY <1>0, <2>1, <2>2, <2>3, PauseOnce, LeaveView DEF PauseStep, AtNode
  <2> QED
    BY <2>3, <2>4 DEF StepOf
<1>8. CASE NoExecutor(p, n)
  <2>1. /\ pc[p] = "walk" /\ todo[p] = <<>> /\ pos[p] = n /\ Open(p, n)
        /\ Leave(p, Record(n, "failed", "none", "unknown") \o Status("failed")
                      \o Emit("node_failed") \o Emit("workflow_failed"))
        /\ UNCHANGED <<rowVars, fired>> /\ "missing" \in Faults
    BY <1>8 DEF NoExecutor, Visits, Fault
  <2>2. FailStep(p, n) /\ Others(p)
    BY <1>0, <2>1, LeaveView, NodeShapes, FailShapes DEF FailStep, AtNode
  <2> QED
    BY <2>2 DEF StepOf
<1> QED
  BY <1>1, <1>2, <1>3, <1>4, <1>5, <1>6, <1>7, <1>8 DEF Visit

\* Its execution: an e-mail is inserted only at the place for that.
LEMMA ExecuteView ==
  ASSUME TypeOK, ConsentInv, NEW p \in Procs, NEW n \in Nodes,
         \/ Execute(p, n) \/ ExecFails(p, n) \/ ExecFailsLate(p, n)
         \/ DecisionUnnamed(p, n)
  PROVE  Others(p) /\ StepOf(p)
<1> USE DEF dbVars, runVars, gateVars, walkVars, histVars, rowVars, At, Executes
<1>0. /\ "none" \in Outputs /\ "done" \in Outputs /\ "own" \in Classes
      /\ "true" \in Outputs /\ "false" \in Outputs
  BY DEF Outputs, Classes
<1>1. ASSUME NEW o \in Outputs, Completed(p, n, o), pos[p] = n, todo[p] = <<>>,
             pc[p] \in {"execute", "insert"}, UNCHANGED rowVars,
             IF n \in Decisions THEN o \in {"true", "false"} ELSE o = "done",
             \/ UNCHANGED fired /\ (n \in Effects => fired[n] > 0)
             \/ Fire(n) /\ n \in Effects /\ (n \in Dedup => pc[p] = "insert")
      PROVE  Others(p) /\ StepOf(p)
  <2>1. /\ Others(p) /\ pc'[p] = "walk" /\ pos'[p] = n + 1
        /\ seen'[p] = [seen[p] EXCEPT ![n] = o]
        /\ Begins(todo'[p], EntryOf(n, "completed", o, "own"), EmitOps)
    BY <1>1, CompletedView
  <2>2. CompleteStep(p, n, o)
    BY <1>1, <2>1 DEF CompleteStep, PassStep
  <2> QED
    BY <2>1, <2>2 DEF StepOf
<1>2. CASE GateLetsThrough(p, n)
  <2>1. n \notin Decisions /\ n \notin Effects
    BY <1>2, WorkflowAssumption DEF GateLetsThrough
  <2> QED
    BY <1>0, <1>1, <1>2, <2>1 DEF GateLetsThrough
<1>3. CASE GatePauses(p, n)
  <2>1. /\ pc[p] = "execute" /\ todo[p] = <<>> /\ pos[p] = n
        /\ Leave(p, PauseOps(n, "done")) /\ UNCHANGED <<rowVars, fired>>
        /\ approval' = [approval EXCEPT ![n] = IF @ = "none" THEN "pending" ELSE @]
    BY <1>3 DEF GatePauses
  <2>2. approval'[n] # "none"
    BY <2>1 DEF TypeOK, DbTypeOK
  <2>3. /\ Others(p) /\ pc'[p] = "done"
        /\ Begins(todo'[p], EntryOf(n, "awaiting_approval", "done", "own"),
                  EmitOps \cup {StatusOp("awaiting_approval")})
    BY <1>0, <2>1, LeaveView, NodeShapes
  <2>4. PauseStep(p, n)
    BY <1>0, <2>1, <2>2, <2>3, PauseOnce, LeaveView DEF PauseStep, AtNode
  <2> QED
    BY <2>3, <2>4 DEF StepOf
<1>4. CASE EffectFires(p, n)
  <2>1. n \notin Decisions /\ n \in Effects /\ n \notin Dedup
    BY <1>4, WorkflowAssumption DEF EffectFires
  <2> QED
    BY <1>0, <1>1, <1>4, <2>1 DEF EffectFires
<1>5. CASE DedupHit(p, n)
  <2>1. n \notin Decisions /\ fired[n] > 0
    BY <1>5, WorkflowAssumption DEF DedupHit
  <2> QED
    BY <1>0, <1>1, <1>5, <2>1 DEF DedupHit
<1>6. CASE DedupMiss(p, n)
  <2>1. /\ pc[p] = "execute" /\ todo[p] = <<>> /\ pos[p] = n /\ n \in Dedup
        /\ fired[n] = 0
        /\ Go(p, "insert") /\ UNCHANGED <<pos, seen, rowVars, fired, todo>>
    BY <1>6 DEF DedupMiss
  <2> QED
    BY <2>1, GoView, PathShapes DEF MoveStep, StepOf
<1>7. CASE DedupInsert(p, n)
  <2>1. n \in Effects /\ n \notin Decisions
    BY <1>7, WorkflowAssumption
       DEF DedupInsert, ConsentInv, ProcsBacked, ExecuteBacked
  <2> QED
    BY <1>0, <1>1, <1>7, <2>1 DEF DedupInsert
<1>8. CASE PureCompletes(p, n)
  BY <1>0, <1>1, <1>8 DEF PureCompletes
<1>9. ASSUME NEW arm \in {"true", "false"}, DecisionTaken(p, n, arm)
      PROVE  Others(p) /\ StepOf(p)
  <2>1. n \in Decisions /\ n \notin Effects
    BY <1>9, WorkflowAssumption DEF DecisionTaken
  <2> QED
    BY <1>0, <1>1, <1>9, <2>1 DEF DecisionTaken
<1>10. CASE ExecFails(p, n) \/ ExecFailsLate(p, n)
  <2>1. /\ pc[p] = "execute" /\ todo[p] = <<>> /\ pos[p] = n
        /\ Go(p, "saga") /\ Queue(p, FailOps(n)) /\ UNCHANGED <<pos, seen, rowVars>>
    BY <1>10 DEF ExecFails, ExecFailsLate, Fails
  <2>2. \/ UNCHANGED fired
        \/ Fire(n) /\ n \in Effects \ Dedup /\ Failure({"execlate"})
    BY <1>10 DEF ExecFails, ExecFailsLate, Fault, Failure
  <2>3. /\ Others(p) /\ pc'[p] = "saga" /\ todo'[p] = FailOps(n)
    BY <2>1, GoView
  <2>4. /\ Begins(todo'[p], EntryOf(n, "failed", "none", "own"),
                  EmitOps \cup {StatusOp("failed")})
        /\ todo'[p] \notin Seq(Ops \ {StatusOp("failed")})
    BY <1>0, <2>3, NodeShapes, FailShapes
  <2>5. FailStep(p, n)
    BY <1>0, <2>1, <2>2, <2>3, <2>4 DEF FailStep, AtNode
  <2> QED
    BY <2>3, <2>5 DEF StepOf
<1>11. CASE DecisionUnnamed(p, n)
  <2>1. /\ pc[p] = "execute" /\ todo[p] = <<>> /\ pos[p] = n
        /\ Leave(p, FailOps(n)) /\ UNCHANGED <<rowVars, fired>>
    BY <1>11 DEF DecisionUnnamed
  <2>2. /\ Others(p) /\ pc'[p] = "done" /\ todo'[p] = FailOps(n)
    BY <2>1, LeaveView
  <2>3. /\ Begins(todo'[p], EntryOf(n, "failed", "none", "own"),
                  EmitOps \cup {StatusOp("failed")})
        /\ todo'[p] \notin Seq(Ops \ {StatusOp("failed")})
    BY <1>0, <2>2, NodeShapes, FailShapes
  <2>4. FailStep(p, n)
    BY <1>0, <2>1, <2>2, <2>3 DEF FailStep, AtNode
  <2> QED
    BY <2>2, <2>4 DEF StepOf
<1> QED
  BY <1>2, <1>3, <1>4, <1>5, <1>6, <1>7, <1>8, <1>9, <1>10, <1>11 DEF Execute

\* The end of a walk, the saga, and interruptions.
LEMMA LeavingView ==
  ASSUME TypeOK, NEW p \in Procs,
         \/ EndOfWalk(p) \/ Compensate(p)
         \/ \E n \in Nodes : UndoFails(p, n)
         \/ Interrupted(p) \/ Crash(p)
  PROVE  (Others(p) /\ StepOf(p)) \/ NoStep
<1> USE DEF dbVars, runVars, gateVars, walkVars, histVars, rowVars, At
<1>0. /\ \A e \in EventTypes : /\ Emit(e) \in Seq(EmitOps)
                               /\ Append1(e) \in Seq(EmitOps)
      /\ \A s \in {"workflow_completed", "compensation_started",
                   "compensation_completed"} : s \in EventTypes
      /\ "completed" \in RunStatus /\ "failed" \in RunStatus
      /\ \A S : EmitOps \subseteq S => \A t \in Seq(EmitOps) : t \in Seq(S)
  BY OutsideShapes DEF EventTypes, RunStatus
<1>1. CASE EndOfWalk(p)
  <2>1. /\ pc[p] = "walk" /\ todo[p] = <<>> /\ pos[p] = N + 1
        /\ Leave(p, Status("completed") \o Emit("workflow_completed"))
        /\ UNCHANGED <<rowVars, fired>>
    BY <1>1 DEF EndOfWalk, Visits
  <2> QED
    BY <1>0, <2>1, LeaveView, OutsideShapes DEF EndStep, StepOf
<1>2. CASE SagaLoad(p) /\ Compensable = {}
  <2>1. Leave(p, <<>>) /\ ~Pending(p) /\ UNCHANGED <<rowVars, fired>>
    BY <1>2 DEF SagaLoad, Pending
  <2> QED
    BY <2>1, LeaveEmpty DEF StepOf
<1>3. CASE SagaLoad(p) /\ Compensable # {}
  <2>1. /\ pc[p] = "saga" /\ todo[p] = <<>>
        /\ Go(p, "undo") /\ Queue(p, Append1("compensation_started"))
        /\ UNCHANGED <<pos, seen, rowVars, fired, status>>
    BY <1>3 DEF SagaLoad
  <2>2. /\ Others(p) /\ todo'[p] \in Seq(EmitOps) /\ pc'[p] = "undo"
        /\ pos'[p] = pos[p] /\ seen'[p] = seen[p]
    BY <1>0, <2>1, GoView
  <2> QED
    BY <2>1, <2>2 DEF OutsideStep, StepOf, Late, Fresh
<1>4. CASE SagaEnds(p)
  <2>1. /\ Leave(p, Emit("compensation_completed")) /\ ~Pending(p)
        /\ UNCHANGED <<rowVars, fired>>
    BY <1>4 DEF SagaEnds, Pending
  <2>2. EmitOps \subseteq EmitOps \cup {StatusOp("failed")}
    OBVIOUS
  <2>3. Emit("compensation_completed") \in Seq(EmitOps \cup {StatusOp("failed")})
    BY <1>0, <2>2
  <2> QED
    BY <2>1, <2>3, LeaveView DEF LeaveStep, StepOf
<1>5. CASE \E n \in Nodes : Undo(p, n) \/ UndoFails(p, n)
  BY <1>5 DEF Undo, UndoFails, NoStep
<1>6. CASE Interrupted(p)
  <2>1. /\ \E t \in {Status("failed"), <<>>} : Leave(p, t)
        /\ UNCHANGED <<rowVars, fired>> /\ Failure({"interrupt", "crash"})
    BY <1>6 DEF Interrupted, Fault, Failure
  <2>2. \A t \in {Status("failed"), <<>>} : t \in Seq(EmitOps \cup {StatusOp("failed")})
    BY <1>0, OutsideShapes
  <2> QED
    BY <2>1, <2>2, LeaveView DEF LeaveStep, StepOf
<1>7. CASE Crash(p)
  <2>1. /\ Leave(p, <<>>) /\ UNCHANGED <<rowVars, fired>>
        /\ Failure({"interrupt", "crash"})
    BY <1>7 DEF Crash, Fault, Failure
  <2>2. <<>> \in Seq(EmitOps \cup {StatusOp("failed")})
    OBVIOUS
  <2> QED
    BY <2>1, <2>2, LeaveView DEF LeaveStep, StepOf
<1> QED
  BY <1>1, <1>2, <1>3, <1>4, <1>5, <1>6, <1>7 DEF Compensate

\* So a step of the system is one of these of some process, or none.
LEMMA WalkSteps ==
  ASSUME TypeOK, ConsentInv, [Next]_vars
  PROVE  NoStep \/ \E p \in Procs : Others(p) /\ StepOf(p)
<1>1. CASE UNCHANGED vars
  BY <1>1 DEF vars, dbVars, runVars, procVars, walkVars, histVars, rowVars, NoStep
<1>2. ASSUME NEW p \in Procs, Request(p) \/ Step(p) \/ Disturb(p)
      PROVE  NoStep \/ (Others(p) /\ StepOf(p))
  BY <1>2, WriteView, HandleView, VisitView, ExecuteView, LeavingView
     DEF Step, Disturb
<1>3. ASSUME NEW n \in Nodes, Escalate(n)
      PROVE  NoStep
  BY <1>3 DEF Escalate, NoStep, runVars, procVars, walkVars, histVars, rowVars
<1> QED
  BY <1>1, <1>2, <1>3 DEF Next

------------------------------------------------------------------------------
(* The shape of what is still to be written. *)

\* A node is recorded by the first of the writes, if by any; a walker that
\* loads, asks or executes has no node to record, and one that walks has none
\* but the node it has just left.
ShapeOf(p) ==
  /\ todo[p] # <<>> => Tail(todo[p]) \in Seq(QuietOps)
  /\ pc[p] \notin {"walk", "saga", "done", "load"} => todo[p] \in Seq(EmitOps)
  /\ pc[p] = "load" => todo[p] \in Seq(QuietOps)
  /\ pc[p] = "walk" =>
       IF Pending(p) THEN /\ Entry(p).node = pos[p] - 1
                          /\ Tail(todo[p]) \in Seq(EmitOps)
                     ELSE todo[p] \in Seq(EmitOps)
  /\ pc[p] \in Fresh => pos[p] = 1

Shape == \A p \in Procs : ShapeOf(p)

\* Only statuses and events: no node is recorded.
LEMMA QuietShape ==
  ASSUME NEW p, NEW S, S \subseteq QuietOps, todo[p] \in Seq(S)
  PROVE  /\ ~Pending(p) /\ todo[p] \in Seq(QuietOps)
         /\ todo[p] # <<>> => Tail(todo[p]) \in Seq(QuietOps)
<1>1. todo[p] \in Seq(QuietOps)
  BY SeqMore
<1>2. todo[p] # <<>> => Head(todo[p]) \in QuietOps /\ Tail(todo[p]) \in Seq(QuietOps)
  BY <1>1, SeqParts
<1> QED
  BY <1>1, <1>2 DEF Pending, QuietOps, StatusOps, EmitOps

\* The same of the next state.
LEMMA QuietShapeNext ==
  ASSUME NEW p, NEW S, S \subseteq QuietOps, todo'[p] \in Seq(S)
  PROVE  /\ ~Pending(p)' /\ todo'[p] \in Seq(QuietOps)
         /\ todo'[p] # <<>> => Tail(todo'[p]) \in Seq(QuietOps)
<1>1. todo'[p] \in Seq(QuietOps)
  BY SeqMore
<1>2. todo'[p] # <<>> => Head(todo'[p]) \in QuietOps /\ Tail(todo'[p]) \in Seq(QuietOps)
  BY <1>1, SeqParts
<1> QED
  BY <1>1, <1>2 DEF Pending, QuietOps, StatusOps, EmitOps

LEMMA QuietSets ==
  /\ EmitOps \subseteq QuietOps
  /\ \A s \in RunStatus : EmitOps \cup {StatusOp(s)} \subseteq QuietOps
  /\ "failed" \in RunStatus /\ "completed" \in RunStatus
  /\ "awaiting_approval" \in RunStatus /\ "running" \in RunStatus
  BY DEF QuietOps, StatusOps, StatusOp, RunStatus

\* The writes of a process that records a node next.
LEMMA EntryShape ==
  ASSUME NEW p, NEW n \in Nodes, NEW t \in NodeStatus, NEW o \in Outputs,
         NEW c \in Classes, NEW S \in SUBSET QuietOps,
         Begins(todo'[p], EntryOf(n, t, o, c), S)
  PROVE  /\ Pending(p)' /\ Entry(p)' = EntryOf(n, t, o, c)
         /\ Tail(todo'[p]) \in Seq(S) /\ Tail(todo'[p]) \in Seq(QuietOps)
         /\ Entry(p)'.node = n /\ Entry(p)'.to = t /\ Entry(p)'.out = o
         /\ Entry(p)'.class = c
<1>1. Tail(todo'[p]) \in Seq(S) /\ Tail(todo'[p]) \in Seq(QuietOps)
  BY SeqMore DEF Begins
<1>2. Entry(p)' = EntryOf(n, t, o, c) /\ Pending(p)'
  BY DEF Begins, Entry, Pending, EntryOf
<1> QED
  BY <1>1, <1>2 DEF EntryOf

\* A process that gives the walk up records the node it is at.
LEMMA GiveUpEntry ==
  ASSUME NEW p, NEW n \in Nodes, PauseStep(p, n) \/ FailStep(p, n)
  PROVE  /\ Pending(p)' /\ Tail(todo'[p]) \in Seq(QuietOps)
         /\ Entry(p)'.node = n /\ Entry(p)'.to \in {"awaiting_approval", "failed"}
         /\ Entry(p)'.class = "own" \/ "missing" \in Faults
         /\ pc'[p] \in {"done", "saga"} /\ AtNode(p, n) /\ UNCHANGED rowVars
<1>1. PICK t \in {"awaiting_approval", "failed"}, o \in Outputs, c \in Classes :
        /\ Begins(todo'[p], EntryOf(n, t, o, c), EmitOps \cup {StatusOp(t)})
        /\ c = "own" \/ "missing" \in Faults
  BY DEF PauseStep, FailStep, Outputs, Classes
<1>2. \E S \in SUBSET QuietOps : Begins(todo'[p], EntryOf(n, t, o, c), S)
  BY <1>1, QuietSets
<1>3. /\ Pending(p)' /\ Tail(todo'[p]) \in Seq(QuietOps)
      /\ Entry(p)'.node = n /\ Entry(p)'.to = t /\ Entry(p)'.class = c
  <2>1. t \in NodeStatus
    BY DEF NodeStatus
  <2> QED
    BY <1>2, <2>1, EntryShape
<1>4. pc'[p] \in {"done", "saga"} /\ AtNode(p, n) /\ UNCHANGED rowVars
  BY DEF PauseStep, FailStep, rowVars
<1> QED
  BY <1>1, <1>3, <1>4

\* Every step keeps the shape.
LEMMA ShapeNext ==
  ASSUME TypeOK, ConsentInv, Shape, [Next]_vars
  PROVE  Shape'
<1>1. CASE NoStep
  BY <1>1 DEF NoStep, Shape, ShapeOf, Pending, Entry
<1>2. ASSUME NEW p \in Procs, Others(p), StepOf(p)
      PROVE  Shape'
  <2>0. SUFFICES ShapeOf(p)'
    BY <1>2 DEF Shape, ShapeOf, Pending, Entry, Others
  <2>1. ShapeOf(p)
    BY DEF Shape
  <2>2. pos[p] \in Nat /\ todo[p] \in Seq(Ops)
    BY WorkflowAssumption DEF TypeOK, ProcTypeOK, Nodes
  <2> USE QuietSets
  <2>3. CASE DoRecord(p) \/ ShedStep(p)
    <3>1. /\ todo[p] # <<>> /\ todo'[p] = Tail(todo[p])
          /\ pc'[p] = pc[p] /\ pos'[p] = pos[p]
      BY <2>3 DEF DoRecord, ShedStep, Queue, Kept, walkVars, TypeOK, ProcTypeOK
    <3>2. todo'[p] \in Seq(QuietOps)
      BY <2>1, <3>1 DEF ShapeOf
    <3>3. ~Pending(p)' /\ (todo'[p] # <<>> => Tail(todo'[p]) \in Seq(QuietOps))
      BY <3>2, QuietShapeNext
    <3>4. todo[p] \in Seq(EmitOps) => todo'[p] \in Seq(EmitOps)
      BY <3>1, SeqParts
    <3>5. pc[p] = "walk" => todo'[p] \in Seq(EmitOps)
      BY <2>1, <3>1, <3>4 DEF ShapeOf
    <3>6. pc[p] \notin {"walk", "saga", "done", "load"} => todo'[p] \in Seq(EmitOps)
      BY <2>1, <3>4 DEF ShapeOf
    <3>7. pc[p] \in Fresh => pos[p] = 1
      BY <2>1 DEF ShapeOf
    <3> QED
      BY <3>1, <3>2, <3>3, <3>5, <3>6, <3>7 DEF ShapeOf
  <2>4. CASE LeaveStep(p) \/ EndStep(p)
    <3>1. pc'[p] = "done"
      BY <2>4 DEF LeaveStep, EndStep
    <3>2. todo'[p] # <<>> => Tail(todo'[p]) \in Seq(QuietOps)
      BY <2>4, QuietShapeNext DEF LeaveStep, EndStep
    <3> QED
      BY <3>1, <3>2 DEF ShapeOf, Fresh
  <2>5. CASE MoveStep(p) \/ LoadStep(p)
    <3>1. todo'[p] \in Seq(EmitOps) /\ pos'[p] = pos[p]
      BY <2>5, PathShapes DEF MoveStep, LoadStep
    <3>2. /\ ~Pending(p)'
          /\ todo'[p] # <<>> => Tail(todo'[p]) \in Seq(QuietOps)
      BY <3>1, QuietShapeNext
    <3>3. /\ pc'[p] \in {"walk", "ask", "execute", "insert", "approvals"}
          /\ pc'[p] = "approvals" => pc[p] = "outputs"
      BY <2>5 DEF MoveStep, LoadStep
    <3> QED
      BY <2>1, <3>1, <3>2, <3>3 DEF ShapeOf, Fresh
  <2>6. CASE OutsideStep(p)
    <3>1. /\ pos'[p] = pos[p] /\ pc'[p] \notin {"walk", "done"}
          /\ pc'[p] \in Fresh => pc[p] \in Fresh
      BY <2>6 DEF OutsideStep, Late
    <3>2. CASE todo'[p] \in Seq(EmitOps)
      <4>1. todo'[p] # <<>> => Tail(todo'[p]) \in Seq(QuietOps)
        BY <3>2, QuietShapeNext
      <4>2. todo'[p] \in Seq(QuietOps)
        BY <3>2, QuietShapeNext
      <4> QED
        BY <2>1, <3>1, <3>2, <4>1, <4>2 DEF ShapeOf
    <3>3. CASE Begins(todo'[p], StatusOp("running"), EmitOps) /\ pc'[p] = "load"
      <4>1. /\ todo'[p] # <<>> /\ Head(todo'[p]) \in QuietOps
            /\ Tail(todo'[p]) \in Seq(EmitOps)
        BY <3>3 DEF Begins, QuietOps, StatusOps, StatusOp
      <4>2. todo'[p] \in Seq(Ops)
        BY TypeNext DEF TypeOK, ProcTypeOK
      <4>3. Tail(todo'[p]) \in Seq(QuietOps)
        BY <4>1, SeqMore
      <4>4. todo'[p] \in Seq(QuietOps)
        BY <4>1, <4>2, <4>3, SeqWhole
      <4> QED
        BY <2>1, <3>1, <3>3, <4>3, <4>4 DEF ShapeOf
    <3> QED
      BY <2>6, <3>2, <3>3 DEF OutsideStep
  <2>7. ASSUME NEW n \in Nodes, PauseStep(p, n) \/ FailStep(p, n)
        PROVE  ShapeOf(p)'
    <3>1. pc'[p] \in {"done", "saga"}
      BY <2>7, GiveUpEntry
    <3>2. Tail(todo'[p]) \in Seq(QuietOps)
      BY <2>7, GiveUpEntry
    <3> QED
      BY <3>1, <3>2 DEF ShapeOf, Fresh
  <2>8. ASSUME NEW n \in Nodes, PriorStep(p, n)
        PROVE  ShapeOf(p)'
    <3>1. pc'[p] = "walk" /\ todo'[p] \in Seq(EmitOps)
      BY <2>8 DEF PriorStep, PassStep
    <3>2. /\ ~Pending(p)'
          /\ todo'[p] # <<>> => Tail(todo'[p]) \in Seq(QuietOps)
      BY <3>1, QuietShapeNext
    <3> QED
      BY <3>1, <3>2 DEF ShapeOf, Fresh
  <2>9. ASSUME NEW n \in Nodes,
               SkipStep(p, n) \/ \E o \in Outputs : CompleteStep(p, n, o)
        PROVE  ShapeOf(p)'
    <3>1. pc'[p] = "walk" /\ pos'[p] = n + 1
      BY <2>9 DEF SkipStep, CompleteStep, PassStep
    <3>2. \E t \in NodeStatus, o \in Outputs, c \in Classes :
            Begins(todo'[p], EntryOf(n, t, o, c), EmitOps)
      BY <2>9 DEF SkipStep, CompleteStep, NodeStatus, Outputs, Classes
    <3>3. /\ Pending(p)' /\ Entry(p)'.node = n /\ Tail(todo'[p]) \in Seq(EmitOps)
          /\ Tail(todo'[p]) \in Seq(QuietOps)
      <4>1. EmitOps \in SUBSET QuietOps
        BY QuietSets
      <4> QED
        BY <3>2, <4>1, EntryShape
    <3>4. n \in Nat
      BY DEF Nodes
    <3> QED
      BY <3>1, <3>3, <3>4 DEF ShapeOf, Fresh
  <2> QED
    BY <1>2, <2>3, <2>4, <2>5, <2>6, <2>7, <2>8, <2>9 DEF StepOf
<1> QED
  BY <1>1, <1>2, WalkSteps

\* Nobody has anything to write before the run exists.
LEMMA ShapeInit == Init => Shape
  BY DEF Init, Shape, ShapeOf

\* The invariants of every run together.
BaseInv == TypeOK /\ ConsentInv /\ Shape

LEMMA BaseInit == Init => BaseInv
  BY TypeInit, ConsentInit, ShapeInit DEF BaseInv

LEMMA BaseNext == BaseInv /\ [Next]_vars => BaseInv'
  BY TypeNext, ConsentNext, ShapeNext DEF BaseInv

LEMMA BaseCorrect == Spec => []BaseInv
  BY BaseInit, BaseNext, PTL DEF Spec

------------------------------------------------------------------------------
(* What a step does to the records that are still to be made. *)

\* A process that does not step keeps its record to be made.
LEMMA OthersView ==
  ASSUME NEW p \in Procs, Others(p), NEW q \in Procs, q # p
  PROVE  /\ pc'[q] = pc[q] /\ todo'[q] = todo[q] /\ pos'[q] = pos[q]
         /\ seen'[q] = seen[q] /\ Entry(q)' = Entry(q)
         /\ Pending(q)' <=> Pending(q)
         /\ Active(q)' <=> Active(q)
  BY DEF Others, Entry, Pending, Active

\* A process that has a node to record is still active.
LEMMA PendingActive ==
  ASSUME NEW p, Pending(p)
  PROVE  Active(p) /\ todo[p] \notin Seq(EmitOps)
<1>1. SUFFICES ASSUME todo[p] \in Seq(EmitOps)
               PROVE  FALSE
  BY DEF Active
<1>2. Head(todo[p]) \in EmitOps
  BY <1>1, SeqParts DEF Pending
<1> QED
  BY <1>2 DEF Pending, EmitOps

\* The record of a node is made.
LEMMA RecordView ==
  ASSUME BaseInv, NEW p \in Procs, DoRecord(p)
  PROVE  /\ Pending(p) /\ ~Pending(p)' /\ Entry(p) \in RecordOps
         /\ row' = [row EXCEPT ![Entry(p).node] = Entry(p).to]
         /\ out' = [out EXCEPT ![Entry(p).node] = Entry(p).out]
         /\ class' = [class EXCEPT ![Entry(p).node] =
                        IF row[Entry(p).node] = "none" THEN Entry(p).class ELSE @]
         /\ todo'[p] = Tail(todo[p]) /\ Kept(p) /\ UNCHANGED fired
<1>1. /\ Pending(p) /\ todo[p] # <<>> /\ Head(todo[p]) = Entry(p)
      /\ Entry(p).op = "record"
  BY DEF DoRecord, Pending, Entry
<1>2. todo'[p] = Tail(todo[p]) /\ Kept(p) /\ UNCHANGED fired
  BY DEF BaseInv, TypeOK, ProcTypeOK, DoRecord, Queue, Kept, walkVars, histVars
<1>3. Tail(todo[p]) \in Seq(QuietOps)
  BY <1>1 DEF BaseInv, Shape, ShapeOf
<1>4. ~Pending(p)'
  BY <1>2, <1>3, QuietShapeNext
<1>5. Entry(p) \in RecordOps
  <2>1. todo[p] \in Seq(Ops)
    BY DEF BaseInv, TypeOK, ProcTypeOK
  <2>2. Head(todo[p]) \in Ops
    BY <1>1, <2>1, SeqParts
  <2> QED
    BY <1>1, <2>2 DEF Ops, StatusOps, EmitOps
<1>6. /\ row' = [row EXCEPT ![Entry(p).node] = Entry(p).to]
      /\ out' = [out EXCEPT ![Entry(p).node] = Entry(p).out]
      /\ class' = [class EXCEPT ![Entry(p).node] =
                     IF row[Entry(p).node] = "none" THEN Entry(p).class ELSE @]
  BY DEF DoRecord, Entry
<1> QED
  BY <1>1, <1>2, <1>4, <1>5, <1>6

\* After these a process has no node to record.
LEMMA QuietSteps ==
  ASSUME BaseInv, NEW p \in Procs,
         \/ ShedStep(p) \/ LeaveStep(p) \/ EndStep(p) \/ MoveStep(p)
         \/ LoadStep(p) \/ OutsideStep(p)
         \/ \E n \in Nodes : PriorStep(p, n)
  PROVE  ~Pending(p)' /\ UNCHANGED <<row, class, out, fired>>
<1>0. UNCHANGED <<row, class, out, fired>>
  BY DEF ShedStep, LeaveStep, EndStep, MoveStep, LoadStep, OutsideStep,
         PriorStep, PassStep, rowVars
<1>1. CASE ShedStep(p)
  <2>1. todo'[p] \in Seq(QuietOps)
    BY <1>1 DEF ShedStep, BaseInv, Shape, ShapeOf
  <2> QED
    BY <1>0, <2>1, QuietShapeNext
<1>2. CASE \/ LeaveStep(p) \/ EndStep(p) \/ MoveStep(p) \/ LoadStep(p)
           \/ \E n \in Nodes : PriorStep(p, n)
  <2>1. \E S \in SUBSET QuietOps : todo'[p] \in Seq(S)
    BY <1>2, QuietSets, PathShapes
       DEF LeaveStep, EndStep, MoveStep, LoadStep, PriorStep
  <2> QED
    BY <1>0, <2>1, QuietShapeNext
<1>3. CASE OutsideStep(p)
  <2>1. CASE todo'[p] \in Seq(EmitOps)
    BY <1>0, <2>1, QuietSets, QuietShapeNext
  <2>2. CASE Begins(todo'[p], StatusOp("running"), EmitOps)
    BY <1>0, <2>2 DEF Begins, Pending, StatusOp
  <2> QED
    BY <1>3, <2>1, <2>2 DEF OutsideStep
<1> QED
  BY <1>1, <1>2, <1>3

\* What a node that is passed is going to be recorded as.
LEMMA SkipEntry ==
  ASSUME NEW p, NEW n \in Nodes, SkipStep(p, n)
  PROVE  /\ Pending(p)' /\ Entry(p)'.node = n /\ Entry(p)'.to = "skipped"
         /\ Tail(todo'[p]) \in Seq(EmitOps)
<1>1. PICK t \in {"skipped"}, o \in {"none"}, c \in {"skipped"} :
        Begins(todo'[p], EntryOf(n, t, o, c), EmitOps)
  BY DEF SkipStep
<1>2. \E S \in SUBSET QuietOps :
        Begins(todo'[p], EntryOf(n, t, o, c), S) /\ S = EmitOps
  BY <1>1, QuietSets
<1>3. t \in NodeStatus /\ o \in Outputs /\ c \in Classes
  BY DEF NodeStatus, Outputs, Classes
<1> QED
  BY <1>2, <1>3, EntryShape

LEMMA CompleteEntry ==
  ASSUME NEW p, NEW n \in Nodes, NEW o \in Outputs, CompleteStep(p, n, o)
  PROVE  /\ Pending(p)' /\ Entry(p)'.node = n /\ Entry(p)'.to = "completed"
         /\ Entry(p)'.out = o /\ Entry(p)'.class = "own" /\ o # "none"
         /\ Tail(todo'[p]) \in Seq(EmitOps)
<1>1. PICK t \in {"completed"}, c \in {"own"} :
        Begins(todo'[p], EntryOf(n, t, o, c), EmitOps)
  BY DEF CompleteStep
<1>2. PICK S \in SUBSET QuietOps :
        Begins(todo'[p], EntryOf(n, t, o, c), S) /\ S = EmitOps
  BY <1>1, QuietSets
<1>3. t \in NodeStatus /\ c \in Classes
  BY DEF NodeStatus, Classes
<1>4. o # "none"
  BY DEF CompleteStep
<1>5. /\ Pending(p)' /\ Entry(p)'.node = n /\ Entry(p)'.to = t
      /\ Entry(p)'.out = o /\ Entry(p)'.class = c
      /\ Tail(todo'[p]) \in Seq(EmitOps)
  BY <1>2, <1>3, EntryShape
<1> QED
  BY <1>4, <1>5

------------------------------------------------------------------------------
(* An effect never fires again once its node is recorded. *)

RowsHaveOut == \A n \in Nodes : row[n] = "completed" => out[n] # "none"

\* What p is about to record has an output, too, and a walker does not take a
\* node that lies ahead of it for open when that node is recorded completed.
Knows(p) ==
  /\ Pending(p) /\ Entry(p).to = "completed" => Entry(p).out # "none"
  /\ pc[p] \in Late =>
       \A n \in Nodes : n >= pos[p] /\ row[n] = "completed" => seen[p][n] # "none"
  /\ pc[p] \in {"ask", "execute", "insert"} => seen[p][pos[p]] = "none"

SeenKept == RowsHaveOut /\ \A p \in Procs : Knows(p)

LEMMA SeenKeptInit == Init => SeenKept
  BY DEF Init, SeenKept, RowsHaveOut, Knows, Pending, Late, Nothing

LEMMA SeenKeptNext ==
  ASSUME BaseInv, SeenKept, OneWalker, [Next]_vars
  PROVE  SeenKept'
<1>1. CASE NoStep
  BY <1>1 DEF NoStep, SeenKept, RowsHaveOut, Knows, Pending, Entry, rowVars
<1>2. ASSUME NEW p \in Procs, Others(p), StepOf(p)
      PROVE  SeenKept'
  <2>0. /\ pos[p] \in 1..(N + 1) /\ N \in Nat /\ Nodes = 1..N
        /\ row \in [Nodes -> NodeStatus] /\ out \in [Nodes -> Outputs]
        /\ seen[p] \in [Nodes -> Outputs \cup {"skipped"}]
    BY WorkflowAssumption DEF BaseInv, TypeOK, DbTypeOK, ProcTypeOK, Nodes
  <2>1. Knows(p) /\ RowsHaveOut
    BY DEF SeenKept
  <2>2. CASE DoRecord(p)
    <3>1. /\ Pending(p) /\ ~Pending(p)' /\ Entry(p) \in RecordOps
          /\ row' = [row EXCEPT ![Entry(p).node] = Entry(p).to]
          /\ out' = [out EXCEPT ![Entry(p).node] = Entry(p).out]
          /\ Kept(p)
      BY <2>2, RecordView
    <3>2. RowsHaveOut'
      BY <2>0, <2>1, <3>1 DEF RowsHaveOut, Knows, RecordOps
    <3>3. Knows(p)'
      <4>1. CASE pc[p] = "walk"
        <5>1. Entry(p).node = pos[p] - 1
          BY <3>1, <4>1 DEF BaseInv, Shape, ShapeOf
        <5>2. \A n \in Nodes : n >= pos[p] => row'[n] = row[n]
          BY <2>0, <3>1, <5>1
        <5> QED
          BY <2>1, <3>1, <4>1, <5>2 DEF Knows, Kept
      <4>2. CASE pc[p] # "walk"
        <5>1. pc[p] \notin Late
          <6>1. pc[p] \in Late => todo[p] \in Seq(EmitOps)
            BY <4>2 DEF BaseInv, Shape, ShapeOf, Late
          <6>2. todo[p] \notin Seq(EmitOps)
            BY <3>1, PendingActive
          <6> QED
            BY <6>1, <6>2
        <5> QED
          BY <3>1, <5>1 DEF Knows, Kept, Late
      <4> QED
        BY <4>1, <4>2
    <3>4. ASSUME NEW q \in Procs, q # p
          PROVE  Knows(q)'
      <4>1. ~Active(q)
        BY <3>1, <3>4, PendingActive DEF OneWalker
      <4>2. ~Pending(q) /\ pc[q] \notin Late
        BY <4>1, PendingActive DEF Active, Walking, Late
      <4> QED
        BY <1>2, <3>4, <4>2, OthersView DEF Knows, Late
    <3> QED
      BY <3>2, <3>3, <3>4 DEF SeenKept
  <2>3. CASE UNCHANGED <<row, out>> /\ Knows(p)'
    <3>1. ASSUME NEW q \in Procs, q # p
          PROVE  Knows(q)'
      <4>1. Knows(q)
        BY DEF SeenKept
      <4> QED
        BY <1>2, <2>3, <3>1, <4>1, OthersView DEF Knows
    <3> QED
      BY <2>1, <2>3, <3>1 DEF SeenKept, RowsHaveOut
  <2>4. CASE ShedStep(p) \/ LeaveStep(p) \/ EndStep(p) \/ OutsideStep(p)
    <3>1. ~Pending(p)' /\ UNCHANGED <<row, out>>
      BY <2>4, QuietSteps
    <3>2. \/ pc'[p] \notin Late
          \/ pc'[p] = pc[p] /\ pos'[p] = pos[p] /\ seen'[p] = seen[p]
      BY <2>4 DEF ShedStep, LeaveStep, EndStep, OutsideStep, Kept, Late
    <3>3. Knows(p)'
      BY <2>1, <3>1, <3>2 DEF Knows, Late
    <3> QED
      BY <2>3, <3>1, <3>3
  <2>5. CASE MoveStep(p)
    <3>1. ~Pending(p)' /\ UNCHANGED <<row, out>>
      BY <2>5, QuietSteps
    <3>2. /\ pos'[p] = pos[p] /\ seen'[p] = seen[p] /\ pc[p] \in Late
          /\ pc'[p] \in {"ask", "execute", "insert"} => seen[p][pos[p]] = "none"
      BY <2>1, <2>5 DEF MoveStep, Open, Late, Knows
    <3>3. Knows(p)'
      BY <2>1, <3>1, <3>2 DEF Knows
    <3> QED
      BY <2>3, <3>1, <3>3
  <2>6. CASE LoadStep(p)
    <3>1. ~Pending(p)' /\ UNCHANGED <<row, out>>
      BY <2>6, QuietSteps
    <3>2. /\ pc'[p] = "approvals"
          /\ \A n \in Nodes : row[n] = "completed" => seen'[p][n] = out[n]
      BY <2>6 DEF LoadStep
    <3>3. Knows(p)'
      BY <2>1, <3>1, <3>2 DEF Knows, RowsHaveOut
    <3> QED
      BY <2>3, <3>1, <3>3
  <2>7. ASSUME NEW n \in Nodes, PauseStep(p, n) \/ FailStep(p, n)
        PROVE  SeenKept'
    <3>1. /\ Entry(p)'.to # "completed" /\ pc'[p] \in {"done", "saga"}
          /\ UNCHANGED <<row, out>>
      BY <2>7, GiveUpEntry DEF rowVars
    <3>2. Knows(p)'
      BY <3>1 DEF Knows, Late
    <3> QED
      BY <2>3, <3>1, <3>2
  <2>8. ASSUME NEW n \in Nodes, NEW o \in Outputs \cup {"skipped"},
               PassStep(p, n, o), pc[p] \in Late,
               Pending(p)' /\ Entry(p)'.to = "completed" => Entry(p)'.out # "none"
        PROVE  SeenKept'
    <3>1. /\ UNCHANGED <<row, out>> /\ pc'[p] = "walk" /\ pos'[p] = n + 1
          /\ pos[p] = n /\ seen'[p] = [seen[p] EXCEPT ![n] = o] /\ n \in Nat
      BY <2>8 DEF PassStep, rowVars, Nodes
    <3>2. \A m \in Nodes : m >= n + 1 => m >= n /\ seen'[p][m] = seen[p][m]
      BY <2>0, <3>1
    <3>3. Knows(p)'
      BY <2>1, <2>8, <3>1, <3>2 DEF Knows
    <3> QED
      BY <2>3, <3>1, <3>3
  <2>9. ASSUME NEW n \in Nodes, PriorStep(p, n)
        PROVE  SeenKept'
    <3>1. ~Pending(p)'
      BY <2>9, QuietSteps
    <3>2. seen[p][n] \in Outputs \cup {"skipped"} /\ PassStep(p, n, seen[p][n])
          /\ pc[p] \in Late
      BY <2>0, <2>9 DEF PriorStep, Late
    <3> QED
      BY <2>8, <3>1, <3>2
  <2>10. ASSUME NEW n \in Nodes, SkipStep(p, n)
         PROVE  SeenKept'
    <3>1. PassStep(p, n, "skipped") /\ pc[p] \in Late
      BY <2>10 DEF SkipStep, Late
    <3> QED
      BY <2>8, <2>10, <3>1, SkipEntry
  <2>11. ASSUME NEW n \in Nodes, NEW o \in Outputs, CompleteStep(p, n, o)
         PROVE  SeenKept'
    <3>1. PassStep(p, n, o) /\ pc[p] \in Late
      BY <2>11 DEF CompleteStep, Late
    <3> QED
      BY <2>8, <2>11, <3>1, CompleteEntry
  <2> QED
    BY <1>2, <2>2, <2>4, <2>5, <2>6, <2>7, <2>9, <2>10, <2>11 DEF StepOf
<1> QED
  BY <1>1, <1>2, WalkSteps DEF BaseInv

\* The step that fires an effect is taken by a walker that holds it for open.
LEMMA FiresOpen ==
  ASSUME BaseInv, SeenKept, NEW p \in Procs, StepOf(p), NEW n \in Nodes,
         fired'[n] # fired[n]
  PROVE  /\ todo[p] = <<>> /\ pos[p] = n /\ pc[p] \in Late
         /\ seen[p][n] = "none" /\ row[n] # "completed"
<1>0. fired \in [Nodes -> Nat]
  BY DEF BaseInv, TypeOK, HistTypeOK
<1>1. PICK m \in Nodes : \/ FailStep(p, m)
                         \/ \E o \in Outputs : CompleteStep(p, m, o)
  <2>1. /\ ~DoRecord(p) /\ \A m \in Nodes : ~PauseStep(p, m) /\ ~SkipStep(p, m)
    BY RecordView DEF PauseStep, SkipStep
  <2>2. /\ ~ShedStep(p) /\ ~LeaveStep(p) /\ ~EndStep(p) /\ ~MoveStep(p)
        /\ ~LoadStep(p) /\ ~OutsideStep(p)
        /\ \A m \in Nodes : ~PriorStep(p, m)
    BY QuietSteps
  <2> QED
    BY <2>1, <2>2 DEF StepOf
<1>2. /\ Fire(m) /\ todo[p] = <<>> /\ pos[p] = m
      /\ pc[p] \in {"walk", "ask", "execute", "insert"}
      /\ pc[p] = "walk" => Open(p, m)
  BY <1>1 DEF FailStep, CompleteStep, PassStep, AtNode
<1>3. m = n
  BY <1>0, <1>2 DEF Fire
<1>4. seen[p][n] = "none"
  BY <1>2, <1>3 DEF SeenKept, Knows, Open
<1>5. row[n] # "completed"
  BY <1>2, <1>3, <1>4 DEF SeenKept, Knows, Late, Nodes
<1> QED
  BY <1>2, <1>3, <1>4, <1>5 DEF Late

\* An effect never fires again once its node is recorded completed, whatever
\* fails, as long as no two walks of the run overlap.
THEOREM CompletedFiresOnce == Spec /\ []OneWalker => CompletedFiresNoMore
<1>1. BaseInv /\ SeenKept /\ OneWalker /\ [Next]_vars => SeenKept'
  BY SeenKeptNext
<1>2. BaseInv /\ SeenKept /\ [Next]_vars =>
        [\A n \in Effects : row[n] = "completed" => fired'[n] = fired[n]]_vars
  <2> SUFFICES ASSUME BaseInv, SeenKept, [Next]_vars, NEW n \in Effects,
                      row[n] = "completed"
               PROVE  fired'[n] = fired[n]
    OBVIOUS
  <2>1. n \in Nodes
    BY WorkflowAssumption
  <2>2. ASSUME NEW p \in Procs, StepOf(p)
        PROVE  fired'[n] = fired[n]
    BY <2>1, <2>2, FiresOpen
  <2> QED
    BY <2>2, WalkSteps DEF BaseInv, NoStep
<1> QED
  BY <1>1, <1>2, BaseCorrect, SeenKeptInit, PTL DEF Spec, CompletedFiresNoMore

------------------------------------------------------------------------------
(* Only effects that were fired are compensated. *)

\* An effect is fired by the steps that fire it, and never taken back.
LEMMA FiredGrows ==
  ASSUME BaseInv, [Next]_vars, NEW n \in Nodes
  PROVE  fired[n] \in Nat /\ fired'[n] \in Nat /\ fired'[n] >= fired[n]
<1>0. fired \in [Nodes -> Nat]
  BY DEF BaseInv, TypeOK, HistTypeOK
<1>1. CASE NoStep
  BY <1>0, <1>1 DEF NoStep
<1>2. ASSUME NEW p \in Procs, StepOf(p)
      PROVE  UNCHANGED fired \/ \E m \in Nodes : Fire(m)
  <2>1. CASE DoRecord(p)
    BY <2>1, RecordView
  <2>2. ASSUME NEW m \in Nodes,
               \/ PauseStep(p, m) \/ FailStep(p, m) \/ SkipStep(p, m)
               \/ \E o \in Outputs : CompleteStep(p, m, o)
        PROVE  UNCHANGED fired \/ Fire(m)
    BY <2>2 DEF PauseStep, FailStep, SkipStep, CompleteStep
  <2> QED
    BY <1>2, <2>1, <2>2, QuietSteps DEF StepOf
<1> QED
  BY <1>0, <1>1, <1>2, WalkSteps DEF Fire, BaseInv

\* A process that returns has nothing to compensate any more.
LEMMA LeaveUndo ==
  ASSUME TypeOK, NEW p \in Procs, NEW ops, Leave(p, ops), NEW q \in Procs
  PROVE  undo'[q] \subseteq undo[q]
  BY DEF Leave, TypeOK, ProcTypeOK

\* A saga is about nodes that were recorded when it was loaded, and a node is
\* compensated by the saga that is about it.
LEMMA UndoView ==
  ASSUME TypeOK, [Next]_vars
  PROVE  /\ \A q \in Procs : undo'[q] \subseteq undo[q] \cup Compensable
         /\ \A n \in undone' : n \in undone \/ \E q \in Procs : n \in undo[q]
<1> USE DEF dbVars, runVars, gateVars, procVars, walkVars, histVars
<1> DEFINE Same == UNCHANGED undone /\ \A q \in Procs : undo'[q] \subseteq undo[q]
<1>1. CASE UNCHANGED vars \/ \E n \in Nodes : Escalate(n)
  BY <1>1 DEF vars, Escalate
<1>2. ASSUME NEW p \in Procs, Request(p) \/ Write(p) \/ LoseWrite(p)
      PROVE  Same
  BY <1>2 DEF Request, StartRun, StopRead, ReplayRead, PickApproval, Write,
              DoStatus, DoRecord, DoEmit, LoseWrite
<1>3. ASSUME NEW p \in Procs, Handle(p) \/ Load(p) \/ LoadFails(p)
      PROVE  Same
  <2>1. CASE StopWrite(p) \/ Advance(p) \/ Refuse(p) \/ LoadFails(p)
    <3>1. UNCHANGED undone /\ ((\E ops : Leave(p, ops)) \/ UNCHANGED undo)
      BY <2>1 DEF StopWrite, Advance, Refuse, LoadFails
    <3> QED
      BY <3>1, LeaveUndo
  <2>2. CASE Load(p)
    BY <2>2 DEF Load, Enter, LoadWorkflow, LoadOutputs, LoadApprovals
  <2>3. CASE Approve(p) \/ Reject(p) \/ StopAnchor(p) \/ ReplayWrite(p)
    BY <2>3 DEF Approve, Reject, StopAnchor, ReplayWrite
  <2>4. CASE CheckResume(p)
    <3>1. UNCHANGED undone /\ ((\E ops : Leave(p, ops)) \/ UNCHANGED undo)
      BY <2>4 DEF CheckResume
    <3> QED
      BY <3>1, LeaveUndo
  <2> QED
    BY <1>3, <2>1, <2>2, <2>3, <2>4 DEF Handle
<1>4. ASSUME NEW p \in Procs, LoseEmit(p) \/ EndOfWalk(p) \/ Interrupted(p)
                              \/ Crash(p) \/ SagaEnds(p)
      PROVE  Same
  <2>1. UNCHANGED undone /\ ((\E ops : Leave(p, ops)) \/ UNCHANGED undo)
    BY <1>4 DEF LoseEmit, EndOfWalk, Interrupted, Crash, SagaEnds
  <2> QED
    BY <2>1, LeaveUndo
<1>5. ASSUME NEW p \in Procs, NEW n \in Nodes,
             \/ Visit(p, n) \/ NoExecutor(p, n) \/ OversightFailsOpen(p, n)
      PROVE  Same
  <2>1. CASE FailRejected(p, n) \/ PauseForOversight(p, n) \/ NoExecutor(p, n)
    <3>1. UNCHANGED undone /\ \E ops : Leave(p, ops)
      BY <2>1 DEF FailRejected, PauseForOversight, NoExecutor
    <3> QED
      BY <3>1, LeaveUndo
  <2> QED
    BY <1>5, <2>1 DEF Visit, PassPrior, SkipDead, PassApproved, AskOversight,
                      Proceed, OversightFailsOpen, Passed
<1>6. ASSUME NEW p \in Procs, NEW n \in Nodes,
             \/ Execute(p, n) \/ ExecFails(p, n) \/ ExecFailsLate(p, n)
             \/ DecisionUnnamed(p, n)
      PROVE  Same
  <2>1. CASE GatePauses(p, n) \/ DecisionUnnamed(p, n)
    <3>1. UNCHANGED undone /\ \E ops : Leave(p, ops)
      BY <2>1 DEF GatePauses, DecisionUnnamed
    <3> QED
      BY <3>1, LeaveUndo
  <2> QED
    BY <1>6, <2>1 DEF Execute, GateLetsThrough, EffectFires, DedupHit, DedupMiss,
                      DedupInsert, PureCompletes, DecisionTaken, Completed, Passed,
                      ExecFails, ExecFailsLate, Fails
<1>7. ASSUME NEW p \in Procs, SagaLoad(p)
      PROVE  /\ UNCHANGED undone
             /\ \A q \in Procs : undo'[q] \subseteq undo[q] \cup Compensable
  <2>1. CASE Compensable = {}
    BY <1>7, <2>1, LeaveUndo DEF SagaLoad
  <2>2. CASE Compensable # {}
    BY <1>7, <2>2 DEF SagaLoad, TypeOK, ProcTypeOK
  <2> QED
    BY <2>1, <2>2
<1>8. ASSUME NEW p \in Procs, NEW n \in Nodes, Undo(p, n) \/ UndoFails(p, n)
      PROVE  /\ undone' \subseteq undone \cup undo[p]
             /\ \A q \in Procs : undo'[q] \subseteq undo[q]
  BY <1>8 DEF Undo, UndoFails, TypeOK, ProcTypeOK
<1> QED
  BY <1>1, <1>2, <1>3, <1>4, <1>5, <1>6, <1>7, <1>8
     DEF Next, Step, Disturb, Compensate

\* What is recorded as the completion of an effect was fired, and so was all
\* that a saga is about.
OwnFired(p) ==
  /\ Pending(p) /\ Entry(p).to = "completed" /\ Entry(p).node \in Effects
       => fired[Entry(p).node] > 0
  /\ \A n \in undo[p] : n \in Effects /\ fired[n] > 0

RowsFired == \A n \in Effects : row[n] = "completed" => fired[n] > 0

FiredInv == RowsFired /\ (\A p \in Procs : OwnFired(p)) /\ UndoneWasFired

LEMMA FiredInit == Init => FiredInv
  BY WorkflowAssumption
     DEF Init, FiredInv, RowsFired, OwnFired, UndoneWasFired, Pending, Nothing

LEMMA FiredNext ==
  ASSUME BaseInv, FiredInv, [Next]_vars
  PROVE  FiredInv'
<1>0. /\ row \in [Nodes -> NodeStatus] /\ fired \in [Nodes -> Nat]
      /\ Effects \subseteq Nodes /\ undone \subseteq Nodes
  BY WorkflowAssumption DEF BaseInv, TypeOK, DbTypeOK, HistTypeOK
<1>1. \A n \in Nodes : fired[n] > 0 => fired'[n] > 0
  BY FiredGrows
<1>2. /\ RowsFired
      /\ \A q \in Procs : \A n \in undo[q] : n \in Effects /\ fired[n] > 0
      /\ \A n \in undone : fired[n] > 0
  BY DEF FiredInv, OwnFired, UndoneWasFired
<1>3. \A q \in Procs : \A n \in undo'[q] : n \in Effects /\ fired'[n] > 0
  <2> SUFFICES ASSUME NEW q \in Procs, NEW n \in undo'[q]
               PROVE  n \in Effects /\ fired'[n] > 0
    OBVIOUS
  <2>1. n \in undo[q] \/ n \in Compensable
    BY UndoView DEF BaseInv
  <2>2. n \in Effects /\ fired[n] > 0
    BY <1>2, <2>1 DEF Compensable, RowsFired
  <2> QED
    BY <1>0, <1>1, <2>2
<1>4. UndoneWasFired'
  <2> SUFFICES ASSUME NEW n \in undone'
               PROVE  fired'[n] > 0
    BY DEF UndoneWasFired
  <2>1. n \in undone \/ \E q \in Procs : n \in undo[q]
    BY UndoView DEF BaseInv
  <2>2. n \in Nodes /\ fired[n] > 0
    BY <1>0, <1>2, <2>1
  <2> QED
    BY <1>1, <2>2
<1>5. CASE UNCHANGED row /\ \A q \in Procs :
             Pending(q)' /\ Entry(q)'.to = "completed" /\ Entry(q)'.node \in Effects
               => fired'[Entry(q)'.node] > 0
  <2>1. RowsFired'
    BY <1>0, <1>1, <1>2, <1>5 DEF RowsFired
  <2>2. \A q \in Procs : OwnFired(q)'
    BY <1>3, <1>5 DEF OwnFired
  <2> QED
    BY <1>4, <2>1, <2>2 DEF FiredInv
<1>6. CASE NoStep
  BY <1>5, <1>6 DEF NoStep, rowVars, FiredInv, OwnFired, Pending, Entry
<1>7. ASSUME NEW p \in Procs, Others(p), StepOf(p)
      PROVE  FiredInv'
  <2>1. ASSUME NEW q \in Procs, q # p, Pending(q)', Entry(q)'.to = "completed",
               Entry(q)'.node \in Effects
        PROVE  fired'[Entry(q)'.node] > 0
    <3>1. Pending(q) /\ Entry(q)' = Entry(q)
      BY <1>7, <2>1, OthersView
    <3>2. fired[Entry(q).node] > 0 /\ Entry(q).node \in Nodes
      BY <1>0, <2>1, <3>1 DEF FiredInv, OwnFired
    <3> QED
      BY <1>1, <3>1, <3>2
  <2>2. CASE UNCHANGED row /\ ~Pending(p)'
    BY <1>5, <2>1, <2>2
  <2>3. CASE DoRecord(p)
    <3>1. /\ Pending(p) /\ ~Pending(p)' /\ Entry(p) \in RecordOps
          /\ row' = [row EXCEPT ![Entry(p).node] = Entry(p).to]
      BY <2>3, RecordView
    <3>2. RowsFired'
      <4> SUFFICES ASSUME NEW n \in Effects, row'[n] = "completed"
                   PROVE  fired'[n] > 0
        BY DEF RowsFired
      <4>1. CASE n = Entry(p).node
        <5>1. Entry(p).to = "completed"
          BY <1>0, <3>1, <4>1 DEF RecordOps
        <5>2. fired[n] > 0
          BY <3>1, <4>1, <5>1 DEF FiredInv, OwnFired
        <5> QED
          BY <1>0, <1>1, <5>2
      <4>2. CASE n # Entry(p).node
        BY <1>0, <1>1, <1>2, <3>1, <4>2 DEF RowsFired
      <4> QED
        BY <4>1, <4>2
    <3>3. \A q \in Procs : OwnFired(q)'
      BY <1>3, <2>1, <3>1 DEF OwnFired
    <3> QED
      BY <1>4, <3>2, <3>3 DEF FiredInv
  <2>4. ASSUME NEW n \in Nodes,
               PauseStep(p, n) \/ FailStep(p, n) \/ SkipStep(p, n)
        PROVE  FiredInv'
    <3>1. Entry(p)'.to # "completed" /\ UNCHANGED row
      <4>1. CASE PauseStep(p, n) \/ FailStep(p, n)
        BY <4>1, GiveUpEntry DEF rowVars
      <4>2. CASE SkipStep(p, n)
        BY <4>2, SkipEntry DEF SkipStep, PassStep, rowVars
      <4> QED
        BY <2>4, <4>1, <4>2
    <3> QED
      BY <1>5, <2>1, <3>1
  <2>5. ASSUME NEW n \in Nodes, NEW o \in Outputs, CompleteStep(p, n, o)
        PROVE  FiredInv'
    <3>1. Entry(p)'.node = n /\ UNCHANGED row
      BY <2>5, CompleteEntry DEF CompleteStep, PassStep, rowVars
    <3>2. n \in Effects => fired'[n] > 0
      BY <1>0, <1>1, <2>5 DEF CompleteStep, Fire
    <3> QED
      BY <1>5, <2>1, <3>1, <3>2
  <2> QED
    BY <1>7, <2>2, <2>3, <2>4, <2>5, QuietSteps DEF StepOf
<1> QED
  BY <1>6, <1>7, WalkSteps DEF BaseInv

\* Only effects that were fired are compensated, whatever fails and however
\* many walks, stops and replays of the run overlap.
THEOREM OnlyFiredUndone == Spec => []UndoneWasFired
<1>1. BaseInv /\ FiredInv /\ [Next]_vars => FiredInv'
  BY FiredNext
<1>2. FiredInv => UndoneWasFired
  BY DEF FiredInv
<1> QED
  BY <1>1, <1>2, BaseCorrect, FiredInit, PTL DEF Spec

------------------------------------------------------------------------------
(* One message per node. *)

\* No two processes are about to insert the message of the same node.
OneInsert ==
  \A p, q \in Procs :
    pc[p] = "insert" /\ pc[q] = "insert" /\ pos[p] = pos[q] => p = q

\* Whoever is about to insert a message has found none, and is still right.
Missed(p) == pc[p] = "insert" => pos[p] \in Dedup /\ fired[pos[p]] = 0

DedupInv == DedupOnce /\ \A p \in Procs : Missed(p)

LEMMA DedupInit == Init => DedupInv
  BY WorkflowAssumption DEF Init, DedupInv, DedupOnce, Missed

LEMMA DedupNext ==
  ASSUME BaseInv, DedupInv, OneInsert, [Next]_vars
  PROVE  DedupInv'
<1>0. fired \in [Nodes -> Nat] /\ Dedup \subseteq Nodes
  BY WorkflowAssumption DEF BaseInv, TypeOK, HistTypeOK
<1>1. CASE NoStep
  BY <1>1 DEF NoStep, DedupInv, DedupOnce, Missed
<1>2. ASSUME NEW p \in Procs, Others(p), StepOf(p)
      PROVE  DedupInv'
  <2>1. \A q \in Procs \ {p} : /\ pc'[q] = pc[q] /\ pos'[q] = pos[q]
                               /\ Missed(q)
    BY <1>2, OthersView DEF DedupInv
  <2>2. CASE UNCHANGED fired /\ Missed(p)'
    BY <2>1, <2>2 DEF DedupInv, DedupOnce, Missed
  <2>3. CASE DoRecord(p) \/ ShedStep(p)
    <3>1. UNCHANGED fired /\ pc'[p] = pc[p] /\ pos'[p] = pos[p]
      BY <2>3, RecordView, QuietSteps DEF ShedStep, Kept
    <3> QED
      BY <2>2, <3>1 DEF DedupInv, Missed
  <2>4. CASE UNCHANGED fired /\ pc'[p] # "insert"
    BY <2>2, <2>4 DEF Missed
  <2>5. CASE LeaveStep(p) \/ EndStep(p) \/ LoadStep(p) \/ OutsideStep(p)
             \/ \E n \in Nodes : PriorStep(p, n)
    <3>1. UNCHANGED fired
      BY <2>5, QuietSteps
    <3> QED
      BY <2>4, <2>5, <3>1
         DEF LeaveStep, EndStep, LoadStep, OutsideStep, PriorStep, PassStep, Late
  <2>6. CASE MoveStep(p)
    <3>1. UNCHANGED fired
      BY <2>6, QuietSteps
    <3>2. Missed(p)'
      BY <2>6, <3>1 DEF MoveStep, Missed
    <3> QED
      BY <2>2, <3>1, <3>2
  <2>7. ASSUME NEW n \in Nodes, SkipStep(p, n) \/ PauseStep(p, n)
        PROVE  DedupInv'
    BY <2>4, <2>7 DEF SkipStep, PauseStep, PassStep
  <2>8. ASSUME NEW n \in Nodes, Fire(n), pc'[p] # "insert",
               n \in Dedup => pc[p] = "insert" /\ pos[p] = n
        PROVE  DedupInv'
    <3>1. \A m \in Nodes : fired'[m] = IF m = n THEN fired[n] + 1 ELSE fired[m]
      BY <1>0, <2>8 DEF Fire
    <3>2. n \in Dedup => fired[n] = 0
      BY <2>8 DEF DedupInv, Missed
    <3>3. DedupOnce'
      BY <1>0, <3>1, <3>2 DEF DedupInv, DedupOnce
    <3>4. ASSUME NEW q \in Procs, q # p, pc[q] = "insert"
          PROVE  pos[q] # n
      BY <2>1, <2>8, <3>4 DEF OneInsert, Missed
    <3>5. ASSUME NEW q \in Procs, q # p
          PROVE  Missed(q)'
      BY <1>0, <2>1, <3>1, <3>4, <3>5 DEF Missed
    <3>6. Missed(p)'
      BY <2>8 DEF Missed
    <3> QED
      BY <3>3, <3>5, <3>6 DEF DedupInv
  <2>9. ASSUME NEW n \in Nodes, FailStep(p, n)
        PROVE  DedupInv'
    <3>1. pc'[p] # "insert" /\ (UNCHANGED fired \/ (Fire(n) /\ n \notin Dedup))
      BY <2>9 DEF FailStep
    <3> QED
      BY <2>4, <2>8, <3>1
  <2>10. ASSUME NEW n \in Nodes, NEW o \in Outputs, CompleteStep(p, n, o)
         PROVE  DedupInv'
    <3>1. /\ pc'[p] # "insert" /\ pos[p] = n
          /\ UNCHANGED fired \/ (Fire(n) /\ (n \in Dedup => pc[p] = "insert"))
      BY <2>10 DEF CompleteStep, PassStep
    <3> QED
      BY <2>4, <2>8, <3>1
  <2> QED
    BY <1>2, <2>3, <2>5, <2>6, <2>7, <2>9, <2>10 DEF StepOf
<1> QED
  BY <1>1, <1>2, WalkSteps DEF BaseInv

\* send_email sends one message per node, whatever fails and however often the
\* run is replayed, as long as no two walks stand between the SELECT and the
\* INSERT of the same node: no unique index backs the check.
THEOREM OneMessage == Spec /\ []OneInsert => []DedupOnce
<1>1. BaseInv /\ DedupInv /\ OneInsert /\ [Next]_vars => DedupInv'
  BY DedupNext
<1>2. DedupInv => DedupOnce
  BY DEF DedupInv
<1> QED
  BY <1>1, <1>2, BaseCorrect, DedupInit, PTL DEF Spec

------------------------------------------------------------------------------
(* An effect is fired once, and once more for each failure that hides it. *)

\* Failures are counted, and never forgotten.
LEMMA FaultsGrow ==
  ASSUME TypeOK, [Next]_vars
  PROVE  faults \in Nat /\ faults' \in {faults, faults + 1}
<1>0. faults \in Nat
  BY WorkflowAssumption DEF TypeOK, HistTypeOK
<1>1. UNCHANGED vars => UNCHANGED faults
  BY DEF vars
<1>6. ASSUME NEW n \in Nodes, Escalate(n)
      PROVE  faults' = faults + 1
  BY <1>6 DEF Escalate, Fault
<1>2. ASSUME NEW p \in Procs, Request(p) \/ Handle(p) \/ Write(p)
      PROVE  UNCHANGED faults
  BY <1>2 DEF Request, StartRun, StopRead, ReplayRead, PickApproval, Handle,
              Advance, Approve, Reject, Refuse, CheckResume, StopAnchor, StopWrite,
              ReplayWrite, Write, DoStatus, DoRecord, DoEmit
<1>3. ASSUME NEW p \in Procs, Load(p) \/ Compensate(p) \/ EndOfWalk(p)
      PROVE  UNCHANGED faults
  BY <1>3 DEF Load, Enter, LoadWorkflow, LoadOutputs, LoadApprovals, Compensate,
              SagaLoad, SagaEnds, Undo, EndOfWalk
<1>4. ASSUME NEW p \in Procs, NEW n \in Nodes, Visit(p, n) \/ Execute(p, n)
      PROVE  UNCHANGED faults
  BY <1>4 DEF Visit, PassPrior, SkipDead, PassApproved, FailRejected, AskOversight,
              PauseForOversight, Proceed, Execute, GateLetsThrough, GatePauses,
              EffectFires, DedupHit, DedupMiss, DedupInsert, PureCompletes,
              DecisionTaken
<1>5. ASSUME NEW p \in Procs, Disturb(p)
      PROVE  faults' = faults + 1
  BY <1>5 DEF Disturb, LoseWrite, LoseEmit, LoadFails, Interrupted, Crash,
              NoExecutor, OversightFailsOpen, ExecFails, ExecFailsLate,
              DecisionUnnamed, UndoFails, Fault
<1> QED
  BY <1>0, <1>1, <1>2, <1>3, <1>4, <1>5, <1>6 DEF Next, Step

\* The failures that hide an effect from the walks that come after: its record
\* is lost, or never attempted.
Losing == {"write", "execlate", "interrupt", "crash"}

Extra == IF Faults \cap Losing = {} THEN 0 ELSE faults

\* The completion of n is recorded, or p is about to record it.
Records(p, n) == Pending(p) /\ Entry(p).node = n /\ Entry(p).to = "completed"
Held(n) == row[n] = "completed" \/ \E p \in Procs : Records(p, n)

FiredBound == \A n \in Effects : fired[n] <= Extra + (IF Held(n) THEN 1 ELSE 0)

\* Nobody is about to overwrite a completed node.
NoOverwrite == \A p \in Procs : Pending(p) => row[Entry(p).node] # "completed"

BoundInv == FiredBound /\ NoOverwrite

LEMMA BoundInit == Init => BoundInv
<1> SUFFICES ASSUME Init
             PROVE  BoundInv
  OBVIOUS
<1>1. /\ \A n \in Effects : fired[n] = 0
      /\ \A p \in Procs : ~Pending(p)
      /\ faults = 0
  BY WorkflowAssumption DEF Init, Pending
<1> QED
  BY <1>1 DEF BoundInv, FiredBound, NoOverwrite, Extra

LEMMA BoundNext ==
  ASSUME BaseInv, SeenKept, BoundInv, OneWalker, [Next]_vars
  PROVE  BoundInv'
<1>0. /\ fired \in [Nodes -> Nat] /\ row \in [Nodes -> NodeStatus]
      /\ Effects \subseteq Nodes
  BY WorkflowAssumption DEF BaseInv, TypeOK, DbTypeOK, HistTypeOK
<1>1. Extra \in Nat /\ Extra' \in Nat /\ Extra' >= Extra
  BY FaultsGrow DEF BaseInv, Extra
<1>2. CASE NoStep
  <2>1. /\ UNCHANGED <<fired, row>>
        /\ \A q \in Procs : /\ Pending(q)' <=> Pending(q)
                            /\ Entry(q)' = Entry(q)
    BY <1>2 DEF NoStep, rowVars, Pending, Entry
  <2>2. \A n \in Nodes : Held(n)' <=> Held(n)
    BY <2>1 DEF Held, Records
  <2>3. FiredBound'
    BY <1>0, <1>1, <2>1, <2>2 DEF BoundInv, FiredBound
  <2>4. NoOverwrite'
    BY <2>1 DEF BoundInv, NoOverwrite
  <2> QED
    BY <2>3, <2>4 DEF BoundInv
<1>3. ASSUME NEW p \in Procs, Others(p), StepOf(p)
      PROVE  BoundInv'
  <2>1. ASSUME NEW q \in Procs, q # p
        PROVE  /\ (Pending(q)' <=> Pending(q)) /\ Entry(q)' = Entry(q)
               /\ \A n \in Nodes : Records(q, n)' <=> Records(q, n)
    BY <1>3, <2>1, OthersView DEF Records
  <2>2. ASSUME Active(p)
        PROVE  \A q \in Procs \ {p} : ~Pending(q)
    BY <2>2, PendingActive DEF OneWalker
  <2>3. ASSUME UNCHANGED row, Pending(p)' => row[Entry(p)'.node] # "completed"
        PROVE  NoOverwrite'
    BY <2>1, <2>3 DEF BoundInv, NoOverwrite
  <2>4. CASE DoRecord(p)
    <3> DEFINE m == Entry(p).node
    <3>1. /\ Pending(p) /\ ~Pending(p)' /\ m \in Nodes /\ UNCHANGED fired
          /\ row' = [row EXCEPT ![m] = Entry(p).to]
      BY <2>4, RecordView DEF RecordOps
    <3>2. \A q \in Procs \ {p} : ~Pending(q) /\ ~Pending(q)'
      BY <2>1, <2>2, <3>1, PendingActive
    <3>3. row[m] # "completed"
      BY <3>1 DEF BoundInv, NoOverwrite
    <3>4. ASSUME NEW n \in Nodes, Held(n)
          PROVE  Held(n)'
      <4>1. CASE n = m
        <5>1. Entry(p).to = "completed"
          BY <3>2, <3>3, <3>4, <4>1 DEF Held, Records
        <5>2. row'[n] = "completed"
          BY <1>0, <3>1, <4>1, <5>1
        <5> QED
          BY <5>2 DEF Held
      <4>2. CASE n # m
        <5>1. row[n] = "completed"
          BY <3>2, <3>4, <4>2 DEF Held, Records
        <5>2. row'[n] = "completed"
          BY <1>0, <3>1, <4>2, <5>1
        <5> QED
          BY <5>2 DEF Held
      <4> QED
        BY <4>1, <4>2
    <3>5. FiredBound'
      BY <1>0, <1>1, <3>1, <3>4 DEF BoundInv, FiredBound
    <3>6. NoOverwrite'
      BY <3>1, <3>2 DEF NoOverwrite
    <3> QED
      BY <3>5, <3>6 DEF BoundInv
  <2>5. CASE \/ ShedStep(p) \/ LeaveStep(p) \/ EndStep(p) \/ MoveStep(p)
             \/ LoadStep(p) \/ OutsideStep(p) \/ \E n \in Nodes : PriorStep(p, n)
    <3>1. UNCHANGED <<row, fired>> /\ ~Pending(p)'
      BY <2>5, QuietSteps
    <3>2. NoOverwrite'
      BY <2>3, <3>1
    <3>3. CASE ~Pending(p)
      <4>1. \A n \in Nodes : Held(n) => Held(n)'
        BY <2>1, <3>1, <3>3 DEF Held, Records
      <4>2. FiredBound'
        BY <1>0, <1>1, <3>1, <4>1 DEF BoundInv, FiredBound
      <4> QED
        BY <3>2, <4>2 DEF BoundInv
    <3>4. CASE Pending(p)
      <4>1. Failure(Losing)
        BY <2>5, <3>4 DEF ShedStep, LeaveStep, EndStep, MoveStep, LoadStep,
              OutsideStep, PriorStep, PassStep, Pending, Failure, Losing
      <4>2. Extra' = Extra + 1
        BY <4>1 DEF Failure, Extra
      <4>3. FiredBound'
        BY <1>0, <1>1, <3>1, <4>2 DEF BoundInv, FiredBound
      <4> QED
        BY <3>2, <4>3 DEF BoundInv
    <3> QED
      BY <3>3, <3>4
  <2>6. ASSUME todo[p] = <<>>, NEW n \in Nodes, pos[p] = n, UNCHANGED row,
               Entry(p)'.node = n, pc[p] \in {"walk", "ask", "execute", "insert"},
               pc[p] = "walk" => Open(p, n),
               \/ UNCHANGED fired
               \/ Fire(n) /\ (Failure({"execlate"}) \/ Records(p, n)')
        PROVE  BoundInv'
    <3>1. ~Pending(p) /\ \A q \in Procs \ {p} : ~Pending(q)
      BY <2>2, <2>6 DEF Pending, Active, Walking
    <3>2. seen[p][n] = "none"
      BY <2>6 DEF SeenKept, Knows, Open
    <3>3. row[n] # "completed"
      BY <2>6, <3>2 DEF SeenKept, Knows, Late, Nodes
    <3>4. NoOverwrite'
      BY <2>3, <2>6, <3>3
    <3>5. \A m \in Nodes : Held(m) => Held(m)'
      BY <2>6, <3>1 DEF Held, Records
    <3>6. CASE UNCHANGED fired
      <4>1. FiredBound'
        BY <1>0, <1>1, <3>5, <3>6 DEF BoundInv, FiredBound
      <4> QED
        BY <3>4, <4>1 DEF BoundInv
    <3>7. CASE Fire(n)
      <4>1. \A m \in Nodes : fired'[m] = IF m = n THEN fired[n] + 1 ELSE fired[m]
        BY <1>0, <3>7 DEF Fire
      <4>2. CASE Failure({"execlate"})
        <5>1. Extra' = Extra + 1
          BY <4>2 DEF Failure, Extra, Losing
        <5>2. FiredBound'
          BY <1>0, <1>1, <3>5, <4>1, <5>1 DEF BoundInv, FiredBound
        <5> QED
          BY <3>4, <5>2 DEF BoundInv
      <4>3. CASE Records(p, n)'
        <5>1. ~Held(n) /\ Held(n)'
          BY <3>1, <3>3, <4>3 DEF Held, Records
        <5>2. FiredBound'
          BY <1>0, <1>1, <3>5, <4>1, <5>1 DEF BoundInv, FiredBound
        <5> QED
          BY <3>4, <5>2 DEF BoundInv
      <4>4. CASE fired' = fired
        BY <1>0, <4>1, <4>4
      <4> QED
        BY <2>6, <4>2, <4>3, <3>6
    <3> QED
      BY <2>6, <3>6, <3>7
  <2>7. ASSUME NEW n \in Nodes, PauseStep(p, n) \/ FailStep(p, n)
        PROVE  BoundInv'
    <3>1. AtNode(p, n) /\ Entry(p)'.node = n /\ UNCHANGED row
      BY <2>7, GiveUpEntry DEF rowVars
    <3>2. UNCHANGED fired \/ (Fire(n) /\ Failure({"execlate"}))
      BY <2>7 DEF PauseStep, FailStep
    <3> QED
      BY <2>6, <3>1, <3>2 DEF AtNode
  <2>8. ASSUME NEW n \in Nodes, SkipStep(p, n)
        PROVE  BoundInv'
    <3>1. UNCHANGED <<row, fired>> /\ Entry(p)'.node = n
      BY <2>8, SkipEntry DEF SkipStep, PassStep, rowVars
    <3>2. todo[p] = <<>> /\ pos[p] = n /\ pc[p] = "walk" /\ seen[p][n] = "none"
      BY <2>8 DEF SkipStep, PassStep
    <3>3. ~Pending(p) /\ \A q \in Procs \ {p} : ~Pending(q)
      BY <2>2, <3>2 DEF Pending, Active, Walking
    <3>4. row[n] # "completed"
      BY <3>2 DEF SeenKept, Knows, Late, Nodes
    <3>5. NoOverwrite'
      BY <2>3, <3>1, <3>4
    <3>6. \A m \in Nodes : Held(m) => Held(m)'
      BY <3>1, <3>3 DEF Held, Records
    <3>7. FiredBound'
      BY <1>0, <1>1, <3>1, <3>6 DEF BoundInv, FiredBound
    <3> QED
      BY <3>5, <3>7 DEF BoundInv
  <2>9. ASSUME NEW n \in Nodes, NEW o \in Outputs, CompleteStep(p, n, o)
        PROVE  BoundInv'
    <3>1. Records(p, n)' /\ Entry(p)'.node = n
      BY <2>9, CompleteEntry DEF Records
    <3>2. /\ todo[p] = <<>> /\ pos[p] = n /\ UNCHANGED row
          /\ pc[p] \in {"walk", "execute", "insert"}
          /\ pc[p] = "walk" => Open(p, n)
          /\ UNCHANGED fired \/ Fire(n)
      BY <2>9 DEF CompleteStep, PassStep, rowVars
    <3> QED
      BY <2>6, <3>1, <3>2
  <2> QED
    BY <1>3, <2>4, <2>5, <2>7, <2>8, <2>9 DEF StepOf
<1> QED
  BY <1>2, <1>3, WalkSteps DEF BaseInv

\* The invariants that hold as long as no two walks of a run overlap.
WalkInv == BaseInv /\ SeenKept /\ BoundInv

LEMMA WalkInvCorrect == Spec /\ []OneWalker => []WalkInv
<1>1. Init => WalkInv
  BY BaseInit, SeenKeptInit, BoundInit DEF WalkInv
<1>2. WalkInv /\ OneWalker /\ [Next]_vars => WalkInv'
  BY BaseNext, SeenKeptNext, BoundNext DEF WalkInv
<1> QED
  BY <1>1, <1>2, PTL DEF Spec

\* However a run is paused, resumed, stopped and replayed, an effect is fired
\* at most once more than there were failures, as long as no two walks overlap.
THEOREM RepeatsCostFailures ==
  Spec /\ []OneWalker => [](\A n \in Effects : fired[n] <= 1 + faults)
<1>1. WalkInv => \A n \in Effects : fired[n] <= 1 + faults
  <2> SUFFICES ASSUME WalkInv, NEW n \in Effects
               PROVE  fired[n] <= 1 + faults
    OBVIOUS
  <2>1. faults \in Nat /\ fired[n] \in Nat
    BY WorkflowAssumption DEF WalkInv, BaseInv, TypeOK, HistTypeOK
  <2>2. fired[n] <= Extra + (IF Held(n) THEN 1 ELSE 0)
    BY DEF WalkInv, BoundInv, FiredBound
  <2> QED
    BY <2>1, <2>2 DEF Extra
<1> QED
  BY <1>1, WalkInvCorrect, PTL

\* Where no failure can hide an effect, it is fired at most once.
THEOREM FiredOnce ==
  ASSUME Faults \cap Losing = {}
  PROVE  Spec /\ []OneWalker => []EffectOnce
<1>1. WalkInv => EffectOnce
  <2> SUFFICES ASSUME WalkInv, NEW n \in Effects
               PROVE  fired[n] <= 1
    BY DEF EffectOnce
  <2>1. fired[n] \in Nat
    BY WorkflowAssumption DEF WalkInv, BaseInv, TypeOK, HistTypeOK
  <2>2. fired[n] <= Extra + (IF Held(n) THEN 1 ELSE 0)
    BY DEF WalkInv, BoundInv, FiredBound
  <2> QED
    BY <2>1, <2>2 DEF Extra
<1> QED
  BY <1>1, WalkInvCorrect, PTL

------------------------------------------------------------------------------
(* The statuses that are still to be written. *)

\* p is going to write the status s.
Writes(p, s) == todo[p] \notin Seq(Ops \ {StatusOp(s)})

LEMMA OpsApart ==
  ASSUME NEW s \in RunStatus
  PROVE  /\ EmitOps \subseteq Ops \ {StatusOp(s)}
         /\ \A t \in RunStatus : StatusOp(t) \in Ops /\ (StatusOp(t) = StatusOp(s) => t = s)
         /\ \A r \in RecordOps : r \in Ops \ {StatusOp(s)}
         /\ \A n \in Nodes, t \in NodeStatus, o \in Outputs, c \in Classes :
              EntryOf(n, t, o, c) \in RecordOps
<1>1. \A t \in RunStatus : StatusOp(t) \in StatusOps
  BY DEF StatusOp, StatusOps
<1>2. \A t \in RunStatus : StatusOp(t) = StatusOp(s) => t = s
  BY DEF StatusOp
<1>3. \A r \in EmitOps : r.op = "emit"
  BY DEF EmitOps
<1>4. \A r \in RecordOps : r.op = "record"
  BY DEF RecordOps
<1>5. StatusOp(s).op = "status"
  BY DEF StatusOp
<1>6. \A n \in Nodes, t \in NodeStatus, o \in Outputs, c \in Classes :
        EntryOf(n, t, o, c) \in RecordOps
  BY DEF EntryOf, RecordOps
<1> QED
  BY <1>1, <1>2, <1>3, <1>4, <1>5, <1>6 DEF Ops

\* What p is going to write of the statuses: what it was going to before, or
\* what this step queues.
LEMMA WritesNext ==
  ASSUME BaseInv, [Next]_vars, NEW p \in Procs, StepOf(p), NEW s \in RunStatus,
         Writes(p, s)'
  PROVE  \/ Writes(p, s) /\ (DoRecord(p) \/ ShedStep(p))
         \/ s = "completed" /\ EndStep(p)
         \/ s = "failed" /\ LeaveStep(p)
         \/ s = "running" /\ OutsideStep(p)
         \/ s = "awaiting_approval" /\ \E n \in Nodes : PauseStep(p, n)
         \/ s = "failed" /\ \E n \in Nodes : FailStep(p, n)
<1> DEFINE W == Ops \ {StatusOp(s)}
<1>0. todo[p] \in Seq(Ops) /\ todo'[p] \in Seq(Ops) /\ todo'[p] \notin Seq(W)
  BY TypeNext DEF BaseInv, TypeOK, ProcTypeOK, Writes
<1>1. EmitOps \subseteq W
  BY OpsApart
<1>2. \A t \in RunStatus : t # s => EmitOps \cup {StatusOp(t)} \subseteq W
  BY <1>1, OpsApart
<1>3. ASSUME NEW S \in SUBSET W
      PROVE  todo'[p] \notin Seq(S)
  <2> HIDE DEF W
  <2> QED
    BY <1>0, <1>3, SeqMore
<1>4. ASSUME NEW r \in W, NEW S \in SUBSET W
      PROVE  ~Begins(todo'[p], r, S)
  <2> HIDE DEF W
  <2> SUFFICES ASSUME Begins(todo'[p], r, S)
               PROVE  FALSE
    OBVIOUS
  <2>1. todo'[p] # <<>> /\ Head(todo'[p]) \in W /\ Tail(todo'[p]) \in Seq(S)
    BY <1>4 DEF Begins
  <2>2. Tail(todo'[p]) \in Seq(W)
    BY <2>1, <1>4, SeqMore
  <2> QED
    BY <1>0, <2>1, <2>2, SeqWhole
<1>5. ASSUME NEW n \in Nodes, NEW t \in NodeStatus, NEW o \in Outputs,
             NEW c \in Classes
      PROVE  EntryOf(n, t, o, c) \in W
  BY OpsApart
<1>6. /\ "completed" \in RunStatus /\ "failed" \in RunStatus
      /\ "running" \in RunStatus /\ "awaiting_approval" \in RunStatus
      /\ "completed" \in NodeStatus /\ "failed" \in NodeStatus
      /\ "skipped" \in NodeStatus /\ "awaiting_approval" \in NodeStatus
      /\ "none" \in Outputs /\ "own" \in Classes /\ "skipped" \in Classes
  BY DEF RunStatus, NodeStatus, Outputs, Classes
<1>7. CASE DoRecord(p) \/ ShedStep(p)
  <2>1. todo[p] # <<>> /\ todo'[p] = Tail(todo[p])
    BY <1>7, RecordView DEF ShedStep, Pending
  <2>2. todo[p] \in Seq(W) => todo'[p] \in Seq(W)
    <3> HIDE DEF W
    <3> QED
      BY <2>1, SeqParts
  <2> QED
    BY <1>0, <1>7, <2>2 DEF Writes
<1> HIDE DEF W
<1>8. CASE EndStep(p)
  BY <1>2, <1>3, <1>6, <1>8 DEF EndStep
<1>9. CASE LeaveStep(p)
  BY <1>2, <1>3, <1>6, <1>9 DEF LeaveStep
<1>10. CASE MoveStep(p) \/ LoadStep(p) \/ \E n \in Nodes : PriorStep(p, n)
  BY <1>1, <1>3, <1>10, PathShapes DEF MoveStep, LoadStep, PriorStep
<1>11. CASE OutsideStep(p)
  <2>1. CASE todo'[p] \in Seq(EmitOps)
    BY <1>1, <1>3, <2>1
  <2>2. CASE Begins(todo'[p], StatusOp("running"), EmitOps)
    <3>1. StatusOp("running") \notin W
      BY <1>1, <1>4, <2>2
    <3>2. "running" = s
      BY <1>2, <1>6, <3>1
    <3> QED
      BY <1>11, <3>2
  <2> QED
    BY <1>11, <2>1, <2>2 DEF OutsideStep
<1>12. ASSUME NEW n \in Nodes, PauseStep(p, n)
       PROVE  s = "awaiting_approval"
  <2>1. PICK o \in Outputs :
          Begins(todo'[p], EntryOf(n, "awaiting_approval", o, "own"),
                 EmitOps \cup {StatusOp("awaiting_approval")})
    BY <1>12 DEF PauseStep
  <2>2. EntryOf(n, "awaiting_approval", o, "own") \in W
    BY <1>5, <1>6
  <2> QED
    BY <1>2, <1>4, <1>6, <2>1, <2>2
<1>13. ASSUME NEW n \in Nodes, FailStep(p, n)
       PROVE  s = "failed"
  <2>1. PICK c \in Classes :
          Begins(todo'[p], EntryOf(n, "failed", "none", c),
                 EmitOps \cup {StatusOp("failed")})
    BY <1>13 DEF FailStep
  <2>2. EntryOf(n, "failed", "none", c) \in W
    BY <1>5, <1>6
  <2> QED
    BY <1>2, <1>4, <1>6, <2>1, <2>2
<1>14. ASSUME NEW n \in Nodes
       PROVE  ~SkipStep(p, n) /\ \A o \in Outputs : ~CompleteStep(p, n, o)
  <2>1. /\ EntryOf(n, "skipped", "none", "skipped") \in W
        /\ \A o \in Outputs : EntryOf(n, "completed", o, "own") \in W
    BY <1>5, <1>6
  <2> QED
    BY <1>1, <1>4, <2>1 DEF SkipStep, CompleteStep
<1> QED
  BY <1>7, <1>8, <1>9, <1>10, <1>11, <1>12, <1>13, <1>14 DEF StepOf

\* Without anything to write, p is going to write no status.
LEMMA WritesNothing ==
  ASSUME NEW p, NEW s \in RunStatus, todo[p] \in Seq(EmitOps) \/ todo[p] = <<>>
  PROVE  ~Writes(p, s)
<1>1. todo[p] \in Seq(EmitOps)
  BY PathShapes
<1>2. EmitOps \subseteq Ops \ {StatusOp(s)}
  BY OpsApart
<1> QED
  BY <1>1, <1>2, SeqMore DEF Writes

\* The status of a run is written by its walkers, or it is pending, or it is
\* the status that a request writes.
LEMMA StatusView ==
  ASSUME [Next]_vars
  PROVE  \/ UNCHANGED status
         \/ \E p \in Procs : DoStatus(p)
         \/ status = "none" /\ status' = "pending"
         \/ status' \in {"failed", "cancelled"}
         \/ \E p \in Procs : ReplayWrite(p) /\ status' = "running"
<1> USE DEF dbVars, runVars
<1>1. CASE UNCHANGED vars \/ \E n \in Nodes : Escalate(n)
  BY <1>1 DEF vars, Escalate
<1>2. ASSUME NEW p \in Procs
      PROVE  /\ Request(p) => UNCHANGED status \/ (status = "none" /\ status' = "pending")
             /\ Handle(p) => \/ UNCHANGED status \/ status' \in {"failed", "cancelled"}
                             \/ ReplayWrite(p) /\ status' = "running"
  BY DEF Request, StartRun, StopRead, ReplayRead, PickApproval, Handle, Advance,
         Approve, Reject, Refuse, CheckResume, StopAnchor, StopWrite, ReplayWrite,
         Transitioned
<1>3. ASSUME NEW p \in Procs
      PROVE  /\ Write(p) => UNCHANGED status \/ DoStatus(p)
             /\ Load(p) \/ Compensate(p) \/ EndOfWalk(p) => UNCHANGED status
  BY DEF Write, DoRecord, DoEmit, Load, Enter, LoadWorkflow, LoadOutputs,
         LoadApprovals, Compensate, SagaLoad, SagaEnds, Undo, EndOfWalk
<1>4. ASSUME NEW p \in Procs, NEW n \in Nodes, Visit(p, n) \/ Execute(p, n)
      PROVE  UNCHANGED status
  BY <1>4 DEF Visit, PassPrior, SkipDead, PassApproved, FailRejected, AskOversight,
              PauseForOversight, Proceed, Execute, GateLetsThrough, GatePauses,
              EffectFires, DedupHit, DedupMiss, DedupInsert, PureCompletes,
              DecisionTaken
<1>5. ASSUME NEW p \in Procs, Disturb(p)
      PROVE  UNCHANGED status
  BY <1>5 DEF Disturb, LoseWrite, LoseEmit, LoadFails, Interrupted, Crash,
              NoExecutor, OversightFailsOpen, ExecFails, ExecFailsLate,
              DecisionUnnamed, UndoFails
<1> QED
  BY <1>1, <1>2, <1>3, <1>4, <1>5 DEF Next, Step

------------------------------------------------------------------------------
(* The rows show what the edges prescribe. *)

\* Every edge leads to a node that the walk visits later.
Forward == \A e \in Edges : e.src < e.dst

Decided(n) == row[n] \in {"completed", "skipped"}
AllDecided == \A n \in Nodes : Decided(n)

\* An output that node n may be completed with.
Output(n, o) == o # "none" /\ (n \in Decisions => o \in {"true", "false"})

\* Whether a node is reached depends on the outputs before it.
LEMMA ReachedAgrees ==
  ASSUME Forward, NEW n \in Nodes, NEW f, NEW g,
         \A m \in Nodes : m < n => f[m] = g[m]
  PROVE  Reached(n, f) <=> Reached(n, g)
<1>1. \A e \in Edges : e.src \in Nodes
  BY WorkflowAssumption
<1>2. \A e \in Edges : e.dst = n => (EdgeIsLive(e, f) <=> EdgeIsLive(e, g))
  BY <1>1 DEF Forward, EdgeIsLive
<1> QED
  BY <1>2 DEF Reached

\* The nodes are decided one after the other, and each as it was reached.
DecidedInOrder == \A m, n \in Nodes : m < n /\ row[n] # "none" => Decided(m)
DecidedAsDrawn ==
  \A n \in Nodes : Decided(n) => (row[n] = "completed" <=> Reached(n, Recorded))
RowsHaveArms == \A n \in Nodes : row[n] = "completed" => Output(n, out[n])

RowsRouted == DecidedInOrder /\ DecidedAsDrawn /\ RowsHaveArms

\* So is the node that p is about to record.
PendRouted(p) ==
  Pending(p) =>
    /\ \A m \in Nodes : m < Entry(p).node => Decided(m)
    /\ row[Entry(p).node] # "completed"
    /\ row[Entry(p).node] = "skipped" => Entry(p).to = "skipped"
    /\ Entry(p).to \in {"completed", "skipped"} =>
         (Entry(p).to = "completed" <=> Reached(Entry(p).node, Recorded))
    /\ Entry(p).to = "completed" => Output(Entry(p).node, Entry(p).out)

\* What a walker that has loaded the outputs takes for recorded is what is
\* recorded, but for the node that it is just about to record.
SeenAt(p, n) ==
  IF Pending(p) /\ n = Entry(p).node
  THEN /\ Entry(p).to \in {"completed", "skipped"}
       /\ seen[p][n] = IF Entry(p).to = "completed" THEN Entry(p).out
                                                    ELSE "skipped"
  ELSE /\ n < pos[p] => Decided(n)
       /\ seen[p][n] = IF row[n] = "completed" THEN out[n]
                       ELSE IF n < pos[p] THEN "skipped" ELSE "none"

SeenRouted(p) ==
  /\ pc[p] \in Late => \A n \in Nodes : SeenAt(p, n)
  /\ pc[p] \in {"ask", "execute", "insert"} => Open(p, pos[p])

\* When a walker is going to write that the run is completed, it is.
EndRouted(p) == Writes(p, "completed") => AllDecided /\ ~Pending(p)

RouteOf(p) == PendRouted(p) /\ SeenRouted(p) /\ EndRouted(p)

RouteInv ==
  /\ RowsRouted /\ (status = "completed" => AllDecided)
  /\ \A p \in Procs : RouteOf(p)

LEMMA RouteInit == Init => RouteInv
<1> SUFFICES ASSUME Init
             PROVE  RouteInv
  OBVIOUS
<1>1. \A n \in Nodes : row[n] = "none"
  BY DEF Init, Nothing
<1>2. \A p \in Procs : todo[p] = <<>> /\ pc[p] = "idle"
  BY DEF Init
<1>3. status = "none"
  BY DEF Init
<1>4. \A p \in Procs : RouteOf(p)
  <2>1. "completed" \in RunStatus
    BY DEF RunStatus
  <2>2. \A p \in Procs : ~Writes(p, "completed")
    BY <1>2, <2>1, WritesNothing
  <2> QED
    BY <1>2, <2>2 DEF RouteOf, PendRouted, SeenRouted, EndRouted, Pending, Late
<1>5. RowsRouted
  BY <1>1 DEF RowsRouted, DecidedInOrder, DecidedAsDrawn, RowsHaveArms, Decided
<1> QED
  BY <1>3, <1>4, <1>5 DEF RouteInv

\* A walker that is at an open node, and has nothing to write: the node is not
\* decided, all nodes before it are, and it is reached by what they recorded.
LEMMA OpenRouted ==
  ASSUME Forward, BaseInv, RouteInv, NEW p \in Procs, NEW n \in Nodes,
         todo[p] = <<>>, pc[p] \in Late, pos[p] = n, seen[p][n] = "none"
  PROVE  /\ \A m \in Nodes : m < n => Decided(m)
         /\ row[n] # "completed"
         /\ Reached(n, seen[p]) <=> Reached(n, Recorded)
         /\ Open(p, n) => ~Decided(n)
<1>1. \A m \in Nodes : /\ m < n => Decided(m)
                       /\ seen[p][m] = IF row[m] = "completed" THEN out[m]
                                       ELSE IF m < n THEN "skipped" ELSE "none"
  BY DEF RouteInv, RouteOf, SeenRouted, SeenAt, Pending
<1>2. row[n] # "completed"
  BY <1>1 DEF RouteInv, RowsRouted, RowsHaveArms, Output
<1>3. \A m \in Nodes : m < n => seen[p][m] = Recorded[m]
  BY <1>1 DEF Recorded
<1>4. Reached(n, seen[p]) <=> Reached(n, Recorded)
  BY <1>3, ReachedAgrees
<1>5. Open(p, n) => ~Decided(n)
  BY <1>2, <1>4 DEF Open, Decided, RouteInv, RowsRouted, DecidedAsDrawn
<1> QED
  BY <1>1, <1>2, <1>4, <1>5

\* The walker gives up at a node that is open.
LEMMA AtNodeOpen ==
  ASSUME Forward, BaseInv, RouteInv, NEW p \in Procs, NEW n \in Nodes, AtNode(p, n)
  PROVE  /\ \A m \in Nodes : m < n => Decided(m)
         /\ ~Decided(n) /\ Active(p)
<1>1. todo[p] = <<>> /\ pc[p] \in {"walk", "ask", "execute"} /\ pos[p] = n
      /\ Open(p, n)
  BY DEF AtNode, RouteInv, RouteOf, SeenRouted
<1> QED
  BY <1>1, OpenRouted DEF Late, Open, Active, Walking

\* When nobody is about to record anything and no row changes, what the rows
\* show of the other walkers' knowledge does not change.
LEMMA RouteOthers ==
  ASSUME RouteInv, NEW p \in Procs, Others(p), UNCHANGED <<row, out>>,
         NEW q \in Procs, q # p
  PROVE  RouteOf(q)'
<1>1. RouteOf(q)
  BY DEF RouteInv
<1>2. /\ pc'[q] = pc[q] /\ todo'[q] = todo[q] /\ pos'[q] = pos[q]
      /\ seen'[q] = seen[q] /\ Entry(q)' = Entry(q) /\ (Pending(q)' <=> Pending(q))
  BY OthersView
<1>3. Recorded' = Recorded /\ (\A n \in Nodes : Decided(n)' <=> Decided(n))
      /\ (AllDecided' <=> AllDecided)
  BY DEF Recorded, Decided, AllDecided
<1>4. PendRouted(q)'
  BY <1>1, <1>2, <1>3 DEF RouteOf, PendRouted
<1>5. SeenRouted(q)'
  <2>1. \A n \in Nodes : SeenAt(q, n)' <=> SeenAt(q, n)
    BY <1>2, <1>3 DEF SeenAt
  <2>2. Open(q, pos[q])' <=> Open(q, pos[q])
    BY <1>2 DEF Open
  <2> QED
    BY <1>1, <1>2, <2>1, <2>2 DEF RouteOf, SeenRouted
<1>6. EndRouted(q)'
  BY <1>1, <1>2, <1>3 DEF RouteOf, EndRouted, Writes
<1> QED
  BY <1>4, <1>5, <1>6 DEF RouteOf

\* The last node of a completed walk: status and rows.
LEMMA StatusRouted ==
  ASSUME BaseInv, RouteInv, [Next]_vars, AllDecided => AllDecided'
  PROVE  status' = "completed" => AllDecided'
<1>1. CASE UNCHANGED status
  BY <1>1 DEF RouteInv
<1>2. ASSUME NEW p \in Procs, DoStatus(p), status' = "completed",
             status # "completed"
      PROVE  AllDecided'
  <2>1. todo[p] # <<>> /\ Head(todo[p]).op = "status" /\ Head(todo[p]).to = "completed"
    BY <1>2 DEF DoStatus, Transitioned
  <2>2. Head(todo[p]) = StatusOp("completed")
    <3>1. todo[p] \in Seq(Ops)
      BY DEF BaseInv, TypeOK, ProcTypeOK
    <3>2. Head(todo[p]) \in StatusOps
      BY <2>1, <3>1, SeqParts DEF Ops, RecordOps, EmitOps
    <3> QED
      BY <2>1, <3>2 DEF StatusOps, StatusOp
  <2>3. Writes(p, "completed")
    <3> SUFFICES ASSUME todo[p] \in Seq(Ops \ {StatusOp("completed")})
                 PROVE  FALSE
      BY DEF Writes
    <3>1. Head(todo[p]) \in Ops \ {StatusOp("completed")}
      BY <2>1, SeqParts
    <3> QED
      BY <2>2, <3>1
  <2> QED
    BY <2>3 DEF RouteInv, RouteOf, EndRouted
<1> QED
  BY <1>1, <1>2, StatusView DEF RouteInv

\* The record of a node that was decided before does not change the picture,
\* and any other node is the last.
LEMMA RouteRecord ==
  ASSUME Forward, BaseInv, RouteInv, OneWalker, [Next]_vars,
         NEW p \in Procs, Others(p), DoRecord(p)
  PROVE  RouteInv'
<1> DEFINE e == Entry(p)
           k == Entry(p).node
<1>0. /\ row \in [Nodes -> NodeStatus] /\ out \in [Nodes -> Outputs]
      /\ pos[p] \in Nat /\ Nodes = 1..N /\ N \in Nat
  BY WorkflowAssumption DEF BaseInv, TypeOK, DbTypeOK, ProcTypeOK, Nodes
<1>1. /\ Pending(p) /\ ~Pending(p)' /\ k \in Nodes /\ e.to \in NodeStatus
      /\ row' = [row EXCEPT ![k] = e.to] /\ out' = [out EXCEPT ![k] = e.out]
      /\ e.out \in Outputs
      /\ Kept(p) /\ todo'[p] = Tail(todo[p]) /\ todo[p] # <<>>
  BY RecordView DEF RecordOps, Pending
<1>2. /\ \A n \in Nodes : /\ n # k => row'[n] = row[n] /\ out'[n] = out[n]
                          /\ n = k => row'[n] = e.to /\ out'[n] = e.out
  BY <1>0, <1>1
<1>3. /\ \A m \in Nodes : m < k => Decided(m)
      /\ row[k] # "completed" /\ (row[k] = "skipped" => e.to = "skipped")
      /\ e.to \in {"completed", "skipped"} =>
           (e.to = "completed" <=> Reached(k, Recorded))
      /\ e.to = "completed" => Output(k, e.out)
  BY <1>1 DEF RouteInv, RouteOf, PendRouted
<1>4. RowsRouted
  BY DEF RouteInv
<1> HIDE DEF e, k
<1>5. \A n \in Nodes : Decided(n) => Decided(n)'
  BY <1>2, <1>3 DEF Decided
<1>6. \A n \in Nodes : n < k => Recorded'[n] = Recorded[n]
  BY <1>0, <1>1, <1>2 DEF Recorded
<1>7. \A n \in Nodes : n <= k => (Reached(n, Recorded') <=> Reached(n, Recorded))
  <2> SUFFICES ASSUME NEW n \in Nodes, n <= k
               PROVE  Reached(n, Recorded') <=> Reached(n, Recorded)
    OBVIOUS
  <2>1. \A m \in Nodes : m < n => Recorded'[m] = Recorded[m]
    BY <1>0, <1>1, <1>6
  <2> QED
    BY <2>1, ReachedAgrees
<1>8. DecidedInOrder'
  <2> SUFFICES ASSUME NEW m \in Nodes, NEW n \in Nodes, m < n, row'[n] # "none"
               PROVE  Decided(m)'
    BY DEF DecidedInOrder
  <2>1. CASE n = k
    BY <1>3, <1>5, <2>1
  <2>2. CASE n # k
    BY <1>2, <1>4, <1>5, <2>2 DEF RowsRouted, DecidedInOrder
  <2> QED
    BY <2>1, <2>2
<1>9. DecidedAsDrawn'
  <2> SUFFICES ASSUME NEW n \in Nodes, Decided(n)'
               PROVE  row'[n] = "completed" <=> Reached(n, Recorded')
    BY DEF DecidedAsDrawn
  <2>1. CASE n = k
    <3>1. e.to \in {"completed", "skipped"}
      BY <1>2, <2>1 DEF Decided
    <3> QED
      BY <1>0, <1>2, <1>3, <1>7, <2>1, <3>1
  <2>2. CASE n < k
    <3>1. row'[n] = row[n] /\ Decided(n)
      BY <1>0, <1>1, <1>2, <2>2 DEF Decided
    <3>2. row[n] = "completed" <=> Reached(n, Recorded)
      BY <1>4, <3>1 DEF RowsRouted, DecidedAsDrawn
    <3> QED
      BY <1>0, <1>1, <1>7, <2>2, <3>1, <3>2
  <2>3. CASE n > k
    <3>1. row'[n] = row[n] /\ Decided(n)
      BY <1>0, <1>1, <1>2, <2>3 DEF Decided
    <3>2. row[n] # "none"
      BY <3>1 DEF Decided
    <3>3. row[k] = "skipped" /\ e.to = "skipped"
      BY <1>0, <1>1, <1>3, <1>4, <2>3, <3>2 DEF RowsRouted, DecidedInOrder, Decided
    <3>4. Recorded' = Recorded
      BY <1>2, <3>3 DEF Recorded
    <3>5. row[n] = "completed" <=> Reached(n, Recorded)
      BY <1>4, <3>1 DEF RowsRouted, DecidedAsDrawn
    <3> QED
      BY <3>1, <3>4, <3>5
  <2> QED
    BY <1>0, <1>1, <2>1, <2>2, <2>3
<1>10. RowsHaveArms'
  BY <1>2, <1>3, <1>4 DEF RowsHaveArms, RowsRouted, Output
<1>11. status' = "completed" => AllDecided'
  BY <1>5, StatusRouted DEF AllDecided
<1>12. ASSUME NEW q \in Procs, q # p
       PROVE  RouteOf(q)'
  <2>1. ~Active(q) /\ ~Pending(q)
    BY <1>1, <1>12, PendingActive DEF OneWalker
  <2>2. pc[q] \notin Late
    BY <2>1 DEF Active, Walking, Late
  <2>3. ~Pending(q)' /\ pc'[q] \notin Late /\ todo'[q] = todo[q]
    BY <1>12, <2>1, <2>2, OthersView
  <2>4. EndRouted(q)'
    BY <1>5, <2>3 DEF EndRouted, Writes, RouteInv, RouteOf, AllDecided
  <2> QED
    BY <2>3, <2>4 DEF RouteOf, PendRouted, SeenRouted, Late
<1>13. RouteOf(p)'
  <2>1. PendRouted(p)'
    BY <1>1 DEF PendRouted
  <2>2. EndRouted(p)'
    <3>1. ~Writes(p, "completed")
      BY <1>1 DEF RouteInv, RouteOf, EndRouted
    <3>2. ~Writes(p, "completed")'
      BY <1>1, <3>1, SeqParts DEF Writes
    <3> QED
      BY <3>2 DEF EndRouted
  <2>3. SeenRouted(p)'
    <3>1. CASE pc[p] = "walk"
      <4>1. k = pos[p] - 1
        BY <1>1, <3>1 DEF BaseInv, Shape, ShapeOf, k
      <4>2. ASSUME NEW n \in Nodes
            PROVE  SeenAt(p, n)'
        <5>1. SeenAt(p, n)
          BY <3>1 DEF RouteInv, RouteOf, SeenRouted, Late
        <5>2. CASE n = k
          <6>1. /\ e.to \in {"completed", "skipped"}
                /\ seen[p][n] = IF e.to = "completed" THEN e.out ELSE "skipped"
            BY <1>1, <5>1, <5>2 DEF SeenAt, e, k
          <6>2. n < pos[p]
            BY <1>0, <4>1, <5>2
          <6>3. Decided(n)'
            BY <1>2, <5>2, <6>1 DEF Decided
          <6> QED
            BY <1>1, <1>2, <5>2, <6>1, <6>2, <6>3 DEF SeenAt, Kept
        <5>3. CASE n # k
          <6>1. /\ n < pos[p] => Decided(n)
                /\ seen[p][n] = IF row[n] = "completed" THEN out[n]
                                ELSE IF n < pos[p] THEN "skipped" ELSE "none"
            BY <5>1, <5>3 DEF SeenAt, k
          <6> QED
            BY <1>1, <1>2, <1>5, <5>3, <6>1 DEF SeenAt, Kept
        <5> QED
          BY <5>2, <5>3
      <4> QED
        BY <1>1, <3>1, <4>2 DEF SeenRouted, Kept
    <3>2. CASE pc[p] # "walk"
      <4>1. pc[p] \in Late => todo[p] \in Seq(EmitOps)
        BY <3>2 DEF BaseInv, Shape, ShapeOf, Late
      <4>2. pc[p] \notin Late
        BY <1>1, <4>1, PendingActive
      <4> QED
        BY <1>1, <4>2 DEF SeenRouted, Kept, Late
    <3> QED
      BY <3>1, <3>2
  <2> QED
    BY <2>1, <2>2, <2>3 DEF RouteOf
<1> QED
  BY <1>8, <1>9, <1>10, <1>11, <1>12, <1>13 DEF RouteInv, RowsRouted

LEMMA RouteNext ==
  ASSUME Forward, "write" \notin Faults, BaseInv, RouteInv, OneWalker, [Next]_vars
  PROVE  RouteInv'
<1>0. /\ row \in [Nodes -> NodeStatus] /\ out \in [Nodes -> Outputs]
      /\ Nodes = 1..N /\ N \in Nat /\ \A p \in Procs : pos[p] \in 1..(N + 1)
      /\ \A p \in Procs : seen[p] \in [Nodes -> Outputs \cup {"skipped"}]
  BY WorkflowAssumption DEF BaseInv, TypeOK, DbTypeOK, ProcTypeOK, Nodes
<1>1. ASSUME UNCHANGED <<row, out>>, \A q \in Procs : RouteOf(q)'
      PROVE  RouteInv'
  <2>1. Recorded' = Recorded /\ (\A n \in Nodes : Decided(n)' <=> Decided(n))
        /\ (AllDecided' <=> AllDecided)
    BY <1>1 DEF Recorded, Decided, AllDecided
  <2>2. RowsRouted'
    BY <1>1, <2>1
       DEF RouteInv, RowsRouted, DecidedInOrder, DecidedAsDrawn, RowsHaveArms
  <2>3. status' = "completed" => AllDecided'
    BY <2>1, StatusRouted
  <2> QED
    BY <1>1, <2>2, <2>3 DEF RouteInv
<1>2. CASE NoStep
  <2>1. UNCHANGED <<row, out>>
    BY <1>2 DEF NoStep, rowVars
  <2>2. ASSUME NEW q \in Procs
        PROVE  RouteOf(q)'
    <3>1. RouteOf(q)
      BY DEF RouteInv
    <3>2. UNCHANGED <<row, out, pc, todo, pos, seen>>
      BY <1>2 DEF NoStep, rowVars
    <3> QED
      BY <3>1, <3>2 DEF RouteOf, PendRouted, SeenRouted, EndRouted, SeenAt, Open,
            Recorded, Decided, AllDecided, Pending, Entry, Writes
  <2> QED
    BY <1>1, <2>1, <2>2
<1>3. ASSUME NEW p \in Procs, Others(p), StepOf(p)
      PROVE  RouteInv'
  <2>0. "completed" \in RunStatus
    BY DEF RunStatus
  <2>1. ASSUME UNCHANGED <<row, out>>, RouteOf(p)'
        PROVE  RouteInv'
    BY <1>1, <1>3, <2>1, RouteOthers
  <2>2. ASSUME UNCHANGED <<row, out>>
        PROVE  /\ Recorded' = Recorded /\ (AllDecided' <=> AllDecided)
               /\ \A n \in Nodes : Decided(n)' <=> Decided(n)
    BY <2>2 DEF Recorded, Decided, AllDecided
  <2>3. RouteOf(p)
    BY DEF RouteInv
  <2>4. ASSUME Writes(p, "completed")'
        PROVE  (Writes(p, "completed") /\ (DoRecord(p) \/ ShedStep(p))) \/ EndStep(p)
    BY <1>3, <2>0, <2>4, WritesNext
  <2>5. ASSUME UNCHANGED <<row, out>>, ~Pending(p)'
        PROVE  EndRouted(p)'
    <3>1. CASE Writes(p, "completed")
      BY <2>2, <2>3, <2>5, <3>1 DEF RouteOf, EndRouted
    <3>2. CASE EndStep(p)
      <4>1. /\ pc[p] \in Late /\ ~Pending(p) /\ pos[p] = N + 1
        BY <3>2 DEF EndStep, Late, Pending
      <4>2. \A n \in Nodes : SeenAt(p, n) /\ n < pos[p]
        BY <1>0, <2>3, <4>1 DEF RouteOf, SeenRouted
      <4>3. AllDecided
        BY <4>1, <4>2 DEF SeenAt, AllDecided
      <4> QED
        BY <2>2, <2>5, <4>3 DEF EndRouted
    <3> QED
      BY <2>4, <3>1, <3>2 DEF EndRouted
  <2>6. ASSUME NEW n \in Nodes, todo[p] = <<>>, pos[p] = n
        PROVE  EndRouted(p)'
    <3>1. ~Writes(p, "completed") /\ ~EndStep(p)
      BY <1>0, <2>0, <2>6, WritesNothing DEF EndStep
    <3> QED
      BY <2>4, <3>1 DEF EndRouted
  <2>7. CASE ShedStep(p)
    <3>1. UNCHANGED <<row, out>> /\ ~Pending(p)' /\ ~Pending(p) /\ Kept(p)
      BY <2>7, QuietSteps DEF ShedStep, Failure
    <3>2. SeenRouted(p)'
      <4>1. pc[p] \in Late => \A n \in Nodes : SeenAt(p, n)'
        BY <2>2, <2>3, <3>1 DEF RouteOf, SeenRouted, SeenAt, Kept
      <4>2. Open(p, pos[p])' <=> Open(p, pos[p])
        BY <3>1 DEF Open, Kept
      <4> QED
        BY <2>3, <3>1, <4>1, <4>2 DEF RouteOf, SeenRouted, Kept
    <3> QED
      BY <2>1, <2>5, <3>1, <3>2 DEF RouteOf, PendRouted
  <2>8. CASE LeaveStep(p) \/ EndStep(p) \/ OutsideStep(p)
    <3>1. UNCHANGED <<row, out>> /\ ~Pending(p)'
      BY <2>8, QuietSteps
    <3>2. pc'[p] \notin Late
      BY <2>8 DEF LeaveStep, EndStep, OutsideStep, Late
    <3> QED
      BY <2>1, <2>5, <3>1, <3>2 DEF RouteOf, PendRouted, SeenRouted, Late
  <2>9. CASE MoveStep(p)
    <3>1. UNCHANGED <<row, out>> /\ ~Pending(p)'
      BY <2>9, QuietSteps
    <3>2. /\ ~Pending(p) /\ pc[p] \in Late
          /\ pos'[p] = pos[p] /\ seen'[p] = seen[p]
          /\ pc'[p] \in {"ask", "execute", "insert"} => Open(p, pos[p])
      BY <2>3, <2>9 DEF MoveStep, Pending, Late, RouteOf, SeenRouted
    <3>3. \A n \in Nodes : SeenAt(p, n)'
      BY <2>2, <2>3, <3>1, <3>2 DEF RouteOf, SeenRouted, SeenAt
    <3>4. SeenRouted(p)'
      BY <3>2, <3>3 DEF SeenRouted, Open
    <3> QED
      BY <2>1, <2>5, <3>1, <3>4 DEF RouteOf, PendRouted
  <2>10. CASE LoadStep(p)
    <3>1. UNCHANGED <<row, out>> /\ ~Pending(p)'
      BY <2>10, QuietSteps
    <3>2. pos'[p] = 1
      BY <2>10 DEF LoadStep, BaseInv, Shape, ShapeOf, Fresh
    <3>3. \A n \in Nodes :
            seen'[p][n] = IF row[n] = "completed" THEN out[n] ELSE "none"
      BY <2>10 DEF LoadStep
    <3>4. \A n \in Nodes : ~(n < 1)
      BY <1>0
    <3>5. \A n \in Nodes : SeenAt(p, n)'
      BY <3>1, <3>2, <3>3, <3>4 DEF SeenAt
    <3>6. SeenRouted(p)'
      BY <2>10, <3>5 DEF SeenRouted, LoadStep
    <3> QED
      BY <2>1, <2>5, <3>1, <3>6 DEF RouteOf, PendRouted
  <2>11. ASSUME NEW n \in Nodes, PauseStep(p, n) \/ FailStep(p, n)
         PROVE  RouteInv'
    <3>1. /\ UNCHANGED <<row, out>> /\ AtNode(p, n) /\ Entry(p)'.node = n
          /\ Entry(p)'.to \in {"awaiting_approval", "failed"}
          /\ pc'[p] \in {"done", "saga"}
      BY <2>11, GiveUpEntry DEF rowVars
    <3>2. (\A m \in Nodes : m < n => Decided(m)) /\ ~Decided(n)
      BY <3>1, AtNodeOpen
    <3>3. PendRouted(p)'
      BY <2>2, <3>1, <3>2 DEF PendRouted, Decided
    <3>4. SeenRouted(p)'
      BY <3>1 DEF SeenRouted, Late
    <3>5. EndRouted(p)'
      BY <2>6, <3>1 DEF AtNode
    <3> QED
      BY <2>1, <3>1, <3>3, <3>4, <3>5 DEF RouteOf
  <2>12. ASSUME NEW n \in Nodes, NEW o \in Outputs \cup {"skipped"},
                PassStep(p, n, o), pc[p] \in Late
         PROVE  /\ UNCHANGED <<row, out>> /\ EndRouted(p)' /\ pc'[p] = "walk"
                /\ pos'[p] = n + 1 /\ seen'[p][n] = o
                /\ \A m \in Nodes : m # n =>
                     /\ m < n + 1 => Decided(m)
                     /\ seen'[p][m] = IF row[m] = "completed" THEN out[m]
                                      ELSE IF m < n + 1 THEN "skipped"
                                      ELSE "none"
    <3>1. /\ UNCHANGED <<row, out>> /\ pc'[p] = "walk" /\ pos'[p] = n + 1
          /\ pos[p] = n /\ todo[p] = <<>> /\ seen'[p] = [seen[p] EXCEPT ![n] = o]
      BY <2>12 DEF PassStep, rowVars
    <3>2. seen'[p][n] = o /\ \A m \in Nodes : m # n => seen'[p][m] = seen[p][m]
      BY <1>0, <3>1
    <3>3. EndRouted(p)'
      BY <2>6, <3>1
    <3>4. ASSUME NEW m \in Nodes, m # n
          PROVE  /\ m < n + 1 => Decided(m)
                 /\ seen'[p][m] = IF row[m] = "completed" THEN out[m]
                                  ELSE IF m < n + 1 THEN "skipped" ELSE "none"
      <4>1. /\ m < n => Decided(m)
            /\ seen[p][m] = IF row[m] = "completed" THEN out[m]
                            ELSE IF m < n THEN "skipped" ELSE "none"
        BY <2>3, <2>12, <3>1 DEF RouteOf, SeenRouted, SeenAt, Pending
      <4>2. m < n + 1 <=> m < n
        BY <1>0, <3>4
      <4> QED
        BY <3>2, <3>4, <4>1, <4>2
    <3> QED
      BY <3>1, <3>2, <3>3, <3>4
  <2>13. ASSUME NEW n \in Nodes, PriorStep(p, n)
         PROVE  RouteInv'
    <3>1. ~Pending(p)'
      BY <2>13, QuietSteps
    <3>2. /\ seen[p][n] \in Outputs \cup {"skipped"} /\ seen[p][n] # "none"
          /\ PassStep(p, n, seen[p][n]) /\ pc[p] \in Late
          /\ todo[p] = <<>> /\ pos[p] = n
      BY <1>0, <2>13 DEF PriorStep, PassStep, Late
    <3>3. row[n] = "completed" /\ seen[p][n] = out[n]
      BY <1>0, <2>3, <3>2 DEF RouteOf, SeenRouted, SeenAt, Pending
    <3>4. \A m \in Nodes : SeenAt(p, m)'
      BY <2>12, <3>1, <3>2, <3>3 DEF SeenAt, Decided
    <3>5. SeenRouted(p)'
      BY <2>12, <3>2, <3>4 DEF SeenRouted
    <3> QED
      BY <2>1, <2>12, <3>1, <3>2, <3>5 DEF RouteOf, PendRouted
  <2>14. ASSUME NEW n \in Nodes, SkipStep(p, n)
         PROVE  RouteInv'
    <3>1. /\ Pending(p)' /\ Entry(p)'.node = n /\ Entry(p)'.to = "skipped"
      BY <2>14, SkipEntry
    <3>2. /\ PassStep(p, n, "skipped") /\ pc[p] \in Late /\ todo[p] = <<>>
          /\ pos[p] = n /\ seen[p][n] = "none" /\ ~Reached(n, seen[p])
      BY <2>14 DEF SkipStep, PassStep, Late
    <3>3. /\ \A m \in Nodes : m < n => Decided(m)
          /\ row[n] # "completed" /\ ~Reached(n, Recorded)
      BY <3>2, OpenRouted
    <3>4. UNCHANGED <<row, out>>
      BY <2>12, <3>2
    <3>5. PendRouted(p)'
      BY <2>2, <3>1, <3>3, <3>4 DEF PendRouted
    <3>6. \A m \in Nodes : SeenAt(p, m)'
      BY <2>2, <2>12, <3>1, <3>2, <3>4 DEF SeenAt
    <3>7. SeenRouted(p)'
      BY <2>12, <3>2, <3>6 DEF SeenRouted
    <3>8. EndRouted(p)'
      BY <2>12, <3>2
    <3> QED
      BY <2>1, <3>4, <3>5, <3>7, <3>8 DEF RouteOf
  <2>15. ASSUME NEW n \in Nodes, NEW o \in Outputs, CompleteStep(p, n, o)
         PROVE  RouteInv'
    <3>1. /\ Pending(p)' /\ Entry(p)'.node = n /\ Entry(p)'.to = "completed"
          /\ Entry(p)'.out = o /\ Output(n, o)
      BY <2>15, CompleteEntry DEF Output, CompleteStep
    <3>2. /\ PassStep(p, n, o) /\ pc[p] \in Late /\ todo[p] = <<>> /\ pos[p] = n
          /\ Open(p, n)
      BY <2>3, <2>15 DEF CompleteStep, PassStep, Late, RouteOf, SeenRouted
    <3>3. /\ \A m \in Nodes : m < n => Decided(m)
          /\ ~Decided(n) /\ Reached(n, Recorded)
      BY <3>2, OpenRouted DEF Open
    <3>4. UNCHANGED <<row, out>>
      BY <2>12, <3>2
    <3>5. PendRouted(p)'
      BY <2>2, <3>1, <3>3, <3>4 DEF PendRouted, Decided
    <3>6. \A m \in Nodes : SeenAt(p, m)'
      BY <2>2, <2>12, <3>1, <3>2, <3>4 DEF SeenAt
    <3>7. SeenRouted(p)'
      BY <2>12, <3>2, <3>6 DEF SeenRouted
    <3>8. EndRouted(p)'
      BY <2>12, <3>2
    <3> QED
      BY <2>1, <3>4, <3>5, <3>7, <3>8 DEF RouteOf
  <2>16. CASE DoRecord(p)
    BY <1>3, <2>16, RouteRecord
  <2> QED
    BY <1>3, <2>7, <2>8, <2>9, <2>10, <2>11, <2>13, <2>14, <2>15, <2>16 DEF StepOf
<1> QED
  BY <1>2, <1>3, WalkSteps DEF BaseInv

LEMMA RouteCorrect ==
  ASSUME Forward, "write" \notin Faults
  PROVE  Spec /\ []OneWalker => [](BaseInv /\ RouteInv)
<1>1. BaseInv /\ RouteInv /\ OneWalker /\ [Next]_vars => (BaseInv /\ RouteInv)'
  BY BaseNext, RouteNext
<1> QED
  BY <1>1, BaseInit, RouteInit, PTL DEF Spec

\* When a run is completed, each node of it was completed if it was reached by
\* the branches that were recorded, and skipped if it was not: through all
\* pauses, resumes and replays, as long as no two walks overlap and no record
\* is lost.
THEOREM CompletedAsDrawn ==
  ASSUME Forward, "write" \notin Faults
  PROVE  Spec /\ []OneWalker => []RoutedAsDrawn
<1>1. BaseInv /\ RouteInv => RoutedAsDrawn
  BY DEF RouteInv, RoutedAsDrawn, RowsRouted, DecidedAsDrawn, AllDecided, Decided
<1> QED
  BY <1>1, RouteCorrect, PTL

\* And of the two arms of a decision at most one is ever completed.
THEOREM OneArmTaken ==
  ASSUME Forward, "write" \notin Faults
  PROVE  Spec /\ []OneWalker => []OneArm
<1>1. BaseInv /\ RouteInv => OneArm
  <2> SUFFICES ASSUME RouteInv, NEW e \in Edges, NEW f \in Edges,
                      e.src = f.src, e.src \in Decisions, e.arm # f.arm,
                      e.dst # f.dst,
                      \A d \in Edges : d.dst \in {e.dst, f.dst} => d \in {e, f},
                      row[e.dst] = "completed", row[f.dst] = "completed"
               PROVE  FALSE
    BY DEF OneArm
  <2>1. e.src \in Nodes /\ e.dst \in Nodes /\ f.dst \in Nodes
    BY WorkflowAssumption
  <2>2. Reached(e.dst, Recorded) /\ Reached(f.dst, Recorded)
    BY <2>1 DEF RouteInv, RowsRouted, DecidedAsDrawn, Decided
  <2>3. /\ \A d \in Edges : d.dst = e.dst => d = e
        /\ \A d \in Edges : d.dst = f.dst => d = f
    OBVIOUS
  <2>4. EdgeIsLive(e, Recorded) /\ EdgeIsLive(f, Recorded)
    BY <2>2, <2>3 DEF Reached
  <2>5. row[e.src] = "completed" /\ Recorded[e.src] \in {"true", "false"}
    BY <2>1, <2>4
       DEF EdgeIsLive, Recorded, RouteInv, RowsRouted, RowsHaveArms, Output
  <2> QED
    BY <2>4, <2>5 DEF EdgeIsLive
<1> QED
  BY <1>1, RouteCorrect, PTL

------------------------------------------------------------------------------
(* A run that waits has a node that waits. *)

\* An approval that was asked for is never forgotten.
LEMMA ApprovalKept ==
  ASSUME TypeOK, [Next]_vars, NEW n \in Nodes, approval[n] # "none"
  PROVE  approval'[n] # "none"
<1> USE DEF dbVars, gateVars
<1>0. approval \in [Nodes -> Approvals]
  BY DEF TypeOK, DbTypeOK
<1>1. CASE UNCHANGED vars
  BY <1>1 DEF vars
<1>2. ASSUME NEW m \in Nodes, Escalate(m)
      PROVE  approval'[n] # "none"
  BY <1>0, <1>2 DEF Escalate
<1>3. ASSUME NEW p \in Procs, Request(p) \/ Write(p) \/ Load(p) \/ Compensate(p)
                              \/ EndOfWalk(p)
      PROVE  UNCHANGED approval
  BY <1>3 DEF Request, StartRun, StopRead, ReplayRead, PickApproval, Write,
              DoStatus, DoRecord, DoEmit, Load, Enter, LoadWorkflow, LoadOutputs,
              LoadApprovals, Compensate, SagaLoad, SagaEnds, Undo, EndOfWalk
<1>4. ASSUME NEW p \in Procs, Handle(p)
      PROVE  approval'[n] # "none"
  <2>1. CASE Approve(p) \/ Reject(p) \/ StopWrite(p)
    BY <1>0, <2>1 DEF Approve, Reject, StopWrite
  <2>2. CASE ~(Approve(p) \/ Reject(p) \/ StopWrite(p))
    BY <1>4, <2>2 DEF Handle, Advance, Refuse, CheckResume, StopAnchor, ReplayWrite
  <2> QED
    BY <2>1, <2>2
<1>5. ASSUME NEW p \in Procs, NEW m \in Nodes, Visit(p, m) \/ Execute(p, m)
      PROVE  approval'[n] # "none"
  <2>1. CASE PauseForOversight(p, m) \/ GatePauses(p, m)
    BY <1>0, <2>1 DEF PauseForOversight, GatePauses
  <2>2. CASE ~(PauseForOversight(p, m) \/ GatePauses(p, m))
    BY <1>5, <2>2 DEF Visit, PassPrior, SkipDead, PassApproved, FailRejected,
              AskOversight, Proceed, Execute, GateLetsThrough, EffectFires, DedupHit,
              DedupMiss, DedupInsert, PureCompletes, DecisionTaken
  <2> QED
    BY <2>1, <2>2
<1>6. ASSUME NEW p \in Procs, Disturb(p)
      PROVE  UNCHANGED approval
  BY <1>6 DEF Disturb, LoseWrite, LoseEmit, LoadFails, Interrupted, Crash,
              NoExecutor, OversightFailsOpen, ExecFails, ExecFailsLate,
              DecisionUnnamed, UndoFails
<1> QED
  BY <1>1, <1>2, <1>3, <1>4, <1>5, <1>6 DEF Next, Step

\* The status of the run is written.
LEMMA StatusStep ==
  ASSUME BaseInv, NEW p \in Procs, DoStatus(p)
  PROVE  /\ Others(p) /\ Kept(p) /\ todo'[p] = Tail(todo[p])
         /\ UNCHANGED <<row, class, out, approval, undone, owed, job, undo>>
         /\ todo[p] # <<>> /\ ~Pending(p) /\ ~Pending(p)' /\ Active(p)
         /\ \E s \in RunStatus : /\ Head(todo[p]) = StatusOp(s) /\ Writes(p, s)
                                 /\ status' = Transitioned(status, s)
<1>1. /\ todo[p] # <<>> /\ Head(todo[p]).op = "status"
      /\ Queue(p, Tail(todo[p])) /\ UNCHANGED <<pc, pos, seen>>
      /\ UNCHANGED <<row, class, out, approval, undone, owed, job, undo>>
      /\ status' = Transitioned(status, Head(todo[p]).to)
  BY DEF DoStatus, gateVars, walkVars, histVars
<1>2. todo \in [Procs -> Seq(Ops)]
  BY DEF BaseInv, TypeOK, ProcTypeOK
<1>3. Others(p) /\ Kept(p) /\ todo'[p] = Tail(todo[p])
  BY <1>1, <1>2 DEF Queue, Others, Kept
<1>4. PICK s \in RunStatus : Head(todo[p]) = StatusOp(s)
  <2>1. Head(todo[p]) \in StatusOps
    BY <1>1, <1>2, SeqParts DEF Ops, RecordOps, EmitOps
  <2> QED
    BY <2>1 DEF StatusOps, StatusOp
<1>5. Writes(p, s)
  <2> SUFFICES ASSUME todo[p] \in Seq(Ops \ {StatusOp(s)})
               PROVE  FALSE
    BY DEF Writes
  <2>1. Head(todo[p]) \in Ops \ {StatusOp(s)}
    BY <1>1, SeqParts
  <2> QED
    BY <1>4, <2>1
<1>6. todo[p] \notin Seq(EmitOps)
  BY <1>5, WritesNothing
<1>7. Tail(todo[p]) \in Seq(QuietOps)
  BY <1>1 DEF BaseInv, Shape, ShapeOf
<1>8. ~Pending(p)'
  BY <1>3, <1>7, QuietShapeNext
<1>9. ~Pending(p)
  BY <1>1 DEF Pending
<1>10. Head(todo[p]).to = s
  BY <1>4 DEF StatusOp
<1> QED
  BY <1>1, <1>3, <1>4, <1>5, <1>6, <1>8, <1>9, <1>10 DEF Active

\* A process that is not active has no node to record, and no status to write.
LEMMA Inactive ==
  ASSUME NEW p, ~Active(p)
  PROVE  /\ ~Pending(p) /\ pc[p] \notin Walking
         /\ \A s \in RunStatus : ~Writes(p, s)
  BY PendingActive, WritesNothing DEF Active

\* What a node that the walk pauses at is going to be recorded as.
LEMMA PauseEntry ==
  ASSUME NEW p, NEW n \in Nodes, PauseStep(p, n)
  PROVE  Pending(p)' /\ Entry(p)'.node = n /\ Entry(p)'.to = "awaiting_approval"
         /\ Entry(p)'.class = "own"
<1>1. PICK t \in {"awaiting_approval"}, o \in Outputs, c \in {"own"} :
        Begins(todo'[p], EntryOf(n, t, o, c), EmitOps \cup {StatusOp(t)})
  BY DEF PauseStep
<1>2. \E S \in SUBSET QuietOps : Begins(todo'[p], EntryOf(n, t, o, c), S)
  BY <1>1, QuietSets
<1>3. t \in NodeStatus /\ c \in Classes
  BY DEF NodeStatus, Classes
<1>4. Pending(p)' /\ Entry(p)'.node = n /\ Entry(p)'.to = t /\ Entry(p)'.class = c
  BY <1>2, <1>3, EntryShape
<1> QED
  BY <1>4

StartedStatus == {"running", "completed", "failed", "cancelled"}

\* A walker has told the run that it runs before it looks at the rows.
Starts(p) ==
  /\ pc[p] = "enter" => status # "none"
  /\ pc[p] = "load" =>
       \/ status \in StartedStatus
       \/ /\ status \in {"pending", "awaiting_approval"}
          /\ todo[p] # <<>> /\ Head(todo[p]) = StatusOp("running")
  /\ pc[p] \in Late \cup {"outputs"} => status \in StartedStatus

WaitingNode == \E n \in Nodes : row[n] = "awaiting_approval" /\ approval[n] # "none"

\* A process that is going to write that the run waits has recorded the node
\* that it waits for, or is going to record it first; and nobody is about to
\* overwrite that record while the run waits.
Waits(p) ==
  /\ Writes(p, "awaiting_approval") =>
       /\ pc[p] = "done"
       /\ IF Pending(p) THEN /\ Entry(p).to = "awaiting_approval"
                             /\ approval[Entry(p).node] # "none"
                        ELSE WaitingNode
  /\ status = "awaiting_approval" => ~Pending(p)

WaitInv ==
  /\ status = "awaiting_approval" => WaitingNode
  /\ \A p \in Procs : Starts(p) /\ Waits(p)

LEMMA WaitInit == Init => WaitInv
<1> SUFFICES ASSUME Init
             PROVE  WaitInv
  OBVIOUS
<1>1. status = "none" /\ \A p \in Procs : todo[p] = <<>> /\ pc[p] = "idle"
  BY DEF Init
<1>2. \A p \in Procs : ~Writes(p, "awaiting_approval")
  BY <1>1, WritesNothing DEF RunStatus
<1> QED
  BY <1>1, <1>2 DEF WaitInv, Starts, Waits, Late

\* The status is written.
LEMMA WaitStatus ==
  ASSUME BaseInv, WaitInv, OneWalker, NEW q \in Procs, DoStatus(q)
  PROVE  WaitInv'
<1>1. /\ Others(q) /\ Kept(q) /\ todo'[q] = Tail(todo[q]) /\ todo[q] # <<>>
      /\ UNCHANGED <<row, approval>> /\ ~Pending(q) /\ ~Pending(q)' /\ Active(q)
  BY StatusStep
<1>2. PICK s \in RunStatus : /\ Head(todo[q]) = StatusOp(s) /\ Writes(q, s)
                             /\ status' = Transitioned(status, s)
  BY StatusStep
<1>3. WaitingNode' <=> WaitingNode
  BY <1>1 DEF WaitingNode
<1>4. status' = "awaiting_approval" => WaitingNode
  BY <1>1, <1>2 DEF WaitInv, Waits, Transitioned
<1>5. ASSUME NEW p \in Procs, p # q
      PROVE  Starts(p)' /\ Waits(p)'
  <2>1. ~Active(p)
    BY <1>1, <1>5 DEF OneWalker
  <2>2. ~Active(p)'
    BY <1>1, <1>5, <2>1, OthersView
  <2>3. ~Pending(p)' /\ pc'[p] \notin Walking /\ ~Writes(p, "awaiting_approval")'
    <3>1. pc'[p] \notin Walking /\ todo'[p] \in Seq(EmitOps)
      BY <2>2 DEF Active
    <3>2. ~Pending(p)' /\ ~Writes(p, "awaiting_approval")'
      <4>1. ~Pending(p) /\ ~Writes(p, "awaiting_approval")
        BY <2>1, Inactive DEF RunStatus
      <4> QED
        BY <1>1, <1>5, <4>1, OthersView DEF Writes
    <3> QED
      BY <3>1, <3>2
  <2> QED
    BY <2>3 DEF Starts, Waits, Walking, Late
<1>6. Waits(q)'
  <2>1. Writes(q, "awaiting_approval")' => Writes(q, "awaiting_approval")
    BY <1>1, SeqParts DEF Writes
  <2> QED
    BY <1>1, <1>3, <2>1 DEF WaitInv, Waits, Kept
<1>7. Starts(q)'
  <2>1. pc[q] \in {"saga", "done", "load"}
    <3>1. todo[q] \notin Seq(EmitOps)
      BY <1>2, WritesNothing
    <3> QED
      BY <1>1, <3>1 DEF BaseInv, Shape, ShapeOf
  <2>2. CASE pc[q] = "load"
    <3>1. s # "awaiting_approval"
      BY <1>2, <2>2 DEF WaitInv, Waits
    <3>2. CASE status \in StartedStatus
      BY <1>1, <1>2, <2>2, <3>1, <3>2
         DEF Starts, StartedStatus, Transitioned, AllowedWorkflow, Kept, Late
    <3>3. CASE status \notin StartedStatus
      <4>1. /\ status \in {"pending", "awaiting_approval"}
            /\ Head(todo[q]) = StatusOp("running")
        BY <2>2, <3>3 DEF WaitInv, Starts
      <4>2. s = "running"
        BY <1>2, <4>1 DEF StatusOp
      <4>3. status' = "running"
        BY <1>2, <4>1, <4>2 DEF Transitioned, AllowedWorkflow
      <4> QED
        BY <1>1, <2>2, <4>3 DEF Starts, StartedStatus, Kept, Late
    <3> QED
      BY <3>2, <3>3
  <2> QED
    BY <1>1, <2>1, <2>2 DEF Starts, Kept, Late
<1> QED
  BY <1>3, <1>4, <1>5, <1>6, <1>7 DEF WaitInv

\* Any other step.
LEMMA WaitOther ==
  ASSUME "write" \notin Faults, BaseInv, WaitInv, OneWalker, [Next]_vars,
         NEW p \in Procs, Others(p), StepOf(p), ~DoStatus(p),
         \/ UNCHANGED status
         \/ status = "none" /\ status' = "pending"
         \/ status' \in StartedStatus
  PROVE  WaitInv'
<1>0. \A n \in Nodes : approval[n] # "none" => approval'[n] # "none"
  BY ApprovalKept DEF BaseInv
<1>1. /\ \A q \in Procs : Starts(q) /\ Waits(q)
      /\ status = "awaiting_approval" => WaitingNode
      /\ status' = "awaiting_approval" => status = "awaiting_approval"
      /\ status # "none" => status' # "none"
      /\ status \in StartedStatus => status' \in StartedStatus
  BY DEF WaitInv, StartedStatus
<1>2. UNCHANGED row /\ WaitingNode => WaitingNode'
  BY <1>0 DEF WaitingNode
<1>3. ASSUME DoRecord(p)
      PROVE  /\ Active(p) /\ Pending(p) /\ ~Pending(p)' /\ Kept(p)
             /\ Entry(p) \in RecordOps
             /\ row' = [row EXCEPT ![Entry(p).node] = Entry(p).to]
             /\ status' # "awaiting_approval"
  BY <1>1, <1>3, RecordView, PendingActive DEF Waits
<1>4. ASSUME ~DoRecord(p)
      PROVE  UNCHANGED row
  <2>1. ASSUME NEW n \in Nodes,
               \/ PauseStep(p, n) \/ FailStep(p, n) \/ SkipStep(p, n)
               \/ \E o \in Outputs : CompleteStep(p, n, o)
        PROVE  UNCHANGED row
    BY <2>1 DEF PauseStep, FailStep, SkipStep, CompleteStep, PassStep, rowVars
  <2> QED
    BY <1>4, <2>1, QuietSteps DEF StepOf
<1>5. status' = "awaiting_approval" => WaitingNode'
  BY <1>1, <1>2, <1>3, <1>4
<1>6. ASSUME NEW q \in Procs, Pending(q), Entry(q)' = Entry(q)
      PROVE  approval[Entry(q).node] # "none" => approval'[Entry(q).node] # "none"
  <2>1. Head(todo[q]) \in Ops
    BY <1>6, SeqParts DEF BaseInv, TypeOK, ProcTypeOK, Pending
  <2>2. Entry(q).node \in Nodes
    BY <1>6, <2>1 DEF Pending, Entry, Ops, StatusOps, EmitOps, RecordOps
  <2> QED
    BY <1>0, <2>2
<1>7. ASSUME NEW q \in Procs, q # p
      PROVE  Starts(q)' /\ Waits(q)'
  <2>1. /\ pc'[q] = pc[q] /\ todo'[q] = todo[q] /\ Entry(q)' = Entry(q)
        /\ Pending(q)' <=> Pending(q)
    BY <1>7, OthersView
  <2>2. Starts(q)'
    <3>1. CASE status \in StartedStatus \/ status' \in StartedStatus
      BY <1>1, <2>1, <3>1 DEF Starts, StartedStatus
    <3>2. CASE UNCHANGED status
      BY <1>1, <2>1, <3>2 DEF Starts
    <3>3. CASE status = "none" /\ status' = "pending"
      BY <1>1, <2>1, <3>3 DEF Starts, StartedStatus
    <3> QED
      BY <3>1, <3>2, <3>3
  <2>3. CASE DoRecord(p)
    <3>1. ~Active(q)
      BY <1>3, <1>7, <2>3 DEF OneWalker
    <3>2. ~Pending(q) /\ ~Writes(q, "awaiting_approval")
      BY <3>1, Inactive DEF RunStatus
    <3> QED
      BY <2>1, <2>2, <3>2 DEF Waits, Writes
  <2>4. CASE ~DoRecord(p)
    <3>1. Waits(q)
      BY <1>1
    <3>2. UNCHANGED row
      BY <1>4, <2>4
    <3> QED
      BY <1>1, <1>2, <1>6, <2>1, <2>2, <3>1, <3>2 DEF Waits, Writes
  <2> QED
    BY <2>3, <2>4
<1>8. ASSUME pc[p] \in Late
      PROVE  status \in StartedStatus /\ status' \in StartedStatus
             /\ status' # "awaiting_approval"
  BY <1>1, <1>8 DEF Starts, StartedStatus
<1>9. Starts(p) /\ Waits(p)
  BY <1>1
<1>10. Starts(p)'
  <2>1. CASE DoRecord(p) \/ ShedStep(p)
    <3>1. pc'[p] = pc[p] /\ todo'[p] = Tail(todo[p]) /\ todo[p] # <<>>
      BY <2>1, RecordView DEF ShedStep, Kept, Pending
    <3>2. CASE pc[p] = "load"
      <4>1. ~DoRecord(p)
        <5>1. todo[p] \in Seq(QuietOps)
          BY <3>2 DEF BaseInv, Shape, ShapeOf
        <5> QED
          BY <1>3, <5>1, QuietShape
      <4>2. Head(todo[p]).op # "status"
        BY <2>1, <4>1 DEF ShedStep, Failure
      <4>3. status \in StartedStatus
        BY <1>9, <3>2, <4>2 DEF Starts, StatusOp
      <4> QED
        BY <1>1, <3>1, <3>2, <4>3 DEF Starts, Late
    <3>3. CASE pc[p] # "load"
      BY <1>1, <1>9, <3>1, <3>3 DEF Starts
    <3> QED
      BY <3>2, <3>3
  <2>2. CASE LeaveStep(p) \/ EndStep(p) \/ \E n \in Nodes : PauseStep(p, n)
                                                          \/ FailStep(p, n)
    <3>1. pc'[p] \in {"done", "saga"}
      BY <2>2 DEF LeaveStep, EndStep, PauseStep, FailStep
    <3> QED
      BY <3>1 DEF Starts, Late
  <2>3. CASE LoadStep(p)
    BY <1>1, <1>9, <2>3 DEF LoadStep, Starts, Late
  <2>4. CASE \/ MoveStep(p)
             \/ \E n \in Nodes : \/ PriorStep(p, n) \/ SkipStep(p, n)
                                 \/ \E o \in Outputs : CompleteStep(p, n, o)
    <3>1. pc[p] \in Late /\ pc'[p] \in {"walk", "ask", "execute", "insert"}
      BY <2>4 DEF MoveStep, PriorStep, SkipStep, CompleteStep, PassStep, Late
    <3> QED
      BY <1>8, <3>1 DEF Starts
  <2>5. CASE OutsideStep(p)
    <3>1. CASE pc'[p] = "load"
      <4>1. /\ pc[p] = "enter" /\ UNCHANGED status
            /\ Begins(todo'[p], StatusOp("running"), EmitOps)
        BY <2>5, <3>1 DEF OutsideStep
      <4>2. status # "none" /\ status \in RunStatus
        BY <1>9, <4>1 DEF Starts, BaseInv, TypeOK, DbTypeOK
      <4> QED
        BY <3>1, <4>1, <4>2 DEF Starts, Begins, StartedStatus, RunStatus, Late
    <3>2. CASE pc'[p] = "outputs"
      <4>1. pc[p] = "load" /\ UNCHANGED status /\ todo[p] = <<>>
        BY <2>5, <3>2 DEF OutsideStep
      <4> QED
        BY <1>9, <3>2, <4>1 DEF Starts
    <3>3. CASE pc'[p] \notin {"load", "outputs"}
      BY <2>5, <3>3 DEF OutsideStep, Starts
    <3> QED
      BY <3>1, <3>2, <3>3
  <2> QED
    BY <2>1, <2>2, <2>3, <2>4, <2>5 DEF StepOf
<1>11. Waits(p)'
  <2>1. CASE DoRecord(p)
    <3>1. Writes(p, "awaiting_approval")' => Writes(p, "awaiting_approval")
      <4>1. todo'[p] = Tail(todo[p]) /\ todo[p] # <<>>
        BY <2>1, RecordView DEF Pending
      <4>2. todo[p] \in Seq(Ops \ {StatusOp("awaiting_approval")})
              => todo'[p] \in Seq(Ops \ {StatusOp("awaiting_approval")})
        BY <4>1, SeqParts
      <4> QED
        BY <4>2 DEF Writes, StatusOp
    <3>2. ASSUME Writes(p, "awaiting_approval")
          PROVE  WaitingNode' /\ pc'[p] = "done"
      <4>1. /\ pc[p] = "done" /\ Entry(p).to = "awaiting_approval"
            /\ approval[Entry(p).node] # "none"
        BY <1>3, <1>9, <2>1, <3>2 DEF Waits
      <4>2. Entry(p).node \in Nodes /\ row \in [Nodes -> NodeStatus]
        BY <1>3, <2>1 DEF RecordOps, BaseInv, TypeOK, DbTypeOK
      <4>3. row'[Entry(p).node] = "awaiting_approval"
        BY <1>3, <2>1, <4>1, <4>2
      <4>4. approval'[Entry(p).node] # "none"
        BY <1>0, <4>1, <4>2
      <4>5. WaitingNode'
        BY <4>2, <4>3, <4>4 DEF WaitingNode
      <4> QED
        BY <1>3, <2>1, <4>1, <4>5 DEF Kept
    <3> QED
      BY <1>3, <2>1, <3>1, <3>2 DEF Waits
  <2>2. CASE ShedStep(p)
    <3>1. ~Pending(p) /\ ~Pending(p)' /\ UNCHANGED row /\ pc'[p] = pc[p]
          /\ todo'[p] = Tail(todo[p]) /\ todo[p] # <<>>
      BY <2>2, QuietSteps DEF ShedStep, Failure, Kept
    <3>2. Writes(p, "awaiting_approval")' => Writes(p, "awaiting_approval")
      BY <3>1, SeqParts DEF Writes
    <3> QED
      BY <1>2, <1>9, <3>1, <3>2 DEF Waits
  <2>3. ASSUME ~DoRecord(p), ~ShedStep(p), Writes(p, "awaiting_approval")'
        PROVE  \E n \in Nodes : PauseStep(p, n)
    <3>1. "awaiting_approval" \in RunStatus
      BY DEF RunStatus
    <3> QED
      BY <2>3, <3>1, WritesNext
  <2>4. CASE /\ ~DoRecord(p) /\ ~ShedStep(p)
             /\ \/ LeaveStep(p) \/ EndStep(p) \/ MoveStep(p) \/ LoadStep(p)
                \/ OutsideStep(p) \/ \E n \in Nodes : PriorStep(p, n)
    <3>1. ~Pending(p)'
      BY <2>4, QuietSteps
    <3>2. ~Writes(p, "awaiting_approval")'
      <4>1. ASSUME NEW n \in Nodes, PauseStep(p, n)
            PROVE  FALSE
        BY <3>1, <4>1, PauseEntry
      <4> QED
        BY <2>3, <2>4, <4>1
    <3> QED
      BY <3>1, <3>2 DEF Waits
  <2>5. ASSUME NEW n \in Nodes, PauseStep(p, n)
        PROVE  Waits(p)'
    <3>1. /\ pc'[p] = "done" /\ approval'[n] # "none" /\ pc[p] \in Late
      BY <2>5 DEF PauseStep, AtNode, Late
    <3>2. Pending(p)' /\ Entry(p)'.node = n /\ Entry(p)'.to = "awaiting_approval"
      BY <2>5, PauseEntry
    <3> QED
      BY <1>8, <3>1, <3>2 DEF Waits
  <2>6. ASSUME NEW n \in Nodes, ~DoRecord(p), ~ShedStep(p),
               ~\E m \in Nodes : PauseStep(p, m),
               \/ FailStep(p, n) \/ SkipStep(p, n)
               \/ \E o \in Outputs : CompleteStep(p, n, o)
        PROVE  Waits(p)'
    <3>1. pc[p] \in Late
      BY <2>6 DEF FailStep, SkipStep, CompleteStep, AtNode, Late
    <3> QED
      BY <1>8, <2>3, <2>6, <3>1 DEF Waits
  <2> QED
    BY <2>1, <2>2, <2>4, <2>5, <2>6 DEF StepOf
<1> QED
  BY <1>5, <1>7, <1>10, <1>11 DEF WaitInv

LEMMA WaitNext ==
  ASSUME "write" \notin Faults, BaseInv, WaitInv, OneWalker, [Next]_vars
  PROVE  WaitInv'
<1>1. CASE \E q \in Procs : DoStatus(q)
  BY <1>1, WaitStatus
<1>2. CASE ~\E q \in Procs : DoStatus(q)
  <2>1. \/ UNCHANGED status
        \/ status = "none" /\ status' = "pending"
        \/ status' \in StartedStatus
    BY <1>2, StatusView DEF StartedStatus
  <2>2. CASE NoStep
    <3>1. UNCHANGED <<row, pc, todo>>
      BY <2>2 DEF NoStep, rowVars
    <3>2. \A n \in Nodes : approval[n] # "none" => approval'[n] # "none"
      BY ApprovalKept DEF BaseInv
    <3>3. WaitingNode => WaitingNode'
      BY <3>1, <3>2 DEF WaitingNode
    <3>4. status' = "awaiting_approval" => WaitingNode'
      BY <2>1, <3>3 DEF WaitInv, StartedStatus
    <3>5. ASSUME NEW q \in Procs
          PROVE  Starts(q)' /\ Waits(q)'
      <4>1. Starts(q) /\ Waits(q)
        BY DEF WaitInv
      <4>2. Pending(q)' <=> Pending(q)
        BY <3>1 DEF Pending
      <4>3. Entry(q)' = Entry(q)
        BY <3>1 DEF Entry
      <4>4. Pending(q) => Entry(q).node \in Nodes
        <5> SUFFICES ASSUME Pending(q)
                     PROVE  Entry(q).node \in Nodes
          OBVIOUS
        <5>1. Head(todo[q]) \in Ops
          BY SeqParts DEF BaseInv, TypeOK, ProcTypeOK, Pending
        <5> QED
          BY <5>1 DEF Pending, Entry, Ops, StatusOps, EmitOps, RecordOps
      <4>5. Waits(q)'
        BY <2>1, <3>1, <3>2, <3>3, <4>1, <4>2, <4>3, <4>4
           DEF Waits, Writes, StartedStatus
      <4>6. Starts(q)'
        BY <2>1, <3>1, <4>1 DEF Starts, StartedStatus
      <4> QED
        BY <4>5, <4>6
    <3> QED
      BY <3>4, <3>5 DEF WaitInv
  <2>3. ASSUME NEW p \in Procs, Others(p), StepOf(p)
        PROVE  WaitInv'
    BY <1>2, <2>1, <2>3, WaitOther
  <2> QED
    BY <2>2, <2>3, WalkSteps DEF BaseInv
<1> QED
  BY <1>1, <1>2

LEMMA WaitCorrect ==
  ASSUME "write" \notin Faults
  PROVE  Spec /\ []OneWalker => [](BaseInv /\ WaitInv)
<1>1. BaseInv /\ WaitInv /\ OneWalker /\ [Next]_vars => (BaseInv /\ WaitInv)'
  BY BaseNext, WaitNext
<1> QED
  BY <1>1, BaseInit, WaitInit, PTL DEF Spec

\* A run that waits for approval has a node that waits, and an approval that was
\* asked for there: the node is recorded before the run, and no other walker
\* overwrites it, as long as no two walks overlap and no record is lost.
THEOREM WaitingRunHasNode ==
  ASSUME "write" \notin Faults
  PROVE  Spec /\ []OneWalker => []WaitingHasNode
<1>1. BaseInv /\ WaitInv => WaitingHasNode
  BY DEF WaitInv, WaitingNode, WaitingHasNode
<1> QED
  BY <1>1, WaitCorrect, PTL

------------------------------------------------------------------------------
(* A completed run keeps its effects. *)

Settled == status \in {"failed", "cancelled"}

\* A saga runs for a run that was stopped, or that has failed, or that its
\* walker writes failed before it looks for what to compensate.
SagaOwed(p) ==
  /\ pc[p] = "saga" =>
       /\ Settled \/ (status = "running" /\ Writes(p, "failed"))
       /\ \A s \in RunStatus \ {"failed"} : ~Writes(p, s)
  /\ pc[p] = "undo" => Settled
  /\ pc[p] # "replaying"

SettleInv == (undone # {} => Settled) /\ \A p \in Procs : SagaOwed(p)

\* Nobody asks for a replay.
NoReplay == \A p \in Procs : "replay" \notin Requests[p]

LEMMA SettleInit == Init => SettleInv
  BY DEF Init, SettleInv, SagaOwed

\* Only a saga compensates.
LEMMA UndoneView ==
  ASSUME [Next]_vars
  PROVE  \/ UNCHANGED undone
         \/ \E p \in Procs : pc[p] = "undo" /\ UNCHANGED status
<1> USE DEF dbVars, runVars, gateVars, procVars, walkVars, histVars
<1>1. CASE UNCHANGED vars \/ \E n \in Nodes : Escalate(n)
  BY <1>1 DEF vars, Escalate
<1>2. ASSUME NEW p \in Procs, Request(p) \/ Write(p) \/ Handle(p) \/ Load(p)
      PROVE  UNCHANGED undone
  BY <1>2 DEF Request, StartRun, StopRead, ReplayRead, PickApproval, Write,
              DoStatus, DoRecord, DoEmit, Handle, Advance, Approve, Reject, Refuse,
              CheckResume, StopAnchor, StopWrite, ReplayWrite, Load, Enter,
              LoadWorkflow, LoadOutputs, LoadApprovals
<1>3. ASSUME NEW p \in Procs, NEW n \in Nodes, Visit(p, n) \/ Execute(p, n)
      PROVE  UNCHANGED undone
  BY <1>3 DEF Visit, PassPrior, SkipDead, PassApproved, FailRejected, AskOversight,
              PauseForOversight, Proceed, Execute, GateLetsThrough, GatePauses,
              EffectFires, DedupHit, DedupMiss, DedupInsert, PureCompletes,
              DecisionTaken
<1>4. ASSUME NEW p \in Procs, Disturb(p) \/ EndOfWalk(p)
      PROVE  UNCHANGED undone
  BY <1>4 DEF Disturb, LoseWrite, LoseEmit, LoadFails, Interrupted, Crash,
              NoExecutor, OversightFailsOpen, ExecFails, ExecFailsLate,
              DecisionUnnamed, UndoFails, EndOfWalk
<1>5. ASSUME NEW p \in Procs, Compensate(p)
      PROVE  UNCHANGED undone \/ (pc[p] = "undo" /\ UNCHANGED status)
  BY <1>5 DEF Compensate, SagaLoad, SagaEnds, Undo, At
<1> QED
  BY <1>1, <1>2, <1>3, <1>4, <1>5 DEF Next, Step

\* What is still to be written, when something else was written.
LEMMA WritesStay ==
  ASSUME BaseInv, NEW p \in Procs, NEW s \in RunStatus, todo[p] # <<>>,
         todo'[p] = Tail(todo[p]), Head(todo[p]).op # "status"
  PROVE  Writes(p, s) => Writes(p, s)'
<1>1. todo[p] \in Seq(Ops)
  BY DEF BaseInv, TypeOK, ProcTypeOK
<1>2. Head(todo[p]) \in Ops \ {StatusOp(s)}
  <2>1. Head(todo[p]) \in Ops
    BY <1>1, SeqParts
  <2> QED
    BY <2>1 DEF StatusOp
<1>3. todo'[p] \in Seq(Ops \ {StatusOp(s)}) => todo[p] \in Seq(Ops \ {StatusOp(s)})
  BY <1>1, <1>2, SeqWhole
<1> QED
  BY <1>3 DEF Writes, StatusOp

\* The status is written.
LEMMA SettleStatus ==
  ASSUME BaseInv, SettleInv, OneWalker, [Next]_vars, NEW q \in Procs, DoStatus(q)
  PROVE  SettleInv'
<1>1. /\ Others(q) /\ Kept(q) /\ todo'[q] = Tail(todo[q]) /\ todo[q] # <<>>
      /\ UNCHANGED undone /\ Active(q)
  BY StatusStep
<1>2. PICK s \in RunStatus : /\ Head(todo[q]) = StatusOp(s) /\ Writes(q, s)
                             /\ status' = Transitioned(status, s)
  BY StatusStep
<1>3. Settled => Settled'
  BY <1>2 DEF Settled, Transitioned, AllowedWorkflow
<1>4. ASSUME NEW p \in Procs
      PROVE  SagaOwed(p)'
  <2>1. pc'[p] = pc[p]
    BY <1>1, OthersView DEF Kept
  <2>2. SagaOwed(p)
    BY DEF SettleInv
  <2>3. ASSUME pc[p] = "saga", NEW t \in RunStatus \ {"failed"}, Writes(p, t)'
        PROVE  FALSE
    <3>1. ~Writes(p, t)
      BY <2>2, <2>3 DEF SagaOwed
    <3>2. CASE p = q
      <4>1. todo[q] \in Seq(Ops \ {StatusOp(t)})
        BY <3>1, <3>2 DEF Writes
      <4>2. todo'[q] \in Seq(Ops \ {StatusOp(t)})
        BY <1>1, <4>1, SeqParts
      <4> QED
        BY <2>3, <3>2, <4>2 DEF Writes, StatusOp
    <3>3. CASE p # q
      BY <1>1, <2>3, <3>1, <3>3, OthersView DEF Writes
    <3> QED
      BY <3>2, <3>3
  <2>4. ASSUME pc[p] = "saga", ~Settled
        PROVE  Settled'
    <3>1. status = "running" /\ Writes(p, "failed")
      BY <2>2, <2>4 DEF SagaOwed
    <3>2. Active(p)
      BY <3>1, Inactive DEF RunStatus
    <3>3. p = q
      BY <1>1, <3>2 DEF OneWalker
    <3>4. s = "failed"
      BY <1>2, <2>2, <2>4, <3>3 DEF SagaOwed
    <3> QED
      BY <1>2, <3>1, <3>4 DEF Settled, Transitioned, AllowedWorkflow
  <2> QED
    BY <1>3, <2>1, <2>2, <2>3, <2>4 DEF SagaOwed
<1> QED
  BY <1>1, <1>3, <1>4 DEF SettleInv

\* Any other step.
LEMMA SettleOther ==
  ASSUME Forward, NoReplay, "write" \notin Faults, BaseInv, RouteInv, WaitInv,
         SettleInv, [Next]_vars, NEW p \in Procs, Others(p), StepOf(p), ~DoStatus(p),
         \/ UNCHANGED status \/ Settled'
         \/ status = "none" /\ status' = "pending"
  PROVE  \A q \in Procs : SagaOwed(q)'
<1>1. Settled => Settled'
  BY DEF Settled
<1>2. status = "running" => status' = "running" \/ Settled'
  OBVIOUS
<1>3. ASSUME NEW q \in Procs, q # p
      PROVE  SagaOwed(q)'
  <2>1. pc'[q] = pc[q] /\ todo'[q] = todo[q]
    BY <1>3, OthersView
  <2>2. SagaOwed(q)
    BY DEF SettleInv
  <2> QED
    BY <1>1, <1>2, <2>1, <2>2 DEF SagaOwed, Writes, Settled
<1>4. SagaOwed(p)
  BY DEF SettleInv
<1>5. ASSUME DoRecord(p) \/ ShedStep(p)
      PROVE  SagaOwed(p)'
  <2>1. /\ pc'[p] = pc[p] /\ todo'[p] = Tail(todo[p]) /\ todo[p] # <<>>
        /\ Head(todo[p]).op # "status"
    <3>1. CASE DoRecord(p)
      BY <3>1, RecordView DEF Kept, Pending
    <3>2. CASE ShedStep(p)
      BY <3>2 DEF ShedStep, Kept, Failure
    <3> QED
      BY <1>5, <3>1, <3>2
  <2>2. Writes(p, "failed") => Writes(p, "failed")'
    BY <2>1, WritesStay DEF RunStatus
  <2>3. \A s \in RunStatus : todo[p] \in Seq(Ops \ {StatusOp(s)})
                               => todo'[p] \in Seq(Ops \ {StatusOp(s)})
    BY <2>1, SeqParts
  <2>4. \A s \in RunStatus : ~Writes(p, s) => ~Writes(p, s)'
    BY <2>3 DEF Writes, StatusOp
  <2> QED
    BY <1>1, <1>2, <1>4, <2>1, <2>2, <2>4 DEF SagaOwed, Settled
<1>6. ASSUME NEW n \in Nodes, FailStep(p, n)
      PROVE  SagaOwed(p)'
  <2>1. todo[p] = <<>> /\ pc[p] \in Late /\ pc'[p] \in {"done", "saga"}
    BY <1>6 DEF FailStep, AtNode, Late
  <2>2. Settled \/ status = "running"
    <3>1. AtNode(p, n)
      BY <1>6 DEF FailStep
    <3>2. status # "completed"
      BY <3>1, AtNodeOpen DEF RouteInv, AllDecided
    <3>3. status \in StartedStatus
      BY <2>1 DEF WaitInv, Starts
    <3> QED
      BY <3>2, <3>3 DEF StartedStatus, Settled
  <2>3. Writes(p, "failed")'
    BY <1>6 DEF FailStep, Writes, StatusOp
  <2>4. ASSUME NEW s \in RunStatus \ {"failed"}, Writes(p, s)'
        PROVE  FALSE
    <3>1. ~DoRecord(p) /\ ~ShedStep(p)
      BY <2>1 DEF DoRecord, ShedStep
    <3>3. ~OutsideStep(p)
      BY <2>1 DEF OutsideStep
    <3>4. \A m \in Nodes : PauseStep(p, m) => FALSE
      <4> SUFFICES ASSUME NEW m \in Nodes, PauseStep(p, m)
                   PROVE  FALSE
        OBVIOUS
      <4>1. Entry(p)'.to = "awaiting_approval"
        BY PauseEntry
      <4>2. PICK t \in {"failed"}, o \in {"none"}, c \in Classes :
              Begins(todo'[p], EntryOf(n, t, o, c), EmitOps \cup {StatusOp(t)})
        BY <1>6 DEF FailStep
      <4> QED
        BY <4>1, <4>2 DEF Begins, EntryOf, Entry
    <3>5. ~EndStep(p)
      BY <1>6, WorkflowAssumption DEF FailStep, AtNode, EndStep, Nodes
    <3> QED
      BY <2>4, <3>1, <3>3, <3>4, <3>5, WritesNext
  <2> QED
    BY <1>1, <1>2, <2>1, <2>2, <2>3, <2>4 DEF SagaOwed, Settled
<1>7. ASSUME OutsideStep(p)
      PROVE  SagaOwed(p)'
  <2>1. todo[p] = <<>>
    BY <1>7 DEF OutsideStep
  <2>2. CASE pc'[p] = "saga"
    <3>1. status' = "cancelled" /\ todo'[p] \in Seq(EmitOps)
      BY <1>7, <2>2 DEF OutsideStep
    <3>2. ASSUME NEW s \in RunStatus, Writes(p, s)'
          PROVE  FALSE
      <4>1. EmitOps \subseteq Ops \ {StatusOp(s)}
        BY OpsApart
      <4>2. todo'[p] \in Seq(Ops \ {StatusOp(s)})
        BY <3>1, <4>1, SeqMore
      <4> QED
        BY <3>2, <4>2 DEF Writes, StatusOp
    <3> QED
      BY <2>2, <3>1, <3>2 DEF SagaOwed, Settled
  <2>3. CASE pc'[p] = "undo"
    <3>1. pc[p] = "saga" /\ UNCHANGED status
      BY <1>7, <2>3 DEF OutsideStep
    <3>2. ~Writes(p, "failed")
      BY <2>1, WritesNothing DEF RunStatus
    <3> QED
      BY <1>1, <1>4, <2>3, <3>1, <3>2 DEF SagaOwed, Settled
  <2>4. CASE pc'[p] = "replaying"
    BY <1>7, <2>4 DEF OutsideStep, NoReplay
  <2> QED
    BY <2>2, <2>3, <2>4 DEF SagaOwed, Settled
<1>8. ASSUME \/ LeaveStep(p) \/ EndStep(p) \/ MoveStep(p) \/ LoadStep(p)
             \/ \E n \in Nodes : \/ PauseStep(p, n) \/ PriorStep(p, n) \/ SkipStep(p, n)
                                 \/ \E o \in Outputs : CompleteStep(p, n, o)
      PROVE  SagaOwed(p)'
  <2>1. pc'[p] \notin {"saga", "undo", "replaying"}
    BY <1>8 DEF LeaveStep, EndStep, MoveStep, LoadStep, PauseStep, PriorStep,
                SkipStep, CompleteStep, PassStep
  <2> QED
    BY <2>1 DEF SagaOwed, Settled
<1>9. SagaOwed(p)'
  BY <1>5, <1>6, <1>7, <1>8 DEF StepOf
<1> QED
  BY <1>3, <1>9

LEMMA SettleNext ==
  ASSUME Forward, NoReplay, "write" \notin Faults, BaseInv, RouteInv, WaitInv,
         SettleInv, OneWalker, [Next]_vars
  PROVE  SettleInv'
<1>1. CASE \E q \in Procs : DoStatus(q)
  BY <1>1, SettleStatus
<1>2. CASE ~\E q \in Procs : DoStatus(q)
  <2>1. \/ UNCHANGED status \/ Settled'
        \/ status = "none" /\ status' = "pending"
    <3>1. \A q \in Procs : ~ReplayWrite(q)
      BY DEF SettleInv, SagaOwed, ReplayWrite, At
    <3> QED
      BY <1>2, <3>1, StatusView DEF Settled
  <2>2. undone' # {} => Settled'
    <3>1. Settled => Settled'
      BY <2>1 DEF Settled
    <3> QED
      BY <3>1, UndoneView DEF SettleInv, SagaOwed, Settled
  <2>3. CASE NoStep
    <3>1. UNCHANGED <<pc, todo>>
      BY <2>3 DEF NoStep
    <3>2. Settled => Settled'
      BY <2>1 DEF Settled
    <3>3. status = "running" => status' = "running" \/ Settled'
      BY <2>1
    <3>4. ASSUME NEW q \in Procs
          PROVE  SagaOwed(q)'
      <4>1. SagaOwed(q)
        BY DEF SettleInv
      <4> QED
        BY <3>1, <3>2, <3>3, <4>1 DEF SagaOwed, Writes, Settled
    <3> QED
      BY <2>2, <3>4 DEF SettleInv
  <2>4. ASSUME NEW p \in Procs, Others(p), StepOf(p)
        PROVE  SettleInv'
    BY <1>2, <2>1, <2>2, <2>4, SettleOther DEF SettleInv
  <2> QED
    BY <2>3, <2>4, WalkSteps DEF BaseInv
<1> QED
  BY <1>1, <1>2

\* A run that is completed has none of its effects compensated: a saga runs only
\* for a run that failed or was stopped, and neither is completed afterwards, as
\* long as nobody replays it, no two walks overlap and no record is lost.
THEOREM CompletedIsKept ==
  ASSUME Forward, NoReplay, "write" \notin Faults
  PROVE  Spec /\ []OneWalker => []CompletedKeepsEffects
<1> DEFINE Inv == BaseInv /\ RouteInv /\ WaitInv /\ SettleInv
<1>1. Inv /\ OneWalker /\ [Next]_vars => Inv'
  BY BaseNext, RouteNext, WaitNext, SettleNext
<1>2. Init => Inv
  BY BaseInit, RouteInit, WaitInit, SettleInit
<1>3. Inv => CompletedKeepsEffects
  BY DEF SettleInv, Settled, CompletedKeepsEffects
<1> QED
  BY <1>1, <1>2, <1>3, PTL DEF Spec

------------------------------------------------------------------------------
(* A stopped run is undone. *)

\* What a stop or a saga needs of the system: no node is recorded by a worker
\* that lacks its type, no worker dies, and no handler, append or write fails.
Hindering == {"missing", "crash", "undo", "emit", "write"}

\* The nodes that ran were recorded under a class of their own, as a saga wants.
\* Only a skipped node was not, and that is never recorded otherwise later.
OwnClass ==
  /\ \A n \in Nodes : row[n] \notin {"none", "skipped"} => class[n] = "own"
  /\ \A p \in Procs : Pending(p) => \/ Entry(p).class = "own"
                                    \/ Entry(p).to = "skipped"

LEMMA OwnInit == Init => OwnClass
  BY DEF Init, OwnClass, Nothing, Pending

LEMMA OwnNext ==
  ASSUME "missing" \notin Faults, BaseInv, RouteInv, OwnClass, [Next]_vars
  PROVE  OwnClass'
<1>0. /\ row \in [Nodes -> NodeStatus] /\ class \in [Nodes -> Classes]
      /\ \A n \in Nodes : row[n] \notin {"none", "skipped"} => class[n] = "own"
  BY DEF BaseInv, TypeOK, DbTypeOK, OwnClass
<1>1. CASE NoStep
  <2>1. UNCHANGED <<row, class, todo>>
    BY <1>1 DEF NoStep, rowVars
  <2> QED
    BY <2>1 DEF OwnClass, Pending, Entry
<1>2. ASSUME NEW p \in Procs, Others(p), StepOf(p)
      PROVE  OwnClass'
  <2>1. ASSUME NEW q \in Procs, q # p, Pending(q)'
        PROVE  Entry(q)'.class = "own" \/ Entry(q)'.to = "skipped"
    <3>1. Pending(q) /\ Entry(q)' = Entry(q)
      BY <1>2, <2>1, OthersView
    <3> QED
      BY <3>1 DEF OwnClass
  <2>2. CASE DoRecord(p)
    <3>1. /\ Pending(p) /\ ~Pending(p)' /\ Entry(p).node \in Nodes
          /\ row' = [row EXCEPT ![Entry(p).node] = Entry(p).to]
          /\ class' = [class EXCEPT ![Entry(p).node] =
                         IF row[Entry(p).node] = "none" THEN Entry(p).class ELSE @]
      BY <2>2, RecordView DEF RecordOps, Pending
    <3>2. /\ row[Entry(p).node] = "skipped" => Entry(p).to = "skipped"
          /\ Entry(p).class = "own" \/ Entry(p).to = "skipped"
      BY <3>1 DEF RouteInv, RouteOf, PendRouted, OwnClass
    <3> DEFINE k == Entry(p).node
               t == Entry(p).to
               c == Entry(p).class
    <3> HIDE DEF k, t, c
    <3>3. /\ k \in Nodes /\ row' = [row EXCEPT ![k] = t]
          /\ class' = [class EXCEPT ![k] = IF row[k] = "none" THEN c ELSE @]
          /\ row[k] = "skipped" => t = "skipped"
          /\ c = "own" \/ t = "skipped"
      BY <3>1, <3>2 DEF k, t, c
    <3>4. \A n \in Nodes : row'[n] \notin {"none", "skipped"} => class'[n] = "own"
      BY <1>0, <3>3
    <3> QED
      BY <2>1, <3>1, <3>4 DEF OwnClass
  <2>3. CASE \/ ShedStep(p) \/ LeaveStep(p) \/ EndStep(p) \/ MoveStep(p)
             \/ LoadStep(p) \/ OutsideStep(p) \/ \E n \in Nodes : PriorStep(p, n)
    <3>1. ~Pending(p)' /\ UNCHANGED <<row, class>>
      BY <2>3, QuietSteps
    <3> QED
      BY <1>0, <2>1, <3>1 DEF OwnClass
  <2>4. ASSUME NEW n \in Nodes, PauseStep(p, n) \/ FailStep(p, n)
        PROVE  OwnClass'
    <3>1. Entry(p)'.class = "own" /\ UNCHANGED <<row, class>>
      BY <2>4, GiveUpEntry DEF rowVars
    <3> QED
      BY <1>0, <2>1, <3>1 DEF OwnClass
  <2>5. ASSUME NEW n \in Nodes, SkipStep(p, n)
        PROVE  OwnClass'
    <3>1. Entry(p)'.to = "skipped" /\ UNCHANGED <<row, class>>
      BY <2>5, SkipEntry DEF rowVars, SkipStep, PassStep
    <3> QED
      BY <1>0, <2>1, <3>1 DEF OwnClass
  <2>6. ASSUME NEW n \in Nodes, NEW o \in Outputs, CompleteStep(p, n, o)
        PROVE  OwnClass'
    <3>1. UNCHANGED <<row, class>>
      BY <2>6 DEF CompleteStep, PassStep, rowVars
    <3>2. Entry(p)'.class = "own"
      BY <2>6, QuietSets DEF CompleteStep, Begins, Entry, EntryOf
    <3> QED
      BY <1>0, <2>1, <3>1, <3>2 DEF OwnClass
  <2> QED
    BY <1>2, <2>2, <2>3, <2>4, <2>5, <2>6 DEF StepOf
<1> QED
  BY <1>1, <1>2, WalkSteps DEF BaseInv

\* Where a stop is on its way to compensate.
Stopping == {"stopundo", "saga", "undo"}

\* The others, as a stop sees them, stay as they are.
Aside(p) ==
  \A q \in Procs \ {p} : /\ pc'[q] = pc[q] /\ job'[q] = job[q]
                         /\ undo'[q] = undo[q]

\* A step of p, as its stop sees it.
StopStep(p) ==
  \/ /\ pc'[p] = pc[p] /\ job'[p] = job[p]
     /\ undo[p] \cap Undoable \subseteq undo'[p] \cup undone'
  \/ pc[p] = "stopundo" /\ pc'[p] = "saga" /\ job'[p] = job[p]
  \/ /\ pc[p] = "saga" /\ pc'[p] = "undo" /\ job'[p] = job[p]
     /\ undo'[p] = Compensable
  \/ pc[p] = "saga" /\ pc'[p] = "done" /\ Compensable = {}
  \/ pc[p] = "undo" /\ pc'[p] = "done" /\ undo[p] = {}
  \/ pc[p] = "idle" /\ pc'[p] = "anchor" /\ job'[p] = job[p]
  \/ /\ pc[p] \notin Stopping \/ job[p] # "none"
     /\ pc'[p] \notin {"idle", "anchor"}

LEMMA LeaveAside ==
  ASSUME TypeOK, NEW p \in Procs, NEW ops, Leave(p, ops)
  PROVE  Aside(p) /\ pc'[p] = "done"
  BY DEF Leave, Go, Aside, TypeOK, ProcTypeOK

LEMMA GoAside ==
  ASSUME TypeOK, NEW p \in Procs, NEW to, Go(p, to), UNCHANGED undo,
         UNCHANGED job \/ \E j : job' = [job EXCEPT ![p] = j]
  PROVE  /\ Aside(p) /\ pc'[p] = to /\ undo'[p] = undo[p]
         /\ UNCHANGED job => job'[p] = job[p]
  BY DEF Go, Aside, TypeOK, ProcTypeOK

\* Requests and their handling.
LEMMA HandleStops ==
  ASSUME TypeOK, NEW p \in Procs, Request(p) \/ Handle(p), ~StopAnchor(p)
  PROVE  Aside(p) /\ StopStep(p) /\ UNCHANGED <<owed, undone>>
<1> USE DEF dbVars, runVars, gateVars, walkVars, histVars
<1>1. CASE StartRun(p) \/ ReplayRead(p) \/ ReplayWrite(p) \/ Reject(p) \/ Approve(p)
           \/ \E n \in Nodes, d \in {"approve", "reject"} : PickApproval(p, n, d)
  <2>1. /\ \E to \in {"enter", "replaying", "refuse", "check", "decide"} : Go(p, to)
        /\ UNCHANGED undo
        /\ UNCHANGED job \/ \E j : job' = [job EXCEPT ![p] = j]
        /\ pc[p] \notin Stopping /\ UNCHANGED <<owed, undone>>
    BY <1>1 DEF StartRun, ReplayRead, ReplayWrite, Reject, Approve, PickApproval,
                Ask, At, Stopping
  <2> QED
    BY <2>1, GoAside DEF StopStep
<1>2. CASE Advance(p) \/ Refuse(p)
  <2>1. /\ \E ops : Leave(p, ops)
        /\ pc[p] \notin Stopping /\ UNCHANGED <<owed, undone>>
    BY <1>2 DEF Advance, Refuse, At, Stopping
  <2> QED
    BY <2>1, LeaveAside DEF StopStep
<1>3. CASE CheckResume(p)
  <2>1. /\ (\E ops : Leave(p, ops)) \/ (Go(p, "enter") /\ UNCHANGED <<job, undo>>)
        /\ pc[p] \notin Stopping /\ UNCHANGED <<owed, undone>>
    BY <1>3 DEF CheckResume, At, Stopping
  <2> QED
    BY <2>1, LeaveAside, GoAside DEF StopStep
<1>4. CASE StopRead(p)
  <2>1. /\ Go(p, "anchor") /\ UNCHANGED <<undo, job, owed, undone>>
        /\ pc[p] = "idle"
    BY <1>4 DEF StopRead, Ask, At
  <2> QED
    BY <2>1, GoAside DEF StopStep
<1>5. CASE StopWrite(p)
  <2>1. UNCHANGED <<owed, undone>> /\ pc[p] \in {"stopundo", "stoponly"}
    BY <1>5 DEF StopWrite, At
  <2>2. CASE pc[p] = "stopundo"
    <3>1. Go(p, "saga") /\ UNCHANGED <<job, undo>>
      BY <1>5, <2>2 DEF StopWrite
    <3> QED
      BY <2>1, <2>2, <3>1, GoAside DEF StopStep
  <2>3. CASE pc[p] # "stopundo"
    <3>1. Leave(p, <<>>) /\ pc[p] \notin Stopping
      BY <1>5, <2>1, <2>3 DEF StopWrite, Stopping
    <3> QED
      BY <2>1, <3>1, LeaveAside DEF StopStep
  <2> QED
    BY <2>2, <2>3
<1> QED
  BY <1>1, <1>2, <1>3, <1>4, <1>5 DEF Request, Handle

\* Writes.
LEMMA WriteStops ==
  ASSUME TypeOK, "emit" \notin Faults, NEW p \in Procs,
         Write(p) \/ LoseWrite(p) \/ LoseEmit(p)
  PROVE  Aside(p) /\ StopStep(p) /\ UNCHANGED <<owed, undone>>
<1>1. UNCHANGED <<pc, job, undo, owed, undone>>
  BY DEF Write, DoStatus, DoRecord, DoEmit, LoseWrite, LoseEmit, Fault, walkVars,
         histVars
<1> QED
  BY <1>1 DEF Aside, StopStep

\* The steps of a walk.
LEMMA WalkStops ==
  ASSUME TypeOK, NEW p \in Procs,
         \/ Load(p) \/ LoadFails(p) \/ EndOfWalk(p)
         \/ \E n \in Nodes :
              \/ Visit(p, n) \/ NoExecutor(p, n) \/ OversightFailsOpen(p, n)
              \/ Execute(p, n) \/ ExecFails(p, n) \/ ExecFailsLate(p, n)
              \/ DecisionUnnamed(p, n)
  PROVE  Aside(p) /\ StopStep(p) /\ UNCHANGED <<owed, undone>>
<1> USE DEF dbVars, runVars, gateVars, walkVars, histVars
<1> DEFINE Goes == /\ pc[p] \notin Stopping /\ UNCHANGED <<owed, undone>>
                   /\ \/ \E ops : Leave(p, ops)
                      \/ /\ UNCHANGED <<job, undo>>
                         /\ \E to \in Places \ {"idle", "anchor"} : Go(p, to)
<1>1. Goes => Aside(p) /\ StopStep(p) /\ UNCHANGED <<owed, undone>>
  <2> HAVE Goes
  <2>1. Aside(p) /\ pc'[p] \notin {"idle", "anchor"}
    BY LeaveAside, GoAside
  <2> QED
    BY <2>1 DEF StopStep
<1>2. CASE Load(p) \/ LoadFails(p) \/ EndOfWalk(p)
  <2>1. Goes
    BY <1>2 DEF Load, Enter, LoadWorkflow, LoadOutputs, LoadApprovals, LoadFails,
                EndOfWalk, Visits, At, Stopping, Places
  <2> QED
    BY <1>1, <2>1
<1>3. ASSUME NEW n \in Nodes, \/ Visit(p, n) \/ NoExecutor(p, n)
                              \/ OversightFailsOpen(p, n)
      PROVE  Goes
  BY <1>3 DEF Visit, PassPrior, SkipDead, PassApproved, FailRejected, AskOversight,
              PauseForOversight, Proceed, NoExecutor, OversightFailsOpen, Passed,
              Visits, At, Stopping, Places
<1>4. ASSUME NEW n \in Nodes, Execute(p, n)
      PROVE  Goes
  BY <1>4 DEF Execute, GateLetsThrough, GatePauses, EffectFires, DedupHit, DedupMiss,
              DedupInsert, PureCompletes, DecisionTaken, Completed, Passed,
              Executes, At, Stopping, Places
<1>5. ASSUME NEW n \in Nodes, \/ ExecFails(p, n) \/ ExecFailsLate(p, n)
                              \/ DecisionUnnamed(p, n)
      PROVE  Goes
  BY <1>5 DEF ExecFails, ExecFailsLate, Fails, DecisionUnnamed, Executes, At,
              Stopping, Places
<1> QED
  BY <1>1, <1>2, <1>3, <1>4, <1>5

\* Sagas, and interruptions, which stop nothing but a walk.
LEMMA SagaStops ==
  ASSUME TypeOK, Faults \cap Hindering = {}, NEW p \in Procs,
         \/ Compensate(p) \/ Interrupted(p) \/ Crash(p)
         \/ \E n \in Nodes : UndoFails(p, n)
  PROVE  Aside(p) /\ StopStep(p) /\ UNCHANGED owed /\ undone \subseteq undone'
<1> USE DEF dbVars, runVars, gateVars, walkVars, histVars
<1>1. CASE SagaLoad(p) /\ Compensable = {}
  <2>1. Leave(p, <<>>) /\ pc[p] = "saga" /\ UNCHANGED <<owed, undone>>
    BY <1>1 DEF SagaLoad, At
  <2> QED
    BY <1>1, <2>1, LeaveAside DEF StopStep
<1>2. CASE SagaLoad(p) /\ Compensable # {}
  <2>1. /\ Go(p, "undo") /\ pc[p] = "saga" /\ UNCHANGED <<job, owed, undone>>
        /\ undo' = [undo EXCEPT ![p] = Compensable]
    BY <1>2 DEF SagaLoad, At
  <2>2. Aside(p) /\ pc'[p] = "undo" /\ undo'[p] = Compensable
    BY <2>1 DEF Go, Aside, TypeOK, ProcTypeOK
  <2> QED
    BY <2>1, <2>2 DEF StopStep
<1>3. CASE SagaEnds(p)
  <2>1. /\ pc[p] = "undo" /\ undo[p] = {} /\ UNCHANGED <<owed, undone>>
        /\ \E ops : Leave(p, ops)
    BY <1>3 DEF SagaEnds, At
  <2> QED
    BY <2>1, LeaveAside DEF StopStep
<1>4. ASSUME NEW n \in Nodes, Undo(p, n)
      PROVE  Aside(p) /\ StopStep(p) /\ UNCHANGED owed /\ undone \subseteq undone'
  <2>1. /\ undo' = [undo EXCEPT ![p] = @ \ {n}]
        /\ undone' = undone \cup ({n} \cap Undoable) /\ UNCHANGED <<pc, job, owed>>
    BY <1>4 DEF Undo
  <2>2. Aside(p) /\ undo'[p] = undo[p] \ {n}
    BY <2>1 DEF Aside, TypeOK, ProcTypeOK
  <2> QED
    BY <2>1, <2>2 DEF StopStep
<1>5. CASE Interrupted(p)
  <2>1. job[p] # "none" /\ UNCHANGED <<owed, undone>> /\ \E ops : Leave(p, ops)
    BY <1>5 DEF Interrupted
  <2> QED
    BY <2>1, LeaveAside DEF StopStep
<1>6. ~Crash(p) /\ \A n \in Nodes : ~UndoFails(p, n)
  BY DEF Crash, UndoFails, Fault, Hindering
<1> QED
  BY <1>1, <1>2, <1>3, <1>4, <1>5, <1>6 DEF Compensate

\* Every step, as the stops see it.
LEMMA StopSteps ==
  ASSUME TypeOK, Faults \cap Hindering = {}, [Next]_vars
  PROVE  \/ UNCHANGED <<pc, job, undo, owed, undone>>
         \/ \E p \in Procs : StopAnchor(p)
         \/ \E p \in Procs : /\ Aside(p) /\ StopStep(p)
                             /\ UNCHANGED owed /\ undone \subseteq undone'
<1>1. CASE UNCHANGED vars \/ \E n \in Nodes : Escalate(n)
  BY <1>1 DEF vars, Escalate, procVars, walkVars, histVars
<1>2. ASSUME NEW p \in Procs, Request(p) \/ Step(p) \/ Disturb(p), ~StopAnchor(p)
      PROVE  Aside(p) /\ StopStep(p) /\ UNCHANGED owed /\ undone \subseteq undone'
  <2>1. "emit" \notin Faults
    BY DEF Hindering
  <2>2. CASE Request(p) \/ Handle(p)
    BY <1>2, <2>2, HandleStops
  <2>3. CASE Write(p) \/ LoseWrite(p) \/ LoseEmit(p)
    BY <2>1, <2>3, WriteStops
  <2>4. CASE \/ Load(p) \/ LoadFails(p) \/ EndOfWalk(p)
             \/ \E n \in Nodes :
                  \/ Visit(p, n) \/ NoExecutor(p, n) \/ OversightFailsOpen(p, n)
                  \/ Execute(p, n) \/ ExecFails(p, n) \/ ExecFailsLate(p, n)
                  \/ DecisionUnnamed(p, n)
    BY <2>4, WalkStops
  <2>5. CASE \/ Compensate(p) \/ Interrupted(p) \/ Crash(p)
             \/ \E n \in Nodes : UndoFails(p, n)
    BY <2>5, SagaStops
  <2> QED
    BY <1>2, <2>2, <2>3, <2>4, <2>5 DEF Step, Disturb
<1> QED
  BY <1>1, <1>2 DEF Next

\* p is a stop that is still to compensate what it owes, or is at it.
Undoes(p) ==
  /\ job[p] = "none" /\ pc[p] \in Stopping
  /\ pc[p] = "undo" => owed \subseteq undone \cup undo[p]

\* What a stop owes was recorded completed, and it is compensated, or a stop is
\* on its way to that, whom no interruption of a walk concerns.
OwedInv ==
  /\ \A n \in owed : n \in Undoable /\ row[n] = "completed"
  /\ owed \subseteq undone \/ \E p \in Procs : Undoes(p)
  /\ \A p \in Procs : pc[p] \in {"idle", "anchor"} => job[p] = "none"

LEMMA OwedInit == Init => OwedInv
  BY DEF Init, OwedInv

\* A node that was recorded completed stays so.
LEMMA CompletedStays ==
  ASSUME BaseInv, RouteInv, [Next]_vars, NEW n \in Nodes, row[n] = "completed"
  PROVE  row'[n] = "completed"
<1>1. CASE UNCHANGED row
  BY <1>1
<1>2. ASSUME NEW p \in Procs, DoRecord(p)
      PROVE  row'[n] = "completed"
  <2>1. Pending(p) /\ row' = [row EXCEPT ![Entry(p).node] = Entry(p).to]
    BY <1>2, RecordView
  <2>2. Entry(p).node # n
    BY <2>1 DEF RouteInv, RouteOf, PendRouted
  <2>3. row \in [Nodes -> NodeStatus]
    BY DEF BaseInv, TypeOK, DbTypeOK
  <2> QED
    BY <2>1, <2>2, <2>3
<1>3. ASSUME NEW p \in Procs, StepOf(p), ~DoRecord(p)
      PROVE  UNCHANGED row
  BY <1>3, QuietSteps
     DEF StepOf, PauseStep, FailStep, SkipStep, CompleteStep, PassStep, rowVars
<1> QED
  BY <1>1, <1>2, <1>3, WalkSteps DEF BaseInv, NoStep, rowVars

LEMMA OwedNext ==
  ASSUME Faults \cap Hindering = {}, BaseInv, RouteInv, OwnClass, OwedInv,
         [Next]_vars
  PROVE  OwedInv'
<1>0. /\ TypeOK /\ Undoable \subseteq Effects /\ Effects \subseteq Nodes
      /\ owed \subseteq Nodes
  BY WorkflowAssumption DEF BaseInv, TypeOK, HistTypeOK
<1>1. \A n \in Nodes : row[n] = "completed" => row'[n] = "completed"
  BY CompletedStays
<1>2. ASSUME UNCHANGED owed
      PROVE  \A n \in owed' : n \in Undoable /\ row'[n] = "completed"
  BY <1>0, <1>1, <1>2 DEF OwedInv
<1>3. CASE UNCHANGED <<pc, job, undo, owed, undone>>
  BY <1>2, <1>3 DEF OwedInv, Undoes
<1>4. ASSUME NEW p \in Procs, StopAnchor(p)
      PROVE  OwedInv'
  <2>1. /\ pc[p] = "anchor" /\ UNCHANGED <<row, job, undo>>
        /\ Go(p, IF row = Nothing THEN "stoponly" ELSE "stopundo")
        /\ owed' = {n \in Undoable : row[n] = "completed"}
    BY <1>4 DEF StopAnchor, At, dbVars, runVars, walkVars
  <2>2. /\ \A q \in Procs \ {p} : pc'[q] = pc[q]
        /\ pc'[p] = IF row = Nothing THEN "stoponly" ELSE "stopundo"
    BY <1>0, <2>1 DEF Go, TypeOK, ProcTypeOK
  <2>3. CASE row = Nothing
    <3>1. owed' = {}
      BY <1>0, <2>1, <2>3 DEF Nothing
    <3> QED
      BY <2>1, <2>2, <2>3, <3>1 DEF OwedInv
  <2>4. CASE row # Nothing
    <3>1. Undoes(p)'
      BY <2>1, <2>2, <2>4 DEF Undoes, Stopping, OwedInv
    <3> QED
      BY <2>1, <2>2, <2>4, <3>1 DEF OwedInv
  <2> QED
    BY <2>3, <2>4
<1>5. ASSUME NEW p \in Procs, Aside(p), StopStep(p), UNCHANGED owed,
             undone \subseteq undone'
      PROVE  OwedInv'
  <2>1. \A q \in Procs : pc'[q] \in {"idle", "anchor"} => job'[q] = "none"
    <3>1. pc'[p] \in {"idle", "anchor"} => job'[p] = "none"
      BY <1>5 DEF StopStep, OwedInv
    <3> QED
      BY <1>5, <3>1 DEF Aside, OwedInv
  <2>2. ASSUME NEW q \in Procs, Undoes(q)
        PROVE  Undoes(q)' \/ owed' \subseteq undone'
    <3>1. CASE q # p
      BY <1>5, <2>2, <3>1 DEF Aside, Undoes
    <3>2. CASE q = p
      <4>1. owed \subseteq Compensable /\ owed \subseteq Undoable
        BY <1>0 DEF OwedInv, OwnClass, Compensable
      <4>2. job[p] = "none" /\ pc[p] \in Stopping
            /\ (pc[p] = "undo" => owed \subseteq undone \cup undo[p])
        BY <2>2, <3>2 DEF Undoes
      <4> QED
        BY <1>5, <3>2, <4>1, <4>2 DEF StopStep, Undoes, Stopping
    <3> QED
      BY <3>1, <3>2
  <2>3. owed' \subseteq undone' \/ \E q \in Procs : Undoes(q)'
    BY <1>5, <2>2 DEF OwedInv
  <2> QED
    BY <1>2, <1>5, <2>1, <2>3 DEF OwedInv
<1> QED
  BY <1>0, <1>3, <1>4, <1>5, StopSteps

\* A run that was stopped is undone, once all is quiet, as far as it had been
\* recorded when the stop came, whichever requests race the stop and however
\* often the run is stopped: as long as every edge leads forward, no two walks
\* overlap, and no fault of Hindering happens.
THEOREM StoppedIsUndone ==
  ASSUME Forward, Faults \cap Hindering = {}
  PROVE  Spec /\ []OneWalker => []StopUndoes
<1> DEFINE Inv == BaseInv /\ RouteInv /\ OwnClass /\ OwedInv
<1>0. "write" \notin Faults /\ "missing" \notin Faults
  BY DEF Hindering
<1>1. Inv /\ OneWalker /\ [Next]_vars => Inv'
  BY <1>0, BaseNext, RouteNext, OwnNext, OwedNext
<1>2. Init => Inv
  BY BaseInit, RouteInit, OwnInit, OwedInit
<1>3. Inv => StopUndoes
  BY DEF OwedInv, StopUndoes, Quiescent, Undoes, Stopping
<1> QED
  BY <1>1, <1>2, <1>3, PTL DEF Spec

------------------------------------------------------------------------------
(* When no two walks overlap. *)

\* A request that is between the approval it has picked and the check whether
\* the run still waits.
Deciding(p) == pc[p] \in {"decide", "check"}

\* No two persons decide at a time.
OneDecider == \A p, q \in Procs : Deciding(p) /\ Deciding(q) => p = q

\* The run is started by one request only.
OneStart ==
  \A p, q \in Procs : "start" \in Requests[p] /\ "start" \in Requests[q] => p = q

\* The other processes, as the requests see them, stay where they are.
Away(p) ==
  \A q \in Procs \ {p} : /\ pc'[q] = pc[q] /\ todo'[q] = todo[q]
                         /\ pick'[q] = pick[q]

\* No approval is asked for anew.
AsksNone == \A n \in Nodes : approval'[n] = "pending" => approval[n] = "pending"

\* A step of p that starts no walk and decides nothing.
StaysOut(p) ==
  /\ UNCHANGED job /\ Away(p)
  /\ \/ pc'[p] = pc[p] /\ pick'[p] = pick[p]
     \/ pc'[p] \notin {"idle", "decide", "check", "replaying"}
  /\ \/ pc[p] \in Walking /\ todo[p] = <<>> /\ (pc[p] = "enter" => pc'[p] = "load")
     \/ pc'[p] = pc[p] /\ todo[p] # <<>> /\ todo'[p] = Tail(todo[p])
     \/ pc'[p] \notin Walking /\ todo'[p] \in Seq(EmitOps)
  /\ \/ AsksNone
     \/ /\ pc[p] \in Walking /\ pc'[p] = "done"
        /\ \E n \in Nodes : \A m \in Nodes \ {n} : approval'[m] = approval[m]

\* The resumer finds the run waiting.
Resumes(p) ==
  /\ pc[p] = "check" /\ todo[p] = <<>> /\ status = "awaiting_approval"
  /\ pc'[p] = "enter" /\ UNCHANGED <<job, approval, status, todo, pick>> /\ Away(p)

LEMMA LeaveOut ==
  ASSUME TypeOK, NEW p \in Procs, NEW ops, Leave(p, ops)
  PROVE  UNCHANGED job /\ Away(p) /\ pc'[p] = "done" /\ todo'[p] = ops
  BY DEF Leave, Go, Queue, Away, TypeOK, ProcTypeOK

LEMMA GoOut ==
  ASSUME TypeOK, NEW p \in Procs, NEW to, Go(p, to), UNCHANGED pick,
         UNCHANGED todo \/ \E ops : Queue(p, ops)
  PROVE  Away(p) /\ pc'[p] = to
  BY DEF Go, Queue, Away, TypeOK, ProcTypeOK

\* Writes.
LEMMA WriteOut ==
  ASSUME TypeOK, NEW p \in Procs, Write(p) \/ LoseWrite(p) \/ LoseEmit(p)
  PROVE  StaysOut(p)
<1> USE DEF dbVars, runVars, gateVars, walkVars, histVars
<1>1. todo \in [Procs -> Seq(Ops)] /\ <<>> \in Seq(EmitOps)
  BY PathShapes DEF TypeOK, ProcTypeOK
<1>2. /\ UNCHANGED approval /\ todo[p] # <<>>
      /\ \/ UNCHANGED <<pc, pick, job>> /\ Queue(p, Tail(todo[p]))
         \/ Leave(p, <<>>)
  BY DEF Write, DoStatus, DoRecord, DoEmit, LoseWrite, LoseEmit
<1>3. CASE UNCHANGED <<pc, pick, job>> /\ Queue(p, Tail(todo[p]))
  BY <1>1, <1>2, <1>3 DEF Queue, StaysOut, Away, AsksNone
<1>4. CASE Leave(p, <<>>)
  BY <1>1, <1>2, <1>4, LeaveOut DEF StaysOut, AsksNone, Walking
<1> QED
  BY <1>2, <1>3, <1>4

\* Requests, up to the walk that they start.
LEMMA HandleOut ==
  ASSUME TypeOK, NoReplay, NEW p \in Procs, Request(p) \/ Handle(p)
  PROVE  \/ StaysOut(p) \/ StartRun(p) \/ Approve(p) \/ Resumes(p)
         \/ ReplayWrite(p) \/ \E n \in Nodes, d \in {"approve", "reject"} : PickApproval(p, n, d)
<1> USE DEF dbVars, runVars, gateVars, walkVars, histVars
<1>0. <<>> \in Seq(EmitOps)
  BY PathShapes
<1>1. CASE StopRead(p)
  <2>1. /\ Go(p, "anchor") /\ UNCHANGED <<job, approval, todo, pick>>
        /\ todo[p] = <<>>
    BY <1>1 DEF StopRead, Ask, At
  <2> QED
    BY <1>0, <2>1, GoOut DEF StaysOut, AsksNone, Walking
<1>2. CASE ReplayRead(p)
  BY <1>2 DEF ReplayRead, Ask, NoReplay
<1>3. CASE Advance(p) \/ Refuse(p)
  <2>1. Leave(p, <<>>) /\ UNCHANGED approval
    BY <1>3 DEF Advance, Refuse
  <2> QED
    BY <1>0, <2>1, LeaveOut DEF StaysOut, AsksNone, Walking
<1>4. CASE Reject(p)
  <2>1. /\ Go(p, "refuse") /\ UNCHANGED <<job, todo, pick>> /\ todo[p] = <<>>
        /\ approval' = [approval EXCEPT ![pick[p].node] = "rejected"]
    BY <1>4 DEF Reject, At
  <2>2. AsksNone
    BY <2>1 DEF AsksNone, TypeOK, DbTypeOK
  <2> QED
    BY <1>0, <2>1, <2>2, GoOut DEF StaysOut, Walking
<1>5. CASE CheckResume(p)
  <2>1. pc[p] = "check" /\ todo[p] = <<>> /\ UNCHANGED <<approval, status>>
    BY <1>5 DEF CheckResume, At
  <2>2. CASE status = "awaiting_approval"
    <3>1. Go(p, "enter") /\ UNCHANGED <<job, todo, pick>>
      BY <1>5, <2>2 DEF CheckResume
    <3> QED
      BY <2>1, <2>2, <3>1, GoOut DEF Resumes
  <2>3. CASE status # "awaiting_approval"
    <3>1. Leave(p, <<>>)
      BY <1>5, <2>3 DEF CheckResume
    <3> QED
      BY <1>0, <2>1, <3>1, LeaveOut DEF StaysOut, AsksNone, Walking
  <2> QED
    BY <2>2, <2>3
<1>6. CASE StopAnchor(p)
  <2>1. /\ UNCHANGED <<job, approval, todo, pick>> /\ todo[p] = <<>>
        /\ Go(p, "stoponly") \/ Go(p, "stopundo")
    BY <1>6 DEF StopAnchor, At
  <2> QED
    BY <1>0, <2>1, GoOut DEF StaysOut, AsksNone, Walking
<1>7. CASE StopWrite(p)
  <2>1. AsksNone /\ todo[p] = <<>>
    BY <1>7 DEF StopWrite, At, AsksNone
  <2>2. \/ Go(p, "saga") /\ UNCHANGED <<job, todo, pick>>
        \/ Leave(p, <<>>)
    BY <1>7 DEF StopWrite
  <2>3. CASE Go(p, "saga") /\ UNCHANGED <<job, todo, pick>>
    <3>1. Away(p) /\ pc'[p] = "saga"
      BY <2>3, GoOut
    <3> QED
      BY <1>0, <2>1, <2>3, <3>1 DEF StaysOut, Walking
  <2>4. CASE Leave(p, <<>>)
    BY <1>0, <2>1, <2>4, LeaveOut DEF StaysOut, Walking
  <2> QED
    BY <2>2, <2>3, <2>4
<1> QED
  BY <1>1, <1>2, <1>3, <1>4, <1>5, <1>6, <1>7 DEF Request, Handle

\* A walk, up to its next write.
LEMMA VisitOut ==
  ASSUME TypeOK, NEW p \in Procs,
         \/ Load(p) \/ LoadFails(p) \/ EndOfWalk(p)
         \/ \E n \in Nodes : \/ Visit(p, n) \/ NoExecutor(p, n)
                             \/ OversightFailsOpen(p, n)
  PROVE  StaysOut(p)
<1> USE DEF dbVars, runVars, gateVars, walkVars, histVars
<1>1. ASSUME NEW to \in {"load", "outputs", "approvals", "walk", "ask", "execute"},
             Go(p, to), pc[p] \in Walking, todo[p] = <<>>,
             pc[p] = "enter" => to = "load", UNCHANGED <<job, pick, approval>>,
             UNCHANGED todo \/ \E ops : Queue(p, ops)
      PROVE  StaysOut(p)
  <2>1. Away(p) /\ pc'[p] = to
    BY <1>1, GoOut
  <2> QED
    BY <1>1, <2>1 DEF StaysOut, AsksNone
<1>2. ASSUME NEW ops, Leave(p, ops), pc[p] \in Walking \ {"enter"}, todo[p] = <<>>,
             \/ AsksNone \/ \E n \in Nodes : \A m \in Nodes \ {n} : approval'[m] = approval[m]
      PROVE  StaysOut(p)
  BY <1>2, LeaveOut DEF StaysOut
<1>3. CASE Load(p)
  <2>1. CASE Enter(p)
    <3>1. /\ Go(p, "load") /\ pc[p] = "enter" /\ todo[p] = <<>>
          /\ UNCHANGED <<job, pick, approval>> /\ \E ops : Queue(p, ops)
      BY <2>1 DEF Enter, At
    <3> QED
      BY <1>1, <3>1 DEF Walking
  <2>2. CASE LoadWorkflow(p)
    <3>1. /\ Go(p, "outputs") /\ pc[p] = "load" /\ todo[p] = <<>>
          /\ UNCHANGED <<job, pick, approval, todo>>
      BY <2>2 DEF LoadWorkflow, At
    <3> QED
      BY <1>1, <3>1 DEF Walking
  <2>3. CASE LoadOutputs(p)
    <3>1. /\ Go(p, "approvals") /\ pc[p] = "outputs" /\ todo[p] = <<>>
          /\ UNCHANGED <<job, pick, approval, todo>>
      BY <2>3 DEF LoadOutputs, At
    <3> QED
      BY <1>1, <3>1 DEF Walking
  <2>4. CASE LoadApprovals(p)
    <3>1. /\ Go(p, "walk") /\ pc[p] = "approvals" /\ todo[p] = <<>>
          /\ UNCHANGED <<job, pick, approval, todo>>
      BY <2>4 DEF LoadApprovals, At
    <3> QED
      BY <1>1, <3>1 DEF Walking
  <2> QED
    BY <1>3, <2>1, <2>2, <2>3, <2>4 DEF Load
<1>4. CASE LoadFails(p) \/ EndOfWalk(p)
  <2>1. /\ pc[p] \in Walking \ {"enter"} /\ todo[p] = <<>> /\ AsksNone
        /\ \E ops : Leave(p, ops)
    BY <1>4 DEF LoadFails, EndOfWalk, Visits, At, Walking, AsksNone
  <2> QED
    BY <1>2, <2>1
<1>5. ASSUME NEW n \in Nodes, PassPrior(p, n) \/ SkipDead(p, n) \/ PassApproved(p, n)
      PROVE  StaysOut(p)
  <2>1. /\ Go(p, "walk") /\ pc[p] = "walk" /\ todo[p] = <<>>
        /\ UNCHANGED <<job, pick, approval>> /\ \E ops : Queue(p, ops)
    BY <1>5 DEF PassPrior, SkipDead, PassApproved, Passed, Visits, At
  <2> QED
    BY <1>1, <2>1 DEF Walking
<1>6. ASSUME NEW n \in Nodes, FailRejected(p, n) \/ NoExecutor(p, n)
      PROVE  StaysOut(p)
  <2>1. /\ pc[p] \in Walking \ {"enter"} /\ todo[p] = <<>> /\ AsksNone
        /\ \E ops : Leave(p, ops)
    BY <1>6 DEF FailRejected, NoExecutor, Visits, At, Walking, AsksNone
  <2> QED
    BY <1>2, <2>1
<1>7. ASSUME NEW n \in Nodes,
             AskOversight(p, n) \/ Proceed(p, n) \/ OversightFailsOpen(p, n)
      PROVE  StaysOut(p)
  <2>1. /\ Go(p, "ask") \/ Go(p, "execute")
        /\ pc[p] = "walk" /\ todo[p] = <<>>
        /\ UNCHANGED <<job, pick, approval>>
        /\ UNCHANGED todo \/ \E ops : Queue(p, ops)
    BY <1>7 DEF AskOversight, Proceed, OversightFailsOpen, Visits, At
  <2> QED
    BY <1>1, <2>1 DEF Walking
<1>8. ASSUME NEW n \in Nodes, PauseForOversight(p, n)
      PROVE  StaysOut(p)
  <2>1. /\ pc[p] = "ask" /\ todo[p] = <<>> /\ \E ops : Leave(p, ops)
        /\ approval' = [approval EXCEPT ![n] = "pending"]
    BY <1>8 DEF PauseForOversight, At
  <2>2. \A m \in Nodes \ {n} : approval'[m] = approval[m]
    BY <2>1 DEF TypeOK, DbTypeOK
  <2> QED
    BY <1>2, <2>1, <2>2 DEF Walking
<1> QED
  BY <1>3, <1>4, <1>5, <1>6, <1>7, <1>8 DEF Visit

\* The execution of a node.
LEMMA ExecuteOut ==
  ASSUME TypeOK, NEW p \in Procs, NEW n \in Nodes,
         \/ Execute(p, n) \/ ExecFails(p, n) \/ ExecFailsLate(p, n)
         \/ DecisionUnnamed(p, n)
  PROVE  StaysOut(p)
<1> USE DEF dbVars, runVars, gateVars, walkVars, histVars
<1>1. ASSUME NEW to \in {"walk", "insert", "saga"}, Go(p, to),
             pc[p] \in {"execute", "insert"}, todo[p] = <<>>,
             UNCHANGED <<job, pick, approval>>,
             UNCHANGED todo \/ \E ops : Queue(p, ops)
      PROVE  StaysOut(p)
  <2>1. Away(p) /\ pc'[p] = to
    BY <1>1, GoOut
  <2> QED
    BY <1>1, <2>1 DEF StaysOut, AsksNone, Walking
<1>2. CASE \/ GateLetsThrough(p, n) \/ EffectFires(p, n) \/ DedupHit(p, n)
           \/ DedupInsert(p, n) \/ PureCompletes(p, n)
           \/ \E arm \in {"true", "false"} : DecisionTaken(p, n, arm)
  <2>1. /\ pc[p] \in {"execute", "insert"} /\ todo[p] = <<>>
        /\ UNCHANGED approval /\ \E o : Completed(p, n, o)
    BY <1>2 DEF GateLetsThrough, EffectFires, DedupHit, DedupInsert,
                PureCompletes, DecisionTaken, Executes, At
  <2>2. Go(p, "walk") /\ UNCHANGED <<job, pick>> /\ \E ops : Queue(p, ops)
    BY <2>1 DEF Completed, Passed
  <2> QED
    BY <1>1, <2>1, <2>2
<1>3. CASE DedupMiss(p, n)
  <2>1. /\ pc[p] = "execute" /\ todo[p] = <<>> /\ Go(p, "insert")
        /\ UNCHANGED <<approval, job, pick, todo>>
    BY <1>3 DEF DedupMiss, Executes, At
  <2> QED
    BY <1>1, <2>1
<1>4. CASE ExecFails(p, n) \/ ExecFailsLate(p, n)
  <2>1. /\ pc[p] = "execute" /\ todo[p] = <<>> /\ Go(p, "saga")
        /\ UNCHANGED <<approval, job, pick>> /\ \E ops : Queue(p, ops)
    BY <1>4 DEF ExecFails, ExecFailsLate, Fails, Executes, At
  <2> QED
    BY <1>1, <2>1
<1>5. CASE GatePauses(p, n) \/ DecisionUnnamed(p, n)
  <2>1. /\ pc[p] = "execute" /\ todo[p] = <<>> /\ \E ops : Leave(p, ops)
    BY <1>5 DEF GatePauses, DecisionUnnamed, Executes, At
  <2>2. \A m \in Nodes \ {n} : approval'[m] = approval[m]
    BY <1>5 DEF GatePauses, DecisionUnnamed, TypeOK, DbTypeOK
  <2> QED
    BY <2>1, <2>2, LeaveOut DEF StaysOut, Walking
<1> QED
  BY <1>2, <1>3, <1>4, <1>5 DEF Execute

\* Sagas and crashes.
LEMMA SagaOut ==
  ASSUME TypeOK, NEW p \in Procs,
         \/ Compensate(p) \/ Crash(p) \/ \E n \in Nodes : UndoFails(p, n)
  PROVE  StaysOut(p)
<1> USE DEF dbVars, runVars, gateVars, walkVars, histVars
<1>0. /\ <<>> \in Seq(EmitOps) /\ Append1("compensation_started") \in Seq(EmitOps)
      /\ Emit("compensation_completed") \in Seq(EmitOps)
  BY PathShapes DEF EventTypes
<1>1. ASSUME NEW ops \in Seq(EmitOps), Leave(p, ops), UNCHANGED approval
      PROVE  StaysOut(p)
  BY <1>1, LeaveOut DEF StaysOut, AsksNone, Walking
<1>2. CASE SagaEnds(p) \/ Crash(p)
  <2>1. UNCHANGED approval /\ \E ops \in Seq(EmitOps) : Leave(p, ops)
    BY <1>0, <1>2 DEF SagaEnds, Crash
  <2> QED
    BY <1>1, <2>1
<1>3. CASE SagaLoad(p)
  <2>1. UNCHANGED approval
    BY <1>3 DEF SagaLoad
  <2>2. CASE Compensable = {}
    <3>1. Leave(p, <<>>)
      BY <1>3, <2>2 DEF SagaLoad
    <3> QED
      BY <1>0, <1>1, <2>1, <3>1
  <2>3. CASE Compensable # {}
    <3>1. /\ Go(p, "undo") /\ Queue(p, Append1("compensation_started"))
          /\ UNCHANGED <<job, pick>>
      BY <1>3, <2>3 DEF SagaLoad
    <3>2. Away(p) /\ pc'[p] = "undo"
      BY <3>1, GoOut
    <3>3. todo'[p] = Append1("compensation_started")
      BY <3>1 DEF Queue, TypeOK, ProcTypeOK
    <3> QED
      BY <1>0, <2>1, <3>1, <3>2, <3>3 DEF StaysOut, AsksNone, Walking
  <2> QED
    BY <2>2, <2>3
<1>4. ASSUME NEW n \in Nodes, Undo(p, n) \/ UndoFails(p, n)
      PROVE  StaysOut(p)
  <2>1. /\ pc[p] = "undo" /\ todo[p] = <<>>
        /\ UNCHANGED <<pc, todo, job, pick, approval>>
    BY <1>4 DEF Undo, UndoFails, At
  <2> QED
    BY <1>0, <2>1 DEF StaysOut, Away, AsksNone, Walking
<1> QED
  BY <1>2, <1>3, <1>4 DEF Compensate

\* Every step, as the requests see it.
LEMMA OutSteps ==
  ASSUME TypeOK, NoReplay, "interrupt" \notin Faults, [Next]_vars
  PROVE  \/ UNCHANGED <<pc, todo, job, pick>> /\ AsksNone
         \/ \E p \in Procs :
              \/ StaysOut(p) \/ StartRun(p) \/ Approve(p) \/ Resumes(p)
              \/ ReplayWrite(p)
              \/ \E n \in Nodes, d \in {"approve", "reject"} : PickApproval(p, n, d)
<1>1. CASE UNCHANGED vars
  BY <1>1 DEF vars, dbVars, gateVars, procVars, walkVars, AsksNone
<1>2. ASSUME NEW n \in Nodes, Escalate(n)
      PROVE  UNCHANGED <<pc, todo, job, pick>> /\ AsksNone
  BY <1>2 DEF Escalate, procVars, walkVars, AsksNone, TypeOK, DbTypeOK
<1>3. ASSUME NEW p \in Procs, Request(p) \/ Handle(p)
      PROVE  \/ StaysOut(p) \/ StartRun(p) \/ Approve(p) \/ Resumes(p)
             \/ ReplayWrite(p)
             \/ \E n \in Nodes, d \in {"approve", "reject"} : PickApproval(p, n, d)
  BY <1>3, HandleOut
<1>4. ASSUME NEW p \in Procs, Step(p), ~Handle(p)
      PROVE  StaysOut(p)
  BY <1>4, WriteOut, VisitOut, ExecuteOut, SagaOut DEF Step
<1>5. ASSUME NEW p \in Procs, Disturb(p)
      PROVE  StaysOut(p)
  <2>1. ~Interrupted(p)
    BY DEF Interrupted, Fault
  <2> QED
    BY <1>5, <2>1, WriteOut, VisitOut, ExecuteOut, SagaOut DEF Disturb
<1> QED
  BY <1>1, <1>2, <1>3, <1>4, <1>5 DEF Next

NoPending == \A n \in Nodes : approval[n] # "pending"

\* Nothing is asked for and nobody walks before the run is started.
Begun ==
  \/ \E q \in Procs : job[q] = "run"
  \/ NoPending /\ \A q \in Procs : job[q] = "none" /\ ~Deciding(q)

JobOf(p) ==
  /\ job[p] = "run" => "start" \in Requests[p]
  /\ job[p] = "none" => ~Active(p)
  /\ pc[p] \in {"idle", "decide"} => job[p] = "none"
  /\ pc[p] = "check" => job[p] # "none"
  /\ pc[p] # "replaying"

\* Nobody walks while somebody decides, and nothing else is to be decided while
\* somebody decides or walks.
DecidesAlone(p) ==
  /\ Deciding(p) => \A w \in Procs : pc[w] \notin Walking
  /\ pc[p] = "decide" => \A n \in Nodes : approval[n] = "pending" => n = pick[p].node
  /\ pc[p] \in Walking \cup {"check"} => NoPending

OnePending ==
  \A m, n \in Nodes : approval[m] = "pending" /\ approval[n] = "pending" => m = n

\* A walk of a run that still waits has just begun, and one that is going to
\* tell the run that it waits tells it nothing else.
BeginsWaiting(p) ==
  /\ status = "awaiting_approval" /\ Active(p) => pc[p] \in {"enter", "load"}
  /\ Writes(p, "awaiting_approval") => TellsOnce(todo[p])

SoloInv ==
  /\ OneWalker /\ Begun /\ OnePending
  /\ \A p \in Procs : JobOf(p) /\ DecidesAlone(p) /\ BeginsWaiting(p)

LEMMA SoloInit == Init => SoloInv
<1> SUFFICES ASSUME Init
             PROVE  SoloInv
  OBVIOUS
<1>1. /\ status = "none" /\ \A n \in Nodes : approval[n] = "none"
      /\ \A p \in Procs : todo[p] = <<>> /\ pc[p] = "idle" /\ job[p] = "none"
  BY DEF Init, Nothing
<1>2. \A p \in Procs : ~Active(p)
  BY <1>1, PathShapes DEF Active, Walking
<1>3. \A p \in Procs : ~Writes(p, "awaiting_approval")
  BY <1>1, WritesNothing DEF RunStatus
<1>4. OneWalker /\ Begun /\ OnePending
  BY <1>1, <1>2 DEF OneWalker, Begun, OnePending, NoPending, Deciding
<1>5. \A p \in Procs : JobOf(p) /\ DecidesAlone(p) /\ BeginsWaiting(p)
  BY <1>1, <1>2, <1>3 DEF JobOf, DecidesAlone, BeginsWaiting, Deciding, Walking
<1> QED
  BY <1>4, <1>5 DEF SoloInv

\* A step that stays out makes nobody a walker.
LEMMA StaysOutActive ==
  ASSUME BaseInv, NEW p \in Procs, StaysOut(p), NEW q \in Procs
  PROVE  /\ Active(q)' => Active(q)
         /\ pc'[q] \in Walking => pc[q] \in Walking
         /\ Deciding(q)' => Deciding(q) /\ pc'[q] = pc[q] /\ pick'[q] = pick[q]
<1>1. CASE q # p
  BY <1>1 DEF StaysOut, Away, Active, Deciding
<1>2. CASE q = p
  <2>1. Deciding(p)' => Deciding(p) /\ pc'[p] = pc[p] /\ pick'[p] = pick[p]
    BY DEF StaysOut, Deciding
  <2>2. CASE pc[p] \in Walking
    BY <1>2, <2>1, <2>2 DEF Active
  <2>3. CASE pc'[p] = pc[p] /\ todo[p] # <<>> /\ todo'[p] = Tail(todo[p])
    <3>1. todo[p] \in Seq(EmitOps) => todo'[p] \in Seq(EmitOps)
      BY <2>3, SeqParts
    <3> QED
      BY <1>2, <2>1, <2>3, <3>1 DEF Active
  <2>4. CASE pc'[p] \notin Walking /\ todo'[p] \in Seq(EmitOps)
    BY <1>2, <2>1, <2>4 DEF Active
  <2> QED
    BY <2>2, <2>3, <2>4 DEF StaysOut
<1> QED
  BY <1>1, <1>2

\* What a pausing walker is going to write.
LEMMA TellsNext ==
  ASSUME BaseInv, SoloInv, [Next]_vars, NEW q \in Procs, Writes(q, "awaiting_approval")'
  PROVE  TellsOnce(todo'[q])
<1>0. BeginsWaiting(q) /\ "awaiting_approval" \in RunStatus
  BY DEF SoloInv, RunStatus
<1>1. CASE todo'[q] = todo[q]
  BY <1>0, <1>1 DEF BeginsWaiting, Writes
<1>2. ASSUME StepOf(q)
      PROVE  TellsOnce(todo'[q])
  <2>1. CASE Writes(q, "awaiting_approval") /\ (DoRecord(q) \/ ShedStep(q))
    <3>1. todo[q] # <<>> /\ todo'[q] = Tail(todo[q])
      BY <2>1, RecordView DEF ShedStep, Pending
    <3>2. todo[q] \in Seq(Ops)
      BY DEF BaseInv, TypeOK, ProcTypeOK
    <3>3. TellsOnce(todo[q])
      BY <1>0, <2>1 DEF BeginsWaiting
    <3> QED
      BY <3>1, <3>2, <3>3, TellsOnceMore
  <2>2. CASE \E n \in Nodes : PauseStep(q, n)
    BY <2>2 DEF PauseStep
  <2> QED
    BY <1>0, <1>2, <2>1, <2>2, WritesNext
<1>3. ASSUME NEW p \in Procs, Others(p), p # q
      PROVE  todo'[q] = todo[q]
  BY <1>3 DEF Others
<1> QED
  BY <1>1, <1>2, <1>3, WalkSteps DEF NoStep, BaseInv

\* What of the invariant is about who walks and who decides.
TurnInv ==
  /\ OneWalker /\ Begun /\ OnePending
  /\ \A p \in Procs : JobOf(p) /\ DecidesAlone(p)

LEMMA TurnStays ==
  ASSUME BaseInv, TurnInv, NEW p \in Procs, StaysOut(p)
  PROVE  TurnInv'
<1>1. \A q \in Procs : /\ Active(q)' => Active(q)
                       /\ pc'[q] \in Walking => pc[q] \in Walking
                       /\ Deciding(q)' => Deciding(q) /\ pc'[q] = pc[q] /\ pick'[q] = pick[q]
  BY StaysOutActive
<1>2. \A q \in Procs : JobOf(q) /\ DecidesAlone(q) /\ job'[q] = job[q]
  BY DEF TurnInv, StaysOut
<1>3. OneWalker'
  BY <1>1 DEF TurnInv, OneWalker
<1>4. ASSUME ~AsksNone
      PROVE  /\ pc[p] \in Walking /\ pc'[p] = "done" /\ Active(p) /\ NoPending
             /\ \E n \in Nodes : \A m \in Nodes \ {n} : approval'[m] = approval[m]
             /\ job[p] # "none"
  <2>1. pc[p] \in Walking /\ pc'[p] = "done"
        /\ \E n \in Nodes : \A m \in Nodes \ {n} : approval'[m] = approval[m]
    BY <1>4 DEF StaysOut
  <2> QED
    BY <1>2, <2>1 DEF Active, JobOf, DecidesAlone
<1>5. AsksNone /\ NoPending => NoPending'
  BY DEF AsksNone, NoPending
<1>6. Begun'
  <2>1. CASE \E q \in Procs : job[q] = "run"
    BY <1>2, <2>1 DEF Begun
  <2>2. CASE NoPending /\ \A q \in Procs : job[q] = "none" /\ ~Deciding(q)
    BY <1>1, <1>2, <1>4, <1>5, <2>2 DEF Begun
  <2> QED
    BY <2>1, <2>2 DEF TurnInv, Begun
<1>7. OnePending'
  <2>1. CASE AsksNone
    BY <2>1 DEF TurnInv, OnePending, AsksNone
  <2>2. CASE ~AsksNone
    BY <1>4, <2>2 DEF OnePending, NoPending
  <2> QED
    BY <2>1, <2>2
<1>8. ASSUME NEW q \in Procs
      PROVE  JobOf(q)'
  <2>1. \/ pc'[q] = pc[q]
        \/ pc'[q] \notin {"idle", "decide", "check", "replaying"}
    BY DEF StaysOut, Away
  <2> QED
    BY <1>1, <1>2, <2>1 DEF JobOf
<1>9. ASSUME NEW q \in Procs
      PROVE  DecidesAlone(q)'
  <2>1. Deciding(q)' => \A w \in Procs : pc'[w] \notin Walking
    BY <1>1, <1>2 DEF DecidesAlone
  <2>2. CASE AsksNone
    <3>1. pc'[q] = "decide" => \A n \in Nodes : approval'[n] = "pending" => n = pick'[q].node
      BY <1>1, <1>2, <2>2 DEF DecidesAlone, AsksNone, Deciding
    <3>2. pc'[q] \in Walking \cup {"check"} => NoPending'
      BY <1>1, <1>2, <1>5, <2>2 DEF DecidesAlone, Deciding
    <3> QED
      BY <2>1, <3>1, <3>2 DEF DecidesAlone, Deciding
  <2>3. CASE ~AsksNone
    <3>1. ~Deciding(q)'
      BY <1>1, <1>2, <1>4, <2>3 DEF DecidesAlone
    <3>2. pc'[q] \notin Walking
      <4>1. CASE q = p
        BY <1>4, <2>3, <4>1 DEF Walking
      <4>2. CASE q # p
        BY <1>1, <1>4, <2>3, <4>2 DEF TurnInv, OneWalker, Active
      <4> QED
        BY <4>1, <4>2
    <3> QED
      BY <3>1, <3>2 DEF DecidesAlone, Deciding
  <2> QED
    BY <2>2, <2>3
<1> QED
  BY <1>3, <1>6, <1>7, <1>8, <1>9 DEF TurnInv

LEMMA TurnQuiet ==
  ASSUME TurnInv, UNCHANGED <<pc, todo, job, pick>>, AsksNone
  PROVE  TurnInv'
<1>1. \A q \in Procs : /\ Active(q)' <=> Active(q)
                       /\ Deciding(q)' <=> Deciding(q)
  BY DEF Active, Deciding
<1>2. NoPending => NoPending'
  BY DEF AsksNone, NoPending
<1>3. OneWalker' /\ Begun' /\ OnePending'
  BY <1>1, <1>2 DEF TurnInv, OneWalker, Begun, OnePending, AsksNone
<1>4. \A q \in Procs : JobOf(q)'
  BY <1>1 DEF TurnInv, JobOf
<1>5. \A q \in Procs : DecidesAlone(q)'
  BY <1>1, <1>2 DEF TurnInv, DecidesAlone, AsksNone
<1> QED
  BY <1>3, <1>4, <1>5 DEF TurnInv

\* The one start.
LEMMA TurnStart ==
  ASSUME OneStart, BaseInv, TurnInv, NEW p \in Procs, StartRun(p)
  PROVE  TurnInv'
<1>1. /\ pc[p] = "idle" /\ todo[p] = <<>> /\ "start" \in Requests[p]
      /\ Go(p, "enter") /\ UNCHANGED <<pick, approval>> /\ \E ops : Queue(p, ops)
      /\ job' = [job EXCEPT ![p] = "run"]
  BY DEF StartRun, Ask, At, gateVars
<1>2. Away(p) /\ pc'[p] = "enter"
  BY <1>1, GoOut DEF BaseInv
<1>3. job'[p] = "run" /\ \A q \in Procs \ {p} : job'[q] = job[q]
  BY <1>1 DEF BaseInv, TypeOK, ProcTypeOK
<1>4. \A q \in Procs : JobOf(q) /\ DecidesAlone(q)
  BY DEF TurnInv
<1>5. ~\E q \in Procs : job[q] = "run"
  <2> SUFFICES ASSUME NEW q \in Procs, job[q] = "run"
               PROVE  FALSE
    OBVIOUS
  <2>1. job[p] = "none" /\ "start" \in Requests[q]
    BY <1>1, <1>4 DEF JobOf
  <2>2. p = q
    BY <1>1, <2>1 DEF OneStart
  <2> QED
    BY <2>1, <2>2
<1>6. NoPending /\ \A q \in Procs : job[q] = "none" /\ ~Deciding(q) /\ ~Active(q)
  BY <1>4, <1>5 DEF TurnInv, Begun, JobOf
<1>7. \A q \in Procs \ {p} : /\ ~Active(q)' /\ ~Deciding(q)'
                             /\ pc'[q] = pc[q] /\ job'[q] = "none"
  BY <1>2, <1>3, <1>6 DEF Away, Active, Deciding
<1>8. ~Deciding(p)' /\ NoPending'
  BY <1>1, <1>2, <1>6 DEF Deciding, NoPending
<1>9. OneWalker' /\ Begun' /\ OnePending'
  BY <1>3, <1>7, <1>8 DEF OneWalker, Begun, OnePending, NoPending
<1>10. ASSUME NEW q \in Procs
       PROVE  JobOf(q)' /\ DecidesAlone(q)'
  <2>1. DecidesAlone(q)'
    <3>1. ~Deciding(q)'
      BY <1>7, <1>8
    <3> QED
      BY <1>8, <3>1 DEF DecidesAlone, Deciding
  <2>2. CASE q = p
    BY <1>1, <1>2, <1>3, <2>1, <2>2 DEF JobOf
  <2>3. CASE q # p
    <3>1. job'[q] = "none" /\ ~Active(q)' /\ pc'[q] = pc[q]
      BY <1>7, <2>3
    <3>2. pc[q] # "check" /\ pc[q] # "replaying"
      BY <1>4, <1>6 DEF Deciding, JobOf
    <3> QED
      BY <2>1, <3>1, <3>2 DEF JobOf
  <2> QED
    BY <2>2, <2>3
<1> QED
  BY <1>9, <1>10 DEF TurnInv

\* A person picks what is to be decided.
LEMMA TurnPick ==
  ASSUME BaseInv, TurnInv, NEW p \in Procs, NEW n \in Nodes,
         NEW d \in {"approve", "reject"}, PickApproval(p, n, d)
  PROVE  TurnInv'
<1>1. /\ pc[p] = "idle" /\ todo[p] = <<>> /\ approval[n] = "pending"
      /\ Go(p, "decide") /\ UNCHANGED <<todo, approval, job>>
      /\ pick' = [pick EXCEPT ![p] = [node |-> n, decision |-> d, level |-> level[n]]]
  BY DEF PickApproval, Ask, At, dbVars, gateVars, walkVars
<1>2. /\ pc'[p] = "decide" /\ \A q \in Procs \ {p} : pc'[q] = pc[q]
      /\ pick'[p].node = n /\ \A q \in Procs \ {p} : pick'[q] = pick[q]
  BY <1>1 DEF Go, BaseInv, TypeOK, ProcTypeOK
<1>3. \A q \in Procs : JobOf(q) /\ DecidesAlone(q)
  BY DEF TurnInv
<1>4. \A q \in Procs : pc[q] \notin Walking /\ pc'[q] \notin Walking
  BY <1>1, <1>2, <1>3 DEF DecidesAlone, NoPending, Walking
<1>5. \A q \in Procs : Active(q)' => Active(q)
  BY <1>1, <1>4 DEF Active
<1>6. \E q \in Procs : job[q] = "run"
  BY <1>1 DEF TurnInv, Begun, NoPending
<1>7. OneWalker' /\ Begun' /\ OnePending'
  BY <1>1, <1>5, <1>6 DEF TurnInv, OneWalker, Begun, OnePending
<1>8. \A m \in Nodes : approval'[m] = "pending" => m = n
  BY <1>1 DEF TurnInv, OnePending
<1>9. ASSUME NEW q \in Procs
      PROVE  JobOf(q)' /\ DecidesAlone(q)'
  <2>1. JobOf(q)'
    <3>1. CASE q = p
      BY <1>1, <1>2, <1>3, <1>5, <3>1 DEF JobOf
    <3>2. CASE q # p
      BY <1>1, <1>2, <1>3, <1>5, <3>2 DEF JobOf
    <3> QED
      BY <3>1, <3>2
  <2>2. pc'[q] = "check" => NoPending'
    BY <1>1, <1>2, <1>3 DEF DecidesAlone, NoPending
  <2>3. pc'[q] = "decide" => \A m \in Nodes : approval'[m] = "pending" => m = pick'[q].node
    BY <1>1, <1>2, <1>3, <1>8 DEF DecidesAlone
  <2> QED
    BY <1>4, <2>1, <2>2, <2>3 DEF DecidesAlone
<1> QED
  BY <1>7, <1>9 DEF TurnInv

\* The last level is approved.
LEMMA TurnApprove ==
  ASSUME BaseInv, TurnInv, NEW p \in Procs, Approve(p)
  PROVE  TurnInv'
<1>1. /\ pc[p] = "decide" /\ todo[p] = <<>>
      /\ Go(p, "check") /\ UNCHANGED <<todo, pick>>
      /\ approval' = [approval EXCEPT ![pick[p].node] = "approved"]
      /\ job' = [job EXCEPT ![p] = "resume"]
  BY DEF Approve, At
<1>2. /\ pc'[p] = "check" /\ \A q \in Procs \ {p} : pc'[q] = pc[q]
      /\ job'[p] = "resume" /\ \A q \in Procs \ {p} : job'[q] = job[q]
  BY <1>1 DEF Go, BaseInv, TypeOK, ProcTypeOK
<1>3. \A q \in Procs : JobOf(q) /\ DecidesAlone(q)
  BY DEF TurnInv
<1>4. \A q \in Procs : pc[q] \notin Walking /\ pc'[q] \notin Walking
  BY <1>1, <1>2, <1>3 DEF DecidesAlone, Deciding, Walking
<1>5. \A q \in Procs : Active(q)' => Active(q)
  BY <1>1, <1>4 DEF Active
<1>6. NoPending'
  <2>1. \A n \in Nodes : approval[n] = "pending" => n = pick[p].node
    BY <1>1, <1>3 DEF DecidesAlone
  <2>2. approval \in [Nodes -> Approvals]
    BY DEF BaseInv, TypeOK, DbTypeOK
  <2> QED
    BY <1>1, <2>1, <2>2 DEF NoPending
<1>7. \E q \in Procs : job[q] = "run" /\ q # p
  <2>1. \E q \in Procs : job[q] = "run"
    BY <1>1 DEF TurnInv, Begun, Deciding
  <2> QED
    BY <1>1, <1>3, <2>1 DEF JobOf
<1>8. OneWalker' /\ Begun' /\ OnePending'
  BY <1>2, <1>5, <1>6, <1>7 DEF TurnInv, OneWalker, Begun, OnePending, NoPending
<1>9. ASSUME NEW q \in Procs
      PROVE  JobOf(q)' /\ DecidesAlone(q)'
  <2>1. JobOf(q)'
    <3>1. CASE q = p
      BY <1>2, <3>1 DEF JobOf
    <3>2. CASE q # p
      BY <1>2, <1>3, <1>5, <3>2 DEF JobOf
    <3> QED
      BY <3>1, <3>2
  <2>2. DecidesAlone(q)'
    BY <1>4, <1>6 DEF DecidesAlone, NoPending
  <2> QED
    BY <2>1, <2>2
<1> QED
  BY <1>8, <1>9 DEF TurnInv

\* The resumer begins its walk: the run waits, so nobody walks, and nobody else
\* decides.
LEMMA TurnResume ==
  ASSUME OneDecider, BaseInv, SoloInv, NEW p \in Procs, Resumes(p)
  PROVE  TurnInv'
<1>1. /\ pc[p] = "check" /\ pc'[p] = "enter" /\ status = "awaiting_approval"
      /\ UNCHANGED <<job, approval, todo, pick>>
      /\ \A q \in Procs \ {p} : pc'[q] = pc[q]
  BY DEF Resumes, Away
<1>2. \A q \in Procs : JobOf(q) /\ DecidesAlone(q) /\ BeginsWaiting(q)
  BY DEF SoloInv
<1>3. \A q \in Procs : pc[q] \notin Walking /\ ~Active(q)
  BY <1>1, <1>2 DEF DecidesAlone, Deciding, BeginsWaiting, Walking
<1>4. \A q \in Procs \ {p} : ~Active(q)' /\ ~Deciding(q)' /\ pc'[q] \notin Walking
  BY <1>1, <1>3 DEF Active, OneDecider, Deciding
<1>5. ~Deciding(p)' /\ NoPending /\ NoPending'
  BY <1>1, <1>2 DEF Deciding, DecidesAlone, NoPending
<1>6. \E q \in Procs : job[q] = "run"
  BY <1>1 DEF SoloInv, Begun, Deciding
<1>7. OneWalker' /\ Begun' /\ OnePending'
  BY <1>1, <1>4, <1>5, <1>6 DEF OneWalker, Begun, OnePending, NoPending
<1>8. ASSUME NEW q \in Procs
      PROVE  JobOf(q)' /\ DecidesAlone(q)'
  <2>1. ~Deciding(q)'
    BY <1>4, <1>5
  <2>2. DecidesAlone(q)'
    BY <1>5, <2>1 DEF DecidesAlone, Deciding
  <2>3. JobOf(q)'
    <3>1. CASE q = p
      BY <1>1, <1>2, <3>1 DEF JobOf
    <3>2. CASE q # p
      BY <1>1, <1>2, <1>4, <3>2 DEF JobOf
    <3> QED
      BY <3>1, <3>2
  <2> QED
    BY <2>2, <2>3
<1> QED
  BY <1>7, <1>8 DEF TurnInv

\* Who walks while the run waits has just begun to.
LEMMA WaitingNext ==
  ASSUME BaseInv, WaitInv, SoloInv, NoReplay, "interrupt" \notin Faults,
         [Next]_vars, NEW w \in Procs, status' = "awaiting_approval", Active(w)'
  PROVE  pc'[w] \in {"enter", "load"}
<1>1. /\ \A q \in Procs : JobOf(q) /\ BeginsWaiting(q)
      /\ OneWalker
  BY DEF SoloInv
<1>2. CASE \E q \in Procs : DoStatus(q)
  <2>1. PICK q \in Procs : DoStatus(q)
    BY <1>2
  <2>2. /\ Others(q) /\ Kept(q) /\ todo'[q] = Tail(todo[q]) /\ todo[q] # <<>>
        /\ Active(q)
    BY <2>1, StatusStep
  <2>3. PICK s \in RunStatus : /\ Head(todo[q]) = StatusOp(s) /\ Writes(q, s)
                               /\ status' = Transitioned(status, s)
    BY <2>1, StatusStep
  <2>4. w = q
    BY <1>1, <2>2, OthersView DEF OneWalker
  <2>5. CASE status = "awaiting_approval"
    BY <1>1, <2>2, <2>4, <2>5 DEF BeginsWaiting, Kept
  <2>6. CASE status # "awaiting_approval"
    <3>1. s = "awaiting_approval"
      BY <2>3, <2>6 DEF Transitioned
    <3>2. pc[q] = "done" /\ TellsOnce(todo[q])
      BY <1>1, <2>3, <3>1 DEF WaitInv, Waits, BeginsWaiting
    <3>3. Head(todo[q]).op = "status"
      BY <2>3 DEF StatusOp
    <3>4. Tail(todo[q]) \in Seq(QuietOps) /\ todo[q] \in Seq(Ops)
      BY <2>2 DEF BaseInv, Shape, ShapeOf, TypeOK, ProcTypeOK
    <3>5. todo'[q] \in Seq(EmitOps)
      BY <2>2, <3>2, <3>3, <3>4, TellsOnceMore
    <3> QED
      BY <2>2, <2>4, <3>2, <3>5 DEF Kept, Active, Walking
  <2> QED
    BY <2>5, <2>6
<1>3. CASE ~\E q \in Procs : DoStatus(q)
  <2>1. status = "awaiting_approval"
    BY <1>3, StatusView
  <2>2. ASSUME Active(w), pc'[w] = pc[w]
        PROVE  pc'[w] \in {"enter", "load"}
    BY <1>1, <2>1, <2>2 DEF BeginsWaiting
  <2>3. CASE UNCHANGED <<pc, todo, job, pick>>
    BY <2>2, <2>3 DEF Active
  <2>4. ASSUME NEW p \in Procs, StaysOut(p)
        PROVE  pc'[w] \in {"enter", "load"}
    <3>1. Active(w)
      BY <2>4, StaysOutActive
    <3>2. CASE w # p
      BY <2>2, <2>4, <3>1, <3>2 DEF StaysOut, Away
    <3>3. CASE w = p /\ pc[p] \in Walking /\ todo[p] = <<>>
                     /\ (pc[p] = "enter" => pc'[p] = "load")
      <4>1. pc[p] = "load" => status \in StartedStatus
        BY <3>3 DEF WaitInv, Starts
      <4> QED
        BY <1>1, <2>1, <3>1, <3>3, <4>1 DEF BeginsWaiting, StartedStatus
    <3>4. CASE w = p /\ pc'[p] = pc[p]
      BY <2>2, <3>1, <3>4
    <3>5. CASE w = p /\ pc'[p] \notin Walking /\ todo'[p] \in Seq(EmitOps)
      BY <3>5 DEF Active
    <3> QED
      BY <2>4, <3>2, <3>3, <3>4, <3>5 DEF StaysOut
  <2>5. ASSUME NEW p \in Procs, Away(p), pc'[p] = "enter" \/ ~Active(p)'
        PROVE  pc'[w] \in {"enter", "load"}
    BY <2>2, <2>5 DEF Away, Active
  <2>6. ASSUME NEW p \in Procs,
               \/ StartRun(p) \/ Approve(p) \/ Resumes(p)
               \/ \E n \in Nodes, d \in {"approve", "reject"} : PickApproval(p, n, d)
        PROVE  Away(p) /\ (pc'[p] = "enter" \/ ~Active(p)')
    <3>0. <<>> \in Seq(EmitOps)
      BY PathShapes
    <3>1. CASE Resumes(p)
      BY <3>1 DEF Resumes
    <3>2. CASE StartRun(p)
      <4>1. Go(p, "enter") /\ UNCHANGED pick /\ \E ops : Queue(p, ops)
        BY <3>2 DEF StartRun
      <4> QED
        BY <4>1, GoOut DEF BaseInv
    <3>3. CASE Approve(p)
      <4>1. Go(p, "check") /\ UNCHANGED <<pick, todo>> /\ todo[p] = <<>>
        BY <3>3 DEF Approve, At
      <4> QED
        BY <3>0, <4>1, GoOut DEF BaseInv, Active, Walking
    <3>4. CASE \E n \in Nodes, d \in {"approve", "reject"} : PickApproval(p, n, d)
      <4>1. Go(p, "decide") /\ UNCHANGED todo /\ todo[p] = <<>>
            /\ \A q \in Procs \ {p} : pick'[q] = pick[q]
        BY <3>4 DEF PickApproval, Ask, At, BaseInv, TypeOK, ProcTypeOK
      <4> QED
        BY <3>0, <4>1 DEF Go, Away, BaseInv, TypeOK, ProcTypeOK, Active, Walking
    <3> QED
      BY <2>6, <3>1, <3>2, <3>3, <3>4
  <2>7. \A p \in Procs : ~ReplayWrite(p)
    BY <1>1 DEF JobOf, ReplayWrite, At
  <2> QED
    BY <2>3, <2>4, <2>5, <2>6, <2>7, OutSteps DEF BaseInv
<1> QED
  BY <1>2, <1>3

LEMMA SoloNext ==
  ASSUME OneStart, NoReplay, "interrupt" \notin Faults, OneDecider,
         BaseInv, WaitInv, SoloInv, [Next]_vars
  PROVE  SoloInv'
<1>1. TurnInv
  BY DEF SoloInv, TurnInv
<1>2. \A p \in Procs : ~ReplayWrite(p)
  BY DEF SoloInv, JobOf, ReplayWrite, At
<1>3. TurnInv'
  BY <1>1, <1>2, OutSteps, TurnStays, TurnQuiet, TurnStart, TurnPick, TurnApprove,
     TurnResume DEF BaseInv
<1>4. \A p \in Procs : BeginsWaiting(p)'
  <2> SUFFICES ASSUME NEW p \in Procs
               PROVE  BeginsWaiting(p)'
    OBVIOUS
  <2>1. status' = "awaiting_approval" /\ Active(p)' => pc'[p] \in {"enter", "load"}
    BY WaitingNext
  <2>2. Writes(p, "awaiting_approval")' => TellsOnce(todo'[p])
    BY TellsNext
  <2> QED
    BY <2>1, <2>2 DEF BeginsWaiting
<1> QED
  BY <1>3, <1>4 DEF SoloInv, TurnInv

\* What it takes for no two walks of a run to overlap: the run is started by one
\* request, nobody replays it, no background walk is interrupted, no write is
\* lost, and no two persons are between picking an approval and the check of the
\* resume at a time.
THEOREM NoOverlap ==
  ASSUME OneStart, NoReplay, Faults \cap {"interrupt", "write"} = {}
  PROVE  Spec /\ []OneDecider => []OneWalker
<1> DEFINE Inv == BaseInv /\ WaitInv /\ SoloInv
<1>1. Init => Inv
  BY BaseInit, WaitInit, SoloInit
<1>2. Inv /\ OneDecider /\ [Next]_vars => Inv'
  <2> SUFFICES ASSUME Inv, OneDecider, [Next]_vars
               PROVE  Inv'
    OBVIOUS
  <2>1. OneWalker /\ "write" \notin Faults /\ "interrupt" \notin Faults
    BY DEF SoloInv
  <2> QED
    BY <2>1, BaseNext, WaitNext, SoloNext
<1>3. Inv => OneWalker
  BY DEF SoloInv
<1> QED
  BY <1>1, <1>2, <1>3, PTL DEF Spec

\* So what a person expects of a run holds of one that is used with care and
\* whose writes survive: it fires nothing twice, takes one arm of each decision,
\* is completed only as drawn, waits only for somebody, and, completed, keeps
\* its effects.
THEOREM CarefulRun ==
  ASSUME Forward, OneStart, NoReplay, Faults \cap Losing = {}
  PROVE  Spec /\ []OneDecider =>
           [](EffectOnce /\ OneArm /\ RoutedAsDrawn /\ WaitingHasNode
              /\ CompletedKeepsEffects)
<1>1. "write" \notin Faults /\ Faults \cap {"interrupt", "write"} = {}
  BY DEF Losing
<1>2. Spec /\ []OneDecider => []OneWalker
  BY <1>1, NoOverlap
<1>3. Spec /\ []OneWalker => []EffectOnce
  BY FiredOnce
<1>4. /\ Spec /\ []OneWalker => []RoutedAsDrawn
      /\ Spec /\ []OneWalker => []OneArm
      /\ Spec /\ []OneWalker => []WaitingHasNode
      /\ Spec /\ []OneWalker => []CompletedKeepsEffects
  BY <1>1, CompletedAsDrawn, OneArmTaken, WaitingRunHasNode, CompletedIsKept
<1> QED
  BY <1>2, <1>3, <1>4, PTL
==============================================================================
