------------------------------- MODULE RunWatch -------------------------------
(***************************************************************************)
(* The page of one analysis run: it reads the run every two seconds while  *)
(* the status it shows is not final and not waiting for an approval, and a *)
(* person may refresh it or approve the run.  Reads overlap: an answer may *)
(* be older than the one before it.                                        *)
(***************************************************************************)
EXTENDS Naturals

CONSTANTS
  MaxReads,    \* bound: reads in flight
  MaxMisses  \* bound: reads and approvals that fail

ASSUME WatchAssumption == MaxReads \in Nat \ {0} /\ MaxMisses \in Nat

VARIABLES
  server,     \* the run: "pending" (an approval), "queued", "running", "done"
  shown,      \* the run on the screen, "none" before the first answer
  polling,    \* the interval timer runs
  reads,      \* the reads in flight: "free", "asked", or the status read
  approving,  \* the approval in flight: "free", "asked", "queued", "refused"
  misses      \* how many requests failed

watchVars == <<server, shown, polling, reads, approving, misses>>

RunStatus == {"pending", "queued", "running", "done"}
Slots     == 1..MaxReads

\* "done" stands for "error" as well: the page treats them alike.
WatchInit ==
  /\ server \in RunStatus
  /\ shown = "none" /\ polling = FALSE
  /\ reads = [k \in Slots |-> IF k = 1 THEN "asked" ELSE "free"]
  /\ approving = "free" /\ misses = 0

\* The interval runs while the run shown is not final and needs no approval.
Armed(st) == st \in {"queued", "running"}

\* Mutant: the interval, once stopped, stays stopped.
ShowOnce(st) ==
  /\ shown' = st
  /\ polling' = (Armed(st) /\ shown # "done")

\* setRun, and the effect on the status: it starts the interval again when an
\* older answer takes the page back from a final status.
Show(st) ==
  /\ shown' = st
  /\ polling' = Armed(st)

Ask == \E k \in Slots : reads[k] = "free" /\ reads' = [reads EXCEPT ![k] = "asked"]

PollRun ==
  /\ polling /\ Ask
  /\ UNCHANGED <<server, shown, polling, approving, misses>>

Refresh ==
  /\ shown # "none" /\ Ask
  /\ UNCHANGED <<server, shown, polling, approving, misses>>

ReadRun(k) ==
  /\ reads[k] = "asked"
  /\ reads' = [reads EXCEPT ![k] = server]
  /\ UNCHANGED <<server, shown, polling, approving, misses>>

LandRun(k) ==
  /\ reads[k] \in RunStatus
  /\ Show(reads[k])
  /\ reads' = [reads EXCEPT ![k] = "free"]
  /\ UNCHANGED <<server, approving, misses>>

\* A read that fails shows its problem; the interval goes on.
Miss == misses < MaxMisses /\ misses' = misses + 1
ReadFails(k) ==
  /\ reads[k] # "free" /\ Miss
  /\ reads' = [reads EXCEPT ![k] = "free"]
  /\ UNCHANGED <<server, shown, polling, approving>>

ClickApprove ==
  /\ shown = "pending" /\ approving = "free"
  /\ approving' = "asked"
  /\ UNCHANGED <<server, shown, polling, reads, misses>>

\* The run is approved once; its row is the answer.
Approved ==
  /\ approving = "asked"
  /\ IF server = "pending" THEN server' = "queued" /\ approving' = "queued"
                           ELSE approving' = "refused" /\ UNCHANGED server
  /\ UNCHANGED <<shown, polling, reads, misses>>

LandApproval ==
  /\ approving \in {"queued", "refused"}
  /\ IF approving = "queued" THEN Show("queued") ELSE UNCHANGED <<shown, polling>>
  /\ approving' = "free"
  /\ UNCHANGED <<server, reads, misses>>

ApprovalFails ==
  /\ approving # "free" /\ Miss
  /\ approving' = "free"
  /\ UNCHANGED <<server, shown, polling, reads>>

\* The run goes on by itself, or somebody else approves it.
Proceeds ==
  /\ \/ server = "pending" /\ server' = "queued"
     \/ server = "queued"  /\ server' = "running"
     \/ server = "running" /\ server' = "done"
  /\ UNCHANGED <<shown, polling, reads, approving, misses>>

WatchAnswers == (\E k \in Slots : ReadRun(k) \/ LandRun(k)) \/ Approved \/ LandApproval

WatchNext ==
  \/ PollRun \/ Refresh \/ ClickApprove \/ WatchAnswers \/ Proceeds
  \/ \E k \in Slots : ReadFails(k)
  \/ ApprovalFails

WatchSpec == WatchInit /\ [][WatchNext]_watchVars

-----------------------------------------------------------------------------
\* Once a run has ended, a page that shows anything of it comes to show the end
\* and keeps showing it, whatever older answers arrive; or it shows that the run
\* waits for an approval, the one status in which it stops asking.
AnalysisSettles ==
  server = "done" /\ shown # "none" ~> [](shown \in {"done", "pending"})
==============================================================================
