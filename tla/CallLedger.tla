------------------------------ MODULE CallLedger ------------------------------
(***************************************************************************)
(* A call to a partner that a node of a workflow makes (call_api), and the *)
(* ledger that is to keep its retries from making it again: a row per key  *)
(* in the database, and a cache in each worker.  All attempts here have    *)
(* one key, that of one node of one run with one request.                  *)
(***************************************************************************)
EXTENDS Naturals

CONSTANTS
  Attempts,  \* executions of the node: retries, replays, duplicate walks
  Workers,
  WorkerOf,  \* the worker that runs an attempt
  MaxLapses  \* bound: calls and writes that fail, workers that die, rows that expire

ASSUME CallAssumption == WorkerOf \in [Attempts -> Workers] /\ MaxLapses \in Nat

VARIABLES
  entry,    \* the row: "absent", "pending", "completed", "expired"
  known,    \* _DEDUP_CACHE: the workers that know the answer
  attempt,  \* per attempt "idle", "ask", "call", "keep", "done"
  calls,    \* how often the partner was reached, counted to 2
  lapses,
  \* History, read by the property only:
  unguarded \* an attempt has gone on without a row of its own to stop others

callVars == <<entry, known, attempt, calls, lapses, unguarded>>

CallInit ==
  /\ entry = "absent" /\ known = {}
  /\ attempt = [a \in Attempts |-> "idle"]
  /\ calls = 0 /\ lapses = 0 /\ unguarded = FALSE

Lapse      == lapses < MaxLapses /\ lapses' = lapses + 1
Comes(a, at) == attempt' = [attempt EXCEPT ![a] = at]
Reaches    == calls' = IF calls < 2 THEN calls + 1 ELSE calls

\* An answer that this worker knows is the answer.
BeginCall(a) ==
  /\ attempt[a] = "idle"
  /\ Comes(a, IF WorkerOf[a] \in known THEN "done" ELSE "ask")
  /\ UNCHANGED <<entry, known, calls, lapses, unguarded>>

\* Mutant: what is kept under the key is not taken for the answer.
GetOrSetIgnored(a) ==
  /\ attempt[a] = "ask"
  /\ Comes(a, "call")
  /\ entry' = IF entry = "completed" THEN entry ELSE "pending"
  /\ unguarded' = (unguarded \/ entry = "pending")
  /\ UNCHANGED <<known, calls, lapses>>

\* get_or_set, one transaction on a locked or inserted row, and what execute
\* makes of it: an outcome that is kept is the answer; an attempt that finds no
\* row, or an expired one, reserves it and calls; one that finds the row pending
\* calls all the same, whoever made it pending.
GetOrSet(a) ==
  /\ attempt[a] = "ask"
  /\ IF entry = "completed"
     THEN /\ Comes(a, "done")
          /\ known' = known \cup {WorkerOf[a]}
          /\ UNCHANGED <<entry, unguarded>>
     ELSE /\ Comes(a, "call")
          /\ entry' = "pending"
          /\ unguarded' = (unguarded \/ entry = "pending")
          /\ UNCHANGED known
  /\ UNCHANGED <<calls, lapses>>

\* The ledger cannot be reached: the call is made without it.
AskFails(a) ==
  /\ attempt[a] = "ask" /\ Lapse
  /\ Comes(a, "call")
  /\ unguarded' = TRUE
  /\ UNCHANGED <<entry, known, calls>>

\* The partner answers with a status below 500.
CallAnswers(a) ==
  /\ attempt[a] = "call"
  /\ Reaches
  /\ known' = known \cup {WorkerOf[a]}
  /\ Comes(a, "keep")
  /\ UNCHANGED <<entry, lapses, unguarded>>

\* An error, or a status from 500 on: the partner may have acted, and nothing is kept.
CallFails(a) ==
  /\ attempt[a] = "call" /\ Lapse
  /\ \/ Reaches
     \/ UNCHANGED calls
  /\ Comes(a, "done")
  /\ UNCHANGED <<entry, known, unguarded>>

\* record_outcome: no new expiry, and no row where there is none.
RecordOutcome(a) ==
  /\ attempt[a] = "keep"
  /\ entry' = IF entry = "pending" THEN "completed" ELSE entry
  /\ Comes(a, "done")
  /\ UNCHANGED <<known, calls, lapses, unguarded>>

RecordFails(a) ==
  /\ attempt[a] = "keep" /\ Lapse
  /\ Comes(a, "done")
  /\ UNCHANGED <<entry, known, calls, unguarded>>

\* A worker dies, with its cache; a request that was sent may still arrive.
WorkerDies(w) ==
  /\ Lapse
  /\ known' = known \ {w}
  /\ attempt' = [a \in Attempts |-> IF WorkerOf[a] = w /\ attempt[a] # "idle"
                                    THEN "done" ELSE attempt[a]]
  /\ \/ UNCHANGED calls
     \/ (\E a \in Attempts : WorkerOf[a] = w /\ attempt[a] = "call") /\ Reaches
  /\ UNCHANGED <<entry, unguarded>>

\* The row has lived its 24 hours, which ends the promise; sweep_expired, which no
\* code of this commit calls, deletes it.
RowExpires ==
  /\ entry \in {"pending", "completed"} /\ Lapse
  /\ entry' = "expired" /\ unguarded' = TRUE
  /\ UNCHANGED <<known, attempt, calls>>

SweepExpired ==
  /\ entry = "expired"
  /\ entry' = "absent"
  /\ UNCHANGED <<known, attempt, calls, lapses, unguarded>>

CallNext ==
  \/ \E a \in Attempts : \/ BeginCall(a) \/ GetOrSet(a) \/ AskFails(a)
                         \/ CallAnswers(a) \/ CallFails(a)
                         \/ RecordOutcome(a) \/ RecordFails(a)
  \/ \E w \in Workers : WorkerDies(w)
  \/ RowExpires \/ SweepExpired

CallSpec == CallInit /\ [][CallNext]_callVars

-----------------------------------------------------------------------------
\* The partner is called once, over all retries, workers and restarts, unless an
\* attempt met the row of another that had no outcome yet, found no ledger, or
\* came after the row had expired ("caller should NOT re-fire the side effect").
CalledOnce == unguarded \/ calls <= 1
==============================================================================
