------------------------------ MODULE TenantQuota ------------------------------
(***************************************************************************)
(* The counter of a quota of one tenant: each call runs one transaction    *)
(* that locks the row of the current window, compares and adds; a window   *)
(* that has no row yet has nothing to lock.                                *)
(*                                                                         *)
(* A window is a number.  The period "rolling" is another matter: there a  *)
(* window starts a minute before each call, so every call has a row of its *)
(* own and the limit is never met; it is not modelled.                     *)
(***************************************************************************)
EXTENDS Naturals, FiniteSets

CONSTANTS
  Callers, Windows,
  Amount,    \* the amount of a call
  MaxValue   \* the limit

ASSUME QuotaAssumption ==
  Windows \subseteq Nat /\ Amount \in [Callers -> Nat] /\ MaxValue \in Nat

VARIABLES
  now,     \* the window of the clock
  call,    \* per caller [at, win, found, seen]
  usage,   \* per window the committed counter
  rows,    \* the windows that have a row
  lock,    \* per window the caller that holds its row, or none (a set of one)
  \* History, read by the properties only:
  passed,  \* per window the callers that were let through by the counter
  raced    \* the windows in which two calls found no row

quotaVars == <<now, call, usage, rows, lock, passed, raced>>

QuotaInit ==
  /\ now \in Windows
  /\ call = [c \in Callers |-> [at |-> "idle", win |-> now, found |-> FALSE, seen |-> 0]]
  /\ usage = [w \in Windows |-> 0] /\ rows = {}
  /\ lock = [w \in Windows |-> {}]
  /\ passed = [w \in Windows |-> {}] /\ raced = {}

\* The clock enters a later window.
NextWindow ==
  /\ now' \in {w \in Windows : w > now}
  /\ UNCHANGED <<call, usage, rows, lock, passed, raced>>

\* The limit is read and the window computed.
ReadQuota(c) ==
  /\ call[c].at = "idle"
  /\ call' = [call EXCEPT ![c].at = "lock", ![c].win = now]
  /\ UNCHANGED <<now, usage, rows, lock, passed, raced>>

\* The call c has read the row of its window, or found none.
HasRead(c) ==
  LET w == call[c].win
  IN  /\ call[c].at = "lock"
      /\ call' = [call EXCEPT ![c].at = "add", ![c].found = w \in rows,
                              ![c].seen = usage[w]]
      /\ raced' = IF w \notin rows /\ \E d \in Callers \ {c} :
                       call[d].at = "add" /\ call[d].win = w
                  THEN raced \cup {w} ELSE raced
      /\ UNCHANGED <<now, usage, rows, passed>>

\* Mutant: the row is read without a lock.
ReadUsage(c) == HasRead(c) /\ UNCHANGED lock

\* SELECT ... FOR UPDATE: waits for the row, and reads it when it has it.
LockUsage(c) ==
  /\ HasRead(c)
  /\ LET w == call[c].win
     IN  lock[w] = {} /\ lock' = [lock EXCEPT ![w] = IF w \in rows THEN {c} ELSE {}]

EndCall(c, st) == /\ call' = [call EXCEPT ![c].at = st]
               /\ lock' = [lock EXCEPT ![call[c].win] = @ \ {c}]

Refuse(c) ==
  /\ call[c].at = "add" /\ call[c].seen + Amount[c] > MaxValue
  /\ EndCall(c, "done")
  /\ UNCHANGED <<now, usage, rows, passed, raced>>

\* The row found is set to the value computed; a row inserted where another was
\* inserted meanwhile is added to it.
Consume(c) ==
  LET w == call[c].win
  IN  /\ call[c].at = "add" /\ call[c].seen + Amount[c] <= MaxValue
      /\ lock[w] \subseteq {c}
      /\ usage' = [usage EXCEPT ![w] = IF call[c].found THEN call[c].seen + Amount[c]
                                                        ELSE @ + Amount[c]]
      /\ rows' = rows \cup {w}
      /\ passed' = [passed EXCEPT ![w] = @ \cup {c}]
      /\ EndCall(c, "done")
      /\ UNCHANGED <<now, raced>>

\* The transaction breaks (a lock waited for too long, a lost connection) and is
\* rolled back: the call is let through uncounted, or refused, by its policy.
QuotaBreaks(c) ==
  /\ call[c].at \in {"lock", "add"}
  /\ EndCall(c, "done")
  /\ UNCHANGED <<now, usage, rows, passed, raced>>

QuotaNext ==
  \/ NextWindow
  \/ \E c \in Callers : \/ ReadQuota(c) \/ LockUsage(c) \/ Refuse(c) \/ Consume(c)
                        \/ QuotaBreaks(c)

QuotaSpec == QuotaInit /\ [][QuotaNext]_quotaVars

-----------------------------------------------------------------------------
\* The callers S together: each takes as many units as its amount.
Units(S) == UNION {{c} \X (1..Amount[c]) : c \in S}
Total(S) == Cardinality(Units(S))

\* What the counter lets through in one window stays within the limit, however
\* many calls run at once ("SELECT current with FOR UPDATE to serialise concurrent
\* increments"), unless two calls opened the window together.
PassedWithinQuota ==
  \A w \in Windows : w \notin raced => Total(passed[w]) <= MaxValue
==============================================================================
