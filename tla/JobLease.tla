------------------------------- MODULE JobLease -------------------------------
(***************************************************************************)
(* The daily job of the billing service: every pod fires it at 02:00, and  *)
(* a person may start it by hand; a lease, the one running row that a      *)
(* unique index allows, lets one of them run it.  The runner renews its    *)
(* lease by heartbeats; a lease that nobody renews is swept at 02:15.      *)
(*                                                                         *)
(* A day begins at 02:00.  A beat is the period of the heartbeat, a third  *)
(* of the lease's life; 02:15 is within the first beat of the day.         *)
(***************************************************************************)
EXTENDS Naturals, FiniteSets

CONSTANTS
  Pods,
  Ttl,        \* the life of a lease in beats (3)
  DayBeats,   \* the beats of a day (72)
  MaxDays,    \* bound: days
  MaxByHand,  \* bound: starts by hand
  MaxTroubles  \* bound: pods that die, statements that fail

ASSUME LeaseAssumption ==
  /\ IsFiniteSet(Pods)
  /\ Ttl \in Nat \ {0} /\ DayBeats \in Nat /\ Ttl < DayBeats
  /\ MaxDays \in Nat /\ MaxByHand \in Nat /\ MaxTroubles \in Nat

\* A pod has one thread for its scheduled jobs, and others for requests.
Runners == Pods \X {"cron", "hand"}

VARIABLES
  today, beat,
  alive,    \* the pods that live
  due,      \* the pods whose 02:00 of today is yet to come
  sweeps,   \* the pods whose 02:15 of today is yet to come
  work,     \* who runs the job
  lease,    \* the running row: whose it is (a set of one, or none), and how long it has
  beaten,   \* the runners whose heartbeat of this beat is over
  byHand, troubles,
  \* History, read by the properties only:
  begun,    \* the job was run today
  missed,   \* the days whose job met a lease that nobody worked under
  lapsed    \* a lease has expired under its runner

leaseVars == <<today, beat, alive, due, sweeps, work, lease, beaten, byHand, troubles,
               begun, missed, lapsed>>
clockVars == <<today, beat>>

NoLease == [by |-> {}, left |-> 0]

LeaseInit ==
  /\ today = 1 /\ beat = 0
  /\ alive = Pods /\ due = Pods /\ sweeps = Pods
  /\ work = {} /\ lease = NoLease /\ beaten = {}
  /\ byHand = 0 /\ troubles = 0
  /\ begun = FALSE /\ missed = {} /\ lapsed = FALSE

Trouble == troubles < MaxTroubles /\ troubles' = troubles + 1

\* The thread of the scheduled jobs of a pod is free.
CronFree(p) == <<p, "cron">> \notin work

-----------------------------------------------------------------------------
(* runWithLease.                                                           *)

\* acquire: the insert fails if there is a running row.
Acquire(r) ==
  /\ lease.by = {}
  /\ lease' = [by |-> {r}, left |-> Ttl]
  /\ work' = work \cup {r}
  /\ beaten' = beaten \cup {r}
  /\ begun' = TRUE

Skip ==
  /\ lease.by # {}
  /\ UNCHANGED <<lease, work, beaten, begun>>

CronFires(p) ==
  /\ p \in due
  /\ due' = due \ {p}
  /\ Acquire(<<p, "cron">>) \/ Skip
  /\ missed' = IF lease.by # {} /\ ~(lease.by \subseteq work) /\ ~begun
               THEN missed \cup {today} ELSE missed
  /\ UNCHANGED <<clockVars, alive, sweeps, byHand, troubles, lapsed>>

\* The insert fails for another reason: the job is not run by this pod.
CronBreaks(p) ==
  /\ p \in due /\ Trouble
  /\ due' = due \ {p}
  /\ UNCHANGED <<clockVars, alive, sweeps, work, lease, beaten, byHand, begun,
                 missed, lapsed>>

StartByHand(p) ==
  /\ p \in alive /\ <<p, "hand">> \notin work
  /\ byHand < MaxByHand /\ byHand' = byHand + 1
  /\ Acquire(<<p, "hand">>)
  /\ UNCHANGED <<clockVars, alive, due, sweeps, troubles, missed, lapsed>>

\* Mutant: the heartbeat of a run that is over goes on.
HeartbeatGoesOn(r) ==
  /\ r \notin beaten /\ r[1] \in alive
  /\ beaten' = beaten \cup {r}
  /\ lease' = IF lease.by = {r} THEN [lease EXCEPT !.left = Ttl] ELSE lease
  /\ UNCHANGED <<clockVars, alive, due, sweeps, work, byHand, troubles, begun,
                 missed, lapsed>>

\* The lease is renewed, if it is still running.
Heartbeat(r) ==
  /\ r \in work \ beaten
  /\ beaten' = beaten \cup {r}
  /\ lease' = IF lease.by = {r} THEN [lease EXCEPT !.left = Ttl] ELSE lease
  /\ UNCHANGED <<clockVars, alive, due, sweeps, work, byHand, troubles, begun,
                 missed, lapsed>>

HeartbeatFails(r) ==
  /\ r \in work \ beaten /\ Trouble
  /\ beaten' = beaten \cup {r}
  /\ UNCHANGED <<clockVars, alive, due, sweeps, work, lease, byHand, begun,
                 missed, lapsed>>

\* release: the row is no longer running, be the work done or failed.
WorkEnds(r) ==
  /\ r \in work
  /\ work' = work \ {r}
  /\ lease' = IF lease.by = {r} THEN NoLease ELSE lease
  /\ UNCHANGED <<clockVars, alive, due, sweeps, beaten, byHand, troubles, begun,
                 missed, lapsed>>

ReleaseFails(r) ==
  /\ r \in work /\ Trouble
  /\ work' = work \ {r}
  /\ UNCHANGED <<clockVars, alive, due, sweeps, lease, beaten, byHand, begun,
                 missed, lapsed>>

-----------------------------------------------------------------------------
(* Pods, the sweep and the clock.                                          *)

PodDies(p) ==
  /\ p \in alive /\ Trouble
  /\ alive' = alive \ {p} /\ due' = due \ {p} /\ sweeps' = sweeps \ {p}
  /\ work' = {r \in work : r[1] # p}
  /\ UNCHANGED <<clockVars, lease, beaten, byHand, begun, missed, lapsed>>

PodStarts(p) ==
  /\ p \notin alive
  /\ alive' = alive \cup {p}
  /\ UNCHANGED <<clockVars, due, sweeps, work, lease, beaten, byHand, troubles, begun,
                 missed, lapsed>>

\* Mutant: the sweep takes every running row for an orphan.
SweepAll(p) ==
  /\ p \in sweeps /\ CronFree(p) /\ due = {}
  /\ sweeps' = sweeps \ {p}
  /\ lease' = NoLease
  /\ UNCHANGED <<clockVars, alive, due, work, beaten, byHand, troubles, begun,
                 missed, lapsed>>

\* A lease that has expired is orphaned.  The sweep of a pod waits for the job that
\* its thread is running.
SweepLeases(p) ==
  /\ p \in sweeps /\ CronFree(p) /\ due = {}
  /\ sweeps' = sweeps \ {p}
  /\ lease' = IF lease.left = 0 THEN NoLease ELSE lease
  /\ UNCHANGED <<clockVars, alive, due, work, beaten, byHand, troubles, begun,
                 missed, lapsed>>

SweepFails(p) ==
  /\ p \in sweeps /\ CronFree(p) /\ due = {} /\ Trouble
  /\ sweeps' = sweeps \ {p}
  /\ UNCHANGED <<clockVars, alive, due, work, lease, beaten, byHand, begun,
                 missed, lapsed>>

\* Everything that is to happen in this beat has happened.  A pod that still runs
\* yesterday's job at 02:00 does not fire today's.
NextBeat ==
  /\ due = {} /\ work \subseteq beaten
  /\ \A p \in sweeps : ~CronFree(p)
  /\ beaten' = {}
  /\ lease' = [lease EXCEPT !.left = IF @ > 0 THEN @ - 1 ELSE 0]
  /\ lapsed' = (lapsed \/ (lease.left = 1 /\ lease.by \subseteq work))
  /\ IF beat + 1 < DayBeats
     THEN /\ beat' = beat + 1
          /\ UNCHANGED <<today, due, sweeps, begun>>
     ELSE /\ today < MaxDays
          /\ today' = today + 1 /\ beat' = 0
          /\ due' = {p \in alive : CronFree(p)} /\ sweeps' = alive
          /\ begun' = FALSE
  /\ UNCHANGED <<alive, work, byHand, troubles, missed>>

LeaseNext ==
  \/ \E p \in Pods : \/ CronFires(p) \/ CronBreaks(p) \/ StartByHand(p)
                     \/ PodDies(p) \/ PodStarts(p) \/ SweepLeases(p) \/ SweepFails(p)
  \/ \E r \in Runners : \/ Heartbeat(r) \/ HeartbeatFails(r)
                        \/ WorkEnds(r) \/ ReleaseFails(r)
  \/ NextBeat

LeaseSpec == LeaseInit /\ [][LeaseNext]_leaseVars

-----------------------------------------------------------------------------
\* The job is run by one at a time, over pods, restarts, sweeps and starts by hand,
\* unless a lease expired under its runner because its heartbeats failed ("two runs
\* concurrently a DB-enforced impossibility").
OneRunner == lapsed \/ Cardinality(work) <= 1

\* What goes wrong once costs the job of two days at most: a lease that is left
\* behind outlives the cron of the next day, which skips, and the sweep of that day
\* or, if the lease had not expired by then, of the day after frees it.
OrphanCostsTwoDays == Cardinality(missed) <= 2 * troubles
==============================================================================
