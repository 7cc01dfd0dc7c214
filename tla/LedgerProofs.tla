----------------------------- MODULE LedgerProofs -----------------------------
(***************************************************************************)
(* Theorems about the rows that say what has been done already: those of   *)
(* the mail outbox, of the calls to partners, of the job leases, of the    *)
(* signatures under a contract and of the quotas, for every number of      *)
(* rows, pollers, attempts, workers, pods, days, failures, parties,        *)
(* requests and calls.                                                     *)
(***************************************************************************)
EXTENDS MailOutbox, CallLedger, JobLease, ContractSigning, TenantQuota,
        FiniteSetTheorems, TLAPS

-----------------------------------------------------------------------------
(* The mail outbox.                                                        *)

MailTypeOK ==
  /\ mail \in [Mails -> [status : {"pending", "sent", "dead"}, attempts : Nat,
                         due : BOOLEAN]]
  /\ DOMAIN batch = Pollers
  /\ \A p \in Pollers : /\ Claimed(p) \subseteq Mails
                        /\ \A m \in Claimed(p) : batch[p][m] \in Nat
  /\ sending \in [Pollers -> [mail : SUBSET Mails, answer : {"none", "sent", "failed"}]]
  /\ \A p \in Pollers : sending[p].mail \subseteq Claimed(p)
  /\ sends \in [Mails -> 0..2]
  /\ doubled \subseteq Mails

\* The row m is on its way and the SMTP server has said that it took it.
Taken(m) == \E p \in Pollers : sending[p] = [mail |-> {m}, answer |-> "sent"]

\* A row that was not doubled is in one batch at most, in none once it is marked,
\* and was sent only if it is marked or about to be.
ClaimedOnce ==
  \A m \in Mails \ doubled :
    /\ \A p, q \in Pollers : m \in Claimed(p) /\ m \in Claimed(q) => p = q
    /\ mail[m].status = "sent" => \A p \in Pollers : m \notin Claimed(p)
    /\ sends[m] <= 1
    /\ sends[m] = 1 => mail[m].status = "sent" \/ Taken(m)

MailInv == MailTypeOK /\ ClaimedOnce

-----------------------------------------------------------------------------
LEMMA MailStart == MailInit => MailInv
<1> SUFFICES ASSUME MailInit PROVE MailInv
  OBVIOUS
<1>1. \A p \in Pollers : Claimed(p) = {}
  BY DEF MailInit, Claimed
<1>2. MailTypeOK
  BY <1>1 DEF MailInit, MailTypeOK, NoMail
<1>3. ClaimedOnce
  BY <1>1 DEF MailInit, ClaimedOnce
<1> QED
  BY <1>2, <1>3 DEF MailInv

LEMMA ClaimKeeps ==
  ASSUME MailInv, NEW p \in Pollers, NEW ms \in SUBSET Mails, Claim(p, ms)
  PROVE  MailInv'
<1> USE DEF MailInv
<1>1. Claimed(p)' = ms /\ \A q \in Pollers \ {p} : Claimed(q)' = Claimed(q)
  BY DEF Claim, Claimed, MailTypeOK
<1>2. Claimed(p) = {}
  BY DEF Claim, Idle
<1>3. MailTypeOK'
  <2>1. \A m \in ms : batch'[p][m] \in Nat
    BY DEF Claim, MailTypeOK
  <2>2. \A q \in Pollers \ {p} : batch'[q] = batch[q]
    BY DEF Claim, MailTypeOK
  <2>3. DOMAIN batch' = Pollers
    BY DEF Claim, MailTypeOK
  <2> QED
    BY <1>1, <1>2, <2>1, <2>2, <2>3 DEF Claim, MailTypeOK
<1>4. ClaimedOnce'
  <2> SUFFICES ASSUME NEW m \in Mails \ doubled'
               PROVE  /\ \A q, r \in Pollers :
                           m \in Claimed(q)' /\ m \in Claimed(r)' => q = r
                      /\ mail'[m].status = "sent" => \A q \in Pollers : m \notin Claimed(q)'
                      /\ sends'[m] <= 1
                      /\ sends'[m] = 1 => mail'[m].status = "sent" \/ Taken(m)'
    BY DEF ClaimedOnce
  <2>1. m \notin doubled /\ (m \in ms => \A q \in Pollers : m \notin Claimed(q))
    BY DEF Claim
  <2>2. m \in ms => mail[m].status = "pending"
    BY DEF Claim, Claimable
  <2>3. mail' = mail /\ sends' = sends /\ sending' = sending
    BY DEF Claim
  <2> QED
    BY <1>1, <2>1, <2>2, <2>3 DEF ClaimedOnce, Taken
<1> QED
  BY <1>3, <1>4

LEMMA SendKeeps ==
  ASSUME MailInv, NEW p \in Pollers, NEW m \in Mails, NEW taken \in BOOLEAN,
         NEW answer \in {"sent", "failed"}, SendMail(p, m, taken, answer)
  PROVE  MailInv'
<1> USE DEF MailInv
<1>1. /\ m \in Claimed(p) /\ sending[p] = NoMail
      /\ answer = "sent" => taken
      /\ sending' = [sending EXCEPT ![p] = [mail |-> {m}, answer |-> answer]]
      /\ mail' = mail /\ batch' = batch
      /\ doubled' = IF taken /\ answer = "failed" THEN doubled \cup {m} ELSE doubled
  BY DEF SendMail
<1>2. \A q \in Pollers : Claimed(q)' = Claimed(q)
  BY <1>1 DEF Claimed
<1>3. MailTypeOK'
  BY <1>1, <1>2 DEF SendMail, MailTypeOK
<1>4. ClaimedOnce'
  <2> SUFFICES ASSUME NEW n \in Mails \ doubled'
               PROVE  /\ sends'[n] <= 1
                      /\ sends'[n] = 1 => mail'[n].status = "sent" \/ Taken(n)'
    BY <1>1, <1>2 DEF ClaimedOnce
  <2>1. n \in Mails \ doubled
    BY <1>1
  <2>2. CASE n = m
    <3>1. mail[m].status # "sent"
      BY <1>1, <2>1, <2>2 DEF ClaimedOnce
    <3>2. ~Taken(m)
      BY <1>1, <2>1, <2>2 DEF ClaimedOnce, Taken, MailTypeOK, NoMail
    <3>3. sends[m] = 0
      BY <2>1, <2>2, <3>1, <3>2 DEF ClaimedOnce, MailTypeOK
    <3>4. CASE taken
      <4>1. answer = "sent"
        BY <1>1, <2>2, <3>4
      <4>2. Taken(m)'
        BY <1>1, <4>1 DEF Taken, MailTypeOK
      <4> QED
        BY <2>2, <3>3, <4>2 DEF SendMail, MailTypeOK
    <3>5. CASE ~taken
      BY <2>2, <3>3, <3>5 DEF SendMail
    <3> QED
      BY <3>4, <3>5
  <2>3. CASE n # m
    <3>1. sends'[n] = sends[n]
      BY <2>3 DEF SendMail, MailTypeOK
    <3>2. Taken(n) => Taken(n)'
      <4> SUFFICES ASSUME NEW q \in Pollers, sending[q] = [mail |-> {n}, answer |-> "sent"]
                   PROVE  sending'[q] = [mail |-> {n}, answer |-> "sent"]
        BY DEF Taken
      <4>1. q # p
        BY <1>1 DEF NoMail
      <4> QED
        BY <1>1, <4>1 DEF MailTypeOK
    <3> QED
      BY <1>1, <2>1, <3>1, <3>2 DEF ClaimedOnce
  <2> QED
    BY <2>2, <2>3
<1> QED
  BY <1>3, <1>4

\* Forgetting the row m of p takes it out of the batch and leaves the others.
LEMMA Forgetting ==
  ASSUME MailTypeOK, NEW p \in Pollers, NEW m \in Mails, Forget(p, m)
  PROVE  /\ Claimed(p)' = Claimed(p) \ {m}
         /\ \A q \in Pollers \ {p} : Claimed(q)' = Claimed(q) /\ sending'[q] = sending[q]
         /\ sending'[p] = NoMail
         /\ DOMAIN batch' = Pollers
         /\ \A q \in Pollers : \A n \in Claimed(q)' : batch'[q][n] \in Nat
         /\ sending' \in [Pollers -> [mail : SUBSET Mails,
                                      answer : {"none", "sent", "failed"}]]
<1>1. DOMAIN batch' = Pollers /\ sending'[p] = NoMail
      /\ \A q \in Pollers \ {p} : batch'[q] = batch[q] /\ sending'[q] = sending[q]
  BY DEF MailTypeOK, Forget
<1>2. batch'[p] = [n \in Claimed(p) \ {m} |-> batch[p][n]]
  BY DEF MailTypeOK, Forget
<1>3. Claimed(p)' = Claimed(p) \ {m} /\ \A q \in Pollers \ {p} : Claimed(q)' = Claimed(q)
  BY <1>1, <1>2 DEF Claimed
<1>4. \A q \in Pollers : \A n \in Claimed(q)' : batch'[q][n] \in Nat
  BY <1>1, <1>2, <1>3 DEF MailTypeOK
<1>5. sending' \in [Pollers -> [mail : SUBSET Mails, answer : {"none", "sent", "failed"}]]
  BY DEF MailTypeOK, Forget, NoMail
<1> QED
  BY <1>1, <1>3, <1>4, <1>5

LEMMA MarkKeeps ==
  ASSUME MailInv, NEW p \in Pollers, NEW m \in Mails,
         MarkSent(p, m) \/ MarkFailure(p, m)
  PROVE  MailInv'
<1> USE DEF MailInv
<1>1. /\ sending[p].mail = {m} /\ m \in Claimed(p)
      /\ Forget(p, m)
      /\ sends' = sends /\ doubled' = doubled
      /\ \A n \in Mails \ {m} : mail'[n] = mail[n]
  BY DEF MarkSent, MarkFailure, MailTypeOK
<1>2. mail' \in [Mails -> [status : {"pending", "sent", "dead"}, attempts : Nat,
                           due : BOOLEAN]]
  <2>1. CASE MarkSent(p, m)
    BY <2>1 DEF MarkSent, MailTypeOK
  <2>2. CASE MarkFailure(p, m)
    <3>1. batch[p][m] + 1 \in Nat
      BY <1>1 DEF MailTypeOK
    <3> QED
      BY <2>2, <3>1 DEF MarkFailure, MailTypeOK
  <2> QED
    BY <2>1, <2>2
<1>3. MailTypeOK'
  BY <1>1, <1>2, Forgetting DEF MailTypeOK, NoMail
<1>4. ClaimedOnce'
  <2> SUFFICES ASSUME NEW n \in Mails \ doubled
               PROVE  /\ \A q, r \in Pollers :
                           n \in Claimed(q)' /\ n \in Claimed(r)' => q = r
                      /\ mail'[n].status = "sent" => \A q \in Pollers : n \notin Claimed(q)'
                      /\ sends'[n] <= 1
                      /\ sends'[n] = 1 => mail'[n].status = "sent" \/ Taken(n)'
    BY <1>1 DEF ClaimedOnce
  <2>1. \A q \in Pollers : Claimed(q)' \subseteq Claimed(q)
    BY <1>1, Forgetting
  <2>2. \A q, r \in Pollers : n \in Claimed(q)' /\ n \in Claimed(r)' => q = r
    BY <2>1 DEF ClaimedOnce
  <2>3. CASE n = m
    <3>1. \A q \in Pollers : m \notin Claimed(q)'
      BY <1>1, <2>3, Forgetting DEF ClaimedOnce
    <3>2. CASE MarkSent(p, m)
      BY <1>1, <2>2, <2>3, <3>1, <3>2 DEF MarkSent, ClaimedOnce, MailTypeOK
    <3>3. CASE MarkFailure(p, m)
      <4>1. sends[m] # 1
        <5>1. mail[m].status # "sent"
          BY <1>1, <2>3 DEF ClaimedOnce
        <5>2. ~Taken(m)
          <6> SUFFICES ASSUME NEW q \in Pollers,
                              sending[q] = [mail |-> {m}, answer |-> "sent"]
                       PROVE  FALSE
            BY DEF Taken
          <6>1. q = p
            BY <1>1, <2>3 DEF ClaimedOnce, MailTypeOK
          <6> QED
            BY <3>3, <6>1 DEF MarkFailure
        <5> QED
          BY <2>3, <5>1, <5>2 DEF ClaimedOnce
      <4> QED
        BY <1>1, <2>2, <2>3, <3>1, <4>1 DEF ClaimedOnce
    <3> QED
      BY <3>2, <3>3
  <2>4. CASE n # m
    <3>1. Taken(n) => Taken(n)'
      <4> SUFFICES ASSUME NEW q \in Pollers, sending[q] = [mail |-> {n}, answer |-> "sent"]
                   PROVE  sending'[q] = [mail |-> {n}, answer |-> "sent"]
        BY DEF Taken
      <4>1. q # p
        BY <1>1, <2>4
      <4> QED
        BY <1>1, <4>1, Forgetting
    <3> QED
      BY <1>1, <2>1, <2>2, <2>4, <3>1 DEF ClaimedOnce
  <2> QED
    BY <2>3, <2>4
<1> QED
  BY <1>3, <1>4

LEMMA BackoffKeeps ==
  ASSUME MailInv, NEW m \in Mails, BackoffEnds(m)
  PROVE  MailInv'
<1> USE DEF MailInv
<1>1. /\ \A n \in Mails : mail'[n].status = mail[n].status
      /\ batch' = batch /\ sending' = sending /\ sends' = sends /\ doubled' = doubled
  BY DEF BackoffEnds, MailTypeOK
<1>2. \A q \in Pollers : Claimed(q)' = Claimed(q)
  BY <1>1 DEF Claimed
<1>3. MailTypeOK'
  <2>1. mail' \in [Mails -> [status : {"pending", "sent", "dead"}, attempts : Nat,
                            due : BOOLEAN]]
    BY DEF BackoffEnds, MailTypeOK
  <2> QED
    BY <1>1, <1>2, <2>1 DEF MailTypeOK
<1>4. ClaimedOnce'
  BY <1>1, <1>2 DEF ClaimedOnce, Taken
<1> QED
  BY <1>3, <1>4

LEMMA DeathKeeps ==
  ASSUME MailInv, NEW p \in Pollers, PollerDies(p)
  PROVE  MailInv'
<1> USE DEF MailInv
<1>1. /\ mail' = mail /\ sends' = sends
      /\ doubled' = doubled \cup sending[p].mail
      /\ batch' = [batch EXCEPT ![p] = <<>>]
      /\ sending' = [sending EXCEPT ![p] = NoMail]
  BY DEF PollerDies
<1>2. Claimed(p)' = {} /\ \A q \in Pollers \ {p} : Claimed(q)' = Claimed(q)
  BY <1>1 DEF Claimed, MailTypeOK
<1>3. MailTypeOK'
  <2>1. \A q \in Pollers \ {p} : batch'[q] = batch[q] /\ sending'[q] = sending[q]
    BY <1>1 DEF MailTypeOK
  <2>2. sending'[p] = NoMail /\ DOMAIN batch' = Pollers
    BY <1>1 DEF MailTypeOK
  <2> QED
    BY <1>1, <1>2, <2>1, <2>2 DEF MailTypeOK, NoMail
<1>4. ClaimedOnce'
  <2> SUFFICES ASSUME NEW n \in Mails \ doubled'
               PROVE  Taken(n) => Taken(n)'
    BY <1>1, <1>2 DEF ClaimedOnce
  <2>1. n \notin sending[p].mail
    BY <1>1
  <2> SUFFICES ASSUME NEW q \in Pollers, sending[q] = [mail |-> {n}, answer |-> "sent"]
               PROVE  sending'[q] = [mail |-> {n}, answer |-> "sent"]
    BY DEF Taken
  <2>2. q # p
    BY <2>1
  <2> QED
    BY <1>1, <2>2 DEF MailTypeOK
<1> QED
  BY <1>3, <1>4

LEMMA MailStep == MailInv /\ [MailNext]_mailVars => MailInv'
<1> SUFFICES ASSUME MailInv, [MailNext]_mailVars
             PROVE  MailInv'
  OBVIOUS
<1>1. CASE UNCHANGED mailVars
  BY <1>1 DEF MailInv, MailTypeOK, ClaimedOnce, Taken, Claimed, mailVars
<1>2. CASE MailNext
  BY <1>2, ClaimKeeps, SendKeeps, MarkKeeps, BackoffKeeps, DeathKeeps DEF MailNext
<1> QED
  BY <1>1, <1>2

\* A message is sent twice only if two processes claimed its row, its sending
\* ended in an error, or its process died before it was marked.  The argument: a
\* row that none of this happened to is in one batch at most, leaves it when it is
\* marked, and is marked before any other batch can have it.
THEOREM MailSentOnce == MailSpec => []SentOnce
<1>1. MailInv => SentOnce
  BY DEF MailInv, ClaimedOnce, SentOnce
<1> QED
  BY <1>1, MailStart, MailStep, PTL DEF MailSpec

-----------------------------------------------------------------------------
(* The calls to partners.                                                  *)

CallTypeOK ==
  /\ entry \in {"absent", "pending", "completed", "expired"}
  /\ attempt \in [Attempts -> {"idle", "ask", "call", "keep", "done"}]
  /\ calls \in 0..2
  /\ unguarded \in BOOLEAN

InCall(a) == attempt[a] \in {"call", "keep"}

\* As long as nobody has gone on without a row of its own, the one who reserved
\* the row is the only one who calls, and calls first.
OwnRow ==
  /\ entry # "expired"
  /\ \A a, b \in Attempts : InCall(a) /\ InCall(b) => a = b
  /\ entry = "absent" => calls = 0
  /\ entry # "pending" => \A a \in Attempts : ~InCall(a)
  /\ \A a \in Attempts : attempt[a] = "call" => calls = 0
  /\ calls <= 1

CallInv == CallTypeOK /\ (unguarded \/ OwnRow)

LEMMA CallStart == CallInit => CallInv
<1> SUFFICES ASSUME CallInit PROVE CallInv
  OBVIOUS
<1>1. \A a \in Attempts : attempt[a] = "idle" /\ ~InCall(a)
  BY DEF CallInit, InCall
<1>2. CallTypeOK
  <2>1. calls = 0 /\ unguarded = FALSE
    BY DEF CallInit
  <2>2. attempt \in [Attempts -> {"idle", "ask", "call", "keep", "done"}]
    BY DEF CallInit
  <2>3. entry = "absent"
    BY DEF CallInit
  <2>4. 0 \in 0..2
    OBVIOUS
  <2> QED
    BY <2>1, <2>2, <2>3, <2>4, Zenon DEF CallTypeOK
<1>3. OwnRow
  BY <1>1 DEF CallInit, OwnRow
<1> QED
  BY <1>2, <1>3 DEF CallInv

LEMMA AttemptKeeps ==
  ASSUME CallInv, NEW a \in Attempts,
         \/ BeginCall(a) \/ GetOrSet(a) \/ AskFails(a) \/ CallAnswers(a)
         \/ CallFails(a) \/ RecordOutcome(a) \/ RecordFails(a)
  PROVE  CallInv'
<1> USE DEF CallInv, CallTypeOK, OwnRow, InCall, Comes, Reaches, Lapse
<1>1. CASE BeginCall(a)
  BY <1>1 DEF BeginCall
<1>2. CASE GetOrSet(a)
  BY <1>2 DEF GetOrSet
<1>3. CASE AskFails(a)
  BY <1>3 DEF AskFails
<1>4. CASE CallAnswers(a)
  BY <1>4 DEF CallAnswers
<1>5. CASE CallFails(a)
  BY <1>5 DEF CallFails
<1>6. CASE RecordOutcome(a)
  BY <1>6 DEF RecordOutcome
<1>7. CASE RecordFails(a)
  BY <1>7 DEF RecordFails
<1> QED
  BY <1>1, <1>2, <1>3, <1>4, <1>5, <1>6, <1>7

LEMMA WorkerDeathKeeps ==
  ASSUME CallInv, NEW w \in Workers, WorkerDies(w)
  PROVE  CallInv'
<1> USE DEF CallInv, CallTypeOK, OwnRow, InCall, WorkerDies, Lapse
<1>1. CASE UNCHANGED calls
  BY <1>1
<1>2. CASE (\E a \in Attempts : WorkerOf[a] = w /\ attempt[a] = "call") /\ Reaches
  BY <1>2 DEF Reaches
<1> QED
  BY <1>1, <1>2

LEMMA CallStep == CallInv /\ [CallNext]_callVars => CallInv'
<1> SUFFICES ASSUME CallInv, [CallNext]_callVars
             PROVE  CallInv'
  OBVIOUS
<1>1. CASE RowExpires \/ SweepExpired
  BY <1>1 DEF RowExpires, SweepExpired, CallInv, CallTypeOK, OwnRow, InCall
<1>2. CASE UNCHANGED callVars
  BY <1>2 DEF callVars, CallInv, CallTypeOK, OwnRow, InCall
<1> QED
  BY <1>1, <1>2, AttemptKeeps, WorkerDeathKeeps DEF CallNext

\* However many attempts, workers and failures there are, a partner is called
\* once, unless an attempt went on without a row of its own.  The argument: the
\* attempt that reserved the row is the only one past the question, and the row
\* never becomes free again while nothing has expired.
THEOREM PartnerCalledOnce == CallSpec => []CalledOnce
<1>1. CallInv => CalledOnce
  BY DEF CallInv, OwnRow, CalledOnce
<1> QED
  BY <1>1, CallStart, CallStep, PTL DEF CallSpec

-----------------------------------------------------------------------------
(* The leases.                                                             *)

LeaseTypeOK ==
  /\ lease.left \in Nat
  /\ lease \in [by : {{}} \cup {{r} : r \in Runners}, left : Nat]
  /\ lapsed \in BOOLEAN
  /\ work \subseteq Runners

\* Who runs the job has the lease, and it has not expired.
RunnerHolds == work \subseteq lease.by /\ (work # {} => lease.left > 0)

LeaseInv == LeaseTypeOK /\ (lapsed \/ RunnerHolds)

LEMMA LeaseStart == LeaseInit => LeaseInv
<1> SUFFICES ASSUME LeaseInit PROVE LeaseInv
  OBVIOUS
<1>1. lease = [by |-> {}, left |-> 0] /\ work = {} /\ lapsed = FALSE
  BY DEF LeaseInit, NoLease
<1>2. LeaseTypeOK
  BY <1>1 DEF LeaseTypeOK
<1>3. RunnerHolds
  BY <1>1 DEF RunnerHolds
<1> QED
  BY <1>2, <1>3 DEF LeaseInv

LEMMA AcquireKeeps ==
  ASSUME LeaseInv, NEW r \in Runners, Acquire(r), UNCHANGED lapsed
  PROVE  LeaseInv'
  BY LeaseAssumption DEF Acquire, LeaseInv, LeaseTypeOK, RunnerHolds

LEMMA PodKeeps ==
  ASSUME LeaseInv, NEW p \in Pods,
         \/ CronFires(p) \/ CronBreaks(p) \/ StartByHand(p) \/ PodDies(p)
         \/ PodStarts(p) \/ SweepLeases(p) \/ SweepFails(p)
  PROVE  LeaseInv'
<1> USE DEF LeaseInv, LeaseTypeOK, RunnerHolds
<1>1. CASE CronFires(p)
  <2>1. <<p, "cron">> \in Runners
    BY DEF Runners
  <2>2. CASE Skip
    BY <1>1, <2>2 DEF CronFires, Skip
  <2> QED
    BY <1>1, <2>1, <2>2, AcquireKeeps DEF CronFires
<1>2. CASE StartByHand(p)
  <2>1. <<p, "hand">> \in Runners
    BY DEF Runners
  <2> QED
    BY <1>2, <2>1, AcquireKeeps DEF StartByHand
<1>3. CASE PodDies(p)
  BY <1>3 DEF PodDies
<1>4. CASE SweepLeases(p)
  BY <1>4 DEF SweepLeases, NoLease
<1>5. CASE CronBreaks(p) \/ PodStarts(p) \/ SweepFails(p)
  BY <1>5 DEF CronBreaks, PodStarts, SweepFails
<1> QED
  BY <1>1, <1>2, <1>3, <1>4, <1>5

LEMMA RunnerKeeps ==
  ASSUME LeaseInv, NEW r \in Runners,
         Heartbeat(r) \/ HeartbeatFails(r) \/ WorkEnds(r) \/ ReleaseFails(r)
  PROVE  LeaseInv'
<1> USE DEF LeaseInv, LeaseTypeOK, RunnerHolds
<1>1. CASE Heartbeat(r)
  BY <1>1, LeaseAssumption DEF Heartbeat
<1>2. CASE HeartbeatFails(r)
  BY <1>2 DEF HeartbeatFails
<1>3. CASE WorkEnds(r)
  BY <1>3 DEF WorkEnds, NoLease
<1>4. CASE ReleaseFails(r)
  BY <1>4 DEF ReleaseFails
<1> QED
  BY <1>1, <1>2, <1>3, <1>4

\* A lease that loses its last beat under its runner has lapsed.
LEMMA BeatKeeps == LeaseInv /\ NextBeat => LeaseInv'
<1> SUFFICES ASSUME LeaseInv, NextBeat PROVE LeaseInv'
  OBVIOUS
<1> USE DEF LeaseInv, LeaseTypeOK, RunnerHolds
<1>1. work' = work /\ lease'.by = lease.by
  BY DEF NextBeat
<1>2. lease'.left = IF lease.left > 0 THEN lease.left - 1 ELSE 0
  BY DEF NextBeat
<1>3. LeaseTypeOK'
  BY <1>1, <1>2 DEF NextBeat
<1>4. lapsed' = (lapsed \/ (lease.left = 1 /\ lease.by \subseteq work))
  BY DEF NextBeat
<1>5. ASSUME ~lapsed', work # {}
      PROVE  lease'.left > 0
  <2>1. ~lapsed /\ ~(lease.left = 1 /\ lease.by \subseteq work)
    BY <1>4, <1>5
  <2>2. work \subseteq lease.by /\ lease.left > 0
    BY <1>5, <2>1
  <2>3. lease.by \in {{}} \cup {{r} : r \in Runners}
    OBVIOUS
  <2>4. lease.by \subseteq work
    BY <1>5, <2>2, <2>3
  <2>5. lease.left \in Nat /\ lease.left > 0 /\ lease.left # 1
    BY <2>1, <2>2, <2>4
  <2> QED
    BY <1>2, <2>5
<1> QED
  BY <1>1, <1>3, <1>4, <1>5

LEMMA LeaseStep == LeaseInv /\ [LeaseNext]_leaseVars => LeaseInv'
<1>1. LeaseInv /\ UNCHANGED leaseVars => LeaseInv'
  BY DEF leaseVars, LeaseInv, LeaseTypeOK, RunnerHolds
<1> QED
  BY <1>1, PodKeeps, RunnerKeeps, BeatKeeps DEF LeaseNext

\* However many pods there are, and whenever they die, start, sweep or are asked
\* for a run by hand, the job has one runner at a time, as long as no lease expires
\* under its runner.  The argument: who runs the job holds the lease; only a lease
\* without life is swept, and the lease of a runner has some.
THEOREM OneRunnerAtATime == LeaseSpec => []OneRunner
<1>1. LeaseInv => OneRunner
  <2> SUFFICES ASSUME LeaseInv, ~lapsed PROVE Cardinality(work) <= 1
    BY DEF OneRunner
  <2>1. CASE lease.by = {}
    <3>1. work = {}
      BY <2>1 DEF LeaseInv, RunnerHolds
    <3> QED
      BY <3>1, FS_EmptySet
  <2>2. CASE \E r \in Runners : lease.by = {r}
    <3>1. PICK r \in Runners : work \subseteq {r}
      BY <2>2 DEF LeaseInv, RunnerHolds
    <3>2. IsFiniteSet({r}) /\ Cardinality({r}) = 1
      BY FS_Singleton
    <3>3. IsFiniteSet(work) /\ Cardinality(work) <= Cardinality({r})
      BY <3>1, <3>2, FS_Subset
    <3> QED
      BY <3>2, <3>3
  <2> QED
    BY <2>1, <2>2 DEF LeaseInv, LeaseTypeOK
<1> QED
  BY <1>1, LeaseStart, LeaseStep, PTL DEF LeaseSpec

\* A lease that nobody works under, and how many days it may still cost if nothing
\* else goes wrong: today if the job is not begun and a cron is yet to come, and
\* each later day that begins before a sweep finds the lease expired.
Orphaned  == lease.by # {} /\ ~(lease.by \subseteq work)
TodayOpen == due # {} /\ ~begun /\ today \notin missed
SweptSoon == lease.left = 0 /\ \E p \in sweeps : CronFree(p)
Later     == IF SweptSoon THEN 0 ELSE IF lease.left + beat <= DayBeats THEN 1 ELSE 2
Owed      == IF Orphaned THEN (IF TodayOpen THEN 1 ELSE 0) + Later ELSE 0

CostShape ==
  /\ today \in Nat /\ beat \in Nat /\ beat < DayBeats
  /\ troubles \in Nat /\ IsFiniteSet(missed) /\ Cardinality(missed) \in Nat
  /\ lease.left \in Nat /\ lease.left <= Ttl
  /\ due # {} => beat = 0
CostInv == CostShape /\ Cardinality(missed) + Owed <= 2 * troubles

LEMMA OwedParts ==
  /\ ~Orphaned => Owed = 0
  /\ Orphaned /\ TodayOpen => Owed = 1 + Later
  /\ Orphaned /\ ~TodayOpen => Owed = 0 + Later
  /\ ~Orphaned' => Owed' = 0
  /\ Orphaned' /\ TodayOpen' => Owed' = 1 + Later'
  /\ Orphaned' /\ ~TodayOpen' => Owed' = 0 + Later'
<1>1. ~Orphaned' => Owed' = 0
  BY DEF Owed
<1>2. Orphaned' /\ TodayOpen' => Owed' = 1 + Later'
  BY Zenon DEF Owed
<1>3. Orphaned' /\ ~TodayOpen' => Owed' = 0 + Later'
  BY Zenon DEF Owed
<1>4. /\ ~Orphaned => Owed = 0
      /\ Orphaned /\ TodayOpen => Owed = 1 + Later
      /\ Orphaned /\ ~TodayOpen => Owed = 0 + Later
  BY Zenon DEF Owed
<1> QED
  BY <1>1, <1>2, <1>3, <1>4

\* A lease outlives no day, so it costs two days at most.
LEMMA OwedAtMostTwo ==
  /\ CostShape => Owed \in 0..2
  /\ CostShape' => Owed' \in 0..2
<1>1. Ttl \in Nat /\ DayBeats \in Nat /\ Ttl < DayBeats
  BY LeaseAssumption
<1>2. ASSUME CostShape PROVE Owed \in 0..2
  <2>1. Later \in 0..2 /\ (TodayOpen => Later \in 0..1)
    BY <1>1, <1>2 DEF CostShape, Later, TodayOpen
  <2> QED
    BY <2>1 DEF Owed
<1>3. ASSUME CostShape' PROVE Owed' \in 0..2
  <2>1. Later' \in 0..2 /\ (TodayOpen' => Later' \in 0..1)
    BY <1>1, <1>3 DEF CostShape, Later, TodayOpen
  <2> QED
    BY <2>1, OwedParts
<1> QED
  BY <1>2, <1>3

LEMMA CostStart == LeaseInit => CostInv
<1> SUFFICES ASSUME LeaseInit PROVE CostInv
  OBVIOUS
<1>1. IsFiniteSet({}) /\ Cardinality({}) = 0
  BY FS_EmptySet
<1>2. lease = [by |-> {}, left |-> 0] /\ missed = {} /\ troubles = 0 /\ begun = FALSE
  BY DEF LeaseInit, NoLease
<1>3. CostShape
  <2>1. /\ today \in Nat /\ beat \in Nat /\ beat < DayBeats
        /\ lease.left \in Nat /\ lease.left <= Ttl /\ beat = 0
    BY <1>2, LeaseAssumption DEF LeaseInit
  <2>2. IsFiniteSet(missed) /\ Cardinality(missed) \in Nat
    BY <1>1, <1>2
  <2> QED
    BY <1>2, <2>1, <2>2 DEF CostShape
<1>4. Owed = 0
  BY <1>2 DEF Owed, Orphaned
<1> QED
  BY <1>1, <1>2, <1>3, <1>4 DEF CostInv

\* Whatever goes wrong pays for two days.
LEMMA TroublePays ==
  ASSUME CostInv, CostShape', troubles' = troubles + 1, missed' = missed
  PROVE  CostInv'
<1>1. Owed' \in 0..2 /\ Owed \in 0..2
  BY OwedAtMostTwo DEF CostInv
<1> QED
  BY <1>1 DEF CostInv, CostShape

LEMMA CheapStep ==
  ASSUME CostInv, CostShape', troubles' = troubles, missed' = missed,
         ~Orphaned' \/ Owed' <= Owed
  PROVE  CostInv'
<1>1. Owed' \in 0..2 /\ Owed \in 0..2
  BY OwedAtMostTwo DEF CostInv
<1>2. ~Orphaned' => Owed' = 0
  BY DEF Owed
<1> QED
  BY <1>1, <1>2 DEF CostInv, CostShape

\* A cron that meets an orphan uses up today.
LEMMA CronCosts ==
  ASSUME LeaseInv, CostInv, NEW p \in Pods, CronFires(p)
  PROVE  CostInv'
<1>0. CostShape /\ LeaseAssumption
  BY LeaseAssumption DEF CostInv
<1>1. /\ p \in due /\ due' = due \ {p} /\ UNCHANGED <<today, beat, sweeps, troubles>>
      /\ missed' = IF Orphaned /\ ~begun THEN missed \cup {today} ELSE missed
  BY DEF CronFires, Orphaned, clockVars
<1>2. /\ IsFiniteSet(missed \cup {today})
      /\ Cardinality(missed \cup {today}) = IF today \in missed THEN Cardinality(missed)
                                            ELSE Cardinality(missed) + 1
  BY <1>0, FS_AddElement DEF CostShape
<1>3. CASE Acquire(<<p, "cron">>)
  <2>1. /\ ~Orphaned /\ lease' = [by |-> {<<p, "cron">>}, left |-> Ttl]
        /\ work' = work \cup {<<p, "cron">>} /\ begun' = TRUE
    BY <1>3 DEF Acquire, Orphaned
  <2>2. missed' = missed
    BY <1>1, <2>1
  <2>3. ~Orphaned'
    BY <2>1 DEF Orphaned
  <2>4. CostShape'
    BY <1>0, <1>1, <2>1, <2>2, LeaseAssumption DEF CostShape
  <2> QED
    BY <1>1, <2>2, <2>3, <2>4, CheapStep
<1>4. CASE Skip
  <2>1. UNCHANGED <<lease, work, begun>>
    BY <1>4 DEF Skip
  <2>2. CostShape'
    BY <1>0, <1>1, <1>2, <2>1 DEF CostShape
  <2>3. Later' = Later /\ Orphaned' = Orphaned
    BY <1>1, <2>1 DEF Later, SweptSoon, CronFree, Orphaned
  <2>4. CASE Orphaned /\ ~begun
    <3>1. missed' = missed \cup {today} /\ ~TodayOpen'
      BY <1>1, <2>4 DEF TodayOpen
    <3>2. TodayOpen <=> today \notin missed
      BY <1>1, <2>4 DEF TodayOpen
    <3>3. Later \in 0..2
      BY DEF Later
    <3>4. Owed' = Later /\ Owed = (IF today \notin missed THEN 1 ELSE 0) + Later
      <4>1. Orphaned' /\ ~TodayOpen'
        BY <2>3, <2>4, <3>1
      <4>2. Owed' = Later'
        BY <2>3, <3>3, <4>1, OwedParts
      <4>3. Owed = (IF today \notin missed THEN 1 ELSE 0) + Later
        BY <2>4, <3>2 DEF Owed
      <4> QED
        BY <2>3, <4>2, <4>3
    <3> QED
      BY <1>0, <1>1, <1>2, <2>2, <3>1, <3>3, <3>4 DEF CostInv, CostShape
  <2>5. CASE ~(Orphaned /\ ~begun)
    <3>1. missed' = missed /\ (TodayOpen' => TodayOpen)
      BY <1>1, <2>1, <2>5 DEF TodayOpen
    <3>2. Later \in 0..2
      BY DEF Later
    <3>3. ~Orphaned' \/ Owed' <= Owed
      BY <2>3, <3>1, <3>2 DEF Owed
    <3> QED
      BY <1>1, <2>2, <3>1, <3>3, CheapStep
  <2> QED
    BY <2>4, <2>5
<1> QED
  BY <1>3, <1>4 DEF CronFires

\* The other steps of pods and runners: none but a failure leaves a lease behind,
\* and nobody renews one that is left behind.
LEMMA PodCosts ==
  ASSUME LeaseInv, CostInv, NEW p \in Pods,
         \/ CronBreaks(p) \/ StartByHand(p) \/ PodDies(p) \/ PodStarts(p)
         \/ SweepLeases(p) \/ SweepFails(p)
  PROVE  CostInv'
<1>0. CostShape /\ Later \in 0..2
  BY DEF CostInv, Later
<1>1. CASE CronBreaks(p) \/ PodDies(p) \/ SweepFails(p)
  <2>1. /\ troubles' = troubles + 1 /\ due' \subseteq due
        /\ UNCHANGED <<today, beat, lease, begun, missed>>
    BY <1>1 DEF CronBreaks, PodDies, SweepFails, Trouble, clockVars
  <2>2. CostShape'
    BY <1>0, <2>1 DEF CostShape
  <2> QED
    BY <2>1, <2>2, TroublePays
<1>2. CASE StartByHand(p)
  <2>1. /\ lease' = [by |-> {<<p, "hand">>}, left |-> Ttl]
        /\ work' = work \cup {<<p, "hand">>} /\ begun' = TRUE
        /\ UNCHANGED <<today, beat, due, troubles, missed>>
    BY <1>2 DEF StartByHand, Acquire, clockVars
  <2>2. CostShape' /\ ~Orphaned'
    BY <1>0, <2>1, LeaseAssumption DEF CostShape, Orphaned
  <2> QED
    BY <2>1, <2>2, CheapStep
<1>3. CASE PodStarts(p)
  <2>1. UNCHANGED <<today, beat, due, sweeps, work, lease, troubles, begun, missed>>
    BY <1>3 DEF PodStarts, clockVars
  <2>2. CostShape' /\ Owed' = Owed
    BY <1>0, <2>1 DEF CostShape, Owed, Orphaned, TodayOpen, Later, SweptSoon, CronFree
  <2>3. Owed' <= Owed
    BY <2>2, OwedAtMostTwo, <1>0
  <2> QED
    BY <2>1, <2>2, <2>3, CheapStep
<1>4. CASE SweepLeases(p)
  <2>1. UNCHANGED <<today, beat, due, work, troubles, begun, missed>>
    BY <1>4 DEF SweepLeases, clockVars
  <2>2. CASE lease.left = 0
    <3>1. lease' = [by |-> {}, left |-> 0]
      BY <1>4, <2>2 DEF SweepLeases, NoLease
    <3>2. CostShape' /\ ~Orphaned'
      BY <1>0, <2>1, <3>1, LeaseAssumption DEF CostShape, Orphaned
    <3> QED
      BY <2>1, <3>2, CheapStep
  <2>3. CASE lease.left # 0
    <3>1. lease' = lease
      BY <1>4, <2>3 DEF SweepLeases
    <3>2. CostShape' /\ Owed' = Owed
      BY <1>0, <2>1, <2>3, <3>1 DEF CostShape, Owed, Orphaned, TodayOpen, Later, SweptSoon
    <3>3. Owed' <= Owed
      BY <3>2, OwedAtMostTwo, <1>0
    <3> QED
      BY <2>1, <3>2, <3>3, CheapStep
  <2> QED
    BY <2>2, <2>3
<1> QED
  BY <1>1, <1>2, <1>3, <1>4

LEMMA RunnerCosts ==
  ASSUME LeaseInv, CostInv, NEW r \in Runners,
         Heartbeat(r) \/ HeartbeatFails(r) \/ WorkEnds(r) \/ ReleaseFails(r)
  PROVE  CostInv'
<1>0. CostShape /\ Later \in 0..2 /\ Owed \in 0..2
  BY OwedAtMostTwo DEF CostInv, Later
<1>1. /\ r \in work /\ UNCHANGED <<today, beat, due, sweeps, begun, missed>>
  BY DEF Heartbeat, HeartbeatFails, WorkEnds, ReleaseFails, clockVars
<1>2. CASE HeartbeatFails(r) \/ ReleaseFails(r)
  <2>1. troubles' = troubles + 1 /\ lease' = lease
    BY <1>2 DEF HeartbeatFails, ReleaseFails, Trouble
  <2>2. CostShape'
    BY <1>0, <1>1, <2>1 DEF CostShape
  <2> QED
    BY <1>1, <2>1, <2>2, TroublePays
<1>3. CASE Heartbeat(r)
  <2>1. /\ UNCHANGED <<work, troubles>>
        /\ lease' = IF lease.by = {r} THEN [lease EXCEPT !.left = Ttl] ELSE lease
    BY <1>3 DEF Heartbeat
  <2>2. CASE lease.by = {r}
    <3>1. lease'.by = {r} /\ lease'.left = Ttl
      BY <2>1, <2>2 DEF LeaseInv, LeaseTypeOK
    <3>2. CostShape' /\ ~Orphaned'
      BY <1>0, <1>1, <2>1, <3>1, LeaseAssumption DEF CostShape, Orphaned
    <3> QED
      BY <1>1, <2>1, <3>2, CheapStep
  <2>3. CASE lease.by # {r}
    <3>1. CostShape' /\ Owed' = Owed
      BY <1>0, <1>1, <2>1, <2>3
         DEF CostShape, Owed, Orphaned, TodayOpen, Later, SweptSoon, CronFree
    <3>2. Owed' <= Owed
      BY <1>0, <3>1
    <3> QED
      BY <1>1, <2>1, <3>1, <3>2, CheapStep
  <2> QED
    BY <2>2, <2>3
<1>4. CASE WorkEnds(r)
  <2>1. /\ work' = work \ {r} /\ troubles' = troubles
        /\ lease' = IF lease.by = {r} THEN NoLease ELSE lease
    BY <1>4 DEF WorkEnds
  <2>2. CASE lease.by = {r}
    <3>1. lease' = [by |-> {}, left |-> 0]
      BY <2>1, <2>2 DEF NoLease
    <3>2. CostShape' /\ ~Orphaned'
      BY <1>0, <1>1, <2>1, <3>1, LeaseAssumption DEF CostShape, Orphaned
    <3> QED
      BY <1>1, <2>1, <3>2, CheapStep
  <2>3. CASE lease.by # {r}
    <3>1. lease' = lease /\ CostShape' /\ TodayOpen' = TodayOpen
      BY <1>0, <1>1, <2>1, <2>3 DEF CostShape, TodayOpen
    <3>2. r \notin lease.by
      BY <2>3 DEF LeaseInv, LeaseTypeOK
    <3>3. Orphaned' => Orphaned
      BY <2>1, <3>1, <3>2 DEF Orphaned
    <3>4. SweptSoon => SweptSoon'
      BY <1>1, <2>1, <3>1 DEF SweptSoon, CronFree
    <3>5. Later' <= Later /\ Later' \in 0..2
      BY <1>1, <3>1, <3>4 DEF Later
    <3>6. ~Orphaned' \/ Owed' <= Owed
      BY <1>0, <3>1, <3>3, <3>5, OwedParts
    <3> QED
      BY <1>1, <2>1, <3>1, <3>6, CheapStep
  <2> QED
    BY <2>2, <2>3
<1> QED
  BY <1>2, <1>3, <1>4

\* A day begins: what was to come comes nearer.
LEMMA BeatCosts ==
  ASSUME LeaseInv, CostInv, NextBeat
  PROVE  CostInv'
<1>0. CostShape /\ Owed \in 0..2 /\ Ttl \in Nat /\ DayBeats \in Nat /\ Ttl < DayBeats
  BY OwedAtMostTwo, LeaseAssumption DEF CostInv
<1>1. /\ due = {} /\ ~SweptSoon /\ UNCHANGED <<work, troubles, missed>>
      /\ lease'.by = lease.by
      /\ lease'.left = IF lease.left > 0 THEN lease.left - 1 ELSE 0
  BY DEF NextBeat, SweptSoon, LeaseInv, LeaseTypeOK
<1>2. Orphaned' = Orphaned /\ (Orphaned => Owed = Later)
      /\ Later = IF lease.left + beat <= DayBeats THEN 1 ELSE 2
  BY <1>1 DEF Orphaned, Owed, TodayOpen, Later
<1>3. CASE beat + 1 < DayBeats
  <2>1. beat' = beat + 1 /\ UNCHANGED <<today, due, begun>>
    BY <1>3 DEF NextBeat
  <2>2. CostShape' /\ ~TodayOpen'
    BY <1>0, <1>1, <1>3, <2>1 DEF CostShape, TodayOpen
  <2>3. Later' \in 0..2 /\ Later' <= Later
    BY <1>0, <1>1, <1>2, <1>3, <2>1 DEF Later, CostShape
  <2>4. ~Orphaned' \/ Owed' <= Owed
    BY <1>2, <2>2, <2>3, OwedParts
  <2> QED
    BY <1>1, <2>2, <2>4, CheapStep
<1>4. CASE ~(beat + 1 < DayBeats)
  <2>1. /\ today' = today + 1 /\ beat' = 0 /\ begun' = FALSE
        /\ due' = {p \in alive : CronFree(p)} /\ sweeps' = alive
    BY <1>4 DEF NextBeat
  <2>2. CostShape'
    <3>1. lease'.left \in Nat /\ lease'.left <= Ttl /\ 0 < DayBeats
      BY <1>0, <1>1 DEF CostShape
    <3>2. today' \in Nat
      BY <1>0, <2>1 DEF CostShape
    <3>3. beat' \in Nat /\ beat' < DayBeats /\ beat' = 0
      BY <2>1, <3>1
    <3>4. troubles' \in Nat /\ IsFiniteSet(missed') /\ Cardinality(missed') \in Nat
      BY <1>0, <1>1 DEF CostShape
    <3> QED
      BY <3>1, <3>2, <3>3, <3>4 DEF CostShape
  <2>3. lease.left <= 1 => lease'.left = 0
    BY <1>0, <1>1 DEF CostShape
  <2>4. Later = 1 => lease'.left = 0
    BY <1>0, <1>2, <1>4, <2>3 DEF CostShape
  <2>5. due' # {} => \E p \in sweeps' : CronFree(p)'
    BY <1>1, <2>1 DEF CronFree
  <2>6. lease'.left + beat' <= DayBeats
    BY <2>1, <2>2, <1>0 DEF CostShape
  <2>7. Later' = IF SweptSoon' THEN 0 ELSE 1
    BY <2>6 DEF Later
  <2>8. Later = 1 => ~TodayOpen' \/ SweptSoon'
    BY <2>4, <2>5 DEF TodayOpen, SweptSoon
  <2>9. Later \in 1..2
    BY <1>2
  <2>10. ~Orphaned' \/ Owed' <= Owed
    BY <1>2, <2>7, <2>8, <2>9 DEF Owed
  <2> QED
    BY <1>1, <2>2, <2>10, CheapStep
<1> QED
  BY <1>3, <1>4

LEMMA CostStep == LeaseInv /\ CostInv /\ [LeaseNext]_leaseVars => CostInv'
<1>1. ASSUME CostInv, UNCHANGED leaseVars PROVE CostInv'
  <2>1. CostShape' /\ Owed' = Owed /\ troubles' = troubles /\ missed' = missed
    BY <1>1 DEF CostInv, CostShape, Owed, Orphaned, TodayOpen, Later, SweptSoon, CronFree,
                leaseVars
  <2> QED
    BY <1>1, <2>1 DEF CostInv
<1> QED
  BY <1>1, CronCosts, PodCosts, RunnerCosts, BeatCosts DEF LeaseNext

\* Each failure costs the job two days at most, for any number of pods, days and
\* failures and any life of a lease that is shorter than a day: a lease that is left
\* behind has expired when the second day after begins, and whoever skips its job for
\* it in that day sweeps it, unless another failure stops the sweep.
THEOREM FailureCostsTwoDays == LeaseSpec => []OrphanCostsTwoDays
<1>1. CostInv => OrphanCostsTwoDays
  <2> SUFFICES ASSUME CostInv PROVE OrphanCostsTwoDays
    OBVIOUS
  <2>1. Owed \in 0..2
    BY OwedAtMostTwo DEF CostInv
  <2> QED
    BY <2>1 DEF CostInv, CostShape, OrphanCostsTwoDays
<1>2. LeaseInv /\ CostInv /\ [LeaseNext]_leaseVars => LeaseInv' /\ CostInv'
  BY LeaseStep, CostStep
<1> QED
  BY <1>1, <1>2, LeaseStart, CostStart, PTL DEF LeaseSpec

-----------------------------------------------------------------------------
(* The contracts.                                                          *)

TryType == [party : SUBSET Parties, view : SUBSET Parties,
            at : {"none", "status", "parties", "resume", "lost", "done"}]

SigningTypeOK ==
  /\ contract \in {"nhap", "cho_ky", "hieu_luc", "tu_choi"}
  /\ signed \subseteq Parties
  /\ signing \in [Tries -> TryType] /\ outgoing \in Nat
  /\ rejecting \in BOOLEAN /\ resumed \in BOOLEAN /\ crossed \in BOOLEAN

\* All parties of a lower order than those of P have signed.
Preceded(P) == \A p \in P, q \in Parties : Order[q] < Order[p] => q \in signed

\* Who has signed, or may sign, comes after all who come before.
Ordered ==
  /\ Preceded(signed)
  /\ \A k \in Tries : signing[k].at = "parties" => Preceded(signing[k].party)

\* As long as no two transactions were open together: an open one is the only
\* one, knows every signature, and found the contract still waiting.
AloneKnowsAll ==
  ~crossed =>
    /\ Complete(signed) => contract = "hieu_luc" /\ (resumed \/ Resuming \cup Lost # {})
    /\ \A j, k \in OpenTries : j = k
    /\ \A k \in OpenTries : contract = "cho_ky" /\ ~rejecting /\ outgoing = 0
    /\ rejecting => contract = "cho_ky" /\ outgoing = 0
    /\ outgoing = 0 \/ (outgoing = 1 /\ contract = "nhap")
    /\ \A k \in OpenTries : signing[k].at = "parties" => signing[k].view = signed

SigningInv == SigningTypeOK /\ Ordered /\ AloneKnowsAll

-----------------------------------------------------------------------------
\* Nobody has signed a new contract, so it is not complete.
LEMMA NobodyIsNotEnough == ~Complete({})
<1>1. Cardinality({}) = 0
  BY FS_EmptySet
<1> QED
  BY <1>1, SigningAssumption DEF Complete

LEMMA SigningStart == SigningInit => SigningInv
<1> SUFFICES ASSUME SigningInit PROVE SigningInv
  OBVIOUS
<1>1. \A k \in Tries : signing[k].at = "none"
  BY DEF SigningInit, NoTry
<1>2. SigningTypeOK
  BY DEF SigningInit, SigningTypeOK, TryType, NoTry
<1>3. Ordered
  BY <1>1 DEF SigningInit, Ordered, Preceded
<1>4. AloneKnowsAll
  BY <1>1, NobodyIsNotEnough DEF SigningInit, AloneKnowsAll, OpenTries
<1> QED
  BY <1>2, <1>3, <1>4 DEF SigningInv

LEMMA BeginSignKeeps ==
  ASSUME SigningInv, NEW k \in Tries, NEW p \in Parties, BeginSign(k, p)
  PROVE  SigningInv'
<1> USE DEF SigningInv
<1>1. /\ signing' = [signing EXCEPT ![k] = [party |-> {p}, at |-> "status", view |-> {}]]
      /\ contract = "cho_ky" /\ signing[k].at = "none"
      /\ crossed' = (crossed \/ rejecting \/ outgoing > 0 \/ OpenTries # {})
      /\ UNCHANGED <<contract, signed, outgoing, rejecting, resumed>>
  BY DEF BeginSign, Meets
<1>2. /\ signing'[k].at = "status"
      /\ \A j \in Tries \ {k} : signing'[j] = signing[j]
  BY <1>1 DEF SigningTypeOK
<1>3. SigningTypeOK'
  <2>1. signing' \in [Tries -> TryType]
    BY <1>1 DEF SigningTypeOK, TryType
  <2> QED
    BY <1>1, <2>1 DEF SigningTypeOK
<1>4. Ordered'
  BY <1>1, <1>2 DEF Ordered, Preceded
<1>5. AloneKnowsAll'
  <2>1. /\ OpenTries' = OpenTries \cup {k}
        /\ Resuming' = Resuming /\ Lost' = Lost
    BY <1>1, <1>2 DEF OpenTries, Resuming, Lost
  <2>2. \A j \in OpenTries' : j # k => j \in OpenTries
    BY <2>1
  <2>3. SUFFICES ASSUME ~crossed'
                 PROVE  AloneKnowsAll'
    BY DEF AloneKnowsAll
  <2>4. ~crossed /\ ~rejecting /\ ~(outgoing > 0) /\ OpenTries = {}
    BY <1>1, <2>3, Zenon
  <2>5. outgoing = 0
    BY <2>4 DEF SigningTypeOK
  <2> QED
    BY <1>1, <1>2, <2>1, <2>2, <2>4, <2>5 DEF AloneKnowsAll, Complete
<1> QED
  BY <1>3, <1>4, <1>5

LEMMA ReadKeeps ==
  ASSUME SigningInv, NEW k \in Tries, ReadParties(k)
  PROVE  SigningInv'
<1> USE DEF SigningInv
<1>1. /\ signing[k].at = "status"
      /\ \A j \in Tries \ {k} : signing'[j] = signing[j]
      /\ signing'[k].view = signed /\ signing'[k].party = signing[k].party
      /\ signing'[k].at = IF signing[k].party \subseteq NextSigners(signed)
                          THEN "parties" ELSE "done"
      /\ UNCHANGED <<contract, signed, outgoing, rejecting, resumed, crossed>>
  BY DEF ReadParties, SigningTypeOK, TryType
<1>2. SigningTypeOK'
  <2>1. signing' \in [Tries -> TryType]
    BY DEF ReadParties, SigningTypeOK, TryType
  <2> QED
    BY <1>1, <2>1 DEF SigningTypeOK
<1>3. Ordered'
  <2> SUFFICES ASSUME signing'[k].at = "parties"
               PROVE  Preceded(signing[k].party)
    BY <1>1 DEF Ordered, Preceded
  <2> SUFFICES ASSUME NEW p \in signing[k].party, NEW q \in Parties, Order[q] < Order[p]
               PROVE  q \in signed
    BY DEF Preceded
  <2>1. p \in NextSigners(signed) /\ p \in Parties
    BY <1>1 DEF SigningTypeOK, TryType
  <2>2. q \notin signed => Order[p] <= Order[q]
    BY <2>1 DEF NextSigners
  <2>3. Order[p] \in Nat /\ Order[q] \in Nat
    BY <2>1, SigningAssumption
  <2> QED
    BY <2>2, <2>3
<1>4. AloneKnowsAll'
  <2>1. /\ OpenTries' \subseteq OpenTries
        /\ Resuming' = Resuming /\ Lost' = Lost
    BY <1>1 DEF OpenTries, Resuming, Lost
  <2> QED
    BY <1>1, <2>1 DEF AloneKnowsAll, OpenTries, Complete
<1> QED
  BY <1>2, <1>3, <1>4

LEMMA CommitKeeps ==
  ASSUME SigningInv, NEW k \in Tries, CommitSign(k)
  PROVE  SigningInv'
<1> USE DEF SigningInv
<1> DEFINE done == signing[k].view \cup signing[k].party
<1>1. /\ signing[k].at = "parties"
      /\ signing'[k].at = IF Complete(done) THEN "resume" ELSE "done"
      /\ \A j \in Tries \ {k} : signing'[j] = signing[j]
      /\ signed' = signed \cup signing[k].party
      /\ contract' = IF Complete(done) THEN "hieu_luc" ELSE contract
      /\ UNCHANGED <<outgoing, rejecting, resumed, crossed>>
  BY DEF CommitSign, CommitCounting, SigningTypeOK, TryType
<1>2. SigningTypeOK'
  <2>1. signing' \in [Tries -> TryType]
    BY DEF CommitSign, CommitCounting, SigningTypeOK, TryType
  <2>2. signed' \subseteq Parties
    BY <1>1 DEF SigningTypeOK, TryType
  <2> QED
    BY <1>1, <2>1, <2>2 DEF SigningTypeOK
<1>3. Ordered'
  BY <1>1 DEF Ordered, Preceded
<1>4. AloneKnowsAll'
  <2>1. SUFFICES ASSUME ~crossed
                 PROVE  /\ Complete(signed') => contract' = "hieu_luc" /\ k \in Resuming'
                        /\ OpenTries' = {}
                        /\ ~rejecting /\ outgoing = 0
    BY <1>1 DEF AloneKnowsAll, Complete
  <2>2. k \in OpenTries
    BY <1>1 DEF OpenTries
  <2>3. OpenTries = {k} /\ ~rejecting /\ outgoing = 0 /\ signing[k].view = signed
    BY <1>1, <2>1, <2>2 DEF AloneKnowsAll
  <2>4. OpenTries' = {}
    BY <1>1, <2>3 DEF OpenTries
  <2>5. Complete(signed') => contract' = "hieu_luc" /\ k \in Resuming'
    BY <1>1, <2>3 DEF Resuming
  <2> QED
    BY <2>3, <2>4, <2>5
<1> QED
  BY <1>2, <1>3, <1>4

\* A signature that was rolled back, or the task that resumes the run, or its loss.
LEMMA EndKeeps ==
  ASSUME SigningInv, NEW k \in Tries, SignBreaks(k) \/ ResumeRun(k) \/ ResumeLost(k)
  PROVE  SigningInv'
<1> USE DEF SigningInv
<1>1. /\ signing'[k].at \in {"lost", "done"}
      /\ \A j \in Tries \ {k} : signing'[j] = signing[j]
      /\ UNCHANGED <<contract, signed, outgoing, rejecting, crossed>>
  <2>1. \E a \in {"lost", "done"} : signing' = [signing EXCEPT ![k].at = a]
    BY DEF SignBreaks, ResumeRun, ResumeLost
  <2>2. UNCHANGED <<contract, signed, outgoing, rejecting, crossed>>
    BY DEF SignBreaks, ResumeRun, ResumeLost
  <2> QED
    BY <2>1, <2>2 DEF SigningTypeOK, TryType
<1>2. SigningTypeOK'
  <2>1. signing' \in [Tries -> TryType]
    BY DEF SignBreaks, ResumeRun, ResumeLost, SigningTypeOK, TryType
  <2>2. resumed' \in BOOLEAN
    BY DEF SignBreaks, ResumeRun, ResumeLost, SigningTypeOK
  <2> QED
    BY <1>1, <2>1, <2>2 DEF SigningTypeOK
<1>3. Ordered'
  BY <1>1 DEF Ordered, Preceded
<1>4. AloneKnowsAll'
  <2>1. OpenTries' \subseteq OpenTries \ {k}
    BY <1>1 DEF OpenTries
  <2>2. (resumed \/ Resuming \cup Lost # {}) => (resumed' \/ Resuming' \cup Lost' # {})
    <3>1. CASE SignBreaks(k)
      <4>1. resumed' = resumed /\ Resuming' = Resuming /\ Lost' = Lost
        BY <1>1, <3>1 DEF SignBreaks, OpenTries, Resuming, Lost, SigningTypeOK
      <4> QED
        BY <4>1
    <3>2. CASE ResumeRun(k)
      BY <3>2 DEF ResumeRun
    <3>3. CASE ResumeLost(k)
      <4>1. k \in Lost'
        BY <3>3 DEF ResumeLost, Lost, SigningTypeOK
      <4> QED
        BY <4>1
    <3> QED
      BY <3>1, <3>2, <3>3
  <2>3. Complete(signed') <=> Complete(signed)
    BY <1>1 DEF Complete
  <2>4. \A j \in OpenTries' : signing'[j] = signing[j]
    BY <1>1, <2>1 DEF OpenTries
  <2> QED
    BY <1>1, <2>1, <2>2, <2>3, <2>4 DEF AloneKnowsAll
<1> QED
  BY <1>2, <1>3, <1>4

LEMMA OthersKeep ==
  ASSUME SigningInv,
         \/ BeginSend \/ CommitSend \/ SendBreaks
         \/ BeginReject \/ CommitReject \/ RejectBreaks
  PROVE  SigningInv'
<1> USE DEF SigningInv, SigningTypeOK
<1>1. UNCHANGED <<signed, signing, resumed>>
  BY DEF BeginSend, CommitSend, SendBreaks, BeginReject, CommitReject, RejectBreaks
<1>2. Ordered'
  BY <1>1 DEF Ordered, Preceded
<1>3. /\ OpenTries' = OpenTries /\ Resuming' = Resuming /\ Lost' = Lost
      /\ Complete(signed') <=> Complete(signed)
  BY <1>1 DEF OpenTries, Resuming, Lost, Complete
\* A transaction begins: either another is open, or it is the only one.
<1>4. CASE BeginSend \/ BeginReject
  <2>1. /\ contract' = contract /\ rejecting' \in BOOLEAN
        /\ \/ contract = "nhap" /\ outgoing' = outgoing + 1 /\ rejecting' = rejecting
           \/ contract = "cho_ky" /\ outgoing' = outgoing
    BY <1>4 DEF BeginSend, BeginReject
  <2>2. crossed' = (crossed \/ rejecting \/ outgoing > 0 \/ OpenTries # {})
    BY <1>4, Zenon DEF BeginSend, BeginReject, Meets
  <2>3. AloneKnowsAll'
    <3>1. SUFFICES ASSUME ~crossed'
                   PROVE  AloneKnowsAll'
      BY DEF AloneKnowsAll
    <3>2. ~crossed /\ ~rejecting /\ ~(outgoing > 0) /\ OpenTries = {}
      BY <2>2, <3>1, Zenon
    <3>3. outgoing = 0
      BY <3>2
    <3> QED
      BY <1>1, <1>3, <2>1, <3>2, <3>3 DEF AloneKnowsAll
  <2>4. outgoing' \in Nat
    BY <2>1
  <2>5. crossed' \in BOOLEAN
    BY <2>2
  <2> QED
    BY <1>1, <1>2, <2>1, <2>3, <2>4, <2>5
<1>5. CASE CommitSend \/ SendBreaks \/ CommitReject \/ RejectBreaks
  <2>1. /\ crossed' = crossed
        /\ \/ outgoing > 0 /\ outgoing' = outgoing - 1 /\ rejecting' = rejecting
              /\ contract' \in {"cho_ky", contract}
           \/ rejecting /\ ~rejecting' /\ outgoing' = outgoing
              /\ contract' \in {"tu_choi", contract}
    BY <1>5 DEF CommitSend, SendBreaks, CommitReject, RejectBreaks
  <2>2. /\ contract' \in {"nhap", "cho_ky", "hieu_luc", "tu_choi"}
        /\ outgoing' \in Nat
    BY <2>1
  <2>3. rejecting' \in BOOLEAN
    BY <1>5 DEF CommitSend, SendBreaks, CommitReject, RejectBreaks
  <2>4. AloneKnowsAll'
    BY <1>1, <1>3, <2>1 DEF AloneKnowsAll
  <2> QED
    BY <1>1, <1>2, <2>1, <2>2, <2>3, <2>4
<1> QED
  BY <1>4, <1>5

LEMMA SigningStep == SigningInv /\ [SigningNext]_signingVars => SigningInv'
<1> SUFFICES ASSUME SigningInv, [SigningNext]_signingVars
             PROVE  SigningInv'
  OBVIOUS
<1>1. CASE UNCHANGED signingVars
  BY <1>1 DEF SigningInv, SigningTypeOK, Ordered, Preceded, AloneKnowsAll, OpenTries,
              Resuming, Lost, Complete, signingVars
<1>2. CASE SigningNext
  BY <1>2, BeginSignKeeps, ReadKeeps, CommitKeeps, EndKeeps, OthersKeep DEF SigningNext
<1> QED
  BY <1>1, <1>2

\* Parties sign in their order even if their requests cross: whoever may sign has
\* found all who come before, and signatures are never taken back.
THEOREM InOrder == SigningSpec => []SignedInOrder
<1>1. SigningInv => SignedInOrder
  BY DEF SigningInv, Ordered, Preceded, SignedInOrder
<1> QED
  BY <1>1, SigningStart, SigningStep, PTL DEF SigningSpec

\* The signature that completes a contract puts it into effect, and the run that
\* waits is resumed, or the task that would have died with its worker, unless two
\* transactions were open together: one that is alone has every signature in its
\* copy, and its contract was still waiting; and no late sending overwrites it.
THEOREM CompletesOnce == SigningSpec => []CompleteTakesEffect
<1>1. SigningInv => CompleteTakesEffect
  BY DEF SigningInv, AloneKnowsAll, CompleteTakesEffect
<1> QED
  BY <1>1, SigningStart, SigningStep, PTL DEF SigningSpec

-----------------------------------------------------------------------------
(* The counter of a quota.                                                 *)

CallType == [at : {"idle", "lock", "add", "done"}, win : Windows,
             found : BOOLEAN, seen : Nat]

QuotaTypeOK ==
  /\ now \in Windows
  /\ call \in [Callers -> CallType]
  /\ usage \in [Windows -> Nat] /\ rows \subseteq Windows
  /\ lock \in [Windows -> SUBSET Callers] /\ passed \in [Windows -> SUBSET Callers]
  /\ raced \subseteq Windows

\* The call c is about to compare and add in window w.
Adds(c, w) == call[c].at = "add" /\ call[c].win = w

\* What was added to the counter is what was let through: nothing is lost, in
\* any window, and a call that was let through is at its end.
CounterExact ==
  \A w \in Windows :
    /\ IsFiniteSet(Units(passed[w])) /\ usage[w] = Total(passed[w])
    /\ \A c \in passed[w] : call[c].at = "done"
    /\ w \notin rows => usage[w] = 0 /\ lock[w] = {}

\* A call that found the row holds it, and what it saw is still in it.
FoundIsHeld ==
  \A c \in Callers, w \in Windows :
    Adds(c, w) /\ call[c].found => lock[w] = {c} /\ call[c].seen = usage[w]

\* A call that found no row is alone in the window, which is still without one,
\* unless the window is raced.
AloneWithout ==
  \A c \in Callers, w \in Windows :
    Adds(c, w) /\ ~call[c].found =>
      /\ call[c].seen = 0
      /\ w \notin raced => /\ w \notin rows
                           /\ \A d \in Callers : Adds(d, w) => d = c

CounterBounded == \A w \in Windows \ raced : usage[w] <= MaxValue

QuotaInv == QuotaTypeOK /\ CounterExact /\ FoundIsHeld /\ AloneWithout /\ CounterBounded

\* One more caller takes its amount more.
LEMMA TotalAdds ==
  ASSUME NEW S \in SUBSET Callers, NEW c \in Callers \ S, IsFiniteSet(Units(S))
  PROVE  /\ IsFiniteSet(Units(S \cup {c}))
         /\ Total(S \cup {c}) = Total(S) + Amount[c]
<1> DEFINE T == {c} \X (1..Amount[c])
<1>1. Amount[c] \in Nat
  BY QuotaAssumption
<1>2. IsFiniteSet(T) /\ Cardinality(T) = Amount[c]
  <2>1. IsFiniteSet({c}) /\ Cardinality({c}) = 1
    BY FS_Singleton
  <2>2. IsFiniteSet(1..Amount[c]) /\ Cardinality(1..Amount[c]) = Amount[c]
    BY <1>1, FS_Interval
  <2>3. /\ IsFiniteSet({c} \X (1..Amount[c]))
        /\ Cardinality({c} \X (1..Amount[c]))
             = Cardinality({c}) * Cardinality(1..Amount[c])
    BY <2>1, <2>2, FS_Product, Zenon
  <2> QED
    BY <1>1, <2>1, <2>2, <2>3
<1>3. Units(S \cup {c}) = Units(S) \cup T
  BY DEF Units
<1>4. Units(S) \cap T = {}
  BY DEF Units
<1>5. Cardinality(Units(S)) \in Nat /\ Cardinality({}) = 0
  BY FS_CardinalityType, FS_EmptySet
<1> HIDE DEF T
<1>6. /\ IsFiniteSet(Units(S) \cup T)
      /\ Cardinality(Units(S) \cup T)
           = Cardinality(Units(S)) + Cardinality(T) - Cardinality(Units(S) \cap T)
  BY <1>2, FS_Union
<1>7. Cardinality(Units(S \cup {c})) = Cardinality(Units(S)) + Amount[c]
  <2>1. Cardinality(Units(S) \cup T) = Cardinality(Units(S)) + Amount[c] - 0
    BY <1>2, <1>4, <1>5, <1>6
  <2>2. Cardinality(Units(S \cup {c})) = Cardinality(Units(S) \cup T)
    BY <1>3
  <2> HIDE DEF Units
  <2> QED
    BY <1>1, <1>5, <2>1, <2>2
<1> QED
  BY <1>3, <1>6, <1>7 DEF Total

\* Nothing is added, and nobody who was let through begins anew.
LEMMA CounterStays ==
  ASSUME CounterExact, UNCHANGED <<usage, rows, passed>>,
         \A w \in Windows : /\ \A c \in passed[w] : call'[c].at = "done"
                            /\ w \notin rows => lock'[w] = {}
  PROVE  CounterExact'
<1>1. \A w \in Windows : /\ IsFiniteSet(Units(passed'[w]))
                         /\ usage'[w] = Total(passed'[w])
  BY DEF CounterExact
<1>2. \A w \in Windows : /\ \A c \in passed'[w] : call'[c].at = "done"
                         /\ w \notin rows' => usage'[w] = 0 /\ lock'[w] = {}
  BY DEF CounterExact
<1> QED
  BY <1>1, <1>2 DEF CounterExact, Total, Units

LEMMA QuotaStart == QuotaInit => QuotaInv
<1> SUFFICES ASSUME QuotaInit PROVE QuotaInv
  OBVIOUS
<1>1. Units({}) = {} /\ IsFiniteSet({}) /\ Cardinality({}) = 0
  BY FS_EmptySet DEF Units
<1>2. \A w \in Windows : passed[w] = {} /\ usage[w] = 0 /\ lock[w] = {}
  BY DEF QuotaInit
<1>3. CounterExact
  BY <1>1, <1>2 DEF CounterExact, Total
<1>4. \A c \in Callers : call[c].at = "idle"
  BY DEF QuotaInit
<1>5. FoundIsHeld /\ AloneWithout
  BY <1>4 DEF FoundIsHeld, AloneWithout, Adds
<1>6. CounterBounded
  BY <1>2, QuotaAssumption DEF CounterBounded
<1>7. QuotaTypeOK
  BY DEF QuotaInit, QuotaTypeOK, CallType
<1> QED
  BY <1>3, <1>5, <1>6, <1>7 DEF QuotaInv

\* A call leaves without having added.
LEMMA LeavingKeeps ==
  ASSUME QuotaInv, NEW c \in Callers, EndCall(c, "done"), call[c].at # "done",
         UNCHANGED <<now, usage, rows, passed, raced>>
  PROVE  QuotaInv'
<1> USE DEF QuotaInv
<1> DEFINE w == call[c].win
<1>1. /\ w \in Windows /\ lock' = [lock EXCEPT ![w] = @ \ {c}]
      /\ call' = [call EXCEPT ![c].at = "done"]
  BY DEF EndCall, QuotaTypeOK, CallType
<1>2. /\ \A d \in Callers \ {c} : call'[d] = call[d]
      /\ call'[c].at = "done"
      /\ call' \in [Callers -> CallType]
  BY <1>1 DEF QuotaTypeOK, CallType
<1>3. /\ lock' \in [Windows -> SUBSET Callers]
      /\ \A v \in Windows : lock[v] \ {c} \subseteq lock'[v] /\ lock'[v] \subseteq lock[v]
  BY <1>1 DEF QuotaTypeOK, CallType
<1>4. QuotaTypeOK'
  BY <1>2, <1>3 DEF QuotaTypeOK
<1>5. CounterExact'
  <2>1. \A v \in Windows : \A d \in passed[v] : call'[d].at = "done"
    BY <1>2 DEF CounterExact, QuotaTypeOK
  <2>2. \A v \in Windows : v \notin rows => lock'[v] = {}
    BY <1>3 DEF CounterExact
  <2> QED
    BY <2>1, <2>2, CounterStays
<1>6. \A d \in Callers, v \in Windows :
        Adds(d, v)' => d # c /\ Adds(d, v) /\ call'[d] = call[d]
  BY <1>2 DEF Adds
<1>7. FoundIsHeld'
  BY <1>3, <1>6 DEF FoundIsHeld
<1>8. AloneWithout'
  BY <1>6 DEF AloneWithout
<1>9. CounterBounded'
  BY DEF CounterBounded
<1> QED
  BY <1>4, <1>5, <1>7, <1>8, <1>9

\* The call r, when it has looked for the row.
NowAdds(r, found, seen) ==
  [r EXCEPT !.at = "add", !.found = found, !.seen = seen]

LEMMA NowAddsTyped ==
  ASSUME NEW r \in CallType, NEW found \in BOOLEAN, NEW seen \in Nat
  PROVE  NowAdds(r, found, seen) \in CallType
  BY DEF CallType, NowAdds

LEMMA LockingKeeps ==
  ASSUME QuotaInv, NEW c \in Callers, LockUsage(c)
  PROVE  QuotaInv'
<1> USE DEF QuotaInv
<1> DEFINE w == call[c].win
<1>1. /\ w \in Windows /\ call[c].at = "lock" /\ lock[w] = {} /\ usage[w] \in Nat
      /\ call' = [call EXCEPT ![c].at = "add", ![c].found = w \in rows,
                              ![c].seen = usage[w]]
      /\ lock' = [lock EXCEPT ![w] = IF w \in rows THEN {c} ELSE {}]
      /\ UNCHANGED <<now, usage, rows, passed>>
      /\ raced' = IF w \notin rows /\ \E d \in Callers \ {c} : Adds(d, w)
                  THEN raced \cup {w} ELSE raced
  BY DEF LockUsage, HasRead, QuotaTypeOK, CallType, Adds
<1>2. /\ \A d \in Callers \ {c} : call'[d] = call[d]
      /\ call'[c].at = "add" /\ call'[c].win = w /\ call'[c].seen = usage[w]
      /\ call'[c].found <=> w \in rows
      /\ call' \in [Callers -> CallType]
  <2> DEFINE new == NowAdds(call[c], w \in rows, usage[w])
  <2>1. call \in [Callers -> CallType] /\ call[c] \in CallType
    BY DEF QuotaTypeOK, CallType
  <2>2. new \in CallType
    <3>1. (w \in rows) \in BOOLEAN
      OBVIOUS
    <3> QED
      BY <1>1, <2>1, <3>1, NowAddsTyped, Zenon
  <2>3. /\ new.at = "add" /\ new.win = w /\ new.seen = usage[w]
        /\ new.found <=> w \in rows
    BY <1>1, <2>1 DEF NowAdds, CallType
  <2>4. call' = [call EXCEPT ![c] = new]
    BY <1>1, <2>1 DEF NowAdds, CallType
  <2> HIDE DEF new
  <2>5. call'[c] = new /\ call' \in [Callers -> CallType]
        /\ \A d \in Callers \ {c} : call'[d] = call[d]
    BY <2>1, <2>2, <2>4
  <2> QED
    BY <2>3, <2>5 DEF CallType
<1>3. /\ lock' \in [Windows -> SUBSET Callers]
      /\ \A v \in Windows \ {w} : lock'[v] = lock[v]
      /\ lock'[w] = IF w \in rows THEN {c} ELSE {}
  BY <1>1 DEF QuotaTypeOK, CallType
<1> HIDE DEF w
<1>4. raced' \subseteq Windows /\ raced \subseteq raced'
  BY <1>1 DEF QuotaTypeOK, CallType
<1>5. QuotaTypeOK'
  BY <1>1, <1>2, <1>3, <1>4 DEF QuotaTypeOK
<1>6. CounterExact'
  <2>1. \A v \in Windows : c \notin passed[v]
    BY <1>1 DEF CounterExact
  <2> QED
    BY <1>1, <1>2, <1>3, <2>1, CounterStays DEF CounterExact, QuotaTypeOK
<1>7. /\ \A d \in Callers \ {c}, v \in Windows : Adds(d, v)' <=> Adds(d, v)
      /\ \A v \in Windows : Adds(c, v)' <=> v = w
  BY <1>2 DEF Adds
<1>8. FoundIsHeld'
  BY <1>1, <1>2, <1>3, <1>7 DEF FoundIsHeld
<1>9. AloneWithout'
  <2>1. w \notin rows => usage[w] = 0
    BY <1>1 DEF CounterExact
  <2>2. ASSUME NEW v \in Windows, Adds(c, v)', ~call'[c].found
        PROVE  /\ call'[c].seen = 0
               /\ v \notin raced' => /\ v \notin rows'
                                     /\ \A d \in Callers : Adds(d, v)' => d = c
    BY <1>1, <1>2, <1>7, <2>1, <2>2
  <2>3. ASSUME NEW d \in Callers \ {c}, NEW v \in Windows, Adds(d, v)', ~call'[d].found
        PROVE  /\ call'[d].seen = 0
               /\ v \notin raced' => /\ v \notin rows'
                                     /\ \A e \in Callers : Adds(e, v)' => e = d
    <3>1. /\ Adds(d, v) /\ ~call[d].found /\ call'[d] = call[d] /\ call[d].seen = 0
          /\ v \notin raced => /\ v \notin rows
                               /\ \A e \in Callers : Adds(e, v) => e = d
      BY <1>2, <1>7, <2>3 DEF AloneWithout
    <3>2. v \notin raced' => v # w
      BY <1>1, <1>4, <3>1
    <3> QED
      BY <1>1, <1>4, <1>7, <3>1, <3>2
  <2> QED
    BY <2>2, <2>3 DEF AloneWithout
<1>10. CounterBounded'
  BY <1>1, <1>4 DEF CounterBounded
<1> QED
  BY <1>5, <1>6, <1>8, <1>9, <1>10

LEMMA ConsumingKeeps ==
  ASSUME QuotaInv, NEW c \in Callers, Consume(c)
  PROVE  QuotaInv'
<1> USE DEF QuotaInv
<1> DEFINE w == call[c].win
<1>1. /\ w \in Windows /\ Adds(c, w) /\ lock[w] \subseteq {c}
      /\ call[c].seen + Amount[c] <= MaxValue
      /\ usage' = [usage EXCEPT ![w] = IF call[c].found THEN call[c].seen + Amount[c]
                                                        ELSE @ + Amount[c]]
      /\ rows' = rows \cup {w} /\ passed' = [passed EXCEPT ![w] = @ \cup {c}]
      /\ lock' = [lock EXCEPT ![w] = @ \ {c}]
      /\ call' = [call EXCEPT ![c].at = "done"] /\ UNCHANGED <<now, raced>>
  BY DEF Consume, EndCall, QuotaTypeOK, CallType, Adds
<1>2. /\ \A d \in Callers \ {c} : call'[d] = call[d]
      /\ call'[c].at = "done" /\ call[c].at = "add"
      /\ call' \in [Callers -> CallType]
  BY <1>1 DEF QuotaTypeOK, CallType, Adds
<1> HIDE DEF w
<1>3. /\ Amount[c] \in Nat /\ usage[w] \in Nat /\ passed[w] \in SUBSET Callers
      /\ call[c].found => call[c].seen = usage[w]
      /\ ~call[c].found => call[c].seen = 0
      /\ ~call[c].found /\ w \notin raced => usage[w] = 0
      /\ c \notin passed[w]
  BY <1>1, <1>2, QuotaAssumption
     DEF FoundIsHeld, AloneWithout, CounterExact, QuotaTypeOK
<1>4. /\ usage' \in [Windows -> Nat] /\ usage'[w] = usage[w] + Amount[c]
      /\ passed' \in [Windows -> SUBSET Callers] /\ passed'[w] = passed[w] \cup {c}
      /\ lock' \in [Windows -> SUBSET Callers] /\ lock'[w] = {}
      /\ \A v \in Windows \ {w} : /\ usage'[v] = usage[v] /\ passed'[v] = passed[v]
                                  /\ lock'[v] = lock[v]
  BY <1>1, <1>3 DEF QuotaTypeOK
<1>5. QuotaTypeOK'
  BY <1>1, <1>2, <1>4 DEF QuotaTypeOK
<1>6. CounterExact'
  <2>1. IsFiniteSet(Units(passed[w])) /\ usage[w] = Total(passed[w])
    BY <1>1 DEF CounterExact
  <2>2. /\ IsFiniteSet(Units(passed'[w])) /\ usage'[w] = Total(passed'[w])
    BY <1>3, <1>4, <2>1, TotalAdds
  <2>3. \A v \in Windows : IsFiniteSet(Units(passed'[v])) /\ usage'[v] = Total(passed'[v])
    BY <1>4, <2>2 DEF CounterExact
  <2>4. \A v \in Windows : \A d \in passed'[v] : call'[d].at = "done"
    BY <1>2, <1>4 DEF CounterExact, QuotaTypeOK
  <2>5. \A v \in Windows : v \notin rows' => usage'[v] = 0 /\ lock'[v] = {}
    BY <1>1, <1>4 DEF CounterExact
  <2> QED
    BY <2>3, <2>4, <2>5 DEF CounterExact, Total, Units
<1>7. \A d \in Callers, v \in Windows :
        Adds(d, v)' => d # c /\ Adds(d, v) /\ call'[d] = call[d]
  BY <1>2 DEF Adds
<1>8. FoundIsHeld'
  <2> SUFFICES ASSUME NEW d \in Callers, NEW v \in Windows, Adds(d, v)', call'[d].found
               PROVE  lock'[v] = {d} /\ call'[d].seen = usage'[v]
    BY DEF FoundIsHeld
  <2>1. /\ d # c /\ lock[v] = {d} /\ call'[d].seen = usage[v]
    BY <1>7 DEF FoundIsHeld
  <2>2. v # w
    BY <1>1, <2>1
  <2> QED
    BY <1>4, <2>1, <2>2
<1>9. AloneWithout'
  <2> SUFFICES ASSUME NEW d \in Callers, NEW v \in Windows, Adds(d, v)', ~call'[d].found
               PROVE  /\ call'[d].seen = 0
                      /\ v \notin raced' => /\ v \notin rows'
                                            /\ \A e \in Callers : Adds(e, v)' => e = d
    BY DEF AloneWithout
  <2>1. /\ d # c /\ Adds(d, v) /\ ~call[d].found /\ call'[d].seen = 0
        /\ v \notin raced => /\ v \notin rows
                             /\ \A e \in Callers : Adds(e, v) => e = d
    BY <1>7 DEF AloneWithout
  <2>2. v \notin raced => v # w
    BY <1>1, <2>1
  <2> QED
    BY <1>1, <1>7, <2>1, <2>2
<1>10. CounterBounded'
  BY <1>1, <1>3, <1>4 DEF CounterBounded
<1> QED
  BY <1>5, <1>6, <1>8, <1>9, <1>10

LEMMA QuotaKeeps == QuotaInv /\ [QuotaNext]_quotaVars => QuotaInv'
<1> SUFFICES ASSUME QuotaInv, [QuotaNext]_quotaVars PROVE QuotaInv'
  OBVIOUS
<1> USE DEF QuotaInv
<1>1. CASE UNCHANGED quotaVars \/ NextWindow
  <2>1. now' \in Windows /\ UNCHANGED <<call, usage, rows, lock, passed, raced>>
    BY <1>1 DEF quotaVars, NextWindow, QuotaTypeOK
  <2>2. CounterExact'
    BY <2>1, CounterStays DEF CounterExact
  <2>3. QuotaTypeOK' /\ CounterBounded'
    BY <2>1 DEF QuotaTypeOK, CounterBounded
  <2>4. FoundIsHeld' /\ AloneWithout'
    BY <2>1 DEF FoundIsHeld, AloneWithout, Adds
  <2> QED
    BY <2>2, <2>3, <2>4
<1>2. ASSUME NEW c \in Callers, ReadQuota(c)
      PROVE  QuotaInv'
  <2>1. /\ \A d \in Callers \ {c} : call'[d] = call[d]
        /\ call'[c].at = "lock" /\ call[c].at = "idle"
        /\ call' \in [Callers -> CallType]
        /\ UNCHANGED <<now, usage, rows, lock, passed, raced>>
    BY <1>2 DEF ReadQuota, QuotaTypeOK, CallType
  <2>2. \A d \in Callers, v \in Windows :
          Adds(d, v)' => d # c /\ Adds(d, v) /\ call'[d] = call[d]
    BY <2>1 DEF Adds
  <2>3. CounterExact'
    BY <2>1, CounterStays DEF CounterExact, QuotaTypeOK
  <2>4. QuotaTypeOK' /\ CounterBounded'
    BY <2>1 DEF QuotaTypeOK, CounterBounded
  <2>5. FoundIsHeld' /\ AloneWithout'
    BY <2>1, <2>2 DEF FoundIsHeld, AloneWithout
  <2> QED
    BY <2>3, <2>4, <2>5
<1>3. ASSUME NEW c \in Callers, Refuse(c) \/ QuotaBreaks(c)
      PROVE  QuotaInv'
  BY <1>3, LeavingKeeps DEF Refuse, QuotaBreaks
<1> QED
  BY <1>1, <1>2, <1>3, LockingKeeps, ConsumingKeeps DEF QuotaNext

LEMMA QuotaCorrect == QuotaSpec => []QuotaInv
  BY QuotaStart, QuotaKeeps, PTL DEF QuotaSpec

\* What the counter lets through in a window stays within the limit, for any
\* number of calls, windows, amounts and broken transactions, unless two calls
\* opened the window together.
THEOREM WithinQuota == QuotaSpec => []PassedWithinQuota
<1>1. QuotaInv => PassedWithinQuota
  BY DEF QuotaInv, CounterExact, CounterBounded, PassedWithinQuota
<1> QED
  BY <1>1, QuotaCorrect, PTL

\* No call that was let through is missing from the counter, and none that was
\* refused or broke off is in it, in any window: not even in one that two calls
\* opened together, where the limit may be passed.
THEOREM CountsWhatPasses == QuotaSpec => []CounterExact
<1>1. QuotaInv => CounterExact
  BY DEF QuotaInv
<1> QED
  BY <1>1, QuotaCorrect, PTL
==============================================================================
