------------------------------ MODULE MailOutbox ------------------------------
(***************************************************************************)
(* The outbox of e-mails: each process of the notification service claims  *)
(* a batch of pending rows, in a transaction that ends with the claim, and *)
(* then sends the rows one by one and marks each.  The locks are gone by   *)
(* then: a row that another process has claimed may be claimed again.      *)
(*                                                                         *)
(* Time is the number of seconds since the last attempt as far as it       *)
(* matters: a row waits, or its backoff is over.                           *)
(***************************************************************************)
EXTENDS Naturals, FiniteSets

CONSTANTS
  Mails, Pollers,
  MaxAttempts,  \* attempts of a row before it is dead
  MaxDeaths     \* bound: pollers that die, marks that are lost

ASSUME MailAssumption == MaxAttempts \in Nat \ {0} /\ MaxDeaths \in Nat

VARIABLES
  mail,     \* per row [status, attempts, due]
  batch,    \* per poller the rows of its batch, with the attempts it has read
  sending,  \* per poller the row on its way, and how the SMTP server answered
  deaths,
  \* History, read by the properties only:
  sends,    \* per row how often the SMTP server took it
  doubled   \* rows claimed twice, or sent and then not marked

mailVars == <<mail, batch, sending, deaths, sends, doubled>>
NoMail   == [mail |-> {}, answer |-> "none"]

MailInit ==
  /\ mail = [m \in Mails |-> [status |-> "pending", attempts |-> 0, due |-> TRUE]]
  /\ batch = [p \in Pollers |-> <<>>]
  /\ sending = [p \in Pollers |-> NoMail]
  /\ deaths = 0
  /\ sends = [m \in Mails |-> 0] /\ doubled = {}

Claimed(p) == DOMAIN batch[p]
Idle(p)    == Claimed(p) = {}

\* The rows that may be tried now.
Claimable == {m \in Mails : mail[m].status = "pending" /\ mail[m].due
                            /\ mail[m].attempts < MaxAttempts}

\* A batch of any size: LIMIT cuts it, and the rows another claim has locked at
\* this moment are skipped.
Claim(p, ms) ==
  /\ Idle(p) /\ ms # {} /\ ms \subseteq Claimable
  /\ batch' = [batch EXCEPT ![p] = [m \in ms |-> mail[m].attempts]]
  /\ doubled' = doubled \cup {m \in ms : \E q \in Pollers : m \in Claimed(q)}
  /\ UNCHANGED <<mail, sending, deaths, sends>>

\* The SMTP server takes the message, or not; either answer may be an error
\* for the poller.
SendMail(p, m, taken, answer) ==
  /\ m \in Claimed(p) /\ sending[p] = NoMail
  /\ answer = "sent" => taken
  /\ sending' = [sending EXCEPT ![p] = [mail |-> {m}, answer |-> answer]]
  /\ sends' = IF taken /\ sends[m] < 2 THEN [sends EXCEPT ![m] = @ + 1] ELSE sends
  /\ doubled' = IF taken /\ answer = "failed" THEN doubled \cup {m} ELSE doubled
  /\ UNCHANGED <<mail, batch, deaths>>

\* The row is finished with: the next one of the batch follows.
Forget(p, m) ==
  /\ sending' = [sending EXCEPT ![p] = NoMail]
  /\ batch' = [batch EXCEPT ![p] = [n \in Claimed(p) \ {m} |-> batch[p][n]]]

\* Mutant: the time of the sending is marked, and the status is not.
MarkSentAt(p, m) ==
  /\ sending[p] = [mail |-> {m}, answer |-> "sent"]
  /\ mail' = [mail EXCEPT ![m].attempts = @ + 1, ![m].due = FALSE]
  /\ Forget(p, m)
  /\ UNCHANGED <<deaths, sends, doubled>>

MarkSent(p, m) ==
  /\ sending[p] = [mail |-> {m}, answer |-> "sent"]
  /\ mail' = [mail EXCEPT ![m].status = "sent", ![m].attempts = @ + 1, ![m].due = FALSE]
  /\ Forget(p, m)
  /\ UNCHANGED <<deaths, sends, doubled>>

\* The attempts written are those of the claim and one more, whatever the row
\* has by now.
MarkFailure(p, m) ==
  /\ sending[p] = [mail |-> {m}, answer |-> "failed"]
  /\ LET n == batch[p][m] + 1
     IN  mail' = [mail EXCEPT ![m] = [status |-> IF n >= MaxAttempts THEN "dead" ELSE "pending",
                                      attempts |-> n, due |-> FALSE]]
  /\ Forget(p, m)
  /\ UNCHANGED <<deaths, sends, doubled>>

BackoffEnds(m) ==
  /\ mail[m].status = "pending" /\ ~mail[m].due
  /\ mail' = [mail EXCEPT ![m].due = TRUE]
  /\ UNCHANGED <<batch, sending, deaths, sends, doubled>>

\* The process dies, or the mark cannot be written and the batch is given up.
PollerDies(p) ==
  /\ ~Idle(p) /\ deaths < MaxDeaths
  /\ deaths' = deaths + 1
  /\ batch' = [batch EXCEPT ![p] = <<>>]
  /\ sending' = [sending EXCEPT ![p] = NoMail]
  /\ doubled' = doubled \cup sending[p].mail
  /\ UNCHANGED <<mail, sends>>

MailNext ==
  \/ \E p \in Pollers : \/ \E ms \in SUBSET Mails : Claim(p, ms)
                        \/ \E m \in Mails : \/ MarkSent(p, m) \/ MarkFailure(p, m)
                        \/ PollerDies(p)
  \/ \E p \in Pollers, m \in Mails, taken \in BOOLEAN, answer \in {"sent", "failed"} :
        SendMail(p, m, taken, answer)
  \/ \E m \in Mails : BackoffEnds(m)

MailSpec == MailInit /\ [][MailNext]_mailVars

-----------------------------------------------------------------------------
\* A message is sent twice only if two processes claimed its row, its sending
\* ended in an error, or its process died before it was marked.
SentOnce == \A m \in Mails \ doubled : sends[m] <= 1
==============================================================================
