---------------------------- MODULE EventDelivery ----------------------------
(***************************************************************************)
(* Events on their way from a business transaction to the groups that      *)
(* consume them.                                                           *)
(*                                                                         *)
(*   shared/outbox.py               enqueue_event, the publisher loop, and *)
(*                                  mark_processed                         *)
(*   shared/kafka_producer.py       send_event, without the outbox         *)
(*   shared/event_schema.py         raise_or_dlq                           *)
(*   consumers/pipeline_consumer.py group kaori-orchestrator               *)
(*   data_plane/gold/consumer.py    group kaori-gold-aggregator            *)
(*                                                                         *)
(* topic[g] is what group g is subscribed to, as one sequence: its         *)
(* partitions are read by one loop, and consumer.commit() commits the      *)
(* position of all of them at once.                                        *)
(* Kafka itself (assignment of a group's partitions to one of its members, *)
(* positions and committed offsets) is modelled from how the consumers use *)
(* it.                                                                     *)
(***************************************************************************)
EXTENDS Naturals, Sequences, FiniteSets

CONSTANTS
  E,          \* number of events; they are numbered by their created_at
  Keyed,      \* events written to the outbox; the others are sent directly
  Malformed,  \* events that the schema of the consumers rejects
  Spawned,    \* silver.complete: its handlers only start a background task
  Publishers, \* the publisher loops: one in each process of two services
  Batch,      \* batch_size
  Groups,     \* consumer groups
  Gold,       \* those that run the loop of the gold aggregator
  Subscribed, \* Subscribed[g]: the events of the topics g listens to
  Consumers,  \* members of the groups
  GroupOf,    \* GroupOf[c]: the group of consumer c
  NoOne,      \* not a consumer
  Faults,     \* kinds of failure that may happen
  MaxFaults   \* and how many of them, in all

Events == 1..E

ASSUME DeliveryAssumption ==
  /\ E \in Nat
  /\ Keyed \subseteq Events /\ Malformed \subseteq Events
  /\ Spawned \subseteq Events
  /\ Batch \in Nat \ {0}
  /\ Gold \subseteq Groups
  /\ Subscribed \in [Groups -> SUBSET Events]
  /\ GroupOf \in [Consumers -> Groups] /\ NoOne \notin Consumers
  /\ MaxFaults \in Nat

VARIABLES
  \* the producers and the relay
  outbox,    \* event_outbox: "pending" until published_at is committed
  batch,     \* batch[i]: rows publisher i holds locked and has not tried yet
  sent,      \* sent[i]: rows it has marked, in the same open transaction
  \* Kafka
  topic,     \* topic[g]: events of g's topics, in the order of appending
  committed, \* committed[g]: the offset group g has committed
  owner,     \* owner[g]: the member that topic[g] is assigned to
  \* the consumers
  pc,        \* where a consumer's loop is
  pos,       \* its position, while topic[g] is assigned to it
  msg,       \* the event it has in hand
  tasks,     \* tasks[c][e]: background tasks of c for event e
  \* the database, seen from the groups
  processed, \* processed_events, per group
  handled,   \* handled[g][e]: how often group g did the work of e
  parked,    \* events the group wrote to a dead-letter topic
  \* history, read by the properties only
  faults,    \* failures so far
  struck     \* and their kinds

relayVars == <<outbox, batch, sent>>
kafkaVars == <<topic, committed, owner>>
loopVars  == <<pc, pos, msg>>
workVars  == <<processed, handled, parked>>
faultVars == <<faults, struck>>
vars      == <<relayVars, kafkaVars, loopVars, tasks, workVars, faultVars>>

RowStates == {"none", "pending", "published"}
Places    == {"poll", "mark", "handle", "deadletter", "park", "commit",
              "ended", "down"}
NoTasks   == [e \in Events |-> 0]
Up(c)     == pc[c] \notin {"down", "ended"}

Init ==
  /\ outbox = [e \in Events |-> "none"]
  /\ batch = [i \in Publishers |-> {}] /\ sent = [i \in Publishers |-> {}]
  /\ topic = [g \in Groups |-> <<>>]
  /\ committed = [g \in Groups |-> 0]
  /\ owner = [g \in Groups |-> NoOne]
  /\ pc = [c \in Consumers |-> "poll"] /\ pos = [c \in Consumers |-> 0]
  /\ msg = [c \in Consumers |-> 0] /\ tasks = [c \in Consumers |-> NoTasks]
  /\ processed = [g \in Groups |-> {}]
  /\ handled = [g \in Groups |-> NoTasks] /\ parked = [g \in Groups |-> {}]
  /\ faults = 0 /\ struck = {}

\* A message reaches every group that is subscribed to its topic.
Append1(e) == [g \in Groups |-> IF e \in Subscribed[g] THEN Append(topic[g], e)
                                                      ELSE topic[g]]

Fault(f) ==
  /\ f \in Faults /\ faults < MaxFaults
  /\ faults' = faults + 1 /\ struck' = struck \cup {f}

------------------------------------------------------------------------------
(* The producers. *)

\* The business transaction commits, with the outbox row it wrote; or without
\* one, and then send_event is still to be called.
CommitBusiness(e) ==
  /\ outbox[e] = "none"
  /\ outbox' = [outbox EXCEPT ![e] = "pending"]
  /\ UNCHANGED <<batch, sent, kafkaVars, loopVars, tasks, workVars, faultVars>>

\* send_event: without a key.
SendDirect(e) ==
  /\ e \notin Keyed /\ outbox[e] = "pending"
  /\ outbox' = [outbox EXCEPT ![e] = "published"]
  /\ topic' = Append1(e)
  /\ UNCHANGED <<batch, sent, committed, owner, loopVars, tasks, workVars,
                 faultVars>>

\* The send fails and is swallowed, or the process dies before it.
LoseDirect(e) ==
  /\ e \notin Keyed /\ outbox[e] = "pending"
  /\ Fault("direct")
  /\ outbox' = [outbox EXCEPT ![e] = "published"]
  /\ UNCHANGED <<batch, sent, kafkaVars, loopVars, tasks, workVars>>

------------------------------------------------------------------------------
(* The publisher: one transaction for each batch. *)

Idle(i) == batch[i] = {} /\ sent[i] = {}

\* Rows that the SELECT ... FOR UPDATE SKIP LOCKED of a publisher may return.
Free == {e \in Keyed : /\ outbox[e] = "pending"
                       /\ \A i \in Publishers : e \notin batch[i] \cup sent[i]}

Oldest(S) == {e \in S : Cardinality({f \in S : f < e}) < Batch}

\* Mutant: without FOR UPDATE SKIP LOCKED.
ClaimUnlocked(i) ==
  /\ Idle(i)
  /\ \E e \in Keyed : outbox[e] = "pending"
  /\ batch' = [batch EXCEPT ![i] = Oldest({e \in Keyed : outbox[e] = "pending"})]
  /\ UNCHANGED <<outbox, sent, kafkaVars, loopVars, tasks, workVars, faultVars>>

Claim(i) ==
  /\ Idle(i) /\ Free # {}
  /\ batch' = [batch EXCEPT ![i] = Oldest(Free)]
  /\ UNCHANGED <<outbox, sent, kafkaVars, loopVars, tasks, workVars, faultVars>>

NextOf(i, e) == e \in batch[i] /\ \A f \in batch[i] : e <= f

Send(i, e) ==
  /\ NextOf(i, e)
  /\ topic' = Append1(e)
  /\ batch' = [batch EXCEPT ![i] = @ \ {e}]
  /\ sent' = [sent EXCEPT ![i] = @ \cup {e}]
  /\ UNCHANGED <<outbox, committed, owner, loopVars, tasks, workVars, faultVars>>

\* Mutant: the row is marked published although the send raised.
SendFailsMarked(i, e) ==
  /\ NextOf(i, e)
  /\ Fault("send")
  /\ batch' = [batch EXCEPT ![i] = @ \ {e}]
  /\ sent' = [sent EXCEPT ![i] = @ \cup {e}]
  /\ UNCHANGED <<outbox, kafkaVars, loopVars, tasks, workVars>>

\* The send raises: the row stays pending, the rest of the batch is tried.
\* The message may have got through all the same (the answer was lost).
SendFails(i, e) ==
  /\ NextOf(i, e)
  /\ Fault("send")
  /\ topic' \in {topic, Append1(e)}
  /\ batch' = [batch EXCEPT ![i] = @ \ {e}]
  /\ UNCHANGED <<outbox, sent, committed, owner, loopVars, tasks, workVars>>

\* The transaction commits, and with it every published_at of the batch.
EndBatch(i) ==
  /\ batch[i] = {} /\ sent[i] # {}
  /\ outbox' = [e \in Events |-> IF e \in sent[i] THEN "published"
                                                  ELSE outbox[e]]
  /\ sent' = [sent EXCEPT ![i] = {}]
  /\ UNCHANGED <<batch, kafkaVars, loopVars, tasks, workVars, faultVars>>

\* The publisher is cancelled or dies, or its connection does: what it sent
\* has been sent, what it marked is rolled back.
RelayDies(i) ==
  /\ ~Idle(i)
  /\ Fault("relay")
  /\ batch' = [batch EXCEPT ![i] = {}] /\ sent' = [sent EXCEPT ![i] = {}]
  /\ UNCHANGED <<outbox, kafkaVars, loopVars, tasks, workVars>>

------------------------------------------------------------------------------
(* Kafka: each group's topic is assigned to one live member, which resumes   *)
(* at the offset the group has committed ('earliest' when there is none).    *)

\* Mutant: auto_offset_reset = 'latest'.
AssignLatest(g, c) ==
  /\ owner[g] = NoOne /\ GroupOf[c] = g /\ Up(c)
  /\ owner' = [owner EXCEPT ![g] = c]
  /\ pos' = [pos EXCEPT ![c] = IF committed[g] = 0 THEN Len(topic[g])
                                                   ELSE committed[g]]
  /\ UNCHANGED <<relayVars, topic, committed, pc, msg, tasks, workVars,
                 faultVars>>

Assign(g, c) ==
  /\ owner[g] = NoOne /\ GroupOf[c] = g /\ Up(c)
  /\ owner' = [owner EXCEPT ![g] = c]
  /\ pos' = [pos EXCEPT ![c] = committed[g]]
  /\ UNCHANGED <<relayVars, topic, committed, pc, msg, tasks, workVars,
                 faultVars>>

Release(c) ==
  /\ owner' = [g \in Groups |-> IF owner[g] = c THEN NoOne ELSE owner[g]]
  /\ pos' = [pos EXCEPT ![c] = 0]

\* A rebalance, while the member may be in the middle of a message.
Revoke(g) ==
  /\ owner[g] # NoOne
  /\ Fault("revoke")
  /\ Release(owner[g])
  /\ UNCHANGED <<relayVars, topic, committed, pc, msg, tasks, workVars>>

------------------------------------------------------------------------------
(* The loop of a consumer. *)

\* On with the message in hand ...
Go(c, place) == pc' = [pc EXCEPT ![c] = place] /\ UNCHANGED msg

\* ... or done with it.
Done(c, place) ==
  pc' = [pc EXCEPT ![c] = place] /\ msg' = [msg EXCEPT ![c] = 0]

\* Where the loop goes with event e: raise_or_dlq first, then mark_processed,
\* which only an event with a key is asked for.
Validated(e) ==
  IF e \in Malformed THEN "deadletter" ELSE IF e \in Keyed THEN "mark" ELSE "handle"

Poll(c) ==
  LET feed == topic[GroupOf[c]]
  IN  /\ pc[c] = "poll" /\ owner[GroupOf[c]] = c /\ pos[c] < Len(feed)
      /\ msg' = [msg EXCEPT ![c] = feed[pos[c] + 1]]
      /\ pos' = [pos EXCEPT ![c] = @ + 1]
      /\ pc' = [pc EXCEPT ![c] = Validated(feed[pos[c] + 1])]
  /\ UNCHANGED <<relayVars, kafkaVars, tasks, workVars, faultVars>>

Park(c) == parked' = [parked EXCEPT ![GroupOf[c]] = @ \cup {msg[c]}]

\* raise_or_dlq: the offset is committed even if the dead letter is lost.
DeadLetter(c) ==
  /\ pc[c] = "deadletter"
  /\ Park(c) /\ Go(c, "commit")
  /\ UNCHANGED <<relayVars, kafkaVars, pos, tasks, processed, handled,
                 faultVars>>

DeadLetterFails(c) ==
  /\ pc[c] = "deadletter"
  /\ Fault("deadletter")
  /\ Go(c, "commit")
  /\ UNCHANGED <<relayVars, kafkaVars, pos, tasks, workVars>>

\* Mutant: INSERT ... ON CONFLICT DO NOTHING.
MarkBlindly(c) ==
  /\ pc[c] = "mark"
  /\ processed' = [processed EXCEPT ![GroupOf[c]] = @ \cup {msg[c]}]
  /\ Go(c, "handle")
  /\ UNCHANGED <<relayVars, kafkaVars, pos, tasks, handled, parked,
                 faultVars>>

\* mark_processed, in a transaction of its own.
Mark(c) ==
  /\ pc[c] = "mark" /\ msg[c] \notin processed[GroupOf[c]]
  /\ processed' = [processed EXCEPT ![GroupOf[c]] = @ \cup {msg[c]}]
  /\ Go(c, "handle")
  /\ UNCHANGED <<relayVars, kafkaVars, pos, tasks, handled, parked,
                 faultVars>>

SkipDuplicate(c) ==
  /\ pc[c] = "mark" /\ msg[c] \in processed[GroupOf[c]]
  /\ Go(c, "commit")
  /\ UNCHANGED <<relayVars, kafkaVars, pos, tasks, workVars, faultVars>>

Did(g, e) == handled' = [handled EXCEPT ![g][e] = @ + 1]

\* The handler does its work before it returns (bronze.complete: the KPIs) ...
HandleInline(c) ==
  /\ pc[c] = "handle" /\ msg[c] \notin Spawned
  /\ Did(GroupOf[c], msg[c]) /\ Go(c, "commit")
  /\ UNCHANGED <<relayVars, kafkaVars, pos, tasks, processed, parked,
                 faultVars>>

\* ... or leaves it to a task (silver.complete: the analysis, the aggregation).
HandleSpawn(c) ==
  /\ pc[c] = "handle" /\ msg[c] \in Spawned
  /\ tasks' = [tasks EXCEPT ![c][msg[c]] = @ + 1]
  /\ Go(c, "commit")
  /\ UNCHANGED <<relayVars, kafkaVars, pos, workVars, faultVars>>

\* mark_processed or the handler raises: the orchestrator logs it and polls on;
\* the aggregator writes a dead letter first.  A mark whose answer was lost may
\* have been committed.
DispatchFails(c) ==
  /\ \/ /\ pc[c] = "mark"
        /\ \E S \in SUBSET {msg[c]} :
             processed' = [processed EXCEPT ![GroupOf[c]] = @ \cup S]
     \/ pc[c] = "handle" /\ GroupOf[c] \notin Gold /\ UNCHANGED processed
  /\ Fault("dispatch")
  /\ IF GroupOf[c] \in Gold THEN Go(c, "park") ELSE Done(c, "poll")
  /\ UNCHANGED <<relayVars, kafkaVars, pos, tasks, handled, parked>>

ParkFailed(c) ==
  /\ pc[c] = "park"
  /\ Park(c) /\ Go(c, "commit")
  /\ UNCHANGED <<relayVars, kafkaVars, pos, tasks, processed, handled,
                 faultVars>>

\* Counted as one failure with the one that led here.
ParkFails(c) ==
  /\ pc[c] = "park" /\ "deadletter" \in Faults
  /\ struck' = struck \cup {"deadletter"} /\ UNCHANGED faults
  /\ Done(c, "poll")
  /\ UNCHANGED <<relayVars, kafkaVars, pos, tasks, workVars>>

\* Mutant: the offset after the position.
CommitBeyond(c) ==
  /\ pc[c] = "commit" /\ owner[GroupOf[c]] = c
  /\ committed' = [committed EXCEPT ![GroupOf[c]] = pos[c] + 1]
  /\ Done(c, "poll")
  /\ UNCHANGED <<relayVars, topic, owner, pos, tasks, workVars, faultVars>>

\* consumer.commit(): the position, and with it every message before it.
Commit(c) ==
  /\ pc[c] = "commit" /\ owner[GroupOf[c]] = c
  /\ committed' = [committed EXCEPT ![GroupOf[c]] = pos[c]]
  /\ Done(c, "poll")
  /\ UNCHANGED <<relayVars, topic, owner, pos, tasks, workVars, faultVars>>

\* After a rebalance there is nothing assigned, and nothing to commit.
CommitNothing(c) ==
  /\ pc[c] = "commit" /\ owner[GroupOf[c]] # c
  /\ Done(c, "poll")
  /\ UNCHANGED <<relayVars, kafkaVars, pos, tasks, workVars, faultVars>>

\* A commit that raises is inside the try of the orchestrator's loop.  It ends
\* the loop of the aggregator, which nothing starts again.
CommitFails(c) ==
  /\ pc[c] = "commit"
  /\ Fault("commit")
  /\ IF GroupOf[c] \in Gold
     THEN Done(c, "ended") /\ Release(c)
     ELSE Done(c, "poll") /\ UNCHANGED <<owner, pos>>
  /\ UNCHANGED <<relayVars, topic, committed, tasks, workVars>>

RunTask(c, e) ==
  /\ tasks[c][e] > 0
  /\ tasks' = [tasks EXCEPT ![c][e] = @ - 1]
  /\ Did(GroupOf[c], e)
  /\ UNCHANGED <<relayVars, kafkaVars, loopVars, processed, parked, faultVars>>

\* The task raises: logged, and that is all.
TaskFails(c, e) ==
  /\ tasks[c][e] > 0
  /\ Fault("task")
  /\ tasks' = [tasks EXCEPT ![c][e] = @ - 1]
  /\ UNCHANGED <<relayVars, kafkaVars, loopVars, workVars>>

\* The service dies, or is stopped, and its tasks with it.
Crash(c) ==
  /\ pc[c] # "down"
  /\ Fault("crash")
  /\ Done(c, "down") /\ Release(c)
  /\ tasks' = [tasks EXCEPT ![c] = NoTasks]
  /\ UNCHANGED <<relayVars, topic, committed, workVars>>

Restart(c) ==
  /\ pc[c] = "down"
  /\ Done(c, "poll")
  /\ UNCHANGED <<relayVars, kafkaVars, pos, tasks, workVars, faultVars>>

------------------------------------------------------------------------------
Relay(i) == Claim(i) \/ EndBatch(i) \/ \E e \in Events : Send(i, e)

Consume(c) ==
  \/ Poll(c) \/ DeadLetter(c) \/ Mark(c) \/ SkipDuplicate(c)
  \/ HandleInline(c) \/ HandleSpawn(c) \/ ParkFailed(c)
  \/ Commit(c) \/ CommitNothing(c) \/ Restart(c)

Tasks(c) == \E e \in Events : RunTask(c, e)

Disturb ==
  \/ \E e \in Events : LoseDirect(e)
  \/ \E i \in Publishers : RelayDies(i) \/ \E e \in Events : SendFails(i, e)
  \/ \E g \in Groups : Revoke(g)
  \/ \E c \in Consumers :
       \/ DeadLetterFails(c) \/ DispatchFails(c) \/ ParkFails(c)
       \/ CommitFails(c) \/ Crash(c) \/ \E e \in Events : TaskFails(c, e)

Next ==
  \/ \E e \in Events : CommitBusiness(e) \/ SendDirect(e)
  \/ \E i \in Publishers : Relay(i)
  \/ \E g \in Groups, c \in Consumers : Assign(g, c)
  \/ \E c \in Consumers : Consume(c) \/ Tasks(c)
  \/ Disturb

Spec == Init /\ [][Next]_vars

\* The loops and tasks run, Kafka assigns what is not assigned, and a service
\* that died is started again.  No transaction is obliged to happen.
FairSpec ==
  /\ Spec
  /\ \A e \in Events : WF_vars(SendDirect(e))
  /\ \A i \in Publishers : WF_vars(Relay(i))
  /\ \A g \in Groups : WF_vars(\E c \in Consumers : Assign(g, c))
  /\ \A c \in Consumers : WF_vars(Consume(c)) /\ WF_vars(Tasks(c))

------------------------------------------------------------------------------
RelayTypeOK ==
  /\ outbox \in [Events -> RowStates]
  /\ batch \in [Publishers -> SUBSET Keyed]
  /\ sent \in [Publishers -> SUBSET Keyed]

FeedTypeOK ==
  /\ topic \in [Groups -> Seq(Events)] /\ committed \in [Groups -> Nat]
  /\ owner \in [Groups -> Consumers \cup {NoOne}]
  /\ pos \in [Consumers -> Nat]
  /\ \A g \in Groups : committed[g] <= Len(topic[g])
  /\ \A c \in Consumers : pos[c] <= Len(topic[GroupOf[c]])

LoopTypeOK == pc \in [Consumers -> Places] /\ msg \in [Consumers -> 0..E]

WorkTypeOK ==
  /\ tasks \in [Consumers -> [Events -> Nat]]
  /\ processed \in [Groups -> SUBSET (0..E)]
  /\ handled \in [Groups -> [Events -> Nat]]
  /\ parked \in [Groups -> SUBSET (0..E)]

FaultTypeOK == faults \in 0..MaxFaults /\ struck \subseteq Faults

\* Rows, offsets and positions stay in range: nothing is committed, or read,
\* that is not in the topic.
TypeOK == RelayTypeOK /\ FeedTypeOK /\ LoopTypeOK /\ WorkTypeOK /\ FaultTypeOK

InTopic(g, e) == \E k \in DOMAIN topic[g] : topic[g][k] = e

\* A row is marked published only if its event is in the topic, although the
\* mark is made in one transaction and the message in another system.
PublishedInTopic ==
  \A e \in Keyed, g \in Groups :
    outbox[e] = "published" /\ e \in Subscribed[g] => InTopic(g, e)

\* Several publishers share the table, and none sends a row that another has
\* in hand: without a failure each event is sent once.
ResentOnlyAfterFault ==
  faults = 0 => \A g \in Groups : \A j, k \in DOMAIN topic[g] :
                  topic[g][j] = topic[g][k] => j = k

\* The outbox and processed_events make it EventOnce, for events with a key.
Once == INSTANCE EventOnce WITH
          Offers  <- Keyed,
          Readers <- Groups,
          offered <- {e \in Keyed : outbox[e] # "none"},
          count   <- [g \in Groups |-> [e \in Keyed |-> handled[g][e]]]

\* Each event is handled by each group at most once, and only after its
\* transaction committed, through resends, redeliveries and rebalances.
OnceSpec == Once!Spec

InTask(g, e) == \E c \in Consumers : GroupOf[c] = g /\ tasks[c][e] > 0
InHand(g, e) == \E c \in Consumers : /\ GroupOf[c] = g /\ msg[c] = e
                                     /\ pc[c] \in {"handle", "deadletter", "park"}
Answered(g, e) == handled[g][e] > 0 \/ e \in parked[g]

\* Failures that lose nothing: of the relay, of the assignment, and of the
\* orchestrator's commit.
Survived(g) == {"send", "relay", "revoke"} \cup IF g \in Gold THEN {} ELSE {"commit"}

\* Every event whose transaction committed is handled in the end, or parked as
\* malformed, by every group that listens, unless another failure struck.
Delivered ==
  \A g \in Groups, e \in Events :
    outbox[e] = "pending" /\ e \in Subscribed[g]
      ~> (Answered(g, e) \/ ~(struck \subseteq Survived(g)))

\* The comment of both consumers: the offset of a message is committed only
\* after its dispatch has finished successfully.
CommittedWasDispatched ==
  \A g \in Groups : \A k \in 1..committed[g] :
    LET e == topic[g][k]
    IN  Answered(g, e) \/ InTask(g, e) \/ InHand(g, e)

------------------------------------------------------------------------------
(* Why at most once. *)

\* Only what was committed by a producer is on its way.
Offered == {e \in Events : outbox[e] # "none"}

TopicBacked == \A g \in Groups : \A k \in DOMAIN topic[g] :
                 topic[g][k] \in Offered
HandBacked  == \A c \in Consumers :
                 /\ pc[c] \in {"mark", "handle"} => msg[c] \in Offered
                 /\ \A e \in Events : tasks[c][e] > 0 => e \in Offered
RowsBacked  == \A i \in Publishers :
                 batch[i] \subseteq Offered /\ sent[i] \subseteq Offered

\* Consumer c is to do the work of e, now or in a task.
Bound(c, e) == pc[c] = "handle" /\ msg[c] = e
Busy(c, e)  == Bound(c, e) \/ tasks[c][e] > 0

\* Work on an event with a key was begun by marking it, and is not done yet; it
\* is begun once by a consumer, and by one consumer of the group.
WorkMarked == \A c \in Consumers, e \in Keyed :
                Busy(c, e) => /\ e \in processed[GroupOf[c]]
                              /\ handled[GroupOf[c]][e] = 0
WorkOnce   == \A c \in Consumers, e \in Keyed :
                tasks[c][e] <= 1 /\ ~(Bound(c, e) /\ tasks[c][e] > 0)
WorkAlone  == \A c, d \in Consumers, e \in Keyed :
                c # d /\ GroupOf[c] = GroupOf[d] /\ Busy(c, e) => ~Busy(d, e)
DoneMarked == \A g \in Groups, e \in Keyed :
                handled[g][e] > 0 => e \in processed[g] /\ handled[g][e] = 1

WayBacked == TopicBacked /\ HandBacked /\ RowsBacked
WorkInv   == WorkMarked /\ WorkOnce /\ WorkAlone /\ DoneMarked

\* The inductive invariant of EventOnce.
OnceInv == WayBacked /\ WorkInv

------------------------------------------------------------------------------
(* Why what is published is in the topic. *)

\* What a publisher marked in its open transaction has been sent.
SentInTopic ==
  \A i \in Publishers, e \in Keyed, g \in Groups :
    e \in sent[i] /\ e \in Subscribed[g] => InTopic(g, e)

==============================================================================
