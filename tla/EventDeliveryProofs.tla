-------------------------- MODULE EventDeliveryProofs --------------------------
(***************************************************************************)
(* Theorems about EventDelivery, for every number of events, publishers,   *)
(* groups, consumers and failures.                                         *)
(***************************************************************************)
EXTENDS EventDelivery, TLAPS

------------------------------------------------------------------------------
(* Appending. *)

\* Append1 keeps every message where it is, and adds e where e is subscribed to.
LEMMA Appending ==
  ASSUME topic \in [Groups -> Seq(Events)], NEW e \in Events
  PROVE  /\ Append1(e) \in [Groups -> Seq(Events)]
         /\ \A g \in Groups :
              /\ Len(topic[g]) <= Len(Append1(e)[g])
              /\ \A k \in DOMAIN topic[g] :
                   k \in DOMAIN Append1(e)[g] /\ Append1(e)[g][k] = topic[g][k]
              /\ \A k \in DOMAIN Append1(e)[g] :
                   \/ Append1(e)[g][k] = e
                   \/ k \in DOMAIN topic[g] /\ Append1(e)[g][k] = topic[g][k]
              /\ e \in Subscribed[g] =>
                   \E k \in DOMAIN Append1(e)[g] : Append1(e)[g][k] = e
<1> SUFFICES ASSUME NEW g \in Groups
             PROVE  /\ Append1(e)[g] \in Seq(Events)
                    /\ Len(topic[g]) <= Len(Append1(e)[g])
                    /\ \A k \in DOMAIN topic[g] :
                         /\ k \in DOMAIN Append1(e)[g]
                         /\ Append1(e)[g][k] = topic[g][k]
                    /\ \A k \in DOMAIN Append1(e)[g] :
                         \/ Append1(e)[g][k] = e
                         \/ /\ k \in DOMAIN topic[g]
                            /\ Append1(e)[g][k] = topic[g][k]
                    /\ e \in Subscribed[g] =>
                         \E k \in DOMAIN Append1(e)[g] : Append1(e)[g][k] = e
  BY DEF Append1
<1>1. CASE e \in Subscribed[g]
  <2>1. Append1(e)[g] = Append(topic[g], e)
    BY <1>1 DEF Append1
  <2>2. /\ Append(topic[g], e) \in Seq(Events)
        /\ Len(Append(topic[g], e)) = Len(topic[g]) + 1
        /\ Append(topic[g], e)[Len(topic[g]) + 1] = e
        /\ \A k \in 1..Len(topic[g]) : Append(topic[g], e)[k] = topic[g][k]
    OBVIOUS
  <2>3. /\ DOMAIN topic[g] = 1..Len(topic[g]) /\ Len(topic[g]) \in Nat
        /\ DOMAIN Append(topic[g], e) = 1..(Len(topic[g]) + 1)
    BY <2>2
  <2> QED
    BY <2>1, <2>2, <2>3
<1>2. CASE e \notin Subscribed[g]
  <2>1. Append1(e)[g] = topic[g]
    BY <1>2 DEF Append1
  <2> QED
    BY <2>1, <1>2
<1> QED
  BY <1>1, <1>2

\* The events of the topics are events, and offsets and positions stay within.
LEMMA AppendTyped ==
  ASSUME FeedTypeOK, NEW e \in Events, topic' = Append1(e),
         UNCHANGED <<committed, owner, pos>>
  PROVE  FeedTypeOK'
<1>1. /\ topic' \in [Groups -> Seq(Events)]
      /\ \A g \in Groups : Len(topic[g]) <= Len(topic'[g])
  BY Appending DEF FeedTypeOK
<1>2. \A g \in Groups : /\ Len(topic[g]) \in Nat /\ Len(topic'[g]) \in Nat
                        /\ committed[g] \in Nat
  BY <1>1 DEF FeedTypeOK
<1>3. \A c \in Consumers : GroupOf[c] \in Groups /\ pos[c] \in Nat
  BY DeliveryAssumption DEF FeedTypeOK
<1>4. \A g \in Groups : committed[g] <= Len(topic'[g])
  <2> SUFFICES ASSUME NEW g \in Groups PROVE committed[g] <= Len(topic'[g])
    OBVIOUS
  <2>1. committed[g] <= Len(topic[g])
    BY DEF FeedTypeOK
  <2> QED
    BY <2>1, <1>1, <1>2
<1>5. \A c \in Consumers : pos[c] <= Len(topic'[GroupOf[c]])
  <2> SUFFICES ASSUME NEW c \in Consumers
               PROVE  pos[c] <= Len(topic'[GroupOf[c]])
    OBVIOUS
  <2>1. pos[c] <= Len(topic[GroupOf[c]])
    BY DEF FeedTypeOK
  <2> QED
    BY <2>1, <1>1, <1>2, <1>3
<1> QED
  BY <1>1, <1>4, <1>5 DEF FeedTypeOK

------------------------------------------------------------------------------
(* Type correctness. *)

\* Nothing is in flight at the start.
LEMMA TypeInit == Init => TypeOK
<1> SUFFICES ASSUME Init PROVE TypeOK
  OBVIOUS
<1>1. RelayTypeOK
  BY DEF Init, RelayTypeOK, RowStates
<1>2. FeedTypeOK
  <2>1. \A g \in Groups : topic[g] = <<>> /\ Len(topic[g]) = 0
    BY DEF Init
  <2>2. topic \in [Groups -> Seq(Events)]
    BY DEF Init
  <2>3. \A c \in Consumers : GroupOf[c] \in Groups
    BY DeliveryAssumption
  <2> QED
    BY <2>1, <2>2, <2>3 DEF Init, FeedTypeOK
<1>3. LoopTypeOK
  BY DeliveryAssumption DEF Init, LoopTypeOK, Places
<1>4. WorkTypeOK
  BY DEF Init, WorkTypeOK, NoTasks
<1>5. FaultTypeOK
  BY DeliveryAssumption DEF Init, FaultTypeOK
<1> QED
  BY <1>1, <1>2, <1>3, <1>4, <1>5 DEF TypeOK

\* One more of a table of counters.
LEMMA Bumped ==
  ASSUME NEW A, NEW B, NEW f \in [A -> [B -> Nat]], NEW a \in A, NEW b
  PROVE  [f EXCEPT ![a][b] = @ + 1] \in [A -> [B -> Nat]]
<1>1. f[a] \in [B -> Nat]
  OBVIOUS
<1>2. \A n \in Nat : n + 1 \in Nat
  OBVIOUS
<1>3. [f[a] EXCEPT ![b] = @ + 1] \in [B -> Nat]
  BY <1>1, <1>2
<1> QED
  BY <1>3

\* A part of the state that does not change keeps its type.
LEMMA Unchanging ==
  ASSUME TypeOK
  PROVE  /\ UNCHANGED relayVars => RelayTypeOK'
         /\ UNCHANGED <<kafkaVars, pos>> => FeedTypeOK'
         /\ UNCHANGED <<pc, msg>> => LoopTypeOK'
         /\ UNCHANGED <<tasks, workVars>> => WorkTypeOK'
         /\ UNCHANGED faultVars => FaultTypeOK'
  BY DEF TypeOK, RelayTypeOK, FeedTypeOK, LoopTypeOK, WorkTypeOK, FaultTypeOK,
         relayVars, kafkaVars, workVars, faultVars

\* A failure is counted, and within its bound.
LEMMA FaultTyped ==
  ASSUME FaultTypeOK, NEW f, Fault(f)
  PROVE  FaultTypeOK'
  BY DeliveryAssumption DEF FaultTypeOK, Fault

\* A loop moves between places, with its message or without.
LEMMA LoopTyped ==
  ASSUME LoopTypeOK, NEW c \in Consumers, NEW place \in Places
  PROVE  Go(c, place) \/ Done(c, place) => LoopTypeOK'
<1>1. 0 \in 0..E
  BY DeliveryAssumption
<1> QED
  BY <1>1 DEF LoopTypeOK, Go, Done

\* A consumer that lets its topic go leaves a position of 0.
LEMMA ReleaseTyped ==
  ASSUME FeedTypeOK, NEW c \in Consumers, Release(c),
         UNCHANGED <<topic, committed>>
  PROVE  FeedTypeOK'
<1>1. /\ \A d \in Consumers : GroupOf[d] \in Groups
      /\ \A g \in Groups : Len(topic[g]) \in Nat
  BY DeliveryAssumption DEF FeedTypeOK
<1>2. owner' \in [Groups -> Consumers \cup {NoOne}]
  BY DEF Release, FeedTypeOK
<1>3. /\ pos' \in [Consumers -> Nat]
      /\ \A d \in Consumers : pos'[d] = pos[d] \/ pos'[d] = 0
  BY DEF Release, FeedTypeOK
<1>4. \A d \in Consumers : pos'[d] <= Len(topic[GroupOf[d]])
  <2> SUFFICES ASSUME NEW d \in Consumers
               PROVE  pos'[d] <= Len(topic[GroupOf[d]])
    OBVIOUS
  <2>1. pos[d] <= Len(topic[GroupOf[d]])
    BY DEF FeedTypeOK
  <2>2. Len(topic[GroupOf[d]]) \in Nat
    BY <1>1
  <2> QED
    BY <1>3, <2>1, <2>2
<1> QED
  BY <1>2, <1>3, <1>4 DEF FeedTypeOK

\* The producers and the relay keep the types.
LEMMA RelayTyped ==
  ASSUME TypeOK
  PROVE  /\ \A e \in Events :
              CommitBusiness(e) \/ SendDirect(e) \/ LoseDirect(e) => TypeOK'
         /\ \A i \in Publishers :
              /\ Relay(i) \/ RelayDies(i) => TypeOK'
              /\ \A e \in Events : SendFails(i, e) => TypeOK'
<1> USE DEF loopVars
<1>1. ASSUME NEW e \in Events, CommitBusiness(e) PROVE TypeOK'
  <2>1. RelayTypeOK'
    BY <1>1 DEF TypeOK, RelayTypeOK, CommitBusiness, RowStates
  <2> QED
    BY <1>1, <2>1, Unchanging DEF TypeOK, CommitBusiness
<1>2. ASSUME NEW e \in Events, SendDirect(e) PROVE TypeOK'
  <2>1. RelayTypeOK'
    BY <1>2 DEF TypeOK, RelayTypeOK, SendDirect, RowStates
  <2>2. FeedTypeOK'
    BY <1>2, AppendTyped DEF TypeOK, SendDirect
  <2> QED
    BY <1>2, <2>1, <2>2, Unchanging DEF TypeOK, SendDirect
<1>3. ASSUME NEW e \in Events, LoseDirect(e) PROVE TypeOK'
  <2>1. RelayTypeOK'
    BY <1>3 DEF TypeOK, RelayTypeOK, LoseDirect, RowStates
  <2>2. FaultTypeOK'
    BY <1>3, FaultTyped DEF TypeOK, LoseDirect
  <2> QED
    BY <1>3, <2>1, <2>2, Unchanging DEF TypeOK, LoseDirect
<1>4. ASSUME NEW i \in Publishers, Claim(i) PROVE TypeOK'
  <2>1. Oldest(Free) \subseteq Keyed
    BY DEF Oldest, Free
  <2>2. RelayTypeOK'
    BY <1>4, <2>1 DEF TypeOK, RelayTypeOK, Claim
  <2> QED
    BY <1>4, <2>2, Unchanging DEF TypeOK, Claim
<1>5. ASSUME NEW i \in Publishers, EndBatch(i) PROVE TypeOK'
  <2>1. RelayTypeOK'
    BY <1>5 DEF TypeOK, RelayTypeOK, EndBatch, RowStates
  <2> QED
    BY <1>5, <2>1, Unchanging DEF TypeOK, EndBatch
<1>6. ASSUME NEW i \in Publishers, NEW e \in Events, Send(i, e) PROVE TypeOK'
  <2>1. RelayTypeOK'
    BY <1>6 DEF TypeOK, RelayTypeOK, Send, NextOf
  <2>2. FeedTypeOK'
    BY <1>6, AppendTyped DEF TypeOK, Send
  <2> QED
    BY <1>6, <2>1, <2>2, Unchanging DEF TypeOK, Send
<1>7. ASSUME NEW i \in Publishers, NEW e \in Events, SendFails(i, e)
      PROVE TypeOK'
  <2>1. RelayTypeOK'
    BY <1>7 DEF TypeOK, RelayTypeOK, SendFails
  <2>2. FeedTypeOK'
    BY <1>7, AppendTyped, Unchanging DEF TypeOK, SendFails, kafkaVars
  <2>3. FaultTypeOK'
    BY <1>7, FaultTyped DEF TypeOK, SendFails
  <2> QED
    BY <1>7, <2>1, <2>2, <2>3, Unchanging DEF TypeOK, SendFails
<1>8. ASSUME NEW i \in Publishers, RelayDies(i) PROVE TypeOK'
  <2>1. RelayTypeOK'
    BY <1>8 DEF TypeOK, RelayTypeOK, RelayDies
  <2>2. FaultTypeOK'
    BY <1>8, FaultTyped DEF TypeOK, RelayDies
  <2> QED
    BY <1>8, <2>1, <2>2, Unchanging DEF TypeOK, RelayDies
<1> QED
  BY <1>1, <1>2, <1>3, <1>4, <1>5, <1>6, <1>7, <1>8 DEF Relay

\* So do the assignment and the loss of a group's topic.
LEMMA AssignTyped ==
  ASSUME TypeOK, NEW g \in Groups
  PROVE  Revoke(g) \/ (\E c \in Consumers : Assign(g, c)) => TypeOK'
<1>1. ASSUME NEW c \in Consumers, Assign(g, c) PROVE TypeOK'
  <2>1. FeedTypeOK'
    <3>1. /\ owner' \in [Groups -> Consumers \cup {NoOne}]
          /\ pos' \in [Consumers -> Nat]
      BY <1>1 DEF TypeOK, FeedTypeOK, Assign
    <3>2. \A d \in Consumers : pos'[d] <= Len(topic[GroupOf[d]])
      BY <1>1 DEF TypeOK, FeedTypeOK, Assign
    <3> QED
      BY <1>1, <3>1, <3>2 DEF TypeOK, FeedTypeOK, Assign
  <2> QED
    BY <1>1, <2>1, Unchanging DEF TypeOK, Assign
<1>2. ASSUME Revoke(g) PROVE TypeOK'
  <2>1. owner[g] \in Consumers
    BY <1>2 DEF Revoke, TypeOK, FeedTypeOK
  <2>2. FeedTypeOK'
    BY <1>2, <2>1, ReleaseTyped DEF TypeOK, Revoke
  <2>3. FaultTypeOK'
    BY <1>2, FaultTyped DEF TypeOK, Revoke
  <2> QED
    BY <1>2, <2>2, <2>3, Unchanging DEF TypeOK, Revoke
<1> QED
  BY <1>1, <1>2

\* And the steps of a consumer, when nothing fails ...
LEMMA ConsumerTyped ==
  ASSUME TypeOK, NEW c \in Consumers, Consume(c) \/ Tasks(c)
  PROVE  TypeOK'
<1>0. GroupOf[c] \in Groups /\ msg[c] \in 0..E
  BY DeliveryAssumption DEF TypeOK, LoopTypeOK
<1>1. CASE Poll(c)
  <2> DEFINE feed == topic[GroupOf[c]]
  <2>1. /\ feed \in Seq(Events) /\ pos[c] \in Nat /\ pos[c] < Len(feed)
        /\ Len(feed) \in Nat
    BY <1>0, <1>1 DEF Poll, TypeOK, FeedTypeOK
  <2>2. pos[c] + 1 \in Nat /\ pos[c] + 1 \in 1..Len(feed)
    BY <2>1
  <2>3. feed[pos[c] + 1] \in 0..E
    <3>1. feed[pos[c] + 1] \in Events
      BY <2>1, <2>2
    <3> QED
      BY <3>1, DeliveryAssumption DEF Events
  <2>4. Validated(feed[pos[c] + 1]) \in Places
    BY DEF Validated, Places
  <2>5. LoopTypeOK'
    BY <1>1, <2>3, <2>4 DEF Poll, TypeOK, LoopTypeOK
  <2>6. FeedTypeOK'
    <3>1. pos' \in [Consumers -> Nat]
      BY <1>1, <2>2 DEF Poll, TypeOK, FeedTypeOK
    <3>2. \A d \in Consumers : pos'[d] <= Len(topic[GroupOf[d]])
      BY <1>1, <2>2 DEF Poll, TypeOK, FeedTypeOK
    <3> QED
      BY <1>1, <3>1, <3>2 DEF Poll, TypeOK, FeedTypeOK, kafkaVars
  <2> QED
    BY <1>1, <2>5, <2>6, Unchanging DEF Poll, TypeOK
<1>2. CASE DeadLetter(c) \/ ParkFailed(c)
  <2>1. LoopTypeOK'
    BY <1>2, LoopTyped DEF DeadLetter, ParkFailed, Places, TypeOK
  <2>2. WorkTypeOK'
    BY <1>0, <1>2 DEF DeadLetter, ParkFailed, Park, TypeOK, WorkTypeOK
  <2> QED
    BY <1>2, <2>1, <2>2, Unchanging DEF DeadLetter, ParkFailed, TypeOK
<1>3. CASE Mark(c) \/ SkipDuplicate(c)
  <2>1. LoopTypeOK'
    BY <1>3, LoopTyped DEF Mark, SkipDuplicate, Places, TypeOK
  <2>2. WorkTypeOK'
    BY <1>0, <1>3 DEF Mark, SkipDuplicate, TypeOK, WorkTypeOK, workVars
  <2> QED
    BY <1>3, <2>1, <2>2, Unchanging DEF Mark, SkipDuplicate, TypeOK
<1>4. CASE HandleInline(c)
  <2>1. LoopTypeOK'
    BY <1>4, LoopTyped DEF HandleInline, Places, TypeOK
  <2>2. WorkTypeOK'
    <3>1. handled' \in [Groups -> [Events -> Nat]]
      BY <1>0, <1>4, Bumped DEF HandleInline, Did, TypeOK, WorkTypeOK
    <3> QED
      BY <1>4, <3>1 DEF HandleInline, TypeOK, WorkTypeOK
  <2> QED
    BY <1>4, <2>1, <2>2, Unchanging DEF HandleInline, TypeOK
<1>5. CASE HandleSpawn(c)
  <2>1. LoopTypeOK'
    BY <1>5, LoopTyped DEF HandleSpawn, Places, TypeOK
  <2>2. WorkTypeOK'
    <3>1. tasks' \in [Consumers -> [Events -> Nat]]
      BY <1>5, Bumped DEF HandleSpawn, TypeOK, WorkTypeOK
    <3> QED
      BY <1>5, <3>1 DEF HandleSpawn, TypeOK, WorkTypeOK, workVars
  <2> QED
    BY <1>5, <2>1, <2>2, Unchanging DEF HandleSpawn, TypeOK
<1>6. CASE Commit(c)
  <2>1. LoopTypeOK'
    BY <1>6, LoopTyped DEF Commit, Places, TypeOK
  <2>2. FeedTypeOK'
    BY <1>6 DEF Commit, TypeOK, FeedTypeOK
  <2> QED
    BY <1>6, <2>1, <2>2, Unchanging DEF Commit, TypeOK
<1>7. CASE CommitNothing(c) \/ Restart(c)
  <2>1. LoopTypeOK'
    BY <1>7, LoopTyped DEF CommitNothing, Restart, Places, TypeOK
  <2> QED
    BY <1>7, <2>1, Unchanging DEF CommitNothing, Restart, TypeOK
<1>8. CASE Tasks(c)
  <2>1. PICK e \in Events : RunTask(c, e)
    BY <1>8 DEF Tasks
  <2>2. WorkTypeOK'
    <3>1. tasks[c][e] - 1 \in Nat
      BY <2>1 DEF RunTask, TypeOK, WorkTypeOK
    <3>2. tasks' \in [Consumers -> [Events -> Nat]]
      BY <2>1, <3>1 DEF RunTask, TypeOK, WorkTypeOK
    <3>3. handled' \in [Groups -> [Events -> Nat]]
      BY <1>0, <2>1, Bumped DEF RunTask, Did, TypeOK, WorkTypeOK
    <3> QED
      BY <2>1, <3>2, <3>3 DEF RunTask, TypeOK, WorkTypeOK
  <2> QED
    BY <2>1, <2>2, Unchanging DEF RunTask, TypeOK, loopVars
<1> QED
  BY <1>1, <1>2, <1>3, <1>4, <1>5, <1>6, <1>7, <1>8 DEF Consume

\* ... and its failures.
LEMMA DisturbTyped ==
  ASSUME TypeOK, NEW c \in Consumers
  PROVE  /\ DeadLetterFails(c) \/ DispatchFails(c) \/ ParkFails(c) => TypeOK'
         /\ CommitFails(c) \/ Crash(c) => TypeOK'
         /\ \A e \in Events : TaskFails(c, e) => TypeOK'
<1>0. GroupOf[c] \in Groups /\ msg[c] \in 0..E
  BY DeliveryAssumption DEF TypeOK, LoopTypeOK
<1>1. ASSUME DeadLetterFails(c) PROVE TypeOK'
  BY <1>1, LoopTyped, FaultTyped, Unchanging
     DEF DeadLetterFails, Places, TypeOK, workVars
<1>2. ASSUME DispatchFails(c) PROVE TypeOK'
  <2>1. LoopTypeOK'
    BY <1>2, LoopTyped DEF DispatchFails, Places, TypeOK
  <2>2. processed' \in [Groups -> SUBSET (0..E)]
    BY <1>0, <1>2 DEF DispatchFails, TypeOK, WorkTypeOK
  <2>3. WorkTypeOK'
    BY <1>2, <2>2 DEF DispatchFails, TypeOK, WorkTypeOK
  <2>4. FaultTypeOK'
    BY <1>2, FaultTyped DEF DispatchFails, TypeOK
  <2> QED
    BY <1>2, <2>1, <2>3, <2>4, Unchanging DEF DispatchFails, TypeOK
<1>3. ASSUME ParkFails(c) PROVE TypeOK'
  <2>1. LoopTypeOK'
    BY <1>3, LoopTyped DEF ParkFails, Places, TypeOK
  <2>2. FaultTypeOK'
    BY <1>3 DEF ParkFails, TypeOK, FaultTypeOK
  <2> QED
    BY <1>3, <2>1, <2>2, Unchanging DEF ParkFails, TypeOK
<1>4. ASSUME CommitFails(c) PROVE TypeOK'
  <2>1. LoopTypeOK'
    BY <1>4, LoopTyped DEF CommitFails, Places, TypeOK
  <2>2. FeedTypeOK'
    BY <1>4, ReleaseTyped, Unchanging DEF CommitFails, TypeOK, kafkaVars
  <2>3. FaultTypeOK'
    BY <1>4, FaultTyped DEF CommitFails, TypeOK
  <2> QED
    BY <1>4, <2>1, <2>2, <2>3, Unchanging DEF CommitFails, TypeOK
<1>5. ASSUME Crash(c) PROVE TypeOK'
  <2>1. LoopTypeOK'
    BY <1>5, LoopTyped DEF Crash, Places, TypeOK
  <2>2. FeedTypeOK'
    BY <1>5, ReleaseTyped DEF Crash, TypeOK
  <2>3. WorkTypeOK'
    BY <1>5 DEF Crash, TypeOK, WorkTypeOK, NoTasks, workVars
  <2>4. FaultTypeOK'
    BY <1>5, FaultTyped DEF Crash, TypeOK
  <2> QED
    BY <1>5, <2>1, <2>2, <2>3, <2>4, Unchanging DEF Crash, TypeOK
<1>6. ASSUME NEW e \in Events, TaskFails(c, e) PROVE TypeOK'
  <2>1. tasks[c][e] - 1 \in Nat
    BY <1>6 DEF TaskFails, TypeOK, WorkTypeOK
  <2>2. WorkTypeOK'
    BY <1>6, <2>1 DEF TaskFails, TypeOK, WorkTypeOK, workVars
  <2>3. FaultTypeOK'
    BY <1>6, FaultTyped DEF TaskFails, TypeOK
  <2> QED
    BY <1>6, <2>2, <2>3, Unchanging DEF TaskFails, TypeOK, loopVars
<1> QED
  BY <1>1, <1>2, <1>3, <1>4, <1>5, <1>6

\* Every step keeps the types.
LEMMA TypeStep == TypeOK /\ [Next]_vars => TypeOK'
<1> SUFFICES ASSUME TypeOK, [Next]_vars PROVE TypeOK'
  OBVIOUS
<1>1. CASE Next
  BY <1>1, RelayTyped, AssignTyped, ConsumerTyped, DisturbTyped
     DEF Next, Disturb
<1>2. CASE UNCHANGED vars
  BY <1>2, Unchanging DEF TypeOK, vars, loopVars
<1> QED
  BY <1>1, <1>2

\* Rows, offsets, positions and tasks stay in range: no group commits an offset
\* beyond the end of its topic, and no consumer reads there.
THEOREM TypeCorrect == Spec => []TypeOK
<1> QED
  BY TypeInit, TypeStep, PTL DEF Spec

------------------------------------------------------------------------------
(* What is published is in the topic. *)

\* Steps of consumers and of Kafka's assignment leave the table, the relay and
\* the topics alone.
LEMMA OthersKeep ==
  ASSUME [Next]_vars
  PROVE  \/ \E e \in Events : CommitBusiness(e) \/ SendDirect(e) \/ LoseDirect(e)
         \/ \E i \in Publishers :
              \/ Relay(i) \/ RelayDies(i)
              \/ \E e \in Events : SendFails(i, e)
         \/ UNCHANGED <<relayVars, topic>>
<1> USE DEF relayVars, kafkaVars
<1>1. ASSUME NEW c \in Consumers, Consume(c) PROVE UNCHANGED <<relayVars, topic>>
  BY <1>1 DEF Consume, Poll, DeadLetter, Mark, SkipDuplicate, HandleInline,
              HandleSpawn, ParkFailed, Commit, CommitNothing, Restart
<1>2. ASSUME NEW c \in Consumers, Tasks(c) PROVE UNCHANGED <<relayVars, topic>>
  BY <1>2 DEF Tasks, RunTask
<1>3. ASSUME NEW c \in Consumers,
             \/ DeadLetterFails(c) \/ DispatchFails(c) \/ ParkFails(c)
             \/ CommitFails(c) \/ Crash(c) \/ \E e \in Events : TaskFails(c, e)
      PROVE  UNCHANGED <<relayVars, topic>>
  BY <1>3 DEF DeadLetterFails, DispatchFails, ParkFails, CommitFails, Crash,
              TaskFails
<1>4. ASSUME NEW g \in Groups, Revoke(g) \/ \E c \in Consumers : Assign(g, c)
      PROVE  UNCHANGED <<relayVars, topic>>
  BY <1>4 DEF Revoke, Assign
<1> QED
  BY <1>1, <1>2, <1>3, <1>4 DEF Next, Disturb, vars

\* A message is never taken out of a topic.
LEMMA TopicGrows ==
  ASSUME TypeOK, [Next]_vars, NEW g \in Groups, NEW e, InTopic(g, e)
  PROVE  InTopic(g, e)'
<1>1. topic' = topic \/ \E f \in Events : topic' = Append1(f)
  BY OthersKeep DEF CommitBusiness, SendDirect, LoseDirect, Relay, Claim,
                    EndBatch, Send, RelayDies, SendFails, kafkaVars
<1>2. topic \in [Groups -> Seq(Events)]
  BY DEF TypeOK, FeedTypeOK
<1> QED
  BY <1>1, <1>2, Appending DEF InTopic

\* What is marked, in an open transaction or a committed one, has been sent.
MarkedInTopic == PublishedInTopic /\ SentInTopic

\* Each step of the relay keeps that, and the other steps mark nothing.
LEMMA MarkedStep ==
  ASSUME TypeOK, MarkedInTopic, [Next]_vars
  PROVE  MarkedInTopic'
<1> USE DEF MarkedInTopic
<1>1. \A g \in Groups, e \in Keyed : InTopic(g, e) => InTopic(g, e)'
  BY TopicGrows
<1>2. ASSUME \A e \in Keyed : outbox'[e] = "published" =>
               \/ outbox[e] = "published"
               \/ \E i \in Publishers : e \in sent[i],
             \A i \in Publishers : sent'[i] \subseteq sent[i]
      PROVE  MarkedInTopic'
  BY <1>1, <1>2 DEF PublishedInTopic, SentInTopic
<1>3. CASE \E e \in Events : CommitBusiness(e) \/ SendDirect(e) \/ LoseDirect(e)
  <2>1. PICK e \in Events : CommitBusiness(e) \/ SendDirect(e) \/ LoseDirect(e)
    BY <1>3
  <2>2. /\ sent' = sent /\ \A f \in Events \ {e} : outbox'[f] = outbox[f]
        /\ outbox'[e] = "pending" \/ e \notin Keyed
    BY <2>1 DEF CommitBusiness, SendDirect, LoseDirect, TypeOK, RelayTypeOK
  <2>3. Keyed \subseteq Events
    BY DeliveryAssumption
  <2> QED
    BY <1>2, <2>2, <2>3
<1>4. CASE \E i \in Publishers : Claim(i) \/ RelayDies(i) \/
                                 \E e \in Events : SendFails(i, e)
  BY <1>2, <1>4 DEF Claim, RelayDies, SendFails, TypeOK, RelayTypeOK
<1>5. ASSUME NEW i \in Publishers, EndBatch(i) PROVE MarkedInTopic'
  BY <1>2, <1>5, DeliveryAssumption DEF EndBatch, TypeOK, RelayTypeOK
<1>6. ASSUME NEW i \in Publishers, NEW e \in Events, Send(i, e)
      PROVE  MarkedInTopic'
  <2>1. topic \in [Groups -> Seq(Events)] /\ topic' = Append1(e)
    BY <1>6 DEF Send, TypeOK, FeedTypeOK
  <2>2. \A g \in Groups : e \in Subscribed[g] => InTopic(g, e)'
    BY <2>1, Appending DEF InTopic
  <2>3. /\ outbox' = outbox
        /\ \A j \in Publishers : sent'[j] \subseteq sent[j] \cup {e}
    BY <1>6 DEF Send, TypeOK, RelayTypeOK
  <2> QED
    BY <1>1, <2>2, <2>3 DEF PublishedInTopic, SentInTopic
<1>7. CASE UNCHANGED <<relayVars, topic>>
  BY <1>2, <1>7 DEF relayVars
<1> QED
  BY <1>3, <1>4, <1>5, <1>6, <1>7, OthersKeep DEF Relay

\* No failure of a publisher, between a send and the commit of its mark, leaves
\* a row that is published in the table and not in the topic.
THEOREM Published == Spec => []PublishedInTopic
<1>1. Init => MarkedInTopic
  BY DeliveryAssumption DEF Init, MarkedInTopic, PublishedInTopic, SentInTopic
<1>2. TypeOK /\ MarkedInTopic /\ [Next]_vars => MarkedInTopic'
  BY MarkedStep
<1>3. MarkedInTopic => PublishedInTopic
  BY DEF MarkedInTopic
<1> QED
  BY <1>1, <1>2, <1>3, TypeCorrect, PTL DEF Spec

------------------------------------------------------------------------------
(* At most once. *)

\* Nothing is on its way at the start, and nothing was worked on.
LEMMA OnceInit == Init => OnceInv
<1> SUFFICES ASSUME Init PROVE OnceInv
  OBVIOUS
<1>1. WayBacked
  BY DEF Init, WayBacked, TopicBacked, HandBacked, RowsBacked, NoTasks
<1>2. \A c \in Consumers, e \in Keyed : ~Busy(c, e)
  BY DeliveryAssumption DEF Init, Busy, Bound, NoTasks
<1>3. \A g \in Groups, e \in Keyed : handled[g][e] = 0
  BY DeliveryAssumption DEF Init, NoTasks
<1>4. WorkMarked /\ WorkAlone
  BY <1>2 DEF WorkMarked, WorkAlone
<1>5. WorkOnce
  BY DeliveryAssumption DEF Init, WorkOnce, Bound, NoTasks
<1>6. DoneMarked
  BY <1>3 DEF DoneMarked
<1> QED
  BY <1>1, <1>4, <1>5, <1>6 DEF OnceInv, WorkInv

\* An event that was offered stays offered; only a business transaction offers
\* one.
LEMMA OfferedGrows ==
  ASSUME TypeOK, WayBacked, [Next]_vars
  PROVE  \/ /\ \E e \in Events : CommitBusiness(e) /\ Offered' = Offered \cup {e}
         \/ Offered' = Offered
<1>1. ASSUME NEW e \in Events, CommitBusiness(e)
      PROVE  Offered' = Offered \cup {e}
  BY <1>1 DEF CommitBusiness, Offered, TypeOK, RelayTypeOK
<1>2. ASSUME NEW e \in Events, SendDirect(e) \/ LoseDirect(e)
      PROVE  Offered' = Offered
  BY <1>2 DEF SendDirect, LoseDirect, Offered, TypeOK, RelayTypeOK
<1>3. ASSUME NEW i \in Publishers, EndBatch(i) PROVE Offered' = Offered
  BY <1>3 DEF EndBatch, Offered, WayBacked, RowsBacked
<1>4. ASSUME NEW i \in Publishers,
             \/ Claim(i) \/ RelayDies(i)
             \/ \E e \in Events : Send(i, e) \/ SendFails(i, e)
      PROVE  Offered' = Offered
  BY <1>4 DEF Claim, RelayDies, Send, SendFails, Offered
<1>5. CASE UNCHANGED <<relayVars, topic>>
  BY <1>5 DEF relayVars, Offered
<1> QED
  BY <1>1, <1>2, <1>3, <1>4, <1>5, OthersKeep DEF Relay

\* The producers and the relay keep what is on its way backed by a transaction.
LEMMA RelayBacked ==
  ASSUME TypeOK, WayBacked, [Next]_vars
  PROVE  TopicBacked' /\ RowsBacked'
<1>1. Offered \subseteq Offered'
  BY OfferedGrows
<1>2. topic \in [Groups -> Seq(Events)]
  BY DEF TypeOK, FeedTypeOK
<1>3. ASSUME topic' = topic PROVE TopicBacked'
  BY <1>1, <1>3 DEF WayBacked, TopicBacked
<1>4. ASSUME NEW e \in Events, e \in Offered, topic' = Append1(e)
      PROVE  TopicBacked'
  BY <1>1, <1>2, <1>4, Appending DEF WayBacked, TopicBacked
<1>5. ASSUME \A i \in Publishers :
               batch'[i] \subseteq Offered /\ sent'[i] \subseteq Offered
      PROVE  RowsBacked'
  BY <1>1, <1>5 DEF RowsBacked
<1>6. \A i \in Publishers : batch[i] \subseteq Offered /\ sent[i] \subseteq Offered
  BY DEF WayBacked, RowsBacked
<1>7. ASSUME NEW e \in Events, CommitBusiness(e) \/ LoseDirect(e)
      PROVE  TopicBacked' /\ RowsBacked'
  BY <1>3, <1>5, <1>6, <1>7 DEF CommitBusiness, LoseDirect, kafkaVars
<1>8. ASSUME NEW e \in Events, SendDirect(e) PROVE TopicBacked' /\ RowsBacked'
  <2>1. e \in Offered
    BY <1>8 DEF SendDirect, Offered
  <2> QED
    BY <1>4, <1>5, <1>6, <1>8, <2>1 DEF SendDirect
<1>9. ASSUME NEW i \in Publishers, Claim(i) PROVE TopicBacked' /\ RowsBacked'
  <2>1. Oldest(Free) \subseteq Offered
    BY DeliveryAssumption DEF Oldest, Free, Offered
  <2> QED
    BY <1>3, <1>5, <1>6, <1>9, <2>1
       DEF Claim, kafkaVars, TypeOK, RelayTypeOK
<1>10. ASSUME NEW i \in Publishers, EndBatch(i) \/ RelayDies(i)
       PROVE  TopicBacked' /\ RowsBacked'
  BY <1>3, <1>5, <1>6, <1>10
     DEF EndBatch, RelayDies, kafkaVars, TypeOK, RelayTypeOK
<1>11. ASSUME NEW i \in Publishers, NEW e \in Events, Send(i, e) \/ SendFails(i, e)
       PROVE  TopicBacked' /\ RowsBacked'
  <2>1. e \in Offered
    BY <1>6, <1>11 DEF Send, SendFails, NextOf
  <2>2. TopicBacked'
    BY <1>3, <1>4, <1>11, <2>1 DEF Send, SendFails
  <2>3. \A j \in Publishers :
          batch'[j] \subseteq Offered /\ sent'[j] \subseteq Offered
    BY <1>6, <1>11, <2>1 DEF Send, SendFails, TypeOK, RelayTypeOK
  <2> QED
    BY <1>5, <2>2, <2>3
<1>12. CASE UNCHANGED <<relayVars, topic>>
  BY <1>3, <1>5, <1>6, <1>12 DEF relayVars
<1> QED
  BY <1>7, <1>8, <1>9, <1>10, <1>11, <1>12, OthersKeep DEF Relay

\* A step that begins no work and does none.
Quiet ==
  /\ handled' = handled
  /\ \A g \in Groups : processed[g] \subseteq processed'[g]
  /\ \A c \in Consumers : pc'[c] \in {"mark", "handle"} =>
                            pc'[c] = pc[c] /\ msg'[c] = msg[c]
  /\ \A c \in Consumers, e \in Events : tasks'[c][e] <= tasks[c][e]

\* All steps are quiet, but for those that poll, mark and handle.
LEMMA QuietSteps ==
  ASSUME TypeOK, [Next]_vars
  PROVE  \/ Quiet
         \/ \E c \in Consumers :
              \/ Poll(c) \/ Mark(c) \/ HandleInline(c) \/ HandleSpawn(c)
              \/ \E e \in Events : RunTask(c, e)
<1>0. \A c \in Consumers, e \in Events : tasks[c][e] \in Nat
  BY DEF TypeOK, WorkTypeOK
<1>1. ASSUME UNCHANGED <<pc, msg, tasks, processed, handled>> PROVE Quiet
  BY <1>0, <1>1 DEF Quiet
<1>2. ASSUME NEW c \in Consumers, NEW place \in Places \ {"mark", "handle"},
             Go(c, place) \/ Done(c, place),
             UNCHANGED <<tasks, handled>>,
             \A g \in Groups : processed[g] \subseteq processed'[g]
      PROVE  Quiet
  BY <1>0, <1>2 DEF Go, Done, Quiet, TypeOK, LoopTypeOK
<1>3. CASE \E e \in Events : CommitBusiness(e) \/ SendDirect(e) \/ LoseDirect(e)
  BY <1>1, <1>3 DEF CommitBusiness, SendDirect, LoseDirect, loopVars, workVars
<1>4. CASE \E i \in Publishers :
              \/ Relay(i) \/ RelayDies(i)
              \/ \E e \in Events : SendFails(i, e)
  BY <1>1, <1>4 DEF Relay, Claim, EndBatch, Send, RelayDies, SendFails,
                    loopVars, workVars
<1>5. CASE \E g \in Groups : Revoke(g) \/ \E c \in Consumers : Assign(g, c)
  BY <1>1, <1>5 DEF Revoke, Assign, workVars
<1>6. ASSUME NEW c \in Consumers,
             \/ DeadLetter(c) \/ SkipDuplicate(c) \/ ParkFailed(c) \/ Commit(c)
             \/ CommitNothing(c) \/ Restart(c)
      PROVE  Quiet
  BY <1>2, <1>6 DEF DeadLetter, SkipDuplicate, ParkFailed, Commit,
                    CommitNothing, Restart, Places, workVars
<1>7. ASSUME NEW c \in Consumers,
             DeadLetterFails(c) \/ ParkFails(c) \/ CommitFails(c)
      PROVE  Quiet
  BY <1>2, <1>7 DEF DeadLetterFails, ParkFails, CommitFails, Places, workVars
<1>8. ASSUME NEW c \in Consumers, DispatchFails(c) PROVE Quiet
  <2>1. \A g \in Groups : processed[g] \subseteq processed'[g]
    BY <1>8 DEF DispatchFails, TypeOK, WorkTypeOK
  <2> QED
    BY <1>2, <1>8, <2>1 DEF DispatchFails, Places
<1>9. ASSUME NEW c \in Consumers, Crash(c) PROVE Quiet
  <2>1. \A d \in Consumers, e \in Events : tasks'[d][e] <= tasks[d][e]
    BY <1>0, <1>9 DEF Crash, NoTasks, TypeOK, WorkTypeOK
  <2> QED
    BY <1>9, <2>1 DEF Crash, Done, Quiet, TypeOK, LoopTypeOK, workVars
<1>10. ASSUME NEW c \in Consumers, NEW e \in Events, TaskFails(c, e) PROVE Quiet
  <2>1. \A d \in Consumers, f \in Events : tasks'[d][f] <= tasks[d][f]
    BY <1>0, <1>10 DEF TaskFails, TypeOK, WorkTypeOK
  <2> QED
    BY <1>10, <2>1 DEF TaskFails, Quiet, loopVars, workVars
<1>11. CASE UNCHANGED vars
  BY <1>1, <1>11 DEF vars, loopVars, workVars
<1> QED
  BY <1>3, <1>4, <1>5, <1>6, <1>7, <1>8, <1>9, <1>10, <1>11
     DEF Next, Disturb, Consume, Tasks

\* What a consumer has in hand, or in a task, was offered.
LEMMA HandStep ==
  ASSUME TypeOK, WayBacked, [Next]_vars
  PROVE  HandBacked'
<1>0. /\ Offered \subseteq Offered' /\ HandBacked
      /\ \A c \in Consumers : GroupOf[c] \in Groups
      /\ \A c \in Consumers, e \in Events : tasks[c][e] \in Nat /\ tasks'[c][e] \in Nat
  BY OfferedGrows, TypeStep, DeliveryAssumption
     DEF WayBacked, TypeOK, WorkTypeOK
<1>1. ASSUME \A c \in Consumers :
               /\ pc'[c] \in {"mark", "handle"} =>
                    \/ pc[c] \in {"mark", "handle"} /\ msg'[c] = msg[c]
                    \/ msg'[c] \in Offered
               /\ \A e \in Events : tasks'[c][e] > 0 =>
                    tasks[c][e] > 0 \/ e \in Offered
      PROVE  HandBacked'
  BY <1>0, <1>1 DEF HandBacked
<1>2. CASE Quiet
  BY <1>0, <1>1, <1>2 DEF Quiet
<1>3. ASSUME NEW c \in Consumers, Poll(c) PROVE HandBacked'
  <2>1. pos[c] + 1 \in DOMAIN topic[GroupOf[c]]
    BY <1>0, <1>3 DEF Poll, TypeOK, FeedTypeOK
  <2>2. msg'[c] \in Offered
    <3>1. topic[GroupOf[c]][pos[c] + 1] \in Offered
      BY <1>0, <2>1 DEF WayBacked, TopicBacked
    <3> QED
      BY <1>3, <3>1 DEF Poll, TypeOK, LoopTypeOK
  <2> QED
    BY <1>1, <1>3, <2>2 DEF Poll, TypeOK, LoopTypeOK
<1>4. ASSUME NEW c \in Consumers, Mark(c) \/ HandleInline(c) PROVE HandBacked'
  BY <1>1, <1>4 DEF Mark, HandleInline, Go, TypeOK, LoopTypeOK
<1>5. ASSUME NEW c \in Consumers, HandleSpawn(c) PROVE HandBacked'
  <2>1. msg[c] \in Offered
    BY <1>0, <1>5 DEF HandleSpawn, HandBacked
  <2>2. \A d \in Consumers, e \in Events :
          tasks'[d][e] = tasks[d][e] \/ (d = c /\ e = msg[c])
    BY <1>5 DEF HandleSpawn, TypeOK, WorkTypeOK
  <2> QED
    BY <1>1, <1>5, <2>1, <2>2 DEF HandleSpawn, Go, TypeOK, LoopTypeOK
<1>6. ASSUME NEW c \in Consumers, NEW e \in Events, RunTask(c, e)
      PROVE  HandBacked'
  <2>1. \A d \in Consumers, f \in Events : tasks'[d][f] <= tasks[d][f]
    BY <1>0, <1>6 DEF RunTask, TypeOK, WorkTypeOK
  <2> QED
    BY <1>0, <1>1, <1>6, <2>1 DEF RunTask, loopVars
<1> QED
  BY <1>2, <1>3, <1>4, <1>5, <1>6, QuietSteps

\* Work that is not begun and not done leaves every mark in place.
LEMMA KeepWork ==
  ASSUME TypeOK, TypeOK', WorkInv, handled' = handled,
         \A g \in Groups : processed[g] \subseteq processed'[g],
         \A c \in Consumers, e \in Keyed :
           (Bound(c, e)' => Bound(c, e)) /\ tasks'[c][e] <= tasks[c][e]
  PROVE  WorkInv'
<1>0. /\ \A c \in Consumers : GroupOf[c] \in Groups
      /\ \A c \in Consumers, e \in Keyed :
           tasks[c][e] \in Nat /\ tasks'[c][e] \in Nat
  BY DeliveryAssumption DEF TypeOK, WorkTypeOK
<1>1. \A c \in Consumers, e \in Keyed :
        /\ Busy(c, e)' => Busy(c, e)
        /\ tasks'[c][e] > 0 => tasks[c][e] > 0
        /\ tasks[c][e] <= 1 => tasks'[c][e] <= 1
  BY <1>0 DEF Busy
<1>2. WorkMarked'
  BY <1>0, <1>1 DEF WorkInv, WorkMarked
<1>3. WorkOnce'
  BY <1>1 DEF WorkInv, WorkOnce
<1>4. WorkAlone'
  BY <1>1 DEF WorkInv, WorkAlone
<1>5. DoneMarked'
  BY DEF WorkInv, DoneMarked
<1> QED
  BY <1>2, <1>3, <1>4, <1>5 DEF WorkInv

\* Marking an event that was not marked begins the work on it, for the group.
LEMMA MarkBegins ==
  ASSUME TypeOK, TypeOK', WorkInv, NEW c \in Consumers, Mark(c)
  PROVE  WorkInv'
<1> DEFINE g == GroupOf[c]
<1>0. /\ g \in Groups /\ \A d \in Consumers : GroupOf[d] \in Groups
      /\ Keyed \subseteq Events
  BY DeliveryAssumption
<1>1. /\ handled' = handled /\ tasks' = tasks /\ msg' = msg
      /\ msg[c] \notin processed[g] /\ msg[c] \in processed'[g]
      /\ \A h \in Groups : processed[h] \subseteq processed'[h]
      /\ \A d \in Consumers \ {c} : pc'[d] = pc[d]
  BY <1>0 DEF Mark, Go, TypeOK, WorkTypeOK, LoopTypeOK
<1>2. \A d \in Consumers, e \in Keyed :
        Busy(d, e)' => Busy(d, e) \/ (d = c /\ e = msg[c])
  BY <1>1 DEF Busy, Bound
<1>3. \A d \in Consumers :
        GroupOf[d] = g /\ msg[c] \in Keyed => ~Busy(d, msg[c])
  BY <1>1 DEF WorkInv, WorkMarked
<1>4. msg[c] \in Keyed => handled[g][msg[c]] = 0
  <2> HAVE msg[c] \in Keyed
  <2>1. handled[g][msg[c]] \in Nat
    BY <1>0 DEF TypeOK, WorkTypeOK
  <2>2. ~(handled[g][msg[c]] > 0)
    BY <1>0, <1>1 DEF WorkInv, DoneMarked
  <2> QED
    BY <2>1, <2>2
<1>5. WorkMarked'
  BY <1>0, <1>1, <1>2, <1>4 DEF WorkInv, WorkMarked
<1>6. WorkOnce'
  <2> SUFFICES ASSUME NEW d \in Consumers, NEW e \in Keyed
               PROVE  tasks'[d][e] <= 1 /\ ~(Bound(d, e)' /\ tasks'[d][e] > 0)
    BY DEF WorkOnce
  <2>1. tasks[d][e] <= 1 /\ ~(Bound(d, e) /\ tasks[d][e] > 0)
    BY DEF WorkInv, WorkOnce
  <2>2. CASE d = c /\ e = msg[c]
    BY <1>1, <1>3, <2>1, <2>2 DEF Busy
  <2>3. CASE ~(d = c /\ e = msg[c])
    BY <1>1, <2>1, <2>3 DEF Bound
  <2> QED
    BY <2>2, <2>3
<1>7. WorkAlone'
  BY <1>2, <1>3 DEF WorkInv, WorkAlone
<1>8. DoneMarked'
  BY <1>1 DEF WorkInv, DoneMarked
<1> QED
  BY <1>5, <1>6, <1>7, <1>8 DEF WorkInv

\* What a consumer has polled is not work yet, if the event has a key.
LEMMA PollBegins ==
  ASSUME TypeOK, TypeOK', WorkInv, NEW c \in Consumers, Poll(c)
  PROVE  WorkInv'
<1>1. /\ UNCHANGED <<handled, processed, tasks>>
      /\ \A d \in Consumers \ {c} : pc'[d] = pc[d] /\ msg'[d] = msg[d]
      /\ pc'[c] = Validated(msg'[c])
  BY DEF Poll, workVars, TypeOK, LoopTypeOK
<1>2. \A e \in Keyed : ~Bound(c, e)'
  BY <1>1 DEF Bound, Validated
<1>3. \A d \in Consumers, e \in Keyed : Bound(d, e)' => Bound(d, e)
  BY <1>1, <1>2 DEF Bound
<1>4. \A d \in Consumers, e \in Keyed : tasks'[d][e] <= tasks[d][e]
  BY <1>1, DeliveryAssumption DEF TypeOK, WorkTypeOK
<1> QED
  BY <1>1, <1>3, <1>4, KeepWork

\* Leaving the work to a task leaves it with the same consumer.
LEMMA SpawnMoves ==
  ASSUME TypeOK, TypeOK', WorkInv, NEW c \in Consumers, HandleSpawn(c)
  PROVE  WorkInv'
<1>0. Keyed \subseteq Events
  BY DeliveryAssumption
<1>1. /\ UNCHANGED <<handled, processed, msg>>
      /\ pc[c] = "handle" /\ pc'[c] = "commit"
      /\ \A d \in Consumers \ {c} : pc'[d] = pc[d] /\ tasks'[d] = tasks[d]
      /\ \A e \in Keyed : tasks'[c][e] = IF e = msg[c] THEN tasks[c][e] + 1
                                                       ELSE tasks[c][e]
  BY <1>0 DEF HandleSpawn, Go, workVars, TypeOK, LoopTypeOK, WorkTypeOK
<1>2. \A e \in Keyed : tasks[c][e] \in Nat
  BY <1>0 DEF TypeOK, WorkTypeOK
<1>3. \A d \in Consumers, e \in Keyed : Busy(d, e)' => Busy(d, e)
  BY <1>1 DEF Busy, Bound
<1>4. WorkMarked' /\ WorkAlone'
  BY <1>1, <1>3 DEF WorkInv, WorkMarked, WorkAlone
<1>5. WorkOnce'
  <2> SUFFICES ASSUME NEW d \in Consumers, NEW e \in Keyed
               PROVE  tasks'[d][e] <= 1 /\ ~(Bound(d, e)' /\ tasks'[d][e] > 0)
    BY DEF WorkOnce
  <2>1. tasks[d][e] <= 1 /\ ~(Bound(d, e) /\ tasks[d][e] > 0)
    BY DEF WorkInv, WorkOnce
  <2>2. CASE d = c /\ e = msg[c]
    BY <1>1, <1>2, <2>1, <2>2 DEF Bound
  <2>3. CASE ~(d = c /\ e = msg[c])
    BY <1>1, <2>1, <2>3 DEF Bound
  <2> QED
    BY <2>2, <2>3
<1>6. DoneMarked'
  BY <1>1 DEF WorkInv, DoneMarked
<1> QED
  BY <1>4, <1>5, <1>6 DEF WorkInv

\* Doing the work ends it: the event is handled once, nobody is to do it again,
\* and it was offered.
LEMMA DoingOnce ==
  ASSUME TypeOK, TypeOK', WorkInv, NEW c \in Consumers, NEW e \in Keyed,
         Busy(c, e), Did(GroupOf[c], e), ~Busy(c, e)',
         UNCHANGED <<processed, msg>>,
         \A d \in Consumers, f \in Keyed :
           (Bound(d, f)' => Bound(d, f)) /\ tasks'[d][f] <= tasks[d][f]
  PROVE  WorkInv' /\ handled[GroupOf[c]][e] = 0 /\ handled'[GroupOf[c]][e] = 1
<1> DEFINE g == GroupOf[c]
<1>0. /\ g \in Groups /\ \A d \in Consumers : GroupOf[d] \in Groups
      /\ Keyed \subseteq Events
      /\ \A d \in Consumers, f \in Keyed :
           tasks[d][f] \in Nat /\ tasks'[d][f] \in Nat
  BY DeliveryAssumption DEF TypeOK, WorkTypeOK
<1>1. e \in processed[g] /\ handled[g][e] = 0
  BY DEF WorkInv, WorkMarked
<1>2. /\ handled'[g][e] = 1
      /\ \A h \in Groups, f \in Keyed :
           handled'[h][f] = handled[h][f] \/ (h = g /\ f = e)
  BY <1>0, <1>1 DEF Did, TypeOK, WorkTypeOK
<1>3. \A d \in Consumers, f \in Keyed :
        /\ Busy(d, f)' => Busy(d, f)
        /\ tasks'[d][f] > 0 => tasks[d][f] > 0
        /\ tasks[d][f] <= 1 => tasks'[d][f] <= 1
  BY <1>0 DEF Busy
<1>4. \A d \in Consumers : GroupOf[d] = g => ~Busy(d, e)'
  BY <1>3 DEF WorkInv, WorkAlone
<1>5. WorkMarked'
  BY <1>0, <1>2, <1>3, <1>4 DEF WorkInv, WorkMarked
<1>6. WorkOnce'
  BY <1>3 DEF WorkInv, WorkOnce
<1>7. WorkAlone'
  BY <1>3 DEF WorkInv, WorkAlone
<1>8. DoneMarked'
  BY <1>1, <1>2 DEF WorkInv, DoneMarked
<1> QED
  BY <1>1, <1>2, <1>5, <1>6, <1>7, <1>8 DEF WorkInv

\* Nothing is handled that has a key.
NoneHandled == \A g \in Groups, e \in Keyed : handled'[g][e] = handled[g][e]

\* Group g handles the event e, which was offered, for the first time.
FirstHandled(g, e) ==
  /\ e \in Offered /\ Offered' = Offered
  /\ handled[g][e] = 0
  /\ \A h \in Groups, f \in Keyed :
       handled'[h][f] = IF h = g /\ f = e THEN 1 ELSE handled[h][f]

\* Doing the work of any event keeps the marks, and is the first time if the
\* event has a key.
LEMMA DoneStep ==
  ASSUME TypeOK, TypeOK', WorkInv, NEW c \in Consumers, NEW e \in Offered,
         Did(GroupOf[c], e), e \in Keyed => Busy(c, e) /\ ~Busy(c, e)',
         UNCHANGED <<processed, msg, outbox>>,
         \A d \in Consumers, f \in Keyed :
           (Bound(d, f)' => Bound(d, f)) /\ tasks'[d][f] <= tasks[d][f]
  PROVE  WorkInv' /\ (NoneHandled \/ \E g \in Groups, f \in Keyed : FirstHandled(g, f))
<1> DEFINE g == GroupOf[c]
<1>0. g \in Groups /\ Keyed \subseteq Events /\ e \in Events /\ Offered' = Offered
  BY DeliveryAssumption DEF Offered
<1>1. \A h \in Groups, f \in Keyed :
        ~(h = g /\ f = e) => handled'[h][f] = handled[h][f]
  BY <1>0 DEF Did, TypeOK, WorkTypeOK
<1>2. CASE e \in Keyed
  <2>1. WorkInv' /\ handled[g][e] = 0 /\ handled'[g][e] = 1
    BY <1>2, DoingOnce
  <2>2. FirstHandled(g, e)
    BY <1>0, <1>1, <2>1 DEF FirstHandled
  <2> QED
    BY <1>0, <1>2, <2>1, <2>2
<1>3. CASE e \notin Keyed
  <2>1. NoneHandled
    BY <1>1, <1>3 DEF NoneHandled
  <2>2. \A d \in Consumers, f \in Keyed :
          /\ GroupOf[d] \in Groups
          /\ tasks[d][f] \in Nat /\ tasks'[d][f] \in Nat
    BY <1>0, DeliveryAssumption DEF TypeOK, WorkTypeOK
  <2>3. \A d \in Consumers, f \in Keyed :
          /\ Busy(d, f)' => Busy(d, f)
          /\ tasks'[d][f] > 0 => tasks[d][f] > 0
          /\ tasks[d][f] <= 1 => tasks'[d][f] <= 1
    BY <2>2 DEF Busy
  <2>4. WorkMarked'
    BY <2>1, <2>2, <2>3 DEF WorkInv, WorkMarked, NoneHandled
  <2>5. WorkOnce' /\ WorkAlone'
    BY <2>3 DEF WorkInv, WorkOnce, WorkAlone
  <2>6. DoneMarked'
    BY <2>1 DEF WorkInv, DoneMarked, NoneHandled
  <2> QED
    BY <2>1, <2>4, <2>5, <2>6 DEF WorkInv
<1> QED
  BY <1>2, <1>3

\* Every step keeps the marks, and handles at most one event, for the first time.
LEMMA WorkStep ==
  ASSUME TypeOK, OnceInv, [Next]_vars
  PROVE  WorkInv' /\ (NoneHandled \/ \E g \in Groups, e \in Keyed : FirstHandled(g, e))
<1>0. /\ TypeOK' /\ WorkInv /\ WayBacked /\ Keyed \subseteq Events
      /\ \A c \in Consumers, e \in Keyed : tasks[c][e] \in Nat
  BY TypeStep, DeliveryAssumption DEF OnceInv, TypeOK, WorkTypeOK
<1>1. CASE Quiet
  <2>1. \A c \in Consumers, e \in Keyed :
          (Bound(c, e)' => Bound(c, e)) /\ tasks'[c][e] <= tasks[c][e]
    BY <1>0, <1>1 DEF Quiet, Bound
  <2> QED
    BY <1>0, <1>1, <2>1, KeepWork DEF Quiet, NoneHandled
<1>2. ASSUME NEW c \in Consumers, Poll(c) PROVE WorkInv' /\ NoneHandled
  BY <1>0, <1>2, PollBegins DEF Poll, workVars, NoneHandled
<1>3. ASSUME NEW c \in Consumers, Mark(c) PROVE WorkInv' /\ NoneHandled
  BY <1>0, <1>3, MarkBegins DEF Mark, NoneHandled
<1>4. ASSUME NEW c \in Consumers, HandleSpawn(c) PROVE WorkInv' /\ NoneHandled
  BY <1>0, <1>4, SpawnMoves DEF HandleSpawn, workVars, NoneHandled
<1>5. ASSUME NEW c \in Consumers, HandleInline(c)
      PROVE  WorkInv' /\ (NoneHandled \/ \E g \in Groups, e \in Keyed : FirstHandled(g, e))
  <2>1. /\ msg[c] \in Offered /\ Did(GroupOf[c], msg[c])
        /\ UNCHANGED <<processed, msg, outbox, tasks>>
    BY <1>0, <1>5 DEF HandleInline, Go, WayBacked, HandBacked, relayVars
  <2>2. /\ pc[c] = "handle" /\ pc'[c] = "commit"
        /\ \A d \in Consumers \ {c} : pc'[d] = pc[d]
    BY <1>5 DEF HandleInline, Go, TypeOK, LoopTypeOK
  <2>3. \A d \in Consumers, f \in Keyed :
          (Bound(d, f)' => Bound(d, f)) /\ tasks'[d][f] <= tasks[d][f]
    BY <1>0, <2>1, <2>2 DEF Bound
  <2>4. msg[c] \in Keyed => Busy(c, msg[c]) /\ ~Busy(c, msg[c])'
    <3> HAVE msg[c] \in Keyed
    <3>1. Bound(c, msg[c]) /\ ~(tasks[c][msg[c]] > 0)
      BY <1>0, <2>2 DEF Bound, WorkInv, WorkOnce
    <3> QED
      BY <2>1, <2>2, <3>1 DEF Busy, Bound
  <2> QED
    BY <1>0, <2>1, <2>3, <2>4, DoneStep
<1>6. ASSUME NEW c \in Consumers, NEW e \in Events, RunTask(c, e)
      PROVE  WorkInv' /\ (NoneHandled \/ \E g \in Groups, f \in Keyed : FirstHandled(g, f))
  <2>1. /\ e \in Offered /\ Did(GroupOf[c], e)
        /\ UNCHANGED <<processed, msg, outbox, pc>>
    BY <1>0, <1>6 DEF RunTask, WayBacked, HandBacked, relayVars, loopVars
  <2>2. /\ tasks[c][e] > 0 /\ tasks'[c][e] = tasks[c][e] - 1
        /\ \A d \in Consumers, f \in Events :
             tasks'[d][f] = tasks[d][f] \/ (d = c /\ f = e)
    BY <1>6 DEF RunTask, TypeOK, WorkTypeOK
  <2>3. \A d \in Consumers, f \in Keyed :
          (Bound(d, f)' => Bound(d, f)) /\ tasks'[d][f] <= tasks[d][f]
    BY <1>0, <2>1, <2>2 DEF Bound
  <2>4. e \in Keyed => Busy(c, e) /\ ~Busy(c, e)'
    <3> HAVE e \in Keyed
    <3>1. tasks[c][e] = 1 /\ ~Bound(c, e)
      BY <1>0, <2>2 DEF WorkInv, WorkOnce
    <3> QED
      BY <2>1, <2>2, <3>1 DEF Busy, Bound
  <2> QED
    BY <1>0, <2>1, <2>3, <2>4, DoneStep
<1> QED
  BY <1>1, <1>2, <1>3, <1>4, <1>5, <1>6, QuietSteps

\* The invariant is inductive, with the types.
LEMMA OnceStep == TypeOK /\ OnceInv /\ [Next]_vars => OnceInv'
<1> SUFFICES ASSUME TypeOK, OnceInv, [Next]_vars PROVE OnceInv'
  OBVIOUS
<1>1. TopicBacked' /\ RowsBacked'
  BY RelayBacked DEF OnceInv
<1>2. HandBacked'
  BY HandStep DEF OnceInv
<1>3. WorkInv'
  BY WorkStep
<1> QED
  BY <1>1, <1>2, <1>3 DEF OnceInv, WayBacked

\* In every reachable state, work on an event with a key was begun by one
\* member of the group only, after marking it, and is not repeated.
THEOREM HandledOnce == Spec => []OnceInv
<1> QED
  BY OnceInit, OnceStep, TypeCorrect, PTL DEF Spec

------------------------------------------------------------------------------
(* The abstract specification is implemented. *)

\* The initial states map to the initial state of EventOnce.
LEMMA OnceInitial == Init => Once!Init
  BY DeliveryAssumption DEF Init, Once!Init, NoTasks

\* Every step maps to an Offer, a Handle or a stutter.
LEMMA OnceSimulates ==
  ASSUME TypeOK, OnceInv, [Next]_vars
  PROVE  [Once!Next]_<<{e \in Keyed : outbox[e] # "none"},
                       [g \in Groups |-> [e \in Keyed |-> handled[g][e]]]>>
<1> DEFINE offered == {e \in Keyed : outbox[e] # "none"}
           count   == [g \in Groups |-> [e \in Keyed |-> handled[g][e]]]
<1>0. Keyed \subseteq Events /\ offered = Keyed \cap Offered
      /\ offered' = Keyed \cap Offered'
  BY DeliveryAssumption DEF Offered
<1>1. CASE NoneHandled
  <2>1. count' = count
    BY <1>1 DEF NoneHandled
  <2>2. CASE Offered' = Offered
    BY <1>0, <2>1, <2>2
  <2>3. ASSUME NEW e \in Events, Offered' = Offered \cup {e}
        PROVE  offered' = offered \/ (e \in Keyed /\ offered' = offered \cup {e})
    BY <1>0, <2>3
  <2> QED
    BY <1>0, <2>1, <2>2, <2>3, OfferedGrows DEF Once!Next, Once!Offer, OnceInv
<1>2. ASSUME NEW g \in Groups, NEW e \in Keyed, FirstHandled(g, e)
      PROVE  Once!Next
  <2>1. offered' = offered /\ e \in offered
    BY <1>0, <1>2 DEF FirstHandled
  <2>2. count[g][e] = 0
    BY <1>2 DEF FirstHandled
  <2>3. count' = [count EXCEPT ![g][e] = 1]
    <3> DEFINE next == [h \in Groups |-> [f \in Keyed |->
                          IF h = g /\ f = e THEN 1 ELSE handled[h][f]]]
    <3>1. count' = next
      BY <1>2 DEF FirstHandled
    <3>2. [count[g] EXCEPT ![e] = 1] =
            [f \in Keyed |-> IF f = e THEN 1 ELSE handled[g][f]]
      OBVIOUS
    <3>3. [count EXCEPT ![g] = [count[g] EXCEPT ![e] = 1]] = next
      BY <3>2
    <3> QED
      BY <3>1, <3>3
  <2>4. Once!Handle(g, e)
    BY <2>1, <2>2, <2>3 DEF Once!Handle
  <2> QED
    BY <2>4 DEF Once!Next
<1> QED
  BY <1>1, <1>2, WorkStep

\* The outbox, Kafka and the consumers together implement EventOnce: an event
\* with a key is handled only after its transaction committed, and by each
\* group at most once, whatever is resent, redelivered, revoked or crashes.
THEOREM Implements == Spec => OnceSpec
<1>1. Init => Once!Init
  BY OnceInitial
<1>2. TypeOK /\ OnceInv /\ [Next]_vars =>
        [Once!Next]_<<{e \in Keyed : outbox[e] # "none"},
                      [g \in Groups |-> [e \in Keyed |-> handled[g][e]]]>>
  BY OnceSimulates
<1> QED
  BY <1>1, <1>2, TypeCorrect, HandledOnce, PTL DEF Spec, OnceSpec, Once!Spec

------------------------------------------------------------------------------
(* Once in the topic. *)

\* The rows a publisher has in hand are pending and nobody else's; it has tried a
\* row or not yet.
Hands(i) == batch[i] \cup sent[i]
HandsPending == \A i \in Publishers : \A e \in Hands(i) : outbox[e] = "pending"
HandsApart   == \A i \in Publishers :
                  /\ batch[i] \cap sent[i] = {}
                  /\ \A j \in Publishers \ {i} : Hands(i) \cap Hands(j) = {}

\* What is in a topic is marked, in an open transaction or a committed one.
TopicMarked ==
  \A g \in Groups, e \in Events : InTopic(g, e) =>
    outbox[e] = "published" \/ \E i \in Publishers : e \in sent[i]
NoneTwice ==
  \A g \in Groups : \A j, k \in DOMAIN topic[g] : topic[g][j] = topic[g][k] => j = k

\* The rows in hand are apart through every failure; the topic is clean until one.
HandsInv == HandsPending /\ HandsApart
TopicInv == faults = 0 => TopicMarked /\ NoneTwice

LEMMA HandsStart == Init => HandsInv /\ TopicInv
<1> SUFFICES ASSUME Init PROVE HandsInv /\ TopicInv
  OBVIOUS
<1>1. HandsInv
  BY DEF Init, HandsInv, HandsPending, HandsApart, Hands
<1>2. \A g \in Groups : topic[g] = <<>> /\ DOMAIN topic[g] = {}
  BY DEF Init
<1> QED
  BY <1>1, <1>2 DEF TopicInv, TopicMarked, NoneTwice, InTopic

\* A publisher takes only rows that are in nobody's hands; a row that is published,
\* by its publisher or directly, is in nobody's hands any more.
LEMMA HandsStep ==
  ASSUME TypeOK, HandsInv, [Next]_vars
  PROVE  HandsInv'
<1> USE DEF HandsInv
<1>0. /\ outbox \in [Events -> RowStates]
      /\ batch \in [Publishers -> SUBSET Keyed] /\ sent \in [Publishers -> SUBSET Keyed]
      /\ Keyed \subseteq Events
  BY DeliveryAssumption DEF TypeOK, RelayTypeOK
<1>1. ASSUME \A i \in Publishers : batch'[i] \subseteq batch[i] /\ sent'[i] \subseteq sent[i],
             \A i \in Publishers : \A e \in Hands(i)' : outbox'[e] = outbox[e]
      PROVE  HandsInv'
  BY <1>1 DEF HandsPending, HandsApart, Hands
<1>2. ASSUME NEW e \in Events, CommitBusiness(e) \/ SendDirect(e) \/ LoseDirect(e)
      PROVE  HandsInv'
  <2>1. /\ batch' = batch /\ sent' = sent
        /\ \A f \in Events \ {e} : outbox'[f] = outbox[f]
    BY <1>0, <1>2 DEF CommitBusiness, SendDirect, LoseDirect
  <2>2. outbox[e] = "none" \/ e \notin Keyed
    BY <1>2 DEF CommitBusiness, SendDirect, LoseDirect
  <2>3. \A i \in Publishers : e \notin Hands(i)
    BY <1>0, <2>2 DEF Hands, HandsPending
  <2> QED
    BY <1>0, <1>1, <2>1, <2>3 DEF Hands
<1>3. ASSUME NEW i \in Publishers, Claim(i) PROVE HandsInv'
  <2>1. /\ batch' = [batch EXCEPT ![i] = Oldest(Free)] /\ batch[i] = {} /\ sent[i] = {}
        /\ UNCHANGED <<outbox, sent>>
    BY <1>3 DEF Claim, Idle
  <2>2. /\ Oldest(Free) \subseteq Free
        /\ \A e \in Free : outbox[e] = "pending" /\ \A j \in Publishers : e \notin Hands(j)
    BY DEF Oldest, Free, Hands
  <2>3. /\ batch'[i] \subseteq Free /\ sent'[i] = {}
        /\ \A j \in Publishers \ {i} : batch'[j] = batch[j] /\ sent'[j] = sent[j]
    BY <1>0, <2>1, <2>2
  <2>4. HandsPending'
    BY <2>1, <2>2, <2>3 DEF HandsPending, Hands
  <2>5. HandsApart'
    BY <2>2, <2>3 DEF HandsApart, Hands
  <2> QED
    BY <2>4, <2>5
<1>4. ASSUME NEW i \in Publishers, NEW e \in Events, Send(i, e) PROVE HandsInv'
  <2>1. /\ e \in batch[i] /\ outbox' = outbox
        /\ batch'[i] = batch[i] \ {e} /\ sent'[i] = sent[i] \cup {e}
        /\ \A j \in Publishers \ {i} : batch'[j] = batch[j] /\ sent'[j] = sent[j]
    BY <1>0, <1>4 DEF Send, NextOf
  <2>2. \A j \in Publishers : Hands(j)' = Hands(j)
    BY <2>1 DEF Hands
  <2> QED
    BY <2>1, <2>2 DEF HandsPending, HandsApart
<1>5. ASSUME NEW i \in Publishers, EndBatch(i) PROVE HandsInv'
  <2>1. /\ batch' = batch /\ sent'[i] = {} /\ batch[i] = {}
        /\ \A j \in Publishers \ {i} : sent'[j] = sent[j]
        /\ \A e \in Events \ sent[i] : outbox'[e] = outbox[e]
    BY <1>0, <1>5 DEF EndBatch
  <2>2. \A j \in Publishers : \A e \in Hands(j)' : e \in Events \ sent[i]
    BY <1>0, <2>1 DEF Hands, HandsApart
  <2> QED
    BY <1>1, <2>1, <2>2
<1>6. ASSUME NEW i \in Publishers, RelayDies(i) \/ \E e \in Events : SendFails(i, e)
      PROVE  HandsInv'
  BY <1>0, <1>1, <1>6 DEF RelayDies, SendFails
<1>7. CASE UNCHANGED <<relayVars, topic>>
  BY <1>1, <1>7 DEF relayVars
<1> QED
  BY <1>2, <1>3, <1>4, <1>5, <1>6, <1>7, OthersKeep DEF Relay

\* A message that is not in a topic is in it once when it has been sent.
LEMMA SentNew ==
  ASSUME TypeOK, NoneTwice, NEW e \in Events, topic' = Append1(e),
         \A g \in Groups : ~InTopic(g, e)
  PROVE  NoneTwice'
<1>1. topic \in [Groups -> Seq(Events)]
  BY DEF TypeOK, FeedTypeOK
<1> SUFFICES ASSUME NEW g \in Groups, NEW j \in DOMAIN topic'[g], NEW k \in DOMAIN topic'[g],
                    topic'[g][j] = topic'[g][k]
             PROVE  j = k
  BY DEF NoneTwice
<1>2. CASE e \in Subscribed[g]
  <2>1. topic'[g] = Append(topic[g], e)
    BY <1>2 DEF Append1
  <2>2. /\ DOMAIN topic[g] = 1..Len(topic[g]) /\ Len(topic[g]) \in Nat
        /\ DOMAIN topic'[g] = 1..(Len(topic[g]) + 1)
        /\ topic'[g][Len(topic[g]) + 1] = e
        /\ \A m \in 1..Len(topic[g]) : topic'[g][m] = topic[g][m]
    BY <1>1, <2>1
  <2>3. \A m \in 1..Len(topic[g]) : topic[g][m] # e
    BY <2>2 DEF InTopic
  <2>4. \A m \in DOMAIN topic'[g] : m \in 1..Len(topic[g]) \/ m = Len(topic[g]) + 1
    BY <2>2
  <2> QED
    BY <2>2, <2>3, <2>4 DEF NoneTwice
<1>3. CASE e \notin Subscribed[g]
  <2>1. topic'[g] = topic[g]
    BY <1>3 DEF Append1
  <2> QED
    BY <2>1 DEF NoneTwice
<1> QED
  BY <1>2, <1>3

\* Without a failure only what was never sent is sent.
LEMMA TopicStep ==
  ASSUME TypeOK, HandsInv, TopicInv, [Next]_vars
  PROVE  TopicInv'
<1> SUFFICES ASSUME faults' = 0
             PROVE  TopicMarked' /\ NoneTwice'
  BY DEF TopicInv
<1>0. /\ outbox \in [Events -> RowStates]
      /\ batch \in [Publishers -> SUBSET Keyed] /\ sent \in [Publishers -> SUBSET Keyed]
      /\ topic \in [Groups -> Seq(Events)] /\ Keyed \subseteq Events /\ faults \in Nat
  BY DeliveryAssumption DEF TypeOK, RelayTypeOK, FeedTypeOK, FaultTypeOK
<1>1. \A f : ~Fault(f)
  BY <1>0 DEF Fault
<1>2. faults = 0
  <2>1. faults' = faults \/ \E f : Fault(f)
    BY DEF Next, Disturb, vars, faultVars, CommitBusiness, SendDirect, Relay, Claim, EndBatch,
           Send, Assign, Consume, Tasks, Poll, DeadLetter, Mark, SkipDuplicate, HandleInline,
           HandleSpawn, ParkFailed, Commit, CommitNothing, Restart, RunTask, LoseDirect,
           RelayDies, SendFails, Revoke, DeadLetterFails, DispatchFails, ParkFails,
           CommitFails, Crash, TaskFails
  <2> QED
    BY <1>1, <2>1
<1>3. TopicMarked /\ NoneTwice
  BY <1>2 DEF TopicInv
<1>4. ASSUME topic' = topic,
             \A e \in Events : outbox[e] = "published" => outbox'[e] = "published",
             \A e \in Events, i \in Publishers :
               e \in sent[i] => outbox'[e] = "published" \/ e \in sent'[i]
      PROVE  TopicMarked' /\ NoneTwice'
  BY <1>3, <1>4 DEF TopicMarked, NoneTwice, InTopic
<1>5. ASSUME NEW e \in Events, topic' = Append1(e),
             outbox[e] # "published", \A i \in Publishers : e \notin sent[i],
             outbox'[e] = "published" \/ \E i \in Publishers : e \in sent'[i],
             \A f \in Events : outbox[f] = "published" => outbox'[f] = "published",
             \A i \in Publishers : sent[i] \subseteq sent'[i]
      PROVE  TopicMarked' /\ NoneTwice'
  <2>1. \A g \in Groups : ~InTopic(g, e)
    BY <1>3, <1>5 DEF TopicMarked
  <2>2. NoneTwice'
    BY <1>3, <1>5, <2>1, SentNew
  <2>3. \A g \in Groups, f \in Events : InTopic(g, f)' => f = e \/ InTopic(g, f)
    BY <1>0, <1>5, Appending DEF InTopic
  <2>4. TopicMarked'
    BY <1>3, <1>5, <2>3 DEF TopicMarked
  <2> QED
    BY <2>2, <2>4
<1>6. ASSUME NEW e \in Events, CommitBusiness(e)
      PROVE  TopicMarked' /\ NoneTwice'
  BY <1>0, <1>4, <1>6 DEF CommitBusiness, kafkaVars
<1>7. ASSUME NEW e \in Events, SendDirect(e)
      PROVE  TopicMarked' /\ NoneTwice'
  BY <1>0, <1>5, <1>7 DEF SendDirect
<1>8. ASSUME NEW i \in Publishers, Claim(i)
      PROVE  TopicMarked' /\ NoneTwice'
  BY <1>4, <1>8 DEF Claim, kafkaVars
<1>9. ASSUME NEW i \in Publishers, EndBatch(i)
      PROVE  TopicMarked' /\ NoneTwice'
  BY <1>0, <1>4, <1>9 DEF EndBatch, kafkaVars
<1>10. ASSUME NEW i \in Publishers, NEW e \in Events, Send(i, e)
       PROVE  TopicMarked' /\ NoneTwice'
  <2>1. /\ e \in batch[i] /\ topic' = Append1(e) /\ outbox' = outbox
        /\ sent'[i] = sent[i] \cup {e} /\ \A j \in Publishers \ {i} : sent'[j] = sent[j]
    BY <1>0, <1>10 DEF Send, NextOf
  <2>2. outbox[e] = "pending" /\ \A j \in Publishers : e \notin sent[j]
    BY <2>1 DEF HandsInv, HandsPending, HandsApart, Hands
  <2> QED
    BY <1>5, <2>1, <2>2
<1>11. CASE UNCHANGED <<relayVars, topic>>
  BY <1>4, <1>11 DEF relayVars
<1>12. /\ \A e \in Events : ~LoseDirect(e)
       /\ \A i \in Publishers : ~RelayDies(i) /\ \A e \in Events : ~SendFails(i, e)
  BY <1>1 DEF LoseDirect, RelayDies, SendFails
<1> QED
  BY <1>6, <1>7, <1>8, <1>9, <1>10, <1>11, <1>12, OthersKeep DEF Relay

\* Without a failure each event is in the topic of a group once, however many
\* publishers share the table: nobody takes a row that another has in hand, and a
\* row leaves the hand of its publisher together with its mark.
THEOREM SentOnceWithoutFault == Spec => []ResentOnlyAfterFault
<1>1. TopicInv => ResentOnlyAfterFault
  BY DEF TopicInv, NoneTwice, ResentOnlyAfterFault
<1>2. TypeOK /\ HandsInv /\ TopicInv /\ [Next]_vars => HandsInv' /\ TopicInv'
  BY HandsStep, TopicStep
<1> QED
  BY <1>1, <1>2, HandsStart, TypeCorrect, PTL DEF Spec
==============================================================================
