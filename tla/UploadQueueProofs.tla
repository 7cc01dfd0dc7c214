---------------------------- MODULE UploadQueueProofs ----------------------------
(***************************************************************************)
(* A theorem about UploadQueue, for every finite set of files, every       *)
(* sharing of contents among them and any number of passes, retries and    *)
(* failures.                                                               *)
(***************************************************************************)
EXTENDS UploadQueue, FiniteSetTheorems, SequenceTheorems, TLAPS

Keys   == Files \cup Contents
States == {"begun", "checked", "uploading", "stalled", "ok", "failed", "dropped"}
Task   == [content : Contents, state : States]

\* The runs that were promised, those that may be called a duplicate's, and those
\* that are ingested.
Runs    == DOMAIN run
Done    == {r \in Runs : run[r].state = "ok"}
Vouched == Done \cup (early \cap Runs)

\* What may be said of a run on the screen, in a request and in the cache: only
\* that it was promised, a duplicate's if it is vouched for, uploaded if it is done.
Items ==
  {i \in [status : Statuses, run : Nat, tries : Nat] :
     /\ i.run # 0 => i.run \in Runs
     /\ i.status = "duplicate" => i.run \in Vouched
     /\ i.status = "success" => i.run \in Done}
Posts ==
  {p \in [file : Files, key : Keys, at : {"sent", "passed", "answered"},
          dup : BOOLEAN, run : Nat, live : BOOLEAN] :
     /\ p.at = "answered" => p.run \in Runs
     /\ p.dup => p.at = "answered" /\ p.run \in Vouched}
Replies ==
  {a \in [dup : BOOLEAN, run : Nat] : a.run \in Runs /\ (a.dup => a.run \in Vouched)}

UploadInv ==
  /\ item \in [Files -> Items]
  /\ queue \in Seq(Files)
  /\ posts \subseteq Posts
  /\ cache \in [Keys -> {NoAnswer} \cup Replies]
  /\ run \in Seq(Task)

-----------------------------------------------------------------------------
\* The files of a pass make a sequence.
LEMMA Passing ==
  ASSUME NEW S \in SUBSET Files
  PROVE  SetToSeq(S) \in Seq(Files)
<1>1. IsFiniteSet(S)
  BY UploadAssumption, FS_Subset
<1>2. Cardinality(S) \in Nat /\ ExistsBijection(1..Cardinality(S), S)
  BY <1>1, FS_CardinalityType
<1>3. \E g \in [1..Cardinality(S) -> S] : IsInjective(g)
  BY <1>2 DEF ExistsBijection, Bijection, Injection, IsInjective
<1>4. SetToSeq(S) \in [1..Cardinality(S) -> S]
  BY <1>3 DEF SetToSeq
<1> QED
  BY <1>2, <1>4

LEMMA UploadStart == UploadInit => UploadInv
<1> SUFFICES ASSUME UploadInit PROVE UploadInv
  OBVIOUS
<1>1. Blank("absent") \in Items
  BY DEF Blank, Items, Statuses
<1> QED
  BY <1>1 DEF UploadInit, UploadInv, Keys

\* No step takes a promise back: runs stay, and one that is ingested stays so.
\* So whatever may be said now may be said later.
LEMMA Lasting ==
  ASSUME Runs \subseteq Runs', Done \subseteq Done', early \subseteq early'
  PROVE  Items \subseteq Items' /\ Posts \subseteq Posts' /\ Replies \subseteq Replies'
<1>1. Vouched \subseteq Vouched'
  BY DEF Vouched
<1> QED
  BY <1>1 DEF Items, Posts, Replies

\* A step that leaves the runs alone.
LEMMA Staying ==
  ASSUME UNCHANGED <<run, early>>
  PROVE  /\ Items' = Items /\ Posts' = Posts /\ Replies' = Replies
         /\ Runs' = Runs /\ Done' = Done /\ Vouched' = Vouched
BY DEF Items, Posts, Replies, Runs, Done, Vouched

\* A step of the list that says of a file only what may be said of it.
LEMMA Listing ==
  ASSUME UploadInv, NEW f \in Files, NEW i \in Items,
         item' = [item EXCEPT ![f] = i], UNCHANGED <<queue, posts, cache, run, early>>
  PROVE  UploadInv'
BY Staying DEF UploadInv

\* A run that is not ingested yet takes another state.
LEMMA Running ==
  ASSUME UploadInv, NEW r \in Runs, run[r].state # "ok", NEW st \in States,
         Becomes(r, st), UNCHANGED <<pageVars, posts, cache, early>>
  PROVE  UploadInv'
<1>1. run[r] \in Task /\ run \in Seq(Task)
  BY DEF UploadInv, Runs
<1>2. run' \in Seq(Task) /\ Runs' = Runs
  BY <1>1 DEF Becomes, Task, Runs
<1>3. \A q \in Runs : q # r => run'[q] = run[q]
  BY <1>1 DEF Becomes, Runs
<1>4. Done \subseteq Done'
  BY <1>2, <1>3 DEF Done
<1> QED
  BY <1>2, <1>4, Lasting DEF UploadInv, pageVars

-----------------------------------------------------------------------------
LEMMA ListKeeps ==
  ASSUME UploadInv, NEW f \in Files,
         AddFile(f) \/ HashItem(f) \/ RemoveItem(f) \/ Tick(f) \/ TickFails(f)
  PROVE  UploadInv'
<1>1. item[f] \in Items
  BY DEF UploadInv
<1>2. \A st \in {"hashing", "ready"} : [item[f] EXCEPT !.status = st] \in Items
  BY <1>1 DEF Items, Statuses
<1>3. \A st \in {"removed", "failed"} : Blank(st) \in Items
  BY DEF Items, Statuses, Blank
<1>4. CASE AddFile(f)
  <2>1. item' = [item EXCEPT ![f] = [item[f] EXCEPT !.status = "hashing"]]
    BY <1>4 DEF AddFile
  <2> QED
    BY <1>2, <1>4, <2>1, Listing DEF AddFile
<1>5. CASE HashItem(f)
  <2>1. item' = [item EXCEPT ![f] = [item[f] EXCEPT !.status = "ready"]]
    BY <1>5 DEF HashItem
  <2> QED
    BY <1>2, <1>5, <2>1, Listing DEF HashItem
<1>6. CASE RemoveItem(f)
  BY <1>3, <1>6, Listing DEF RemoveItem
<1>7. ASSUME item' = Gone(f), UNCHANGED <<queue, posts, cache, run, early>>
      PROVE  UploadInv'
  <2> DEFINE again == [item[f] EXCEPT !.tries = @ + 1]
  <2>1. again \in Items
    BY <1>1 DEF Items
  <2>2. item' = [item EXCEPT ![f] = again] \/ item' = [item EXCEPT ![f] = Blank("failed")]
    BY <1>7 DEF Gone
  <2> HIDE DEF again
  <2> QED
    BY <1>3, <1>7, <2>1, <2>2, Listing
<1>8. CASE Tick(f)
  <2> DEFINE done == [item[f] EXCEPT !.status = "success", !.tries = 0]
             st   == run[item[f].run].state
  <2>1. st = "ok" => done \in Items
    BY <1>1, <1>8 DEF Items, Statuses, Tick, Polled, Done
  <2>2. \/ st = "ok" /\ item' = [item EXCEPT ![f] = done]
        \/ item' = [item EXCEPT ![f] = Blank("failed")]
        \/ item' = Gone(f)
    BY <1>8 DEF Tick
  <2>3. UNCHANGED <<queue, posts, cache, run, early>>
    BY <1>8 DEF Tick
  <2> HIDE DEF done, st
  <2> QED
    BY <1>3, <1>7, <2>1, <2>2, <2>3, Listing
<1>9. CASE TickFails(f)
  BY <1>7, <1>9 DEF TickFails
<1> QED
  BY <1>4, <1>5, <1>6, <1>8, <1>9

\* The pass over the list.
LEMMA PassKeeps ==
  ASSUME UploadInv, UploadAll \/ SendFile \/ EndPass
  PROVE  UploadInv'
<1>1. CASE UploadAll
  <2>1. queue' \in Seq(Files) /\ UNCHANGED <<item, posts, cache, run, early>>
    BY <1>1, Passing DEF UploadAll
  <2> QED
    BY <2>1, Staying DEF UploadInv
<1>2. CASE SendFile
  <2> DEFINE f == Head(queue)
             p == [file |-> f, key |-> Key(f), at |-> "sent", dup |-> FALSE, run |-> 0,
                   live |-> TRUE]
             i == [item[f] EXCEPT !.status = "uploading"]
  <2>1. /\ item' = [item EXCEPT ![f] = i] /\ posts' = posts \cup {p}
        /\ queue # <<>> /\ queue' = Tail(queue) /\ UNCHANGED <<cache, run, early>>
    BY <1>2 DEF SendFile
  <2>2. f \in Files /\ queue' \in Seq(Files)
    BY <2>1 DEF UploadInv
  <2>3. Key(f) \in Keys
    BY <2>2 DEF Key, Keys, Contents
  <2> HIDE DEF f
  <2>4. p \in Posts
    BY <2>2, <2>3 DEF Posts
  <2>5. i \in Items
    <3>1. item[f] \in Items
      BY <2>2 DEF UploadInv
    <3> QED
      BY <3>1 DEF Items, Statuses
  <2> HIDE DEF p, i
  <2> QED
    BY <2>1, <2>2, <2>4, <2>5, Staying DEF UploadInv
<1>3. CASE EndPass
  BY <1>3, Staying DEF EndPass, UploadInv
<1> QED
  BY <1>1, <1>2, <1>3

-----------------------------------------------------------------------------
\* A request goes on in a step that takes no promise back.
LEMMA GoesOn ==
  ASSUME UploadInv, NEW p \in posts, NEW q, q \in Posts', Passes(p, q),
         run' \in Seq(Task), Runs \subseteq Runs', Done \subseteq Done',
         early \subseteq early', UNCHANGED <<pageVars, cache>>
  PROVE  UploadInv'
BY Lasting DEF UploadInv, Passes, pageVars

LEMMA LookUpKeeps ==
  ASSUME UploadInv, NEW p \in posts, LookUp(p)
  PROVE  UploadInv'
<1> DEFINE reply == cache[p.key]
           q     == IF reply # NoAnswer
                    THEN [p EXCEPT !.at = "answered", !.dup = reply.dup, !.run = reply.run]
                    ELSE [p EXCEPT !.at = "passed"]
<1>1. Passes(p, q) /\ UNCHANGED <<pageVars, cache, run, early>>
  BY DEF LookUp
<1>2. p \in Posts /\ run \in Seq(Task)
  BY DEF UploadInv
<1>3. reply # NoAnswer => reply \in Replies
  BY <1>2 DEF UploadInv, Posts
<1>4. p.at = "sent"
  BY DEF LookUp
<1> HIDE DEF reply
<1>5. q \in Posts
  <2>1. CASE reply = NoAnswer
    BY <1>2, <1>4, <2>1 DEF Posts
  <2>2. CASE reply # NoAnswer
    BY <1>2, <1>3, <2>2 DEF Posts, Replies
  <2> QED
    BY <2>1, <2>2
<1> HIDE DEF q
<1> QED
  BY <1>1, <1>2, <1>5, Staying, GoesOn

LEMMA HandleKeeps ==
  ASSUME UploadInv, NEW p \in posts, Handle(p)
  PROVE  UploadInv'
<1> DEFINE c == ContentOf[p.file]
<1>1. /\ p \in Posts /\ run \in Seq(Task)
      /\ UNCHANGED <<pageVars, cache>>
  BY DEF UploadInv, Handle
<1>2. c \in Contents /\ p.at = "passed"
  BY <1>1 DEF Posts, Contents, Handle
<1>3. CASE \E r \in Existing(c) :
             /\ Passes(p, [p EXCEPT !.at = "answered", !.dup = TRUE, !.run = r])
             /\ early' = IF run[r].state \in {"uploading", "stalled"}
                         THEN early \cup {r} ELSE early
             /\ UNCHANGED run
  <2> PICK r \in Existing(c) :
        /\ Passes(p, [p EXCEPT !.at = "answered", !.dup = TRUE, !.run = r])
        /\ early' = IF run[r].state \in {"uploading", "stalled"}
                    THEN early \cup {r} ELSE early
        /\ UNCHANGED run
    BY <1>3
  <2> DEFINE q == [p EXCEPT !.at = "answered", !.dup = TRUE, !.run = r]
  <2>1. r \in Runs /\ r \in Nat /\ run[r].state \in {"uploading", "stalled", "ok"}
    BY <1>1 DEF Existing, Runs
  <2>2. Runs' = Runs /\ Done' = Done /\ early \subseteq early'
    BY DEF Runs, Done
  <2>3. r \in Vouched'
    BY <2>1, <2>2 DEF Vouched, Done, Runs
  <2>4. q \in Posts'
    BY <1>1, <2>1, <2>2, <2>3 DEF Posts
  <2> HIDE DEF q
  <2>5. Passes(p, q) /\ run' \in Seq(Task)
    BY <1>1 DEF q
  <2> QED
    BY <1>1, <2>2, <2>4, <2>5, GoesOn
<1>4. CASE /\ run' = Append(run, [content |-> c, state |-> "begun"])
           /\ Passes(p, [p EXCEPT !.at = "answered", !.run = Len(run')])
           /\ UNCHANGED early
  <2> DEFINE n == Len(run')
             q == [p EXCEPT !.at = "answered", !.run = n]
  <2>1. [content |-> c, state |-> "begun"] \in Task
    BY <1>2 DEF Task, States
  <2> HIDE DEF c
  <2>2. /\ run' \in Seq(Task) /\ DOMAIN run' = 1..n /\ n = Len(run) + 1 /\ n \in Nat
        /\ \A r \in 1..Len(run) : run'[r] = run[r]
    BY <1>1, <1>4, <2>1
  <2>3. Runs \subseteq Runs' /\ n \in Runs' /\ Done \subseteq Done'
    BY <1>1, <2>2 DEF Runs, Done
  <2> HIDE DEF n
  <2>4. q \in Posts'
    BY <1>1, <1>2, <2>2, <2>3 DEF Posts
  <2>5. Passes(p, q)
    BY <1>4 DEF n
  <2> HIDE DEF q
  <2>6. early \subseteq early'
    BY <1>4
  <2> QED
    BY <1>1, <2>2, <2>3, <2>4, <2>5, <2>6, GoesOn
<1> QED
  BY <1>3, <1>4 DEF Handle

\* The answer is kept, and shown if somebody still waits for it.
LEMMA AnswerKeeps ==
  ASSUME UploadInv, NEW p \in posts, Answer(p)
  PROVE  UploadInv'
<1> DEFINE f == p.file
           a == [dup |-> p.dup, run |-> p.run]
           i == [item[f] EXCEPT !.status = IF p.dup THEN "duplicate" ELSE "uploading",
                                !.run = p.run]
<1>1. p \in Posts /\ f \in Files /\ p.key \in Keys /\ p.at = "answered"
  BY DEF UploadInv, Posts, Answer
<1>2. a \in Replies
  BY <1>1 DEF Posts, Replies
<1>3. item[f] \in Items /\ i \in Items
  BY <1>1 DEF UploadInv, Items, Statuses, Posts
<1>4. /\ cache' = cache \/ cache' = [cache EXCEPT ![p.key] = a]
      /\ item' = item \/ item' = [item EXCEPT ![f] = i]
      /\ posts' = posts \ {p} /\ UNCHANGED <<queue, run, early>>
  BY DEF Answer, Shows
<1> HIDE DEF f, a, i
<1>5. item' \in [Files -> Items]
  BY <1>1, <1>3, <1>4 DEF UploadInv
<1>6. cache' \in [Keys -> {NoAnswer} \cup Replies]
  BY <1>1, <1>2, <1>4 DEF UploadInv
<1> QED
  BY <1>4, <1>5, <1>6, Staying DEF UploadInv

LEMMA SendFailsKeeps ==
  ASSUME UploadInv, NEW p \in posts, SendFails(p)
  PROVE  UploadInv'
<1> DEFINE q == [p EXCEPT !.live = FALSE]
<1>1. p \in Posts /\ p.file \in Files
  BY DEF UploadInv, Posts
<1>2. q \in Posts /\ Blank("failed") \in Items
  BY <1>1 DEF Posts, Items, Statuses, Blank
<1>3. /\ item' = [item EXCEPT ![p.file] = Blank("failed")]
      /\ posts' = posts \ {p} \/ posts' = (posts \ {p}) \cup {q}
      /\ UNCHANGED <<queue, cache, run, early>>
  BY DEF SendFails, Passes
<1> HIDE DEF q
<1> QED
  BY <1>1, <1>2, <1>3, Staying DEF UploadInv

-----------------------------------------------------------------------------
LEMMA TaskKeeps ==
  ASSUME UploadInv, NEW r \in DOMAIN run,
         CheckAgain(r) \/ Insert(r) \/ Ingested(r) \/ IngestFails(r) \/ IngestDies(r)
  PROVE  UploadInv'
<1>1. /\ run[r].state # "ok" /\ r \in Runs
      /\ UNCHANGED <<pageVars, posts, cache, early>>
  BY DEF CheckAgain, Insert, Ingested, IngestFails, IngestDies, Aside, Runs
<1>2. \E st \in States : Becomes(r, st)
  BY DEF CheckAgain, Insert, Ingested, IngestFails, IngestDies, States
<1> QED
  BY <1>1, <1>2, Running

LEMMA UploadStep == UploadInv /\ [UploadNext]_uploadVars => UploadInv'
<1> SUFFICES ASSUME UploadInv, [UploadNext]_uploadVars PROVE UploadInv'
  OBVIOUS
<1>1. ASSUME NEW f \in Files,
             AddFile(f) \/ HashItem(f) \/ RemoveItem(f) \/ Tick(f) \/ TickFails(f)
      PROVE  UploadInv'
  BY <1>1, ListKeeps
<1>2. CASE UploadAll \/ SendFile \/ EndPass
  BY <1>2, PassKeeps
<1>3. ASSUME NEW p \in posts, LookUp(p) \/ Handle(p) \/ Answer(p) \/ SendFails(p)
      PROVE  UploadInv'
  BY <1>3, LookUpKeeps, HandleKeeps, AnswerKeeps, SendFailsKeeps
<1>4. ASSUME NEW r \in DOMAIN run,
             CheckAgain(r) \/ Insert(r) \/ Ingested(r) \/ IngestFails(r) \/ IngestDies(r)
      PROVE  UploadInv'
  BY <1>4, TaskKeeps
<1>5. CASE UNCHANGED uploadVars
  BY <1>5, Staying DEF uploadVars, UploadInv
<1> QED
  BY <1>1, <1>2, <1>3, <1>4, <1>5 DEF UploadNext, Progress

-----------------------------------------------------------------------------
\* A file is shown as uploaded, or as already processed, only if it is ingested,
\* or a duplicate of one that was still being ingested when it was found
\* (upload_file, the replay of the gateway's filter and pollStatus of the page).
THEOREM ShownWasIngested == UploadSpec => []ShownIsIngested
<1>1. UploadInv => ShownIsIngested
  BY DEF UploadInv, ShownIsIngested, Items, Status, Vouched, Done
<1> QED
  BY <1>1, UploadStart, UploadStep, PTL DEF UploadSpec
=============================================================================
