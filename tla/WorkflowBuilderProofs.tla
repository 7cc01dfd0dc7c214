-------------------------- MODULE WorkflowBuilderProofs --------------------------
(***************************************************************************)
(* Theorems about WorkflowBuilder, for every set of cards, forks and       *)
(* fields, and every bound on edits, operations and failures.              *)
(***************************************************************************)
EXTENDS WorkflowBuilder, FiniteSetTheorems, TLAPS

SomeCard == Cards \cup {NoCard}
OpType == [kind : {"none", "add", "delete", "bind", "reload"},
           at   : {"done", "flush", "post", "drop", "bind", "load"},
           card : SomeCard, old : SomeCard, new : SomeCard]
Put  == [card : Cards, cfg : Config, by : {0} \cup Ops]
LoadType == [id : LoadIds, read : BOOLEAN, snap : Tree]
Mishaps  == {"failed", "crossed", "staleEdit", "staleBind"}
Grave    == {"failed", "crossed", "staleEdit"}

BuilderTypeOK ==
  /\ saved \in Tree /\ tree \in Tree
  /\ selected \in SomeCard
  /\ pending \in [Cards -> Config] /\ latest \in [Cards -> Config]
  /\ timer \subseteq Cards
  /\ puts \subseteq Put /\ loads \subseteq LoadType
  /\ ops \in [Ops -> OpType]
  /\ edits \in 1..MaxEdits /\ failures \in 0..MaxFailures
  /\ unsent \in [Cards -> SUBSET Fields]
  /\ asked \in [Ops -> [typed : [Cards -> Config], quiet : BOOLEAN]]
  /\ mishaps \subseteq Mishaps

\* The cards that there are or ever were: a new one is none of these.
Known == Cards \cap (FirstCards \cup {ops[j].card : j \in Ops})

\* A new card gets its id from the answer to its request.
CardLater(op) ==
  op.kind = "none" \/ (op.kind = "add" /\ op.at \in {"flush", "post"}) => op.card = NoCard

\* Only known cards are shown, and nothing was ever typed into another.
CardsKnown ==
  /\ saved.cards \subseteq Known /\ tree.cards \subseteq Known
  /\ \A l \in loads : l.snap.cards \subseteq Known
  /\ \A c \in Cards \ Known :
       /\ latest[c] = Unset /\ pending[c] = Unset /\ saved.cfg[c] = Unset
       /\ \A p \in puts : p.card # c
  /\ \A i \in Ops : CardLater(ops[i])

\* The last edits of a card are pending, or else on their way, or else saved.
EditsSomewhere ==
  mishaps \cap Grave = {} =>
    /\ \A p, q \in puts : p.card = q.card => p = q
    /\ \A c \in Cards : pending[c] # Unset => pending[c] = latest[c]
    /\ \A p \in puts : pending[p.card] = Unset => p.cfg = latest[p.card]
    /\ \A c \in saved.cards : pending[c] = Unset /\ (\A p \in puts : p.card # c)
                              => saved.cfg[c] = latest[c]

BuilderInv == BuilderTypeOK /\ CardsKnown /\ EditsSomewhere /\ PendingHasTimer

-----------------------------------------------------------------------------
LEMMA UnsetIsConfig == Unset \in Config
  BY BuilderAssumption DEF Unset, Config

LEMMA BuilderStart == BuilderInit => BuilderInv
<1> SUFFICES ASSUME BuilderInit PROVE BuilderInv
  OBVIOUS
<1>1. Opened \in [Cards -> Config]
  BY BuilderAssumption DEF Opened, Config
<1>2. FirstTree \in Tree
  BY <1>1, BuilderAssumption DEF FirstTree, Tree, Edges
<1>3. Asked(0) \in LoadType
  BY <1>2, BuilderAssumption DEF Asked, LoadType, LoadIds
<1>4. NoOp \in OpType
  BY DEF NoOp, OpType, SomeCard
<1>5. BuilderTypeOK
  <2>1. edits \in 1..MaxEdits /\ failures \in 0..MaxFailures
    BY BuilderAssumption DEF BuilderInit
  <2>2. asked \in [Ops -> [typed : [Cards -> Config], quiet : BOOLEAN]]
    BY <1>1 DEF BuilderInit
  <2>3. selected \in SomeCard
    BY BuilderAssumption DEF BuilderInit, SomeCard
  <2> QED
    BY <1>1, <1>2, <1>3, <1>4, <2>1, <2>2, <2>3, UnsetIsConfig DEF BuilderInit, BuilderTypeOK
<1>6. CardsKnown
  <2>1. FirstCards \subseteq Known
    BY BuilderAssumption DEF Known
  <2>2. \A c \in Cards \ FirstCards : Opened[c] = Unset
    BY DEF Opened, Unset
  <2>3. FirstTree.cards = FirstCards /\ FirstTree.cfg = Opened /\ Asked(0).snap = FirstTree
    BY DEF FirstTree, Asked
  <2>4. \A i \in Ops : ops[i].card = NoCard
    BY DEF BuilderInit, NoOp
  <2> QED
    BY <2>1, <2>2, <2>3, <2>4 DEF BuilderInit, CardsKnown, CardLater
<1>7. EditsSomewhere
  BY DEF BuilderInit, EditsSomewhere, FirstTree
<1>8. PendingHasTimer
  BY DEF BuilderInit, PendingHasTimer
<1> QED
  BY <1>5, <1>6, <1>7, <1>8 DEF BuilderInv

-----------------------------------------------------------------------------
(* Editing.                                                                *)

\* Unless it was made on a screen behind an earlier edit, an edit leaves exactly
\* what was typed last in the configuration to be sent.
LEMMA Merging ==
  ASSUME BuilderTypeOK, NEW c \in Cards, NEW f \in Fields, NEW whole \in BOOLEAN,
         edits < MaxEdits
  PROVE  /\ Merged(c, Incoming(c, f, whole)) \in Config
         /\ [latest EXCEPT ![c][f] = edits + 1] \in [Cards -> Config]
         /\ /\ \A g \in Fields \ {f} : tree.cfg[c][g] = latest[c][g]
            /\ pending[c] # Unset => pending[c] = latest[c]
            => Merged(c, Incoming(c, f, whole)) = [latest[c] EXCEPT ![f] = edits + 1]
<1> DEFINE inc  == Incoming(c, f, whole)
           next == Merged(c, inc)
<1>1. /\ edits + 1 \in 0..MaxEdits /\ edits + 1 # 0
      /\ tree.cfg[c] \in Config /\ pending[c] \in Config /\ latest[c] \in Config
  BY BuilderAssumption DEF BuilderTypeOK, Tree
<1>2. inc = [g \in Fields |-> IF g = f THEN edits + 1
                              ELSE IF whole THEN tree.cfg[c][g] ELSE 0]
  <2>1. CASE whole
    BY <1>1, <2>1 DEF Incoming, Spread, Unset, Config
  <2>2. CASE ~whole
    BY <1>1, <2>2 DEF Incoming, Unset
  <2> QED
    BY <2>1, <2>2
<1>3. next = [g \in Fields |-> IF inc[g] # 0 THEN inc[g]
                              ELSE IF pending[c][g] # 0 THEN pending[c][g] ELSE tree.cfg[c][g]]
  <2> HIDE DEF inc
  <2> DEFINE rest == Spread(pending[c], tree.cfg[c])
  <2>1. rest = [g \in Fields |-> IF pending[c][g] # 0 THEN pending[c][g] ELSE tree.cfg[c][g]]
    BY DEF Spread
  <2>2. next = [g \in Fields |-> IF inc[g] # 0 THEN inc[g] ELSE rest[g]]
    BY DEF Merged, Spread
  <2>3. \A g \in Fields : rest[g] = IF pending[c][g] # 0 THEN pending[c][g] ELSE tree.cfg[c][g]
    BY <2>1
  <2> HIDE DEF rest
  <2> QED
    BY <2>2, <2>3
<1>4. \A g \in Fields : inc[g] \in 0..MaxEdits
  <2> HIDE DEF inc
  <2> QED
    BY <1>1, <1>2, BuilderAssumption DEF Config
<1>5. next \in Config
  <2> HIDE DEF inc, next
  <2> QED
    BY <1>1, <1>3, <1>4 DEF Config
<1>6. [latest EXCEPT ![c][f] = edits + 1] \in [Cards -> Config]
  BY <1>1 DEF BuilderTypeOK, Config
<1>7. ASSUME \A g \in Fields \ {f} : tree.cfg[c][g] = latest[c][g],
             pending[c] # Unset => pending[c] = latest[c]
      PROVE  next = [latest[c] EXCEPT ![f] = edits + 1]
  <2>1. \A g \in Fields : pending[c][g] # 0 => pending[c][g] = latest[c][g]
    BY <1>7 DEF Unset
  <2> HIDE DEF inc, next
  <2>2. \A g \in Fields : next[g] = IF g = f THEN edits + 1 ELSE latest[c][g]
    BY <1>1, <1>2, <1>3, <1>7, <2>1
  <2>3. next = [g \in Fields |-> next[g]]
    BY <1>3
  <2>4. [latest[c] EXCEPT ![f] = edits + 1]
          = [g \in Fields |-> IF g = f THEN edits + 1 ELSE latest[c][g]]
    BY <1>1 DEF Config
  <2> QED
    BY <2>2, <2>3, <2>4
<1> QED
  BY <1>5, <1>6, <1>7

LEMMA EditKeeps ==
  ASSUME BuilderInv, NEW c \in Cards, NEW f \in Fields, NEW whole \in BOOLEAN,
         Edit(c, f, whole)
  PROVE  BuilderInv'
<1> USE DEF BuilderInv
<1> DEFINE next == Merged(c, Incoming(c, f, whole))
<1>1. /\ edits < MaxEdits /\ c \in tree.cards
      /\ pending' = [pending EXCEPT ![c] = next]
      /\ tree' = [tree EXCEPT !.cfg[c] = next]
      /\ timer' = timer \cup {c} /\ edits' = edits + 1
      /\ latest' = [latest EXCEPT ![c][f] = edits + 1]
      /\ unsent' = [unsent EXCEPT ![c] = @ \cup {f}]
      /\ mishaps' = IF \E g \in Fields \ {f} : tree.cfg[c][g] # latest[c][g]
                    THEN mishaps \cup {"staleEdit"} ELSE mishaps
      /\ UNCHANGED <<saved, puts, loads, ops, selected, failures, asked>>
  BY DEF Edit, requestVars
<1>2. /\ next \in Config /\ latest' \in [Cards -> Config]
      /\ /\ \A g \in Fields \ {f} : tree.cfg[c][g] = latest[c][g]
         /\ pending[c] # Unset => pending[c] = latest[c]
         => next = [latest[c] EXCEPT ![f] = edits + 1]
  BY <1>1, Merging
<1> HIDE DEF next
<1>3. /\ latest'[c] = [latest[c] EXCEPT ![f] = edits + 1] /\ pending'[c] = next
      /\ \A d \in Cards \ {c} : latest'[d] = latest[d] /\ pending'[d] = pending[d]
  BY <1>1 DEF BuilderTypeOK
<1>4. BuilderTypeOK'
  <2>1. tree' \in Tree
    BY <1>1, <1>2 DEF BuilderTypeOK, Tree
  <2>2. pending' \in [Cards -> Config] /\ unsent' \in [Cards -> SUBSET Fields]
        /\ edits' \in 1..MaxEdits /\ mishaps' \subseteq Mishaps
    BY <1>1, <1>2, BuilderAssumption DEF BuilderTypeOK, Mishaps
  <2> QED
    BY <1>1, <1>2, <2>1, <2>2 DEF BuilderTypeOK
<1>5. CardsKnown'
  <2>1. tree'.cards = tree.cards /\ c \in Known /\ Known' = Known
    BY <1>1 DEF CardsKnown, Known, BuilderTypeOK, Tree
  <2> QED
    BY <1>1, <1>3, <2>1 DEF CardsKnown
<1>6. EditsSomewhere'
  <2> SUFFICES ASSUME mishaps' \cap Grave = {}
               PROVE  EditsSomewhere'
    BY DEF EditsSomewhere
  <2>1. mishaps \cap Grave = {} /\ \A g \in Fields \ {f} : tree.cfg[c][g] = latest[c][g]
    BY <1>1 DEF Grave
  <2>2. pending'[c] = latest'[c]
    BY <1>2, <1>3, <2>1 DEF EditsSomewhere
  <2>3. latest'[c] # Unset
    <3>1. latest'[c][f] = edits + 1 /\ edits + 1 # 0
      BY <1>3, BuilderAssumption DEF BuilderTypeOK, Config
    <3> QED
      BY <3>1 DEF Unset
  <2> QED
    BY <1>1, <1>3, <2>1, <2>2, <2>3 DEF EditsSomewhere, BuilderTypeOK, Put, Tree
<1>7. PendingHasTimer'
  BY <1>1, <1>3 DEF PendingHasTimer
<1> QED
  BY <1>4, <1>5, <1>6, <1>7

-----------------------------------------------------------------------------
(* Sending.                                                                *)

\* Taking the patches of some cards out and sending them keeps the last edits
\* somewhere, and the timers of the other cards.
LEMMA Flushing ==
  ASSUME BuilderInv, NEW cs \in SUBSET Cards, NEW by \in {0} \cup Ops, Flush(cs, by),
         UNCHANGED <<latest, saved>>, timer \ cs \subseteq timer'
  PROVE  /\ pending' \in [Cards -> Config] /\ puts' \subseteq Put
         /\ unsent' \in [Cards -> SUBSET Fields] /\ mishaps' \subseteq Mishaps
         /\ \A c \in Cards : pending[c] = Unset =>
              pending'[c] = Unset /\ \A p \in puts' \ puts : p.card # c
         /\ EditsSomewhere' /\ PendingHasTimer'
<1> USE DEF BuilderInv
<1> DEFINE sent == Patched(cs)
<1>1. /\ sent \subseteq cs /\ \A c \in cs : c \in sent <=> pending[c] # Unset
  BY DEF Patched
<1> HIDE DEF sent
<1>2. /\ pending' = [c \in Cards |-> IF c \in sent THEN Unset ELSE pending[c]]
      /\ puts' = puts \cup {[card |-> c, cfg |-> pending[c], by |-> by] : c \in sent}
      /\ unsent' = [c \in Cards |-> IF c \in sent THEN {} ELSE unsent[c]]
      /\ mishaps' = IF \E c \in sent, p \in puts : p.card = c
                    THEN mishaps \cup {"crossed"} ELSE mishaps
  BY DEF Flush, sent
<1>3. \A p \in puts' \ puts : p.card \in sent /\ p.cfg = pending[p.card] /\ p.by = by
                             /\ p = [card |-> p.card, cfg |-> p.cfg, by |-> by]
  BY <1>2
<1>4. /\ pending' \in [Cards -> Config] /\ unsent' \in [Cards -> SUBSET Fields]
      /\ mishaps' \subseteq Mishaps
  BY <1>2, UnsetIsConfig DEF BuilderTypeOK, Mishaps
<1>5. puts' \subseteq Put
  <2> SUFFICES ASSUME NEW p \in puts' \ puts PROVE p \in Put
    BY DEF BuilderTypeOK
  <2>1. p.card \in Cards /\ p.cfg \in Config
    BY <1>1, <1>3 DEF BuilderTypeOK
  <2> QED
    BY <1>3, <2>1 DEF Put
<1>6. \A c \in Cards : pending[c] = Unset =>
        pending'[c] = Unset /\ \A p \in puts' \ puts : p.card # c
  BY <1>1, <1>2, <1>3
<1>7. EditsSomewhere'
  <2> SUFFICES ASSUME mishaps' \cap Grave = {}
               PROVE  EditsSomewhere'
    BY DEF EditsSomewhere
  <2>1. mishaps \cap Grave = {} /\ \A c \in sent, p \in puts : p.card # c
    BY <1>2 DEF Grave
  <2>2. \A p, q \in puts' : p.card = q.card => p = q
    <3> SUFFICES ASSUME NEW p \in puts', NEW q \in puts', p.card = q.card PROVE p = q
      OBVIOUS
    <3>1. CASE p \in puts /\ q \in puts
      BY <2>1, <3>1 DEF EditsSomewhere
    <3>2. CASE p \notin puts /\ q \notin puts
      BY <1>3, <3>2
    <3>3. CASE (p \in puts /\ q \notin puts) \/ (p \notin puts /\ q \in puts)
      BY <1>3, <2>1, <3>3
    <3> QED
      BY <3>1, <3>2, <3>3
  <2>3. \A c \in Cards : pending'[c] # Unset => pending'[c] = latest'[c]
    BY <1>2, <2>1 DEF EditsSomewhere
  <2>4. \A p \in puts' : pending'[p.card] = Unset => p.cfg = latest'[p.card]
    <3> SUFFICES ASSUME NEW p \in puts', pending'[p.card] = Unset
                 PROVE  p.cfg = latest[p.card]
      OBVIOUS
    <3>1. p.card \in Cards
      BY <1>5 DEF Put
    <3>2. CASE p \in puts
      <4>1. p.card \notin sent
        BY <2>1, <3>2
      <4> QED
        BY <1>2, <2>1, <3>1, <3>2, <4>1 DEF EditsSomewhere
    <3>3. CASE p \notin puts
      BY <1>1, <1>3, <2>1, <3>1, <3>3 DEF EditsSomewhere
    <3> QED
      BY <3>2, <3>3
  <2>5. \A c \in saved'.cards : pending'[c] = Unset /\ (\A p \in puts' : p.card # c)
                                => saved'.cfg[c] = latest'[c]
    <3> SUFFICES ASSUME NEW c \in saved.cards, pending'[c] = Unset, \A p \in puts' : p.card # c
                 PROVE  saved.cfg[c] = latest[c]
      OBVIOUS
    <3>1. c \in Cards
      BY DEF BuilderTypeOK, Tree
    <3>2. c \notin sent
      <4> SUFFICES ASSUME c \in sent PROVE FALSE
        OBVIOUS
      <4>1. [card |-> c, cfg |-> pending[c], by |-> by] \in puts'
        BY <1>2
      <4> QED
        BY <4>1
    <3> QED
      BY <1>2, <2>1, <3>1, <3>2 DEF EditsSomewhere
  <2> QED
    BY <2>2, <2>3, <2>4, <2>5 DEF EditsSomewhere
<1>8. PendingHasTimer'
  BY <1>1, <1>2 DEF PendingHasTimer
<1> QED
  BY <1>4, <1>5, <1>6, <1>7, <1>8

LEMMA FlushTimerKeeps ==
  ASSUME BuilderInv, NEW c \in Cards, FlushTimer(c)
  PROVE  BuilderInv'
<1> USE DEF BuilderInv
<1>1. /\ timer' = timer \ {c} /\ Flush({c}, 0)
      /\ UNCHANGED <<saved, tree, selected, loads, ops, edits, failures, latest, asked>>
  BY DEF FlushTimer
<1>2. /\ pending' \in [Cards -> Config] /\ puts' \subseteq Put
      /\ unsent' \in [Cards -> SUBSET Fields] /\ mishaps' \subseteq Mishaps
      /\ \A d \in Cards : pending[d] = Unset =>
           pending'[d] = Unset /\ \A p \in puts' \ puts : p.card # d
      /\ EditsSomewhere' /\ PendingHasTimer'
  BY <1>1, Flushing
<1>3. BuilderTypeOK'
  BY <1>1, <1>2 DEF BuilderTypeOK
<1>4. CardsKnown'
  BY <1>1, <1>2 DEF CardsKnown, Known
<1> QED
  BY <1>2, <1>3, <1>4

LEMMA PutKeeps ==
  ASSUME BuilderInv, NEW p \in puts, PutArrives(p) \/ PutFails(p)
  PROVE  BuilderInv'
<1> USE DEF BuilderInv
<1>1. /\ puts' = puts \ {p} /\ saved' \in {saved, Store(p)}
      /\ UNCHANGED <<tree, selected, pending, timer, loads, ops, edits, latest, unsent, asked>>
      /\ mishaps \subseteq mishaps' /\ mishaps' \subseteq Mishaps
      /\ failures' \in 0..MaxFailures
  <2>1. CASE PutArrives(p)
    BY <2>1 DEF PutArrives, BuilderTypeOK, Mishaps
  <2>2. CASE PutFails(p)
    <3>1. failures' \in 0..MaxFailures
      BY <2>2, BuilderAssumption DEF PutFails, BuilderTypeOK
    <3> QED
      BY <2>2, <3>1 DEF PutFails, BuilderTypeOK, Mishaps
  <2> QED
    BY <2>1, <2>2
<1>2. p \in Put
  BY DEF BuilderTypeOK
<1>3. /\ saved' \in Tree /\ saved'.cards = saved.cards
      /\ \A c \in Cards \ {p.card} : saved'.cfg[c] = saved.cfg[c]
  <2>1. CASE saved' = saved
    BY <2>1 DEF BuilderTypeOK
  <2>2. CASE p.card \in saved.cards /\ saved' = [saved EXCEPT !.cfg[p.card] = p.cfg]
    <3>1. p.card \in Cards /\ p.cfg \in Config /\ saved.cfg \in [Cards -> Config]
      BY <1>2 DEF Put, BuilderTypeOK, Tree
    <3>2. saved'.cfg = [saved.cfg EXCEPT ![p.card] = p.cfg] /\ saved'.cards = saved.cards
          /\ saved' \in Tree
      BY <2>2, <3>1 DEF BuilderTypeOK, Tree
    <3> QED
      BY <3>1, <3>2
  <2> QED
    BY <1>1, <2>1, <2>2 DEF Store
<1>4. BuilderTypeOK'
  BY <1>1, <1>3 DEF BuilderTypeOK
<1>5. CardsKnown'
  <2>1. p.card \in Known
    BY <1>2 DEF CardsKnown, Put
  <2>2. Known' = Known
    BY <1>1 DEF Known
  <2> QED
    BY <1>1, <1>3, <2>1, <2>2 DEF CardsKnown
<1>6. EditsSomewhere'
  <2> SUFFICES ASSUME mishaps' \cap Grave = {}
               PROVE  EditsSomewhere'
    BY DEF EditsSomewhere
  <2>1. mishaps \cap Grave = {} /\ PutArrives(p) /\ p.card \in saved.cards
    BY <1>1 DEF PutArrives, PutFails, Grave
  <2>2. saved'.cfg[p.card] = p.cfg
    BY <1>2, <2>1 DEF PutArrives, Store, BuilderTypeOK, Tree, Put
  <2>3. \A q \in puts' : q.card # p.card
    BY <1>1, <2>1 DEF EditsSomewhere
  <2>4. \A c \in saved'.cards : pending'[c] = Unset /\ (\A q \in puts' : q.card # c)
                                => saved'.cfg[c] = latest'[c]
    <3> SUFFICES ASSUME NEW c \in saved.cards, pending[c] = Unset, \A q \in puts' : q.card # c
                 PROVE  saved'.cfg[c] = latest[c]
      BY <1>1, <1>3
    <3>1. CASE c = p.card
      BY <2>1, <2>2, <3>1 DEF EditsSomewhere
    <3>2. CASE c # p.card
      BY <1>1, <1>3, <2>1, <3>2 DEF EditsSomewhere, BuilderTypeOK, Tree
    <3> QED
      BY <3>1, <3>2
  <2> QED
    BY <1>1, <2>1, <2>4 DEF EditsSomewhere
<1>7. PendingHasTimer'
  BY <1>1 DEF PendingHasTimer
<1> QED
  BY <1>4, <1>5, <1>6, <1>7

-----------------------------------------------------------------------------
(* Operations.                                                             *)

\* A step that takes no edit and sends none, and creates unknown cards only.
LEMMA Frame ==
  ASSUME BuilderInv, UNCHANGED <<pending, puts, latest, timer>>, mishaps \subseteq mishaps',
         Known \subseteq Known', saved'.cfg = saved.cfg,
         saved'.cards \subseteq Known' \cap (saved.cards \cup (Cards \ Known)),
         tree'.cards \subseteq Known', \A l \in loads' : l.snap.cards \subseteq Known',
         \A i \in Ops : CardLater(ops'[i])
  PROVE  CardsKnown' /\ EditsSomewhere' /\ PendingHasTimer'
<1> USE DEF BuilderInv
<1>1. CardsKnown'
  BY DEF CardsKnown, CardLater
<1>2. \A c \in Cards \ Known : saved.cfg[c] = latest[c]
  BY DEF CardsKnown
<1>3. EditsSomewhere'
  BY <1>2 DEF EditsSomewhere
<1>4. PendingHasTimer'
  BY DEF PendingHasTimer
<1> QED
  BY <1>1, <1>3, <1>4

LEMMA KnownGrows ==
  ASSUME \A j \in Ops : ops[j].card \in {NoCard, ops'[j].card}
  PROVE  Known \subseteq Known'
<1> SUFFICES ASSUME NEW c \in Known PROVE c \in Known'
  OBVIOUS
<1>1. CASE c \in FirstCards
  BY <1>1 DEF Known
<1>2. ASSUME NEW j \in Ops, c = ops[j].card PROVE c \in Known'
  <2>1. c = ops'[j].card
    BY <1>2, BuilderAssumption DEF Known
  <2> QED
    BY <1>2, <2>1 DEF Known
<1> QED
  BY <1>1, <1>2 DEF Known

\* A click begins an operation and leaves the rest to its handler.
LEMMA Clicking ==
  ASSUME BuilderInv, NEW i \in Ops, NEW op \in OpType, Click(i, op), CardLater(op)
  PROVE  /\ ops' \in [Ops -> OpType]
         /\ asked' \in [Ops -> [typed : [Cards -> Config], quiet : BOOLEAN]]
         /\ \A j \in Ops : CardLater(ops'[j])
         /\ Known \subseteq Known'
         /\ UNCHANGED <<saved, tree, selected, loads, edits, failures, latest>>
<1> USE DEF BuilderInv
<1>1. /\ ops[i] = NoOp /\ ops' = [ops EXCEPT ![i] = op]
      /\ asked' = [asked EXCEPT ![i] = [typed |-> latest, quiet |-> puts = {}]]
      /\ UNCHANGED <<saved, tree, selected, loads, edits, failures, latest>>
  BY DEF Click
<1>2. ops' \in [Ops -> OpType] /\ ops'[i] = op /\ \A j \in Ops \ {i} : ops'[j] = ops[j]
  BY <1>1 DEF BuilderTypeOK
<1>3. asked' \in [Ops -> [typed : [Cards -> Config], quiet : BOOLEAN]]
  BY <1>1 DEF BuilderTypeOK
<1>4. \A j \in Ops : CardLater(ops'[j])
  BY <1>2 DEF CardsKnown
<1>5. ops[i].card = NoCard
  BY <1>1 DEF NoOp
<1>6. Known \subseteq Known'
  BY <1>2, <1>5, KnownGrows
<1> QED
  BY <1>1, <1>2, <1>3, <1>4, <1>6

\* What the handlers of addCard and deleteCard begin with.
LEMMA FlushingClick ==
  ASSUME BuilderInv, NEW i \in Ops, NEW op \in OpType, Click(i, op), CardLater(op),
         FlushAll(i)
  PROVE  BuilderInv'
<1> USE DEF BuilderInv
<1>1. /\ ops' \in [Ops -> OpType]
      /\ asked' \in [Ops -> [typed : [Cards -> Config], quiet : BOOLEAN]]
      /\ \A j \in Ops : CardLater(ops'[j])
      /\ Known \subseteq Known'
      /\ UNCHANGED <<saved, tree, selected, loads, edits, failures, latest>>
  BY Clicking
<1>2. /\ timer' = {} /\ Flush(Cards, i)
  BY DEF FlushAll
<1>3. /\ pending' \in [Cards -> Config] /\ puts' \subseteq Put
      /\ unsent' \in [Cards -> SUBSET Fields] /\ mishaps' \subseteq Mishaps
      /\ \A d \in Cards : pending[d] = Unset =>
           pending'[d] = Unset /\ \A p \in puts' \ puts : p.card # d
      /\ EditsSomewhere' /\ PendingHasTimer'
  <2>1. timer \ Cards \subseteq timer'
    BY DEF BuilderTypeOK
  <2> QED
    BY <1>1, <1>2, <2>1, Flushing
<1>4. BuilderTypeOK'
  BY <1>1, <1>2, <1>3 DEF BuilderTypeOK
<1>5. CardsKnown'
  <2>1. \A c \in Cards \ Known' : c \in Cards \ Known
    BY <1>1
  <2>2. \A c \in Cards \ Known' : /\ latest'[c] = Unset /\ pending'[c] = Unset
                                  /\ saved'.cfg[c] = Unset /\ \A p \in puts' : p.card # c
    BY <1>1, <1>3, <2>1 DEF CardsKnown
  <2> QED
    BY <1>1, <2>2 DEF CardsKnown
<1> QED
  BY <1>3, <1>4, <1>5

LEMMA PlainClick ==
  ASSUME BuilderInv, NEW i \in Ops, NEW op \in OpType, Click(i, op), CardLater(op),
         UNCHANGED <<pending, timer, puts, unsent>>,
         mishaps \subseteq mishaps', mishaps' \subseteq Mishaps
  PROVE  BuilderInv'
<1> USE DEF BuilderInv
<1>1. /\ ops' \in [Ops -> OpType]
      /\ asked' \in [Ops -> [typed : [Cards -> Config], quiet : BOOLEAN]]
      /\ \A j \in Ops : CardLater(ops'[j])
      /\ Known \subseteq Known'
      /\ UNCHANGED <<saved, tree, selected, loads, edits, failures, latest>>
  BY Clicking
<1>2. BuilderTypeOK'
  BY <1>1 DEF BuilderTypeOK
<1>3. CardsKnown' /\ EditsSomewhere' /\ PendingHasTimer'
  BY <1>1, Frame DEF CardsKnown
<1> QED
  BY <1>2, <1>3

LEMMA AsksKeep ==
  ASSUME BuilderInv, NEW i \in Ops, Asks(i)
  PROVE  BuilderInv'
<1> USE DEF BuilderInv
<1>1. /\ tree.cards \subseteq Cards /\ selected \in SomeCard
      /\ NoCard \in SomeCard /\ Cards \subseteq SomeCard /\ Edited \subseteq Cards
  BY BuilderAssumption DEF BuilderTypeOK, Tree, SomeCard
<1>2. CASE ClickAdd(i)
  <2>1. PICK tail \in OpenEnds \cup {NoCard} :
          Click(i, [kind |-> "add", at |-> "flush", card |-> NoCard, old |-> tail,
                    new |-> NoCard])
    BY <1>2 DEF ClickAdd
  <2>2. [kind |-> "add", at |-> "flush", card |-> NoCard, old |-> tail, new |-> NoCard] \in OpType
    BY <1>1 DEF OpType, OpenEnds
  <2> QED
    BY <1>2, <2>1, <2>2, FlushingClick DEF ClickAdd, CardLater
<1>3. CASE ClickReload(i)
  <2>1. [kind |-> "reload", at |-> "post", card |-> NoCard, old |-> NoCard, new |-> NoCard]
          \in OpType
    BY <1>1 DEF OpType
  <2> QED
    BY <1>3, <2>1, PlainClick DEF ClickReload, CardLater, BuilderTypeOK
<1>4. ASSUME NEW c \in Edited, ClickDelete(i, c) PROVE BuilderInv'
  <2>1. [kind |-> "delete", at |-> "flush", card |-> c, old |-> selected, new |-> NoCard]
          \in OpType
    BY <1>1, <1>4 DEF OpType
  <2> QED
    BY <1>4, <2>1, FlushingClick DEF ClickDelete, CardLater
<1>5. ASSUME NEW c \in Edited, NEW old \in SomeCard, NEW new \in SomeCard,
             ClickBind(i, c, old, new)
      PROVE  BuilderInv'
  <2> DEFINE op == [kind |-> "bind", at |-> IF old # NoCard THEN "drop" ELSE "bind",
                    card |-> c, old |-> old, new |-> new]
  <2>1. op \in OpType /\ CardLater(op)
    BY <1>1, <1>5 DEF OpType, CardLater
  <2>2. mishaps \subseteq mishaps' /\ mishaps' \subseteq Mishaps
    BY <1>5 DEF ClickBind, BuilderTypeOK, Mishaps
  <2>3. Click(i, op) /\ UNCHANGED <<pending, timer, puts, unsent>>
    BY <1>5 DEF ClickBind
  <2> HIDE DEF op
  <2> QED
    BY <2>1, <2>2, <2>3, PlainClick
<1> QED
  BY <1>2, <1>3, <1>4, <1>5 DEF Asks, SomeCard

-----------------------------------------------------------------------------
(* The handlers.                                                           *)

\* The next step of a handler.
LEMMA Advancing ==
  ASSUME BuilderInv, NEW i \in Ops,
         NEW at \in {"done", "flush", "post", "drop", "bind", "load"},
         ops' = At(i, at), at \in {"flush", "post"} => ops[i].at = "flush"
  PROVE  /\ ops' \in [Ops -> OpType]
         /\ \A j \in Ops : CardLater(ops'[j])
         /\ Known' = Known
<1>0. ops \in [Ops -> OpType] /\ CardsKnown /\ ops' = [ops EXCEPT ![i].at = at]
  BY DEF BuilderInv, BuilderTypeOK, At
<1>1. ops' \in [Ops -> OpType]
  <2>1. ops[i] \in OpType
    BY <1>0
  <2>2. [ops[i] EXCEPT !.at = at] \in OpType
    BY <2>1 DEF OpType
  <2> QED
    BY <1>0, <2>2
<1>2. /\ \A j \in Ops : ops'[j].card = ops[j].card /\ ops'[j].kind = ops[j].kind
      /\ ops'[i].at = at /\ \A j \in Ops \ {i} : ops'[j].at = ops[j].at
  BY <1>0 DEF OpType
<1>3. \A j \in Ops : CardLater(ops'[j])
  BY <1>0, <1>2 DEF CardsKnown, CardLater
<1>4. Known' = Known
  BY <1>2 DEF Known
<1> QED
  BY <1>1, <1>3, <1>4

\* A load that is asked for is a load, and shows nothing yet.
LEMMA Asking ==
  ASSUME NEW i \in LoadIds
  PROVE  Asked(i) \in LoadType /\ Asked(i).snap.cards \subseteq Known
<1>1. FirstTree \in Tree
  <2>1. Opened \in [Cards -> Config]
    BY BuilderAssumption DEF Opened, Config
  <2> QED
    BY <2>1, BuilderAssumption DEF FirstTree, Tree, Edges
<1>2. Asked(i) \in LoadType
  BY <1>1 DEF Asked, LoadType
<1>3. Asked(i).snap.cards = FirstCards
  BY DEF Asked, FirstTree
<1> QED
  BY <1>2, <1>3, BuilderAssumption DEF Known

\* A handler's step, whatever it does to the cards and edges in the database.
LEMMA HandlerStep ==
  ASSUME BuilderInv, NEW i \in Ops,
         UNCHANGED <<tree, selected, pending, timer, puts, edits, latest, unsent, asked, mishaps>>,
         saved' \in Tree, saved'.cfg = saved.cfg,
         saved'.cards \subseteq Known' \cap (saved.cards \cup (Cards \ Known)),
         Known \subseteq Known', ops' \in [Ops -> OpType], \A j \in Ops : CardLater(ops'[j]),
         Load(i) \/ UNCHANGED loads, failures' \in 0..MaxFailures
  PROVE  BuilderInv'
<1> USE DEF BuilderInv
<1>1. i \in LoadIds
  BY BuilderAssumption DEF Ops, LoadIds
<1>2. loads' \subseteq LoadType /\ \A l \in loads' : l.snap.cards \subseteq Known'
  BY <1>1, Asking DEF Load, BuilderTypeOK, CardsKnown
<1>3. BuilderTypeOK'
  BY <1>2 DEF BuilderTypeOK
<1>4. CardsKnown' /\ EditsSomewhere' /\ PendingHasTimer'
  BY <1>2, Frame DEF CardsKnown
<1> QED
  BY <1>3, <1>4

LEMMA FlushedKeeps ==
  ASSUME BuilderInv, NEW i \in Ops, Flushed(i)
  PROVE  BuilderInv'
<1> USE DEF BuilderInv
<1>1. /\ ops[i].at = "flush"
      /\ ops' = At(i, "post") \/ ops' = At(i, "done")
      /\ UNCHANGED <<saved, tree, selected, pending, timer, puts, loads, edits,
                     failures, latest, unsent, asked, mishaps>>
  BY DEF Flushed, historyVars
<1>2. /\ ops' \in [Ops -> OpType] /\ \A j \in Ops : CardLater(ops'[j])
      /\ Known' = Known
  <2>1. CASE ops' = At(i, "post")
    BY <1>1, <2>1, Advancing DEF Flushed
  <2>2. CASE ops' = At(i, "done")
    BY <2>2, Advancing
  <2> QED
    BY <1>1, <2>1, <2>2
<1> QED
  BY <1>1, <1>2, HandlerStep DEF BuilderTypeOK, CardsKnown

LEMMA PostFailsKeeps ==
  ASSUME BuilderInv, NEW i \in Ops, PostFails(i)
  PROVE  BuilderInv'
<1> USE DEF BuilderInv
<1>1. /\ ops' = At(i, "load") \/ ops' = At(i, "done")
      /\ Load(i) \/ UNCHANGED loads
      /\ UNCHANGED <<saved, tree, selected, pending, timer, puts, edits, latest, unsent,
                     asked, mishaps>>
  BY DEF PostFails, historyVars
<1>2. failures' \in 0..MaxFailures
  BY BuilderAssumption DEF PostFails, BuilderTypeOK
<1>3. /\ ops' \in [Ops -> OpType] /\ \A j \in Ops : CardLater(ops'[j])
      /\ Known' = Known
  BY <1>1, Advancing
<1> QED
  BY <1>1, <1>2, <1>3, HandlerStep DEF BuilderTypeOK, CardsKnown

LEMMA PostKeeps ==
  ASSUME BuilderInv, NEW i \in Ops, Post(i)
  PROVE  BuilderInv'
<1> USE DEF BuilderInv
<1>1. UNCHANGED <<tree, selected, pending, timer, puts, edits, failures, latest, unsent,
                  asked, mishaps>>
  BY DEF Post, historyVars
<1>2. saved \in Tree /\ failures' \in 0..MaxFailures /\ saved.cards \subseteq Known
  BY <1>1 DEF BuilderTypeOK, CardsKnown
<1>3. CASE PostAdd(i)
  <2>1. PICK c \in Fresh :
          /\ saved' = [saved EXCEPT !.cards = @ \cup {c}]
          /\ ops' = [ops EXCEPT ![i].card = c,
                                ![i].at = IF ops[i].old = NoCard THEN "load" ELSE "bind"]
    BY <1>3 DEF PostAdd
  <2>2. c \in Cards \ Known
    BY DEF Fresh, Known
  <2>3. ops[i].card = NoCard /\ ops[i].kind = "add"
    BY <1>3 DEF PostAdd, CardsKnown, CardLater
  <2>4. /\ ops' \in [Ops -> OpType] /\ ops'[i].card = c /\ ops'[i].kind = "add"
        /\ ops'[i].at \in {"load", "bind"}
        /\ \A j \in Ops \ {i} : ops'[j] = ops[j]
    <3>1. ops \in [Ops -> OpType] /\ c \in SomeCard
      BY <2>2 DEF BuilderTypeOK, SomeCard
    <3>2. /\ ops'[i] = [ops[i] EXCEPT !.card = c,
                          !.at = IF ops[i].old = NoCard THEN "load" ELSE "bind"]
          /\ \A j \in Ops \ {i} : ops'[j] = ops[j]
          /\ ops' = [j \in Ops |-> ops'[j]]
      BY <2>1, <3>1
    <3>3. ops'[i] \in OpType /\ ops'[i].card = c /\ ops'[i].kind = "add"
          /\ ops'[i].at \in {"load", "bind"}
      BY <2>3, <3>1, <3>2 DEF OpType
    <3> QED
      BY <3>1, <3>2, <3>3
  <2>5. Known \subseteq Known' /\ c \in Known'
    BY <2>2, <2>3, <2>4, KnownGrows DEF Known
  <2>6. \A j \in Ops : CardLater(ops'[j])
    BY <2>4 DEF CardsKnown, CardLater
  <2>7. /\ saved' \in Tree /\ saved'.cfg = saved.cfg /\ saved'.cards = saved.cards \cup {c}
    BY <1>2, <2>1, <2>2 DEF Tree
  <2>8. Load(i) \/ UNCHANGED loads
    BY <1>3 DEF PostAdd
  <2> QED
    BY <1>1, <1>2, <2>2, <2>4, <2>5, <2>6, <2>7, <2>8, HandlerStep
<1>4. CASE PostDelete(i)
  <2>1. /\ ops' = At(i, "load") \/ ops' = At(i, "done")
        /\ Load(i) \/ UNCHANGED loads
    BY <1>4 DEF PostDelete
  <2> DEFINE kept == saved.cards \ {ops[i].card}
             cut  == {e \in saved.edges : ops[i].card \notin {e[1], e[2]}}
  <2>a. \/ UNCHANGED saved
        \/ saved' = [saved EXCEPT !.cards = kept, !.edges = cut]
    BY <1>4 DEF PostDelete
  <2>b. kept \subseteq saved.cards /\ cut \subseteq saved.edges
    OBVIOUS
  <2> HIDE DEF kept, cut
  <2>2. /\ saved' \in Tree /\ saved'.cfg = saved.cfg /\ saved'.cards \subseteq saved.cards
    <3>1. CASE UNCHANGED saved
      BY <1>2, <3>1
    <3>2. CASE saved' = [saved EXCEPT !.cards = kept, !.edges = cut]
      BY <1>2, <2>b, <3>2 DEF Tree
    <3> QED
      BY <2>a, <3>1, <3>2
  <2>3. /\ ops' \in [Ops -> OpType] /\ \A j \in Ops : CardLater(ops'[j])
        /\ Known' = Known
    BY <2>1, Advancing
  <2> QED
    BY <1>1, <1>2, <2>1, <2>2, <2>3, HandlerStep
<1>5. CASE PostReload(i)
  <2>1. /\ ops' = At(i, "load") /\ Load(i) /\ UNCHANGED saved
    BY <1>5 DEF PostReload
  <2>2. /\ ops' \in [Ops -> OpType] /\ \A j \in Ops : CardLater(ops'[j])
        /\ Known' = Known
    BY <2>1, Advancing
  <2> QED
    BY <1>1, <1>2, <2>1, <2>2, HandlerStep
<1>6. CASE DropEdge(i)
  <2>1. /\ ops' = At(i, "load") \/ ops' = At(i, "bind") \/ ops' = At(i, "done")
        /\ Load(i) \/ UNCHANGED loads
    BY <1>6 DEF DropEdge
  <2>2. /\ saved' \in Tree /\ saved'.cfg = saved.cfg /\ saved'.cards = saved.cards
    BY <1>2, <1>6 DEF DropEdge, Tree
  <2>3. /\ ops' \in [Ops -> OpType] /\ \A j \in Ops : CardLater(ops'[j])
        /\ Known' = Known
    BY <2>1, Advancing
  <2> QED
    BY <1>1, <1>2, <2>1, <2>2, <2>3, HandlerStep
<1>7. CASE BindEdge(i)
  <2> DEFINE e == NewEdge(i)
  <2>1. /\ ops' = At(i, "load") \/ ops' = At(i, "done")
        /\ Load(i) \/ UNCHANGED loads
    BY <1>7 DEF BindEdge
  <2>2. \/ UNCHANGED saved
        \/ {e[1], e[2]} \subseteq saved.cards /\ saved' = [saved EXCEPT !.edges = @ \cup {e}]
    BY <1>7 DEF BindEdge
  <2>3. {e[1], e[2]} \subseteq Cards => e \in Edges
    BY DEF NewEdge, Edges
  <2> HIDE DEF e
  <2>4. /\ saved' \in Tree /\ saved'.cfg = saved.cfg /\ saved'.cards = saved.cards
    BY <1>2, <2>2, <2>3 DEF Tree
  <2>5. /\ ops' \in [Ops -> OpType] /\ \A j \in Ops : CardLater(ops'[j])
        /\ Known' = Known
    BY <2>1, Advancing
  <2> QED
    BY <1>1, <1>2, <2>1, <2>4, <2>5, HandlerStep
<1> QED
  BY <1>3, <1>4, <1>5, <1>6, <1>7 DEF Post

-----------------------------------------------------------------------------
(* Reading the tree again.                                                 *)

LEMMA ReadKeeps ==
  ASSUME BuilderInv, NEW l \in loads, LoadReads(l)
  PROVE  BuilderInv'
<1> USE DEF BuilderInv
<1>1. /\ loads' = (loads \ {l}) \cup {[l EXCEPT !.read = TRUE, !.snap = saved]}
      /\ UNCHANGED <<saved, tree, selected, pending, timer, puts, ops, edits, failures,
                     latest, unsent, asked, mishaps>>
  BY DEF LoadReads, historyVars
<1>2. l \in LoadType
  BY DEF BuilderTypeOK
<1>3. /\ [l EXCEPT !.read = TRUE, !.snap = saved] \in LoadType
      /\ [l EXCEPT !.read = TRUE, !.snap = saved].snap = saved
  BY <1>2 DEF BuilderTypeOK, LoadType
<1>4. BuilderTypeOK'
  BY <1>1, <1>3 DEF BuilderTypeOK
<1>5. Known' = Known
  BY <1>1 DEF Known
<1>6. \A k \in loads' : k.snap.cards \subseteq Known'
  BY <1>1, <1>3, <1>5 DEF CardsKnown
<1>7. CardsKnown' /\ EditsSomewhere' /\ PendingHasTimer'
  BY <1>1, <1>5, <1>6, Frame DEF CardsKnown
<1> QED
  BY <1>4, <1>7

LEMMA FinishKeeps ==
  ASSUME BuilderInv, NEW l \in loads, LoadLands(l) \/ LoadFails(l)
  PROVE  BuilderInv'
<1> USE DEF BuilderInv
<1> DEFINE again == IF selected' # selected /\ l.id + MaxOps \in LoadIds \ {MaxOps}
                    THEN {Asked(l.id + MaxOps)} ELSE {}
<1>1. l \in LoadType /\ l.snap \in Tree /\ l.snap.cards \subseteq Cards
  BY DEF BuilderTypeOK, LoadType, Tree
<1>2. PICK shown \in {l.snap.cards, {}} : Finish(l, shown)
  BY DEF LoadLands, LoadFails
<1>3. /\ selected' \in Selects(l, shown)
      /\ loads' = (loads \ {l}) \cup again
      /\ ops' = IF l.id \in Ops THEN At(l.id, "done") ELSE ops
      /\ UNCHANGED <<saved, pending, timer, puts, edits, latest, unsent, asked, mishaps>>
  BY <1>2 DEF Finish, historyVars
<1>4. /\ tree' \in {tree, l.snap} /\ failures' \in 0..MaxFailures
  BY BuilderAssumption DEF LoadLands, LoadFails, BuilderTypeOK
<1>5. selected' \in SomeCard
  <2>1. l.id \in Ops => ops[l.id].card \in SomeCard
    BY DEF BuilderTypeOK, OpType
  <2>2. shown \subseteq SomeCard /\ NoCard \in SomeCard /\ selected \in SomeCard
    BY <1>1 DEF SomeCard, BuilderTypeOK
  <2> QED
    BY <1>3, <2>1, <2>2 DEF Selects
<1>6. /\ ops' \in [Ops -> OpType] /\ \A j \in Ops : CardLater(ops'[j])
      /\ Known' = Known
  <2>1. CASE l.id \in Ops
    BY <1>3, <2>1, Advancing
  <2>2. CASE l.id \notin Ops
    BY <1>3, <2>2 DEF BuilderTypeOK, CardsKnown, Known
  <2> QED
    BY <2>1, <2>2
<1>7. again \subseteq LoadType /\ \A k \in again : k.snap.cards \subseteq Known
  BY Asking
<1> HIDE DEF again
<1>8. /\ loads' \subseteq LoadType /\ \A k \in loads' : k.snap.cards \subseteq Known'
      /\ tree' \in Tree /\ tree'.cards \subseteq Known'
  BY <1>1, <1>3, <1>4, <1>6, <1>7 DEF BuilderTypeOK, CardsKnown
<1>9. BuilderTypeOK'
  BY <1>3, <1>4, <1>5, <1>6, <1>8 DEF BuilderTypeOK
<1>10. CardsKnown' /\ EditsSomewhere' /\ PendingHasTimer'
  BY <1>3, <1>6, <1>8, Frame DEF CardsKnown
<1> QED
  BY <1>9, <1>10

LEMMA BuilderStep == BuilderInv /\ [BuilderNext]_builderVars => BuilderInv'
<1> SUFFICES ASSUME BuilderInv, [BuilderNext]_builderVars
             PROVE  BuilderInv'
  OBVIOUS
<1>1. CASE UNCHANGED builderVars
  BY <1>1 DEF BuilderInv, BuilderTypeOK, CardsKnown, CardLater, Known, EditsSomewhere,
     PendingHasTimer, builderVars
<1>2. ASSUME NEW c \in Edited, NEW f \in Fields, NEW whole \in BOOLEAN, Edit(c, f, whole)
      PROVE  BuilderInv'
  BY <1>2, EditKeeps, BuilderAssumption
<1>3. ASSUME NEW c \in Cards, FlushTimer(c) PROVE BuilderInv'
  BY <1>3, FlushTimerKeeps
<1>4. ASSUME NEW p \in puts, PutArrives(p) \/ PutFails(p) PROVE BuilderInv'
  BY <1>4, PutKeeps
<1>5. ASSUME NEW i \in Ops, Asks(i) \/ Flushed(i) \/ Post(i) \/ PostFails(i) PROVE BuilderInv'
  BY <1>5, AsksKeep, FlushedKeeps, PostKeeps, PostFailsKeeps
<1>6. ASSUME NEW l \in loads, LoadReads(l) \/ LoadLands(l) \/ LoadFails(l) PROVE BuilderInv'
  BY <1>6, ReadKeeps, FinishKeeps
<1> QED
  BY <1>1, <1>2, <1>3, <1>4, <1>5, <1>6 DEF BuilderNext

LEMMA BuilderInvariant == BuilderSpec => []BuilderInv
BY BuilderStart, BuilderStep, PTL DEF BuilderSpec

-----------------------------------------------------------------------------
\* Screen, database, requests and handlers keep their types.
THEOREM BuilderTyped == BuilderSpec => []BuilderTypeOK
<1>1. BuilderInv => BuilderTypeOK
  BY DEF BuilderInv
<1> QED
  BY <1>1, BuilderInvariant, PTL

\* When nothing is left to send, the database has the last edit of every field of
\* every card, unless a request failed, two requests of one card were in flight
\* together, or an edit was made on a screen behind an earlier one: each last edit
\* is pending, or else in the one request of its card, or else saved.
THEOREM EditsAreSaved == BuilderSpec => []SettledIsSaved
<1>1. BuilderInv => SettledIsSaved
  <2> SUFFICES ASSUME BuilderInv, BuilderQuiet,
                      mishaps \cap {"failed", "crossed", "staleEdit"} = {},
                      NEW c \in saved.cards
               PROVE  saved.cfg[c] = latest[c]
    BY DEF SettledIsSaved
  <2>1. c \in Cards
    BY DEF BuilderInv, BuilderTypeOK, Tree
  <2> QED
    BY <2>1 DEF BuilderInv, EditsSomewhere, BuilderQuiet, Grave
<1> QED
  BY <1>1, BuilderInvariant, PTL

\* An edit that waits to be sent has a timer that will send it, whatever flushes
\* and operations come in between.
THEOREM TimersRun == BuilderSpec => []PendingHasTimer
<1>1. BuilderInv => PendingHasTimer
  BY DEF BuilderInv
<1> QED
  BY <1>1, BuilderInvariant, PTL

-----------------------------------------------------------------------------
(* The branches of decisions.                                              *)

Targets(c) == {d \in Cards : <<c, d>> \in saved.edges}
Binding(i) == ops[i].kind = "bind" /\ Busy(i)

\* A handler draws from a decision only what it was clicked to bind there: before
\* it drops an edge that one is the only one, and before it draws there is none.
BindOf(i) ==
  /\ ops[i].kind = "add" => ops[i].old \notin Forks
  /\ ops[i].kind = "bind" => ops[i].card \in Forks
  /\ ops[i].at = "drop" => /\ ops[i].kind = "bind"
                           /\ Targets(ops[i].card) \subseteq {ops[i].old}
  /\ ops[i].at = "bind" => /\ ops[i].kind \in {"add", "bind"}
                           /\ ops[i].kind = "bind" => Targets(ops[i].card) = {}

BindAlone == \A i, j \in Ops :
  Binding(i) /\ Binding(j) /\ ops[i].card = ops[j].card => i = j

OneTarget == \A c \in Forks : \A d, e \in Targets(c) : d = e

ArmInv ==
  "staleBind" \notin mishaps => OneTarget /\ BindAlone /\ \A i \in Ops : BindOf(i)

\* The handler i comes nearer to its end, or begins something other than a bind.
Calm(i) ==
  \/ /\ ops'[i].kind = ops[i].kind /\ ops'[i].old = ops[i].old
     /\ ops[i].kind = "bind" => ops'[i].card = ops[i].card
     /\ \/ ops'[i].at \in {ops[i].at, "done"}
        \/ ops[i].at # "done" /\ ops'[i].at \in {"load", "post"}
        \/ ops[i].kind = "add" /\ ops'[i].at = "bind"
  \/ /\ ops'[i].kind # "bind" /\ ops'[i].at \notin {"drop", "bind"}
     /\ ops'[i].kind = "add" => ops'[i].old \notin Forks

LEMMA ArmStart == BuilderInit => ArmInv
  BY DEF BuilderInit, FirstTree, NoOp, ArmInv, OneTarget, BindAlone, Binding, Busy,
         BindOf, Targets

LEMMA CalmKeeps ==
  ASSUME ArmInv, mishaps \subseteq mishaps', saved'.edges \subseteq saved.edges,
         \A i \in Ops : Calm(i)
  PROVE  ArmInv'
<1> SUFFICES ASSUME "staleBind" \notin mishaps'
             PROVE  OneTarget' /\ BindAlone' /\ \A i \in Ops : BindOf(i)'
  BY DEF ArmInv
<1>1. OneTarget /\ BindAlone /\ \A i \in Ops : BindOf(i)
  BY DEF ArmInv
<1>2. \A c : Targets(c)' \subseteq Targets(c)
  BY DEF Targets
<1>3. \A i \in Ops : Binding(i)' => Binding(i) /\ ops'[i].card = ops[i].card
  BY DEF Calm, Binding, Busy
<1>4. OneTarget' /\ BindAlone'
  BY <1>1, <1>2, <1>3 DEF OneTarget, BindAlone
<1>5. ASSUME NEW i \in Ops
      PROVE  BindOf(i)'
  <2>1. BindOf(i) /\ Calm(i)
    BY <1>1
  <2> QED
    BY <1>2, <2>1 DEF BindOf, Calm
<1> QED
  BY <1>4, <1>5

\* A handler that takes its next step does so alone.
LEMMA HandlerView ==
  ASSUME BuilderInv, NEW i \in Ops,
         NEW at \in {"done", "flush", "post", "drop", "bind", "load"}, ops' = At(i, at)
  PROVE  /\ ops'[i].at = at /\ ops'[i].kind = ops[i].kind /\ ops'[i].card = ops[i].card
         /\ ops'[i].old = ops[i].old /\ ops'[i].new = ops[i].new
         /\ \A j \in Ops \ {i} : ops'[j] = ops[j]
  BY DEF At, BuilderInv, BuilderTypeOK, OpType

\* A bind is clicked on a screen that shows what is saved, while no other bind of
\* its branch is under way.
LEMMA BindClicked ==
  ASSUME BuilderInv, ArmInv, NEW i \in Ops, NEW c \in Edited,
         NEW old \in SomeCard, NEW new \in SomeCard, ClickBind(i, c, old, new)
  PROVE  ArmInv'
<1> SUFFICES ASSUME "staleBind" \notin mishaps'
             PROVE  OneTarget' /\ BindAlone' /\ \A j \in Ops : BindOf(j)'
  BY DEF ArmInv
<1>1. /\ \A d \in Cards : <<c, d>> \in tree.edges <=> <<c, d>> \in saved.edges
      /\ \A j \in Ops : ~(Busy(j) /\ ops[j].kind = "bind" /\ ops[j].card = c)
      /\ "staleBind" \notin mishaps
  BY DEF ClickBind
<1>2. /\ c \in Forks /\ old \in IF Shown(c) = {} THEN {NoCard} ELSE Shown(c)
      /\ ops' = [ops EXCEPT ![i] = [kind |-> "bind",
                                    at |-> IF old # NoCard THEN "drop" ELSE "bind",
                                    card |-> c, old |-> old, new |-> new]]
      /\ ops[i] = NoOp /\ saved' = saved
  BY DEF ClickBind, Click
<1>3. /\ ops'[i].kind = "bind" /\ ops'[i].card = c /\ ops'[i].old = old
      /\ ops'[i].at = (IF old # NoCard THEN "drop" ELSE "bind")
      /\ \A j \in Ops \ {i} : ops'[j] = ops[j]
  BY <1>2 DEF BuilderInv, BuilderTypeOK
<1>4. OneTarget /\ BindAlone /\ \A j \in Ops : BindOf(j)
  BY <1>1 DEF ArmInv
<1>5. \A d : Targets(d)' = Targets(d)
  BY <1>2 DEF Targets
<1>6. Shown(c) = Targets(c) /\ NoCard \notin Targets(c)
  BY <1>1, BuilderAssumption DEF Shown, Targets
<1>7. \A j \in Ops \ {i} : Binding(j)' => Binding(j) /\ ops[j].card # c
  BY <1>1, <1>3 DEF Binding, Busy
<1>8. OneTarget' /\ BindAlone'
  BY <1>3, <1>4, <1>5, <1>7 DEF OneTarget, BindAlone, Binding, Busy
<1>9. BindOf(i)'
  <2>1. IF old # NoCard THEN Targets(c) \subseteq {old} ELSE Targets(c) = {}
    BY <1>2, <1>4, <1>6 DEF OneTarget
  <2> QED
    BY <1>2, <1>3, <1>5, <2>1 DEF BindOf
<1>10. \A j \in Ops \ {i} : BindOf(j)'
  BY <1>3, <1>4, <1>5 DEF BindOf
<1> QED
  BY <1>8, <1>9, <1>10

LEMMA EdgeDropped ==
  ASSUME BuilderInv, ArmInv, NEW i \in Ops, DropEdge(i), mishaps' = mishaps
  PROVE  ArmInv'
<1> DEFINE e == <<ops[i].card, ops[i].old>>
<1>1. CASE e \notin saved.edges
  <2>1. ops' = At(i, "done") /\ saved' = saved
    BY <1>1 DEF DropEdge
  <2> QED
    BY <2>1, HandlerView, CalmKeeps DEF Calm
<1>2. CASE e \in saved.edges
  <2> SUFFICES ASSUME "staleBind" \notin mishaps
               PROVE  OneTarget' /\ BindAlone' /\ \A j \in Ops : BindOf(j)'
    BY DEF ArmInv
  <2>1. OneTarget /\ BindAlone /\ \A j \in Ops : BindOf(j)
    BY DEF ArmInv
  <2>2. /\ saved' = [saved EXCEPT !.edges = @ \ {e}]
        /\ ops[i].at = "drop"
        /\ ops' = At(i, IF ops[i].new # NoCard THEN "bind" ELSE "load")
    BY <1>2 DEF DropEdge
  <2>3. /\ ops'[i].at \in {"bind", "load"} /\ ops'[i].kind = ops[i].kind
        /\ ops'[i].card = ops[i].card /\ ops'[i].old = ops[i].old
        /\ \A j \in Ops \ {i} : ops'[j] = ops[j]
    <3>1. PICK at \in {"bind", "load"} : ops' = At(i, at)
      BY <2>2
    <3> QED
      BY <3>1, HandlerView
  <2>4. saved'.edges = saved.edges \ {e}
    BY <2>2 DEF BuilderInv, BuilderTypeOK, Tree
  <2>5. /\ \A c : Targets(c)' \subseteq Targets(c)
        /\ ops[i].kind = "bind" /\ Targets(ops[i].card)' = {}
    BY <2>1, <2>2, <2>3, <2>4 DEF BindOf, Targets
  <2>6. \A j \in Ops : Binding(j)' => Binding(j) /\ ops'[j].card = ops[j].card
    BY <2>2, <2>3 DEF Binding, Busy
  <2>7. OneTarget' /\ BindAlone'
    BY <2>1, <2>5, <2>6 DEF OneTarget, BindAlone
  <2>8. BindOf(i)'
    BY <2>1, <2>3, <2>5 DEF BindOf
  <2>9. \A j \in Ops \ {i} : BindOf(j)'
    BY <2>1, <2>3, <2>5 DEF BindOf
  <2> QED
    BY <2>7, <2>8, <2>9
<1> QED
  BY <1>1, <1>2

LEMMA EdgeDrawn ==
  ASSUME BuilderInv, ArmInv, NEW i \in Ops, BindEdge(i), mishaps' = mishaps
  PROVE  ArmInv'
<1> DEFINE e == NewEdge(i)
<1>1. ops[i].at = "bind" /\ (ops' = At(i, "load") \/ ops' = At(i, "done"))
  BY DEF BindEdge
<1>2. /\ ops'[i].at \in {"load", "done"} /\ ops'[i].kind = ops[i].kind
      /\ ops'[i].card = ops[i].card /\ ops'[i].old = ops[i].old
      /\ \A j \in Ops \ {i} : ops'[j] = ops[j]
  BY <1>1, HandlerView
<1>3. CASE saved' = saved
  BY <1>1, <1>2, <1>3, CalmKeeps DEF Calm
<1>4. CASE saved' = [saved EXCEPT !.edges = @ \cup {e}]
  <2> SUFFICES ASSUME "staleBind" \notin mishaps
               PROVE  OneTarget' /\ BindAlone' /\ \A j \in Ops : BindOf(j)'
    BY DEF ArmInv
  <2>1. OneTarget /\ BindAlone /\ \A j \in Ops : BindOf(j)
    BY DEF ArmInv
  <2>2. saved'.edges = saved.edges \cup {e}
    BY <1>4 DEF BuilderInv, BuilderTypeOK, Tree
  <2>3. ops[i].kind \in {"add", "bind"}
    BY <1>1, <2>1 DEF BindOf
  <2>4. \A c \in Forks : \/ Targets(c)' = Targets(c)
                         \/ /\ ops[i].kind = "bind" /\ c = ops[i].card
                            /\ Targets(c) = {} /\ Targets(c)' \subseteq {ops[i].new}
    <3>1. CASE ops[i].kind = "add"
      BY <2>1, <2>2, <3>1 DEF NewEdge, Targets, BindOf
    <3>2. CASE ops[i].kind = "bind"
      BY <1>1, <2>1, <2>2, <3>2 DEF NewEdge, Targets, BindOf
    <3> QED
      BY <2>3, <3>1, <3>2
  <2>5. \A j \in Ops : Binding(j)' => Binding(j) /\ ops'[j].card = ops[j].card
    BY <1>1, <1>2 DEF Binding, Busy
  <2>6. OneTarget' /\ BindAlone'
    BY <2>1, <2>4, <2>5 DEF OneTarget, BindAlone
  <2>7. BindOf(i)'
    BY <1>2, <2>1 DEF BindOf
  <2>8. ASSUME NEW j \in Ops \ {i}
        PROVE  BindOf(j)'
    <3>1. BindOf(j) /\ ops'[j] = ops[j]
      BY <1>2, <2>1
    <3>2. ops[j].kind = "bind" /\ Busy(j) => Targets(ops[j].card)' = Targets(ops[j].card)
      <4> SUFFICES ASSUME ops[j].kind = "bind", Busy(j)
                   PROVE  Targets(ops[j].card)' = Targets(ops[j].card)
        OBVIOUS
      <4>1. ops[i].kind = "bind" => ops[j].card # ops[i].card
        BY <1>1, <2>1 DEF BindAlone, Binding, Busy
      <4> QED
        BY <2>4, <3>1, <4>1 DEF BindOf
    <3> QED
      BY <3>1, <3>2 DEF BindOf, Busy
  <2> QED
    BY <2>6, <2>7, <2>8
<1> QED
  BY <1>3, <1>4 DEF BindEdge

LEMMA ArmStep == BuilderInv /\ ArmInv /\ [BuilderNext]_builderVars => ArmInv'
<1> SUFFICES ASSUME BuilderInv, ArmInv, [BuilderNext]_builderVars
             PROVE  ArmInv'
  OBVIOUS
<1>0. saved \in Tree /\ ops \in [Ops -> OpType]
  BY DEF BuilderInv, BuilderTypeOK
<1>1. CASE UNCHANGED <<ops, saved>> /\ mishaps \subseteq mishaps'
  BY <1>1, CalmKeeps DEF Calm
<1>2. ASSUME NEW c \in Edited, NEW f \in Fields, NEW whole \in BOOLEAN, Edit(c, f, whole)
      PROVE  ArmInv'
  BY <1>1, <1>2 DEF Edit, requestVars
<1>3. ASSUME NEW c \in Cards, FlushTimer(c) PROVE ArmInv'
  BY <1>1, <1>3 DEF FlushTimer, Flush
<1>4. ASSUME NEW p \in puts, PutArrives(p) \/ PutFails(p) PROVE ArmInv'
  <2>1. Store(p).edges = saved.edges
    BY <1>0 DEF Store, Tree
  <2>2. saved'.edges = saved.edges /\ ops' = ops /\ mishaps \subseteq mishaps'
    BY <1>4, <2>1 DEF PutArrives, PutFails
  <2> QED
    BY <2>2, CalmKeeps DEF Calm
<1>5. ASSUME NEW i \in Ops, Asks(i) PROVE ArmInv'
  <2>1. ASSUME NEW op, Click(i, op), op.kind # "bind", op.at \notin {"drop", "bind"},
               op.kind = "add" => op.old \notin Forks, mishaps \subseteq mishaps'
        PROVE  ArmInv'
    <3>1. /\ ops'[i] = op /\ \A j \in Ops \ {i} : ops'[j] = ops[j]
          /\ saved' = saved
      BY <1>0, <2>1 DEF Click
    <3> QED
      BY <2>1, <3>1, CalmKeeps DEF Calm
  <2>2. CASE ClickAdd(i)
    <3>1. PICK tail \in OpenEnds \cup {NoCard} :
            Click(i, [kind |-> "add", at |-> "flush", card |-> NoCard, old |-> tail,
                      new |-> NoCard])
      BY <2>2 DEF ClickAdd
    <3>2. tail \notin Forks /\ mishaps \subseteq mishaps'
      BY <2>2, BuilderAssumption DEF ClickAdd, FlushAll, Flush, OpenEnds
    <3> QED
      BY <2>1, <3>1, <3>2
  <2>3. CASE ClickReload(i)
    BY <2>1, <2>3 DEF ClickReload
  <2>4. ASSUME NEW c \in Edited, ClickDelete(i, c) PROVE ArmInv'
    BY <2>1, <2>4 DEF ClickDelete, FlushAll, Flush
  <2> QED
    BY <1>5, <2>2, <2>3, <2>4, BindClicked DEF Asks, SomeCard
<1>6. ASSUME NEW i \in Ops, Flushed(i) \/ PostFails(i) PROVE ArmInv'
  <2>1. /\ ops' = At(i, "post") \/ ops' = At(i, "done") \/ ops' = At(i, "load")
        /\ ops[i].at # "done" /\ UNCHANGED <<saved, mishaps>>
    BY <1>6 DEF Flushed, PostFails, historyVars
  <2> QED
    BY <2>1, HandlerView, CalmKeeps DEF Calm
<1>7. ASSUME NEW i \in Ops, Post(i) PROVE ArmInv'
  <2>0. UNCHANGED mishaps
    BY <1>7 DEF Post, historyVars
  <2>1. CASE PostAdd(i)
    <3>1. PICK c \in Fresh :
            /\ saved' = [saved EXCEPT !.cards = @ \cup {c}]
            /\ ops' = [ops EXCEPT ![i].card = c,
                                  ![i].at = IF ops[i].old = NoCard THEN "load" ELSE "bind"]
            /\ ops[i].kind = "add" /\ ops[i].at = "post"
      BY <2>1 DEF PostAdd
    <3>2. /\ ops'[i].kind = "add" /\ ops'[i].old = ops[i].old
          /\ ops'[i].at \in {"load", "bind"}
          /\ \A j \in Ops \ {i} : ops'[j] = ops[j]
      BY <1>0, <3>1 DEF OpType
    <3>3. saved'.edges = saved.edges
      BY <1>0, <3>1 DEF Tree
    <3> QED
      BY <2>0, <3>1, <3>2, <3>3, CalmKeeps DEF Calm
  <2>2. CASE PostDelete(i) \/ PostReload(i)
    <3>1. /\ ops' = At(i, "load") \/ ops' = At(i, "done")
          /\ ops[i].at # "done"
      BY <2>2 DEF PostDelete, PostReload
    <3>2. saved'.edges \subseteq saved.edges
      <4> DEFINE kept == saved.cards \ {ops[i].card}
                 cut  == {e \in saved.edges : ops[i].card \notin {e[1], e[2]}}
      <4>1. saved' = saved \/ saved' = [saved EXCEPT !.cards = kept, !.edges = cut]
        BY <2>2 DEF PostDelete, PostReload
      <4>2. cut \subseteq saved.edges
        OBVIOUS
      <4> HIDE DEF kept, cut
      <4> QED
        BY <1>0, <4>1, <4>2 DEF Tree
    <3> QED
      BY <2>0, <3>1, <3>2, HandlerView, CalmKeeps DEF Calm
  <2> QED
    BY <1>7, <2>0, <2>1, <2>2, EdgeDropped, EdgeDrawn DEF Post
<1>8. ASSUME NEW l \in loads, LoadReads(l) PROVE ArmInv'
  BY <1>1, <1>8 DEF LoadReads, historyVars
<1>9. ASSUME NEW l \in loads, LoadLands(l) \/ LoadFails(l) PROVE ArmInv'
  <2>1. /\ UNCHANGED <<saved, mishaps>>
        /\ \/ ops' = ops
           \/ l.id \in Ops /\ ops' = At(l.id, "done")
    BY <1>9 DEF LoadLands, LoadFails, Finish, historyVars
  <2>2. CASE l.id \in Ops /\ ops' = At(l.id, "done")
    BY <2>1, <2>2, HandlerView, CalmKeeps DEF Calm
  <2> QED
    BY <1>1, <2>1, <2>2
<1>10. CASE UNCHANGED builderVars
  BY <1>1, <1>10 DEF builderVars
<1> QED
  BY <1>2, <1>3, <1>4, <1>5, <1>6, <1>7, <1>8, <1>9, <1>10 DEF BuilderNext

\* The branch of a decision leads to one card at most, for any number of cards and
\* of operations under way at once, unless it was bound on a screen that did not
\* show its edge yet: a bind drops the edge that it saw before it draws its own,
\* nothing else draws from a decision, and deletions only take edges away.
THEOREM BoundOnce == BuilderSpec => []ArmBoundOnce
<1>1. ArmInv => ArmBoundOnce
  <2> SUFFICES ASSUME ArmInv, "staleBind" \notin mishaps, NEW c \in Forks
               PROVE  Cardinality({d \in Cards : <<c, d>> \in saved.edges}) <= 1
    BY DEF ArmBoundOnce
  <2>1. \A d, e \in Targets(c) : d = e
    BY DEF ArmInv, OneTarget
  <2>2. Cardinality(Targets(c)) \in {0, 1}
    <3>1. CASE Targets(c) = {}
      BY <3>1, FS_EmptySet
    <3>2. CASE Targets(c) # {}
      <4>1. PICK d : Targets(c) = {d}
        BY <2>1, <3>2
      <4>2. Cardinality({d}) = 1
        BY FS_Singleton
      <4> QED
        BY <4>1, <4>2
    <3> QED
      BY <3>1, <3>2
  <2>3. Targets(c) = {d \in Cards : <<c, d>> \in saved.edges}
    BY DEF Targets
  <2> QED
    BY <2>2, <2>3
<1>2. BuilderInv /\ ArmInv /\ [BuilderNext]_builderVars => ArmInv'
  BY ArmStep
<1> QED
  BY <1>1, <1>2, ArmStart, BuilderInvariant, PTL DEF BuilderSpec

-----------------------------------------------------------------------------
(* The reload that ends an operation.                                      *)

\* Edits are numbered as they are typed, so what was typed once is known again.
TypedBefore ==
  /\ \A c \in Cards, f \in Fields : latest[c][f] <= edits
  /\ \A i \in Ops, c \in Cards, f \in Fields : asked[i].typed[c][f] <= latest[c][f]

\* The addition or deletion i was clicked with no request in flight, nothing was
\* typed since, and no edit was at risk.
Clean(i) ==
  /\ ops[i].kind \in {"add", "delete"}
  /\ asked[i].quiet /\ asked[i].typed = latest
  /\ mishaps \cap Grave = {}

\* Then what is in flight is what i has sent and waits for.
SentBy(i) == /\ \A c \in Cards : pending[c] = Unset
             /\ \A p \in puts : ops[i].at = "flush" /\ p.by = i
SentByItself == \A i \in Ops : Clean(i) /\ Busy(i) => SentBy(i)

\* An operation has one load, at its end, and if it is clean, that has every edit.
LoadOfOne ==
  \A l \in loads : l.id \in Ops =>
    /\ ops[l.id].at = "load"
    /\ \A k \in loads : k.id = l.id => k = l
HasEdits(l) == \A c \in l.snap.cards : l.snap.cfg[c] = latest[c]
LoadedClean ==
  \A l \in loads : l.id \in Ops /\ l.read /\ Clean(l.id) => HasEdits(l)

ReloadInv == TypedBefore /\ SentByItself /\ LoadOfOne /\ LoadedClean

LEMMA ReloadStart == BuilderInit => ReloadInv
<1> SUFFICES ASSUME BuilderInit PROVE ReloadInv
  OBVIOUS
<1>1. \A c \in Cards, f \in Fields : latest[c][f] \in {0, 1}
  BY DEF BuilderInit, Opened
<1>2. TypedBefore
  BY <1>1 DEF BuilderInit, TypedBefore
<1>3. \A i \in Ops : ~Busy(i)
  BY DEF BuilderInit, NoOp, Busy
<1>4. \A l \in loads : l.id = 0 /\ 0 \notin Ops
  BY DEF BuilderInit, Asked, Ops
<1> QED
  BY <1>2, <1>3, <1>4 DEF ReloadInv, SentByItself, LoadOfOne, LoadedClean

\* An operation that is clean now and was under way before was clean then, and no
\* edit came between.
LEMMA EditSpoils ==
  ASSUME BuilderInv, TypedBefore, NEW c \in Cards, NEW f \in Fields,
         NEW whole \in BOOLEAN, Edit(c, f, whole)
  PROVE  TypedBefore' /\ \A i \in Ops : ~Clean(i)'
<1>1. /\ latest' = [latest EXCEPT ![c][f] = edits + 1] /\ edits' = edits + 1
      /\ asked' = asked
  BY DEF Edit
<1>2. /\ latest \in [Cards -> Config] /\ edits \in Nat
      /\ \A d \in Cards, g \in Fields : latest[d][g] \in Nat
      /\ \A i \in Ops, d \in Cards, g \in Fields : asked[i].typed[d][g] \in Nat
  BY BuilderAssumption DEF BuilderInv, BuilderTypeOK, Config
<1>3. \A d \in Cards, g \in Fields :
        latest'[d][g] = IF d = c /\ g = f THEN edits + 1 ELSE latest[d][g]
  BY <1>1, <1>2 DEF Config
<1>4. TypedBefore'
  <2>1. \A d \in Cards, g \in Fields : latest'[d][g] <= edits'
    BY <1>1, <1>2, <1>3 DEF TypedBefore
  <2>2. \A i \in Ops, d \in Cards, g \in Fields : asked'[i].typed[d][g] <= latest'[d][g]
    <3> SUFFICES ASSUME NEW i \in Ops, NEW d \in Cards, NEW g \in Fields
                 PROVE  asked[i].typed[d][g] <= latest'[d][g]
      BY <1>1
    <3>1. /\ asked[i].typed[d][g] <= latest[d][g] /\ latest[d][g] <= edits
          /\ asked[i].typed[d][g] \in Nat /\ latest[d][g] \in Nat
      BY <1>2 DEF TypedBefore
    <3> QED
      BY <1>2, <1>3, <3>1
  <2> QED
    BY <2>1, <2>2 DEF TypedBefore
<1>5. ASSUME NEW i \in Ops
      PROVE  asked'[i].typed # latest'
  <2>1. /\ asked[i].typed[c][f] <= latest[c][f] /\ latest[c][f] <= edits
        /\ asked[i].typed[c][f] \in Nat /\ latest[c][f] \in Nat
    BY <1>2 DEF TypedBefore
  <2>2. latest'[c][f] = edits + 1
    BY <1>3
  <2>3. asked[i].typed[c][f] # latest'[c][f]
    BY <1>2, <2>1, <2>2
  <2> QED
    BY <1>1, <2>3
<1> QED
  BY <1>4, <1>5 DEF Clean

\* Nothing is pending, so nothing is sent.
LEMMA NothingSent ==
  ASSUME NEW cs \in SUBSET Cards, NEW by, Flush(cs, by),
         \A c \in Cards : pending[c] = Unset
  PROVE  puts' = puts /\ \A c \in Cards : pending'[c] = Unset
<1>1. Patched(cs) = {}
  BY DEF Patched
<1>2. {[card |-> c, cfg |-> pending[c], by |-> by] : c \in Patched(cs)} = {}
  BY <1>1
<1> QED
  BY <1>1, <1>2 DEF Flush

\* What another step does to the operation i.
Stays(i) == /\ ops'[i].kind = ops[i].kind /\ ops'[i].at = ops[i].at

\* The steps of operations, apart from their clicks.
LEMMA Going ==
  ASSUME BuilderInv, NEW i \in Ops, Flushed(i) \/ Post(i) \/ PostFails(i)
  PROVE  /\ ops[i].at \in {"flush", "post", "drop", "bind"}
         /\ ops'[i].kind = ops[i].kind /\ ops'[i].at # "flush"
         /\ \A j \in Ops \ {i} : Stays(j)
         /\ IF ops'[i].at = "load" THEN Load(i) ELSE UNCHANGED loads
         /\ ops[i].at = "flush" => \A p \in puts : p.by # i
         /\ UNCHANGED <<pending, puts, edits, latest, asked, mishaps>>
<1>0. /\ ops \in [Ops -> OpType]
      /\ UNCHANGED <<pending, puts, edits, latest, asked, mishaps>>
  BY DEF Flushed, Post, PostFails, historyVars, BuilderInv, BuilderTypeOK
<1>1. ASSUME NEW at \in {"done", "post", "bind", "load"}, ops' = At(i, at)
      PROVE  /\ ops'[i].kind = ops[i].kind /\ ops'[i].at = at
             /\ \A j \in Ops \ {i} : Stays(j)
  BY <1>0, <1>1 DEF At, OpType, Stays
<1>2. CASE Flushed(i)
  <2>1. /\ ops[i].at = "flush" /\ \A p \in puts : p.by # i
        /\ ops' = At(i, "post") \/ ops' = At(i, "done")
        /\ UNCHANGED loads
    BY <1>2 DEF Flushed
  <2> QED
    BY <1>0, <1>1, <2>1
<1>3. CASE PostAdd(i)
  <2>1. PICK c \in Fresh, at \in {"load", "bind"} :
          /\ at = IF ops[i].old = NoCard THEN "load" ELSE "bind"
          /\ ops' = [ops EXCEPT ![i].card = c, ![i].at = at]
    BY <1>3 DEF PostAdd
  <2>2. /\ ops'[i].kind = ops[i].kind /\ ops'[i].at = at
        /\ \A j \in Ops \ {i} : Stays(j)
    BY <1>0, <2>1 DEF OpType, Stays
  <2>3. /\ ops[i].at = "post"
        /\ IF at = "load" THEN Load(i) ELSE UNCHANGED loads
    BY <1>3, <2>1 DEF PostAdd
  <2> QED
    BY <1>0, <2>2, <2>3
<1>4. CASE PostDelete(i) \/ PostReload(i) \/ DropEdge(i) \/ BindEdge(i) \/ PostFails(i)
  <2>1. PICK at \in {"done", "bind", "load"} :
          /\ ops' = At(i, at)
          /\ IF at = "load" THEN Load(i) ELSE UNCHANGED loads
    BY <1>4 DEF PostDelete, PostReload, DropEdge, BindEdge, PostFails
  <2>2. ops[i].at \in {"post", "drop", "bind"}
    BY <1>4 DEF PostDelete, PostReload, DropEdge, BindEdge, PostFails
  <2> QED
    BY <1>0, <1>1, <2>1, <2>2
<1> QED
  BY <1>2, <1>3, <1>4 DEF Post

\* A click begins the operation i and leaves the others alone.
Begun(i) ==
  /\ ops[i] = NoOp /\ \A j \in Ops \ {i} : Stays(j) /\ asked'[j] = asked[j]
  /\ asked'[i] = [typed |-> latest, quiet |-> puts = {}]
  /\ ops'[i].at \in {"flush", "post", "drop", "bind"}
  /\ IF ops'[i].kind \in {"add", "delete"} THEN ops'[i].at = "flush" /\ FlushAll(i)
                                           ELSE UNCHANGED <<pending, puts>>
  /\ mishaps \subseteq mishaps'
  /\ UNCHANGED <<loads, edits, latest>>

LEMMA ByClick ==
  ASSUME BuilderInv, NEW i \in Ops, NEW o, Click(i, o)
  PROVE  /\ ops[i] = NoOp /\ ops'[i] = o
         /\ \A j \in Ops \ {i} : Stays(j) /\ asked'[j] = asked[j]
         /\ asked'[i] = [typed |-> latest, quiet |-> puts = {}]
         /\ UNCHANGED <<loads, edits, latest>>
BY DEF Click, Stays, BuilderInv, BuilderTypeOK

LEMMA AskBegins ==
  ASSUME BuilderInv, NEW i \in Ops, Asks(i)
  PROVE  Begun(i)
<1>1. CASE ClickAdd(i) \/ \E c \in Edited : ClickDelete(i, c)
  <2>1. PICK o : /\ Click(i, o) /\ o.kind \in {"add", "delete"} /\ o.at = "flush"
                 /\ FlushAll(i)
    BY <1>1 DEF ClickAdd, ClickDelete
  <2>2. mishaps \subseteq mishaps'
    BY <2>1 DEF FlushAll, Flush
  <2> QED
    BY <2>1, <2>2, ByClick DEF Begun
<1>2. CASE \/ ClickReload(i)
           \/ \E c \in Edited, old, new \in SomeCard : ClickBind(i, c, old, new)
  <2>1. PICK o : /\ Click(i, o) /\ o.kind \in {"reload", "bind"}
                 /\ o.at \in {"post", "drop", "bind"}
                 /\ UNCHANGED <<pending, puts>> /\ mishaps \subseteq mishaps'
    BY <1>2 DEF ClickReload, ClickBind
  <2> QED
    BY <2>1, ByClick DEF Begun
<1> QED
  BY <1>1, <1>2 DEF Asks, SomeCard

-----------------------------------------------------------------------------
\* Nothing new comes up that waits to be sent or is sent.
Quietly ==
  (\A c \in Cards : pending[c] = Unset) =>
    (\A c \in Cards : pending'[c] = Unset) /\ puts' \subseteq puts

\* What a step leaves as it is for an operation.
LeftAlone(i) == Stays(i) /\ asked'[i] = asked[i]
NotTyped == latest' = latest /\ edits' = edits /\ mishaps \subseteq mishaps'

LEMMA CleanBefore ==
  ASSUME NEW i \in Ops, NotTyped, LeftAlone(i), Clean(i)'
  PROVE  Clean(i)
BY DEF NotTyped, LeftAlone, Stays, Clean

LEMMA SentStill ==
  ASSUME SentByItself, NEW i \in Ops, NotTyped, LeftAlone(i), Quietly,
         Clean(i)', Busy(i)'
  PROVE  SentBy(i)'
<1>1. Clean(i) /\ Busy(i)
  BY CleanBefore DEF LeftAlone, Stays, Busy
<1>2. SentBy(i)
  BY <1>1 DEF SentByItself
<1> QED
  BY <1>2 DEF SentBy, Quietly, LeftAlone, Stays

LEMMA TypedStill ==
  ASSUME BuilderInv, TypedBefore, NotTyped,
         \A i \in Ops : asked'[i] = asked[i] \/ asked'[i].typed = latest
  PROVE  TypedBefore'
<1>1. \A c \in Cards, f \in Fields : latest[c][f] \in Nat
  BY BuilderAssumption DEF BuilderInv, BuilderTypeOK, Config
<1>2. \A c \in Cards, f \in Fields : latest'[c][f] <= edits'
  BY DEF NotTyped, TypedBefore
<1>3. \A i \in Ops, c \in Cards, f \in Fields : asked'[i].typed[c][f] <= latest'[c][f]
  <2> SUFFICES ASSUME NEW i \in Ops, NEW c \in Cards, NEW f \in Fields
               PROVE  asked'[i].typed[c][f] <= latest[c][f]
    BY DEF NotTyped
  <2>1. CASE asked'[i] = asked[i]
    BY <2>1 DEF TypedBefore
  <2>2. CASE asked'[i].typed = latest
    BY <1>1, <2>2
  <2> QED
    BY <2>1, <2>2
<1> QED
  BY <1>2, <1>3 DEF TypedBefore

\* The steps that change no operation and no load.
LEMMA SendingKeeps ==
  ASSUME BuilderInv, ReloadInv, NotTyped, Quietly, UNCHANGED <<ops, loads, asked>>
  PROVE  ReloadInv'
<1>1. \A i \in Ops : LeftAlone(i)
  BY DEF LeftAlone, Stays
<1>2. TypedBefore'
  BY TypedStill DEF ReloadInv
<1>3. SentByItself'
  BY <1>1, SentStill DEF ReloadInv, SentByItself
<1>4. LoadOfOne'
  BY DEF ReloadInv, LoadOfOne
<1>5. LoadedClean'
  <2> SUFFICES ASSUME NEW l \in loads, l.id \in Ops, l.read, Clean(l.id)'
               PROVE  HasEdits(l)'
    BY DEF LoadedClean
  <2>1. HasEdits(l)
    BY <1>1, CleanBefore DEF ReloadInv, LoadedClean
  <2> QED
    BY <2>1 DEF HasEdits, NotTyped
<1> QED
  BY <1>2, <1>3, <1>4, <1>5 DEF ReloadInv

LEMMA FlushQuietly ==
  ASSUME NEW cs \in SUBSET Cards, NEW by, Flush(cs, by)
  PROVE  Quietly /\ mishaps \subseteq mishaps'
BY NothingSent DEF Quietly, Flush

LEMMA SendingStep ==
  ASSUME BuilderInv, ReloadInv,
         \/ \E c \in Cards : FlushTimer(c)
         \/ \E p \in puts : PutArrives(p) \/ PutFails(p)
  PROVE  ReloadInv'
<1>1. CASE \E c \in Cards : FlushTimer(c)
  <2>1. PICK c \in Cards : FlushTimer(c)
    BY <1>1
  <2>2. Quietly /\ NotTyped
    BY <2>1, FlushQuietly DEF FlushTimer, NotTyped
  <2>3. UNCHANGED <<ops, loads, asked>>
    BY <2>1 DEF FlushTimer
  <2> QED
    BY <2>2, <2>3, SendingKeeps
<1>2. CASE \E p \in puts : PutArrives(p) \/ PutFails(p)
  <2>1. Quietly /\ NotTyped /\ UNCHANGED <<ops, loads, asked>>
    BY <1>2 DEF PutArrives, PutFails, Quietly, NotTyped
  <2> QED
    BY <2>1, SendingKeeps
<1> QED
  BY <1>1, <1>2

\* A click finds nothing in flight or is not clean; what it sends is its own.
LEMMA AskingKeeps ==
  ASSUME BuilderInv, ReloadInv, NEW i \in Ops, Asks(i)
  PROVE  ReloadInv'
<1>1. Begun(i)
  BY AskBegins
<1>2. NotTyped /\ \A j \in Ops \ {i} : LeftAlone(j)
  BY <1>1 DEF Begun, NotTyped, LeftAlone
<1>3. Quietly
  <2>1. CASE ops'[i].kind \in {"add", "delete"}
    BY <1>1, <2>1, FlushQuietly DEF Begun, FlushAll
  <2>2. CASE ops'[i].kind \notin {"add", "delete"}
    BY <1>1, <2>2 DEF Begun, Quietly
  <2> QED
    BY <2>1, <2>2
<1>4. TypedBefore'
  BY <1>1, <1>2, TypedStill DEF Begun, ReloadInv, LeftAlone
<1>5. ASSUME Clean(i)', Busy(i)'
      PROVE  SentBy(i)'
  <2>1. ops'[i].at = "flush" /\ FlushAll(i)
    BY <1>1, <1>5 DEF Begun, Clean
  <2>2. \A c \in Cards : pending'[c] = Unset
    BY <2>1 DEF FlushAll, Flush, Patched
  <2>3. puts = {}
    <3>1. asked'[i] = [typed |-> latest, quiet |-> puts = {}]
      BY <1>1 DEF Begun
    <3>2. ASSUME NEW b \in BOOLEAN, asked'[i] = [typed |-> latest, quiet |-> b]
          PROVE  asked'[i].quiet = b
      BY <3>2
    <3>3. (puts = {}) \in BOOLEAN
      OBVIOUS
    <3>4. asked'[i].quiet = (puts = {})
      BY <3>1, <3>2, <3>3, Zenon
    <3>5. asked'[i].quiet
      BY <1>5 DEF Clean
    <3> QED
      BY <3>4, <3>5, Zenon
  <2>4. \A p \in puts' : p.by = i
    BY <2>1, <2>3 DEF FlushAll, Flush
  <2> QED
    BY <2>1, <2>2, <2>4 DEF SentBy
<1>6. SentByItself'
  BY <1>2, <1>3, <1>5, SentStill DEF ReloadInv, SentByItself
<1>7. loads' = loads /\ \A l \in loads : l.id \in Ops => l.id # i
  BY <1>1 DEF Begun, ReloadInv, LoadOfOne, NoOp
<1>8. LoadOfOne'
  BY <1>2, <1>7 DEF ReloadInv, LoadOfOne, LeftAlone, Stays
<1>9. LoadedClean'
  <2> SUFFICES ASSUME NEW l \in loads, l.id \in Ops, l.read, Clean(l.id)'
               PROVE  HasEdits(l)'
    BY <1>7 DEF LoadedClean
  <2>1. HasEdits(l)
    BY <1>2, <1>7, CleanBefore DEF ReloadInv, LoadedClean
  <2> QED
    BY <1>2, <2>1 DEF HasEdits, NotTyped
<1> QED
  BY <1>4, <1>6, <1>8, <1>9 DEF ReloadInv

\* A handler leaves its flush when its own requests are answered, and starts its
\* load, not read yet, as its last step.
LEMMA GoingKeeps ==
  ASSUME BuilderInv, ReloadInv, NEW i \in Ops, Flushed(i) \/ Post(i) \/ PostFails(i)
  PROVE  ReloadInv'
<1>1. /\ ops[i].at \in {"flush", "post", "drop", "bind"}
      /\ ops'[i].kind = ops[i].kind /\ ops'[i].at # "flush"
      /\ \A j \in Ops \ {i} : Stays(j)
      /\ IF ops'[i].at = "load" THEN Load(i) ELSE UNCHANGED loads
      /\ ops[i].at = "flush" => \A p \in puts : p.by # i
      /\ UNCHANGED <<pending, puts, edits, latest, asked, mishaps>>
  BY Going
<1>2. NotTyped /\ Quietly /\ \A j \in Ops \ {i} : LeftAlone(j)
  BY <1>1 DEF NotTyped, Quietly, LeftAlone
<1>3. TypedBefore'
  BY <1>1, <1>2, TypedStill DEF ReloadInv
<1>4. ASSUME Clean(i)', Busy(i)'
      PROVE  SentBy(i)'
  <2>1. Clean(i) /\ Busy(i)
    BY <1>1, <1>4 DEF Clean, Busy
  <2>2. SentBy(i)
    BY <2>1 DEF ReloadInv, SentByItself
  <2>3. puts = {}
    BY <1>1, <2>2 DEF SentBy
  <2> QED
    BY <1>1, <2>2, <2>3 DEF SentBy
<1>5. SentByItself'
  BY <1>2, <1>4, SentStill DEF ReloadInv, SentByItself
<1>6. \A l \in loads : l.id \in Ops => l.id # i
  BY <1>1 DEF ReloadInv, LoadOfOne
<1>7. /\ Asked(i).id = i /\ Asked(i).read = FALSE
      /\ \A l \in loads' : l \in loads \/ (l = Asked(i) /\ ops'[i].at = "load")
  BY <1>1 DEF Load, Asked
<1>8. LoadOfOne'
  <2> SUFFICES ASSUME NEW l \in loads', l.id \in Ops
               PROVE  /\ ops'[l.id].at = "load"
                      /\ \A k \in loads' : k.id = l.id => k = l
    BY DEF LoadOfOne
  <2>1. CASE l \in loads
    BY <1>1, <1>6, <1>7, <2>1 DEF ReloadInv, LoadOfOne, Stays
  <2>2. CASE l = Asked(i) /\ ops'[i].at = "load"
    BY <1>6, <1>7, <2>2
  <2> QED
    BY <1>7, <2>1, <2>2
<1>9. LoadedClean'
  <2> SUFFICES ASSUME NEW l \in loads', l.id \in Ops, l.read, Clean(l.id)'
               PROVE  HasEdits(l)'
    BY DEF LoadedClean
  <2>1. l \in loads /\ l.id # i
    BY <1>6, <1>7
  <2>2. HasEdits(l)
    BY <1>2, <2>1, CleanBefore DEF ReloadInv, LoadedClean
  <2> QED
    BY <1>2, <2>2 DEF HasEdits, NotTyped
<1> QED
  BY <1>3, <1>5, <1>8, <1>9 DEF ReloadInv

\* The database has every edit when the load of a clean operation reads it.
LEMMA ReadingKeeps ==
  ASSUME BuilderInv, ReloadInv, NEW l \in loads, LoadReads(l)
  PROVE  ReloadInv'
<1> DEFINE r == [l EXCEPT !.read = TRUE, !.snap = saved]
<1>1. /\ loads' = (loads \ {l}) \cup {r}
      /\ UNCHANGED <<saved, pending, puts, ops, edits, latest, asked, mishaps>>
  BY DEF LoadReads, historyVars
<1>2. l \in LoadType /\ r.id = l.id /\ r.snap = saved
  BY DEF BuilderInv, BuilderTypeOK, LoadType
<1> HIDE DEF r
<1>3. NotTyped /\ Quietly /\ \A j \in Ops : LeftAlone(j)
  BY <1>1 DEF NotTyped, Quietly, LeftAlone, Stays
<1>4. TypedBefore'
  BY <1>3, TypedStill DEF ReloadInv, LeftAlone
<1>5. SentByItself'
  BY <1>3, SentStill DEF ReloadInv, SentByItself
<1>6. LoadOfOne'
  <2> SUFFICES ASSUME NEW k \in loads', k.id \in Ops
               PROVE  /\ ops[k.id].at = "load"
                      /\ \A m \in loads' : m.id = k.id => m = k
    BY <1>1 DEF LoadOfOne
  <2>1. \A m \in loads : m.id = k.id => ops[k.id].at = "load" /\ \A n \in loads : n.id = k.id => n = m
    BY DEF ReloadInv, LoadOfOne
  <2> QED
    BY <1>1, <1>2, <2>1
<1>7. ASSUME l.id \in Ops, Clean(l.id)
      PROVE  HasEdits(r)
  <2>1. ops[l.id].at = "load"
    BY <1>7 DEF ReloadInv, LoadOfOne
  <2>2. puts = {} /\ \A c \in Cards : pending[c] = Unset
    BY <1>7, <2>1 DEF ReloadInv, SentByItself, SentBy, Busy
  <2>3. \A c \in saved.cards : c \in Cards /\ saved.cfg[c] = latest[c]
    BY <1>7, <2>2 DEF Clean, BuilderInv, BuilderTypeOK, Tree, EditsSomewhere
  <2> QED
    BY <1>2, <2>3 DEF HasEdits
<1>8. LoadedClean'
  <2> SUFFICES ASSUME NEW k \in loads', k.id \in Ops, k.read, Clean(k.id)'
               PROVE  HasEdits(k)'
    BY DEF LoadedClean
  <2>1. Clean(k.id)
    BY <1>3, CleanBefore
  <2>2. HasEdits(k)
    BY <1>1, <1>2, <1>7, <2>1 DEF ReloadInv, LoadedClean
  <2> QED
    BY <1>3, <2>2 DEF HasEdits, NotTyped
<1> QED
  BY <1>4, <1>5, <1>6, <1>8 DEF ReloadInv

\* The end of a load ends its operation; the load that a new selection starts is
\* no operation's.
LEMMA EndingKeeps ==
  ASSUME BuilderInv, ReloadInv, NEW l \in loads, LoadLands(l) \/ LoadFails(l)
  PROVE  ReloadInv'
<1>1. /\ \A k \in loads' : \/ k \in loads \ {l}
                            \/ (k = Asked(l.id + MaxOps) /\ l.id + MaxOps # MaxOps)
      /\ ops' = IF l.id \in Ops THEN At(l.id, "done") ELSE ops
      /\ UNCHANGED <<pending, puts, edits, latest, asked, mishaps>>
  <2>1. PICK shown : Finish(l, shown)
    BY DEF LoadLands, LoadFails
  <2>2. \A k \in loads' : \/ k \in loads \ {l}
                          \/ (k = Asked(l.id + MaxOps) /\ l.id + MaxOps # MaxOps)
    <3> DEFINE more == selected' # selected /\ l.id + MaxOps \in LoadIds \ {MaxOps}
    <3>1. loads' = (loads \ {l}) \cup (IF more THEN {Asked(l.id + MaxOps)} ELSE {})
      BY <2>1 DEF Finish
    <3>2. more => l.id + MaxOps # MaxOps
      OBVIOUS
    <3> HIDE DEF more
    <3> QED
      BY <3>1, <3>2
  <2>3. /\ ops' = IF l.id \in Ops THEN At(l.id, "done") ELSE ops
        /\ UNCHANGED <<pending, puts, edits, latest, asked, mishaps>>
    BY <2>1 DEF Finish, historyVars
  <2> QED
    BY <2>2, <2>3
<1>2. l.id \in Nat /\ MaxOps \in Nat /\ ops \in [Ops -> OpType]
  BY BuilderAssumption DEF BuilderInv, BuilderTypeOK, LoadType, LoadIds
<1>3. l.id + MaxOps # MaxOps => Asked(l.id + MaxOps).id \notin Ops
  BY <1>2 DEF Asked, Ops
<1>4. /\ NotTyped /\ Quietly /\ \A j \in Ops \ {l.id} : LeftAlone(j)
      /\ l.id \in Ops => ops'[l.id].at = "done"
  BY <1>1, <1>2 DEF NotTyped, Quietly, LeftAlone, Stays, At, OpType
<1>5. ASSUME NEW k \in loads', k.id \in Ops
      PROVE  k \in loads /\ k.id # l.id
  <2>1. k \in loads \ {l}
    BY <1>1, <1>3, <1>5
  <2>2. l.id \in Ops => \A m \in loads : m.id = l.id => m = l
    BY DEF ReloadInv, LoadOfOne
  <2> QED
    BY <1>5, <2>1, <2>2
<1>6. TypedBefore'
  BY <1>1, <1>4, TypedStill DEF ReloadInv
<1>7. SentByItself'
  <2> SUFFICES ASSUME NEW i \in Ops, Clean(i)', Busy(i)'
               PROVE  SentBy(i)'
    BY DEF SentByItself
  <2>1. i # l.id
    BY <1>4 DEF Busy
  <2> QED
    BY <1>4, <2>1, SentStill DEF ReloadInv
<1>8. LoadOfOne'
  <2> SUFFICES ASSUME NEW k \in loads', k.id \in Ops
               PROVE  /\ ops'[k.id].at = "load"
                      /\ \A m \in loads' : m.id = k.id => m = k
    BY DEF LoadOfOne
  <2>1. ops'[k.id].at = ops[k.id].at /\ k \in loads
    BY <1>4, <1>5 DEF LeftAlone, Stays
  <2>2. \A m \in loads' : m.id = k.id => m \in loads
    BY <1>5
  <2> QED
    BY <2>1, <2>2 DEF ReloadInv, LoadOfOne
<1>9. LoadedClean'
  <2> SUFFICES ASSUME NEW k \in loads', k.id \in Ops, k.read, Clean(k.id)'
               PROVE  HasEdits(k)'
    BY DEF LoadedClean
  <2>1. k \in loads /\ Clean(k.id)
    BY <1>4, <1>5, CleanBefore
  <2>2. HasEdits(k)
    BY <2>1 DEF ReloadInv, LoadedClean
  <2> QED
    BY <1>4, <2>2 DEF HasEdits, NotTyped
<1> QED
  BY <1>6, <1>7, <1>8, <1>9 DEF ReloadInv

LEMMA ReloadStep == BuilderInv /\ ReloadInv /\ [BuilderNext]_builderVars => ReloadInv'
<1> SUFFICES ASSUME BuilderInv, ReloadInv, [BuilderNext]_builderVars
             PROVE  ReloadInv'
  OBVIOUS
<1>1. CASE UNCHANGED builderVars
  <2>1. NotTyped /\ Quietly /\ UNCHANGED <<ops, loads, asked>>
    BY <1>1 DEF builderVars, NotTyped, Quietly
  <2> QED
    BY <2>1, SendingKeeps
<1>2. ASSUME NEW c \in Edited, NEW f \in Fields, NEW whole \in BOOLEAN, Edit(c, f, whole)
      PROVE  ReloadInv'
  <2>1. c \in Cards
    BY BuilderAssumption
  <2>2. TypedBefore' /\ \A i \in Ops : ~Clean(i)'
    BY <1>2, <2>1, EditSpoils DEF ReloadInv
  <2>3. UNCHANGED <<ops, loads>>
    BY <1>2 DEF Edit, requestVars
  <2>4. SentByItself'
    BY <2>2 DEF SentByItself
  <2>5. LoadedClean'
    BY <2>2 DEF LoadedClean
  <2>6. LoadOfOne'
    BY <2>3 DEF ReloadInv, LoadOfOne
  <2> QED
    BY <2>2, <2>4, <2>5, <2>6 DEF ReloadInv
<1>3. CASE \/ \E c \in Cards : FlushTimer(c)
           \/ \E p \in puts : PutArrives(p) \/ PutFails(p)
  BY <1>3, SendingStep
<1>4. ASSUME NEW i \in Ops, Asks(i) \/ Flushed(i) \/ Post(i) \/ PostFails(i)
      PROVE  ReloadInv'
  BY <1>4, AskingKeeps, GoingKeeps
<1>5. ASSUME NEW l \in loads, LoadReads(l) \/ LoadLands(l) \/ LoadFails(l)
      PROVE  ReloadInv'
  BY <1>5, ReadingKeeps, EndingKeeps
<1> QED
  BY <1>1, <1>2, <1>3, <1>4, <1>5 DEF BuilderNext

\* Only the answer to its load ends an operation that waits for it.
LEMMA Landing ==
  ASSUME BuilderInv, [BuilderNext]_builderVars, NEW i \in Ops,
         ops[i].at = "load", ops'[i].at = "done", failures' = failures
  PROVE  \E l \in loads : l.id = i /\ LoadLands(l)
<1>1. ops \in [Ops -> OpType] /\ failures \in Nat
  BY BuilderAssumption DEF BuilderInv, BuilderTypeOK
<1>2. ops'[i] # ops[i]
  OBVIOUS
<1>3. \A j \in Ops : ~Asks(j)
  <2> SUFFICES ASSUME NEW j \in Ops, Asks(j) PROVE FALSE
    OBVIOUS
  <2>1. Begun(j)
    BY AskBegins
  <2>2. i # j
    BY <2>1 DEF Begun, NoOp
  <2> QED
    BY <2>1, <2>2 DEF Begun, Stays
<1>4. \A j \in Ops : ~(Flushed(j) \/ Post(j) \/ PostFails(j))
  <2> SUFFICES ASSUME NEW j \in Ops, Flushed(j) \/ Post(j) \/ PostFails(j) PROVE FALSE
    OBVIOUS
  <2>1. /\ ops[j].at \in {"flush", "post", "drop", "bind"}
        /\ \A k \in Ops \ {j} : Stays(k)
    BY Going
  <2> QED
    BY <2>1 DEF Stays
<1>5. PICK l \in loads : LoadLands(l) \/ LoadFails(l)
  BY <1>2, <1>3, <1>4
     DEF BuilderNext, Edit, requestVars, FlushTimer, PutArrives, PutFails, LoadReads,
         builderVars
<1>6. ~LoadFails(l)
  BY <1>1 DEF LoadFails
<1>7. l.id = i
  BY <1>1, <1>2, <1>5 DEF LoadLands, LoadFails, Finish, At
<1> QED
  BY <1>5, <1>6, <1>7

\* The reload that ends an addition or a deletion takes no edit off the screen,
\* for any number of edits, cards and operations under way at once, if nothing was
\* in flight at its click and nothing was typed since: until its load has read the
\* database, what is in flight is what it sent itself and waits for.
THEOREM ReloadKeepsEdits == BuilderSpec => FlushBeforeReload
<1> DEFINE Shows(i) ==
       /\ ops[i].kind \in {"add", "delete"} /\ ops[i].at = "load"
       /\ ops'[i].at = "done" /\ failures' = failures
       /\ asked[i].quiet /\ asked[i].typed = latest
       /\ mishaps \cap {"failed", "crossed", "staleEdit"} = {}
       => \A c \in tree'.cards : tree'.cfg[c] = latest[c]
<1>1. BuilderInv /\ ReloadInv /\ [BuilderNext]_builderVars =>
        [\A i \in Ops : Shows(i)]_builderVars
  <2> SUFFICES ASSUME BuilderInv, ReloadInv, [BuilderNext]_builderVars, NEW i \in Ops,
                      ops[i].kind \in {"add", "delete"}, ops[i].at = "load",
                      ops'[i].at = "done", failures' = failures,
                      asked[i].quiet, asked[i].typed = latest,
                      mishaps \cap {"failed", "crossed", "staleEdit"} = {}
               PROVE  \A c \in tree'.cards : tree'.cfg[c] = latest[c]
    OBVIOUS
  <2>1. Clean(i)
    BY DEF Clean, Grave
  <2>2. PICK l \in loads : l.id = i /\ LoadLands(l)
    BY Landing
  <2>3. l.read /\ tree' = l.snap
    BY <2>2 DEF LoadLands
  <2>4. HasEdits(l)
    BY <2>1, <2>2, <2>3 DEF ReloadInv, LoadedClean
  <2> QED
    BY <2>3, <2>4 DEF HasEdits
<1>2. BuilderInv /\ ReloadInv /\ [BuilderNext]_builderVars => ReloadInv'
  BY ReloadStep
<1> QED
  BY <1>1, <1>2, ReloadStart, BuilderInvariant, PTL DEF BuilderSpec, FlushBeforeReload
==============================================================================
