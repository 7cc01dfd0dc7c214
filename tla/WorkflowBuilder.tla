---------------------------- MODULE WorkflowBuilder ----------------------------
(***************************************************************************)
(* The page on which a person draws a workflow: the screen shows a copy of *)
(* the workflow (tree), edits change the copy at once and are collected    *)
(* per card until a timer sends them, and several operations fetch the     *)
(* copy again.  The server keeps the last configuration it is sent.        *)
(*                                                                         *)
(* A value of a field is the number of the edit that typed it; 0 is a      *)
(* field the configuration does not have.  The sending of a request and    *)
(* its arrival are separate steps, so requests overtake each other.  Its   *)
(* arrival and its answer are one, except for a read of the tree.          *)
(***************************************************************************)
EXTENDS Naturals, FiniteSets

CONSTANTS
  Cards,       \* every card that may exist
  FirstCards,  \* the cards when the page opens
  Forks,       \* the cards that are decisions: their edges are bound by hand
  Edited,      \* the cards this person edits and binds
  Fields,      \* the fields of a card's decision_config
  Configured,  \* the fields that have a value when the page opens
  NoCard,
  MaxEdits,    \* bound: edits typed, the one of Configured included
  MaxOps,      \* bound: operations clicked
  MaxActs,     \* bound: edits typed and operations clicked, together
  MaxFailures  \* bound: requests that fail

ASSUME BuilderAssumption ==
  /\ FirstCards \subseteq Cards /\ Forks \subseteq Cards /\ Edited \subseteq Cards
  /\ Configured \subseteq Fields
  /\ NoCard \notin Cards
  /\ MaxEdits \in Nat \ {0} /\ MaxOps \in Nat /\ MaxActs \in Nat /\ MaxFailures \in Nat

Config   == [Fields -> 0..MaxEdits]
Unset    == [f \in Fields |-> 0]
Opened   == [c \in Cards |-> [f \in Fields |->
              IF c \in FirstCards /\ f \in Configured THEN 1 ELSE 0]]
Edges    == Cards \X Cards
Tree     == [cards : SUBSET Cards, cfg : [Cards -> Config], edges : SUBSET Edges]
Ops      == 1..MaxOps
\* The loads that the effect on loadTree starts: one at the start, and one or
\* two when an operation changes the selection.
LoadIds  == 0..(3 * MaxOps)
NoOp     == [kind |-> "none", at |-> "done", card |-> NoCard, old |-> NoCard,
            new |-> NoCard]

VARIABLES
  saved,     \* the workflow in the database
  tree,      \* the workflow on the screen
  selected,  \* selectedCardId
  pending,   \* pendingPatchesRef: per card the configuration not sent yet
  timer,     \* debounceTimerRef: the cards whose timer runs
  puts,      \* PUT requests in flight: [card, cfg, by], by 0 for a timer
  loads,     \* GET tree requests in flight: [id, read, snap]
  ops,       \* the operations that were clicked
  edits,     \* how many edits were typed
  failures,  \* how many requests failed
  \* History, read by the properties only:
  latest,    \* per card and field the last edit typed
  unsent,    \* per card the fields typed since the card was last sent
  asked,     \* per operation, what had been typed when it was clicked
  mishaps    \* what may cost an edit: "failed", "crossed", "staleEdit", "staleBind"

builderVars == <<saved, tree, selected, pending, timer, puts, loads, ops, edits,
                 failures, latest, unsent, asked, mishaps>>
requestVars == <<saved, puts, loads, ops>>
historyVars == <<latest, unsent, asked, mishaps>>

\* The spread of two configurations: the first wins where it has a field.
Spread(p, q) == [f \in Fields |-> IF p[f] # 0 THEN p[f] ELSE q[f]]

FirstTree == [cards |-> FirstCards, cfg |-> Opened, edges |-> {}]
Asked(id) == [id |-> id, read |-> FALSE, snap |-> FirstTree]

\* The page has shown its first tree and selected a card, which has made
\* loadTree a new function: the effect on it is loading the tree again.
BuilderInit ==
  /\ saved = FirstTree /\ tree = FirstTree
  /\ selected \in FirstCards
  /\ pending = [c \in Cards |-> Unset]
  /\ timer = {} /\ puts = {} /\ loads = {Asked(0)}
  /\ ops = [i \in Ops |-> NoOp]
  /\ edits = 1 /\ failures = 0
  /\ latest = Opened
  /\ unsent = [c \in Cards |-> {}]
  /\ asked = [i \in Ops |-> [typed |-> latest, quiet |-> FALSE]]
  /\ mishaps = {}

\* What the person has done so far: the bound on it.
Acts == edits + Cardinality({i \in Ops : ops[i] # NoOp})

-----------------------------------------------------------------------------
(* Editing.                                                                *)

\* What an editor sends: the whole configuration it shows with one field
\* changed (approval, condition, switch), or the field alone (loop).
Incoming(c, f, whole) ==
  LET one == [Unset EXCEPT ![f] = edits + 1]
  IN  IF whole THEN Spread(one, tree.cfg[c]) ELSE one

\* updateCard: the union of the tree, the pending patch and the edit is shown
\* at once and kept to be sent; the timer of the card starts again.
Merged(c, inc) == Spread(inc, Spread(pending[c], tree.cfg[c]))

Edit(c, f, whole) ==
  /\ edits < MaxEdits /\ Acts <= MaxActs
  /\ c \in tree.cards
  /\ LET next == Merged(c, Incoming(c, f, whole))
     IN  /\ pending' = [pending EXCEPT ![c] = next]
         /\ tree' = [tree EXCEPT !.cfg[c] = next]
  /\ timer' = timer \cup {c}
  /\ edits' = edits + 1
  /\ latest' = [latest EXCEPT ![c][f] = edits + 1]
  /\ unsent' = [unsent EXCEPT ![c] = @ \cup {f}]
  /\ mishaps' = IF \E g \in Fields \ {f} : tree.cfg[c][g] # latest[c][g]
                THEN mishaps \cup {"staleEdit"} ELSE mishaps
  /\ UNCHANGED <<requestVars, selected, failures, asked>>

\* flushPatch of the cards cs: each pending patch is taken out and sent.
Patched(cs) == {c \in cs : pending[c] # Unset}
Flush(cs, by) ==
  LET sent == Patched(cs)
  IN  /\ pending' = [c \in Cards |-> IF c \in sent THEN Unset ELSE pending[c]]
      /\ puts' = puts \cup {[card |-> c, cfg |-> pending[c], by |-> by] : c \in sent}
      /\ unsent' = [c \in Cards |-> IF c \in sent THEN {} ELSE unsent[c]]
      /\ mishaps' = IF \E c \in sent, p \in puts : p.card = c
                    THEN mishaps \cup {"crossed"} ELSE mishaps

\* The timer of a card fires.
FlushTimer(c) ==
  /\ c \in timer
  /\ timer' = timer \ {c}
  /\ Flush({c}, 0)
  /\ UNCHANGED <<saved, tree, selected, loads, ops, edits, failures, latest, asked>>

\* A PUT arrives: the database keeps the configuration it is sent, whole.
Store(p) ==
  IF p.card \in saved.cards THEN [saved EXCEPT !.cfg[p.card] = p.cfg] ELSE saved

\* Mutant: the patch is cleared when the answer comes, not when it is sent.
PutArrivesAndClears(p) ==
  /\ puts' = puts \ {p}
  /\ saved' = Store(p)
  /\ pending' = [pending EXCEPT ![p.card] = Unset]
  /\ mishaps' = IF p.card \in saved.cards THEN mishaps ELSE mishaps \cup {"failed"}
  /\ UNCHANGED <<tree, selected, timer, loads, ops, edits, failures, latest, unsent,
                 asked>>

PutArrives(p) ==
  /\ puts' = puts \ {p}
  /\ saved' = Store(p)
  /\ mishaps' = IF p.card \in saved.cards THEN mishaps ELSE mishaps \cup {"failed"}
  /\ UNCHANGED <<tree, selected, pending, timer, loads, ops, edits, failures,
                 latest, unsent, asked>>

\* A PUT fails, before or after it was stored: a banner is shown, and nothing
\* puts the patch back.
PutFails(p) ==
  /\ failures < MaxFailures
  /\ failures' = failures + 1
  /\ puts' = puts \ {p}
  /\ saved' \in {saved, Store(p)}
  /\ mishaps' = mishaps \cup {"failed"}
  /\ UNCHANGED <<tree, selected, pending, timer, loads, ops, edits, latest,
                 unsent, asked>>

-----------------------------------------------------------------------------
(* Operations.                                                             *)

At(i, p) == [ops EXCEPT ![i].at = p]

\* A click runs a handler of its own, whatever other handlers are doing.
Click(i, op) ==
  /\ ops[i] = NoOp /\ Acts <= MaxActs
  /\ \A j \in Ops : j < i => ops[j] # NoOp
  /\ ops' = [ops EXCEPT ![i] = op]
  /\ asked' = [asked EXCEPT ![i] = [typed |-> latest, quiet |-> puts = {}]]
  /\ UNCHANGED <<saved, tree, selected, loads, edits, failures, latest>>

\* Mutant: the timers are cancelled and nothing is sent.
CancelAll(i) ==
  /\ timer' = {}
  /\ UNCHANGED <<pending, puts, unsent, mishaps>>

\* Mutant: every timer is cancelled and only the selected card is sent.
FlushSelected(i) ==
  /\ timer' = {}
  /\ Flush(Cards \cap {selected}, i)

\* flushAll: every timer is cancelled and every pending patch sent; what a
\* timer has sent before is not waited for.
FlushAll(i) ==
  /\ timer' = {}
  /\ Flush(Cards, i)

\* addCard appends to the one open end of the tree on the screen, if it is one.
OpenEnds == {c \in tree.cards \ Forks : \A e \in tree.edges : e[1] # c}
ClickAdd(i) ==
  /\ \E tail \in OpenEnds \cup {NoCard} :
        /\ tail # NoCard <=> Cardinality(OpenEnds) = 1
        /\ Click(i, [kind |-> "add", at |-> "flush", card |-> NoCard, old |-> tail,
                     new |-> NoCard])
  /\ FlushAll(i)

ClickDelete(i, c) ==
  /\ c \in tree.cards
  /\ Click(i, [kind |-> "delete", at |-> "flush", card |-> c, old |-> selected,
               new |-> NoCard])
  /\ FlushAll(i)

\* The targets that the screen shows for the branch of a decision.
Shown(c) == {d \in Cards : <<c, d>> \in tree.edges}
Busy(i)  == ops[i].at # "done"

\* setBranchEdge, called with the target on the screen and another one.
ClickBind(i, c, old, new) ==
  /\ c \in tree.cards \cap Forks
  /\ old \in IF Shown(c) = {} THEN {NoCard} ELSE Shown(c)
  /\ new \in (tree.cards \cup {NoCard}) \ {c, old}
  /\ Click(i, [kind |-> "bind", at |-> IF old # NoCard THEN "drop" ELSE "bind",
               card |-> c, old |-> old, new |-> new])
  /\ mishaps' = IF \/ \E d \in Cards : (<<c, d>> \in tree.edges) # (<<c, d>> \in saved.edges)
                   \/ \E j \in Ops : Busy(j) /\ ops[j].kind = "bind" /\ ops[j].card = c
                THEN mishaps \cup {"staleBind"} ELSE mishaps
  /\ UNCHANGED <<pending, timer, puts, unsent>>

\* transitionState and moveCard: a request that leaves the configurations and
\* edges alone, and a reload, without a flush.
ClickReload(i) ==
  /\ Click(i, [kind |-> "reload", at |-> "post", card |-> NoCard, old |-> NoCard,
               new |-> NoCard])
  /\ UNCHANGED <<pending, timer, puts, unsent, mishaps>>

\* The flush is over when its own requests have been answered; deleteCard then
\* asks for a confirmation.
Flushed(i) ==
  /\ ops[i].at = "flush"
  /\ \A p \in puts : p.by # i
  /\ \/ ops' = At(i, "post")
     \/ ops[i].kind = "delete" /\ ops' = At(i, "done")
  /\ UNCHANGED <<saved, tree, selected, pending, timer, puts, loads, edits,
                 failures, historyVars>>

Load(i) == loads' = loads \cup {Asked(i)}

\* The request that the operation is about, and the next step of its handler.
\* A new card has an id of its own.
Fresh == Cards \ (FirstCards \cup {ops[j].card : j \in Ops})
PostAdd(i) ==
  /\ ops[i].kind = "add" /\ ops[i].at = "post"
  /\ \E c \in Fresh :
       /\ saved' = [saved EXCEPT !.cards = @ \cup {c}]
       /\ ops' = [ops EXCEPT ![i].card = c,
                             ![i].at = IF ops[i].old = NoCard THEN "load" ELSE "bind"]
  /\ IF ops[i].old = NoCard THEN Load(i) ELSE UNCHANGED loads

PostDelete(i) ==
  /\ ops[i].kind = "delete" /\ ops[i].at = "post"
  /\ IF ops[i].card \in saved.cards
     THEN /\ saved' = [saved EXCEPT !.cards = @ \ {ops[i].card},
                         !.edges = {e \in @ : ops[i].card \notin {e[1], e[2]}}]
          /\ ops' = At(i, "load") /\ Load(i)
     ELSE /\ ops' = At(i, "done")
          /\ UNCHANGED <<saved, loads>>

PostReload(i) ==
  /\ ops[i].kind = "reload" /\ ops[i].at = "post"
  /\ ops' = At(i, "load") /\ Load(i)
  /\ UNCHANGED saved

\* Mutant: the edge that is replaced stays.
KeepEdge(i) ==
  /\ ops[i].at = "drop"
  /\ ops' = At(i, IF ops[i].new # NoCard THEN "bind" ELSE "load")
  /\ IF ops[i].new # NoCard THEN UNCHANGED loads ELSE Load(i)
  /\ UNCHANGED saved

\* The edge that is replaced goes first; if it is gone already the handler ends.
DropEdge(i) ==
  /\ ops[i].at = "drop"
  /\ LET e == <<ops[i].card, ops[i].old>>
     IN  IF e \in saved.edges
         THEN /\ saved' = [saved EXCEPT !.edges = @ \ {e}]
              /\ ops' = At(i, IF ops[i].new # NoCard THEN "bind" ELSE "load")
              /\ IF ops[i].new # NoCard THEN UNCHANGED loads ELSE Load(i)
         ELSE /\ ops' = At(i, "done")
              /\ UNCHANGED <<saved, loads>>

\* The edge that an operation draws: from the open end to the new card, or from
\* the decision to its new target.
NewEdge(i) == IF ops[i].kind = "add" THEN <<ops[i].old, ops[i].card>>
                                     ELSE <<ops[i].card, ops[i].new>>
BindEdge(i) ==
  /\ ops[i].at = "bind"
  /\ LET e == NewEdge(i)
     IN  IF {e[1], e[2]} \subseteq saved.cards
         THEN /\ saved' = [saved EXCEPT !.edges = @ \cup {e}]
              /\ ops' = At(i, "load") /\ Load(i)
         ELSE /\ IF ops[i].kind = "add" THEN ops' = At(i, "load") /\ Load(i)
                                        ELSE ops' = At(i, "done") /\ UNCHANGED loads
              /\ UNCHANGED saved

Post(i) ==
  /\ PostAdd(i) \/ PostDelete(i) \/ PostReload(i) \/ DropEdge(i) \/ BindEdge(i)
  /\ UNCHANGED <<tree, selected, pending, timer, puts, edits, failures, historyVars>>

\* The request fails: the handler ends with a banner, except that a new card
\* whose edge could not be drawn is loaded all the same.
PostFails(i) ==
  /\ ops[i].at \in {"post", "drop", "bind"}
  /\ failures < MaxFailures
  /\ failures' = failures + 1
  /\ IF ops[i].kind = "add" /\ ops[i].at = "bind"
     THEN ops' = At(i, "load") /\ Load(i)
     ELSE ops' = At(i, "done") /\ UNCHANGED loads
  /\ UNCHANGED <<saved, tree, selected, pending, timer, puts, edits, historyVars>>

-----------------------------------------------------------------------------
(* Reading the tree again.                                                 *)

LoadReads(l) ==
  /\ ~l.read
  /\ loads' = (loads \ {l}) \cup {[l EXCEPT !.read = TRUE, !.snap = saved]}
  /\ UNCHANGED <<saved, tree, selected, pending, timer, puts, ops, edits, failures,
                 historyVars>>

\* What the handler selects when its load is over: addCard its new card,
\* deleteCard nothing if its card was selected at the click; and a load that finds nothing
\* selected takes the first card.
Selects(l, shown) ==
  IF l.id \in Ops /\ ops[l.id].kind = "add" THEN {ops[l.id].card}
  ELSE IF l.id \in Ops /\ ops[l.id].kind = "delete" /\ ops[l.id].card = ops[l.id].old
       THEN {NoCard}
  ELSE IF selected = NoCard /\ shown # {} THEN shown
  ELSE {selected}

\* A new selection makes loadTree a new function, and its effect loads again.
Finish(l, shown) ==
  /\ selected' \in Selects(l, shown)
  /\ loads' = (loads \ {l}) \cup
              (IF selected' # selected /\ l.id + MaxOps \in LoadIds \ {MaxOps}
               THEN {Asked(l.id + MaxOps)} ELSE {})
  /\ ops' = IF l.id \in Ops THEN At(l.id, "done") ELSE ops
  /\ UNCHANGED <<saved, pending, timer, puts, edits, historyVars>>

\* The answer replaces the tree on the screen, edits included.
LoadLands(l) ==
  /\ l.read
  /\ tree' = l.snap
  /\ Finish(l, l.snap.cards)
  /\ UNCHANGED failures

LoadFails(l) ==
  /\ failures < MaxFailures
  /\ failures' = failures + 1
  /\ Finish(l, {})
  /\ UNCHANGED tree

-----------------------------------------------------------------------------
Asks(i) ==
  \/ ClickAdd(i)
  \/ ClickReload(i)
  \/ \E c \in Edited : \/ ClickDelete(i, c)
                       \/ \E old, new \in Cards \cup {NoCard} : ClickBind(i, c, old, new)

BuilderNext ==
  \/ \E c \in Edited, f \in Fields, whole \in BOOLEAN : Edit(c, f, whole)
  \/ \E c \in Cards : FlushTimer(c)
  \/ \E p \in puts : PutArrives(p) \/ PutFails(p)
  \/ \E i \in Ops : Asks(i) \/ Flushed(i) \/ Post(i) \/ PostFails(i)
  \/ \E l \in loads : LoadReads(l) \/ LoadLands(l) \/ LoadFails(l)

BuilderSpec == BuilderInit /\ [][BuilderNext]_builderVars

-----------------------------------------------------------------------------
(* Properties.                                                             *)

BuilderQuiet == puts = {} /\ pending = [c \in Cards |-> Unset]

\* When nothing is left to send, the database has the last edit of every field,
\* whatever was added, deleted, bound and reloaded meanwhile, unless a request
\* failed, two requests of one card were in flight together, or an edit was made
\* on a screen that had gone back behind an earlier edit.
SettledIsSaved ==
  BuilderQuiet /\ mishaps \cap {"failed", "crossed", "staleEdit"} = {} =>
    \A c \in saved.cards : saved.cfg[c] = latest[c]

\* The reload that ends addCard or deleteCard takes no edit off the screen: if no
\* request was in flight when it was clicked and nothing was typed since, the
\* tree it shows has every edit ("otherwise loadTree overwrites the optimistic
\* local state with a BE snapshot that predates the in-flight edit").
FlushBeforeReload ==
  [][\A i \in Ops :
       /\ ops[i].kind \in {"add", "delete"} /\ ops[i].at = "load"
       /\ ops'[i].at = "done" /\ failures' = failures
       /\ asked[i].quiet /\ asked[i].typed = latest
       /\ mishaps \cap {"failed", "crossed", "staleEdit"} = {}
       => \A c \in tree'.cards : tree'.cfg[c] = latest[c]]_builderVars

\* The branch of a decision leads to one card at most, however often it is bound
\* again, unless it was bound on a screen that did not show its edge yet.
ArmBoundOnce ==
  "staleBind" \notin mishaps =>
    \A c \in Forks : Cardinality({d \in Cards : <<c, d>> \in saved.edges}) <= 1

\* An edit that waits to be sent has a timer that will send it: no flush that
\* cancels timers and no other operation leaves one behind.
PendingHasTimer == \A c \in Cards : pending[c] # Unset => c \in timer

\* The builder says of an edit that waits to be sent that a reload between edits
\* cannot strip it.  (Checked to fail: see the run "stripped".)
PendingKeepsEdits ==
  \A c \in Cards : \A f \in unsent[c] : pending[c][f] = latest[c][f]
==============================================================================
