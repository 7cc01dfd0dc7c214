----------------------------- MODULE UploadQueue ------------------------------
(***************************************************************************)
(* Uploading files: the list of files on the screen, sent one after        *)
(* another; the idempotency cache of the gateway, which replays the answer *)
(* to a key it knows; and the data pipeline, which answers at once, ingests *)
(* in the background, and recognises a content it already has.             *)
(*                                                                         *)
(* The path of a file that is attached to a card of a workflow is not      *)
(* modelled: it is ingested before it is answered.                         *)
(***************************************************************************)
EXTENDS Naturals, Sequences, FiniteSets, SequencesExt

CONSTANTS
  Files,      \* files that may be put on the list
  ContentOf,  \* the content (SHA-256) of a file
  Hashable,   \* the files that can be hashed (the others cannot be read, or the page
              \* has no Web Crypto): they have a key of their own
  NoAnswer,
  MaxPolls,   \* how often the status is asked for (150)
  MaxSent,    \* bound: files sent, each time they are sent
  MaxFaults   \* bound: requests and background tasks that fail or die

ASSUME UploadAssumption ==
  /\ IsFiniteSet(Files) /\ NoAnswer \notin Files /\ Hashable \subseteq Files
  /\ MaxPolls \in Nat \ {0}
  /\ MaxSent \in Nat /\ MaxFaults \in Nat

Contents == {ContentOf[f] : f \in Files}
Statuses == {"absent", "hashing", "ready", "uploading", "success", "duplicate",
             "failed", "removed"}

VARIABLES
  item,    \* per file on the list [status, run, tries]
  queue,   \* the files left of this pass, the one being sent first
  running, \* a pass is under way
  posts,   \* requests [file, key, at, dup, run, live]
  cache,   \* the gateway: per key the answer it replays [dup, run], or NoAnswer
  run,     \* per run of the pipeline [content, state]
  sent, faults,
  early    \* history: runs found as duplicates while they were still ingesting

uploadVars == <<item, queue, running, posts, cache, run, sent, faults, early>>
pageVars   == <<item, queue, running>>

\* An item whose run, if it had one, is of no further use.
Blank(st) == [status |-> st, run |-> 0, tries |-> 0]

UploadInit ==
  /\ item = [f \in Files |-> Blank("absent")]
  /\ queue = <<>> /\ running = FALSE /\ posts = {}
  /\ cache = [k \in Files \cup Contents |-> NoAnswer]
  /\ run = <<>>
  /\ sent = 0 /\ faults = 0 /\ early = {}

Status(f) == item[f].status
Fault == faults < MaxFaults /\ faults' = faults + 1

-----------------------------------------------------------------------------
(* The list.                                                               *)

AddFile(f) ==
  /\ Status(f) = "absent"
  /\ item' = [item EXCEPT ![f].status = "hashing"]
  /\ UNCHANGED <<queue, running, posts, cache, run, sent, faults, early>>

HashItem(f) ==
  /\ Status(f) = "hashing"
  /\ item' = [item EXCEPT ![f].status = "ready"]
  /\ UNCHANGED <<queue, running, posts, cache, run, sent, faults, early>>

RemoveItem(f) ==
  /\ ~running /\ Status(f) \notin {"absent", "removed", "uploading"}
  /\ item' = [item EXCEPT ![f] = Blank("removed")]
  /\ UNCHANGED <<queue, running, posts, cache, run, sent, faults, early>>

\* uploadAll: the files to send are those of now; a failed one is sent again.
Sendable(f) == Status(f) \in {"ready", "failed"}
UploadAll ==
  /\ ~running
  /\ \A f \in Files : Status(f) # "hashing"
  /\ \E f \in Files : Sendable(f)
  /\ running' = TRUE
  /\ queue' = SetToSeq({f \in Files : Sendable(f)})
  /\ sent + Len(queue') <= MaxSent
  /\ sent' = sent + Len(queue')
  /\ UNCHANGED <<item, posts, cache, run, faults, early>>

Sending == \E p \in posts : p.live

\* uploadOne.
Key(f) == IF f \in Hashable THEN ContentOf[f] ELSE f
SendFile ==
  /\ running /\ queue # <<>> /\ ~Sending
  /\ LET f == Head(queue)
     IN  /\ item' = [item EXCEPT ![f].status = "uploading"]
         /\ posts' = posts \cup {[file |-> f, key |-> Key(f), at |-> "sent",
                                  dup |-> FALSE, run |-> 0, live |-> TRUE]}
  /\ queue' = Tail(queue)
  /\ UNCHANGED <<running, cache, run, sent, faults, early>>

EndPass ==
  /\ running /\ queue = <<>> /\ ~Sending
  /\ running' = FALSE
  /\ UNCHANGED <<item, queue, posts, cache, run, sent, faults, early>>

-----------------------------------------------------------------------------
(* The gateway and the upload endpoint.                                    *)

Passes(p, q) == posts' = (posts \ {p}) \cup {q}

\* An answer in the cache is replayed; otherwise the request goes on, and
\* another with its key may go on as well.
LookUp(p) ==
  /\ p.at = "sent"
  /\ Passes(p, IF cache[p.key] # NoAnswer
              THEN [p EXCEPT !.at = "answered", !.dup = cache[p.key].dup,
                             !.run = cache[p.key].run]
              ELSE [p EXCEPT !.at = "passed"])
  /\ UNCHANGED <<pageVars, cache, run, sent, faults, early>>

\* The runs of a content that count as having it.
Existing(c) == {r \in DOMAIN run : /\ run[r].content = c
                                   /\ run[r].state \in {"uploading", "stalled", "ok"}}

\* upload_file: a run that has the content is the answer; otherwise a new run
\* is promised, and begun in the background.
Handle(p) ==
  /\ p.at = "passed"
  /\ LET c == ContentOf[p.file]
     IN  \/ \E r \in Existing(c) :
              /\ Passes(p, [p EXCEPT !.at = "answered", !.dup = TRUE, !.run = r])
              /\ early' = IF run[r].state \in {"uploading", "stalled"}
                          THEN early \cup {r} ELSE early
              /\ UNCHANGED run
         \/ /\ Existing(c) = {}
            /\ run' = Append(run, [content |-> c, state |-> "begun"])
            /\ Passes(p, [p EXCEPT !.at = "answered", !.run = Len(run')])
            /\ UNCHANGED early
  /\ UNCHANGED <<pageVars, cache, sent, faults>>

\* Mutant: a promise is taken for success.
ShowsSuccess(f, dup, r) ==
  [item EXCEPT ![f].status = IF dup THEN "duplicate" ELSE "success", ![f].run = r]

\* What the page makes of an answer: a duplicate is done, a promise is followed.
Shows(f, dup, r) ==
  [item EXCEPT ![f].status = IF dup THEN "duplicate" ELSE "uploading",
               ![f].run = r]

\* The answer passes the gateway, which keeps it if its cache can be written.
Answer(p) ==
  /\ p.at = "answered"
  /\ cache' \in {cache, [cache EXCEPT ![p.key] = [dup |-> p.dup, run |-> p.run]]}
  /\ posts' = posts \ {p}
  /\ item' = IF p.live THEN Shows(p.file, p.dup, p.run) ELSE item
  /\ UNCHANGED <<queue, running, run, sent, faults, early>>

\* The request fails for the page: the server never sees it, or answers nobody.
SendFails(p) ==
  /\ p.live /\ Fault
  /\ item' = [item EXCEPT ![p.file] = Blank("failed")]
  /\ \/ posts' = posts \ {p}
     \/ Passes(p, [p EXCEPT !.live = FALSE])
  /\ UNCHANGED <<queue, running, cache, run, sent, early>>

-----------------------------------------------------------------------------
(* The background task of a run.                                           *)

Becomes(r, st) == run' = [run EXCEPT ![r].state = st]
Aside == <<pageVars, posts, cache, sent, early>>

\* ingest_file looks for the content again; if another run has it by now, the
\* promised run is dropped without a trace.
CheckAgain(r) ==
  /\ run[r].state = "begun"
  /\ Becomes(r, IF Existing(run[r].content) # {} THEN "dropped" ELSE "checked")
  /\ UNCHANGED <<Aside, faults>>

\* The row is inserted; the unique index on the content may forbid it, and then
\* the run is recorded as failed.
Insert(r) ==
  /\ run[r].state = "checked"
  /\ Becomes(r, IF Existing(run[r].content) # {} THEN "failed" ELSE "uploading")
  /\ UNCHANGED <<Aside, faults>>

Ingested(r) ==
  /\ run[r].state = "uploading"
  /\ Becomes(r, "ok")
  /\ UNCHANGED <<Aside, faults>>

IngestFails(r) ==
  /\ run[r].state \in {"begun", "checked", "uploading"} /\ Fault
  /\ Becomes(r, "failed")
  /\ UNCHANGED Aside

\* The process dies: no row, or a row that says "uploading" for good.
IngestDies(r) ==
  /\ run[r].state \in {"begun", "checked", "uploading"} /\ Fault
  /\ Becomes(r, IF run[r].state = "uploading" THEN "stalled" ELSE "dropped")
  /\ UNCHANGED Aside

Polled(f) == Status(f) = "uploading" /\ item[f].run # 0

\* Mutant: a run without a row is asked for again without counting.
GoneUncounted(f) == item

\* pollStatus: a run without a row (404) and a status that cannot be read count
\* as a try; after the last one the file has failed.
Gone(f) == IF item[f].tries + 1 < MaxPolls THEN [item EXCEPT ![f].tries = @ + 1]
                                           ELSE [item EXCEPT ![f] = Blank("failed")]
Tick(f) ==
  /\ Polled(f)
  /\ LET st == run[item[f].run].state
     IN  item' = CASE st = "ok"     -> [item EXCEPT ![f].status = "success", ![f].tries = 0]
                   [] st = "failed" -> [item EXCEPT ![f] = Blank("failed")]
                   [] OTHER         -> Gone(f)
  /\ UNCHANGED <<queue, running, posts, cache, run, sent, faults, early>>

TickFails(f) ==
  /\ Polled(f) /\ Fault
  /\ item' = Gone(f)
  /\ UNCHANGED <<queue, running, posts, cache, run, sent, early>>

-----------------------------------------------------------------------------
\* One step of a request on its way, whatever it is at.
Progress == \E p \in posts : LookUp(p) \/ Handle(p) \/ Answer(p)

UploadNext ==
  \/ \E f \in Files : \/ AddFile(f) \/ RemoveItem(f) \/ HashItem(f)
                      \/ Tick(f) \/ TickFails(f)
  \/ UploadAll \/ SendFile \/ EndPass \/ Progress
  \/ \E p \in posts : SendFails(p)
  \/ \E r \in DOMAIN run : \/ CheckAgain(r) \/ Insert(r) \/ Ingested(r)
                           \/ IngestFails(r) \/ IngestDies(r)

UploadSpec == UploadInit /\ [][UploadNext]_uploadVars

-----------------------------------------------------------------------------
\* A file shown as uploaded has been ingested, and so has one shown as already
\* processed, unless its run was still ingesting when the duplicate was found.
ShownIsIngested ==
  \A f \in Files :
    Status(f) = "success" \/ (Status(f) = "duplicate" /\ item[f].run \notin early)
      => run[item[f].run].state = "ok"

\* Every upload that was begun ends on the screen, even if the run that was
\* promised never gets a row or its task has died.
UploadsEnd == \A f \in Files : Status(f) = "uploading" ~> Status(f) # "uploading"
==============================================================================
