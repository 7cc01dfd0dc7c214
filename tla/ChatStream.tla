------------------------------ MODULE ChatStream ------------------------------
(***************************************************************************)
(* The chat panel: a question is posted with the dialogue so far, the      *)
(* answer comes as a stream of frames that change the conversation on the  *)
(* screen.                                                                 *)
(*                                                                         *)
(* The function that posts a question is made anew only when the status of *)
(* the panel changes (its dependencies are the scope and the status), so   *)
(* the conversation it sends is the one on the screen at that time         *)
(* (captured), not the one on the screen at the click.                     *)
(***************************************************************************)
EXTENDS Naturals, Sequences

CONSTANTS
  MaxTurns,  \* bound: questions asked
  MaxLines   \* bound: messages on the screen (an error frame adds one each time)

ASSUME ChatAssumption == MaxTurns \in Nat /\ MaxLines \in Nat

VARIABLES
  messages,  \* the conversation on the screen: [turn, role, said]
  status,    \* "idle", "streaming" or "error"
  captured,  \* the conversation that the function send holds
  stream,    \* the request of the last turn: "none", "opening", "open"
  turns,     \* how many questions were asked
  \* History, read by the properties only:
  posted,    \* the dialogue sent with the last question, and the one on the screen
  cleared    \* the conversation was cleared since send was made

chatVars == <<messages, status, captured, stream, turns, posted, cleared>>

\* A message of this turn: its role, "user", "assistant" or "error", and whether it
\* has text.
Line(role, said) == [turn |-> turns, role |-> role, said |-> said]

ChatInit ==
  /\ messages = <<>> /\ captured = <<>>
  /\ status = "idle" /\ stream = "none" /\ turns = 0
  /\ posted = [history |-> <<>>, shown |-> <<>>, cleared |-> FALSE]
  /\ cleared = FALSE

\* Mutant: send is made once.
RenderOnce(ms, st) ==
  /\ messages' = ms
  /\ status' = st
  /\ UNCHANGED captured

\* A render: send is made again if the status is another one.
Render(ms, st) ==
  /\ messages' = ms
  /\ status' = st
  /\ captured' = IF st # status THEN ms ELSE captured

\* What is sent of a conversation: no error bubbles.
Dialogue(ms) == SelectSeq(ms, LAMBDA m : m.role # "error")

Send ==
  /\ turns < MaxTurns /\ Len(messages) + 2 <= MaxLines
  /\ status # "streaming"
  /\ turns' = turns + 1
  /\ posted' = [history |-> Dialogue(captured), shown |-> Dialogue(messages),
                cleared |-> cleared]
  /\ Render(messages \o <<[turn |-> turns + 1, role |-> "user", said |-> TRUE],
                          [turn |-> turns + 1, role |-> "assistant", said |-> FALSE]>>,
            "streaming")
  /\ stream' = "opening"
  /\ cleared' = FALSE

Opens ==
  /\ stream = "opening"
  /\ stream' = "open"
  /\ UNCHANGED <<messages, status, captured, turns, posted, cleared>>

\* appendError: an empty answer of this turn gives way to an error bubble.
WithError(ms) ==
  Append(SelectSeq(ms, LAMBDA m : ~(m = Line("assistant", FALSE))),
         Line("error", TRUE))

\* The request is refused, cannot be made, or its stream breaks.
Fails ==
  /\ stream # "none"
  /\ Render(WithError(messages), "error")
  /\ stream' = "none"
  /\ UNCHANGED <<turns, posted, cleared>>

\* A "message" frame sets the text of the answer, if its bubble is still there.
MessageFrame ==
  /\ stream = "open"
  /\ Render([k \in DOMAIN messages |->
              IF messages[k] = Line("assistant", FALSE) THEN Line("assistant", TRUE)
                                                        ELSE messages[k]], status)
  /\ UNCHANGED <<stream, turns, posted, cleared>>

\* An "error" frame does not end the stream.
ErrorFrame ==
  /\ stream = "open" /\ Len(messages) < MaxLines
  /\ Render(WithError(messages), status)
  /\ UNCHANGED <<stream, turns, posted, cleared>>

Ends ==
  /\ stream = "open"
  /\ Render(messages, "idle")
  /\ stream' = "none"
  /\ UNCHANGED <<turns, posted, cleared>>

\* reset: the stream is aborted, which ends it without a word, and the
\* conversation is emptied.
Reset ==
  /\ messages # <<>>
  /\ Render(<<>>, "idle")
  /\ stream' = "none"
  /\ cleared' = (status = "idle")
  /\ UNCHANGED <<turns, posted>>

ChatNext ==
  Send \/ Opens \/ Fails \/ MessageFrame \/ ErrorFrame \/ Ends \/ Reset

ChatSpec == ChatInit /\ [][ChatNext]_chatVars

-----------------------------------------------------------------------------
\* Each question is posted with the dialogue that the person sees ("so the BE
\* gets the visible history"), though send does not follow the conversation;
\* except after the conversation was cleared while nothing was streaming, when
\* the next question still carries what was cleared.
HistoryIsVisible == posted.cleared \/ posted.history = posted.shown
==============================================================================
