----------------------------- MODULE ChatStreamProofs -----------------------------
(***************************************************************************)
(* Theorems about ChatStream, for every number of questions and messages.  *)
(***************************************************************************)
EXTENDS ChatStream, TLAPS

\* While no stream is open, the function send holds the conversation that is on
\* the screen, unless it was cleared meanwhile; and a stream is open just while
\* the panel streams.
CapturedIsShown ==
  /\ stream # "none" <=> status = "streaming"
  /\ status # "streaming" /\ ~cleared => captured = messages

ChatInv == CapturedIsShown /\ HistoryIsVisible

-----------------------------------------------------------------------------
LEMMA ChatStart == ChatInit => ChatInv
  BY DEF ChatInit, ChatInv, CapturedIsShown, HistoryIsVisible

LEMMA ChatStep == ChatInv /\ [ChatNext]_chatVars => ChatInv'
<1> SUFFICES ASSUME ChatInv, [ChatNext]_chatVars
             PROVE  ChatInv'
  OBVIOUS
<1> USE DEF ChatInv, CapturedIsShown, HistoryIsVisible
<1>1. CASE Send
  <2>1. posted'.cleared \/ posted'.history = posted'.shown
    BY <1>1 DEF Send
  <2>2. status' = "streaming" /\ stream' = "opening"
    BY <1>1 DEF Send, Render
  <2> QED
    BY <2>1, <2>2
<1>2. CASE Opens
  BY <1>2 DEF Opens
<1>3. CASE Fails
  BY <1>3 DEF Fails, Render
<1>4. CASE MessageFrame
  BY <1>4 DEF MessageFrame, Render
<1>5. CASE ErrorFrame
  BY <1>5 DEF ErrorFrame, Render
<1>6. CASE Ends
  BY <1>6 DEF Ends, Render
<1>7. CASE Reset
  BY <1>7 DEF Reset, Render
<1>8. CASE UNCHANGED chatVars
  BY <1>8 DEF chatVars
<1> QED
  BY <1>1, <1>2, <1>3, <1>4, <1>5, <1>6, <1>7, <1>8 DEF ChatNext

\* Each question is posted with the dialogue that the person sees, unless the
\* conversation was cleared while nothing was streaming: the invariant says that
\* send is made anew whenever a stream ends, and the conversation only changes
\* while one is open.
THEOREM HistoryShown == ChatSpec => []HistoryIsVisible
<1>1. ChatInv => HistoryIsVisible
  BY DEF ChatInv
<1> QED
  BY <1>1, ChatStart, ChatStep, PTL DEF ChatSpec
==============================================================================
