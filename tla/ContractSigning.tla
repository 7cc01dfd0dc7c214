---------------------------- MODULE ContractSigning ----------------------------
(***************************************************************************)
(* A contract that several parties sign in an order.  Every request reads  *)
(* the status, and a signature then the parties, and writes later without  *)
(* looking again; nothing is locked, so two of them may not see each other. *)
(* The signature that completes its copy of the parties puts the contract  *)
(* into effect, and the run that waits is resumed by a task of the worker, *)
(* after the commit.                                                       *)
(***************************************************************************)
EXTENDS Naturals, FiniteSets

CONSTANTS
  Parties,
  Order,     \* the sign_order of a party
  Required,  \* how many signatures complete the contract
  MaxRequests,  \* bound: how often somebody asks to sign
  MaxSends      \* bound: how many send the contract out at once

ASSUME SigningAssumption ==
  /\ Order \in [Parties -> Nat]
  /\ Required \in 1..Cardinality(Parties)
  /\ MaxRequests \in Nat /\ MaxSends \in Nat

VARIABLES
  contract,   \* "nhap", "cho_ky", "hieu_luc", "tu_choi"
  signed,     \* the parties whose signature is committed
  signing,    \* per request [party, at, view]: the parties it found signed
  outgoing,   \* how many found a draft and will write that it is sent
  rejecting,  \* a rejection has read the status and will write it
  resumed,    \* the run that waits for the contract was resumed
  \* History, read by the properties only:
  crossed     \* two of these transactions were open together

signingVars == <<contract, signed, signing, outgoing, rejecting, resumed, crossed>>
Tries       == 1..MaxRequests
NoTry       == [party |-> {}, at |-> "none", view |-> {}]

\* A page creates a draft, a node of a workflow a contract to be signed.
SigningInit ==
  /\ contract \in {"nhap", "cho_ky"} /\ signed = {}
  /\ signing = [k \in Tries |-> NoTry] /\ outgoing = 0
  /\ rejecting = FALSE /\ resumed = FALSE /\ crossed = FALSE

OpenTries == {k \in Tries : signing[k].at \in {"status", "parties"}}
Meets     == crossed' = (crossed \/ rejecting \/ outgoing > 0 \/ OpenTries # {})

BeginSend ==
  /\ contract = "nhap" /\ outgoing < MaxSends
  /\ outgoing' = outgoing + 1
  /\ Meets
  /\ UNCHANGED <<contract, signed, signing, rejecting, resumed>>

\* The UPDATE has no condition: whatever the status is by now, it is cho_ky.
CommitSend ==
  /\ outgoing > 0
  /\ outgoing' = outgoing - 1
  /\ contract' = "cho_ky"
  /\ UNCHANGED <<signed, signing, rejecting, resumed, crossed>>

\* next_signers: the unsigned parties of the lowest order that is left.
NextSigners(done) ==
  {p \in Parties \ done : \A q \in Parties \ done : Order[p] <= Order[q]}

BeginSign(k, p) ==
  /\ signing[k].at = "none" /\ contract = "cho_ky"
  /\ \A j \in Tries : j < k => signing[j].at # "none"
  /\ signing' = [signing EXCEPT ![k] = [party |-> {p}, at |-> "status", view |-> {}]]
  /\ Meets
  /\ UNCHANGED <<contract, signed, outgoing, rejecting, resumed>>

\* A party that has signed, or whose turn has not come, is refused.
ReadParties(k) ==
  /\ signing[k].at = "status"
  /\ signing' = [signing EXCEPT ![k].view = signed,
                   ![k].at = IF signing[k].party \subseteq NextSigners(signed)
                             THEN "parties" ELSE "done"]
  /\ UNCHANGED <<contract, signed, outgoing, rejecting, resumed, crossed>>

\* signing_complete, of the copy of the parties.
Complete(done) == Cardinality(done) >= Required

\* The signature is written, and the status if those it counts are enough.
CommitCounting(k, done) ==
  /\ signing[k].at = "parties"
  /\ signed' = signed \cup signing[k].party
  /\ contract' = IF Complete(done) THEN "hieu_luc" ELSE contract
  /\ signing' = [signing EXCEPT ![k].at = IF Complete(done) THEN "resume" ELSE "done"]
  /\ UNCHANGED <<outgoing, rejecting, resumed, crossed>>

\* Mutant: the party is not marked in the copy before it is counted.
CommitSignUncounted(k) == CommitCounting(k, signing[k].view)

CommitSign(k) == CommitCounting(k, signing[k].view \cup signing[k].party)

\* The background task of the request, after its commit and its response.
ResumeRun(k) ==
  /\ signing[k].at = "resume"
  /\ signing' = [signing EXCEPT ![k].at = "done"]
  /\ resumed' = TRUE
  /\ UNCHANGED <<contract, signed, outgoing, rejecting, crossed>>

\* The worker dies first, and the task with it.
ResumeLost(k) ==
  /\ signing[k].at = "resume"
  /\ signing' = [signing EXCEPT ![k].at = "lost"]
  /\ UNCHANGED <<contract, signed, outgoing, rejecting, resumed, crossed>>

BeginReject ==
  /\ ~rejecting /\ contract = "cho_ky"
  /\ rejecting' = TRUE
  /\ Meets
  /\ UNCHANGED <<contract, signed, signing, outgoing, resumed>>

\* Without a condition, too.
CommitReject ==
  /\ rejecting
  /\ rejecting' = FALSE
  /\ contract' = "tu_choi"
  /\ UNCHANGED <<signed, signing, outgoing, resumed, crossed>>

\* A transaction is rolled back.
SignBreaks(k) ==
  /\ k \in OpenTries
  /\ signing' = [signing EXCEPT ![k].at = "done"]
  /\ UNCHANGED <<contract, signed, outgoing, rejecting, resumed, crossed>>

SendBreaks ==
  /\ outgoing > 0
  /\ outgoing' = outgoing - 1
  /\ UNCHANGED <<contract, signed, signing, rejecting, resumed, crossed>>

RejectBreaks ==
  /\ rejecting
  /\ rejecting' = FALSE
  /\ UNCHANGED <<contract, signed, signing, outgoing, resumed, crossed>>

SigningNext ==
  \/ BeginSend \/ CommitSend \/ SendBreaks
  \/ BeginReject \/ CommitReject \/ RejectBreaks
  \/ \E k \in Tries : \/ \E p \in Parties : BeginSign(k, p)
                      \/ ReadParties(k) \/ CommitSign(k) \/ SignBreaks(k)
                      \/ ResumeRun(k) \/ ResumeLost(k)

SigningSpec == SigningInit /\ [][SigningNext]_signingVars

-----------------------------------------------------------------------------
\* Parties sign in their order even if their requests cross.
SignedInOrder ==
  \A p \in signed, q \in Parties : Order[q] < Order[p] => q \in signed

Resuming == {k \in Tries : signing[k].at = "resume"}
Lost     == {k \in Tries : signing[k].at = "lost"}

\* The signature that completes a contract puts it into effect, and the run that
\* waits for it is resumed unless the worker dies before its task: as long as no
\* two requests crossed.  Where they did, each may find the other missing, and
\* the contract waits for good with every signature on it.
CompleteTakesEffect ==
  Complete(signed) /\ ~crossed =>
    contract = "hieu_luc" /\ (resumed \/ Resuming \cup Lost # {})
==============================================================================
