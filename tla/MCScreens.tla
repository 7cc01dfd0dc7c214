------------------------------- MODULE MCScreens -------------------------------
(***************************************************************************)
(* Small instances of the screens of the frontend and of the components of *)
(* the backend behind them that stand alone.  They share no state: a       *)
(* behaviour plays one of them, the one of its scene, while the others     *)
(* stay as they began.                                                     *)
(***************************************************************************)
EXTENDS WorkflowBuilder, BrowserSession, ChatStream, UploadQueue, RunWatch,
        TenantQuota, ContractSigning, MailOutbox, CallLedger, JobLease

CONSTANTS
  c1, c2, c3, c4, f1, f2,         \* cards, fields
  u1, t1, t2, h1, h2, r1, r2, r3, \* users, tabs, holders, requests
  file1, file2, content, mail1, poller1, poller2,
  caller1, caller2, caller3,
  party1, party2, party3,
  attempt1, attempt2, attempt3, worker1, worker2,
  pod1, pod2

VARIABLE scene

MCTabOf     == [h \in Holders |-> IF h = h2 THEN t2 ELSE t1]
MCHolderOf  == [r \in Requests |-> IF r = r3 THEN h2 ELSE h1]
MCContentOf == [f \in Files |-> content]
MCAmount    == [c \in Callers |-> IF c = caller3 THEN 2 ELSE 1]
MCOrder     == [p \in Parties |-> IF p = party3 THEN 2 ELSE 1]
MCWorkerOf  == [a \in Attempts |-> IF a = attempt3 THEN worker2 ELSE worker1]

\* What a component that is not played looks like: one of its initial states.
BuilderRests == BuilderInit /\ selected = c1
SessionRests == SessionInit /\ page = [t \in Tabs |-> "app"]
WatchRests   == WatchInit /\ server = "done"
QuotaRests   == QuotaInit /\ now = 1
SigningRests == SigningInit /\ contract = "nhap"

Begins(s, Played, Rests) == IF scene = s THEN Played ELSE Rests

Scenes == {"builder", "session", "chat", "upload", "watch", "quota", "signing", "mail",
           "call", "lease"}

Init ==
  /\ scene \in Scenes
  /\ Begins("builder", BuilderInit, BuilderRests)
  /\ Begins("session", SessionInit, SessionRests)
  /\ Begins("watch", WatchInit, WatchRests)
  /\ Begins("quota", QuotaInit, QuotaRests)
  /\ Begins("signing", SigningInit, SigningRests)
  /\ ChatInit /\ UploadInit /\ MailInit /\ CallInit /\ LeaseInit

allVars == <<scene, builderVars, sessionVars, chatVars, uploadVars, watchVars,
             quotaVars, signingVars, mailVars, callVars, leaseVars>>

Plays(s) ==
  /\ scene = s /\ UNCHANGED scene
  /\ s # "builder" => UNCHANGED builderVars
  /\ s # "session" => UNCHANGED sessionVars
  /\ s # "chat"    => UNCHANGED chatVars
  /\ s # "upload"  => UNCHANGED uploadVars
  /\ s # "watch"   => UNCHANGED watchVars
  /\ s # "quota"   => UNCHANGED quotaVars
  /\ s # "signing" => UNCHANGED signingVars
  /\ s # "mail"    => UNCHANGED mailVars
  /\ s # "call"    => UNCHANGED callVars
  /\ s # "lease"   => UNCHANGED leaseVars

Next ==
  \/ Plays("builder") /\ BuilderNext
  \/ Plays("session") /\ SessionNext
  \/ Plays("chat")    /\ ChatNext
  \/ Plays("upload")  /\ UploadNext
  \/ Plays("watch")   /\ WatchNext
  \/ Plays("quota")   /\ QuotaNext
  \/ Plays("signing") /\ SigningNext
  \/ Plays("mail")    /\ MailNext
  \/ Plays("call")    /\ CallNext
  \/ Plays("lease")   /\ LeaseNext

\* The timers of the pages fire, and requests that were sent come to an end, as
\* long as any of these can; the person owes nothing.
Fairness ==
  WF_allVars(\/ Plays("upload") /\ (Progress \/ \E f \in Files : Tick(f))
             \/ Plays("watch") /\ (PollRun \/ WatchAnswers))

Spec     == Init /\ [][Next]_allVars
FairSpec == Spec /\ Fairness

\* The builder alone.
BuilderPlays == Init /\ scene = "builder" /\ [][Plays("builder") /\ BuilderNext]_allVars
==============================================================================
