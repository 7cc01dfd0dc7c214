--------------------------- MODULE BrowserSessionProofs ---------------------------
(***************************************************************************)
(* Theorems about BrowserSession, for every number of users, tabs, holders *)
(* and requests, and every bound on tokens and moves.                      *)
(***************************************************************************)
EXTENDS BrowserSession, FiniteSetTheorems, TLAPS

Places  == {"none", "sent", "checked", "burnt", "granted", "refused"}
Flights == [at : Places, tok : {0} \cup Minted, new : {0} \cup Minted, live : BOOLEAN]

\* What was in the air when somebody logged out or a session was revoked.
Since == {"no", "quiet", "racing"}

\* Tokens are numbered in the order of their minting.
Numbered == \E k \in Nat \ {0} : Minted = 1..k

SessionTypeOK ==
  /\ Numbered
  /\ owner \in [Minted -> Users] /\ parent \in [Minted -> {0} \cup Minted]
  /\ storage \in {0} \cup Minted
  /\ page \in [Tabs -> {"app", "login"}] /\ leaving \subseteq Tabs
  /\ request \in [Requests -> {"idle", "sent", "wait"}]
  /\ flight \in [Holders -> Flights]
  /\ \A h \in Holders : /\ flight[h].at # "none" => flight[h].tok # 0
                        /\ flight[h].at = "granted" => flight[h].new # 0
  /\ stored \in [Users -> {0} \cup Minted]
  /\ burnt \subseteq Minted
  /\ cutOff \in [Users -> Since]
  /\ expired \in Nat /\ moves \in Nat
  /\ excused \in BOOLEAN /\ bounced \in BOOLEAN /\ loggedOut \in Since

\* A token is exchanged after it was burnt, and only by the one that burnt it.
BurntFirst ==
  /\ \A n \in Minted : parent[n] # 0 => parent[n] \in burnt
  /\ \A m, n \in Minted : parent[m] = parent[n] /\ parent[m] # 0 => m = n
  /\ \A h \in Holders : flight[h].at = "burnt" =>
       flight[h].tok \in burnt /\ \A n \in Minted : parent[n] # flight[h].tok
  /\ \A g, h \in Holders : flight[g].at = "burnt" /\ flight[h].at = "burnt"
                           /\ flight[g].tok = flight[h].tok => g = h

\* No exchange of a user who was cut off is past its check.
CutOffIsOut ==
  \A u \in Users : cutOff[u] = "quiet" => stored[u] = 0 /\ ~Exchanging(u)

\* After a logout no page has a refresh in the air, and none can start.
NothingInAir ==
  loggedOut = "quiet" =>
    storage = 0 /\ \A h \in Holders : flight[h].at # "none" => ~flight[h].live

\* Nothing has happened to the session: one refresh at most is in the air, of the
\* token that is in the storage and, until it is exchanged, in Redis and not burnt.
OneRefresh ==
  /\ bounced => excused
  /\ ~excused =>
      /\ storage # 0 /\ leaving = {}
      /\ \A h \in Holders : flight[h].at # "none" =>
           flight[h].tok = storage /\ flight[h].live /\ flight[h].at # "refused"
      /\ \A g, h \in Holders : flight[g].at # "none" /\ flight[h].at # "none" => g = h
      /\ \/ stored[owner[storage]] = storage
         \/ \E h \in Holders : flight[h].at = "granted"
      /\ storage \in burnt => \E h \in Holders : flight[h].at \in {"burnt", "granted"}
      /\ \A h \in Holders : flight[h].at = "granted" =>
           stored[owner[flight[h].new]] = flight[h].new /\ flight[h].new \notin burnt

SessionInv == SessionTypeOK /\ BurntFirst /\ CutOffIsOut /\ NothingInAir /\ OneRefresh

-----------------------------------------------------------------------------
(* Minting.                                                                *)

LEMMA NewIsNew ==
  ASSUME Numbered
  PROVE  /\ NewToken \in Nat \ {0} /\ NewToken \notin Minted
         /\ 0 \notin Minted
         /\ Minted \cup {NewToken} = 1..NewToken
<1>1. PICK k \in Nat \ {0} : Minted = 1..k
  BY DEF Numbered
<1>2. Cardinality(1..k) = k
  BY <1>1, FS_Interval
<1>3. NewToken = k + 1
  BY <1>1, <1>2 DEF NewToken
<1> QED
  BY <1>1, <1>3

\* A new pair is added to those minted before, which keep their user and parent.
LEMMA Minting ==
  ASSUME SessionTypeOK, NEW u \in Users, NEW from \in {0} \cup Minted, Mint(u, from)
  PROVE  /\ Minted' = Minted \cup {NewToken} /\ NewToken \notin Minted
         /\ 0 \notin Minted' /\ Numbered'
         /\ owner' \in [Minted' -> Users] /\ parent' \in [Minted' -> {0} \cup Minted']
         /\ \A n \in Minted : owner'[n] = owner[n] /\ parent'[n] = parent[n]
         /\ owner'[NewToken] = u /\ parent'[NewToken] = from
         /\ stored' \in [Users -> {0} \cup Minted']
         /\ stored'[u] = NewToken
         /\ \A v \in Users \ {u} : stored'[v] = stored[v]
<1>1. /\ NewToken \in Nat \ {0} /\ NewToken \notin Minted /\ 0 \notin Minted
      /\ Minted \cup {NewToken} = 1..NewToken
  BY NewIsNew DEF SessionTypeOK
<1>2. Minted' = Minted \cup {NewToken}
  BY DEF Mint, Minted
<1>3. Numbered'
  BY <1>1, <1>2 DEF Numbered
<1>4. /\ owner' \in [Minted' -> Users] /\ parent' \in [Minted' -> {0} \cup Minted']
      /\ \A n \in Minted : owner'[n] = owner[n] /\ parent'[n] = parent[n]
      /\ owner'[NewToken] = u /\ parent'[NewToken] = from
  BY <1>1, <1>2 DEF Mint, SessionTypeOK
<1>5. /\ stored' \in [Users -> {0} \cup Minted']
      /\ stored'[u] = NewToken
      /\ \A v \in Users \ {u} : stored'[v] = stored[v]
  BY <1>2 DEF Mint, SessionTypeOK
<1> QED
  BY <1>1, <1>2, <1>3, <1>4, <1>5

\* Flights stay flights when tokens are minted.
LEMMA FlightsGrow ==
  ASSUME Minted \subseteq Minted'
  PROVE  Flights \subseteq Flights'
BY DEF Flights

-----------------------------------------------------------------------------
LEMMA SessionStart == SessionInit => SessionInv
<1> SUFFICES ASSUME SessionInit PROVE SessionInv
  OBVIOUS
<1>1. Minted = {1} /\ {1} = 1..1
  BY DEF SessionInit, Minted
<1>2. Numbered
  BY <1>1 DEF Numbered
<1>3. SessionTypeOK
  BY <1>1, <1>2 DEF SessionInit, SessionTypeOK, Flights, Places, Free, Since
<1>4. BurntFirst /\ CutOffIsOut /\ NothingInAir
  BY <1>1 DEF SessionInit, BurntFirst, CutOffIsOut, NothingInAir, Free
<1>5. OneRefresh
  BY <1>1 DEF SessionInit, OneRefresh, Free
<1> QED
  BY <1>3, <1>4, <1>5 DEF SessionInv

\* Requests, and the screens that the pages show.
LEMMA SendKeeps ==
  ASSUME SessionInv, NEW r \in Requests, SendRequest(r)
  PROVE  SessionInv'
<1>1. /\ request' \in [Requests -> {"idle", "sent", "wait"}]
      /\ UNCHANGED <<moves, storage, page, leaving, flight, serverVars, expired, noteVars>>
  BY DEF SendRequest, SessionInv, SessionTypeOK
<1> QED
  BY <1>1 DEF SessionInv, SessionTypeOK, BurntFirst, CutOffIsOut, NothingInAir, OneRefresh,
     Numbered, Flights, Minted, Exchanging, serverVars, noteVars

LEMMA ReopenKeeps ==
  ASSUME SessionInv, NEW t \in Tabs, Reopen(t)
  PROVE  SessionInv'
<1>1. /\ page' \in [Tabs -> {"app", "login"}] /\ moves' \in Nat
      /\ UNCHANGED <<storage, leaving, request, flight, serverVars, expired, noteVars>>
  BY DEF Reopen, Moves, SessionInv, SessionTypeOK
<1> QED
  BY <1>1 DEF SessionInv, SessionTypeOK, BurntFirst, CutOffIsOut, NothingInAir, OneRefresh,
     Numbered, Flights, Minted, Exchanging, serverVars, noteVars

LEMMA ExpireKeeps ==
  ASSUME SessionInv, Expire
  PROVE  SessionInv'
<1>1. /\ expired' \in Nat
      /\ UNCHANGED <<moves, storage, page, leaving, request, flight, serverVars, noteVars>>
  BY DEF Expire, SessionInv, SessionTypeOK
<1> QED
  BY <1>1 DEF SessionInv, SessionTypeOK, BurntFirst, CutOffIsOut, NothingInAir, OneRefresh,
     Numbered, Flights, Minted, Exchanging, serverVars, noteVars

\* The flights are those of before: nothing that the server holds is disturbed.
LEMMA SameServer ==
  ASSUME SessionInv, UNCHANGED serverVars,
         \A h \in Holders : /\ flight'[h].at \in {flight[h].at, "none", "sent", "refused"}
                            /\ flight'[h].at \in {"checked", "burnt", "granted"} =>
                                 flight'[h].tok = flight[h].tok
  PROVE  BurntFirst' /\ CutOffIsOut'
<1>1. Minted' = Minted /\ UNCHANGED <<stored, burnt, owner, parent, cutOff>>
  BY DEF serverVars, Minted
<1>2. BurntFirst'
  BY <1>1 DEF SessionInv, BurntFirst
<1>3. \A u \in Users : Exchanging(u)' => Exchanging(u)
  BY <1>1 DEF Exchanging
<1>4. CutOffIsOut'
  BY <1>1, <1>3 DEF SessionInv, SessionTypeOK, CutOffIsOut
<1> QED
  BY <1>2, <1>4

\* The flights of a page that is gone live no longer.
LEMMA UnloadKeeps ==
  ASSUME SessionInv, NEW t \in Tabs, Unload(t)
  PROVE  SessionInv'
<1> USE DEF SessionInv
<1>1. /\ t \in leaving /\ leaving' \subseteq Tabs
      /\ UNCHANGED <<moves, storage, stored, burnt, owner, parent, cutOff, expired, excused,
                     bounced, loggedOut, Minted>>
  BY DEF Unload, serverVars, noteVars, Minted, SessionTypeOK
<1>2. /\ page' \in [Tabs -> {"app", "login"}]
      /\ request' \in [Requests -> {"idle", "sent", "wait"}]
      /\ flight' \in [Holders -> Flights]
      /\ \A h \in Holders :
           /\ flight'[h].at = flight[h].at /\ flight'[h].tok = flight[h].tok
           /\ flight'[h].new = flight[h].new
           /\ flight'[h].live => flight[h].live
  BY DEF Unload, SessionTypeOK, Flights
<1>3. SessionTypeOK'
  BY <1>1, <1>2 DEF SessionTypeOK, Numbered, Flights
<1>4. BurntFirst' /\ CutOffIsOut'
  BY <1>1, <1>2, SameServer DEF serverVars
<1>5. NothingInAir'
  BY <1>1, <1>2 DEF NothingInAir
<1>6. OneRefresh'
  BY <1>1 DEF OneRefresh
<1> QED
  BY <1>3, <1>4, <1>5, <1>6

LEMMA DeniedKeeps ==
  ASSUME SessionInv, NEW r \in Requests, Denied(r)
  PROVE  SessionInv'
<1> USE DEF SessionInv
<1> DEFINE h == HolderOf[r]
<1>1. h \in Holders /\ TabOf[h] \in Tabs
  BY SessionAssumption
<1>2. UNCHANGED <<moves, storage, page, serverVars, expired, bounced, loggedOut>>
      /\ Minted' = Minted
      /\ Flights' = Flights
  BY DEF Denied, DeniedWith, serverVars, Minted, Flights
<1>3. CASE \* The refresh starts.
      /\ request' = [request EXCEPT ![r] = "wait"]
      /\ flight[h].at = "none" /\ storage # 0
      /\ flight' = [flight EXCEPT ![h] = [at |-> "sent", tok |-> storage, new |-> 0,
                                         live |-> TRUE]]
      /\ excused' = (excused \/ Rivals(h, storage))
      /\ UNCHANGED leaving
  <2>1. /\ flight'[h] = [at |-> "sent", tok |-> storage, new |-> 0, live |-> TRUE]
        /\ \A g \in Holders \ {h} : flight'[g] = flight[g]
    BY <1>1, <1>3 DEF SessionTypeOK
  <2>2. SessionTypeOK'
    <3>1. flight' \in [Holders -> Flights]
      BY <1>1, <1>3 DEF SessionTypeOK, Flights, Places
    <3>2. \A g \in Holders : /\ flight'[g].at # "none" => flight'[g].tok # 0
                             /\ flight'[g].at = "granted" => flight'[g].new # 0
      BY <1>3, <2>1 DEF SessionTypeOK
    <3>3. excused' \in BOOLEAN
      BY <1>3 DEF SessionTypeOK, Rivals
    <3>4. request' \in [Requests -> {"idle", "sent", "wait"}]
      BY <1>3 DEF SessionTypeOK
    <3> QED
      BY <1>2, <1>3, <3>1, <3>2, <3>3, <3>4 DEF SessionTypeOK, Numbered, serverVars
  <2>3. BurntFirst' /\ CutOffIsOut'
    BY <1>2, <2>1, SameServer
  <2>4. NothingInAir'
    BY <1>2, <1>3 DEF NothingInAir
  <2>5. OneRefresh'
    <3>1. bounced' => excused'
      BY <1>2, <1>3 DEF OneRefresh
    <3> SUFFICES ASSUME ~excused'
                 PROVE  OneRefresh'
      BY <3>1 DEF OneRefresh
    <3>2. ~excused /\ leaving = {} /\ \A g \in Holders : flight[g].at = "none"
      BY <1>1, <1>3 DEF OneRefresh, Rivals
    <3>3. stored[owner[storage]] = storage /\ storage \notin burnt
      BY <3>2 DEF OneRefresh
    <3>4. /\ storage' = storage /\ stored' = stored /\ owner' = owner /\ burnt' = burnt
      BY <1>2 DEF serverVars
    <3>5. \A g \in Holders \ {h} : flight'[g].at = "none"
      BY <2>1, <3>2
    <3> QED
      BY <1>3, <2>1, <3>1, <3>2, <3>3, <3>4, <3>5 DEF OneRefresh
  <2> QED
    BY <2>2, <2>3, <2>4, <2>5
<1>4. CASE \* It waits for one under way.
      /\ request' = [request EXCEPT ![r] = "wait"]
      /\ UNCHANGED <<leaving, flight, excused>>
  <2>1. request' \in [Requests -> {"idle", "sent", "wait"}]
    BY <1>4 DEF SessionTypeOK
  <2>2. BurntFirst' /\ CutOffIsOut'
    BY <1>2, <1>4, SameServer
  <2> QED
    BY <1>2, <1>4, <2>1, <2>2 DEF SessionTypeOK, NothingInAir, OneRefresh, Numbered, serverVars
<1>5. CASE \* There is no token, and the page goes.
      /\ storage = 0 /\ request' = [request EXCEPT ![r] = "idle"]
      /\ Leave(TabOf[h])
      /\ UNCHANGED <<flight, excused>>
  <2>1. /\ request' \in [Requests -> {"idle", "sent", "wait"}]
        /\ leaving' \subseteq Tabs
    BY <1>1, <1>5 DEF SessionTypeOK, Leave
  <2>2. SessionTypeOK'
    BY <1>2, <1>5, <2>1 DEF SessionTypeOK, Numbered, serverVars
  <2>3. BurntFirst' /\ CutOffIsOut'
    BY <1>2, <1>5, SameServer
  <2>4. NothingInAir' /\ OneRefresh'
    BY <1>2, <1>5, <2>1 DEF NothingInAir, OneRefresh
  <2> QED
    BY <2>2, <2>3, <2>4
<1> QED
  BY <1>3, <1>4, <1>5 DEF Denied, DeniedWith

\* The steps of the exchange on the server.
LEMMA GoesTo ==
  ASSUME SessionTypeOK, NEW h \in Holders, NEW at \in Places, Goes(h, at),
         flight[h].at # "none", at # "granted" \/ flight[h].at = "granted"
  PROVE  /\ flight' \in [Holders -> Flights]
         /\ flight'[h] = [flight[h] EXCEPT !.at = at]
         /\ \A g \in Holders \ {h} : flight'[g] = flight[g]
         /\ \A g \in Holders : /\ flight'[g].at # "none" => flight'[g].tok # 0
                               /\ flight'[g].at = "granted" => flight'[g].new # 0
<1>1. /\ flight' \in [Holders -> Flights]
      /\ flight'[h] = [flight[h] EXCEPT !.at = at]
      /\ \A g \in Holders \ {h} : flight'[g] = flight[g]
  BY DEF Goes, SessionTypeOK, Flights
<1>2. flight[h] \in Flights
  BY DEF SessionTypeOK
<1>3. flight'[h].at = at /\ flight'[h].tok = flight[h].tok /\ flight'[h].new = flight[h].new
  BY <1>1, <1>2 DEF Flights
<1> QED
  BY <1>1, <1>3 DEF SessionTypeOK

LEMMA CheckKeeps ==
  ASSUME SessionInv, NEW h \in Holders, CheckStored(h)
  PROVE  SessionInv'
<1> USE DEF SessionInv
<1> DEFINE tok == flight[h].tok
           at  == IF stored[owner[tok]] = tok THEN "checked" ELSE "refused"
<1>1. /\ flight[h].at = "sent" /\ Goes(h, at)
      /\ UNCHANGED <<moves, OnServer, serverVars, noteVars>>
  BY DEF CheckStored
<1>2. /\ flight' \in [Holders -> Flights]
      /\ flight'[h] = [flight[h] EXCEPT !.at = at]
      /\ \A g \in Holders \ {h} : flight'[g] = flight[g]
      /\ \A g \in Holders : /\ flight'[g].at # "none" => flight'[g].tok # 0
                            /\ flight'[g].at = "granted" => flight'[g].new # 0
  BY <1>1, GoesTo DEF Places
<1>3. flight[h] \in Flights /\ tok \in Minted /\ owner[tok] \in Users
  BY <1>1 DEF SessionTypeOK, Flights
<1>4. /\ flight'[h].at = at /\ flight'[h].tok = tok
      /\ flight'[h].live = flight[h].live
      /\ \A g \in Holders \ {h} : flight'[g] = flight[g]
  BY <1>2, <1>3 DEF Flights
<1>5. UNCHANGED <<moves, storage, page, leaving, request, expired, stored, burnt, owner, parent,
                  cutOff, excused, bounced, loggedOut, Minted>>
  BY <1>1 DEF OnServer, serverVars, noteVars, Minted
<1>6. SessionTypeOK'
  BY <1>2, <1>5 DEF SessionTypeOK, Numbered, Flights
<1>7. BurntFirst'
  <2>1. \A g \in Holders : flight'[g].at = "burnt" => flight'[g] = flight[g]
    BY <1>4
  <2> QED
    BY <1>5, <2>1 DEF BurntFirst
<1>8. CutOffIsOut'
  <2> SUFFICES ASSUME NEW u \in Users, cutOff[u] = "quiet" PROVE ~Exchanging(u)'
    BY <1>5 DEF CutOffIsOut
  <2>1. stored[u] = 0 /\ ~Exchanging(u)
    BY DEF CutOffIsOut
  <2>2. at = "checked" => owner[tok] # u
    BY <1>1, <2>1 DEF SessionTypeOK
  <2> QED
    BY <1>4, <1>5, <2>1, <2>2 DEF Exchanging
<1>9. NothingInAir'
  BY <1>1, <1>4, <1>5 DEF NothingInAir
<1>10. OneRefresh'
  <2> SUFFICES ASSUME ~excused
               PROVE  OneRefresh'
    BY <1>5 DEF OneRefresh
  <2>1. /\ tok = storage /\ flight[h].live /\ stored[owner[storage]] = storage
        /\ storage \notin burnt
        /\ \A g \in Holders \ {h} : flight[g].at = "none"
    BY <1>1 DEF OneRefresh
  <2>2. at = "checked"
    BY <2>1
  <2>3. \A g \in Holders : flight'[g].at # "none" => g = h
    BY <1>4, <2>1
  <2> QED
    BY <1>4, <1>5, <2>1, <2>2, <2>3 DEF OneRefresh
<1> QED
  BY <1>6, <1>7, <1>8, <1>9, <1>10

LEMMA BurnKeeps ==
  ASSUME SessionInv, NEW h \in Holders, BurnToken(h)
  PROVE  SessionInv'
<1> USE DEF SessionInv
<1> DEFINE tok == flight[h].tok
           at  == IF tok \in burnt THEN "refused" ELSE "burnt"
<1>1. /\ flight[h].at = "checked" /\ Goes(h, at)
      /\ burnt' = IF tok \in burnt THEN burnt ELSE burnt \cup {tok}
      /\ UNCHANGED <<moves, OnServer, stored, owner, parent, cutOff, noteVars>>
  BY DEF BurnToken
<1>2. /\ flight' \in [Holders -> Flights]
      /\ flight'[h] = [flight[h] EXCEPT !.at = at]
      /\ \A g \in Holders \ {h} : flight'[g] = flight[g]
      /\ \A g \in Holders : /\ flight'[g].at # "none" => flight'[g].tok # 0
                            /\ flight'[g].at = "granted" => flight'[g].new # 0
  BY <1>1, GoesTo DEF Places
<1>3. flight[h] \in Flights /\ tok \in Minted /\ owner[tok] \in Users
  BY <1>1 DEF SessionTypeOK, Flights
<1>4. /\ flight'[h].at = at /\ flight'[h].tok = tok
      /\ flight'[h].live = flight[h].live
      /\ \A g \in Holders \ {h} : flight'[g] = flight[g]
  BY <1>2, <1>3 DEF Flights
<1>5. UNCHANGED <<moves, storage, page, leaving, request, expired, stored, owner, parent,
                  cutOff, excused, bounced, loggedOut, Minted>>
  BY <1>1 DEF OnServer, noteVars, Minted
<1>6. SessionTypeOK'
  BY <1>1, <1>2, <1>3, <1>5 DEF SessionTypeOK, Numbered, Flights
<1>7. BurntFirst'
  <2>1. \A n \in Minted : parent'[n] # 0 => parent'[n] \in burnt'
    BY <1>1, <1>5 DEF BurntFirst
  <2>2. \A g \in Holders : flight'[g].at = "burnt" =>
          flight'[g].tok \in burnt' /\ \A n \in Minted : parent'[n] # flight'[g].tok
    <3> SUFFICES ASSUME NEW g \in Holders, flight'[g].at = "burnt"
                 PROVE  flight'[g].tok \in burnt' /\ \A n \in Minted : parent[n] # flight'[g].tok
      BY <1>5
    <3>1. CASE g = h
      BY <1>1, <1>2, <1>4, <3>1 DEF BurntFirst, SessionTypeOK
    <3>2. CASE g # h
      BY <1>1, <1>2, <3>2 DEF BurntFirst
    <3> QED
      BY <3>1, <3>2
  <2>3. \A g \in Holders \ {h} : flight'[h].at = "burnt" /\ flight'[g].at = "burnt" =>
          flight'[g].tok # flight'[h].tok
    BY <1>2, <1>4 DEF BurntFirst
  <2>4. \A f, g \in Holders \ {h} : flight'[f].at = "burnt" /\ flight'[g].at = "burnt"
                                    /\ flight'[f].tok = flight'[g].tok => f = g
    BY <1>4 DEF BurntFirst
  <2>5. \A m, n \in Minted : parent'[m] = parent'[n] /\ parent'[m] # 0 => m = n
    BY <1>5 DEF BurntFirst
  <2>6. Minted' = Minted
    BY <1>5
  <2> QED
    BY <2>1, <2>2, <2>3, <2>4, <2>5, <2>6 DEF BurntFirst
<1>8. CutOffIsOut'
  <2>1. \A u \in Users : Exchanging(u)' => Exchanging(u)
    BY <1>1, <1>4, <1>5 DEF Exchanging
  <2> QED
    BY <1>5, <2>1 DEF CutOffIsOut, SessionTypeOK
<1>9. NothingInAir'
  BY <1>1, <1>4, <1>5 DEF NothingInAir
<1>10. OneRefresh'
  <2> SUFFICES ASSUME ~excused
               PROVE  OneRefresh'
    BY <1>5 DEF OneRefresh
  <2>1. /\ tok = storage /\ flight[h].live /\ stored[owner[storage]] = storage
        /\ storage \notin burnt
        /\ \A g \in Holders \ {h} : flight[g].at = "none"
    BY <1>1 DEF OneRefresh
  <2>2. at = "burnt"
    BY <2>1
  <2>3. \A g \in Holders : flight'[g].at # "none" => g = h
    BY <1>4, <2>1
  <2> QED
    BY <1>4, <1>5, <2>1, <2>2, <2>3 DEF OneRefresh
<1> QED
  BY <1>6, <1>7, <1>8, <1>9, <1>10

LEMMA StoreKeeps ==
  ASSUME SessionInv, NEW h \in Holders, StoreNew(h)
  PROVE  SessionInv'
<1> USE DEF SessionInv
<1> DEFINE tok == flight[h].tok
           u   == owner[tok]
<1>1. /\ flight[h].at = "burnt" /\ Mint(u, tok)
      /\ flight' = [flight EXCEPT ![h].at = "granted", ![h].new = NewToken]
      /\ UNCHANGED <<moves, storage, page, leaving, request, expired, burnt, cutOff, excused,
                     bounced, loggedOut>>
  BY DEF StoreNew, OnServer, noteVars
<1>2. flight[h] \in Flights /\ tok \in Minted /\ u \in Users
  BY <1>1 DEF SessionTypeOK, Flights
<1>3. /\ Minted' = Minted \cup {NewToken} /\ NewToken \notin Minted
      /\ 0 \notin Minted' /\ Numbered'
      /\ owner' \in [Minted' -> Users] /\ parent' \in [Minted' -> {0} \cup Minted']
      /\ \A n \in Minted : owner'[n] = owner[n] /\ parent'[n] = parent[n]
      /\ owner'[NewToken] = u /\ parent'[NewToken] = tok
      /\ stored' \in [Users -> {0} \cup Minted']
      /\ stored'[u] = NewToken
      /\ \A v \in Users \ {u} : stored'[v] = stored[v]
  BY <1>1, <1>2, Minting
<1>4. /\ flight'[h].at = "granted" /\ flight'[h].tok = tok /\ flight'[h].new = NewToken
      /\ flight'[h].live = flight[h].live
      /\ \A g \in Holders \ {h} : flight'[g] = flight[g]
  BY <1>1, <1>2 DEF SessionTypeOK, Flights
<1>5. SessionTypeOK'
  <2>1. flight \in [Holders -> Flights']
    BY <1>3, FlightsGrow DEF SessionTypeOK
  <2>2. flight' \in [Holders -> Flights']
    <3>1. flight'[h] = [flight[h] EXCEPT !.at = "granted", !.new = NewToken]
      BY <1>1, <2>1
    <3>2. flight[h] \in Flights' /\ NewToken \in {0} \cup Minted'
      BY <1>3, <2>1
    <3>3. flight'[h] \in Flights'
      BY <3>1, <3>2 DEF Flights, Places
    <3> QED
      BY <1>1, <2>1, <3>3
  <2>3. \A g \in Holders : /\ flight'[g].at # "none" => flight'[g].tok # 0
                           /\ flight'[g].at = "granted" => flight'[g].new # 0
    BY <1>1, <1>3, <1>4 DEF SessionTypeOK
  <2>4. storage' \in {0} \cup Minted' /\ burnt' \subseteq Minted'
    BY <1>1, <1>3 DEF SessionTypeOK
  <2> QED
    BY <1>1, <1>3, <2>2, <2>3, <2>4 DEF SessionTypeOK
<1>6. BurntFirst'
  <2>1. tok \in burnt /\ \A n \in Minted : parent[n] # tok
    BY <1>1 DEF BurntFirst
  <2>2. \A n \in Minted' : parent'[n] # 0 => parent'[n] \in burnt'
    BY <1>1, <1>3, <2>1 DEF BurntFirst
  <2>3. \A m, n \in Minted' : parent'[m] = parent'[n] /\ parent'[m] # 0 => m = n
    BY <1>3, <2>1 DEF BurntFirst
  <2>4. \A g \in Holders : flight'[g].at = "burnt" => g # h /\ flight[g].at = "burnt"
                                                     /\ flight'[g] = flight[g]
    BY <1>4
  <2>5. \A g \in Holders \ {h} : flight[g].at = "burnt" => flight[g].tok # tok
    BY <1>1 DEF BurntFirst
  <2>6. \A g \in Holders : flight'[g].at = "burnt" =>
          flight'[g].tok \in burnt' /\ \A n \in Minted' : parent'[n] # flight'[g].tok
    <3> SUFFICES ASSUME NEW g \in Holders, flight'[g].at = "burnt"
                 PROVE  /\ flight'[g].tok \in burnt'
                        /\ \A n \in Minted' : parent'[n] # flight'[g].tok
      OBVIOUS
    <3>1. g # h /\ flight[g].at = "burnt"
      BY <2>4
    <3>2. flight[g].tok # tok /\ flight[g].tok \in burnt
          /\ \A n \in Minted : parent[n] # flight[g].tok
      BY <2>5, <3>1 DEF BurntFirst
    <3>3. \A n \in Minted' : parent'[n] # flight[g].tok
      <4> SUFFICES ASSUME NEW n \in Minted' PROVE parent'[n] # flight[g].tok
        OBVIOUS
      <4>1. n \in Minted \/ n = NewToken
        BY <1>3
      <4> QED
        BY <1>3, <3>2, <4>1
    <3>4. flight'[g] = flight[g] /\ burnt' = burnt
      BY <1>1, <2>4
    <3> QED
      BY <3>2, <3>3, <3>4
  <2>7. \A f, g \in Holders : flight'[f].at = "burnt" /\ flight'[g].at = "burnt"
                              /\ flight'[f].tok = flight'[g].tok => f = g
    BY <2>4 DEF BurntFirst
  <2> QED
    BY <2>2, <2>3, <2>6, <2>7 DEF BurntFirst
<1>7. CutOffIsOut'
  <2> SUFFICES ASSUME NEW v \in Users, cutOff[v] = "quiet"
               PROVE  stored'[v] = 0 /\ ~Exchanging(v)'
    BY <1>1 DEF CutOffIsOut
  <2>1. stored[v] = 0 /\ ~Exchanging(v) /\ v \in Users
    BY DEF CutOffIsOut, SessionTypeOK
  <2>2. v # u
    BY <1>1, <2>1 DEF Exchanging
  <2>3. \A g \in Holders : flight'[g].at \in {"checked", "burnt"} =>
          flight'[g] = flight[g] /\ owner'[flight[g].tok] = owner[flight[g].tok]
    BY <1>3, <1>4 DEF SessionTypeOK, Flights
  <2> QED
    BY <1>3, <2>1, <2>2, <2>3 DEF Exchanging
<1>8. NothingInAir'
  BY <1>1, <1>4 DEF NothingInAir
<1>9. OneRefresh'
  <2> SUFFICES ASSUME ~excused
               PROVE  OneRefresh'
    BY <1>1 DEF OneRefresh
  <2>1. /\ tok = storage /\ flight[h].live
        /\ \A g \in Holders \ {h} : flight[g].at = "none"
    BY <1>1 DEF OneRefresh
  <2>2. \A g \in Holders : flight'[g].at # "none" => g = h
    BY <1>4, <2>1
  <2>3. stored'[owner'[NewToken]] = NewToken /\ NewToken \notin burnt
    BY <1>3 DEF SessionTypeOK
  <2>4. storage' = storage /\ storage # 0 /\ leaving' = {} /\ bounced' = bounced /\ excused' = excused
        /\ burnt' = burnt
    BY <1>1 DEF OneRefresh
  <2> QED
    BY <1>4, <2>1, <2>2, <2>3, <2>4 DEF OneRefresh
<1> QED
  BY <1>5, <1>6, <1>7, <1>8, <1>9

LEMMA FailKeeps ==
  ASSUME SessionInv, NEW h \in Holders, ExchangeFails(h)
  PROVE  SessionInv'
<1> USE DEF SessionInv
<1>1. /\ flight[h].at # "none" /\ Goes(h, "refused") /\ moves' \in Nat /\ excused'
      /\ UNCHANGED <<storage, page, leaving, request, expired, stored, burnt, owner, parent, cutOff,
                     bounced, loggedOut, Minted>>
  BY DEF ExchangeFails, Moves, OnServer, serverVars, Minted, SessionTypeOK
<1>2. /\ flight' \in [Holders -> Flights]
      /\ flight'[h] = [flight[h] EXCEPT !.at = "refused"]
      /\ \A g \in Holders \ {h} : flight'[g] = flight[g]
      /\ \A g \in Holders : /\ flight'[g].at # "none" => flight'[g].tok # 0
                            /\ flight'[g].at = "granted" => flight'[g].new # 0
  BY <1>1, GoesTo DEF Places
<1>3. /\ flight'[h].at = "refused" /\ flight'[h].live = flight[h].live
      /\ \A g \in Holders \ {h} : flight'[g] = flight[g]
  BY <1>2 DEF SessionTypeOK, Flights
<1>4. excused' = TRUE
  BY DEF ExchangeFails
<1>5. SessionTypeOK'
  BY <1>1, <1>2, <1>4 DEF SessionTypeOK, Numbered, Flights
<1>6. BurntFirst' /\ CutOffIsOut'
  BY <1>1, <1>3, SameServer DEF serverVars
<1>7. NothingInAir'
  BY <1>1, <1>3 DEF NothingInAir
<1>8. OneRefresh'
  BY <1>4 DEF OneRefresh
<1> QED
  BY <1>5, <1>6, <1>7, <1>8

\* The answer in the page.
LEMMA GrantedKeeps ==
  ASSUME SessionInv, NEW h \in Holders, Granted(h)
  PROVE  SessionInv'
<1> USE DEF SessionInv
<1>1. /\ flight[h].at = "granted" /\ flight[h].live
      /\ storage' = flight[h].new
      /\ request' = [r \in Requests |-> IF r \in Waiting(h) THEN "idle" ELSE request[r]]
      /\ flight' = [flight EXCEPT ![h] = Free]
      /\ UNCHANGED <<moves, page, leaving, stored, burnt, owner, parent, cutOff, expired, excused,
                     bounced, loggedOut, Minted>>
  BY DEF Granted, serverVars, noteVars, Minted
<1>2. flight'[h] = Free /\ \A g \in Holders \ {h} : flight'[g] = flight[g]
  BY <1>1 DEF SessionTypeOK
<1>3. flight[h].new \in Minted
  BY <1>1 DEF SessionTypeOK, Flights
<1>4. SessionTypeOK'
  <2>1. flight' \in [Holders -> Flights]
    BY <1>1 DEF SessionTypeOK, Flights, Places, Free
  <2>2. request' \in [Requests -> {"idle", "sent", "wait"}]
    BY <1>1 DEF SessionTypeOK
  <2>3. \A g \in Holders : /\ flight'[g].at # "none" => flight'[g].tok # 0
                           /\ flight'[g].at = "granted" => flight'[g].new # 0
    BY <1>2 DEF SessionTypeOK, Free
  <2> QED
    BY <1>1, <1>3, <2>1, <2>2, <2>3 DEF SessionTypeOK, Numbered, Flights
<1>5. BurntFirst' /\ CutOffIsOut'
  BY <1>1, <1>2, SameServer DEF Free, serverVars
<1>6. NothingInAir'
  BY <1>1 DEF NothingInAir
<1>7. OneRefresh'
  <2> SUFFICES ASSUME ~excused
               PROVE  OneRefresh'
    BY <1>1 DEF OneRefresh
  <2>1. /\ stored[owner[flight[h].new]] = flight[h].new /\ flight[h].new \notin burnt
        /\ \A g \in Holders \ {h} : flight[g].at = "none"
    BY <1>1 DEF OneRefresh
  <2>2. \A g \in Holders : flight'[g].at = "none"
    BY <1>2, <2>1 DEF Free
  <2>3. storage' # 0
    BY <1>1 DEF SessionTypeOK
  <2> QED
    BY <1>1, <2>1, <2>2, <2>3 DEF OneRefresh
<1> QED
  BY <1>4, <1>5, <1>6, <1>7

LEMMA RefusedKeeps ==
  ASSUME SessionInv, NEW h \in Holders, Refused(h)
  PROVE  SessionInv'
<1> USE DEF SessionInv
<1>1. /\ flight[h].at = "refused" /\ flight[h].live
      /\ storage' \in {0, storage} /\ bounced' = TRUE
      /\ flight' = [flight EXCEPT ![h] = Free]
      /\ UNCHANGED <<moves, page, stored, burnt, owner, parent, cutOff, expired, excused,
                     loggedOut, Minted>>
  BY DEF Refused, serverVars, Minted
<1>2. flight'[h] = Free /\ \A g \in Holders \ {h} : flight'[g] = flight[g]
  BY <1>1 DEF SessionTypeOK
<1>3. /\ request' \in [Requests -> {"idle", "sent", "wait"}] /\ leaving' \subseteq Tabs
      /\ flight' \in [Holders -> Flights]
  <2>1. request' \in [Requests -> {"idle", "sent", "wait"}]
    BY DEF Refused, SessionTypeOK
  <2>2. leaving' \subseteq Tabs
    BY SessionAssumption DEF Refused, Leave, SessionTypeOK
  <2>3. flight' \in [Holders -> Flights]
    BY <1>1 DEF SessionTypeOK, Flights, Places, Free
  <2> QED
    BY <2>1, <2>2, <2>3
<1>4. SessionTypeOK'
  <2>1. \A g \in Holders : /\ flight'[g].at # "none" => flight'[g].tok # 0
                           /\ flight'[g].at = "granted" => flight'[g].new # 0
    BY <1>2 DEF SessionTypeOK, Free
  <2> QED
    BY <1>1, <1>3, <2>1 DEF SessionTypeOK, Numbered, Flights
<1>5. BurntFirst' /\ CutOffIsOut'
  <2>1. \A g \in Holders : /\ flight'[g].at \in {flight[g].at, "none", "sent", "refused"}
                           /\ flight'[g].at \in {"checked", "burnt", "granted"} =>
                                flight'[g].tok = flight[g].tok
    BY <1>2 DEF Free
  <2> QED
    BY <1>1, <2>1, SameServer DEF serverVars
<1>6. NothingInAir'
  BY <1>1, <1>2 DEF NothingInAir, Free
<1>7. excused
  BY <1>1 DEF OneRefresh
<1>8. OneRefresh'
  BY <1>1, <1>7 DEF OneRefresh
<1> QED
  BY <1>4, <1>5, <1>6, <1>8

LEMMA DroppedKeeps ==
  ASSUME SessionInv, NEW h \in Holders, Dropped(h)
  PROVE  SessionInv'
<1> USE DEF SessionInv
<1>1. /\ flight[h].at \in {"granted", "refused"} /\ ~flight[h].live
      /\ flight' = [flight EXCEPT ![h] = Free]
      /\ UNCHANGED <<moves, storage, page, leaving, request, stored, burnt, owner, parent, cutOff,
                     expired, excused, bounced, loggedOut, Minted>>
  BY DEF Dropped, serverVars, noteVars, Minted
<1>2. flight'[h] = Free /\ \A g \in Holders \ {h} : flight'[g] = flight[g]
  BY <1>1 DEF SessionTypeOK
<1>3. SessionTypeOK'
  <2>1. flight' \in [Holders -> Flights]
    BY <1>1 DEF SessionTypeOK, Flights, Places, Free
  <2>2. \A g \in Holders : /\ flight'[g].at # "none" => flight'[g].tok # 0
                           /\ flight'[g].at = "granted" => flight'[g].new # 0
    BY <1>2 DEF SessionTypeOK, Free
  <2> QED
    BY <1>1, <2>1, <2>2 DEF SessionTypeOK, Numbered, Flights
<1>4. BurntFirst' /\ CutOffIsOut'
  BY <1>1, <1>2, SameServer DEF Free, serverVars
<1>5. NothingInAir'
  BY <1>1, <1>2 DEF NothingInAir, Free
<1>6. excused
  BY <1>1 DEF OneRefresh
<1>7. OneRefresh'
  BY <1>1, <1>6 DEF OneRefresh
<1> QED
  BY <1>3, <1>4, <1>5, <1>7

\* The person.
LEMMA LoginKeeps ==
  ASSUME SessionInv, NEW t \in Tabs, NEW u \in Users, Login(t, u)
  PROVE  SessionInv'
<1> USE DEF SessionInv
<1>1. /\ Mint(u, 0) /\ storage' = NewToken /\ cutOff' = [cutOff EXCEPT ![u] = "no"]
      /\ excused' = TRUE /\ loggedOut' = "no" /\ moves' \in Nat
      /\ page' \in [Tabs -> {"app", "login"}]
      /\ UNCHANGED <<leaving, request, flight, burnt, expired, bounced>>
  BY DEF Login, Moves, SessionTypeOK
<1>2. /\ Minted' = Minted \cup {NewToken} /\ NewToken \notin Minted
      /\ 0 \notin Minted' /\ Numbered'
      /\ owner' \in [Minted' -> Users] /\ parent' \in [Minted' -> {0} \cup Minted']
      /\ \A n \in Minted : owner'[n] = owner[n] /\ parent'[n] = parent[n]
      /\ owner'[NewToken] = u /\ parent'[NewToken] = 0
      /\ stored' \in [Users -> {0} \cup Minted']
      /\ stored'[u] = NewToken
      /\ \A v \in Users \ {u} : stored'[v] = stored[v]
  BY <1>1, Minting
<1>3. SessionTypeOK'
  <2>1. flight' \in [Holders -> Flights']
    BY <1>1, <1>2, FlightsGrow DEF SessionTypeOK
  <2>2. storage' \in {0} \cup Minted' /\ burnt' \subseteq Minted'
    BY <1>1, <1>2 DEF SessionTypeOK
  <2>3. cutOff' \in [Users -> Since] /\ loggedOut' \in Since
    BY <1>1 DEF SessionTypeOK, Since
  <2> QED
    BY <1>1, <1>2, <2>1, <2>2, <2>3 DEF SessionTypeOK
<1>4. BurntFirst'
  <2>1. \A n \in Minted' : parent'[n] # 0 => n \in Minted /\ parent'[n] = parent[n]
    BY <1>2
  <2>2. \A n \in Minted' : parent'[n] # 0 => parent'[n] \in burnt'
    BY <1>1, <2>1 DEF BurntFirst
  <2>3. \A m, n \in Minted' : parent'[m] = parent'[n] /\ parent'[m] # 0 => m = n
    BY <2>1 DEF BurntFirst
  <2>4. \A h \in Holders : flight'[h].at = "burnt" =>
          flight'[h].tok \in burnt' /\ \A n \in Minted' : parent'[n] # flight'[h].tok
    BY <1>1, <2>1 DEF BurntFirst, SessionTypeOK
  <2>5. \A g, h \in Holders : flight'[g].at = "burnt" /\ flight'[h].at = "burnt"
                              /\ flight'[g].tok = flight'[h].tok => g = h
    BY <1>1 DEF BurntFirst
  <2> QED
    BY <2>2, <2>3, <2>4, <2>5 DEF BurntFirst
<1>5. CutOffIsOut'
  <2> SUFFICES ASSUME NEW v \in Users, cutOff[v] = "quiet", v # u
               PROVE  stored'[v] = 0 /\ ~Exchanging(v)'
    BY <1>1 DEF CutOffIsOut, SessionTypeOK
  <2>1. stored[v] = 0 /\ ~Exchanging(v) /\ v \in Users
    BY DEF CutOffIsOut
  <2>2. \A h \in Holders : flight[h].at # "none" => owner'[flight[h].tok] = owner[flight[h].tok]
    BY <1>2 DEF SessionTypeOK, Flights
  <2> QED
    BY <1>1, <1>2, <2>1, <2>2 DEF Exchanging
<1>6. NothingInAir' /\ OneRefresh'
  BY <1>1 DEF NothingInAir, OneRefresh
<1> QED
  BY <1>3, <1>4, <1>5, <1>6

LEMMA LogoutKeeps ==
  ASSUME SessionInv, NEW t \in Tabs, LogoutByLoad(t) \/ LogoutByPush(t)
  PROVE  SessionInv'
<1> USE DEF SessionInv
<1>1. /\ storage' = 0 /\ excused' = TRUE /\ moves' \in Nat
      /\ loggedOut' = IF InAir THEN "racing" ELSE "quiet"
      /\ UNCHANGED <<request, flight, stored, burnt, owner, parent, cutOff, expired, bounced,
                     Minted>>
  BY DEF LogoutByLoad, LogoutByPush, Logout, Moves, serverVars, Minted, SessionTypeOK
<1>2. page' \in [Tabs -> {"app", "login"}] /\ leaving' \subseteq Tabs
  BY DEF LogoutByLoad, LogoutByPush, Leave, SessionTypeOK
<1>3. SessionTypeOK'
  BY <1>1, <1>2 DEF SessionTypeOK, Numbered, Flights, Since
<1>4. BurntFirst' /\ CutOffIsOut'
  BY <1>1, SameServer DEF serverVars
<1>5. NothingInAir'
  BY <1>1 DEF NothingInAir, InAir
<1>6. OneRefresh'
  BY <1>1 DEF OneRefresh
<1> QED
  BY <1>3, <1>4, <1>5, <1>6

LEMMA RevokeKeeps ==
  ASSUME SessionInv, NEW u \in Users, Revoke(u)
  PROVE  SessionInv'
<1> USE DEF SessionInv
<1>1. /\ stored' = [stored EXCEPT ![u] = 0] /\ excused' = TRUE /\ moves' \in Nat
      /\ cutOff' = [cutOff EXCEPT ![u] = IF Exchanging(u) THEN "racing" ELSE "quiet"]
      /\ UNCHANGED <<storage, page, leaving, request, flight, burnt, expired, owner, parent, bounced,
                     loggedOut, Minted>>
  BY DEF Revoke, Moves, Minted, SessionTypeOK
<1>2. SessionTypeOK'
  BY <1>1 DEF SessionTypeOK, Numbered, Flights, Since
<1>3. BurntFirst'
  BY <1>1 DEF BurntFirst
<1>4. CutOffIsOut'
  <2> SUFFICES ASSUME NEW v \in Users, cutOff'[v] = "quiet"
               PROVE  stored'[v] = 0 /\ ~Exchanging(v)'
    BY DEF CutOffIsOut
  <2>1. Exchanging(v)' <=> Exchanging(v)
    BY <1>1 DEF Exchanging
  <2>2. v # u => cutOff[v] = "quiet"
    BY <1>1 DEF SessionTypeOK
  <2>3. v = u => ~Exchanging(v)
    BY <1>1 DEF SessionTypeOK
  <2> QED
    BY <1>1, <2>1, <2>2, <2>3 DEF CutOffIsOut, SessionTypeOK
<1>5. NothingInAir' /\ OneRefresh'
  BY <1>1 DEF NothingInAir, OneRefresh
<1> QED
  BY <1>2, <1>3, <1>4, <1>5

LEMMA SessionStep == SessionInv /\ [SessionNext]_sessionVars => SessionInv'
<1> SUFFICES ASSUME SessionInv, [SessionNext]_sessionVars
             PROVE  SessionInv'
  OBVIOUS
<1>1. CASE UNCHANGED sessionVars
  BY <1>1 DEF SessionInv, SessionTypeOK, BurntFirst, CutOffIsOut, NothingInAir, OneRefresh,
     Numbered, Flights, Minted, Exchanging, sessionVars
<1>2. ASSUME NEW r \in Requests, SendRequest(r) \/ Denied(r) PROVE SessionInv'
  BY <1>2, SendKeeps, DeniedKeeps
<1>3. ASSUME NEW h \in Holders, Exchange(h) \/ ExchangeFails(h) \/ Land(h) PROVE SessionInv'
  BY <1>3, CheckKeeps, BurnKeeps, StoreKeeps, FailKeeps, GrantedKeeps, RefusedKeeps,
     DroppedKeeps DEF Exchange, Land
<1>4. ASSUME NEW t \in Tabs,
             Reopen(t) \/ LogoutByLoad(t) \/ LogoutByPush(t) \/ Unload(t)
      PROVE  SessionInv'
  BY <1>4, ReopenKeeps, LogoutKeeps, UnloadKeeps
<1>5. ASSUME NEW t \in Tabs, NEW u \in Users, Login(t, u) PROVE SessionInv'
  BY <1>5, LoginKeeps
<1>6. ASSUME NEW u \in Users, Revoke(u) PROVE SessionInv'
  BY <1>6, RevokeKeeps
<1>7. CASE Expire
  BY <1>7, ExpireKeeps
<1> QED
  BY <1>1, <1>2, <1>3, <1>4, <1>5, <1>6, <1>7 DEF SessionNext

LEMMA SessionInvariant == SessionSpec => []SessionInv
BY SessionStart, SessionStep, PTL DEF SessionSpec

-----------------------------------------------------------------------------
\* Tokens are numbered as they are minted, and the storage, Redis and every refresh
\* under way refer to minted tokens only.
THEOREM SessionTyped == SessionSpec => []SessionTypeOK
<1>1. SessionInv => SessionTypeOK
  BY DEF SessionInv
<1> QED
  BY <1>1, SessionInvariant, PTL

\* One refresh token is exchanged for one pair, however many pages present it: the
\* exchange that burns the token is the only one that mints from it.
THEOREM ExchangedOnce == SessionSpec => []TokenExchangedOnce
<1>1. SessionInv => TokenExchangedOnce
  BY DEF SessionInv, BurntFirst, TokenExchangedOnce
<1> QED
  BY <1>1, SessionInvariant, PTL

\* After a revocation with no exchange past its check, none can pass the check until
\* the next login, and none stores a token.
THEOREM StaysRevoked == SessionSpec => []RevokedStaysRevoked
<1>1. SessionInv => RevokedStaysRevoked
  BY DEF SessionInv, CutOffIsOut, RevokedStaysRevoked
<1> QED
  BY <1>1, SessionInvariant, PTL

\* After a logout with no refresh in the air in any page that is not unloaded yet, nothing
\* writes the storage until a login: no refresh is there to be answered, and none starts
\* without a token, although the pages that are left go on sending and being denied.
THEOREM LogoutStays == SessionSpec => []LogoutIsFinal
<1>1. SessionInv => LogoutIsFinal
  BY DEF SessionInv, NothingInAir, LogoutIsFinal
<1> QED
  BY <1>1, SessionInvariant, PTL

\* As long as nothing has happened to a session, one refresh at most is in the air,
\* of the token that Redis holds, so it is not refused and no page is sent to the login.
THEOREM NotBounced == SessionSpec => []BouncedForAReason
<1>1. SessionInv => BouncedForAReason
  BY DEF SessionInv, OneRefresh, BouncedForAReason
<1> QED
  BY <1>1, SessionInvariant, PTL
==============================================================================
