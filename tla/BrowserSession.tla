---------------------------- MODULE BrowserSession ----------------------------
(***************************************************************************)
(* The session of a person in the browser: one pair of tokens in the       *)
(* localStorage that all tabs share, and three API helpers that each       *)
(* exchange the refresh token on their own when a request is answered 401. *)
(* The server keeps one refresh token per user and burns each one it has   *)
(* exchanged.                                                              *)
(*                                                                         *)
(* Two of the helpers keep one promise of a refresh per page and let every *)
(* request wait for it; the third (axios) refreshes for each request.  A   *)
(* Holder is what runs one refresh at a time: such a helper in one tab, or *)
(* one request of the third.                                               *)
(*                                                                         *)
(* A login and each exchange mint a pair of tokens with one number.        *)
(***************************************************************************)
EXTENDS Naturals, FiniteSets

CONSTANTS
  Users, Tabs, Holders, Requests,
  TabOf,        \* the tab that a holder lives in
  HolderOf,     \* the holder that a request refreshes through
  Clearing,     \* the holders that clear the storage when a refresh fails (axios)
  MaxTokens,    \* bound: pairs of tokens minted
  MaxMoves      \* bound: logins, logouts, returns, revocations and failures

ASSUME SessionAssumption ==
  /\ TabOf \in [Holders -> Tabs]
  /\ HolderOf \in [Requests -> Holders]
  /\ Clearing \subseteq Holders
  /\ MaxTokens \in Nat \ {0} /\ MaxMoves \in Nat

VARIABLES
  storage,   \* localStorage: the number of the pair of tokens, 0 if there is none
  page,      \* per tab "app" or "login"
  leaving,   \* the tabs that have begun to load the login page and still run the old one
  request,   \* per request "idle", "sent" with a token that is not accepted, "wait"
  flight,    \* per holder its refresh [at, tok, new, live]
  stored,    \* Redis refresh:<user>: the refresh token that is current, or 0
  burnt,     \* Redis jwt:jti:used: the refresh tokens exchanged
  expired,   \* the access tokens up to this one have lived their 15 minutes
  owner,     \* per token its user, for the tokens minted so far
  moves,     \* how often the person acted or the network or the server failed
  \* History, read by the properties only:
  parent,    \* per token the refresh token it was exchanged for, 0 for a login
  excused,   \* something has happened that may end a session
  bounced,   \* a page was sent to the login because a refresh failed
  loggedOut, \* "no", or since the last logout: "quiet" if no living page had a refresh
             \* in the air at that moment, "racing" if one had
  cutOff     \* per user "no", or since the last revocation of the sessions: "quiet" if no
             \* exchange of the user was under way at that moment, "racing" if one was

sessionVars == <<storage, page, leaving, request, flight, stored, burnt, expired, owner,
                 moves, parent, excused, bounced, loggedOut, cutOff>>
serverVars  == <<stored, burnt, owner, parent, cutOff>>
noteVars    == <<excused, bounced, loggedOut>>

Tokens  == 1..MaxTokens
Minted  == DOMAIN owner
NewToken == Cardinality(Minted) + 1
Free    == [at |-> "none", tok |-> 0, new |-> 0, live |-> FALSE]

\* A person has logged in in one tab; the others may be anywhere in the app.
SessionInit ==
  /\ storage = 1
  /\ page \in [Tabs -> {"app", "login"}]
  /\ \E t \in Tabs : page[t] = "app"
  /\ leaving = {}
  /\ request = [r \in Requests |-> "idle"]
  /\ flight = [h \in Holders |-> Free]
  /\ \E u \in Users :
       /\ stored = [v \in Users |-> IF v = u THEN 1 ELSE 0]
       /\ owner = [n \in {1} |-> u]
  /\ burnt = {} /\ expired = 0 /\ moves = 0
  /\ parent = [n \in {1} |-> 0]
  /\ excused = FALSE /\ bounced = FALSE /\ loggedOut = "no"
  /\ cutOff = [u \in Users |-> "no"]

\* The bound on tokens leaves room for every exchange that has begun.
Room == Cardinality(Minted)
        + Cardinality({h \in Holders : flight[h].at \in {"sent", "checked", "burnt"}})
        < MaxTokens
Moves == moves < MaxMoves /\ moves' = moves + 1

-----------------------------------------------------------------------------
(* Requests and the refresh they start.                                    *)

TabReq(r) == TabOf[HolderOf[r]]

\* The gateway looks at the access token only, and accepts it until it expires.
\* A request that it accepts changes nothing here and is left out.
SendRequest(r) ==
  /\ request[r] = "idle" /\ page[TabReq(r)] = "app"
  /\ storage <= expired
  /\ request' = [request EXCEPT ![r] = "sent"]
  /\ UNCHANGED <<moves, storage, page, leaving, flight, serverVars, expired, noteVars>>

Waiting(h) == {r \in Requests : HolderOf[r] = h /\ request[r] = "wait"}

\* The assignment of location.href begins to load the login page.  Until the old page
\* is unloaded its code runs on, and answers still reach it.
Leave(t) == leaving' = leaving \cup {t}

\* The old page is gone: its requests and refreshes go with it, though the server may
\* still be at work for them.
Unload(t) ==
  /\ t \in leaving
  /\ leaving' = leaving \ {t}
  /\ page' = [page EXCEPT ![t] = "login"]
  /\ request' = [r \in Requests |-> IF TabReq(r) = t THEN "idle" ELSE request[r]]
  /\ flight' = [h \in Holders |-> IF TabOf[h] = t THEN [flight[h] EXCEPT !.live = FALSE]
                                                  ELSE flight[h]]
  /\ UNCHANGED <<moves, storage, serverVars, expired, noteVars>>

\* Two holders present one token: only one of them can be served.
Rivals(h, tok) == \E g \in Holders \ {h} : flight[g].at # "none" /\ flight[g].tok = tok

\* A 401 makes the request wait for the refresh of its holder, which starts with the
\* token tok, if there is one and no refresh is on its way; otherwise the page goes.
DeniedWith(r, tok) ==
  LET h == HolderOf[r]
  IN  /\ request[r] = "sent"
      /\ \/ /\ flight[h].at # "none" /\ flight[h].live
            /\ request' = [request EXCEPT ![r] = "wait"]
            /\ UNCHANGED <<leaving, flight, excused>>
         \/ /\ flight[h].at = "none" /\ tok # 0 /\ Room
            /\ request' = [request EXCEPT ![r] = "wait"]
            /\ flight' = [flight EXCEPT ![h] = [at |-> "sent", tok |-> tok, new |-> 0,
                                               live |-> TRUE]]
            /\ excused' = (excused \/ Rivals(h, tok))
            /\ UNCHANGED leaving
         \/ /\ flight[h].at = "none" /\ tok = 0
            /\ request' = [request EXCEPT ![r] = "idle"]
            /\ Leave(TabOf[h])
            /\ UNCHANGED <<flight, excused>>
      /\ UNCHANGED <<moves, storage, page, serverVars, expired, bounced, loggedOut>>

\* Mutant: the token is that of the last login or refresh, as a store in memory has it.
DeniedFromMemory(r) == DeniedWith(r, Cardinality(Minted))

Denied(r) == DeniedWith(r, storage)

-----------------------------------------------------------------------------
(* The exchange on the server, a step per call of Redis.                   *)

Goes(h, at) == flight' = [flight EXCEPT ![h].at = at]
OnServer == <<storage, page, leaving, request, expired>>

\* Mutant: the token presented is not compared with the one that is stored.
CheckSignature(h) ==
  /\ flight[h].at = "sent"
  /\ Goes(h, "checked")
  /\ UNCHANGED <<moves, OnServer, serverVars, noteVars>>

\* The token presented must be the one that is stored.
CheckStored(h) ==
  /\ flight[h].at = "sent"
  /\ Goes(h, IF stored[owner[flight[h].tok]] = flight[h].tok THEN "checked" ELSE "refused")
  /\ UNCHANGED <<moves, OnServer, serverVars, noteVars>>

\* Mutant: nothing is burnt.
BurnNothing(h) ==
  /\ flight[h].at = "checked"
  /\ Goes(h, "burnt")
  /\ UNCHANGED <<moves, OnServer, serverVars, noteVars>>

\* Its id is burnt, unless it was burnt before.
BurnToken(h) ==
  /\ flight[h].at = "checked"
  /\ IF flight[h].tok \in burnt
     THEN Goes(h, "refused") /\ UNCHANGED burnt
     ELSE Goes(h, "burnt") /\ burnt' = burnt \cup {flight[h].tok}
  /\ UNCHANGED <<moves, OnServer, stored, owner, parent, cutOff, noteVars>>

\* A new pair is minted and stored over whatever is stored by now.
Mint(u, from) ==
  /\ NewToken \in Tokens
  /\ owner' = [n \in Minted \cup {NewToken} |-> IF n = NewToken THEN u ELSE owner[n]]
  /\ parent' = [n \in Minted \cup {NewToken} |-> IF n = NewToken THEN from ELSE parent[n]]
  /\ stored' = [stored EXCEPT ![u] = NewToken]

StoreNew(h) ==
  /\ flight[h].at = "burnt"
  /\ Mint(owner[flight[h].tok], flight[h].tok)
  /\ flight' = [flight EXCEPT ![h].at = "granted", ![h].new = NewToken]
  /\ UNCHANGED <<moves, OnServer, burnt, cutOff, noteVars>>

\* The server fails in between, or the answer is lost: a token may be burnt, and
\* even replaced, and the page is told nothing.
ExchangeFails(h) ==
  /\ flight[h].at \in {"sent", "checked", "burnt", "granted"}
  /\ Moves
  /\ Goes(h, "refused")
  /\ excused' = TRUE
  /\ UNCHANGED <<OnServer, serverVars, bounced, loggedOut>>

-----------------------------------------------------------------------------
(* The answer in the page.                                                 *)

\* Mutant: the new pair is used but not kept.
GrantedUnkept(h) ==
  /\ flight[h].at = "granted" /\ flight[h].live
  /\ request' = [r \in Requests |-> IF r \in Waiting(h) THEN "idle" ELSE request[r]]
  /\ flight' = [flight EXCEPT ![h] = Free]
  /\ UNCHANGED <<moves, storage, page, leaving, serverVars, expired, noteVars>>

\* The new pair is written over what the storage has, and the requests that
\* waited are sent again with it.
Granted(h) ==
  /\ flight[h].at = "granted" /\ flight[h].live
  /\ storage' = flight[h].new
  /\ request' = [r \in Requests |-> IF r \in Waiting(h) THEN "idle" ELSE request[r]]
  /\ flight' = [flight EXCEPT ![h] = Free]
  /\ UNCHANGED <<moves, page, leaving, serverVars, expired, noteVars>>

\* "Refresh failed": the page goes to the login; axios empties the storage first.
Refused(h) ==
  /\ flight[h].at = "refused" /\ flight[h].live
  /\ storage' = IF h \in Clearing THEN 0 ELSE storage
  /\ bounced' = TRUE
  /\ request' = [r \in Requests |-> IF r \in Waiting(h) THEN "idle" ELSE request[r]]
  /\ flight' = [flight EXCEPT ![h] = Free]
  /\ Leave(TabOf[h])
  /\ UNCHANGED <<moves, page, serverVars, expired, excused, loggedOut>>

\* The answer to a page that is gone.
Dropped(h) ==
  /\ flight[h].at \in {"granted", "refused"} /\ ~flight[h].live
  /\ flight' = [flight EXCEPT ![h] = Free]
  /\ UNCHANGED <<moves, storage, page, leaving, request, serverVars, expired, noteVars>>

-----------------------------------------------------------------------------
(* The person, and time.                                                   *)

\* A refresh is in the air in a page that is not unloaded, that of the logout included.
InAir == \E h \in Holders : flight[h].at # "none" /\ flight[h].live

\* A login replaces what is stored, for every tab and device of the user.
Login(t, u) ==
  /\ Moves
  /\ page[t] = "login" /\ Room
  /\ Mint(u, 0)
  /\ storage' = NewToken
  /\ page' = [page EXCEPT ![t] = "app"]
  /\ cutOff' = [cutOff EXCEPT ![u] = "no"]
  /\ excused' = TRUE
  /\ loggedOut' = "no"
  /\ UNCHANGED <<leaving, request, flight, burnt, expired, bounced>>

\* The app opens on any access token in the storage.
Reopen(t) ==
  /\ Moves
  /\ page[t] = "login" /\ storage # 0
  /\ page' = [page EXCEPT ![t] = "app"]
  /\ UNCHANGED <<storage, leaving, request, flight, serverVars, expired, noteVars>>

\* Both logouts empty the storage and tell the server nothing.  One begins to load the
\* login page, the other only shows it: its page lives on.
Logout(t) ==
  /\ Moves
  /\ page[t] = "app"
  /\ storage' = 0
  /\ loggedOut' = IF InAir THEN "racing" ELSE "quiet"
  /\ excused' = TRUE
  /\ UNCHANGED <<request, flight, serverVars, expired, bounced>>

LogoutByLoad(t) == Logout(t) /\ Leave(t) /\ UNCHANGED page
LogoutByPush(t) == Logout(t) /\ page' = [page EXCEPT ![t] = "login"] /\ UNCHANGED leaving

\* A new password, or a logout through the API, deletes the stored token.
Exchanging(u) == \E h \in Holders : /\ flight[h].at \in {"checked", "burnt"}
                                    /\ owner[flight[h].tok] = u
Revoke(u) ==
  /\ Moves
  /\ stored[u] # 0
  /\ stored' = [stored EXCEPT ![u] = 0]
  /\ cutOff' = [cutOff EXCEPT ![u] = IF Exchanging(u) THEN "racing" ELSE "quiet"]
  /\ excused' = TRUE
  /\ UNCHANGED <<storage, page, leaving, request, flight, burnt, expired, owner,
                 parent, bounced, loggedOut>>

\* The older of two access tokens expires first.
Expire ==
  /\ expired < Cardinality(Minted)
  /\ expired' = expired + 1
  /\ UNCHANGED <<moves, storage, page, leaving, request, flight, serverVars, noteVars>>

-----------------------------------------------------------------------------
Exchange(h) == CheckStored(h) \/ BurnToken(h) \/ StoreNew(h)
Land(h)     == Granted(h) \/ Refused(h) \/ Dropped(h)

SessionNext ==
  \/ \E r \in Requests : SendRequest(r) \/ Denied(r)
  \/ \E h \in Holders : Exchange(h) \/ ExchangeFails(h) \/ Land(h)
  \/ \E t \in Tabs : Reopen(t) \/ LogoutByLoad(t) \/ LogoutByPush(t) \/ Unload(t)
  \/ \E t \in Tabs, u \in Users : Login(t, u)
  \/ \E u \in Users : Revoke(u)
  \/ Expire

SessionSpec == SessionInit /\ [][SessionNext]_sessionVars

-----------------------------------------------------------------------------
(* Properties.                                                             *)

\* However many pages present it, one refresh token is exchanged for one pair
\* ("would otherwise mint two valid session pairs from one refresh").
TokenExchangedOnce ==
  \A m, n \in Minted : parent[m] = parent[n] /\ parent[m] # 0 => m = n

\* A page is sent to the login only for a reason: the person logged out, logged in
\* again or lost the session, an answer was lost, or two holders presented one
\* token.  A page on its own never ends its session by refreshing it.
BouncedForAReason == bounced => excused

\* After a logout with no refresh in the air, in no tab, that of the logout included, no
\* tokens come back until a login: what is sent and denied afterwards starts no refresh,
\* in a page that is being left, one that lives on or another tab.
LogoutIsFinal == loggedOut = "quiet" => storage = 0

\* After the sessions of a user were revoked with no exchange under way, the
\* server holds no refresh token of the user until the next login ("Invalidate
\* all existing sessions").
RevokedStaysRevoked == \A u \in Users : cutOff[u] = "quiet" => stored[u] = 0
==============================================================================
