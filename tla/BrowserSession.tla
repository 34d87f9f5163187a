---------------------------- MODULE BrowserSession ----------------------------
(***************************************************************************)
(* The sign-in of simple-ui: the tokens and the user that api.ts,          *)
(* authService.ts, useAuth.ts and the OAuth callback page keep in a        *)
(* browser.  localStorage is one for all tabs, sessionStorage is a tab's   *)
(* own.  Code runs to its next await; requests of one page and of several  *)
(* tabs interleave there.  The token of a session stands for every access  *)
(* token issued for it.  A request may be refused or fail at any time:     *)
(* tokens expire, an API key is missing, and auth-service ends sessions    *)
(* that time out or that a new password or another device ends.            *)
(***************************************************************************)
EXTENDS Naturals

CONSTANTS
  Tabs,        \* tabs of one browser
  Procs,       \* requests of the pages that may be in progress at once
  MaxSessions  \* bound: sign-ins

ASSUME BoundAssumption == MaxSessions \in Nat

VARIABLES
  sessions,  \* sign-ins so far; sessions, and their tokens and users, are 1..sessions
  urls,      \* sign-ins by OAuth: the address of the callback page, with the tokens in
             \* it, stays in the browser's history and can be opened again
  local,     \* localStorage: access_token, refresh_token, user
  remember,  \* localStorage's remember_me is "true"
  own,       \* own[t]: the same fields in the sessionStorage of tab t
  proc,      \* the requests in progress
  late,      \* history variable: sessions whose fresh token was stored in a tab that
             \* no longer held the refresh token it was asked with
  astray,    \* history variable: sessions whose user is not stored yet since their tokens
             \* were, whose user a sign-in or one that failed left stored, or was stored
             \* in a tab that no longer held the token it was asked with, or in two tabs
  ended      \* history variable: sessions that a tab has signed out, by a logout or
             \* by removing their tokens, since a sign-in stored these

vars == <<sessions, urls, local, remember, own, proc, late, astray, ended>>

-----------------------------------------------------------------------------
Sessions == 1..MaxSessions

None == 0

Tokens == {"access", "refresh"}

Fields == Tokens \cup {"user"}

Stores == [Fields -> 0..sessions]

Empty == [f \in Fields |-> None]

\* A request: of which tab, of which kind, with the token of which session; _retry,
\* and whether the 401 a service gave it speaks of an expired or invalid token.
Requests == [pc : {"idle", "call", "refresh", "settle", "me", "logout"},
             tab : Tabs, kind : {"service", "other", "init", "login", "plain"},
             tok : 0..sessions, retry : BOOLEAN, says : BOOLEAN]

Idle == [pc |-> "idle"]

InTab(p, t) == proc[p].pc # "idle" /\ proc[p].tab = t

\* Both storages are read, localStorage first.
Seen(t, f) == IF local[f] # None THEN local[f] ELSE own[t][f]

Access(t) == Seen(t, "access")

Refresh(t) == Seen(t, "refresh")

User(t) == Seen(t, "user")

\* The sessions whose tokens, and the users, that a tab finds in both.
Stored(t) == ({local[f] : f \in Tokens} \cup {own[t][f] : f \in Tokens}) \ {None}

Users(t) == {local["user"], own[t]["user"]} \ {None}

-----------------------------------------------------------------------------
\* The fields fs of a store, set or cleared.
With(store, fs, s) == [f \in Fields |-> IF f \in fs THEN s ELSE store[f]]

\* Mutant of Put: the other storage is left alone.
PutBeside(t, fs, s, kept) ==
  IF kept THEN local' = With(local, fs, s) /\ own' = own
  ELSE own' = [own EXCEPT ![t] = With(own[t], fs, s)] /\ local' = local

\* setAccessToken, setRefreshToken and setStoredUser clear both storages, then set one.
Put(t, fs, s, kept) ==
  /\ local' = With(local, fs, IF kept THEN s ELSE None)
  /\ own' = [own EXCEPT ![t] = With(own[t], fs, IF kept THEN None ELSE s)]

\* Mutant of Forget: localStorage alone.
ForgetLocal(t, fs, asked) ==
  /\ local' = With(local, fs, None) /\ own' = own
  /\ remember' = FALSE
  /\ ended' = ended \cup Stored(t) \cup asked

\* clearAuthTokens, with clearStoredUser or without; asked: the session that is
\* signed out by name.
Forget(t, fs, asked) ==
  /\ Put(t, fs, None, FALSE)
  /\ remember' = FALSE
  /\ ended' = ended \cup Stored(t) \cup asked

KeepStorage == UNCHANGED <<local, own, remember, ended>>

Finish(p) == proc' = [proc EXCEPT ![p] = Idle]

Begin(p, t, pc, kind, tok) ==
  proc' = [proc EXCEPT ![p] =
    [pc |-> pc, tab |-> t, kind |-> kind, tok |-> tok, retry |-> FALSE, says |-> FALSE]]

Free(p) == proc[p].pc = "idle"

-----------------------------------------------------------------------------
\* A request of a page through apiClient: to a service, or to another endpoint.
StartCall(p, t, kind) ==
  /\ Free(p)
  /\ Begin(p, t, "call", kind, None)
  /\ KeepStorage /\ UNCHANGED <<sessions, urls, late, astray>>

\* Any answer but a 401.
CallEnds(p) ==
  /\ proc[p].pc = "call"
  /\ Finish(p)
  /\ KeepStorage /\ UNCHANGED <<sessions, urls, late, astray>>

\* Mutant of MayRefresh: _retry is not looked at.
MayRefreshAgain(q) == q.kind = "other" \/ Access(q.tab) # None

MayRefresh(q) == ~q.retry /\ (q.kind = "other" \/ Access(q.tab) # None)

\* A 401: refreshToken sends the refresh token that is stored now.
AskFresh(p, says) ==
  LET q == proc[p]
  IN /\ q.pc = "call" /\ MayRefresh(q) /\ Refresh(q.tab) # None
     /\ proc' = [proc EXCEPT ![p] =
          [q EXCEPT !.pc = "refresh", !.tok = Refresh(q.tab), !.retry = TRUE,
                    !.says = says /\ q.kind = "service"]]
     /\ KeepStorage /\ UNCHANGED <<sessions, urls, late, astray>>

\* A 401 after a retry, or to a service that speaks of a token while none is stored.
GivesUp(q, says) == ~MayRefresh(q) /\ (q.kind = "service" => says /\ Access(q.tab) = None)

\* A 401 that is not followed by a refresh.
CallRefused(p, says) ==
  LET q == proc[p]
  IN /\ q.pc = "call" /\ ~(MayRefresh(q) /\ Refresh(q.tab) # None)
     /\ Finish(p)
     /\ IF GivesUp(q, says) THEN Forget(q.tab, Fields, {}) ELSE KeepStorage
     /\ UNCHANGED <<sessions, urls, late, astray>>

\* Mutant of Preferred: setAccessToken's default.
PreferredByDefault(t, s) == Put(t, {"access"}, s, TRUE) /\ remember' = TRUE

\* The fresh token goes where the preference of now says.
Preferred(t, s) == Put(t, {"access"}, s, remember) /\ UNCHANGED remember

\* It is stored, and the request is sent again.
StoreFresh(p) ==
  LET q == proc[p]
  IN /\ q.pc = "refresh"
     /\ Preferred(q.tab, q.tok)
     /\ late' = IF Refresh(q.tab) = q.tok THEN late ELSE late \cup {q.tok}
     /\ proc' = [proc EXCEPT ![p] = [q EXCEPT !.pc = "call", !.tok = None, !.says = FALSE]]
     /\ UNCHANGED <<sessions, urls, astray, ended>>

\* The refresh is refused, or fails.
RefreshFails(p, refused) ==
  LET q == proc[p]
  IN /\ q.pc = "refresh"
     /\ Finish(p)
     /\ IF q.kind = "other" \/ refused \/ q.says THEN Forget(q.tab, Fields, {}) ELSE KeepStorage
     /\ UNCHANGED <<sessions, urls, late, astray>>

-----------------------------------------------------------------------------
\* A sign-in: the tokens of session s, a new one or an earlier one, are stored.
SignIn(t, s, kept) ==
  /\ s \in Sessions
  /\ sessions' = IF s \in 1..sessions THEN sessions ELSE s
  /\ Put(t, Tokens, s, kept)
  /\ remember' = kept
  /\ astray' = astray \cup {s} \cup Users(t)

\* login of useAuth waits 100 ms before it asks for the user.
Login(p, t, kept) ==
  /\ Free(p)
  /\ SignIn(t, sessions + 1, kept)
  /\ Begin(p, t, "settle", "login", None)
  /\ UNCHANGED <<urls, late, ended>>

Settle(p) ==
  /\ proc[p].pc = "settle"
  /\ proc' = [proc EXCEPT ![p].pc = "me", ![p].tok = Access(proc[p].tab)]
  /\ KeepStorage /\ UNCHANGED <<sessions, urls, late, astray>>

\* The callback page of OAuth stores the tokens that stand in its address, each time
\* it runs: when auth-service has made the session and sent the tab there, and when
\* the user comes back to the address (push leaves it in the history) or reloads it.
OAuthCallback(p, t, s) ==
  /\ Free(p)
  /\ \/ s \in urls
     \/ s = sessions + 1 /\ \A q \in Procs : ~InTab(q, t)
  /\ SignIn(t, s, TRUE)
  /\ urls' = urls \cup {s}
  /\ ended' = ended \ {s}
  /\ Begin(p, t, "me", "plain", s)
  /\ UNCHANGED late

\* initializeAuth, whenever a component that uses useAuth is mounted.
StartInit(p, t) ==
  /\ Free(p) /\ Access(t) # None /\ User(t) # None
  /\ Begin(p, t, "me", "init", Access(t))
  /\ KeepStorage /\ UNCHANGED <<sessions, urls, late, astray>>

\* Without a token, initializeAuth clears the user.
InitClears(t) ==
  /\ Access(t) = None
  /\ Put(t, {"user"}, None, FALSE)
  /\ UNCHANGED <<sessions, urls, remember, proc, late, astray, ended>>

\* updateUser: the answer is the user too.
StartProfile(p, t) ==
  /\ Free(p)
  /\ Begin(p, t, "me", "plain", Access(t))
  /\ KeepStorage /\ UNCHANGED <<sessions, urls, late, astray>>

\* Mutant of Asked: a request without a token is answered too.
AskedByAnyone(q) == q.pc = "me"

\* GET or PUT /me with a token.
Asked(q) == q.pc = "me" /\ q.tok # None

\* The user of the token that was sent is stored.
MeAnswers(p) ==
  LET q == proc[p]
      named == Access(q.tab) = q.tok /\ \A u \in Tabs \ {q.tab} : own[u]["user"] # q.tok
  IN /\ Asked(q)
     /\ Put(q.tab, {"user"}, q.tok, remember)
     /\ astray' = IF named THEN astray \ {q.tok} ELSE astray \cup {q.tok}
     /\ Finish(p)
     /\ UNCHANGED <<sessions, urls, remember, late, ended>>

\* It is refused or fails: initializeAuth clears everything, login the tokens.
MeFails(p) ==
  LET q == proc[p]
  IN /\ q.pc = "me"
     /\ Finish(p)
     /\ CASE q.kind = "init"  -> Forget(q.tab, Fields, {})
          [] q.kind = "login" -> Forget(q.tab, Tokens, {})
          [] OTHER -> KeepStorage
     /\ astray' = IF q.kind = "login" THEN astray \cup Users(q.tab) ELSE astray
     /\ UNCHANGED <<sessions, urls, late>>

-----------------------------------------------------------------------------
\* logout sends the refresh token; without one it only clears.
StartLogout(p, t) ==
  /\ Free(p)
  /\ IF Refresh(t) = None THEN Forget(t, Fields, {}) /\ UNCHANGED proc
     ELSE Begin(p, t, "logout", "other", Refresh(t)) /\ KeepStorage
  /\ UNCHANGED <<sessions, urls, late, astray>>

\* Whatever the answer: invalidate_session looks for a session_token equal to the
\* refresh token, and no session has one.
LogoutEnds(p) ==
  /\ proc[p].pc = "logout"
  /\ Finish(p)
  /\ Forget(proc[p].tab, Fields, {proc[p].tok})
  /\ UNCHANGED <<sessions, urls, late, astray>>

\* The page goes: a redirect after a sign-out, a reload, or the tab is closed.
Leave(t, closed) ==
  /\ proc' = [p \in Procs |-> IF InTab(p, t) THEN Idle ELSE proc[p]]
  /\ own' = IF closed THEN [own EXCEPT ![t] = Empty] ELSE own
  /\ UNCHANGED <<sessions, urls, local, remember, late, astray, ended>>

-----------------------------------------------------------------------------
Init ==
  /\ sessions = 0 /\ urls = {}
  /\ local = Empty /\ remember = FALSE
  /\ own = [t \in Tabs |-> Empty]
  /\ proc = [p \in Procs |-> Idle]
  /\ late = {} /\ astray = {} /\ ended = {}

\* What ends a wait of request p.
Answer(p) ==
  \/ CallEnds(p)
  \/ \E says \in BOOLEAN : AskFresh(p, says) \/ CallRefused(p, says)
  \/ StoreFresh(p)
  \/ \E refused \in BOOLEAN : RefreshFails(p, refused)
  \/ Settle(p) \/ MeAnswers(p) \/ MeFails(p) \/ LogoutEnds(p)

Start(p, t) ==
  \/ \E kind \in {"service", "other"} : StartCall(p, t, kind)
  \/ \E kept \in BOOLEAN : Login(p, t, kept)
  \/ \E s \in Sessions : OAuthCallback(p, t, s)
  \/ StartInit(p, t) \/ StartProfile(p, t) \/ StartLogout(p, t)

Next ==
  \/ \E p \in Procs : Answer(p)
  \/ \E p \in Procs, t \in Tabs : Start(p, t)
  \/ \E t \in Tabs : InitClears(t)
  \/ \E t \in Tabs, closed \in BOOLEAN : Leave(t, closed)

Spec == Init /\ [][Next]_vars

-----------------------------------------------------------------------------
\* Stored sessions and users are of sign-ins that have happened.
TypeOK ==
  /\ sessions \in 0..MaxSessions
  /\ local \in Stores /\ remember \in BOOLEAN
  /\ own \in [Tabs -> Stores]
  /\ proc \in [Procs -> Requests \cup {Idle}]
  /\ urls \cup late \cup astray \cup ended \subseteq 1..sessions

\* The access token and the refresh token a tab sends are of one session, though
\* they are looked up apart in two storages that all tabs write by a preference they
\* share; but for a fresh token that arrived after the tab had changed hands.
TokensOfOneSession ==
  \A t \in Tabs : Access(t) # None => Access(t) = Refresh(t) \/ Access(t) \in late

\* A tab that shows a user sends that user's token (setStoredUser and the setters of
\* the tokens write apart, at different times): the two differ only after a late
\* answer, or between a sign-in and the answer that names its user, which a failed
\* sign-in never gets.
UserOfTokens ==
  \A t \in Tabs : Access(t) # None /\ User(t) # None /\ User(t) # Access(t) =>
    {Access(t), User(t)} \cap (late \cup astray) # {}

\* Once a tab has signed out, no tab comes to hold the tokens it removed, but for a
\* refresh that was in progress (logout and the 401 handling clear both storages,
\* and do not stop the other requests), or until the callback page runs again at
\* the address that still has them.
SignedOutStays == \A t \in Tabs : Access(t) \in ended => Access(t) \in late

\* The answers that a request can still wait for.
Waits(q) == CASE q.pc = "idle" -> 0
              [] q.pc \in {"me", "logout"} -> 1
              [] q.pc \in {"settle", "refresh"} -> 2
              [] q.pc = "call" -> IF q.retry THEN 1 ELSE 3

\* Every answer brings the request that waits for it nearer to its end: a refused one
\* is sent again once at most (_retry), however the tokens change meanwhile.
CallsEnd == [][\A p \in Procs :
  proc[p].pc # "idle" /\ proc'[p] # proc[p] => Waits(proc'[p]) < Waits(proc[p])]_vars
=============================================================================
