------------------------- MODULE BrowserSessionProofs -------------------------
(***************************************************************************)
(* What BrowserSession promises, for any number of tabs, requests and      *)
(* sign-ins.                                                               *)
(***************************************************************************)
EXTENDS BrowserSession, TLAPS

\* The preference says where the tokens are: localStorage holds both tokens while
\* remember_me is set and none otherwise.
Preference == IF remember THEN local["access"] # None /\ local["refresh"] # None
              ELSE local["access"] = None /\ local["refresh"] = None

\* In each storage the access token is of the session of the refresh token.
Paired(store) == store["access"] # None =>
  store["access"] = store["refresh"] \/ store["access"] \in late

Pairs == Paired(local) /\ \A t \in Tabs : Paired(own[t])

\* No two storages hold one refresh token.
OnePlace ==
  /\ \A t \in Tabs : own[t]["refresh"] # None => own[t]["refresh"] # local["refresh"]
  /\ \A t, u \in Tabs : t # u /\ own[t]["refresh"] # None => own[t]["refresh"] # own[u]["refresh"]

\* A refresh and a logout are asked with a token.
AskedWithToken == \A p \in Procs : proc[p].pc \in {"refresh", "logout"} => proc[p].tok # None

\* No other tab has the session of a pending request to itself.
Theirs == \A p \in Procs, u \in Tabs :
  proc[p].pc \in {"me", "logout"} /\ proc[p].tok # None /\ u # proc[p].tab /\ proc[p].tok \notin late =>
    own[u]["refresh"] # proc[p].tok

\* No refresh token of a session that was signed out is stored.
Gone(store) == store["refresh"] # None /\ store["refresh"] \in ended => store["refresh"] \in late

SignedOut == Gone(local) /\ \A t \in Tabs : Gone(own[t])

\* What came with the address of the callback page is in localStorage only.
UrlsApart == \A t \in Tabs : own[t]["refresh"] = None \/ own[t]["refresh"] \notin urls

\* Which users a storage can hold beside its refresh token.
Doubtful == late \cup astray

Fits(store) == store["refresh"] # None /\ store["user"] # None /\ store["refresh"] # store["user"] =>
  store["refresh"] \in Doubtful \/ store["user"] \in Doubtful

Named ==
  /\ Fits(local) /\ \A t \in Tabs : Fits(own[t])
  /\ local["refresh"] # None /\ local["user"] = None => local["refresh"] \in Doubtful
  /\ local["refresh"] = None /\ local["user"] # None => local["user"] \in Doubtful

Storage == Preference /\ Pairs /\ OnePlace /\ SignedOut /\ UrlsApart /\ Named

IInv == TypeOK /\ AskedWithToken /\ Theirs /\ Storage

-----------------------------------------------------------------------------
(***************************************************************************)
(* What the setters write.                                                 *)
(***************************************************************************)

\* With makes a storage of a storage.
LEMMA WithStores ==
  ASSUME NEW m \in Nat, NEW store \in [Fields -> 0..m], NEW fs \in SUBSET Fields, NEW x \in 0..m
  PROVE  With(store, fs, x) \in [Fields -> 0..m]
BY DEF With

\* Put leaves localStorage and the tab's own storage with the fields set, and the
\* others as they are.
LEMMA PutStores ==
  ASSUME TypeOK, NEW t \in Tabs, NEW fs \in SUBSET Fields, NEW m \in Nat, sessions <= m,
         NEW x \in 0..m, NEW y \in 0..m,
         local' = With(local, fs, x), own' = [own EXCEPT ![t] = With(own[t], fs, y)]
  PROVE  /\ local' \in [Fields -> 0..m] /\ own' \in [Tabs -> [Fields -> 0..m]]
         /\ \A f \in Fields : local'[f] = IF f \in fs THEN x ELSE local[f]
         /\ \A f \in Fields : own'[t][f] = IF f \in fs THEN y ELSE own[t][f]
         /\ \A u \in Tabs : u # t => own'[u] = own[u]
<1>1. sessions \in Nat /\ 0..sessions \subseteq 0..m
  BY DEF TypeOK
<1>2. local \in [Fields -> 0..m] /\ own \in [Tabs -> [Fields -> 0..m]]
  BY <1>1 DEF TypeOK, Stores
<1>3. own[t] \in [Fields -> 0..m]
  BY <1>2
<1>4. With(local, fs, x) \in [Fields -> 0..m] /\ With(own[t], fs, y) \in [Fields -> 0..m]
  BY <1>2, <1>3, WithStores
<1>5. /\ \A f \in Fields : With(local, fs, x)[f] = IF f \in fs THEN x ELSE local[f]
      /\ \A f \in Fields : With(own[t], fs, y)[f] = IF f \in fs THEN y ELSE own[t][f]
  BY DEF With
<1>6. own'[t] = With(own[t], fs, y) /\ \A u \in Tabs : u # t => own'[u] = own[u]
  BY <1>2
<1>7. own' \in [Tabs -> [Fields -> 0..m]]
  BY <1>2, <1>4
<1> QED
  BY <1>4, <1>5, <1>6, <1>7

\* The user written (setStoredUser, clearStoredUser).
LEMMA PutUser ==
  ASSUME TypeOK, NEW t \in Tabs, NEW x \in 0..sessions, NEW y \in 0..sessions,
         local' = With(local, {"user"}, x), own' = [own EXCEPT ![t] = With(own[t], {"user"}, y)]
  PROVE  /\ local' \in Stores /\ own' \in [Tabs -> Stores]
         /\ local'["access"] = local["access"] /\ own'[t]["access"] = own[t]["access"]
         /\ local'["refresh"] = local["refresh"] /\ own'[t]["refresh"] = own[t]["refresh"]
         /\ local'["user"] = x /\ own'[t]["user"] = y
         /\ \A u \in Tabs : u # t => own'[u] = own[u]
<1>1. PICK m \in Nat : m = sessions
  BY DEF TypeOK
<1>2. {"user"} \in SUBSET Fields /\ sessions <= m /\ x \in 0..m /\ y \in 0..m
  BY <1>1 DEF Fields, Tokens
<1>3. /\ "access" \in Fields /\ "refresh" \in Fields /\ "user" \in Fields
      /\ "access" \in Tokens /\ "refresh" \in Tokens /\ "user" \notin Tokens
  BY DEF Fields, Tokens
<1>4. /\ local' \in [Fields -> 0..m] /\ own' \in [Tabs -> [Fields -> 0..m]]
      /\ \A f \in Fields : local'[f] = IF f \in {"user"} THEN x ELSE local[f]
      /\ \A f \in Fields : own'[t][f] = IF f \in {"user"} THEN y ELSE own[t][f]
      /\ \A u \in Tabs : u # t => own'[u] = own[u]
  BY <1>2, PutStores
<1> QED
  BY <1>1, <1>3, <1>4 DEF Stores

\* The access token written (setAccessToken).
LEMMA PutAccess ==
  ASSUME TypeOK, NEW t \in Tabs, NEW x \in 0..sessions, NEW y \in 0..sessions,
         local' = With(local, {"access"}, x), own' = [own EXCEPT ![t] = With(own[t], {"access"}, y)]
  PROVE  /\ local' \in Stores /\ own' \in [Tabs -> Stores]
         /\ local'["access"] = x /\ own'[t]["access"] = y
         /\ local'["refresh"] = local["refresh"] /\ own'[t]["refresh"] = own[t]["refresh"]
         /\ local'["user"] = local["user"] /\ own'[t]["user"] = own[t]["user"]
         /\ \A u \in Tabs : u # t => own'[u] = own[u]
<1>1. PICK m \in Nat : m = sessions
  BY DEF TypeOK
<1>2. {"access"} \in SUBSET Fields /\ sessions <= m /\ x \in 0..m /\ y \in 0..m
  BY <1>1 DEF Fields, Tokens
<1>3. /\ "access" \in Fields /\ "refresh" \in Fields /\ "user" \in Fields
      /\ "access" \in Tokens /\ "refresh" \in Tokens /\ "user" \notin Tokens
  BY DEF Fields, Tokens
<1>4. /\ local' \in [Fields -> 0..m] /\ own' \in [Tabs -> [Fields -> 0..m]]
      /\ \A f \in Fields : local'[f] = IF f \in {"access"} THEN x ELSE local[f]
      /\ \A f \in Fields : own'[t][f] = IF f \in {"access"} THEN y ELSE own[t][f]
      /\ \A u \in Tabs : u # t => own'[u] = own[u]
  BY <1>2, PutStores
<1> QED
  BY <1>1, <1>3, <1>4 DEF Stores

\* Both tokens written (setAccessToken and setRefreshToken, clearTokens).
LEMMA PutTokens ==
  ASSUME TypeOK, NEW t \in Tabs, NEW m \in Nat, sessions <= m, NEW x \in 0..m, NEW y \in 0..m,
         local' = With(local, Tokens, x), own' = [own EXCEPT ![t] = With(own[t], Tokens, y)]
  PROVE  /\ local' \in [Fields -> 0..m] /\ own' \in [Tabs -> [Fields -> 0..m]]
         /\ local'["access"] = x /\ own'[t]["access"] = y
         /\ local'["refresh"] = x /\ own'[t]["refresh"] = y
         /\ local'["user"] = local["user"] /\ own'[t]["user"] = own[t]["user"]
         /\ \A u \in Tabs : u # t => own'[u] = own[u]
<1>1. Tokens \in SUBSET Fields
  BY DEF Fields
<1>2. /\ "access" \in Fields /\ "refresh" \in Fields /\ "user" \in Fields
      /\ "access" \in Tokens /\ "refresh" \in Tokens /\ "user" \notin Tokens
  BY DEF Fields, Tokens
<1>3. /\ local' \in [Fields -> 0..m] /\ own' \in [Tabs -> [Fields -> 0..m]]
      /\ \A f \in Fields : local'[f] = IF f \in Tokens THEN x ELSE local[f]
      /\ \A f \in Fields : own'[t][f] = IF f \in Tokens THEN y ELSE own[t][f]
      /\ \A u \in Tabs : u # t => own'[u] = own[u]
  BY <1>1, PutStores
<1> QED
  BY <1>2, <1>3

\* All fields written (clearTokens and clearStoredUser).
LEMMA PutAll ==
  ASSUME TypeOK, NEW t \in Tabs, NEW x \in 0..sessions, NEW y \in 0..sessions,
         local' = With(local, Fields, x), own' = [own EXCEPT ![t] = With(own[t], Fields, y)]
  PROVE  /\ local' \in Stores /\ own' \in [Tabs -> Stores]
         /\ local'["access"] = x /\ own'[t]["access"] = y
         /\ local'["refresh"] = x /\ own'[t]["refresh"] = y
         /\ local'["user"] = x /\ own'[t]["user"] = y
         /\ \A u \in Tabs : u # t => own'[u] = own[u]
<1>1. PICK m \in Nat : m = sessions
  BY DEF TypeOK
<1>2. Fields \in SUBSET Fields /\ sessions <= m /\ x \in 0..m /\ y \in 0..m
  BY <1>1 DEF Fields, Tokens
<1>3. /\ "access" \in Fields /\ "refresh" \in Fields /\ "user" \in Fields
      /\ "access" \in Tokens /\ "refresh" \in Tokens /\ "user" \notin Tokens
  BY DEF Fields, Tokens
<1>4. /\ local' \in [Fields -> 0..m] /\ own' \in [Tabs -> [Fields -> 0..m]]
      /\ \A f \in Fields : local'[f] = IF f \in Fields THEN x ELSE local[f]
      /\ \A f \in Fields : own'[t][f] = IF f \in Fields THEN y ELSE own[t][f]
      /\ \A u \in Tabs : u # t => own'[u] = own[u]
  BY <1>2, PutStores
<1> QED
  BY <1>1, <1>3, <1>4 DEF Stores

-----------------------------------------------------------------------------
(***************************************************************************)
(* The storage part of the invariant, one lemma for each way of writing.   *)
(***************************************************************************)

\* The fields of a storage.
LEMMA FieldTypes ==
  ASSUME TypeOK
  PROVE  /\ sessions \in Nat
         /\ local["access"] \in 0..sessions /\ local["refresh"] \in 0..sessions
         /\ local["user"] \in 0..sessions
         /\ \A t \in Tabs : /\ own[t]["access"] \in 0..sessions
                            /\ own[t]["refresh"] \in 0..sessions
                            /\ own[t]["user"] \in 0..sessions
BY DEF TypeOK, Stores, Fields, Tokens

\* A request in progress has its fields.
LEMMA RequestTypes ==
  ASSUME TypeOK, NEW p \in Procs, proc[p].pc # "idle"
  PROVE  proc[p] \in Requests /\ proc[p].tab \in Tabs /\ proc[p].tok \in 0..sessions
BY DEF TypeOK, Requests, Idle

\* setAccessToken with the answer of a refresh.
LEMMA FreshStorage ==
  ASSUME IInv, NEW t \in Tabs, NEW s \in 0..sessions, s # None, Preferred(t, s),
         late' = IF Refresh(t) = s THEN late ELSE late \cup {s}, UNCHANGED <<sessions, urls, astray, ended>>
  PROVE  /\ Storage' /\ local' \in Stores /\ own' \in [Tabs -> Stores]
         /\ \A u \in Tabs : own'[u]["refresh"] = own[u]["refresh"]
<1>1. TypeOK /\ Storage /\ remember' = remember
  BY DEF IInv, Preferred
<1>2. remember \in BOOLEAN /\ late \subseteq late' /\ (s = Refresh(t) \/ s \in late')
  BY <1>1 DEF TypeOK
<1>3. CASE remember
  <2>1. /\ local' = With(local, {"access"}, s)
        /\ own' = [own EXCEPT ![t] = With(own[t], {"access"}, 0)]
    BY <1>3 DEF Preferred, Put, None
  <2>2. 0 \in 0..sessions
    BY <1>1 DEF TypeOK
  <2>3. /\ local' \in Stores /\ own' \in [Tabs -> Stores]
        /\ local'["access"] = s /\ own'[t]["access"] = 0
        /\ local'["refresh"] = local["refresh"] /\ own'[t]["refresh"] = own[t]["refresh"]
        /\ local'["user"] = local["user"] /\ own'[t]["user"] = own[t]["user"]
        /\ \A u \in Tabs : u # t => own'[u] = own[u]
    BY <1>1, <2>1, <2>2, PutAccess
  <2>4. local["refresh"] # None /\ Refresh(t) = local["refresh"]
    BY <1>1, <1>3 DEF Storage, Preference, Refresh, Seen
  <2>5. Preference'
    BY <1>1, <1>3, <2>3, <2>4 DEF Preference
  <2>6. Pairs'
    BY <1>1, <1>2, <2>3, <2>4 DEF Storage, Pairs, Paired, None
  <2>7. OnePlace'
    BY <1>1, <2>3 DEF Storage, OnePlace
  <2>8. SignedOut'
    BY <1>1, <1>2, <2>3 DEF Storage, SignedOut, Gone
  <2>9. UrlsApart'
    BY <1>1, <1>2, <2>3 DEF Storage, UrlsApart
  <2>10. Named'
    BY <1>1, <1>2, <2>3 DEF Storage, Named, Fits, Doubtful
  <2> QED
    BY <2>3, <2>5, <2>6, <2>7, <2>8, <2>9, <2>10 DEF Storage
<1>4. CASE ~remember
  <2>1. /\ local' = With(local, {"access"}, 0)
        /\ own' = [own EXCEPT ![t] = With(own[t], {"access"}, s)]
    BY <1>4 DEF Preferred, Put, None
  <2>2. 0 \in 0..sessions
    BY <1>1 DEF TypeOK
  <2>3. /\ local' \in Stores /\ own' \in [Tabs -> Stores]
        /\ local'["access"] = 0 /\ own'[t]["access"] = s
        /\ local'["refresh"] = local["refresh"] /\ own'[t]["refresh"] = own[t]["refresh"]
        /\ local'["user"] = local["user"] /\ own'[t]["user"] = own[t]["user"]
        /\ \A u \in Tabs : u # t => own'[u] = own[u]
    BY <1>1, <2>1, <2>2, PutAccess
  <2>4. local["refresh"] = None /\ Refresh(t) = own[t]["refresh"]
    BY <1>1, <1>4 DEF Storage, Preference, Refresh, Seen
  <2>5. Preference'
    BY <1>1, <1>4, <2>3, <2>4 DEF Preference, None
  <2>6. Pairs'
    BY <1>1, <1>2, <2>3, <2>4 DEF Storage, Pairs, Paired, None
  <2>7. OnePlace'
    BY <1>1, <2>3 DEF Storage, OnePlace
  <2>8. SignedOut'
    BY <1>1, <1>2, <2>3 DEF Storage, SignedOut, Gone
  <2>9. UrlsApart'
    BY <1>1, <1>2, <2>3 DEF Storage, UrlsApart
  <2>10. Named'
    BY <1>1, <1>2, <2>3 DEF Storage, Named, Fits, Doubtful
  <2> QED
    BY <2>3, <2>5, <2>6, <2>7, <2>8, <2>9, <2>10 DEF Storage
<1> QED
  BY <1>2, <1>3, <1>4

\* setAccessToken and setRefreshToken with the tokens of a session that is new, or that
\* came with an address.
LEMMA SignInStorage ==
  ASSUME IInv, NEW t \in Tabs, NEW s \in Nat, NEW kept \in BOOLEAN, SignIn(t, s, kept),
         UNCHANGED late, ended' = ended \ {s},
         s \notin 0..sessions \/ (s \in urls /\ kept),
         urls' = urls \/ (urls' = urls \cup {s} /\ kept)
  PROVE  /\ Storage' /\ local' \in Stores' /\ own' \in [Tabs -> Stores'] /\ remember' \in BOOLEAN
         /\ sessions' \in 0..MaxSessions /\ sessions <= sessions' /\ s \in 1..sessions'
         /\ urls' \cup late' \cup astray' \cup ended' \subseteq 1..sessions'
         /\ \A u \in Tabs : own[u]["refresh"] # s
         /\ own'[t]["refresh"] = None \/ (own'[t]["refresh"] = s /\ s \notin 0..sessions)
         /\ \A u \in Tabs : u # t => own'[u] = own[u]
<1>1. TypeOK /\ Storage
  BY DEF IInv
<1>2. /\ sessions \in Nat /\ sessions \in 0..MaxSessions /\ s \in 1..MaxSessions /\ MaxSessions \in Nat
      /\ s # None /\ urls \subseteq 1..sessions
      /\ sessions' = IF s \in 1..sessions THEN sessions ELSE s
  BY <1>1, BoundAssumption DEF SignIn, TypeOK, None, Sessions
<1>3. PICK m \in Nat : m = sessions'
  BY <1>2
<1>4. /\ sessions <= m /\ m \in 0..MaxSessions /\ s \in 1..m /\ s \in 0..m /\ 0 \in 0..m
      /\ 1..sessions \subseteq 1..m
  BY <1>2, <1>3
<1>5. remember' = kept /\ astray' = astray \cup {s} \cup Users(t) /\ late' = late
  BY DEF SignIn
<1>6. /\ local["access"] \in 0..sessions /\ local["refresh"] \in 0..sessions
      /\ local["user"] \in 0..sessions
      /\ \A u \in Tabs : /\ own[u]["access"] \in 0..sessions
                         /\ own[u]["refresh"] \in 0..sessions
                         /\ own[u]["user"] \in 0..sessions
  BY <1>1, FieldTypes
<1>7. \A u \in Tabs : own[u]["refresh"] # s
  BY <1>1, <1>2, <1>6 DEF Storage, UrlsApart
<1>8. urls' \cup late' \cup astray' \cup ended' \subseteq 1..m
  <2>1. Users(t) \subseteq 1..sessions
    BY <1>2, <1>6 DEF Users, None
  <2> QED
    BY <1>1, <1>4, <1>5, <2>1 DEF TypeOK
<1>9. s \notin ended' /\ ended' \subseteq ended
  OBVIOUS
<1>10. CASE kept
  <2>1. local' = With(local, Tokens, s) /\ own' = [own EXCEPT ![t] = With(own[t], Tokens, 0)]
    BY <1>10 DEF SignIn, Put, None
  <2>2. /\ local' \in [Fields -> 0..m] /\ own' \in [Tabs -> [Fields -> 0..m]]
        /\ local'["access"] = s /\ own'[t]["access"] = 0
        /\ local'["refresh"] = s /\ own'[t]["refresh"] = 0
        /\ local'["user"] = local["user"] /\ own'[t]["user"] = own[t]["user"]
        /\ \A u \in Tabs : u # t => own'[u] = own[u]
    BY <1>1, <1>4, <2>1, PutTokens
  <2>3. Preference'
    BY <1>2, <1>5, <1>10, <2>2 DEF Preference
  <2>4. Pairs'
    BY <1>1, <1>5, <2>2 DEF Storage, Pairs, Paired, None
  <2>5. OnePlace'
    BY <1>1, <1>7, <2>2 DEF Storage, OnePlace, None
  <2>6. SignedOut'
    BY <1>1, <1>5, <1>9, <2>2 DEF Storage, SignedOut, Gone, None
  <2>7. UrlsApart'
    BY <1>1, <1>7, <2>2 DEF Storage, UrlsApart, None
  <2>8. Named'
    BY <1>1, <1>2, <1>5, <2>2 DEF Storage, Named, Fits, Doubtful, None
  <2>9. local' \in Stores' /\ own' \in [Tabs -> Stores']
    BY <1>3, <2>2 DEF Stores
  <2> QED
    BY <1>3, <1>4, <1>5, <1>7, <1>8, <1>10, <2>2, <2>3, <2>4, <2>5, <2>6, <2>7, <2>8, <2>9
    DEF Storage, None
<1>11. CASE ~kept
  <2>1. local' = With(local, Tokens, 0) /\ own' = [own EXCEPT ![t] = With(own[t], Tokens, s)]
    BY <1>11 DEF SignIn, Put, None
  <2>2. /\ local' \in [Fields -> 0..m] /\ own' \in [Tabs -> [Fields -> 0..m]]
        /\ local'["access"] = 0 /\ own'[t]["access"] = s
        /\ local'["refresh"] = 0 /\ own'[t]["refresh"] = s
        /\ local'["user"] = local["user"] /\ own'[t]["user"] = own[t]["user"]
        /\ \A u \in Tabs : u # t => own'[u] = own[u]
    BY <1>1, <1>4, <2>1, PutTokens
  <2>3. Preference'
    BY <1>5, <1>11, <2>2 DEF Preference, None
  <2>4. Pairs'
    BY <1>1, <1>5, <2>2 DEF Storage, Pairs, Paired, None
  <2>5. OnePlace'
    BY <1>1, <1>7, <2>2 DEF Storage, OnePlace, None
  <2>6. SignedOut'
    BY <1>1, <1>5, <1>9, <2>2 DEF Storage, SignedOut, Gone, None
  <2>7. s \notin urls' /\ urls' = urls
    BY <1>2, <1>11
  <2>8. UrlsApart'
    BY <1>1, <2>2, <2>7 DEF Storage, UrlsApart
  <2>9. Named'
    BY <1>1, <1>5, <2>2 DEF Storage, Named, Fits, Doubtful, None, Users
  <2>10. local' \in Stores' /\ own' \in [Tabs -> Stores']
    BY <1>3, <2>2 DEF Stores
  <2> QED
    BY <1>3, <1>4, <1>5, <1>7, <1>8, <1>11, <2>2, <2>3, <2>4, <2>5, <2>6, <2>8, <2>9, <2>10
    DEF Storage
<1> QED
  BY <1>10, <1>11

\* clearTokens, with clearStoredUser or in a sign-in that failed.
LEMMA ForgetStorage ==
  ASSUME IInv, NEW t \in Tabs, NEW fs \in {Fields, Tokens}, NEW asked \in SUBSET Nat,
         asked \subseteq 1..sessions, Forget(t, fs, asked),
         \A u \in Tabs : u # t /\ own[u]["refresh"] \in asked => own[u]["refresh"] \in late,
         UNCHANGED <<sessions, urls, late>>, astray \subseteq astray',
         fs = Tokens => Users(t) \subseteq astray'
  PROVE  /\ Storage' /\ local' \in Stores /\ own' \in [Tabs -> Stores] /\ remember' \in BOOLEAN
         /\ ended' \subseteq 1..sessions
         /\ \A u \in Tabs : own'[u]["refresh"] \in {own[u]["refresh"], None}
<1>1. TypeOK /\ Storage
  BY DEF IInv
<1>2. remember' = FALSE /\ ended' = ended \cup Stored(t) \cup asked /\ late' = late
  BY DEF Forget
<1>3. local' = With(local, fs, 0) /\ own' = [own EXCEPT ![t] = With(own[t], fs, 0)]
  BY DEF Forget, Put, None
<1>4. PICK m \in Nat : m = sessions
  BY <1>1 DEF TypeOK
<1>5. /\ local' \in Stores /\ own' \in [Tabs -> Stores]
      /\ local'["access"] = 0 /\ own'[t]["access"] = 0
      /\ local'["refresh"] = 0 /\ own'[t]["refresh"] = 0
      /\ \A u \in Tabs : u # t => own'[u] = own[u]
      /\ own'[t]["user"] \in {0, own[t]["user"]}
      /\ \/ local'["user"] = 0
         \/ local'["user"] = local["user"] /\ fs = Tokens
  <2>1. 0 \in 0..sessions /\ 0 \in 0..m /\ sessions <= m
    BY <1>1, <1>4 DEF TypeOK
  <2>2. CASE fs = Fields
    <3>1. local' = With(local, Fields, 0) /\ own' = [own EXCEPT ![t] = With(own[t], Fields, 0)]
      BY <1>3, <2>2
    <3> QED
      BY <1>1, <2>1, <3>1, PutAll
  <2>3. CASE fs = Tokens
    <3>1. local' = With(local, Tokens, 0) /\ own' = [own EXCEPT ![t] = With(own[t], Tokens, 0)]
      BY <1>3, <2>3
    <3>2. /\ local' \in [Fields -> 0..m] /\ own' \in [Tabs -> [Fields -> 0..m]]
          /\ local'["access"] = 0 /\ own'[t]["access"] = 0
          /\ local'["refresh"] = 0 /\ own'[t]["refresh"] = 0
          /\ local'["user"] = local["user"] /\ own'[t]["user"] = own[t]["user"]
          /\ \A u \in Tabs : u # t => own'[u] = own[u]
      BY <1>1, <2>1, <3>1, PutTokens
    <3> QED
      BY <1>4, <2>3, <3>2 DEF Stores
  <2> QED
    BY <2>2, <2>3
<1>6. Preference' /\ Pairs' /\ OnePlace'
  BY <1>1, <1>2, <1>5 DEF Storage, Preference, Pairs, Paired, OnePlace, None
<1>7. SignedOut'
  <2>1. Stored(t) = {local["access"], local["refresh"], own[t]["access"], own[t]["refresh"]} \ {None}
    BY DEF Stored, Tokens
  <2>2. ASSUME NEW u \in Tabs, u # t, own[u]["refresh"] # None, own[u]["refresh"] \in Stored(t)
        PROVE  own[u]["refresh"] \in late
    BY <1>1, <2>1, <2>2 DEF Storage, Pairs, Paired, OnePlace
  <2>3. ASSUME NEW u \in Tabs PROVE Gone(own[u])'
    <3>1. CASE u = t
      BY <1>5, <3>1 DEF Gone, None
    <3>2. CASE u # t
      BY <1>1, <1>2, <1>5, <2>2, <3>2 DEF Storage, SignedOut, Gone
    <3> QED
      BY <3>1, <3>2
  <2> QED
    BY <1>5, <2>3 DEF SignedOut, Gone, None
<1>8. UrlsApart'
  BY <1>1, <1>2, <1>5 DEF Storage, UrlsApart, None
<1>9. Named'
  BY <1>1, <1>2, <1>5 DEF Storage, Named, Fits, Doubtful, None, Users
<1>10. ended' \subseteq 1..sessions
  <2>1. Stored(t) \subseteq 1..sessions
    BY <1>1, FieldTypes DEF Stored, Tokens, None
  <2> QED
    BY <1>1, <1>2, <2>1 DEF TypeOK
<1>11. \A u \in Tabs : own'[u]["refresh"] \in {own[u]["refresh"], None}
  BY <1>5 DEF None
<1> QED
  BY <1>2, <1>5, <1>6, <1>7, <1>8, <1>9, <1>10, <1>11 DEF Storage

\* setStoredUser with the answer to a request for the user.
LEMMA UserStorage ==
  ASSUME IInv, NEW t \in Tabs, NEW s \in 0..sessions, s # None, Put(t, {"user"}, s, remember),
         \A u \in Tabs : u # t /\ own[u]["refresh"] = s => s \in late,
         astray' = IF Access(t) = s /\ \A u \in Tabs \ {t} : own[u]["user"] # s
                   THEN astray \ {s} ELSE astray \cup {s},
         UNCHANGED <<sessions, urls, remember, late, ended>>
  PROVE  /\ Storage' /\ local' \in Stores /\ own' \in [Tabs -> Stores]
         /\ \A u \in Tabs : own'[u]["refresh"] = own[u]["refresh"]
<1>1. TypeOK /\ Storage
  BY DEF IInv
<1>2. remember \in BOOLEAN /\ late' = late /\ 0 \in 0..sessions
  BY <1>1 DEF TypeOK
<1>3. s \in Doubtful' \/ Access(t) = s
  BY DEF Doubtful
<1>4. \A x : x \in Doubtful /\ x # s => x \in Doubtful'
  BY <1>2 DEF Doubtful
<1>5. CASE remember
  <2>1. /\ local' = With(local, {"user"}, s)
        /\ own' = [own EXCEPT ![t] = With(own[t], {"user"}, 0)]
    BY <1>5 DEF Put, None
  <2>2. /\ local' \in Stores /\ own' \in [Tabs -> Stores]
        /\ local'["access"] = local["access"] /\ own'[t]["access"] = own[t]["access"]
        /\ local'["refresh"] = local["refresh"] /\ own'[t]["refresh"] = own[t]["refresh"]
        /\ local'["user"] = s /\ own'[t]["user"] = 0
        /\ \A u \in Tabs : u # t => own'[u] = own[u]
    BY <1>1, <1>2, <2>1, PutUser
  <2>3. local["access"] # None /\ local["refresh"] # None /\ Access(t) = local["access"]
    BY <1>1, <1>5 DEF Storage, Preference, Access, Seen
  <2>4. s \in Doubtful' \/ local["refresh"] = s
    BY <1>1, <1>3, <2>3 DEF Storage, Pairs, Paired, Doubtful
  <2>5. Preference' /\ Pairs' /\ OnePlace' /\ SignedOut'
    BY <1>1, <1>2, <2>2 DEF Storage, Preference, Pairs, Paired, OnePlace, SignedOut, Gone
  <2>6. UrlsApart'
    BY <1>1, <1>2, <2>2 DEF Storage, UrlsApart, None
  <2>7. Named'
    <3>1. Fits(local)'
      BY <2>2, <2>4 DEF Fits
    <3>2. ASSUME NEW u \in Tabs PROVE Fits(own[u])'
      <4>1. CASE u = t
        BY <2>2, <4>1 DEF Fits, None
      <4>2. CASE u # t
        <5>1. own[u]["refresh"] = s => s \in Doubtful'
          BY <1>2, <4>2 DEF Doubtful
        <5>2. own[u]["user"] = s => s \in Doubtful'
          BY <4>2 DEF Doubtful
        <5> QED
          BY <1>1, <1>4, <2>2, <4>2, <5>1, <5>2 DEF Storage, Named, Fits
      <4> QED
        BY <4>1, <4>2
    <3> QED
      BY <2>2, <2>3, <3>1, <3>2 DEF Named
  <2> QED
    BY <2>2, <2>5, <2>6, <2>7 DEF Storage
<1>6. CASE ~remember
  <2>1. /\ local' = With(local, {"user"}, 0)
        /\ own' = [own EXCEPT ![t] = With(own[t], {"user"}, s)]
    BY <1>6 DEF Put, None
  <2>2. /\ local' \in Stores /\ own' \in [Tabs -> Stores]
        /\ local'["access"] = local["access"] /\ own'[t]["access"] = own[t]["access"]
        /\ local'["refresh"] = local["refresh"] /\ own'[t]["refresh"] = own[t]["refresh"]
        /\ local'["user"] = 0 /\ own'[t]["user"] = s
        /\ \A u \in Tabs : u # t => own'[u] = own[u]
    BY <1>1, <1>2, <2>1, PutUser
  <2>3. local["access"] = None /\ local["refresh"] = None /\ Access(t) = own[t]["access"]
    BY <1>1, <1>6 DEF Storage, Preference, Access, Seen
  <2>4. s \in Doubtful' \/ own[t]["refresh"] = s
    BY <1>1, <1>3, <2>3 DEF Storage, Pairs, Paired, Doubtful
  <2>5. Preference' /\ Pairs' /\ OnePlace' /\ SignedOut'
    BY <1>1, <1>2, <2>2 DEF Storage, Preference, Pairs, Paired, OnePlace, SignedOut, Gone
  <2>6. UrlsApart'
    BY <1>1, <1>2, <2>2, <2>3 DEF Storage, UrlsApart, None
  <2>7. Named'
    <3>1. ASSUME NEW u \in Tabs PROVE Fits(own[u])'
      <4>1. CASE u = t
        BY <2>2, <2>4, <4>1 DEF Fits
      <4>2. CASE u # t
        <5>1. own[u]["refresh"] = s => s \in Doubtful'
          BY <1>2, <4>2 DEF Doubtful
        <5>2. own[u]["user"] = s => s \in Doubtful'
          BY <4>2 DEF Doubtful
        <5> QED
          BY <1>1, <1>4, <2>2, <4>2, <5>1, <5>2 DEF Storage, Named, Fits
      <4> QED
        BY <4>1, <4>2
    <3> QED
      BY <2>2, <2>3, <3>1 DEF Named, Fits, None
  <2> QED
    BY <2>2, <2>5, <2>6, <2>7 DEF Storage
<1> QED
  BY <1>2, <1>5, <1>6

\* clearStoredUser in a tab without a token.
LEMMA ClearUserStorage ==
  ASSUME IInv, NEW t \in Tabs, InitClears(t)
  PROVE  /\ Storage' /\ local' \in Stores /\ own' \in [Tabs -> Stores]
         /\ \A u \in Tabs : own'[u]["refresh"] = own[u]["refresh"]
<1>1. TypeOK /\ Storage /\ 0 \in 0..sessions
  BY DEF IInv, TypeOK
<1>2. UNCHANGED <<urls, remember, late, astray, ended>>
  BY DEF InitClears
<1>3. local' = With(local, {"user"}, 0) /\ own' = [own EXCEPT ![t] = With(own[t], {"user"}, 0)]
  BY DEF InitClears, Put, None
<1>4. /\ local' \in Stores /\ own' \in [Tabs -> Stores]
      /\ local'["access"] = local["access"] /\ own'[t]["access"] = own[t]["access"]
      /\ local'["refresh"] = local["refresh"] /\ own'[t]["refresh"] = own[t]["refresh"]
      /\ local'["user"] = 0 /\ own'[t]["user"] = 0
      /\ \A u \in Tabs : u # t => own'[u] = own[u]
  BY <1>1, <1>3, PutUser
<1>5. local["access"] = None /\ local["refresh"] = None
  BY <1>1 DEF InitClears, Access, Seen, Storage, Preference
<1>6. Preference' /\ Pairs' /\ OnePlace' /\ SignedOut'
  BY <1>1, <1>2, <1>4 DEF Storage, Preference, Pairs, Paired, OnePlace, SignedOut, Gone
<1>7. UrlsApart' /\ Named'
  BY <1>1, <1>2, <1>4, <1>5 DEF Storage, UrlsApart, Named, Fits, Doubtful, None
<1> QED
  BY <1>4, <1>6, <1>7 DEF Storage

\* A tab that closes takes its own storage with it.
LEMMA LeaveStorage ==
  ASSUME IInv, NEW t \in Tabs, NEW closed \in BOOLEAN, Leave(t, closed)
  PROVE  /\ Storage' /\ local' \in Stores /\ own' \in [Tabs -> Stores]
         /\ \A u \in Tabs : own'[u]["refresh"] \in {own[u]["refresh"], None}
<1>1. TypeOK /\ Storage
  BY DEF IInv
<1>2. UNCHANGED <<sessions, urls, local, remember, late, astray, ended>>
  BY DEF Leave
<1>3. Empty \in Stores /\ Empty["access"] = None /\ Empty["refresh"] = None /\ Empty["user"] = None
  BY <1>1 DEF Empty, Stores, TypeOK, None, Fields, Tokens
<1>4. /\ own' \in [Tabs -> Stores]
      /\ \A u \in Tabs : own'[u] \in {own[u], Empty}
  BY <1>1, <1>3 DEF Leave, TypeOK
<1>5. Preference' /\ Pairs' /\ OnePlace' /\ SignedOut'
  BY <1>1, <1>2, <1>3, <1>4 DEF Storage, Preference, Pairs, Paired, OnePlace, SignedOut, Gone
<1>6. UrlsApart' /\ Named'
  BY <1>1, <1>2, <1>3, <1>4 DEF Storage, UrlsApart, Named, Fits, Doubtful
<1>7. \A u \in Tabs : own'[u]["refresh"] \in {own[u]["refresh"], None}
  BY <1>3, <1>4
<1> QED
  BY <1>1, <1>2, <1>4, <1>5, <1>6, <1>7 DEF Storage, TypeOK

-----------------------------------------------------------------------------
(***************************************************************************)
(* The invariant.                                                          *)
(***************************************************************************)

\* Steps that only move requests leave the storage part.
LEMMA StorageKept ==
  ASSUME IInv, KeepStorage, UNCHANGED <<urls, late, astray>>
  PROVE  Storage'
BY DEF IInv, KeepStorage, Storage, Preference, Pairs, Paired, OnePlace, SignedOut, Gone, UrlsApart,
       Named, Fits, Doubtful

\* A token a tab sends is of no session that another tab has to itself.
LEMMA SentToken ==
  ASSUME IInv, NEW t \in Tabs, NEW u \in Tabs, u # t,
         NEW s \in {Access(t), Refresh(t)}, s # None, s \notin late
  PROVE  own[u]["refresh"] # s
<1>1. s \in {local["refresh"], own[t]["refresh"]}
  BY DEF IInv, Storage, Pairs, Paired, Access, Refresh, Seen
<1> QED
  BY <1>1 DEF IInv, Storage, OnePlace

\* Requests that go on, or that wait for something else, keep their part.
LEMMA TheirsKept ==
  ASSUME IInv, late \subseteq late',
         \A u \in Tabs : own'[u]["refresh"] \in {own[u]["refresh"], None},
         \A p \in Procs : proc'[p] = proc[p] \/ proc'[p].pc \notin {"me", "logout"}
  PROVE  Theirs'
BY DEF IInv, Theirs

\* A request that begins or asks for the user with a token of its tab.
LEMMA TheirsAsked ==
  ASSUME IInv, KeepStorage, UNCHANGED late, NEW p \in Procs, NEW t \in Tabs,
         proc'[p].tab = t, proc'[p].tok \in {Access(t), Refresh(t)},
         \A q \in Procs : q # p => proc'[q] = proc[q]
  PROVE  Theirs'
<1>1. own' = own /\ late' = late
  BY DEF KeepStorage
<1>2. ASSUME NEW u \in Tabs, proc'[p].tok # None, u # t, proc'[p].tok \notin late
      PROVE  own[u]["refresh"] # proc'[p].tok
  BY <1>2, SentToken
<1> QED
  BY <1>1, <1>2 DEF IInv, Theirs

\* proc with one request changed.
LEMMA ProcChanged ==
  ASSUME TypeOK, UNCHANGED sessions, NEW p \in Procs, NEW r \in Requests \cup {Idle},
         proc' = [proc EXCEPT ![p] = r]
  PROVE  /\ proc' \in [Procs -> Requests' \cup {Idle}] /\ proc'[p] = r
         /\ \A q \in Procs : q # p => proc'[q] = proc[q]
<1>1. Requests' = Requests
  BY DEF Requests
<1> QED
  BY <1>1 DEF TypeOK

\* A request that begins.
LEMMA Begun ==
  ASSUME TypeOK, NEW p \in Procs, NEW t \in Tabs, NEW pc \in {"call", "settle", "me", "logout"},
         NEW kind \in {"service", "other", "init", "login", "plain"}, NEW tok \in 0..sessions,
         Begin(p, t, pc, kind, tok), UNCHANGED sessions
  PROVE  /\ proc' \in [Procs -> Requests' \cup {Idle}]
         /\ proc'[p].pc = pc /\ proc'[p].tab = t /\ proc'[p].tok = tok
         /\ \A q \in Procs : q # p => proc'[q] = proc[q]
<1> DEFINE r == [pc |-> pc, tab |-> t, kind |-> kind, tok |-> tok, retry |-> FALSE, says |-> FALSE]
<1>1. r \in Requests /\ r.pc = pc /\ r.tab = t /\ r.tok = tok
  BY DEF Requests
<1>2. proc' = [proc EXCEPT ![p] = r]
  BY DEF Begin
<1> HIDE DEF r
<1>3. /\ proc' \in [Procs -> Requests' \cup {Idle}] /\ proc'[p] = r
      /\ \A q \in Procs : q # p => proc'[q] = proc[q]
  BY <1>1, <1>2, ProcChanged
<1> QED
  BY <1>1, <1>3

\* A request that ends.
LEMMA Ended ==
  ASSUME TypeOK, NEW p \in Procs, Finish(p), UNCHANGED sessions
  PROVE  /\ proc' \in [Procs -> Requests' \cup {Idle}] /\ proc'[p] = Idle
         /\ \A q \in Procs : q # p => proc'[q] = proc[q]
<1>1. proc' = [proc EXCEPT ![p] = Idle]
  BY DEF Finish
<1> QED
  BY <1>1, ProcChanged

\* What is left of the type invariant.
LEMMA TypesKept ==
  ASSUME TypeOK, KeepStorage, UNCHANGED <<sessions, urls, late, astray>>,
         proc' \in [Procs -> Requests' \cup {Idle}]
  PROVE  TypeOK'
BY DEF TypeOK, KeepStorage, Stores

\* A step that moves one request and writes nothing.
LEMMA Moved ==
  ASSUME IInv, KeepStorage, UNCHANGED <<sessions, urls, late, astray>>, NEW p \in Procs,
         proc' \in [Procs -> Requests' \cup {Idle}],
         \A q \in Procs : q # p => proc'[q] = proc[q],
         \/ proc'[p].pc \notin {"me", "logout", "refresh"}
         \/ /\ proc'[p].tab \in Tabs
            /\ proc'[p].tok \in {Access(proc'[p].tab), Refresh(proc'[p].tab)}
            /\ proc'[p].pc = "me" \/ proc'[p].tok # None
  PROVE  IInv'
<1>1. TypeOK'
  BY TypesKept DEF IInv
<1>2. Storage'
  BY StorageKept
<1>3. AskedWithToken'
  BY DEF IInv, AskedWithToken
<1>4. Theirs'
  <2>1. CASE proc'[p].pc \notin {"me", "logout", "refresh"}
    <3>1. late \subseteq late' /\ own' = own
      BY DEF KeepStorage
    <3> QED
      BY <2>1, <3>1, TheirsKept
  <2>2. CASE /\ proc'[p].tab \in Tabs
             /\ proc'[p].tok \in {Access(proc'[p].tab), Refresh(proc'[p].tab)}
    <3>1. PICK t \in Tabs : proc'[p].tab = t /\ proc'[p].tok \in {Access(t), Refresh(t)}
      BY <2>2
    <3> QED
      BY <3>1, TheirsAsked
  <2> QED
    BY <2>1, <2>2
<1> QED
  BY <1>1, <1>2, <1>3, <1>4 DEF IInv

\* A step that ends one request and clears a tab's tokens, or nothing.
LEMMA Dropped ==
  ASSUME IInv, NEW p \in Procs, proc[p].pc # "idle", Finish(p), UNCHANGED <<sessions, urls, late>>,
         astray' \in SUBSET (1..sessions), astray \subseteq astray',
         \/ KeepStorage /\ astray' = astray
         \/ Forget(proc[p].tab, Fields, {})
         \/ Forget(proc[p].tab, Tokens, {}) /\ Users(proc[p].tab) \subseteq astray'
         \/ Forget(proc[p].tab, Fields, {proc[p].tok}) /\ proc[p].pc = "logout"
  PROVE  IInv'
<1>1. TypeOK /\ Theirs /\ AskedWithToken
  BY DEF IInv
<1>2. /\ proc' \in [Procs -> Requests' \cup {Idle}] /\ proc'[p] = Idle
      /\ \A q \in Procs : q # p => proc'[q] = proc[q]
  BY <1>1, Ended
<1>3. Idle.pc = "idle"
  BY DEF Idle
<1>4. CASE KeepStorage /\ astray' = astray
  BY <1>2, <1>3, <1>4, Moved
<1>5. ASSUME NEW t \in Tabs, t = proc[p].tab, NEW fs \in {Fields, Tokens}, NEW asked \in SUBSET Nat,
             Forget(t, fs, asked), fs = Tokens => Users(t) \subseteq astray',
             \A x \in asked : x = proc[p].tok /\ proc[p].pc = "logout"
      PROVE  IInv'
  <2>1. asked \subseteq 1..sessions
    BY <1>1, <1>5, RequestTypes DEF AskedWithToken, None
  <2>2. ASSUME NEW u \in Tabs, u # t, own[u]["refresh"] \in asked
        PROVE  own[u]["refresh"] \in late
    <3>1. /\ own[u]["refresh"] = proc[p].tok /\ proc[p].pc = "logout" /\ u # proc[p].tab
          /\ proc[p].tok # None
      BY <1>1, <1>5, <2>2 DEF AskedWithToken
    <3> QED
      BY <1>1, <3>1 DEF Theirs
  <2>3. /\ Storage' /\ local' \in Stores /\ own' \in [Tabs -> Stores] /\ remember' \in BOOLEAN
        /\ ended' \subseteq 1..sessions
        /\ \A u \in Tabs : own'[u]["refresh"] \in {own[u]["refresh"], None}
    <3>1. /\ UNCHANGED <<sessions, urls, late>> /\ astray \subseteq astray'
          /\ fs = Tokens => Users(t) \subseteq astray'
      BY <1>5
    <3>2. Forget(t, fs, asked)
      BY <1>5
    <3> QED
      BY <2>1, <2>2, <3>1, <3>2, ForgetStorage
  <2>4. TypeOK'
    BY <1>1, <1>2, <2>3 DEF TypeOK, Stores
  <2>5. AskedWithToken'
    BY <1>1, <1>2, <1>3 DEF AskedWithToken
  <2>6. Theirs'
    BY <1>2, <1>3, <2>3, TheirsKept
  <2> QED
    BY <2>3, <2>4, <2>5, <2>6 DEF IInv
<1>6. proc[p].tab \in Tabs /\ proc[p].tok \in 0..sessions /\ sessions \in Nat
  BY <1>1, RequestTypes DEF TypeOK
<1>7. {} \in SUBSET Nat /\ {proc[p].tok} \in SUBSET Nat
  BY <1>6
<1>8. Fields # Tokens
  BY DEF Fields, Tokens
<1>9. CASE Forget(proc[p].tab, Fields, {})
  <2>1. PICK t \in Tabs : t = proc[p].tab
    BY <1>6
  <2>2. PICK asked \in SUBSET Nat : asked = {}
    BY <1>7
  <2>3. PICK fs \in {Fields, Tokens} : fs = Fields
    OBVIOUS
  <2>4. Forget(t, fs, asked) /\ (fs = Tokens => Users(t) \subseteq astray')
    BY <1>8, <1>9, <2>1, <2>2, <2>3
  <2> QED
    BY <1>5, <2>1, <2>2, <2>4
<1>10. CASE Forget(proc[p].tab, Tokens, {}) /\ Users(proc[p].tab) \subseteq astray'
  <2>1. PICK t \in Tabs : t = proc[p].tab
    BY <1>6
  <2>2. PICK asked \in SUBSET Nat : asked = {}
    BY <1>7
  <2>3. PICK fs \in {Fields, Tokens} : fs = Tokens
    OBVIOUS
  <2>4. Forget(t, fs, asked) /\ (fs = Tokens => Users(t) \subseteq astray')
    BY <1>10, <2>1, <2>2, <2>3
  <2> QED
    BY <1>5, <2>1, <2>2, <2>4
<1>11. CASE Forget(proc[p].tab, Fields, {proc[p].tok}) /\ proc[p].pc = "logout"
  BY <1>5, <1>6, <1>7, <1>8, <1>11
<1> QED
  BY <1>4, <1>9, <1>10, <1>11

\* The invariant holds of an empty browser.
LEMMA InitInv == Init => IInv
<1> SUFFICES ASSUME Init PROVE IInv
  OBVIOUS
<1>1. /\ sessions = 0 /\ MaxSessions \in Nat /\ remember = FALSE
      /\ urls = {} /\ late = {} /\ astray = {} /\ ended = {}
  BY BoundAssumption DEF Init
<1>2. Empty \in Stores /\ Empty["access"] = None /\ Empty["refresh"] = None /\ Empty["user"] = None
  BY <1>1 DEF Empty, Stores, None, Fields, Tokens
<1>3. local = Empty /\ own \in [Tabs -> Stores] /\ \A t \in Tabs : own[t] = Empty
  BY <1>2 DEF Init
<1>4. proc \in [Procs -> Requests \cup {Idle}] /\ \A p \in Procs : proc[p].pc = "idle"
  BY DEF Init, Idle
<1>5. TypeOK
  <2>1. sessions \in 0..MaxSessions /\ urls \cup late \cup astray \cup ended \subseteq 1..sessions
    BY <1>1
  <2>2. own \in [Tabs -> Stores] /\ local \in Stores /\ remember \in BOOLEAN
    BY <1>1, <1>2, <1>3
  <2> QED
    BY <1>4, <2>1, <2>2 DEF TypeOK
<1>6. AskedWithToken /\ Theirs
  BY <1>4 DEF AskedWithToken, Theirs
<1>7. Storage
  BY <1>1, <1>2, <1>3 DEF Storage, Preference, Pairs, Paired, OnePlace, SignedOut, Gone, UrlsApart,
    Named, Fits
<1> QED
  BY <1>5, <1>6, <1>7 DEF IInv

\* The requests that begin and write nothing.
LEMMA StartsInv ==
  ASSUME IInv, NEW p \in Procs, NEW t \in Tabs,
         \/ \E kind \in {"service", "other"} : StartCall(p, t, kind)
         \/ StartInit(p, t)
         \/ StartProfile(p, t)
  PROVE  IInv'
<1>1. TypeOK /\ KeepStorage /\ UNCHANGED <<sessions, urls, late, astray>>
  BY DEF IInv, StartCall, StartInit, StartProfile
<1>2. None \in 0..sessions /\ Access(t) \in 0..sessions /\ Refresh(t) \in 0..sessions
  BY <1>1, FieldTypes DEF Access, Refresh, Seen, None
<1>3. ASSUME NEW kind \in {"service", "other"}, StartCall(p, t, kind) PROVE IInv'
  <2>1. Begin(p, t, "call", kind, None)
    BY <1>3 DEF StartCall
  <2>2. /\ proc' \in [Procs -> Requests' \cup {Idle}] /\ proc'[p].pc = "call"
        /\ \A q \in Procs : q # p => proc'[q] = proc[q]
    BY <1>1, <1>2, <2>1, Begun
  <2> QED
    BY <1>1, <2>2, Moved
<1>4. ASSUME NEW kind \in {"init", "plain"}, Begin(p, t, "me", kind, Access(t)) PROVE IInv'
  <2>1. PICK a \in 0..sessions : a = Access(t)
    BY <1>2
  <2>2. Begin(p, t, "me", kind, a)
    BY <1>4, <2>1
  <2>3. /\ proc' \in [Procs -> Requests' \cup {Idle}]
        /\ proc'[p].pc = "me" /\ proc'[p].tab = t /\ proc'[p].tok = a
        /\ \A q \in Procs : q # p => proc'[q] = proc[q]
    BY <1>1, <2>2, Begun
  <2> QED
    BY <1>1, <2>1, <2>3, Moved
<1> QED
  BY <1>3, <1>4 DEF StartInit, StartProfile

\* A logout asks, or clears at once when no refresh token is stored.
LEMMA StartLogoutInv ==
  ASSUME IInv, NEW p \in Procs, NEW t \in Tabs, StartLogout(p, t)
  PROVE  IInv'
<1>1. TypeOK /\ Theirs /\ AskedWithToken /\ UNCHANGED <<sessions, urls, late, astray>>
  BY DEF IInv, StartLogout
<1>2. CASE Refresh(t) = None
  <2>1. PICK fs \in {Fields, Tokens} : fs = Fields
    OBVIOUS
  <2>2. PICK asked \in SUBSET Nat : asked = {}
    OBVIOUS
  <2>3. fs # Tokens
    BY <2>1 DEF Fields, Tokens
  <2>4. Forget(t, fs, asked) /\ UNCHANGED proc
    BY <1>2, <2>1, <2>2 DEF StartLogout
  <2>5. /\ asked \subseteq 1..sessions /\ astray \subseteq astray'
        /\ \A u \in Tabs : u # t /\ own[u]["refresh"] \in asked => own[u]["refresh"] \in late
        /\ fs = Tokens => Users(t) \subseteq astray'
    BY <1>1, <2>2, <2>3
  <2>6. /\ Storage' /\ local' \in Stores /\ own' \in [Tabs -> Stores] /\ remember' \in BOOLEAN
        /\ ended' \subseteq 1..sessions
        /\ \A u \in Tabs : own'[u]["refresh"] \in {own[u]["refresh"], None}
    BY <1>1, <2>4, <2>5, ForgetStorage
  <2>7. TypeOK'
    BY <1>1, <2>4, <2>6 DEF TypeOK, Stores, Requests
  <2>8. Theirs'
    BY <1>1, <2>4, <2>6, TheirsKept
  <2> QED
    BY <1>1, <2>4, <2>6, <2>7, <2>8 DEF IInv, AskedWithToken
<1>3. CASE Refresh(t) # None
  <2>1. KeepStorage /\ Begin(p, t, "logout", "other", Refresh(t))
    BY <1>3 DEF StartLogout
  <2>2. PICK r \in 0..sessions : r = Refresh(t)
    BY <1>1, FieldTypes DEF Refresh, Seen
  <2>3. Begin(p, t, "logout", "other", r)
    BY <2>1, <2>2
  <2>4. /\ proc' \in [Procs -> Requests' \cup {Idle}]
        /\ proc'[p].pc = "logout" /\ proc'[p].tab = t /\ proc'[p].tok = r
        /\ \A q \in Procs : q # p => proc'[q] = proc[q]
    BY <1>1, <2>3, Begun
  <2> QED
    BY <1>1, <1>3, <2>1, <2>2, <2>4, Moved
<1> QED
  BY <1>2, <1>3

\* The requests that end.
LEMMA EndsInv ==
  ASSUME IInv, NEW p \in Procs,
         \/ CallEnds(p)
         \/ \E says \in BOOLEAN : CallRefused(p, says)
         \/ \E refused \in BOOLEAN : RefreshFails(p, refused)
         \/ MeFails(p)
         \/ LogoutEnds(p)
  PROVE  IInv'
<1>1. /\ TypeOK /\ sessions \in Nat /\ Finish(p) /\ UNCHANGED <<sessions, urls, late>>
      /\ proc[p].pc # "idle"
  BY DEF IInv, TypeOK, CallEnds, CallRefused, RefreshFails, MeFails, LogoutEnds
<1>2. astray \subseteq 1..sessions
  BY <1>1 DEF TypeOK
<1>3. ASSUME astray' = astray, KeepStorage \/ Forget(proc[p].tab, Fields, {}) PROVE IInv'
  BY <1>1, <1>2, <1>3, Dropped
<1>4. CASE CallEnds(p)
  BY <1>3, <1>4 DEF CallEnds
<1>5. CASE \E says \in BOOLEAN : CallRefused(p, says)
  BY <1>3, <1>5 DEF CallRefused
<1>6. CASE \E refused \in BOOLEAN : RefreshFails(p, refused)
  BY <1>3, <1>6 DEF RefreshFails
<1>7. CASE MeFails(p)
  <2>1. CASE proc[p].kind = "login"
    <3>1. Forget(proc[p].tab, Tokens, {}) /\ astray' = astray \cup Users(proc[p].tab)
      BY <1>7, <2>1 DEF MeFails
    <3>2. Users(proc[p].tab) \subseteq 1..sessions
      BY <1>1, FieldTypes, RequestTypes DEF Users, None
    <3> QED
      BY <1>1, <1>2, <3>1, <3>2, Dropped
  <2>2. CASE proc[p].kind # "login"
    BY <1>3, <1>7, <2>2 DEF MeFails
  <2> QED
    BY <2>1, <2>2
<1>8. CASE LogoutEnds(p)
  <2>1. Forget(proc[p].tab, Fields, {proc[p].tok}) /\ proc[p].pc = "logout" /\ astray' = astray
    BY <1>8 DEF LogoutEnds
  <2> QED
    BY <1>1, <1>2, <2>1, Dropped
<1> QED
  BY <1>4, <1>5, <1>6, <1>7, <1>8

\* A refresh is asked with the token that is stored, and writes nothing.
LEMMA AskFreshInv ==
  ASSUME IInv, NEW p \in Procs, NEW says \in BOOLEAN, AskFresh(p, says)
  PROVE  IInv'
<1> DEFINE r == [proc[p] EXCEPT !.pc = "refresh", !.tok = Refresh(proc[p].tab), !.retry = TRUE,
                                !.says = says /\ proc[p].kind = "service"]
<1>1. /\ TypeOK /\ proc[p].pc # "idle" /\ Refresh(proc[p].tab) # None
      /\ KeepStorage /\ UNCHANGED <<sessions, urls, late, astray>>
      /\ proc' = [proc EXCEPT ![p] = r]
  BY DEF IInv, AskFresh
<1>2. proc[p] \in Requests /\ proc[p].tab \in Tabs
  BY <1>1, RequestTypes
<1>3. Refresh(proc[p].tab) \in 0..sessions
  BY <1>1, <1>2, FieldTypes DEF Refresh, Seen
<1>4. r \in Requests /\ r.pc = "refresh" /\ r.tab = proc[p].tab /\ r.tok = Refresh(proc[p].tab)
  BY <1>2, <1>3 DEF Requests
<1> HIDE DEF r
<1>5. PICK x \in Requests : x = r
  BY <1>4
<1>6. /\ proc' \in [Procs -> Requests' \cup {Idle}] /\ proc'[p] = x
      /\ \A q \in Procs : q # p => proc'[q] = proc[q]
  BY <1>1, <1>5, ProcChanged
<1> QED
  BY <1>1, <1>2, <1>4, <1>5, <1>6, Moved

\* The wait of a login ends: the user is asked for with the token that is stored.
LEMMA SettleInv ==
  ASSUME IInv, NEW p \in Procs, Settle(p)
  PROVE  IInv'
<1> DEFINE r == [proc[p] EXCEPT !.pc = "me", !.tok = Access(proc[p].tab)]
<1>1. /\ TypeOK /\ proc[p].pc # "idle" /\ KeepStorage /\ UNCHANGED <<sessions, urls, late, astray>>
  BY DEF IInv, Settle
<1>2. proc[p] \in Requests /\ proc[p].tab \in Tabs
  BY <1>1, RequestTypes
<1>3. Access(proc[p].tab) \in 0..sessions
  BY <1>1, <1>2, FieldTypes DEF Access, Seen
<1>4. r \in Requests /\ r.pc = "me" /\ r.tab = proc[p].tab /\ r.tok = Access(proc[p].tab)
  BY <1>2, <1>3 DEF Requests
<1>5. proc' = [proc EXCEPT ![p] = r]
  BY <1>1 DEF Settle, TypeOK
<1> HIDE DEF r
<1>6. PICK x \in Requests : x = r
  BY <1>4
<1>7. /\ proc' \in [Procs -> Requests' \cup {Idle}] /\ proc'[p] = x
      /\ \A q \in Procs : q # p => proc'[q] = proc[q]
  BY <1>1, <1>5, <1>6, ProcChanged
<1> QED
  BY <1>1, <1>2, <1>4, <1>6, <1>7, Moved

\* A fresh token is stored, late or not.
LEMMA StoreFreshInv ==
  ASSUME IInv, NEW p \in Procs, StoreFresh(p)
  PROVE  IInv'
<1> DEFINE r == [proc[p] EXCEPT !.pc = "call", !.tok = None, !.says = FALSE]
<1>1. /\ TypeOK /\ Theirs /\ AskedWithToken /\ proc[p].pc = "refresh"
      /\ UNCHANGED <<sessions, urls, astray, ended>> /\ proc' = [proc EXCEPT ![p] = r]
  BY DEF IInv, StoreFresh
<1>2. /\ proc[p] \in Requests /\ proc[p].tab \in Tabs /\ proc[p].tok \in 0..sessions
      /\ proc[p].tok # None /\ sessions \in Nat
  BY <1>1, RequestTypes DEF AskedWithToken, TypeOK
<1>3. r \in Requests /\ r.pc = "call"
  <2>1. None \in 0..sessions
    BY <1>2 DEF None
  <2> QED
    BY <1>2, <2>1 DEF Requests
<1> HIDE DEF r
<1>4. PICK x \in Requests : x = r
  BY <1>3
<1>5. /\ proc' \in [Procs -> Requests' \cup {Idle}] /\ proc'[p] = x
      /\ \A q \in Procs : q # p => proc'[q] = proc[q]
  BY <1>1, <1>4, ProcChanged
<1>6. PICK t \in Tabs, s \in 0..sessions : t = proc[p].tab /\ s = proc[p].tok
  BY <1>2
<1>7. /\ Preferred(t, s) /\ late' = (IF Refresh(t) = s THEN late ELSE late \cup {s}) /\ s # None
  BY <1>2, <1>6 DEF StoreFresh
<1>8. /\ Storage' /\ local' \in Stores /\ own' \in [Tabs -> Stores]
      /\ \A u \in Tabs : own'[u]["refresh"] = own[u]["refresh"]
  BY <1>1, <1>6, <1>7, FreshStorage
<1>9. late' \subseteq 1..sessions /\ late \subseteq late' /\ remember' = remember
  BY <1>1, <1>2, <1>6, <1>7 DEF TypeOK, None, Preferred
<1>10. TypeOK'
  BY <1>1, <1>5, <1>8, <1>9 DEF TypeOK, Stores
<1>11. AskedWithToken'
  BY <1>1, <1>3, <1>4, <1>5 DEF AskedWithToken
<1>12. Theirs'
  BY <1>3, <1>4, <1>5, <1>8, <1>9, TheirsKept
<1> QED
  BY <1>8, <1>10, <1>11, <1>12 DEF IInv

\* A user is stored, in the tab of the request and by the preference of now.
LEMMA MeAnswersInv ==
  ASSUME IInv, NEW p \in Procs, MeAnswers(p)
  PROVE  IInv'
<1>1. /\ TypeOK /\ Theirs /\ AskedWithToken /\ proc[p].pc = "me" /\ proc[p].tok # None
      /\ Finish(p) /\ UNCHANGED <<sessions, urls, remember, late, ended>>
  BY DEF IInv, MeAnswers, Asked
<1>2. proc[p].tab \in Tabs /\ proc[p].tok \in 0..sessions /\ sessions \in Nat
  BY <1>1, RequestTypes DEF TypeOK
<1>3. /\ proc' \in [Procs -> Requests' \cup {Idle}] /\ proc'[p] = Idle
      /\ \A q \in Procs : q # p => proc'[q] = proc[q]
  BY <1>1, Ended
<1>4. Idle.pc = "idle"
  BY DEF Idle
<1>5. PICK t \in Tabs, s \in 0..sessions : t = proc[p].tab /\ s = proc[p].tok
  BY <1>2
<1>6. /\ Put(t, {"user"}, s, remember) /\ s # None
      /\ astray' = IF Access(t) = s /\ \A u \in Tabs \ {t} : own[u]["user"] # s
                   THEN astray \ {s} ELSE astray \cup {s}
  BY <1>1, <1>5 DEF MeAnswers
<1>7. \A u \in Tabs : u # t /\ own[u]["refresh"] = s => s \in late
  BY <1>1, <1>5 DEF Theirs
<1>8. /\ Storage' /\ local' \in Stores /\ own' \in [Tabs -> Stores]
      /\ \A u \in Tabs : own'[u]["refresh"] = own[u]["refresh"]
  BY <1>1, <1>6, <1>7, UserStorage
<1>9. astray' \subseteq 1..sessions
  BY <1>1, <1>2, <1>5, <1>6 DEF TypeOK, None
<1>10. TypeOK'
  BY <1>1, <1>3, <1>8, <1>9 DEF TypeOK, Stores
<1>11. AskedWithToken'
  BY <1>1, <1>3, <1>4 DEF AskedWithToken
<1>12. Theirs'
  BY <1>1, <1>3, <1>4, <1>8, TheirsKept
<1> QED
  BY <1>8, <1>10, <1>11, <1>12 DEF IInv

\* The steps of a sign-in, with the request that goes on.
LEMMA SignsInInv ==
  ASSUME IInv, NEW t \in Tabs, NEW s \in Nat, NEW kept \in BOOLEAN, SignIn(t, s, kept),
         UNCHANGED late, ended' = ended \ {s},
         s \notin 0..sessions \/ (s \in urls /\ kept),
         urls' = urls \/ (urls' = urls \cup {s} /\ kept),
         NEW p \in Procs, NEW pc \in {"settle", "me"}, NEW kind \in {"login", "plain"},
         NEW tok \in {None, s}, Begin(p, t, pc, kind, tok)
  PROVE  IInv'
<1> DEFINE r == [pc |-> pc, tab |-> t, kind |-> kind, tok |-> tok, retry |-> FALSE, says |-> FALSE]
<1>1. TypeOK /\ Theirs /\ AskedWithToken /\ sessions \in Nat
  BY DEF IInv, TypeOK
<1>2. /\ Storage' /\ local' \in Stores' /\ own' \in [Tabs -> Stores'] /\ remember' \in BOOLEAN
      /\ sessions' \in 0..MaxSessions /\ sessions <= sessions' /\ s \in 1..sessions'
      /\ urls' \cup late' \cup astray' \cup ended' \subseteq 1..sessions'
      /\ \A u \in Tabs : own[u]["refresh"] # s
      /\ own'[t]["refresh"] = None \/ (own'[t]["refresh"] = s /\ s \notin 0..sessions)
      /\ \A u \in Tabs : u # t => own'[u] = own[u]
  BY SignInStorage
<1>3. PICK m \in Nat : m = sessions'
  BY <1>2, BoundAssumption
<1>4. tok \in 0..sessions' /\ 0..sessions \subseteq 0..sessions'
  BY <1>1, <1>2, <1>3 DEF None
<1>5. r \in Requests' /\ r.pc = pc /\ r.tab = t /\ r.tok = tok /\ Requests \subseteq Requests'
  BY <1>4 DEF Requests
<1>6. proc' = [proc EXCEPT ![p] = r]
  BY DEF Begin
<1> HIDE DEF r
<1>7. /\ proc' \in [Procs -> Requests' \cup {Idle}] /\ proc'[p] = r
      /\ \A q \in Procs : q # p => proc'[q] = proc[q]
  BY <1>1, <1>5, <1>6 DEF TypeOK
<1>8. TypeOK'
  BY <1>2, <1>7 DEF TypeOK
<1>9. AskedWithToken'
  BY <1>1, <1>5, <1>7 DEF AskedWithToken
<1>10. ASSUME NEW q \in Procs, NEW u \in Tabs, proc'[q].pc \in {"me", "logout"},
              proc'[q].tok # None, u # proc'[q].tab, proc'[q].tok \notin late'
       PROVE  own'[u]["refresh"] # proc'[q].tok
  <2>1. CASE q = p
    BY <1>2, <1>5, <1>7, <1>10, <2>1
  <2>2. CASE q # p
    <3>1. proc'[q] = proc[q]
      BY <1>7, <2>2
    <3>2. own[u]["refresh"] # proc[q].tok /\ proc[q].tok \in 0..sessions
      BY <1>1, <1>10, <3>1, RequestTypes DEF Theirs
    <3> QED
      BY <1>2, <1>10, <3>1, <3>2
  <2> QED
    BY <2>1, <2>2
<1>11. Theirs'
  BY <1>10 DEF Theirs
<1> QED
  BY <1>2, <1>8, <1>9, <1>11 DEF IInv

\* A login leaves a request of its tab that waits to ask for the user.
LEMMA LoginInv ==
  ASSUME IInv, NEW p \in Procs, NEW t \in Tabs, NEW kept \in BOOLEAN, Login(p, t, kept)
  PROVE  IInv'
<1>1. sessions \in Nat /\ ended \subseteq 1..sessions
  BY DEF IInv, TypeOK
<1>2. PICK s \in Nat : s = sessions + 1
  BY <1>1
<1>3. /\ SignIn(t, s, kept) /\ UNCHANGED <<urls, late, ended>>
      /\ Begin(p, t, "settle", "login", None)
  BY <1>2 DEF Login
<1>4. s \notin 0..sessions /\ ended' = ended \ {s}
  BY <1>1, <1>2, <1>3
<1> QED
  BY <1>3, <1>4, SignsInInv

\* The callback page asks for the user of the tokens in its address.
LEMMA OAuthCallbackInv ==
  ASSUME IInv, NEW p \in Procs, NEW t \in Tabs, NEW s \in Sessions, OAuthCallback(p, t, s)
  PROVE  IInv'
<1>1. sessions \in Nat /\ s \in Nat
  BY BoundAssumption DEF IInv, TypeOK, Sessions
<1>2. PICK kept \in BOOLEAN : kept
  OBVIOUS
<1>3. /\ SignIn(t, s, kept) /\ UNCHANGED late /\ ended' = ended \ {s} /\ urls' = urls \cup {s}
      /\ Begin(p, t, "me", "plain", s)
  BY <1>2 DEF OAuthCallback
<1>4. s \notin 0..sessions \/ (s \in urls /\ kept)
  BY <1>1, <1>2 DEF OAuthCallback
<1> QED
  BY <1>1, <1>2, <1>3, <1>4, SignsInInv

\* A mount without a token clears the user.
LEMMA InitClearsInv ==
  ASSUME IInv, NEW t \in Tabs, InitClears(t)
  PROVE  IInv'
<1>1. /\ TypeOK /\ Theirs /\ AskedWithToken
      /\ UNCHANGED <<sessions, urls, remember, proc, late, astray, ended>>
  BY DEF IInv, InitClears
<1>2. /\ Storage' /\ local' \in Stores /\ own' \in [Tabs -> Stores]
      /\ \A u \in Tabs : own'[u]["refresh"] = own[u]["refresh"]
  BY ClearUserStorage
<1>3. TypeOK'
  BY <1>1, <1>2 DEF TypeOK, Stores, Requests
<1>4. Theirs' /\ AskedWithToken'
  BY <1>1, <1>2, TheirsKept DEF AskedWithToken
<1> QED
  BY <1>2, <1>3, <1>4 DEF IInv

\* A page that goes ends its requests, and a closed tab takes its storage along.
LEMMA LeaveInv ==
  ASSUME IInv, NEW t \in Tabs, NEW closed \in BOOLEAN, Leave(t, closed)
  PROVE  IInv'
<1>1. /\ TypeOK /\ Theirs /\ AskedWithToken /\ Idle.pc = "idle"
      /\ UNCHANGED <<sessions, urls, remember, late, astray, ended>>
  BY DEF IInv, Leave, Idle
<1>2. /\ Storage' /\ local' \in Stores /\ own' \in [Tabs -> Stores]
      /\ \A u \in Tabs : own'[u]["refresh"] \in {own[u]["refresh"], None}
  BY LeaveStorage
<1>3. /\ proc' \in [Procs -> Requests \cup {Idle}]
      /\ \A p \in Procs : proc'[p] \in {proc[p], Idle}
  BY <1>1 DEF TypeOK, Leave
<1>4. TypeOK'
  BY <1>1, <1>2, <1>3 DEF TypeOK, Stores, Requests
<1>5. AskedWithToken'
  BY <1>1, <1>3 DEF AskedWithToken
<1>6. Theirs'
  BY <1>1, <1>2, <1>3, TheirsKept
<1> QED
  BY <1>2, <1>4, <1>5, <1>6 DEF IInv

-----------------------------------------------------------------------------
(***************************************************************************)
(* The invariant and what follows from it.                                 *)
(***************************************************************************)

\* Every answer that a request waits for keeps the invariant.
LEMMA AnswerInv ==
  ASSUME IInv, NEW p \in Procs, Answer(p)
  PROVE  IInv'
<1>1. CASE CallEnds(p)
  BY <1>1, EndsInv
<1>2. CASE \E says \in BOOLEAN : AskFresh(p, says)
  BY <1>2, AskFreshInv
<1>3. CASE \E says \in BOOLEAN : CallRefused(p, says)
  BY <1>3, EndsInv
<1>4. CASE StoreFresh(p)
  BY <1>4, StoreFreshInv
<1>5. CASE \E refused \in BOOLEAN : RefreshFails(p, refused)
  BY <1>5, EndsInv
<1>6. CASE Settle(p)
  BY <1>6, SettleInv
<1>7. CASE MeAnswers(p)
  BY <1>7, MeAnswersInv
<1>8. CASE MeFails(p) \/ LogoutEnds(p)
  BY <1>8, EndsInv
<1> QED
  BY <1>1, <1>2, <1>3, <1>4, <1>5, <1>6, <1>7, <1>8 DEF Answer

\* Everything a page starts keeps the invariant.
LEMMA StartInv ==
  ASSUME IInv, NEW p \in Procs, NEW t \in Tabs, Start(p, t)
  PROVE  IInv'
<1>1. CASE \E kind \in {"service", "other"} : StartCall(p, t, kind)
  BY <1>1, StartsInv
<1>2. CASE StartInit(p, t) \/ StartProfile(p, t)
  BY <1>2, StartsInv
<1>3. CASE \E kept \in BOOLEAN : Login(p, t, kept)
  BY <1>3, LoginInv
<1>4. CASE \E s \in Sessions : OAuthCallback(p, t, s)
  BY <1>4, OAuthCallbackInv
<1>5. CASE StartLogout(p, t)
  BY <1>5, StartLogoutInv
<1> QED
  BY <1>1, <1>2, <1>3, <1>4, <1>5 DEF Start

\* Every step keeps the invariant.
LEMMA StepInv == IInv /\ [Next]_vars => IInv'
<1> SUFFICES ASSUME IInv, [Next]_vars PROVE IInv'
  OBVIOUS
<1>1. ASSUME NEW p \in Procs, Answer(p) PROVE IInv'
  BY <1>1, AnswerInv
<1>2. ASSUME NEW p \in Procs, NEW t \in Tabs, Start(p, t) PROVE IInv'
  BY <1>2, StartInv
<1>3. ASSUME NEW t \in Tabs, InitClears(t) PROVE IInv'
  BY <1>3, InitClearsInv
<1>4. ASSUME NEW t \in Tabs, NEW closed \in BOOLEAN, Leave(t, closed) PROVE IInv'
  BY <1>4, LeaveInv
<1>5. CASE UNCHANGED vars
  <2>1. UNCHANGED <<sessions, urls, local, remember, own, proc, late, astray, ended>>
    BY <1>5 DEF vars
  <2>2. TypeOK'
    BY <2>1 DEF IInv, TypeOK, Stores, Requests
  <2>3. AskedWithToken' /\ Theirs'
    BY <2>1 DEF IInv, AskedWithToken, Theirs
  <2>4. Preference' /\ Pairs' /\ OnePlace'
    BY <2>1 DEF IInv, Storage, Preference, Pairs, Paired, OnePlace
  <2>5. SignedOut' /\ UrlsApart'
    BY <2>1 DEF IInv, Storage, SignedOut, Gone, UrlsApart
  <2>6. Named'
    BY <2>1 DEF IInv, Storage, Named, Fits, Doubtful
  <2> QED
    BY <2>2, <2>3, <2>4, <2>5, <2>6 DEF IInv, Storage
<1> QED
  BY <1>1, <1>2, <1>3, <1>4, <1>5 DEF Next

\* The invariant holds in every state of the sign-in.
LEMMA Invariance == Spec => []IInv
BY InitInv, StepInv, PTL DEF Spec

\* What the browser holds is of sign-ins that have happened, in every state.
THEOREM TypeCorrect == Spec => []TypeOK
<1>1. IInv => TypeOK
  BY DEF IInv
<1> QED
  BY <1>1, Invariance, PTL

\* The tokens that a tab sends are of one session, unless the access token is one that
\* came back late (authService.refreshToken stores it by the preference of now).
THEOREM OneSession == Spec => []TokensOfOneSession
<1>1. IInv => TokensOfOneSession
  <2> SUFFICES ASSUME IInv, NEW t \in Tabs, Access(t) # None
               PROVE  Access(t) = Refresh(t) \/ Access(t) \in late
    BY DEF TokensOfOneSession
  <2> USE DEF IInv, Storage, Preference, Pairs, Paired, Access, Refresh, Seen
  <2>1. CASE remember
    BY <2>1
  <2>2. CASE ~remember
    BY <2>2
  <2> QED
    BY <2>1, <2>2
<1> QED
  BY <1>1, Invariance, PTL

\* The user a tab shows is the user whose token it sends, except after a late answer or
\* a sign-in whose user was never stored (useAuth.login stores them apart).
THEOREM UserFits == Spec => []UserOfTokens
<1>1. IInv => UserOfTokens
  <2> SUFFICES ASSUME IInv, NEW t \in Tabs, Access(t) # None, User(t) # None,
                      User(t) # Access(t)
               PROVE  {Access(t), User(t)} \cap (late \cup astray) # {}
    BY DEF UserOfTokens
  <2>1. Access(t) \in late \/ Access(t) = Refresh(t)
    BY DEF IInv, Storage, Preference, Pairs, Paired, Access, Refresh, Seen
  <2>2. CASE Access(t) \in late
    BY <2>2
  <2>3. CASE Access(t) = Refresh(t) /\ remember
    <3>1. Access(t) = local["refresh"] /\ local["refresh"] # None
      BY <2>3 DEF IInv, Storage, Preference, Refresh, Seen
    <3>2. User(t) = local["user"] \/ local["user"] = None
      BY DEF User, Seen
    <3>3. Access(t) \in late \cup astray \/ User(t) \in late \cup astray
      BY <3>1, <3>2 DEF IInv, Storage, Named, Fits, Doubtful
    <3> QED
      BY <3>3
  <2>4. CASE Access(t) = Refresh(t) /\ ~remember
    <3>1. local["refresh"] = None /\ Access(t) = own[t]["refresh"] /\ own[t]["refresh"] # None
      BY <2>4 DEF IInv, Storage, Preference, Refresh, Seen
    <3>2. (User(t) = local["user"] /\ local["user"] # None) \/ User(t) = own[t]["user"]
      BY DEF User, Seen
    <3>3. Access(t) \in late \cup astray \/ User(t) \in late \cup astray
      BY <3>1, <3>2 DEF IInv, Storage, Named, Fits, Doubtful
    <3> QED
      BY <3>3
  <2> QED
    BY <2>1, <2>2, <2>3, <2>4
<1> QED
  BY <1>1, Invariance, PTL

\* A session that a tab has signed out does not come back, but for a late answer or by
\* the address of the callback page (clearAuthTokens clears both storages).
THEOREM SignedOutForGood == Spec => []SignedOutStays
<1>1. IInv => SignedOutStays
  <2> SUFFICES ASSUME IInv, NEW t \in Tabs, Access(t) \in ended
               PROVE  Access(t) \in late
    BY DEF SignedOutStays
  <2>1. Access(t) # None
    BY DEF IInv, TypeOK, None
  <2>2. Access(t) \in late \/ (Access(t) = local["refresh"] \/ Access(t) = own[t]["refresh"])
    BY <2>1 DEF IInv, Storage, Pairs, Paired, Access, Seen
  <2> QED
    BY <2>1, <2>2 DEF IInv, Storage, SignedOut, Gone
<1> QED
  BY <1>1, Invariance, PTL

-----------------------------------------------------------------------------
(***************************************************************************)
(* How a request goes on.                                                  *)
(***************************************************************************)

\* Request q becomes r.
GoesOn(q, r) ==
  \/ r = q
  \/ r.pc = "idle"
  \/ q.pc = "idle" /\ r.pc \in {"call", "settle", "me", "logout"}
  \/ q.pc = "call" /\ ~q.retry /\ r.pc = "refresh" /\ r.retry
  \/ q.pc = "refresh" /\ r.pc = "call" /\ r.retry = q.retry
  \/ q.pc = "settle" /\ r.pc = "me"

\* A refresh is asked by a request that is not sent again after it.
Retried == \A p \in Procs : proc[p].pc = "refresh" => proc[p].retry

\* An answer moves the request that waited for it.
LEMMA AnswerGoesOn ==
  ASSUME TypeOK, NEW q \in Procs, Answer(q), NEW p \in Procs
  PROVE  GoesOn(proc[p], proc'[p])
<1>1. proc \in [Procs -> Requests \cup {Idle}] /\ Idle.pc = "idle"
  BY DEF TypeOK, Idle
<1>2. CASE Finish(q)
  BY <1>1, <1>2 DEF Finish, GoesOn
<1>3. ASSUME NEW says \in BOOLEAN, AskFresh(q, says) PROVE GoesOn(proc[p], proc'[p])
  <2>1. proc[q] \in Requests /\ proc[q].pc = "call" /\ ~proc[q].retry
    BY <1>3, RequestTypes DEF AskFresh, MayRefresh
  <2>2. /\ \A x \in Procs : x # q => proc'[x] = proc[x]
        /\ proc'[q].pc = "refresh" /\ proc'[q].retry
    BY <1>1, <1>3, <2>1 DEF AskFresh, Requests
  <2> QED
    BY <2>1, <2>2 DEF GoesOn
<1>4. CASE StoreFresh(q)
  <2>1. proc[q] \in Requests /\ proc[q].pc = "refresh"
    BY <1>4, RequestTypes DEF StoreFresh
  <2>2. /\ \A x \in Procs : x # q => proc'[x] = proc[x]
        /\ proc'[q].pc = "call" /\ proc'[q].retry = proc[q].retry
    BY <1>1, <1>4, <2>1 DEF StoreFresh, Requests
  <2> QED
    BY <2>1, <2>2 DEF GoesOn
<1>5. CASE Settle(q)
  <2>1. proc[q] \in Requests /\ proc[q].pc = "settle"
    BY <1>5, RequestTypes DEF Settle
  <2>2. (\A x \in Procs : x # q => proc'[x] = proc[x]) /\ proc'[q].pc = "me"
    BY <1>1, <1>5, <2>1 DEF Settle, Requests
  <2> QED
    BY <2>1, <2>2 DEF GoesOn
<1> QED
  BY <1>2, <1>3, <1>4, <1>5
  DEF Answer, CallEnds, CallRefused, RefreshFails, MeAnswers, MeFails, LogoutEnds

\* So does every step.
LEMMA StepGoesOn ==
  ASSUME TypeOK, [Next]_vars, NEW p \in Procs
  PROVE  GoesOn(proc[p], proc'[p])
<1>1. proc \in [Procs -> Requests \cup {Idle}] /\ Idle.pc = "idle"
  BY DEF TypeOK, Idle
<1>2. CASE \E q \in Procs : Answer(q)
  BY <1>2, AnswerGoesOn
<1>3. ASSUME NEW q \in Procs, NEW t \in Tabs, Start(q, t) PROVE GoesOn(proc[p], proc'[p])
  <2>1. ASSUME NEW pc \in {"call", "settle", "me", "logout"}, NEW kind, NEW tok,
               Begin(q, t, pc, kind, tok), Free(q)
        PROVE  GoesOn(proc[p], proc'[p])
    BY <1>1, <2>1 DEF Begin, Free, GoesOn
  <2>2. CASE UNCHANGED proc
    BY <2>2 DEF GoesOn
  <2> QED
    BY <1>3, <2>1, <2>2
    DEF Start, StartCall, Login, OAuthCallback, StartInit, StartProfile, StartLogout
<1>4. CASE \E t \in Tabs : InitClears(t)
  BY <1>4 DEF InitClears, GoesOn
<1>5. CASE \E t \in Tabs, closed \in BOOLEAN : Leave(t, closed)
  BY <1>1, <1>5 DEF Leave, GoesOn
<1>6. CASE UNCHANGED vars
  BY <1>6 DEF vars, GoesOn
<1> QED
  BY <1>2, <1>3, <1>4, <1>5, <1>6 DEF Next

\* In every state, a request that waits for a refresh has had its retry.
LEMMA RetriedAlways == Spec => []Retried
<1>1. Init => Retried
  BY DEF Init, Retried, Idle
<1>2. Retried /\ TypeOK /\ [Next]_vars => Retried'
  BY StepGoesOn DEF Retried, GoesOn
<1> QED
  BY <1>1, <1>2, TypeCorrect, PTL DEF Spec

\* Every answer brings a request nearer to its end, whatever the other requests do (the
\* interceptor sets _retry before it sends a request again).
THEOREM CallsGoOnce == Spec => CallsEnd
<1>1. ASSUME TypeOK, Retried, [Next]_vars, NEW p \in Procs, proc[p].pc # "idle", proc'[p] # proc[p]
      PROVE  Waits(proc'[p]) < Waits(proc[p])
  <2>1. GoesOn(proc[p], proc'[p])
    BY <1>1, StepGoesOn
  <2>2. CASE proc'[p].pc = "idle"
    <3>1. proc[p].pc \in {"call", "refresh", "settle", "me", "logout"}
      BY <1>1, RequestTypes DEF Requests
    <3> QED
      BY <2>2, <3>1 DEF Waits
  <2>3. CASE proc[p].pc = "call" /\ ~proc[p].retry /\ proc'[p].pc = "refresh"
    BY <2>3 DEF Waits
  <2>4. CASE proc[p].pc = "refresh" /\ proc'[p].pc = "call" /\ proc'[p].retry = proc[p].retry
    <3>1. proc'[p].retry
      BY <1>1, <2>4 DEF Retried
    <3> QED
      BY <2>4, <3>1 DEF Waits
  <2>5. CASE proc[p].pc = "settle" /\ proc'[p].pc = "me"
    BY <2>5 DEF Waits
  <2> QED
    BY <1>1, <2>1, <2>2, <2>3, <2>4, <2>5 DEF GoesOn
<1>2. TypeOK /\ Retried /\ [Next]_vars => [\A p \in Procs :
        proc[p].pc # "idle" /\ proc'[p] # proc[p] => Waits(proc'[p]) < Waits(proc[p])]_vars
  BY <1>1
<1> QED
  BY <1>2, TypeCorrect, RetriedAlways, PTL DEF Spec, CallsEnd
=============================================================================
