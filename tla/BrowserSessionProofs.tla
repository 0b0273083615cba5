----------------------- MODULE BrowserSessionProofs -----------------------
(***************************************************************************)
(* Proofs about BrowserSession.tla, for any number of tabs, users, tokens  *)
(* and requests.  That late answers undo no choice holds for every number  *)
(* of tabs: /auth/me is asked of at epoch 0 only, so any sign-in or        *)
(* sign-out makes its answer a late one.  The rest is about a tab that is  *)
(* alone, since what another tab stores is not announced to it.            *)
(***************************************************************************)
EXTENDS BrowserSession, SequenceTheorems, TLAPS

IsRead(r) == r.kind \in {"me", "retry", "online", "query", "save"}

(* A session epoch that has begun is the person's choice, confirmed.       *)
TabInv ==
  \A t \in Tabs :
    /\ tab[t].epoch > 0 => tab[t].user = tab[t].chosen /\ ~tab[t].unconfirmed
    /\ ~tab[t].open => tab[t].user = NoUser /\ ~tab[t].unconfirmed

(* A request comes from a page that was loaded and carries tokens that     *)
(* were issued; its answer names who it was authenticated as.              *)
RequestOK(r, issued, tabs) ==
  /\ tabs[r.tab].open
  /\ {r.bearer, r.cookie, r.token} \subseteq 0 .. Len(issued)
  /\ IsMe(r) => r.epoch = 0
  /\ r.status = "waiting" => IsMe(r)
  /\ r.kind = "login" => r.who \in Users
  /\ r.kind = "login" /\ r.status = "ok" => r.token # NoToken /\ issued[r.token].user = r.who
  /\ IsRead(r) /\ r.status = "ok"
       => Presented(r) # NoToken /\ r.who = issued[Presented(r)].user

RequestInv == \A r \in requests : RequestOK(r, tokens, tab)
StorageInv == {stored, cookie} \subseteq 0 .. Len(tokens)

SessionInv == TypeOK /\ TabInv /\ RequestInv /\ StorageInv

(* A tab that is alone.  Its user is the stored token's, and an answer of  *)
(* /auth/me that is not late was asked for with that token.                *)
AloneInv(t) ==
  /\ stored # NoToken => tab[t].open /\ tab[t].user = tokens[stored].user
  /\ tab[t].epoch = 0 /\ stored # NoToken => \A r \in requests : IsMe(r) => r.bearer = stored

(* If all sign in with a password and nothing is saved, then in addition   *)
(* what was asked since the last change of the user was asked as that user.*)
AskedAs(r, issued, s) ==
  /\ r.cookie = NoToken /\ r.kind # "save"
  /\ r.kind = "query" => r.gen <= s.gen
  /\ r.bearer # NoToken /\ (\/ r.kind = "query" /\ r.gen = s.gen
                            \/ IsMe(r) /\ s.epoch = 0)
       => issued[r.bearer].user = s.user

PasswordInv(t) ==
  /\ cookie = NoToken
  /\ tab[t].cache \subseteq {tab[t].user}
  /\ stored # NoToken => scope \in {NoUser, tokens[stored].user}
  /\ tab[t].user # NoUser => scope \in {NoUser, tab[t].user}
  /\ \A r \in requests : AskedAs(r, tokens, tab[t])

-----------------------------------------------------------------------------
(* What the operators make of a tab, a request and the tokens.             *)

LEMMA ShownFields ==
  ASSUME NEW s \in Tab, NEW u \in Users \cup {NoUser}
  PROVE  /\ Shown(s, u) \in Tab /\ Shown(s, u).user = u
         /\ Shown(s, u).open = s.open /\ Shown(s, u).epoch = s.epoch
         /\ Shown(s, u).unconfirmed = s.unconfirmed /\ Shown(s, u).chosen = s.chosen
         /\ s.user = u => Shown(s, u) = s
         /\ s.user # u => Shown(s, u).cache = {} /\ Shown(s, u).gen = s.gen + 1
  <1>1. CASE s.user = u  BY <1>1 DEF Shown, Tab
  <1>2. CASE s.user # u
    <2> DEFINE g == s.gen + 1
    <2>1. s.gen \in Nat /\ g \in Nat  BY DEF Tab
    <2>2. Shown(s, u) = [s EXCEPT !.user = u, !.cache = {}, !.gen = g]  BY <1>2 DEF Shown
    <2> HIDE DEF g
    <2>3. /\ Shown(s, u) \in Tab /\ Shown(s, u).user = u
          /\ Shown(s, u).open = s.open /\ Shown(s, u).epoch = s.epoch
          /\ Shown(s, u).unconfirmed = s.unconfirmed /\ Shown(s, u).chosen = s.chosen
          /\ Shown(s, u).cache = {} /\ Shown(s, u).gen = g
      BY <2>1, <2>2 DEF Tab
    <2> QED  BY <1>2, <2>3 DEF g
  <1> QED  BY <1>1, <1>2

LEMMA SignedInFields ==
  ASSUME NEW s \in Tab, NEW u \in Users
  PROVE  /\ SignedIn(s, u) \in Tab /\ SignedIn(s, u).user = u /\ SignedIn(s, u).chosen = u
         /\ SignedIn(s, u).open = s.open /\ SignedIn(s, u).epoch = s.epoch + 1
         /\ SignedIn(s, u).unconfirmed = FALSE
         /\ SignedIn(s, u).cache = Shown(s, u).cache /\ SignedIn(s, u).gen = Shown(s, u).gen
  <1> DEFINE h == Shown(s, u)
  <1>1. h \in Tab /\ h.user = u /\ h.open = s.open /\ h.epoch = s.epoch  BY ShownFields
  <1> DEFINE e == s.epoch + 1
  <1>2. s.epoch \in Nat /\ e \in Nat  BY DEF Tab
  <1>3. SignedIn(s, u) = [h EXCEPT !.epoch = e, !.unconfirmed = FALSE,
                                   !.loading = FALSE, !.public = FALSE, !.chosen = u]
    BY <1>1 DEF SignedIn
  <1> HIDE DEF h, e
  <1>4. /\ SignedIn(s, u) \in Tab /\ SignedIn(s, u).user = u /\ SignedIn(s, u).chosen = u
        /\ SignedIn(s, u).open = s.open /\ SignedIn(s, u).epoch = e
        /\ SignedIn(s, u).unconfirmed = FALSE
        /\ SignedIn(s, u).cache = h.cache /\ SignedIn(s, u).gen = h.gen
    BY <1>1, <1>2, <1>3 DEF Tab
  <1> QED  BY <1>4 DEF h, e

LEMMA SignedOutFields ==
  ASSUME NEW s \in Tab
  PROVE  /\ SignedOut(s) \in Tab /\ SignedOut(s).user = NoUser /\ SignedOut(s).chosen = NoUser
         /\ SignedOut(s).open = s.open /\ SignedOut(s).epoch = s.epoch + 1
         /\ SignedOut(s).unconfirmed = FALSE
         /\ SignedOut(s).cache = Shown(s, NoUser).cache /\ SignedOut(s).gen = Shown(s, NoUser).gen
  <1> DEFINE h == Shown(s, NoUser)
  <1>1. h \in Tab /\ h.user = NoUser /\ h.open = s.open /\ h.epoch = s.epoch  BY ShownFields
  <1> DEFINE e == s.epoch + 1
  <1>2. s.epoch \in Nat /\ e \in Nat  BY DEF Tab
  <1>3. SignedOut(s) = [h EXCEPT !.epoch = e, !.unconfirmed = FALSE,
                                 !.public = TRUE, !.chosen = NoUser]
    BY <1>1 DEF SignedOut
  <1> HIDE DEF h, e
  <1>4. /\ SignedOut(s) \in Tab /\ SignedOut(s).user = NoUser /\ SignedOut(s).chosen = NoUser
        /\ SignedOut(s).open = s.open /\ SignedOut(s).epoch = e
        /\ SignedOut(s).unconfirmed = FALSE
        /\ SignedOut(s).cache = h.cache /\ SignedOut(s).gen = h.gen
    BY <1>1, <1>2, <1>3 DEF Tab
  <1> QED  BY <1>4 DEF h, e

LEMMA SettledFields ==
  ASSUME NEW s \in Tab, NEW r
  PROVE  /\ Settled(s, r) \in Tab /\ Settled(s, r).user = s.user /\ Settled(s, r).chosen = s.chosen
         /\ Settled(s, r).open = s.open /\ Settled(s, r).epoch = s.epoch
         /\ Settled(s, r).unconfirmed = s.unconfirmed
         /\ Settled(s, r).cache = s.cache /\ Settled(s, r).gen = s.gen
  BY DEF Settled, Tab

(* A page that loads with a token it knows, or with none.                  *)
LEMMA LoadedFields ==
  ASSUME TypeOK, StorageInv, NEW t \in Tabs
  PROVE  LET s == Loaded(t, stored) IN
         /\ s \in Tab /\ s.open /\ s.epoch = 0 /\ s.gen = 0 /\ s.cache = {} /\ ~s.unconfirmed
         /\ s.user = IF stored = NoToken THEN NoUser ELSE tokens[stored].user
  <1> DEFINE u == IF stored = NoToken THEN NoUser ELSE tokens[stored].user
  <1>1. u \in Users \cup {NoUser}
    <2>1. CASE stored = NoToken  BY <2>1
    <2>2. CASE stored # NoToken
      <3>1. stored \in 1 .. Len(tokens)  BY <2>2, LenProperties DEF TypeOK, StorageInv, NoToken
      <3>2. tokens[stored] \in Token  BY <3>1, ElementOfSeq DEF TypeOK
      <3> QED  BY <2>2, <3>2 DEF Token
    <2> QED  BY <2>1, <2>2
  <1> DEFINE p == tab[t].public
             l == (stored = NoToken)
  <1>2. p \in BOOLEAN  BY DEF TypeOK, Tab
  <1>3. l \in BOOLEAN  OBVIOUS
  <1>4. Loaded(t, stored) = [Closed EXCEPT !.open = TRUE, !.public = p, !.loading = l, !.user = u]
    BY DEF Loaded
  <1> HIDE DEF u, l, p
  <1> DEFINE s == [open |-> TRUE, user |-> u, epoch |-> 0, loading |-> l, unconfirmed |-> FALSE,
                   public |-> p, cache |-> {}, gen |-> 0, chosen |-> NoUser]
  <1>6. Loaded(t, stored) = s  BY <1>4 DEF Closed
  <1>7. s \in Tab  BY <1>1, <1>2, <1>3 DEF Tab
  <1>5. /\ Loaded(t, stored) \in Tab /\ Loaded(t, stored).open /\ Loaded(t, stored).epoch = 0
        /\ Loaded(t, stored).gen = 0 /\ Loaded(t, stored).cache = {}
        /\ ~Loaded(t, stored).unconfirmed /\ Loaded(t, stored).user = u
    BY <1>6, <1>7
  <1> QED  BY <1>5 DEF u

LEMMA SendFields ==
  ASSUME TypeOK, NEW t \in Tabs, NEW kind \in Kinds, NEW bearer \in TokenId,
         NEW who \in Users \cup {NoUser}
  PROVE  LET q == Send(t, kind, bearer, who) IN
         /\ q \in Request /\ q.tab = t /\ q.kind = kind /\ q.bearer = bearer /\ q.cookie = cookie
         /\ q.epoch = tab[t].epoch /\ q.gen = tab[t].gen /\ q.who = who /\ q.token = NoToken
         /\ q.status = "sent"
  <1>1. tab[t].epoch \in Nat /\ tab[t].gen \in Nat  BY DEF TypeOK, Tab
  <1>2. NoToken \in TokenId /\ cookie \in TokenId  BY SessionAssumption DEF TypeOK, TokenId, NoToken
  <1> QED  BY <1>1, <1>2 DEF Send, Request

(* The tokens that were issued stay whose they are, and those that were    *)
(* denied stay so.                                                         *)
TokensKept ==
  /\ tokens' \in Seq(Token) /\ Len(tokens') <= MaxTokens /\ Len(tokens) <= Len(tokens')
  /\ \A k \in 1 .. Len(tokens) : tokens'[k].user = tokens[k].user
  /\ \A k \in 1 .. Len(tokens) : tokens[k].denied => tokens'[k].denied

(* A step that denies a token serves a sign-out, with the cookie it sent.  *)
Denials ==
  \/ \A k \in 1 .. Len(tokens) : tokens'[k].denied => tokens[k].denied
  \/ \E q \in requests : q.cookie # NoToken => tokens'[q.cookie].denied

LEMMA SameTokens ==
  ASSUME TypeOK, UNCHANGED tokens
  PROVE  TokensKept /\ Denials
  BY LenProperties DEF TypeOK, TokensKept, Denials

LEMMA IssueKeeps ==
  ASSUME TypeOK, NEW u \in Users, Len(tokens) < MaxTokens, tokens' = NewToken(u)
  PROVE  /\ TokensKept /\ Denials /\ Len(tokens') = Len(tokens) + 1
         /\ tokens'[Len(tokens) + 1].user = u /\ ~tokens'[Len(tokens) + 1].denied
  <1> DEFINE n == [user |-> u, version |-> version[u], denied |-> FALSE]
  <1>1. n \in Token /\ n.user = u /\ ~n.denied  BY DEF TypeOK, Token
  <1>2. tokens' = Append(tokens, n)  BY DEF NewToken
  <1>3. tokens \in Seq(Token) /\ Len(tokens) \in Nat /\ MaxTokens \in Nat
    BY LenProperties, SessionAssumption DEF TypeOK
  <1> HIDE DEF n
  <1>4. /\ tokens' \in Seq(Token) /\ Len(tokens') = Len(tokens) + 1
        /\ \A k \in 1 .. Len(tokens) : tokens'[k] = tokens[k]
        /\ tokens'[Len(tokens) + 1] = n
    BY <1>1, <1>2, <1>3, AppendProperties
  <1> QED  BY <1>1, <1>3, <1>4 DEF TokensKept, Denials

LEMMA DenyKeeps ==
  ASSUME TypeOK, NEW r, tokens' = Denied(r)
  PROVE  /\ TokensKept
         /\ \A k \in 1 .. Len(tokens) : k \in {r.bearer, r.cookie} => tokens'[k].denied
  <1> DEFINE n == Len(tokens)
  <1>1. n \in Nat /\ DOMAIN tokens = 1 .. n /\ \A k \in 1 .. n : tokens[k] \in Token
    BY LenProperties, ElementOfSeq DEF TypeOK
  <1>2. \A k \in 1 .. n :
          LET d == [tokens[k] EXCEPT !.denied = @ \/ k \in {r.bearer, r.cookie}] IN
          d \in Token /\ d.user = tokens[k].user
    BY <1>1 DEF Token
  <1>6. ASSUME NEW k \in 1 .. n, tokens[k].denied \/ k \in {r.bearer, r.cookie}
        PROVE  tokens'[k].denied
    <2> DEFINE b == tokens[k].denied \/ k \in {r.bearer, r.cookie}
    <2>1. tokens'[k] = [tokens[k] EXCEPT !.denied = b]  BY <1>1 DEF Denied
    <2>2. b  BY <1>6
    <2> HIDE DEF b
    <2>3. tokens'[k].denied = b  BY <1>1, <2>1 DEF Token
    <2> QED  BY <2>2, <2>3
  <1> HIDE DEF n
  <1>3. /\ tokens' \in [1 .. n -> Token]
        /\ \A k \in 1 .. n : tokens'[k].user = tokens[k].user
    BY <1>1, <1>2 DEF Denied
  <1>4. tokens' \in Seq(Token)  BY <1>1, <1>3, SeqDef
  <1>5. Len(tokens') = n  BY <1>1, <1>3, <1>4, LenProperties
  <1> QED  BY <1>1, <1>3, <1>4, <1>5, <1>6 DEF TokensKept, TypeOK, n

-----------------------------------------------------------------------------
(* How a step may change the requests, and a tab.                          *)

LEMMA RequestFacts ==
  ASSUME SessionInv, NEW r \in requests
  PROVE  /\ r \in Request /\ r.tab \in Tabs /\ tab[r.tab] \in Tab /\ RequestOK(r, tokens, tab)
         /\ tab[r.tab].open /\ Len(tokens) \in Nat
  BY LenProperties DEF SessionInv, TypeOK, RequestInv, RequestOK, Request

(* A request that is left as it is, and the new ones.                      *)
LEMMA RequestsStep ==
  ASSUME SessionInv, TokensKept, NEW N \in SUBSET Request,
         \A t \in Tabs : tab[t].open => tab'[t].open,
         \A n \in N : RequestOK(n, tokens', tab'),
         requests' \subseteq requests \cup N
  PROVE  requests' \subseteq Request /\ RequestInv'
  <1>1. ASSUME NEW r \in requests PROVE RequestOK(r, tokens', tab')
    <2>1. /\ r.tab \in Tabs /\ RequestOK(r, tokens, tab) /\ Len(tokens) \in Nat /\ r \in Request
      BY <1>1, RequestFacts
    <2>2. Len(tokens') \in Nat  BY LenProperties DEF TokensKept
    <2>3. \A k \in 0 .. Len(tokens) :
            /\ k \in 0 .. Len(tokens')
            /\ k # NoToken => tokens'[k].user = tokens[k].user
      BY <2>1, <2>2 DEF TokensKept, NoToken
    <2>4. /\ r.bearer \in 0 .. Len(tokens) /\ r.cookie \in 0 .. Len(tokens)
          /\ r.token \in 0 .. Len(tokens) /\ Presented(r) \in 0 .. Len(tokens)
      BY <2>1 DEF RequestOK, Presented
    <2> QED  BY <2>1, <2>3, <2>4 DEF RequestOK
  <1>2. requests' \subseteq Request  BY DEF SessionInv, TypeOK
  <1> QED  BY <1>1, <1>2 DEF RequestInv

TabOK(s) ==
  /\ s.epoch > 0 => s.user = s.chosen /\ ~s.unconfirmed
  /\ ~s.open => s.user = NoUser /\ ~s.unconfirmed

LEMMA TabStep ==
  ASSUME SessionInv, NEW t \in Tabs, NEW s \in Tab, tab[t].open => s.open, TabOK(s),
         tab' = [tab EXCEPT ![t] = s]
  PROVE  /\ tab' \in [Tabs -> Tab] /\ tab'[t] = s /\ TabInv'
         /\ \A p \in Tabs \ {t} : tab'[p] = tab[p]
         /\ \A p \in Tabs : tab[p].open => tab'[p].open
  <1>1. /\ tab' \in [Tabs -> Tab] /\ tab'[t] = s
        /\ \A p \in Tabs \ {t} : tab'[p] = tab[p]
    BY DEF SessionInv, TypeOK
  <1>2. ASSUME NEW p \in Tabs PROVE TabOK(tab'[p])
    BY <1>1, <1>2 DEF SessionInv, TabInv, TabOK
  <1> QED  BY <1>1, <1>2 DEF TabInv, TabOK

(* Nothing of a tab's own changes.                                         *)
LEMMA TabsStay ==
  ASSUME SessionInv, UNCHANGED tab
  PROVE  tab' \in [Tabs -> Tab] /\ TabInv' /\ \A p \in Tabs : tab[p].open => tab'[p].open
  BY DEF SessionInv, TypeOK, TabInv

(* Storage that keeps what it has or forgets it.                           *)
LEMMA StorageStep ==
  ASSUME SessionInv, TokensKept,
         stored' \in {NoToken, stored}, cookie' \in {NoToken, cookie},
         scope' \in Users \cup {NoUser}, version' \in [Users -> Nat],
         tab' \in [Tabs -> Tab], TabInv', requests' \subseteq Request, RequestInv'
  PROVE  SessionInv'
  <1>1. NoToken \in 0 .. Len(tokens') /\ NoToken \in TokenId
    BY LenProperties, SessionAssumption DEF TokensKept, NoToken, TokenId
  <1>2. stored' \in 0 .. Len(tokens') /\ cookie' \in 0 .. Len(tokens')
    BY <1>1, LenProperties DEF SessionInv, TypeOK, StorageInv, TokensKept
  <1>3. stored' \in TokenId /\ cookie' \in TokenId  BY <1>1 DEF SessionInv, TypeOK
  <1> QED  BY <1>2, <1>3 DEF SessionInv, TypeOK, StorageInv, TokensKept

-----------------------------------------------------------------------------
(* The server.                                                             *)

LEMMA AnswerStep ==
  ASSUME SessionInv, TokensKept, NEW r \in requests, NEW n \in Request,
         RequestOK(n, tokens', tab'),
         requests' = (requests \ {r}) \cup {n},
         version' \in [Users -> Nat], UNCHANGED <<stored, cookie, scope, tab>>
  PROVE  SessionInv'
  <1>1. tab' \in [Tabs -> Tab] /\ TabInv' /\ \A p \in Tabs : tab[p].open => tab'[p].open
    BY TabsStay
  <1>2. requests' \subseteq Request /\ RequestInv'
    <2>1. requests' \subseteq requests \cup {n}  OBVIOUS
    <2> QED  BY <1>1, <2>1, RequestsStep, {n} \in SUBSET Request
  <1>3. scope' \in Users \cup {NoUser}  BY DEF SessionInv, TypeOK
  <1> QED  BY <1>1, <1>2, <1>3, StorageStep

LEMMA ServeReadStep ==
  ASSUME SessionInv, NEW r \in requests, ServeRead(r)
  PROVE  SessionInv'
  <1>1. /\ r \in Request /\ RequestOK(r, tokens, tab) /\ Len(tokens) \in Nat
        /\ version \in [Users -> Nat]
    BY RequestFacts DEF SessionInv, TypeOK
  <1>2. TokensKept  BY SameTokens DEF ServeRead, SessionInv
  <1>3. CASE Accepted(Presented(r))
    <2> DEFINE u == tokens[Presented(r)].user
               n == [r EXCEPT !.status = "ok", !.who = u]
    <2>1. Presented(r) \in 1 .. Len(tokens) /\ Presented(r) # NoToken
      BY <1>1, <1>3 DEF Accepted, Presented, RequestOK, NoToken
    <2>2. u \in Users
      <3>1. tokens[Presented(r)] \in Token  BY <2>1, ElementOfSeq DEF SessionInv, TypeOK
      <3> QED  BY <3>1 DEF Token
    <2>3. requests' = (requests \ {r}) \cup {n}  BY <1>3 DEF ServeRead, Answer
    <2> HIDE DEF u
    <2>4. /\ n \in Request /\ n.tab = r.tab /\ n.kind = r.kind /\ n.bearer = r.bearer
          /\ n.cookie = r.cookie /\ n.epoch = r.epoch /\ n.token = r.token
          /\ n.status = "ok" /\ n.who = u
      BY <1>1, <2>2 DEF Request
    <2>5. Presented(n) = Presented(r) /\ IsRead(n) /\ r.kind # "login"
      BY <2>4 DEF Presented, ServeRead, IsRead
    <2> HIDE DEF n
    <2>6. RequestOK(n, tokens', tab')
      BY <1>1, <2>1, <2>4, <2>5 DEF RequestOK, ServeRead, IsMe, u
    <2> QED  BY <1>1, <1>2, <2>3, <2>4, <2>6, AnswerStep DEF ServeRead
  <1>4. CASE ~Accepted(Presented(r))
    <2> DEFINE n == [r EXCEPT !.status = "unauthorized", !.who = NoUser]
    <2>3. requests' = (requests \ {r}) \cup {n}  BY <1>4 DEF ServeRead, Answer
    <2>4. /\ n \in Request /\ n.tab = r.tab /\ n.kind = r.kind /\ n.bearer = r.bearer
          /\ n.cookie = r.cookie /\ n.epoch = r.epoch /\ n.token = r.token
          /\ n.status = "unauthorized"
      BY <1>1 DEF Request
    <2>5. r.kind # "login"  BY DEF ServeRead
    <2> HIDE DEF n
    <2>6. RequestOK(n, tokens', tab')
      BY <1>1, <2>4, <2>5 DEF RequestOK, ServeRead, IsMe
    <2> QED  BY <1>1, <1>2, <2>3, <2>4, <2>6, AnswerStep DEF ServeRead
  <1> QED  BY <1>3, <1>4

LEMMA ServeLogoutStep ==
  ASSUME SessionInv, NEW r \in requests, ServeLogout(r)
  PROVE  SessionInv'
  <1>1. /\ r \in Request /\ RequestOK(r, tokens, tab) /\ Len(tokens) \in Nat
        /\ version' \in [Users -> Nat]
    BY RequestFacts DEF SessionInv, TypeOK, ServeLogout
  <1>2. TokensKept  BY DenyKeeps DEF ServeLogout, SessionInv
  <1> DEFINE n == [r EXCEPT !.status = "ok", !.who = NoUser]
  <1>3. requests' = (requests \ {r}) \cup {n}  BY DEF ServeLogout, Answer
  <1>4. /\ n \in Request /\ n.tab = r.tab /\ n.kind = "logout" /\ n.bearer = r.bearer
        /\ n.cookie = r.cookie /\ n.token = r.token /\ n.status = "ok"
    BY <1>1 DEF Request, ServeLogout
  <1> HIDE DEF n
  <1>5. Len(tokens') \in Nat /\ Len(tokens) <= Len(tokens')  BY <1>2, LenProperties DEF TokensKept
  <1>6. tab' = tab  BY DEF ServeLogout
  <1>7. RequestOK(n, tokens', tab')
    BY <1>1, <1>4, <1>5, <1>6 DEF RequestOK, IsMe, IsRead
  <1> QED  BY <1>1, <1>2, <1>3, <1>4, <1>7, AnswerStep DEF ServeLogout

LEMMA ServeLoginStep ==
  ASSUME SessionInv, NEW r \in requests, ServeLogin(r)
  PROVE  SessionInv'
  <1>1. /\ r \in Request /\ RequestOK(r, tokens, tab) /\ Len(tokens) \in Nat
        /\ version' \in [Users -> Nat] /\ MaxTokens \in Nat
    BY RequestFacts, SessionAssumption DEF SessionInv, TypeOK, ServeLogin
  <1>2. r.who \in Users  BY <1>1 DEF RequestOK, ServeLogin
  <1>3. /\ TokensKept /\ Len(tokens') = Len(tokens) + 1
        /\ tokens'[Len(tokens) + 1].user = r.who
    BY <1>2, IssueKeeps DEF ServeLogin, SessionInv
  <1> DEFINE k == Len(tokens) + 1
             n == [r EXCEPT !.status = "ok", !.token = k]
  <1>4. requests' = (requests \ {r}) \cup {n}  BY DEF ServeLogin
  <1>5. k \in 0 .. MaxTokens /\ k # NoToken  BY <1>1 DEF ServeLogin, NoToken
  <1> HIDE DEF k
  <1>6. /\ n \in Request /\ n.tab = r.tab /\ n.kind = "login" /\ n.bearer = r.bearer
        /\ n.cookie = r.cookie /\ n.token = k /\ n.who = r.who /\ n.status = "ok"
    BY <1>1, <1>5 DEF Request, ServeLogin, TokenId, NoToken
  <1> HIDE DEF n
  <1>7. {n.bearer, n.cookie, n.token} \subseteq 0 .. Len(tokens')
    BY <1>1, <1>3, <1>6 DEF RequestOK, k
  <1>8. tab' = tab  BY DEF ServeLogin
  <1>9. tokens'[n.token].user = n.who  BY <1>3, <1>6 DEF k
  <1>10. RequestOK(n, tokens', tab')
    BY <1>1, <1>2, <1>5, <1>6, <1>7, <1>8, <1>9 DEF RequestOK, IsMe, IsRead
  <1> QED  BY <1>1, <1>3, <1>4, <1>6, <1>10, AnswerStep DEF ServeLogin

LEMMA FailStep ==
  ASSUME SessionInv, NEW r \in requests, Fail(r)
  PROVE  SessionInv'
  <1>1. /\ r \in Request /\ RequestOK(r, tokens, tab) /\ Len(tokens) \in Nat
        /\ version' \in [Users -> Nat]
    BY RequestFacts DEF SessionInv, TypeOK, Fail
  <1>2. TokensKept  BY SameTokens DEF Fail, SessionInv
  <1> DEFINE n == [r EXCEPT !.status = "error", !.who = r.who]
  <1>3. requests' = (requests \ {r}) \cup {n}  BY DEF Fail, Answer
  <1>4. /\ n \in Request /\ n.tab = r.tab /\ n.kind = r.kind /\ n.bearer = r.bearer
        /\ n.cookie = r.cookie /\ n.epoch = r.epoch /\ n.token = r.token /\ n.who = r.who
        /\ n.status = "error"
    BY <1>1 DEF Request
  <1> HIDE DEF n
  <1>5. RequestOK(n, tokens', tab')
    BY <1>1, <1>4 DEF RequestOK, Fail, IsMe
  <1> QED  BY <1>1, <1>2, <1>3, <1>4, <1>5, AnswerStep DEF Fail

LEMMA RevokeStep ==
  ASSUME SessionInv, NEW u \in Users, RevokeElsewhere(u)
  PROVE  SessionInv'
  <1>1. version' \in [Users -> Nat]  BY DEF SessionInv, TypeOK, RevokeElsewhere
  <1>2. TokensKept  BY SameTokens DEF RevokeElsewhere, SessionInv
  <1>3. tab' \in [Tabs -> Tab] /\ TabInv' /\ \A p \in Tabs : tab[p].open => tab'[p].open
    BY TabsStay DEF RevokeElsewhere
  <1>4. requests' \subseteq Request /\ RequestInv'
    BY <1>2, <1>3, RequestsStep, {} \in SUBSET Request DEF RevokeElsewhere
  <1> QED  BY <1>1, <1>2, <1>3, <1>4, StorageStep DEF RevokeElsewhere, SessionInv, TypeOK

-----------------------------------------------------------------------------
(* A tab.  Most of what it does leaves the tokens alone.                   *)

LEMMA TabActs ==
  ASSUME SessionInv, UNCHANGED <<version, tokens>>,
         NEW t \in Tabs, NEW s \in Tab, tab[t].open => s.open, TabOK(s),
         tab' = [tab EXCEPT ![t] = s],
         NEW N \in SUBSET Request, \A n \in N : RequestOK(n, tokens, tab'),
         requests' \subseteq requests \cup N,
         stored' \in {NoToken, stored}, cookie' \in {NoToken, cookie},
         scope' \in Users \cup {NoUser}
  PROVE  SessionInv'
  <1>1. TokensKept  BY SameTokens DEF SessionInv
  <1>2. /\ tab' \in [Tabs -> Tab] /\ TabInv'
        /\ \A p \in Tabs : tab[p].open => tab'[p].open
    BY TabStep
  <1>3. requests' \subseteq Request /\ RequestInv'  BY <1>1, <1>2, RequestsStep
  <1>4. version' \in [Users -> Nat]  BY DEF SessionInv, TypeOK
  <1> QED  BY <1>1, <1>2, <1>3, <1>4, StorageStep

LEMMA TabSends ==
  ASSUME SessionInv, UNCHANGED <<version, tokens, tab>>,
         NEW N \in SUBSET Request, \A n \in N : RequestOK(n, tokens, tab),
         requests' \subseteq requests \cup N,
         stored' \in {NoToken, stored}, cookie' \in {NoToken, cookie},
         scope' \in Users \cup {NoUser}
  PROVE  SessionInv'
  <1>1. TokensKept  BY SameTokens DEF SessionInv
  <1>2. /\ tab' \in [Tabs -> Tab] /\ TabInv'
        /\ \A p \in Tabs : tab[p].open => tab'[p].open
    BY TabsStay
  <1>3. requests' \subseteq Request /\ RequestInv'  BY <1>1, <1>2, RequestsStep
  <1>4. version' \in [Users -> Nat]  BY DEF SessionInv, TypeOK
  <1> QED  BY <1>1, <1>2, <1>3, <1>4, StorageStep

LEMMA TabFacts ==
  ASSUME SessionInv, NEW t \in Tabs
  PROVE  /\ tab[t] \in Tab /\ TabOK(tab[t]) /\ tab[t].epoch \in Nat
         /\ tab[t].user \in Users \cup {NoUser}
         /\ stored \in 0 .. Len(tokens) /\ stored \in TokenId
         /\ cookie \in 0 .. Len(tokens) /\ cookie \in TokenId
         /\ NoToken \in 0 .. Len(tokens) /\ NoToken \in TokenId /\ Len(tokens) \in Nat
         /\ scope \in Users \cup {NoUser}
  <1>1. Len(tokens) \in Nat  BY LenProperties DEF SessionInv, TypeOK
  <1> QED
    BY <1>1, SessionAssumption
    DEF SessionInv, TypeOK, TabInv, TabOK, StorageInv, Tab, NoToken, TokenId

(* What a page that is loaded sends: anything but /auth/me, or that one    *)
(* at epoch 0.                                                             *)
LEMMA SendOK ==
  ASSUME SessionInv, NEW t \in Tabs, tab[t].open, NEW kind \in Kinds,
         NEW bearer \in {NoToken, stored}, NEW who \in Users \cup {NoUser},
         kind = "login" => who \in Users,
         kind \in {"me", "retry", "online"} => tab[t].epoch = 0,
         NEW tabs, tabs[t].open
  PROVE  /\ Send(t, kind, bearer, who) \in Request
         /\ RequestOK(Send(t, kind, bearer, who), tokens, tabs)
  <1> DEFINE n == Send(t, kind, bearer, who)
  <1>1. bearer \in TokenId /\ bearer \in 0 .. Len(tokens)  BY TabFacts
  <1>2. /\ n \in Request /\ n.tab = t /\ n.kind = kind /\ n.bearer = bearer /\ n.cookie = cookie
        /\ n.epoch = tab[t].epoch /\ n.who = who /\ n.token = NoToken /\ n.status = "sent"
    BY <1>1, SendFields DEF SessionInv
  <1>3. cookie \in 0 .. Len(tokens) /\ NoToken \in 0 .. Len(tokens)  BY TabFacts
  <1> HIDE DEF n
  <1>4. RequestOK(n, tokens, tabs)
    BY <1>1, <1>2, <1>3 DEF RequestOK, IsMe
  <1> QED  BY <1>2, <1>4 DEF n

(* logout(), with or without a request to handle.                          *)
LEMMA SignOutStep ==
  ASSUME SessionInv, UNCHANGED <<version, tokens, cookie>>,
         NEW t \in Tabs, tab[t].open, NEW s \in Tab,
         s.user = NoUser, s.chosen = NoUser, ~s.unconfirmed, s.open,
         tab' = [tab EXCEPT ![t] = s],
         NEW bearer \in {NoToken, stored},
         requests' \subseteq requests \cup {Send(t, "logout", bearer, NoUser)},
         stored' = NoToken, scope' = NoUser
  PROVE  SessionInv'
  <1> DEFINE n == Send(t, "logout", bearer, NoUser)
  <1>1. tab'[t].open  BY DEF SessionInv, TypeOK
  <1>2. n \in Request /\ RequestOK(n, tokens, tab')
    <2>1. "logout" \in Kinds /\ NoUser \in Users \cup {NoUser}  BY DEF Kinds
    <2> QED  BY <1>1, <2>1, SendOK
  <1>3. TabOK(s)  BY DEF TabOK
  <1> HIDE DEF n
  <1>4. {n} \in SUBSET Request /\ \A m \in {n} : RequestOK(m, tokens, tab')  BY <1>2
  <1>5. requests' \subseteq requests \cup {n}  BY DEF n
  <1> QED  BY <1>3, <1>4, <1>5, TabActs

LEMMA LogoutStep ==
  ASSUME SessionInv, NEW t \in Tabs, Logout(t)
  PROVE  SessionInv'
  <1>1. tab[t] \in Tab /\ tab[t].open  BY TabFacts DEF Logout, TabOK
  <1>2. requests' \subseteq requests \cup {Send(t, "logout", stored, NoUser)}
    BY DEF Logout, EndSession
  <1>3. tab' = [tab EXCEPT ![t] = SignedOut(tab[t])]
    BY DEF Logout, EndSession, SessionInv, TypeOK
  <1>4. UNCHANGED <<version, tokens, cookie>> /\ stored' = NoToken /\ scope' = NoUser
    BY DEF Logout, EndSession
  <1> QED  BY <1>1, <1>2, <1>3, <1>4, SignedOutFields, SignOutStep

LEMMA CallRefusedStep ==
  ASSUME SessionInv, NEW r \in requests, CallRefused(r)
  PROVE  SessionInv'
  <1>1. r.tab \in Tabs /\ tab[r.tab] \in Tab /\ tab[r.tab].open  BY RequestFacts
  <1>2. CASE tab[r.tab].public
    <2>1. /\ UNCHANGED <<version, tokens, tab, scope, cookie>> /\ stored' = NoToken
          /\ requests' \subseteq requests \cup {}
      BY <1>2 DEF CallRefused
    <2>2. {} \in SUBSET Request  OBVIOUS
    <2>3. scope' \in Users \cup {NoUser}  BY <2>1 DEF SessionInv, TypeOK
    <2> QED  BY <2>1, <2>2, <2>3, TabSends
  <1>3. CASE ~tab[r.tab].public
    <2>1. requests' \subseteq requests \cup {Send(r.tab, "logout", NoToken, NoUser)}
      BY <1>3 DEF CallRefused, EndSession
    <2>2. tab' = [tab EXCEPT ![r.tab] = SignedOut(tab[r.tab])]
      BY <1>1, <1>3 DEF CallRefused, EndSession, SessionInv, TypeOK
    <2>3. UNCHANGED <<version, tokens, cookie>> /\ stored' = NoToken /\ scope' = NoUser
      BY <1>3 DEF CallRefused, EndSession
    <2> QED  BY <1>1, <2>1, <2>2, <2>3, SignedOutFields, SignOutStep
  <1> QED  BY <1>2, <1>3

LEMMA MeRefusedStep ==
  ASSUME SessionInv, NEW r \in requests, MeRefused(r)
  PROVE  SessionInv'
  <1> DEFINE h == SignedOut(tab[r.tab])
             s == Settled(h, r)
  <1>1. r.tab \in Tabs /\ tab[r.tab] \in Tab /\ tab[r.tab].open  BY RequestFacts
  <1>2. /\ s \in Tab /\ s.user = NoUser /\ s.chosen = NoUser /\ ~s.unconfirmed /\ s.open
    <2>1. h \in Tab /\ h.user = NoUser /\ h.chosen = NoUser /\ ~h.unconfirmed /\ h.open
      BY <1>1, SignedOutFields
    <2> HIDE DEF h
    <2> QED  BY <2>1, SettledFields
  <1>3. requests' \subseteq requests \cup {Send(r.tab, "logout", stored, NoUser)}
    BY DEF MeRefused
  <1>4. tab' = [tab EXCEPT ![r.tab] = s]
    BY <1>1 DEF MeRefused, SessionInv, TypeOK
  <1>5. UNCHANGED <<version, tokens, cookie>> /\ stored' = NoToken /\ scope' = NoUser
    BY DEF MeRefused
  <1> HIDE DEF s
  <1> QED  BY <1>1, <1>2, <1>3, <1>4, <1>5, SignOutStep

(* Answers that change no more than how the tab that asked is shown.       *)
LEMMA HandledStep ==
  ASSUME SessionInv, UNCHANGED <<version, tokens, stored, scope>>, cookie' \in {NoToken, cookie},
         NEW t \in Tabs, NEW s \in Tab, tab[t].open => s.open, TabOK(s),
         tab' = [tab EXCEPT ![t] = s], requests' \subseteq requests
  PROVE  SessionInv'
  <1>1. {} \in SUBSET Request /\ requests' \subseteq requests \cup {}  OBVIOUS
  <1>2. scope' \in Users \cup {NoUser}  BY DEF SessionInv, TypeOK
  <1>3. \A n \in {} : RequestOK(n, tokens, tab')  OBVIOUS
  <1> QED  BY <1>1, <1>2, <1>3, TabActs

LEMMA MeAcceptedStep ==
  ASSUME SessionInv, NEW r \in requests, MeAccepted(r)
  PROVE  SessionInv'
  <1> DEFINE old == tab[r.tab]
  <1>1. /\ r.tab \in Tabs /\ old \in Tab /\ TabOK(old) /\ old.open /\ RequestOK(r, tokens, tab)
        /\ r \in Request
    BY RequestFacts, TabFacts
  <1>2. r.who \in Users \cup {NoUser}  BY <1>1 DEF Request
  <1>3. UNCHANGED <<version, tokens, stored, scope, cookie>> /\ requests' \subseteq requests
    BY DEF MeAccepted
  <1>4. CASE Stale(r)
    <2> DEFINE s == Settled(old, r)
    <2>1. s \in Tab /\ s.open /\ TabOK(s)  BY <1>1, SettledFields DEF TabOK
    <2>2. tab' = [tab EXCEPT ![r.tab] = s]  BY <1>1, <1>4 DEF MeAccepted, SessionInv, TypeOK
    <2> HIDE DEF s
    <2> QED  BY <1>1, <1>3, <2>1, <2>2, HandledStep
  <1>5. CASE ~Stale(r)
    <2> DEFINE h == Settled(Shown(old, r.who), r)
               s == [h EXCEPT !.unconfirmed = FALSE]
    <2>1. old.epoch = 0  BY <1>1, <1>5 DEF MeAccepted, Stale, RequestOK
    <2>2. h \in Tab /\ h.open /\ h.epoch = 0  BY <1>1, <1>2, <2>1, ShownFields, SettledFields
    <2>3. tab' = [tab EXCEPT ![r.tab] = s]  BY <1>1, <1>5 DEF MeAccepted, SessionInv, TypeOK
    <2> HIDE DEF h
    <2>4. s \in Tab /\ s.open /\ s.epoch = 0  BY <2>2 DEF Tab
    <2>5. TabOK(s)  BY <2>4 DEF TabOK
    <2> HIDE DEF s
    <2> QED  BY <1>1, <1>3, <2>3, <2>4, <2>5, HandledStep
  <1> QED  BY <1>4, <1>5

LEMMA MeIgnoredStep ==
  ASSUME SessionInv, NEW r \in requests, MeIgnored(r)
  PROVE  SessionInv'
  <1> DEFINE old == tab[r.tab]
             s   == Settled(old, r)
  <1>1. r.tab \in Tabs /\ old \in Tab /\ TabOK(old) /\ old.open  BY RequestFacts, TabFacts
  <1>2. s \in Tab /\ s.open /\ TabOK(s)  BY <1>1, SettledFields DEF TabOK
  <1>3. tab' = [tab EXCEPT ![r.tab] = s]  BY <1>1 DEF MeIgnored, SessionInv, TypeOK
  <1>4. UNCHANGED <<version, tokens, stored, scope, cookie>> /\ requests' \subseteq requests
    BY DEF MeIgnored
  <1> HIDE DEF s
  <1> QED  BY <1>1, <1>2, <1>3, <1>4, HandledStep

LEMMA MeFailsStep ==
  ASSUME SessionInv, NEW r \in requests, MeFails(r)
  PROVE  SessionInv'
  <1> DEFINE old == tab[r.tab]
  <1>1. /\ r.tab \in Tabs /\ old \in Tab /\ TabOK(old) /\ old.open /\ r \in Request
        /\ RequestOK(r, tokens, tab)
    BY RequestFacts, TabFacts
  <1>2. CASE r.kind = "me"
    <2> DEFINE n == [r EXCEPT !.kind = "retry", !.status = "waiting"]
    <2>1. /\ n \in Request /\ n.tab = r.tab /\ n.bearer = r.bearer /\ n.cookie = r.cookie
          /\ n.token = r.token /\ n.epoch = r.epoch /\ n.kind = "retry" /\ n.status = "waiting"
      BY <1>1 DEF Request, Kinds
    <2>2. requests' \subseteq requests \cup {n} /\ tab' = tab  BY <1>2 DEF MeFails
    <2> HIDE DEF n
    <2>3. RequestOK(n, tokens, tab)  BY <1>1, <1>2, <2>1 DEF RequestOK, IsMe
    <2>4. {n} \in SUBSET Request /\ \A m \in {n} : RequestOK(m, tokens, tab)  BY <2>1, <2>3
    <2>5. UNCHANGED <<version, tokens, tab, stored, cookie, scope>>  BY <2>2 DEF MeFails
    <2>6. scope' \in Users \cup {NoUser}  BY <2>5 DEF SessionInv, TypeOK
    <2> QED  BY <2>2, <2>4, <2>5, <2>6, TabSends
  <1>3. CASE r.kind # "me"
    <2> DEFINE b == old.unconfirmed \/ r.bearer # NoToken
               s == GivenUp(old, r)
    <2>1. old.epoch = 0  BY <1>1 DEF MeFails, Stale, RequestOK, IsMe
    <2>2. b \in BOOLEAN  BY <1>1 DEF Tab
    <2>3. tab' = [tab EXCEPT ![r.tab] = s]
      BY <1>1, <1>3 DEF MeFails, SessionInv, TypeOK
    <2>7. s = [old EXCEPT !.loading = FALSE, !.unconfirmed = b]  BY DEF GivenUp
    <2> HIDE DEF b, s
    <2>4. s \in Tab /\ s.open /\ s.epoch = 0  BY <1>1, <2>1, <2>2, <2>7 DEF Tab
    <2>5. TabOK(s)  BY <2>4 DEF TabOK
    <2>6. UNCHANGED <<version, tokens, stored, scope, cookie>> /\ requests' \subseteq requests
      BY <1>3 DEF MeFails
    <2> QED  BY <1>1, <2>3, <2>4, <2>5, <2>6, HandledStep
  <1> QED  BY <1>2, <1>3

LEMMA RetryStep ==
  ASSUME SessionInv, NEW r \in requests, Retry(r)
  PROVE  SessionInv'
  <1>1. r \in Request /\ RequestOK(r, tokens, tab) /\ r.tab \in Tabs  BY RequestFacts
  <1>2. cookie \in TokenId /\ cookie \in 0 .. Len(tokens)  BY <1>1, TabFacts
  <1> DEFINE n == [r EXCEPT !.status = "sent", !.cookie = cookie]
  <1>3. /\ n \in Request /\ n.tab = r.tab /\ n.bearer = r.bearer /\ n.cookie = cookie
        /\ n.token = r.token /\ n.epoch = r.epoch /\ n.kind = r.kind /\ n.who = r.who
        /\ n.status = "sent"
    BY <1>1, <1>2 DEF Request
  <1>4. requests' \subseteq requests \cup {n}  BY DEF Retry
  <1> HIDE DEF n
  <1>5. RequestOK(n, tokens, tab)  BY <1>1, <1>2, <1>3 DEF RequestOK, IsMe
  <1>6. {n} \in SUBSET Request /\ \A m \in {n} : RequestOK(m, tokens, tab)  BY <1>3, <1>5
  <1>7. UNCHANGED <<version, tokens, tab, stored, cookie, scope>>  BY DEF Retry
  <1>8. scope' \in Users \cup {NoUser}  BY <1>7 DEF SessionInv, TypeOK
  <1> QED  BY <1>4, <1>6, <1>7, <1>8, TabSends

LEMMA CallAnsweredStep ==
  ASSUME SessionInv, NEW r \in requests, CallAnswered(r)
  PROVE  SessionInv'
  <1> DEFINE old == tab[r.tab]
             c == IF r.status = "ok" /\ (r.kind = "save" \/ r.gen = old.gen)
                  THEN old.cache \cup {r.who} ELSE old.cache
             s == [old EXCEPT !.cache = c]
  <1>1. /\ r.tab \in Tabs /\ old \in Tab /\ TabOK(old) /\ old.open /\ RequestOK(r, tokens, tab)
    BY RequestFacts, TabFacts
  <1>2. c \in SUBSET Users
    <2>1. old.cache \in SUBSET Users  BY <1>1 DEF Tab
    <2>2. CASE r.status = "ok"
      <3>1. /\ Presented(r) \in 0 .. Len(tokens) /\ Presented(r) # NoToken
            /\ r.who = tokens[Presented(r)].user
        BY <1>1, <2>2 DEF RequestOK, IsRead, CallAnswered, Presented
      <3>2. Presented(r) \in 1 .. Len(tokens)
        BY <3>1, LenProperties DEF NoToken, SessionInv, TypeOK
      <3>3. tokens[Presented(r)] \in Token  BY <3>2, ElementOfSeq DEF SessionInv, TypeOK
      <3>4. r.who \in Users  BY <3>1, <3>3 DEF Token
      <3> QED  BY <2>1, <3>4
    <2>3. CASE r.status # "ok"  BY <2>1, <2>3
    <2> QED  BY <2>2, <2>3
  <1>3. tab' = [tab EXCEPT ![r.tab] = s]
    BY <1>1 DEF CallAnswered, SessionInv, TypeOK
  <1> HIDE DEF c
  <1>4. s \in Tab /\ s.open /\ TabOK(s)  BY <1>1, <1>2 DEF Tab, TabOK
  <1>5. UNCHANGED <<version, tokens, stored, scope, cookie>> /\ requests' \subseteq requests
    BY DEF CallAnswered
  <1> HIDE DEF s
  <1> QED  BY <1>1, <1>3, <1>4, <1>5, HandledStep

LEMMA NavigateStep ==
  ASSUME SessionInv, NEW t \in Tabs, Navigate(t)
  PROVE  SessionInv'
  <1> DEFINE b == ~tab[t].public
             s == [tab[t] EXCEPT !.public = b]
  <1>1. tab[t] \in Tab /\ TabOK(tab[t])  BY TabFacts
  <1>2. b \in BOOLEAN  OBVIOUS
  <1>3. tab' = [tab EXCEPT ![t] = s]  BY DEF Navigate, SessionInv, TypeOK
  <1> HIDE DEF b
  <1>4. s \in Tab /\ s.open = tab[t].open /\ TabOK(s)  BY <1>1, <1>2 DEF Tab, TabOK
  <1>5. UNCHANGED <<version, tokens, stored, scope, cookie>> /\ requests' \subseteq requests
    BY DEF Navigate
  <1> HIDE DEF s
  <1> QED  BY <1>3, <1>4, <1>5, HandledStep

(* Steps that leave the tabs as they are and send nothing.                 *)
LEMMA DropStep ==
  ASSUME SessionInv, UNCHANGED <<version, tokens, tab, stored>>, cookie' \in {NoToken, cookie},
         scope' \in Users \cup {NoUser}, requests' \subseteq requests
  PROVE  SessionInv'
  <1>1. {} \in SUBSET Request /\ \A n \in {} : RequestOK(n, tokens, tab)  OBVIOUS
  <1>2. requests' \subseteq requests \cup {}  OBVIOUS
  <1> QED  BY <1>1, <1>2, TabSends

LEMMA DropSteps ==
  ASSUME SessionInv,
         \/ \E r \in requests : LoginFails(r) \/ LogoutAnswered(r)
         \/ \E t \in Tabs : ChooseScope(t)
         \/ UNCHANGED vars
  PROVE  SessionInv'
  <1>1. scope \in Users \cup {NoUser}  BY DEF SessionInv, TypeOK
  <1>2. CASE \E r \in requests : LoginFails(r) \/ LogoutAnswered(r)
    <2>1. PICK r \in requests : LoginFails(r) \/ LogoutAnswered(r)  BY <1>2
    <2>2. /\ UNCHANGED <<version, tokens, tab, stored, scope>> /\ cookie' \in {NoToken, cookie}
          /\ requests' \subseteq requests
      BY <2>1 DEF LoginFails, LogoutAnswered
    <2> QED  BY <1>1, <2>2, DropStep
  <1>3. CASE \E t \in Tabs : ChooseScope(t)
    <2>1. PICK t \in Tabs : ChooseScope(t)  BY <1>3
    <2>2. tab[t].user \in Users \cup {NoUser}  BY TabFacts
    <2> QED  BY <2>1, <2>2, DropStep DEF ChooseScope
  <1>4. CASE UNCHANGED vars  BY <1>1, <1>4, DropStep DEF vars
  <1> QED  BY <1>2, <1>3, <1>4

(* A request of a page, of a kind that is not /auth/me unless unconfirmed. *)
LEMMA SendStep ==
  ASSUME SessionInv, UNCHANGED <<version, tokens, tab, stored, cookie, scope>>,
         NEW t \in Tabs, tab[t].open, NEW kind \in Kinds, NEW bearer \in {NoToken, stored},
         NEW who \in Users \cup {NoUser}, kind = "login" => who \in Users,
         kind \in {"me", "retry", "online"} => tab[t].epoch = 0,
         requests' = requests \cup {Send(t, kind, bearer, who)}
  PROVE  SessionInv'
  <1> DEFINE n == Send(t, kind, bearer, who)
  <1>1. n \in Request /\ RequestOK(n, tokens, tab)  BY SendOK
  <1>2. requests' \subseteq requests \cup {n}  OBVIOUS
  <1> HIDE DEF n
  <1>3. {n} \in SUBSET Request /\ \A m \in {n} : RequestOK(m, tokens, tab)  BY <1>1
  <1>4. scope' \in Users \cup {NoUser}  BY DEF SessionInv, TypeOK
  <1> QED  BY <1>2, <1>3, <1>4, TabSends

LEMMA SendSteps ==
  ASSUME SessionInv, NEW t \in Tabs,
         \/ Online(t)
         \/ \E u \in Users : SubmitLogin(t, u)
         \/ \E kind \in {"query", "save"} : Call(t, kind)
  PROVE  SessionInv'
  <1>1. TabOK(tab[t]) /\ tab[t].epoch \in Nat /\ NoUser \in Users \cup {NoUser}  BY TabFacts
  <1>2. CASE Online(t)
    <2>1. tab[t].open /\ tab[t].epoch = 0 /\ "online" \in Kinds
      BY <1>1, <1>2 DEF Online, TabOK, Kinds
    <2>2. /\ requests' = requests \cup {Send(t, "online", stored, NoUser)}
          /\ UNCHANGED <<version, tokens, tab, stored, cookie, scope>>
      BY <1>2 DEF Online
    <2> QED  BY <1>1, <2>1, <2>2, SendStep
  <1>3. CASE \E u \in Users : SubmitLogin(t, u)
    <2>1. PICK u \in Users : SubmitLogin(t, u)  BY <1>3
    <2>2. tab[t].open /\ "login" \in Kinds  BY <2>1 DEF SubmitLogin, LoginForm, Kinds
    <2>3. /\ requests' = requests \cup {Send(t, "login", NoToken, u)}
          /\ UNCHANGED <<version, tokens, tab, stored, cookie, scope>>
      BY <2>1 DEF SubmitLogin
    <2> QED  BY <2>2, <2>3, SendStep
  <1>4. CASE \E kind \in {"query", "save"} : Call(t, kind)
    <2>1. PICK kind \in {"query", "save"} : Call(t, kind)  BY <1>4
    <2>2. tab[t].open /\ kind \in Kinds /\ kind # "login" /\ kind \notin {"me", "retry", "online"}
      BY <1>1, <2>1 DEF Call, TabOK, Kinds
    <2>3. /\ requests' = requests \cup {Send(t, kind, stored, NoUser)}
          /\ UNCHANGED <<version, tokens, tab, stored, cookie, scope>>
      BY <2>1 DEF Call
    <2> QED  BY <1>1, <2>2, <2>3, SendStep
  <1> QED  BY <1>2, <1>3, <1>4

(* The request of a page that loads.                                       *)
LEMMA LoadSends ==
  ASSUME SessionInv, TokensKept, NEW t \in Tabs, NEW c \in 0 .. Len(tokens'),
         NEW s \in Tab, s.open, s.epoch = 0,
         tab' = [tab EXCEPT ![t] = s],
         requests' = Others(t) \cup
           {[Send(t, "me", stored, NoUser) EXCEPT !.epoch = 0, !.gen = 0, !.cookie = c]}
  PROVE  /\ requests' \subseteq Request /\ RequestInv'
         /\ tab' \in [Tabs -> Tab] /\ TabInv'
  <1> DEFINE q == Send(t, "me", stored, NoUser)
             n == [q EXCEPT !.epoch = 0, !.gen = 0, !.cookie = c]
  <1>1. /\ stored \in 0 .. Len(tokens) /\ stored \in TokenId /\ Len(tokens) \in Nat
        /\ NoToken \in 0 .. Len(tokens)
    BY TabFacts
  <1>2. Len(tokens') \in Nat /\ Len(tokens) <= Len(tokens') /\ c \in TokenId
    BY LenProperties, SessionAssumption DEF TokensKept, TokenId, NoToken
  <1>3. "me" \in Kinds /\ NoUser \in Users \cup {NoUser}  BY DEF Kinds
  <1>4. /\ q \in Request /\ q.tab = t /\ q.kind = "me" /\ q.bearer = stored
        /\ q.token = NoToken /\ q.status = "sent"
    BY <1>1, <1>3, SendFields DEF SessionInv
  <1>5. requests' \subseteq requests \cup {n}  BY DEF Others
  <1> HIDE DEF q
  <1>6. /\ n \in Request /\ n.tab = t /\ n.kind = "me" /\ n.bearer = stored /\ n.cookie = c
        /\ n.token = NoToken /\ n.status = "sent" /\ n.epoch = 0
    BY <1>2, <1>4 DEF Request
  <1> HIDE DEF n
  <1>7. TabOK(s)  BY DEF TabOK
  <1>8. /\ tab' \in [Tabs -> Tab] /\ TabInv' /\ tab'[t] = s
        /\ \A p \in Tabs : tab[p].open => tab'[p].open
    BY <1>7, TabStep
  <1>9. RequestOK(n, tokens', tab')  BY <1>1, <1>2, <1>6, <1>8 DEF RequestOK, IsMe
  <1>10. {n} \in SUBSET Request /\ \A m \in {n} : RequestOK(m, tokens', tab')  BY <1>6, <1>9
  <1> QED  BY <1>5, <1>8, <1>10, RequestsStep

LEMMA LoadStep ==
  ASSUME SessionInv, NEW t \in Tabs, Load(t)
  PROVE  SessionInv'
  <1> DEFINE s == Loaded(t, stored)
  <1>1. s \in Tab /\ s.open /\ s.epoch = 0  BY LoadedFields DEF SessionInv
  <1>2. TokensKept  BY SameTokens DEF Load, SessionInv
  <1>3. cookie \in 0 .. Len(tokens')  BY TabFacts DEF Load
  <1>4. tab' = [tab EXCEPT ![t] = s]  BY DEF Load
  <1>5. [Send(t, "me", stored, NoUser) EXCEPT !.epoch = 0, !.gen = 0]
          = [Send(t, "me", stored, NoUser) EXCEPT !.epoch = 0, !.gen = 0, !.cookie = cookie]
    <2> DEFINE q == Send(t, "me", stored, NoUser)
    <2>1. "me" \in Kinds /\ NoUser \in Users \cup {NoUser} /\ stored \in TokenId
      BY TabFacts DEF Kinds
    <2>2. q \in Request /\ q.cookie = cookie  BY <2>1, SendFields DEF SessionInv
    <2> HIDE DEF q
    <2>3. [q EXCEPT !.epoch = 0, !.gen = 0] = [q EXCEPT !.epoch = 0, !.gen = 0, !.cookie = cookie]
      BY <2>2 DEF Request
    <2> QED  BY <2>3 DEF q
  <1>6. requests' = Others(t) \cup
          {[Send(t, "me", stored, NoUser) EXCEPT !.epoch = 0, !.gen = 0, !.cookie = cookie]}
    BY <1>5 DEF Load
  <1> HIDE DEF s
  <1>7. /\ requests' \subseteq Request /\ RequestInv'
        /\ tab' \in [Tabs -> Tab] /\ TabInv'
    BY <1>1, <1>2, <1>3, <1>4, <1>6, LoadSends
  <1> QED  BY <1>2, <1>7, StorageStep DEF Load, SessionInv, TypeOK

LEMMA GithubSignInStep ==
  ASSUME SessionInv, NEW t \in Tabs, NEW u \in Users, GithubSignIn(t, u)
  PROVE  SessionInv'
  <1> DEFINE l == Loaded(t, stored)
             s == [l EXCEPT !.public = FALSE]
             k == Len(tokens) + 1
  <1>1. l \in Tab /\ l.open /\ l.epoch = 0  BY LoadedFields DEF SessionInv
  <1>2. TokensKept /\ Len(tokens') = k
    BY IssueKeeps DEF GithubSignIn, SessionInv
  <1>3. Len(tokens) \in Nat /\ k \in 0 .. Len(tokens') /\ k \in TokenId
    BY <1>2, TabFacts, SessionAssumption DEF GithubSignIn, TokenId, NoToken
  <1>4. tab' = [tab EXCEPT ![t] = s] /\ cookie' = k  BY DEF GithubSignIn
  <1> HIDE DEF l
  <1>5. s \in Tab /\ s.open /\ s.epoch = 0  BY <1>1 DEF Tab
  <1> HIDE DEF s
  <1>6. requests' = Others(t) \cup
          {[Send(t, "me", stored, NoUser) EXCEPT !.epoch = 0, !.gen = 0, !.cookie = k]}
    BY DEF GithubSignIn
  <1> HIDE DEF k
  <1>7. /\ requests' \subseteq Request /\ RequestInv'
        /\ tab' \in [Tabs -> Tab] /\ TabInv'
    BY <1>2, <1>3, <1>4, <1>5, <1>6, LoadSends
  <1>8. stored' \in 0 .. Len(tokens')
    BY <1>2, TabFacts, LenProperties DEF GithubSignIn, TokensKept
  <1> QED
    BY <1>2, <1>3, <1>4, <1>7, <1>8 DEF GithubSignIn, SessionInv, TypeOK, StorageInv, TokensKept

LEMMA LoginAnsweredStep ==
  ASSUME SessionInv, NEW r \in requests, LoginAnswered(r)
  PROVE  SessionInv'
  <1> DEFINE s == SignedIn(tab[r.tab], r.who)
  <1>1. /\ r.tab \in Tabs /\ tab[r.tab] \in Tab /\ tab[r.tab].open /\ RequestOK(r, tokens, tab)
        /\ r \in Request
    BY RequestFacts
  <1>2. r.who \in Users /\ r.token \in 0 .. Len(tokens) /\ r.token \in TokenId
    BY <1>1 DEF RequestOK, LoginAnswered, Request
  <1>3. s \in Tab /\ s.user = s.chosen /\ ~s.unconfirmed /\ s.open
    <2>1. /\ s \in Tab /\ s.user = r.who /\ s.chosen = r.who /\ s.open = tab[r.tab].open
          /\ s.unconfirmed = FALSE
      BY <1>1, <1>2, SignedInFields
    <2> HIDE DEF s
    <2> QED  BY <1>1, <2>1
  <1>4. tab' = [tab EXCEPT ![r.tab] = s]  BY <1>1 DEF LoginAnswered, SessionInv, TypeOK
  <1> HIDE DEF s
  <1>5. TabOK(s)  BY <1>3 DEF TabOK
  <1>6. TokensKept  BY SameTokens DEF LoginAnswered, SessionInv
  <1>7. /\ tab' \in [Tabs -> Tab] /\ TabInv'
        /\ \A p \in Tabs : tab[p].open => tab'[p].open
    BY <1>1, <1>3, <1>4, <1>5, TabStep
  <1>8. requests' \subseteq Request /\ RequestInv'
    BY <1>6, <1>7, RequestsStep, {} \in SUBSET Request DEF LoginAnswered
  <1> QED
    BY <1>2, <1>6, <1>7, <1>8, TabFacts, <1>1
    DEF LoginAnswered, SessionInv, TypeOK, StorageInv, TokensKept

-----------------------------------------------------------------------------
LEMMA SessionInit == Init => SessionInv
  <1> SUFFICES ASSUME Init PROVE SessionInv  OBVIOUS
  <1>1. tokens \in Seq(Token) /\ Len(tokens) = 0  BY EmptySeq DEF Init
  <1>2. NoToken \in TokenId /\ MaxTokens \in Nat  BY SessionAssumption DEF TokenId, NoToken
  <1>3. Closed \in Tab  BY DEF Closed, Tab
  <1>4. tab \in [Tabs -> Tab] /\ \A t \in Tabs : tab[t] = Closed  BY <1>3 DEF Init
  <1>5. TypeOK  BY <1>1, <1>2, <1>4 DEF Init, TypeOK
  <1>6. TabInv  BY <1>4 DEF TabInv, Closed
  <1> QED  BY <1>1, <1>5, <1>6 DEF Init, SessionInv, RequestInv, StorageInv, NoToken

LEMMA SessionStep == SessionInv /\ [Next]_vars => SessionInv'
  <1> SUFFICES ASSUME SessionInv, [Next]_vars PROVE SessionInv'  OBVIOUS
  <1>1. ASSUME NEW r \in requests, Serve(r) \/ Fail(r) PROVE SessionInv'
    BY <1>1, ServeReadStep, ServeLogoutStep, ServeLoginStep, FailStep DEF Serve
  <1>2. ASSUME NEW r \in requests, Handle(r) PROVE SessionInv'
    BY <1>2, LoginAnsweredStep, DropSteps, MeAcceptedStep, MeRefusedStep, MeIgnoredStep,
       MeFailsStep, RetryStep, CallAnsweredStep, CallRefusedStep
    DEF Handle
  <1>3. ASSUME NEW t \in Tabs, Person(t) PROVE SessionInv'
    BY <1>3, LoadStep, LogoutStep, SendSteps, NavigateStep, DropSteps, GithubSignInStep
    DEF Person
  <1>4. CASE UNCHANGED vars  BY <1>4, DropSteps
  <1> QED  BY <1>1, <1>2, <1>3, <1>4, RevokeStep DEF Next

-----------------------------------------------------------------------------
(* A tab that is alone: what a step does to it, unless it loads a page.    *)

(* A request after the step comes of one before it, or was just sent.      *)
Heir(r, q) ==
  /\ r.bearer = q.bearer /\ r.gen = q.gen /\ r.cookie \in {q.cookie, cookie}
  /\ IF IsMe(r) THEN IsMe(q) ELSE r.kind = q.kind /\ r.cookie = q.cookie
  /\ r.token = q.token \/ ~tokens'[r.token].denied
  /\ r.status = "ok" /\ IsRead(q) => q.status = "ok" \/ Accepted(Presented(q))
  /\ r.status = "unauthorized" => q.status = "unauthorized" \/ ~Accepted(Presented(q))

Fresh(r, t) ==
  /\ r.cookie = cookie /\ r.bearer \in {NoToken, stored} /\ r.token = NoToken /\ r.status = "sent"
  /\ r.kind = "save" => "save" \in Calls
  /\ r.kind = "query" => tab[t].user # NoUser
  /\ \/ r.kind \in {"login", "logout"}
     \/ r.gen = tab[t].gen /\ r.bearer = stored /\ tab'[t].user = tab[t].user

Effect(t) ==
  /\ TokensKept /\ Denials
  /\ tab[t].open => tab'[t].open
  /\ tab'[t].gen = IF tab'[t].user = tab[t].user THEN tab[t].gen ELSE tab[t].gen + 1
  /\ tab'[t].epoch = 0 => tab[t].epoch = 0
  /\ \A r \in requests' : Fresh(r, t) \/ \E q \in requests : Heir(r, q)

(* A stored token is removed without a sign-out only when one was refused. *)
KeepsStored == stored' = stored \/ (stored' = NoToken /\ \E q \in requests : q.status = "unauthorized")

(* The user shown stays, signs out, or is another.                         *)
Quiet(t) ==
  /\ Effect(t) /\ tab'[t].user = tab[t].user /\ tab'[t].cache = tab[t].cache
  /\ KeepsStored /\ cookie' \in {NoToken, cookie}
  /\ scope' \in {scope, tab[t].user}

SignsOut(t) ==
  /\ Effect(t) /\ tab'[t].user = NoUser /\ tab'[t].epoch # 0
  /\ tab'[t].cache = IF tab[t].user = NoUser THEN tab[t].cache ELSE {}
  /\ stored' = NoToken /\ cookie' = cookie /\ scope' = NoUser

LEMMA HeirsOfSelf ==
  ASSUME NEW t, requests' \subseteq requests
  PROVE  \A r \in requests' : Fresh(r, t) \/ \E q \in requests : Heir(r, q)
  BY DEF Heir

LEMMA AnswerQuiet ==
  ASSUME SessionInv, NEW t, NEW r \in requests, NEW n,
         n.kind = r.kind, n.bearer = r.bearer, n.gen = r.gen, n.cookie = r.cookie,
         n.token = r.token \/ ~tokens'[n.token].denied,
         n.status = "ok" /\ IsRead(r) => Accepted(Presented(r)),
         n.status = "unauthorized" => ~Accepted(Presented(r)),
         requests' = (requests \ {r}) \cup {n}, TokensKept, Denials,
         UNCHANGED <<tab, stored, cookie, scope>>
  PROVE  Quiet(t)
  <1>1. Heir(n, r) /\ \A q \in requests : Heir(q, q)  BY DEF Heir, IsMe
  <1> QED  BY <1>1 DEF Quiet, Effect, KeepsStored

LEMMA ServerQuiet ==
  ASSUME SessionInv, NEW t, NEW r \in requests, Serve(r) \/ Fail(r)
  PROVE  Quiet(t)
  <1>1. r \in Request  BY RequestFacts
  <1>2. CASE ServeRead(r) \/ Fail(r)
    <2>1. TokensKept /\ Denials  BY <1>2, SameTokens DEF SessionInv, ServeRead, Fail
    <2>2. PICK status, who :
            /\ Answer(r, status, who)
            /\ status = "ok" => Accepted(Presented(r))
            /\ status = "unauthorized" => ~Accepted(Presented(r))
      <3>1. CASE Fail(r)
        <4>1. Answer(r, "error", r.who)  BY <3>1 DEF Fail
        <4> QED  BY <4>1
      <3>2. CASE ServeRead(r) /\ Accepted(Presented(r))
        <4>1. Answer(r, "ok", tokens[Presented(r)].user)  BY <3>2 DEF ServeRead
        <4> QED  BY <3>2, <4>1
      <3>3. CASE ServeRead(r) /\ ~Accepted(Presented(r))
        <4>1. Answer(r, "unauthorized", NoUser)  BY <3>3 DEF ServeRead
        <4> QED  BY <3>3, <4>1
      <3> QED  BY <1>2, <3>1, <3>2, <3>3
    <2> DEFINE n == [r EXCEPT !.status = status, !.who = who]
    <2>4. requests' = (requests \ {r}) \cup {n}  BY <2>2 DEF Answer
    <2>3. /\ n.kind = r.kind /\ n.bearer = r.bearer /\ n.gen = r.gen /\ n.cookie = r.cookie
          /\ n.token = r.token /\ n.status = status
      BY <1>1 DEF Request
    <2> HIDE DEF n
    <2>5. UNCHANGED <<tab, stored, cookie, scope>>  BY <1>2 DEF ServeRead, Fail
    <2> QED  BY <2>1, <2>2, <2>3, <2>4, <2>5, AnswerQuiet
  <1>3. CASE ServeLogout(r)
    <2>1. TokensKept /\ Denials
      <3>1. TokensKept /\ \A k \in 1 .. Len(tokens) : k \in {r.bearer, r.cookie} => tokens'[k].denied
        BY <1>3, DenyKeeps DEF SessionInv, ServeLogout
      <3>2. r.cookie \in 0 .. Len(tokens) /\ Len(tokens) \in Nat  BY RequestFacts DEF RequestOK
      <3> QED  BY <3>1, <3>2 DEF Denials, NoToken
    <2> DEFINE n == [r EXCEPT !.status = "ok", !.who = NoUser]
    <2>2. requests' = (requests \ {r}) \cup {n}  BY <1>3 DEF ServeLogout, Answer
    <2>3. /\ n.kind = r.kind /\ n.bearer = r.bearer /\ n.gen = r.gen /\ n.cookie = r.cookie
          /\ n.token = r.token /\ n.status = "ok"
      BY <1>1 DEF Request
    <2>4. ~IsRead(r)  BY <1>3 DEF ServeLogout, IsRead
    <2> HIDE DEF n
    <2> QED  BY <1>3, <2>1, <2>2, <2>3, <2>4, AnswerQuiet DEF ServeLogout
  <1>4. CASE ServeLogin(r)
    <2>1. r.who \in Users  BY <1>4, RequestFacts DEF RequestOK, ServeLogin
    <2>2. TokensKept /\ Denials /\ ~tokens'[Len(tokens) + 1].denied
      BY <1>4, <2>1, IssueKeeps DEF SessionInv, ServeLogin
    <2> DEFINE k == Len(tokens) + 1
               n == [r EXCEPT !.status = "ok", !.token = k]
    <2>3. requests' = (requests \ {r}) \cup {n}  BY <1>4 DEF ServeLogin
    <2>5. k \in TokenId /\ ~tokens'[k].denied
      BY <1>4, <2>2, RequestFacts, SessionAssumption DEF ServeLogin, TokenId, NoToken
    <2> HIDE DEF k
    <2>4. /\ n.kind = r.kind /\ n.bearer = r.bearer /\ n.gen = r.gen /\ n.cookie = r.cookie
          /\ n.token = k /\ n.status = "ok"
      BY <1>1 DEF Request
    <2>6. ~IsRead(r)  BY <1>4 DEF ServeLogin, IsRead
    <2> HIDE DEF n
    <2> QED  BY <1>4, <2>2, <2>3, <2>4, <2>5, <2>6, AnswerQuiet DEF ServeLogin
  <1> QED  BY <1>2, <1>3, <1>4 DEF Serve

(* Steps that leave the tab and the tokens as they are.                    *)
LEMMA TabSameQuiet ==
  ASSUME SessionInv, NEW t, UNCHANGED <<tokens, tab>>,
         KeepsStored, cookie' \in {NoToken, cookie},
         scope' \in {scope, tab[t].user},
         \A r \in requests' : Fresh(r, t) \/ \E q \in requests : Heir(r, q)
  PROVE  Quiet(t)
  BY SameTokens DEF SessionInv, Quiet, Effect

LEMMA StillQuiet ==
  ASSUME SessionInv, NEW t \in Tabs,
         \/ \E r \in requests : LoginFails(r) \/ LogoutAnswered(r)
         \/ ChooseScope(t)
         \/ \E u \in Users : RevokeElsewhere(u)
         \/ UNCHANGED vars
  PROVE  Quiet(t)
  <1>1. /\ UNCHANGED <<tokens, tab>> /\ stored' = stored /\ cookie' \in {NoToken, cookie}
        /\ scope' \in {scope, tab[t].user} /\ requests' \subseteq requests
    BY DEF LoginFails, LogoutAnswered, ChooseScope, RevokeElsewhere, vars
  <1> QED  BY <1>1, HeirsOfSelf, TabSameQuiet DEF KeepsStored

LEMMA SendQuiet ==
  ASSUME SessionInv, NEW t \in Tabs,
         \/ Online(t)
         \/ \E u \in Users : SubmitLogin(t, u)
         \/ \E kind \in {"query", "save"} : Call(t, kind)
  PROVE  Quiet(t)
  <1>1. ASSUME NEW kind \in Kinds, NEW bearer \in {NoToken, stored}, NEW who \in Users \cup {NoUser},
               kind \in {"login", "logout"} \/ bearer = stored,
               kind = "save" => "save" \in Calls, kind = "query" => tab[t].user # NoUser,
               UNCHANGED <<tokens, tab, stored, cookie, scope>>,
               requests' = requests \cup {Send(t, kind, bearer, who)}
        PROVE  Quiet(t)
    <2> DEFINE n == Send(t, kind, bearer, who)
    <2>1. bearer \in TokenId  BY TabFacts
    <2>2. /\ n.kind = kind /\ n.bearer = bearer /\ n.gen = tab[t].gen /\ n.cookie = cookie
          /\ n.token = NoToken /\ n.status = "sent"
      BY <2>1, SendFields DEF SessionInv
    <2> HIDE DEF n
    <2>3. Fresh(n, t)  BY <1>1, <2>2 DEF Fresh
    <2>4. \A r \in requests' : Fresh(r, t) \/ \E q \in requests : Heir(r, q)
      BY <1>1, <2>3 DEF Heir, n
    <2> QED  BY <1>1, <2>4, TabSameQuiet DEF KeepsStored
  <1>2. NoUser \in Users \cup {NoUser} /\ {"online", "login", "query", "save"} \subseteq Kinds
    BY DEF Kinds
  <1>3. CASE Online(t)  BY <1>1, <1>2, <1>3 DEF Online
  <1>4. CASE \E u \in Users : SubmitLogin(t, u)  BY <1>1, <1>2, <1>4 DEF SubmitLogin
  <1>5. CASE \E kind \in {"query", "save"} : Call(t, kind)  BY <1>1, <1>2, <1>5 DEF Call
  <1> QED  BY <1>3, <1>4, <1>5

LEMMA RetryQuiet ==
  ASSUME SessionInv, NEW t, NEW r \in requests, Retry(r)
  PROVE  Quiet(t)
  <1> DEFINE n == [r EXCEPT !.status = "sent", !.cookie = cookie]
  <1>1. /\ n.kind = r.kind /\ n.bearer = r.bearer /\ n.gen = r.gen /\ n.cookie = cookie
        /\ n.token = r.token /\ n.status = "sent"
    BY RequestFacts DEF Request
  <1>2. requests' = (requests \ {r}) \cup {n}  BY DEF Retry
  <1>5. IsMe(r)  BY RequestFacts DEF Retry, RequestOK
  <1> HIDE DEF n
  <1>3. Heir(n, r)  BY <1>1, <1>5 DEF Heir, IsMe
  <1>4. \A q \in requests' : Fresh(q, t) \/ \E p \in requests : Heir(q, p)
    BY <1>2, <1>3 DEF Heir
  <1> QED  BY <1>4, TabSameQuiet DEF Retry, KeepsStored

(* Steps that change in the tab neither the user nor the cache.            *)
LEMMA TabQuiet ==
  ASSUME SessionInv, NEW t \in Tabs, NEW s, UNCHANGED <<tokens, stored, cookie, scope>>,
         tab' = [tab EXCEPT ![t] = s],
         s.open = tab[t].open, s.user = tab[t].user, s.cache = tab[t].cache,
         s.gen = tab[t].gen, s.epoch = tab[t].epoch,
         requests' \subseteq requests
  PROVE  Quiet(t)
  <1>1. tab'[t] = s  BY DEF SessionInv, TypeOK
  <1> QED  BY <1>1, SameTokens, HeirsOfSelf DEF SessionInv, Quiet, Effect, KeepsStored

LEMMA NavigateQuiet ==
  ASSUME SessionInv, NEW t \in Tabs, Navigate(t)
  PROVE  Quiet(t)
  <1> DEFINE b == ~tab[t].public
             s == [tab[t] EXCEPT !.public = b]
  <1>1. tab' = [tab EXCEPT ![t] = s]  BY DEF Navigate, SessionInv, TypeOK
  <1> HIDE DEF b
  <1>2. /\ s.open = tab[t].open /\ s.user = tab[t].user /\ s.cache = tab[t].cache
        /\ s.gen = tab[t].gen /\ s.epoch = tab[t].epoch
    BY TabFacts DEF Tab
  <1> HIDE DEF s
  <1> QED  BY <1>1, <1>2, TabQuiet DEF Navigate

LEMMA SettledQuiet ==
  ASSUME SessionInv, NEW r \in requests, MeIgnored(r) \/ (MeAccepted(r) /\ Stale(r))
  PROVE  Quiet(r.tab)
  <1> DEFINE s == Settled(tab[r.tab], r)
  <1>1. r.tab \in Tabs /\ tab[r.tab] \in Tab  BY RequestFacts
  <1>2. /\ tab' = [tab EXCEPT ![r.tab] = s] /\ requests' \subseteq requests
        /\ UNCHANGED <<tokens, stored, cookie, scope>>
    BY <1>1 DEF MeIgnored, MeAccepted, SessionInv, TypeOK
  <1>3. /\ s.open = tab[r.tab].open /\ s.user = tab[r.tab].user /\ s.cache = tab[r.tab].cache
        /\ s.gen = tab[r.tab].gen /\ s.epoch = tab[r.tab].epoch
    BY <1>1, SettledFields
  <1> HIDE DEF s
  <1> QED  BY <1>1, <1>2, <1>3, TabQuiet

LEMMA MeFailsQuiet ==
  ASSUME SessionInv, NEW r \in requests, MeFails(r)
  PROVE  Quiet(r.tab)
  <1>1. r.tab \in Tabs /\ tab[r.tab] \in Tab /\ r \in Request  BY RequestFacts
  <1>2. CASE r.kind = "me"
    <2> DEFINE n == [r EXCEPT !.kind = "retry", !.status = "waiting"]
    <2>1. /\ n.kind = "retry" /\ n.bearer = r.bearer /\ n.gen = r.gen /\ n.cookie = r.cookie
          /\ n.token = r.token /\ n.status = "waiting"
      BY <1>1 DEF Request
    <2>2. requests' = (requests \ {r}) \cup {n} /\ UNCHANGED <<tokens, tab, stored, cookie, scope>>
      BY <1>2 DEF MeFails
    <2> HIDE DEF n
    <2>3. Heir(n, r)  BY <1>2, <2>1 DEF Heir, IsMe
    <2>4. \A q \in requests' : Fresh(q, r.tab) \/ \E p \in requests : Heir(q, p)
      BY <2>2, <2>3 DEF Heir
    <2> QED  BY <2>2, <2>4, TabSameQuiet DEF KeepsStored
  <1>3. CASE r.kind # "me"
    <2> DEFINE old == tab[r.tab]
               b == old.unconfirmed \/ r.bearer # NoToken
               s == GivenUp(old, r)
    <2>1. /\ tab' = [tab EXCEPT ![r.tab] = s] /\ requests' \subseteq requests
          /\ UNCHANGED <<tokens, stored, cookie, scope>>
      BY <1>1, <1>3 DEF MeFails, SessionInv, TypeOK
    <2>2. s = [old EXCEPT !.loading = FALSE, !.unconfirmed = b]  BY DEF GivenUp
    <2> HIDE DEF b, s
    <2>3. /\ s.open = old.open /\ s.user = old.user /\ s.cache = old.cache
          /\ s.gen = old.gen /\ s.epoch = old.epoch
      BY <1>1, <2>2 DEF Tab
    <2> QED  BY <1>1, <2>1, <2>3, TabQuiet
  <1> QED  BY <1>2, <1>3

(* A tab that shows another user after it, or nobody.                      *)
LEMMA ShownEffect ==
  ASSUME SessionInv, NEW t \in Tabs, NEW u \in Users \cup {NoUser}, NEW s \in Tab, UNCHANGED tokens,
         tab' = [tab EXCEPT ![t] = s],
         s.open = tab[t].open, s.user = u, s.epoch = 0 => tab[t].epoch = 0,
         s.cache = Shown(tab[t], u).cache, s.gen = Shown(tab[t], u).gen,
         \A r \in requests' : Fresh(r, t) \/ \E q \in requests : Heir(r, q)
  PROVE  /\ Effect(t) /\ tab'[t] = s
         /\ s.cache = IF tab[t].user = u THEN tab[t].cache ELSE {}
  <1>1. tab'[t] = s  BY DEF SessionInv, TypeOK
  <1>2. tab[t] \in Tab /\ tab[t].epoch \in Nat  BY TabFacts
  <1>3. /\ s.cache = IF tab[t].user = u THEN tab[t].cache ELSE {}
        /\ s.gen = IF tab[t].user = u THEN tab[t].gen ELSE tab[t].gen + 1
    BY <1>2, ShownFields
  <1> QED  BY <1>1, <1>3, SameTokens DEF Effect, SessionInv

LEMMA LogoutSent ==
  ASSUME SessionInv, NEW t \in Tabs, NEW bearer \in {NoToken, stored},
         requests' \subseteq requests \cup {Send(t, "logout", bearer, NoUser)}
  PROVE  \A r \in requests' : Fresh(r, t) \/ \E q \in requests : Heir(r, q)
  <1> DEFINE n == Send(t, "logout", bearer, NoUser)
  <1>1. bearer \in TokenId /\ "logout" \in Kinds  BY TabFacts DEF Kinds
  <1>2. n.kind = "logout" /\ n.cookie = cookie /\ n.bearer = bearer /\ n.token = NoToken /\ n.status = "sent"
    BY <1>1, SendFields DEF SessionInv
  <1> HIDE DEF n
  <1>3. Fresh(n, t)  BY <1>2 DEF Fresh
  <1> QED  BY <1>3 DEF Heir, n

LEMMA SignOutEffect ==
  ASSUME SessionInv, NEW t \in Tabs, NEW s \in Tab, UNCHANGED <<tokens, cookie>>,
         tab' = [tab EXCEPT ![t] = s],
         s.open = tab[t].open, s.user = NoUser, s.epoch = tab[t].epoch + 1,
         s.cache = Shown(tab[t], NoUser).cache, s.gen = Shown(tab[t], NoUser).gen,
         NEW bearer \in {NoToken, stored},
         requests' \subseteq requests \cup {Send(t, "logout", bearer, NoUser)},
         stored' = NoToken, scope' = NoUser
  PROVE  SignsOut(t)
  <1>1. \A r \in requests' : Fresh(r, t) \/ \E q \in requests : Heir(r, q)  BY LogoutSent
  <1>2. /\ Effect(t) /\ tab'[t] = s
        /\ s.cache = IF tab[t].user = NoUser THEN tab[t].cache ELSE {}
    <2>1. tab[t] \in Tab /\ tab[t].epoch \in Nat  BY TabFacts
    <2>2. NoUser \in Users \cup {NoUser}  OBVIOUS
    <2>3. /\ s.cache = IF tab[t].user = NoUser THEN tab[t].cache ELSE {}
          /\ s.gen = IF tab[t].user = NoUser THEN tab[t].gen ELSE tab[t].gen + 1
      BY <2>1, <2>2, ShownFields
    <2>4. tab'[t] = s  BY DEF SessionInv, TypeOK
    <2>5. s.epoch # 0  BY <2>1
    <2> QED  BY <1>1, <2>3, <2>4, <2>5, SameTokens DEF Effect, SessionInv
  <1>3. s.epoch # 0  BY TabFacts
  <1> QED  BY <1>2, <1>3 DEF SignsOut

LEMMA LogoutEffect ==
  ASSUME SessionInv, NEW t \in Tabs, Logout(t)
  PROVE  SignsOut(t)
  <1> DEFINE s == SignedOut(tab[t])
  <1>1. /\ tab' = [tab EXCEPT ![t] = s] /\ UNCHANGED <<tokens, cookie>>
        /\ stored' = NoToken /\ scope' = NoUser
        /\ requests' \subseteq requests \cup {Send(t, "logout", stored, NoUser)}
    BY DEF Logout, EndSession, SessionInv, TypeOK
  <1>2. /\ s \in Tab /\ s.open = tab[t].open /\ s.user = NoUser /\ s.epoch = tab[t].epoch + 1
        /\ s.cache = Shown(tab[t], NoUser).cache /\ s.gen = Shown(tab[t], NoUser).gen
    BY TabFacts, SignedOutFields
  <1> HIDE DEF s
  <1> QED  BY <1>1, <1>2, SignOutEffect

LEMMA CallRefusedEffect ==
  ASSUME SessionInv, NEW r \in requests, CallRefused(r)
  PROVE  Quiet(r.tab) \/ SignsOut(r.tab)
  <1>1. r.tab \in Tabs /\ tab[r.tab] \in Tab  BY RequestFacts
  <1>2. CASE tab[r.tab].public
    <2>1. /\ UNCHANGED <<tokens, tab, scope, cookie>> /\ stored' = NoToken
          /\ requests' \subseteq requests /\ r.status = "unauthorized"
      BY <1>2 DEF CallRefused
    <2> QED  BY <2>1, HeirsOfSelf, TabSameQuiet DEF KeepsStored
  <1>3. CASE ~tab[r.tab].public
    <2> DEFINE s == SignedOut(tab[r.tab])
    <2>1. /\ tab' = [tab EXCEPT ![r.tab] = s] /\ UNCHANGED <<tokens, cookie>>
          /\ stored' = NoToken /\ scope' = NoUser
          /\ requests' \subseteq requests \cup {Send(r.tab, "logout", NoToken, NoUser)}
      BY <1>1, <1>3 DEF CallRefused, EndSession, SessionInv, TypeOK
    <2>2. /\ s \in Tab /\ s.open = tab[r.tab].open /\ s.user = NoUser /\ s.epoch = tab[r.tab].epoch + 1
          /\ s.cache = Shown(tab[r.tab], NoUser).cache /\ s.gen = Shown(tab[r.tab], NoUser).gen
      BY <1>1, SignedOutFields
    <2> HIDE DEF s
    <2> QED  BY <1>1, <2>1, <2>2, SignOutEffect
  <1> QED  BY <1>2, <1>3

LEMMA MeRefusedEffect ==
  ASSUME SessionInv, NEW r \in requests, MeRefused(r)
  PROVE  SignsOut(r.tab)
  <1> DEFINE h == SignedOut(tab[r.tab])
             s == Settled(h, r)
  <1>1. r.tab \in Tabs /\ tab[r.tab] \in Tab  BY RequestFacts
  <1>2. /\ tab' = [tab EXCEPT ![r.tab] = s] /\ UNCHANGED <<tokens, cookie>>
        /\ stored' = NoToken /\ scope' = NoUser
        /\ requests' \subseteq requests \cup {Send(r.tab, "logout", stored, NoUser)}
    BY <1>1 DEF MeRefused, SessionInv, TypeOK
  <1>3. /\ h \in Tab /\ h.open = tab[r.tab].open /\ h.user = NoUser
        /\ h.epoch = tab[r.tab].epoch + 1
        /\ h.cache = Shown(tab[r.tab], NoUser).cache /\ h.gen = Shown(tab[r.tab], NoUser).gen
    BY <1>1, SignedOutFields
  <1> HIDE DEF h
  <1>4. /\ s \in Tab /\ s.open = tab[r.tab].open /\ s.user = NoUser
        /\ s.epoch = tab[r.tab].epoch + 1
        /\ s.cache = Shown(tab[r.tab], NoUser).cache /\ s.gen = Shown(tab[r.tab], NoUser).gen
    BY <1>3, SettledFields
  <1> HIDE DEF s
  <1> QED  BY <1>1, <1>2, <1>4, SignOutEffect

(* The answer of /auth/me that is not late, to a tab at epoch 0.           *)
Confirms(r) ==
  /\ Effect(r.tab) /\ IsMe(r) /\ r.status = "ok" /\ tab[r.tab].epoch = 0
  /\ tab'[r.tab].user = r.who /\ tab'[r.tab].epoch = 0
  /\ tab'[r.tab].cache = IF tab[r.tab].user = r.who THEN tab[r.tab].cache ELSE {}
  /\ requests' \subseteq requests /\ UNCHANGED <<tokens, stored, cookie, scope>>

LEMMA MeAcceptedEffect ==
  ASSUME SessionInv, NEW r \in requests, MeAccepted(r), ~Stale(r)
  PROVE  Confirms(r)
  <1> DEFINE g == Shown(tab[r.tab], r.who)
             h == Settled(g, r)
             s == [h EXCEPT !.unconfirmed = FALSE]
  <1>1. r.tab \in Tabs /\ tab[r.tab] \in Tab /\ r \in Request /\ RequestOK(r, tokens, tab)
    BY RequestFacts
  <1>2. r.who \in Users \cup {NoUser}  BY <1>1 DEF Request
  <1>3. tab' = [tab EXCEPT ![r.tab] = s]  BY <1>1 DEF MeAccepted, SessionInv, TypeOK
  <1>4. IsMe(r) /\ r.status = "ok" /\ tab[r.tab].epoch = 0
    BY <1>1 DEF MeAccepted, Stale, RequestOK
  <1>5. g \in Tab /\ g.open = tab[r.tab].open /\ g.user = r.who /\ g.epoch = 0
    BY <1>1, <1>2, <1>4, ShownFields
  <1> HIDE DEF g
  <1>6. /\ h \in Tab /\ h.open = tab[r.tab].open /\ h.user = r.who /\ h.epoch = 0
        /\ h.cache = g.cache /\ h.gen = g.gen
    BY <1>5, SettledFields
  <1> HIDE DEF h
  <1>7. /\ s \in Tab /\ s.open = tab[r.tab].open /\ s.user = r.who /\ s.epoch = 0
        /\ s.cache = g.cache /\ s.gen = g.gen
    BY <1>6 DEF Tab
  <1> HIDE DEF s
  <1>8. requests' \subseteq requests /\ UNCHANGED <<tokens, stored, cookie, scope>>
    BY DEF MeAccepted
  <1>9. \A q \in requests' : Fresh(q, r.tab) \/ \E p \in requests : Heir(q, p)
    BY <1>8, HeirsOfSelf
  <1>10. s.cache = Shown(tab[r.tab], r.who).cache /\ s.gen = Shown(tab[r.tab], r.who).gen
    BY <1>7 DEF g
  <1>11. /\ Effect(r.tab) /\ tab'[r.tab] = s
         /\ s.cache = IF tab[r.tab].user = r.who THEN tab[r.tab].cache ELSE {}
    BY <1>1, <1>2, <1>3, <1>4, <1>7, <1>8, <1>9, <1>10, ShownEffect
  <1> QED  BY <1>4, <1>7, <1>8, <1>11 DEF Confirms

(* The answer of a sign-in.                                                *)
SignsIn(r) ==
  /\ Effect(r.tab) /\ r.token # NoToken /\ tokens[r.token].user = r.who
  /\ tab'[r.tab].user = r.who /\ tab'[r.tab].epoch # 0 /\ tab'[r.tab].open
  /\ tab'[r.tab].cache = IF tab[r.tab].user = r.who THEN tab[r.tab].cache ELSE {}
  /\ stored' = r.token /\ scope' = NoUser /\ UNCHANGED <<tokens, cookie>>

LEMMA LoginAnsweredEffect ==
  ASSUME SessionInv, NEW r \in requests, LoginAnswered(r)
  PROVE  SignsIn(r)
  <1> DEFINE s == SignedIn(tab[r.tab], r.who)
  <1>1. /\ r.tab \in Tabs /\ tab[r.tab] \in Tab /\ tab[r.tab].open /\ RequestOK(r, tokens, tab)
    BY RequestFacts
  <1>2. r.who \in Users /\ r.token # NoToken /\ tokens[r.token].user = r.who
    BY <1>1 DEF RequestOK, LoginAnswered
  <1>3. /\ tab' = [tab EXCEPT ![r.tab] = s] /\ stored' = r.token /\ scope' = NoUser
        /\ UNCHANGED <<tokens, cookie>> /\ requests' \subseteq requests
    BY <1>1 DEF LoginAnswered, SessionInv, TypeOK
  <1>4. /\ s \in Tab /\ s.open = tab[r.tab].open /\ s.user = r.who /\ s.epoch = tab[r.tab].epoch + 1
        /\ s.cache = Shown(tab[r.tab], r.who).cache /\ s.gen = Shown(tab[r.tab], r.who).gen
    BY <1>1, <1>2, SignedInFields
  <1> HIDE DEF s
  <1>5. \A q \in requests' : Fresh(q, r.tab) \/ \E p \in requests : Heir(q, p)
    BY <1>3, HeirsOfSelf
  <1>6. /\ Effect(r.tab) /\ tab'[r.tab] = s
        /\ s.cache = IF tab[r.tab].user = r.who THEN tab[r.tab].cache ELSE {}
    <2>1. s.epoch # 0 /\ r.who \in Users \cup {NoUser}  BY <1>1, <1>2, <1>4, TabFacts
    <2> QED  BY <1>1, <1>3, <1>4, <1>5, <2>1, ShownEffect
  <1>7. s.epoch # 0  BY <1>1, <1>4, TabFacts
  <1> QED  BY <1>1, <1>2, <1>3, <1>4, <1>6, <1>7 DEF SignsIn

(* The answer of a call.                                                   *)
Caches(r) ==
  /\ Effect(r.tab) /\ tab'[r.tab].user = tab[r.tab].user
  /\ UNCHANGED <<stored, cookie, scope>>
  /\ \/ tab'[r.tab].cache = tab[r.tab].cache
     \/ /\ tab'[r.tab].cache = tab[r.tab].cache \cup {r.who}
        /\ r.status = "ok" /\ r.kind \in {"query", "save"}
        /\ r.kind = "save" \/ r.gen = tab[r.tab].gen

LEMMA CallAnsweredEffect ==
  ASSUME SessionInv, NEW r \in requests, CallAnswered(r)
  PROVE  Caches(r)
  <1> DEFINE old == tab[r.tab]
             c == IF r.status = "ok" /\ (r.kind = "save" \/ r.gen = old.gen)
                  THEN old.cache \cup {r.who} ELSE old.cache
             s == [old EXCEPT !.cache = c]
  <1>1. r.tab \in Tabs /\ old \in Tab  BY RequestFacts
  <1>2. tab' = [tab EXCEPT ![r.tab] = s]  BY <1>1 DEF CallAnswered, SessionInv, TypeOK
  <1>3. \/ c = old.cache
        \/ c = old.cache \cup {r.who} /\ r.status = "ok" /\ (r.kind = "save" \/ r.gen = old.gen)
    OBVIOUS
  <1> HIDE DEF c
  <1>4. s.open = old.open /\ s.user = old.user /\ s.gen = old.gen /\ s.epoch = old.epoch /\ s.cache = c
    BY <1>1 DEF Tab
  <1> HIDE DEF s
  <1>5. tab'[r.tab] = s  BY <1>1, <1>2 DEF SessionInv, TypeOK
  <1>6. /\ UNCHANGED <<tokens, stored, cookie, scope>> /\ requests' \subseteq requests
        /\ r.kind \in {"query", "save"}
    BY DEF CallAnswered
  <1>7. Effect(r.tab)  BY <1>4, <1>5, <1>6, SameTokens, HeirsOfSelf DEF Effect, SessionInv
  <1> QED  BY <1>3, <1>4, <1>5, <1>6, <1>7 DEF Caches

-----------------------------------------------------------------------------
(* It sends the token of the user it shows.                                *)

LEMMA TokenUser ==
  ASSUME SessionInv, NEW k \in 0 .. Len(tokens), k # NoToken
  PROVE  k \in 1 .. Len(tokens) /\ tokens[k].user \in Users
  <1>1. k \in 1 .. Len(tokens)  BY LenProperties DEF SessionInv, TypeOK, NoToken
  <1>2. tokens[k] \in Token  BY <1>1, ElementOfSeq DEF SessionInv, TypeOK
  <1> QED  BY <1>1, <1>2 DEF Token

LEMMA AloneStays ==
  ASSUME SessionInv, NEW t \in Tabs, AloneInv(t), Effect(t), tab'[t].user = tab[t].user,
         stored' \in {NoToken, stored}
  PROVE  AloneInv(t)'
  <1>1. CASE stored' = NoToken  BY <1>1 DEF AloneInv
  <1>2. CASE stored' # NoToken
    <2>1. stored' = stored /\ stored \in 1 .. Len(tokens)  BY <1>2, TokenUser, TabFacts
    <2>2. tokens'[stored'].user = tokens[stored].user  BY <2>1 DEF Effect, TokensKept
    <2>3. tab'[t].open /\ tab'[t].user = tokens'[stored'].user
      BY <1>2, <2>1, <2>2 DEF AloneInv, Effect
    <2>4. ASSUME tab'[t].epoch = 0, NEW r \in requests', IsMe(r) PROVE r.bearer = stored'
      <3>1. tab[t].epoch = 0  BY <2>4 DEF Effect
      <3>2. CASE Fresh(r, t)  BY <2>1, <2>4, <3>2 DEF Fresh, IsMe
      <3>3. CASE \E q \in requests : Heir(r, q)
        <4>1. PICK q \in requests : Heir(r, q)  BY <3>3
        <4> QED  BY <1>2, <2>1, <2>4, <3>1, <4>1 DEF AloneInv, Heir
      <3> QED  BY <3>2, <3>3 DEF Effect
    <2> QED  BY <2>3, <2>4 DEF AloneInv
  <1> QED  BY <1>1, <1>2

LEMMA AloneConfirms ==
  ASSUME SessionInv, NEW r \in requests, AloneInv(r.tab), Confirms(r)
  PROVE  AloneInv(r.tab)'
  <1>1. RequestOK(r, tokens, tab) /\ tab[r.tab].open  BY RequestFacts
  <1>2. CASE stored = NoToken  BY <1>2 DEF AloneInv, Confirms
  <1>3. CASE stored # NoToken
    <2>1. r.bearer = stored  BY <1>3 DEF AloneInv, Confirms
    <2>2. r.who = tokens[stored].user
      BY <1>1, <1>3, <2>1 DEF RequestOK, Confirms, IsMe, IsRead, Presented
    <2> QED  BY <1>1, <1>3, <2>2 DEF AloneInv, Confirms, Effect
  <1> QED  BY <1>2, <1>3

LEMMA AloneLoads ==
  ASSUME SessionInv, NEW t, Tabs = {t}, AloneInv(t), Load(t)
  PROVE  AloneInv(t)'
  <1> DEFINE s == Loaded(t, stored)
             q == Send(t, "me", stored, NoUser)
             n == [q EXCEPT !.epoch = 0, !.gen = 0]
  <1>1. s.open /\ s.user = IF stored = NoToken THEN NoUser ELSE tokens[stored].user
    BY LoadedFields DEF SessionInv
  <1>2. tab' = [tab EXCEPT ![t] = s] /\ stored' = stored /\ tokens' = tokens  BY DEF Load
  <1> HIDE DEF s
  <1>3. tab'[t] = s  BY <1>2 DEF SessionInv, TypeOK
  <1>4. Others(t) = {}  BY RequestFacts DEF Others
  <1>5. requests' = {n}  BY <1>4 DEF Load
  <1>6. "me" \in Kinds /\ NoUser \in Users \cup {NoUser} /\ stored \in TokenId
    BY TabFacts DEF Kinds
  <1>7. q \in Request /\ q.bearer = stored  BY <1>6, SendFields DEF SessionInv
  <1> HIDE DEF q
  <1>8. n.bearer = stored  BY <1>7 DEF Request
  <1> HIDE DEF n
  <1> QED  BY <1>1, <1>2, <1>3, <1>5, <1>8 DEF AloneInv

LEMMA AloneInit ==
  ASSUME Init, NEW t \in Tabs
  PROVE  AloneInv(t)
  BY DEF Init, AloneInv

LEMMA AloneStep ==
  ASSUME SessionInv, NEW t, Tabs = {t}, AloneInv(t), [Next]_vars
  PROVE  AloneInv(t)'
  <1>1. ASSUME Quiet(t) PROVE AloneInv(t)'  BY <1>1, AloneStays DEF Quiet, KeepsStored
  <1>2. ASSUME SignsOut(t) PROVE AloneInv(t)'  BY <1>2 DEF SignsOut, AloneInv
  <1>3. ASSUME NEW r \in requests PROVE r.tab = t  BY <1>3, RequestFacts
  <1>4. ASSUME NEW r \in requests, Serve(r) \/ Fail(r) PROVE AloneInv(t)'
    BY <1>1, <1>4, ServerQuiet
  <1>5. ASSUME NEW r \in requests, Handle(r) PROVE AloneInv(t)'
    <2>1. r.tab = t  BY <1>3
    <2>2. CASE LoginFails(r) \/ LogoutAnswered(r)  BY <1>1, <2>2, StillQuiet
    <2>3. CASE LoginAnswered(r)
      <3>1. SignsIn(r)  BY <2>3, LoginAnsweredEffect
      <3> QED  BY <2>1, <3>1 DEF SignsIn, AloneInv
    <2>4. CASE MeIgnored(r) \/ (MeAccepted(r) /\ Stale(r))
      <3>1. Quiet(t)  BY <2>1, <2>4, SettledQuiet
      <3> QED  BY <3>1, <1>1
    <2>5. CASE MeAccepted(r) /\ ~Stale(r)
      <3>1. Confirms(r)  BY <2>5, MeAcceptedEffect
      <3> QED  BY <2>1, <3>1, AloneConfirms
    <2>6. CASE MeRefused(r)
      <3>1. SignsOut(t)  BY <2>1, <2>6, MeRefusedEffect
      <3> QED  BY <3>1, <1>2
    <2>7. CASE MeFails(r)
      <3>1. Quiet(t)  BY <2>1, <2>7, MeFailsQuiet
      <3> QED  BY <3>1, <1>1
    <2>8. CASE Retry(r)
      <3>1. Quiet(t)  BY <2>8, RetryQuiet
      <3> QED  BY <3>1, <1>1
    <2>9. CASE CallAnswered(r)
      <3>1. Caches(r)  BY <2>9, CallAnsweredEffect
      <3> QED  BY <2>1, <3>1, AloneStays DEF Caches
    <2>10. CASE CallRefused(r)
      <3>1. Quiet(t) \/ SignsOut(t)  BY <2>1, <2>10, CallRefusedEffect
      <3> QED  BY <3>1, <1>1, <1>2
    <2> QED  BY <1>5, <2>2, <2>3, <2>4, <2>5, <2>6, <2>7, <2>8, <2>9, <2>10 DEF Handle
  <1>6. ASSUME Person(t) PROVE AloneInv(t)'
    <2>1. CASE Load(t)  BY <2>1, AloneLoads
    <2>2. CASE Logout(t)  BY <1>2, <2>2, LogoutEffect
    <2>3. CASE Online(t) \/ (\E u \in Users : SubmitLogin(t, u))
                 \/ (\E kind \in {"query", "save"} : Call(t, kind))
      BY <1>1, <2>3, SendQuiet
    <2>4. CASE Navigate(t)  BY <1>1, <2>4, NavigateQuiet
    <2>5. CASE ChooseScope(t)  BY <1>1, <2>5, StillQuiet
    <2>6. CASE \E u \in Users : GithubSignIn(t, u)
      <3>1. PICK u \in Users : GithubSignIn(t, u)  BY <2>6
      <3>2. tab[t].user = NoUser /\ stored' = stored  BY <3>1 DEF GithubSignIn, LoginForm
      <3>3. stored = NoToken  BY <3>2, TokenUser, TabFacts, SessionAssumption DEF AloneInv
      <3> QED  BY <3>2, <3>3 DEF AloneInv
    <2> QED  BY <1>6, <2>1, <2>2, <2>3, <2>4, <2>5, <2>6 DEF Person
  <1>7. ASSUME (\E u \in Users : RevokeElsewhere(u)) \/ UNCHANGED vars PROVE AloneInv(t)'
    BY <1>1, <1>7, StillQuiet
  <1> QED  BY <1>4, <1>5, <1>6, <1>7 DEF Next

-----------------------------------------------------------------------------
(* It shows nobody what was another's.                                     *)

PasswordOnly == "github" \notin SignIns /\ "save" \notin Calls

LEMMA AskedStays ==
  ASSUME SessionInv, PasswordOnly, NEW t \in Tabs, AloneInv(t), PasswordInv(t), Effect(t),
         tab'[t].epoch = 0 => tab'[t].user = tab[t].user
  PROVE  \A r \in requests' : AskedAs(r, tokens', tab'[t])
  <1>1. /\ cookie = NoToken /\ tab[t].gen \in Nat
    BY TabFacts DEF PasswordInv, Tab
  <1>2. ASSUME NEW k \in 0 .. Len(tokens), k # NoToken PROVE tokens'[k].user = tokens[k].user
    BY <1>2, TokenUser DEF Effect, TokensKept
  <1>3. ASSUME NEW r \in requests', Fresh(r, t) PROVE AskedAs(r, tokens', tab'[t])
    <2>1. r.cookie = NoToken /\ r.kind # "save"  BY <1>1, <1>3 DEF Fresh, PasswordOnly
    <2>2. CASE r.kind \in {"login", "logout"}  BY <2>1, <2>2 DEF AskedAs, IsMe
    <2>3. CASE r.kind \notin {"login", "logout"}
      <3>1. /\ r.gen = tab[t].gen /\ r.bearer = stored /\ tab'[t].user = tab[t].user
            /\ tab'[t].gen = tab[t].gen
        BY <1>3, <2>3 DEF Fresh, Effect
      <3>2. stored # NoToken => tokens'[stored].user = tab[t].user
        BY <1>2, TabFacts DEF AloneInv
      <3> QED  BY <1>1, <2>1, <3>1, <3>2 DEF AskedAs
    <2> QED  BY <2>2, <2>3
  <1>4. ASSUME NEW r \in requests', NEW q \in requests, Heir(r, q) PROVE AskedAs(r, tokens', tab'[t])
    <2>1. AskedAs(q, tokens, tab[t])  BY DEF PasswordInv
    <2>2. q.bearer \in 0 .. Len(tokens) /\ q.gen \in Nat  BY RequestFacts DEF RequestOK, Request
    <2>3. r.cookie = NoToken /\ r.kind # "save" /\ r.bearer = q.bearer /\ r.gen = q.gen
      BY <1>1, <1>4, <2>1 DEF Heir, AskedAs, IsMe
    <2>4. r.bearer # NoToken => tokens'[r.bearer].user = tokens[q.bearer].user
      BY <1>2, <2>2, <2>3
    <2>5. CASE IsMe(r)
      <3>1. IsMe(q) /\ r.kind # "query"  BY <1>4, <2>5 DEF Heir, IsMe
      <3>2. tab'[t].epoch = 0 => tab[t].epoch = 0  BY DEF Effect
      <3> QED  BY <2>1, <2>3, <2>4, <3>1, <3>2 DEF AskedAs
    <2>6. CASE r.kind = "query"
      <3>1. q.kind = "query" /\ ~IsMe(r)  BY <1>4, <2>6 DEF Heir, IsMe
      <3>2. q.gen <= tab[t].gen  BY <2>1, <3>1 DEF AskedAs
      <3>3. CASE tab'[t].user = tab[t].user
        <4>1. tab'[t].gen = tab[t].gen  BY <3>3 DEF Effect
        <4> QED  BY <2>1, <2>3, <2>4, <3>1, <3>2, <3>3, <4>1 DEF AskedAs
      <3>4. CASE tab'[t].user # tab[t].user
        <4>1. tab'[t].gen = tab[t].gen + 1  BY <3>4 DEF Effect
        <4>2. r.gen <= tab'[t].gen /\ r.gen # tab'[t].gen  BY <1>1, <2>2, <2>3, <3>2, <4>1
        <4> QED  BY <2>3, <3>1, <4>2 DEF AskedAs
      <3> QED  BY <3>3, <3>4
    <2>7. CASE ~IsMe(r) /\ r.kind # "query"  BY <2>3, <2>7 DEF AskedAs
    <2> QED  BY <2>5, <2>6, <2>7
  <1> QED  BY <1>3, <1>4 DEF Effect

LEMMA PasswordQuiet ==
  ASSUME SessionInv, PasswordOnly, NEW t \in Tabs, AloneInv(t), PasswordInv(t), Effect(t),
         tab'[t].user = tab[t].user, tab'[t].cache \subseteq {tab[t].user},
         stored' \in {NoToken, stored}, cookie' \in {NoToken, cookie},
         scope' \in {scope, tab[t].user}
  PROVE  PasswordInv(t)'
  <1>1. \A r \in requests' : AskedAs(r, tokens', tab'[t])  BY AskedStays
  <1>2. stored' # NoToken => scope' \in {NoUser, tokens'[stored'].user}
    <2>1. SUFFICES ASSUME stored' # NoToken PROVE scope' \in {NoUser, tokens'[stored'].user}
      OBVIOUS
    <2>2. stored' = stored /\ stored \in 1 .. Len(tokens)  BY <2>1, TokenUser, TabFacts
    <2>3. tokens'[stored'].user = tokens[stored].user /\ tokens[stored].user = tab[t].user
      BY <2>1, <2>2 DEF AloneInv, Effect, TokensKept
    <2>4. scope \in {NoUser, tokens[stored].user}  BY <2>1, <2>2 DEF PasswordInv
    <2> QED  BY <2>3, <2>4
  <1>3. tab'[t].user # NoUser => scope' \in {NoUser, tab'[t].user}  BY DEF PasswordInv
  <1>4. cookie' = NoToken /\ tab'[t].cache \subseteq {tab'[t].user}  BY DEF PasswordInv
  <1> QED  BY <1>1, <1>2, <1>3, <1>4 DEF PasswordInv

LEMMA PasswordSignsOut ==
  ASSUME SessionInv, PasswordOnly, NEW t \in Tabs, AloneInv(t), PasswordInv(t), SignsOut(t)
  PROVE  PasswordInv(t)'
  <1>1. \A r \in requests' : AskedAs(r, tokens', tab'[t])  BY AskedStays DEF SignsOut
  <1>2. tab'[t].cache \subseteq {tab'[t].user}
    <2>1. CASE tab[t].user = NoUser  BY <2>1 DEF SignsOut, PasswordInv
    <2>2. CASE tab[t].user # NoUser  BY <2>2 DEF SignsOut
    <2> QED  BY <2>1, <2>2
  <1> QED  BY <1>1, <1>2 DEF SignsOut, PasswordInv

LEMMA PasswordSignsIn ==
  ASSUME SessionInv, PasswordOnly, NEW r \in requests, AloneInv(r.tab), PasswordInv(r.tab),
         SignsIn(r)
  PROVE  PasswordInv(r.tab)'
  <1>1. r.tab \in Tabs  BY RequestFacts
  <1>2. \A q \in requests' : AskedAs(q, tokens', tab'[r.tab])  BY <1>1, AskedStays DEF SignsIn
  <1>3. tab'[r.tab].cache \subseteq {tab'[r.tab].user}
    <2>1. CASE tab[r.tab].user = r.who  BY <2>1 DEF SignsIn, PasswordInv
    <2>2. CASE tab[r.tab].user # r.who  BY <2>2 DEF SignsIn
    <2> QED  BY <2>1, <2>2
  <1> QED  BY <1>2, <1>3 DEF SignsIn, PasswordInv

(* Of an answer that was authenticated: the user shown.                    *)
LEMMA AnsweredAsShown ==
  ASSUME SessionInv, NEW r \in requests, PasswordInv(r.tab), r.status = "ok",
         \/ IsMe(r) /\ tab[r.tab].epoch = 0
         \/ r.kind = "query" /\ r.gen = tab[r.tab].gen
  PROVE  r.who = tab[r.tab].user
  <1>1. RequestOK(r, tokens, tab) /\ AskedAs(r, tokens, tab[r.tab])
    BY RequestFacts DEF PasswordInv
  <1>2. Presented(r) # NoToken /\ r.who = tokens[Presented(r)].user
    BY <1>1 DEF RequestOK, IsRead, IsMe
  <1>3. Presented(r) = r.bearer /\ r.bearer # NoToken  BY <1>1, <1>2 DEF AskedAs, Presented
  <1>4. tokens[r.bearer].user = tab[r.tab].user  BY <1>1, <1>3 DEF AskedAs
  <1> QED  BY <1>2, <1>3, <1>4

LEMMA PasswordConfirms ==
  ASSUME SessionInv, PasswordOnly, NEW r \in requests, AloneInv(r.tab), PasswordInv(r.tab),
         Confirms(r)
  PROVE  PasswordInv(r.tab)'
  <1>1. r.who = tab[r.tab].user  BY AnsweredAsShown DEF Confirms
  <1>2. r.tab \in Tabs  BY RequestFacts
  <1>3. tab'[r.tab].cache \subseteq {tab[r.tab].user}  BY <1>1 DEF Confirms, PasswordInv
  <1> QED  BY <1>1, <1>2, <1>3, PasswordQuiet DEF Confirms

LEMMA PasswordCaches ==
  ASSUME SessionInv, PasswordOnly, NEW r \in requests, AloneInv(r.tab), PasswordInv(r.tab),
         Caches(r)
  PROVE  PasswordInv(r.tab)'
  <1>1. r.tab \in Tabs /\ r.kind # "save"  BY RequestFacts DEF PasswordInv, AskedAs
  <1>2. tab'[r.tab].cache \subseteq {tab[r.tab].user}
    <2>1. CASE tab'[r.tab].cache = tab[r.tab].cache  BY <2>1 DEF PasswordInv
    <2>2. CASE tab'[r.tab].cache # tab[r.tab].cache
      <3>1. /\ tab'[r.tab].cache = tab[r.tab].cache \cup {r.who}
            /\ r.status = "ok" /\ r.kind = "query" /\ r.gen = tab[r.tab].gen
        BY <1>1, <2>2 DEF Caches
      <3>2. r.who = tab[r.tab].user  BY <3>1, AnsweredAsShown
      <3> QED  BY <3>1, <3>2 DEF PasswordInv
    <2> QED  BY <2>1, <2>2
  <1> QED  BY <1>1, <1>2, PasswordQuiet DEF Caches

LEMMA PasswordLoads ==
  ASSUME SessionInv, NEW t, Tabs = {t}, AloneInv(t), PasswordInv(t), Load(t)
  PROVE  PasswordInv(t)'
  <1> DEFINE s == Loaded(t, stored)
             q == Send(t, "me", stored, NoUser)
             n == [q EXCEPT !.epoch = 0, !.gen = 0]
  <1>1. s.cache = {} /\ s.user = IF stored = NoToken THEN NoUser ELSE tokens[stored].user
    BY LoadedFields DEF SessionInv
  <1>2. tab' = [tab EXCEPT ![t] = s] /\ UNCHANGED <<stored, tokens, cookie, scope>>  BY DEF Load
  <1> HIDE DEF s
  <1>3. tab'[t] = s  BY <1>2 DEF SessionInv, TypeOK
  <1>4. Others(t) = {}  BY RequestFacts DEF Others
  <1>5. requests' = {n}  BY <1>4 DEF Load
  <1>6. "me" \in Kinds /\ NoUser \in Users \cup {NoUser} /\ stored \in TokenId
    BY TabFacts DEF Kinds
  <1>7. q \in Request /\ q.bearer = stored /\ q.cookie = cookie /\ q.kind = "me"
    BY <1>6, SendFields DEF SessionInv
  <1> HIDE DEF q
  <1>8. n.bearer = stored /\ n.cookie = cookie /\ n.kind = "me"  BY <1>7 DEF Request
  <1> HIDE DEF n
  <1>9. cookie = NoToken  BY DEF PasswordInv
  <1>10. AskedAs(n, tokens', tab'[t])  BY <1>1, <1>2, <1>3, <1>8, <1>9 DEF AskedAs
  <1>11. scope' \in {NoUser, s.user} \/ stored' = NoToken
    BY <1>1, <1>2 DEF PasswordInv
  <1> QED  BY <1>1, <1>2, <1>3, <1>5, <1>9, <1>10, <1>11 DEF PasswordInv

LEMMA PasswordInit ==
  ASSUME Init, NEW t \in Tabs
  PROVE  PasswordInv(t)
  BY DEF Init, PasswordInv, Closed

LEMMA PasswordStep ==
  ASSUME SessionInv, PasswordOnly, NEW t, Tabs = {t}, AloneInv(t), PasswordInv(t), [Next]_vars
  PROVE  PasswordInv(t)'
  <1>1. ASSUME Quiet(t) PROVE PasswordInv(t)'
    <2>1. tab'[t].cache \subseteq {tab[t].user}  BY <1>1 DEF Quiet, PasswordInv
    <2> QED  BY <1>1, <2>1, PasswordQuiet DEF Quiet, KeepsStored
  <1>2. ASSUME SignsOut(t) PROVE PasswordInv(t)'  BY <1>2, PasswordSignsOut
  <1>3. ASSUME NEW r \in requests PROVE r.tab = t  BY <1>3, RequestFacts
  <1>4. ASSUME NEW r \in requests, Serve(r) \/ Fail(r) PROVE PasswordInv(t)'
    BY <1>1, <1>4, ServerQuiet
  <1>5. ASSUME NEW r \in requests, Handle(r) PROVE PasswordInv(t)'
    <2>1. r.tab = t  BY <1>3
    <2>2. CASE LoginFails(r) \/ LogoutAnswered(r)  BY <1>1, <2>2, StillQuiet
    <2>3. CASE LoginAnswered(r)
      <3>1. SignsIn(r)  BY <2>3, LoginAnsweredEffect
      <3> QED  BY <2>1, <3>1, PasswordSignsIn
    <2>4. CASE MeIgnored(r) \/ (MeAccepted(r) /\ Stale(r))
      <3>1. Quiet(t)  BY <2>1, <2>4, SettledQuiet
      <3> QED  BY <3>1, <1>1
    <2>5. CASE MeAccepted(r) /\ ~Stale(r)
      <3>1. Confirms(r)  BY <2>5, MeAcceptedEffect
      <3> QED  BY <2>1, <3>1, PasswordConfirms
    <2>6. CASE MeRefused(r)
      <3>1. SignsOut(t)  BY <2>1, <2>6, MeRefusedEffect
      <3> QED  BY <3>1, <1>2
    <2>7. CASE MeFails(r)
      <3>1. Quiet(t)  BY <2>1, <2>7, MeFailsQuiet
      <3> QED  BY <3>1, <1>1
    <2>8. CASE Retry(r)
      <3>1. Quiet(t)  BY <2>8, RetryQuiet
      <3> QED  BY <3>1, <1>1
    <2>9. CASE CallAnswered(r)
      <3>1. Caches(r)  BY <2>9, CallAnsweredEffect
      <3> QED  BY <2>1, <3>1, PasswordCaches
    <2>10. CASE CallRefused(r)
      <3>1. Quiet(t) \/ SignsOut(t)  BY <2>1, <2>10, CallRefusedEffect
      <3> QED  BY <3>1, <1>1, <1>2
    <2> QED  BY <1>5, <2>2, <2>3, <2>4, <2>5, <2>6, <2>7, <2>8, <2>9, <2>10 DEF Handle
  <1>6. ASSUME Person(t) PROVE PasswordInv(t)'
    <2>1. CASE Load(t)  BY <2>1, PasswordLoads
    <2>2. CASE Logout(t)  BY <1>2, <2>2, LogoutEffect
    <2>3. CASE Online(t) \/ (\E u \in Users : SubmitLogin(t, u))
                 \/ (\E kind \in {"query", "save"} : Call(t, kind))
      BY <1>1, <2>3, SendQuiet
    <2>4. CASE Navigate(t)  BY <1>1, <2>4, NavigateQuiet
    <2>5. CASE ChooseScope(t)  BY <1>1, <2>5, StillQuiet
    <2>6. ~\E u \in Users : GithubSignIn(t, u)  BY DEF GithubSignIn, PasswordOnly
    <2> QED  BY <1>6, <2>1, <2>2, <2>3, <2>4, <2>5, <2>6 DEF Person
  <1>7. ASSUME (\E u \in Users : RevokeElsewhere(u)) \/ UNCHANGED vars PROVE PasswordInv(t)'
    BY <1>1, <1>7, StillQuiet
  <1> QED  BY <1>4, <1>5, <1>6, <1>7 DEF Next

-----------------------------------------------------------------------------
(* Nor with the cookie of a GitHub sign-in, if no session is ended from    *)
(* another device.  While the server takes the cookie, it refuses nothing. *)

Dead(k) == k = NoToken \/ tokens[k].denied

NothingRevoked ==
  /\ revokes = 0 /\ \A u \in Users : version[u] = 0
  /\ \A k \in 1 .. Len(tokens) : tokens[k].version = 0

Living(r) ==
  /\ r.cookie = cookie /\ r.status # "unauthorized"
  /\ r.bearer # NoToken => ~Dead(r.bearer)
  /\ r.token # NoToken => ~Dead(r.token)

(* A cookie that is taken is the shown user's, unless a token is stored.   *)
CookieInv(t) ==
  ~Dead(cookie) =>
    /\ stored # NoToken => ~Dead(stored)
    /\ \A r \in requests : Living(r) /\ (tab[t].epoch = 0 /\ IsMe(r) => r.bearer = stored)
    /\ stored = NoToken /\ tab[t].user # NoUser => tokens[cookie].user = tab[t].user

(* A query that the cache still knows was asked as the user shown, or will *)
(* be refused.                                                             *)
QueryOK(r, issued, s) ==
  /\ r.kind # "save"
  /\ r.kind = "query" =>
       /\ r.gen <= s.gen
       /\ r.gen = s.gen =>
            \/ r.status # "ok" /\ (Presented(r) = NoToken \/ issued[Presented(r)].denied)
            \/ Presented(r) # NoToken /\ issued[Presented(r)].user = s.user

QueryInv(t) ==
  /\ tab[t].cache \subseteq {tab[t].user}
  /\ \A r \in requests : QueryOK(r, tokens, tab[t])

LEMMA LivingIsTaken ==
  ASSUME SessionInv, NothingRevoked, NEW k \in 0 .. Len(tokens), ~Dead(k)
  PROVE  Accepted(k)
  <1>1. k # NoToken /\ ~tokens[k].denied  BY DEF Dead
  <1>2. k \in 1 .. Len(tokens) /\ tokens[k].user \in Users  BY <1>1, TokenUser
  <1> QED  BY <1>1, <1>2 DEF Accepted, NothingRevoked

LEMMA RevokedInit == Init => NothingRevoked
  <1> SUFFICES ASSUME Init PROVE NothingRevoked  OBVIOUS
  <1>1. Len(tokens) = 0  BY EmptySeq DEF Init
  <1> QED  BY <1>1 DEF Init, NothingRevoked

LEMMA RevokedStep ==
  ASSUME SessionInv, MaxRevokes = 0, NothingRevoked, [Next]_vars
  PROVE  NothingRevoked'
  <1>0. tokens \in Seq(Token) /\ Len(tokens) \in Nat /\ DOMAIN tokens = 1 .. Len(tokens)
    BY LenProperties DEF SessionInv, TypeOK
  <1>1. ASSUME UNCHANGED <<version, revokes, tokens>> PROVE NothingRevoked'
    BY <1>1 DEF NothingRevoked
  <1>2. ASSUME NEW u \in Users, Len(tokens) < MaxTokens, tokens' = NewToken(u), UNCHANGED <<version, revokes>>
        PROVE  NothingRevoked'
    <2> DEFINE n == [user |-> u, version |-> version[u], denied |-> FALSE]
    <2>1. n.version = 0 /\ n \in Token  BY DEF NothingRevoked, SessionInv, TypeOK, Token
    <2>2. tokens' = Append(tokens, n)  BY <1>2 DEF NewToken
    <2> HIDE DEF n
    <2>3. /\ Len(tokens') = Len(tokens) + 1 /\ tokens'[Len(tokens) + 1] = n
          /\ \A k \in 1 .. Len(tokens) : tokens'[k] = tokens[k]
      BY <1>0, <2>1, <2>2, AppendProperties
    <2> QED  BY <1>0, <1>2, <2>1, <2>3 DEF NothingRevoked
  <1>3. ASSUME NEW r \in requests, ServeLogout(r) PROVE NothingRevoked'
    <2>1. tokens' = Denied(r) /\ UNCHANGED <<version, revokes>>  BY <1>3 DEF ServeLogout
    <2>2. DOMAIN tokens' = 1 .. Len(tokens) /\ \A k \in 1 .. Len(tokens) : tokens'[k].version = tokens[k].version
      <3>1. \A k \in 1 .. Len(tokens) : tokens[k] \in Token  BY <1>0, ElementOfSeq
      <3> QED  BY <1>0, <2>1, <3>1 DEF Denied, Token
    <2>3. TokensKept  BY <2>1, DenyKeeps DEF SessionInv
    <2>4. Len(tokens') = Len(tokens)
      <3>1. DOMAIN tokens' = 1 .. Len(tokens') /\ Len(tokens') \in Nat
        BY <2>3, LenProperties DEF TokensKept
      <3> QED  BY <1>0, <2>2, <3>1
    <2> QED  BY <2>1, <2>2, <2>4 DEF NothingRevoked
  <1>4. ASSUME NEW r \in requests, Serve(r) \/ Fail(r) PROVE NothingRevoked'
    <2>1. CASE ServeRead(r) \/ Fail(r)  BY <1>1, <2>1 DEF ServeRead, Fail
    <2>2. CASE ServeLogout(r)  BY <1>3, <2>2
    <2>3. CASE ServeLogin(r)
      <3>1. r.who \in Users  BY <2>3, RequestFacts DEF RequestOK, ServeLogin
      <3> QED  BY <1>2, <2>3, <3>1 DEF ServeLogin
    <2> QED  BY <1>4, <2>1, <2>2, <2>3 DEF Serve
  <1>5. ASSUME NEW r \in requests, Handle(r) PROVE NothingRevoked'
    <2>1. UNCHANGED <<version, revokes, tokens>>
      BY <1>5 DEF Handle, LoginAnswered, LoginFails, LogoutAnswered, MeAccepted, MeRefused, MeIgnored,
                  MeFails, Retry, CallAnswered, CallRefused
    <2> QED  BY <1>1, <2>1
  <1>6. ASSUME NEW t \in Tabs, Person(t) PROVE NothingRevoked'
    <2>1. CASE \E u \in Users : GithubSignIn(t, u)  BY <1>2, <2>1 DEF GithubSignIn
    <2>2. CASE ~\E u \in Users : GithubSignIn(t, u)
      <3>1. UNCHANGED <<version, revokes, tokens>>
        BY <1>6, <2>2 DEF Person, Load, Logout, Online, Navigate, ChooseScope, SubmitLogin, Call
      <3> QED  BY <1>1, <3>1
    <2> QED  BY <2>1, <2>2
  <1>7. ~\E u \in Users : RevokeElsewhere(u)  BY DEF RevokeElsewhere, NothingRevoked
  <1>8. CASE UNCHANGED vars  BY <1>1, <1>8 DEF vars
  <1> QED  BY <1>4, <1>5, <1>6, <1>7, <1>8 DEF Next

(* A cookie that is taken after a step was taken before it, and then no    *)
(* answer is a refusal.                                                    *)
LEMMA CookieKept ==
  ASSUME SessionInv, NothingRevoked, NEW t \in Tabs, CookieInv(t), Effect(t),
         cookie' \in {NoToken, cookie}, ~Dead(cookie)'
  PROVE  /\ ~Dead(cookie) /\ cookie' = cookie
         /\ \A k \in 1 .. Len(tokens) : tokens'[k].denied => tokens[k].denied
         /\ tokens'[cookie].user = tokens[cookie].user
         /\ ~\E q \in requests : q.status = "unauthorized"
         /\ \A r \in requests' : Living(r)'
  <1>1. cookie' = cookie /\ cookie # NoToken /\ ~tokens'[cookie].denied  BY DEF Dead
  <1>2. cookie \in 1 .. Len(tokens)  BY <1>1, TokenUser, TabFacts
  <1>3. ~Dead(cookie) /\ tokens'[cookie].user = tokens[cookie].user
    BY <1>1, <1>2 DEF Dead, Effect, TokensKept
  <1>4. \A q \in requests : Living(q)  BY <1>3 DEF CookieInv
  <1>5. \A k \in 1 .. Len(tokens) : tokens'[k].denied => tokens[k].denied
    BY <1>1, <1>4 DEF Effect, Denials, Living
  <1>6. ASSUME NEW k \in 0 .. Len(tokens), k # NoToken, ~Dead(k) PROVE ~tokens'[k].denied
    <2>1. k \in 1 .. Len(tokens)  BY <1>6, TokenUser
    <2> QED  BY <1>5, <1>6, <2>1 DEF Dead
  <1>7. ASSUME NEW r \in requests', Fresh(r, t) PROVE Living(r)'
    <2>1. stored # NoToken => ~tokens'[stored].denied
      BY <1>3, <1>6, TabFacts DEF CookieInv
    <2> QED  BY <1>1, <1>7, <2>1 DEF Fresh, Living, Dead
  <1>8. ASSUME NEW r \in requests', NEW q \in requests, Heir(r, q) PROVE Living(r)'
    <2>1. Living(q) /\ {q.bearer, q.cookie, q.token} \subseteq 0 .. Len(tokens)
      BY <1>4, RequestFacts DEF RequestOK
    <2>2. Accepted(Presented(q))
      <3>1. Presented(q) \in 0 .. Len(tokens) /\ ~Dead(Presented(q))
        BY <1>3, <2>1 DEF Presented, Living
      <3> QED  BY <3>1, LivingIsTaken
    <2>3. r.status # "unauthorized" /\ r.cookie = cookie  BY <1>8, <2>1, <2>2 DEF Heir, Living
    <2>4. r.bearer # NoToken => ~tokens'[r.bearer].denied
      BY <1>6, <1>8, <2>1 DEF Heir, Living
    <2>5. r.token # NoToken => ~tokens'[r.token].denied
      BY <1>6, <1>8, <2>1 DEF Heir, Living
    <2> QED  BY <1>1, <2>3, <2>4, <2>5 DEF Living, Dead
  <1>9. \A r \in requests' : Living(r)'  BY <1>7, <1>8 DEF Effect
  <1> QED  BY <1>1, <1>3, <1>4, <1>5, <1>9 DEF Living

(* What a step makes of the queries, if it changes the user or keeps it.   *)
LEMMA QueryStays ==
  ASSUME SessionInv, "save" \notin Calls, NEW t \in Tabs, AloneInv(t), CookieInv(t), QueryInv(t),
         Effect(t)
  PROVE  \A r \in requests' : QueryOK(r, tokens', tab'[t])
  <1>1. tab[t].gen \in Nat /\ stored \in 0 .. Len(tokens) /\ cookie \in 0 .. Len(tokens)
    BY TabFacts DEF Tab
  <1>2. ASSUME NEW k \in 0 .. Len(tokens), k # NoToken
        PROVE  /\ tokens'[k].user = tokens[k].user
               /\ tokens[k].denied => tokens'[k].denied
    BY <1>2, TokenUser DEF Effect, TokensKept
  <1>3. ASSUME NEW r \in requests', Fresh(r, t) PROVE QueryOK(r, tokens', tab'[t])
    <2>1. r.kind # "save"  BY <1>3 DEF Fresh
    <2>2. SUFFICES ASSUME r.kind = "query" PROVE QueryOK(r, tokens', tab'[t])
      BY <2>1 DEF QueryOK
    <2>3. /\ r.gen = tab[t].gen /\ r.bearer = stored /\ tab'[t].user = tab[t].user
          /\ tab'[t].gen = tab[t].gen /\ r.cookie = cookie /\ r.status = "sent" /\ tab[t].user # NoUser
      BY <1>3, <2>2 DEF Fresh, Effect
    <2>4. CASE stored # NoToken
      <3>1. Presented(r) = stored /\ tokens'[stored].user = tab[t].user
        BY <1>1, <1>2, <2>3, <2>4 DEF Presented, AloneInv
      <3> QED  BY <1>1, <2>1, <2>3, <2>4, <3>1 DEF QueryOK
    <2>5. CASE stored = NoToken /\ Dead(cookie)
      <3>1. Presented(r) = cookie /\ (cookie = NoToken \/ tokens'[cookie].denied)
        BY <1>1, <1>2, <2>3, <2>5 DEF Presented, Dead
      <3> QED  BY <1>1, <2>1, <2>3, <3>1 DEF QueryOK
    <2>6. CASE stored = NoToken /\ ~Dead(cookie)
      <3>1. Presented(r) = cookie /\ cookie # NoToken /\ tokens'[cookie].user = tab[t].user
        BY <1>1, <1>2, <2>3, <2>6 DEF Presented, Dead, CookieInv
      <3> QED  BY <1>1, <2>1, <2>3, <3>1 DEF QueryOK
    <2> QED  BY <2>4, <2>5, <2>6
  <1>4. ASSUME NEW r \in requests', NEW q \in requests, Heir(r, q) PROVE QueryOK(r, tokens', tab'[t])
    <2>1. QueryOK(q, tokens, tab[t])  BY DEF QueryInv
    <2>2. r.kind # "save"
      <3>1. IsMe(r) => r.kind # "save"  BY DEF IsMe
      <3> QED  BY <1>4, <2>1, <3>1 DEF Heir, QueryOK
    <2>3. SUFFICES ASSUME r.kind = "query" PROVE QueryOK(r, tokens', tab'[t])
      BY <2>2 DEF QueryOK
    <2>4. q.kind = "query" /\ r.gen = q.gen /\ Presented(r) = Presented(q)
      BY <1>4, <2>3 DEF Heir, IsMe, Presented
    <2>5. q.gen \in Nat /\ Presented(q) \in 0 .. Len(tokens)
      BY RequestFacts DEF RequestOK, Request, Presented
    <2>6. CASE tab'[t].user # tab[t].user
      <3>1. tab'[t].gen = tab[t].gen + 1  BY <2>6 DEF Effect
      <3>2. q.gen <= tab[t].gen  BY <2>1, <2>4 DEF QueryOK
      <3>3. r.gen <= tab'[t].gen /\ r.gen # tab'[t].gen  BY <1>1, <2>4, <2>5, <3>1, <3>2
      <3> QED  BY <2>2, <3>3 DEF QueryOK
    <2>7. CASE tab'[t].user = tab[t].user
      <3>1. tab'[t].gen = tab[t].gen  BY <2>7 DEF Effect
      <3>2. q.gen <= tab[t].gen  BY <2>1, <2>4 DEF QueryOK
      <3>3. CASE q.gen = tab[t].gen /\ Presented(q) # NoToken /\ tokens[Presented(q)].user = tab[t].user
        <4>1. tokens'[Presented(r)].user = tab'[t].user  BY <1>2, <2>4, <2>5, <2>7, <3>3
        <4> QED  BY <2>2, <2>4, <3>1, <3>2, <3>3, <4>1 DEF QueryOK
      <3>4. CASE q.status # "ok" /\ Dead(Presented(q))
        <4>1. Presented(r) = NoToken \/ tokens'[Presented(r)].denied
          BY <1>2, <2>4, <2>5, <3>4 DEF Dead
        <4>2. ~Accepted(Presented(q))  BY <3>4 DEF Accepted, Dead
        <4>3. r.status # "ok"  BY <1>4, <2>4, <3>4, <4>2 DEF Heir, IsRead
        <4> QED  BY <2>2, <2>4, <3>1, <3>2, <4>1, <4>3 DEF QueryOK
      <3>5. CASE q.gen # tab[t].gen  BY <2>2, <2>4, <3>1, <3>2, <3>5 DEF QueryOK
      <3> QED  BY <2>1, <2>4, <3>3, <3>4, <3>5 DEF QueryOK, Dead
    <2> QED  BY <2>6, <2>7
  <1> QED  BY <1>3, <1>4 DEF Effect

(* What the invariant is, of a tab that is alone.                          *)
GithubInv(t) == NothingRevoked /\ CookieInv(t) /\ QueryInv(t)

LEMMA GithubQuiet ==
  ASSUME SessionInv, "save" \notin Calls, NEW t \in Tabs, AloneInv(t), GithubInv(t), Effect(t),
         tab'[t].user = tab[t].user, tab'[t].cache \subseteq {tab[t].user},
         KeepsStored, cookie' \in {NoToken, cookie}
  PROVE  CookieInv(t)' /\ QueryInv(t)'
  <1>1. \A r \in requests' : QueryOK(r, tokens', tab'[t])  BY QueryStays DEF GithubInv
  <1>2. CookieInv(t)'
    <2> SUFFICES ASSUME ~Dead(cookie)' PROVE CookieInv(t)'  BY DEF CookieInv
    <2>1. /\ ~Dead(cookie) /\ cookie' = cookie /\ tokens'[cookie].user = tokens[cookie].user
          /\ \A k \in 1 .. Len(tokens) : tokens'[k].denied => tokens[k].denied
          /\ ~\E q \in requests : q.status = "unauthorized"
          /\ \A r \in requests' : Living(r)'
      BY CookieKept DEF GithubInv
    <2>2. stored' = stored  BY <2>1 DEF KeepsStored
    <2>3. stored # NoToken => stored \in 1 .. Len(tokens)  BY TabFacts, TokenUser
    <2>4. stored' # NoToken => ~Dead(stored)'
      BY <2>1, <2>2, <2>3 DEF GithubInv, CookieInv, Dead
    <2>5. ASSUME tab'[t].epoch = 0, NEW r \in requests', IsMe(r) PROVE r.bearer = stored'
      <3>1. tab[t].epoch = 0  BY <2>5 DEF Effect
      <3>2. CASE Fresh(r, t)  BY <2>2, <2>5, <3>2 DEF Fresh, IsMe
      <3>3. CASE \E q \in requests : Heir(r, q)
        <4>1. PICK q \in requests : Heir(r, q)  BY <3>3
        <4> QED  BY <2>1, <2>2, <2>5, <3>1, <4>1 DEF GithubInv, CookieInv, Heir
      <3> QED  BY <3>2, <3>3 DEF Effect
    <2>6. stored' = NoToken /\ tab'[t].user # NoUser => tokens'[cookie'].user = tab'[t].user
      BY <2>1, <2>2 DEF GithubInv, CookieInv
    <2> QED  BY <2>1, <2>4, <2>5, <2>6 DEF CookieInv
  <1> QED  BY <1>1, <1>2 DEF QueryInv

LEMMA GithubSignsOut ==
  ASSUME SessionInv, "save" \notin Calls, NEW t \in Tabs, AloneInv(t), GithubInv(t), SignsOut(t)
  PROVE  CookieInv(t)' /\ QueryInv(t)'
  <1>1. \A r \in requests' : QueryOK(r, tokens', tab'[t])  BY QueryStays DEF GithubInv, SignsOut
  <1>2. tab'[t].cache \subseteq {tab'[t].user}
    <2>1. CASE tab[t].user = NoUser  BY <2>1 DEF SignsOut, GithubInv, QueryInv
    <2>2. CASE tab[t].user # NoUser  BY <2>2 DEF SignsOut
    <2> QED  BY <2>1, <2>2
  <1>3. CookieInv(t)'
    <2> SUFFICES ASSUME ~Dead(cookie)' PROVE CookieInv(t)'  BY DEF CookieInv
    <2>1. \A r \in requests' : Living(r)'  BY CookieKept DEF GithubInv, SignsOut
    <2> QED  BY <2>1 DEF SignsOut, CookieInv
  <1> QED  BY <1>1, <1>2, <1>3 DEF QueryInv

LEMMA GithubSignsIn ==
  ASSUME SessionInv, "save" \notin Calls, NEW r \in requests, AloneInv(r.tab), GithubInv(r.tab), SignsIn(r)
  PROVE  CookieInv(r.tab)' /\ QueryInv(r.tab)'
  <1>0. r.tab \in Tabs  BY RequestFacts
  <1>1. \A q \in requests' : QueryOK(q, tokens', tab'[r.tab])
    BY <1>0, QueryStays DEF GithubInv, SignsIn
  <1>2. tab'[r.tab].cache \subseteq {tab'[r.tab].user}
    <2>1. CASE tab[r.tab].user = r.who  BY <2>1 DEF SignsIn, GithubInv, QueryInv
    <2>2. CASE tab[r.tab].user # r.who  BY <2>2 DEF SignsIn
    <2> QED  BY <2>1, <2>2
  <1>3. CookieInv(r.tab)'
    <2> SUFFICES ASSUME ~Dead(cookie)' PROVE CookieInv(r.tab)'  BY DEF CookieInv
    <2>1. ~Dead(cookie) /\ \A q \in requests' : Living(q)'
      BY <1>0, CookieKept DEF GithubInv, SignsIn
    <2>2. Living(r)  BY <2>1 DEF GithubInv, CookieInv
    <2>3. ~Dead(stored)'  BY <2>2 DEF Living, SignsIn, Dead
    <2>4. tab'[r.tab].epoch # 0 /\ stored' # NoToken  BY DEF SignsIn
    <2> QED  BY <2>1, <2>3, <2>4 DEF CookieInv
  <1> QED  BY <1>1, <1>2, <1>3 DEF QueryInv

LEMMA GithubConfirms ==
  ASSUME SessionInv, "save" \notin Calls, NEW r \in requests, AloneInv(r.tab), GithubInv(r.tab), Confirms(r)
  PROVE  CookieInv(r.tab)' /\ QueryInv(r.tab)'
  <1>0. r.tab \in Tabs /\ RequestOK(r, tokens, tab)  BY RequestFacts
  <1>1. \A q \in requests' : QueryOK(q, tokens', tab'[r.tab])
    BY <1>0, QueryStays DEF GithubInv, Confirms
  <1>2. tab'[r.tab].cache \subseteq {tab'[r.tab].user}
    <2>1. CASE tab[r.tab].user = r.who  BY <2>1 DEF Confirms, GithubInv, QueryInv
    <2>2. CASE tab[r.tab].user # r.who  BY <2>2 DEF Confirms
    <2> QED  BY <2>1, <2>2
  <1>3. CookieInv(r.tab)'
    <2> SUFFICES ASSUME ~Dead(cookie)' PROVE CookieInv(r.tab)'  BY DEF CookieInv
    <2>1. ~Dead(cookie) /\ \A q \in requests' : Living(q)'
      BY <1>0, CookieKept DEF GithubInv, Confirms
    <2>2. /\ stored # NoToken => ~Dead(stored)
          /\ \A q \in requests : IsMe(q) => q.bearer = stored
          /\ Living(r)
      BY <2>1 DEF GithubInv, CookieInv, Confirms
    <2>3. UNCHANGED <<tokens, stored, cookie>> /\ requests' \subseteq requests  BY DEF Confirms
    <2>4. stored' # NoToken => ~Dead(stored)'  BY <2>2, <2>3 DEF Dead
    <2>5. stored = NoToken => r.who = tokens[cookie].user
      <3>1. SUFFICES ASSUME stored = NoToken PROVE r.who = tokens[cookie].user  OBVIOUS
      <3>2. IsMe(r) /\ r.status = "ok"  BY DEF Confirms
      <3>3. Presented(r) = cookie  BY <2>2, <3>1, <3>2 DEF Presented, Living
      <3> QED  BY <1>0, <3>2, <3>3 DEF RequestOK, IsRead, IsMe
    <2>6. tab'[r.tab].user = r.who  BY DEF Confirms
    <2> QED  BY <2>1, <2>2, <2>3, <2>4, <2>5, <2>6 DEF CookieInv
  <1> QED  BY <1>1, <1>2, <1>3 DEF QueryInv

LEMMA GithubCaches ==
  ASSUME SessionInv, "save" \notin Calls, NEW r \in requests, AloneInv(r.tab), GithubInv(r.tab), Caches(r)
  PROVE  CookieInv(r.tab)' /\ QueryInv(r.tab)'
  <1>1. /\ r.tab \in Tabs /\ RequestOK(r, tokens, tab) /\ QueryOK(r, tokens, tab[r.tab])
    BY RequestFacts DEF GithubInv, QueryInv
  <1>2. tab'[r.tab].cache \subseteq {tab[r.tab].user}
    <2>1. CASE tab'[r.tab].cache = tab[r.tab].cache  BY <2>1 DEF GithubInv, QueryInv
    <2>2. CASE tab'[r.tab].cache # tab[r.tab].cache
      <3>1. /\ tab'[r.tab].cache = tab[r.tab].cache \cup {r.who}
            /\ r.status = "ok" /\ r.kind = "query" /\ r.gen = tab[r.tab].gen
        BY <1>1, <2>2 DEF Caches, QueryOK
      <3>2. tokens[Presented(r)].user = tab[r.tab].user  BY <1>1, <3>1 DEF QueryOK
      <3>3. r.who = tokens[Presented(r)].user  BY <1>1, <3>1 DEF RequestOK, IsRead
      <3> QED  BY <3>1, <3>2, <3>3 DEF GithubInv, QueryInv
    <2> QED  BY <2>1, <2>2
  <1> QED  BY <1>1, <1>2, GithubQuiet DEF Caches, KeepsStored

(* A page that loads, with the stored token or the cookie it has got.      *)
LEMMA GithubLoads ==
  ASSUME SessionInv, NEW t, Tabs = {t}, GithubInv(t),
         NEW s, tab' = [tab EXCEPT ![t] = s], s.cache = {},
         s.user = IF stored = NoToken THEN NoUser ELSE tokens[stored].user,
         NEW n, requests' = {n}, n.kind = "me", n.bearer = stored, n.cookie = cookie', n.token = NoToken,
         n.status = "sent", stored' = stored,
         stored = NoToken \/ (tokens' = tokens /\ cookie' = cookie)
  PROVE  CookieInv(t)' /\ QueryInv(t)'
  <1>1. tab'[t] = s  BY DEF SessionInv, TypeOK
  <1>2. QueryInv(t)'  BY <1>1 DEF QueryInv, QueryOK
  <1>3. CASE stored = NoToken
    <2>1. n.bearer = NoToken /\ n.bearer = stored' /\ stored' = NoToken  BY <1>3
    <2>2. \A r \in requests' : Living(r)' /\ r.bearer = stored'  BY <2>1 DEF Living
    <2>3. tab'[t].user = NoUser  BY <1>1, <1>3
    <2> QED  BY <1>2, <2>1, <2>2, <2>3 DEF CookieInv
  <1>4. CASE tokens' = tokens /\ cookie' = cookie
    <2>1. ~Dead(cookie)' => ~Dead(cookie)  BY <1>4 DEF Dead
    <2>2. ~Dead(cookie)' => (stored # NoToken => ~Dead(stored)')
      BY <1>4, <2>1 DEF GithubInv, CookieInv, Dead
    <2>3. ~Dead(cookie)' => \A r \in requests' : Living(r)'  BY <2>2 DEF Living
    <2>4. \A r \in requests' : r.bearer = stored'  OBVIOUS
    <2>5. stored' = NoToken => tab'[t].user = NoUser  BY <1>1
    <2> QED  BY <1>2, <2>2, <2>3, <2>4, <2>5 DEF CookieInv
  <1> QED  BY <1>2, <1>3, <1>4

LEMMA LoadedAlone ==
  ASSUME SessionInv, NEW t, Tabs = {t}, AloneInv(t), GithubInv(t),
         Load(t) \/ \E u \in Users : GithubSignIn(t, u)
  PROVE  CookieInv(t)' /\ QueryInv(t)'
  <1> DEFINE l == Loaded(t, stored)
             q == Send(t, "me", stored, NoUser)
  <1>1. /\ l \in Tab /\ l.cache = {}
        /\ l.user = IF stored = NoToken THEN NoUser ELSE tokens[stored].user
    BY LoadedFields DEF SessionInv
  <1>2. "me" \in Kinds /\ NoUser \in Users \cup {NoUser} /\ stored \in TokenId
    BY TabFacts DEF Kinds
  <1>3. /\ q \in Request /\ q.kind = "me" /\ q.bearer = stored /\ q.cookie = cookie
        /\ q.token = NoToken /\ q.status = "sent"
    BY <1>2, SendFields DEF SessionInv
  <1>4. Others(t) = {}  BY RequestFacts DEF Others
  <1>5. CASE Load(t)
    <2> DEFINE n == [q EXCEPT !.epoch = 0, !.gen = 0]
    <2>1. /\ tab' = [tab EXCEPT ![t] = l] /\ requests' = {n}
          /\ UNCHANGED <<tokens, stored, cookie>>
      BY <1>4, <1>5 DEF Load
    <2> HIDE DEF l, q
    <2>2. /\ n.kind = "me" /\ n.bearer = stored /\ n.cookie = cookie
          /\ n.token = NoToken /\ n.status = "sent"
      BY <1>3 DEF Request
    <2> HIDE DEF n
    <2> QED  BY <1>1, <2>1, <2>2, GithubLoads
  <1>6. CASE \E u \in Users : GithubSignIn(t, u)
    <2>1. PICK u \in Users : GithubSignIn(t, u)  BY <1>6
    <2> DEFINE k == Len(tokens) + 1
               s == [l EXCEPT !.public = FALSE]
               n == [q EXCEPT !.epoch = 0, !.gen = 0, !.cookie = k]
    <2>2. /\ tab' = [tab EXCEPT ![t] = s] /\ requests' = {n} /\ stored' = stored /\ cookie' = k
          /\ tab[t].user = NoUser
      BY <1>4, <2>1 DEF GithubSignIn, LoginForm
    <2>3. stored = NoToken  BY <2>2, TokenUser, TabFacts, SessionAssumption DEF AloneInv
    <2> HIDE DEF l, q
    <2>4. s.cache = {} /\ s.user = l.user  BY <1>1 DEF Tab
    <2> HIDE DEF k, s
    <2>5. /\ n.kind = "me" /\ n.bearer = stored /\ n.cookie = k
          /\ n.token = NoToken /\ n.status = "sent"
      BY <1>3 DEF Request
    <2> HIDE DEF n
    <2> QED  BY <1>1, <2>2, <2>3, <2>4, <2>5, GithubLoads
  <1> QED  BY <1>5, <1>6

LEMMA GithubInit ==
  ASSUME Init, NEW t \in Tabs
  PROVE  GithubInv(t)
  BY RevokedInit DEF Init, GithubInv, CookieInv, QueryInv, Closed, Dead

LEMMA GithubStep ==
  ASSUME SessionInv, "save" \notin Calls, MaxRevokes = 0, NEW t, Tabs = {t}, AloneInv(t), GithubInv(t),
         [Next]_vars
  PROVE  GithubInv(t)'
  <1> DEFINE Goal == CookieInv(t)' /\ QueryInv(t)'
  <1>1. ASSUME Quiet(t) PROVE Goal
    <2>1. tab'[t].cache \subseteq {tab[t].user}  BY <1>1 DEF Quiet, GithubInv, QueryInv
    <2> QED  BY <1>1, <2>1, GithubQuiet DEF Quiet
  <1>2. ASSUME SignsOut(t) PROVE Goal  BY <1>2, GithubSignsOut
  <1>3. ASSUME NEW r \in requests PROVE r.tab = t  BY <1>3, RequestFacts
  <1>4. ASSUME NEW r \in requests, Serve(r) \/ Fail(r) PROVE Goal
    BY <1>1, <1>4, ServerQuiet
  <1>5. ASSUME NEW r \in requests, Handle(r) PROVE Goal
    <2>1. r.tab = t  BY <1>3
    <2>2. CASE LoginFails(r) \/ LogoutAnswered(r)  BY <1>1, <2>2, StillQuiet
    <2>3. CASE LoginAnswered(r)
      <3>1. SignsIn(r)  BY <2>3, LoginAnsweredEffect
      <3> QED  BY <2>1, <3>1, GithubSignsIn
    <2>4. CASE MeIgnored(r) \/ (MeAccepted(r) /\ Stale(r))
      <3>1. Quiet(t)  BY <2>1, <2>4, SettledQuiet
      <3> QED  BY <3>1, <1>1
    <2>5. CASE MeAccepted(r) /\ ~Stale(r)
      <3>1. Confirms(r)  BY <2>5, MeAcceptedEffect
      <3> QED  BY <2>1, <3>1, GithubConfirms
    <2>6. CASE MeRefused(r)
      <3>1. SignsOut(t)  BY <2>1, <2>6, MeRefusedEffect
      <3> QED  BY <3>1, <1>2
    <2>7. CASE MeFails(r)
      <3>1. Quiet(t)  BY <2>1, <2>7, MeFailsQuiet
      <3> QED  BY <3>1, <1>1
    <2>8. CASE Retry(r)
      <3>1. Quiet(t)  BY <2>8, RetryQuiet
      <3> QED  BY <3>1, <1>1
    <2>9. CASE CallAnswered(r)
      <3>1. Caches(r)  BY <2>9, CallAnsweredEffect
      <3> QED  BY <2>1, <3>1, GithubCaches
    <2>10. CASE CallRefused(r)
      <3>1. Quiet(t) \/ SignsOut(t)  BY <2>1, <2>10, CallRefusedEffect
      <3> QED  BY <3>1, <1>1, <1>2
    <2> QED  BY <1>5, <2>2, <2>3, <2>4, <2>5, <2>6, <2>7, <2>8, <2>9, <2>10 DEF Handle
  <1>6. ASSUME Person(t) PROVE Goal
    <2>1. CASE Load(t) \/ \E u \in Users : GithubSignIn(t, u)  BY <2>1, LoadedAlone
    <2>2. CASE Logout(t)  BY <1>2, <2>2, LogoutEffect
    <2>3. CASE Online(t) \/ (\E u \in Users : SubmitLogin(t, u))
                 \/ (\E kind \in {"query", "save"} : Call(t, kind))
      BY <1>1, <2>3, SendQuiet
    <2>4. CASE Navigate(t)  BY <1>1, <2>4, NavigateQuiet
    <2>5. CASE ChooseScope(t)  BY <1>1, <2>5, StillQuiet
    <2> QED  BY <1>6, <2>1, <2>2, <2>3, <2>4, <2>5 DEF Person
  <1>7. ASSUME (\E u \in Users : RevokeElsewhere(u)) \/ UNCHANGED vars PROVE Goal
    BY <1>1, <1>7, StillQuiet
  <1>8. NothingRevoked'  BY RevokedStep DEF GithubInv
  <1> QED  BY <1>4, <1>5, <1>6, <1>7, <1>8 DEF Next, GithubInv

-----------------------------------------------------------------------------
(* Every variable has its type.                                            *)
THEOREM TypeCorrect == Spec => []TypeOK
  <1>1. SessionInv => TypeOK  BY DEF SessionInv
  <1> QED  BY <1>1, SessionInit, SessionStep, PTL DEF Spec

LEMMA OneTab ==
  ASSUME NEW t, Tabs = {t}
  PROVE  Spec => [](SessionInv /\ AloneInv(t))
  <1>1. Init => SessionInv /\ AloneInv(t)  BY SessionInit, AloneInit
  <1>2. SessionInv /\ AloneInv(t) /\ [Next]_vars => (SessionInv /\ AloneInv(t))'
    BY SessionStep, AloneStep
  <1> QED  BY <1>1, <1>2, PTL DEF Spec

(* auth-context.tsx: an answer of /auth/me that comes after a sign-in or a *)
(* sign-out in its tab undoes neither, with however many tabs; and a tab   *)
(* that is alone shows the user its requests are authenticated as.         *)
THEOREM TabsShowTruly == Spec => []TabsShowTheChosen
  <1>1. SessionInv => ShownAsChosen  BY DEF SessionInv, TypeOK, TabInv, ShownAsChosen
  <1>2. CASE \E t : Tabs = {t}
    <2>1. PICK t : Tabs = {t}  BY <1>2
    <2>2. SessionInv /\ AloneInv(t) => ActsAsShown
      BY <2>1 DEF SessionInv, TypeOK, AloneInv, ActsAsShown
    <2>3. SessionInv /\ AloneInv(t) => TabsShowTheChosen  BY <1>1, <2>2 DEF TabsShowTheChosen
    <2>4. Spec => [](SessionInv /\ AloneInv(t))  BY <2>1, OneTab
    <2> QED  BY <2>3, <2>4, PTL
  <1>3. CASE ~\E t : Tabs = {t}
    <2>1. SessionInv => ActsAsShown  BY <1>3 DEF SessionInv, TypeOK, ActsAsShown
    <2>2. SessionInv => TabsShowTheChosen  BY <1>1, <2>1 DEF TabsShowTheChosen
    <2> QED  BY <2>2, SessionInit, SessionStep, PTL DEF Spec
  <1> QED  BY <1>2, <1>3

(* query-auth-sync.tsx: a tab that is alone serves nobody what another had *)
(* cached, if nothing is saved, since a mutation writes to whatever cache  *)
(* is there, and if nobody signs in with GitHub or no session is ended     *)
(* from another device: a cookie outlives a refused token, and is then     *)
(* taken for requests of the user shown.                                   *)
THEOREM OwnCacheOnly ==
  ASSUME "save" \notin Calls, "github" \notin SignIns \/ MaxRevokes = 0
  PROVE  Spec => []CacheBelongsToUser
  <1>1. CASE \E t : Tabs = {t}
    <2>1. PICK t : Tabs = {t}  BY <1>1
    <2> DEFINE AInv == SessionInv /\ AloneInv(t)
               Own == tab[t].cache \subseteq {tab[t].user}
    <2>2. Init => AInv  BY <2>1, SessionInit, AloneInit
    <2>3. AInv /\ [Next]_vars => AInv'  BY <2>1, SessionStep, AloneStep
    <2>4. AInv /\ Own => CacheBelongsToUser
      BY <2>1 DEF SessionInv, TypeOK, CacheBelongsToUser
    <2>5. CASE "github" \notin SignIns
      <3>1. PasswordOnly  BY <2>5 DEF PasswordOnly
      <3>2. Init => PasswordInv(t)  BY <2>1, PasswordInit
      <3>3. AInv /\ PasswordInv(t) /\ [Next]_vars => PasswordInv(t)'
        BY <2>1, <3>1, PasswordStep
      <3>4. PasswordInv(t) => Own  BY DEF PasswordInv
      <3> QED  BY <2>2, <2>3, <2>4, <3>2, <3>3, <3>4, PTL DEF Spec
    <2>6. CASE MaxRevokes = 0
      <3>1. Init => GithubInv(t)  BY <2>1, GithubInit
      <3>2. AInv /\ GithubInv(t) /\ [Next]_vars => GithubInv(t)'
        BY <2>1, <2>6, GithubStep
      <3>3. GithubInv(t) => Own  BY DEF GithubInv, QueryInv
      <3> QED  BY <2>2, <2>3, <2>4, <3>1, <3>2, <3>3, PTL DEF Spec
    <2> QED  BY <2>5, <2>6
  <1>2. CASE ~\E t : Tabs = {t}
    <2>1. SessionInv => CacheBelongsToUser
      BY <1>2 DEF SessionInv, TypeOK, CacheBelongsToUser
    <2> QED  BY <2>1, SessionInit, SessionStep, PTL DEF Spec
  <1> QED  BY <1>1, <1>2

(* lib/active-scope.ts: the account that is selected is one of the user    *)
(* shown, or none, if all sign in with a password: a page that comes back  *)
(* from GitHub forgets no account.                                         *)
THEOREM OwnScopeOnly ==
  ASSUME "save" \notin Calls, "github" \notin SignIns
  PROVE  Spec => []ScopeFollowsUser
  <1>1. PasswordOnly  BY DEF PasswordOnly
  <1>2. CASE \E t : Tabs = {t}
    <2>1. PICK t : Tabs = {t}  BY <1>2
    <2> DEFINE IInv == SessionInv /\ AloneInv(t) /\ PasswordInv(t)
    <2>2. Init => IInv  BY <2>1, SessionInit, AloneInit, PasswordInit
    <2>3. IInv /\ [Next]_vars => IInv'
      BY <1>1, <2>1, SessionStep, AloneStep, PasswordStep
    <2>4. IInv => ScopeFollowsUser
      BY <2>1 DEF SessionInv, TypeOK, PasswordInv, ScopeFollowsUser
    <2> QED  BY <2>2, <2>3, <2>4, PTL DEF Spec
  <1>3. CASE ~\E t : Tabs = {t}
    <2>1. SessionInv => ScopeFollowsUser
      BY <1>3 DEF SessionInv, TypeOK, ScopeFollowsUser
    <2> QED  BY <2>1, SessionInit, SessionStep, PTL DEF Spec
  <1> QED  BY <1>2, <1>3

=============================================================================
