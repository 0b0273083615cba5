--------------------------- MODULE BrowserSession ---------------------------
(***************************************************************************)
(* Who is signed in, as the tabs of one browser see it                     *)
(* (apps/ui/lib/auth-context.tsx, lib/api/client.ts,                       *)
(* components/auth-guard.tsx, components/query-auth-sync.tsx) and as the   *)
(* API decides it (apps/api/src/core/auth.py, routers/auth.py).            *)
(*                                                                         *)
(* localStorage and the cookie are shared by the tabs; React state, the    *)
(* session epoch and the query cache are each tab's own.  A request is a   *)
(* message: it is sent, the server answers it or it fails, and the tab     *)
(* handles the answer, in any order.  Of a payload only its owner is kept. *)
(***************************************************************************)
EXTENDS Integers, Sequences, FiniteSets

CONSTANTS Tabs, Users, NoUser,
          SignIns,      \* ways to sign in that are used: "password", "github"
          Calls,        \* API calls that are made: "query", "save"
          MaxTokens,    \* bound on the session JWTs the server issues
          MaxRequests,  \* bound on the requests in flight
          MaxLoads,     \* bound on page loads
          MaxFailures,  \* bound on requests that fail
          MaxRevokes    \* bound on sign-outs everywhere from another device

ASSUME SessionAssumption ==
  /\ NoUser \notin Users
  /\ SignIns \subseteq {"password", "github"} /\ Calls \subseteq {"query", "save"}
  /\ {MaxTokens, MaxRequests, MaxLoads, MaxFailures, MaxRevokes} \subseteq Nat

VARIABLES version,    \* [Users -> Nat], users.token_version
          tokens,     \* the JWTs issued so far, in order
          stored,     \* localStorage["clevis:token"], shared by the tabs
          cookie,     \* the httpOnly session cookie, shared by the tabs
          scope,      \* whose active_scope localStorage holds, shared by the tabs
          tab,        \* [Tabs -> Tab], React state and query cache
          requests,   \* requests in flight
          loads, failures, revokes

vars == <<version, tokens, stored, cookie, scope, tab, requests, loads, failures, revokes>>

NoToken == 0
TokenId == NoToken .. MaxTokens
Token   == [user : Users, version : Nat, denied : BOOLEAN]

(* `cache`: owners of what the query cache holds, `gen` counts its clears. *)
(* `chosen`: history, who the person last signed in as in this page load.  *)
Tab == [open : BOOLEAN, user : Users \cup {NoUser}, epoch : Nat, loading : BOOLEAN,
        unconfirmed : BOOLEAN, public : BOOLEAN, cache : SUBSET Users, gen : Nat,
        chosen : Users \cup {NoUser}]

(* `epoch` and `gen` are those of the tab when the request was made.       *)
Kinds   == {"me", "retry", "online", "login", "logout", "query", "save"}
Request == [tab : Tabs, kind : Kinds,
            bearer : TokenId, cookie : TokenId, epoch : Nat, gen : Nat,
            who : Users \cup {NoUser}, token : TokenId,
            status : {"waiting", "sent", "ok", "unauthorized", "error"}]

Closed == [open |-> FALSE, user |-> NoUser, epoch |-> 0, loading |-> TRUE, unconfirmed |-> FALSE,
           public |-> TRUE, cache |-> {}, gen |-> 0, chosen |-> NoUser]

Init ==
  /\ version = [u \in Users |-> 0]
  /\ tokens = <<>>
  /\ stored = NoToken /\ cookie = NoToken /\ scope = NoUser
  /\ tab = [t \in Tabs |-> Closed]
  /\ requests = {}
  /\ loads = 0 /\ failures = 0 /\ revokes = 0

-----------------------------------------------------------------------------
(* The server.                                                             *)

(* require_auth, of a token: signed for a user whose version it carries,   *)
(* and not on the denylist.                                                *)
Accepted(k) == /\ k # NoToken
               /\ ~tokens[k].denied
               /\ tokens[k].version = version[tokens[k].user]

(* The Bearer header wins over the cookie, valid or not.                   *)
Presented(r) == IF r.bearer # NoToken THEN r.bearer ELSE r.cookie

NewToken(u) == Append(tokens, [user |-> u, version |-> version[u], denied |-> FALSE])

(* revoke_presented_tokens: both tokens a logout presents.                 *)
Denied(r) == [k \in DOMAIN tokens |->
                [tokens[k] EXCEPT !.denied = @ \/ k \in {r.bearer, r.cookie}]]

Answer(r, status, who) == requests' = (requests \ {r}) \cup {[r EXCEPT !.status = status, !.who = who]}

ServeRead(r) ==
  /\ r.status = "sent" /\ r.kind \in {"me", "retry", "online", "query", "save"}
  /\ IF Accepted(Presented(r))
     THEN Answer(r, "ok", tokens[Presented(r)].user)
     ELSE Answer(r, "unauthorized", NoUser)
  /\ UNCHANGED <<version, tokens, stored, cookie, scope, tab, loads, failures, revokes>>

ServeLogout(r) ==
  /\ r.status = "sent" /\ r.kind = "logout"
  /\ tokens' = Denied(r)
  /\ Answer(r, "ok", NoUser)
  /\ UNCHANGED <<version, stored, cookie, scope, tab, loads, failures, revokes>>

(* /auth/login, /auth/register and /auth/setup answer with a new JWT.      *)
ServeLogin(r) ==
  /\ r.status = "sent" /\ r.kind = "login"
  /\ Len(tokens) < MaxTokens
  /\ tokens' = NewToken(r.who)
  /\ requests' = (requests \ {r}) \cup {[r EXCEPT !.status = "ok", !.token = Len(tokens) + 1]}
  /\ UNCHANGED <<version, stored, cookie, scope, tab, loads, failures, revokes>>

(* A timeout or a network error, before or after the server saw it; a      *)
(* refused login; an answer that is neither 2xx nor 401.                   *)
Fail(r) ==
  /\ r.status \in {"sent", "ok"} /\ failures < MaxFailures
  /\ Answer(r, "error", r.who)
  /\ failures' = failures + 1
  /\ UNCHANGED <<version, tokens, stored, cookie, scope, tab, loads, revokes>>

(* "Log out everywhere", asked for on another device.                      *)
RevokeElsewhere(u) ==
  /\ revokes < MaxRevokes
  /\ version' = [version EXCEPT ![u] = @ + 1]
  /\ revokes' = revokes + 1
  /\ UNCHANGED <<tokens, stored, cookie, scope, tab, requests, loads, failures>>

-----------------------------------------------------------------------------
(* A tab.                                                                  *)

Send(t, kind, bearer, who) ==
  [tab |-> t, kind |-> kind, bearer |-> bearer, cookie |-> cookie, epoch |-> tab[t].epoch,
   gen |-> tab[t].gen, who |-> who, token |-> NoToken, status |-> "sent"]

Others(t) == {r \in requests : r.tab # t}

(* Deliberate mistakes, as in JobQueue.                                    *)

(* ShownAsChosen: the answer of /auth/me is used whatever came between. *)
Stale_Never(r) == FALSE

(* CacheBelongsToUser: the cache survives a change of the signed-in user. *)
Shown_KeepsCache(s, u) == [s EXCEPT !.user = u]

(* The state of tab `t` when it shows user `u`: QueryAuthSync clears the   *)
(* cache in the same render if that is another identity.                   *)
Shown(s, u) == IF s.user = u THEN s
               ELSE [s EXCEPT !.user = u, !.cache = {}, !.gen = @ + 1]

SignedIn(s, u) == [Shown(s, u) EXCEPT !.epoch = @ + 1, !.unconfirmed = FALSE,
                                      !.loading = FALSE, !.public = FALSE, !.chosen = u]

SignedOut(s) == [Shown(s, NoUser) EXCEPT !.epoch = @ + 1, !.unconfirmed = FALSE,
                                         !.public = TRUE, !.chosen = NoUser]

Stale(r) == r.epoch # tab[r.tab].epoch

-----------------------------------------------------------------------------
(* Deliberate mistakes, as in JobQueue.                                    *)

(* LoadingEnds: the spinner ends only with an answer that names a user.    *)
Settled_NotOnRefusal(s, r) ==
  [s EXCEPT !.loading = IF r.kind = "online" \/ r.status = "unauthorized" THEN @ ELSE FALSE]

(* ScopeFollowsUser: a sign-in leaves the account selected before it, as   *)
(* if a sign-out always came first.                                        *)
LoginAnswered_KeepsScope(r) ==
  /\ r.kind = "login" /\ r.status = "ok"
  /\ stored' = r.token
  /\ tab' = [tab EXCEPT ![r.tab] = SignedIn(@, r.who)]
  /\ requests' = requests \ {r}
  /\ UNCHANGED <<version, tokens, cookie, scope, loads, failures, revokes>>

(* ActsAsShown: logout clears the React state and forgets the stored key.  *)
EndSession_KeepsToken(r, bearer) ==
  /\ tab' = [tab EXCEPT ![r.tab] = SignedOut(@)]
  /\ requests' = (requests \ {r}) \cup {Send(r.tab, "logout", bearer, NoUser)}
  /\ scope' = NoUser
  /\ UNCHANGED stored

-----------------------------------------------------------------------------
(* Loading a page: an undecoded token gives an optimistic user, /auth/me   *)
(* is asked in any case.  What the old page had in flight is dropped.      *)
Loaded(t, k) ==
  [Closed EXCEPT !.open = TRUE, !.public = tab[t].public, !.loading = k = NoToken,
                 !.user = IF k = NoToken THEN NoUser ELSE tokens[k].user]

Load(t) ==
  /\ loads < MaxLoads
  /\ loads' = loads + 1
  /\ tab' = [tab EXCEPT ![t] = Loaded(t, stored)]
  /\ requests' = Others(t) \cup {[Send(t, "me", stored, NoUser) EXCEPT !.epoch = 0, !.gen = 0]}
  /\ UNCHANGED <<version, tokens, stored, cookie, scope, failures, revokes>>

(* The login form is there while nobody is signed in.                      *)
LoginForm(t) == tab[t].open /\ ~tab[t].loading /\ tab[t].user = NoUser

SubmitLogin(t, u) ==
  /\ "password" \in SignIns /\ LoginForm(t)
  /\ ~\E r \in requests : r.tab = t /\ r.kind = "login"
  /\ Cardinality(requests) < MaxRequests
  /\ requests' = requests \cup {Send(t, "login", NoToken, u)}
  /\ UNCHANGED <<version, tokens, stored, cookie, scope, tab, loads, failures, revokes>>

LoginAnswered(r) ==
  /\ r.kind = "login" /\ r.status = "ok"
  /\ stored' = r.token
  /\ scope' = NoUser
  /\ tab' = [tab EXCEPT ![r.tab] = SignedIn(@, r.who)]
  /\ requests' = requests \ {r}
  /\ UNCHANGED <<version, tokens, cookie, loads, failures, revokes>>

(* The OAuth round trip leaves the page and comes back with a cookie; the  *)
(* page that loads then runs the mount effect like any other.              *)
GithubSignIn(t, u) ==
  /\ "github" \in SignIns /\ LoginForm(t)
  /\ Len(tokens) < MaxTokens /\ loads < MaxLoads
  /\ tokens' = NewToken(u)
  /\ cookie' = Len(tokens) + 1
  /\ loads' = loads + 1
  /\ tab' = [tab EXCEPT ![t] = [Loaded(t, stored) EXCEPT !.public = FALSE]]
  /\ requests' = Others(t) \cup {[Send(t, "me", stored, NoUser)
                                   EXCEPT !.epoch = 0, !.gen = 0, !.cookie = Len(tokens) + 1]}
  /\ UNCHANGED <<version, stored, scope, failures, revokes>>

(* logout(), in the handler of `r` or for the person: what is presented is *)
(* what localStorage holds when it starts.                                 *)
EndSession(r, bearer) ==
  /\ tab' = [tab EXCEPT ![r.tab] = SignedOut(@)]
  /\ requests' = (requests \ {r}) \cup {Send(r.tab, "logout", bearer, NoUser)}
  /\ stored' = NoToken
  /\ scope' = NoUser

Logout(t) ==
  /\ tab[t].user # NoUser /\ ~tab[t].public
  /\ Cardinality(requests) < MaxRequests
  /\ EndSession([tab |-> t], stored)
  /\ UNCHANGED <<version, tokens, cookie, loads, failures, revokes>>

(* An answer deletes the cookie, a 503 too; a network error leaves it.     *)
LogoutAnswered(r) ==
  /\ r.kind = "logout" /\ r.status \in {"ok", "error"}
  /\ cookie' \in IF r.status = "ok" THEN {NoToken} ELSE {NoToken, cookie}
  /\ requests' = requests \ {r}
  /\ UNCHANGED <<version, tokens, stored, scope, tab, loads, failures, revokes>>

LoginFails(r) ==
  /\ r.kind = "login" /\ r.status = "error"
  /\ requests' = requests \ {r}
  /\ UNCHANGED <<version, tokens, stored, cookie, scope, tab, loads, failures, revokes>>

Settled(s, r) == [s EXCEPT !.loading = IF r.kind = "online" THEN @ ELSE FALSE]

IsMe(r) == r.kind \in {"me", "retry", "online"}

MeAccepted(r) ==
  /\ IsMe(r) /\ r.status = "ok"
  /\ tab' = [tab EXCEPT ![r.tab] =
               IF Stale(r) THEN Settled(@, r)
               ELSE [Settled(Shown(@, r.who), r) EXCEPT !.unconfirmed = FALSE]]
  /\ requests' = requests \ {r}
  /\ UNCHANGED <<version, tokens, stored, cookie, scope, loads, failures, revokes>>

(* A 401 ends the session only if a token had been stored at the start.    *)
MeRefused(r) ==
  /\ IsMe(r) /\ r.status = "unauthorized" /\ ~Stale(r) /\ r.bearer # NoToken
  /\ tab' = [tab EXCEPT ![r.tab] = Settled(SignedOut(@), r)]
  /\ requests' = (requests \ {r}) \cup {Send(r.tab, "logout", stored, NoUser)}
  /\ stored' = NoToken
  /\ scope' = NoUser
  /\ UNCHANGED <<version, tokens, cookie, loads, failures, revokes>>

MeIgnored(r) ==
  /\ IsMe(r)
  /\ \/ r.status = "unauthorized" /\ (Stale(r) \/ r.bearer = NoToken)
     \/ r.status = "error" /\ (Stale(r) \/ r.kind = "online")
  /\ tab' = [tab EXCEPT ![r.tab] = Settled(@, r)]
  /\ requests' = requests \ {r}
  /\ UNCHANGED <<version, tokens, stored, cookie, scope, loads, failures, revokes>>

GivenUp(s, r) == [s EXCEPT !.loading = FALSE, !.unconfirmed = @ \/ r.bearer # NoToken]

(* One retry, after two seconds, with the token of the first attempt; the  *)
(* second failure leaves the user shown but unconfirmed.                   *)
MeFails(r) ==
  /\ r.status = "error" /\ r.kind \in {"me", "retry"} /\ ~Stale(r)
  /\ IF r.kind = "me"
     THEN /\ requests' = (requests \ {r}) \cup {[r EXCEPT !.kind = "retry", !.status = "waiting"]}
          /\ tab' = tab
     ELSE /\ requests' = requests \ {r}
          /\ tab' = [tab EXCEPT ![r.tab] = GivenUp(@, r)]
  /\ UNCHANGED <<version, tokens, stored, cookie, scope, loads, failures, revokes>>

Retry(r) ==
  /\ r.status = "waiting"
  /\ requests' = (requests \ {r}) \cup {[r EXCEPT !.status = "sent", !.cookie = cookie]}
  /\ UNCHANGED <<version, tokens, stored, cookie, scope, tab, loads, failures, revokes>>

(* The browser is back online while the user is unconfirmed.               *)
Online(t) ==
  /\ tab[t].unconfirmed
  /\ Cardinality(requests) < MaxRequests
  /\ requests' = requests \cup {Send(t, "online", stored, NoUser)}
  /\ UNCHANGED <<version, tokens, stored, cookie, scope, tab, loads, failures, revokes>>

-----------------------------------------------------------------------------
(* Everything else a signed-in tab does.                                   *)

Call(t, kind) ==
  /\ tab[t].user # NoUser /\ kind \in Calls
  /\ Cardinality(requests) < MaxRequests
  /\ requests' = requests \cup {Send(t, kind, stored, NoUser)}
  /\ UNCHANGED <<version, tokens, stored, cookie, scope, tab, loads, failures, revokes>>

(* A query's result goes to the query that asked: a cache cleared since    *)
(* does not know it.  A mutation's onSuccess writes what it got with       *)
(* setQueryData, whatever cache is there.                                  *)
CallAnswered(r) ==
  /\ r.kind \in {"query", "save"} /\ r.status \in {"ok", "error"}
  /\ tab' = [tab EXCEPT ![r.tab].cache =
               IF r.status = "ok" /\ (r.kind = "save" \/ r.gen = tab[r.tab].gen)
               THEN @ \cup {r.who} ELSE @]
  /\ requests' = requests \ {r}
  /\ UNCHANGED <<version, tokens, stored, cookie, scope, loads, failures, revokes>>

(* handleResponse on a 401 removes whatever token is stored; AuthGuard's   *)
(* listener then logs out, unless the page is public.                      *)
CallRefused(r) ==
  /\ r.kind \in {"query", "save"} /\ r.status = "unauthorized"
  /\ IF tab[r.tab].public
     THEN /\ stored' = NoToken
          /\ requests' = requests \ {r}
          /\ UNCHANGED <<tab, scope>>
     ELSE EndSession(r, NoToken)
  /\ UNCHANGED <<version, tokens, cookie, loads, failures, revokes>>

(* Between the pages of the application and a public one (an invitation).  *)
Navigate(t) ==
  /\ tab[t].user # NoUser
  /\ tab' = [tab EXCEPT ![t].public = ~@]
  /\ UNCHANGED <<version, tokens, stored, cookie, scope, requests, loads, failures, revokes>>

ChooseScope(t) ==
  /\ tab[t].user # NoUser /\ ~tab[t].public
  /\ scope' = tab[t].user
  /\ UNCHANGED <<version, tokens, stored, cookie, tab, requests, loads, failures, revokes>>

-----------------------------------------------------------------------------
Serve(r) == ServeRead(r) \/ ServeLogout(r) \/ ServeLogin(r)

Handle(r) ==
  \/ LoginAnswered(r) \/ LoginFails(r) \/ LogoutAnswered(r)
  \/ MeAccepted(r) \/ MeRefused(r) \/ MeIgnored(r) \/ MeFails(r) \/ Retry(r)
  \/ CallAnswered(r) \/ CallRefused(r)

Person(t) ==
  \/ Load(t) \/ Logout(t) \/ Online(t) \/ Navigate(t) \/ ChooseScope(t)
  \/ \E u \in Users : SubmitLogin(t, u) \/ GithubSignIn(t, u)
  \/ \E kind \in {"query", "save"} : Call(t, kind)

Next ==
  \/ \E r \in requests : Serve(r) \/ Fail(r) \/ Handle(r)
  \/ \E t \in Tabs : Person(t)
  \/ \E u \in Users : RevokeElsewhere(u)

Spec == Init /\ [][Next]_vars

(* Every request ends: fetchWithTimeout and checkMe abort after 15 s, and  *)
(* the browser runs the handlers of what arrived.  Nothing obliges the     *)
(* person, a failure or a revocation.                                      *)
FairSpec ==
  /\ Spec
  /\ \A t \in Tabs, kind \in Kinds :
       WF_vars(\E r \in requests : r.tab = t /\ r.kind = kind /\ (Serve(r) \/ Handle(r)))

-----------------------------------------------------------------------------
(* Properties.                                                             *)

(* Every variable holds values of its type.                                *)
TypeOK ==
  /\ version \in [Users -> Nat]
  /\ tokens \in Seq(Token) /\ Len(tokens) <= MaxTokens
  /\ stored \in TokenId /\ cookie \in TokenId
  /\ scope \in Users \cup {NoUser}
  /\ tab \in [Tabs -> Tab]
  /\ requests \subseteq Request

(* The session epoch: once somebody has signed in or out in a tab, no late *)
(* answer of /auth/me shows another user, or a user after a sign-out.      *)
ShownAsChosen ==
  \A t \in DOMAIN tab : tab[t].epoch > 0 => tab[t].user = tab[t].chosen

(* What a tab shows and what its requests are authenticated as agree: the  *)
(* token sent is one of the user shown, if no other tab is open.           *)
ActsAsShown ==
  \A t \in DOMAIN tab : DOMAIN tab = {t} /\ tab[t].open /\ stored # NoToken
                          => tab[t].user = tokens[stored].user

(* Both: whoever a tab shows is whom the person chose and whom the server  *)
(* will take its requests to be from.                                      *)
TabsShowTheChosen == ShownAsChosen /\ ActsAsShown

(* query-auth-sync.tsx: user B is never served what user A had cached, if  *)
(* no other tab is open: a tab is not told who signs in in another.        *)
CacheBelongsToUser ==
  \A t \in DOMAIN tab : DOMAIN tab = {t} => tab[t].cache \subseteq {tab[t].user}

(* The selected account never outlives the identity that selected it, if   *)
(* no other tab is open.                                                   *)
ScopeFollowsUser ==
  \A t \in DOMAIN tab :
    DOMAIN tab = {t} /\ tab[t].user # NoUser => scope \in {NoUser, tab[t].user}

(* client.ts:138: a 401 clears the stale token; a token the server would   *)
(* still accept is not removed by it.                                      *)
OnlyStaleTokensCleared ==
  [][\A r \in requests : CallRefused(r) => ~Accepted(stored)]_vars

(* The initial spinner ends, whatever happens to the requests behind it.   *)
LoadingEnds == \A t \in Tabs : tab[t].open ~> ~tab[t].loading
=============================================================================
