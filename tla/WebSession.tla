----------------------------- MODULE WebSession -----------------------------
(***************************************************************************)
(* The browser session of the web application: tabs that run AuthProvider  *)
(* (apps/web/components/auth/auth-provider.tsx), the cookies they share,   *)
(* and the authentication proxy in front of the API                        *)
(* (apps/web/lib/auth-proxy.ts).                                           *)
(*                                                                         *)
(* The API is TokenFamilies, which its sessions implement.  A call leaves  *)
(* with the cookies of that moment, is answered by proxy and API at once,  *)
(* and the answer changes cookies and tab when it arrives: so every call   *)
(* is three steps, and calls of all tabs interleave.  A tab has one        *)
(* refresh in flight at most, and beside it a sign-in or a sign-out.       *)
(*                                                                         *)
(* The refresh and the access token of a session are named by the session. *)
(* Left out: the paths and origins the proxy refuses, the legacy cookie    *)
(* path, the organization of the session, and what pages do with answers.  *)
(***************************************************************************)
EXTENDS Naturals, FiniteSets

CONSTANTS
  Tabs,
  MaxTokens,  \* bound: the sessions the API issues to this browser
  MaxFaults,  \* bound: answers that are lost or replaced by an error
  MaxCalls,   \* bound: the calls in flight beside which another one is not begun
  None        \* no cookie, no token, no call

Tokens == 1..MaxTokens

ASSUME TokenAssumption == MaxTokens \in Nat /\ MaxFaults \in Nat /\ MaxCalls \in Nat /\ None \notin Tokens

VARIABLES
  good, issued,  \* the API's sessions: see TokenFamilies
  family,        \* the family of each token that was issued
  remembered,    \* the families whose sign-in asked to be remembered
  jar,           \* the cookies: refresh token and remember flag
  tab,           \* status and tokensRef of each tab
  refreshing,    \* the refresh each tab has in flight
  acting,        \* its sign-in or sign-out
  faults         \* the faults so far

api == <<good, issued, family, remembered>>
vars == <<good, issued, family, remembered, jar, tab, refreshing, acting, faults>>

API == INSTANCE TokenFamilies

NoCookie == [token |-> None, remember |-> FALSE]

(* A call on its way out, its answer on the way back (a session, an answer of the API *)
(* that is none, or the proxy's 503), or the list of sessions setAuthentication       *)
(* awaits after a session was granted.                                                *)
Calls(kinds) ==
  [kind : kinds, phase : {"sent", "granted", "refused", "unavailable", "listing"},
   token : Tokens \cup {None}, remember : BOOLEAN]

ASSUME CallAssumption == None \notin Calls({"refresh", "login", "logout"})

TypeOK ==
  /\ good \in [Tokens -> Tokens \cup {None}]
  /\ issued \subseteq Tokens
  /\ family \in [Tokens -> Tokens \cup {None}]
  /\ remembered \subseteq Tokens
  /\ jar \in [token : Tokens, remember : BOOLEAN] \cup {NoCookie}
  /\ tab \in [Tabs -> [status : {"loading", "authenticated", "unauthenticated"},
                       token : Tokens \cup {None}]]
  /\ refreshing \in [Tabs -> Calls({"refresh"}) \cup {None}]
  /\ acting \in [Tabs -> Calls({"login", "logout"}) \cup {None}]
  /\ faults \in 0..MaxFaults

-----------------------------------------------------------------------------
(* Helpers *)

NextToken == Cardinality(issued) + 1
CanIssue == NextToken \in Tokens
Live(f) == good[f] # None
Good(t) == t # None /\ \E f \in Tokens : good[f] = t

Call(kind, token, remember) ==
  [kind |-> kind, phase |-> "sent", token |-> token, remember |-> remember]
Is(call, phase) == call # None /\ call.phase = phase
Did(call, kind, phase) == Is(call, phase) /\ call.kind = kind
InFlight ==
  Cardinality({i \in Tabs : refreshing[i] # None}) + Cardinality({i \in Tabs : acting[i] # None})
CanCall == InFlight < MaxCalls
Answered(call) == call # None /\ call.phase \in {"granted", "refused", "unavailable"}

SignedOut == [status |-> "unauthenticated", token |-> None]
Loading == [status |-> "loading", token |-> None]

Answer(calls, i, phase) ==
  [calls EXCEPT ![i] = [kind |-> @.kind, phase |-> phase, token |-> None, remember |-> FALSE]]

(* Mutant: a granted answer sets a session cookie, whatever was remembered. *)
GrantForgetful(calls, i, t) ==
  [calls EXCEPT ![i].phase = "granted", ![i].token = t, ![i].remember = FALSE]

Grant(calls, i, t) == [calls EXCEPT ![i].phase = "granted", ![i].token = t]

(* Mutant: the proxy clears the cookies when it does not reach the API. *)
CookiesAfterAnything(call) ==
  IF call.phase = "granted" THEN [token |-> call.token, remember |-> call.remember] ELSE NoCookie

(* The cookies an answer sets: the new session's, none with any other answer of the API, *)
(* and no change with a 503.                                                             *)
CookiesAfter(call) ==
  CASE call.phase = "granted" -> [token |-> call.token, remember |-> call.remember]
    [] call.phase = "refused" -> NoCookie
    [] OTHER -> jar

-----------------------------------------------------------------------------
(* Refreshing *)

(* refresh, by the timer of a tab that has tokens, or for a page whose request had no *)
(* token or was answered 401; one at a time in a tab.                                 *)
RefreshSend(i) ==
  /\ refreshing[i] = None
  /\ tab[i].status = "authenticated" \/ tab[i].token # None
  /\ CanCall
  /\ refreshing' = [refreshing EXCEPT ![i] = Call("refresh", jar.token, jar.remember)]
  /\ UNCHANGED <<api, jar, tab, acting, faults>>

(* The API rotates a good token; the answer keeps the remember cookie of the request. *)
RefreshRotate(i) ==
  /\ Is(refreshing[i], "sent")
  /\ CanIssue
  /\ \E f \in Tokens :
       /\ Live(f) /\ good[f] = refreshing[i].token
       /\ API!Replace(f, NextToken)
       /\ family' = [family EXCEPT ![NextToken] = f]
  /\ refreshing' = Grant(refreshing, i, NextToken)
  /\ UNCHANGED <<remembered, jar, tab, acting, faults>>

(* It answers 401 to a token that is missing, rotated or ended. *)
RefreshRefuse(i) ==
  /\ Is(refreshing[i], "sent")
  /\ ~Good(refreshing[i].token)
  /\ refreshing' = Answer(refreshing, i, "refused")
  /\ UNCHANGED <<api, jar, tab, acting, faults>>

(* And to a good one when its transaction fails; the proxy answers 503 without an API. *)
RefreshFail(i, phase) ==
  /\ Is(refreshing[i], "sent")
  /\ refreshing[i].token # None
  /\ faults < MaxFaults
  /\ faults' = faults + 1
  /\ refreshing' = Answer(refreshing, i, phase)
  /\ UNCHANGED <<api, jar, tab, acting>>

(* setAuthentication stores the tokens and lists the sessions. *)
RefreshReceive(i) ==
  /\ Is(refreshing[i], "granted")
  /\ jar' = CookiesAfter(refreshing[i])
  /\ tab' = [tab EXCEPT ![i].token = refreshing[i].token]
  /\ refreshing' = Answer(refreshing, i, "listing")
  /\ UNCHANGED <<api, acting, faults>>

(* Any other answer clears the tab. *)
RefreshRefused(i) ==
  /\ Is(refreshing[i], "refused") \/ Is(refreshing[i], "unavailable")
  /\ jar' = CookiesAfter(refreshing[i])
  /\ tab' = [tab EXCEPT ![i] = SignedOut]
  /\ refreshing' = [refreshing EXCEPT ![i] = None]
  /\ UNCHANGED <<api, acting, faults>>

(* Mutant: setAuthentication ends without setting the status. *)
RefreshDoneQuietly(i) ==
  /\ Is(refreshing[i], "listing")
  /\ refreshing' = [refreshing EXCEPT ![i] = None]
  /\ UNCHANGED <<api, jar, tab, acting, faults>>

(* setAuthentication ends when the list has arrived or failed, whatever the tab did *)
(* meanwhile.                                                                       *)
RefreshDone(i) ==
  /\ Is(refreshing[i], "listing")
  /\ tab' = [tab EXCEPT ![i].status = "authenticated"]
  /\ refreshing' = [refreshing EXCEPT ![i] = None]
  /\ UNCHANGED <<api, jar, acting, faults>>

-----------------------------------------------------------------------------
(* Signing in and out *)

(* The login page's button is disabled while the tab is loading. *)
SignInSend(i, remember) ==
  /\ acting[i] = None
  /\ tab[i].status = "unauthenticated"
  /\ CanCall
  /\ acting' = [acting EXCEPT ![i] = Call("login", None, remember)]
  /\ UNCHANGED <<api, jar, tab, refreshing, faults>>

(* login begins a family. *)
SignInAnswer(i) ==
  /\ Did(acting[i], "login", "sent")
  /\ CanIssue
  /\ API!Begin(NextToken)
  /\ family' = [family EXCEPT ![NextToken] = NextToken]
  /\ remembered' = IF acting[i].remember THEN remembered \cup {NextToken} ELSE remembered
  /\ acting' = Grant(acting, i, NextToken)
  /\ UNCHANGED <<jar, tab, refreshing, faults>>

(* Wrong credentials, a throttle, no API: signIn throws, and no cookie changes. *)
SignInFail(i) ==
  /\ Did(acting[i], "login", "sent")
  /\ acting' = [acting EXCEPT ![i] = None]
  /\ UNCHANGED <<api, jar, tab, refreshing, faults>>

SignInReceive(i) ==
  /\ Did(acting[i], "login", "granted")
  /\ jar' = CookiesAfter(acting[i])
  /\ tab' = [tab EXCEPT ![i].token = acting[i].token]
  /\ acting' = Answer(acting, i, "listing")
  /\ UNCHANGED <<api, refreshing, faults>>

SignInDone(i) ==
  /\ Is(acting[i], "listing")
  /\ tab' = [tab EXCEPT ![i].status = "authenticated"]
  /\ acting' = [acting EXCEPT ![i] = None]
  /\ UNCHANGED <<api, jar, refreshing, faults>>

(* logout, with the access token the tab has, if any. *)
SignOutSend(i) ==
  /\ acting[i] = None
  /\ tab[i].status = "authenticated"
  /\ CanCall
  /\ acting' = [acting EXCEPT ![i] = Call("logout", tab[i].token, FALSE)]
  /\ UNCHANGED <<api, jar, tab, refreshing, faults>>

(* The API ends the session of a good access token and refuses any other; both answers *)
(* clear the cookies.                                                                   *)
SignOutAnswer(i) ==
  /\ Did(acting[i], "logout", "sent")
  /\ API!End({f \in Tokens : Live(f) /\ good[f] = acting[i].token})
  /\ acting' = Answer(acting, i, "refused")
  /\ UNCHANGED <<family, remembered, jar, tab, refreshing, faults>>

SignOutUnavailable(i) ==
  /\ Did(acting[i], "logout", "sent")
  /\ faults < MaxFaults
  /\ faults' = faults + 1
  /\ acting' = Answer(acting, i, "unavailable")
  /\ UNCHANGED <<api, jar, tab, refreshing>>

(* Mutant: signing out changes what is shown and keeps tokensRef. *)
SignOutShown(i) ==
  /\ Did(acting[i], "logout", "refused") \/ Did(acting[i], "logout", "unavailable")
  /\ jar' = CookiesAfter(acting[i])
  /\ tab' = [tab EXCEPT ![i].status = "unauthenticated"]
  /\ acting' = [acting EXCEPT ![i] = None]
  /\ UNCHANGED <<api, refreshing, faults>>

(* Whatever the answer, the tab forgets its tokens. *)
SignOutReceive(i) ==
  /\ Did(acting[i], "logout", "refused") \/ Did(acting[i], "logout", "unavailable")
  /\ jar' = CookiesAfter(acting[i])
  /\ tab' = [tab EXCEPT ![i] = SignedOut]
  /\ acting' = [acting EXCEPT ![i] = None]
  /\ UNCHANGED <<api, refreshing, faults>>

-----------------------------------------------------------------------------
(* The surroundings of the tab *)

(* The answer never reaches the browser: fetch rejects, refresh and signIn throw and *)
(* leave the tab as it is; only logout still clears it.                              *)
LoseRefresh(i) ==
  /\ Answered(refreshing[i])
  /\ faults < MaxFaults
  /\ faults' = faults + 1
  /\ refreshing' = [refreshing EXCEPT ![i] = None]
  /\ UNCHANGED <<api, jar, tab, acting>>

LoseAction(i) ==
  /\ Answered(acting[i])
  /\ faults < MaxFaults
  /\ faults' = faults + 1
  /\ tab' = IF acting[i].kind = "logout" THEN [tab EXCEPT ![i] = SignedOut] ELSE tab
  /\ acting' = [acting EXCEPT ![i] = None]
  /\ UNCHANGED <<api, jar, refreshing>>

(* The tab is loaded again, with no call in flight: AuthProvider mounts and refreshes. *)
Reload(i) ==
  /\ refreshing[i] = None /\ acting[i] = None
  /\ CanCall
  /\ tab' = [tab EXCEPT ![i] = Loading]
  /\ refreshing' = [refreshing EXCEPT ![i] = Call("refresh", jar.token, jar.remember)]
  /\ UNCHANGED <<api, jar, acting, faults>>

(* Expiry, a password reset, or the revocation of the session from another device. *)
EndElsewhere(f) ==
  /\ Live(f)
  /\ API!End({f})
  /\ UNCHANGED <<family, remembered, jar, tab, refreshing, acting, faults>>

-----------------------------------------------------------------------------
(* Every tab mounts AuthProvider, which refreshes. *)
Init ==
  /\ API!Init
  /\ family = [t \in Tokens |-> None]
  /\ remembered = {}
  /\ jar = NoCookie
  /\ tab = [i \in Tabs |-> Loading]
  /\ refreshing = [i \in Tabs |-> Call("refresh", None, FALSE)]
  /\ acting = [i \in Tabs |-> None]
  /\ faults = 0

(* What brings the refresh of a tab to its end. *)
Refresh(i) ==
  \/ RefreshRotate(i) \/ RefreshRefuse(i)
  \/ RefreshReceive(i) \/ RefreshRefused(i) \/ RefreshDone(i)

Next ==
  \/ \E i \in Tabs :
       \/ RefreshSend(i) \/ Refresh(i) \/ LoseRefresh(i) \/ Reload(i)
       \/ \E phase \in {"refused", "unavailable"} : RefreshFail(i, phase)
       \/ \E remember \in BOOLEAN : SignInSend(i, remember)
       \/ SignInAnswer(i) \/ SignInFail(i) \/ SignInReceive(i) \/ SignInDone(i)
       \/ SignOutSend(i) \/ SignOutAnswer(i) \/ SignOutUnavailable(i) \/ SignOutReceive(i)
       \/ LoseAction(i)
  \/ \E f \in Tokens : EndElsewhere(f)

Spec == Init /\ [][Next]_vars

(* Calls are answered and promises continue; people sign in and out when they like.  Every *)
(* step of Refresh changes refreshing, so that fairness can speak of that variable alone.   *)
FairSpec == Spec /\ \A i \in Tabs : WF_refreshing(Refresh(i))

-----------------------------------------------------------------------------
(* Properties *)

(* The session of f goes on, and neither a cookie nor an answer under way has its token: *)
(* no tab of the browser can continue it.                                                *)
Carried(t) ==
  \/ jar.token = t
  \/ \E i \in Tabs : \E call \in {refreshing[i], acting[i]} : Is(call, "granted") /\ call.token = t
Stranded(f) == Live(f) /\ ~Carried(good[f])

RefusalArrives ==
  \E i \in Tabs :
    \/ Is(refreshing[i], "refused") /\ refreshing'[i] = None
    \/ Is(acting[i], "refused") /\ acting'[i] = None

(* A live session is lost to the browser only by an answer that got lost, by a refusal *)
(* that cleared the cookies (of another tab's refresh, or of a sign-out), or by the    *)
(* cookies of another sign-in: neither a rotation, nor a 503, nor the order in which   *)
(* the answers of two tabs arrive loses one.                                           *)
SessionsAreCarried ==
  [][\A f \in Tokens :
       Stranded(f)' =>
         \/ Stranded(f)
         \/ faults' > faults
         \/ RefusalArrives
         \/ jar'.token # None /\ family[jar'.token] # f]_vars

(* The remember cookie says what was chosen when this session was signed in, through all *)
(* its rotations and whatever other tabs signed in meanwhile.                            *)
RememberFollowsLogin ==
  jar.token # None => (jar.remember <=> family[jar.token] \in remembered)

(* A tab that holds tokens shows so, or will when its list of sessions is there. *)
TokensAreShown ==
  \A i \in Tabs :
    tab[i].token # None =>
      \/ tab[i].status = "authenticated"
      \/ Is(refreshing[i], "listing") \/ Is(acting[i], "listing")

(* The two ways in which the refresh of a tab may not come to its end: a fault took its *)
(* answer (refresh rejects, and nobody catches it), or its token is good and the bound  *)
(* on tokens keeps the API from answering.                                              *)
RefreshLost(i) == faults > 0 /\ refreshing[i] = None
AtTheBound(i) == Is(refreshing[i], "sent") /\ Good(refreshing[i].token) /\ ~CanIssue

(* "Restoring your session" ends: a tab that loads learns whether there is a session,    *)
(* whether its refresh is refused or goes on through setAuthentication, and whatever the *)
(* other tabs do to cookies and sessions meanwhile.                                      *)
LoadingEnds ==
  \A i \in Tabs :
    tab[i].status = "loading" ~> tab[i].status # "loading" \/ RefreshLost(i) \/ AtTheBound(i)

=============================================================================
