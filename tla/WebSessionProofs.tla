--------------------------- MODULE WebSessionProofs ---------------------------
(***************************************************************************)
(* Proofs about the browser session of the web application, for any tabs   *)
(* and any numbers of tokens and faults.                                   *)
(***************************************************************************)
EXTENDS WebSession, TLAPS

-----------------------------------------------------------------------------
(* The invariant *)

(* The two calls of a tab. *)
Kinds == {"refreshing", "acting"}
Slot(i, k) == IF k = "refreshing" THEN refreshing[i] ELSE acting[i]
Granted(i, k) == Is(Slot(i, k), "granted")

(* The families the API knows: named by a token that was issued, as is every good token. *)
FamiliesKnown ==
  /\ remembered \subseteq issued
  /\ \A t \in issued : family[t] \in issued
  /\ \A f \in Tokens : Live(f) => good[f] \in issued /\ family[good[f]] = f

(* A token goes with the choice of the sign-in its family began with. *)
Pair(t, remember) == t # None => t \in issued /\ (remember <=> family[t] \in remembered)

PairsKept ==
  /\ Pair(jar.token, jar.remember)
  /\ \A i \in Tabs : refreshing[i] # None => Pair(refreshing[i].token, refreshing[i].remember)
  /\ \A i \in Tabs : Granted(i, "acting") => Pair(acting[i].token, acting[i].remember)

(* A token under way to the browser has not been used: it is the good one of its family, *)
(* if the family goes on, it is on its way once, and neither a cookie nor a request has   *)
(* it yet.                                                                                *)
Unused(t) ==
  /\ t \in issued /\ good[family[t]] \in {t, None}
  /\ jar.token # t
  /\ \A i \in Tabs : Is(refreshing[i], "sent") => refreshing[i].token # t

Fresh ==
  /\ \A i \in Tabs, k \in Kinds : Granted(i, k) => Unused(Slot(i, k).token)
  /\ \A i, j \in Tabs, k, m \in Kinds :
       Granted(i, k) /\ Granted(j, m) /\ Slot(i, k).token = Slot(j, m).token => i = j /\ k = m

Inv == TypeOK /\ TokensAreShown /\ FamiliesKnown /\ PairsKept /\ Fresh

-----------------------------------------------------------------------------
(* Calls *)

Phases == {"sent", "granted", "refused", "unavailable", "listing"}

(* The calls of all tabs, with another one of tab i. *)
Put(calls, i, c) == [calls EXCEPT ![i] = c]

(* A call that was answered with no session. *)
LEMMA AnswerIs ==
  ASSUME NEW kinds, NEW calls \in [Tabs -> Calls(kinds) \cup {None}], NEW i \in Tabs, calls[i] # None,
         NEW phase \in Phases
  PROVE  \E c \in Calls(kinds) :
           /\ Answer(calls, i, phase) = Put(calls, i, c)
           /\ c.kind = calls[i].kind /\ c.phase = phase /\ c.token = None
<1>1. calls[i] \in Calls(kinds)
  OBVIOUS
<1>2. PICK kind \in kinds : kind = calls[i].kind
  BY <1>1 DEF Calls
<1>3. PICK c \in Calls(kinds) : c = [kind |-> kind, phase |-> phase, token |-> None, remember |-> FALSE]
  BY DEF Calls, Phases
<1>4. c.kind = kind /\ c.phase = phase /\ c.token = None
  BY <1>3
<1>5. Answer(calls, i, phase) = Put(calls, i, c)
  BY <1>2, <1>3 DEF Answer, Put
<1>. QED BY <1>2, <1>4, <1>5

(* A call that was answered with a session. *)
LEMMA GrantIs ==
  ASSUME NEW kinds, NEW calls \in [Tabs -> Calls(kinds) \cup {None}], NEW i \in Tabs, calls[i] # None,
         NEW t \in Tokens
  PROVE  \E c \in Calls(kinds) :
           /\ Grant(calls, i, t) = Put(calls, i, c)
           /\ c.kind = calls[i].kind /\ c.phase = "granted" /\ c.token = t /\ c.remember = calls[i].remember
<1>1. calls[i] \in Calls(kinds)
  OBVIOUS
<1>2. PICK c \in Calls(kinds) : c = [calls[i] EXCEPT !.phase = "granted", !.token = t]
  BY <1>1 DEF Calls
<1>3. Grant(calls, i, t) = Put(calls, i, c)
  BY <1>2 DEF Grant, Put
<1>4. c.kind = calls[i].kind /\ c.phase = "granted" /\ c.token = t /\ c.remember = calls[i].remember
  BY <1>1, <1>2 DEF Calls
<1>. QED BY <1>3, <1>4

(* Calls in flight. *)
LEMMA SlotIs ==
  ASSUME TypeOK, NEW i \in Tabs
  PROVE  /\ refreshing[i] # None => refreshing[i] \in Calls({"refresh"})
         /\ acting[i] # None => acting[i] \in Calls({"login", "logout"})
BY DEF TypeOK

(* None is not a call, and not a token. *)
LEMMA NoneIs ==
  /\ None \notin Calls({"refresh"}) /\ None \notin Calls({"login", "logout"}) /\ None \notin Tokens
BY CallAssumption, TokenAssumption DEF Calls

-----------------------------------------------------------------------------
(* Steps that neither issue a session nor bring one to the browser *)

Quiet ==
  /\ UNCHANGED <<issued, family, remembered>>
  /\ \A f \in Tokens : good'[f] \in {good[f], None}
  /\ jar' \in {jar, NoCookie}
  /\ \A i \in Tabs : refreshing'[i] # None =>
       \/ refreshing'[i] = refreshing[i]
       \/ /\ refreshing'[i].phase # "granted"
          /\ \/ refreshing'[i].token = None
             \/ refreshing'[i].token = jar.token /\ refreshing'[i].remember = jar.remember
  /\ \A i \in Tabs : Granted(i, "acting")' => acting'[i] = acting[i]

(* They keep what is known of tokens. *)
LEMMA QuietKeeps ==
  ASSUME TypeOK, FamiliesKnown, PairsKept, Fresh, Quiet
  PROVE  FamiliesKnown' /\ PairsKept' /\ Fresh'
<1>1. FamiliesKnown'
  BY NoneIs DEF Quiet, FamiliesKnown, Live
<1>2. \A i \in Tabs, k \in Kinds : Granted(i, k)' => Granted(i, k) /\ Slot(i, k)' = Slot(i, k)
  BY DEF Quiet, Granted, Slot, Is, Kinds
<1>3. ASSUME NEW t, Unused(t), t # None PROVE Unused(t)'
  <2>1. t \in issued' /\ good'[family'[t]] \in {t, None}
    <3>1. family[t] \in Tokens
      BY <1>3 DEF FamiliesKnown, Unused, TypeOK
    <3>. QED BY <1>3, <3>1 DEF Unused, Quiet
  <2>. QED BY <1>3, <2>1 DEF Unused, Quiet, NoCookie, Is
<1>4. PairsKept'
  <2>1. Pair(jar.token, jar.remember)'
    BY DEF PairsKept, Pair, Quiet, NoCookie
  <2>2. ASSUME NEW i \in Tabs, refreshing'[i] # None PROVE Pair(refreshing[i].token, refreshing[i].remember)'
    BY <2>2 DEF PairsKept, Pair, Quiet
  <2>3. ASSUME NEW i \in Tabs, Granted(i, "acting")' PROVE Pair(acting[i].token, acting[i].remember)'
    BY <2>3 DEF PairsKept, Pair, Quiet, Granted, Slot
  <2>. QED BY <2>1, <2>2, <2>3 DEF PairsKept
<1>5. ASSUME NEW i \in Tabs, NEW k \in Kinds, Granted(i, k)' PROVE Unused(Slot(i, k).token)'
  <2>1. Unused(Slot(i, k).token) /\ Slot(i, k).token # None /\ Slot(i, k).token' = Slot(i, k).token
    BY <1>2, <1>5, NoneIs DEF Fresh, Unused, TypeOK
  <2>. QED BY <1>3, <2>1
<1>6. \A i, j \in Tabs, k, m \in Kinds :
        (Granted(i, k) /\ Granted(j, m) /\ Slot(i, k).token = Slot(j, m).token)' => i = j /\ k = m
  BY <1>2 DEF Fresh
<1>. QED BY <1>1, <1>4, <1>5, <1>6 DEF Fresh

-----------------------------------------------------------------------------
(* What a step does to a tab and its calls *)

TabState == [status : {"loading", "authenticated", "unauthenticated"}, token : Tokens \cup {None}]
Move(i, r, a, t) ==
  /\ refreshing' = [refreshing EXCEPT ![i] = r]
  /\ acting' = [acting EXCEPT ![i] = a]
  /\ tab' = [tab EXCEPT ![i] = t]

(* Tokens on their way stay so, unless an answer is lost or a refusal arrives. *)
Stays ==
  \/ jar' = jar /\ \A i \in Tabs, k \in Kinds : Granted(i, k) => Slot(i, k)' = Slot(i, k)
  \/ faults' > faults
  \/ RefusalArrives

ShowsTokens(t, r, a) ==
  t.token # None => t.status = "authenticated" \/ Is(r, "listing") \/ Is(a, "listing")

(* What a tab shows as it moves on. *)
LEMMA MoveShows ==
  ASSUME TypeOK, TokensAreShown, NEW i \in Tabs, NEW t \in TabState,
         NEW r \in Calls({"refresh"}) \cup {None}, NEW a \in Calls({"login", "logout"}) \cup {None},
         Move(i, r, a, t), ShowsTokens(t, r, a)
  PROVE  /\ tab' \in [Tabs -> TabState] /\ TokensAreShown'
         /\ refreshing' \in [Tabs -> Calls({"refresh"}) \cup {None}]
         /\ acting' \in [Tabs -> Calls({"login", "logout"}) \cup {None}]
         /\ tab'[i] = t /\ refreshing'[i] = r /\ acting'[i] = a
         /\ \A j \in Tabs \ {i} : tab'[j] = tab[j] /\ refreshing'[j] = refreshing[j] /\ acting'[j] = acting[j]
<1>1. /\ tab \in [Tabs -> TabState]
      /\ refreshing \in [Tabs -> Calls({"refresh"}) \cup {None}]
      /\ acting \in [Tabs -> Calls({"login", "logout"}) \cup {None}]
  BY DEF TypeOK, TabState
<1>2. tab' \in [Tabs -> TabState] /\ tab'[i] = t /\ \A j \in Tabs \ {i} : tab'[j] = tab[j]
  BY <1>1 DEF Move
<1>3. /\ refreshing' \in [Tabs -> Calls({"refresh"}) \cup {None}]
      /\ refreshing'[i] = r /\ \A j \in Tabs \ {i} : refreshing'[j] = refreshing[j]
  BY <1>1 DEF Move
<1>4. /\ acting' \in [Tabs -> Calls({"login", "logout"}) \cup {None}]
      /\ acting'[i] = a /\ \A j \in Tabs \ {i} : acting'[j] = acting[j]
  BY <1>1 DEF Move
<1>5. TokensAreShown'
  BY <1>2, <1>3, <1>4 DEF TokensAreShown, ShowsTokens, Is
<1>. QED BY <1>2, <1>3, <1>4, <1>5

(* A step of a tab that is quiet. *)
LEMMA QuietMove ==
  ASSUME TypeOK, TokensAreShown, NEW i \in Tabs, NEW t \in TabState,
         NEW r \in Calls({"refresh"}) \cup {None}, NEW a \in Calls({"login", "logout"}) \cup {None},
         Move(i, r, a, t), ShowsTokens(t, r, a),
         UNCHANGED <<issued, family, remembered>>, good' \in [Tokens -> Tokens \cup {None}],
         \A f \in Tokens : good'[f] \in {good[f], None}, jar' \in {jar, NoCookie}, faults' \in 0..MaxFaults,
         \/ r = refreshing[i] \/ r = None
         \/ /\ r.phase # "granted"
            /\ r.token = None \/ (r.token = jar.token /\ r.remember = jar.remember),
         a = acting[i] \/ ~Is(a, "granted"),
         \/ /\ jar' = jar
            /\ Is(refreshing[i], "granted") => r = refreshing[i]
            /\ Is(acting[i], "granted") => a = acting[i]
         \/ faults' > faults
         \/ RefusalArrives
  PROVE  TypeOK' /\ TokensAreShown' /\ Quiet /\ Stays
<1>1. /\ tab' \in [Tabs -> TabState] /\ TokensAreShown'
      /\ refreshing' \in [Tabs -> Calls({"refresh"}) \cup {None}]
      /\ acting' \in [Tabs -> Calls({"login", "logout"}) \cup {None}]
      /\ tab'[i] = t /\ refreshing'[i] = r /\ acting'[i] = a
      /\ \A j \in Tabs \ {i} : tab'[j] = tab[j] /\ refreshing'[j] = refreshing[j] /\ acting'[j] = acting[j]
  BY MoveShows
<1>2. TypeOK'
  BY <1>1 DEF TypeOK, TabState
<1>3. \A j \in Tabs : refreshing'[j] # None =>
        \/ refreshing'[j] = refreshing[j]
        \/ /\ refreshing'[j].phase # "granted"
           /\ \/ refreshing'[j].token = None
              \/ refreshing'[j].token = jar.token /\ refreshing'[j].remember = jar.remember
  BY <1>1
<1>4. \A j \in Tabs : Granted(j, "acting")' => acting'[j] = acting[j]
  BY <1>1 DEF Granted, Slot, Is
<1>5. Quiet
  BY <1>3, <1>4 DEF Quiet
<1>6. Stays
  BY <1>1 DEF Stays, Granted, Slot, Is, Kinds
<1>. QED BY <1>1, <1>2, <1>5, <1>6

-----------------------------------------------------------------------------
(* The quiet steps *)

Kept == TypeOK' /\ TokensAreShown' /\ Quiet /\ Stays

(* What a tab is before a step. *)
LEMMA TabIs ==
  ASSUME TypeOK, TokensAreShown, NEW i \in Tabs
  PROVE  /\ tab[i] \in TabState /\ refreshing[i] \in Calls({"refresh"}) \cup {None}
         /\ acting[i] \in Calls({"login", "logout"}) \cup {None}
         /\ ShowsTokens(tab[i], refreshing[i], acting[i])
         /\ refreshing = [refreshing EXCEPT ![i] = refreshing[i]]
         /\ acting = [acting EXCEPT ![i] = acting[i]] /\ tab = [tab EXCEPT ![i] = tab[i]]
         /\ SignedOut \in TabState /\ Loading \in TabState
         /\ jar \in [token : Tokens \cup {None}, remember : BOOLEAN]
         /\ good \in [Tokens -> Tokens \cup {None}]
         /\ faults \in 0..MaxFaults /\ faults \in Nat /\ MaxFaults \in Nat
<1>1. /\ tab \in [Tabs -> TabState] /\ good \in [Tokens -> Tokens \cup {None}]
      /\ refreshing \in [Tabs -> Calls({"refresh"}) \cup {None}]
      /\ acting \in [Tabs -> Calls({"login", "logout"}) \cup {None}]
  BY DEF TypeOK, TabState
<1>2. /\ refreshing = [refreshing EXCEPT ![i] = refreshing[i]]
      /\ acting = [acting EXCEPT ![i] = acting[i]] /\ tab = [tab EXCEPT ![i] = tab[i]]
  BY <1>1
<1>3. ShowsTokens(tab[i], refreshing[i], acting[i])
  BY DEF TokensAreShown, ShowsTokens
<1>4. SignedOut \in TabState /\ Loading \in TabState
  BY DEF SignedOut, Loading, TabState
<1>5. jar \in [token : Tokens \cup {None}, remember : BOOLEAN]
  <2>1. NoCookie \in [token : Tokens \cup {None}, remember : BOOLEAN]
    BY DEF NoCookie
  <2>2. jar \in [token : Tokens, remember : BOOLEAN] \/ jar = NoCookie
    BY DEF TypeOK
  <2>. QED BY <2>1, <2>2
<1>6. MaxFaults \in Nat /\ faults \in 0..MaxFaults
  BY TokenAssumption DEF TypeOK
<1>. QED BY <1>1, <1>2, <1>3, <1>4, <1>5, <1>6

(* The status of a tab changes. *)
LEMMA StatusIs ==
  ASSUME NEW s \in TabState
  PROVE  \E t \in TabState : t = [s EXCEPT !.status = "authenticated"] /\ t.status = "authenticated"
<1>1. [s EXCEPT !.status = "authenticated"] \in TabState
  BY DEF TabState
<1>2. [s EXCEPT !.status = "authenticated"].status = "authenticated"
  BY DEF TabState
<1>. QED BY <1>1, <1>2

(* A refresh leaves with the cookies. *)
LEMMA RefreshSendKeeps ==
  ASSUME TypeOK, TokensAreShown, NEW i \in Tabs, RefreshSend(i)
  PROVE  Kept
<1>1. PICK r \in Calls({"refresh"}) : r = Call("refresh", jar.token, jar.remember)
  BY TabIs DEF Call, Calls
<1>2. r.phase = "sent" /\ r.token = jar.token /\ r.remember = jar.remember
  BY <1>1 DEF Call
<1>3. Move(i, r, acting[i], tab[i])
  BY <1>1, TabIs DEF RefreshSend, Move
<1>4. ShowsTokens(tab[i], r, acting[i])
  BY TabIs DEF RefreshSend, ShowsTokens, Is
<1>5. ~Is(refreshing[i], "granted")
  BY DEF RefreshSend, Is
<1>6. UNCHANGED <<good, issued, family, remembered, jar, faults>>
  BY DEF RefreshSend, api
<1>. QED BY <1>2, <1>3, <1>4, <1>5, <1>6, TabIs, QuietMove DEF Kept

(* It is refused, or fails. *)
LEMMA RefreshAnswerKeeps ==
  ASSUME TypeOK, TokensAreShown, NEW i \in Tabs,
         RefreshRefuse(i) \/ \E phase \in {"refused", "unavailable"} : RefreshFail(i, phase)
  PROVE  Kept
<1>1. PICK phase \in {"refused", "unavailable"} :
        /\ Is(refreshing[i], "sent") /\ refreshing' = Answer(refreshing, i, phase)
        /\ UNCHANGED <<good, issued, family, remembered, jar, tab, acting>>
        /\ faults' \in 0..MaxFaults
  BY TabIs DEF RefreshRefuse, RefreshFail, api
<1>2. PICK r \in Calls({"refresh"}) :
        /\ refreshing' = [refreshing EXCEPT ![i] = r]
        /\ r.phase = phase /\ r.token = None
  <2>1. refreshing \in [Tabs -> Calls({"refresh"}) \cup {None}] /\ refreshing[i] # None /\ phase \in Phases
    BY <1>1 DEF TypeOK, Is, Phases
  <2>2. PICK r \in Calls({"refresh"}) :
          Answer(refreshing, i, phase) = Put(refreshing, i, r) /\ r.phase = phase /\ r.token = None
    BY <2>1, AnswerIs
  <2>. QED BY <1>1, <2>2 DEF Put
<1>3. Move(i, r, acting[i], tab[i])
  BY <1>1, <1>2, TabIs DEF Move
<1>4. ShowsTokens(tab[i], r, acting[i])
  BY <1>1, TabIs DEF ShowsTokens, Is
<1>5. ~Is(refreshing[i], "granted") /\ r.phase # "granted" /\ r.token = None
  BY <1>1, <1>2 DEF Is
<1>. QED BY <1>1, <1>3, <1>4, <1>5, TabIs, QuietMove DEF Kept

(* A refusal or a 503 arrives. *)
LEMMA RefreshRefusedKeeps ==
  ASSUME TypeOK, TokensAreShown, NEW i \in Tabs, RefreshRefused(i)
  PROVE  Kept
<1>1. Move(i, None, acting[i], SignedOut)
  BY TabIs DEF RefreshRefused, Move
<1>2. ShowsTokens(SignedOut, None, acting[i])
  BY DEF ShowsTokens, SignedOut
<1>3. ~Is(refreshing[i], "granted")
  BY DEF RefreshRefused, Is
<1>4. UNCHANGED <<good, issued, family, remembered, faults>>
  BY DEF RefreshRefused, api
<1>5. jar' \in {jar, NoCookie} /\ (jar' = jar \/ Is(refreshing[i], "refused"))
  BY DEF RefreshRefused, CookiesAfter, Is
<1>6. Is(refreshing[i], "refused") => RefusalArrives
  <2>1. refreshing'[i] = None
    BY DEF RefreshRefused, TypeOK
  <2>. QED BY <2>1 DEF RefusalArrives
<1>. QED BY <1>1, <1>2, <1>3, <1>4, <1>5, <1>6, TabIs, QuietMove DEF Kept

(* The sessions are listed. *)
LEMMA RefreshDoneKeeps ==
  ASSUME TypeOK, TokensAreShown, NEW i \in Tabs, RefreshDone(i)
  PROVE  Kept
<1>1. PICK t \in TabState : t = [tab[i] EXCEPT !.status = "authenticated"] /\ t.status = "authenticated"
  BY TabIs, StatusIs
<1>2. Move(i, None, acting[i], t)
  BY <1>1, TabIs DEF RefreshDone, Move
<1>3. ShowsTokens(t, None, acting[i])
  BY <1>1 DEF ShowsTokens
<1>4. ~Is(refreshing[i], "granted")
  BY DEF RefreshDone, Is
<1>5. UNCHANGED <<good, issued, family, remembered, faults, jar>>
  BY DEF RefreshDone, api
<1>. QED BY <1>2, <1>3, <1>4, <1>5, TabIs, QuietMove DEF Kept

(* Sign-in and sign-out: as they leave, *)
LEMMA ActSendKeeps ==
  ASSUME TypeOK, TokensAreShown, NEW i \in Tabs,
         SignOutSend(i) \/ \E remember \in BOOLEAN : SignInSend(i, remember)
  PROVE  Kept
<1>1. PICK a \in Calls({"login", "logout"}) : acting' = [acting EXCEPT ![i] = a] /\ a.phase = "sent"
  <2>1. CASE SignOutSend(i)
    <3>1. PICK a \in Calls({"login", "logout"}) : a = Call("logout", tab[i].token, FALSE)
      BY TabIs DEF Call, Calls, TabState
    <3>. QED BY <2>1, <3>1 DEF SignOutSend, Call
  <2>2. ASSUME NEW remember \in BOOLEAN, SignInSend(i, remember)
        PROVE  \E a \in Calls({"login", "logout"}) : acting' = [acting EXCEPT ![i] = a] /\ a.phase = "sent"
    <3>1. PICK a \in Calls({"login", "logout"}) : a = Call("login", None, remember)
      BY DEF Call, Calls
    <3>. QED BY <2>2, <3>1 DEF SignInSend, Call
  <2>. QED BY <2>1, <2>2
<1>2. UNCHANGED <<good, issued, family, remembered, jar, tab, refreshing, faults>> /\ acting[i] = None
  BY DEF SignOutSend, SignInSend, api
<1>3. Move(i, refreshing[i], a, tab[i])
  BY <1>1, <1>2, TabIs DEF Move
<1>4. ShowsTokens(tab[i], refreshing[i], a) /\ ~Is(acting[i], "granted") /\ ~Is(a, "granted")
  BY <1>1, <1>2, TabIs DEF ShowsTokens, Is
<1>. QED BY <1>2, <1>3, <1>4, TabIs, QuietMove DEF Kept

(* as they fail, or the sessions are listed, *)
LEMMA SignInEndKeeps ==
  ASSUME TypeOK, TokensAreShown, NEW i \in Tabs, SignInFail(i) \/ SignInDone(i)
  PROVE  Kept
<1>1. UNCHANGED <<good, issued, family, remembered, jar, refreshing, faults>>
  BY DEF SignInFail, SignInDone, api
<1>2. PICK t \in TabState :
        tab' = [tab EXCEPT ![i] = t] /\ (t.status = "authenticated" \/ (t = tab[i] /\ ~Is(acting[i], "listing")))
  <2>1. PICK t \in TabState : t = [tab[i] EXCEPT !.status = "authenticated"] /\ t.status = "authenticated"
    BY TabIs, StatusIs
  <2>2. CASE SignInFail(i)
    BY <2>2, TabIs DEF SignInFail, Did, Is
  <2>3. CASE SignInDone(i)
    BY <2>1, <2>3 DEF SignInDone
  <2>. QED BY <2>2, <2>3
<1>3. Move(i, refreshing[i], None, t)
  BY <1>1, <1>2, TabIs DEF SignInFail, SignInDone, Move
<1>4. ShowsTokens(t, refreshing[i], None) /\ ~Is(acting[i], "granted")
  BY <1>2, TabIs DEF ShowsTokens, Is, SignInFail, SignInDone, Did
<1>5. ~Is(None, "granted")
  BY DEF Is
<1>. QED BY <1>1, <1>3, <1>4, <1>5, TabIs, QuietMove DEF Kept

(* as the API answers a sign-out, or the proxy, *)
LEMMA SignOutAnswerKeeps ==
  ASSUME TypeOK, TokensAreShown, NEW i \in Tabs, SignOutAnswer(i) \/ SignOutUnavailable(i)
  PROVE  Kept
<1>1. PICK phase \in {"refused", "unavailable"} :
        Did(acting[i], "logout", "sent") /\ acting' = Answer(acting, i, phase)
  BY DEF SignOutAnswer, SignOutUnavailable
<1>2. /\ UNCHANGED <<issued, family, remembered, jar, tab, refreshing>> /\ faults' \in 0..MaxFaults
      /\ good' \in [Tokens -> Tokens \cup {None}] /\ \A f \in Tokens : good'[f] \in {good[f], None}
  <2>1. CASE SignOutAnswer(i)
    BY <2>1, TabIs DEF SignOutAnswer, API!End
  <2>2. CASE SignOutUnavailable(i)
    BY <2>2, TabIs DEF SignOutUnavailable, api
  <2>. QED BY <2>1, <2>2
<1>3. PICK a \in Calls({"login", "logout"}) :
        /\ acting' = [acting EXCEPT ![i] = a]
        /\ a.phase = phase
  <2>1. acting \in [Tabs -> Calls({"login", "logout"}) \cup {None}] /\ acting[i] # None /\ phase \in Phases
    BY <1>1 DEF TypeOK, Is, Did, Phases
  <2>2. PICK a \in Calls({"login", "logout"}) :
          Answer(acting, i, phase) = Put(acting, i, a) /\ a.phase = phase
    BY <2>1, AnswerIs
  <2>. QED BY <1>1, <2>2 DEF Put
<1>4. Move(i, refreshing[i], a, tab[i])
  BY <1>2, <1>3, TabIs DEF Move
<1>5. ShowsTokens(tab[i], refreshing[i], a) /\ ~Is(acting[i], "granted") /\ ~Is(a, "granted")
  BY <1>1, <1>3, TabIs DEF ShowsTokens, Is, Did
<1>. QED BY <1>2, <1>4, <1>5, TabIs, QuietMove DEF Kept

(* and as the answer to a sign-out arrives. *)
LEMMA SignOutReceiveKeeps ==
  ASSUME TypeOK, TokensAreShown, NEW i \in Tabs, SignOutReceive(i)
  PROVE  Kept
<1>1. Move(i, refreshing[i], None, SignedOut)
  BY TabIs DEF SignOutReceive, Move
<1>2. ShowsTokens(SignedOut, refreshing[i], None) /\ ~Is(None, "granted")
  BY DEF ShowsTokens, SignedOut, Is
<1>3. ~Is(acting[i], "granted")
  BY DEF SignOutReceive, Is, Did
<1>4. UNCHANGED <<good, issued, family, remembered, faults>>
  BY DEF SignOutReceive, api
<1>5. jar' \in {jar, NoCookie} /\ (jar' = jar \/ Is(acting[i], "refused"))
  BY DEF SignOutReceive, CookiesAfter, Is, Did
<1>6. Is(acting[i], "refused") => RefusalArrives
  <2>1. acting'[i] = None
    BY DEF SignOutReceive, TypeOK
  <2>. QED BY <2>1 DEF RefusalArrives
<1>. QED BY <1>1, <1>2, <1>3, <1>4, <1>5, <1>6, TabIs, QuietMove DEF Kept

(* An answer is lost. *)
LEMMA LoseKeeps ==
  ASSUME TypeOK, TokensAreShown, NEW i \in Tabs, LoseRefresh(i) \/ LoseAction(i)
  PROVE  Kept
<1>1. UNCHANGED <<good, issued, family, remembered, jar>> /\ faults' \in 0..MaxFaults /\ faults' > faults
  <2>1. faults \in Nat /\ MaxFaults \in Nat
    BY TokenAssumption DEF TypeOK
  <2>. QED BY <2>1 DEF LoseRefresh, LoseAction, api
<1>2. ~Is(None, "granted")
  BY DEF Is
<1>3. CASE LoseRefresh(i)
  <2>1. Move(i, None, acting[i], tab[i])
    BY <1>3, TabIs DEF LoseRefresh, Move
  <2>2. ShowsTokens(tab[i], None, acting[i])
    BY <1>3, TabIs DEF ShowsTokens, LoseRefresh, Answered, Is
  <2>. QED BY <1>1, <2>1, <2>2, TabIs, QuietMove DEF Kept
<1>4. CASE LoseAction(i)
  <2>1. PICK t \in {SignedOut, tab[i]} : tab' = [tab EXCEPT ![i] = t]
    BY <1>4, TabIs DEF LoseAction
  <2>2. Move(i, refreshing[i], None, t)
    BY <1>4, <2>1, TabIs DEF LoseAction, Move
  <2>3. ShowsTokens(t, refreshing[i], None)
    BY <1>4, <2>1, TabIs DEF ShowsTokens, LoseAction, Answered, Is, SignedOut
  <2>. QED BY <1>1, <1>2, <2>1, <2>2, <2>3, TabIs, QuietMove DEF Kept
<1>. QED BY <1>3, <1>4

(* The tab is loaded again. *)
LEMMA ReloadKeeps ==
  ASSUME TypeOK, TokensAreShown, NEW i \in Tabs, Reload(i)
  PROVE  Kept
<1>1. PICK r \in Calls({"refresh"}) : r = Call("refresh", jar.token, jar.remember)
  BY TabIs DEF Call, Calls
<1>2. r.phase = "sent" /\ r.token = jar.token /\ r.remember = jar.remember
  BY <1>1 DEF Call
<1>3. Move(i, r, acting[i], Loading)
  BY <1>1, TabIs DEF Reload, Move
<1>4. ShowsTokens(Loading, r, acting[i])
  BY DEF ShowsTokens, Loading
<1>5. ~Is(refreshing[i], "granted")
  BY DEF Reload, Is
<1>6. UNCHANGED <<good, issued, family, remembered, jar, faults>>
  BY DEF Reload, api
<1>. QED BY <1>2, <1>3, <1>4, <1>5, <1>6, TabIs, QuietMove DEF Kept

(* A session ends elsewhere. *)
LEMMA EndElsewhereKeeps ==
  ASSUME TypeOK, TokensAreShown, NEW f \in Tokens, EndElsewhere(f)
  PROVE  Kept
<1>1. /\ UNCHANGED <<issued, family, remembered, jar, tab, refreshing, acting, faults>>
      /\ good' \in [Tokens -> Tokens \cup {None}] /\ \A g \in Tokens : good'[g] \in {good[g], None}
  BY DEF EndElsewhere, API!End, TypeOK
<1>2. TypeOK' /\ TokensAreShown'
  BY <1>1 DEF TypeOK, TokensAreShown, Is
<1>. QED BY <1>1, <1>2 DEF Kept, Quiet, Stays, Granted, Slot

(* The steps that issue a session, or bring it to the browser. *)
Passes(i) == RefreshRotate(i) \/ SignInAnswer(i) \/ RefreshReceive(i) \/ SignInReceive(i)

(* Every step is one of the two. *)
LEMMA StepIs ==
  ASSUME TypeOK, TokensAreShown, Next
  PROVE  Kept \/ \E i \in Tabs : Passes(i)
<1>1. ASSUME NEW i \in Tabs,
             \/ RefreshSend(i) \/ Refresh(i) \/ LoseRefresh(i) \/ Reload(i)
             \/ \E phase \in {"refused", "unavailable"} : RefreshFail(i, phase)
             \/ \E remember \in BOOLEAN : SignInSend(i, remember)
             \/ SignInAnswer(i) \/ SignInFail(i) \/ SignInReceive(i) \/ SignInDone(i)
             \/ SignOutSend(i) \/ SignOutAnswer(i) \/ SignOutUnavailable(i) \/ SignOutReceive(i)
             \/ LoseAction(i)
      PROVE  Kept \/ Passes(i)
  BY <1>1, RefreshSendKeeps, RefreshAnswerKeeps, RefreshRefusedKeeps, RefreshDoneKeeps, ActSendKeeps,
    SignInEndKeeps, SignOutAnswerKeeps, SignOutReceiveKeeps, LoseKeeps, ReloadKeeps DEF Refresh, Passes
<1>. QED BY <1>1, EndElsewhereKeeps DEF Next

-----------------------------------------------------------------------------
(* Sessions that are issued *)

Elsewhere(i, k) ==
  \A j \in Tabs, m \in Kinds : j # i \/ m # k => Slot(j, m)' = Slot(j, m)

(* The API gives token n of family f to call k of tab i. *)
Issues(i, k, n, f) ==
  /\ n \notin issued /\ issued' = issued \cup {n}
  /\ good' = [good EXCEPT ![f] = n] /\ family' = [family EXCEPT ![n] = f]
  /\ \/ /\ f \in issued /\ remembered' = remembered /\ Live(f)
        /\ \A j \in Tabs, m \in Kinds : Granted(j, m) => Slot(j, m).token # good[f]
     \/ f = n /\ remembered' \in {remembered, remembered \cup {n}}
  /\ ~Granted(i, k) /\ Granted(i, k)' /\ Slot(i, k)'.token = n
  /\ Slot(i, k)'.remember <=> f \in remembered'
  /\ Elsewhere(i, k) /\ jar' = jar

(* A rotation, *)
LEMMA RotateIs ==
  ASSUME Inv, NEW i \in Tabs, RefreshRotate(i)
  PROVE  TypeOK' /\ TokensAreShown' /\ \E n, f \in Tokens : Issues(i, "refreshing", n, f)
<1>1. TypeOK /\ TokensAreShown /\ FamiliesKnown /\ PairsKept /\ Fresh
  BY DEF Inv
<1>2. PICK n \in Tokens : n = NextToken
  BY DEF RefreshRotate, CanIssue
<1>3. PICK f \in Tokens :
        /\ Live(f) /\ good[f] = refreshing[i].token
        /\ n \notin issued /\ good' = [good EXCEPT ![f] = n] /\ issued' = issued \cup {n}
        /\ family' = [family EXCEPT ![n] = f]
  BY <1>2 DEF RefreshRotate, API!Replace, API!Issue
<1>4. Is(refreshing[i], "sent") /\ refreshing[i] # None
  BY DEF RefreshRotate, Is
<1>5. PICK r \in Calls({"refresh"}) :
        /\ refreshing' = Put(refreshing, i, r)
        /\ r.phase = "granted" /\ r.token = n /\ r.remember = refreshing[i].remember
  <2>1. refreshing \in [Tabs -> Calls({"refresh"}) \cup {None}]
    BY <1>1 DEF TypeOK
  <2>2. PICK r \in Calls({"refresh"}) :
          /\ Grant(refreshing, i, n) = Put(refreshing, i, r)
          /\ r.phase = "granted" /\ r.token = n /\ r.remember = refreshing[i].remember
    BY <1>4, <2>1, GrantIs
  <2>. QED BY <1>2, <2>2 DEF RefreshRotate
<1>6. UNCHANGED <<remembered, jar, tab, acting, faults>>
  BY DEF RefreshRotate
<1>7. Move(i, r, acting[i], tab[i])
  BY <1>1, <1>5, <1>6, TabIs DEF Move, Put
<1>8. ShowsTokens(tab[i], r, acting[i])
  BY <1>1, <1>4, TabIs DEF ShowsTokens, Is
<1>9. /\ tab' \in [Tabs -> TabState] /\ TokensAreShown'
      /\ refreshing' \in [Tabs -> Calls({"refresh"}) \cup {None}]
      /\ acting' \in [Tabs -> Calls({"login", "logout"}) \cup {None}]
      /\ refreshing'[i] = r /\ acting'[i] = acting[i]
      /\ \A j \in Tabs \ {i} : refreshing'[j] = refreshing[j] /\ acting'[j] = acting[j]
  BY <1>1, <1>7, <1>8, TabIs, MoveShows
<1>10. TypeOK'
  BY <1>1, <1>3, <1>6, <1>9 DEF TypeOK, TabState
<1>11. good[f] \in issued /\ family[good[f]] = f /\ f \in issued
  BY <1>1, <1>3 DEF FamiliesKnown
<1>12. Elsewhere(i, "refreshing")
  BY <1>6, <1>9 DEF Elsewhere, Slot, Kinds
<1>13. ASSUME NEW j \in Tabs, NEW m \in Kinds, Granted(j, m) PROVE Slot(j, m).token # good[f]
  BY <1>1, <1>3, <1>4, <1>13 DEF Fresh, Unused
<1>14. ~Granted(i, "refreshing") /\ Granted(i, "refreshing")' /\ Slot(i, "refreshing")'.token = n
  <2>1. r # None
    BY NoneIs
  <2>. QED BY <1>4, <1>5, <1>9, <2>1 DEF Granted, Slot, Is
<1>15. Slot(i, "refreshing")'.remember <=> f \in remembered'
  <2>1. refreshing[i].remember <=> family[refreshing[i].token] \in remembered
    BY <1>1, <1>3, <1>4 DEF PairsKept, Pair, Live
  <2>2. Slot(i, "refreshing")'.remember = refreshing[i].remember
    BY <1>5, <1>9 DEF Slot
  <2>. QED BY <1>3, <1>6, <1>11, <2>1, <2>2
<1>16. Issues(i, "refreshing", n, f)
  BY <1>3, <1>6, <1>11, <1>12, <1>13, <1>14, <1>15 DEF Issues
<1>. QED BY <1>9, <1>10, <1>16

(* or a sign-in. *)
LEMMA SignInIs ==
  ASSUME Inv, NEW i \in Tabs, SignInAnswer(i)
  PROVE  TypeOK' /\ TokensAreShown' /\ \E n, f \in Tokens : Issues(i, "acting", n, f)
<1>1. TypeOK /\ TokensAreShown /\ FamiliesKnown
  BY DEF Inv
<1>2. PICK n \in Tokens : n = NextToken
  BY DEF SignInAnswer, CanIssue
<1>3. /\ n \notin issued /\ good' = [good EXCEPT ![n] = n] /\ issued' = issued \cup {n}
      /\ family' = [family EXCEPT ![n] = n]
      /\ remembered' = IF acting[i].remember THEN remembered \cup {n} ELSE remembered
  BY <1>2 DEF SignInAnswer, API!Begin, API!Issue
<1>4. Is(acting[i], "sent") /\ acting[i] # None
  BY DEF SignInAnswer, Did, Is
<1>5. PICK a \in Calls({"login", "logout"}) :
        /\ acting' = Put(acting, i, a)
        /\ a.phase = "granted" /\ a.token = n /\ a.remember = acting[i].remember
  <2>1. acting \in [Tabs -> Calls({"login", "logout"}) \cup {None}]
    BY <1>1 DEF TypeOK
  <2>2. PICK a \in Calls({"login", "logout"}) :
          /\ Grant(acting, i, n) = Put(acting, i, a)
          /\ a.phase = "granted" /\ a.token = n /\ a.remember = acting[i].remember
    BY <1>4, <2>1, GrantIs
  <2>. QED BY <1>2, <2>2 DEF SignInAnswer
<1>6. UNCHANGED <<jar, tab, refreshing, faults>>
  BY DEF SignInAnswer
<1>7. Move(i, refreshing[i], a, tab[i])
  BY <1>1, <1>5, <1>6, TabIs DEF Move, Put
<1>8. ShowsTokens(tab[i], refreshing[i], a)
  BY <1>1, <1>4, TabIs DEF ShowsTokens, Is
<1>9. /\ tab' \in [Tabs -> TabState] /\ TokensAreShown'
      /\ refreshing' \in [Tabs -> Calls({"refresh"}) \cup {None}]
      /\ acting' \in [Tabs -> Calls({"login", "logout"}) \cup {None}]
      /\ refreshing'[i] = refreshing[i] /\ acting'[i] = a
      /\ \A j \in Tabs \ {i} : refreshing'[j] = refreshing[j] /\ acting'[j] = acting[j]
  <2>1. refreshing[i] \in Calls({"refresh"}) \cup {None} /\ tab[i] \in TabState
    BY <1>1, TabIs
  <2>. QED BY <1>1, <1>7, <1>8, <2>1, MoveShows
<1>10. TypeOK'
  BY <1>1, <1>3, <1>6, <1>9 DEF TypeOK, TabState
<1>11. Elsewhere(i, "acting")
  BY <1>6, <1>9 DEF Elsewhere, Slot, Kinds
<1>12. ~Granted(i, "acting") /\ Granted(i, "acting")' /\ Slot(i, "acting")'.token = n
  <2>1. a # None
    BY NoneIs
  <2>. QED BY <1>4, <1>5, <1>9, <2>1 DEF Granted, Slot, Is
<1>13. Slot(i, "acting")'.remember <=> n \in remembered'
  <2>1. n \notin remembered
    BY <1>1, <1>3 DEF FamiliesKnown
  <2>2. Slot(i, "acting")'.remember = acting[i].remember
    BY <1>5, <1>9 DEF Slot
  <2>. QED BY <1>3, <2>1, <2>2
<1>14. remembered' \in {remembered, remembered \cup {n}}
  BY <1>3
<1>15. Issues(i, "acting", n, n)
  BY <1>3, <1>6, <1>11, <1>12, <1>13, <1>14 DEF Issues
<1>. QED BY <1>9, <1>10, <1>15

(* What is issued is known, and new to every cookie and call. *)
LEMMA IssueKeeps ==
  ASSUME TypeOK, FamiliesKnown, PairsKept, Fresh, NEW i \in Tabs, NEW k \in Kinds, NEW n \in Tokens, NEW f \in Tokens,
         Issues(i, k, n, f)
  PROVE  FamiliesKnown' /\ PairsKept' /\ Fresh'
<1>1. /\ good'[f] = n /\ \A g \in Tokens \ {f} : good'[g] = good[g]
      /\ family'[n] = f /\ \A t \in issued : family'[t] = family[t]
      /\ issued \subseteq Tokens /\ n \notin issued /\ issued' = issued \cup {n} /\ n # None
  BY NoneIs DEF Issues, TypeOK
<1>2. f \in issued' /\ (f \in issued => remembered' = remembered) /\ remembered \subseteq remembered'
      /\ remembered' \subseteq remembered \cup {n}
  BY DEF Issues
<1>3. FamiliesKnown'
  <2>1. remembered' \subseteq issued'
    BY <1>1, <1>2 DEF FamiliesKnown
  <2>2. \A t \in issued' : family'[t] \in issued'
    BY <1>1, <1>2 DEF FamiliesKnown
  <2>3. ASSUME NEW g \in Tokens, Live(g)' PROVE good'[g] \in issued' /\ family'[good'[g]] = g
    BY <1>1, <2>3 DEF FamiliesKnown, Live
  <2>. QED BY <2>1, <2>2, <2>3 DEF FamiliesKnown
<1>4. \A t \in issued : family[t] \in remembered <=> family'[t] \in remembered'
  BY <1>1, <1>2 DEF FamiliesKnown
<1>5. \A t, remember : Pair(t, remember) => Pair(t, remember)'
  BY <1>1, <1>4 DEF Pair
<1>6. Slot(i, k)' # None /\ Slot(i, k)'.phase = "granted"
  BY DEF Issues, Granted, Is
<1>7. Pair(Slot(i, k).token, Slot(i, k).remember)'
  BY <1>1 DEF Issues, Pair
<1>8. PairsKept'
  <2>1. Pair(jar.token, jar.remember)'
    BY <1>5 DEF PairsKept, Issues
  <2>2. ASSUME NEW j \in Tabs, refreshing'[j] # None PROVE Pair(refreshing[j].token, refreshing[j].remember)'
    <3>1. CASE j = i /\ k = "refreshing"
      BY <1>7, <3>1 DEF Slot
    <3>2. CASE ~(j = i /\ k = "refreshing")
      <4>1. refreshing'[j] = refreshing[j]
        BY <3>2 DEF Issues, Elsewhere, Slot, Kinds
      <4>. QED BY <1>5, <2>2, <4>1 DEF PairsKept
    <3>. QED BY <3>1, <3>2
  <2>3. ASSUME NEW j \in Tabs, Granted(j, "acting")' PROVE Pair(acting[j].token, acting[j].remember)'
    <3>1. CASE j = i /\ k = "acting"
      BY <1>7, <3>1 DEF Slot
    <3>2. CASE ~(j = i /\ k = "acting")
      <4>1. acting'[j] = acting[j]
        BY <3>2 DEF Issues, Elsewhere, Slot, Kinds
      <4>2. Granted(j, "acting")
        BY <2>3, <4>1 DEF Granted, Slot
      <4>. QED BY <1>5, <4>1, <4>2 DEF PairsKept
    <3>. QED BY <3>1, <3>2
  <2>. QED BY <2>1, <2>2, <2>3 DEF PairsKept
<1>9. \A j \in Tabs, m \in Kinds : j # i \/ m # k => Slot(j, m)' = Slot(j, m) /\ (Granted(j, m)' <=> Granted(j, m))
  BY DEF Issues, Elsewhere, Granted
<1>10. \A j \in Tabs : Is(refreshing'[j], "sent") => Is(refreshing[j], "sent") /\ refreshing'[j] = refreshing[j]
  <2> SUFFICES ASSUME NEW j \in Tabs, Is(refreshing'[j], "sent")
               PROVE  refreshing'[j] = refreshing[j]
    OBVIOUS
  <2>1. ~(j = i /\ k = "refreshing")
    BY <1>6 DEF Slot, Is
  <2>. QED BY <2>1 DEF Issues, Elsewhere, Slot, Kinds
<1>11. Unused(n)'
  <2>1. jar'.token # n
    BY <1>1 DEF Issues, PairsKept, Pair
  <2>2. \A j \in Tabs : Is(refreshing'[j], "sent") => refreshing'[j].token # n
    BY <1>1, <1>10 DEF PairsKept, Pair, Is
  <2>. QED BY <1>1, <2>1, <2>2 DEF Unused
<1>12. ASSUME NEW j \in Tabs, NEW m \in Kinds, Granted(j, m) PROVE Unused(Slot(j, m).token)'
  <2>1. PICK t \in issued : t = Slot(j, m).token /\ Unused(t)
    BY <1>12 DEF Fresh, Unused
  <2>2. good'[family'[t]] \in {t, None}
    <3>1. family'[t] = family[t] /\ family[t] \in issued
      BY <1>1 DEF FamiliesKnown
    <3>2. family[t] # f
      BY <1>1, <1>12, <2>1, <3>1 DEF Issues, Unused, Live
    <3>. QED BY <1>1, <2>1, <3>1, <3>2 DEF Unused
  <2>3. jar'.token # t
    BY <2>1 DEF Unused, Issues
  <2>4. \A c \in Tabs : Is(refreshing'[c], "sent") => refreshing'[c].token # t
    BY <1>10, <2>1 DEF Unused
  <2>5. Unused(t)'
    BY <1>1, <2>2, <2>3, <2>4 DEF Unused
  <2>6. Slot(j, m)' = Slot(j, m)
    BY <1>9, <1>12 DEF Issues
  <2>. QED BY <2>1, <2>5, <2>6
<1>13. \A j \in Tabs, m \in Kinds : Granted(j, m)' => \/ j = i /\ m = k /\ Slot(j, m)'.token = n
                                                    \/ /\ Granted(j, m) /\ Slot(j, m)' = Slot(j, m)
                                                       /\ Slot(j, m).token # n
  BY <1>1, <1>9 DEF Issues, Fresh, Unused
<1>14. \A j \in Tabs, m \in Kinds : Granted(j, m)' => Unused(Slot(j, m).token)'
  BY <1>11, <1>12, <1>13
<1>15. \A j, c \in Tabs, m, l \in Kinds :
         (Granted(j, m) /\ Granted(c, l) /\ Slot(j, m).token = Slot(c, l).token)' => j = c /\ m = l
  BY <1>13 DEF Fresh
<1>. QED BY <1>3, <1>8, <1>14, <1>15 DEF Fresh

-----------------------------------------------------------------------------
(* Sessions that arrive *)

(* Call k of tab i sets the cookies, and the tab stores its token. *)
Receives(i, k) ==
  /\ UNCHANGED <<good, issued, family, remembered>>
  /\ Granted(i, k) /\ ~Granted(i, k)' /\ ~Is(Slot(i, k)', "sent")
  /\ Slot(i, k)' # None => Slot(i, k)'.token = None
  /\ jar' = [token |-> Slot(i, k).token, remember |-> Slot(i, k).remember]
  /\ Elsewhere(i, k)

(* A tab that stores a token lists the sessions. *)
LEMMA StoreIs ==
  ASSUME TypeOK, NEW i \in Tabs, NEW s \in TabState, NEW token \in Tokens \cup {None}
  PROVE  [s EXCEPT !.token = token] \in TabState
BY DEF TabState

(* The answer to a refresh, *)
LEMMA RefreshReceiveIs ==
  ASSUME Inv, NEW i \in Tabs, RefreshReceive(i)
  PROVE  TypeOK' /\ TokensAreShown' /\ Receives(i, "refreshing")
<1>1. TypeOK /\ TokensAreShown /\ Fresh
  BY DEF Inv
<1>2. Is(refreshing[i], "granted") /\ refreshing[i] \in Calls({"refresh"})
  BY <1>1, SlotIs DEF RefreshReceive, Is
<1>3. refreshing[i].token \in Tokens /\ refreshing[i].remember \in BOOLEAN
  <2>1. refreshing[i].token \in issued
    BY <1>1, <1>2 DEF Fresh, Unused, Granted, Slot, Kinds
  <2>. QED BY <1>1, <1>2, <2>1 DEF TypeOK, Calls
<1>4. PICK t \in TabState : tab' = [tab EXCEPT ![i] = t]
  <2>1. [tab[i] EXCEPT !.token = refreshing[i].token] \in TabState
    BY <1>1, <1>3, TabIs, StoreIs
  <2>. QED BY <2>1 DEF RefreshReceive
<1>5. PICK r \in Calls({"refresh"}) : refreshing' = Put(refreshing, i, r) /\ r.phase = "listing" /\ r.token = None
  <2>1. refreshing \in [Tabs -> Calls({"refresh"}) \cup {None}] /\ refreshing[i] # None /\ "listing" \in Phases
    BY <1>1, <1>2 DEF TypeOK, Is, Phases
  <2>2. PICK r \in Calls({"refresh"}) :
          Answer(refreshing, i, "listing") = Put(refreshing, i, r) /\ r.phase = "listing" /\ r.token = None
    BY <2>1, AnswerIs
  <2>. QED BY <2>2 DEF RefreshReceive
<1>6. UNCHANGED <<good, issued, family, remembered, acting, faults>>
  BY DEF RefreshReceive, api
<1>7. Move(i, r, acting[i], t)
  BY <1>1, <1>4, <1>5, <1>6, TabIs DEF Move, Put
<1>8. ShowsTokens(t, r, acting[i])
  BY <1>5, NoneIs DEF ShowsTokens, Is
<1>9. /\ tab' \in [Tabs -> TabState] /\ TokensAreShown'
      /\ refreshing' \in [Tabs -> Calls({"refresh"}) \cup {None}]
      /\ acting' \in [Tabs -> Calls({"login", "logout"}) \cup {None}]
      /\ refreshing'[i] = r /\ acting'[i] = acting[i]
      /\ \A j \in Tabs \ {i} : refreshing'[j] = refreshing[j] /\ acting'[j] = acting[j]
  <2>1. acting[i] \in Calls({"login", "logout"}) \cup {None}
    BY <1>1, TabIs
  <2>. QED BY <1>1, <1>7, <1>8, <2>1, MoveShows
<1>10. jar' = [token |-> refreshing[i].token, remember |-> refreshing[i].remember]
  BY <1>2 DEF RefreshReceive, CookiesAfter, Is
<1>11. jar' \in [token : Tokens, remember : BOOLEAN]
  BY <1>3, <1>10
<1>12. TypeOK'
  BY <1>1, <1>6, <1>9, <1>11 DEF TypeOK, TabState
<1>13. Elsewhere(i, "refreshing")
  BY <1>6, <1>9 DEF Elsewhere, Slot, Kinds
<1>14. Receives(i, "refreshing")
  BY <1>2, <1>5, <1>6, <1>9, <1>10, <1>13 DEF Receives, Granted, Slot, Is
<1>. QED BY <1>9, <1>12, <1>14

(* or to a sign-in. *)
LEMMA SignInReceiveIs ==
  ASSUME Inv, NEW i \in Tabs, SignInReceive(i)
  PROVE  TypeOK' /\ TokensAreShown' /\ Receives(i, "acting")
<1>1. TypeOK /\ TokensAreShown /\ Fresh
  BY DEF Inv
<1>2. Is(acting[i], "granted") /\ acting[i] \in Calls({"login", "logout"})
  BY <1>1, SlotIs DEF SignInReceive, Did, Is
<1>3. acting[i].token \in Tokens /\ acting[i].remember \in BOOLEAN
  <2>1. acting[i].token \in issued
    BY <1>1, <1>2 DEF Fresh, Unused, Granted, Slot, Kinds
  <2>. QED BY <1>1, <1>2, <2>1 DEF TypeOK, Calls
<1>4. PICK t \in TabState : tab' = [tab EXCEPT ![i] = t]
  <2>1. [tab[i] EXCEPT !.token = acting[i].token] \in TabState
    BY <1>1, <1>3, TabIs, StoreIs
  <2>. QED BY <2>1 DEF SignInReceive
<1>5. PICK a \in Calls({"login", "logout"}) : acting' = Put(acting, i, a) /\ a.phase = "listing" /\ a.token = None
  <2>1. acting \in [Tabs -> Calls({"login", "logout"}) \cup {None}] /\ acting[i] # None /\ "listing" \in Phases
    BY <1>1, <1>2 DEF TypeOK, Is, Phases
  <2>2. PICK a \in Calls({"login", "logout"}) :
          Answer(acting, i, "listing") = Put(acting, i, a) /\ a.phase = "listing" /\ a.token = None
    BY <2>1, AnswerIs
  <2>. QED BY <2>2 DEF SignInReceive
<1>6. UNCHANGED <<good, issued, family, remembered, refreshing, faults>>
  BY DEF SignInReceive, api
<1>7. Move(i, refreshing[i], a, t)
  BY <1>1, <1>4, <1>5, <1>6, TabIs DEF Move, Put
<1>8. ShowsTokens(t, refreshing[i], a)
  BY <1>5, NoneIs DEF ShowsTokens, Is
<1>9. /\ tab' \in [Tabs -> TabState] /\ TokensAreShown'
      /\ refreshing' \in [Tabs -> Calls({"refresh"}) \cup {None}]
      /\ acting' \in [Tabs -> Calls({"login", "logout"}) \cup {None}]
      /\ refreshing'[i] = refreshing[i] /\ acting'[i] = a
      /\ \A j \in Tabs \ {i} : refreshing'[j] = refreshing[j] /\ acting'[j] = acting[j]
  <2>1. refreshing[i] \in Calls({"refresh"}) \cup {None}
    BY <1>1, TabIs
  <2>. QED BY <1>1, <1>7, <1>8, <2>1, MoveShows
<1>10. jar' = [token |-> acting[i].token, remember |-> acting[i].remember]
  BY <1>2 DEF SignInReceive, CookiesAfter, Is
<1>11. jar' \in [token : Tokens, remember : BOOLEAN]
  BY <1>3, <1>10
<1>12. TypeOK'
  BY <1>1, <1>6, <1>9, <1>11 DEF TypeOK, TabState
<1>13. Elsewhere(i, "acting")
  BY <1>6, <1>9 DEF Elsewhere, Slot, Kinds
<1>14. Receives(i, "acting")
  BY <1>2, <1>5, <1>6, <1>9, <1>10, <1>13 DEF Receives, Granted, Slot, Is
<1>. QED BY <1>9, <1>12, <1>14

(* The cookies have a token no other call brings. *)
LEMMA ReceiveKeeps ==
  ASSUME TypeOK, FamiliesKnown, PairsKept, Fresh, NEW i \in Tabs, NEW k \in Kinds, Receives(i, k)
  PROVE  FamiliesKnown' /\ PairsKept' /\ Fresh'
<1>1. PICK t \in issued : t = Slot(i, k).token
  BY DEF Receives, Fresh, Unused
<1>2. FamiliesKnown'
  BY DEF Receives, FamiliesKnown, Live
<1>3. \A j \in Tabs, m \in Kinds : Granted(j, m)' => /\ Granted(j, m) /\ Slot(j, m)' = Slot(j, m)
                                                    /\ Slot(j, m).token # t
  BY <1>1 DEF Receives, Elsewhere, Granted, Fresh
<1>4. \A j \in Tabs : Is(refreshing'[j], "sent") => Is(refreshing[j], "sent") /\ refreshing'[j] = refreshing[j]
  <2> SUFFICES ASSUME NEW j \in Tabs, Is(refreshing'[j], "sent") PROVE refreshing'[j] = refreshing[j]
    OBVIOUS
  <2>1. ~(j = i /\ k = "refreshing")
    BY DEF Receives, Slot
  <2>. QED BY <2>1 DEF Receives, Elsewhere, Slot, Kinds
<1>5. Pair(Slot(i, k).token, Slot(i, k).remember)
  <2>1. CASE k = "refreshing"
    BY <2>1 DEF Receives, PairsKept, Slot, Granted, Is
  <2>2. CASE k = "acting"
    BY <2>2 DEF Receives, PairsKept, Slot
  <2>. QED BY <2>1, <2>2 DEF Kinds
<1>6. PairsKept'
  <2>1. Pair(jar.token, jar.remember)'
    BY <1>5 DEF Receives, Pair
  <2>2. ASSUME NEW j \in Tabs, refreshing'[j] # None PROVE Pair(refreshing[j].token, refreshing[j].remember)'
    <3>1. CASE j = i /\ k = "refreshing"
      BY <2>2, <3>1 DEF Receives, Slot, Pair
    <3>2. CASE ~(j = i /\ k = "refreshing")
      <4>1. refreshing'[j] = refreshing[j]
        BY <3>2 DEF Receives, Elsewhere, Slot, Kinds
      <4>. QED BY <2>2, <4>1 DEF PairsKept, Pair, Receives
    <3>. QED BY <3>1, <3>2
  <2>3. ASSUME NEW j \in Tabs, Granted(j, "acting")' PROVE Pair(acting[j].token, acting[j].remember)'
    <3>1. Granted(j, "acting") /\ acting'[j] = acting[j]
      BY <1>3, <2>3 DEF Slot, Kinds
    <3>. QED BY <3>1 DEF PairsKept, Pair, Receives
  <2>. QED BY <2>1, <2>2, <2>3 DEF PairsKept
<1>7. ASSUME NEW u, Unused(u), u # t PROVE Unused(u)'
  BY <1>1, <1>4, <1>7 DEF Unused, Receives
<1>8. \A j \in Tabs, m \in Kinds : Granted(j, m)' => Unused(Slot(j, m).token)'
  BY <1>3, <1>7 DEF Fresh
<1>9. \A j, c \in Tabs, m, l \in Kinds :
        (Granted(j, m) /\ Granted(c, l) /\ Slot(j, m).token = Slot(c, l).token)' => j = c /\ m = l
  BY <1>3 DEF Fresh
<1>. QED BY <1>2, <1>6, <1>8, <1>9 DEF Fresh

-----------------------------------------------------------------------------
(* The theorems *)

(* A step that passes a session on issues one, or brings one to the browser. *)
LEMMA PassesIs ==
  ASSUME Inv, NEW i \in Tabs, Passes(i)
  PROVE  /\ TypeOK' /\ TokensAreShown'
         /\ \E k \in Kinds : Receives(i, k) \/ \E n, f \in Tokens : Issues(i, k, n, f)
<1>1. "refreshing" \in Kinds /\ "acting" \in Kinds
  BY DEF Kinds
<1>. QED BY <1>1, RotateIs, SignInIs, RefreshReceiveIs, SignInReceiveIs DEF Passes

(* Every step keeps the invariant. *)
LEMMA InvStep == Inv /\ [Next]_vars => Inv'
<1> SUFFICES ASSUME Inv, [Next]_vars PROVE Inv'
  OBVIOUS
<1>1. CASE Next
  <2>1. CASE Kept
    BY <2>1, QuietKeeps DEF Kept, Inv
  <2>2. ASSUME NEW i \in Tabs, Passes(i) PROVE Inv'
    BY <2>2, PassesIs, IssueKeeps, ReceiveKeeps DEF Inv
  <2>. QED BY <1>1, <2>1, <2>2, StepIs DEF Inv
<1>2. CASE UNCHANGED vars
  BY <1>2 DEF vars, Inv, TypeOK, TokensAreShown, FamiliesKnown, PairsKept, Fresh, Pair, Unused, Granted, Slot, Is, Live
<1>. QED BY <1>1, <1>2

(* It holds at first: every tab refreshes, without a cookie. *)
LEMMA InvStart == Init => Inv
<1> SUFFICES ASSUME Init PROVE Inv
  OBVIOUS
<1>1. Call("refresh", None, FALSE) \in Calls({"refresh"})
  BY DEF Call, Calls
<1>2. /\ good = [f \in Tokens |-> None] /\ issued = {} /\ family = [t \in Tokens |-> None] /\ remembered = {}
      /\ jar = NoCookie /\ tab = [i \in Tabs |-> Loading] /\ acting = [i \in Tabs |-> None] /\ faults = 0
      /\ refreshing = [i \in Tabs |-> Call("refresh", None, FALSE)]
  BY DEF Init, API!Init
<1>3. TypeOK
  <2>1. Loading \in [status : {"loading", "authenticated", "unauthenticated"}, token : Tokens \cup {None}]
    BY DEF Loading
  <2>2. 0 \in 0..MaxFaults
    BY TokenAssumption
  <2>. QED BY <1>1, <1>2, <2>1, <2>2 DEF TypeOK
<1>4. TokensAreShown
  BY <1>2 DEF TokensAreShown, Loading
<1>5. FamiliesKnown
  BY <1>2 DEF FamiliesKnown, Live
<1>6. \A i \in Tabs : acting[i] = None /\ refreshing[i].phase = "sent" /\ refreshing[i].token = None
  BY <1>2 DEF Call
<1>7. PairsKept
  BY <1>2, <1>6 DEF PairsKept, Pair, Granted, Slot, Is, NoCookie
<1>8. Fresh
  BY <1>6 DEF Fresh, Granted, Slot, Is, Kinds
<1>. QED BY <1>3, <1>4, <1>5, <1>7, <1>8 DEF Inv

(* The types, the families the API knows, the pairs of token and choice, and that no     *)
(* token is on its way that a cookie or a request has: for any tabs and bounds.          *)
THEOREM InvHolds == Spec => []Inv
BY InvStart, InvStep, PTL DEF Spec

(* The types alone. *)
THEOREM TypeCorrect == Spec => []TypeOK
<1>1. Inv => TypeOK
  BY DEF Inv
<1>. QED BY <1>1, InvHolds, PTL

(* A tab that holds tokens shows so, or will when its list of sessions is there. *)
THEOREM TokensShown == Spec => []TokensAreShown
<1>1. Inv => TokensAreShown
  BY DEF Inv
<1>. QED BY <1>1, InvHolds, PTL

(* The remember cookie says what was chosen as this session was signed in. *)
THEOREM Remembered == Spec => []RememberFollowsLogin
<1>1. Inv => RememberFollowsLogin
  BY DEF Inv, PairsKept, Pair, RememberFollowsLogin
<1>. QED BY <1>1, InvHolds, PTL

(* What a session that a step strands was: carried, if it went on before. *)
LEMMA StrandedIs ==
  ASSUME NEW f \in Tokens, Stranded(f)', ~Stranded(f)
  PROVE  /\ good'[f] # None /\ jar'.token # good'[f]
         /\ \A i \in Tabs, k \in Kinds : Granted(i, k)' => Slot(i, k)'.token # good'[f]
         /\ good[f] # None =>
              jar.token = good[f] \/ \E i \in Tabs, k \in Kinds : Granted(i, k) /\ Slot(i, k).token = good[f]
BY DEF Stranded, Live, Carried, Granted, Slot, Kinds

(* A session that a step strands. *)
LEMMA Strands ==
  ASSUME Inv, Next, NEW f \in Tokens, Stranded(f)', ~Stranded(f)
  PROVE  faults' > faults \/ RefusalArrives \/ (jar'.token # None /\ family[jar'.token] # f)
<1>1. TypeOK /\ TokensAreShown /\ Fresh /\ FamiliesKnown
  BY DEF Inv
<1>2. /\ good'[f] # None /\ jar'.token # good'[f]
      /\ \A i \in Tabs, k \in Kinds : Granted(i, k)' => Slot(i, k)'.token # good'[f]
      /\ good[f] # None =>
           jar.token = good[f] \/ \E i \in Tabs, k \in Kinds : Granted(i, k) /\ Slot(i, k).token = good[f]
  BY StrandedIs
<1>3. CASE Kept
  <2>1. good'[f] = good[f]
    BY <1>2, <1>3 DEF Kept, Quiet
  <2>2. Stays
    BY <1>3 DEF Kept
  <2>3. ASSUME jar' = jar, \A i \in Tabs, k \in Kinds : Granted(i, k) => Slot(i, k)' = Slot(i, k) PROVE FALSE
    <3>1. \A i \in Tabs, k \in Kinds : Granted(i, k) => Granted(i, k)'
      BY <2>3 DEF Granted
    <3>. QED BY <1>2, <2>1, <2>3, <3>1
  <2>. QED BY <2>2, <2>3 DEF Stays
<1>4. ASSUME NEW i \in Tabs, NEW k \in Kinds, NEW n \in Tokens, NEW g \in Tokens, Issues(i, k, n, g) PROVE FALSE
  <2>1. g # f
    BY <1>1, <1>2, <1>4 DEF Issues, TypeOK
  <2>2. good'[f] = good[f] /\ jar' = jar
    BY <1>1, <1>4, <2>1 DEF Issues, TypeOK
  <2>3. \A j \in Tabs, m \in Kinds : Granted(j, m) => Granted(j, m)' /\ Slot(j, m)' = Slot(j, m)
    BY <1>4 DEF Issues, Elsewhere, Granted
  <2>. QED BY <1>2, <2>2, <2>3
<1>5. ASSUME NEW i \in Tabs, NEW k \in Kinds, Receives(i, k) PROVE jar'.token # None /\ family[jar'.token] # f
  <2>1. PICK t \in issued : t = Slot(i, k).token /\ good[family[t]] \in {t, None}
    BY <1>1, <1>5 DEF Receives, Fresh, Unused
  <2>2. jar'.token = t /\ good'[f] = good[f]
    BY <1>5, <2>1 DEF Receives
  <2>3. t # None
    BY <1>1, NoneIs DEF TypeOK
  <2>. QED BY <1>2, <2>1, <2>2, <2>3
<1>. QED BY <1>1, <1>3, <1>4, <1>5, StepIs, PassesIs

(* A live session is lost to the browser only by an answer that got lost, a refusal that  *)
(* cleared the cookies, or the cookies of another sign-in: however calls interleave.      *)
THEOREM SessionsCarried == Spec => SessionsAreCarried
<1> DEFINE A == \A f \in Tokens :
                  Stranded(f)' =>
                    \/ Stranded(f)
                    \/ faults' > faults
                    \/ RefusalArrives
                    \/ jar'.token # None /\ family[jar'.token] # f
<1>1. Inv /\ [Next]_vars => [A]_vars
  BY Strands
<1>. QED BY <1>1, InvHolds, PTL DEF Spec, SessionsAreCarried

=============================================================================
