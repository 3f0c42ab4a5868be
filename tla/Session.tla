------------------------------- MODULE Session -------------------------------
(***************************************************************************)
(* Signing in and out: the token all tabs of a browser share in             *)
(* localStorage, and where each tab is because of it. app.tsx asks who the  *)
(* user is when a document loads, requestErrorConfig.ts sends the token and *)
(* answers a 401, the login page posts the form, AvatarDropdown.tsx signs   *)
(* out. Requests stay under way while other tabs change the token.          *)
(***************************************************************************)
EXTENDS Naturals

CONSTANTS
  Tabs,     \* tabs of one browser with the console
  Callers,  \* those whose pages ask for more than the user
  None      \* no request

\* What is stored, and what a request was sent with. Tokens are told apart by
\* whether they are the stored one, and one that is not by whether it has expired.
Tokens == {"none", "valid", "expired"}
Withs == {"none", "this", "other", "expired"}
Stages == {"sent", "ok", "refused"}
Request == [with : Withs, stage : Stages]

VARIABLES
  token,    \* mon_token in localStorage
  at,       \* what each tab is doing
  loc,      \* 0: a page of the console, n > 0: /user/login, redirecting to n - 1
  user,     \* currentUser in each tab's initialState
  who,      \* the currentUser request of each tab
  call,     \* any other request of each tab that needs the token
  out,      \* whether an outLogin of the tab is under way
  calm      \* the server answers, tokens last, nobody signs out or leaves

tabs == <<at, loc, user>>
requests == <<who, call>>
vars == <<token, tabs, requests, out, calm>>

Places == {"load", "ask", "form", "post", "welcome", "view"}

TypeOK ==
  /\ token \in Tokens
  /\ at \in [Tabs -> Places] /\ loc \in [Tabs -> Nat]
  /\ user \in [Tabs -> BOOLEAN] /\ out \in [Tabs -> BOOLEAN]
  /\ who \in [Tabs -> {None} \cup Request]
  /\ call \in [Tabs -> {None} \cup Request]
  /\ calm \in BOOLEAN

Init ==
  /\ token \in Tokens
  /\ at = [t \in Tabs |-> "load"] /\ loc \in [Tabs -> {0, 1}]
  /\ user = [t \in Tabs |-> FALSE] /\ out = [t \in Tabs |-> FALSE]
  /\ who = [t \in Tabs |-> None] /\ call = [t \in Tabs |-> None]
  /\ calm = FALSE

-----------------------------------------------------------------------------
(* Tokens *)

\* The stored token becomes v: what was sent with it was sent with another.
Detached(r) ==
  IF r # None /\ r.with = "this"
  THEN [r EXCEPT !.with = IF token = "valid" THEN "other" ELSE "expired"] ELSE r

\* Puts v for the token, while the tab t's who and call become w and c.
Write(v, t, w, c) ==
  /\ token' = v
  /\ who' = [u \in Tabs |-> Detached(IF u = t THEN w ELSE who[u])]
  /\ call' = [u \in Tabs |-> Detached(IF u = t THEN c ELSE call[u])]

Expire ==
  /\ ~calm
  /\ \/ token = "valid" /\ token' = "expired" /\ UNCHANGED requests
     \/ \E t \in Tabs :
          \/ /\ who[t] # None /\ who[t].with = "other"
             /\ who' = [who EXCEPT ![t].with = "expired"] /\ UNCHANGED <<token, call>>
          \/ /\ call[t] # None /\ call[t].with = "other"
             /\ call' = [call EXCEPT ![t].with = "expired"] /\ UNCHANGED <<token, who>>
  /\ UNCHANGED <<tabs, out, calm>>

\* The request interceptor adds what is stored when the request is sent.
Sent == [with |-> IF token = "none" THEN "none" ELSE "this", stage |-> "sent"]

\* get_current_user: 401 unless the token decodes.
Served(r) ==
  [r EXCEPT !.stage = IF r.with = "other" \/ (r.with = "this" /\ token = "valid")
                      THEN "ok" ELSE "refused"]

ServeWho(t) ==
  /\ who[t] # None /\ who[t].stage = "sent"
  /\ who' = [who EXCEPT ![t] = Served(@)]
  /\ UNCHANGED <<token, tabs, call, out, calm>>

ServeCall(t) ==
  /\ call[t] # None /\ call[t].stage = "sent"
  /\ call' = [call EXCEPT ![t] = Served(@)]
  /\ UNCHANGED <<token, tabs, who, out, calm>>

-----------------------------------------------------------------------------
(* Where a tab goes *)

LoginFor(n) == n + 1

\* Variants: the page the form is on; the redirect of the redirect.
RedirectOf_Here(n) == n
RedirectOf_Twice(n) == n - 2

\* getSafeRedirectUrl of the login page's redirect parameter.
RedirectOf(n) == n - 1

Replace(t, n) ==
  /\ loc' = [loc EXCEPT ![t] = n]
  /\ at' = [at EXCEPT ![t] = IF n = 0 THEN "view" ELSE "form"]

\* location.href: a document load ends whatever the old document was doing.
Href(t, n) ==
  /\ loc' = [loc EXCEPT ![t] = n]
  /\ at' = [at EXCEPT ![t] = "load"]
  /\ user' = [user EXCEPT ![t] = FALSE]
  /\ out' = [out EXCEPT ![t] = FALSE]

\* The user opens or reloads a page, whatever the tab is doing.
Visit(t, n) ==
  /\ ~calm /\ Href(t, n)
  /\ who' = [who EXCEPT ![t] = None] /\ call' = [call EXCEPT ![t] = None]
  /\ UNCHANGED <<token, calm>>

\* getInitialState: asks who the user is, except on the login page.
Load(t) ==
  /\ at[t] = "load"
  /\ at' = [at EXCEPT ![t] = IF loc[t] = 0 THEN "ask" ELSE "form"]
  /\ who' = [who EXCEPT ![t] = IF loc[t] = 0 THEN Sent ELSE None]
  /\ UNCHANGED <<token, loc, user, call, out, calm>>

AskOk(t) ==
  /\ at[t] = "ask" /\ who[t].stage = "ok"
  /\ at' = [at EXCEPT ![t] = "view"]
  /\ user' = [user EXCEPT ![t] = TRUE]
  /\ who' = [who EXCEPT ![t] = None]
  /\ UNCHANGED <<token, loc, call, out, calm>>

\* Variant: the token that was refused is removed.
AskFails_Clears(t) ==
  /\ at[t] = "ask"
  /\ who[t].stage = "refused" \/ ~calm
  /\ Replace(t, LoginFor(loc[t]))
  /\ Write("none", t, None, call[t])
  /\ UNCHANGED <<user, out, calm>>

\* Refused or not answered: to the login page, and the token stays.
AskFails(t) ==
  /\ at[t] = "ask"
  /\ who[t].stage = "refused" \/ ~calm
  /\ Replace(t, LoginFor(loc[t]))
  /\ who' = [who EXCEPT ![t] = None]
  /\ UNCHANGED <<token, user, call, out, calm>>

-----------------------------------------------------------------------------
(* The login page *)

Submit(t) ==
  /\ at[t] = "form"
  /\ at' = [at EXCEPT ![t] = "post"]
  /\ UNCHANGED <<token, loc, user, requests, out, calm>>

\* handleSubmit stores the token and calls fetchUserInfo.
PostOk(t) ==
  /\ at[t] = "post"
  /\ at' = [at EXCEPT ![t] = "welcome"]
  /\ Write("valid", t, None, call[t])
  /\ UNCHANGED <<loc, user, out, calm>>

PostFails(t) ==
  /\ at[t] = "post" /\ ~calm
  /\ at' = [at EXCEPT ![t] = "form"]
  /\ UNCHANGED <<token, loc, user, requests, out, calm>>

AskAgain(t) ==
  /\ at[t] = "welcome" /\ who[t] = None
  /\ who' = [who EXCEPT ![t] = Sent]
  /\ UNCHANGED <<token, tabs, call, out, calm>>

WelcomeOk(t) ==
  /\ at[t] = "welcome" /\ who[t] # None /\ who[t].stage = "ok"
  /\ Href(t, RedirectOf(loc[t]))
  /\ who' = [who EXCEPT ![t] = None] /\ call' = [call EXCEPT ![t] = None]
  /\ UNCHANGED <<token, calm>>

\* fetchUserInfo has put the login page in front of the login page before the
\* redirect parameter is read.
WelcomeFails(t) ==
  /\ at[t] = "welcome" /\ who[t] # None
  /\ who[t].stage = "refused" \/ ~calm
  /\ Href(t, RedirectOf(LoginFor(loc[t])))
  /\ who' = [who EXCEPT ![t] = None] /\ call' = [call EXCEPT ![t] = None]
  /\ UNCHANGED <<token, calm>>

-----------------------------------------------------------------------------
(* The console *)

Call(t) ==
  /\ t \in Callers /\ at[t] = "view" /\ call[t] = None
  /\ call' = [call EXCEPT ![t] = Sent]
  /\ UNCHANGED <<token, tabs, who, out, calm>>

CallEnds(t) ==
  /\ call[t] # None
  /\ call[t].stage = "ok" \/ ~calm
  /\ call' = [call EXCEPT ![t] = None]
  /\ UNCHANGED <<token, tabs, who, out, calm>>

\* Variant: a 401 leads to the login page from wherever the tab is.
Call401_Anywhere(t) ==
  /\ call[t] # None /\ call[t].stage = "refused"
  /\ Href(t, LoginFor(loc[t])) /\ Write("none", t, None, None)
  /\ UNCHANGED calm

\* errorHandler: removes the token that is stored by now. A tab that left the
\* page without loading another document stays on the login page.
Call401(t) ==
  /\ call[t] # None /\ call[t].stage = "refused"
  /\ \/ loc[t] = 0
        /\ Href(t, LoginFor(loc[t])) /\ Write("none", t, None, None)
     \/ loc[t] # 0
        /\ Write("none", t, who[t], None) /\ UNCHANGED <<tabs, out>>
  /\ UNCHANGED calm

\* layout.onPageChange, when the user follows a link without being signed in.
Follow(t) ==
  /\ at[t] = "view" /\ ~user[t]
  /\ Replace(t, LoginFor(loc[t]))
  /\ UNCHANGED <<token, user, requests, out, calm>>

\* Variant: the token is removed at once.
SignOut_AtOnce(t) ==
  /\ ~calm /\ at[t] = "view" /\ user[t]
  /\ user' = [user EXCEPT ![t] = FALSE]
  /\ Write("none", t, who[t], call[t])
  /\ UNCHANGED <<at, loc, out, calm>>

\* onMenuClick: the user is gone at once, the token only after outLogin.
SignOut(t) ==
  /\ ~calm /\ at[t] = "view" /\ user[t]
  /\ user' = [user EXCEPT ![t] = FALSE]
  /\ out' = [out EXCEPT ![t] = TRUE]
  /\ UNCHANGED <<token, at, loc, requests, calm>>

\* Variant: nothing follows a failed outLogin.
SignedOut_IfAnswered(t) ==
  /\ out[t]
  /\ out' = [out EXCEPT ![t] = FALSE]
  /\ \/ /\ Write("none", t, who[t], call[t])
        /\ IF loc[t] = 0 THEN Replace(t, LoginFor(0)) ELSE UNCHANGED <<at, loc>>
     \/ ~calm /\ UNCHANGED <<token, at, loc, requests>>
  /\ UNCHANGED <<user, calm>>

\* loginOut after outLogin, answered or failed.
SignedOut(t) ==
  /\ out[t]
  /\ out' = [out EXCEPT ![t] = FALSE]
  /\ Write("none", t, who[t], call[t])
  /\ IF loc[t] = 0 THEN Replace(t, LoginFor(0)) ELSE UNCHANGED <<at, loc>>
  /\ UNCHANGED <<user, calm>>

-----------------------------------------------------------------------------

Calm == ~calm /\ calm' = TRUE /\ UNCHANGED <<token, tabs, requests, out>>

\* What a tab does without its user, and the requests of its pages.
Work(t) ==
  \/ Load(t) \/ ServeWho(t) \/ AskOk(t) \/ AskFails(t)
  \/ PostOk(t) \/ AskAgain(t) \/ WelcomeOk(t) \/ WelcomeFails(t)

Calls(t) == Call(t) \/ ServeCall(t) \/ CallEnds(t) \/ Call401(t)

Next ==
  \/ Expire \/ Calm
  \/ \E t \in Tabs :
       \/ Work(t) \/ Submit(t) \/ PostFails(t)
       \/ Calls(t) \/ Follow(t) \/ SignOut(t) \/ SignedOut(t)
       \/ \E n \in {0, 1} : Visit(t, n)

\* Requests end, and a user who is shown the form fills it in.
Fairness == \A t \in Tabs :
  WF_vars(Work(t)) /\ WF_vars(Submit(t)) /\ WF_vars(SignedOut(t))

Spec == Init /\ [][Next]_vars /\ Fairness

-----------------------------------------------------------------------------
(* Properties *)

\* A token that is still valid is taken from the browser only by signing out,
\* or by the late 401 of a request that was sent with another one or none.
TokenKept ==
  [][token = "valid" /\ token' = "none" =>
       \E t \in Tabs : \/ SignedOut(t)
                       \/ Call401(t) /\ call[t].with # "this"]_vars

\* The login page leads back to the console, never to a login page, however
\* often a tab was sent to it.
RedirectsDoNotNest == \A t \in Tabs : loc[t] \in {0, 1}

\* A page of the console without a user is on show only until outLogin ends.
ShownSignedIn == \A t \in Tabs : at[t] = "view" /\ ~user[t] => out[t]

\* Signing out leaves the console, also when the server does not answer.
LogoutProceeds == \A t \in Tabs : at[t] = "view" /\ ~user[t] ~> at[t] # "view"

\* Once the server answers and tokens last, a tab gets into the console: what
\* was sent before, and the redirects, do not keep it on the form. (It need not
\* stay: two tabs whose late answers remove each other's tokens can go on.)
GetsIn == \A t \in Tabs : calm ~> at[t] = "view"
=============================================================================
