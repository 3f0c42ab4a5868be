----------------------------- MODULE BrowserProofs -----------------------------
(***************************************************************************)
(* Theorems about what runs in a browser, for any number of tabs, machines  *)
(* and requests under way: signing in and out, the login form and its       *)
(* widget, and the detail drawer. They are stated of the specification the   *)
(* harness has, each module proved from its own next-state relation.         *)
(***************************************************************************)
EXTENDS MCBrowser, TLAPS

\* A step of the harness is one of each module, or leaves its variables alone.
LEMMA Steps ==
  [Next]_vars => [S!Next]_(S!vars) /\ [L!Next]_(L!vars) /\ [D!Next]_(D!vars)
<1>1. Svars' = Svars => S!vars' = S!vars
  BY DEF Svars, S!vars, S!tabs, S!requests
<1>2. Lvars' = Lvars => L!vars' = L!vars
  BY DEF Lvars, L!vars, L!turnstile, L!form
<1>3. Dvars' = Dvars => D!vars' = D!vars
  BY DEF Dvars, D!vars, D!drawer
<1>. QED BY <1>1, <1>2, <1>3 DEF Next, vars

-----------------------------------------------------------------------------
(* Signing in and out: where the tabs are *)

\* A tab asks for its user, or shows the console, only at a page of the console,
\* and shows the form only at the login page of one; a console without a user
\* is signing out.
Placed(t) ==
  /\ loc[t] \in {0, 1}
  /\ at[t] \in {"ask", "view"} => loc[t] = 0
  /\ at[t] \in {"form", "post", "welcome"} => loc[t] = 1
  /\ at[t] = "view" /\ ~user[t] => out[t]

PInv ==
  /\ loc \in [Tabs -> Nat] /\ at \in [Tabs -> S!Places]
  /\ user \in [Tabs -> BOOLEAN] /\ out \in [Tabs -> BOOLEAN]
  /\ \A t \in Tabs : Placed(t)

LEMMA PInit == S!Init => PInv
BY DEF S!Init, PInv, Placed, S!Places

LEMMA PStep == PInv /\ [S!Next]_(S!vars) => PInv'
<1> SUFFICES ASSUME PInv, [S!Next]_(S!vars) PROVE PInv'
  OBVIOUS
<1> USE DEF PInv, Placed, S!Places
<1>1. CASE UNCHANGED <<at, loc, user, out>>
  BY <1>1
<1>2. ASSUME NEW t \in Tabs, NEW n \in {0, 1}, S!Href(t, n) PROVE PInv'
  BY <1>2 DEF S!Href
<1>3. ASSUME NEW t \in Tabs, S!Load(t) PROVE PInv'
  BY <1>3 DEF S!Load
<1>4. ASSUME NEW t \in Tabs, S!AskOk(t) PROVE PInv'
  BY <1>4 DEF S!AskOk
<1>5. ASSUME NEW t \in Tabs, S!AskFails(t) PROVE PInv'
  BY <1>5 DEF S!AskFails, S!Replace, S!LoginFor
<1>6. ASSUME NEW t \in Tabs, S!Submit(t) \/ S!PostOk(t) \/ S!PostFails(t) PROVE PInv'
  BY <1>6 DEF S!Submit, S!PostOk, S!PostFails
<1>7. ASSUME NEW t \in Tabs, S!WelcomeOk(t) PROVE PInv'
  BY <1>2, <1>7 DEF S!WelcomeOk, S!RedirectOf
<1>8. ASSUME NEW t \in Tabs, S!WelcomeFails(t) PROVE PInv'
  BY <1>2, <1>8 DEF S!WelcomeFails, S!RedirectOf, S!LoginFor
<1>9. ASSUME NEW t \in Tabs, S!Call401(t) PROVE PInv'
  <2>1. CASE loc[t] = 0 /\ S!Href(t, S!LoginFor(loc[t]))
    BY <1>2, <2>1 DEF S!LoginFor
  <2> QED
    BY <1>1, <1>9, <2>1 DEF S!Call401, S!tabs
<1>10. ASSUME NEW t \in Tabs, S!Follow(t) PROVE PInv'
  BY <1>10 DEF S!Follow, S!Replace, S!LoginFor
<1>11. ASSUME NEW t \in Tabs, S!SignOut(t) PROVE PInv'
  BY <1>11 DEF S!SignOut
<1>12. ASSUME NEW t \in Tabs, S!SignedOut(t) PROVE PInv'
  BY <1>12 DEF S!SignedOut, S!Replace, S!LoginFor
<1>13. ASSUME NEW t \in Tabs, NEW n \in {0, 1}, S!Visit(t, n) PROVE PInv'
  BY <1>2, <1>13 DEF S!Visit
<1>14. ASSUME S!Expire \/ S!Calm PROVE UNCHANGED <<at, loc, user, out>>
  BY <1>14 DEF S!Expire, S!Calm, S!tabs
<1>15. ASSUME NEW t \in Tabs,
              S!ServeWho(t) \/ S!AskAgain(t) \/ S!Call(t) \/ S!ServeCall(t) \/ S!CallEnds(t)
       PROVE  UNCHANGED <<at, loc, user, out>>
  BY <1>15 DEF S!ServeWho, S!AskAgain, S!Call, S!ServeCall, S!CallEnds, S!tabs
<1>16. CASE UNCHANGED S!vars
  BY <1>1, <1>16 DEF S!vars, S!tabs
<1> QED
  BY <1>1, <1>3, <1>4, <1>5, <1>6, <1>7, <1>8, <1>9, <1>10, <1>11, <1>12, <1>13,
     <1>14, <1>15, <1>16 DEF S!Next, S!Work, S!Calls

-----------------------------------------------------------------------------
(* Signing in and out: tokens *)

\* A request that was refused with the token that is stored was refused because
\* that had expired, and what was stored since is not the token of any request
\* sent before.
Honest(r) ==
  r # None /\ r.with = "this" /\ r.stage = "refused" => token # "valid"

TInv ==
  /\ call \in [Tabs -> {None} \cup S!Request]
  /\ \A t \in Tabs : Honest(call[t])

LEMMA ServedType ==
  ASSUME NEW r \in S!Request
  PROVE  S!Served(r) \in S!Request
BY DEF S!Served, S!Request, S!Withs, S!Stages

LEMMA SentType == S!Sent \in S!Request
BY DEF S!Sent, S!Request, S!Withs, S!Stages

LEMMA DetachedType ==
  ASSUME NEW r \in {None} \cup S!Request
  PROVE  /\ S!Detached(r) \in {None} \cup S!Request
         /\ ~(S!Detached(r) # None /\ S!Detached(r).with = "this")
BY DEF S!Detached, S!Request, S!Withs

LEMMA WriteStep ==
  ASSUME TInv, NEW v, NEW t \in Tabs, NEW w, S!Write(v, t, w, None) \/ S!Write(v, t, w, call[t])
  PROVE  TInv'
<1>1. PICK c \in {None, call[t]} :
        call' = [u \in Tabs |-> S!Detached(IF u = t THEN c ELSE call[u])]
  BY DEF S!Write
<1>2. \A u \in Tabs : (IF u = t THEN c ELSE call[u]) \in {None} \cup S!Request
  BY <1>1 DEF TInv
<1> QED
  BY <1>1, <1>2, DetachedType DEF TInv, Honest

LEMMA TInit == S!Init => TInv
BY DEF S!Init, TInv, Honest

LEMMA TStep == TInv /\ [S!Next]_(S!vars) => TInv'
<1> SUFFICES ASSUME TInv, [S!Next]_(S!vars) PROVE TInv'
  OBVIOUS
<1>1. CASE UNCHANGED <<token, call>>
  BY <1>1 DEF TInv, Honest
<1>2. ASSUME NEW t \in Tabs, NEW c \in {None} \cup S!Request,
             call' = [call EXCEPT ![t] = c], UNCHANGED token, Honest(c)
      PROVE  TInv'
  BY <1>2 DEF TInv, Honest
<1>3. CASE S!Expire
  <2>1. CASE token' = "expired" /\ UNCHANGED S!requests
    BY <2>1 DEF TInv, Honest, S!requests
  <2>2. CASE UNCHANGED <<token, call>>
    BY <1>1, <2>2
  <2>3. ASSUME NEW t \in Tabs, call[t] # None, call[t].with = "other",
               call' = [call EXCEPT ![t].with = "expired"], UNCHANGED <<token, who>>
        PROVE  TInv'
    <3>1. [call[t] EXCEPT !.with = "expired"] \in S!Request
      BY <2>3 DEF TInv, S!Request, S!Withs
    <3>2. call' = [call EXCEPT ![t] = [call[t] EXCEPT !.with = "expired"]]
      BY <2>3
    <3>3. [call[t] EXCEPT !.with = "expired"].with = "expired"
      BY <2>3 DEF TInv, S!Request
    <3> QED
      BY <1>2, <2>3, <3>1, <3>2, <3>3 DEF Honest
  <2> QED
    BY <1>3, <2>1, <2>2, <2>3 DEF S!Expire
<1>4. ASSUME NEW t \in Tabs, S!ServeCall(t) PROVE TInv'
  <2>1. call[t] \in S!Request
    BY <1>4 DEF S!ServeCall, TInv
  <2>2. Honest(S!Served(call[t]))
    BY <2>1 DEF Honest, S!Served, S!Request
  <2> QED
    BY <1>2, <1>4, <2>1, <2>2, ServedType DEF S!ServeCall
<1>5. ASSUME NEW t \in Tabs, S!Call(t) PROVE TInv'
  <2>1. Honest(S!Sent)
    BY DEF Honest, S!Sent
  <2> QED
    BY <1>2, <1>5, <2>1, SentType DEF S!Call
<1>6. ASSUME NEW t \in Tabs, UNCHANGED token, call' = [call EXCEPT ![t] = None] PROVE TInv'
  BY <1>2, <1>6 DEF Honest
<1>7. ASSUME NEW t \in Tabs,
             S!CallEnds(t) \/ S!WelcomeOk(t) \/ S!WelcomeFails(t)
             \/ \E n \in {0, 1} : S!Visit(t, n)
      PROVE  TInv'
  BY <1>6, <1>7 DEF S!CallEnds, S!WelcomeOk, S!WelcomeFails, S!Visit
<1>8. ASSUME NEW t \in Tabs, S!PostOk(t) \/ S!Call401(t) \/ S!SignedOut(t) PROVE TInv'
  BY <1>8, WriteStep DEF S!PostOk, S!Call401, S!SignedOut
<1>9. ASSUME NEW t \in Tabs,
             \/ S!Load(t) \/ S!ServeWho(t) \/ S!AskOk(t) \/ S!AskFails(t) \/ S!AskAgain(t)
             \/ S!Submit(t) \/ S!PostFails(t) \/ S!Follow(t) \/ S!SignOut(t)
      PROVE  UNCHANGED <<token, call>>
  BY <1>9 DEF S!Load, S!ServeWho, S!AskOk, S!AskFails, S!AskAgain, S!Submit, S!PostFails,
              S!Follow, S!SignOut, S!requests
<1>10. CASE S!Calm \/ UNCHANGED S!vars
  BY <1>1, <1>10 DEF S!Calm, S!vars, S!requests
<1> QED
  BY <1>1, <1>3, <1>4, <1>5, <1>7, <1>8, <1>9, <1>10 DEF S!Next, S!Work, S!Calls

-----------------------------------------------------------------------------
(* The requests for the user *)

WInv ==
  /\ token \in S!Tokens /\ tabCalm \in BOOLEAN
  /\ who \in [Tabs -> {None} \cup S!Request]

LEMMA WInit == S!Init => WInv
BY DEF S!Init, WInv

LEMMA WStep == WInv /\ [S!Next]_(S!vars) => WInv'
<1>. SUFFICES ASSUME WInv, [S!Next]_(S!vars) PROVE WInv'
  OBVIOUS
<1>1. CASE UNCHANGED <<token, tabCalm, who>>
  BY <1>1 DEF WInv
<1>2. ASSUME NEW t \in Tabs, NEW r \in {None} \cup S!Request,
             who' = [who EXCEPT ![t] = r], UNCHANGED <<token, tabCalm>>
      PROVE  WInv'
  BY <1>2 DEF WInv
<1>3. ASSUME NEW v \in S!Tokens, NEW t \in Tabs, NEW w \in {None, who[t]}, NEW c,
             S!Write(v, t, w, c), UNCHANGED tabCalm
      PROVE  WInv'
  <2>1. \A u \in Tabs : (IF u = t THEN w ELSE who[u]) \in {None} \cup S!Request
    BY <1>3 DEF WInv
  <2>. QED BY <1>3, <2>1, DetachedType DEF S!Write, WInv
<1>4. CASE S!Expire
  <2>1. ASSUME NEW t \in Tabs, who[t] # None, who' = [who EXCEPT ![t].with = "expired"],
               UNCHANGED <<token, tabCalm>>
        PROVE  WInv'
    <3>1. [who[t] EXCEPT !.with = "expired"] \in S!Request
      BY <2>1 DEF WInv, S!Request, S!Withs
    <3>2. who' = [who EXCEPT ![t] = [who[t] EXCEPT !.with = "expired"]]
      BY <2>1
    <3>. QED BY <1>2, <2>1, <3>1, <3>2
  <2>2. CASE token' = "expired" /\ UNCHANGED <<S!requests, tabCalm>>
    BY <2>2 DEF WInv, S!requests, S!Tokens
  <2>. QED BY <1>1, <1>4, <2>1, <2>2 DEF S!Expire
<1>5. CASE S!Calm
  BY <1>5 DEF S!Calm, WInv, S!requests
<1>6. ASSUME NEW t \in Tabs, S!ServeWho(t) PROVE WInv'
  <2>1. who[t] \in S!Request
    BY <1>6 DEF S!ServeWho, WInv
  <2>. QED BY <1>2, <1>6, <2>1, ServedType DEF S!ServeWho
<1>7. ASSUME NEW t \in Tabs,
             \/ S!Load(t) \/ S!AskOk(t) \/ S!AskFails(t) \/ S!AskAgain(t)
             \/ S!WelcomeOk(t) \/ S!WelcomeFails(t) \/ \E n \in {0, 1} : S!Visit(t, n)
      PROVE  WInv'
  <2>1. \E r \in {None} \cup S!Request : who' = [who EXCEPT ![t] = r]
    BY <1>7, SentType DEF S!Load, S!AskOk, S!AskFails, S!AskAgain,
                          S!WelcomeOk, S!WelcomeFails, S!Visit
  <2>2. UNCHANGED <<token, tabCalm>>
    BY <1>7 DEF S!Load, S!AskOk, S!AskFails, S!AskAgain, S!WelcomeOk, S!WelcomeFails, S!Visit
  <2>. QED BY <1>2, <2>1, <2>2
<1>8. ASSUME NEW t \in Tabs, S!PostOk(t) \/ S!Call401(t) \/ S!SignedOut(t) PROVE WInv'
  BY <1>3, <1>8 DEF S!PostOk, S!Call401, S!SignedOut, S!Tokens
<1>9. ASSUME NEW t \in Tabs,
             \/ S!Submit(t) \/ S!PostFails(t) \/ S!Follow(t) \/ S!SignOut(t)
             \/ S!Call(t) \/ S!ServeCall(t) \/ S!CallEnds(t)
      PROVE  UNCHANGED <<token, tabCalm, who>>
  BY <1>9 DEF S!Submit, S!PostFails, S!Follow, S!SignOut, S!Call, S!ServeCall,
              S!CallEnds, S!requests
<1>10. CASE UNCHANGED S!vars
  BY <1>1, <1>10 DEF S!vars, S!requests
<1>. QED
  BY <1>1, <1>4, <1>5, <1>6, <1>7, <1>8, <1>9, <1>10 DEF S!Next, S!Work, S!Calls

-----------------------------------------------------------------------------
(* The login form *)

\* A page that is not there has nothing; one that waits for its configuration
\* has no sitekey; the onload is hooked for a page that waits for the script;
\* and a token that has been used up is being answered for, unless that was lost.
LInv ==
  /\ L!TypeOK
  /\ ~page => L!Blank
  /\ config => page /\ sitekey = None
  /\ sitekey = None => widget = "none" /\ ~timer /\ ~hooked
  /\ hooked => script = "loading" /\ page /\ widget = "none" /\ ~timer
  /\ L!TimerGoesWithPage
  /\ L!WidgetOnItsWay
  /\ cf = "spent" => post # None \/ lost

LEMMA NotNone ==
  /\ None \notin {"real", "test"} /\ None \notin {"fresh", "spent"}
  /\ \A p \in L!Post : p # None
BY AbsenceAssumption DEF L!Sitekeys, L!Tokens

\* A request with one field set is a request.
LEMMA PostFields ==
  ASSUME NEW p \in L!Post
  PROVE  /\ [p EXCEPT !.same = FALSE] \in L!Post
         /\ \A x \in {"sent", "human", "robot", "ok", "account", "turnstile"} :
              [p EXCEPT !.stage = x] \in L!Post
BY DEF L!Post

LEMMA LInit == L!Init => LInv
BY NotNone DEF L!Init, L!Blank, LInv, L!TypeOK, L!TimerGoesWithPage, L!WidgetOnItsWay

\* A page that is gone leaves its script and nothing else.
LEMMA GoneStep ==
  ASSUME LInv, L!Gone, script' \in {script, "absent"}, left' \in {None, "right", "wrong"},
         UNCHANGED <<secret, lost, formCalm>>
  PROVE  LInv'
BY NotNone DEF LInv, L!Gone, L!Blank, L!TypeOK, L!TimerGoesWithPage, L!WidgetOnItsWay

\* Turnstile's effect: the three ways it finds the script.
LEMMA ConfiguredStep == ASSUME LInv, L!Configured PROVE LInv'
<1>1. /\ page /\ sitekey = None /\ widget = "none" /\ L!TypeOK
      /\ cf = "spent" => post # None \/ lost
  BY DEF L!Configured, LInv, L!Blank, L!TypeOK
<1>2. PICK key \in {"real", "test"} : L!Start(key)
  BY DEF L!Configured
<1>3. key # None /\ key \in L!Sitekeys
  BY <1>2, NotNone DEF L!Sitekeys
<1>4. /\ config' = FALSE /\ sitekey' = key
      /\ UNCHANGED <<secret, page, cf, post, left, lost, formCalm>>
  BY <1>2 DEF L!Configured, L!Start
<1>. DEFINE Rendered ==
       /\ script' \in {"loading", "loaded", "failed"} /\ widget' \in {"none", "open"}
       /\ hooked' \in BOOLEAN /\ timer' \in BOOLEAN /\ (hooked' => ~timer')
       /\ widget' = "open" => script' = "loaded" /\ ~timer' /\ ~hooked'
       /\ hooked' => script' = "loading"
       /\ widget' = "none" => hooked' \/ timer' \/ script' = "failed"
<1>5. Rendered => LInv'
  BY <1>1, <1>3, <1>4
     DEF LInv, L!TypeOK, L!Blank, L!TimerGoesWithPage, L!WidgetOnItsWay
<1>6. /\ hooked' \in BOOLEAN /\ (hooked' <=> script = "absent")
      /\ timer' \in BOOLEAN /\ (timer' <=> script \in {"loading", "failed"})
  <2>1. hooked' = (script = "absent") /\ timer' = (script \in {"loading", "failed"})
    BY <1>2 DEF L!Start
  <2>2. hooked' \in BOOLEAN /\ timer' \in BOOLEAN
    BY <2>1
  <2>3. hooked' <=> script = "absent"
    BY <2>1, <2>2
  <2>4. timer' <=> script \in {"loading", "failed"}
    BY <2>1, <2>2
  <2>. QED BY <2>2, <2>3, <2>4
<1>7. /\ widget' = (IF script = "loaded" THEN "open" ELSE "none")
      /\ script' = (IF script = "absent" THEN "loading" ELSE script)
  BY <1>2 DEF L!Start
<1>8. Rendered
  BY <1>1, <1>6, <1>7 DEF L!TypeOK
<1>. QED BY <1>5, <1>8

\* The onload renders for the page that attached it, if that is there still.
LEMMA ScriptLoadsStep == ASSUME LInv, L!ScriptLoads PROVE LInv'
<1>1. /\ script' = "loaded" /\ hooked' = FALSE /\ script = "loading" /\ widget = "none"
      /\ widget' = IF hooked THEN "open" ELSE "none"
      /\ UNCHANGED <<secret, timer, page, config, sitekey, cf, post, left, lost, formCalm>>
  BY DEF L!ScriptLoads, L!form, LInv, L!TypeOK
<1>2. CASE hooked
  <2>1. widget' = "open" /\ page /\ sitekey # None /\ ~config
    BY <1>1, <1>2 DEF LInv
  <2>2. ~timer
    BY <1>2 DEF LInv
  <2>. QED BY <1>1, <2>1, <2>2, NotNone
       DEF LInv, L!TypeOK, L!Blank, L!TimerGoesWithPage, L!WidgetOnItsWay
<1>3. CASE ~hooked
  BY <1>1, <1>3, NotNone
     DEF LInv, L!TypeOK, L!Blank, L!TimerGoesWithPage, L!WidgetOnItsWay
<1>. QED BY <1>2, <1>3

LEMMA LStep == LInv /\ [L!Next]_(L!vars) => LInv'
<1>. SUFFICES ASSUME LInv, [L!Next]_(L!vars) PROVE LInv'
  OBVIOUS
<1>. USE NotNone DEF LInv, L!TypeOK, L!Blank, L!TimerGoesWithPage, L!WidgetOnItsWay,
                     L!Sitekeys, L!Tokens
<1>1. CASE L!Mount
  BY <1>1 DEF L!Mount, L!turnstile
<1>2. CASE L!Leave
  BY <1>2, GoneStep DEF L!Leave, L!Leaving
<1>3. CASE L!Reload
  BY <1>3, GoneStep DEF L!Reload
<1>4. CASE L!SignedIn
  BY <1>4, GoneStep DEF L!SignedIn
<1>5. CASE L!Configured
  BY <1>5, ConfiguredStep
<1>6. CASE L!ScriptLoads
  BY <1>6, ScriptLoadsStep
<1>7. CASE L!ScriptFails
  BY <1>7 DEF L!ScriptFails, L!form
<1>8. CASE L!Tick
  BY <1>8 DEF L!Tick, L!form
<1>9. CASE L!Solved
  BY <1>9, PostFields DEF L!Solved, L!Apart
<1>10. CASE L!RunsOut
  BY <1>10, PostFields DEF L!RunsOut, L!Apart
<1>11. CASE L!Submit
  <2>1. PICK right \in BOOLEAN :
          post' = [cf |-> cf, same |-> TRUE, right |-> right, stage |-> "sent"]
    BY <1>11 DEF L!Submit
  <2>2. post' \in L!Post
    BY <2>1 DEF L!Post
  <2>. HIDE DEF L!Tokens
  <2>. QED BY <1>11, <2>2 DEF L!Submit, L!turnstile
<1>12. CASE L!Verify
  <2>1. post \in L!Post /\ post' \in L!Post
    BY <1>12, PostFields DEF L!Verify, L!At
  <2>2. cf' \in {"spent", cf}
    BY <1>12 DEF L!Verify, L!Spent
  <2>3. post # None /\ UNCHANGED <<secret, L!turnstile, page, config, sitekey, left, lost, formCalm>>
    BY <1>12 DEF L!Verify, L!At
  <2>. QED BY <2>1, <2>2, <2>3 DEF L!turnstile
<1>13. CASE L!Decide
  <2>1. post \in L!Post /\ post' \in L!Post
    BY <1>13, PostFields DEF L!Decide, L!At
  <2>. QED BY <1>13, <2>1 DEF L!Decide, L!At, L!turnstile
<1>14. CASE L!Refused
  BY <1>14 DEF L!Refused, L!Reset
<1>15. CASE L!Failed
  BY <1>15 DEF L!Failed, L!turnstile
<1>16. CASE L!LeftAnswered
  <2>1. CASE L!Gone /\ script' = "absent"
    BY <1>16, <2>1, GoneStep DEF L!LeftAnswered
  <2>2. CASE L!Reset /\ UNCHANGED <<script, hooked, timer, L!form>>
    BY <1>16, <2>2 DEF L!LeftAnswered, L!Reset, L!form
  <2>3. CASE UNCHANGED <<L!turnstile, L!form>>
    BY <1>16, <2>3 DEF L!LeftAnswered, L!turnstile, L!form
  <2>. QED BY <1>16, <2>1, <2>2, <2>3 DEF L!LeftAnswered
<1>17. CASE L!Calm
  BY <1>17 DEF L!Calm, L!turnstile, L!form
<1>18. CASE UNCHANGED L!vars
  BY <1>18 DEF L!vars, L!turnstile, L!form
<1>. QED
  BY <1>1, <1>2, <1>3, <1>4, <1>5, <1>6, <1>7, <1>8, <1>9, <1>10, <1>11, <1>12, <1>13,
     <1>14, <1>15, <1>16, <1>17, <1>18 DEF L!Next, L!Works

-----------------------------------------------------------------------------
(* The detail drawer *)

\* While nothing is in doubt, what is under way is for the machine that is shown.
DInv ==
  /\ D!TypeOK
  /\ D!HistoryOfSelected
  /\ D!SpinnerForARequest
  /\ ~doubt /\ selected # None => \A s \in D!Busy : fetches[s].of = selected

LEMMA FetchesAreNotNone == None \notin Machines /\ \A f \in D!Fetch : f # None
BY AbsenceAssumption

LEMMA DInit == D!Init => DInv
BY DEF D!Init, DInv, D!TypeOK, D!HistoryOfSelected, D!SpinnerForARequest, D!Busy

LEMMA DStep == DInv /\ [D!Next]_(D!vars) => DInv'
<1>. SUFFICES ASSUME DInv, [D!Next]_(D!vars) PROVE DInv'
  OBVIOUS
<1>. USE FetchesAreNotNone
     DEF DInv, D!TypeOK, D!HistoryOfSelected, D!SpinnerForARequest, D!Busy
<1>1. CASE D!ListChanges \/ D!KnownChanges
  BY <1>1 DEF D!ListChanges, D!KnownChanges, D!drawer
<1>2. CASE D!Close
  BY <1>2 DEF D!Close
<1>3. CASE D!Leave
  BY <1>3 DEF D!Leave
<1>4. ASSUME NEW m \in Machines, D!OpenDetail(m) PROVE DInv'
  <2>. DEFINE f == [of |-> m, points |-> "asked"]
  <2>1. PICK s \in D!Slots : fetches[s] = None /\ fetches' = [fetches EXCEPT ![s] = f]
    BY <1>4 DEF D!OpenDetail
  <2>2. f \in D!Fetch /\ f.of = m
    BY DEF D!Fetch
  <2>. HIDE DEF f
  <2>3. /\ fetches' \in [D!Slots -> D!Fetch \cup {None}]
        /\ fetches'[s] = f /\ \A r \in D!Slots \ {s} : fetches'[r] = fetches[r]
    BY <2>1, <2>2
  <2>. QED BY <1>4, <2>1, <2>2, <2>3 DEF D!OpenDetail
<1>5. ASSUME NEW s \in D!Slots, D!GetMetrics(s) PROVE DInv'
  <2>1. PICK p \in {"some", "none"} : fetches' = [fetches EXCEPT ![s].points = p]
    BY <1>5 DEF D!GetMetrics
  <2>2. fetches[s] \in D!Fetch
    BY <1>5 DEF D!GetMetrics
  <2>3. [fetches[s] EXCEPT !.points = p] \in D!Fetch /\ [fetches[s] EXCEPT !.points = p].of = fetches[s].of
    BY <2>2 DEF D!Fetch
  <2>4. /\ fetches' \in [D!Slots -> D!Fetch \cup {None}]
        /\ fetches'[s] # None /\ fetches'[s].of = fetches[s].of
        /\ \A r \in D!Slots \ {s} : fetches'[r] = fetches[r]
    BY <2>1, <2>2, <2>3
  <2>. QED BY <1>5, <2>2, <2>4 DEF D!GetMetrics, D!drawer
<1>6. ASSUME NEW s \in D!Slots, D!Arrives(s) PROVE DInv'
  <2>1. /\ fetches[s] \in D!Fetch /\ fetches[s].of \in Machines
        /\ history' \in {fetches[s].of, None}
    BY <1>6 DEF D!Arrives, D!Fetch
  <2>2. CASE doubt'
    BY <1>6, <2>1, <2>2 DEF D!Arrives
  <2>3. CASE ~doubt'
    <3>1. selected # None => fetches[s].of = selected
      BY <1>6, <2>3 DEF D!Arrives
    <3>2. selected # None => \A r \in D!Busy \ {s} : fetches[r].of = selected
      BY <1>6, <2>3 DEF D!Arrives
    <3>. QED BY <1>6, <2>1, <2>3, <3>1, <3>2 DEF D!Arrives
  <2>. QED BY <2>2, <2>3
<1>7. ASSUME NEW s \in D!Slots, D!Fails(s) PROVE DInv'
  BY <1>7 DEF D!Fails
<1>8. CASE UNCHANGED D!vars
  BY <1>8 DEF D!vars, D!drawer
<1>. QED BY <1>1, <1>2, <1>3, <1>4, <1>5, <1>6, <1>7, <1>8 DEF D!Next, D!Ends

-----------------------------------------------------------------------------
(* The theorems *)

IInv == PInv /\ TInv /\ WInv /\ LInv /\ DInv

LEMMA InitInv == Init => IInv
BY PInit, TInit, WInit, LInit, DInit DEF Init, IInv

LEMMA StepInv == IInv /\ [Next]_vars => IInv'
BY Steps, PStep, TStep, WStep, LStep, DStep DEF IInv

LEMMA Invariance == Spec => []IInv
BY InitInv, StepInv, PTL DEF Spec

\* Every variable of the three modules keeps its type, and a widget or a login
\* request belongs to a page that is there.
THEOREM TypeCorrect == Spec => []TypeOK
<1>1. IInv => TypeOK
  BY DEF IInv, PInv, TInv, WInv, LInv, DInv, TypeOK, S!TypeOK
<1>. QED BY <1>1, Invariance, PTL

\* However often tabs are sent to the login page, by the 401 of a request, by
\* AvatarDropdown or by onPageChange, its redirect leads to the console.
THEOREM RedirectsStayFlat == Spec => []RedirectsDoNotNest
<1>1. IInv => RedirectsDoNotNest
  BY DEF IInv, PInv, Placed, RedirectsDoNotNest, S!RedirectsDoNotNest
<1>. QED BY <1>1, Invariance, PTL

\* A console without a user is on show only until outLogin ends; the drawer shows
\* no machine's name over another's history, unless requests overlapped or
\* failed, however many are under way; and its spinner turns for one of them.
THEOREM ShownIsThere == Spec => []ShowsWhatIsThere
<1>1. IInv => ShowsWhatIsThere
  BY DEF IInv, PInv, Placed, DInv, ShowsWhatIsThere, S!ShownSignedIn
<1>. QED BY <1>1, Invariance, PTL

\* A valid token goes from the browser only by signing out in some tab or by a
\* late 401 to a request that was sent with another token or none: never by the
\* answer to a request that carried it.
THEOREM ValidTokenKept == Spec => TokenKept
<1> DEFINE Kept ==
      token = "valid" /\ token' = "none" =>
        \E t \in Tabs : \/ S!SignedOut(t)
                        \/ S!Call401(t) /\ call[t].with # "this"
<1>1. TInv /\ [S!Next]_(S!vars) => [Kept]_(S!vars)
  <2> SUFFICES ASSUME TInv, S!Next, token = "valid", token' = "none" PROVE Kept
    OBVIOUS
  <2>1. ASSUME NEW t \in Tabs, S!Call401(t) PROVE call[t].with # "this"
    BY <2>1 DEF TInv, Honest, S!Call401
  <2>2. ASSUME NEW t \in Tabs, S!PostOk(t) PROVE FALSE
    BY <2>2 DEF S!PostOk, S!Write
  <2>3. ASSUME NEW t \in Tabs,
               \/ S!Load(t) \/ S!ServeWho(t) \/ S!AskOk(t) \/ S!AskFails(t) \/ S!AskAgain(t)
               \/ S!WelcomeOk(t) \/ S!WelcomeFails(t)
               \/ S!Submit(t) \/ S!PostFails(t) \/ S!Follow(t) \/ S!SignOut(t)
               \/ S!Call(t) \/ S!ServeCall(t) \/ S!CallEnds(t)
               \/ \E n \in {0, 1} : S!Visit(t, n)
        PROVE  FALSE
    BY <2>3 DEF S!Load, S!ServeWho, S!AskOk, S!AskFails, S!AskAgain, S!WelcomeOk, S!WelcomeFails,
                S!Submit, S!PostFails, S!Follow, S!SignOut, S!Call, S!ServeCall, S!CallEnds, S!Visit
  <2>4. ~(S!Expire \/ S!Calm)
    BY DEF S!Expire, S!Calm
  <2> QED
    BY <2>1, <2>2, <2>3, <2>4 DEF S!Next, S!Work, S!Calls
<1> QED
  BY <1>1, Steps, Invariance, PTL DEF Spec, IInv, TokenKept, S!TokenKept

\* The page that waits for the widget is told by the onload it attached or by its
\* interval, the page that was left runs none, and a token that has been verified
\* is sent again only when the answer to its request was lost.
THEOREM WidgetUsed == Spec => WidgetIsUsed
<1>1. IInv => L!TimerGoesWithPage /\ L!WidgetOnItsWay
  BY DEF IInv, LInv
<1>2. IInv /\ [Next]_vars =>
        [post = None /\ post' # None /\ post'.cf = "spent" => lost]_(L!vars)
  <2>. SUFFICES ASSUME LInv, L!Next, post = None, post' # None, post'.cf = "spent" PROVE lost
    BY Steps DEF IInv
  <2>1. ~(L!Mount \/ L!Leave \/ L!Reload \/ L!SignedIn \/ L!Configured \/ L!ScriptLoads
          \/ L!ScriptFails \/ L!Tick \/ L!Solved \/ L!RunsOut \/ L!Verify \/ L!Decide
          \/ L!Refused \/ L!Failed \/ L!LeftAnswered \/ L!Calm)
    BY DEF L!Mount, L!Leave, L!Reload, L!SignedIn, L!Configured, L!ScriptLoads,
           L!ScriptFails, L!Tick, L!Solved, L!RunsOut, L!Verify, L!Decide, L!Refused,
           L!Failed, L!LeftAnswered, L!Calm, L!Gone, L!Apart, L!At, L!form
  <2>2. L!Submit
    BY <2>1 DEF L!Next, L!Works
  <2>3. post'.cf = cf
    BY <2>2 DEF L!Submit
  <2>. QED BY <2>3 DEF LInv
<1>. QED BY <1>1, <1>2, Invariance, PTL DEF Spec, WidgetIsUsed, L!UsedOnce
=============================================================================
