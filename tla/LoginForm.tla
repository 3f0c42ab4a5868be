------------------------------ MODULE LoginForm ------------------------------
(***************************************************************************)
(* The login form and its Turnstile widget: pages/user/login/index.tsx with *)
(* the login endpoint behind it. The widget's script is put into the        *)
(* document once and outlives the page; a page renders the widget when the  *)
(* script it asked for arrives, or polls for one asked for before. A token  *)
(* of the widget can be verified once.                                      *)
(***************************************************************************)
CONSTANTS
  None      \* no sitekey yet, no token, no request

Sitekeys == {"real", "test"}
Tokens == {"fresh", "spent"}

VARIABLES
  secret,    \* whether the server has a Turnstile secret and sitekey
  script,    \* cf-turnstile-script in the document
  hooked,    \* the script's onload is the render function of this page
  page,      \* whether the login page is mounted
  config,    \* its request for the public configuration is under way
  sitekey,   \* its sitekey state
  widget,    \* its widget: not rendered, with an open challenge, solved
  timer,     \* its interval is running
  cf,        \* its cfToken state
  post,      \* its login request under way: the token in it, how far it is
  left,      \* the same of a page that was left meanwhile; bound: one
  lost,      \* history: an answer was lost since the token was given
  calm       \* nothing fails and nobody leaves

turnstile == <<script, hooked, widget, timer>>
form == <<page, config, sitekey, cf, post>>
vars == <<secret, turnstile, form, left, lost, calm>>

\* "same": the token in the request is the one in cfToken.
Post == [cf : Tokens \cup {None}, same : BOOLEAN, right : BOOLEAN,
         stage : {"sent", "human", "robot", "ok", "account", "turnstile"}]

TypeOK ==
  /\ secret \in BOOLEAN /\ script \in {"absent", "loading", "loaded", "failed"}
  /\ hooked \in BOOLEAN /\ page \in BOOLEAN /\ config \in BOOLEAN
  /\ sitekey \in Sitekeys \cup {None} /\ timer \in BOOLEAN
  /\ widget \in {"none", "open", "solved"}
  /\ cf \in Tokens \cup {None} /\ post \in Post \cup {None} /\ left \in {None, "right", "wrong"}
  /\ lost \in BOOLEAN /\ calm \in BOOLEAN
  /\ (post # None => page) /\ (widget # "none" => page /\ script = "loaded")

Blank == page = FALSE /\ config = FALSE /\ sitekey = None /\ widget = "none"
         /\ timer = FALSE /\ cf = None /\ post = None /\ hooked = FALSE

Init ==
  /\ secret \in BOOLEAN /\ Blank
  /\ script = "absent" /\ left = None /\ lost = FALSE /\ calm = FALSE

-----------------------------------------------------------------------------
(* The page and its script *)

\* The effect of Login: ask for the public configuration.
Mount ==
  /\ ~page /\ page' = TRUE /\ config' = TRUE
  /\ UNCHANGED <<secret, turnstile, sitekey, cf, post, left, lost, calm>>

\* What is left of a page: its script, nothing that runs.
Gone == page' = FALSE /\ config' = FALSE /\ sitekey' = None /\ widget' = "none"
        /\ timer' = FALSE /\ cf' = None /\ post' = None /\ hooked' = FALSE

\* A request of a page that is left goes on.
Leaving == left' = IF post = None THEN left ELSE IF post.right THEN "right" ELSE "wrong"

\* Variant: the effect has no clean-up.
Leave_Running ==
  /\ page /\ ~calm
  /\ page' = FALSE /\ config' = FALSE /\ sitekey' = None /\ widget' = "none"
  /\ cf' = None /\ post' = None /\ hooked' = FALSE
  /\ Leaving
  /\ UNCHANGED <<secret, script, timer, lost, calm>>

\* Another page of the console, and perhaps back.
Leave == page /\ ~calm /\ Gone /\ Leaving /\ UNCHANGED <<secret, script, lost, calm>>

\* A new document.
Reload ==
  ~calm /\ Gone /\ script' = "absent" /\ left' = None /\ UNCHANGED <<secret, lost, calm>>

\* Variant: a page that finds the script element waits for its onload.
Start_NoTimer(key) ==
  /\ sitekey' = key
  /\ widget' = IF script = "loaded" THEN "open" ELSE "none"
  /\ hooked' = (script = "absent")
  /\ script' = IF script = "absent" THEN "loading" ELSE script
  /\ UNCHANGED timer

\* Variant: render without a look at window.turnstile.
Start_Eager(key) ==
  /\ sitekey' = key /\ widget' = "open"
  /\ script' = IF script = "absent" THEN "loading" ELSE script
  /\ UNCHANGED <<hooked, timer>>

\* The sitekey is set and Turnstile's effect runs: render at once, or put the
\* script into the document, or wait for the one that is there.
Start(key) ==
  /\ sitekey' = key
  /\ widget' = IF script = "loaded" THEN "open" ELSE "none"
  /\ hooked' = (script = "absent")
  /\ timer' = (script \in {"loading", "failed"})
  /\ script' = IF script = "absent" THEN "loading" ELSE script

\* An answer without a sitekey and no answer both give the test sitekey.
Configured ==
  /\ config /\ config' = FALSE
  /\ \/ Start(IF secret THEN "real" ELSE "test")
     \/ ~calm /\ Start("test")
  /\ UNCHANGED <<secret, page, cf, post, left, lost, calm>>

\* Variant: onload only makes the script known.
ScriptLoads_Only ==
  /\ script = "loading" /\ script' = "loaded" /\ hooked' = FALSE
  /\ UNCHANGED <<secret, widget, timer, form, left, lost, calm>>

\* onload renders, unless its page is gone.
ScriptLoads ==
  /\ script = "loading" /\ script' = "loaded"
  /\ widget' = (IF hooked THEN "open" ELSE widget) /\ hooked' = FALSE
  /\ UNCHANGED <<secret, timer, form, left, lost, calm>>

\* There is no onerror: the element stays and nothing asks for it again.
ScriptFails ==
  /\ ~calm /\ script = "loading" /\ script' = "failed" /\ hooked' = FALSE
  /\ UNCHANGED <<secret, widget, timer, form, left, lost, calm>>

Tick ==
  /\ timer /\ script = "loaded"
  /\ timer' = FALSE /\ widget' = "open"
  /\ UNCHANGED <<secret, script, hooked, form, left, lost, calm>>

-----------------------------------------------------------------------------
(* The widget's callbacks and the form *)

\* The request has another token than the form from now on.
Apart == post' = IF post = None THEN None ELSE [post EXCEPT !.same = FALSE]

\* callback: the user passes, again after a reset or when a token ran out.
Solved ==
  /\ widget = "open" /\ widget' = "solved"
  /\ cf' = "fresh" /\ lost' = FALSE /\ Apart
  /\ UNCHANGED <<secret, script, hooked, timer, page, config, sitekey, left, calm>>

\* expired-callback, error-callback
RunsOut ==
  /\ ~calm /\ widget = "solved" /\ widget' = "open"
  /\ cf' = None /\ Apart
  /\ UNCHANGED <<secret, script, hooked, timer, page, config, sitekey, left, lost, calm>>

\* onFinish; the form refuses a second one while it waits.
Submit ==
  /\ page /\ post = None /\ (calm => cf # None)
  /\ \E right \in BOOLEAN :
       /\ calm => right
       /\ post' = [cf |-> cf, same |-> TRUE, right |-> right, stage |-> "sent"]
  /\ UNCHANGED <<secret, turnstile, page, config, sitekey, cf, left, lost, calm>>

At(stage) == post # None /\ post.stage = stage

Spent == IF post.same /\ cf = "fresh" THEN "spent" ELSE cf

\* _verify_turnstile: verifying uses the token up. A token of the test sitekey
\* is not one for the secret; anything that goes wrong counts as a refusal.
Verify ==
  /\ At("sent")
  /\ \/ ~secret /\ post' = [post EXCEPT !.stage = "human"] /\ UNCHANGED cf
     \/ /\ secret
        /\ \/ /\ sitekey = "real" /\ post.cf = "fresh"
              /\ post' = [post EXCEPT !.stage = "human"]
           \/ /\ ~(sitekey = "real" /\ post.cf = "fresh") \/ ~calm
              /\ post' = [post EXCEPT !.stage = "robot"]
        /\ cf' \in {Spent} \cup (IF calm THEN {} ELSE {cf})
  /\ UNCHANGED <<secret, turnstile, page, config, sitekey, left, lost, calm>>

\* login
Decide ==
  /\ \/ At("human")
        /\ post' = [post EXCEPT !.stage = IF post.right THEN "ok" ELSE "account"]
     \/ At("robot") /\ post' = [post EXCEPT !.stage = "turnstile"]
  /\ UNCHANGED <<secret, turnstile, page, config, sitekey, cf, left, lost, calm>>

\* window.turnstile?.reset()
Reset == widget' = IF widget = "solved" THEN "open" ELSE widget

\* Variant: a refused token is kept.
Refused_Kept ==
  /\ At("turnstile") \/ At("account")
  /\ post' = None
  /\ UNCHANGED <<secret, turnstile, page, config, sitekey, cf, left, lost, calm>>

\* handleSubmit after a refusal: the widget is reset and its token forgotten.
Refused ==
  /\ At("turnstile") \/ At("account")
  /\ post' = None /\ cf' = None /\ Reset
  /\ UNCHANGED <<secret, script, hooked, timer, page, config, sitekey, left, lost, calm>>

\* handleSubmit's catch: the token stays, used or not.
Failed ==
  /\ post # None /\ ~calm
  /\ post' = None /\ lost' = TRUE
  /\ UNCHANGED <<secret, turnstile, page, config, sitekey, cf, left, calm>>

\* The document is replaced by the one behind the redirect.
SignedIn ==
  /\ At("ok")
  /\ Gone /\ script' = "absent" /\ left' = None /\ UNCHANGED <<secret, lost, calm>>

\* The same for the page that was left: it signs in, or resets the widget of the
\* page that is there now, whose token it cannot forget, or its request failed.
LeftAnswered ==
  /\ left # None /\ left' = None
  /\ \/ left = "right" /\ Gone /\ script' = "absent"
     \/ Reset /\ UNCHANGED <<script, hooked, timer, form>>
     \/ UNCHANGED <<turnstile, form>>
  /\ UNCHANGED <<secret, lost, calm>>

Calm == ~calm /\ calm' = TRUE /\ UNCHANGED <<secret, turnstile, form, left, lost>>

Works == \/ Configured \/ ScriptLoads \/ Tick \/ Solved \/ Verify \/ Decide
         \/ Refused \/ SignedIn \/ LeftAnswered

Next == Works \/ Mount \/ Leave \/ Reload \/ ScriptFails \/ RunsOut \/ Submit
        \/ Failed \/ Calm

\* Requests and scripts end, intervals fire; the user passes and submits.
Fairness ==
  /\ WF_vars(Configured) /\ WF_vars(ScriptLoads) /\ WF_vars(Tick) /\ WF_vars(Solved)
  /\ WF_vars(Verify \/ Decide \/ Refused \/ SignedIn) /\ WF_vars(Submit)

Spec == Init /\ [][Next]_vars /\ Fairness

-----------------------------------------------------------------------------
(* Properties *)

\* An interval runs only for a page that is there and waits for the widget, so
\* that leaving and coming back never leaves two of them behind.
TimerGoesWithPage == timer => page /\ sitekey # None /\ widget = "none"

\* A page that is waiting for the widget is going to be told: by the onload it
\* attached, or by its interval when an earlier page attached it.
WidgetOnItsWay == page /\ sitekey # None /\ widget = "none" => hooked \/ timer \/ script = "failed"

\* A token that has been verified is sent again only when the answer to the
\* first request was lost.
UsedOnce == [][post = None /\ post' # None /\ post'.cf = "spent" => lost]_vars

\* A user with the right password gets in, whatever was refused, ran out or was
\* lost before, and however often the page was left: unless the script had
\* failed, or the test sitekey was taken for the server's.
LetIn ==
  page /\ calm /\ script # "failed" /\ (sitekey = "test" => ~secret)
  ~> At("ok") \/ ~page
=============================================================================
