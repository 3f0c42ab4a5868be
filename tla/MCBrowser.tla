------------------------------ MODULE MCBrowser ------------------------------
(***************************************************************************)
(* What a browser waits for: signing in and out in several tabs, the login  *)
(* form with its widget, the detail drawer. The modules share no state; each *)
(* is checked from its own initial states by its own next-state relation    *)
(* under its own fairness, one of them in a behaviour.                      *)
(***************************************************************************)
EXTENDS Naturals

CONSTANTS
  None,
  Tabs, Callers,  \* Session
  Machines, MaxFetches  \* DetailDrawer

VARIABLES
  focus,  \* the module under study
  token, at, loc, user, who, call, out, tabCalm,
  secret, script, hooked, page, config, sitekey, widget, timer, cf, post,
  left, lost, formCalm,
  known, cards, selected, history, loading, fetches, doubt

S == INSTANCE Session WITH
  calm <- tabCalm
L == INSTANCE LoginForm WITH
  calm <- formCalm
D == INSTANCE DetailDrawer

\* What stands for an absence is none of the values it is the absence of.
ASSUME AbsenceAssumption ==
  /\ None \notin L!Sitekeys \cup L!Tokens \cup L!Post
  /\ None \notin Machines \cup D!Fetch
  /\ MaxFetches \in Nat

Svars == <<token, at, loc, user, who, call, out, tabCalm>>
Lvars == <<secret, script, hooked, page, config, sitekey, widget, timer, cf,
           post, left, lost, formCalm>>
Dvars == <<known, cards, selected, history, loading, fetches, doubt>>
vars == <<focus, Svars, Lvars, Dvars>>

-----------------------------------------------------------------------------

Init ==
  /\ focus \in {"session", "login", "drawer"}
  /\ S!Init /\ (focus # "session" => token = "none" /\ loc = [t \in Tabs |-> 1])
  /\ L!Init /\ (focus # "login" => ~secret)
  /\ D!Init

Next ==
  /\ UNCHANGED focus
  /\ \/ /\ focus = "session" /\ S!Next
        /\ UNCHANGED <<Lvars, Dvars>>
     \/ /\ focus = "login" /\ L!Next
        /\ UNCHANGED <<Svars, Dvars>>
     \/ /\ focus = "drawer" /\ D!Next
        /\ UNCHANGED <<Svars, Lvars>>

\* The fairness each module states, for the one under study.
Fairness ==
  /\ \A t \in Tabs : /\ WF_Svars(focus = "session" /\ S!Work(t))
                     /\ WF_Svars(focus = "session" /\ S!Submit(t))
                     /\ WF_Svars(focus = "session" /\ S!SignedOut(t))
  /\ WF_Lvars(focus = "login" /\ L!Configured) /\ WF_Lvars(focus = "login" /\ L!ScriptLoads)
  /\ WF_Lvars(focus = "login" /\ L!Tick) /\ WF_Lvars(focus = "login" /\ L!Solved)
  /\ WF_Lvars(focus = "login" /\ (L!Verify \/ L!Decide \/ L!Refused \/ L!SignedIn))
  /\ WF_Lvars(focus = "login" /\ L!Submit)
  /\ \A s \in 1..MaxFetches : WF_Dvars(focus = "drawer" /\ D!Ends(s))

Spec == Init /\ [][Next]_vars /\ Fairness

-----------------------------------------------------------------------------
\* Every variable of the modules keeps its type.
TypeOK == S!TypeOK /\ L!TypeOK /\ D!TypeOK

(* Signing in and out *)

\* A valid token goes by signing out, or by a late 401 to another token.
TokenKept == S!TokenKept

\* The login page never leads back to a login page.
RedirectsDoNotNest == S!RedirectsDoNotNest

\* Once the server answers and tokens last, every tab gets into the console.
GetsIn == S!GetsIn

(* The login form *)

\* The page that waits for the widget is going to be told and the one that was
\* left is not, and a verified token is sent again only when the first answer was
\* lost.
WidgetIsUsed == [](L!TimerGoesWithPage /\ L!WidgetOnItsWay) /\ L!UsedOnce

\* A user with the right password gets in, whatever was refused or lost before.
LetIn == L!LetIn

(* What is shown *)

\* A console without a user is shown only until outLogin ends; no name is over
\* another machine's history once that has loaded, unless requests overlapped or
\* failed; and the spinner turns for a request under way.
ShowsWhatIsThere == S!ShownSignedIn /\ D!HistoryOfSelected /\ D!SpinnerForARequest

\* Signing out leaves the console also when the server does not answer, and the
\* spinner stops however requests end.
RequestsEnd == S!LogoutProceeds /\ D!SpinnerEnds
=============================================================================
