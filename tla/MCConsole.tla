------------------------------ MODULE MCConsole ------------------------------
(***************************************************************************)
(* The remaining pages of the console, its offline shell, the rates and the  *)
(* address it shows, and the scripts that cut it down. A browser shows one   *)
(* of them at a time and they share no state: each is checked from its own   *)
(* initial states by its own next-state relation, one of them in a behaviour. *)
(***************************************************************************)
EXTENDS Naturals, Sequences

CONSTANTS
  None,
  Kilo, Units, MaxBytes, MaxElapsed,    \* NetRates
  Fields, Places, Country, MaxUpsets,   \* AddressCache
  MaxRetries,                           \* OfflineShell
  Kept, Dropped, Computed, Top, Nested, \* Tooling
  InitialRows, PageSize, MaxRows,       \* RuleTable
  Provinces, Own, Labels, Retries,      \* AccountPages
  Tags, MaxRunning,                     \* SearchList
  Amounts,                              \* StepForm
  Inputs, Given, MaxMembers,            \* AdvancedForm
  Versions,                             \* MonitorMap
  Passwords, Seconds, MaxOld,           \* Register
  Count, MaxPosts,                      \* BasicList
  Presets, Default, MaxChats,           \* Chatbot
  Lengths, Months, Week, Hours, Clocks, \* SalesPeriod
  Timers                                \* ActiveChart

\* Two years of three short months.
TwoYears == <<3, 2, 3, 3, 2, 3>>

\* Two of three addresses are in one country.
HomeOrAbroad == [p \in Places |-> IF p = "abroad" THEN "abroad" ELSE "home"]

VARIABLES
  focus,  \* the module under study
  bytes, elapsed, prev, rate, traffic, seconds, dropped,
  geoPlace, task, asked, disabled, geoCache, session, row, left, pieced,
  shellOnline, doc, lazy, shellPlace, shellError, told, retryCount, banner,
  flipped, since,
  text, routes, chinese, backup, locale, locales, deps, entries, script, torn,
  step, todo, map,
  backend, rows, query, ruleShown, ruleFetch, selected, hooked, ruleForm,
  rulePosts, missed, unanswered,
  accountPlace, accountCache, accountFetch, accountForm, newTags, accountDoubt,
  searchPage, chosen, key, searchCache, searchFetch, searchDoubt,
  stepCurrent, draft, stepData, stepPassword,
  filled, memberError, memberBusy, members, creating, keyCounter,
  mapOpen, data, mapFailed, mapBusy, svg, seen, drawn, lost,
  regOpen, count, interval, first, old, regPassword, confirm, request,
  items, list, listFetch, modal, done, listCurrent, listPosts,
  conversations, newest, drafts, activeKey, counter, answering,
  server, readPage, readShown, readOnline, readCache, readFetch, readFailed,
  pageTab, operationKey, cardTab,
  short, long, today, rendered, range, picked,
  mounted, timerRef, waiting

N == INSTANCE NetRates
K == INSTANCE AddressCache WITH
  Empty <- None, place <- geoPlace, cache <- geoCache
O == INSTANCE OfflineShell WITH
  online <- shellOnline, place <- shellPlace, error <- shellError
T == INSTANCE Tooling
R == INSTANCE RuleTable WITH
  shown <- ruleShown, fetch <- ruleFetch, form <- ruleForm, posts <- rulePosts
A == INSTANCE AccountPages WITH
  place <- accountPlace, cache <- accountCache, fetch <- accountFetch,
  form <- accountForm, doubt <- accountDoubt
S == INSTANCE SearchList WITH
  page <- searchPage, cache <- searchCache, fetch <- searchFetch,
  doubt <- searchDoubt
F == INSTANCE StepForm WITH
  current <- stepCurrent, password <- stepPassword
D == INSTANCE AdvancedForm WITH
  MaxNew <- MaxMembers, Fields <- Inputs, error <- memberError,
  busy <- memberBusy
M == INSTANCE MonitorMap WITH
  open <- mapOpen, failed <- mapFailed, busy <- mapBusy
G == INSTANCE Register WITH
  open <- regOpen, password <- regPassword
B == INSTANCE BasicList WITH
  fetch <- listFetch, current <- listCurrent, posts <- listPosts
C == INSTANCE Chatbot WITH
  MaxNew <- MaxChats
P == INSTANCE ReadPages WITH
  page <- readPage, shown <- readShown, online <- readOnline,
  cache <- readCache, fetch <- readFetch, failed <- readFailed
E == INSTANCE SalesPeriod
H == INSTANCE ActiveChart

\* What stands for an absence is none of the values it is the absence of, and
\* names that play different parts differ.
ASSUME ConsoleAssumption ==
  /\ {MaxBytes, MaxElapsed, MaxUpsets, MaxRetries, Retries, MaxOld, MaxPosts,
      MaxChats} \subseteq Nat
  /\ {Kilo, Units, PageSize, InitialRows, MaxMembers, Seconds, Count, Week, Months}
       \subseteq Nat \ {0}
  /\ Lengths \in Seq(Nat \ {0}) /\ Lengths[Len(Lengths)] >= Week
  /\ \E years \in 1..Len(Lengths) : Len(Lengths) = years * Months
  /\ Hours \in Nat /\ Hours >= 2 /\ Clocks \subseteq Nat
  /\ MaxRows \in Nat /\ InitialRows <= MaxRows
  /\ None \notin Nat \cup Places \cup Given \cup Provinces \cup A!Pages \cup Versions
                   \cup Passwords \cup Timers
  /\ \A p \in Places : Country[p] # None
  /\ None \notin A!Fetch \cup A!Form /\ \A c \in S!Filters : c # None
  /\ None \notin [of : [M!Queries -> Versions \cup {None}], loading : BOOLEAN]
  /\ None \notin [password : Passwords, confirm : Passwords]
  /\ None \notin [ids : SUBSET B!Ids, done : BOOLEAN]
  /\ None \notin [keys : Seq(Nat), done : BOOLEAN]
  /\ Own \in Provinces /\ Default \in Presets
  /\ Given \cap D!NewKeys = {}
  /\ Kept \cap Dropped = {}
  /\ T!Files \cap {"routes", "config", "package", "menu"} = {}

Nvars == <<bytes, elapsed, prev, rate, traffic, seconds, dropped>>
Kvars == <<geoPlace, task, asked, disabled, geoCache, session, row, left,
           pieced>>
Ovars == <<shellOnline, doc, lazy, shellPlace, shellError, told, retryCount,
           banner, flipped, since>>
Tvars == <<text, routes, chinese, backup, locale, locales, deps, entries,
           script, torn, step, todo, map>>
Rvars == <<backend, rows, query, ruleShown, ruleFetch, selected, hooked,
           ruleForm, rulePosts, missed, unanswered>>
Avars == <<accountPlace, accountCache, accountFetch, accountForm, newTags,
           accountDoubt>>
Svars == <<searchPage, chosen, key, searchCache, searchFetch, searchDoubt>>
Fvars == <<stepCurrent, draft, stepData, stepPassword>>
Dvars == <<filled, memberError, memberBusy, members, creating, keyCounter>>
Mvars == <<mapOpen, data, mapFailed, mapBusy, svg, seen, drawn, lost>>
Gvars == <<regOpen, count, interval, first, old, regPassword, confirm,
           request>>
Bvars == <<items, list, listFetch, modal, done, listCurrent, listPosts>>
Cvars == <<conversations, newest, drafts, activeKey, counter, answering>>
Pvars == <<server, readPage, readShown, readOnline, readCache, readFetch,
           readFailed, pageTab, operationKey, cardTab>>
Evars == <<short, long, today, rendered, range, picked>>
Hvars == <<mounted, timerRef, waiting>>
vars == <<focus, Nvars, Kvars, Ovars, Tvars, Rvars, Avars, Svars, Fvars,
          Dvars, Mvars, Gvars, Bvars, Cvars, Pvars, Evars, Hvars>>

-----------------------------------------------------------------------------

Init ==
  /\ focus \in {"rates", "address", "shell", "scripts", "rules", "account",
                "search", "transfer", "advanced", "monitor", "register",
                "tasks", "chatbot", "reading", "period", "chart"}
  /\ N!Init /\ (focus # "rates" => bytes = 0)
  /\ K!Init /\ (focus # "address" => disabled /\ left = 0 /\ geoPlace = CHOOSE p \in Places : TRUE)
  /\ O!Init /\ (focus # "shell" => shellPlace = "home")
  /\ T!Init
  /\ R!Init /\ (focus # "rules" => backend = "mock")
  /\ A!Init
  /\ S!Init /\ (focus # "search" => searchPage = "articles")
  /\ F!Init /\ (focus # "transfer" => draft = CHOOSE a \in Amounts : TRUE)
  /\ D!Init
  /\ M!Init
  /\ G!Init
  /\ B!Init
  /\ C!Init
  /\ P!Init /\ (focus # "reading" => server = "mock" /\ readPage = "analysis")
  /\ E!Init /\ (focus # "period" => short = None /\ long = None /\ today = 4)
  /\ H!Init

Next ==
  /\ UNCHANGED focus
  /\ \/ /\ focus = "rates" /\ N!Next
        /\ UNCHANGED <<Kvars, Ovars, Tvars, Rvars, Avars, Svars, Fvars, Dvars,
                       Mvars, Gvars, Bvars, Cvars, Pvars, Evars, Hvars>>
     \/ /\ focus = "address" /\ K!Next
        /\ UNCHANGED <<Nvars, Ovars, Tvars, Rvars, Avars, Svars, Fvars, Dvars,
                       Mvars, Gvars, Bvars, Cvars, Pvars, Evars, Hvars>>
     \/ /\ focus = "shell" /\ O!Next
        /\ UNCHANGED <<Nvars, Kvars, Tvars, Rvars, Avars, Svars, Fvars, Dvars,
                       Mvars, Gvars, Bvars, Cvars, Pvars, Evars, Hvars>>
     \/ /\ focus = "scripts" /\ T!Next
        /\ UNCHANGED <<Nvars, Kvars, Ovars, Rvars, Avars, Svars, Fvars, Dvars,
                       Mvars, Gvars, Bvars, Cvars, Pvars, Evars, Hvars>>
     \/ /\ focus = "rules" /\ R!Next
        /\ UNCHANGED <<Nvars, Kvars, Ovars, Tvars, Avars, Svars, Fvars, Dvars,
                       Mvars, Gvars, Bvars, Cvars, Pvars, Evars, Hvars>>
     \/ /\ focus = "account" /\ A!Next
        /\ UNCHANGED <<Nvars, Kvars, Ovars, Tvars, Rvars, Svars, Fvars, Dvars,
                       Mvars, Gvars, Bvars, Cvars, Pvars, Evars, Hvars>>
     \/ /\ focus = "search" /\ S!Next
        /\ UNCHANGED <<Nvars, Kvars, Ovars, Tvars, Rvars, Avars, Fvars, Dvars,
                       Mvars, Gvars, Bvars, Cvars, Pvars, Evars, Hvars>>
     \/ /\ focus = "transfer" /\ F!Next
        /\ UNCHANGED <<Nvars, Kvars, Ovars, Tvars, Rvars, Avars, Svars, Dvars,
                       Mvars, Gvars, Bvars, Cvars, Pvars, Evars, Hvars>>
     \/ /\ focus = "advanced" /\ D!Next
        /\ UNCHANGED <<Nvars, Kvars, Ovars, Tvars, Rvars, Avars, Svars, Fvars,
                       Mvars, Gvars, Bvars, Cvars, Pvars, Evars, Hvars>>
     \/ /\ focus = "monitor" /\ M!Next
        /\ UNCHANGED <<Nvars, Kvars, Ovars, Tvars, Rvars, Avars, Svars, Fvars,
                       Dvars, Gvars, Bvars, Cvars, Pvars, Evars, Hvars>>
     \/ /\ focus = "register" /\ G!Next
        /\ UNCHANGED <<Nvars, Kvars, Ovars, Tvars, Rvars, Avars, Svars, Fvars,
                       Dvars, Mvars, Bvars, Cvars, Pvars, Evars, Hvars>>
     \/ /\ focus = "tasks" /\ B!Next
        /\ UNCHANGED <<Nvars, Kvars, Ovars, Tvars, Rvars, Avars, Svars, Fvars,
                       Dvars, Mvars, Gvars, Cvars, Pvars, Evars, Hvars>>
     \/ /\ focus = "chatbot" /\ C!Next
        /\ UNCHANGED <<Nvars, Kvars, Ovars, Tvars, Rvars, Avars, Svars, Fvars,
                       Dvars, Mvars, Gvars, Bvars, Pvars, Evars, Hvars>>
     \/ /\ focus = "reading" /\ P!Next
        /\ UNCHANGED <<Nvars, Kvars, Ovars, Tvars, Rvars, Avars, Svars, Fvars,
                       Dvars, Mvars, Gvars, Bvars, Cvars, Evars, Hvars>>
     \/ /\ focus = "period" /\ E!Next
        /\ UNCHANGED <<Nvars, Kvars, Ovars, Tvars, Rvars, Avars, Svars, Fvars,
                       Dvars, Mvars, Gvars, Bvars, Cvars, Pvars, Hvars>>
     \/ /\ focus = "chart" /\ H!Next
        /\ UNCHANGED <<Nvars, Kvars, Ovars, Tvars, Rvars, Avars, Svars, Fvars,
                       Dvars, Mvars, Gvars, Bvars, Cvars, Pvars, Evars>>

Spec == Init /\ [][Next]_vars

-----------------------------------------------------------------------------
\* Every variable of the module under study keeps its type.
TypeOK ==
  /\ focus = "rates" => N!TypeOK
  /\ focus = "address" => K!TypeOK
  /\ focus = "shell" => O!TypeOK
  /\ focus = "scripts" => T!TypeOK
  /\ focus = "rules" => R!TypeOK
  /\ focus = "account" => A!TypeOK
  /\ focus = "search" => S!TypeOK
  /\ focus = "transfer" => F!TypeOK
  /\ focus = "advanced" => D!TypeOK
  /\ focus = "monitor" => M!TypeOK
  /\ focus = "register" => G!TypeOK
  /\ focus = "tasks" => B!TypeOK
  /\ focus = "chatbot" => C!TypeOK
  /\ focus = "reading" => P!TypeOK
  /\ focus = "period" => E!TypeOK
  /\ focus = "chart" => H!TypeOK

\* A reported rate times the time it stands for is the traffic of that time.
RateIsTraffic == N!RateIsTraffic

\* A background request does not take away what was typed.
EditsKept == A!EditsKept

\* Keys and ids tell the rows, members and tasks of a list apart, and a row is on
\* exactly one of the pages that are announced.
KeysTellApart ==
  /\ focus = "rules" => R!KeysUnique /\ R!EveryRowHasAPage
  /\ focus = "advanced" => D!MembersAreTold
  /\ focus = "tasks" => B!IdsUnique

\* A page with nothing under way shows what its own server has of what was asked
\* for, but for the overlaps and failures its module names.
ShowsWhatWasAsked ==
  /\ focus = "rules" => R!ShowsServer
  /\ focus = "account" => A!OwnData
  /\ focus = "search" => S!ListOfFilters
  /\ focus = "reading" => P!DrawnWithData

\* What is kept in two places agrees: a rate and its unit, an address and its
\* country (but for a row that was pieced together), a form and its data, a city
\* and its province, what is confirmed and what was drafted, errors and the values
\* that are sent, two passwords, a modal and its purpose, the active conversation
\* and the list, a tab and the table under it, a period and the button that is lit.
HoldsTogether ==
  /\ focus = "rates" => N!WrittenInAUnit
  /\ focus = "address" => K!OneLookup
  /\ focus = "account" => A!FormHasData /\ A!CityOfProvince
  /\ focus = "transfer" => F!ConfirmsDraft
  /\ focus = "advanced" => D!ErrorsGo
  /\ focus = "register" => G!SentTwice
  /\ focus = "tasks" => B!AddBeginsEmpty
  /\ focus = "chatbot" => C!ActiveIsListed
  /\ focus = "reading" => P!TabsAgree
  /\ focus = "period" => E!RangeIsPeriod /\ E!LitIsCurrent

\* What has come is not still waited for: the connection by a banner or a failed
\* page, the data by the map, the end of the countdown by the captcha button; and
\* no timer runs for a chart that is gone.
NothingIsStuck ==
  /\ focus = "shell" => O!StatusIsTold /\ O!ChunkErrorEndsOnline
  /\ focus = "monitor" => M!DrawnWhenShown
  /\ focus = "register" => G!WaitsForTheInterval
  /\ focus = "chart" => H!OneTimer

\* Stopped anywhere and run again in any order, the scripts lose no text, are
\* offered while there is work, and end with the same tree.
ScriptsComplete ==
  /\ focus = "scripts" => T!TextsAreTranslated /\ T!CanBeRunAgain /\ T!SameInEitherOrder
=============================================================================
