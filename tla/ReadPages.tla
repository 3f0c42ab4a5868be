------------------------------- MODULE ReadPages -------------------------------
(***************************************************************************)
(* The pages of the template that only show what a server answers:          *)
(* analysis, workplace, the two profiles, the cards and the word cloud of    *)
(* the monitor. A page has queries of react-query and panels that draw       *)
(* fields of their data; most panels show a skeleton while isLoading. The    *)
(* server is the mock of the development server or the worker of the        *)
(* preview. One page is looked at, left and opened again.                    *)
(***************************************************************************)
EXTENDS FiniteSets

VARIABLES
  server,        \* "mock" or "worker"
  page,          \* the page under study
  shown,         \* whether it is open
  online,
  cache,         \* per query key, the fields of its data; none before the first answer
  fetch,         \* per query key, fetchStatus
  failed,        \* query keys of status error
  pageTab, operationKey,  \* the advanced profile's tabStatus
  cardTab                 \* the tab its Card shows as active

uiVars == <<pageTab, operationKey, cardTab>>
vars == <<server, page, shown, online, cache, fetch, failed, uiVars>>

-----------------------------------------------------------------------------
(* What the servers answer *)

\* The charts of analysis and workplace, as the mocks of both pages have them.
MockChart ==
  {"visitData", "visitData2", "salesData", "searchData", "offlineData", "offlineChartData",
   "salesTypeData", "salesTypeDataOnline", "salesTypeDataOffline", "radarData"}
MockRadar == {"radarData"}
MockWorkplace ==
  {"visitData", "visitData2", "salesData", "searchData", "offlineData", "offlineChartData",
   "salesTypeData", "salesTypeDataOnline", "salesTypeDataOffline"} \cup MockRadar
WorkerChart == {"visitData", "visitData2", "radarData", "salesData", "searchData"}
  \cup {"offlineData", "offlineChartData"}
  \cup {"salesTypeData", "salesTypeDataOnline", "salesTypeDataOffline"}

\* Fields every item of the list has.
MockNotice == {"title", "logo", "description", "updatedAt", "member"}
WorkerNotice == {"title", "logo", "description", "updatedAt", "member"}

\* An activity has a template with the names of some of its fields.
Activity(has, names) == [has |-> has, names |-> names]
MockActivities ==
  {Activity({"user", "group", "project"}, {"group", "project"}),
   Activity({"user", "project"}, {"project"}),
   Activity({"user", "project", "comment"}, {"project", "comment"})}
WorkerActivities ==
  {Activity({"user", "project"}, {"project"}),
   Activity({"user", "project", "comment"}, {"project", "comment"}),
   Activity({"user", "group", "project"}, {"group", "project"})}

\* renderActivities shows a link for a name it finds, and else the name. What is
\* drawn well are the activities without such a name.
Filled(as) == IF \A a \in as : a.names \subseteq a.has THEN {"events"} ELSE {}

MockAdvanced == {"advancedOperation1", "advancedOperation2", "advancedOperation3"}
WorkerAdvanced == {"advancedOperation1", "advancedOperation2", "advancedOperation3"}
MockBasic == {"basicGoods", "basicProgress"}
WorkerBasic == {"basicProgress", "basicGoods"}

Answer ==
  [mock |->
    [analysis |-> MockChart, notice |-> MockNotice, chart |-> MockWorkplace,
     activities |-> Filled(MockActivities), basic |-> MockBasic,
     advanced |-> MockAdvanced, cards |-> {"list"}, tags |-> {"list"}],
   worker |->
    [analysis |-> WorkerChart, notice |-> WorkerNotice, chart |-> WorkerChart,
     activities |-> Filled(WorkerActivities), basic |-> WorkerBasic,
     advanced |-> WorkerAdvanced, cards |-> {"list"}, tags |-> {"list"}]]

Keys == DOMAIN Answer["mock"]

-----------------------------------------------------------------------------
(* The panels *)

\* isLoading: a request under way and nothing yet to show.
Loading(k) == fetch[k] = "fetching" /\ cache[k] = {} /\ k \notin failed

\* A card with a skeleton while its query is loading, and one without.
Waits(k, draws) == [key |-> k, draws |-> draws, waits |-> TRUE]
AtOnce(k, draws) == [key |-> k, draws |-> draws, waits |-> FALSE]

\* Variant: the charts are not told that there is no data yet.
IntroduceRow_AtOnce == AtOnce("analysis", {"visitData"})

\* The footer and the totals of the four cards do not depend on data.
IntroduceRow == Waits("analysis", {"visitData"})

\* The tab for the visits draws the sales too.
SalesCard == Waits("analysis", {"salesData"})
TopSearch == Waits("analysis", {"visitData2", "searchData"})
\* One of the three, by salesType.
ProportionSales ==
  Waits("analysis", {"salesTypeData", "salesTypeDataOnline", "salesTypeDataOffline"})
OfflineData == Waits("analysis", {"offlineData", "offlineChartData"})

ProjectList == Waits("notice", {"title", "logo", "description", "updatedAt", "member"})
Team == Waits("notice", {"logo", "member"})
Activities == Waits("activities", {"events"})
\* Its card waits only for a list that is there and empty.
RadarCard == AtOnce("chart", {"radarData"})

Goods == Waits("basic", {"basicGoods"})
Progress == Waits("basic", {"basicProgress"})

Operation == [tab1 |-> "advancedOperation1", tab2 |-> "advancedOperation2",
              tab3 |-> "advancedOperation3"]
Operations == Waits("advanced", {Operation[operationKey]})

Cards == Waits("cards", {"list"})
HotSearch == Waits("tags", {"list"})

AnalysisPage == {IntroduceRow, SalesCard, TopSearch, ProportionSales, OfflineData}
WorkplacePage == {ProjectList, Team, Activities, RadarCard}
BasicPage == {Goods, Progress}
AdvancedPage == {Operations}
CardsPage == {Cards}
MonitorPage == {HotSearch}   \* and ActiveChart and MonitorMap, modules of their own

Pages == {"analysis", "workplace", "basic", "advanced", "cards", "monitor"}
Panels ==
  [analysis |-> AnalysisPage, workplace |-> WorkplacePage, basic |-> BasicPage,
   advanced |-> AdvancedPage, cards |-> CardsPage, monitor |-> MonitorPage]

\* The queries the open page observes.
Observed == IF shown THEN {p.key : p \in Panels[page]} ELSE {}

\* What a panel draws without having it.
Missing(p) == IF p.waits /\ Loading(p.key) THEN {} ELSE p.draws \ cache[p.key]

-----------------------------------------------------------------------------
(* Queries *)

TypeOK ==
  /\ server \in {"mock", "worker"} /\ page \in Pages
  /\ shown \in BOOLEAN /\ online \in BOOLEAN
  /\ \A k \in Keys : cache[k] \in {{}, Answer[server][k]}
  /\ fetch \in [Keys -> {"idle", "fetching", "paused"}]
  /\ failed \subseteq Keys
  /\ pageTab \in {"detail", "rule"}
  /\ operationKey \in DOMAIN Operation /\ cardTab \in DOMAIN Operation

Init ==
  /\ server \in {"mock", "worker"} /\ page \in Pages
  /\ shown = FALSE /\ online = TRUE
  /\ cache = [k \in Keys |-> {}] /\ fetch = [k \in Keys |-> "idle"] /\ failed = {}
  /\ pageTab = "detail" /\ operationKey = "tab1" /\ cardTab = "tab1"

\* Requests for ks start, or wait for the connection; an error without data is
\* forgotten with that.
Start(ks) ==
  /\ fetch' = [k \in Keys |-> IF k \notin ks \/ fetch[k] # "idle" THEN fetch[k]
                              ELSE IF online THEN "fetching" ELSE "paused"]
  /\ failed' = failed \ {k \in ks : fetch[k] = "idle"}

Answered(k) ==
  /\ fetch[k] = "fetching" /\ online
  /\ cache' = [cache EXCEPT ![k] = Answer[server][k]]
  /\ fetch' = [fetch EXCEPT ![k] = "idle"] /\ failed' = failed \ {k}
  /\ UNCHANGED <<server, page, shown, online, uiVars>>

\* No retry is left. Data that is there stays.
Fails(k) ==
  /\ fetch[k] = "fetching"
  /\ fetch' = [fetch EXCEPT ![k] = "idle"]
  /\ failed' = failed \cup (IF cache[k] = {} THEN {k} ELSE {})
  /\ UNCHANGED <<server, page, shown, online, cache, uiVars>>

\* A retry waits for the connection.
Pauses(k) ==
  /\ fetch[k] = "fetching" /\ ~online
  /\ fetch' = [fetch EXCEPT ![k] = "paused"]
  /\ UNCHANGED <<server, page, shown, online, cache, failed, uiVars>>

GoOffline ==
  /\ online /\ online' = FALSE
  /\ UNCHANGED <<server, page, shown, cache, fetch, failed, uiVars>>

\* What waits goes on, what is observed is asked for again.
GoOnline ==
  /\ ~online /\ online' = TRUE
  /\ fetch' = [k \in Keys |-> IF fetch[k] = "paused" \/ k \in Observed THEN "fetching"
                              ELSE fetch[k]]
  /\ failed' = failed \ {k \in Observed : fetch[k] = "idle"}
  /\ UNCHANGED <<server, page, shown, cache, uiVars>>

\* The window gets the focus.
Focus ==
  /\ \E k \in Observed : fetch[k] = "idle"
  /\ Start(Observed)
  /\ UNCHANGED <<server, page, shown, online, cache, uiVars>>

\* Data that nobody looks at is dropped after a while.
Collected(k) ==
  /\ k \notin Observed /\ fetch[k] = "idle" /\ (cache[k] # {} \/ k \in failed)
  /\ cache' = [cache EXCEPT ![k] = {}] /\ failed' = failed \ {k}
  /\ UNCHANGED <<server, page, shown, online, fetch, uiVars>>

-----------------------------------------------------------------------------
(* The user *)

Open ==
  /\ ~shown /\ shown' = TRUE
  /\ Start({p.key : p \in Panels[page]})
  /\ pageTab' = "detail" /\ operationKey' = "tab1" /\ cardTab' = "tab1"
  /\ UNCHANGED <<server, page, online, cache>>

\* A request under way goes on.
Leave ==
  /\ shown /\ shown' = FALSE
  /\ UNCHANGED <<server, page, online, cache, fetch, failed, uiVars>>

\* Variant: the tab of the page is set and the rest of the state is not kept.
OnTabChange_Resets(t) ==
  /\ shown /\ page = "advanced" /\ t # pageTab
  /\ pageTab' = t /\ operationKey' = "tab1"
  /\ UNCHANGED <<server, page, shown, online, cache, fetch, failed, cardTab>>

\* Nothing on the page depends on it but the tab itself.
OnTabChange(t) ==
  /\ shown /\ page = "advanced" /\ t # pageTab
  /\ pageTab' = t
  /\ UNCHANGED <<server, page, shown, online, cache, fetch, failed, operationKey, cardTab>>

\* The Card has no activeTabKey and keeps the tab it shows itself.
OnOperationTabChange(t) ==
  /\ shown /\ page = "advanced" /\ t # cardTab
  /\ cardTab' = t /\ operationKey' = t
  /\ UNCHANGED <<server, page, shown, online, cache, fetch, failed, pageTab>>

Next ==
  \/ GoOffline \/ GoOnline \/ Focus \/ Open \/ Leave
  \/ \E k \in Keys : Answered(k) \/ Fails(k) \/ Pauses(k) \/ Collected(k)
  \/ \E t \in {"detail", "rule"} : OnTabChange(t)
  \/ \E t \in DOMAIN Operation : OnOperationTabChange(t)

Spec == Init /\ [][Next]_vars

-----------------------------------------------------------------------------
(* Properties *)

\* A page does not draw charts and lists it has no data for, with either
\* server, unless the request failed or waits for the connection. (The radar of
\* the workplace is drawn empty until its data has come.)
DrawnWithData ==
  shown => \A p \in Panels[page] : Missing(p) # {} =>
             p.key \in failed \/ fetch[p.key] = "paused" \/ p = RadarCard

\* The operations under the tabs are those of the tab that is active.
TabsAgree == shown => cardTab = operationKey
=============================================================================
