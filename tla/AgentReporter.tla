---------------------------- MODULE AgentReporter ----------------------------
(***************************************************************************)
(* The agent (agent/main.py): the outer loop that connects and retries, the *)
(* report loop with its wait for an answer, the task that refreshes the     *)
(* public address, and the stop event the signal handlers set.  A wait_for  *)
(* ends early or at its timeout; a plain sleep cannot be cut short.         *)
(*                                                                         *)
(* The server at the other end, the network and psutil are external: they   *)
(* fail, and send what is no answer, while there is trouble and then only.  *)
(***************************************************************************)
EXTENDS Naturals, FiniteSetsExt

CONSTANT MaxLate   \* bound: answers a slow server may be behind


VARIABLES
  pc,        \* where _main is
  geo,       \* where _geo_refresh_loop is
  stop,      \* the stop event
  link,      \* the websocket as the agent sees it
  owed,      \* reports of this connection the server has not answered
  unread,    \* answers the agent has not read
  backoff,   \* seconds before the next attempt
  retries,   \* history: waits before another attempt so far, counted up to 5
  timeouts,  \* history: reports of this connection logged "no-ack"
  trouble    \* whether server, network or psutil may fail at present

net == <<link, owed, unread>>
vars == <<pc, geo, stop, net, backoff, retries, timeouts, trouble>>

MainPc == {"prime", "unprimed", "warmup", "outer", "dial", "inner", "report", "recv", "pause",
           "close", "retry", "sleep", "ended"}
Delay == {1, 2, 4, 8, 16, 30}

TypeOK ==
  /\ pc \in MainPc
  /\ geo \in {"none", "wait", "fetch", "ended"}
  /\ stop \in BOOLEAN
  /\ link \in {"none", "open", "half", "broken"}
  /\ owed \in 0..MaxLate
  /\ unread \in 0..MaxLate
  /\ backoff \in Delay
  /\ retries \in 0..5
  /\ timeouts \in 0..MaxLate
  /\ trouble \in BOOLEAN

Init ==
  /\ pc = "prime" /\ geo = "none"
  /\ stop = FALSE
  /\ link = "none" /\ owed = 0 /\ unread = 0
  /\ backoff = 1
  /\ retries = 0 /\ timeouts = 0
  /\ trouble \in BOOLEAN

-----------------------------------------------------------------------------
(* _main *)

\* prime() calls psutil outside every try: what that raises ends the process.
Prime ==
  /\ pc = "prime"
  /\ \/ pc' = "warmup"
     \/ trouble /\ pc' = "unprimed"
  /\ UNCHANGED <<geo, stop, net, backoff, retries, timeouts, trouble>>

\* First lookup and sleep(1) are over: handlers, address task, first attempt.
Warm ==
  /\ pc = "warmup"
  /\ pc' = "outer" /\ geo' = "wait"
  /\ UNCHANGED <<stop, net, backoff, retries, timeouts, trouble>>

\* "while not stop.is_set()"; the end of _main cancels the address task.
Outer ==
  /\ pc = "outer"
  /\ \/ ~stop /\ pc' = "dial" /\ UNCHANGED geo
     \/ /\ stop /\ pc' = "ended"
        /\ geo' = IF geo = "wait" THEN "ended" ELSE geo
  /\ UNCHANGED <<stop, net, backoff, retries, timeouts, trouble>>

NewLink(s) == link' = s /\ owed' = 0 /\ unread' = 0 /\ timeouts' = 0

\* Variant: only the expected exceptions are handled.
Fail_Unexpected ==
  /\ NewLink("none")
  /\ pc' \in {"retry", "ended"}
  /\ UNCHANGED <<geo, stop, backoff, retries, trouble>>

\* An exception leaves the report loop: one that is expected is followed by a
\* wait the stop event ends, any other by a sleep.
Fail ==
  /\ NewLink("none")
  /\ pc' \in {"retry", "sleep"}
  /\ UNCHANGED <<geo, stop, backoff, retries, trouble>>

Dial ==
  /\ pc = "dial"
  /\ \/ trouble /\ Fail
     \/ /\ NewLink("open")
        /\ pc' = "inner"
        /\ UNCHANGED <<geo, stop, backoff, retries, trouble>>

\* Variant: the delay has no upper limit but its own next doubling.
Retry_Unbounded ==
  /\ pc \in {"retry", "sleep"}
  /\ pc' = "outer"
  /\ backoff' = IF backoff > 30 THEN backoff ELSE backoff * 2
  /\ retries' = Min({5, retries + 1})
  /\ UNCHANGED <<geo, stop, net, timeouts, trouble>>

\* The wait before the next attempt, and the longer delay after it.
Retry ==
  /\ pc \in {"retry", "sleep"}
  /\ pc' = "outer"
  /\ backoff' = Min({backoff * 2, 30})
  /\ retries' = Min({5, retries + 1})
  /\ UNCHANGED <<geo, stop, net, timeouts, trouble>>

-----------------------------------------------------------------------------
(* _report_loop *)

\* Variant: the report loop never looks at the stop event.
Inner_Endless ==
  /\ pc = "inner"
  /\ pc' = "report"
  /\ UNCHANGED <<geo, stop, net, backoff, retries, timeouts, trouble>>

Inner ==
  /\ pc = "inner"
  /\ pc' = IF stop THEN "close" ELSE "report"
  /\ UNCHANGED <<geo, stop, net, backoff, retries, timeouts, trouble>>

\* build_payload and send: collect can raise, send raises on a broken link and
\* does not notice a peer that vanished.
Report ==
  /\ pc = "report"
  /\ \/ (trouble \/ link = "broken") /\ Fail
     \/ /\ link # "broken"
        /\ owed' = IF link = "open" THEN owed + 1 ELSE owed
        /\ pc' = "recv"
        /\ UNCHANGED <<geo, stop, link, unread, backoff, retries, timeouts, trouble>>

\* Variant: recv is repeated while there are answers.
Answered_Drains ==
  /\ pc = "recv" /\ unread > 0
  /\ unread' = 0
  /\ pc' = "pause"
  /\ UNCHANGED <<geo, stop, link, owed, backoff, retries, timeouts, trouble>>

\* The oldest answer is read, whichever report it is for.
Answered ==
  /\ pc = "recv" /\ unread > 0
  /\ unread' = unread - 1
  /\ pc' = "pause"
  /\ UNCHANGED <<geo, stop, link, owed, backoff, retries, timeouts, trouble>>

\* An answer that is not JSON, or no object: what json.loads or get raises is not
\* among the exceptions that are expected.
Garbled ==
  /\ pc = "recv" /\ unread > 0 /\ trouble
  /\ Fail /\ pc' = "sleep"

\* No answer within the interval: the report is logged "no-ack".
NoAck ==
  /\ pc = "recv" /\ unread = 0 /\ link # "broken"
  /\ timeouts < MaxLate /\ (link = "open" => owed < MaxLate)
  /\ timeouts' = timeouts + 1
  /\ pc' = "pause"
  /\ UNCHANGED <<geo, stop, net, backoff, retries, trouble>>

\* ConnectionClosed, once the answers received before it are read.
RecvFails ==
  /\ pc = "recv" /\ unread = 0 /\ link = "broken"
  /\ Fail

\* The pause between reports: the interval, or until stop is set.
Pause ==
  /\ pc = "pause"
  /\ pc' = "inner"
  /\ UNCHANGED <<geo, stop, net, backoff, retries, timeouts, trouble>>

\* The closing handshake, which does not wait longer than its timeout, and
\* the "else" of the outer loop.
CloseLink ==
  /\ pc = "close"
  /\ NewLink("none")
  /\ backoff' = 1
  /\ pc' = "outer"
  /\ UNCHANGED <<geo, stop, retries, trouble>>

-----------------------------------------------------------------------------
(* _geo_refresh_loop *)

\* geoip._TTL has passed, or the stop event is set.
GeoWake ==
  /\ geo = "wait"
  /\ geo' = IF stop THEN "ended" ELSE "fetch"
  /\ UNCHANGED <<pc, stop, net, backoff, retries, timeouts, trouble>>

\* A lookup ends in a thread of its own, with an answer or without; asyncio.run
\* waits for that thread when the task has been cancelled.
GeoFetched ==
  /\ geo = "fetch"
  /\ geo' = IF stop THEN "ended" ELSE "wait"
  /\ UNCHANGED <<pc, stop, net, backoff, retries, timeouts, trouble>>

-----------------------------------------------------------------------------
(* External: the signal, the server, the network *)

\* Handlers are installed after the warm-up; before, a signal kills the process
\* (or, to process 1 of a container, is nothing).
Signal ==
  /\ ~stop /\ pc # "unprimed"
  /\ IF pc \in {"prime", "warmup"}
     THEN pc' = "ended" /\ geo' = "ended" /\ stop' = TRUE
     ELSE stop' = TRUE /\ UNCHANGED <<pc, geo>>
  /\ UNCHANGED <<net, backoff, retries, timeouts, trouble>>

Answer ==
  /\ link = "open" /\ owed > 0
  /\ owed' = owed - 1 /\ unread' = unread + 1
  /\ UNCHANGED <<pc, geo, stop, link, backoff, retries, timeouts, trouble>>

\* The connection is closed or reset, or the server is gone without a word:
\* what it had not answered is lost.
Break ==
  /\ link = "open" /\ trouble
  /\ link' \in {"half", "broken"}
  /\ owed' = 0
  /\ UNCHANGED <<pc, geo, stop, unread, backoff, retries, timeouts, trouble>>

\* The keepalive ping was not answered.
Keepalive ==
  /\ link = "half"
  /\ link' = "broken"
  /\ UNCHANGED <<pc, geo, stop, owed, unread, backoff, retries, timeouts, trouble>>

Weather ==
  /\ trouble' = ~trouble
  /\ UNCHANGED <<pc, geo, stop, net, backoff, retries, timeouts>>

-----------------------------------------------------------------------------

Main ==
  \/ Prime \/ Warm \/ Outer \/ Dial \/ Retry
  \/ Inner \/ Report \/ Answered \/ Garbled \/ NoAck \/ RecvFails \/ Pause \/ CloseLink

Geo == GeoWake \/ GeoFetched

Next == Main \/ Geo \/ Signal \/ Answer \/ Break \/ Keepalive \/ Weather

Spec == Init /\ [][Next]_vars

\* The event loop runs on and its timeouts pass; the keepalive finds a dead
\* peer; a server that is there answers in the end.
Fairness == WF_vars(Main) /\ WF_vars(Geo) /\ WF_vars(Keepalive) /\ WF_vars(Answer)

FairSpec == Spec /\ Fairness

-----------------------------------------------------------------------------
(* Properties *)

\* The delay before the next attempt doubles with every retry since the agent
\* was started, up to 30 seconds; connections that were healthy for however
\* long in between do not shorten it, only the stop event does.
DelayFollowsRetries ==
  ~stop => backoff = IF retries = 5 THEN 30 ELSE 2 ^ retries

\* An answer that came too late is read as that of the next report: over a
\* connection, the agent stays behind the server's answers by exactly the number of
\* reports it has given up on.
BehindByTimeouts ==
  link = "open" =>
    owed + unread = timeouts + (IF pc = "recv" THEN 1 ELSE 0)

\* However the connection, the server and psutil fail, once they work again
\* the agent goes on to deliver reports.  The one exception is a failure of psutil
\* in prime(), before there is a loop: nothing in the program starts it again.
KeepsReporting ==
  <>[](~trouble /\ ~stop /\ pc # "unprimed") => []<>(pc = "recv" /\ link = "open")

\* A signal ends the agent, wherever it waits: for an answer, between
\* reports, between attempts, or for the address.
StopEnds == stop ~> (pc = "ended" /\ geo = "ended")
=============================================================================
