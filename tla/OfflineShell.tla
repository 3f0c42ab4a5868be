----------------------------- MODULE OfflineShell -----------------------------
(***************************************************************************)
(* What the console shows when the network is not there: ErrorBoundary and  *)
(* OfflineBanner around a page whose code is a chunk React.lazy imports.     *)
(* The boundary nearest the page is modelled, with one page and the home     *)
(* page, which needs no chunk that can fail.                                 *)
(***************************************************************************)
EXTENDS Naturals

CONSTANTS
  MaxRetries   \* bound: clicks on "retry" in a document

VARIABLES
  online,    \* navigator.onLine
  doc,       \* the document: "none" after a load that failed, "render", "live"
  lazy,      \* the page's React.lazy component in this document
  place,     \* what the user has asked for
  error,     \* hasError and error of the boundary
  told,      \* isOnline of the boundary
  retryCount,  \* of the boundary, the key of its children
  banner,    \* what OfflineBanner has rendered for: isOnline
  flipped,   \* history: online changed between the boundary's constructor and mount
  since      \* history: the connection came back while this error was shown

boundary == <<error, told, retryCount>>
ghosts == <<flipped, since>>
vars == <<online, doc, lazy, place, boundary, banner, ghosts>>

Lazies == {"never", "pending", "resolved", "rejected"}
Errors == {"none", "chunk", "render"}

TypeOK ==
  /\ online \in BOOLEAN /\ doc \in {"none", "render", "live"}
  /\ lazy \in Lazies /\ place \in {"home", "page"} /\ error \in Errors
  /\ told \in BOOLEAN /\ banner \in BOOLEAN /\ flipped \in BOOLEAN
  /\ since \in BOOLEAN /\ retryCount \in 0..MaxRetries

\* A document begins to render: the boundary's constructor reads the status.
Fresh ==
  /\ lazy' = "never" /\ error' = "none" /\ told' = online' /\ banner' = online'
  /\ flipped' = FALSE /\ since' = FALSE /\ retryCount' = 0
  /\ doc' = IF online' THEN "render" ELSE "none"

Init ==
  /\ online = TRUE /\ doc = "render" /\ lazy = "never" /\ place \in {"home", "page"}
  /\ error = "none" /\ told = TRUE /\ banner = TRUE
  /\ flipped = FALSE /\ since = FALSE /\ retryCount = 0

\* Variant: the banner keeps what it has rendered with.
Mount_Kept ==
  /\ doc = "render" /\ doc' = "live"
  /\ UNCHANGED <<online, banner, lazy, place, boundary, ghosts>>

\* componentDidMount and the banner's subscription; useSyncExternalStore looks
\* at the status again, the boundary does not.
Mount ==
  /\ doc = "render" /\ doc' = "live"
  /\ banner' = online
  /\ UNCHANGED <<online, lazy, place, boundary, ghosts>>

GoOffline ==
  /\ online /\ online' = FALSE
  /\ IF doc = "live" THEN told' = FALSE /\ banner' = FALSE ELSE UNCHANGED <<told, banner>>
  /\ flipped' = (flipped \/ doc = "render")
  /\ UNCHANGED <<doc, lazy, place, error, since, retryCount>>

\* Variant: only the message changes.
GoOnline_NoReload ==
  /\ ~online /\ online' = TRUE
  /\ IF doc = "live" THEN told' = TRUE /\ banner' = TRUE ELSE UNCHANGED <<told, banner>>
  /\ flipped' = (flipped \/ doc = "render")
  /\ since' = (since \/ error # "none")
  /\ UNCHANGED <<doc, lazy, place, error, retryCount>>

\* The online event: a chunk error reloads the document.
GoOnline ==
  /\ ~online /\ online' = TRUE
  /\ \/ /\ doc = "live" /\ error = "chunk"
        /\ Fresh
     \/ /\ ~(doc = "live" /\ error = "chunk")
        /\ IF doc = "live" THEN told' = TRUE /\ banner' = TRUE ELSE UNCHANGED <<told, banner>>
        /\ flipped' = (flipped \/ doc = "render")
        /\ since' = (since \/ error # "none")
        /\ UNCHANGED <<doc, lazy, error, retryCount>>
  /\ UNCHANGED place

\* A link to the page or away from it; React renders the page and asks for its
\* chunk, or throws what it was rejected with.
Render(p) ==
  /\ place' = p
  /\ IF p = "page" /\ lazy = "never"
     THEN lazy' = "pending" ELSE UNCHANGED lazy
  /\ IF p = "page" /\ lazy = "rejected"
     THEN error' = "chunk" /\ since' = FALSE ELSE error' = "none" /\ UNCHANGED since

Open(p) ==
  /\ doc = "live" /\ error = "none"
  /\ p # place \/ (p = "page" /\ lazy = "never")
  /\ Render(p)
  /\ UNCHANGED <<online, doc, told, retryCount, banner, flipped>>

ImportOk ==
  /\ doc = "live" /\ lazy = "pending" /\ online
  /\ lazy' = "resolved"
  /\ UNCHANGED <<online, doc, place, boundary, banner, ghosts>>

\* Without a connection, or because the server does not have the chunk.
ImportFails ==
  /\ doc = "live" /\ lazy = "pending"
  /\ lazy' = "rejected"
  /\ IF place = "page" THEN error' = "chunk" /\ since' = FALSE
     ELSE UNCHANGED <<error, since>>
  /\ UNCHANGED <<online, doc, place, told, retryCount, banner, flipped>>

\* The page throws while it renders.
RenderFails ==
  /\ doc = "live" /\ error = "none" /\ place = "page" /\ lazy = "resolved"
  /\ error' = "render" /\ since' = FALSE
  /\ UNCHANGED <<online, doc, lazy, place, told, retryCount, banner, flipped>>

\* handleRetry, offered for a chunk error: the children are mounted again, with
\* the React.lazy components the document has.
Retry ==
  /\ doc = "live" /\ error = "chunk"
  /\ retryCount < MaxRetries /\ retryCount' = retryCount + 1
  /\ Render("page")
  /\ UNCHANGED <<online, doc, told, banner, flipped>>

\* The reload button, or the browser's.
Reload == UNCHANGED <<online, place>> /\ Fresh

Home ==
  /\ doc = "live" /\ error # "none"
  /\ UNCHANGED online /\ place' = "home" /\ Fresh

Next ==
  \/ Mount \/ GoOffline \/ GoOnline \/ ImportOk \/ ImportFails \/ RenderFails
  \/ Retry \/ Reload \/ Home \/ \E p \in {"home", "page"} : Open(p)

Spec == Init /\ [][Next]_vars

-----------------------------------------------------------------------------
(* Properties *)

\* The banner tells whether the browser is online, in every document that has
\* mounted; the boundary's text does unless the status changed before it had.
StatusIsTold ==
  doc = "live" => banner = online /\ (told = online \/ flipped)

\* A failed page is not still on show after the connection came back: it has
\* been reloaded, whatever was opened, retried or lost in between.
ChunkErrorEndsOnline == error = "chunk" => ~since
=============================================================================
