------------------------------ MODULE AccountPages ------------------------------
(***************************************************************************)
(* The account pages behind the avatar menu. account/center and the basic   *)
(* settings form ask two endpoints who the user is and keep the answer      *)
(* under one react-query key, so that each page can be given the other's.   *)
(* The form takes its initial values once; the tags a user adds live in the *)
(* card that is there when data is.                                         *)
(***************************************************************************)
EXTENDS Naturals

CONSTANTS
  None,        \* no data, no request, no form, nothing chosen
  Provinces,   \* provinces of the form; a city stands for the one it is in
  Own,         \* the province of the user's data
  Labels,      \* tags a user types
  Retries      \* of a query that fails

Pages == {"center", "base"}

VARIABLES
  place,    \* the page that is open: "other" is any that does not use the query
  cache,    \* whose endpoint's answer is in the cache
  fetch,    \* the query's request: what was asked, what a retry asks, retries left
  form,     \* the settings form while it is mounted
  newTags,  \* of TagList
  doubt     \* history: since the page was opened its own request was not answered

vars == <<place, cache, fetch, form, newTags, doubt>>

Fetch == [asked : Pages, again : Pages, left : 0..Retries]
Form == [from : Pages \cup {"empty"}, typed : BOOLEAN,
         province : Provinces \cup {None}, city : Provinces \cup {None}]

TypeOK ==
  /\ place \in Pages \cup {"other"} /\ cache \in Pages \cup {None}
  /\ fetch \in {None} \cup Fetch /\ form \in {None} \cup Form
  /\ newTags \subseteq Labels /\ doubt \in BOOLEAN

Init ==
  /\ place = "other" /\ cache = None /\ fetch = None
  /\ form = None /\ newTags = {} /\ doubt = FALSE

-----------------------------------------------------------------------------
(* What is rendered *)

\* Variants: a page waits for every request; it does not wait.
Loading_Fetching == fetch # None
Loading_Never == FALSE

\* isLoading: there is no data and a request for it.
Loading == cache = None /\ fetch # None

Mounted ==
  [from |-> IF cache = None THEN "empty" ELSE cache, typed |-> FALSE,
   province |-> IF cache = None THEN None ELSE Own,
   city |-> IF cache = None THEN None ELSE Own]

\* The form with its initial values, and the card, are there or not.
Rendered ==
  /\ form' = IF place' # "base" \/ Loading' THEN None
             ELSE IF form = None THEN Mounted' ELSE form
  /\ newTags' = IF place' # "center" \/ Loading' \/ cache' = None THEN {} ELSE newTags

-----------------------------------------------------------------------------
(* The query *)

Request(p) == [asked |-> p, again |-> p, left |-> Retries]

\* Variant: data that is there is not asked for again.
Open_Cached(p) ==
  /\ p # place /\ place' = p
  /\ fetch' = IF fetch # None THEN [fetch EXCEPT !.again = p]
              ELSE IF cache = None THEN Request(p) ELSE None
  /\ doubt' = (doubt \/ fetch # None)
  /\ UNCHANGED cache /\ Rendered

\* A page mounts: data is stale at once; a request under way is everybody's,
\* and only its retries are made with the options of the page that mounted last.
Open(p) ==
  /\ p # place /\ place' = p
  /\ fetch' = IF fetch = None THEN Request(p) ELSE [fetch EXCEPT !.again = p]
  /\ doubt' = (doubt \/ fetch # None)
  /\ UNCHANGED cache /\ Rendered

Leave ==
  /\ place # "other" /\ place' = "other"
  /\ UNCHANGED <<cache, fetch, doubt>> /\ Rendered

\* The window gets the focus.
Focus ==
  /\ place # "other" /\ fetch = None /\ fetch' = Request(place)
  /\ UNCHANGED <<place, cache, doubt>> /\ Rendered

Answered ==
  /\ fetch # None /\ fetch' = None
  /\ cache' = fetch.asked
  /\ doubt' = (doubt /\ fetch.asked # place)
  /\ UNCHANGED place /\ Rendered

\* Asked again while a page wants it; then the data that is there stays.
Fails ==
  /\ fetch # None
  /\ LET retried == fetch.left > 0 /\ place # "other"
     IN /\ fetch' = IF retried
                    THEN [asked |-> fetch.again, again |-> fetch.again, left |-> fetch.left - 1]
                    ELSE None
        /\ doubt' = (doubt \/ ~retried)
  /\ UNCHANGED <<place, cache>> /\ Rendered

\* Data nobody has used for a while goes.
Collected ==
  /\ place = "other" /\ fetch = None /\ cache # None
  /\ cache' = None
  /\ UNCHANGED <<place, fetch, doubt>> /\ Rendered

-----------------------------------------------------------------------------
(* The user *)

Typed(f) == form' = f /\ UNCHANGED <<place, cache, fetch, newTags, doubt>>

\* Variant: no onValuesChange.
PickProvince_Only(p) ==
  form # None /\ Typed([form EXCEPT !.typed = TRUE, !.province = p])

\* handleValuesChange: another province has other cities.
PickProvince(p) ==
  form # None /\ Typed([form EXCEPT !.typed = TRUE, !.province = p, !.city = None])

\* From the cities of the province; disabled without one.
PickCity ==
  /\ form # None /\ form.province # None
  /\ Typed([form EXCEPT !.typed = TRUE, !.city = form.province])

\* handleInputConfirm, of a label that is not there yet.
AddTag(l) ==
  /\ place = "center" /\ ~Loading /\ cache # None /\ l \notin newTags
  /\ newTags' = newTags \cup {l}
  /\ UNCHANGED <<place, cache, fetch, form, doubt>>

Next ==
  \/ Leave \/ Focus \/ Answered \/ Fails \/ Collected \/ PickCity
  \/ \E p \in Pages : Open(p)
  \/ \E p \in Provinces : PickProvince(p)
  \/ \E l \in Labels : AddTag(l)

Spec == Init /\ [][Next]_vars

-----------------------------------------------------------------------------
(* Properties *)

\* A page with nothing under way shows the answer of its own endpoint, unless
\* it found a request of the other page under way or its own has failed.
OwnData ==
  place \in Pages /\ fetch = None /\ cache # None /\ ~doubt => cache = place

\* A form that stays on the page while data is there was filled with data: it
\* is not left over from before the first answer.
FormHasData == form # None /\ cache # None => form.from # "empty"

\* The city of the form is in its province, whoever's data it began with.
CityOfProvince == form # None => form.city \in {None, form.province}

\* What the user typed, in the form or as tags, is not taken away by a request
\* the page makes in the background, once there is data. (Without data it is:
\* every focus of the window unmounts the form that a failed request left.)
EditsKept ==
  [][/\ form # None /\ form.typed /\ (form' = None \/ ~form'.typed) => place' # place \/ cache = None
     /\ newTags # {} /\ newTags' = {} => place' # place]_vars
=============================================================================
