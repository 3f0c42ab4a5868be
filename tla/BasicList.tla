------------------------------- MODULE BasicList -------------------------------
(***************************************************************************)
(* The task list of the template: one modal for creating, editing and the   *)
(* result, requests whose answer nobody waits for, and a mock that makes a  *)
(* new list for every GET and deletes from a copy.                          *)
(***************************************************************************)
EXTENDS Naturals, Sequences

CONSTANTS
  None,      \* no data, nothing edited
  Count,     \* items of fakeList
  MaxPosts   \* bound: requests under way

Methods == {"add", "remove"}

VARIABLES
  items,     \* sourceData of the mock: how many items there are with each id
  list,      \* ids of the page's list
  fetch,     \* the query's request: None, "asked" or the ids answered
  modal,     \* "closed", "add" or "edit": what the user has opened it for
  done,      \* it shows the result
  current,   \* the item whose values it begins with; 0 is {}
  posts      \* requests under way, by method and how far they are

vars == <<items, list, fetch, modal, done, current, posts>>
dialog == <<modal, done, current>>

\* Items that were created since the last GET have the next ids.
Ids == 1..Count + MaxPosts
Post == [method : Methods, id : Ids \cup {0}, stage : {"sent", "ok"}]

Ask == [ids |-> {}, done |-> FALSE]

TypeOK ==
  /\ items \in [Ids -> 0..MaxPosts + 1] /\ list \subseteq Ids
  /\ fetch = None \/ fetch.ids \subseteq Ids
  /\ modal \in {"closed", "add", "edit"} /\ done \in BOOLEAN
  /\ current \in Ids \cup {0, None}
  /\ posts \in Seq(Post) /\ Len(posts) <= MaxPosts

Made == [i \in Ids |-> IF i <= Count THEN 1 ELSE 0]
Shown(f) == {i \in Ids : f[i] > 0}

\* Before the first GET the mock has nothing, and the page nothing to show.
Init ==
  /\ items = [i \in Ids |-> 0] /\ list = {} /\ fetch = Ask
  /\ modal = "closed" /\ done = FALSE /\ current = None /\ posts = <<>>

-----------------------------------------------------------------------------
(* The query and the mock *)

\* get_list: a new list, whatever was posted to the one before.
GetList ==
  /\ fetch # None /\ ~fetch.done
  /\ items' = Made
  /\ fetch' = [ids |-> Shown(Made), done |-> TRUE]
  /\ UNCHANGED <<list, dialog, posts>>

Show ==
  /\ fetch # None /\ fetch.done
  /\ list' = fetch.ids /\ fetch' = None
  /\ UNCHANGED <<items, dialog, posts>>

Length(f) ==
  LET S[i \in Ids \cup {0}] == IF i = 0 THEN 0 ELSE S[i - 1] + f[i] IN S[Count + MaxPosts]

Without(s, n) == SubSeq(s, 1, n - 1) \o SubSeq(s, n + 1, Len(s))

\* Variant: the list without the item becomes the mock's.
Removed_Kept(n) == [items EXCEPT ![posts[n].id] = 0]

\* The filter makes a list that is answered and forgotten.
Removed(n) == items

\* post_fake_list: an item is created in place, its id the length of the list.
\* (A list that is as long as the bound takes no more.)
PostList(n) ==
  /\ n \in DOMAIN posts /\ posts[n].stage = "sent"
  /\ \/ /\ posts[n].method = "add" /\ Length(items) < Count + MaxPosts
        /\ items' = [items EXCEPT ![Length(items) + 1] = @ + 1]
     \/ /\ posts[n].method = "remove"
        /\ items' = Removed(n)
  /\ posts' = [posts EXCEPT ![n].stage = "ok"]
  /\ UNCHANGED <<list, fetch, dialog>>

\* onSuccess: the query is asked again, instead of what is under way.
Posted(n) ==
  /\ n \in DOMAIN posts /\ posts[n].stage = "ok"
  /\ posts' = Without(posts, n) /\ fetch' = Ask
  /\ UNCHANGED <<items, list, dialog>>

PostFails(n) ==
  /\ n \in DOMAIN posts
  /\ posts' = Without(posts, n)
  /\ UNCHANGED <<items, list, fetch, dialog>>

-----------------------------------------------------------------------------
(* The page *)

Sends(m, i) ==
  /\ Len(posts) < MaxPosts
  /\ posts' = Append(posts, [method |-> m, id |-> i, stage |-> "sent"])

Delete(i) ==
  /\ modal = "closed" /\ i \in list /\ Sends("remove", i)
  /\ UNCHANGED <<items, list, fetch, dialog>>

Edit(i) ==
  /\ modal = "closed" /\ i \in list
  /\ modal' = "edit" /\ current' = i
  /\ UNCHANGED <<items, list, fetch, done, posts>>

Add ==
  /\ modal = "closed" /\ modal' = "add"
  /\ UNCHANGED <<items, list, fetch, done, current, posts>>

\* handleSubmit: success is shown at once. The form has no field for the id, so
\* that an edited item is added.
Submit ==
  /\ modal # "closed" /\ ~done
  /\ done' = TRUE /\ Sends("add", 0)
  /\ UNCHANGED <<items, list, fetch, modal, current>>

\* Variant: the item stays for the next time.
Done_Keeps ==
  /\ modal # "closed"
  /\ modal' = "closed" /\ done' = FALSE
  /\ UNCHANGED <<items, list, fetch, current, posts>>

\* handleDone, of the result and of cancelling.
Done ==
  /\ modal # "closed"
  /\ modal' = "closed" /\ done' = FALSE /\ current' = 0
  /\ UNCHANGED <<items, list, fetch, posts>>

Next ==
  \/ GetList \/ Show \/ Add \/ Submit \/ Done
  \/ \E i \in Ids : Delete(i) \/ Edit(i)
  \/ \E n \in 1..MaxPosts : PostList(n) \/ Posted(n) \/ PostFails(n)

Spec == Init /\ [][Next]_vars

-----------------------------------------------------------------------------
(* Properties *)

\* The ids of the mock's items, which are the length of the list, tell them
\* apart: because what is deleted stays.
IdsUnique == \A i \in Ids : items[i] <= 1

\* A new task does not begin with the values of one that was edited before,
\* whether that was sent or cancelled.
AddBeginsEmpty == modal = "add" => current \in {0, None}
=============================================================================
