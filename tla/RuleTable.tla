------------------------------- MODULE RuleTable -------------------------------
(***************************************************************************)
(* The rule table of the template: the list page with its create, configure *)
(* and batch-delete requests, against the development mock, which keeps its *)
(* rows, and the preview worker, which does not. The client sends its       *)
(* arguments one level below where both servers look for them.              *)
(***************************************************************************)
EXTENDS Naturals, Sequences, FiniteSets

CONSTANTS
  None,          \* no request
  InitialRows,   \* rows of genList
  PageSize,      \* rows of a page
  MaxRows        \* bound: no more creates once there are so many rows

VARIABLES
  backend,    \* "mock" or "worker"
  rows,       \* tableListDataSource of the backend: its rows in their order
  query,      \* what the table is set to: page, name searched for, order
  shown,      \* keys the table shows
  fetch,      \* the table's GET: None, "asked", or the keys answered
  selected,   \* selectedRowsState, as keys
  hooked,     \* the create form in the toolbar was rendered with a reload
  form,       \* "closed", "create" or "update"
  posts,      \* the POST of each method: None, "sent", "ok" or "failed"
  missed,     \* history: a create was not followed by a reload
  unanswered  \* history: the last GET has failed

vars == <<backend, rows, query, shown, fetch, selected, hooked, form, posts, missed,
          unanswered>>

Methods == {"post", "update", "delete"}
Row == [key : Nat, named : BOOLEAN]
Pages == 1..((MaxRows + PageSize - 1) \div PageSize)
Query == [page : Pages, name : BOOLEAN, descend : BOOLEAN]
Keys(s) == [i \in DOMAIN s |-> s[i].key]

TypeOK ==
  /\ backend \in {"mock", "worker"} /\ rows \in Seq(Row) /\ query \in Query
  /\ shown \in Seq(Nat) /\ selected \subseteq Nat
  /\ fetch \in {None} \/ fetch.keys \in Seq(Nat)
  /\ hooked \in BOOLEAN /\ form \in {"closed", "create", "update"}
  /\ posts \in [Methods -> {"none", "sent", "ok", "failed"}]
  /\ missed \in BOOLEAN /\ unanswered \in BOOLEAN

-----------------------------------------------------------------------------
(* GET /api/rule *)

\* The rows that match, in their order.
Found(s, q) ==
  LET F[i \in 0..Len(s)] == IF i = 0 THEN <<>>
                            ELSE IF q.name => s[i].named THEN Append(F[i - 1], s[i])
                            ELSE F[i - 1]
  IN F[Len(s)]

\* Rows that are equal in the order keep it; here keys tell rows apart.
Sorted(s, q) ==
  IF ~q.descend THEN s
  ELSE CHOOSE z \in [DOMAIN s -> {s[i] : i \in DOMAIN s}] :
         /\ \A i, j \in DOMAIN s : i < j => z[i].key >= z[j].key
         /\ \A r \in {s[i] : i \in DOMAIN s} :
              Cardinality({i \in DOMAIN s : s[i] = r}) = Cardinality({i \in DOMAIN s : z[i] = r})

Least(a, b) == IF a <= b THEN a ELSE b
Page(s, q) == SubSeq(s, (q.page - 1) * PageSize + 1, Least(Len(s), q.page * PageSize))

\* Variant: the total of what is left on the page.
MockTotal_Found(s, q) == Len(Found(Page(s, q), q))

\* The mock takes the page first and searches it.
MockTotal(s, q) == Len(s)
MockPage(s, q) == Found(Sorted(Page(s, q), q), q)

\* The worker searches and sorts, and takes the page.
WorkerTotal(s, q) == Len(Found(s, q))
WorkerPage(s, q) == Page(Sorted(Found(s, q), q), q)

Answer(b, s, q) ==
  IF b = "mock" THEN [keys |-> Keys(MockPage(s, q)), total |-> MockTotal(s, q)]
  ELSE [keys |-> Keys(WorkerPage(s, q)), total |-> WorkerTotal(s, q)]

-----------------------------------------------------------------------------
(* The table *)

\* What rule() asks for: ProTable passes the order as its second argument, which
\* rule() takes for options of the request and not for parameters.
Sent(q) == [q EXCEPT !.descend = FALSE]

FirstPage == [page |-> 1, name |-> FALSE, descend |-> FALSE]
Asked == [keys |-> <<>>, done |-> FALSE]

Init ==
  /\ backend \in {"mock", "worker"}
  /\ rows = [i \in 1..InitialRows |-> [key |-> InitialRows - i, named |-> TRUE]]
  /\ query = FirstPage /\ shown = <<>> /\ fetch = Asked
  /\ selected = {} /\ hooked = FALSE /\ form = "closed"
  /\ posts = [m \in Methods |-> "none"] /\ missed = FALSE /\ unanswered = FALSE

\* Another page, a search or an order; the table asks again, and drops the
\* request that is under way.
Ask(q) ==
  /\ form = "closed" /\ q # query
  /\ query' = q /\ fetch' = Asked
  /\ UNCHANGED <<backend, rows, shown, selected, hooked, form, posts, missed, unanswered>>

GetRule ==
  /\ fetch # None /\ ~fetch.done
  /\ fetch' = [keys |-> Answer(backend, rows, Sent(query)).keys, done |-> TRUE]
  /\ missed' = FALSE
  /\ UNCHANGED <<backend, rows, query, shown, selected, hooked, form, posts, unanswered>>

\* The answer is shown; the toolbar may be rendered with it.
Show ==
  /\ fetch # None /\ fetch.done
  /\ shown' = fetch.keys /\ fetch' = None /\ unanswered' = FALSE
  /\ hooked' \in {hooked, TRUE}
  /\ UNCHANGED <<backend, rows, query, selected, form, posts, missed>>

\* The GET or its answer is lost: the loading ends, and the rows of an earlier
\* question stay under the page and the search of this one.
GetFails ==
  /\ fetch # None /\ ~fetch.done
  /\ fetch' = None /\ unanswered' = TRUE
  /\ hooked' \in {hooked, TRUE}
  /\ UNCHANGED <<backend, rows, query, shown, selected, form, posts, missed>>

\* The page renders for its selection, and the toolbar with it.
Select(k) ==
  /\ form = "closed" /\ k \in {shown[i] : i \in DOMAIN shown}
  /\ selected' = (selected \ {k}) \cup ({k} \ selected)
  /\ hooked' = TRUE
  /\ UNCHANGED <<backend, rows, query, shown, fetch, form, posts, missed, unanswered>>

OpenForm(f) ==
  /\ form = "closed" /\ f = "update" => shown # <<>>
  /\ form' = f
  /\ UNCHANGED <<backend, rows, query, shown, fetch, selected, hooked, posts, missed, unanswered>>

CloseForm ==
  /\ form # "closed" /\ form' = "closed"
  /\ UNCHANGED <<backend, rows, query, shown, fetch, selected, hooked, posts, missed, unanswered>>

\* The buttons are busy while their request is under way.
Submit(m) ==
  /\ posts[m] = "none"
  /\ m = "post" => form = "create" /\ Len(rows) < MaxRows
  /\ m = "update" => form = "update"
  /\ m = "delete" => form = "closed" /\ selected # {}
  /\ posts' = [posts EXCEPT ![m] = "sent"]
  /\ UNCHANGED <<backend, rows, query, shown, fetch, selected, hooked, form, missed, unanswered>>

-----------------------------------------------------------------------------
(* POST /api/rule: body.key and body.name are not there, body.data is not read *)

Answers(m, a) == posts' = [posts EXCEPT ![m] = a]

PostRow ==
  /\ posts["post"] = "sent" /\ Answers("post", "ok")
  /\ rows' = IF backend = "mock"
             THEN <<[key |-> Len(rows), named |-> FALSE]>> \o rows ELSE rows
  /\ UNCHANGED <<backend, query, shown, fetch, selected, hooked, form, missed, unanswered>>

\* No row has the key that is not there.
PostUpdate ==
  /\ posts["update"] = "sent" /\ Answers("update", "ok")
  /\ UNCHANGED <<backend, rows, query, shown, fetch, selected, hooked, form, missed, unanswered>>

\* Variant: the arguments are where the server looks for them.
PostDelete_Found ==
  /\ posts["delete"] = "sent" /\ Answers("delete", "ok")
  /\ LET Stays(r) == backend = "worker" \/ r.key \notin selected
     IN rows' = SelectSeq(rows, Stays)
  /\ UNCHANGED <<backend, query, shown, fetch, selected, hooked, form, missed, unanswered>>

\* The mock throws at the first row; the worker answers and deletes nothing.
PostDelete ==
  /\ posts["delete"] = "sent"
  /\ Answers("delete", IF backend = "mock" /\ rows # <<>> THEN "failed" ELSE "ok")
  /\ UNCHANGED <<backend, rows, query, shown, fetch, selected, hooked, form, missed, unanswered>>

PostFails(m) ==
  /\ posts[m] = "sent" /\ Answers(m, "failed")
  /\ UNCHANGED <<backend, rows, query, shown, fetch, selected, hooked, form, missed, unanswered>>

-----------------------------------------------------------------------------
(* What the page does with the answer *)

\* Variant: the list is left to the invalidated query, which the table is not.
Created_Invalidates ==
  /\ posts["post"] = "ok" /\ Answers("post", "none")
  /\ form' = IF form = "create" THEN "closed" ELSE form
  /\ UNCHANGED <<backend, rows, query, shown, fetch, selected, hooked, missed, unanswered>>

\* onSuccess of the create form, with the reload it was rendered with.
Created ==
  /\ posts["post"] = "ok" /\ Answers("post", "none")
  /\ form' = IF form = "create" THEN "closed" ELSE form
  /\ IF hooked THEN fetch' = Asked /\ UNCHANGED missed
     ELSE missed' = TRUE /\ UNCHANGED fetch
  /\ UNCHANGED <<backend, rows, query, shown, selected, hooked, unanswered>>

Updated ==
  /\ posts["update"] = "ok" /\ Answers("update", "none")
  /\ form' = IF form = "update" THEN "closed" ELSE form
  /\ fetch' = Asked
  /\ UNCHANGED <<backend, rows, query, shown, selected, hooked, missed, unanswered>>

\* reloadAndRest: back to the first page.
Deleted ==
  /\ posts["delete"] = "ok" /\ Answers("delete", "none")
  /\ selected' = {} /\ hooked' = TRUE
  /\ query' = [query EXCEPT !.page = 1] /\ fetch' = Asked
  /\ UNCHANGED <<backend, rows, shown, form, missed, unanswered>>

\* onError: a message; the form stays, the selection too.
Refused(m) ==
  /\ posts[m] = "failed" /\ Answers(m, "none")
  /\ UNCHANGED <<backend, rows, query, shown, fetch, selected, hooked, form, missed, unanswered>>

Next ==
  \/ GetRule \/ Show \/ GetFails \/ CloseForm
  \/ PostRow \/ PostUpdate \/ PostDelete \/ Created \/ Updated \/ Deleted
  \/ \E q \in Query : Ask(q)
  \/ \E k \in 0..MaxRows : Select(k)
  \/ \E f \in {"create", "update"} : OpenForm(f)
  \/ \E m \in Methods : Submit(m) \/ PostFails(m) \/ Refused(m)

Spec == Init /\ [][Next]_vars

-----------------------------------------------------------------------------
(* Properties *)

\* Keys tell the rows of the table apart, though the mock takes the number of
\* rows for the next key: because deleting never succeeds.
KeysUnique == \A i, j \in DOMAIN rows : i # j => rows[i].key # rows[j].key

\* A table with nothing under way shows what the server has of what was asked,
\* whatever was created meanwhile, unless the create form had no reload to call or
\* the last GET has failed.
ShowsServer ==
  fetch = None /\ ~missed /\ ~unanswered /\ (\A m \in Methods : posts[m] # "ok")
    => shown = Answer(backend, rows, Sent(query)).keys

\* Every row that is searched for is on exactly one of the pages that the total
\* announces, with both servers.
EveryRowHasAPage ==
  \A n, d \in BOOLEAN : \A r \in {rows[i] : i \in DOMAIN rows} : (n => r.named) =>
    LET Of(p) == Answer(backend, rows, [page |-> p, name |-> n, descend |-> d])
        Announced == {p \in Pages : (p - 1) * PageSize < Of(p).total}
    IN Cardinality({p \in Announced : r.key \in {Of(p).keys[i] : i \in DOMAIN Of(p).keys}}) = 1
=============================================================================
